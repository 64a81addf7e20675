------------------------------ MODULE RxQueue ------------------------------
(***************************************************************************)
(* What a captured receive queue promises: packets are taken from the NIC  *)
(* in the order they came, each once; they are lost only in the NIC, all   *)
(* that wait there together; the process is given them in that order, none *)
(* passed over; and the buffer of a packet is used for another one only    *)
(* when the process has been given the packet.                             *)
(***************************************************************************)
EXTENDS Integers, Sequences

CONSTANT Size          \* buffers for packets

VARIABLES came,        \* packets that have come
          waiting,     \* those of them that wait in the NIC
          taken,       \* those that were taken from it
          given,       \* how many of the latter the process has been given
          released,    \* and of how many the buffers are free again
          running      \* the NIC receives

Held == Len(waiting) + Len(taken) - released

Init ==
    /\ came = 0 /\ waiting = <<>> /\ taken = <<>> /\ given = 0 /\ released = 0
    /\ running = TRUE

Arrive ==
    /\ running /\ Held < Size
    /\ came' = came + 1
    /\ waiting' = Append(waiting, came')
    /\ UNCHANGED <<taken, given, released, running>>

Take ==
    /\ waiting # <<>>
    /\ taken' = Append(taken, Head(waiting))
    /\ waiting' = Tail(waiting)
    /\ UNCHANGED <<came, given, released, running>>

Give ==
    /\ given < Len(taken)
    /\ given' = given + 1
    /\ UNCHANGED <<came, waiting, taken, released, running>>

Release ==
    /\ released' \in released + 1 .. given
    /\ UNCHANGED <<came, waiting, taken, given, running>>

\* A reset of the NIC: it stops, what waits in it is lost, and it starts empty.
Stop ==
    /\ running
    /\ running' = FALSE
    /\ UNCHANGED <<came, waiting, taken, given, released>>

Drop ==
    /\ ~running
    /\ waiting' = <<>>
    /\ UNCHANGED <<came, taken, given, released, running>>

Start ==
    /\ ~running /\ waiting = <<>>
    /\ running' = TRUE
    /\ UNCHANGED <<came, waiting, taken, given, released>>

Next == Arrive \/ Take \/ Give \/ Release \/ Stop \/ Drop \/ Start

vars == <<came, waiting, taken, given, released, running>>
Spec == Init /\ [][Next]_vars
=============================================================================
