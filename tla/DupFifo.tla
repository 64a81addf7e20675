------------------------------ MODULE DupFifo ------------------------------
(***************************************************************************)
(* What a queue of the duplicator promises a program that reads it: a FIFO *)
(* of bounded size.  Packets, numbered in the order they came, are put in  *)
(* by batches and taken out by batches, none out of order, none twice and  *)
(* none skipped.                                                           *)
(***************************************************************************)
EXTENDS Integers, Sequences

CONSTANT Size          \* packets the queue can hold

VARIABLES fifo,        \* packets waiting
          got          \* packets the reader has taken and given back the slots of

Increasing(s) == \A j \in 2 .. Len(s) : s[j - 1] < s[j]

Init == fifo = <<>> /\ got = <<>>

Put ==
    /\ Len(fifo') \in Len(fifo) + 1 .. Size
    /\ SubSeq(fifo', 1, Len(fifo)) = fifo
    /\ Increasing(got \o fifo')
    /\ UNCHANGED got

Get ==
    /\ fifo # <<>>
    /\ \E c \in 1 .. Len(fifo) : /\ got' = got \o SubSeq(fifo, 1, c)
                                 /\ fifo' = SubSeq(fifo, c + 1, Len(fifo))

Spec == Init /\ [][Put \/ Get]_<<fifo, got>>
=============================================================================
