------------------------------ MODULE DupQueue ------------------------------
(***************************************************************************)
(* One queue of the duplicator: a thread of the duplicator copies packets  *)
(* from the receive ring into a ring of slots in shared memory, and a      *)
(* program that called dup_loop reads them there.  No lock is taken; each  *)
(* side has its own copy of the index it moves.                            *)
(*                                                                         *)
(* widx and ridx are volatile, so each mention of the other side's index   *)
(* is a load of its own, and a call can see two values of it.  A call is   *)
(* torn when it does and what it returns is wrong for the second.          *)
(*                                                                         *)
(* Packets are numbered in the order of the receive ring; the number       *)
(* stands for length, info and bytes.  The copies of a packet in several   *)
(* queues are independent, and one is modelled.                            *)
(***************************************************************************)
EXTENDS Integers, Sequences

CONSTANTS
    N,            \* num_slots, a power of two
    Batch,        \* DUP_PKT_PER_PROCESS
    MaxPkts,      \* bound: packets the receive ring offers
    MaxRestarts,  \* bound: deaths of the reading program, another one following it
    LoadsTear     \* FALSE: a thread stops at its first torn call

ASSUME DupQueueAssumption ==
    /\ N \in Nat \ {0, 1} /\ \E p \in 1 .. N : N = 2 ^ p
    /\ Batch \in Nat \ {0}
    /\ MaxPkts \in Nat /\ MaxRestarts \in Nat
    /\ LoadsTear \in BOOLEAN

VARIABLES
    widx, ridx, slot, drops,             \* struct dup_queue, in shared memory
    wpc, w, wavali, seen, ret,           \* the duplicator's thread: where it is, its
                                         \* index, slots it takes as free, the last load
                                         \* of ridx, where write_avali returns to
    next, todo, rx, errs, packets,       \* next packet, left of the batch, size of the
                                         \* batch, err_pkt, targs->packets
    rpc, r, ravali, i, seenw,            \* the reader: the same, and the turns done
    accepted, batch, got,                \* history: packets copied, read in this batch,
                                         \* read and given back
    torn, hadRoom, restarts              \* a call was torn; free slots at write_avali's
                                         \* last load

qvars == <<widx, ridx, slot, drops>>
wvars == <<wpc, w, wavali, seen, ret>>
bvars == <<next, todo, rx, errs, packets>>
rvars == <<rpc, r, ravali, i, seenw>>
hvars == <<accepted, batch, got>>
vars == <<qvars, wvars, bvars, rvars, hvars, torn, hadRoom, restarts>>

Index == 0 .. N - 1
Packets == 0 .. MaxPkts          \* 0: an empty slot
Smaller(a, b) == IF a < b THEN a ELSE b

MNextIdx(x) == IF x = N - 1 THEN 1 ELSE x + 1               \* mistake: slot 0 is left out
NextIdx(x) == (x + 1) % N                                   \* DUP_SLOT_IDX_NEXT
MAdv(x, count) == x + count                                 \* mistake: no wrap
Adv(x, count) == (x + count) % N                            \* read_adv and write_adv
Offset(x) == (x - widx) % N                                 \* DUP_QUEUE_WIDX_OFFSET
Waiting == (widx - ridx) % N                                \* packets to read
Room == N - 1 - Waiting                                     \* slots really free

\* dup_queue_init, then dup_proc_intel and dup_loop up to their loops
Init ==
    /\ widx = 0 /\ ridx = 0 /\ slot = [x \in Index |-> 0] /\ drops = 0
    /\ wpc = "idle" /\ w = 0 /\ wavali = N - 1 /\ seen = 0 /\ ret = "idle"
    /\ next = 1 /\ todo = 0 /\ rx = 0 /\ errs = 0 /\ packets = 0
    /\ rpc = "idle" /\ r = 0 /\ ravali = 0 /\ i = 0 /\ seenw = 0
    /\ accepted = <<>> /\ batch = <<>> /\ got = <<>>
    /\ torn = FALSE /\ hadRoom = N - 1 /\ restarts = 0

----------------------------------------------------------------------------
(* The duplicator's thread.  A batch is what the receive ring has, and that *)
(* is fewer than its slots, which are at most N.                            *)

WBatch ==
    /\ wpc = "idle"
    /\ \E b \in 1 .. Smaller(N - 1, Batch) :
          next + b - 1 <= MaxPkts /\ rx' = b /\ todo' = b
    /\ errs' = 0
    /\ wpc' = "packet"
    /\ UNCHANGED <<qvars, w, wavali, seen, ret, next, packets, rvars, hvars, torn, hadRoom,
                   restarts>>

PacketDone == next' = next + 1 /\ todo' = todo - 1 /\ UNCHANGED <<rx, packets>>

\* a packet of length zero, or too long for a slot
WError ==
    /\ wpc = "packet" /\ todo > 0
    /\ errs' = errs + 1
    /\ PacketDone
    /\ UNCHANGED <<qvars, wvars, rvars, hvars, torn, hadRoom, restarts>>

\* no slot is known to be free: look again
WLook ==
    /\ wpc = "packet" /\ todo > 0 /\ wavali = 0
    /\ wpc' = "load1" /\ ret' = "full"
    /\ UNCHANGED <<qvars, w, wavali, seen, bvars, rvars, hvars, torn, hadRoom, restarts>>

\* and drop the packet if there is none
MWDrop ==                                       \* mistake: the drop is not counted
    /\ wpc = "full" /\ wavali = 0
    /\ wpc' = "packet"
    /\ PacketDone
    /\ UNCHANGED <<qvars, w, wavali, seen, ret, errs, rvars, hvars, torn, hadRoom, restarts>>
WDrop ==
    /\ wpc = "full" /\ wavali = 0
    /\ drops' = drops + 1
    /\ wpc' = "packet"
    /\ PacketDone
    /\ UNCHANGED <<widx, ridx, slot, w, wavali, seen, ret, errs, rvars, hvars, torn,
                   hadRoom, restarts>>

\* copy it; if the free slots are used up, they are published
WCopy ==
    /\ wpc \in {"packet", "full"} /\ todo > 0 /\ wavali # 0
    /\ slot' = [slot EXCEPT ![w] = next]
    /\ w' = NextIdx(w)
    /\ wpc' = IF Offset(NextIdx(w)) = wavali THEN "publish" ELSE "packet"
    /\ accepted' = Append(accepted, next)
    /\ PacketDone
    /\ UNCHANGED <<widx, ridx, drops, wavali, seen, ret, errs, rvars, batch, got, torn,
                   hadRoom, restarts>>

WPublish ==
    /\ wpc = "publish"
    /\ widx' = Adv(widx, wavali)
    /\ wpc' = "load1" /\ ret' = "packet"
    /\ UNCHANGED <<ridx, slot, drops, w, wavali, seen, bvars, rvars, hvars, torn, hadRoom,
                   restarts>>

\* the batch is done: publish the rest
WEnd ==
    /\ wpc = "packet" /\ todo = 0
    /\ widx' = Adv(widx, Offset(w))
    /\ wpc' = "load1" /\ ret' = "done"
    /\ UNCHANGED <<ridx, slot, drops, w, wavali, seen, bvars, rvars, hvars, torn, hadRoom,
                   restarts>>

\* and count it
WCount ==
    /\ wpc = "done"
    /\ packets' = packets + (rx - errs)
    /\ wpc' = "idle"
    /\ UNCHANGED <<qvars, w, wavali, seen, ret, next, todo, rx, errs, rvars, hvars, torn,
                   hadRoom, restarts>>

----------------------------------------------------------------------------
(* dup_queue_write_avali: up to three loads of ridx.                        *)

\* ridx has moved since the load before, and the value is too large, or negative, which
\* to the caller is as good as no bound.  Of an empty queue -1 does no harm: a batch
\* fits in it.
Torn(v) == ridx # seen /\ (v > Room \/ (v < 0 /\ Room < N - 1))

WReturn(v) ==
    /\ wavali' = v /\ hadRoom' = Room
    /\ torn' = (torn \/ Torn(v))
    /\ wpc' = IF Torn(v) /\ ~LoadsTear THEN "stop" ELSE ret
    /\ UNCHANGED <<qvars, w, seen, ret, bvars, rvars, hvars, restarts>>

WLoad1 ==
    /\ wpc = "load1"
    /\ wpc' = IF widx > ridx THEN "above" ELSE "below"
    /\ seen' = ridx
    /\ UNCHANGED <<qvars, w, wavali, ret, bvars, rvars, hvars, torn, hadRoom, restarts>>

MAbove == (ridx - widx + N) % N                             \* mistake: no slot kept free
Above == ((ridx - widx + N) % N) - 1

WAbove == wpc = "above" /\ WReturn(Above)

WBelow ==
    /\ wpc = "below" /\ widx < ridx
    /\ wpc' = "load3" /\ seen' = ridx
    /\ UNCHANGED <<qvars, w, wavali, ret, bvars, rvars, hvars, torn, hadRoom, restarts>>

WEqual == wpc = "below" /\ ~(widx < ridx) /\ WReturn(N - 1)

WLoad3 == wpc = "load3" /\ WReturn(ridx - widx - 1)

----------------------------------------------------------------------------
(* The reader.  dup_queue_read_avali loads widx twice.                      *)

RLoad1 ==
    /\ rpc = "idle"
    /\ seenw' = widx
    /\ rpc' = "load2"
    /\ UNCHANGED <<qvars, wvars, bvars, r, ravali, i, hvars, torn, hadRoom, restarts>>

ReadAvali == IF seenw > ridx THEN widx - ridx ELSE (widx - ridx + N) % N

RLoad2 ==
    /\ rpc = "load2"
    /\ ravali' = ReadAvali
    /\ torn' = (torn \/ ReadAvali < 0)
    /\ i' = 0
    /\ rpc' = CASE ReadAvali = 0 -> "idle"
                [] ReadAvali < 0 /\ ~LoadsTear -> "stop"
                [] OTHER -> "read"
    /\ UNCHANGED <<qvars, wvars, bvars, r, seenw, hvars, hadRoom, restarts>>

RRead ==
    /\ rpc = "read" /\ i < ravali
    /\ batch' = Append(batch, slot[r])
    /\ r' = NextIdx(r)
    /\ i' = i + 1
    /\ UNCHANGED <<qvars, wvars, bvars, rpc, ravali, seenw, got, accepted, torn, hadRoom,
                   restarts>>

MRAdv ==                                        \* mistake: slots are given back too soon
    /\ rpc = "read" /\ i = 0
    /\ ridx' = Adv(ridx, ravali)
    /\ rpc' = "read" /\ i' = i + 1 /\ r' = NextIdx(r)
    /\ batch' = Append(batch, slot[r])
    /\ UNCHANGED <<widx, slot, drops, wvars, bvars, ravali, seenw, accepted, got, torn,
                   hadRoom, restarts>>
RAdv ==
    /\ rpc = "read" /\ i >= ravali
    /\ ridx' = Adv(ridx, ravali)
    /\ rpc' = "idle"
    /\ got' = got \o batch /\ batch' = <<>>
    /\ UNCHANGED <<widx, slot, drops, wvars, bvars, r, ravali, i, seenw, accepted, torn,
                   hadRoom, restarts>>

\* the program dies; the one that follows begins at ridx
RRestart ==
    /\ restarts < MaxRestarts
    /\ restarts' = restarts + 1
    /\ rpc' = "idle" /\ r' = ridx /\ batch' = <<>>
    /\ UNCHANGED <<qvars, wvars, bvars, ravali, i, seenw, accepted, got, torn, hadRoom>>

----------------------------------------------------------------------------
Writer == WError \/ WLook \/ WDrop \/ WCopy \/ WPublish \/ WEnd \/ WCount
Loads == WLoad1 \/ WAbove \/ WBelow \/ WEqual \/ WLoad3
Reader == RLoad1 \/ RLoad2 \/ RRead \/ RAdv

Next == WBatch \/ Writer \/ Loads \/ Reader \/ RRestart

Spec == Init /\ [][Next]_vars

\* two programs that the scheduler lets run; the receive ring may stay empty
Fairness == WF_vars(Writer \/ Loads) /\ WF_vars(Reader)

FairSpec == Spec /\ Fairness

----------------------------------------------------------------------------
TypeOK ==
    /\ widx \in Index /\ ridx \in Index /\ slot \in [Index -> Packets] /\ drops \in Packets
    /\ wpc \in {"idle", "packet", "full", "publish", "done", "load1", "above", "below",
                "load3", "stop"}
    /\ w \in Index /\ wavali \in -N .. N - 1 /\ seen \in Index
    /\ ret \in {"idle", "packet", "full", "done"}
    /\ next \in 1 .. MaxPkts + 1 /\ todo \in 0 .. N - 1 /\ rx \in 0 .. N - 1
    /\ errs \in 0 .. N - 1 /\ packets \in Packets
    /\ rpc \in {"idle", "load2", "read", "stop"} /\ r \in Index /\ ravali \in -N .. N - 1
    /\ i \in 0 .. N - 1 /\ seenw \in Index
    /\ accepted \in Seq(Packets) /\ batch \in Seq(Packets) /\ got \in Seq(Packets)
    /\ torn \in BOOLEAN /\ hadRoom \in 0 .. N - 1 /\ restarts \in 0 .. MaxRestarts

\* The slots of the packets that are written and not given back are never more than
\* N - 1, so that no packet is written over before the reader is done with its slot,
\* wherever the reader is.
NoOverrun == Len(accepted) - Len(got) <= N - 1

\* What the callback is given is the packet that was copied in at that place.
ReadsWhatWasWritten ==
    got \o batch = SubSeq(accepted, 1, Len(got) + Len(batch))

\* A packet is dropped only if the queue was full when write_avali looked last, also
\* if the call was torn.
DropsOnlyWhenFull == wpc = "full" /\ wavali = 0 => hadRoom = 0

\* Between batches the counters agree: the packets reported as received are those
\* copied and those dropped, also if calls were torn.
CountersAgree == wpc = "idle" => packets = Len(accepted) + drops

\* The queue is a FIFO.
Fifo == INSTANCE DupFifo WITH
            Size <- N - 1,
            fifo <- [j \in 1 .. Waiting |-> slot[(ridx + j - 1) % N]],
            got <- got
FifoSpec == Fifo!Spec

\* Every packet copied is read, whenever the reading program dies.
AllRead == []~torn => <>[](got = accepted)

\* A packet the receive ring has handed over is delivered, waiting in the queue, or
\* counted in drops (dpa.h: drops, "number of packets dropped").
LostAreCounted ==
    wpc = "idle" /\ rpc = "idle" => packets = Len(got) + Waiting + drops
=============================================================================
