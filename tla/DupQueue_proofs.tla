-------------------------- MODULE DupQueue_proofs --------------------------
(***************************************************************************)
(* Proofs about the duplicator's queue, for every size of the queue and of *)
(* a batch, and any number of packets and of readers that die.             *)
(*                                                                         *)
(* Types, counters and drops are right also when loads of an index tear;   *)
(* what the queue holds is right if no thread goes on after a torn call.   *)
(***************************************************************************)
EXTENDS DupQueue, SequenceTheorems, TLAPS

----------------------------------------------------------------------------
(* Indices modulo N.                                                        *)

LEMMA Prefix ==
    ASSUME NEW S, NEW s \in Seq(S), NEW n \in 0 .. Len(s)
    PROVE  /\ SubSeq(s, 1, n) \in Seq(S) /\ Len(SubSeq(s, 1, n)) = n
           /\ \A j \in 1 .. n : SubSeq(s, 1, n)[j] = s[j]
  BY SubSeqProperties, LenProperties

LEMMA Params ==
    /\ N \in Nat /\ N >= 2 /\ Batch \in Nat \ {0}
    /\ MaxPkts \in Nat /\ MaxRestarts \in Nat /\ LoadsTear \in BOOLEAN
  BY DupQueueAssumption

LEMMA ModMinus ==
    \A a, b \in Index : (a - b) % N = IF a >= b THEN a - b ELSE a - b + N
  BY DupQueueAssumption DEF Index

LEMMA ModPlus ==
    \A a \in Index, c \in 0 .. N : (a + c) % N = IF a + c < N THEN a + c ELSE a + c - N
  BY DupQueueAssumption DEF Index

LEMMA ModIndex == \A x \in Int : x % N \in Index
  BY DupQueueAssumption DEF Index

\* the index c steps up the ring from a, and the steps from a up to b
Up(a, c) == (a + c) % N
Steps(a, b) == (b - a) % N

LEMMA UpIs ==
    \A a \in Index, c \in 0 .. N : /\ Up(a, c) \in Index
                                   /\ Up(a, c) = IF a + c < N THEN a + c ELSE a + c - N
<1>1. \A a \in Index, c \in 0 .. N : Up(a, c) = IF a + c < N THEN a + c ELSE a + c - N
  BY ModPlus DEF Up
<1> QED
  BY <1>1, Params DEF Index

LEMMA StepsAre ==
    \A a, b \in Index : Steps(a, b) = IF b >= a THEN b - a ELSE b - a + N
  BY ModMinus DEF Steps

\* steps add up, lead from any index to any other, and never meet within a turn
LEMMA UpUp ==
    \A a \in Index, c, d \in 0 .. N : c + d <= N => Up(Up(a, c), d) = Up(a, c + d)
<1> SUFFICES ASSUME NEW a \in Index, NEW c \in 0 .. N, NEW d \in 0 .. N, c + d <= N
             PROVE  Up(Up(a, c), d) = Up(a, c + d)
  OBVIOUS
<1>1. N \in Nat /\ a \in Nat /\ a < N /\ c \in Nat /\ d \in Nat /\ c + d \in 0 .. N
  BY Params DEF Index
<1>2. Up(a, c) = (IF a + c < N THEN a + c ELSE a + c - N) /\ Up(a, c) \in Index
  BY <1>1, UpIs
<1>3. Up(a, c + d) = IF a + (c + d) < N THEN a + (c + d) ELSE a + (c + d) - N
  BY <1>1, UpIs
<1>4. Up(Up(a, c), d) = IF Up(a, c) + d < N THEN Up(a, c) + d ELSE Up(a, c) + d - N
  BY <1>1, <1>2, UpIs
<1> QED
  BY <1>1, <1>2, <1>3, <1>4

LEMMA UpSteps ==
    \A a, b \in Index : Steps(a, b) \in 0 .. N - 1 /\ Up(a, Steps(a, b)) = b
<1> SUFFICES ASSUME NEW a \in Index, NEW b \in Index
             PROVE  Steps(a, b) \in 0 .. N - 1 /\ Up(a, Steps(a, b)) = b
  OBVIOUS
<1>1. N \in Nat /\ a \in 0 .. N - 1 /\ b \in 0 .. N - 1
  BY Params DEF Index
<1>2. Steps(a, b) = IF b >= a THEN b - a ELSE b - a + N
  BY StepsAre
<1>3. Steps(a, b) \in 0 .. N - 1
  BY <1>1, <1>2
<1>4. Up(a, Steps(a, b)) = IF a + Steps(a, b) < N THEN a + Steps(a, b) ELSE a + Steps(a, b) - N
  BY <1>1, <1>3, UpIs
<1> QED
  BY <1>1, <1>2, <1>3, <1>4

LEMMA StepsUp ==
    \A a \in Index, c \in 0 .. N - 1 : Up(a, c) \in Index /\ Steps(a, Up(a, c)) = c
<1> SUFFICES ASSUME NEW a \in Index, NEW c \in 0 .. N - 1
             PROVE  Up(a, c) \in Index /\ Steps(a, Up(a, c)) = c
  OBVIOUS
<1>1. N \in Nat /\ a \in 0 .. N - 1
  BY Params DEF Index
<1>2. Up(a, c) = (IF a + c < N THEN a + c ELSE a + c - N) /\ Up(a, c) \in Index
  BY <1>1, UpIs
<1>3. Steps(a, Up(a, c)) = IF Up(a, c) >= a THEN Up(a, c) - a ELSE Up(a, c) - a + N
  BY <1>2, StepsAre
<1> QED
  BY <1>1, <1>2, <1>3

LEMMA UpIndex == \A a \in Index : Up(a, 0) = a /\ \A c \in Int : Up(a, c) \in Index
<1>1. \A a \in Index : Up(a, 0) = a
  BY UpIs, Params DEF Index
<1>2. \A a \in Index, c \in Int : Up(a, c) \in Index
  BY ModIndex DEF Up, Index
<1> QED
  BY <1>1, <1>2

\* the model's operators on indices are these two
LEMMA AreSteps ==
    /\ Waiting = Steps(ridx, widx)
    /\ \A x : Offset(x) = Steps(widx, x)
    /\ \A x, c : NextIdx(x) = Up(x, 1) /\ Adv(x, c) = Up(x, c)
  BY DEF Waiting, Offset, NextIdx, Adv, Steps, Up

LEMMA IndexTypes ==
    \A x \in Index : NextIdx(x) \in Index /\ \A c \in Int : Adv(x, c) \in Index
  BY Params, ModIndex DEF NextIdx, Adv, Index

\* what the two sides compute of the indices they load
LEMMA Available ==
    ASSUME TypeOK
    PROVE  /\ Waiting \in 0 .. N - 1 /\ Room \in 0 .. N - 1 /\ Offset(w) \in 0 .. N - 1
           /\ Waiting = IF widx >= ridx THEN widx - ridx ELSE widx - ridx + N
           /\ Offset(w) = IF w >= widx THEN w - widx ELSE w - widx + N
           /\ Above = IF ridx = widx THEN -1 ELSE Room
           /\ widx < ridx => ridx - widx - 1 = Room
           /\ ReadAvali = IF seenw > ridx THEN widx - ridx ELSE Waiting
  <1>1. N \in Nat /\ widx \in Index /\ ridx \in Index /\ w \in Index
    BY DupQueueAssumption DEF TypeOK
  <1>2. /\ Waiting = IF widx >= ridx THEN widx - ridx ELSE widx - ridx + N
        /\ Offset(w) = IF w >= widx THEN w - widx ELSE w - widx + N
    BY <1>1, ModMinus DEF Waiting, Offset
  <1>3. (ridx - widx + N) % N = IF ridx >= widx THEN ridx - widx ELSE ridx - widx + N
    BY <1>1, DupQueueAssumption DEF Index
  <1>4. (widx - ridx + N) % N = IF widx >= ridx THEN widx - ridx ELSE widx - ridx + N
    BY <1>1, DupQueueAssumption DEF Index
  <1> QED
    BY <1>1, <1>2, <1>3, <1>4 DEF Room, Above, ReadAvali, Index

----------------------------------------------------------------------------
(* Types and counters.                                                      *)

Loading == wpc \in {"load1", "above", "below", "load3"}

CountOK ==
    /\ next + todo <= MaxPkts + 1
    /\ todo <= rx /\ errs <= rx - todo
    /\ wpc = "full" \/ (Loading /\ ret = "full") => todo > 0
    /\ wpc \in {"idle", "done"} \/ (Loading /\ ret = "done") => todo = 0
    /\ Loading => ret # "idle"
    /\ wpc = "idle" => packets <= next - 1 /\ packets = Len(accepted) + drops
    /\ wpc # "idle" => /\ packets + rx - todo <= next - 1
                       /\ packets + rx - todo - errs = Len(accepted) + drops

CInv == TypeOK /\ CountOK /\ DropsOnlyWhenFull

LEMMA CountStep == CInv /\ [Next]_vars => CInv'
<1> SUFFICES ASSUME CInv, [Next]_vars PROVE CInv'
    OBVIOUS
<1> USE Params DEF qvars, wvars, bvars, rvars, hvars
<1>a. TypeOK /\ CountOK /\ DropsOnlyWhenFull
  BY DEF CInv
<1>0. /\ Len(accepted) \in Nat /\ next \in Nat /\ todo \in Nat /\ rx \in Nat
      /\ errs \in Nat /\ packets \in Nat /\ drops \in Nat
  BY <1>a, LenProperties DEF TypeOK, Packets
<1>b. /\ widx \in Index /\ ridx \in Index /\ w \in Index /\ r \in Index
      /\ wavali \in Int /\ ravali \in Int /\ slot[r] \in Packets
  BY <1>a DEF TypeOK
<1>c. /\ Waiting \in 0 .. N - 1 /\ Room \in 0 .. N - 1 /\ Offset(w) \in 0 .. N - 1
      /\ Above \in -N .. N - 1
      /\ Above = 0 => Room = 0
      /\ widx < ridx => ridx - widx - 1 = Room
      /\ ridx - widx - 1 \in -N .. N - 1
      /\ ReadAvali \in -N .. N - 1
  <2>1. ridx - widx - 1 \in -N .. N - 1 /\ widx - ridx \in -N .. N - 1
    BY <1>b DEF Index
  <2> QED
    BY <1>a, <2>1, Available
<1>1. CASE WBatch
  <2>1. CountOK'
    BY <1>a, <1>0, <1>1 DEF WBatch, Smaller, CountOK, Loading
  <2>2. rx' \in 0 .. N - 1 /\ todo' \in 0 .. N - 1 /\ errs' \in 0 .. N - 1
    BY <1>a, <1>0, <1>1, <2>1 DEF WBatch, Smaller, TypeOK, CountOK, Index, Packets
  <2>3. TypeOK'
    BY <1>a, <1>1, <2>2 DEF WBatch, Smaller, TypeOK
  <2>4. DropsOnlyWhenFull'
    BY <1>a, <1>1 DEF WBatch, Smaller, DropsOnlyWhenFull, TypeOK, Index
  <2> QED
    BY <2>1, <2>3, <2>4 DEF CInv
<1>2. CASE WError
  <2>1. CountOK'
    BY <1>a, <1>0, <1>2 DEF WError, PacketDone, CountOK, Loading
  <2>2. next' \in 1 .. MaxPkts + 1 /\ todo' \in 0 .. N - 1 /\ errs' \in 0 .. N - 1
    BY <1>a, <1>0, <1>2, <2>1 DEF WError, PacketDone, TypeOK, CountOK, Index, Packets
  <2>3. TypeOK'
    BY <1>a, <1>2, <2>2 DEF WError, PacketDone, TypeOK
  <2>4. DropsOnlyWhenFull'
    BY <1>a, <1>2 DEF WError, PacketDone, DropsOnlyWhenFull, TypeOK, Index
  <2> QED
    BY <2>1, <2>3, <2>4 DEF CInv
<1>3. CASE WLook
  <2>1. CountOK'
    BY <1>a, <1>0, <1>3 DEF WLook, CountOK, Loading
  <2>3. TypeOK'
    BY <1>a, <1>3 DEF WLook, TypeOK, Index
  <2>4. DropsOnlyWhenFull'
    BY <1>a, <1>3 DEF WLook, DropsOnlyWhenFull, TypeOK, Index
  <2> QED
    BY <2>1, <2>3, <2>4 DEF CInv
<1>4. CASE WDrop
  <2>1. CountOK'
    BY <1>a, <1>0, <1>4 DEF WDrop, PacketDone, CountOK, Loading
  <2>2. next' \in 1 .. MaxPkts + 1 /\ todo' \in 0 .. N - 1 /\ drops' \in Packets
    BY <1>a, <1>0, <1>4, <2>1 DEF WDrop, PacketDone, TypeOK, CountOK, Index, Packets
  <2>3. TypeOK'
    BY <1>a, <1>4, <2>2 DEF WDrop, PacketDone, TypeOK
  <2>4. DropsOnlyWhenFull'
    BY <1>a, <1>4 DEF WDrop, PacketDone, DropsOnlyWhenFull, TypeOK, Index
  <2> QED
    BY <2>1, <2>3, <2>4 DEF CInv
<1>5. CASE WCopy
  <2>a. next \in Packets
    BY <1>a, <1>0, <1>5 DEF WCopy, CountOK, TypeOK, Packets
  <2>0. Len(accepted') = Len(accepted) + 1 /\ accepted' \in Seq(Packets)
    BY <1>a, <2>a, <1>5, AppendProperties DEF WCopy, TypeOK, Packets
  <2>1. CountOK'
    <3>1. /\ wpc' \in {"packet", "publish"} /\ wpc \in {"packet", "full"} /\ todo > 0
          /\ todo' = todo - 1 /\ next' = next + 1 /\ UNCHANGED <<rx, errs, packets, drops>>
      BY <1>5 DEF WCopy, PacketDone
    <3> QED
      BY <1>a, <1>0, <2>0, <3>1 DEF CountOK, Loading
  <2>2. w' \in Index /\ next' \in 1 .. MaxPkts + 1 /\ todo' \in 0 .. N - 1
    <3>1. w' \in Index
      BY <1>a, <1>5, IndexTypes DEF WCopy, TypeOK
    <3>2. next' = next + 1 /\ todo' = todo - 1 /\ todo > 0
      BY <1>5 DEF WCopy, PacketDone
    <3> QED
      BY <1>a, <1>0, <2>1, <3>1, <3>2 DEF TypeOK, CountOK
  <2>3. TypeOK'
    BY <1>a, <1>5, <2>a, <2>0, <2>2 DEF WCopy, PacketDone, TypeOK
  <2>4. DropsOnlyWhenFull'
    BY <1>a, <1>5 DEF WCopy, PacketDone, DropsOnlyWhenFull, TypeOK, Index
  <2> QED
    BY <2>1, <2>3, <2>4 DEF CInv
<1>6. CASE WPublish
  <2>1. CountOK'
    BY <1>a, <1>0, <1>6 DEF WPublish, CountOK, Loading
  <2>2. widx' \in Index
    BY <1>b, <1>6, IndexTypes DEF WPublish
  <2>3. TypeOK'
    BY <1>a, <1>6, <2>2 DEF WPublish, TypeOK
  <2>4. DropsOnlyWhenFull'
    BY <1>a, <1>6 DEF WPublish, DropsOnlyWhenFull, TypeOK, Index
  <2> QED
    BY <2>1, <2>3, <2>4 DEF CInv
<1>7. CASE WEnd
  <2>1. CountOK'
    BY <1>a, <1>0, <1>7 DEF WEnd, CountOK, Loading
  <2>2. widx' \in Index
    <3>1. Offset(w) \in Int /\ widx' = Adv(widx, Offset(w))
      BY <1>c, <1>7 DEF WEnd
    <3> QED
      BY <1>b, <3>1, IndexTypes
  <2>3. TypeOK'
    BY <1>a, <1>7, <2>2 DEF WEnd, TypeOK
  <2>4. DropsOnlyWhenFull'
    BY <1>a, <1>7 DEF WEnd, DropsOnlyWhenFull, TypeOK, Index
  <2> QED
    BY <2>1, <2>3, <2>4 DEF CInv
<1>8. CASE WCount
  <2>1. CountOK'
    BY <1>a, <1>0, <1>8 DEF WCount, CountOK, Loading
  <2>2. packets' \in Packets
    BY <1>a, <1>0, <1>8, <2>1 DEF WCount, TypeOK, CountOK, Index, Packets
  <2>3. TypeOK'
    BY <1>a, <1>8, <2>2 DEF WCount, TypeOK
  <2>4. DropsOnlyWhenFull'
    BY <1>a, <1>8 DEF WCount, DropsOnlyWhenFull, TypeOK, Index
  <2> QED
    BY <2>1, <2>3, <2>4 DEF CInv
<1>9. CASE WLoad1
  <2>1. CountOK'
    BY <1>a, <1>0, <1>9 DEF WLoad1, CountOK, Loading
  <2>3. TypeOK'
    BY <1>a, <1>9 DEF WLoad1, TypeOK, Index
  <2>4. DropsOnlyWhenFull'
    BY <1>a, <1>9 DEF WLoad1, DropsOnlyWhenFull, TypeOK, Index
  <2> QED
    BY <2>1, <2>3, <2>4 DEF CInv
<1>10. CASE WAbove
  <2>1. CountOK'
    BY <1>a, <1>0, <1>10 DEF WAbove, WReturn, CountOK, Loading
  <2>2. wavali' \in -N .. N - 1 /\ hadRoom' \in 0 .. N - 1
    BY <1>c, <1>10 DEF WAbove, WReturn
  <2>3. TypeOK'
    BY <1>a, <1>10, <2>2 DEF WAbove, WReturn, TypeOK
  <2>4. DropsOnlyWhenFull'
    BY <1>a, <1>c, <1>10 DEF WAbove, WReturn, DropsOnlyWhenFull, TypeOK, Index
  <2> QED
    BY <2>1, <2>3, <2>4 DEF CInv
<1>11. CASE WBelow
  <2>1. CountOK'
    BY <1>a, <1>0, <1>11 DEF WBelow, CountOK, Loading
  <2>3. TypeOK'
    BY <1>a, <1>11 DEF WBelow, TypeOK, Index
  <2>4. DropsOnlyWhenFull'
    BY <1>a, <1>11 DEF WBelow, DropsOnlyWhenFull, TypeOK, Index
  <2> QED
    BY <2>1, <2>3, <2>4 DEF CInv
<1>12. CASE WEqual
  <2>1. CountOK'
    BY <1>a, <1>0, <1>12 DEF WEqual, WReturn, CountOK, Loading
  <2>2. wavali' \in -N .. N - 1 /\ hadRoom' \in 0 .. N - 1
    BY <1>c, <1>12 DEF WEqual, WReturn
  <2>3. TypeOK'
    BY <1>a, <1>12, <2>2 DEF WEqual, WReturn, TypeOK
  <2>4. DropsOnlyWhenFull'
    BY <1>a, <1>c, <1>12 DEF WEqual, WReturn, DropsOnlyWhenFull, TypeOK, Index
  <2> QED
    BY <2>1, <2>3, <2>4 DEF CInv
<1>13. CASE WLoad3
  <2>1. CountOK'
    BY <1>a, <1>0, <1>13 DEF WLoad3, WReturn, CountOK, Loading
  <2>2. wavali' \in -N .. N - 1 /\ hadRoom' \in 0 .. N - 1
    BY <1>c, <1>13 DEF WLoad3, WReturn
  <2>3. TypeOK'
    BY <1>a, <1>13, <2>2 DEF WLoad3, WReturn, TypeOK
  <2>4. DropsOnlyWhenFull'
    BY <1>a, <1>c, <1>13 DEF WLoad3, WReturn, DropsOnlyWhenFull, TypeOK, Index
  <2> QED
    BY <2>1, <2>3, <2>4 DEF CInv
<1>14. CASE RLoad1
  <2>1. CountOK'
    BY <1>a, <1>0, <1>14 DEF RLoad1, CountOK, Loading
  <2>3. TypeOK'
    BY <1>a, <1>14 DEF RLoad1, TypeOK, Index
  <2>4. DropsOnlyWhenFull'
    BY <1>a, <1>14 DEF RLoad1, DropsOnlyWhenFull, TypeOK, Index
  <2> QED
    BY <2>1, <2>3, <2>4 DEF CInv
<1>15. CASE RLoad2
  <2>1. CountOK'
    BY <1>a, <1>0, <1>15 DEF RLoad2, CountOK, Loading
  <2>2. ravali' \in -N .. N - 1 /\ torn' \in BOOLEAN
    BY <1>a, <1>c, <1>15 DEF RLoad2, TypeOK
  <2>3. TypeOK'
    <3>1. rpc' \in {"idle", "stop", "read"} /\ i' = 0
      BY <1>15 DEF RLoad2
    <3>2. UNCHANGED <<qvars, wvars, bvars, r, seenw, hvars, hadRoom, restarts>>
      BY <1>15 DEF RLoad2
    <3> QED
      BY <1>a, <2>2, <3>1, <3>2 DEF TypeOK
  <2>4. DropsOnlyWhenFull'
    BY <1>a, <1>15 DEF RLoad2, DropsOnlyWhenFull, TypeOK, Index
  <2> QED
    BY <2>1, <2>3, <2>4 DEF CInv
<1>16. CASE RRead
  <2>1. CountOK'
    BY <1>a, <1>0, <1>16 DEF RRead, CountOK, Loading
  <2>2. r' \in Index /\ i' \in 0 .. N - 1 /\ slot[r] \in Packets
    BY <1>a, <1>b, <1>16, IndexTypes DEF RRead, TypeOK
  <2>3. TypeOK'
    BY <1>a, <1>16, <2>2, AppendProperties DEF RRead, TypeOK
  <2>4. DropsOnlyWhenFull'
    BY <1>a, <1>16 DEF RRead, DropsOnlyWhenFull, TypeOK, Index
  <2> QED
    BY <2>1, <2>3, <2>4 DEF CInv
<1>17. CASE RAdv
  <2>1. CountOK'
    BY <1>a, <1>0, <1>17 DEF RAdv, CountOK, Loading
  <2>2. ridx' \in Index
    BY <1>b, <1>17, IndexTypes DEF RAdv
  <2>3. TypeOK'
    BY <1>a, <1>17, <2>2, ConcatProperties, EmptySeq DEF RAdv, TypeOK
  <2>4. DropsOnlyWhenFull'
    BY <1>a, <1>17 DEF RAdv, DropsOnlyWhenFull, TypeOK, Index
  <2> QED
    BY <2>1, <2>3, <2>4 DEF CInv
<1>18. CASE RRestart
  <2>1. CountOK'
    BY <1>a, <1>0, <1>18 DEF RRestart, CountOK, Loading
  <2>2. restarts' \in 0 .. MaxRestarts
    BY <1>a, <1>0, <1>18, <2>1 DEF RRestart, TypeOK, CountOK, Index, Packets
  <2>3. TypeOK'
    BY <1>a, <1>18, <2>2, EmptySeq DEF RRestart, TypeOK
  <2>4. DropsOnlyWhenFull'
    BY <1>a, <1>18 DEF RRestart, DropsOnlyWhenFull, TypeOK, Index
  <2> QED
    BY <2>1, <2>3, <2>4 DEF CInv
<1>19. CASE UNCHANGED vars
  BY <1>a, <1>19 DEF CInv, vars, TypeOK, CountOK, Loading, DropsOnlyWhenFull
<1> QED
  BY <1>1, <1>2, <1>3, <1>4, <1>5, <1>6, <1>7, <1>8, <1>9, <1>10, <1>11, <1>12, <1>13,
     <1>14, <1>15, <1>16, <1>17, <1>18, <1>19 DEF Next, Writer, Loads, Reader

LEMMA CountInit == ASSUME Init PROVE CInv
<1>1. 0 \in Index /\ accepted = <<>> /\ Len(accepted) = 0 /\ <<>> \in Seq(Packets)
  BY Params, EmptySeq DEF Init, Index
<1> QED
  BY <1>1, Params DEF Init, CInv, TypeOK, CountOK, DropsOnlyWhenFull, Loading, Packets

\* Every packet dup_proc_intel takes from the ring is counted once, as copied or as dropped,
\* and it drops only what it found no room for; this holds with torn calls too.
THEOREM Counting == Spec => []CInv
<1>1. Init => CInv
  BY CountInit
<1>2. CInv /\ [Next]_vars => CInv'
  BY CountStep
<1> QED
  BY <1>1, <1>2, PTL DEF Spec

\* The variables keep their types, and the writer its indices inside the queue.
THEOREM Typing == Spec => []TypeOK
  BY Counting, PTL DEF CInv

\* A packet is dropped only when no slot was free, also after a torn call.
THEOREM Drops == Spec => []DropsOnlyWhenFull
  BY Counting, PTL DEF CInv

\* What the duplicator reports as received it has copied or dropped.
THEOREM Counters == Spec => []CountersAgree
<1>1. CInv => CountersAgree
  BY DEF CInv, CountOK, CountersAgree
<1> QED
  BY <1>1, Counting, PTL

----------------------------------------------------------------------------
(* The contents of the queue, when no thread goes on after a torn call.     *)

Unpublished == Offset(w)             \* copied, and not yet in widx
Held == Waiting + Unpublished        \* slots that hold a packet to be read
Settled == wpc \in {"idle", "packet", "full", "publish", "done"}
Turns == IF rpc = "read" THEN i ELSE 0

\* the writer copies only into slots that it has found free.  A negative wavali bounds
\* nothing, but is only found of an empty queue, which a batch does not fill.
WriterOK ==
    /\ Settled /\ wavali >= 0 => Unpublished <= wavali /\ wavali <= Room
    /\ Settled /\ wavali < 0 => Waiting = 0 /\ Unpublished + todo <= N - 1
    /\ wpc = "packet" => wavali = 0 \/ Unpublished # wavali
    /\ wpc = "publish" => Unpublished = wavali
    /\ wpc \notin {"packet", "publish"} => Unpublished = 0
    /\ wpc = "below" => widx <= seen
    /\ wpc = "load3" => widx < seen

\* the reader reads only slots that were published
ReaderOK ==
    /\ rpc = "read" => 0 < ravali /\ ravali <= Waiting /\ i <= ravali
    /\ Len(batch) = Turns
    /\ r = Up(ridx, Turns)

\* the history is that of the packets in the slots
ContentOK ==
    /\ Len(accepted) = Len(got) + Held
    /\ \A j \in 1 .. Len(got) : got[j] = accepted[j]
    /\ \A j \in 1 .. Len(batch) : batch[j] = accepted[Len(got) + j]
    /\ \A j \in 1 .. Held : slot[Up(ridx, j - 1)] = accepted[Len(got) + j]

\* packets come in the order of their numbers
OrderOK ==
    /\ \A j \in 1 .. Len(accepted) : accepted[j] < next
    /\ \A j, l \in 1 .. Len(accepted) : j < l => accepted[j] < accepted[l]

QInv == CInv /\ WriterOK /\ ReaderOK /\ ContentOK /\ OrderOK

LEMMA Facts ==
    ASSUME QInv
    PROVE  /\ Waiting \in 0 .. N - 1 /\ Unpublished \in 0 .. N - 1
           /\ Held \in 0 .. N - 1 /\ Room = N - 1 - Waiting
           /\ widx = Up(ridx, Waiting) /\ w = Up(ridx, Held)
           /\ Len(accepted) \in Nat /\ Len(got) \in Nat /\ Len(batch) \in Nat
<1>1. /\ N \in Nat /\ widx \in Index /\ ridx \in Index /\ w \in Index
      /\ wavali \in Int /\ todo \in Nat
  BY Params DEF QInv, CInv, TypeOK
<1>2. /\ Waiting \in 0 .. N - 1 /\ widx = Up(ridx, Waiting)
      /\ Unpublished \in 0 .. N - 1 /\ w = Up(widx, Unpublished)
  BY <1>1, UpSteps, AreSteps DEF Unpublished
<1>3. Room = N - 1 - Waiting
  BY DEF Room
<1>4. Held \in 0 .. N - 1
  BY <1>1, <1>2, <1>3 DEF QInv, WriterOK, Settled, Held
<1>5. w = Up(ridx, Held)
  BY <1>1, <1>2, <1>4, UpUp DEF Held
<1> QED
  BY <1>2, <1>3, <1>4, <1>5, LenProperties DEF QInv, CInv, TypeOK

\* what a step leaves alone stays right
LEMMA KeepWriter ==
    ASSUME WriterOK, UNCHANGED <<widx, ridx, w, wavali, wpc, seen, todo>>
    PROVE  WriterOK'
  BY DEF WriterOK, Unpublished, Offset, Waiting, Room, Settled

LEMMA KeepReader ==
    ASSUME ReaderOK, UNCHANGED <<widx, ridx, rpc, ravali, i, r, batch>>
    PROVE  ReaderOK'
  BY DEF ReaderOK, Turns, Waiting

LEMMA KeepContent ==
    ASSUME ContentOK, UNCHANGED <<widx, ridx, w, slot, accepted, batch, got>>
    PROVE  ContentOK'
  BY DEF ContentOK, Held, Waiting, Unpublished, Offset

LEMMA KeepOrder ==
    ASSUME OrderOK, TypeOK, UNCHANGED accepted, next' = next \/ next' = next + 1
    PROVE  OrderOK'
<1>1. next \in Int /\ accepted' = accepted
  BY DEF TypeOK
<1>2. \A j \in 1 .. Len(accepted) : accepted[j] \in Int
  <2>1. accepted \in Seq(0 .. MaxPkts)
    BY DEF TypeOK, Packets
  <2>2. \A j \in 1 .. Len(accepted) : accepted[j] \in 0 .. MaxPkts
    BY <2>1, ElementOfSeq
  <2> QED
    BY <2>2
<1>3. ASSUME NEW j \in 1 .. Len(accepted) PROVE accepted[j] < next'
  BY <1>1, <1>2, <1>3 DEF OrderOK
<1> QED
  BY <1>1, <1>3 DEF OrderOK

LEMMA KeepOrderDone ==
    ASSUME OrderOK, UNCHANGED <<accepted, next>>
    PROVE  OrderOK'
  BY DEF OrderOK

\* no two of the next N slots of the ring are one
LEMMA UpDistinct ==
    \A a \in Index, c, d \in 0 .. N - 1 : Up(a, c) = Up(a, d) => c = d
  BY StepsUp

\* values after a step, of the indices after it
LEMMA After ==
    /\ Waiting' = Steps(ridx', widx') /\ Unpublished' = Steps(widx', w')
    /\ Held' = Waiting' + Unpublished' /\ Room' = N - 1 - Waiting'
  BY DEF Waiting, Unpublished, Held, Room, Offset, Steps

\* write_avali returns: a thread that goes on has a value that bounds what is free
LEMMA ReturnStep ==
    ASSUME NEW v \in Int, LoadsTear = FALSE, QInv, WReturn(v), Loading,
           /\ v < 0 => Waiting = 0 \/ Torn(v)
           /\ v > Room => Torn(v)
    PROVE  WriterOK' /\ ReaderOK' /\ ContentOK' /\ OrderOK'
<1>1. /\ UNCHANGED <<widx, ridx, w, todo, seen, rpc, ravali, i, r, batch, slot, accepted>>
      /\ UNCHANGED <<got, next>> /\ wavali' = v
      /\ wpc' = IF Torn(v) THEN "stop" ELSE ret
  BY DEF WReturn, qvars, wvars, bvars, rvars, hvars
<1>2. ReaderOK' /\ ContentOK' /\ OrderOK'
  BY <1>1, KeepReader, KeepContent, KeepOrderDone DEF QInv
<1>3. ret \in {"packet", "full", "done"} /\ todo \in 0 .. N - 1 /\ Unpublished = 0
  BY DEF QInv, CInv, TypeOK, CountOK, Loading, WriterOK
<1>4. Waiting' = Waiting /\ Unpublished' = 0 /\ Room' = Room
  BY <1>1, <1>3 DEF Unpublished, Offset, Waiting, Room
<1>5. wpc' \in {"packet", "full", "done"} => /\ v >= 0 => v <= Room
                                             /\ v < 0 => Waiting = 0
  <2>1. Room \in Int
    BY Facts, Params
  <2>2. wpc' \in {"packet", "full", "done"} => ~Torn(v)
    BY <1>1
  <2> QED
    BY <2>1, <2>2
<1>6. WriterOK'
  BY <1>1, <1>3, <1>4, <1>5, Params DEF WriterOK, Settled
<1> QED
  BY <1>2, <1>6

\* the types and bounds that the steps below need
LEMMA Numbers ==
    ASSUME QInv
    PROVE  /\ N \in Nat /\ N >= 2
           /\ widx \in Index /\ ridx \in Index /\ w \in Index /\ r \in Index
           /\ wavali \in Int /\ todo \in 0 .. N - 1 /\ todo \in Int /\ next \in Nat
           /\ ravali \in Int /\ i \in Nat /\ seen \in Index /\ seenw \in Index
           /\ Waiting \in Nat /\ Waiting <= N - 1
           /\ Unpublished \in Nat /\ Unpublished <= N - 1
           /\ Held \in Nat /\ Held <= N - 1
           /\ Room = N - 1 - Waiting /\ Held = Waiting + Unpublished
           /\ widx = Up(ridx, Waiting) /\ w = Up(ridx, Held) /\ w = Up(widx, Unpublished)
           /\ Len(accepted) \in Nat /\ Len(got) \in Nat /\ Len(batch) \in Nat
           /\ Len(accepted) = Len(got) + Held
<1>1. /\ N \in Nat /\ N >= 2 /\ widx \in Index /\ ridx \in Index /\ w \in Index /\ r \in Index
      /\ wavali \in Int /\ todo \in 0 .. N - 1 /\ next \in Nat /\ ravali \in Int /\ i \in Nat
      /\ todo \in Int /\ seen \in Index /\ seenw \in Index
  BY Params DEF QInv, CInv, TypeOK
<1>2. Held = Waiting + Unpublished /\ w = Up(widx, Unpublished)
  BY <1>1, UpSteps, AreSteps DEF Held, Unpublished
<1>3. /\ Waiting \in Nat /\ Waiting <= N - 1 /\ Unpublished \in Nat /\ Unpublished <= N - 1
      /\ Held \in Nat /\ Held <= N - 1 
  BY <1>1, Facts
<1>4. Len(accepted) = Len(got) + Held
  BY DEF QInv, ContentOK
<1> QED
  BY <1>1, <1>2, <1>3, <1>4, Facts

\* to publish is to let the reader have all that is held
LEMMA PublishStep ==
    ASSUME QInv, WPublish \/ WEnd
    PROVE  Waiting' = Held /\ Unpublished' = 0 /\ Held' = Held
<1>1. UNCHANGED <<ridx, w>>
  BY DEF WPublish, WEnd
<1>2. widx' = w
  <2>1. CASE WPublish
    BY <2>1, Numbers, AreSteps DEF WPublish, WriterOK, QInv
  <2>2. CASE WEnd
    BY <2>2, Numbers, AreSteps DEF WEnd, Unpublished
  <2> QED
    BY <2>1, <2>2
<1>3. Steps(ridx, w) = Held /\ Steps(w, w) = 0
  <2>1. Steps(ridx, Up(ridx, Held)) = Held
    <3>1. Held \in 0 .. N - 1 /\ ridx \in Index
      BY Numbers
    <3> QED
      BY <3>1, StepsUp
  <2>2. Steps(w, w) = 0
    <3>1. w \in Index /\ N \in Nat
      BY Numbers
    <3>2. w >= w /\ w - w = 0
      BY <3>1 DEF Index
    <3>3. Steps(w, w) = IF w >= w THEN w - w ELSE w - w + N
      BY <3>1, StepsAre
    <3> QED
      BY <3>2, <3>3
  <2>3. w = Up(ridx, Held)
    BY Numbers
  <2> QED
    BY <2>1, <2>2, <2>3
<1> QED
  BY <1>1, <1>2, <1>3, Numbers, After

\* to give slots back is to move ridx over the packets read
LEMMA AdvStep ==
    ASSUME QInv, RAdv
    PROVE  /\ 0 < i /\ i = ravali /\ i <= Waiting /\ i \in 0 .. N - 1
           /\ r = Up(ridx, i) /\ ridx' = r /\ ridx' \in Index
           /\ Len(batch) = i /\ Waiting' = Waiting - i
<1>1. rpc = "read" /\ i >= ravali /\ ridx' = Adv(ridx, ravali) /\ widx' = widx
  BY DEF RAdv
<1>a. /\ N \in Nat /\ ridx \in Index /\ r \in Index /\ widx = Up(ridx, Waiting)
      /\ Waiting \in Nat /\ Waiting <= N - 1 /\ i \in Nat /\ ravali \in Int
      /\ Len(batch) \in Nat
  BY Numbers
<1>b. ReaderOK
  BY DEF QInv
<1>2. /\ 0 < i /\ i = ravali /\ i <= Waiting /\ i \in 0 .. N - 1 /\ r = Up(ridx, i)
      /\ Len(batch) = i
  BY <1>1, <1>a, <1>b DEF ReaderOK, Turns
<1>3. ridx' = r /\ ridx' \in Index
  BY <1>1, <1>2, <1>a, AreSteps
<1>4. Waiting' = Waiting - i
  <2>1. /\ Waiting - i \in 0 .. N - 1 /\ i + (Waiting - i) = Waiting
        /\ Waiting - i \in 0 .. N /\ i \in 0 .. N /\ i + (Waiting - i) <= N
    BY <1>2, <1>a
  <2>2. Up(Up(ridx, i), Waiting - i) = Up(ridx, i + (Waiting - i))
    BY <2>1, <1>a, UpUp
  <2>3. widx = Up(r, Waiting - i)
    BY <1>2, <2>1, <2>2, <1>a
  <2>4. Steps(r, Up(r, Waiting - i)) = Waiting - i
    BY <2>1, <1>a, StepsUp
  <2> QED
    BY <1>1, <1>3, <2>3, <2>4, After
<1> QED
  BY <1>2, <1>3, <1>4

\* what the reader has read in this batch is held
LEMMA BatchHeld == ASSUME QInv PROVE Len(batch) <= Waiting /\ Waiting <= Held
<1>a. /\ Waiting \in Nat /\ Unpublished \in Nat /\ Held = Waiting + Unpublished
      /\ i \in Nat /\ ravali \in Int
  BY Numbers
<1>b. ReaderOK
  BY DEF QInv
<1>1. rpc = "read" => i <= Waiting
  BY <1>a, <1>b DEF ReaderOK
<1> QED
  BY <1>1, <1>a, <1>b DEF ReaderOK, Turns

LEMMA QueueStep == LoadsTear = FALSE /\ QInv /\ [Next]_vars => QInv'
<1> SUFFICES ASSUME LoadsTear = FALSE, QInv, [Next]_vars PROVE QInv'
    OBVIOUS
<1> USE DEF qvars, wvars, bvars, rvars, hvars
<1>a. CInv'
  BY CountStep DEF QInv
<1>b. WriterOK /\ ReaderOK /\ ContentOK /\ OrderOK /\ TypeOK /\ CountOK
  BY DEF QInv, CInv
<1>c. /\ N \in Nat /\ N >= 2 /\ widx \in Index /\ ridx \in Index /\ w \in Index /\ r \in Index
      /\ wavali \in Int /\ todo \in 0 .. N - 1 /\ next \in Nat /\ ravali \in Int /\ i \in Nat
      /\ todo \in Int /\ seen \in Index /\ seenw \in Index
  BY Numbers
<1>d. /\ Waiting \in Nat /\ Waiting <= N - 1 /\ Unpublished \in Nat /\ Unpublished <= N - 1
      /\ Held \in Nat /\ Held <= N - 1 /\ Room = N - 1 - Waiting
      /\ Held = Waiting + Unpublished
      /\ widx = Up(ridx, Waiting) /\ w = Up(ridx, Held) /\ w = Up(widx, Unpublished)
      /\ Len(accepted) \in Nat /\ Len(got) \in Nat /\ Len(batch) \in Nat
  BY Numbers
<1>e. /\ Waiting' = Steps(ridx', widx') /\ Unpublished' = Steps(widx', w')
      /\ Held' = Waiting' + Unpublished' /\ Room' = N - 1 - Waiting'
  BY After
<1>f. /\ UNCHANGED <<widx, ridx>> => Waiting' = Waiting /\ Room' = Room
      /\ UNCHANGED <<widx, w>> => Unpublished' = Unpublished
  BY DEF Waiting, Room, Unpublished, Offset
<1>1. CASE WBatch
  <2>1. UNCHANGED <<widx, ridx, w, wavali, seen>> /\ wpc = "idle" /\ wpc' = "packet"
    BY <1>1 DEF WBatch
  <2>2. WriterOK' 
    <3>1. todo' \in Int /\ todo' <= N - 1
      BY <1>a DEF CInv, TypeOK
    <3> QED
      BY <1>b, <1>c, <1>d, <1>f, <2>1, <3>1 DEF WriterOK, Settled
  <2>3. ReaderOK' /\ ContentOK' /\ OrderOK'
    BY <1>b, <1>1, KeepReader, KeepContent, KeepOrderDone DEF WBatch
  <2> QED
    BY <1>a, <2>2, <2>3 DEF QInv
<1>2. CASE WError
  <2>1. /\ UNCHANGED <<widx, ridx, w, wavali, seen, wpc>> /\ wpc = "packet"
        /\ todo' = todo - 1 /\ next' = next + 1
    BY <1>2 DEF WError, PacketDone
  <2>2. WriterOK'
    BY <1>b, <1>c, <1>d, <1>f, <2>1 DEF WriterOK, Settled
  <2>3. ReaderOK' /\ ContentOK' /\ OrderOK'
    BY <1>b, <1>2, <2>1, KeepReader, KeepContent, KeepOrder DEF WError
  <2> QED
    BY <1>a, <2>2, <2>3 DEF QInv
<1>3. CASE WLook
  <2>1. /\ UNCHANGED <<widx, ridx, w, wavali, seen, todo>> /\ wpc = "packet"
        /\ wavali = 0 /\ wpc' = "load1"
    BY <1>3 DEF WLook
  <2>2. WriterOK'
    BY <1>b, <1>c, <1>d, <1>f, <2>1 DEF WriterOK, Settled
  <2>3. ReaderOK' /\ ContentOK' /\ OrderOK'
    BY <1>b, <1>3, KeepReader, KeepContent, KeepOrderDone DEF WLook
  <2> QED
    BY <1>a, <2>2, <2>3 DEF QInv
<1>4. CASE WDrop
  <2>1. /\ UNCHANGED <<widx, ridx, w, wavali, seen>> /\ wpc = "full"
        /\ wavali = 0 /\ wpc' = "packet" /\ todo' = todo - 1 /\ next' = next + 1
    BY <1>4 DEF WDrop, PacketDone
  <2>2. WriterOK'
    BY <1>b, <1>c, <1>d, <1>f, <2>1 DEF WriterOK, Settled
  <2>3. ReaderOK' /\ ContentOK' /\ OrderOK'
    BY <1>b, <1>4, <2>1, KeepReader, KeepContent, KeepOrder DEF WDrop
  <2> QED
    BY <1>a, <2>2, <2>3 DEF QInv
<1>5. CASE WCopy
  <2>1. /\ UNCHANGED <<widx, ridx, wavali, seen, rpc, ravali, i, r, batch, got>>
        /\ wpc \in {"packet", "full"} /\ todo > 0 /\ wavali # 0
        /\ todo' = todo - 1 /\ next' = next + 1 /\ w' = NextIdx(w)
        /\ wpc' = IF Offset(NextIdx(w)) = wavali THEN "publish" ELSE "packet"
        /\ slot' = [slot EXCEPT ![w] = next] /\ accepted' = Append(accepted, next)
    BY <1>5 DEF WCopy, PacketDone
  <2>2. /\ wavali >= 0 => Unpublished < wavali /\ wavali <= Room
        /\ wavali < 0 => Waiting = 0 /\ Unpublished + todo <= N - 1
    BY <1>b, <1>c, <1>d, <2>1 DEF WriterOK, Settled
  <2>3. Held + 1 <= N - 1 /\ Unpublished + 1 <= N - 1
    BY <1>c, <1>d, <2>1, <2>2
  <2>4. w' = Up(ridx, Held + 1) /\ w' = Up(widx, Unpublished + 1)
    <3>1. w' = Up(w, 1)
      BY <2>1, AreSteps
    <3> QED
      BY <1>c, <1>d, <2>3, <3>1, UpUp
  <2>5. Unpublished' = Unpublished + 1 /\ Waiting' = Waiting /\ Held' = Held + 1 /\ Room' = Room
    <3>1. Steps(widx, Up(widx, Unpublished + 1)) = Unpublished + 1
      BY <1>c, <1>d, <2>3, StepsUp
    <3> QED
      BY <1>d, <1>e, <1>f, <2>1, <2>4, <3>1
  <2>6. Offset(NextIdx(w)) = Unpublished + 1
    BY <1>e, <2>1, <2>5, AreSteps
  <2>7. WriterOK'
    BY <1>c, <1>d, <2>1, <2>2, <2>3, <2>5, <2>6 DEF WriterOK, Settled
  <2>8. ReaderOK'
    BY <1>b, <2>1, KeepReader, <2>5 DEF ReaderOK, Turns
  <2>9. /\ Len(accepted') = Len(accepted) + 1 /\ accepted'[Len(accepted) + 1] = next
        /\ \A j \in 1 .. Len(accepted) : accepted'[j] = accepted[j]
    <3>1. accepted \in Seq(Nat)
      BY <1>b, Params DEF TypeOK, Packets
    <3> QED
      BY <1>c, <2>1, <3>1, AppendProperties
  <2>10. ContentOK'
    <3>1. Len(accepted') = Len(got') + Held'
      BY <1>b, <1>d, <2>1, <2>5, <2>9 DEF ContentOK
    <3>2. Len(batch) <= Held
      <4>1. (i <= Waiting /\ Turns \in {0, i}) \/ Turns = 0
        BY <1>b, <1>c, <1>d DEF ReaderOK, Turns
      <4> QED
        BY <4>1, <1>b, <1>c, <1>d DEF ReaderOK
    <3>3. /\ \A j \in 1 .. Len(got) : j \in 1 .. Len(accepted)
          /\ \A j \in 1 .. Len(batch) : Len(got) + j \in 1 .. Len(accepted)
          /\ \A j \in 1 .. Held : Len(got) + j \in 1 .. Len(accepted)
      BY <1>b, <1>d, <3>2 DEF ContentOK
    <3>4. \A j \in 1 .. Len(got') : got'[j] = accepted'[j]
      BY <1>b, <2>1, <2>9, <3>3 DEF ContentOK
    <3>5. \A j \in 1 .. Len(batch') : batch'[j] = accepted'[Len(got') + j]
      BY <1>b, <2>1, <2>9, <3>3 DEF ContentOK
    <3>6. ASSUME NEW j \in 1 .. Held + 1
          PROVE  slot'[Up(ridx, j - 1)] = accepted'[Len(got) + j]
      <4>1. DOMAIN slot = Index
        BY <1>b DEF TypeOK
      <4>2. CASE j = Held + 1
        <5>1. Up(ridx, j - 1) = w /\ Len(got) + j = Len(accepted) + 1
          BY <1>b, <1>d, <4>2 DEF ContentOK
        <5> QED
          BY <1>c, <2>1, <2>9, <4>1, <5>1
      <4>3. CASE j # Held + 1
        <5>1. j \in 1 .. Held /\ j - 1 \in 0 .. N - 1 /\ Held \in 0 .. N - 1 /\ j - 1 # Held
          BY <1>c, <1>d, <3>6, <4>3
        <5>2. Up(ridx, j - 1) # w /\ Up(ridx, j - 1) \in Index
          BY <1>c, <1>d, <5>1, UpDistinct, StepsUp
        <5>3. slot[Up(ridx, j - 1)] = accepted[Len(got) + j]
          BY <1>b, <5>1 DEF ContentOK
        <5>4. Len(got) + j \in 1 .. Len(accepted)
          BY <3>3, <5>1
        <5> QED
          BY <2>1, <2>9, <4>1, <5>2, <5>3, <5>4
      <4> QED
        BY <4>2, <4>3
    <3> QED
      BY <2>1, <2>5, <3>1, <3>4, <3>5, <3>6 DEF ContentOK
  <2>11. OrderOK'
    <3>1. \A j \in 1 .. Len(accepted) : accepted[j] \in Int
      <4>1. accepted \in Seq(Int)
        BY <1>b, Params DEF TypeOK, Packets
      <4> QED
        BY <4>1, ElementOfSeq
    <3>2. \A j \in 1 .. Len(accepted') : j = Len(accepted) + 1 \/ j \in 1 .. Len(accepted)
      BY <1>d, <2>9
    <3>3. \A j \in 1 .. Len(accepted') : accepted'[j] < next'
      BY <1>b, <1>c, <2>1, <2>9, <3>1, <3>2 DEF OrderOK
    <3>4. ASSUME NEW j \in 1 .. Len(accepted'), NEW l \in 1 .. Len(accepted'), j < l
          PROVE  accepted'[j] < accepted'[l]
      <4>1. j \in 1 .. Len(accepted)
        BY <1>d, <2>9, <3>4
      <4> QED
        BY <1>b, <2>9, <3>2, <3>4, <4>1 DEF OrderOK
    <3> QED
      BY <3>3, <3>4 DEF OrderOK
  <2> QED
    BY <1>a, <2>7, <2>8, <2>10, <2>11 DEF QInv
<1>6. CASE WPublish \/ WEnd
  <2>1. /\ UNCHANGED <<ridx, w, slot, accepted, got, batch, next>>
        /\ UNCHANGED <<todo, rpc, ravali, i, r, seen>> /\ wpc' = "load1"
    BY <1>6 DEF WPublish, WEnd
  <2>4. Waiting' = Held /\ Unpublished' = 0 /\ Held' = Held
    BY <1>6, PublishStep
  <2>5. WriterOK'
    BY <2>1, <2>4 DEF WriterOK, Settled
  <2>6. ReaderOK'
    BY <1>b, <1>c, <1>d, <2>1, <2>4 DEF ReaderOK, Turns
  <2>7. ContentOK'
    BY <1>b, <2>1, <2>4 DEF ContentOK
  <2>8. OrderOK'
    BY <1>b, <2>1, KeepOrderDone
  <2> QED
    BY <1>a, <2>5, <2>6, <2>7, <2>8 DEF QInv
<1>7. CASE WCount
  <2>1. UNCHANGED <<widx, ridx, w, wavali, seen, todo>> /\ wpc = "done" /\ wpc' = "idle"
    BY <1>7 DEF WCount
  <2>2. WriterOK'
    BY <1>b, <1>f, <2>1 DEF WriterOK, Settled
  <2>3. ReaderOK' /\ ContentOK' /\ OrderOK'
    BY <1>b, <1>7, KeepReader, KeepContent, KeepOrderDone DEF WCount
  <2> QED
    BY <1>a, <2>2, <2>3 DEF QInv
<1>8. CASE WLoad1
  <2>1. /\ UNCHANGED <<widx, ridx, w, wavali, todo>> /\ wpc = "load1" /\ seen' = ridx
        /\ wpc' = IF widx > ridx THEN "above" ELSE "below"
    BY <1>8 DEF WLoad1
  <2>2. WriterOK'
    BY <1>b, <1>c, <1>f, <2>1 DEF WriterOK, Settled, Index
  <2>3. ReaderOK' /\ ContentOK' /\ OrderOK'
    BY <1>b, <1>8, KeepReader, KeepContent, KeepOrderDone DEF WLoad1
  <2> QED
    BY <1>a, <2>2, <2>3 DEF QInv
<1>9. CASE WBelow
  <2>1. /\ UNCHANGED <<widx, ridx, w, wavali, todo>> /\ wpc = "below" /\ seen' = ridx
        /\ wpc' = "load3" /\ widx < ridx
    BY <1>9 DEF WBelow
  <2>2. WriterOK'
    BY <1>b, <1>c, <1>f, <2>1 DEF WriterOK, Settled, Index
  <2>3. ReaderOK' /\ ContentOK' /\ OrderOK'
    BY <1>b, <1>9, KeepReader, KeepContent, KeepOrderDone DEF WBelow
  <2> QED
    BY <1>a, <2>2, <2>3 DEF QInv
<1>10. CASE WAbove
  <2>1. Above = IF ridx = widx THEN -1 ELSE Room
    BY <1>b, Available
  <2>2. ridx = widx => Waiting = 0
    BY <1>b, <1>c, Available DEF Index
  <2>3. Above \in Int /\ Above <= Room /\ (Above < 0 => Waiting = 0) /\ Room \in Int
    BY <1>c, <1>d, <2>1, <2>2
  <2>4. (Above < 0 => Waiting = 0 \/ Torn(Above)) /\ (Above > Room => Torn(Above))
    BY <2>3
  <2>5. WReturn(Above) /\ Loading
    BY <1>10 DEF WAbove, Loading
  <2> QED
    BY <1>a, <2>3, <2>4, <2>5, ReturnStep DEF QInv
<1>11. CASE WEqual
  <2>1. widx <= seen /\ ~(widx < ridx)
    BY <1>b, <1>11 DEF WEqual, WriterOK
  <2>2. ridx = seen => Waiting = 0
    BY <1>b, <1>c, <2>1, Available DEF Index
  <2>3. N - 1 > Room => Torn(N - 1)
    BY <1>c, <1>d, <2>2 DEF Torn
  <2>4. N - 1 \in Int /\ ~(N - 1 < 0)
    BY <1>c
  <2>5. WReturn(N - 1) /\ Loading
    BY <1>11 DEF WEqual, Loading
  <2> QED
    BY <1>a, <2>3, <2>4, <2>5, ReturnStep DEF QInv
<1>12. CASE WLoad3
  <2>1. widx < seen
    BY <1>b, <1>12 DEF WLoad3, WriterOK
  <2>2. ridx = seen => ridx - widx - 1 = Room
    BY <1>b, <2>1, Available
  <2>3. ridx - widx - 1 \in Int /\ Room \in Int /\ (Room < N - 1 \/ Waiting = 0) /\ Room >= 0
    BY <1>c, <1>d DEF Index
  <2>4. /\ ridx - widx - 1 > Room => Torn(ridx - widx - 1)
        /\ ridx - widx - 1 < 0 => Waiting = 0 \/ Torn(ridx - widx - 1)
    BY <2>2, <2>3 DEF Torn
  <2> QED
    BY <1>a, <1>12, <2>3, <2>4, ReturnStep DEF WLoad3, Loading, QInv
<1>13. CASE RLoad1
  <2>1. UNCHANGED <<widx, ridx, w, wavali, wpc, seen, todo>> 
    BY <1>13 DEF RLoad1
  <2>2. UNCHANGED <<ravali, i, r, batch>> /\ rpc = "idle" /\ rpc' = "load2"
    BY <1>13 DEF RLoad1
  <2>3. ReaderOK'
    BY <1>b, <2>1, <2>2 DEF ReaderOK, Turns
  <2>4. WriterOK' /\ ContentOK' /\ OrderOK'
    BY <1>b, <1>13, <2>1, KeepWriter, KeepContent, KeepOrderDone DEF RLoad1
  <2> QED
    BY <1>a, <2>3, <2>4 DEF QInv
<1>14. CASE RLoad2
  <2>1. UNCHANGED <<widx, ridx, w, wavali, wpc, seen, todo>> 
    BY <1>14 DEF RLoad2
  <2>2. /\ UNCHANGED <<r, batch>> /\ rpc = "load2" /\ i' = 0 /\ ravali' = ReadAvali
        /\ rpc' \in {"idle", "stop", "read"}
        /\ rpc' = "read" => ReadAvali > 0
        /\ ReadAvali \in Int
    <3>1. ReadAvali \in Int
      BY <1>b, <1>c, <1>d, Available DEF Index
    <3> QED
      BY <1>14, <3>1 DEF RLoad2
  <2>3. ReadAvali > 0 => ReadAvali <= Waiting
    BY <1>b, <1>c, <1>d, Available DEF Index
  <2>4. Turns = 0 /\ Turns' = 0
    BY <2>2 DEF Turns
  <2>5. ReaderOK'
    BY <1>b, <1>c, <1>d, <1>f, <2>1, <2>2, <2>3, <2>4 DEF ReaderOK
  <2>6. WriterOK' /\ ContentOK' /\ OrderOK'
    BY <1>b, <1>14, <2>1, KeepWriter, KeepContent, KeepOrderDone DEF RLoad2
  <2> QED
    BY <1>a, <2>5, <2>6 DEF QInv
<1>15. CASE RRead
  <2>1. /\ UNCHANGED <<widx, ridx, w, wavali, wpc, seen, todo>>
        /\ UNCHANGED <<slot, accepted, got, next, rpc, ravali>>
        /\ rpc = "read" /\ i < ravali /\ i' = i + 1 /\ r' = NextIdx(r)
        /\ batch' = Append(batch, slot[r])
    BY <1>15 DEF RRead
  <2>2. /\ 0 < ravali /\ ravali <= Waiting /\ i + 1 \in 0 .. N /\ i \in 0 .. N
        /\ Len(batch) = i /\ r = Up(ridx, i)
    BY <1>b, <1>c, <1>d, <2>1 DEF ReaderOK, Turns
  <2>3. r' = Up(ridx, i + 1)
    <3>1. r' = Up(r, 1)
      BY <2>1, AreSteps
    <3> QED
      BY <1>c, <2>2, <3>1, UpUp
  <2>4. /\ Len(batch') = i + 1 /\ batch'[i + 1] = slot[r]
        /\ \A j \in 1 .. Len(batch) : batch'[j] = batch[j]
    <3>1. batch \in Seq(Packets) /\ slot[r] \in Packets
      BY <1>b, <1>c DEF TypeOK
    <3> QED
      BY <2>1, <2>2, <3>1, AppendProperties
  <2>5. ReaderOK'
    BY <1>c, <1>d, <1>f, <2>1, <2>2, <2>3, <2>4 DEF ReaderOK, Turns
  <2>6. slot[r] = accepted[Len(got) + (i + 1)]
    <3>1. i + 1 \in 1 .. Held /\ (i + 1) - 1 = i
      BY <1>c, <1>d, <2>1, <2>2
    <3>2. slot[Up(ridx, (i + 1) - 1)] = accepted[Len(got) + (i + 1)]
      BY <1>b, <3>1 DEF ContentOK
    <3> QED
      BY <2>2, <3>1, <3>2
  <2>7. \A j \in 1 .. Len(batch') : batch'[j] = accepted'[Len(got') + j]
    <3>1. \A j \in 1 .. Len(batch') : j = i + 1 \/ j \in 1 .. Len(batch)
      BY <1>c, <2>2, <2>4
    <3> QED
      BY <1>b, <2>1, <2>4, <2>6, <3>1 DEF ContentOK
  <2>8. ContentOK'
    <3>1. Held' = Held
      BY <1>d, <1>e, <1>f, <2>1
    <3> QED
      BY <1>b, <2>1, <2>7, <3>1 DEF ContentOK
  <2>9. WriterOK' /\ OrderOK'
    BY <1>b, <2>1, KeepWriter, KeepOrderDone
  <2> QED
    BY <1>a, <2>5, <2>8, <2>9 DEF QInv
<1>16. CASE RAdv
  <2>1. /\ UNCHANGED <<widx, w, wavali, wpc, seen, todo, slot, accepted, next, r>>
        /\ rpc = "read" /\ i >= ravali /\ rpc' = "idle" /\ ridx' = Adv(ridx, ravali)
        /\ got' = got \o batch /\ batch' = <<>>
    BY <1>16 DEF RAdv
  <2>2. /\ 0 < i /\ i = ravali /\ i <= Waiting /\ i \in 0 .. N - 1 /\ r = Up(ridx, i)
        /\ Len(batch) = i
    BY <1>16, AdvStep
  <2>3. ridx' = r /\ ridx' \in Index
    BY <1>16, AdvStep
  <2>4. Waiting' = Waiting - i
    BY <1>16, AdvStep
  <2>5. Unpublished' = Unpublished /\ Held' = Held - i /\ Room' = Room + i
    BY <1>c, <1>d, <1>e, <1>f, <2>1, <2>4
  <2>6. WriterOK'
    BY <1>b, <1>c, <1>d, <2>1, <2>2, <2>4, <2>5 DEF WriterOK, Settled
  <2>7. ReaderOK'
    <3>1. r = Up(ridx', 0) /\ Len(batch') = 0
      BY <2>1, <2>3, UpIndex, EmptySeq
    <3> QED
      BY <2>1, <3>1 DEF ReaderOK, Turns
  <2>8. ContentOK'
    <3>1. /\ Len(got') = Len(got) + i
          /\ \A j \in 1 .. Len(got) : got'[j] = got[j]
          /\ \A j \in Len(got) + 1 .. Len(got) + i : got'[j] = batch[j - Len(got)]
      <4>1. got \in Seq(Packets) /\ batch \in Seq(Packets)
        BY <1>b DEF TypeOK
      <4>2. /\ Len(got \o batch) = Len(got) + Len(batch)
            /\ \A j \in 1 .. Len(got) + Len(batch) :
                  (got \o batch)[j] = IF j <= Len(got) THEN got[j] ELSE batch[j - Len(got)]
        BY <4>1, ConcatProperties
      <4>3. \A j \in 1 .. Len(got) : j \in 1 .. Len(got) + Len(batch) /\ j <= Len(got)
        BY <1>d
      <4>4. \A j \in Len(got) + 1 .. Len(got) + i : /\ j \in 1 .. Len(got) + Len(batch)
                                                   /\ ~(j <= Len(got))
        BY <1>d, <2>2
      <4> QED
        BY <2>1, <2>2, <4>2, <4>3, <4>4
    <3>2. Len(accepted') = Len(got') + Held'
      <4>1. Len(accepted) = Len(got) + Held /\ accepted' = accepted
        BY <1>b, <2>1 DEF ContentOK
      <4>2. Len(got') = Len(got) + i
        BY <3>1
      <4> QED
        BY <1>c, <1>d, <2>5, <4>1, <4>2
    <3>3. ASSUME NEW j \in 1 .. Len(got') PROVE got'[j] = accepted[j]
      <4>1. CASE j \in 1 .. Len(got)
        BY <1>b, <3>1, <4>1 DEF ContentOK
      <4>2. CASE j \notin 1 .. Len(got)
        <5>1. /\ j \in Len(got) + 1 .. Len(got) + i /\ j - Len(got) \in 1 .. Len(batch)
              /\ Len(got) + (j - Len(got)) = j
          BY <1>c, <1>d, <2>2, <3>1, <3>3, <4>2
        <5> QED
          BY <1>b, <3>1, <5>1 DEF ContentOK
      <4> QED
        BY <4>1, <4>2
    <3>4. ASSUME NEW j \in 1 .. Held'
          PROVE  slot[Up(ridx', j - 1)] = accepted[Len(got') + j]
      <4>1. /\ i + j \in 1 .. Held /\ (i + j) - 1 = i + (j - 1) /\ j - 1 \in 0 .. N
            /\ i + (j - 1) <= N /\ Len(got') + j = Len(got) + (i + j)
        BY <1>c, <1>d, <2>2, <2>5, <3>1, <3>4
      <4>2. Up(ridx', j - 1) = Up(ridx, (i + j) - 1)
        BY <1>c, <2>2, <2>3, <4>1, UpUp
      <4> QED
        BY <1>b, <4>1, <4>2 DEF ContentOK
    <3>5. 1 .. Len(batch') = {}
      BY <2>1, EmptySeq
    <3> QED
      BY <2>1, <3>2, <3>3, <3>4, <3>5 DEF ContentOK
  <2>9. OrderOK'
    BY <1>b, <2>1, KeepOrderDone
  <2> QED
    BY <1>a, <2>6, <2>7, <2>8, <2>9 DEF QInv
<1>17. CASE RRestart
  <2>1. /\ UNCHANGED <<widx, ridx, w, wavali, wpc, seen, todo, slot, accepted, got, next>>
        /\ rpc' = "idle" /\ r' = ridx /\ batch' = <<>>
    BY <1>17 DEF RRestart
  <2>2. ReaderOK'
    <3>1. r' = Up(ridx, 0) /\ Len(batch') = 0
      BY <1>c, <2>1, UpIndex, EmptySeq
    <3> QED
      BY <2>1, <3>1 DEF ReaderOK, Turns
  <2>3. ContentOK'
    <3>1. Held' = Held /\ 1 .. Len(batch') = {}
      BY <1>d, <1>e, <1>f, <2>1, EmptySeq
    <3> QED
      BY <1>b, <2>1, <3>1 DEF ContentOK
  <2>4. WriterOK' /\ OrderOK'
    BY <1>b, <2>1, KeepWriter, KeepOrderDone
  <2> QED
    BY <1>a, <2>2, <2>3, <2>4 DEF QInv
<1>18. CASE UNCHANGED vars
  BY <1>a, <1>b, <1>18, KeepWriter, KeepReader, KeepContent, KeepOrderDone DEF QInv, vars
<1> QED
  BY <1>1, <1>2, <1>3, <1>4, <1>5, <1>6, <1>7, <1>8, <1>9, <1>10, <1>11, <1>12, <1>13,
     <1>14, <1>15, <1>16, <1>17, <1>18 DEF Next, Writer, Loads, Reader

\* If no thread goes on after a torn call, the slots from ridx up to widx hold, in order, the
\* packets that were accepted and not given back, and the reader is inside them.
THEOREM Queueing == ASSUME LoadsTear = FALSE PROVE Spec => []QInv
<1>1. Init => QInv
  <2> SUFFICES ASSUME Init PROVE QInv
    OBVIOUS
  <2>1. CInv
    BY CountInit
  <2>2. 0 \in Index /\ Waiting = 0 /\ Unpublished = 0 /\ Held = 0 /\ Room = N - 1
    <3>1. 0 \in Index /\ 0 - 0 = 0
      BY Params DEF Index
    <3>2. Steps(0, 0) = 0
      BY <3>1, StepsAre
    <3>3. Waiting = 0 /\ Unpublished = 0
      BY <3>2, AreSteps DEF Init, Unpublished
    <3> QED
      BY <3>1, <3>3, Params DEF Held, Room
  <2>3. WriterOK
    BY <2>2, Params DEF Init, WriterOK, Settled
  <2>4. ReaderOK
    BY <2>2, UpIndex, EmptySeq DEF Init, ReaderOK, Turns
  <2>5. Len(accepted) = 0 /\ Len(batch) = 0 /\ Len(got) = 0
    BY EmptySeq DEF Init
  <2> QED
    BY <2>1, <2>2, <2>3, <2>4, <2>5 DEF QInv, ContentOK, OrderOK
<1>2. LoadsTear = FALSE /\ QInv /\ [Next]_vars => QInv'
  BY QueueStep
<1> QED
  BY <1>1, <1>2, PTL DEF Spec

\* If no thread goes on after a torn call, no packet is written over that the reader is
\* not done with, wherever the reader is and whenever it dies.
THEOREM Overrun == ASSUME LoadsTear = FALSE PROVE Spec => []NoOverrun
<1>1. ASSUME QInv PROVE NoOverrun
  <2>1. /\ Len(accepted) \in Nat /\ Len(got) \in Nat /\ Held <= N - 1 /\ Held \in Nat
        /\ Len(accepted) = Len(got) + Held
    BY <1>1, Numbers
  <2> QED
    BY <2>1 DEF NoOverrun
<1> QED
  BY <1>1, Queueing, PTL

\* Nor is the callback ever given another packet than was copied in at that place.
THEOREM Reading == ASSUME LoadsTear = FALSE PROVE Spec => []ReadsWhatWasWritten
<1>1. ASSUME QInv PROVE ReadsWhatWasWritten
  <2> DEFINE n == Len(got) + Len(batch)
  <2>1. /\ got \in Seq(Packets) /\ batch \in Seq(Packets) /\ accepted \in Seq(Packets)
        /\ Len(got) \in Nat /\ Len(batch) \in Nat /\ Len(accepted) \in Nat
    BY <1>1, Numbers DEF QInv, CInv, TypeOK
  <2>2. n <= Len(accepted) /\ n \in 0 .. Len(accepted)
    <3>1. /\ Len(accepted) = Len(got) + Held /\ Held \in Nat /\ Len(batch) <= Waiting
          /\ Waiting <= Held /\ Waiting \in Nat
      BY <1>1, BatchHeld, Numbers
    <3> QED
      BY <2>1, <3>1
  <2>3. /\ got \o batch \in Seq(Packets) /\ Len(got \o batch) = n
        /\ \A j \in 1 .. n :
              (got \o batch)[j] = IF j <= Len(got) THEN got[j] ELSE batch[j - Len(got)]
    BY <2>1, ConcatProperties
  <2>4. /\ SubSeq(accepted, 1, n) \in Seq(Packets) /\ Len(SubSeq(accepted, 1, n)) = n
        /\ \A j \in 1 .. n : SubSeq(accepted, 1, n)[j] = accepted[j]
    BY <2>1, <2>2, Prefix
  <2>5. ASSUME NEW j \in 1 .. n PROVE (got \o batch)[j] = accepted[j]
    <3>1. CASE j <= Len(got)
      BY <1>1, <2>1, <2>3, <3>1 DEF QInv, ContentOK
    <3>2. CASE ~(j <= Len(got))
      <4>1. j - Len(got) \in 1 .. Len(batch) /\ Len(got) + (j - Len(got)) = j
        BY <2>1, <3>2
      <4> QED
        BY <1>1, <2>3, <3>2, <4>1 DEF QInv, ContentOK
    <3> QED
      BY <3>1, <3>2
  <2>6. \A j \in 1 .. Len(got \o batch) : (got \o batch)[j] = SubSeq(accepted, 1, n)[j]
    BY <2>3, <2>4, <2>5
  <2> HIDE DEF n
  <2>7. got \o batch = SubSeq(accepted, 1, n)
    BY <2>3, <2>4, <2>6, SeqEqual
  <2> QED
    BY <2>7 DEF n, ReadsWhatWasWritten
<1> QED
  BY <1>1, Queueing, PTL

----------------------------------------------------------------------------
(* The queue is a FIFO.                                                     *)

Queued == [j \in 1 .. Waiting |-> slot[(ridx + j - 1) % N]]

\* what waits in the queue are the packets copied in after those the reader has
Holds ==
    /\ Queued \in Seq(Packets) /\ Len(Queued) = Waiting
    /\ \A j \in 1 .. Waiting : Queued[j] = accepted[Len(got) + j]

LEMMA Holding == QInv => Holds
<1> SUFFICES ASSUME QInv PROVE Holds
  OBVIOUS
<1>1. /\ Waiting \in Nat /\ Waiting <= Held /\ Held \in Nat /\ ridx \in Index /\ N \in Nat
  BY Numbers, BatchHeld
<1>2. ASSUME NEW j \in 1 .. Waiting
      PROVE  /\ slot[(ridx + j - 1) % N] \in Packets
             /\ slot[(ridx + j - 1) % N] = accepted[Len(got) + j]
  <2>1. ridx + j - 1 = ridx + (j - 1) /\ j - 1 \in Int /\ j \in 1 .. Held
    BY <1>1 DEF Index
  <2>2. (ridx + j - 1) % N = Up(ridx, j - 1)
    BY <2>1 DEF Up
  <2>3. Up(ridx, j - 1) \in Index
    BY <1>1, <2>1, UpIndex
  <2> QED
    BY <2>1, <2>2, <2>3 DEF QInv, CInv, TypeOK, ContentOK
<1>3. Queued \in [1 .. Waiting -> Packets]
  BY <1>2 DEF Queued
<1>4. Queued \in Seq(Packets) /\ Len(Queued) = Waiting
  <2>1. Queued \in Seq(Packets)
    BY <1>1, <1>3
  <2> QED
    BY <1>1, <1>3, <2>1, LenProperties
<1> QED
  BY <1>2, <1>4 DEF Holds, Queued

LEMMA HoldingNext == QInv' => Holds'
  BY Holding, PTL

LEMMA PutStep ==
    ASSUME QInv, Holds, QInv', Holds', WPublish \/ WEnd
    PROVE  Fifo!Put \/ UNCHANGED <<Queued, got>>
<1>a. UNCHANGED <<ridx, slot, accepted, got>> /\ Waiting' = Held
  BY PublishStep DEF WPublish, WEnd, hvars
<1>b. /\ Waiting \in Nat /\ Held \in Nat /\ Waiting <= Held /\ Held <= N - 1 /\ N \in Nat
      /\ Len(accepted) = Len(got) + Held /\ Len(got) \in Nat /\ Len(accepted) \in Nat
  BY Numbers, BatchHeld
<1>c. accepted \in Seq(Packets) /\ got \in Seq(Packets) /\ Packets \subseteq Int
  BY Params DEF QInv, CInv, TypeOK, Packets
<1>1. CASE Held = Waiting
  BY <1>a, <1>1 DEF Queued
<1>2. CASE Held # Waiting
  <2>1. /\ Queued \in Seq(Packets) /\ Len(Queued) = Waiting
        /\ Queued' \in Seq(Packets) /\ Len(Queued') = Held
    BY <1>a DEF Holds, Packets
  <2>2. \A j \in 1 .. Held : Queued'[j] = accepted[Len(got) + j]
    BY <1>a DEF Holds
  <2>3. Held \in Waiting + 1 .. N - 1
    BY <1>b, <1>2
  <2>4. SubSeq(Queued', 1, Waiting) = Queued
    <3>1. Waiting \in 0 .. Len(Queued')
      BY <1>b, <2>1
    <3>2. /\ SubSeq(Queued', 1, Waiting) \in Seq(Packets)
          /\ Len(SubSeq(Queued', 1, Waiting)) = Waiting
          /\ \A j \in 1 .. Waiting : SubSeq(Queued', 1, Waiting)[j] = Queued'[j]
      BY <2>1, <3>1, Prefix
    <3>3. \A j \in 1 .. Waiting : j \in 1 .. Held /\ Queued[j] = accepted[Len(got) + j]
      BY <1>b DEF Holds
    <3>4. \A j \in 1 .. Len(SubSeq(Queued', 1, Waiting)) :
             SubSeq(Queued', 1, Waiting)[j] = Queued[j]
      BY <2>2, <3>2, <3>3
    <3> QED
      BY <2>1, <3>2, <3>4, SeqEqual
  <2>5. got \o Queued' = accepted
    <3>1. /\ got \o Queued' \in Seq(Packets) /\ Len(got \o Queued') = Len(got) + Held
          /\ \A j \in 1 .. Len(got) + Held :
                (got \o Queued')[j] = IF j <= Len(got) THEN got[j] ELSE Queued'[j - Len(got)]
      BY <1>c, <2>1, ConcatProperties
    <3>2. ASSUME NEW j \in 1 .. Len(got) + Held PROVE (got \o Queued')[j] = accepted[j]
      <4>1. CASE j <= Len(got)
        BY <1>b, <3>1, <4>1 DEF QInv, ContentOK
      <4>2. CASE ~(j <= Len(got))
        <5>1. j - Len(got) \in 1 .. Held /\ Len(got) + (j - Len(got)) = j
          BY <1>b, <4>2
        <5> QED
          BY <2>2, <3>1, <4>2, <5>1
      <4> QED
        BY <4>1, <4>2
    <3> QED
      BY <1>b, <1>c, <3>1, <3>2, SeqEqual
  <2>6. \A j \in 2 .. Len(accepted) : accepted[j - 1] < accepted[j]
    <3>1. \A j \in 2 .. Len(accepted) : /\ j - 1 \in 1 .. Len(accepted)
                                        /\ j \in 1 .. Len(accepted) /\ j - 1 < j
      BY <1>b
    <3> QED
      BY <3>1 DEF QInv, OrderOK
  <2>7. Fifo!Increasing(got \o Queued')
    BY <2>5, <2>6 DEF Fifo!Increasing
  <2> QED
    BY <1>a, <2>1, <2>3, <2>4, <2>7 DEF Fifo!Put, Queued
<1> QED
  BY <1>1, <1>2

LEMMA GetStep ==
    ASSUME QInv, Holds, QInv', Holds', RAdv
    PROVE  Fifo!Get
<1>a. UNCHANGED accepted /\ got' = got \o batch
  BY DEF RAdv
<1>b. /\ 0 < i /\ i <= Waiting /\ i \in Nat /\ Len(batch) = i /\ Waiting' = Waiting - i
      /\ Waiting \in Nat /\ Len(got) \in Nat
  BY AdvStep, Numbers
<1>c. /\ batch \in Seq(Packets) /\ got \in Seq(Packets)
      /\ Queued \in Seq(Packets) /\ Len(Queued) = Waiting
      /\ Queued' \in Seq(Packets) /\ Len(Queued') = Waiting - i
  BY <1>b DEF QInv, CInv, TypeOK, Holds, Packets
<1>1. batch = SubSeq(Queued, 1, i)
  <2>1. i \in 0 .. Len(Queued)
    BY <1>b, <1>c
  <2>2. /\ SubSeq(Queued, 1, i) \in Seq(Packets) /\ Len(SubSeq(Queued, 1, i)) = i
        /\ \A j \in 1 .. i : SubSeq(Queued, 1, i)[j] = Queued[j]
    BY <1>c, <2>1, Prefix
  <2>3. \A j \in 1 .. i : j \in 1 .. Waiting /\ batch[j] = accepted[Len(got) + j]
    BY <1>b DEF QInv, ContentOK
  <2>4. \A j \in 1 .. Len(batch) : batch[j] = SubSeq(Queued, 1, i)[j]
    BY <1>b, <2>2, <2>3 DEF Holds
  <2> QED
    BY <1>b, <1>c, <2>2, <2>4, SeqEqual
<1>2. Queued' = SubSeq(Queued, i + 1, Waiting)
  <2>1. \A j \in i + 1 .. Waiting : Queued[j] \in Packets
    BY <1>b, <1>c, ElementOfSeq
  <2>2. /\ SubSeq(Queued, i + 1, Waiting) \in Seq(Packets)
        /\ Len(SubSeq(Queued, i + 1, Waiting))
              = IF i + 1 <= Waiting THEN Waiting - (i + 1) + 1 ELSE 0
        /\ \A j \in 1 .. Waiting - (i + 1) + 1 :
              SubSeq(Queued, i + 1, Waiting)[j] = Queued[(i + 1) + j - 1]
    <3>1. i + 1 \in Int /\ Waiting \in Int
      BY <1>b
    <3> QED
      BY <2>1, <3>1, SubSeqProperties
  <2>3. Len(got') = Len(got) + i
    BY <1>a, <1>b, <1>c, ConcatProperties
  <2>4. ASSUME NEW j \in 1 .. Waiting - i
        PROVE  Queued'[j] = SubSeq(Queued, i + 1, Waiting)[j]
    <3>1. /\ j \in 1 .. Waiting - (i + 1) + 1 /\ (i + 1) + j - 1 = i + j
          /\ i + j \in 1 .. Waiting /\ (Len(got) + i) + j = Len(got) + (i + j)
      BY <1>b
    <3>2. Queued'[j] = accepted[(Len(got) + i) + j]
      BY <1>a, <1>b, <2>3 DEF Holds
    <3>3. Queued[i + j] = accepted[Len(got) + (i + j)]
      BY <3>1 DEF Holds
    <3>4. SubSeq(Queued, i + 1, Waiting)[j] = Queued[i + j]
      BY <2>2, <3>1
    <3> QED
      BY <3>1, <3>2, <3>3, <3>4
  <2>5. Len(SubSeq(Queued, i + 1, Waiting)) = Waiting - i
    BY <1>b, <2>2
  <2> QED
    BY <1>c, <2>2, <2>4, <2>5, SeqEqual
<1>3. Queued # <<>>
  BY <1>b, <1>c, EmptySeq
<1>4. i \in 1 .. Len(Queued)
  BY <1>b, <1>c
<1> QED
  BY <1>a, <1>c, <1>1, <1>2, <1>3, <1>4 DEF Fifo!Get, Queued

\* no other step moves what is queued
LEMMA QuietStep ==
    ASSUME QInv, Holds, QInv', Holds', [Next]_vars, ~(WPublish \/ WEnd), ~RAdv
    PROVE  UNCHANGED <<Queued, got>>
<1>1. CASE WCopy
  <2>a. UNCHANGED <<widx, ridx, got>> /\ accepted' = Append(accepted, next)
    BY <1>1 DEF WCopy
  <2>b. /\ Waiting \in Nat /\ Waiting <= Held /\ Held \in Nat /\ Len(got) \in Nat
        /\ Len(accepted) = Len(got) + Held
    BY Numbers, BatchHeld
  <2>c. accepted \in Seq(Int) /\ next \in Int
    <3>1. accepted \in Seq(0 .. MaxPkts) /\ next \in 1 .. MaxPkts + 1
      BY DEF QInv, CInv, TypeOK, Packets
    <3> QED
      BY <3>1, Params
  <2>1. Waiting' = Waiting
    BY <2>a DEF Waiting
  <2>2. \A j \in 1 .. Len(accepted) : accepted'[j] = accepted[j]
    <3>1. \A j \in 1 .. Len(accepted) : Append(accepted, next)[j] = accepted[j]
      BY <2>c, AppendProperties
    <3> QED
      BY <2>a, <3>1
  <2>3. \A j \in 1 .. Waiting : Len(got) + j \in 1 .. Len(accepted)
    BY <2>b
  <2>4. /\ Queued \in Seq(Packets) /\ Len(Queued) = Waiting
        /\ Queued' \in Seq(Packets) /\ Len(Queued') = Waiting
    BY <2>1 DEF Holds, Packets
  <2>5. \A j \in 1 .. Len(Queued') : Queued'[j] = Queued[j]
    BY <2>a, <2>1, <2>2, <2>3, <2>4 DEF Holds
  <2> QED
    BY <2>a, <2>4, <2>5, SeqEqual
<1>2. CASE ~WCopy
  <2>1. UNCHANGED <<widx, ridx, slot, got>>
    BY <1>2 DEF Next, Writer, Loads, Reader, vars, qvars, wvars, bvars, rvars, hvars,
       WBatch, WError, WLook, WDrop, WCount, WLoad1, WAbove, WBelow, WEqual, WLoad3, WReturn,
       RLoad1, RLoad2, RRead, RRestart
  <2> QED
    BY <2>1 DEF Queued, Waiting
<1> QED
  BY <1>1, <1>2

\* If no thread goes on after a torn call, the queue is a FIFO of N - 1 packets, for every
\* N: to publish is to put, to give slots back is to get, and nothing else is seen of it.
THEOREM Refinement == ASSUME LoadsTear = FALSE PROVE Spec => FifoSpec
<1>1. Init => Fifo!Init
  <2> SUFFICES ASSUME Init PROVE Fifo!Init
    OBVIOUS
  <2>1. Waiting = 0
    <3>1. 0 \in Index /\ 0 - 0 = 0
      BY Params DEF Index
    <3>2. Steps(0, 0) = 0
      BY <3>1, StepsAre
    <3> QED
      BY <3>2, AreSteps DEF Init
  <2>2. Queued = <<>>
    <3>1. 1 .. Waiting = {}
      BY <2>1
    <3> QED
      BY <3>1 DEF Queued
  <2> QED
    BY <2>2 DEF Init, Fifo!Init, Queued
<1>2. QInv /\ Holds /\ QInv' /\ Holds' /\ [Next]_vars
         => [Fifo!Put \/ Fifo!Get]_<<Queued, got>>
  BY PutStep, GetStep, QuietStep
<1>3. QInv /\ QInv' /\ [Next]_vars
         => [Fifo!Put \/ Fifo!Get]_<<[j \in 1 .. Waiting |-> slot[(ridx + j - 1) % N]], got>>
  BY <1>2, Holding, HoldingNext DEF Queued
<1> QED
  BY <1>1, <1>3, Queueing, PTL DEF Spec, FifoSpec, Fifo!Spec

============================================================================
