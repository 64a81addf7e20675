---------------------------- MODULE KRing_proofs ----------------------------
(* IInv of KRing is inductive, and what follows from it. *)
EXTENDS KRing, SequenceTheorems, TLAPS

USE KRingAssumption DEF KRingAssumption
USE DEF kvars, uvars, dvars, nvars, rvars, svars, lvars, hvars, bvars

\* A client that keeps buffers with reserved does not also store bad values: after a
\* fault dpa_ring_reinit moves cur back and leaves reserved as it is.
Legal == Drains /\ (MaxResvd = 0 \/ MaxFaults = 0)

\* going on from b, as long as c is not passed, adds to the way from a to b
LEMMA DistAdd ==
    ASSUME NEW a \in Slots, NEW b \in Slots, NEW c \in Slots, NEW d \in Slots,
           Dist(a, b) <= Dist(a, c), Dist(b, d) <= Dist(b, c)
    PROVE  Dist(a, d) = Dist(a, b) + Dist(b, d)
BY DEF Dist, Slots

LEMMA InitInv == Init => IInv
<1> SUFFICES ASSUME Init PROVE IInv
    OBVIOUS
<1> USE DEF Init
<1>1. TypeOK
  <2>1. hlog \in Seq(Packets) /\ done \subseteq Slots
    OBVIOUS
  <2>2. bufIdx \in [Slots -> Buffers] /\ daddr \in [Slots -> Buffers]
    BY DEF Slots, Buffers
  <2>3. len \in [Slots -> Packets] /\ dlen \in [Slots -> Packets] /\ mem \in [Buffers -> Packets]
    BY DEF Packets
  <2>4. resets \in 0 .. MaxResets /\ crashes \in 0 .. MaxCrashes /\ faults \in 0 .. MaxFaults
    OBVIOUS
  <2>5. nextId \in 1 .. MaxPkts + 1
    OBVIOUS
  <2>6. 0 \in Slots /\ N - 1 \in Slots /\ 0 \in 0 .. N - 1 /\ 0 \in 0 .. N /\ 0 \in Nat
    BY DEF Slots
  <2> QED
    BY <2>1, <2>2, <2>3, <2>4, <2>5, <2>6 DEF TypeOK
<1>2. ResetOK
  BY DEF ResetOK, Syncing
<1>3. RingsOK
  BY DEF RingsOK, N2K, Wrap, Filled, Given, Dist, Slots
<1>4. BuffersOK
  BY DEF BuffersOK, Slots
<1>5. SyncOK /\ ProcessOK
  BY DEF SyncOK, ProcessOK, Syncing, Dist
<1> QED
  BY <1>1, <1>2, <1>3, <1>4, <1>5 DEF IInv

LEMMA NicReceiveInv == IInv /\ NicReceive => IInv'
<1> SUFFICES ASSUME IInv, NicReceive PROVE IInv'
    OBVIOUS
<1> USE DEF IInv, NicReceive
<1>0. rpc = "up" /\ daddr[head] \in Buffers /\ head \in Slots /\ nextId \in 1 .. MaxPkts
  BY DEF ResetOK, TypeOK
<1>1. TypeOK'
  <2>1. done' \subseteq Slots
    BY <1>0 DEF TypeOK
  <2>3. nextId \in Packets
    BY <1>0 DEF Packets
  <2>4. mem' \in [Buffers -> Packets]
    BY <1>0, <2>3 DEF TypeOK
  <2>5. dlen' \in [Slots -> Packets]
    BY <1>0, <2>3 DEF TypeOK
  <2>2. head' \in Slots /\ nextId' \in 1 .. MaxPkts + 1
    BY <1>0 DEF Slots, Next1
  <2> QED
    BY <2>1, <2>2, <2>4, <2>5 DEF TypeOK
<1>2. ResetOK'
  BY <1>0 DEF ResetOK, Syncing
<1>3. RingsOK'
  <2>1. Filled' = Filled + 1 /\ Filled < Given
    BY <1>0 DEF Filled, Given, Dist, Next1, TypeOK, Slots, RingsOK
  <2>2. Given' = Given /\ Filled \in Nat /\ Given \in Nat
    BY <1>0 DEF Given, Filled, Dist, TypeOK, Slots
  <2>3. /\ N2K(ntc)' = Wrap(hwcur + hwavail)'
        /\ (hwavail + Given = N - 1)'
        /\ Filled' <= Given'
    BY <1>0, <2>1, <2>2 DEF RingsOK, N2K, Wrap
  <2>4. ASSUME NEW d \in Slots, Dist(ntc, d)' < Filled'
        PROVE  d \in done'
    <3>1. Dist(ntc, d) < Filled \/ d = head
      BY <1>0, <2>1, <2>4 DEF Filled, Dist, TypeOK, Slots
    <3> QED
      BY <1>0, <3>1 DEF RingsOK
  <2>5. ASSUME NEW d \in Slots, Filled' <= Dist(ntc, d)', Dist(ntc, d)' <= Given'
        PROVE  d \notin done'
    <3>1. Filled <= Dist(ntc, d) /\ Dist(ntc, d) <= Given /\ d # head
      BY <1>0, <2>1, <2>2, <2>5 DEF Filled, Dist, TypeOK, Slots
    <3> QED
      BY <1>0, <3>1 DEF RingsOK
  <2>6. \A d \in Slots : (Dist(ntc, d) <= Given => daddr[d] = N2K(d) + 2)'
    BY <1>0, <2>2 DEF RingsOK, N2K, Wrap, Dist
  <2> QED
    BY <2>3, <2>4, <2>5, <2>6 DEF RingsOK
<1>4. BuffersOK'
  BY DEF BuffersOK, InUse
<1>5. SyncOK' /\ ProcessOK'
  BY <1>0, <1>3 DEF SyncOK, ProcessOK, Syncing, N2K, Filled, Dist, Next1, TypeOK, Slots,
     RingsOK, Given
<1> QED
  BY <1>1, <1>2, <1>3, <1>4, <1>5

LEMMA SyncBeginInv == IInv /\ SyncBegin => IInv'
<1> SUFFICES ASSUME IInv, SyncBegin PROVE IInv'
    OBVIOUS
<1> USE DEF IInv, SyncBegin
<1>1. TypeOK'
  BY DEF TypeOK, N2K, Wrap, Slots
<1>2. ResetOK'
  BY DEF ResetOK, Syncing
<1>3. RingsOK'
  BY DEF RingsOK, Filled, Given, N2K
<1>4. BuffersOK'
  BY DEF BuffersOK, InUse
<1>5. SyncOK'
  BY DEF SyncOK, Syncing, N2K, Dist, Filled, TypeOK, Slots
<1>6. ProcessOK'
  BY DEF ProcessOK
<1> QED
  BY <1>1, <1>2, <1>3, <1>4, <1>5, <1>6

LEMMA HarvestInv == IInv /\ Harvest => IInv'
<1> SUFFICES ASSUME IInv, Harvest PROVE IInv'
    OBVIOUS
<1> USE DEF IInv, Harvest
<1>1. rpc # "clean" /\ n \in Slots /\ i < Filled
  <2>1. rpc # "clean" /\ n \in Slots /\ Dist(ntc, n) = i /\ i <= Filled
    BY DEF ResetOK, Syncing, SyncOK, TypeOK
  <2>2. Filled <= Given /\ Filled \in Nat /\ Given \in Nat /\ i \in Nat
    BY <2>1 DEF RingsOK, TypeOK, Slots, Dist, Filled, Given
  <2>3. ~(Filled <= Dist(ntc, n) /\ Dist(ntc, n) <= Given)
    BY <2>1 DEF RingsOK
  <2> QED
    BY <2>1, <2>2, <2>3
<1>2. TypeOK'
  <2>1. k' \in Slots /\ n' \in Slots /\ i' \in 0 .. N - 1
    BY <1>1 DEF TypeOK, Next1, Slots, Filled, Dist
  <2>2. len' \in [Slots -> Packets]
    BY <1>1 DEF TypeOK
  <2>3. hlog' \in Seq(Packets)
    BY <1>1 DEF TypeOK
  <2> QED
    BY <2>1, <2>2, <2>3 DEF TypeOK
<1>3. ResetOK'
  BY DEF ResetOK, Syncing
<1>4. RingsOK'
  BY DEF RingsOK, Filled, Given, N2K
<1>5. BuffersOK'
  BY DEF BuffersOK, InUse
<1>6. SyncOK'
  BY <1>1 DEF SyncOK, Syncing, N2K, Wrap, Next1, Dist, Filled, TypeOK, Slots
<1>7. ProcessOK'
  BY DEF ProcessOK
<1> QED
  BY <1>1, <1>2, <1>3, <1>4, <1>5, <1>6, <1>7

LEMMA HarvestEndInv == IInv /\ HarvestEnd => IInv'
<1> SUFFICES ASSUME IInv, HarvestEnd PROVE IInv'
    OBVIOUS
<1> USE DEF IInv, HarvestEnd
<1>1. rpc # "clean" /\ n \in Slots /\ i = Filled /\ n = head
  BY DEF ResetOK, Syncing, SyncOK, RingsOK, TypeOK, Slots, Dist, Filled, Given
<1>2. TypeOK'
  BY <1>1 DEF TypeOK, Slots, RingsOK, Given, Filled, Dist
<1>3. ResetOK'
  BY <1>1 DEF ResetOK, Syncing
<1>4. RingsOK'
  <2>1. ntc' = head /\ Filled' = 0 /\ Given' = Given - i /\ hwavail' = hwavail + i
    BY <1>1 DEF RingsOK, Filled, Given, Dist, TypeOK, Slots
  <2>2. ASSUME NEW d \in Slots, Dist(ntc', d) <= Given'
        PROVE  Dist(ntc, d) = Dist(ntc', d) + Filled
    <3>1. Dist(ntc, head) <= Dist(ntc, tail) /\ Dist(head, d) <= Dist(head, tail)
      BY <1>1, <2>1, <2>2 DEF RingsOK, Filled, Given
    <3>2. Dist(ntc, d) = Dist(ntc, head) + Dist(head, d)
      BY <3>1, DistAdd DEF TypeOK
    <3> QED
      BY <2>1, <3>2 DEF Filled, Dist, TypeOK, Slots
  <2>3. N2K(ntc') = Wrap(hwcur + hwavail')
    <3>1. N2K(ntc) = Wrap(hwcur + hwavail) /\ hwavail + Given = N - 1 /\ Filled <= Given
      BY <1>1 DEF RingsOK
    <3>2. ntc \in Slots /\ tail \in Slots /\ head \in Slots /\ hwcur \in Slots /\ hwofs \in Slots
          /\ hwavail \in 0 .. N - 1
      BY DEF TypeOK
    <3> HIDE DEF IInv
    <3> QED
      BY <1>1, <2>1, <3>1, <3>2 DEF Filled, Given, N2K, Dist, Wrap, Slots
  <2>4. hwavail' + Given' = N - 1 /\ Filled' <= Given'
    BY <1>1, <2>1 DEF RingsOK, Filled, Given, Dist, TypeOK, Slots
  <2>5. ASSUME NEW d \in Slots, Dist(ntc', d) <= Given'
        PROVE  d \notin done /\ daddr[d] = N2K(d) + 2
    <3>1. Filled <= Dist(ntc, d) /\ Dist(ntc, d) <= Given
      BY <1>1, <2>1, <2>2, <2>5 DEF Filled, Given, Dist, TypeOK, Slots
    <3> QED
      BY <1>1, <3>1 DEF RingsOK
  <2>6. \A d \in Slots : ~(Dist(ntc', d) < Filled')
    BY <2>1 DEF Dist, TypeOK, Slots
  <2> QED
    <3>1. \A d \in Slots : Dist(ntc', d) <= Given' => d \notin done'
      BY <2>5
    <3>2. \A d \in Slots : Dist(ntc', d) <= Given' => daddr'[d] = N2K(d)' + 2
      BY <2>5 DEF N2K
    <3> QED
      BY <2>3, <2>4, <2>6, <3>1, <3>2 DEF RingsOK, N2K
<1>5. BuffersOK'
  BY <1>1 DEF BuffersOK, InUse, TypeOK, Dist, Slots
<1>6. SyncOK'
  BY DEF SyncOK, Syncing
<1>7. ProcessOK'
  BY DEF ProcessOK, Dist, TypeOK, Slots
<1> QED
  BY <1>1, <1>2, <1>3, <1>4, <1>5, <1>6, <1>7

LEMMA RecvBeginInv == IInv /\ RecvBegin => IInv'
<1> SUFFICES ASSUME IInv, RecvBegin PROVE IInv'
    OBVIOUS
<1> USE DEF IInv, RecvBegin
<1>1. TypeOK'
  BY DEF TypeOK, ProcessOK, Next1, Place, Dist, Slots
<1>2. ResetOK'
  BY DEF ResetOK, Syncing
<1>3. RingsOK'
  BY DEF RingsOK, Filled, Given, N2K
<1>4. BuffersOK'
  BY DEF BuffersOK, InUse
<1>5. SyncOK'
  BY DEF SyncOK, Syncing, ProcessOK
<1>6. ProcessOK'
  BY DEF ProcessOK, TypeOK, Dist, Next1, Slots
<1> QED
  BY <1>1, <1>2, <1>3, <1>4, <1>5, <1>6

LEMMA RecvPacketInv == IInv /\ RecvPacket => IInv'
<1> SUFFICES ASSUME IInv, RecvPacket PROVE IInv'
    OBVIOUS
<1> USE DEF IInv, RecvPacket
<1>1. TypeOK'
  BY DEF TypeOK, ProcessOK, Next1, Place, Dist, Slots
<1>2. ResetOK'
  BY DEF ResetOK, Syncing
<1>3. RingsOK'
  BY DEF RingsOK, Filled, Given, N2K
<1>4. BuffersOK'
  BY DEF BuffersOK, InUse
<1>5. SyncOK'
  BY DEF SyncOK, Syncing, ProcessOK
<1>6. ProcessOK'
  BY DEF ProcessOK, TypeOK, Dist, Next1, Slots
<1> QED
  BY <1>1, <1>2, <1>3, <1>4, <1>5, <1>6

LEMMA RecvAvailInv == IInv /\ RecvAvail => IInv'
<1> SUFFICES ASSUME IInv, RecvAvail PROVE IInv'
    OBVIOUS
<1> USE DEF IInv, RecvAvail
<1>1. TypeOK'
  BY DEF StoreAvail, StoreCur, Store, TypeOK, ProcessOK, Next1, Place, Dist, Slots
<1>2. ResetOK'
  BY DEF ResetOK, Syncing
<1>3. RingsOK'
  BY DEF RingsOK, Filled, Given, N2K
<1>4. BuffersOK'
  BY DEF BuffersOK, InUse
<1>5. SyncOK'
  BY DEF SyncOK, Syncing, ProcessOK
<1>6. ProcessOK'
  BY DEF StoreAvail, StoreCur, Store, ProcessOK, TypeOK, Dist, Next1, Slots
<1> QED
  BY <1>1, <1>2, <1>3, <1>4, <1>5, <1>6

LEMMA RecvCurInv == IInv /\ RecvCur => IInv'
<1> SUFFICES ASSUME IInv, RecvCur PROVE IInv'
    OBVIOUS
<1> USE DEF IInv, RecvCur
<1>1. TypeOK'
  BY DEF StoreAvail, StoreCur, Store, TypeOK, ProcessOK, Next1, Place, Dist, Slots
<1>2. ResetOK'
  BY DEF ResetOK, Syncing
<1>3. RingsOK'
  BY DEF RingsOK, Filled, Given, N2K
<1>4. BuffersOK'
  BY DEF BuffersOK, InUse
<1>5. SyncOK'
  BY DEF SyncOK, Syncing, ProcessOK
<1>6. ProcessOK'
  BY DEF StoreAvail, StoreCur, Store, ProcessOK, TypeOK, Dist, Next1, Slots
<1> QED
  BY <1>1, <1>2, <1>3, <1>4, <1>5, <1>6

LEMMA ReserveInv == IInv /\ Reserve => IInv'
<1> SUFFICES ASSUME IInv, Reserve PROVE IInv'
    OBVIOUS
<1> USE DEF IInv, Reserve
<1>1. TypeOK'
  BY DEF TypeOK, ProcessOK, Next1, Place, Dist, Slots
<1>2. ResetOK'
  BY DEF ResetOK, Syncing
<1>3. RingsOK'
  BY DEF RingsOK, Filled, Given, N2K
<1>4. BuffersOK'
  BY DEF BuffersOK, InUse
<1>5. SyncOK'
  BY DEF SyncOK, Syncing, ProcessOK
<1>6. ProcessOK'
  BY DEF ProcessOK, TypeOK, Dist, Next1, Slots
<1> QED
  BY <1>1, <1>2, <1>3, <1>4, <1>5, <1>6

LEMMA CrashInv == IInv /\ Crash => IInv'
<1> SUFFICES ASSUME IInv, Crash PROVE IInv'
    OBVIOUS
<1> USE DEF IInv, Crash
<1>1. TypeOK'
  BY DEF TypeOK, ProcessOK, Next1, Place, Dist, Slots
<1>2. ResetOK'
  BY DEF ResetOK, Syncing
<1>3. RingsOK'
  BY DEF RingsOK, Filled, Given, N2K
<1>4. BuffersOK'
  BY DEF BuffersOK, InUse
<1>5. SyncOK'
  BY DEF SyncOK, Syncing, ProcessOK
<1>6. ProcessOK'
  BY DEF ProcessOK, TypeOK, Dist, Next1, Slots
<1> QED
  BY <1>1, <1>2, <1>3, <1>4, <1>5, <1>6

LEMMA LinkUpInv == IInv /\ LinkUp => IInv'
<1> SUFFICES ASSUME IInv, LinkUp PROVE IInv'
    OBVIOUS
<1> USE DEF IInv, LinkUp
<1>1. TypeOK'
  BY DEF TypeOK
<1>2. ResetOK'
  BY DEF ResetOK, Syncing
<1>3. RingsOK'
  BY DEF RingsOK, Filled, Given, N2K
<1>4. BuffersOK'
  BY DEF BuffersOK, InUse
<1>5. SyncOK' /\ ProcessOK'
  BY DEF SyncOK, Syncing, ProcessOK, N2K, Filled
<1> QED
  BY <1>1, <1>2, <1>3, <1>4, <1>5

LEMMA LinkDownInv == IInv /\ LinkDown => IInv'
<1> SUFFICES ASSUME IInv, LinkDown PROVE IInv'
    OBVIOUS
<1> USE DEF IInv, LinkDown
<1>1. TypeOK'
  BY DEF TypeOK
<1>2. ResetOK'
  BY DEF ResetOK, Syncing
<1>3. RingsOK'
  BY DEF RingsOK, Filled, Given, N2K
<1>4. BuffersOK'
  BY DEF BuffersOK, InUse
<1>5. SyncOK' /\ ProcessOK'
  BY DEF SyncOK, Syncing, ProcessOK, N2K, Filled
<1> QED
  BY <1>1, <1>2, <1>3, <1>4, <1>5

LEMMA ResetDownInv == IInv /\ ResetDown => IInv'
<1> SUFFICES ASSUME IInv, ResetDown PROVE IInv'
    OBVIOUS
<1> USE DEF IInv, ResetDown
<1>1. TypeOK'
  <2>1. resets' \in 0 .. MaxResets
    BY DEF TypeOK
  <2>2. rxen' \in BOOLEAN /\ carrier' \in BOOLEAN
    OBVIOUS
  <2> QED
    BY <2>1, <2>2 DEF TypeOK
<1>2. ResetOK'
  BY DEF ResetOK, Syncing
<1>3. RingsOK'
  BY DEF RingsOK, Filled, Given, N2K
<1>4. BuffersOK'
  BY DEF BuffersOK, InUse
<1>5. SyncOK' /\ ProcessOK'
  BY DEF SyncOK, Syncing, ProcessOK, N2K, Filled
<1> QED
  BY <1>1, <1>2, <1>3, <1>4, <1>5

\* where the slot of a descriptor lies, seen from hwcur
LEMMA SlotDist ==
    ASSUME TypeOK, N2K(ntc) = Wrap(hwcur + hwavail), NEW d \in Slots
    PROVE  /\ N2K(d) \in Slots
           /\ Dist(hwcur, N2K(d)) = IF hwavail + Dist(ntc, d) < N
                                       THEN hwavail + Dist(ntc, d)
                                       ELSE hwavail + Dist(ntc, d) - N
<1>1. /\ hwcur \in 0 .. N - 1 /\ hwavail \in 0 .. N - 1 /\ hwofs \in 0 .. N - 1
      /\ ntc \in 0 .. N - 1 /\ d \in 0 .. N - 1
  BY DEF TypeOK, Slots
<1>2. Wrap(ntc + hwofs) = Wrap(hwcur + hwavail)
  BY DEF N2K
<1>3. N2K(d) = Wrap(d + hwofs)
  BY DEF N2K
<1>4. Wrap(d + hwofs) \in 0 .. N - 1
  BY <1>1 DEF Wrap
<1>5. CASE ntc <= d
  <2>1. Dist(hwcur, Wrap(d + hwofs)) = IF hwavail + (d - ntc) < N
                                         THEN hwavail + (d - ntc)
                                         ELSE hwavail + (d - ntc) - N
    BY <1>1, <1>2, <1>5 DEF Wrap, Dist
  <2> QED
    BY <1>1, <1>3, <1>4, <1>5, <2>1 DEF Dist, Slots
<1>6. CASE ntc > d
  <2>1. Dist(hwcur, Wrap(d + hwofs)) = IF hwavail + (d + N - ntc) < N
                                         THEN hwavail + (d + N - ntc)
                                         ELSE hwavail + (d + N - ntc) - N
    BY <1>1, <1>2, <1>6 DEF Wrap, Dist
  <2> QED
    BY <1>1, <1>3, <1>4, <1>6, <2>1 DEF Dist, Slots
<1> QED
  BY <1>1, <1>5, <1>6

\* what rx_sync releases are slots in use, up to the ones the process keeps
LEMMA ReleaseFacts ==
    ASSUME IInv, pc = "rearm"
    PROVE  /\ rpc # "clean" /\ cur \in Slots /\ Resvd = reserved
           /\ NewHwcur \in Slots
           /\ Dist(hwcur, NewHwcur) = Dist(hwcur, cur) - reserved
           /\ Dist(hwcur, NewHwcur) \in 0 .. hwavail
           /\ Dist(NewHwcur, cur) = reserved
<1> USE DEF IInv
<1>1. rpc # "clean" /\ u = cur /\ resvd = reserved /\ cur # N
  BY DEF ResetOK, SyncOK, ProcessOK, Syncing
<1>2. cur \in Slots /\ hwcur \in Slots /\ reserved \in Nat /\ avail \in Nat /\ hwavail \in 0 .. N - 1
  BY <1>1 DEF TypeOK, Slots
<1>3. reserved <= Dist(hwcur, cur) /\ Dist(hwcur, cur) + avail <= hwavail
  BY <1>1 DEF ProcessOK
<1>4. Resvd = reserved
  BY <1>1, <1>2, <1>3 DEF Resvd, Dist, Slots
<1> QED
  BY <1>1, <1>2, <1>3, <1>4 DEF NewHwcur, Dist, Slots

\* rewriting descriptors of slots in use leaves the NIC's own untouched
LEMMA BuffersFacts ==
    ASSUME IInv
    PROVE  /\ \A s \in Slots : BadSlot(s) <=> bufIdx[s] = 0
           /\ \A s \in Slots : bufIdx[s] # 0 => bufIdx[s] = s + 2
           /\ \A s \in Slots : bufIdx[s] = 0 => faults > 0 /\ Dist(hwcur, s) < hwavail
BY DEF IInv, BuffersOK, BadSlot, Usable, Buffers, Slots, InUse

LEMMA ReinitFacts ==
    ASSUME IInv, NEW f, RingReinit(f), faults > 0
    PROVE  /\ bufIdx' = bufIdx
           /\ len' \in [Slots -> Packets]
           /\ f \/ (\E s \in Slots : BadSlot(s)) => cur' = hwcur /\ avail' = hwavail
<1>1. bufIdx \in [Slots -> Buffers] /\ len \in [Slots -> Packets]
  BY DEF IInv, TypeOK
<1>2. bufIdx' = bufIdx
  BY <1>1, BuffersFacts DEF RingReinit
<1>3. len' \in [Slots -> Packets]
  BY <1>1 DEF RingReinit, Packets
<1> QED
  BY <1>2, <1>3 DEF RingReinit

LEMMA SyncBadCurInv == Legal /\ IInv /\ SyncBadCur => IInv'
<1> SUFFICES ASSUME Legal, IInv, SyncBadCur PROVE IInv'
    OBVIOUS
<1> USE DEF IInv, SyncBadCur
<1>1. cur = N /\ pc = "fault" /\ faults > 0 /\ reserved = 0
  BY DEF ProcessOK, TypeOK, Legal
<1>2. bufIdx' = bufIdx /\ len' \in [Slots -> Packets] /\ cur' = hwcur /\ avail' = hwavail
  BY <1>1, ReinitFacts
<1>3. TypeOK'
  BY <1>1, <1>2 DEF TypeOK, Slots
<1>4. ResetOK'
  BY DEF ResetOK, Syncing
<1>5. RingsOK'
  BY <1>2 DEF RingsOK, Filled, Given, N2K
<1>6. BuffersOK'
  BY <1>2 DEF BuffersOK, InUse
<1>7. SyncOK' /\ ProcessOK'
  BY <1>1, <1>2 DEF SyncOK, ProcessOK, Syncing, TypeOK, Dist, Slots
<1> QED
  BY <1>3, <1>4, <1>5, <1>6, <1>7

LEMMA RearmInv == IInv /\ Rearm => IInv'
<1> SUFFICES ASSUME IInv, Rearm PROVE IInv'
    OBVIOUS
<1> DEFINE m == Dist(hwcur, NewHwcur)
<1>1. /\ rpc # "clean" /\ cur \in Slots /\ Resvd = reserved /\ NewHwcur \in Slots
      /\ m = Dist(hwcur, cur) - reserved /\ m \in 0 .. hwavail
      /\ Dist(NewHwcur, cur) = reserved
  BY ReleaseFacts DEF Rearm
<1> USE DEF IInv, Rearm
<1>2. hwavail' = hwavail - m /\ hwcur' = NewHwcur /\ reserved' = reserved
  BY <1>1
<1>3. avail' = hwavail - Dist(hwcur, cur) /\ avail' \in 0 .. N - 1
  BY <1>1, <1>2 DEF Published, ProcessOK, TypeOK, Dist, Slots
<1>4. TypeOK'
  <2>1. done' \subseteq Slots
    BY DEF TypeOK, Rewrite
  <2>2. daddr' \in [Slots -> Buffers]
    <3>1. \A d \in Slots : N2K(d) \in Slots
      BY DEF TypeOK, N2K, Wrap, Slots
    <3> QED
      BY <3>1 DEF TypeOK, Rewrite
  <2>3. tail' \in Slots
    BY <1>1, SMTT(30) DEF TypeOK, HoldBack, K2N, Wrap, Slots
  <2>4. hwavail' \in 0 .. N - 1
    BY <1>1, <1>2 DEF TypeOK
  <2> QED
    BY <1>1, <1>2, <1>3, <2>1, <2>2, <2>3, <2>4 DEF TypeOK
<1>5. ResetOK'
  BY <1>1 DEF ResetOK, Syncing
<1>6. RingsOK'
  <2>1. Filled' = Filled /\ Given' = Given + m /\ Given = N - 1 - hwavail /\ Filled <= Given
    <3>0. Given = N - 1 - hwavail /\ Filled <= Given /\ Given \in Nat /\ hwavail \in Nat
      BY <1>1 DEF RingsOK, Given, Dist, TypeOK, Slots
    <3>1. CASE m = 0
      <4>1. tail' = tail
        BY <3>1, <1>1 DEF Dist, TypeOK, Slots
      <4> QED
        BY <1>1, <3>1, <4>1, <3>0 DEF Filled, Given
    <3>2. CASE m # 0
      <4>1. tail' = HoldBack(K2N(NewHwcur))
        BY <3>2, <1>1 DEF Dist, TypeOK, Slots
      <4> QED
        BY <1>1, <3>2, <4>1 DEF RingsOK, Filled, Given, Dist, TypeOK, Slots, HoldBack,
           K2N, N2K, Wrap
    <3> QED
      BY <3>1, <3>2
  <2>2. N2K(ntc)' = Wrap(hwcur' + hwavail')
    BY <1>1, <1>2 DEF RingsOK, N2K, Wrap, Dist, TypeOK, Slots
  <2>3. ASSUME NEW d \in Slots
        PROVE  N2K(d) \in Released <=> Given < Dist(ntc, d) /\ Dist(ntc, d) <= Given'
    <3>1. Dist(ntc, d) \in 0 .. N - 1
      BY DEF Dist, TypeOK, Slots
    <3>2. /\ N2K(d) \in Slots
          /\ Dist(hwcur, N2K(d)) = IF hwavail + Dist(ntc, d) < N
                                       THEN hwavail + Dist(ntc, d)
                                       ELSE hwavail + Dist(ntc, d) - N
      BY <1>1, SlotDist DEF RingsOK
    <3>3. N2K(d) \in Released <=> Dist(hwcur, N2K(d)) < m
      BY <3>2 DEF Released
    <3>4. hwavail \in 0 .. N - 1
      BY DEF TypeOK
    <3> HIDE DEF IInv, m
    <3> QED
      BY <1>1, <2>1, <3>1, <3>2, <3>3, <3>4
  <2>4. ASSUME NEW d \in Slots
        PROVE  /\ Dist(ntc, d) < Filled => d \in done'
               /\ Filled <= Dist(ntc, d) /\ Dist(ntc, d) <= Given' => d \notin done'
               /\ Dist(ntc, d) <= Given' => daddr'[d] = N2K(d) + 2
    <3>1. Dist(ntc, d) \in Nat /\ Filled \in Nat /\ Given \in Nat
      BY DEF Filled, Given, Dist, TypeOK, Slots
    <3>2. N2K(d) \in Released => bufIdx[N2K(d)] = N2K(d) + 2
      BY BuffersFacts DEF Released, FirstBad
    <3>3. /\ Dist(ntc, d) < Filled => d \in done
          /\ Filled <= Dist(ntc, d) /\ Dist(ntc, d) <= Given => d \notin done
          /\ Dist(ntc, d) <= Given => daddr[d] = N2K(d) + 2
      BY <1>1 DEF RingsOK
    <3>4. /\ d \in done' <=> d \in done /\ N2K(d) \notin Released
          /\ daddr'[d] = IF N2K(d) \in Released THEN bufIdx[N2K(d)] ELSE daddr[d]
      BY DEF Rewrite
    <3>5. m \in Nat
      BY <1>1, <1>4 DEF TypeOK
    <3> HIDE DEF IInv, Rearm, m
    <3>6. /\ Dist(ntc, d) < Filled => d \in done'
          /\ Filled <= Dist(ntc, d) /\ Dist(ntc, d) <= Given' => d \notin done'
      BY <2>1, <2>3, <3>1, <3>3, <3>4, <3>5
    <3> QED
      BY <2>1, <2>3, <3>1, <3>2, <3>3, <3>4, <3>5, <3>6
  <2>5. hwavail' + Given' = N - 1 /\ Filled' <= Given' /\ ntc' = ntc
    BY <1>1, <1>2, <2>1 DEF TypeOK, Filled, Given, Dist, Slots
  <2>6. \A d \in Slots : N2K(d)' = N2K(d)
    BY DEF N2K
  <2> HIDE DEF IInv, Rearm, m
  <2> QED
    BY <2>1, <2>2, <2>4, <2>5, <2>6 DEF RingsOK, N2K
<1>7. BuffersOK'
  <2>1. ASSUME NEW s \in Slots, bufIdx[s] = 0
        PROVE  Dist(hwcur', s) < hwavail'
    <3>1. s \notin Released /\ Dist(hwcur, s) < hwavail
      BY <2>1, BuffersFacts DEF FirstBad
    <3>2. Dist(hwcur, s) >= m
      BY <3>1, <1>1 DEF Released, Dist, TypeOK, Slots
    <3> QED
      BY <1>1, <1>2, <3>1, <3>2 DEF Dist, TypeOK, Slots
  <2> QED
    BY <2>1 DEF BuffersOK, InUse
<1>8. SyncOK' /\ ProcessOK'
  <2>1. pc' = "user" /\ cur' = cur /\ total' = total /\ cur # N
    BY <1>1 DEF Slots
  <2>2. Dist(hwcur', cur') + avail' = hwavail' /\ reserved' <= Dist(hwcur', cur')
    BY <1>1, <1>2, <1>3, <2>1 DEF TypeOK, Dist, Slots
  <2>3. hwavail' <= total' /\ reserved' <= MaxResvd
    BY <1>1, <1>2, <2>1, SMTT(30) DEF ProcessOK, TypeOK
  <2> HIDE DEF IInv, Rearm, m
  <2> QED
    BY <2>1, <2>2, <2>3, <1>3, <1>4 DEF SyncOK, ProcessOK, Syncing, TypeOK
<1> QED
  BY <1>4, <1>5, <1>6, <1>7, <1>8

LEMMA RearmBadInv == Legal /\ IInv /\ RearmBad => IInv'
<1> SUFFICES ASSUME Legal, IInv, RearmBad PROVE IInv'
    OBVIOUS
<1>1. rpc # "clean" /\ Resvd = reserved /\ Dist(hwcur, NewHwcur) \in 0 .. hwavail
  BY ReleaseFacts DEF RearmBad
<1> USE DEF IInv, RearmBad
<1>2. faults > 0 /\ \E s \in Slots : BadSlot(s)
  BY BuffersFacts DEF FirstBad, Released
<1>3. reserved = 0 /\ reserved' = 0
  BY <1>1, <1>2 DEF Legal, ProcessOK, TypeOK
<1>4. bufIdx' = bufIdx /\ len' \in [Slots -> Packets] /\ cur' = hwcur /\ avail' = hwavail
  BY <1>2, ReinitFacts
<1>5. \A s \in BeforeBad : s \in Slots /\ Dist(hwcur, s) < hwavail
  BY <1>1 DEF BeforeBad, Released, Dist, TypeOK, Slots
<1>6. TypeOK'
  <2>1. done' \subseteq Slots
    BY DEF TypeOK, Rewrite
  <2>2. daddr' \in [Slots -> Buffers]
    BY <1>5 DEF TypeOK, Rewrite
  <2>3. cur' \in 0 .. N /\ avail' \in 0 .. N - 1 /\ reserved' \in 0 .. N - 1
    BY <1>3, <1>4 DEF TypeOK, Slots
  <2> QED
    BY <1>4, <2>1, <2>2, <2>3 DEF TypeOK
<1>7. ResetOK'
  BY <1>1 DEF ResetOK, Syncing
<1>8. RingsOK'
  <2>1. ASSUME NEW d \in Slots, Dist(ntc, d) <= Given
        PROVE  N2K(d) \notin BeforeBad
    <3>1. Dist(ntc, d) \in Nat /\ hwavail \in Nat /\ hwavail + Given = N - 1 /\ Given \in Nat
      BY <1>1 DEF RingsOK, Given, Dist, TypeOK, Slots
    <3>2. Dist(hwcur, N2K(d)) = hwavail + Dist(ntc, d)
      BY <1>1, <2>1, <3>1, SlotDist DEF RingsOK
    <3> QED
      BY <1>5, <3>1, <3>2
  <2>2. ASSUME NEW d \in Slots, Dist(ntc, d) <= Given
        PROVE  (d \in done' <=> d \in done) /\ daddr'[d] = daddr[d]
    BY <2>1, <2>2 DEF Rewrite
  <2>3. \A d \in Slots : Dist(ntc, d) < Filled => Dist(ntc, d) <= Given
    BY <1>1 DEF RingsOK, Filled, Given, Dist, TypeOK, Slots
  <2>4. Filled' = Filled /\ Given' = Given /\ ntc' = ntc
    BY DEF Filled, Given
  <2> QED
    BY <1>1, <2>2, <2>3, <2>4 DEF RingsOK, N2K
<1>9. BuffersOK'
  BY <1>4 DEF BuffersOK, InUse
<1>10. SyncOK' /\ ProcessOK'
  BY <1>2, <1>3, <1>4 DEF SyncOK, ProcessOK, Syncing, TypeOK, Dist, Slots
<1> QED
  BY <1>6, <1>7, <1>8, <1>9, <1>10

LEMMA BadCurInv == Legal /\ IInv /\ BadCur => IInv'
<1> SUFFICES ASSUME Legal, IInv, BadCur PROVE IInv'
    OBVIOUS
<1> USE DEF IInv, BadCur
<1>1. TypeOK'
  <2>1. faults' \in 0 .. MaxFaults /\ cur' \in 0 .. N
    BY DEF TypeOK
  <2> QED
    BY <2>1 DEF TypeOK
<1>2. ResetOK'
  BY DEF ResetOK, Syncing
<1>3. RingsOK'
  BY DEF RingsOK, Filled, Given, N2K
<1>4. BuffersOK'
  BY DEF BuffersOK, InUse, TypeOK
<1>5. SyncOK' /\ ProcessOK'
  BY DEF SyncOK, ProcessOK, Syncing, TypeOK
<1> QED
  BY <1>1, <1>2, <1>3, <1>4, <1>5

LEMMA BadBufInv == Legal /\ IInv /\ BadBuf => IInv'
<1> SUFFICES ASSUME Legal, IInv, BadBuf PROVE IInv'
    OBVIOUS
<1> USE DEF IInv, BadBuf
<1>0. PICK s \in Slots : Dist(hwcur, s) < Dist(hwcur, cur) /\ bufIdx' = [bufIdx EXCEPT ![s] = 0]
  OBVIOUS
<1>1. TypeOK'
  <2>1. faults' \in 0 .. MaxFaults
    BY DEF TypeOK
  <2>2. bufIdx' \in [Slots -> Buffers]
    BY <1>0 DEF TypeOK, Buffers
  <2> QED
    BY <2>1, <2>2 DEF TypeOK
<1>2. ResetOK'
  BY DEF ResetOK, Syncing
<1>3. RingsOK'
  BY DEF RingsOK, Filled, Given, N2K
<1>4. BuffersOK'
  <2>1. cur # N /\ Dist(hwcur, cur) <= hwavail
    BY DEF ProcessOK, TypeOK, Dist, Slots
  <2>2. s \in InUse /\ InUse' = InUse /\ faults' > 0
    BY <1>0, <2>1 DEF InUse, TypeOK, Dist, Slots
  <2> QED
    BY <1>0, <2>2 DEF BuffersOK, TypeOK
<1>5. SyncOK' /\ ProcessOK'
  BY DEF SyncOK, ProcessOK, Syncing, TypeOK
<1> QED
  BY <1>1, <1>2, <1>3, <1>4, <1>5

LEMMA ResetCleanInv == Legal /\ IInv /\ ResetClean => IInv'
<1> SUFFICES ASSUME Legal, IInv, ResetClean PROVE IInv'
    OBVIOUS
<1> USE DEF IInv, ResetClean
<1>1. TypeOK'
  <2>1. dlen' \in [Slots -> Packets] /\ daddr' \in [Slots -> Buffers]
    BY DEF Packets, Buffers
  <2>2. 0 \in Slots
    BY DEF Slots
  <2> QED
    BY <2>1, <2>2 DEF TypeOK
<1>2. ~Syncing
  BY DEF Legal
<1>3. ResetOK' /\ RingsOK'
  BY <1>2 DEF ResetOK, RingsOK, Syncing
<1>4. BuffersOK'
  BY DEF BuffersOK, InUse
<1>5. SyncOK' /\ ProcessOK'
  BY <1>2 DEF SyncOK, ProcessOK, Syncing
<1> QED
  BY <1>1, <1>3, <1>4, <1>5

LEMMA ConfRxRingInv == IInv /\ ConfRxRing => IInv'
<1> SUFFICES ASSUME IInv, ConfRxRing PROVE IInv'
    OBVIOUS
<1> USE DEF IInv, ConfRxRing
<1>1. ntc = 0 /\ head = 0 /\ done = {} /\ ~Syncing
  BY DEF ResetOK
<1>2. NewHwofs \in Slots /\ tail' \in Slots /\ NewHwofs = Wrap(hwcur + hwavail)
  BY DEF TypeOK, NewHwofs, Slots, Wrap
<1>3. TypeOK'
  <2>1. \A d \in Slots : Wrap(d + NewHwofs) \in Slots
    <3> HIDE DEF IInv, ConfRxRing
    <3>1. NewHwofs \in 0 .. N - 1
      BY <1>2 DEF Slots
    <3>2. \A d, o \in 0 .. N - 1 : Wrap(d + o) \in 0 .. N - 1
      BY DEF Wrap
    <3> QED
      BY <3>1, <3>2 DEF Slots
  <2>2. daddr' \in [Slots -> Buffers]
    BY <2>1 DEF TypeOK
  <2> QED
    BY <1>2, <2>2 DEF TypeOK
<1>4. ResetOK'
  BY <1>1 DEF ResetOK, Syncing
<1>5. N2K(ntc)' = Wrap(hwcur + hwavail)
  BY <1>1, <1>2 DEF N2K, Wrap, Slots
<1>6. RingsOK'
  <2>1. Filled' = 0 /\ Given' = N - 1 - hwavail /\ hwavail' = hwavail /\ hwcur' = hwcur
    BY <1>1 DEF Filled, Given, Dist, TypeOK
  <2>2. ASSUME NEW d \in Slots
        PROVE  /\ N2K(d)' \in Slots
               /\ Dist(ntc', d) = d
               /\ d + hwavail < N => Dist(hwcur, N2K(d)') = hwavail + d
    BY <1>1, <1>2 DEF N2K, Wrap, Dist, TypeOK, Slots
  <2>3. ASSUME NEW d \in Slots, Dist(ntc', d) <= Given'
        PROVE  daddr'[d] = N2K(d)' + 2
    <3>1. d + hwavail < N /\ daddr'[d] = bufIdx[N2K(d)']
      BY <2>1, <2>2, <2>3 DEF N2K, TypeOK, Slots
    <3>2. ~(Dist(hwcur, N2K(d)') < hwavail)
      BY <2>2, <3>1 DEF TypeOK, Slots
    <3> QED
      BY <2>2, <3>1, <3>2, BuffersFacts
  <2>4. \A d \in Slots : ~(Dist(ntc', d) < Filled')
    BY <2>1, <2>2 DEF Slots
  <2>5. hwavail' + Given' = N - 1 /\ Filled' <= Given'
    BY <2>1 DEF TypeOK
  <2> QED
    BY <1>1, <1>5, <2>1, <2>3, <2>4, <2>5 DEF RingsOK
<1>7. BuffersOK'
  BY DEF BuffersOK, InUse
<1>8. SyncOK' /\ ProcessOK'
  BY <1>1 DEF SyncOK, ProcessOK, Syncing
<1> QED
  BY <1>3, <1>4, <1>6, <1>7, <1>8

LEMMA StutterInv == IInv /\ UNCHANGED vars => IInv'
BY DEF IInv, TypeOK, ResetOK, RingsOK, BuffersOK, SyncOK, ProcessOK, vars, Syncing, InUse,
       Filled, Given, N2K

\* IInv is an invariant of the queue, for every ring size and every bound.
THEOREM Inductive == ASSUME Legal PROVE Spec => []IInv
<1>1. IInv /\ [Next]_vars => IInv'
  <2> SUFFICES ASSUME IInv, [Next]_vars PROVE IInv'
    OBVIOUS
  <2>1. CASE NicReceive
    BY <2>1, NicReceiveInv
  <2>2. CASE Sync
    BY <2>2, SyncBadCurInv, SyncBeginInv, HarvestInv, HarvestEndInv, RearmInv, RearmBadInv DEF Sync
  <2>3. CASE Receive
    BY <2>3, RecvBeginInv, RecvPacketInv, RecvAvailInv, RecvCurInv DEF Receive
  <2>4. CASE Client
    BY <2>4, ReserveInv, CrashInv, BadCurInv, BadBufInv DEF Client
  <2>5. CASE Driver
    BY <2>5, LinkUpInv, LinkDownInv, ResetDownInv, ResetCleanInv, ConfRxRingInv DEF Driver
  <2>6. CASE UNCHANGED vars
    BY <2>6, StutterInv
  <2> QED
    BY <2>1, <2>2, <2>3, <2>4, <2>5, <2>6 DEF Next
<1> QED
  BY InitInv, <1>1, PTL DEF Spec

\* Every variable stays in its range: above all no count of packets goes below zero or
\* reaches the size of the ring.
THEOREM Typing == ASSUME Legal PROVE Spec => []TypeOK
<1>1. IInv => TypeOK
  BY DEF IInv
<1> QED
  BY <1>1, Inductive, PTL

\* next_to_clean and hwcur + hwavail name the same slot, across resets.
THEOREM Agreement == ASSUME Legal PROVE Spec => []IndexAgree
<1>1. IInv => IndexAgree
  BY DEF IInv, RingsOK, IndexAgree
<1> QED
  BY <1>1, Inductive, PTL

\* The NIC has no buffer of a packet that is waiting or being processed.
THEOREM ZeroCopy == ASSUME Legal PROVE Spec => []NicNeverWritesInUse
<1>1. ASSUME IInv PROVE NicNeverWritesInUse
  <2> SUFFICES ASSUME NEW d \in NicOwned
               PROVE  daddr[d] \in Usable /\ \A s \in InUse : daddr[d] # bufIdx[s]
    BY DEF NicNeverWritesInUse
  <2>1. d \in Slots /\ rpc # "clean" /\ Dist(head, d) < Dist(head, tail)
    BY <1>1 DEF NicOwned, IInv, ResetOK
  <2>2. Filled <= Given /\ hwavail + Given = N - 1
    BY <1>1, <2>1 DEF IInv, RingsOK
  <2>3. Dist(ntc, d) <= Given
    BY <1>1, <2>1, <2>2 DEF IInv, TypeOK, Filled, Given, Dist, Slots
  <2>4. daddr[d] = N2K(d) + 2 /\ N2K(d) \in Slots
    BY <1>1, <2>1, <2>3, SlotDist DEF IInv, RingsOK
  <2>5. Dist(hwcur, N2K(d)) = hwavail + Dist(ntc, d)
    <3>1. /\ hwcur \in Slots /\ hwofs \in Slots /\ ntc \in Slots /\ hwavail \in 0 .. N - 1
          /\ N2K(ntc) = Wrap(hwcur + hwavail)
      BY <1>1, <2>1 DEF IInv, TypeOK, RingsOK
    <3>2. TypeOK /\ ntc \in 0 .. N - 1 /\ d \in 0 .. N - 1 /\ tail \in 0 .. N - 1
      BY <1>1, <2>1 DEF IInv, TypeOK, Slots
    <3>3. Dist(ntc, d) \in Int /\ Given \in Int
      BY <3>2 DEF Given, Dist
    <3>4. hwavail + Dist(ntc, d) < N
      BY <2>2, <2>3, <3>1, <3>3
    <3> QED
      BY <2>1, <3>1, <3>2, <3>4, SlotDist
  <2>6. N2K(d) \notin InUse
    <3>1. hwavail \in Nat /\ Dist(ntc, d) \in Nat
      BY <1>1, <2>1 DEF IInv, TypeOK, Dist, Slots
    <3> QED
      BY <2>5, <3>1 DEF InUse
  <2>7. ASSUME NEW s \in InUse PROVE daddr[d] # bufIdx[s]
    BY <1>1, <2>4, <2>6 DEF IInv, BuffersOK, InUse, Slots
  <2> QED
    BY <2>4, <2>7 DEF Usable, Buffers, Slots
<1> QED
  BY <1>1, Inductive, PTL

\* No descriptor is ever lost.
THEOREM Conservation == ASSUME Legal PROVE Spec => []DescriptorsConserved
<1>1. IInv => DescriptorsConserved
  BY DEF IInv, ResetOK, RingsOK, Given, DescriptorsConserved
<1> QED
  BY <1>1, Inductive, PTL

----------------------------------------------------------------------------
(* The packets.  DInv says where they are and how far the process has come; *)
(* it is inductive on top of IInv.                                          *)

\* packets that a rx_sync in progress has harvested
Harvested == IF pc = "harvest" THEN i ELSE 0

\* the log is as long as the packets counted
LogOK == Len(hlog) = total + Harvested

\* what the NIC has stored is in the buffers of its descriptors
StoredOK ==
    rpc # "clean" => \A d \in Slots : Dist(ntc, d) < Filled => mem[N2K(d) + 2] = dlen[d]

\* what was harvested is in its slot and its buffer, as long as the slot is in use
PacketsOK ==
    \A s \in Slots : Dist(hwcur, s) < hwavail + Harvested /\ bufIdx[s] # 0 =>
        len[s] = hlog[Place(s)] /\ mem[s + 2] = hlog[Place(s)]

\* what lies before the process in the sequence of packets was delivered, and nothing
\* else was if no process died and none stored bad values
Before(s) == total - hwavail + Dist(hwcur, s)
DeliveredOK ==
    /\ total - hwavail <= delivered
    /\ cur # N => Before(cur) <= delivered
    /\ pc \in {"recv", "cur"} => Before(ucur) <= delivered
    /\ crashes = 0 /\ faults = 0 =>
          delivered = IF pc \in {"recv", "cur"} THEN Before(ucur) ELSE Before(cur)

DInv == LogOK /\ StoredOK /\ PacketsOK /\ DeliveredOK

\* a descriptor that the NIC has filled or owns is that of a slot behind those in use
LEMMA OwnedSlot ==
    ASSUME IInv, rpc # "clean", NEW d \in Slots, Dist(ntc, d) <= Given
    PROVE  /\ N2K(d) \in Slots /\ daddr[d] = N2K(d) + 2
           /\ Dist(hwcur, N2K(d)) = hwavail + Dist(ntc, d)
<1>1. /\ TypeOK /\ N2K(ntc) = Wrap(hwcur + hwavail) /\ hwavail + Given = N - 1
      /\ daddr[d] = N2K(d) + 2
  BY DEF IInv, RingsOK
<1>2. hwavail \in 0 .. N - 1 /\ Dist(ntc, d) \in Nat /\ Given \in Nat
  BY <1>1 DEF TypeOK, Given, Dist, Slots
<1>3. hwavail + Dist(ntc, d) < N
  BY <1>1, <1>2
<1> QED
  BY <1>1, <1>3, SlotDist

LEMMA HarvestFacts ==
    ASSUME IInv, pc = "harvest", n \in done
    PROVE  /\ rpc # "clean" /\ n \in Slots /\ i < Filled /\ k = N2K(n) /\ Dist(ntc, n) = i
           /\ i \in Nat /\ Filled <= Given
<1>1. rpc # "clean" /\ n \in Slots /\ Dist(ntc, n) = i /\ i <= Filled /\ k = N2K(n)
  BY DEF IInv, ResetOK, Syncing, SyncOK, TypeOK
<1>2. Filled <= Given /\ Filled \in Nat /\ Given \in Nat /\ i \in Nat
  BY <1>1 DEF IInv, RingsOK, TypeOK, Slots, Dist, Filled, Given
<1>3. ~(Filled <= Dist(ntc, n) /\ Dist(ntc, n) <= Given)
  BY <1>1 DEF IInv, RingsOK
<1> QED
  BY <1>1, <1>2, <1>3

\* the numbers that the places of packets are made of
LEMMA Numbers ==
    ASSUME IInv
    PROVE  /\ total \in Nat /\ hwavail \in Nat /\ delivered \in Nat /\ hwavail <= total
           /\ hwcur \in Slots /\ ucur \in Slots /\ (cur # N => cur \in Slots)
           /\ \A s, t \in Slots : Dist(s, t) \in Nat
BY DEF IInv, TypeOK, ProcessOK, Dist, Slots


\* Only the loop of rx_sync adds to the log, and it counts what it adds.
LEMMA LogStep ==
    ASSUME IInv, LogOK, [Next]_vars
    PROVE  LogOK'
<1>1. CASE NicReceive
  BY <1>1 DEF NicReceive, LogOK, Harvested
<1>2. CASE SyncBadCur
  BY <1>2 DEF SyncBadCur, LogOK, Harvested
<1>3. CASE SyncBegin
  BY <1>3 DEF SyncBegin, LogOK, Harvested
<1>4. CASE Harvest
  <2>1. hlog \in Seq(Packets) /\ dlen[n] \in Packets
    BY <1>4 DEF IInv, TypeOK, Harvest
  <2>2. Len(hlog') = Len(hlog) + 1
    BY <2>1, <1>4 DEF Harvest
  <2>3. i \in Nat /\ total \in Nat
    BY DEF IInv, TypeOK
  <2> QED
    BY <2>2, <2>3, <1>4 DEF Harvest, LogOK, Harvested
<1>5. CASE HarvestEnd
  <2>1. i \in Nat /\ total \in Nat
    BY DEF IInv, TypeOK
  <2> QED
    BY <2>1, <1>5 DEF HarvestEnd, LogOK, Harvested
<1>6. CASE Rearm
  BY <1>6 DEF Rearm, LogOK, Harvested
<1>7. CASE RearmBad
  BY <1>7 DEF RearmBad, LogOK, Harvested
<1>8. CASE RecvBegin
  BY <1>8 DEF RecvBegin, LogOK, Harvested
<1>9. CASE RecvPacket
  BY <1>9 DEF RecvPacket, LogOK, Harvested
<1>10. CASE RecvAvail
  BY <1>10 DEF RecvAvail, LogOK, Harvested
<1>11. CASE RecvCur
  BY <1>11 DEF RecvCur, LogOK, Harvested
<1>12. CASE Reserve
  BY <1>12 DEF Reserve, LogOK, Harvested
<1>13. CASE Crash
  BY <1>13 DEF Crash, LogOK, Harvested
<1>14. CASE BadCur
  BY <1>14 DEF BadCur, LogOK, Harvested
<1>15. CASE BadBuf
  BY <1>15 DEF BadBuf, LogOK, Harvested
<1>16. CASE LinkUp
  BY <1>16 DEF LinkUp, LogOK, Harvested
<1>17. CASE LinkDown
  BY <1>17 DEF LinkDown, LogOK, Harvested
<1>18. CASE ResetDown
  BY <1>18 DEF ResetDown, LogOK, Harvested
<1>19. CASE ResetClean
  BY <1>19 DEF ResetClean, LogOK, Harvested
<1>20. CASE ConfRxRing
  BY <1>20 DEF ConfRxRing, LogOK, Harvested
<1>21. CASE UNCHANGED vars
  BY <1>21 DEF vars, LogOK, Harvested
<1> QED
  BY <1>1, <1>2, <1>3, <1>4, <1>5, <1>6, <1>7, <1>8, <1>9, <1>10, <1>11, <1>12, <1>13,
     <1>14, <1>15, <1>16, <1>17, <1>18, <1>19, <1>20, <1>21
  DEF Next, Sync, Receive, Client, Driver

\* The NIC stores into the next descriptor's buffer, and in no other's.
LEMMA StoredStep ==
    ASSUME IInv, StoredOK, [Next]_vars
    PROVE  StoredOK'
<1>1. CASE NicReceive
  <2>1. rpc = "up" /\ head \in Slots /\ ntc \in Slots /\ tail \in Slots
    BY <1>1 DEF NicReceive, IInv, ResetOK, TypeOK
  <2>2. Dist(ntc, head) <= Given /\ Filled' = Filled + 1 /\ Filled = Dist(ntc, head)
    BY <2>1, <1>1 DEF NicReceive, IInv, RingsOK, Filled, Given, Dist, Next1, Slots
  <2>3. N2K(head) \in Slots /\ daddr[head] = N2K(head) + 2
    BY <2>1, <2>2, OwnedSlot
  <2>4. mem' = [mem EXCEPT ![N2K(head) + 2] = nextId] /\ dlen' = [dlen EXCEPT ![head] = nextId]
    BY <2>3, <1>1 DEF NicReceive
  <2>5. mem \in [Buffers -> Packets] /\ dlen \in [Slots -> Packets] /\ N2K(head) + 2 \in Buffers
    BY <2>3 DEF IInv, TypeOK, Buffers, Slots
  <2>6. SUFFICES ASSUME NEW d \in Slots, Dist(ntc, d) < Filled + 1
        PROVE  mem'[N2K(d) + 2] = dlen'[d]
    BY <2>2, <1>1 DEF StoredOK, NicReceive, N2K, Wrap, Dist
  <2>7. CASE d = head
    BY <2>1, <2>4, <2>5, <2>7
  <2>8. CASE d # head
    <3>1. Dist(ntc, d) < Filled
      BY <2>1, <2>2, <2>6, <2>8 DEF Dist, Slots
    <3>2. Dist(ntc, d) <= Given
      BY <2>1, <2>2, <3>1 DEF Dist, Given, Slots
    <3>3. N2K(d) \in Slots /\ N2K(d) # N2K(head)
      <4>1. /\ N2K(d) \in Slots /\ Dist(hwcur, N2K(d)) = hwavail + Dist(ntc, d)
            /\ Dist(hwcur, N2K(head)) = hwavail + Dist(ntc, head)
        BY <2>1, <2>2, <3>2, OwnedSlot
      <4>2. hwavail \in Nat /\ Dist(ntc, d) \in Nat /\ Dist(ntc, head) \in Nat
        BY <2>1, Numbers
      <4> QED
        BY <2>2, <3>1, <4>1, <4>2
    <3>4. mem[N2K(d) + 2] = dlen[d]
      BY <2>1, <3>1 DEF StoredOK
    <3>5. N2K(d) + 2 # N2K(head) + 2 /\ N2K(d) + 2 \in Buffers
      BY <2>3, <3>3 DEF Slots, Buffers
    <3> QED
      BY <2>1, <2>4, <2>5, <2>8, <3>4, <3>5
  <2> QED
    BY <2>7, <2>8
<1>2. CASE SyncBadCur
  BY <1>2 DEF SyncBadCur, StoredOK, Filled, N2K
<1>3. CASE SyncBegin
  BY <1>3 DEF SyncBegin, StoredOK, Filled, N2K
<1>4. CASE Harvest
  BY <1>4 DEF Harvest, StoredOK, Filled, N2K
<1>5. CASE HarvestEnd
  <2>1. Filled' = 0
    BY <1>5 DEF HarvestEnd, IInv, SyncOK, ResetOK, RingsOK, Syncing, TypeOK, Filled, Given,
       Dist, Slots
  <2>2. \A d \in Slots : Dist(ntc', d) \in Nat
    BY <1>5 DEF HarvestEnd, IInv, TypeOK, Dist, Slots
  <2> QED
    BY <2>1, <2>2 DEF StoredOK
<1>6. CASE Rearm
  BY <1>6 DEF Rearm, StoredOK, Filled, N2K
<1>7. CASE RearmBad
  BY <1>7 DEF RearmBad, StoredOK, Filled, N2K
<1>8. CASE RecvBegin
  BY <1>8 DEF RecvBegin, StoredOK, Filled, N2K
<1>9. CASE RecvPacket
  BY <1>9 DEF RecvPacket, StoredOK, Filled, N2K
<1>10. CASE RecvAvail
  BY <1>10 DEF RecvAvail, StoredOK, Filled, N2K
<1>11. CASE RecvCur
  BY <1>11 DEF RecvCur, StoredOK, Filled, N2K
<1>12. CASE Reserve
  BY <1>12 DEF Reserve, StoredOK, Filled, N2K
<1>13. CASE Crash
  BY <1>13 DEF Crash, StoredOK, Filled, N2K
<1>14. CASE BadCur
  BY <1>14 DEF BadCur, StoredOK, Filled, N2K
<1>15. CASE BadBuf
  BY <1>15 DEF BadBuf, StoredOK, Filled, N2K
<1>16. CASE LinkUp
  BY <1>16 DEF LinkUp, StoredOK, Filled, N2K
<1>17. CASE LinkDown
  BY <1>17 DEF LinkDown, StoredOK, Filled, N2K
<1>18. CASE ResetDown
  BY <1>18 DEF ResetDown, StoredOK, Filled, N2K
<1>19. CASE ResetClean
  BY <1>19 DEF ResetClean, StoredOK
<1>20. CASE ConfRxRing
  <2>1. Filled' = 0 /\ ntc' = 0
    <3>1. ntc' = 0 /\ head' = 0
      BY <1>20 DEF ConfRxRing, IInv, ResetOK
    <3> QED
      BY <3>1 DEF Filled, Dist, Slots
  <2>2. \A d \in Slots : Dist(ntc', d) \in Nat
    BY <2>1 DEF Dist, Slots
  <2> QED
    BY <2>1, <2>2 DEF StoredOK
<1>21. CASE UNCHANGED vars
  BY <1>21 DEF vars, StoredOK, Filled, N2K
<1> QED
  BY <1>1, <1>2, <1>3, <1>4, <1>5, <1>6, <1>7, <1>8, <1>9, <1>10, <1>11, <1>12, <1>13,
     <1>14, <1>15, <1>16, <1>17, <1>18, <1>19, <1>20, <1>21
  DEF Next, Sync, Receive, Client, Driver

\* A packet stays in its slot and its buffer until rx_sync releases the slot.
LEMMA PacketsStep ==
    ASSUME IInv, LogOK, StoredOK, PacketsOK, [Next]_vars
    PROVE  PacketsOK'
<1>1. CASE NicReceive
  <2>1. rpc = "up" /\ head \in Slots /\ ntc \in Slots /\ tail \in Slots
    BY <1>1 DEF NicReceive, IInv, ResetOK, TypeOK
  <2>2. Filled <= Given /\ Filled = Dist(ntc, head)
    BY <2>1 DEF IInv, RingsOK, Filled
  <2>3. N2K(head) \in Slots /\ daddr[head] = N2K(head) + 2 /\ Dist(hwcur, N2K(head)) = hwavail + Filled
    BY <2>1, <2>2, OwnedSlot
  <2>4. Harvested <= Filled /\ Harvested \in Nat /\ hwavail \in Nat /\ Filled \in Nat
    BY <2>1 DEF IInv, SyncOK, Harvested, TypeOK, Filled, Dist, Slots
  <2>5. ASSUME NEW s \in Slots, Dist(hwcur, s) < hwavail + Harvested PROVE mem'[s + 2] = mem[s + 2]
    <3>1. s # N2K(head)
      BY <2>3, <2>4, <2>5 DEF IInv, TypeOK, Dist, Slots
    <3>2. s + 2 # daddr[head] /\ s + 2 \in Buffers
      BY <2>3, <3>1 DEF Slots, Buffers
    <3> QED
      BY <3>2, <1>1 DEF NicReceive, IInv, TypeOK
  <2> QED
    BY <2>5, <1>1 DEF NicReceive, PacketsOK, Harvested, Place
<1>2. CASE SyncBadCur
  <2>1. bufIdx' = bufIdx /\ len' = [s \in Slots |-> IF BadSlot(s) THEN 0 ELSE len[s]]
    BY <1>2, BuffersFacts DEF SyncBadCur, RingReinit, IInv, TypeOK
  <2>2. \A s \in Slots : bufIdx[s] # 0 => len'[s] = len[s]
    BY <2>1, BuffersFacts
  <2> QED
    BY <2>1, <2>2, <1>2 DEF SyncBadCur, PacketsOK, Harvested, Place
<1>3. CASE SyncBegin
  BY <1>3 DEF SyncBegin, PacketsOK, Harvested, Place, StoreAvail, StoreCur, Store
<1>4. CASE Harvest
  <2>1. /\ rpc # "clean" /\ n \in Slots /\ i < Filled /\ k = N2K(n) /\ Dist(ntc, n) = i
        /\ i \in Nat /\ Filled <= Given
    BY <1>4, HarvestFacts DEF Harvest
  <2>2. Dist(ntc, n) <= Given
    BY <2>1 DEF IInv, TypeOK, Filled, Given, Dist, Slots
  <2>3. k \in Slots /\ Dist(hwcur, k) = hwavail + i
    BY <2>1, <2>2, OwnedSlot
  <2>4. mem[k + 2] = dlen[n]
    BY <2>1 DEF StoredOK
  <2>5. hlog \in Seq(Packets) /\ dlen[n] \in Packets /\ Len(hlog) = total + i
    BY <2>1, <1>4 DEF IInv, TypeOK, LogOK, Harvested, Harvest
  <2>6. /\ hlog' = Append(hlog, dlen[n]) /\ len' = [len EXCEPT ![k] = dlen[n]]
        /\ mem' = mem /\ bufIdx' = bufIdx /\ hwcur' = hwcur /\ hwavail' = hwavail /\ total' = total
        /\ pc' = "harvest" /\ i' = i + 1 /\ pc = "harvest"
    BY <1>4 DEF Harvest
  <2>7. /\ Len(hlog') = total + i + 1 /\ hlog'[total + i + 1] = dlen[n]
        /\ \A j \in 1 .. total + i : hlog'[j] = hlog[j]
    BY <2>5, <2>6
  <2>8. /\ hwcur \in Slots /\ hwavail \in Nat /\ total \in Nat /\ hwavail <= total
        /\ len \in [Slots -> Packets]
    BY DEF IInv, TypeOK, ProcessOK
  <2>9. SUFFICES ASSUME NEW s \in Slots, Dist(hwcur, s) < hwavail + i + 1, bufIdx[s] # 0
        PROVE  len'[s] = hlog'[Place(s)] /\ mem[s + 2] = hlog'[Place(s)]
    <3>1. hwavail' + Harvested' = hwavail + i + 1
      BY <2>1, <2>6, <2>8 DEF Harvested
    <3> QED
      BY <2>6, <3>1 DEF PacketsOK, Place
  <2>10. CASE s = k
    <3>1. Place(s) = total + i + 1
      BY <2>1, <2>3, <2>8, <2>10 DEF Place
    <3> QED
      BY <2>4, <2>6, <2>7, <2>8, <2>10, <3>1
  <2>11. CASE s # k
    <3>1. Dist(hwcur, s) < hwavail + i /\ Dist(hwcur, s) \in Nat
      BY <2>1, <2>3, <2>8, <2>9, <2>11 DEF Dist, Slots
    <3>2. Place(s) \in 1 .. total + i
      BY <2>1, <2>8, <3>1 DEF Place
    <3>3. len[s] = hlog[Place(s)] /\ mem[s + 2] = hlog[Place(s)]
      BY <2>6, <2>9, <3>1 DEF PacketsOK, Harvested
    <3> QED
      BY <2>6, <2>7, <2>8, <2>11, <3>2, <3>3
  <2> QED
    BY <2>10, <2>11
<1>5. CASE HarvestEnd
  <2>1. i \in Nat /\ total \in Nat /\ hwavail \in Nat /\ hwcur \in Slots
    BY DEF IInv, TypeOK
  <2>2. \A s \in Slots : Dist(hwcur, s) \in Nat
    BY <2>1 DEF Dist, Slots
  <2>3. /\ total' = total + i /\ hwavail' = hwavail + i /\ hwcur' = hwcur /\ Harvested = i /\ Harvested' = 0
        /\ len' = len /\ mem' = mem /\ bufIdx' = bufIdx /\ hlog' = hlog
    BY <1>5 DEF HarvestEnd, Harvested
  <2>4. \A s \in Slots : Place(s)' = Place(s) /\ Dist(hwcur, s)' = Dist(hwcur, s)
    BY <2>1, <2>2, <2>3 DEF Place, Dist
  <2> QED
    BY <2>1, <2>3, <2>4 DEF PacketsOK
<1>6. CASE Rearm
  <2> DEFINE m == Dist(hwcur, NewHwcur)
  <2>1. /\ NewHwcur \in Slots /\ m \in 0 .. hwavail /\ Resvd = reserved
        /\ hwcur \in Slots /\ hwavail \in 0 .. N - 1 /\ total \in Nat
    BY <1>6, ReleaseFacts DEF Rearm, IInv, TypeOK
  <2>2. /\ hwcur' = NewHwcur /\ hwavail' = hwavail - m /\ total' = total /\ Harvested = 0 /\ Harvested' = 0
        /\ len' = len /\ mem' = mem /\ bufIdx' = bufIdx /\ hlog' = hlog
    BY <1>6 DEF Rearm, Harvested
  <2>3. ASSUME NEW s \in Slots, Dist(NewHwcur, s) < hwavail - m
        PROVE  /\ Dist(hwcur, s) < hwavail
               /\ total - (hwavail - m) + Dist(NewHwcur, s) + 1 = total - hwavail + Dist(hwcur, s) + 1
    <3>1. Dist(hwcur, s) = m + Dist(NewHwcur, s)
      BY <2>1, <2>3 DEF Dist, Slots
    <3>2. Dist(NewHwcur, s) \in Nat /\ m \in Nat
      BY <2>1 DEF Dist, Slots
    <3> HIDE DEF m
    <3> QED
      BY <2>1, <2>3, <3>1, <3>2
  <2>4. SUFFICES ASSUME NEW s \in Slots, Dist(hwcur', s) < hwavail', bufIdx[s] # 0
        PROVE  len[s] = hlog[Place(s)'] /\ mem[s + 2] = hlog[Place(s)']
    BY <2>1, <2>2 DEF PacketsOK
  <2>5. Place(s)' = Place(s) /\ Dist(hwcur, s) < hwavail
    BY <2>2, <2>3, <2>4 DEF Place
  <2> QED
    BY <2>1, <2>2, <2>4, <2>5 DEF PacketsOK
<1>7. CASE RearmBad
  <2>1. bufIdx' = bufIdx /\ len' = [s \in Slots |-> IF BadSlot(s) THEN 0 ELSE len[s]]
    BY <1>7, BuffersFacts DEF RearmBad, RingReinit, IInv, TypeOK
  <2>2. \A s \in Slots : bufIdx[s] # 0 => len'[s] = len[s]
    BY <2>1, BuffersFacts
  <2> QED
    BY <2>1, <2>2, <1>7 DEF RearmBad, PacketsOK, Harvested, Place
<1>8. CASE RecvBegin
  BY <1>8 DEF RecvBegin, PacketsOK, Harvested, Place, StoreAvail, StoreCur, Store
<1>9. CASE RecvPacket
  BY <1>9 DEF RecvPacket, PacketsOK, Harvested, Place, StoreAvail, StoreCur, Store
<1>10. CASE RecvAvail
  BY <1>10 DEF RecvAvail, PacketsOK, Harvested, Place, StoreAvail, StoreCur, Store
<1>11. CASE RecvCur
  BY <1>11 DEF RecvCur, PacketsOK, Harvested, Place, StoreAvail, StoreCur, Store
<1>12. CASE Reserve
  BY <1>12 DEF Reserve, PacketsOK, Harvested, Place, StoreAvail, StoreCur, Store
<1>13. CASE Crash
  BY <1>13 DEF Crash, PacketsOK, Harvested, Place, StoreAvail, StoreCur, Store
<1>14. CASE BadCur
  BY <1>14 DEF BadCur, PacketsOK, Harvested, Place, StoreAvail, StoreCur, Store
<1>15. CASE BadBuf
  <2>1. bufIdx \in [Slots -> Buffers]
    BY DEF IInv, TypeOK
  <2>2. \A s \in Slots : bufIdx'[s] # 0 => bufIdx[s] # 0
    BY <2>1, <1>15 DEF BadBuf
  <2> QED
    BY <2>2, <1>15 DEF BadBuf, PacketsOK, Harvested, Place
<1>16. CASE LinkUp
  BY <1>16 DEF LinkUp, PacketsOK, Harvested, Place, StoreAvail, StoreCur, Store
<1>17. CASE LinkDown
  BY <1>17 DEF LinkDown, PacketsOK, Harvested, Place, StoreAvail, StoreCur, Store
<1>18. CASE ResetDown
  BY <1>18 DEF ResetDown, PacketsOK, Harvested, Place, StoreAvail, StoreCur, Store
<1>19. CASE ResetClean
  BY <1>19 DEF ResetClean, PacketsOK, Harvested, Place, StoreAvail, StoreCur, Store
<1>20. CASE ConfRxRing
  BY <1>20 DEF ConfRxRing, PacketsOK, Harvested, Place, StoreAvail, StoreCur, Store
<1>21. CASE UNCHANGED vars
  BY <1>21 DEF vars, PacketsOK, Harvested, Place, StoreAvail, StoreCur, Store
<1> QED
  BY <1>1, <1>2, <1>3, <1>4, <1>5, <1>6, <1>7, <1>8, <1>9, <1>10, <1>11, <1>12, <1>13,
     <1>14, <1>15, <1>16, <1>17, <1>18, <1>19, <1>20, <1>21
  DEF Next, Sync, Receive, Client, Driver

\* The process goes through the slots in order, and cur follows it.
LEMMA DeliveredStep ==
    ASSUME Legal, IInv, DeliveredOK, [Next]_vars
    PROVE  DeliveredOK'
<1>1. CASE NicReceive
  BY <1>1 DEF NicReceive, DeliveredOK, Before, StoreAvail, StoreCur, Store, Syncing
<1>2. CASE SyncBadCur
  <2>1. faults > 0
    <3>1. cur = N
      BY <1>2 DEF SyncBadCur, IInv, TypeOK
    <3> QED
      BY <3>1 DEF IInv, ProcessOK
  <2>3. cur' = hwcur
    BY <2>1, <1>2, ReinitFacts DEF SyncBadCur
  <2>2. Dist(hwcur, hwcur) = 0
    BY Numbers DEF Dist, Slots
  <2> QED
    BY <2>1, <2>3, <2>2, <1>2, Numbers DEF SyncBadCur, DeliveredOK, Before
<1>3. CASE SyncBegin
  BY <1>3 DEF SyncBegin, DeliveredOK, Before, IInv, ProcessOK
<1>4. CASE Harvest
  BY <1>4 DEF Harvest, DeliveredOK, Before, StoreAvail, StoreCur, Store, Syncing
<1>5. CASE HarvestEnd
  <2>1. total' - hwavail' = total - hwavail
    BY <1>5, Numbers DEF HarvestEnd, IInv, TypeOK
  <2> QED
    BY <2>1, <1>5, Numbers DEF HarvestEnd, DeliveredOK, Before
<1>6. CASE Rearm
  <2> DEFINE m == Dist(hwcur, NewHwcur)
  <2>1. /\ NewHwcur \in Slots /\ m \in 0 .. hwavail /\ Resvd = reserved /\ cur \in Slots
        /\ m = Dist(hwcur, cur) - reserved /\ Dist(NewHwcur, cur) = reserved /\ reserved \in Nat
    BY <1>6, ReleaseFacts DEF Rearm, IInv, TypeOK
  <2>2. /\ hwcur' = NewHwcur /\ hwavail' = hwavail - m /\ total' = total /\ cur' = cur
        /\ delivered' = delivered /\ pc' = "user" /\ pc = "rearm" /\ crashes' = crashes /\ faults' = faults
    BY <1>6 DEF Rearm
  <2>3. cur # N
    BY <2>1 DEF Slots
  <2>4. Before(cur)' = Before(cur)
    <3> HIDE DEF m
    <3> QED
      BY <2>1, <2>2, Numbers DEF Before
  <2>5. total' - hwavail' <= Before(cur)
    <3> HIDE DEF m
    <3> QED
      BY <2>1, <2>2, Numbers DEF Before
  <2>6. Before(cur) <= delivered /\ Before(cur) \in Int /\ total' - hwavail' \in Int
    <3> HIDE DEF m
    <3> QED
      BY <2>1, <2>2, <2>3, Numbers DEF DeliveredOK, Before
  <2> QED
    BY <2>2, <2>4, <2>5, <2>6, Numbers DEF DeliveredOK
<1>7. CASE RearmBad
  <2>1. faults > 0 /\ cur' = hwcur
    <3>1. PICK s \in Slots : BadSlot(s)
      BY <1>7 DEF RearmBad, FirstBad, Released
    <3>2. faults > 0
      BY <3>1, BuffersFacts
    <3> QED
      BY <3>1, <3>2, <1>7, ReinitFacts DEF RearmBad
  <2>2. Dist(hwcur, hwcur) = 0
    BY Numbers DEF Dist, Slots
  <2> QED
    BY <2>1, <2>2, <1>7, Numbers DEF RearmBad, DeliveredOK, Before
<1>8. CASE RecvBegin
  <2>1. cur # N
    BY <1>8 DEF RecvBegin, IInv, ProcessOK
  <2> QED
    BY <2>1, <1>8 DEF RecvBegin, DeliveredOK, Before
<1>9. CASE RecvPacket
  <2>1. Dist(hwcur, ucur') = Dist(hwcur, ucur) + 1 /\ ucur' = Next1(ucur)
    BY <1>9 DEF RecvPacket, IInv, TypeOK, ProcessOK, Dist, Next1, Slots
  <2>2. Place(ucur) = Before(ucur) + 1 /\ Before(ucur)' = Before(ucur) + 1
    BY <2>1, <1>9, Numbers DEF RecvPacket, Place, Before
  <2>3. delivered' = IF Before(ucur) + 1 > delivered THEN Before(ucur) + 1 ELSE delivered
    BY <2>2, <1>9 DEF RecvPacket
  <2>4. Before(ucur) \in Int /\ Before(cur)' = Before(cur) /\ delivered' >= delivered
    BY <2>3, <1>9, Numbers DEF RecvPacket, Before
  <2>5. cur # N => Before(cur) \in Int
    BY Numbers DEF Before
  <2> QED
    BY <2>2, <2>3, <2>4, <2>5, <1>9, Numbers DEF RecvPacket, DeliveredOK
<1>10. CASE RecvAvail
  BY <1>10 DEF RecvAvail, DeliveredOK, Before, StoreAvail, Store
<1>11. CASE RecvCur
  <2>1. cur' = ucur /\ Before(ucur)' = Before(ucur) /\ Before(cur)' = Before(ucur)
    BY <1>11 DEF RecvCur, StoreCur, Store, Before
  <2> QED
    BY <2>1, <1>11 DEF RecvCur, DeliveredOK
<1>12. CASE Reserve
  BY <1>12 DEF Reserve, DeliveredOK, Before, StoreAvail, StoreCur, Store, Syncing
<1>13. CASE Crash
  BY <1>13, Numbers DEF Crash, DeliveredOK, Before, IInv, TypeOK
<1>14. CASE BadCur
  BY <1>14, Numbers DEF BadCur, DeliveredOK, Before, IInv, TypeOK
<1>15. CASE BadBuf
  BY <1>15, Numbers DEF BadBuf, DeliveredOK, Before, IInv, TypeOK
<1>16. CASE LinkUp
  BY <1>16 DEF LinkUp, DeliveredOK, Before, StoreAvail, StoreCur, Store, Syncing
<1>17. CASE LinkDown
  BY <1>17 DEF LinkDown, DeliveredOK, Before, StoreAvail, StoreCur, Store, Syncing
<1>18. CASE ResetDown
  BY <1>18 DEF ResetDown, DeliveredOK, Before, StoreAvail, StoreCur, Store, Syncing
<1>19. CASE ResetClean
  BY <1>19 DEF ResetClean, DeliveredOK, Before, StoreAvail, StoreCur, Store, Syncing
<1>20. CASE ConfRxRing
  BY <1>20 DEF ConfRxRing, DeliveredOK, Before, StoreAvail, StoreCur, Store, Syncing
<1>21. CASE UNCHANGED vars
  BY <1>21 DEF vars, DeliveredOK, Before, StoreAvail, StoreCur, Store, Syncing
<1> QED
  BY <1>1, <1>2, <1>3, <1>4, <1>5, <1>6, <1>7, <1>8, <1>9, <1>10, <1>11, <1>12, <1>13,
     <1>14, <1>15, <1>16, <1>17, <1>18, <1>19, <1>20, <1>21
  DEF Next, Sync, Receive, Client, Driver

\* DInv is an invariant: each packet is in its place until the process is done with it.
THEOREM DataKept == ASSUME Legal PROVE Spec => []DInv
<1>1. Init => DInv
  <2>1. SUFFICES ASSUME Init PROVE DInv
    OBVIOUS
  <2>2. Filled = 0 /\ Harvested = 0
    BY <2>1 DEF Init, Filled, Dist, Harvested
  <2>3. \A s, t \in Slots : Dist(s, t) \in Nat
    BY DEF Dist, Slots
  <2>4. LogOK
    BY <2>1, <2>2 DEF Init, LogOK
  <2>5. 0 \in Slots
    BY DEF Slots
  <2>6. StoredOK
    BY <2>1, <2>2, <2>3, <2>5 DEF Init, StoredOK
  <2>7. PacketsOK
    BY <2>1, <2>2, <2>3, <2>5 DEF Init, PacketsOK
  <2>8. DeliveredOK
    BY <2>1 DEF Init, DeliveredOK, Before, Dist
  <2> QED
    BY <2>4, <2>6, <2>7, <2>8 DEF DInv
<1>2. IInv /\ DInv /\ [Next]_vars => DInv'
  BY LogStep, StoredStep, PacketsStep, DeliveredStep DEF DInv
<1> QED
  BY <1>1, <1>2, Inductive, PTL DEF Spec

\* rx_sync's loop looks for a descriptor the NIC is not done with; it never laps the
\* ring, whatever the NIC adds while it runs.
HarvestStops == pc = "harvest" => hwavail + i <= N - 1 /\ Len(hlog) = total + i

\* The loop of ixgbe_rx_sync ends: it never goes round the ring, whatever the NIC adds
\* while it runs, and counts exactly the packets it takes.
THEOREM Stopping == ASSUME Legal PROVE Spec => []HarvestStops
<1>1. IInv /\ DInv => HarvestStops
  <2>1. SUFFICES ASSUME IInv, DInv, pc = "harvest"
        PROVE  hwavail + i <= N - 1 /\ Len(hlog) = total + i
    BY DEF HarvestStops
  <2>2. hwavail + Given = N - 1 /\ Filled <= Given /\ i <= Filled
    BY <2>1 DEF IInv, ResetOK, RingsOK, SyncOK, Syncing
  <2>3. hwavail \in Nat /\ i \in Nat /\ Filled \in Nat /\ Given \in Nat
    BY <2>1, Numbers DEF IInv, TypeOK, Filled, Given
  <2>4. Len(hlog) = total + i
    BY <2>1 DEF DInv, LogOK, Harvested
  <2> QED
    BY <2>2, <2>3, <2>4
<1> QED
  BY <1>1, Inductive, DataKept, PTL

\* what the callback is about to be given is in use
LEMMA NextPacket ==
    ASSUME IInv, pc = "recv", rx < todo
    PROVE  Dist(hwcur, ucur) < hwavail /\ ucur \in Slots
<1>1. cur # N /\ rx \in Nat /\ todo \in Nat /\ avail \in Nat /\ ucur \in Slots
  BY DEF IInv, ProcessOK, TypeOK
<1>2. todo <= avail /\ Dist(hwcur, ucur) = Dist(hwcur, cur) + rx /\ Dist(hwcur, cur) + avail <= hwavail
  BY <1>1 DEF IInv, ProcessOK
<1>3. Dist(hwcur, cur) \in Nat /\ hwavail \in Nat
  BY <1>1, Numbers
<1> QED
  BY <1>1, <1>2, <1>3

\* The callback is given the packets in the order the NIC has stored them, none passed
\* over and each with its own length and bytes, across resets and a change of process.
THEOREM Ordered == ASSUME Legal PROVE Spec => []InOrder
<1>1. IInv /\ DInv => InOrder
  <2>1. SUFFICES ASSUME IInv, DInv, pc = "recv", rx < todo
        PROVE  /\ Place(ucur) <= total /\ Place(ucur) <= delivered + 1
               /\ bufIdx[ucur] # 0 => /\ len[ucur] = hlog[Place(ucur)]
                                      /\ mem[bufIdx[ucur]] = hlog[Place(ucur)]
    BY DEF InOrder
  <2>2. Dist(hwcur, ucur) < hwavail /\ ucur \in Slots
    BY <2>1, NextPacket
  <2>3. Before(ucur) <= delivered
    BY <2>1 DEF DInv, DeliveredOK
  <2>4. Place(ucur) = Before(ucur) + 1 /\ Before(ucur) \in Int
    BY <2>1, Numbers DEF Place, Before
  <2>5. Place(ucur) <= delivered + 1
    BY <2>1, <2>3, <2>4, Numbers
  <2>6. Place(ucur) <= total
    BY <2>1, <2>2, Numbers DEF Place
  <2>7. bufIdx[ucur] # 0 => bufIdx[ucur] = ucur + 2
    BY <2>1, <2>2, BuffersFacts
  <2>8. bufIdx[ucur] # 0 => len[ucur] = hlog[Place(ucur)] /\ mem[ucur + 2] = hlog[Place(ucur)]
    BY <2>1, <2>2, Numbers DEF DInv, PacketsOK, Harvested
  <2> QED
    BY <2>5, <2>6, <2>7, <2>8
<1> QED
  BY <1>1, Inductive, DataKept, PTL

\* No packet is given to the callback twice as long as the process neither dies nor
\* stores bad values.
THEOREM Once == ASSUME Legal PROVE Spec => []ExactlyOnce
<1>1. IInv /\ DInv => ExactlyOnce
  <2>1. SUFFICES ASSUME IInv, DInv, pc = "recv", crashes = 0, faults = 0
        PROVE  Place(ucur) = delivered + 1
    BY DEF ExactlyOnce
  <2>2. delivered = Before(ucur)
    BY <2>1 DEF DInv, DeliveredOK
  <2> QED
    BY <2>1, <2>2, Numbers DEF Place, Before
<1> QED
  BY <1>1, Inductive, DataKept, PTL

\* rx_sync gives a buffer back to the NIC only after its packet was given to the callback,
\* whatever the process has stored in cur and the buffer indices.
THEOREM NotTooEarly == ASSUME Legal PROVE Spec => []ReleasedWereDelivered
<1>1. DInv => ReleasedWereDelivered
  BY DEF DInv, DeliveredOK, ReleasedWereDelivered
<1> QED
  BY <1>1, DataKept, PTL

----------------------------------------------------------------------------
(* The refinement of RxQueue.                                               *)

\* the next descriptor to be harvested, and those filled from there on
LEMMA FrontIs ==
    ASSUME IInv
    PROVE  /\ Front \in Slots /\ head \in Slots /\ dlen \in [Slots -> Packets]
           /\ Dist(Front, head) \in 0 .. N - 1 /\ Dist(Front, head) = Filled - Harvested
<1>1. Front \in Slots /\ head \in Slots /\ ntc \in Slots /\ n \in Slots /\ dlen \in [Slots -> Packets]
  BY DEF IInv, TypeOK, Front
<1>2. Dist(Front, head) \in 0 .. N - 1
  BY <1>1 DEF Dist, Slots
<1>3. CASE pc = "harvest"
  <2>1. Dist(ntc, n) = i /\ i <= Dist(ntc, head)
    BY <1>3 DEF IInv, SyncOK, Filled
  <2> QED
    BY <1>1, <1>2, <1>3, <2>1 DEF Front, Harvested, Filled, Dist, Slots
<1>4. CASE pc # "harvest"
  BY <1>1, <1>2, <1>4 DEF Front, Harvested, Filled
<1> QED
  BY <1>1, <1>2, <1>3, <1>4

\* as many steps up from a as there are to b, and no fewer, lead to b
LEMMA StepsTo ==
    ASSUME NEW a \in Slots, NEW b \in Slots, NEW j \in 1 .. Dist(a, b) + 1
    PROVE  Wrap(a + j - 1) \in Slots /\ (Wrap(a + j - 1) = b <=> j = Dist(a, b) + 1)
BY DEF Dist, Wrap, Slots

\* a row of descriptors as a sequence of packets
LEMMA RowIs ==
    ASSUME NEW a \in Slots, NEW b \in Slots, NEW f \in [Slots -> Packets]
    PROVE  LET row == [j \in 1 .. Dist(a, b) |-> f[Wrap(a + j - 1)]]
           IN  row \in Seq(Packets) /\ Len(row) = Dist(a, b)
<1> DEFINE row == [j \in 1 .. Dist(a, b) |-> f[Wrap(a + j - 1)]]
<1>1. Dist(a, b) \in Nat
  BY DEF Dist, Slots
<1>2. \A j \in 1 .. Dist(a, b) : f[Wrap(a + j - 1)] \in Packets
  <2>1. ASSUME NEW j \in 1 .. Dist(a, b) PROVE Wrap(a + j - 1) \in Slots
    BY <1>1, StepsTo
  <2> QED
    BY <2>1
<1>3. row \in [1 .. Dist(a, b) -> Packets]
  BY <1>2
<1>4. row \in Seq(Packets)
  BY <1>1, <1>3
<1>5. Len(row) = Dist(a, b)
  BY <1>1, <1>3, <1>4, LenProperties
<1> QED
  BY <1>4, <1>5

\* what waits is a sequence
RowOK == Unharvested \in Seq(Packets) /\ Len(Unharvested) = Dist(Front, head)

LEMMA UnharvestedIs == IInv => RowOK
BY FrontIs, RowIs DEF Unharvested, RowOK

\* the same one step later, for the steps below
LEMMA UnharvestedIsNext == IInv' => RowOK'
BY UnharvestedIs, PTL

\* where nothing is received and nothing harvested the same packets wait
LEMMA SameRow ==
    ASSUME UNCHANGED <<ntc, head, dlen>>, UNCHANGED n \/ pc # "harvest",
           pc' = "harvest" <=> pc = "harvest"
    PROVE  UNCHANGED Unharvested
<1>1. Front' = Front
  BY DEF Front
<1> QED
  BY <1>1 DEF Unharvested, Dist, Wrap

LEMMA ArriveStep ==
    ASSUME IInv, DInv, IInv', NicReceive
    PROVE  Rx!Arrive
<1>1. /\ rpc = "up" /\ rxen = TRUE /\ head # tail /\ nextId \in 1 .. MaxPkts /\ nextId \in Packets
      /\ head' = Next1(head) /\ dlen' = [dlen EXCEPT ![head] = nextId] /\ nextId' = nextId + 1
      /\ UNCHANGED <<hlog, delivered, total, hwavail, rxen, ntc, n, i, pc>>
  BY DEF IInv, TypeOK, ResetOK, NicReceive, Packets
<1>2. /\ Front' = Front /\ Front \in Slots /\ head \in Slots /\ dlen \in [Slots -> Packets]
      /\ Dist(Front, head) \in 0 .. N - 1 /\ Dist(Front, head) = Filled - Harvested
  BY <1>1, FrontIs DEF Front
<1>a. hwavail + Given = N - 1 /\ Filled <= Given /\ ntc \in Slots /\ tail \in Slots
  BY <1>1 DEF IInv, RingsOK, TypeOK
<1>3. Filled < Given /\ Filled \in Nat /\ Given \in Nat
  BY <1>1, <1>2, <1>a DEF Filled, Given, Dist, Slots
<1>4. /\ hwavail \in Nat /\ Harvested \in Nat /\ total \in Nat
      /\ Len(hlog) = total + Harvested
  BY DEF IInv, TypeOK, DInv, LogOK, Harvested
<1>5. RowOK /\ RowOK'
  BY UnharvestedIs, UnharvestedIsNext
<1>6. Rx!Held < N - 1
  BY <1>2, <1>3, <1>4, <1>5, <1>a DEF Rx!Held, RowOK
<1>7. Dist(Front, head') = Dist(Front, head) + 1
  BY <1>1, <1>2, <1>3, <1>4, <1>a DEF Dist, Next1, Slots
<1>8. Unharvested' = [j \in 1 .. Dist(Front, head) + 1 |-> dlen'[Wrap(Front + j - 1)]]
  BY <1>1, <1>2, <1>7 DEF Unharvested, Dist, Wrap
<1>9. Unharvested' = Append(Unharvested, nextId)
  <2>1. Unharvested \in Seq(Packets) /\ Len(Unharvested) = Dist(Front, head)
        /\ Unharvested' \in Seq(Packets) /\ Len(Unharvested') = Dist(Front, head) + 1
    BY <1>5, <1>1, <1>2, <1>7 DEF RowOK, Packets, Dist
  <2>2. /\ Append(Unharvested, nextId) \in Seq(Packets)
        /\ Len(Append(Unharvested, nextId)) = Dist(Front, head) + 1
        /\ \A j \in 1 .. Dist(Front, head) : Append(Unharvested, nextId)[j] = Unharvested[j]
        /\ Append(Unharvested, nextId)[Dist(Front, head) + 1] = nextId
    BY <1>1, <2>1, AppendProperties
  <2>3. ASSUME NEW j \in 1 .. Dist(Front, head) + 1
        PROVE  Unharvested'[j] = Append(Unharvested, nextId)[j]
    <3>1. Unharvested'[j] = dlen'[Wrap(Front + j - 1)]
      BY <1>8
    <3>2. Wrap(Front + j - 1) \in Slots /\ (Wrap(Front + j - 1) = head <=> j = Dist(Front, head) + 1)
      BY <1>2, StepsTo
    <3>3. CASE j = Dist(Front, head) + 1
      BY <1>1, <1>2, <2>2, <3>1, <3>2, <3>3
    <3>4. CASE j # Dist(Front, head) + 1
      <4>1. j \in 1 .. Dist(Front, head)
        BY <1>2, <3>4
      <4>2. Unharvested[j] = dlen[Wrap(Front + j - 1)]
        BY <4>1 DEF Unharvested
      <4> QED
        BY <1>1, <1>2, <2>2, <3>1, <3>2, <3>4, <4>1, <4>2
    <3> QED
      BY <3>3, <3>4
  <2> QED
    BY <2>1, <2>2, <2>3, SeqEqual
<1>10. nextId' - 1 = (nextId - 1) + 1 /\ nextId' - 1 = nextId /\ total' - hwavail' = total - hwavail
  BY <1>1
<1> QED
  BY <1>1, <1>6, <1>9, <1>10 DEF Rx!Arrive

LEMMA TakeStep ==
    ASSUME IInv, IInv', Harvest
    PROVE  Rx!Take
<1>1. /\ pc = "harvest" /\ n \in done /\ hlog' = Append(hlog, dlen[n]) /\ n' = Next1(n) /\ pc' = pc
      /\ UNCHANGED <<head, dlen, nextId, delivered, total, hwavail, rxen>>
  BY DEF Harvest
<1>2. /\ Front = n /\ Front' = Next1(n) /\ n \in Slots /\ head \in Slots /\ dlen \in [Slots -> Packets]
      /\ Dist(n, head) \in 0 .. N - 1 /\ Dist(n, head) = Filled - i
  BY <1>1, FrontIs DEF Front, Harvested
<1>3. i < Filled /\ i \in Nat /\ Filled \in Nat
  <2>1. i < Filled /\ i \in Nat
    BY <1>1, HarvestFacts
  <2>2. ntc \in Slots
    BY DEF IInv, TypeOK
  <2> QED
    BY <1>2, <2>1, <2>2 DEF Filled, Dist, Slots
<1>4. Dist(n, head) \in 1 .. N - 1 /\ Dist(Next1(n), head) = Dist(n, head) - 1
  <2>1. Dist(n, head) > 0
    BY <1>2, <1>3
  <2> QED
    BY <1>2, <2>1 DEF Dist, Next1, Slots
<1>5. Unharvested = [j \in 1 .. Dist(n, head) |-> dlen[Wrap(n + j - 1)]]
  BY <1>2 DEF Unharvested
<1>6. Unharvested' = [j \in 1 .. Dist(n, head) - 1 |-> dlen[Wrap(Next1(n) + j - 1)]]
  BY <1>1, <1>2, <1>4 DEF Unharvested, Dist, Wrap
<1>7. /\ Unharvested \in Seq(Packets) /\ Len(Unharvested) = Dist(n, head)
      /\ Unharvested' \in Seq(Packets) /\ Len(Unharvested') = Dist(n, head) - 1
  <2>1. RowOK /\ RowOK'
    BY UnharvestedIs, UnharvestedIsNext
  <2>2. Dist(Front, head)' = Dist(Next1(n), head)
    BY <1>1, <1>2 DEF Dist
  <2> QED
    BY <1>2, <1>4, <2>1, <2>2 DEF RowOK, Packets
<1>8. Unharvested # <<>>
  BY <1>4, <1>7, EmptySeq
<1>9. Head(Unharvested) = dlen[n]
  <2>1. 1 \in 1 .. Dist(n, head) /\ Wrap(n + 1 - 1) = n
    BY <1>2, <1>4 DEF Wrap, Slots
  <2>2. Unharvested[1] = dlen[n]
    BY <1>5, <2>1
  <2> QED
    BY <2>2
<1>10. Unharvested' = Tail(Unharvested)
  <2>1. /\ Tail(Unharvested) \in Seq(Packets) /\ Len(Tail(Unharvested)) = Dist(n, head) - 1
        /\ \A j \in 1 .. Dist(n, head) - 1 : Tail(Unharvested)[j] = Unharvested[j + 1]
    BY <1>7, <1>8, HeadTailProperties
  <2>2. ASSUME NEW j \in 1 .. Dist(n, head) - 1 PROVE Unharvested'[j] = Tail(Unharvested)[j]
    <3>1. j + 1 \in 1 .. Dist(n, head) /\ Wrap(Next1(n) + j - 1) = Wrap(n + (j + 1) - 1)
      BY <1>2, <1>4 DEF Wrap, Next1, Slots
    <3> QED
      BY <1>5, <1>6, <2>1, <3>1
  <2> QED
    BY <1>7, <2>1, <2>2, SeqEqual
<1> QED
  BY <1>1, <1>8, <1>9, <1>10 DEF Rx!Take

LEMMA HarvestEndQuiet ==
    ASSUME IInv, HarvestEnd
    PROVE  UNCHANGED <<nextId - 1, Unharvested, hlog, delivered, total - hwavail, rxen>>
<1>1. total \in Int /\ i \in Int /\ hwavail \in Int
  BY DEF IInv, TypeOK
<1>2. total' - hwavail' = total - hwavail
  BY <1>1 DEF HarvestEnd
<1>3. Front' = Front
  BY DEF HarvestEnd, Front
<1>4. Unharvested' = Unharvested
  BY <1>3 DEF HarvestEnd, Unharvested, Dist, Wrap
<1> QED
  BY <1>2, <1>4 DEF HarvestEnd

LEMMA SyncBeginQuiet ==
    ASSUME SyncBegin
    PROVE  UNCHANGED <<nextId - 1, Unharvested, hlog, delivered, total - hwavail, rxen>>
<1>1. Front' = Front
  BY DEF SyncBegin, Front
<1>2. Unharvested' = Unharvested
  BY <1>1 DEF SyncBegin, Unharvested, Dist, Wrap
<1> QED
  BY <1>2 DEF SyncBegin

LEMMA ReleaseStep ==
    ASSUME IInv, IInv', DInv', Rearm
    PROVE  Rx!Release \/ UNCHANGED <<nextId - 1, Unharvested, hlog, delivered, total - hwavail, rxen>>
<1>1. /\ hwavail' = hwavail - Dist(hwcur, NewHwcur) /\ total' = total
      /\ UNCHANGED <<nextId, hlog, delivered, rxen>>
  BY DEF Rearm
<1>2. UNCHANGED Unharvested
  BY SameRow DEF Rearm
<1>3. hwcur \in Slots /\ NewHwcur \in Slots /\ hwavail \in Nat /\ total \in Nat
  <2>1. hwcur' \in Slots /\ hwcur \in Slots /\ hwavail \in Nat /\ total \in Nat
    BY DEF IInv, TypeOK
  <2> QED
    BY <2>1 DEF Rearm
<1>4. Dist(hwcur, NewHwcur) \in Nat
  BY <1>3 DEF Dist, Slots
<1>5. total' - hwavail' <= delivered' /\ delivered \in Nat
  BY DEF DInv, DeliveredOK, IInv, TypeOK
<1>6. CASE Dist(hwcur, NewHwcur) = 0
  BY <1>1, <1>2, <1>3, <1>6
<1>7. CASE Dist(hwcur, NewHwcur) # 0
  <2>1. total' - hwavail' \in (total - hwavail) + 1 .. delivered
    BY <1>1, <1>3, <1>4, <1>5, <1>7
  <2>2. nextId' - 1 = nextId - 1
    BY <1>1
  <2> QED
    BY <1>1, <1>2, <2>1, <2>2 DEF Rx!Release
<1> QED
  BY <1>6, <1>7

LEMMA GiveStep ==
    ASSUME IInv, DInv, InOrder, RecvPacket
    PROVE  Rx!Give \/ UNCHANGED <<nextId - 1, Unharvested, hlog, delivered, total - hwavail, rxen>>
<1>1. /\ pc = "recv" /\ rx < todo /\ UNCHANGED <<nextId, hlog, total, hwavail, rxen>>
      /\ delivered' = IF Place(ucur) > delivered THEN Place(ucur) ELSE delivered
  BY DEF RecvPacket
<1>2. UNCHANGED Unharvested
  BY SameRow DEF RecvPacket
<1>3. /\ Place(ucur) <= total /\ Place(ucur) <= delivered + 1 /\ Len(hlog) = total
      /\ Place(ucur) \in Int /\ total \in Nat /\ delivered \in Nat
  BY <1>1, Numbers DEF InOrder, DInv, LogOK, Harvested, Place
<1>4. CASE Place(ucur) > delivered
  <2>1. delivered' = delivered + 1 /\ delivered < Len(hlog)
    BY <1>1, <1>3, <1>4
  <2> QED
    BY <1>1, <1>2, <2>1 DEF Rx!Give
<1>5. CASE ~(Place(ucur) > delivered)
  BY <1>1, <1>2, <1>5
<1> QED
  BY <1>4, <1>5

\* a reset
LEMMA EmptyRow ==
    ASSUME pc # "harvest", ntc = 0, head = 0
    PROVE  Unharvested = <<>>
<1>1. 1 .. Dist(Front, head) = {}
  BY DEF Front, Dist
<1> QED
  BY <1>1 DEF Unharvested

LEMMA EmptyRowNext == (pc # "harvest" /\ ntc = 0 /\ head = 0)' => (Unharvested = <<>>)'
<1>1. pc # "harvest" /\ ntc = 0 /\ head = 0 => Unharvested = <<>>
  BY EmptyRow
<1> QED
  BY <1>1, PTL

LEMMA ResetStep ==
    ASSUME Legal, IInv, ResetDown \/ ResetClean \/ ConfRxRing
    PROVE  Rx!Stop \/ Rx!Drop \/ Rx!Start
<1>1. CASE ResetDown
  <2>1. UNCHANGED Unharvested
    BY <1>1, SameRow DEF ResetDown
  <2> QED
    BY <1>1, <2>1 DEF ResetDown, Rx!Stop, IInv, ResetOK
<1>2. CASE ResetClean
  <2>1. ~Syncing /\ rxen = FALSE
    BY <1>2 DEF ResetClean, Legal, IInv, ResetOK, TypeOK
  <2>2. Unharvested' = <<>>
    BY <1>2, <2>1, EmptyRowNext DEF ResetClean, Syncing
  <2> QED
    BY <1>2, <2>1, <2>2 DEF ResetClean, Rx!Drop
<1>3. CASE ConfRxRing
  <2>1. ~Syncing /\ rxen = FALSE /\ ntc = 0 /\ head = 0
    BY <1>3 DEF ConfRxRing, IInv, ResetOK, TypeOK
  <2>2. Unharvested = <<>>
    BY <2>1, EmptyRow DEF Syncing
  <2>3. UNCHANGED Unharvested
    BY <1>3, SameRow DEF ConfRxRing
  <2> QED
    BY <1>3, <2>1, <2>2, <2>3 DEF ConfRxRing, Rx!Start
<1> QED
  BY <1>1, <1>2, <1>3

\* what the queue does not see
LEMMA QuietSteps ==
    ASSUME \/ SyncBadCur \/ RearmBad \/ RecvBegin \/ RecvAvail \/ RecvCur \/ Reserve \/ Crash
           \/ BadCur \/ BadBuf \/ LinkUp \/ LinkDown \/ UNCHANGED vars
    PROVE  UNCHANGED <<nextId - 1, Unharvested, hlog, delivered, total - hwavail, rxen>>
<1>1. /\ UNCHANGED <<nextId, hlog, delivered, total, hwavail, rxen, ntc, head, dlen, n>>
      /\ pc' = "harvest" <=> pc = "harvest"
  BY DEF SyncBadCur, RearmBad, RecvBegin, RecvAvail, RecvCur, Reserve, Crash, BadCur, BadBuf, LinkUp,
     LinkDown, vars
<1>2. UNCHANGED Unharvested
  BY <1>1, SameRow
<1> QED
  BY <1>1, <1>2

\* Without bad values, or without buffers kept, a registered queue is a queue of N - 1
\* buffers, for every N, in every interleaving of NIC, rx_sync, process and resets, and
\* through deaths of the process: ixgbe_rx_sync takes each packet once and in order,
\* ixgbe_dpa_conf_rx_ring loses none that was taken, and none is overwritten before
\* raw_recv_proc_intel has given it to the callback.
THEOREM Refinement == ASSUME Legal PROVE Spec => RxSpec
<1>1. Init => Rx!Init
  <2>1. SUFFICES ASSUME Init PROVE Rx!Init
    OBVIOUS
  <2>2. Unharvested = <<>>
    BY <2>1, EmptyRow DEF Init
  <2> QED
    BY <2>1, <2>2 DEF Init, Rx!Init
<1>2. IInv /\ DInv /\ InOrder /\ IInv' /\ DInv' /\ [Next]_vars => [Rx!Next]_Rx!vars
  <2>1. SUFFICES ASSUME IInv, DInv, InOrder, IInv', DInv', [Next]_vars
        PROVE  Rx!Next \/ UNCHANGED <<nextId - 1, Unharvested, hlog, delivered, total - hwavail, rxen>>
    BY DEF Rx!vars
  <2> QED
    BY <2>1, ArriveStep, TakeStep, HarvestEndQuiet, SyncBeginQuiet, ReleaseStep, GiveStep, ResetStep,
       QuietSteps DEF Next, Sync, Receive, Client, Driver, Rx!Next
<1> QED
  BY <1>1, <1>2, Inductive, DataKept, Ordered, PTL DEF Spec, RxSpec, Rx!Spec
=============================================================================
