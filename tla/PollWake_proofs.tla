--------------------------- MODULE PollWake_proofs ---------------------------
(***************************************************************************)
(* Proof that no wake-up is lost, for any number of rings and of vectors   *)
(* and any number of changes of the carrier.                               *)
(*                                                                         *)
(* The argument: a poller looks at a ring while it holds a lock that the   *)
(* interrupt needs for its wake-up, and keeps it until it is on the wait   *)
(* queue.  So an interrupt that comes after the look finds it there.       *)
(***************************************************************************)
EXTENDS PollWake, WellFoundedInduction, TLAPS

\* the rings that a call of dpa_poll has looked at, and relies on being told of
Scanned(t) ==
    CASE tpc[t] = "sync" -> {r \in PolledBy(t) : r < tring[t]}
      [] tpc[t] = "unlock" -> {r \in PolledBy(t) : r <= tring[t]}
      [] tpc[t] \in {"end", "sleep"} -> PolledBy(t)
      [] OTHER -> {}

\* a queue is not polled both by a process of its own and by one that polls all
Here == tpc[Core] = "absent" \/ \A r \in Rings : tpc[r] = "absent"

NapiOK ==
    \A v \in Vectors : /\ nring[v] \in RingsOf(v)
                       /\ npc[v] = "idle" => nring[v] = Least(RingsOf(v))

RingOK(t) ==
    /\ tring[t] \in PolledBy(t)
    /\ tpc[t] \notin {"sync", "unlock"} => tring[t] = Least(PolledBy(t))
    /\ tpc[t] \in {"core", "end"} => CheckAll(t)

\* the locks a poller holds
LockOK(t) ==
    /\ tpc[t] = "unlock" => locked[tring[t]]
    /\ CheckAll(t) /\ tpc[t] \in {"sync", "unlock", "end"} => locked[Core]

\* a poller that sleeps, or has slept in this call of poll, is on its wait queue
QueueOK(t) == ~first[t] \/ tpc[t] = "sleep" => t \in queues[t]

\* what it has harvested makes it return
SeenOK(t) ==
    /\ tpc[t] = "sleep" => ~ready[t]
    /\ \A r \in Scanned(t) : r \in avail => ready[t]

\* and of what came to a ring after it looked there it will be told
ComingOK(t) ==
    \A r \in Scanned(t) \ missed[t] :
        r \in dd => Coming(t, r) \/ (tpc[t] = "sleep" /\ triggered[t])

PollerOK(t) == RingOK(t) /\ LockOK(t) /\ QueueOK(t) /\ SeenOK(t) /\ ComingOK(t)

IInv == TypeOK /\ Here /\ NapiOK /\ \A t \in Pollers : PollerOK(t)

----------------------------------------------------------------------------
(* Rings, vectors and pollers.                                              *)

LEMMA LeastOf ==
    ASSUME NEW S, S \subseteq Nat, S # {}
    PROVE  Least(S) \in S /\ \A x \in S : Least(S) <= x
<1>1. \E x \in S : \A y \in S : <<y, x>> \notin OpToRel(<, Nat)
  BY NatLessThanWellFounded, WFMin
<1>2. \E x \in S : \A y \in S : ~(y < x)
  BY <1>1 DEF OpToRel
<1>3. \E x \in S : \A y \in S : x <= y
  BY <1>2
<1> QED
  BY <1>3 DEF Least

LEMMA VectorOfRing ==
    /\ \A r \in Rings : VectorOf(r) \in Vectors /\ r \in RingsOf(VectorOf(r))
    /\ \A v \in Vectors : v \in RingsOf(v) /\ RingsOf(v) \subseteq Rings
<1>1. NumRings \in Nat /\ NumVectors \in Nat /\ NumVectors >= 1 /\ NumVectors <= NumRings
  BY PollWakeAssumption
<1>2. ASSUME NEW r \in Rings PROVE \E v \in Vectors : r % NumVectors = v % NumVectors
  <2>1. r \in Nat
    BY <1>1 DEF Rings
  <2>2. r % NumVectors \in 0 .. NumVectors - 1
    BY <1>1, <2>1
  <2>3. CASE r % NumVectors = 0
    <3>1. NumVectors \in Vectors /\ NumVectors % NumVectors = 0
      BY <1>1 DEF Vectors
    <3> QED
      BY <2>3, <3>1
  <2>4. CASE r % NumVectors # 0
    <3> DEFINE m == r % NumVectors
    <3>1. m \in 1 .. NumVectors - 1
      BY <1>1, <2>2, <2>4
    <3> HIDE DEF m
    <3>2. m \in Vectors /\ m % NumVectors = m
      BY <1>1, <3>1 DEF Vectors
    <3> QED
      BY <3>2 DEF m
  <2> QED
    BY <2>3, <2>4
<1>3. \A v \in Vectors : v \in Rings
  BY <1>1 DEF Rings, Vectors
<1> QED
  BY <1>2, <1>3 DEF VectorOf, RingsOf

LEMMA Sets ==
    /\ Rings \subseteq Nat \ {0} /\ Core = 0 /\ Core \notin Rings /\ Rings # {}
    /\ Pollers = {Core} \cup Rings
    /\ PolledBy(Core) = Rings
    /\ \A r \in Rings : PolledBy(r) = {r} /\ ~CheckAll(r)
    /\ CheckAll(Core)
    /\ \A t \in Pollers : PolledBy(t) \subseteq Rings /\ PolledBy(t) # {}
  BY PollWakeAssumption DEF Rings, Core, Pollers, PolledBy, CheckAll

LEMMA LeastRing ==
    /\ \A t \in Pollers : /\ Least(PolledBy(t)) \in PolledBy(t)
                          /\ \A r \in PolledBy(t) : Least(PolledBy(t)) <= r
    /\ \A v \in Vectors : /\ Least(RingsOf(v)) \in RingsOf(v)
                          /\ \A r \in RingsOf(v) : Least(RingsOf(v)) <= r
<1>1. ASSUME NEW t \in Pollers
      PROVE  /\ Least(PolledBy(t)) \in PolledBy(t)
             /\ \A r \in PolledBy(t) : Least(PolledBy(t)) <= r
  <2>1. PolledBy(t) \subseteq Nat /\ PolledBy(t) # {}
    BY Sets
  <2> QED
    BY <2>1, LeastOf
<1>2. ASSUME NEW v \in Vectors
      PROVE  /\ Least(RingsOf(v)) \in RingsOf(v)
             /\ \A r \in RingsOf(v) : Least(RingsOf(v)) <= r
  <2>1. RingsOf(v) \subseteq Nat /\ RingsOf(v) # {}
    BY Sets, VectorOfRing
  <2> QED
    BY <2>1, LeastOf
<1> QED
  BY <1>1, <1>2

LEMMA NextRing ==
    ASSUME NEW S, S \subseteq Nat, NEW r \in S, After(S, r) # {}
    PROVE  /\ Least(After(S, r)) \in S /\ Least(After(S, r)) > r
           /\ \A x \in S : x > r => Least(After(S, r)) <= x
<1>1. After(S, r) \subseteq Nat
  BY DEF After
<1>2. /\ Least(After(S, r)) \in After(S, r)
      /\ \A x \in After(S, r) : Least(After(S, r)) <= x
  BY <1>1, LeastOf
<1> QED
  BY <1>2 DEF After

LEMMA ScannedRings == \A t \in Pollers : Scanned(t) \subseteq PolledBy(t)
  BY DEF Scanned

----------------------------------------------------------------------------
(* Types.                                                                   *)

LEMMA TypeStep == TypeOK /\ NapiOK /\ (\A t \in Pollers : RingOK(t)) /\ [Next]_vars => TypeOK'
<1> SUFFICES ASSUME TypeOK, NapiOK, \A t \in Pollers : RingOK(t), [Next]_vars PROVE TypeOK'
  OBVIOUS
<1> USE DEF cvars, nvars, pvars
<1>1. ASSUME NEW r \in Rings, Arrive(r) PROVE TypeOK'
  <2>1. dd' \subseteq Rings /\ eicr' \in [Vectors -> BOOLEAN]
    BY <1>1, VectorOfRing DEF Arrive, TypeOK
  <2> QED
    BY <1>1, <2>1 DEF Arrive, TypeOK
<1>2. ASSUME NEW v \in Vectors, Interrupt(v) PROVE TypeOK'
  BY <1>2 DEF Interrupt, TypeOK
<1>3. ASSUME NEW v \in Vectors, IrqWakeRing(v) PROVE TypeOK'
  BY <1>3 DEF IrqWakeRing, Wake, TypeOK
<1>4. ASSUME NEW v \in Vectors, IrqWakeCore(v) PROVE TypeOK'
  <2>1. /\ Least(RingsOf(v)) \in Rings
        /\ After(RingsOf(v), nring[v]) # {} => Least(After(RingsOf(v), nring[v])) \in Rings
    <3>1. /\ RingsOf(v) \subseteq Rings /\ RingsOf(v) \subseteq Nat
          /\ nring[v] \in RingsOf(v)
      BY Sets, VectorOfRing DEF NapiOK
    <3> QED
      BY <3>1, LeastRing, NextRing
  <2>2. nring' \in [Vectors -> Rings] /\ npc' \in [Vectors -> {"idle", "ring", "core"}]
    BY <1>4, <2>1 DEF IrqWakeCore, TypeOK
  <2> QED
    BY <1>4, <2>2 DEF IrqWakeCore, Wake, TypeOK
<1>5. CASE CheckHang
  BY <1>5 DEF CheckHang, TypeOK
<1>6. CASE Carrier
  BY <1>6, PollWakeAssumption DEF Carrier, TypeOK
<1>7. ASSUME NEW t \in Pollers, PollEnter(t) PROVE TypeOK'
  BY <1>7 DEF PollEnter, Start, TGoto, TypeOK
<1>8. ASSUME NEW t \in Pollers, PollLockCore(t) PROVE TypeOK'
  BY <1>8 DEF PollLockCore, Lock, TGoto, TypeOK
<1>9. ASSUME NEW t \in Pollers, PollSync(t) PROVE TypeOK'
  <2>1. /\ dd' \subseteq Rings /\ avail' \subseteq Rings
        /\ missed' \in [Pollers -> SUBSET Rings] /\ ready' \in [Pollers -> BOOLEAN]
    BY <1>9 DEF PollSync, RxSync, TypeOK
  <2>2. /\ locked' \in [{Core} \cup Rings -> BOOLEAN]
        /\ tpc' \in [Pollers -> {"absent", "user", "core", "sync", "unlock", "end", "sleep",
                                 "receive"}]
    BY <1>9 DEF PollSync, Lock, TGoto, TypeOK
  <2> QED
    BY <1>9, <2>1, <2>2 DEF PollSync, TypeOK
<1>10. ASSUME NEW t \in Pollers, PollUnlock(t) PROVE TypeOK'
  <2>1. tring' \in [Pollers -> Rings]
    <3>1. /\ Least(PolledBy(t)) \in Rings
          /\ After(PolledBy(t), tring[t]) # {} => Least(After(PolledBy(t), tring[t])) \in Rings
      <4>1. PolledBy(t) \subseteq Rings /\ PolledBy(t) \subseteq Nat /\ tring[t] \in PolledBy(t)
        BY Sets DEF RingOK
      <4> QED
        BY <4>1, LeastRing, NextRing
    <3> QED
      BY <1>10, <3>1 DEF PollUnlock, TypeOK
  <2>2. /\ locked' \in [{Core} \cup Rings -> BOOLEAN]
        /\ tpc' \in [Pollers -> {"absent", "user", "core", "sync", "unlock", "end", "sleep",
                                 "receive"}]
    BY <1>10 DEF PollUnlock, Unlock, TGoto, TypeOK
  <2>3. queues' \in [Pollers -> SUBSET ({Core} \cup Rings)]
    BY <1>10 DEF PollUnlock, PollWait, TypeOK
  <2> QED
    BY <1>10, <2>1, <2>2, <2>3 DEF PollUnlock, TypeOK
<1>11. ASSUME NEW t \in Pollers, PollEnd(t) PROVE TypeOK'
  BY <1>11 DEF PollEnd, Unlock, TGoto, PollWait, TypeOK
<1>12. ASSUME NEW t \in Pollers, PollWoken(t) PROVE TypeOK'
  BY <1>12 DEF PollWoken, Start, TGoto, TypeOK
<1>13. ASSUME NEW t \in Pollers, Receive(t) PROVE TypeOK'
  BY <1>13 DEF Receive, TGoto, TypeOK
<1>14. CASE UNCHANGED vars
  BY <1>14 DEF vars, TypeOK
<1> QED
  BY <1>1, <1>2, <1>3, <1>4, <1>5, <1>6, <1>7, <1>8, <1>9, <1>10, <1>11, <1>12, <1>13, <1>14
  DEF Next, Napi, Poll

----------------------------------------------------------------------------
(* The NIC, the driver and the interrupt.                                   *)

\* what no poller does or holds is as before for the pollers
LEMMA EnvOthers ==
    ASSUME \A t \in Pollers : PollerOK(t), Here, UNCHANGED <<pvars, avail, missed, locked>>
    PROVE  /\ Here'
           /\ \A t \in Pollers : RingOK(t)' /\ LockOK(t)' /\ QueueOK(t)' /\ SeenOK(t)'
           /\ \A t \in Pollers : Scanned(t)' = Scanned(t)
<1>1. ASSUME NEW t \in Pollers PROVE Scanned(t)' = Scanned(t)
  BY DEF Scanned, pvars
<1>2. ASSUME NEW t \in Pollers PROVE RingOK(t)' /\ LockOK(t)' /\ QueueOK(t)'
  BY DEF PollerOK, RingOK, LockOK, QueueOK, pvars
<1>3. ASSUME NEW t \in Pollers PROVE SeenOK(t)'
  BY <1>1 DEF PollerOK, SeenOK, pvars
<1>4. Here'
  BY DEF Here, pvars
<1> QED
  BY <1>1, <1>2, <1>3, <1>4

\* a packet that arrives is announced
LEMMA ArriveStep == ASSUME IInv, NEW q \in Rings, Arrive(q) PROVE IInv'
<1>1. /\ UNCHANGED <<pvars, avail, missed, locked>> /\ UNCHANGED <<npc, nring, triggered>>
      /\ dd' = dd \cup {q} /\ eicr' = [eicr EXCEPT ![VectorOf(q)] = TRUE]
  BY DEF Arrive, nvars
<1>2. NapiOK'
  BY <1>1 DEF IInv, NapiOK
<1>3. ASSUME NEW t \in Pollers PROVE ComingOK(t)'
  <2>1. \A r \in Rings : Coming(t, r) => Coming(t, r)'
    BY <1>1 DEF Coming, IInv, TypeOK
  <2>2. Coming(t, q)'
    BY <1>1, VectorOfRing DEF Coming, IInv, TypeOK
  <2>3. Scanned(t)' = Scanned(t) /\ Scanned(t) \subseteq Rings
    BY <1>1, EnvOthers, ScannedRings, Sets DEF IInv
  <2> QED
    BY <1>1, <2>1, <2>2, <2>3 DEF ComingOK, IInv, PollerOK, pvars
<1> QED
  BY <1>1, <1>2, <1>3, EnvOthers, TypeStep DEF IInv, PollerOK, Next

LEMMA InterruptStep == ASSUME IInv, NEW v \in Vectors, Interrupt(v) PROVE IInv'
<1>1. /\ UNCHANGED <<pvars, avail, missed, locked>> /\ UNCHANGED <<dd, nring, triggered>>
      /\ eicr' = [eicr EXCEPT ![v] = FALSE] /\ npc' = [npc EXCEPT ![v] = "ring"]
      /\ npc[v] = "idle"
  BY DEF Interrupt
<1>2. NapiOK'
  BY <1>1 DEF IInv, NapiOK, TypeOK
<1>3. ASSUME NEW t \in Pollers PROVE ComingOK(t)'
  <2>1. ASSUME NEW r \in Rings, Coming(t, r) PROVE Coming(t, r)'
    <3>1. CASE VectorOf(r) = v
      <4>1. nring[v] <= r
        BY <1>1, <3>1, VectorOfRing, LeastRing DEF IInv, NapiOK
      <4> QED
        BY <1>1, <3>1, <4>1, VectorOfRing DEF Coming, IInv, TypeOK
    <3>2. CASE VectorOf(r) # v
      BY <1>1, <2>1, <3>2, VectorOfRing DEF Coming, IInv, TypeOK
    <3> QED
      BY <3>1, <3>2
  <2>2. Scanned(t)' = Scanned(t) /\ Scanned(t) \subseteq Rings
    BY <1>1, EnvOthers, ScannedRings, Sets DEF IInv
  <2> QED
    BY <1>1, <2>1, <2>2 DEF ComingOK, IInv, PollerOK, pvars
<1> QED
  BY <1>1, <1>2, <1>3, EnvOthers, TypeStep DEF IInv, PollerOK, Next

\* The wake-up of a ring finds its poller on the queue: while the poller has looked and is
\* not on it, it holds q_lock.
LEMMA IrqWakeRingStep == ASSUME IInv, NEW v \in Vectors, IrqWakeRing(v) PROVE IInv'
<1>1. /\ UNCHANGED <<pvars, avail, missed, locked>> /\ UNCHANGED <<dd, nring, eicr>>
      /\ npc' = [npc EXCEPT ![v] = "core"] /\ npc[v] = "ring" /\ ~locked[nring[v]]
      /\ triggered' = [t \in Pollers |-> triggered[t] \/ nring[v] \in queues[t]]
  BY DEF IrqWakeRing, Wake
<1>2. NapiOK'
  BY <1>1 DEF IInv, NapiOK, TypeOK
<1>3. ASSUME NEW t \in Pollers PROVE ComingOK(t)'
  <2>1. Scanned(t)' = Scanned(t) /\ Scanned(t) \subseteq PolledBy(t) /\ PolledBy(t) \subseteq Rings
    BY <1>1, EnvOthers, ScannedRings, Sets DEF IInv
  <2>2. ASSUME NEW r \in Scanned(t), Coming(t, r)
        PROVE  Coming(t, r)' \/ (tpc[t] = "sleep" /\ triggered'[t])
    <3>1. CASE CheckAll(t) \/ VectorOf(r) # v \/ eicr[VectorOf(r)]
      BY <1>1, <2>1, <2>2, <3>1, VectorOfRing DEF Coming, IInv, TypeOK
    <3>2. CASE ~CheckAll(t) /\ VectorOf(r) = v /\ ~eicr[v]
      <4>1. t \in Rings /\ r = t /\ nring[v] <= r /\ nring[v] \in Nat /\ r \in Nat
        BY <1>1, <2>1, <2>2, <3>2, Sets DEF Coming, IInv, TypeOK
      <4>2. CASE nring[v] = t
        <5>1. tring[t] = t
          BY <4>1, Sets DEF IInv, PollerOK, RingOK
        <5>2. tpc[t] = "sleep"
          <6>1. tpc[t] # "unlock"
            BY <1>1, <4>2, <5>1 DEF IInv, PollerOK, LockOK
          <6>2. tpc[t] # "sync"
            BY <2>2, <4>1, <5>1 DEF Scanned
          <6>3. tpc[t] # "end"
            BY <3>2 DEF IInv, PollerOK, RingOK
          <6> QED
            BY <2>2, <6>1, <6>2, <6>3 DEF Scanned
        <5>3. t \in queues[t]
          BY <5>2 DEF IInv, PollerOK, QueueOK
        <5> QED
          BY <1>1, <4>2, <5>2, <5>3
      <4>3. CASE nring[v] # t
        BY <1>1, <3>2, <4>1, <4>3 DEF Coming, IInv, TypeOK
      <4> QED
        BY <4>2, <4>3
    <3> QED
      BY <3>1, <3>2
  <2>3. tpc' = tpc /\ (triggered[t] => triggered'[t])
    BY <1>1 DEF pvars
  <2> QED
    BY <1>1, <2>1, <2>2, <2>3 DEF ComingOK, IInv, PollerOK
<1>4. Next
  BY DEF Next, Napi
<1> QED
  BY <1>1, <1>2, <1>3, <1>4, EnvOthers, TypeStep DEF IInv, PollerOK

\* So does that of the interface, which waits for core_lock; NAPI then takes the next ring.
LEMMA IrqWakeCoreStep == ASSUME IInv, NEW v \in Vectors, IrqWakeCore(v) PROVE IInv'
<1> DEFINE rest == After(RingsOf(v), nring[v])
<1>1. /\ UNCHANGED <<pvars, avail, missed, locked>> /\ UNCHANGED <<dd, eicr>>
      /\ npc' = [npc EXCEPT ![v] = IF rest = {} THEN "idle" ELSE "ring"]
      /\ nring' = [nring EXCEPT ![v] = Least(IF rest = {} THEN RingsOf(v) ELSE rest)]
      /\ npc[v] = "core" /\ ~locked[Core]
      /\ triggered' = [t \in Pollers |-> triggered[t] \/ Core \in queues[t]]
  BY DEF IrqWakeCore, Wake
<1>2. /\ RingsOf(v) \subseteq Nat /\ nring[v] \in RingsOf(v)
      /\ rest # {} => /\ Least(rest) \in RingsOf(v)
                      /\ \A x \in RingsOf(v) : x > nring[v] => Least(rest) <= x
      /\ rest = {} => \A x \in RingsOf(v) : ~(x > nring[v])
  <2>1. RingsOf(v) \subseteq Nat /\ nring[v] \in RingsOf(v)
    BY Sets, VectorOfRing DEF IInv, NapiOK
  <2> QED
    BY <2>1, NextRing DEF After
<1> HIDE DEF rest
<1>3. NapiOK'
  BY <1>1, <1>2, LeastRing DEF IInv, NapiOK, TypeOK
<1>4. ASSUME NEW t \in Pollers PROVE ComingOK(t)'
  <2>1. Scanned(t)' = Scanned(t) /\ Scanned(t) \subseteq PolledBy(t) /\ PolledBy(t) \subseteq Rings
    BY <1>1, EnvOthers, ScannedRings, Sets DEF IInv
  <2>2. ASSUME NEW r \in Scanned(t), Coming(t, r)
        PROVE  Coming(t, r)' \/ (tpc[t] = "sleep" /\ triggered'[t])
    <3>1. CASE VectorOf(r) # v \/ eicr[VectorOf(r)]
      BY <1>1, <2>1, <2>2, <3>1, VectorOfRing DEF Coming, IInv, TypeOK
    <3>2. CASE ~CheckAll(t) /\ VectorOf(r) = v /\ ~eicr[v]
      <4>1. nring[v] < r /\ r \in RingsOf(v) /\ r \in Nat /\ nring[v] \in Nat
        BY <1>1, <1>2, <2>1, <2>2, <3>2, VectorOfRing DEF Coming
      <4>2. rest # {} /\ Least(rest) <= r
        BY <1>2, <4>1
      <4> QED
        BY <1>1, <3>2, <4>2 DEF Coming, IInv, TypeOK
    <3>3. CASE CheckAll(t)
      <4>1. t = Core
        BY <3>3 DEF CheckAll
      <4>2. tpc[t] = "sleep"
        BY <1>1, <2>2, <3>3, <4>1 DEF Scanned, IInv, PollerOK, LockOK
      <4>3. t \in queues[t]
        BY <4>2 DEF IInv, PollerOK, QueueOK
      <4> QED
        BY <1>1, <4>1, <4>2, <4>3
    <3> QED
      BY <3>1, <3>2, <3>3
  <2>3. tpc' = tpc /\ (triggered[t] => triggered'[t])
    BY <1>1 DEF pvars
  <2> QED
    BY <1>1, <2>1, <2>2, <2>3 DEF ComingOK, IInv, PollerOK
<1>5. Next
  BY DEF Next, Napi
<1> QED
  BY <1>1, <1>3, <1>4, <1>5, EnvOthers, TypeStep DEF IInv, PollerOK

LEMMA OtherEnvStep == ASSUME IInv, CheckHang \/ Carrier PROVE IInv'
<1>1. /\ UNCHANGED <<pvars, avail, missed, locked>> /\ UNCHANGED <<dd, npc, nring, triggered>>
      /\ \A v \in Vectors : eicr[v] => eicr'[v]
  BY DEF CheckHang, Carrier, nvars
<1>2. NapiOK'
  BY <1>1 DEF IInv, NapiOK
<1>3. ASSUME NEW t \in Pollers PROVE ComingOK(t)'
  <2>1. \A r \in Rings : Coming(t, r) => Coming(t, r)'
    BY <1>1, VectorOfRing DEF Coming
  <2>2. Scanned(t)' = Scanned(t) /\ Scanned(t) \subseteq Rings
    BY <1>1, EnvOthers, ScannedRings, Sets DEF IInv
  <2> QED
    BY <1>1, <2>1, <2>2 DEF ComingOK, IInv, PollerOK, pvars
<1>4. Next
  BY DEF Next
<1> QED
  BY <1>1, <1>2, <1>3, <1>4, EnvOthers, TypeStep DEF IInv, PollerOK

----------------------------------------------------------------------------
(* The pollers.                                                             *)

\* a step of one poller leaves to the others what they rely on
LEMMA PollOthers ==
    ASSUME IInv, NEW t \in Pollers, Poll(t)
    PROVE  Here' /\ NapiOK' /\ \A s \in Pollers \ {t} : PollerOK(s)'
<1> USE DEF cvars, nvars, pvars
<1>a. TypeOK /\ Here /\ NapiOK /\ \A s \in Pollers : PollerOK(s)
  BY DEF IInv
<1>1. tpc[t] # "absent"
  BY <1>a DEF Poll, PollEnter, PollLockCore, PollSync, PollUnlock, PollEnd, PollWoken, Receive
<1>2. UNCHANGED <<eicr, npc, nring>> /\ dd' \subseteq dd
  BY DEF Poll, PollEnter, PollLockCore, PollSync, RxSync, PollUnlock, PollEnd, PollWoken, Receive
<1>3. \A x \in avail' : x \in avail \/ x = tring[t]
  BY DEF Poll, PollEnter, PollLockCore, PollSync, RxSync, PollUnlock, PollEnd, PollWoken, Receive
<1>4. ASSUME NEW s \in Pollers \ {t}
      PROVE  /\ tpc'[s] = tpc[s] /\ tring'[s] = tring[s] /\ ready'[s] = ready[s]
             /\ first'[s] = first[s] /\ queues'[s] = queues[s]
             /\ triggered'[s] = triggered[s] /\ missed'[s] = missed[s]
  <2>1. CASE PollEnter(t)
    BY <1>a, <2>1 DEF PollEnter, Start, TGoto, TypeOK
  <2>2. CASE PollLockCore(t)
    BY <1>a, <2>2 DEF PollLockCore, TGoto, TypeOK
  <2>3. CASE PollSync(t)
    BY <1>a, <2>3 DEF PollSync, RxSync, TGoto, TypeOK
  <2>4. CASE PollUnlock(t)
    BY <1>a, <2>4 DEF PollUnlock, PollWait, TGoto, TypeOK
  <2>5. CASE PollEnd(t)
    BY <1>a, <2>5 DEF PollEnd, PollWait, TGoto, TypeOK
  <2>6. CASE PollWoken(t)
    BY <1>a, <2>6 DEF PollWoken, Start, TGoto, TypeOK
  <2>7. CASE Receive(t)
    BY <1>a, <2>7 DEF Receive, TGoto, TypeOK
  <2> QED
    BY <2>1, <2>2, <2>3, <2>4, <2>5, <2>6, <2>7 DEF Poll
<1>5. ASSUME NEW l \in {Core} \cup Rings, locked[l], l # tring[t], l = Core => t # Core
      PROVE  locked'[l]
  <2>1. PollEnd(t) => t = Core
    BY <1>a DEF PollEnd, PollerOK, RingOK, CheckAll
  <2> QED
    BY <1>a, <1>5, <2>1 DEF Poll, PollEnter, PollLockCore, PollSync, PollUnlock, PollEnd,
       PollWoken, Receive, Lock, Unlock, TypeOK
<1>6. Here'
  BY <1>a, <1>1, <1>4, Sets DEF Here
<1>7. NapiOK'
  BY <1>a, <1>2 DEF NapiOK
<1>8. ASSUME NEW s \in Pollers \ {t} PROVE PollerOK(s)'
  <2>a. PollerOK(s)
    BY <1>a
  <2>b. /\ tpc'[s] = tpc[s] /\ tring'[s] = tring[s] /\ ready'[s] = ready[s]
        /\ first'[s] = first[s] /\ queues'[s] = queues[s]
        /\ triggered'[s] = triggered[s] /\ missed'[s] = missed[s]
    BY <1>4
  <2>c. Scanned(s)' = Scanned(s)
    BY <2>b DEF Scanned
  <2>d. \A r : Coming(s, r)' = Coming(s, r)
    BY <1>2 DEF Coming
  <2>1. RingOK(s)' /\ QueueOK(s)'
    BY <2>a, <2>b DEF PollerOK, RingOK, QueueOK
  <2>2. ComingOK(s)'
    BY <1>2, <2>a, <2>b, <2>c, <2>d DEF PollerOK, ComingOK
  <2>3. CASE tpc[s] = "absent"
    BY <2>1, <2>2, <2>3, <2>b, <2>c DEF PollerOK, LockOK, SeenOK, Scanned
  <2>4. CASE tpc[s] # "absent"
    <3>1. s \in Rings /\ t \in Rings /\ tring[t] = t /\ tring[s] = s /\ Scanned(s) \subseteq {s}
      <4>1. s \in Rings /\ t \in Rings
        BY <1>a, <1>1, <2>4, Sets DEF Here
      <4> QED
        BY <1>a, <4>1, Sets, ScannedRings DEF PollerOK, RingOK
    <3>2. LockOK(s)'
      BY <1>5, <2>a, <2>b, <3>1, Sets DEF PollerOK, LockOK
    <3>3. SeenOK(s)'
      BY <1>3, <2>a, <2>b, <2>c, <3>1 DEF PollerOK, SeenOK
    <3> QED
      BY <2>1, <2>2, <3>2, <3>3 DEF PollerOK
  <2> QED
    BY <2>3, <2>4
<1> QED
  BY <1>6, <1>7, <1>8

\* a call that has not looked at a ring yet relies on nothing
LEMMA Unseen ==
    ASSUME NEW t \in Pollers, tpc'[t] \notin {"unlock", "end", "sleep"},
           tpc'[t] = "sync" => tring'[t] = Least(PolledBy(t))
    PROVE  Scanned(t)' = {}
<1>1. \A r \in PolledBy(t) : Least(PolledBy(t)) <= r /\ Least(PolledBy(t)) \in Nat /\ r \in Nat
  BY LeastRing, Sets
<1>2. \A r \in PolledBy(t) : ~(r < Least(PolledBy(t)))
  BY <1>1
<1> QED
  BY <1>2 DEF Scanned

LEMMA Fresh ==
    ASSUME NEW t \in Pollers, RingOK(t)', LockOK(t)', QueueOK(t)', Scanned(t)' = {},
           tpc'[t] # "sleep"
    PROVE  PollerOK(t)'
  BY DEF PollerOK, SeenOK, ComingOK

LEMMA PollStep == ASSUME IInv, NEW t \in Pollers, Poll(t) PROVE IInv'
<1> SUFFICES PollerOK(t)'
  <2>1. TypeOK'
    BY TypeStep DEF IInv, PollerOK, Next
  <2> QED
    BY <2>1, PollOthers DEF IInv
<1> USE DEF cvars, nvars, pvars
<1>a. TypeOK /\ RingOK(t) /\ LockOK(t) /\ QueueOK(t) /\ SeenOK(t) /\ ComingOK(t)
  BY DEF IInv, PollerOK
<1>b. tring[t] \in Rings /\ tring[t] # Core
  BY <1>a, Sets DEF RingOK
<1>c. CheckAll(t) <=> t = Core
  BY DEF CheckAll
<1>1. CASE PollEnter(t)
  <2>1. /\ tpc'[t] = (IF Look(t) THEN "receive" ELSE IF CheckAll(t) THEN "core" ELSE "sync")
        /\ tpc[t] = "user" /\ UNCHANGED <<tring, first, queues, ready, missed, locked>>
    BY <1>a, <1>1 DEF PollEnter, Start, TGoto, TypeOK
  <2>2. Scanned(t)' = {}
    BY <1>a, <2>1, Unseen DEF RingOK
  <2>3. RingOK(t)' /\ LockOK(t)'
    BY <1>a, <1>c, <2>1 DEF RingOK, LockOK
  <2>4. QueueOK(t)'
    BY <1>a, <2>1 DEF QueueOK
  <2> QED
    BY <2>1, <2>2, <2>3, <2>4, Fresh
<1>2. CASE PollLockCore(t)
  <2>1. /\ tpc'[t] = "sync" /\ tpc[t] = "core" /\ locked'[Core]
        /\ UNCHANGED <<tring, first, queues, ready, missed>>
    BY <1>a, <1>2 DEF PollLockCore, Lock, TGoto, TypeOK
  <2>2. Scanned(t)' = {}
    BY <1>a, <2>1, Unseen DEF RingOK
  <2>3. RingOK(t)' /\ LockOK(t)'
    BY <1>a, <1>c, <2>1 DEF RingOK, LockOK
  <2>4. QueueOK(t)'
    BY <1>a, <2>1 DEF QueueOK
  <2> QED
    BY <2>1, <2>2, <2>3, <2>4, Fresh
<1>3. CASE PollSync(t)
  <2>1. /\ tpc'[t] = "unlock" /\ tpc[t] = "sync" /\ locked'[tring[t]]
        /\ locked[Core] => locked'[Core]
        /\ UNCHANGED <<tring, first, queues, triggered, eicr, npc, nring>>
        /\ ready[t] \/ tring[t] \in avail' => ready'[t]
    BY <1>a, <1>3 DEF PollSync, Lock, TGoto, TypeOK
  <2>2. /\ avail' \subseteq avail \cup {tring[t]} /\ dd' \subseteq dd
        /\ tring[t] \in dd' => tring[t] \in missed'[t]
        /\ missed[t] \subseteq missed'[t] \cup {tring[t]}
    BY <1>a, <1>3 DEF PollSync, RxSync, TypeOK
  <2>3. Scanned(t)' \subseteq Scanned(t) \cup {tring[t]}
    BY <1>a, <1>b, <2>1, Sets DEF Scanned
  <2>4. RingOK(t)' /\ LockOK(t)' /\ QueueOK(t)'
    BY <1>a, <2>1 DEF RingOK, LockOK, QueueOK
  <2>5. SeenOK(t)'
    BY <1>a, <2>1, <2>2, <2>3 DEF SeenOK
  <2>6. ComingOK(t)'
    <3>1. \A r : Coming(t, r) => Coming(t, r)'
      BY <2>1 DEF Coming
    <3> QED
      BY <1>a, <2>1, <2>2, <2>3, <3>1 DEF ComingOK
  <2> QED
    BY <2>4, <2>5, <2>6 DEF PollerOK
<1>4. CASE PollUnlock(t)
  <2> DEFINE rest == After(PolledBy(t), tring[t])
  <2>1. /\ tpc'[t] = (IF rest # {} THEN "sync" ELSE IF CheckAll(t) THEN "end"
                      ELSE IF ready[t] THEN "receive" ELSE "sleep")
        /\ tring'[t] = Least(IF rest = {} THEN PolledBy(t) ELSE rest)
        /\ tpc[t] = "unlock"
        /\ locked[Core] => locked'[Core]
        /\ UNCHANGED <<dd, avail, missed, first, ready, triggered, eicr, npc, nring>>
        /\ queues[t] \subseteq queues'[t]
        /\ ~CheckAll(t) /\ ~ready[t] /\ first[t] => tring[t] \in queues'[t]
    BY <1>a, <1>b, <1>4 DEF PollUnlock, Unlock, PollWait, TGoto, TypeOK
  <2>2. /\ PolledBy(t) \subseteq Nat /\ tring[t] \in PolledBy(t)
        /\ rest # {} => /\ Least(rest) \in PolledBy(t)
                        /\ \A x \in PolledBy(t) : x > tring[t] => Least(rest) <= x
        /\ rest = {} => \A x \in PolledBy(t) : ~(x > tring[t])
    <3>1. PolledBy(t) \subseteq Nat /\ tring[t] \in PolledBy(t)
      BY <1>a, Sets DEF RingOK
    <3> QED
      BY <3>1, NextRing DEF After
  <2>3. ~CheckAll(t) => tring[t] = t /\ rest = {}
    <3>1. ~CheckAll(t) => PolledBy(t) = {t}
      BY DEF PolledBy
    <3> QED
      BY <2>2, <3>1 DEF After
  <2> HIDE DEF rest
  <2>4. Scanned(t)' \subseteq Scanned(t)
    <3>1. Scanned(t) = {r \in PolledBy(t) : r <= tring[t]}
      BY <2>1 DEF Scanned
    <3>2. CASE rest # {}
      <4>1. Scanned(t)' = {r \in PolledBy(t) : r < Least(rest)}
        BY <2>1, <3>2 DEF Scanned
      <4>2. ASSUME NEW r \in PolledBy(t), r < Least(rest) PROVE r <= tring[t]
        BY <2>2, <3>2, <4>2
      <4> QED
        BY <3>1, <4>1, <4>2
    <3>3. CASE rest = {}
      <4>1. Scanned(t) = PolledBy(t)
        BY <2>2, <3>1, <3>3
      <4> QED
        BY <2>1, <3>3, <4>1 DEF Scanned
    <3> QED
      BY <3>2, <3>3
  <2>5. RingOK(t)'
    BY <2>1, <2>2, LeastRing DEF RingOK
  <2>6. LockOK(t)'
    BY <1>a, <1>4, <2>1 DEF LockOK
  <2>7. QueueOK(t)'
    BY <1>a, <2>1, <2>3 DEF QueueOK
  <2>8. SeenOK(t)'
    BY <1>a, <2>1, <2>4 DEF SeenOK
  <2>9. ComingOK(t)'
    <3>1. \A r : Coming(t, r) => Coming(t, r)'
      BY <2>1 DEF Coming
    <3> QED
      BY <1>a, <2>1, <2>4, <3>1 DEF ComingOK
  <2> QED
    BY <2>5, <2>6, <2>7, <2>8, <2>9 DEF PollerOK
<1>5. CASE PollEnd(t)
  <2>1. /\ tpc'[t] = (IF ready[t] THEN "receive" ELSE "sleep") /\ tpc[t] = "end"
        /\ UNCHANGED <<dd, avail, missed, tring, first, ready, triggered, eicr, npc, nring>>
        /\ queues[t] \subseteq queues'[t]
        /\ ~ready[t] /\ first[t] => Core \in queues'[t]
    BY <1>a, <1>5 DEF PollEnd, PollWait, TGoto, TypeOK
  <2>2. t = Core
    BY <1>a, <1>c, <2>1 DEF RingOK
  <2>3. Scanned(t)' \subseteq Scanned(t)
    BY <2>1 DEF Scanned
  <2>4. \A r : Coming(t, r) => Coming(t, r)'
    BY <2>1 DEF Coming
  <2>5. RingOK(t)' /\ LockOK(t)'
    BY <1>a, <1>c, <2>1 DEF RingOK, LockOK
  <2>6. QueueOK(t)'
    BY <1>a, <2>1, <2>2 DEF QueueOK
  <2>7. SeenOK(t)'
    BY <1>a, <2>1, <2>3 DEF SeenOK
  <2>8. ComingOK(t)'
    BY <1>a, <2>1, <2>3, <2>4 DEF ComingOK
  <2> QED
    BY <2>5, <2>6, <2>7, <2>8 DEF PollerOK
<1>6. CASE PollWoken(t)
  <2>1. /\ tpc'[t] = (IF Look(t) THEN "receive" ELSE IF CheckAll(t) THEN "core" ELSE "sync")
        /\ tpc[t] = "sleep" /\ UNCHANGED <<tring, queues, ready, missed, locked>>
    BY <1>a, <1>6 DEF PollWoken, Start, TGoto, TypeOK
  <2>2. Scanned(t)' = {}
    BY <1>a, <2>1, Unseen DEF RingOK
  <2>3. RingOK(t)' /\ LockOK(t)'
    BY <1>a, <1>c, <2>1 DEF RingOK, LockOK
  <2>4. QueueOK(t)'
    BY <1>a, <2>1 DEF QueueOK
  <2> QED
    BY <2>1, <2>2, <2>3, <2>4, Fresh
<1>7. CASE Receive(t)
  <2>1. tpc'[t] = "user" /\ tpc[t] = "receive" /\ UNCHANGED tring /\ first'[t]
    BY <1>a, <1>7 DEF Receive, TGoto, TypeOK
  <2>2. Scanned(t)' = {}
    BY <2>1, Unseen
  <2>3. RingOK(t)' /\ LockOK(t)'
    BY <1>a, <1>c, <2>1 DEF RingOK, LockOK
  <2>4. QueueOK(t)'
    BY <1>a, <2>1 DEF QueueOK
  <2> QED
    BY <2>1, <2>2, <2>3, <2>4, Fresh
<1> QED
  BY <1>1, <1>2, <1>3, <1>4, <1>5, <1>6, <1>7 DEF Poll

----------------------------------------------------------------------------
LEMMA InitInv == Init => IInv
<1> SUFFICES ASSUME Init PROVE IInv
  OBVIOUS
<1>1. /\ \A v \in Vectors : Least(RingsOf(v)) \in RingsOf(v) /\ Least(RingsOf(v)) \in Rings
      /\ \A t \in Pollers : Least(PolledBy(t)) \in PolledBy(t) /\ Least(PolledBy(t)) \in Rings
  BY LeastRing, VectorOfRing, Sets
<1>2. PICK here \in {{Core}, Rings} :
          tpc = [t \in Pollers |-> IF t \in here THEN "user" ELSE "absent"]
  BY DEF Init
<1>3. TypeOK
  BY <1>1, <1>2, PollWakeAssumption DEF Init, TypeOK
<1>4. Here
  BY <1>2, Sets DEF Here
<1>5. NapiOK
  BY <1>1 DEF Init, NapiOK
<1>6. ASSUME NEW t \in Pollers PROVE PollerOK(t)
  <2>1. tpc[t] \in {"user", "absent"} /\ tring[t] = Least(PolledBy(t)) /\ first[t]
    BY <1>2 DEF Init
  <2>2. Scanned(t) = {}
    BY <2>1 DEF Scanned
  <2> QED
    BY <1>1, <2>1, <2>2 DEF PollerOK, RingOK, LockOK, QueueOK, SeenOK, ComingOK
<1> QED
  BY <1>3, <1>4, <1>5, <1>6 DEF IInv

LEMMA StutterInv == IInv /\ UNCHANGED vars => IInv'
<1> SUFFICES ASSUME IInv, UNCHANGED vars PROVE IInv'
  OBVIOUS
<1> USE DEF vars, cvars, nvars, pvars
<1>1. Here' /\ NapiOK' /\ TypeOK'
  BY DEF IInv, Here, NapiOK, TypeOK
<1>2. ASSUME NEW t \in Pollers PROVE PollerOK(t)'
  BY DEF IInv, PollerOK, RingOK, LockOK, QueueOK, SeenOK, ComingOK, Coming, Scanned
<1> QED
  BY <1>1, <1>2 DEF IInv

\* Where each poller is says which locks it holds, on which queue it is, and what it will
\* be told of; this holds always.
THEOREM Inductive == Spec => []IInv
<1>1. IInv /\ [Next]_vars => IInv'
  BY ArriveStep, InterruptStep, IrqWakeRingStep, IrqWakeCoreStep, OtherEnvStep, PollStep,
     StutterInv DEF Next, Napi
<1> QED
  BY InitInv, <1>1, PTL DEF Spec

\* The variables keep their types: NAPI and the pollers stay inside the rings they serve.
THEOREM Typing == Spec => []TypeOK
  BY Inductive, PTL DEF IInv

\* No process sleeps in poll while a packet of one of its rings is neither left for want of
\* a carrier nor still to be announced to it.
THEOREM WakeUps == Spec => []NoLostWakeup
<1>1. ASSUME IInv PROVE NoLostWakeup
  <2> SUFFICES ASSUME NEW t \in Pollers, tpc[t] = "sleep", ~triggered[t],
                      NEW r \in PolledBy(t) \ missed[t], r \in dd \cup avail
               PROVE  Coming(t, r)
    BY DEF NoLostWakeup
  <2>1. SeenOK(t) /\ ComingOK(t) /\ Scanned(t) = PolledBy(t)
    BY <1>1 DEF IInv, PollerOK, Scanned
  <2> QED
    BY <2>1 DEF SeenOK, ComingOK
<1> QED
  BY <1>1, Inductive, PTL

=============================================================================
