---------------------------- MODULE DpaReg_proofs ----------------------------
(***************************************************************************)
(* Proofs about DpaReg.  The invariant has two layers.  CInv, about calls, *)
(* private data and the count of registrations, is inductive for every     *)
(* interleaving.  IInv adds the interface and the pool, and is inductive   *)
(* only if nobody registers while a registration that failed is taken back *)
(* (DpaRegRace shows what happens otherwise).                              *)
(***************************************************************************)
EXTENDS DpaReg, FiniteSetTheorems, WellFoundedInduction, TLAPS

Labels == {"idle", "reg", "regnic", "regset", "unreg", "sleep", "delete", "free", "clear",
           "poll", "sync"}
Calls == {"none", "reg", "unreg", "use"}

\* the parts of TypeOK: of the threads, of the registrations, and of the pool
ThreadTypes ==
    /\ pc \in [Threads -> Labels] /\ file \in [Threads -> Files \cup {None}]
    /\ priv \in [Threads -> Privs \cup {0}]
    /\ left \in [Threads -> 0 .. Tries] /\ why \in [Threads -> Calls]
RegTypes ==
    /\ up \in BOOLEAN /\ enabled \in BOOLEAN /\ promisc \in 0 .. Word - 1 /\ refs \in 0 .. NumRings
    /\ lock \in Threads \cup {None}
    /\ privs \subseteq Privs /\ private \in [Files -> Privs \cup {0}]
PoolTypes ==
    /\ ring \in Objs \cup {0}
    /\ inuse \subseteq Objs /\ others \subseteq inuse /\ objFree \in 0 .. NumObjs

\* threads that have counted a registration and not stored it, that are to take one back,
\* and that delete the rings
Making == {t \in Threads : At(t, "regnic") \/ At(t, "regset")}
Leavers == {t \in Threads : At(t, "unreg")}
Deleters == {t \in Threads : At(t, "sleep") \/ At(t, "delete")}

\* files whose private_data points to memory that is allocated
Live == {f \in Files : private[f] # 0 /\ \A t \in Threads : ~(file[t] = f /\ At(t, "clear"))}

\* where a call is tells which call it is, and who holds reg_lock; one call uses a file
CallOK ==
    \A t \in Threads :
        /\ file[t] = None <=> At(t, "idle")
        /\ \A s \in Threads : file[s] = file[t] => s = t \/ file[t] = None
        /\ At(t, "idle") => why[t] = "none"
        /\ pc[t] \in {"reg", "regnic", "regset"} => why[t] = "reg"
        /\ pc[t] \in {"unreg", "free", "clear"} => why[t] = "unreg"
        /\ pc[t] \in {"sleep", "delete"} => why[t] \in {"reg", "unreg"}
        /\ pc[t] \in {"poll", "sync"} => why[t] = "use"
        /\ lock = t <=> pc[t] \in {"regnic", "delete"}
        /\ At(t, "reg") => left[t] > 0

\* a dpa_priv is of one file, or of one call that registers one
PrivOK ==
    /\ \A t \in Threads :
          /\ why[t] = "reg" => private[file[t]] = 0 /\ priv[t] \in privs
          /\ why[t] \in {"unreg", "use"} => private[file[t]] # 0 /\ priv[t] = private[file[t]]
    /\ \A f \in Live : private[f] \in privs
    /\ \A f, g \in Live : private[f] = private[g] => f = g
    /\ \A s, t \in Threads : why[s] = "reg" /\ why[t] = "reg" /\ priv[s] = priv[t] => s = t
    /\ \A f \in Live, t \in Threads : why[t] = "reg" => priv[t] # private[f]
    /\ privs \subseteq {private[f] : f \in Live} \cup
                       {priv[t] : t \in {s \in Threads : why[s] = "reg"}}

CountOK == refs = Cardinality(Registered) + Cardinality(Leavers) + Cardinality(Making)

\* what holds also when somebody registers while a registration that failed is taken back
CInv == ThreadTypes /\ RegTypes /\ CallOK /\ PrivOK /\ CountOK

\* the interface is captured while it is registered, and between two registrations one
\* thread deletes its rings
IfOK ==
    /\ \A s, t \in Deleters : s = t
    /\ Deleters # {} => refs = 0
    /\ \A t \in Threads : At(t, "sleep") /\ why[t] = "unreg" => enabled
    /\ \A t \in Threads : At(t, "delete") => ~enabled
    /\ enabled /\ refs = 0 => Deleters # {}
    /\ refs > 0 /\ ~enabled => refs = 1 /\ \E t \in Threads : At(t, "regnic")

\* the rings are taken from the pool in between, and from nobody else
PoolOK ==
    /\ PoolExact
    /\ IF refs > 0 \/ Deleters # {} THEN RingsOwned /\ inuse = others \cup {ring}
                                    ELSE inuse = others

IInv == CInv /\ PoolTypes /\ IfOK /\ PoolOK

LEMMA LeastOf ==
    ASSUME NEW S, S \subseteq Nat, S # {}
    PROVE  Least(S) \in S
<1>1. \E x \in S : \A y \in S : <<y, x>> \notin OpToRel(<, Nat)
  BY NatLessThanWellFounded, WFMin
<1>2. \E x \in S : \A y \in S : ~(y < x)
  BY <1>1 DEF OpToRel
<1>3. \E x \in S : \A y \in S : x <= y
  BY <1>2
<1> QED
  BY <1>3 DEF Least

LEMMA Parts == /\ TypeOK <=> ThreadTypes /\ RegTypes /\ PoolTypes
               /\ TypeOK' <=> ThreadTypes' /\ RegTypes' /\ PoolTypes'
<1>1. TypeOK <=> ThreadTypes /\ RegTypes /\ PoolTypes
  BY DEF TypeOK, ThreadTypes, RegTypes, PoolTypes, Labels, Calls
<1>2. TypeOK' <=> ThreadTypes' /\ RegTypes' /\ PoolTypes'
  BY DEF TypeOK, ThreadTypes, RegTypes, PoolTypes, Labels, Calls
<1> QED
  BY <1>1, <1>2

LEMMA GotoTypes ==
    ASSUME ThreadTypes, NEW t \in Threads, NEW label \in Labels, Goto(t, label)
    PROVE  ThreadTypes'
BY DEF ThreadTypes, Goto

LEMMA ReturnTypes ==
    ASSUME ThreadTypes, NEW t \in Threads, Return(t)
    PROVE  ThreadTypes'
<1>1. "idle" \in Labels /\ "none" \in Calls
  BY DEF Labels, Calls
<1>2. 0 \in 0 .. Tries
  BY DpaRegAssumption
<1> QED
  BY <1>1, <1>2 DEF ThreadTypes, Return

LEMMA CallTypes ==
    ASSUME ThreadTypes, NEW t \in Threads, NEW f \in Files, NEW p \in Privs \cup {0},
           NEW call \in Calls, NEW label \in Labels, Call(t, f, p, call, label)
    PROVE  ThreadTypes'
<1>1. 0 \in 0 .. Tries /\ Tries \in 0 .. Tries
  BY DpaRegAssumption
<1> QED
  BY <1>1 DEF ThreadTypes, Call

----------------------------------------------------------------------------
(* What is taken from a pool is free: the smallest member of a set that is *)
(* not empty.                                                              *)

LEMMA ImageOf ==
    ASSUME NEW S, IsFiniteSet(S), NEW g
    PROVE  /\ IsFiniteSet({g[x] : x \in S})
           /\ Cardinality({g[x] : x \in S}) <= Cardinality(S)
<1> DEFINE T == {g[x] : x \in S}
           h == [x \in S |-> g[x]]
<1>1. h \in Surjection(S, T)
  BY DEF Surjection
<1> HIDE DEF h, T
<1>2. IsFiniteSet(T) /\ Cardinality(T) <= Cardinality(S)
  BY <1>1, FS_Surjection
<1> QED
  BY <1>2 DEF T

Registering == {t \in Threads : why[t] = "reg"}

\* A thread that is in no call finds a free number for a dpa_priv: every number in use
\* belongs to a file, or to a call of another thread.
LEMMA FreshPriv ==
    ASSUME CInv, NEW t \in Threads, At(t, "idle")
    PROVE  Least(Privs \ privs) \in Privs \ privs
<1> DEFINE A == {private[f] : f \in Live}
           B == {priv[s] : s \in Registering}
<1>1. privs \subseteq A \cup B
  BY DEF CInv, PrivOK, Registering
<1>2. Registering \subseteq Threads \ {t}
  BY DEF CInv, CallOK, Registering, At
<1>3. /\ IsFiniteSet(Threads) /\ IsFiniteSet(Files)
      /\ Cardinality(Threads) \in Nat /\ Cardinality(Files) \in Nat
  BY DpaRegAssumption, FS_CardinalityType
<1>4. IsFiniteSet(Live) /\ Cardinality(Live) \in Nat /\ Cardinality(Live) <= Cardinality(Files)
  BY <1>3, FS_Subset, FS_CardinalityType, Live \in SUBSET Files DEF Live
<1>5. IsFiniteSet(Threads \ {t}) /\ Cardinality(Threads \ {t}) = Cardinality(Threads) - 1
  BY <1>3, FS_RemoveElement
<1>6. /\ IsFiniteSet(Registering) /\ Cardinality(Registering) \in Nat
      /\ Cardinality(Registering) <= Cardinality(Threads) - 1
  BY <1>2, <1>5, FS_Subset, FS_CardinalityType
<1>7. IsFiniteSet(A) /\ Cardinality(A) <= Cardinality(Live) /\ Cardinality(A) \in Nat
  BY <1>4, ImageOf, FS_CardinalityType
<1>8. IsFiniteSet(B) /\ Cardinality(B) <= Cardinality(Registering) /\ Cardinality(B) \in Nat
  BY <1>6, ImageOf, FS_CardinalityType
<1> HIDE DEF A, B
<1>9. /\ IsFiniteSet(A \cup B) /\ Cardinality(A \cup B) \in Nat
      /\ Cardinality(A \cup B) <= Cardinality(A) + Cardinality(B)
  <2>1. /\ IsFiniteSet(A \cup B) /\ IsFiniteSet(A \cap B)
        /\ Cardinality(A \cup B) = Cardinality(A) + Cardinality(B) - Cardinality(A \cap B)
    BY <1>7, <1>8, FS_Union, FS_Intersection
  <2>2. Cardinality(A \cup B) \in Nat /\ Cardinality(A \cap B) \in Nat
    BY <2>1, FS_CardinalityType
  <2> QED
    BY <1>7, <1>8, <2>1, <2>2
<1>10. IsFiniteSet(privs) /\ Cardinality(privs) \in Nat
       /\ Cardinality(privs) <= Cardinality(A \cup B)
  BY <1>1, <1>9, FS_Subset, FS_CardinalityType
<1>11. Cardinality(Privs) = Cardinality(Threads) + Cardinality(Files)
  BY <1>3, FS_Interval DEF Privs
<1>12. Privs \ privs # {}
  <2>1. SUFFICES ASSUME Privs \subseteq privs PROVE FALSE
    OBVIOUS
  <2>2. Cardinality(Privs) <= Cardinality(privs)
    BY <1>10, <2>1, FS_Subset
  <2> QED
    BY <2>2, <1>3, <1>4, <1>6, <1>7, <1>8, <1>9, <1>10, <1>11
<1>13. Privs \ privs \subseteq Nat
  BY <1>3 DEF Privs
<1> QED
  BY <1>12, <1>13, LeastOf

\* The pool's counter is positive only if there is something to take.
LEMMA FreshObj ==
    ASSUME TypeOK, PoolExact, objFree > 0
    PROVE  Least(Objs \ inuse) \in Objs \ inuse
<1>1. inuse \subseteq Objs /\ objFree \in Nat /\ NumObjs \in Nat
  BY DpaRegAssumption DEF TypeOK
<1>2. IsFiniteSet(Objs) /\ Cardinality(Objs) = NumObjs
  BY <1>1, FS_Interval DEF Objs
<1>3. IsFiniteSet(inuse) /\ Cardinality(inuse) \in Nat
  BY <1>1, <1>2, FS_Subset, FS_CardinalityType
<1>4. Cardinality(inuse) < NumObjs
  BY <1>1, <1>3 DEF PoolExact
<1>5. Objs \ inuse # {}
  BY <1>1, <1>2, <1>4
<1>6. Objs \ inuse \subseteq Nat
  BY <1>1 DEF Objs
<1> QED
  BY <1>5, <1>6, LeastOf

----------------------------------------------------------------------------
(* The counters do not go below zero or beyond their bounds.               *)

LEMMA FiniteThreads ==
    ASSUME NEW S \in SUBSET Threads
    PROVE  IsFiniteSet(S) /\ Cardinality(S) \in Nat
BY DpaRegAssumption, FS_Subset, FS_CardinalityType

LEMMA FiniteFiles ==
    ASSUME NEW S \in SUBSET Files
    PROVE  IsFiniteSet(S) /\ Cardinality(S) \in Nat
BY DpaRegAssumption, FS_Subset, FS_CardinalityType

LEMMA Finite ==
    /\ IsFiniteSet(Registered) /\ Cardinality(Registered) \in Nat
    /\ IsFiniteSet(Leavers) /\ Cardinality(Leavers) \in Nat
    /\ IsFiniteSet(Making) /\ Cardinality(Making) \in Nat
<1>1. Registered \in SUBSET Files
  BY DEF Registered
<1>2. Leavers \in SUBSET Threads /\ Making \in SUBSET Threads
  BY DEF Leavers, Making
<1> QED
  BY <1>1, <1>2, FiniteThreads, FiniteFiles

\* Who has counted a registration finds it counted.
LEMMA RefsPositive ==
    ASSUME CInv,
           Registered # {} \/ \E t \in Threads : pc[t] \in {"regnic", "regset", "unreg"}
    PROVE  refs > 0
<1>1. Registered # {} \/ Leavers # {} \/ Making # {}
  BY DEF Leavers, Making, At
<1>2. \/ Cardinality(Registered) > 0 \/ Cardinality(Leavers) > 0 \/ Cardinality(Making) > 0
  BY <1>1, Finite, FS_EmptySet
<1>3. refs = Cardinality(Registered) + Cardinality(Leavers) + Cardinality(Making)
  BY DEF CInv, CountOK
<1> QED
  BY <1>2, <1>3, Finite

LEMMA PoolPositive ==
    ASSUME TypeOK, PoolExact, inuse # {}
    PROVE  objFree + 1 \in 0 .. NumObjs
<1>1. inuse \subseteq Objs /\ objFree \in Nat /\ NumObjs \in Nat
  BY DpaRegAssumption DEF TypeOK
<1>2. IsFiniteSet(Objs)
  BY <1>1, FS_Interval DEF Objs
<1>2a. IsFiniteSet(inuse) /\ Cardinality(inuse) \in Nat
  BY <1>1, <1>2, FS_Subset, FS_CardinalityType
<1>3. Cardinality(inuse) > 0
  BY <1>2a, FS_EmptySet
<1> QED
  BY <1>1, <1>2a, <1>3 DEF PoolExact

LEMMA PromiscTypes ==
    ASSUME promisc \in 0 .. Word - 1
    PROVE  /\ ~PromiscFails => promisc + 1 \in 0 .. Word - 1
           /\ (promisc - 1) % Word \in 0 .. Word - 1
<1>1. Word \in Nat /\ Word > 1
  BY DpaRegAssumption
<1>2. Word % Word = 0
  BY <1>1
<1>3. (promisc - 1) % Word \in 0 .. Word - 1
  BY <1>1
<1>4. ASSUME ~PromiscFails PROVE promisc + 1 # Word
  BY <1>2, <1>4 DEF PromiscFails
<1> QED
  BY <1>1, <1>3, <1>4

----------------------------------------------------------------------------
(* Every step keeps CInv.                                                  *)

LEMMA ThreadTypeStep ==
    ASSUME CInv, [Next]_vars
    PROVE  ThreadTypes'
<1> USE DEF nvars, pvars, tvars
<1>a. ThreadTypes /\ RegTypes /\ CallOK /\ PrivOK /\ CountOK
  BY DEF CInv
<1>1. ASSUME NEW t \in Threads, RegEnter(t) PROVE ThreadTypes'
  <2>1. PICK f \in Files : Call(t, f, Least(Privs \ privs), "reg", "reg")
    BY <1>1 DEF RegEnter
  <2>2. Least(Privs \ privs) \in Privs
    BY <2>1, FreshPriv DEF Call
  <2> QED
    BY <1>a, <2>1, <2>2, CallTypes DEF Calls, Labels
<1>2. ASSUME NEW t \in Threads, UnregEnter(t) PROVE ThreadTypes'
  <2>1. PICK f \in Files : private[f] # 0 /\ Call(t, f, private[f], "unreg", "unreg")
    BY <1>2 DEF UnregEnter
  <2>2. private[f] \in Privs \cup {0}
    BY <1>a DEF RegTypes
  <2> QED
    BY <1>a, <2>1, <2>2, CallTypes DEF Calls, Labels
<1>3. ASSUME NEW t \in Threads, PollEnter(t) PROVE ThreadTypes'
  <2>1. PICK f \in Files : private[f] # 0 /\ Call(t, f, private[f], "use", "poll")
    BY <1>3 DEF PollEnter
  <2>2. private[f] \in Privs \cup {0}
    BY <1>a DEF RegTypes
  <2> QED
    BY <1>a, <2>1, <2>2, CallTypes DEF Calls, Labels
<1>4. ASSUME NEW t \in Threads, RxSyncEnter(t) PROVE ThreadTypes'
  <2>1. PICK f \in Files : private[f] # 0 /\ Call(t, f, private[f], "use", "sync")
    BY <1>4 DEF RxSyncEnter
  <2>2. private[f] \in Privs \cup {0}
    BY <1>a DEF RegTypes
  <2> QED
    BY <1>a, <2>1, <2>2, CallTypes DEF Calls, Labels
<1>5. ASSUME NEW t \in Threads, RegWait(t) PROVE ThreadTypes'
  <2>1. left[t] - 1 \in 0 .. Tries
    BY <1>a, <1>5, DpaRegAssumption DEF RegWait, ThreadTypes
  <2> QED
    BY <1>a, <1>5, <2>1 DEF RegWait, ThreadTypes
<1>6. ASSUME NEW t \in Threads, RegBusy(t) PROVE ThreadTypes'
  BY <1>a, <1>6, ReturnTypes DEF RegBusy, RegGiveUp
<1>7. ASSUME NEW t \in Threads, RegFull(t) PROVE ThreadTypes'
  BY <1>a, <1>7, ReturnTypes DEF RegFull, RegGiveUp
<1>8. ASSUME NEW t \in Threads, RegNoMem(t) PROVE ThreadTypes'
  BY <1>a, <1>8, ReturnTypes DEF RegNoMem, RegGiveUp
<1>9. ASSUME NEW t \in Threads, RegNewIf(t) PROVE ThreadTypes'
  BY <1>a, <1>9, GotoTypes DEF Labels, RegNewIf
<1>10. ASSUME NEW t \in Threads, RegJoin(t) PROVE ThreadTypes'
  BY <1>a, <1>10, GotoTypes DEF Labels, RegJoin
<1>11. ASSUME NEW t \in Threads, RegNic(t) PROVE ThreadTypes'
  BY <1>a, <1>11, GotoTypes DEF Labels, RegNic
<1>12. ASSUME NEW t \in Threads, RegNicFails(t) PROVE ThreadTypes'
  BY <1>a, <1>12, GotoTypes, ReturnTypes DEF Labels, RegNicFails
<1>13. ASSUME NEW t \in Threads, RegSet(t) PROVE ThreadTypes'
  BY <1>a, <1>13, ReturnTypes DEF RegSet
<1>14. ASSUME NEW t \in Threads, UnregLock(t) PROVE ThreadTypes'
  BY <1>a, <1>14, GotoTypes DEF Labels, UnregLock
<1>15. ASSUME NEW t \in Threads, DelNic(t) PROVE ThreadTypes'
  BY <1>a, <1>15, GotoTypes DEF Labels, DelNic
<1>16. ASSUME NEW t \in Threads, DelRings(t) PROVE ThreadTypes'
  BY <1>a, <1>16, GotoTypes, ReturnTypes DEF Labels, DelRings
<1>17. ASSUME NEW t \in Threads, PrivFree(t) PROVE ThreadTypes'
  BY <1>a, <1>17, GotoTypes DEF Labels, PrivFree
<1>18. ASSUME NEW t \in Threads, PrivClear(t) PROVE ThreadTypes'
  BY <1>a, <1>18, ReturnTypes DEF PrivClear
<1>19. ASSUME NEW t \in Threads, PollCheck(t) PROVE ThreadTypes'
  BY <1>a, <1>19, GotoTypes, ReturnTypes DEF Labels, PollCheck
<1>20. ASSUME NEW t \in Threads, RxSync(t) PROVE ThreadTypes'
  BY <1>a, <1>20, ReturnTypes DEF RxSync
<1>21. CASE IfFlags
  BY <1>a, <1>21 DEF ThreadTypes, IfFlags
<1>22. CASE OtherNewIf
  BY <1>a, <1>22 DEF ThreadTypes, OtherNewIf
<1>23. CASE OtherFree
  BY <1>a, <1>23 DEF ThreadTypes, OtherFree
<1>24. CASE UNCHANGED vars
  BY <1>a, <1>24 DEF ThreadTypes, vars
<1> QED
  BY <1>1, <1>2, <1>3, <1>4, <1>5, <1>6, <1>7, <1>8, <1>9, <1>10, <1>11, <1>12,
     <1>13, <1>14, <1>15, <1>16, <1>17, <1>18, <1>19, <1>20, <1>21, <1>22, <1>23, <1>24
  DEF Next, Enter, Register, Unregister, Use

LEMMA RegTypeStep ==
    ASSUME CInv, [Next]_vars
    PROVE  RegTypes'
<1> USE DEF nvars, pvars, tvars, RegTypes
<1>a. ThreadTypes /\ RegTypes /\ CallOK /\ PrivOK /\ CountOK
  BY DEF CInv
<1>1. ASSUME NEW t \in Threads, RegEnter(t) PROVE RegTypes'
  <2>1. PICK f \in Files : /\ Call(t, f, Least(Privs \ privs), "reg", "reg")
                            /\ privs' = privs \cup {Least(Privs \ privs)}
    BY <1>1 DEF RegEnter
  <2>2. Least(Privs \ privs) \in Privs
    BY <2>1, FreshPriv DEF Call
  <2> QED
    BY <1>a, <1>1, <2>1, <2>2 DEF RegEnter
<1>2. ASSUME NEW t \in Threads, UnregEnter(t) PROVE RegTypes'
  BY <1>a, <1>2 DEF UnregEnter
<1>3. ASSUME NEW t \in Threads, PollEnter(t) PROVE RegTypes'
  BY <1>a, <1>3 DEF PollEnter
<1>4. ASSUME NEW t \in Threads, RxSyncEnter(t) PROVE RegTypes'
  BY <1>a, <1>4 DEF RxSyncEnter
<1>5. ASSUME NEW t \in Threads, RegWait(t) PROVE RegTypes'
  BY <1>a, <1>5 DEF RegWait
<1>6. ASSUME NEW t \in Threads, RegBusy(t) PROVE RegTypes'
  BY <1>a, <1>6 DEF RegBusy, RegGiveUp
<1>7. ASSUME NEW t \in Threads, RegFull(t) PROVE RegTypes'
  BY <1>a, <1>7 DEF RegFull, RegGiveUp
<1>8. ASSUME NEW t \in Threads, RegNoMem(t) PROVE RegTypes'
  BY <1>a, <1>8 DEF RegNoMem, RegGiveUp
<1>9. ASSUME NEW t \in Threads, RegNewIf(t) PROVE RegTypes'
  <2>1. refs + 1 \in 0 .. NumRings
    BY <1>a, <1>9, DpaRegAssumption DEF RegNewIf
  <2> QED
    BY <1>a, <1>9, <2>1 DEF RegNewIf
<1>10. ASSUME NEW t \in Threads, RegJoin(t) PROVE RegTypes'
  BY <1>a, <1>10 DEF RegJoin
<1>11. ASSUME NEW t \in Threads, RegNic(t) PROVE RegTypes'
  BY <1>a, <1>11, PromiscTypes DEF RegNic, SetPromisc
<1>12. ASSUME NEW t \in Threads, RegNicFails(t) PROVE RegTypes'
  <2>1. refs > 0
    BY <1>12, RefsPositive DEF RegNicFails, At
  <2>2. refs - 1 \in 0 .. NumRings
    BY <1>a, <2>1, DpaRegAssumption
  <2> QED
    BY <1>a, <1>12, <2>2 DEF RegNicFails
<1>13. ASSUME NEW t \in Threads, RegSet(t) PROVE RegTypes'
  <2>1. private' \in [Files -> Privs \cup {0}]
    BY <1>a, <1>13 DEF RegSet, ThreadTypes
  <2> QED
    BY <1>a, <1>13, <2>1 DEF RegSet
<1>14. ASSUME NEW t \in Threads, UnregLock(t) PROVE RegTypes'
  <2>1. refs > 0
    BY <1>14, RefsPositive DEF UnregLock, At
  <2>2. refs - 1 \in 0 .. NumRings
    BY <1>a, <2>1, DpaRegAssumption
  <2> QED
    BY <1>a, <1>14, <2>2 DEF UnregLock
<1>15. ASSUME NEW t \in Threads, DelNic(t) PROVE RegTypes'
  BY <1>a, <1>15, PromiscTypes DEF DelNic, ClearPromisc
<1>16. ASSUME NEW t \in Threads, DelRings(t) PROVE RegTypes'
  BY <1>a, <1>16 DEF DelRings
<1>17. ASSUME NEW t \in Threads, PrivFree(t) PROVE RegTypes'
  BY <1>a, <1>17 DEF PrivFree
<1>18. ASSUME NEW t \in Threads, PrivClear(t) PROVE RegTypes'
  <2>1. private' \in [Files -> Privs \cup {0}]
    BY <1>a, <1>18 DEF PrivClear, ThreadTypes
  <2> QED
    BY <1>a, <1>18, <2>1 DEF PrivClear
<1>19. ASSUME NEW t \in Threads, PollCheck(t) PROVE RegTypes'
  BY <1>a, <1>19 DEF PollCheck
<1>20. ASSUME NEW t \in Threads, RxSync(t) PROVE RegTypes'
  BY <1>a, <1>20 DEF RxSync
<1>21. CASE IfFlags
  BY <1>a, <1>21 DEF IfFlags
<1>22. CASE OtherNewIf
  BY <1>a, <1>22 DEF OtherNewIf
<1>23. CASE OtherFree
  BY <1>a, <1>23 DEF OtherFree
<1>24. CASE UNCHANGED vars
  BY <1>a, <1>24 DEF vars
<1> QED
  BY <1>1, <1>2, <1>3, <1>4, <1>5, <1>6, <1>7, <1>8, <1>9, <1>10, <1>11, <1>12,
     <1>13, <1>14, <1>15, <1>16, <1>17, <1>18, <1>19, <1>20, <1>21, <1>22, <1>23, <1>24
  DEF Next, Enter, Register, Unregister, Use

LEMMA CallStep ==
    ASSUME CInv, [Next]_vars
    PROVE  CallOK'
<1> USE DEF nvars, pvars, tvars, At
<1>a. ThreadTypes /\ RegTypes /\ CallOK /\ PrivOK /\ CountOK
  BY DEF CInv
<1>1. ASSUME NEW t \in Threads, RegEnter(t) PROVE CallOK'
  BY <1>a, <1>1, DpaRegAssumption DEF RegEnter, Call, ThreadTypes, RegTypes, CallOK
<1>2. ASSUME NEW t \in Threads, UnregEnter(t) PROVE CallOK'
  BY <1>a, <1>2, DpaRegAssumption DEF UnregEnter, Call, ThreadTypes, RegTypes, CallOK
<1>3. ASSUME NEW t \in Threads, PollEnter(t) PROVE CallOK'
  BY <1>a, <1>3, DpaRegAssumption DEF PollEnter, Call, ThreadTypes, RegTypes, CallOK
<1>4. ASSUME NEW t \in Threads, RxSyncEnter(t) PROVE CallOK'
  BY <1>a, <1>4, DpaRegAssumption DEF RxSyncEnter, Call, ThreadTypes, RegTypes, CallOK
<1>5. ASSUME NEW t \in Threads, RegWait(t) PROVE CallOK'
  BY <1>a, <1>5, DpaRegAssumption DEF RegWait, ThreadTypes, RegTypes, CallOK
<1>6. ASSUME NEW t \in Threads, RegBusy(t) PROVE CallOK'
  BY <1>a, <1>6, DpaRegAssumption DEF RegBusy, RegGiveUp, Return, ThreadTypes, RegTypes, CallOK
<1>7. ASSUME NEW t \in Threads, RegFull(t) PROVE CallOK'
  BY <1>a, <1>7, DpaRegAssumption DEF RegFull, Locks, RegGiveUp, Return, ThreadTypes,
     RegTypes, CallOK
<1>8. ASSUME NEW t \in Threads, RegNoMem(t) PROVE CallOK'
  BY <1>a, <1>8, DpaRegAssumption DEF RegNoMem, Locks, RegGiveUp, Return, ThreadTypes,
     RegTypes, CallOK
<1>9. ASSUME NEW t \in Threads, RegNewIf(t) PROVE CallOK'
  BY <1>a, <1>9, DpaRegAssumption DEF RegNewIf, Locks, NewIf, Goto, ThreadTypes, RegTypes, CallOK
<1>10. ASSUME NEW t \in Threads, RegJoin(t) PROVE CallOK'
  BY <1>a, <1>10, DpaRegAssumption DEF RegJoin, Goto, ThreadTypes, RegTypes, CallOK
<1>11. ASSUME NEW t \in Threads, RegNic(t) PROVE CallOK'
  BY <1>a, <1>11, DpaRegAssumption DEF RegNic, SetPromisc, Goto, ThreadTypes, RegTypes, CallOK
<1>12. ASSUME NEW t \in Threads, RegNicFails(t) PROVE CallOK'
  BY <1>a, <1>12, DpaRegAssumption DEF RegNicFails, Goto, Return, ThreadTypes, RegTypes, CallOK
<1>13. ASSUME NEW t \in Threads, RegSet(t) PROVE CallOK'
  BY <1>a, <1>13, DpaRegAssumption DEF RegSet, Return, ThreadTypes, RegTypes, CallOK
<1>14. ASSUME NEW t \in Threads, UnregLock(t) PROVE CallOK'
  BY <1>a, <1>14, DpaRegAssumption DEF UnregLock, Goto, ThreadTypes, RegTypes, CallOK
<1>15. ASSUME NEW t \in Threads, DelNic(t) PROVE CallOK'
  BY <1>a, <1>15, DpaRegAssumption DEF DelNic, ClearPromisc, Goto, ThreadTypes, RegTypes, CallOK
<1>16. ASSUME NEW t \in Threads, DelRings(t) PROVE CallOK'
  BY <1>a, <1>16, DpaRegAssumption DEF DelRings, Goto, Return, ThreadTypes, RegTypes, CallOK
<1>17. ASSUME NEW t \in Threads, PrivFree(t) PROVE CallOK'
  BY <1>a, <1>17, DpaRegAssumption DEF PrivFree, Goto, ThreadTypes, RegTypes, CallOK
<1>18. ASSUME NEW t \in Threads, PrivClear(t) PROVE CallOK'
  BY <1>a, <1>18, DpaRegAssumption DEF PrivClear, Return, ThreadTypes, RegTypes, CallOK
<1>19. ASSUME NEW t \in Threads, PollCheck(t) PROVE CallOK'
  BY <1>a, <1>19, DpaRegAssumption DEF PollCheck, Goto, Return, ThreadTypes, RegTypes, CallOK
<1>20. ASSUME NEW t \in Threads, RxSync(t) PROVE CallOK'
  BY <1>a, <1>20, DpaRegAssumption DEF RxSync, Return, ThreadTypes, RegTypes, CallOK
<1>21. CASE IfFlags
  BY <1>a, <1>21, DpaRegAssumption DEF IfFlags, ThreadTypes, RegTypes, CallOK
<1>22. CASE OtherNewIf
  BY <1>a, <1>22, DpaRegAssumption DEF OtherNewIf, ThreadTypes, RegTypes, CallOK
<1>23. CASE OtherFree
  BY <1>a, <1>23, DpaRegAssumption DEF OtherFree, ThreadTypes, RegTypes, CallOK
<1>24. CASE UNCHANGED vars
  BY <1>a, <1>24, DpaRegAssumption DEF vars, ThreadTypes, RegTypes, CallOK
<1> QED
  BY <1>1, <1>2, <1>3, <1>4, <1>5, <1>6, <1>7, <1>8, <1>9, <1>10, <1>11, <1>12,
     <1>13, <1>14, <1>15, <1>16, <1>17, <1>18, <1>19, <1>20, <1>21, <1>22, <1>23, <1>24
  DEF Next, Enter, Register, Unregister, Use

LEMMA PrivStep ==
    ASSUME CInv, [Next]_vars
    PROVE  PrivOK'
<1> USE DEF nvars, pvars, tvars, At
<1>a. ThreadTypes /\ RegTypes /\ CallOK /\ PrivOK /\ CountOK
  BY DEF CInv
<1>1. ASSUME NEW t \in Threads, RegEnter(t) PROVE PrivOK'
  <2> DEFINE p == Least(Privs \ privs)
  <2>1. PICK h \in Files : private[h] = 0 /\ Call(t, h, p, "reg", "reg") /\ privs' = privs \cup {p}
    BY <1>1 DEF RegEnter
  <2>2. p \in Privs /\ p \notin privs
    BY <2>1, FreshPriv DEF Call
  <2> HIDE DEF p
  <2>3. private' = private /\ Live' = Live
    BY <1>a, <1>1, <2>1 DEF RegEnter, Call, ThreadTypes, RegTypes, Live
  <2>4. /\ why' = [why EXCEPT ![t] = "reg"] /\ file' = [file EXCEPT ![t] = h]
        /\ priv' = [priv EXCEPT ![t] = p] /\ why[t] = "none"
    BY <1>a, <2>1 DEF Call, CallOK
  <2>5. \A s \in Threads :
          /\ why'[s] = "reg" => private'[file'[s]] = 0 /\ priv'[s] \in privs'
          /\ why'[s] \in {"unreg", "use"} => private'[file'[s]] # 0 /\ priv'[s] = private'[file'[s]]
    BY <1>a, <2>1, <2>2, <2>3, <2>4 DEF ThreadTypes, RegTypes, PrivOK
  <2>6. \A f \in Live' : private'[f] \in privs'
    BY <1>a, <2>1, <2>2, <2>3, <2>4 DEF ThreadTypes, RegTypes, PrivOK
  <2>7. \A f, g \in Live' : private'[f] = private'[g] => f = g
    BY <1>a, <2>1, <2>2, <2>3, <2>4 DEF ThreadTypes, RegTypes, PrivOK
  <2>8. \A s, u \in Threads : why'[s] = "reg" /\ why'[u] = "reg" /\ priv'[s] = priv'[u] => s = u
    BY <1>a, <2>1, <2>2, <2>3, <2>4 DEF ThreadTypes, RegTypes, PrivOK
  <2>9. \A f \in Live', u \in Threads : why'[u] = "reg" => priv'[u] # private'[f]
    BY <1>a, <2>1, <2>2, <2>3, <2>4 DEF ThreadTypes, RegTypes, PrivOK
  <2>10. privs' \subseteq {private'[f] : f \in Live'} \cup
                       {priv'[u] : u \in {s \in Threads : why'[s] = "reg"}}
    BY <1>a, <2>1, <2>2, <2>3, <2>4 DEF ThreadTypes, RegTypes, PrivOK
  <2> QED
    BY <2>5, <2>6, <2>7, <2>8, <2>9, <2>10 DEF PrivOK
<1>2. ASSUME NEW t \in Threads, UnregEnter(t) PROVE PrivOK'
  BY <1>a, <1>2 DEF UnregEnter, Call, ThreadTypes, RegTypes, CallOK, PrivOK, Live
<1>3. ASSUME NEW t \in Threads, PollEnter(t) PROVE PrivOK'
  BY <1>a, <1>3 DEF PollEnter, Call, ThreadTypes, RegTypes, CallOK, PrivOK, Live
<1>4. ASSUME NEW t \in Threads, RxSyncEnter(t) PROVE PrivOK'
  BY <1>a, <1>4 DEF RxSyncEnter, Call, ThreadTypes, RegTypes, CallOK, PrivOK, Live
<1>5. ASSUME NEW t \in Threads, RegWait(t) PROVE PrivOK'
  BY <1>a, <1>5 DEF RegWait, ThreadTypes, RegTypes, CallOK, PrivOK, Live
<1>6. ASSUME NEW t \in Threads, RegBusy(t) PROVE PrivOK'
  BY <1>a, <1>6 DEF RegBusy, RegGiveUp, Return, ThreadTypes, RegTypes, CallOK, PrivOK, Live
<1>7. ASSUME NEW t \in Threads, RegFull(t) PROVE PrivOK'
  BY <1>a, <1>7 DEF RegFull, Locks, RegGiveUp, Return, ThreadTypes, RegTypes, CallOK, PrivOK, Live
<1>8. ASSUME NEW t \in Threads, RegNoMem(t) PROVE PrivOK'
  BY <1>a, <1>8 DEF RegNoMem, Locks, RegGiveUp, Return, ThreadTypes, RegTypes, CallOK, PrivOK, Live
<1>9. ASSUME NEW t \in Threads, RegNewIf(t) PROVE PrivOK'
  BY <1>a, <1>9 DEF RegNewIf, Locks, NewIf, Goto, ThreadTypes, RegTypes, CallOK, PrivOK, Live
<1>10. ASSUME NEW t \in Threads, RegJoin(t) PROVE PrivOK'
  BY <1>a, <1>10 DEF RegJoin, Goto, ThreadTypes, RegTypes, CallOK, PrivOK, Live
<1>11. ASSUME NEW t \in Threads, RegNic(t) PROVE PrivOK'
  BY <1>a, <1>11 DEF RegNic, SetPromisc, Goto, ThreadTypes, RegTypes, CallOK, PrivOK, Live
<1>12. ASSUME NEW t \in Threads, RegNicFails(t) PROVE PrivOK'
  BY <1>a, <1>12 DEF RegNicFails, Goto, Return, ThreadTypes, RegTypes, CallOK, PrivOK, Live
<1>13. ASSUME NEW t \in Threads, RegSet(t) PROVE PrivOK'
  <2>1. /\ private' = [private EXCEPT ![file[t]] = priv[t]] /\ privs' = privs
        /\ why' = [why EXCEPT ![t] = "none"] /\ priv' = [priv EXCEPT ![t] = 0]
        /\ file' = [file EXCEPT ![t] = None] /\ why[t] = "reg" /\ file[t] \in Files
        /\ pc' = [pc EXCEPT ![t] = "idle"]
    BY <1>a, <1>13 DEF RegSet, Return, CallOK, ThreadTypes, RegTypes
  <2>2. \A s \in Threads : file[s] = file[t] => s = t
    BY <1>a, <2>1, DpaRegAssumption DEF CallOK
  <2>3. private[file[t]] = 0 /\ priv[t] \in privs /\ priv[t] # 0
    BY <1>a, <2>1 DEF PrivOK, ThreadTypes, RegTypes, Privs
  <2>4. Live' = Live \cup {file[t]}
    BY <1>a, <2>1, <2>2, <2>3 DEF Live, ThreadTypes, RegTypes
  <2>5. \A s \in Threads :
          /\ why'[s] = "reg" => private'[file'[s]] = 0 /\ priv'[s] \in privs'
          /\ why'[s] \in {"unreg", "use"} => private'[file'[s]] # 0 /\ priv'[s] = private'[file'[s]]
    BY <1>a, <2>1, <2>2, <2>3, <2>4, DpaRegAssumption DEF ThreadTypes, RegTypes, CallOK, PrivOK
  <2>6. \A f \in Live' : private'[f] \in privs'
    BY <1>a, <2>1, <2>2, <2>3, <2>4, DpaRegAssumption DEF ThreadTypes, RegTypes, CallOK, PrivOK
  <2>7. \A f, g \in Live' : private'[f] = private'[g] => f = g
    BY <1>a, <2>1, <2>2, <2>3, <2>4, DpaRegAssumption DEF ThreadTypes, RegTypes, CallOK, PrivOK
  <2>8. \A s, u \in Threads : why'[s] = "reg" /\ why'[u] = "reg" /\ priv'[s] = priv'[u] => s = u
    BY <1>a, <2>1, <2>2, <2>3, <2>4, DpaRegAssumption DEF ThreadTypes, RegTypes, CallOK, PrivOK
  <2>9. \A f \in Live', u \in Threads : why'[u] = "reg" => priv'[u] # private'[f]
    BY <1>a, <2>1, <2>2, <2>3, <2>4, DpaRegAssumption DEF ThreadTypes, RegTypes, CallOK, PrivOK
  <2>10. privs' \subseteq {private'[f] : f \in Live'} \cup
                       {priv'[u] : u \in {s \in Threads : why'[s] = "reg"}}
    <3>1. SUFFICES ASSUME NEW q \in privs
          PROVE  \/ \E f \in Live' : q = private'[f]
                 \/ \E u \in Threads : why'[u] = "reg" /\ q = priv'[u]
      BY <2>1
    <3>2. \/ \E f \in Live : q = private[f]
          \/ \E u \in Threads : why[u] = "reg" /\ q = priv[u]
      BY <1>a DEF PrivOK
    <3>3. ASSUME NEW f \in Live, q = private[f] PROVE f \in Live' /\ private'[f] = q
      <4>1. f # file[t] /\ f \in Files
        BY <2>3, <3>3 DEF Live
      <4> QED
        BY <1>a, <2>1, <2>4, <3>3, <4>1 DEF ThreadTypes, RegTypes
    <3>4. ASSUME NEW u \in Threads, why[u] = "reg", q = priv[u], u # t
          PROVE  why'[u] = "reg" /\ q = priv'[u]
      BY <1>a, <2>1, <3>4 DEF ThreadTypes, RegTypes
    <3>5. file[t] \in Live' /\ private'[file[t]] = priv[t]
      BY <1>a, <2>1, <2>4 DEF ThreadTypes, RegTypes
    <3> QED
      BY <3>2, <3>3, <3>4, <3>5
  <2> QED
    BY <2>5, <2>6, <2>7, <2>8, <2>9, <2>10 DEF PrivOK
<1>14. ASSUME NEW t \in Threads, UnregLock(t) PROVE PrivOK'
  BY <1>a, <1>14 DEF UnregLock, Goto, ThreadTypes, RegTypes, CallOK, PrivOK, Live
<1>15. ASSUME NEW t \in Threads, DelNic(t) PROVE PrivOK'
  BY <1>a, <1>15 DEF DelNic, ClearPromisc, Goto, ThreadTypes, RegTypes, CallOK, PrivOK, Live
<1>16. ASSUME NEW t \in Threads, DelRings(t) PROVE PrivOK'
  <2>1. CASE why[t] = "reg"
    BY <1>a, <1>16, <2>1 DEF ThreadTypes, RegTypes, CallOK, PrivOK, Live, DelRings, Return, Goto
  <2>2. CASE ~(why[t] = "reg")
    BY <1>a, <1>16, <2>2 DEF ThreadTypes, RegTypes, CallOK, PrivOK, Live, DelRings, Return, Goto
  <2> QED
    BY <2>1, <2>2
<1>17. ASSUME NEW t \in Threads, PrivFree(t) PROVE PrivOK'
  BY <1>a, <1>17 DEF PrivFree, Goto, ThreadTypes, RegTypes, CallOK, PrivOK, Live
<1>18. ASSUME NEW t \in Threads, PrivClear(t) PROVE PrivOK'
  BY <1>a, <1>18 DEF PrivClear, Return, ThreadTypes, RegTypes, CallOK, PrivOK, Live
<1>19. ASSUME NEW t \in Threads, PollCheck(t) PROVE PrivOK'
  <2>1. CASE enabled
    BY <1>a, <1>19, <2>1 DEF ThreadTypes, RegTypes, CallOK, PrivOK, Live, PollCheck, Return, Goto
  <2>2. CASE ~(enabled)
    BY <1>a, <1>19, <2>2 DEF ThreadTypes, RegTypes, CallOK, PrivOK, Live, PollCheck, Return, Goto
  <2> QED
    BY <2>1, <2>2
<1>20. ASSUME NEW t \in Threads, RxSync(t) PROVE PrivOK'
  BY <1>a, <1>20 DEF RxSync, Return, ThreadTypes, RegTypes, CallOK, PrivOK, Live
<1>21. CASE IfFlags
  BY <1>a, <1>21 DEF IfFlags, ThreadTypes, RegTypes, CallOK, PrivOK, Live
<1>22. CASE OtherNewIf
  BY <1>a, <1>22 DEF OtherNewIf, ThreadTypes, RegTypes, CallOK, PrivOK, Live
<1>23. CASE OtherFree
  BY <1>a, <1>23 DEF OtherFree, ThreadTypes, RegTypes, CallOK, PrivOK, Live
<1>24. CASE UNCHANGED vars
  BY <1>a, <1>24 DEF vars, ThreadTypes, RegTypes, CallOK, PrivOK, Live
<1> QED
  BY <1>1, <1>2, <1>3, <1>4, <1>5, <1>6, <1>7, <1>8, <1>9, <1>10, <1>11, <1>12,
     <1>13, <1>14, <1>15, <1>16, <1>17, <1>18, <1>19, <1>20, <1>21, <1>22, <1>23, <1>24
  DEF Next, Enter, Register, Unregister, Use

LEMMA CountStep ==
    ASSUME CInv, [Next]_vars
    PROVE  CountOK'
<1> USE DEF nvars, pvars, tvars, At
<1>a. ThreadTypes /\ RegTypes /\ CallOK /\ PrivOK /\ CountOK
  BY DEF CInv
<1>1. ASSUME NEW t \in Threads, RegEnter(t) PROVE CountOK'
  <2>1. refs' = refs
    BY <1>1 DEF RegEnter, Call
  <2>2. Registered' = Registered
    BY <1>a, <1>1, DpaRegAssumption DEF RegEnter, Call, ThreadTypes, RegTypes, CallOK,
       PrivOK, Registered, Leaving
  <2>3. Leavers' = Leavers
    BY <1>a, <1>1 DEF RegEnter, Call, ThreadTypes, RegTypes, Leavers
  <2>4. Making' = Making
    BY <1>a, <1>1 DEF RegEnter, Call, ThreadTypes, RegTypes, Making
  <2> QED
    BY <1>a, <2>1, <2>2, <2>3, <2>4 DEF CountOK
<1>2. ASSUME NEW t \in Threads, UnregEnter(t) PROVE CountOK'
  <2>1. refs' = refs
    BY <1>2 DEF UnregEnter, Call
  <2>2. Registered' = Registered \ {file'[t]} /\ file'[t] \in Registered
    BY <1>a, <1>2, DpaRegAssumption DEF UnregEnter, Call, ThreadTypes, RegTypes, CallOK,
       PrivOK, Registered, Leaving
  <2>3. Leavers' = Leavers \cup {t} /\ t \notin Leavers
    BY <1>a, <1>2 DEF UnregEnter, Call, ThreadTypes, RegTypes, Leavers
  <2>4. Making' = Making
    BY <1>a, <1>2 DEF UnregEnter, Call, ThreadTypes, RegTypes, Making
  <2>5. Cardinality(Registered') = Cardinality(Registered) - 1
    BY <2>2, Finite, FS_AddElement, FS_RemoveElement
  <2>6. Cardinality(Leavers') = Cardinality(Leavers) + 1
    BY <2>3, Finite, FS_AddElement, FS_RemoveElement
  <2>7. Cardinality(Making') = Cardinality(Making)
    BY <2>4
  <2> QED
    BY <1>a, <2>1, <2>5, <2>6, <2>7, Finite DEF CountOK, ThreadTypes, RegTypes
<1>3. ASSUME NEW t \in Threads, PollEnter(t) PROVE CountOK'
  <2>1. refs' = refs
    BY <1>3 DEF PollEnter, Call
  <2>2. Registered' = Registered
    BY <1>a, <1>3, DpaRegAssumption DEF PollEnter, Call, ThreadTypes, RegTypes, CallOK,
       PrivOK, Registered, Leaving
  <2>3. Leavers' = Leavers
    BY <1>a, <1>3 DEF PollEnter, Call, ThreadTypes, RegTypes, Leavers
  <2>4. Making' = Making
    BY <1>a, <1>3 DEF PollEnter, Call, ThreadTypes, RegTypes, Making
  <2> QED
    BY <1>a, <2>1, <2>2, <2>3, <2>4 DEF CountOK
<1>4. ASSUME NEW t \in Threads, RxSyncEnter(t) PROVE CountOK'
  <2>1. refs' = refs
    BY <1>4 DEF RxSyncEnter, Call
  <2>2. Registered' = Registered
    BY <1>a, <1>4, DpaRegAssumption DEF RxSyncEnter, Call, ThreadTypes, RegTypes, CallOK,
       PrivOK, Registered, Leaving
  <2>3. Leavers' = Leavers
    BY <1>a, <1>4 DEF RxSyncEnter, Call, ThreadTypes, RegTypes, Leavers
  <2>4. Making' = Making
    BY <1>a, <1>4 DEF RxSyncEnter, Call, ThreadTypes, RegTypes, Making
  <2> QED
    BY <1>a, <2>1, <2>2, <2>3, <2>4 DEF CountOK
<1>5. ASSUME NEW t \in Threads, RegWait(t) PROVE CountOK'
  <2>1. refs' = refs
    BY <1>5 DEF RegWait
  <2>2. Registered' = Registered
    BY <1>a, <1>5, DpaRegAssumption DEF RegWait, ThreadTypes, RegTypes, CallOK, PrivOK,
       Registered, Leaving
  <2>3. Leavers' = Leavers
    BY <1>a, <1>5 DEF RegWait, ThreadTypes, RegTypes, Leavers
  <2>4. Making' = Making
    BY <1>a, <1>5 DEF RegWait, ThreadTypes, RegTypes, Making
  <2> QED
    BY <1>a, <2>1, <2>2, <2>3, <2>4 DEF CountOK
<1>6. ASSUME NEW t \in Threads, RegBusy(t) PROVE CountOK'
  <2>1. refs' = refs
    BY <1>6 DEF RegBusy, RegGiveUp, Return
  <2>2. Registered' = Registered
    BY <1>a, <1>6, DpaRegAssumption DEF RegBusy, RegGiveUp, Return, ThreadTypes, RegTypes,
       CallOK, PrivOK, Registered, Leaving
  <2>3. Leavers' = Leavers
    BY <1>a, <1>6 DEF RegBusy, RegGiveUp, Return, ThreadTypes, RegTypes, Leavers
  <2>4. Making' = Making
    BY <1>a, <1>6 DEF RegBusy, RegGiveUp, Return, ThreadTypes, RegTypes, Making
  <2> QED
    BY <1>a, <2>1, <2>2, <2>3, <2>4 DEF CountOK
<1>7. ASSUME NEW t \in Threads, RegFull(t) PROVE CountOK'
  <2>1. refs' = refs
    BY <1>7 DEF RegFull, Locks, RegGiveUp, Return
  <2>2. Registered' = Registered
    BY <1>a, <1>7, DpaRegAssumption DEF RegFull, Locks, RegGiveUp, Return, ThreadTypes,
       RegTypes, CallOK, PrivOK, Registered, Leaving
  <2>3. Leavers' = Leavers
    BY <1>a, <1>7 DEF RegFull, Locks, RegGiveUp, Return, ThreadTypes, RegTypes, Leavers
  <2>4. Making' = Making
    BY <1>a, <1>7 DEF RegFull, Locks, RegGiveUp, Return, ThreadTypes, RegTypes, Making
  <2> QED
    BY <1>a, <2>1, <2>2, <2>3, <2>4 DEF CountOK
<1>8. ASSUME NEW t \in Threads, RegNoMem(t) PROVE CountOK'
  <2>1. refs' = refs
    BY <1>8 DEF RegNoMem, Locks, RegGiveUp, Return
  <2>2. Registered' = Registered
    BY <1>a, <1>8, DpaRegAssumption DEF RegNoMem, Locks, RegGiveUp, Return, ThreadTypes,
       RegTypes, CallOK, PrivOK, Registered, Leaving
  <2>3. Leavers' = Leavers
    BY <1>a, <1>8 DEF RegNoMem, Locks, RegGiveUp, Return, ThreadTypes, RegTypes, Leavers
  <2>4. Making' = Making
    BY <1>a, <1>8 DEF RegNoMem, Locks, RegGiveUp, Return, ThreadTypes, RegTypes, Making
  <2> QED
    BY <1>a, <2>1, <2>2, <2>3, <2>4 DEF CountOK
<1>9. ASSUME NEW t \in Threads, RegNewIf(t) PROVE CountOK'
  <2>1. refs' = refs + 1
    BY <1>9 DEF RegNewIf, Locks, NewIf, Goto
  <2>2. Registered' = Registered
    BY <1>a, <1>9, DpaRegAssumption DEF RegNewIf, Locks, NewIf, Goto, ThreadTypes,
       RegTypes, CallOK, PrivOK, Registered, Leaving
  <2>3. Leavers' = Leavers
    BY <1>a, <1>9 DEF RegNewIf, Locks, NewIf, Goto, ThreadTypes, RegTypes, Leavers
  <2>4. Making' = Making \cup {t} /\ t \notin Making
    BY <1>a, <1>9 DEF RegNewIf, Locks, NewIf, Goto, ThreadTypes, RegTypes, Making
  <2>5. Cardinality(Registered') = Cardinality(Registered)
    BY <2>2
  <2>6. Cardinality(Leavers') = Cardinality(Leavers)
    BY <2>3
  <2>7. Cardinality(Making') = Cardinality(Making) + 1
    BY <2>4, Finite, FS_AddElement, FS_RemoveElement
  <2> QED
    BY <1>a, <2>1, <2>5, <2>6, <2>7, Finite DEF CountOK, ThreadTypes, RegTypes
<1>10. ASSUME NEW t \in Threads, RegJoin(t) PROVE CountOK'
  <2>1. refs' = refs
    BY <1>10 DEF RegJoin, Goto
  <2>2. Registered' = Registered
    BY <1>a, <1>10, DpaRegAssumption DEF RegJoin, Goto, ThreadTypes, RegTypes, CallOK,
       PrivOK, Registered, Leaving
  <2>3. Leavers' = Leavers
    BY <1>a, <1>10 DEF RegJoin, Goto, ThreadTypes, RegTypes, Leavers
  <2>4. Making' = Making
    BY <1>a, <1>10 DEF RegJoin, Goto, ThreadTypes, RegTypes, Making
  <2> QED
    BY <1>a, <2>1, <2>2, <2>3, <2>4 DEF CountOK
<1>11. ASSUME NEW t \in Threads, RegNic(t) PROVE CountOK'
  <2>1. refs' = refs
    BY <1>11 DEF RegNic, SetPromisc, Goto
  <2>2. Registered' = Registered
    BY <1>a, <1>11, DpaRegAssumption DEF RegNic, SetPromisc, Goto, ThreadTypes, RegTypes,
       CallOK, PrivOK, Registered, Leaving
  <2>3. Leavers' = Leavers
    BY <1>a, <1>11 DEF RegNic, SetPromisc, Goto, ThreadTypes, RegTypes, Leavers
  <2>4. Making' = Making
    BY <1>a, <1>11 DEF RegNic, SetPromisc, Goto, ThreadTypes, RegTypes, Making
  <2> QED
    BY <1>a, <2>1, <2>2, <2>3, <2>4 DEF CountOK
<1>12. ASSUME NEW t \in Threads, RegNicFails(t) PROVE CountOK'
  <2>1. refs' = refs - 1
    BY <1>12 DEF RegNicFails, Goto, Return
  <2>2. Registered' = Registered
    BY <1>a, <1>12, DpaRegAssumption DEF RegNicFails, Goto, Return, ThreadTypes, RegTypes,
       CallOK, PrivOK, Registered, Leaving
  <2>3. Leavers' = Leavers
    BY <1>a, <1>12 DEF RegNicFails, Goto, Return, ThreadTypes, RegTypes, Leavers
  <2>4. Making' = Making \ {t} /\ t \in Making
    BY <1>a, <1>12 DEF RegNicFails, Goto, Return, ThreadTypes, RegTypes, Making
  <2>5. Cardinality(Registered') = Cardinality(Registered)
    BY <2>2
  <2>6. Cardinality(Leavers') = Cardinality(Leavers)
    BY <2>3
  <2>7. Cardinality(Making') = Cardinality(Making) - 1
    BY <2>4, Finite, FS_AddElement, FS_RemoveElement
  <2> QED
    BY <1>a, <2>1, <2>5, <2>6, <2>7, Finite DEF CountOK, ThreadTypes, RegTypes
<1>13. ASSUME NEW t \in Threads, RegSet(t) PROVE CountOK'
  <2>1. refs' = refs
    BY <1>13 DEF RegSet, Return
  <2>2. Registered' = Registered \cup {file[t]} /\ file[t] \notin Registered
    <3>1. /\ private' = [private EXCEPT ![file[t]] = priv[t]] /\ file' = [file EXCEPT ![t] = None]
          /\ why' = [why EXCEPT ![t] = "none"] /\ why[t] = "reg" /\ file[t] \in Files
      BY <1>a, <1>13 DEF RegSet, Return, CallOK, ThreadTypes, RegTypes
    <3>2. \A s \in Threads : file[s] = file[t] => s = t
      BY <1>a, <3>1, DpaRegAssumption DEF CallOK
    <3>3. private[file[t]] = 0 /\ priv[t] # 0
      BY <1>a, <3>1 DEF PrivOK, ThreadTypes, RegTypes, Privs
    <3>4. ASSUME NEW f \in Files, f # file[t]
          PROVE  private'[f] = private[f] /\ (Leaving(f)' <=> Leaving(f))
      BY <1>a, <3>1, <3>4, DpaRegAssumption DEF ThreadTypes, RegTypes, Leaving
    <3>5. private'[file[t]] # 0
      BY <1>a, <3>1, <3>3 DEF ThreadTypes, RegTypes
    <3>6. ASSUME NEW f \in Files, f = file[t] PROVE ~Leaving(f)'
      <4>1. SUFFICES ASSUME NEW s \in Threads, file'[s] = f, why'[s] = "unreg" PROVE FALSE
        BY DEF Leaving
      <4>2. CASE s = t
        BY <1>a, <3>1, <3>6, <4>1, <4>2, DpaRegAssumption DEF ThreadTypes, RegTypes
      <4>3. CASE s # t
        BY <1>a, <3>1, <3>2, <3>6, <4>1, <4>3 DEF ThreadTypes, RegTypes
      <4> QED
        BY <4>2, <4>3
    <3>7. \A f \in Files : f = file[t] => f \in Registered' /\ f \notin Registered
      BY <3>1, <3>3, <3>5, <3>6 DEF Registered
    <3>8. ASSUME NEW f \in Files, f # file[t] PROVE f \in Registered' <=> f \in Registered
      BY <3>4, <3>8 DEF Registered
    <3>9. Registered' \subseteq Files /\ Registered \subseteq Files
      BY DEF Registered
    <3> QED
      BY <3>1, <3>7, <3>8, <3>9
  <2>3. Leavers' = Leavers
    BY <1>a, <1>13 DEF RegSet, Return, ThreadTypes, RegTypes, Leavers
  <2>4. Making' = Making \ {t} /\ t \in Making
    BY <1>a, <1>13 DEF RegSet, Return, ThreadTypes, RegTypes, Making
  <2>5. Cardinality(Registered') = Cardinality(Registered) + 1
    BY <2>2, Finite, FS_AddElement, FS_RemoveElement
  <2>6. Cardinality(Leavers') = Cardinality(Leavers)
    BY <2>3
  <2>7. Cardinality(Making') = Cardinality(Making) - 1
    BY <2>4, Finite, FS_AddElement, FS_RemoveElement
  <2> QED
    BY <1>a, <2>1, <2>5, <2>6, <2>7, Finite DEF CountOK, ThreadTypes, RegTypes
<1>14. ASSUME NEW t \in Threads, UnregLock(t) PROVE CountOK'
  <2>1. refs' = refs - 1
    BY <1>14 DEF UnregLock, Goto
  <2>2. Registered' = Registered
    BY <1>a, <1>14, DpaRegAssumption DEF UnregLock, Goto, ThreadTypes, RegTypes, CallOK,
       PrivOK, Registered, Leaving
  <2>3. Leavers' = Leavers \ {t} /\ t \in Leavers
    BY <1>a, <1>14 DEF UnregLock, Goto, ThreadTypes, RegTypes, Leavers
  <2>4. Making' = Making
    BY <1>a, <1>14 DEF UnregLock, Goto, ThreadTypes, RegTypes, Making
  <2>5. Cardinality(Registered') = Cardinality(Registered)
    BY <2>2
  <2>6. Cardinality(Leavers') = Cardinality(Leavers) - 1
    BY <2>3, Finite, FS_AddElement, FS_RemoveElement
  <2>7. Cardinality(Making') = Cardinality(Making)
    BY <2>4
  <2> QED
    BY <1>a, <2>1, <2>5, <2>6, <2>7, Finite DEF CountOK, ThreadTypes, RegTypes
<1>15. ASSUME NEW t \in Threads, DelNic(t) PROVE CountOK'
  <2>1. refs' = refs
    BY <1>15 DEF DelNic, ClearPromisc, Goto
  <2>2. Registered' = Registered
    BY <1>a, <1>15, DpaRegAssumption DEF DelNic, ClearPromisc, Goto, ThreadTypes, RegTypes,
       CallOK, PrivOK, Registered, Leaving
  <2>3. Leavers' = Leavers
    BY <1>a, <1>15 DEF DelNic, ClearPromisc, Goto, ThreadTypes, RegTypes, Leavers
  <2>4. Making' = Making
    BY <1>a, <1>15 DEF DelNic, ClearPromisc, Goto, ThreadTypes, RegTypes, Making
  <2> QED
    BY <1>a, <2>1, <2>2, <2>3, <2>4 DEF CountOK
<1>16. ASSUME NEW t \in Threads, DelRings(t) PROVE CountOK'
  <2>1. refs' = refs
    BY <1>16 DEF DelRings, Goto, Return
  <2>2. Registered' = Registered
    BY <1>a, <1>16, DpaRegAssumption DEF DelRings, Goto, Return, ThreadTypes, RegTypes,
       CallOK, PrivOK, Registered, Leaving
  <2>3. Leavers' = Leavers
    BY <1>a, <1>16 DEF DelRings, Goto, Return, ThreadTypes, RegTypes, Leavers
  <2>4. Making' = Making
    BY <1>a, <1>16 DEF DelRings, Goto, Return, ThreadTypes, RegTypes, Making
  <2> QED
    BY <1>a, <2>1, <2>2, <2>3, <2>4 DEF CountOK
<1>17. ASSUME NEW t \in Threads, PrivFree(t) PROVE CountOK'
  <2>1. refs' = refs
    BY <1>17 DEF PrivFree, Goto
  <2>2. Registered' = Registered
    BY <1>a, <1>17, DpaRegAssumption DEF PrivFree, Goto, ThreadTypes, RegTypes, CallOK,
       PrivOK, Registered, Leaving
  <2>3. Leavers' = Leavers
    BY <1>a, <1>17 DEF PrivFree, Goto, ThreadTypes, RegTypes, Leavers
  <2>4. Making' = Making
    BY <1>a, <1>17 DEF PrivFree, Goto, ThreadTypes, RegTypes, Making
  <2> QED
    BY <1>a, <2>1, <2>2, <2>3, <2>4 DEF CountOK
<1>18. ASSUME NEW t \in Threads, PrivClear(t) PROVE CountOK'
  <2>1. refs' = refs
    BY <1>18 DEF PrivClear, Return
  <2>2. Registered' = Registered
    BY <1>a, <1>18, DpaRegAssumption DEF PrivClear, Return, ThreadTypes, RegTypes, CallOK,
       PrivOK, Registered, Leaving
  <2>3. Leavers' = Leavers
    BY <1>a, <1>18 DEF PrivClear, Return, ThreadTypes, RegTypes, Leavers
  <2>4. Making' = Making
    BY <1>a, <1>18 DEF PrivClear, Return, ThreadTypes, RegTypes, Making
  <2> QED
    BY <1>a, <2>1, <2>2, <2>3, <2>4 DEF CountOK
<1>19. ASSUME NEW t \in Threads, PollCheck(t) PROVE CountOK'
  <2>1. refs' = refs
    BY <1>19 DEF PollCheck, Goto, Return
  <2>2. Registered' = Registered
    BY <1>a, <1>19, DpaRegAssumption DEF PollCheck, Goto, Return, ThreadTypes, RegTypes,
       CallOK, PrivOK, Registered, Leaving
  <2>3. Leavers' = Leavers
    BY <1>a, <1>19 DEF PollCheck, Goto, Return, ThreadTypes, RegTypes, Leavers
  <2>4. Making' = Making
    BY <1>a, <1>19 DEF PollCheck, Goto, Return, ThreadTypes, RegTypes, Making
  <2> QED
    BY <1>a, <2>1, <2>2, <2>3, <2>4 DEF CountOK
<1>20. ASSUME NEW t \in Threads, RxSync(t) PROVE CountOK'
  <2>1. refs' = refs
    BY <1>20 DEF RxSync, Return
  <2>2. Registered' = Registered
    BY <1>a, <1>20, DpaRegAssumption DEF RxSync, Return, ThreadTypes, RegTypes, CallOK,
       PrivOK, Registered, Leaving
  <2>3. Leavers' = Leavers
    BY <1>a, <1>20 DEF RxSync, Return, ThreadTypes, RegTypes, Leavers
  <2>4. Making' = Making
    BY <1>a, <1>20 DEF RxSync, Return, ThreadTypes, RegTypes, Making
  <2> QED
    BY <1>a, <2>1, <2>2, <2>3, <2>4 DEF CountOK
<1>21. CASE IfFlags
  BY <1>a, <1>21 DEF IfFlags, CountOK, Registered, Leaving, Leavers, Making
<1>22. CASE OtherNewIf
  BY <1>a, <1>22 DEF OtherNewIf, CountOK, Registered, Leaving, Leavers, Making
<1>23. CASE OtherFree
  BY <1>a, <1>23 DEF OtherFree, CountOK, Registered, Leaving, Leavers, Making
<1>24. CASE UNCHANGED vars
  BY <1>a, <1>24 DEF vars, CountOK, Registered, Leaving, Leavers, Making
<1> QED
  BY <1>1, <1>2, <1>3, <1>4, <1>5, <1>6, <1>7, <1>8, <1>9, <1>10, <1>11, <1>12,
     <1>13, <1>14, <1>15, <1>16, <1>17, <1>18, <1>19, <1>20, <1>21, <1>22, <1>23, <1>24
  DEF Next, Enter, Register, Unregister, Use

----------------------------------------------------------------------------
(* Every step keeps what IInv adds to it.                                  *)

\* When a registration goes on, nobody deletes the rings of the one before.
LEMMA CleanWhenLocked ==
    ASSUME Overlaps = FALSE, IInv, NEW t \in Threads, Locks(t)
    PROVE  Deleters = {} /\ (enabled <=> refs > 0)
<1>1. TypeOK /\ CallOK /\ IfOK /\ refs \in Nat
  BY DpaRegAssumption, Parts DEF IInv, CInv, TypeOK
<1>2. lock = None /\ ~Deleting /\ ~FailedLeaves
  BY DEF Locks
<1>3. ASSUME NEW s \in Threads PROVE pc[s] \notin {"regnic", "delete"}
  BY <1>1, <1>2, <1>3, DpaRegAssumption DEF CallOK
<1>4. ASSUME NEW s \in Deleters PROVE FALSE
  <2>1. s \in Threads /\ At(s, "sleep")
    BY <1>3, <1>4 DEF Deleters, At
  <2>2. why[s] = "unreg"
    BY <1>1, <1>2, <2>1 DEF CallOK, FailedLeaves, At
  <2>3. enabled /\ refs = 0
    BY <1>1, <1>4, <2>1, <2>2 DEF IfOK
  <2> QED
    BY <1>2, <2>3 DEF Deleting
<1>5. Deleters = {}
  BY <1>4
<1>6. refs > 0 => enabled
  BY <1>1, <1>3 DEF IfOK, At
<1>7. enabled => refs > 0
  BY <1>1, <1>2 DEF Deleting
<1> QED
  BY <1>5, <1>6, <1>7

LEMMA IfStep ==
    ASSUME Overlaps = FALSE, IInv, [Next]_vars
    PROVE  IfOK'
<1> USE DEF nvars, pvars, tvars, At
<1>a. TypeOK /\ CInv /\ CallOK /\ IfOK /\ PoolOK
  BY Parts DEF IInv, CInv
<1>1. ASSUME NEW t \in Threads, RegEnter(t) PROVE IfOK'
  <2>1. enabled' = enabled /\ refs' = refs
    BY <1>1 DEF RegEnter, Call
  <2>2. \A s \in Threads : s # t => pc'[s] = pc[s] /\ why'[s] = why[s]
    BY <1>a, <1>1 DEF RegEnter, Call, TypeOK
  <2>3. pc[t] \notin {"sleep", "delete", "regnic"} /\ pc'[t] \notin {"sleep", "delete", "regnic"}
    BY <1>a, <1>1 DEF RegEnter, Call, TypeOK
  <2>4. Deleters' = Deleters
    BY <2>2, <2>3 DEF Deleters
  <2> QED
    BY <1>a, <2>1, <2>2, <2>3, <2>4 DEF IfOK
<1>2. ASSUME NEW t \in Threads, UnregEnter(t) PROVE IfOK'
  <2>1. enabled' = enabled /\ refs' = refs
    BY <1>2 DEF UnregEnter, Call
  <2>2. \A s \in Threads : s # t => pc'[s] = pc[s] /\ why'[s] = why[s]
    BY <1>a, <1>2 DEF UnregEnter, Call, TypeOK
  <2>3. pc[t] \notin {"sleep", "delete", "regnic"} /\ pc'[t] \notin {"sleep", "delete", "regnic"}
    BY <1>a, <1>2 DEF UnregEnter, Call, TypeOK
  <2>4. Deleters' = Deleters
    BY <2>2, <2>3 DEF Deleters
  <2> QED
    BY <1>a, <2>1, <2>2, <2>3, <2>4 DEF IfOK
<1>3. ASSUME NEW t \in Threads, PollEnter(t) PROVE IfOK'
  <2>1. enabled' = enabled /\ refs' = refs
    BY <1>3 DEF PollEnter, Call
  <2>2. \A s \in Threads : s # t => pc'[s] = pc[s] /\ why'[s] = why[s]
    BY <1>a, <1>3 DEF PollEnter, Call, TypeOK
  <2>3. pc[t] \notin {"sleep", "delete", "regnic"} /\ pc'[t] \notin {"sleep", "delete", "regnic"}
    BY <1>a, <1>3 DEF PollEnter, Call, TypeOK
  <2>4. Deleters' = Deleters
    BY <2>2, <2>3 DEF Deleters
  <2> QED
    BY <1>a, <2>1, <2>2, <2>3, <2>4 DEF IfOK
<1>4. ASSUME NEW t \in Threads, RxSyncEnter(t) PROVE IfOK'
  <2>1. enabled' = enabled /\ refs' = refs
    BY <1>4 DEF RxSyncEnter, Call
  <2>2. \A s \in Threads : s # t => pc'[s] = pc[s] /\ why'[s] = why[s]
    BY <1>a, <1>4 DEF RxSyncEnter, Call, TypeOK
  <2>3. pc[t] \notin {"sleep", "delete", "regnic"} /\ pc'[t] \notin {"sleep", "delete", "regnic"}
    BY <1>a, <1>4 DEF RxSyncEnter, Call, TypeOK
  <2>4. Deleters' = Deleters
    BY <2>2, <2>3 DEF Deleters
  <2> QED
    BY <1>a, <2>1, <2>2, <2>3, <2>4 DEF IfOK
<1>5. ASSUME NEW t \in Threads, RegWait(t) PROVE IfOK'
  <2>1. enabled' = enabled /\ refs' = refs
    BY <1>5 DEF RegWait
  <2>2. \A s \in Threads : s # t => pc'[s] = pc[s] /\ why'[s] = why[s]
    BY <1>a, <1>5 DEF RegWait, TypeOK
  <2>3. pc[t] \notin {"sleep", "delete", "regnic"} /\ pc'[t] \notin {"sleep", "delete", "regnic"}
    BY <1>a, <1>5 DEF RegWait, TypeOK
  <2>4. Deleters' = Deleters
    BY <2>2, <2>3 DEF Deleters
  <2> QED
    BY <1>a, <2>1, <2>2, <2>3, <2>4 DEF IfOK
<1>6. ASSUME NEW t \in Threads, RegBusy(t) PROVE IfOK'
  <2>1. enabled' = enabled /\ refs' = refs
    BY <1>6 DEF RegBusy, RegGiveUp, Return
  <2>2. \A s \in Threads : s # t => pc'[s] = pc[s] /\ why'[s] = why[s]
    BY <1>a, <1>6 DEF RegBusy, RegGiveUp, Return, TypeOK
  <2>3. pc[t] \notin {"sleep", "delete", "regnic"} /\ pc'[t] \notin {"sleep", "delete", "regnic"}
    BY <1>a, <1>6 DEF RegBusy, RegGiveUp, Return, TypeOK
  <2>4. Deleters' = Deleters
    BY <2>2, <2>3 DEF Deleters
  <2> QED
    BY <1>a, <2>1, <2>2, <2>3, <2>4 DEF IfOK
<1>7. ASSUME NEW t \in Threads, RegFull(t) PROVE IfOK'
  <2>1. enabled' = enabled /\ refs' = refs
    BY <1>7 DEF RegFull, Locks, RegGiveUp, Return
  <2>2. \A s \in Threads : s # t => pc'[s] = pc[s] /\ why'[s] = why[s]
    BY <1>a, <1>7 DEF RegFull, Locks, RegGiveUp, Return, TypeOK
  <2>3. pc[t] \notin {"sleep", "delete", "regnic"} /\ pc'[t] \notin {"sleep", "delete", "regnic"}
    BY <1>a, <1>7 DEF RegFull, Locks, RegGiveUp, Return, TypeOK
  <2>4. Deleters' = Deleters
    BY <2>2, <2>3 DEF Deleters
  <2> QED
    BY <1>a, <2>1, <2>2, <2>3, <2>4 DEF IfOK
<1>8. ASSUME NEW t \in Threads, RegNoMem(t) PROVE IfOK'
  <2>1. enabled' = enabled /\ refs' = refs
    BY <1>8 DEF RegNoMem, Locks, RegGiveUp, Return
  <2>2. \A s \in Threads : s # t => pc'[s] = pc[s] /\ why'[s] = why[s]
    BY <1>a, <1>8 DEF RegNoMem, Locks, RegGiveUp, Return, TypeOK
  <2>3. pc[t] \notin {"sleep", "delete", "regnic"} /\ pc'[t] \notin {"sleep", "delete", "regnic"}
    BY <1>a, <1>8 DEF RegNoMem, Locks, RegGiveUp, Return, TypeOK
  <2>4. Deleters' = Deleters
    BY <2>2, <2>3 DEF Deleters
  <2> QED
    BY <1>a, <2>1, <2>2, <2>3, <2>4 DEF IfOK
<1>9. ASSUME NEW t \in Threads, RegNewIf(t) PROVE IfOK'
  <2>2. \A s \in Threads : s # t => pc'[s] = pc[s] /\ why'[s] = why[s]
    BY <1>a, <1>9 DEF RegNewIf, Goto, TypeOK
  <2>3. pc'[t] = "regnic" /\ enabled' = enabled /\ refs' = refs + 1 /\ refs \in Nat
    BY <1>a, <1>9, DpaRegAssumption DEF RegNewIf, Goto, TypeOK
  <2>4. Deleters = {} /\ (enabled <=> refs > 0)
    BY <1>9, CleanWhenLocked DEF RegNewIf
  <2>5. Deleters' = {}
    BY <2>2, <2>3, <2>4 DEF Deleters
  <2> QED
    BY <1>a, <2>2, <2>3, <2>4, <2>5 DEF IfOK, Deleters
<1>10. ASSUME NEW t \in Threads, RegJoin(t) PROVE IfOK'
  <2>2. \A s \in Threads : s # t => pc'[s] = pc[s] /\ why'[s] = why[s]
    BY <1>a, <1>10 DEF RegJoin, Goto, TypeOK
  <2>3. pc'[t] = "regset" /\ pc[t] = "regnic" /\ enabled /\ enabled' = enabled /\ refs' = refs
    BY <1>a, <1>10 DEF RegJoin, Goto, TypeOK
  <2>4. Deleters' = Deleters
    BY <2>2, <2>3 DEF Deleters
  <2> QED
    BY <1>a, <2>2, <2>3, <2>4 DEF IfOK
<1>11. ASSUME NEW t \in Threads, RegNic(t) PROVE IfOK'
  <2>2. \A s \in Threads : s # t => pc'[s] = pc[s] /\ why'[s] = why[s]
    BY <1>a, <1>11 DEF RegNic, Goto, TypeOK
  <2>3. pc'[t] = "regset" /\ pc[t] = "regnic" /\ enabled' /\ refs' = refs
    BY <1>a, <1>11 DEF RegNic, Goto, TypeOK
  <2>4. refs > 0
    BY <1>a, <2>3, RefsPositive
  <2>5. Deleters = {}
    BY <1>a, <2>4 DEF IfOK
  <2>6. Deleters' = {}
    BY <2>2, <2>3, <2>5 DEF Deleters
  <2> QED
    BY <1>a, <2>2, <2>3, <2>4, <2>6 DEF IfOK, Deleters
<1>12. ASSUME NEW t \in Threads, RegNicFails(t) PROVE IfOK'
  <2>2. \A s \in Threads : s # t => pc'[s] = pc[s] /\ why'[s] = why[s]
    BY <1>a, <1>12 DEF RegNicFails, Goto, Return, TypeOK
  <2>3. pc[t] = "regnic" /\ ~enabled /\ refs' = refs - 1
    BY <1>12 DEF RegNicFails
  <2>4. refs > 0
    BY <1>a, <2>3, RefsPositive
  <2>5. refs = 1 /\ Deleters = {}
    BY <1>a, <2>3, <2>4 DEF IfOK
  <2>6. refs' = 0 /\ pc'[t] = "sleep" /\ why'[t] = "reg"
    BY <1>a, <1>12, <2>3, <2>5 DEF RegNicFails, Goto, TypeOK, CallOK
  <2>7. Deleters' = {t}
    BY <2>2, <2>5, <2>6 DEF Deleters
  <2>8. \A s \in Threads : pc'[s] \in {"sleep", "delete"} => s = t
    BY <2>7 DEF Deleters
  <2> QED
    BY <2>6, <2>7, <2>8 DEF IfOK
<1>13. ASSUME NEW t \in Threads, RegSet(t) PROVE IfOK'
  <2>1. enabled' = enabled /\ refs' = refs
    BY <1>13 DEF RegSet, Return
  <2>2. \A s \in Threads : s # t => pc'[s] = pc[s] /\ why'[s] = why[s]
    BY <1>a, <1>13 DEF RegSet, Return, TypeOK
  <2>3. pc[t] \notin {"sleep", "delete", "regnic"} /\ pc'[t] \notin {"sleep", "delete", "regnic"}
    BY <1>a, <1>13 DEF RegSet, Return, TypeOK
  <2>4. Deleters' = Deleters
    BY <2>2, <2>3 DEF Deleters
  <2> QED
    BY <1>a, <2>1, <2>2, <2>3, <2>4 DEF IfOK
<1>14. ASSUME NEW t \in Threads, UnregLock(t) PROVE IfOK'
  <2>2. \A s \in Threads : s # t => pc'[s] = pc[s] /\ why'[s] = why[s]
    BY <1>a, <1>14 DEF UnregLock, Goto, TypeOK
  <2>3. pc[t] = "unreg" /\ lock = None /\ refs' = refs - 1 /\ enabled' = enabled
    BY <1>14 DEF UnregLock
  <2>4. refs > 0 /\ refs \in Nat
    BY <1>a, <2>3, RefsPositive, DpaRegAssumption DEF TypeOK
  <2>5. Deleters = {}
    BY <1>a, <2>4 DEF IfOK
  <2>6. enabled
    BY <1>a, <2>3, <2>4, DpaRegAssumption DEF IfOK, CallOK
  <2>7. pc'[t] = IF refs' <= 0 THEN "sleep" ELSE "free"
    BY <1>a, <1>14 DEF UnregLock, Goto, TypeOK
  <2>8. \A s \in Threads : pc'[s] \in {"sleep", "delete"} => s = t /\ refs' = 0 /\ pc'[s] = "sleep"
    BY <2>2, <2>3, <2>4, <2>5, <2>7 DEF Deleters
  <2>9. refs' = 0 => pc'[t] = "sleep"
    BY <2>7
  <2> QED
    BY <2>3, <2>6, <2>8, <2>9 DEF IfOK, Deleters
<1>15. ASSUME NEW t \in Threads, DelNic(t) PROVE IfOK'
  <2>2. \A s \in Threads : s # t => pc'[s] = pc[s] /\ why'[s] = why[s]
    BY <1>a, <1>15 DEF DelNic, Goto, TypeOK
  <2>3. pc[t] = "sleep" /\ ~enabled' /\ refs' = refs /\ pc'[t] = "delete"
    BY <1>a, <1>15 DEF DelNic, Goto, TypeOK
  <2>4. refs = 0 /\ t \in Deleters
    BY <1>a, <2>3 DEF IfOK, Deleters
  <2>5. \A s \in Deleters : s = t
    BY <1>a, <2>4 DEF IfOK
  <2>6. Deleters' = {t}
    BY <2>2, <2>3, <2>4, <2>5 DEF Deleters
  <2>7. \A s \in Threads : pc'[s] \in {"sleep", "delete"} => s = t
    BY <2>6 DEF Deleters
  <2> QED
    BY <2>3, <2>4, <2>6, <2>7 DEF IfOK
<1>16. ASSUME NEW t \in Threads, DelRings(t) PROVE IfOK'
  <2>2. \A s \in Threads : s # t => pc'[s] = pc[s] /\ why'[s] = why[s]
    BY <1>a, <1>16 DEF DelRings, Goto, Return, TypeOK
  <2>3. pc[t] = "delete" /\ enabled' = enabled /\ refs' = refs /\ pc'[t] \in {"idle", "free"}
    BY <1>a, <1>16 DEF DelRings, Goto, Return, TypeOK
  <2>4. refs = 0 /\ t \in Deleters /\ ~enabled
    BY <1>a, <2>3 DEF IfOK, Deleters
  <2>5. \A s \in Deleters : s = t
    BY <1>a, <2>4 DEF IfOK
  <2>6. Deleters' = {}
    BY <2>2, <2>3, <2>5 DEF Deleters
  <2>7. \A s \in Threads : pc'[s] \notin {"sleep", "delete"}
    BY <2>6 DEF Deleters
  <2> QED
    BY <2>3, <2>4, <2>6, <2>7 DEF IfOK
<1>17. ASSUME NEW t \in Threads, PrivFree(t) PROVE IfOK'
  <2>1. enabled' = enabled /\ refs' = refs
    BY <1>17 DEF PrivFree, Goto
  <2>2. \A s \in Threads : s # t => pc'[s] = pc[s] /\ why'[s] = why[s]
    BY <1>a, <1>17 DEF PrivFree, Goto, TypeOK
  <2>3. pc[t] \notin {"sleep", "delete", "regnic"} /\ pc'[t] \notin {"sleep", "delete", "regnic"}
    BY <1>a, <1>17 DEF PrivFree, Goto, TypeOK
  <2>4. Deleters' = Deleters
    BY <2>2, <2>3 DEF Deleters
  <2> QED
    BY <1>a, <2>1, <2>2, <2>3, <2>4 DEF IfOK
<1>18. ASSUME NEW t \in Threads, PrivClear(t) PROVE IfOK'
  <2>1. enabled' = enabled /\ refs' = refs
    BY <1>18 DEF PrivClear, Return
  <2>2. \A s \in Threads : s # t => pc'[s] = pc[s] /\ why'[s] = why[s]
    BY <1>a, <1>18 DEF PrivClear, Return, TypeOK
  <2>3. pc[t] \notin {"sleep", "delete", "regnic"} /\ pc'[t] \notin {"sleep", "delete", "regnic"}
    BY <1>a, <1>18 DEF PrivClear, Return, TypeOK
  <2>4. Deleters' = Deleters
    BY <2>2, <2>3 DEF Deleters
  <2> QED
    BY <1>a, <2>1, <2>2, <2>3, <2>4 DEF IfOK
<1>19. ASSUME NEW t \in Threads, PollCheck(t) PROVE IfOK'
  <2>1. enabled' = enabled /\ refs' = refs
    BY <1>19 DEF PollCheck, Goto, Return
  <2>2. \A s \in Threads : s # t => pc'[s] = pc[s] /\ why'[s] = why[s]
    BY <1>a, <1>19 DEF PollCheck, Goto, Return, TypeOK
  <2>3. pc[t] \notin {"sleep", "delete", "regnic"} /\ pc'[t] \notin {"sleep", "delete", "regnic"}
    BY <1>a, <1>19 DEF PollCheck, Goto, Return, TypeOK
  <2>4. Deleters' = Deleters
    BY <2>2, <2>3 DEF Deleters
  <2> QED
    BY <1>a, <2>1, <2>2, <2>3, <2>4 DEF IfOK
<1>20. ASSUME NEW t \in Threads, RxSync(t) PROVE IfOK'
  <2>1. enabled' = enabled /\ refs' = refs
    BY <1>20 DEF RxSync, Return
  <2>2. \A s \in Threads : s # t => pc'[s] = pc[s] /\ why'[s] = why[s]
    BY <1>a, <1>20 DEF RxSync, Return, TypeOK
  <2>3. pc[t] \notin {"sleep", "delete", "regnic"} /\ pc'[t] \notin {"sleep", "delete", "regnic"}
    BY <1>a, <1>20 DEF RxSync, Return, TypeOK
  <2>4. Deleters' = Deleters
    BY <2>2, <2>3 DEF Deleters
  <2> QED
    BY <1>a, <2>1, <2>2, <2>3, <2>4 DEF IfOK
<1>21. CASE IfFlags
  BY <1>a, <1>21 DEF IfFlags, IfOK, Deleters
<1>22. CASE OtherNewIf
  BY <1>a, <1>22 DEF OtherNewIf, IfOK, Deleters
<1>23. CASE OtherFree
  BY <1>a, <1>23 DEF OtherFree, IfOK, Deleters
<1>24. CASE UNCHANGED vars
  BY <1>a, <1>24 DEF vars, IfOK, Deleters
<1> QED
  BY <1>1, <1>2, <1>3, <1>4, <1>5, <1>6, <1>7, <1>8, <1>9, <1>10, <1>11, <1>12,
     <1>13, <1>14, <1>15, <1>16, <1>17, <1>18, <1>19, <1>20, <1>21, <1>22, <1>23, <1>24
  DEF Next, Enter, Register, Unregister, Use

LEMMA FinitePool ==
    ASSUME TypeOK
    PROVE  IsFiniteSet(inuse) /\ Cardinality(inuse) \in Nat /\ objFree \in Nat /\ NumObjs \in Nat
<1>1. inuse \in SUBSET Objs /\ objFree \in Nat /\ NumObjs \in Nat
  BY DpaRegAssumption DEF TypeOK
<1>2. IsFiniteSet(Objs)
  BY <1>1, FS_Interval DEF Objs
<1> QED
  BY <1>1, <1>2, FS_Subset, FS_CardinalityType

\* What is taken is missing in the counter, what is given back is counted again.
LEMMA TakeGive ==
    ASSUME TypeOK, PoolExact, NEW o
    PROVE  /\ o \notin inuse /\ inuse' = inuse \cup {o} /\ objFree' = objFree - 1 => PoolExact'
           /\ o \in inuse /\ inuse' = inuse \ {o} /\ objFree' = objFree + 1 => PoolExact'
<1>1. ASSUME o \notin inuse, inuse' = inuse \cup {o}, objFree' = objFree - 1 PROVE PoolExact'
  <2>1. Cardinality(inuse') = Cardinality(inuse) + 1
    BY <1>1, FinitePool, FS_AddElement
  <2> QED
    BY <1>1, <2>1, FinitePool DEF PoolExact
<1>2. ASSUME o \in inuse, inuse' = inuse \ {o}, objFree' = objFree + 1 PROVE PoolExact'
  <2>1. Cardinality(inuse') = Cardinality(inuse) - 1
    BY <1>2, FinitePool, FS_RemoveElement
  <2> QED
    BY <1>2, <2>1, FinitePool DEF PoolExact
<1> QED
  BY <1>1, <1>2

LEMMA PoolTypeStep ==
    ASSUME IInv, [Next]_vars
    PROVE  PoolTypes'
<1> USE DEF nvars, pvars, tvars, At
<1>a. TypeOK /\ CInv /\ CallOK /\ IfOK /\ PoolOK
  BY Parts DEF IInv, CInv
<1>1. ASSUME NEW t \in Threads, RegEnter(t) PROVE PoolTypes'
  BY <1>a, <1>1 DEF RegEnter, TypeOK, PoolTypes
<1>2. ASSUME NEW t \in Threads, UnregEnter(t) PROVE PoolTypes'
  BY <1>a, <1>2 DEF UnregEnter, TypeOK, PoolTypes
<1>3. ASSUME NEW t \in Threads, PollEnter(t) PROVE PoolTypes'
  BY <1>a, <1>3 DEF PollEnter, TypeOK, PoolTypes
<1>4. ASSUME NEW t \in Threads, RxSyncEnter(t) PROVE PoolTypes'
  BY <1>a, <1>4 DEF RxSyncEnter, TypeOK, PoolTypes
<1>5. ASSUME NEW t \in Threads, RegWait(t) PROVE PoolTypes'
  BY <1>a, <1>5 DEF RegWait, TypeOK, PoolTypes
<1>6. ASSUME NEW t \in Threads, RegBusy(t) PROVE PoolTypes'
  BY <1>a, <1>6 DEF RegBusy, RegGiveUp, TypeOK, PoolTypes
<1>7. ASSUME NEW t \in Threads, RegFull(t) PROVE PoolTypes'
  BY <1>a, <1>7 DEF RegFull, RegGiveUp, TypeOK, PoolTypes
<1>8. ASSUME NEW t \in Threads, RegNoMem(t) PROVE PoolTypes'
  BY <1>a, <1>8 DEF RegNoMem, RegGiveUp, TypeOK, PoolTypes
<1>9. ASSUME NEW t \in Threads, RegNewIf(t) PROVE PoolTypes'
  <2>1. CASE refs > 0
    BY <1>a, <1>9, <2>1 DEF RegNewIf, NewIf, TypeOK, PoolTypes
  <2>2. CASE ~(refs > 0)
    <3>1. /\ ring' = Least(Objs \ inuse) /\ inuse' = inuse \cup {ring'} /\ objFree' = objFree - 1
          /\ others' = others /\ objFree > 0
      BY <1>9, <2>2 DEF RegNewIf, NewIf
    <3>2. ring' \in Objs
      BY <1>a, <3>1, FreshObj DEF PoolOK
    <3>3. objFree' \in 0 .. NumObjs
      BY <1>a, <3>1, DpaRegAssumption DEF TypeOK
    <3> QED
      BY <1>a, <3>1, <3>2, <3>3 DEF TypeOK, PoolTypes
  <2> QED
    BY <2>1, <2>2
<1>10. ASSUME NEW t \in Threads, RegJoin(t) PROVE PoolTypes'
  BY <1>a, <1>10 DEF RegJoin, TypeOK, PoolTypes
<1>11. ASSUME NEW t \in Threads, RegNic(t) PROVE PoolTypes'
  BY <1>a, <1>11 DEF RegNic, TypeOK, PoolTypes
<1>12. ASSUME NEW t \in Threads, RegNicFails(t) PROVE PoolTypes'
  BY <1>a, <1>12 DEF RegNicFails, TypeOK, PoolTypes
<1>13. ASSUME NEW t \in Threads, RegSet(t) PROVE PoolTypes'
  BY <1>a, <1>13 DEF RegSet, TypeOK, PoolTypes
<1>14. ASSUME NEW t \in Threads, UnregLock(t) PROVE PoolTypes'
  BY <1>a, <1>14 DEF UnregLock, TypeOK, PoolTypes
<1>15. ASSUME NEW t \in Threads, DelNic(t) PROVE PoolTypes'
  BY <1>a, <1>15 DEF DelNic, TypeOK, PoolTypes
<1>16. ASSUME NEW t \in Threads, DelRings(t) PROVE PoolTypes'
  <2>1. CASE ring = 0
    BY <1>a, <1>16, <2>1 DEF DelRings, TypeOK, PoolTypes
  <2>2. CASE ring # 0
    <3>1. ring \in inuse \ others
      BY <1>a, <1>16 DEF PoolOK, RingsOwned, DelRings, Deleters, At
    <3>2. objFree + 1 \in 0 .. NumObjs
      BY <1>a, <3>1, PoolPositive DEF PoolOK
    <3> QED
      BY <1>a, <1>16, <2>2, <3>1, <3>2 DEF DelRings, TypeOK, PoolTypes
  <2> QED
    BY <2>1, <2>2
<1>17. ASSUME NEW t \in Threads, PrivFree(t) PROVE PoolTypes'
  BY <1>a, <1>17 DEF PrivFree, TypeOK, PoolTypes
<1>18. ASSUME NEW t \in Threads, PrivClear(t) PROVE PoolTypes'
  BY <1>a, <1>18 DEF PrivClear, TypeOK, PoolTypes
<1>19. ASSUME NEW t \in Threads, PollCheck(t) PROVE PoolTypes'
  BY <1>a, <1>19 DEF PollCheck, TypeOK, PoolTypes
<1>20. ASSUME NEW t \in Threads, RxSync(t) PROVE PoolTypes'
  BY <1>a, <1>20 DEF RxSync, TypeOK, PoolTypes
<1>21. CASE IfFlags
  BY <1>a, <1>21 DEF IfFlags, TypeOK, PoolTypes
<1>22. CASE OtherNewIf
  <2>1. Least(Objs \ inuse) \in Objs
    BY <1>a, <1>22, FreshObj DEF TypeOK, PoolTypes, OtherNewIf, PoolOK
  <2>2. objFree - 1 \in 0 .. NumObjs
    BY <1>a, <1>22, DpaRegAssumption DEF TypeOK, PoolTypes, OtherNewIf
  <2> QED
    BY <1>a, <1>22, <2>1, <2>2 DEF TypeOK, PoolTypes, OtherNewIf
<1>23. CASE OtherFree
  <2>1. others # {}
    BY <1>23 DEF TypeOK, PoolTypes, OtherFree
  <2>2. objFree + 1 \in 0 .. NumObjs
    BY <1>a, <2>1, PoolPositive DEF PoolOK
  <2> QED
    BY <1>a, <1>23, <2>2 DEF TypeOK, PoolTypes, OtherFree
<1>24. CASE UNCHANGED vars
  BY <1>a, <1>24 DEF vars, TypeOK, PoolTypes
<1> QED
  BY <1>1, <1>2, <1>3, <1>4, <1>5, <1>6, <1>7, <1>8, <1>9, <1>10, <1>11, <1>12,
     <1>13, <1>14, <1>15, <1>16, <1>17, <1>18, <1>19, <1>20, <1>21, <1>22, <1>23, <1>24
  DEF Next, Enter, Register, Unregister, Use

LEMMA PoolStep ==
    ASSUME Overlaps = FALSE, IInv, [Next]_vars
    PROVE  PoolOK'
<1> USE DEF nvars, pvars, tvars, At
<1>a. TypeOK /\ CInv /\ CallOK /\ IfOK /\ PoolOK
  BY Parts DEF IInv, CInv
<1>1. ASSUME NEW t \in Threads, RegEnter(t) PROVE PoolOK'
  <2>1. refs' = refs /\ ring' = ring /\ inuse' = inuse /\ objFree' = objFree /\ others' = others
    BY <1>1 DEF RegEnter, Call
  <2>2. \A s \in Threads : s # t => pc'[s] = pc[s]
    BY <1>a, <1>1 DEF RegEnter, Call, TypeOK
  <2>3. pc[t] \in {"sleep", "delete"} <=> pc'[t] \in {"sleep", "delete"}
    BY <1>a, <1>1 DEF RegEnter, Call, TypeOK
  <2>4. Deleters' = Deleters
    BY <2>2, <2>3 DEF Deleters
  <2> QED
    BY <1>a, <2>1, <2>4 DEF PoolOK, PoolExact, RingsOwned
<1>2. ASSUME NEW t \in Threads, UnregEnter(t) PROVE PoolOK'
  <2>1. refs' = refs /\ ring' = ring /\ inuse' = inuse /\ objFree' = objFree /\ others' = others
    BY <1>2 DEF UnregEnter, Call
  <2>2. \A s \in Threads : s # t => pc'[s] = pc[s]
    BY <1>a, <1>2 DEF UnregEnter, Call, TypeOK
  <2>3. pc[t] \in {"sleep", "delete"} <=> pc'[t] \in {"sleep", "delete"}
    BY <1>a, <1>2 DEF UnregEnter, Call, TypeOK
  <2>4. Deleters' = Deleters
    BY <2>2, <2>3 DEF Deleters
  <2> QED
    BY <1>a, <2>1, <2>4 DEF PoolOK, PoolExact, RingsOwned
<1>3. ASSUME NEW t \in Threads, PollEnter(t) PROVE PoolOK'
  <2>1. refs' = refs /\ ring' = ring /\ inuse' = inuse /\ objFree' = objFree /\ others' = others
    BY <1>3 DEF PollEnter, Call
  <2>2. \A s \in Threads : s # t => pc'[s] = pc[s]
    BY <1>a, <1>3 DEF PollEnter, Call, TypeOK
  <2>3. pc[t] \in {"sleep", "delete"} <=> pc'[t] \in {"sleep", "delete"}
    BY <1>a, <1>3 DEF PollEnter, Call, TypeOK
  <2>4. Deleters' = Deleters
    BY <2>2, <2>3 DEF Deleters
  <2> QED
    BY <1>a, <2>1, <2>4 DEF PoolOK, PoolExact, RingsOwned
<1>4. ASSUME NEW t \in Threads, RxSyncEnter(t) PROVE PoolOK'
  <2>1. refs' = refs /\ ring' = ring /\ inuse' = inuse /\ objFree' = objFree /\ others' = others
    BY <1>4 DEF RxSyncEnter, Call
  <2>2. \A s \in Threads : s # t => pc'[s] = pc[s]
    BY <1>a, <1>4 DEF RxSyncEnter, Call, TypeOK
  <2>3. pc[t] \in {"sleep", "delete"} <=> pc'[t] \in {"sleep", "delete"}
    BY <1>a, <1>4 DEF RxSyncEnter, Call, TypeOK
  <2>4. Deleters' = Deleters
    BY <2>2, <2>3 DEF Deleters
  <2> QED
    BY <1>a, <2>1, <2>4 DEF PoolOK, PoolExact, RingsOwned
<1>5. ASSUME NEW t \in Threads, RegWait(t) PROVE PoolOK'
  <2>1. refs' = refs /\ ring' = ring /\ inuse' = inuse /\ objFree' = objFree /\ others' = others
    BY <1>5 DEF RegWait
  <2>2. \A s \in Threads : s # t => pc'[s] = pc[s]
    BY <1>a, <1>5 DEF RegWait, TypeOK
  <2>3. pc[t] \in {"sleep", "delete"} <=> pc'[t] \in {"sleep", "delete"}
    BY <1>a, <1>5 DEF RegWait, TypeOK
  <2>4. Deleters' = Deleters
    BY <2>2, <2>3 DEF Deleters
  <2> QED
    BY <1>a, <2>1, <2>4 DEF PoolOK, PoolExact, RingsOwned
<1>6. ASSUME NEW t \in Threads, RegBusy(t) PROVE PoolOK'
  <2>1. refs' = refs /\ ring' = ring /\ inuse' = inuse /\ objFree' = objFree /\ others' = others
    BY <1>6 DEF RegBusy, RegGiveUp, Return
  <2>2. \A s \in Threads : s # t => pc'[s] = pc[s]
    BY <1>a, <1>6 DEF RegBusy, RegGiveUp, Return, TypeOK
  <2>3. pc[t] \in {"sleep", "delete"} <=> pc'[t] \in {"sleep", "delete"}
    BY <1>a, <1>6 DEF RegBusy, RegGiveUp, Return, TypeOK
  <2>4. Deleters' = Deleters
    BY <2>2, <2>3 DEF Deleters
  <2> QED
    BY <1>a, <2>1, <2>4 DEF PoolOK, PoolExact, RingsOwned
<1>7. ASSUME NEW t \in Threads, RegFull(t) PROVE PoolOK'
  <2>1. refs' = refs /\ ring' = ring /\ inuse' = inuse /\ objFree' = objFree /\ others' = others
    BY <1>7 DEF RegFull, Locks, RegGiveUp, Return
  <2>2. \A s \in Threads : s # t => pc'[s] = pc[s]
    BY <1>a, <1>7 DEF RegFull, Locks, RegGiveUp, Return, TypeOK
  <2>3. pc[t] \in {"sleep", "delete"} <=> pc'[t] \in {"sleep", "delete"}
    BY <1>a, <1>7 DEF RegFull, Locks, RegGiveUp, Return, TypeOK
  <2>4. Deleters' = Deleters
    BY <2>2, <2>3 DEF Deleters
  <2> QED
    BY <1>a, <2>1, <2>4 DEF PoolOK, PoolExact, RingsOwned
<1>8. ASSUME NEW t \in Threads, RegNoMem(t) PROVE PoolOK'
  <2>2. \A s \in Threads : s # t => pc'[s] = pc[s]
    BY <1>a, <1>8 DEF RegNoMem, RegGiveUp, Return, TypeOK
  <2>3. /\ pc'[t] = "idle" /\ refs' = refs /\ ~(refs > 0)
        /\ inuse' = inuse /\ objFree' = objFree /\ others' = others
    BY <1>a, <1>8, DpaRegAssumption DEF RegNoMem, RegGiveUp, Return, TypeOK
  <2>4. Deleters = {}
    BY <1>8, CleanWhenLocked DEF RegNoMem
  <2>5. Deleters' = {}
    BY <2>2, <2>3, <2>4 DEF Deleters
  <2> QED
    BY <1>a, <2>3, <2>4, <2>5 DEF PoolOK, PoolExact
<1>9. ASSUME NEW t \in Threads, RegNewIf(t) PROVE PoolOK'
  <2>2. \A s \in Threads : s # t => pc'[s] = pc[s]
    BY <1>a, <1>9 DEF RegNewIf, Goto, TypeOK
  <2>3. refs' = refs + 1 /\ refs \in Nat
    BY <1>a, <1>9, DpaRegAssumption DEF RegNewIf, TypeOK
  <2>4. Deleters = {}
    BY <1>9, CleanWhenLocked DEF RegNewIf
  <2>5. CASE refs > 0
    <3>1. ring' = ring /\ inuse' = inuse /\ objFree' = objFree /\ others' = others
      BY <1>9, <2>5 DEF RegNewIf, NewIf
    <3> QED
      BY <1>a, <2>3, <2>5, <3>1 DEF PoolOK, PoolExact, RingsOwned
  <2>6. CASE ~(refs > 0)
    <3>1. ring' = Least(Objs \ inuse) /\ inuse' = inuse \cup {ring'} /\ objFree' = objFree - 1
          /\ others' = others /\ objFree > 0
      BY <1>9, <2>6 DEF RegNewIf, NewIf
    <3>2. ring' \in Objs /\ ring' \notin inuse
      BY <1>a, <3>1, FreshObj DEF PoolOK
    <3>3. PoolExact'
      BY <1>a, <3>1, <3>2, TakeGive DEF PoolOK
    <3>4. inuse = others
      BY <1>a, <2>4, <2>6 DEF PoolOK
    <3> QED
      BY <2>3, <3>1, <3>2, <3>3, <3>4 DEF PoolOK, RingsOwned
  <2> QED
    BY <2>5, <2>6
<1>10. ASSUME NEW t \in Threads, RegJoin(t) PROVE PoolOK'
  <2>1. refs' = refs /\ ring' = ring /\ inuse' = inuse /\ objFree' = objFree /\ others' = others
    BY <1>10 DEF RegJoin, Goto
  <2>2. \A s \in Threads : s # t => pc'[s] = pc[s]
    BY <1>a, <1>10 DEF RegJoin, Goto, TypeOK
  <2>3. pc[t] \in {"sleep", "delete"} <=> pc'[t] \in {"sleep", "delete"}
    BY <1>a, <1>10 DEF RegJoin, Goto, TypeOK
  <2>4. Deleters' = Deleters
    BY <2>2, <2>3 DEF Deleters
  <2> QED
    BY <1>a, <2>1, <2>4 DEF PoolOK, PoolExact, RingsOwned
<1>11. ASSUME NEW t \in Threads, RegNic(t) PROVE PoolOK'
  <2>1. refs' = refs /\ ring' = ring /\ inuse' = inuse /\ objFree' = objFree /\ others' = others
    BY <1>11 DEF RegNic, SetPromisc, Goto
  <2>2. \A s \in Threads : s # t => pc'[s] = pc[s]
    BY <1>a, <1>11 DEF RegNic, SetPromisc, Goto, TypeOK
  <2>3. pc[t] \in {"sleep", "delete"} <=> pc'[t] \in {"sleep", "delete"}
    BY <1>a, <1>11 DEF RegNic, SetPromisc, Goto, TypeOK
  <2>4. Deleters' = Deleters
    BY <2>2, <2>3 DEF Deleters
  <2> QED
    BY <1>a, <2>1, <2>4 DEF PoolOK, PoolExact, RingsOwned
<1>12. ASSUME NEW t \in Threads, RegNicFails(t) PROVE PoolOK'
  <2>2. \A s \in Threads : s # t => pc'[s] = pc[s]
    BY <1>a, <1>12 DEF RegNicFails, Goto, Return, TypeOK
  <2>3. /\ pc[t] = "regnic" /\ ~enabled /\ refs' = refs - 1
        /\ ring' = ring /\ inuse' = inuse /\ objFree' = objFree /\ others' = others
    BY <1>12 DEF RegNicFails
  <2>4. refs > 0
    BY <1>a, <2>3, RefsPositive
  <2>5. refs = 1
    BY <1>a, <2>3, <2>4 DEF IfOK
  <2>6. pc'[t] = "sleep"
    BY <1>a, <1>12, <2>3, <2>5 DEF RegNicFails, Goto, TypeOK
  <2>7. Deleters' # {}
    BY <2>6 DEF Deleters
  <2> QED
    BY <1>a, <2>3, <2>4, <2>7 DEF PoolOK, PoolExact, RingsOwned
<1>13. ASSUME NEW t \in Threads, RegSet(t) PROVE PoolOK'
  <2>1. refs' = refs /\ ring' = ring /\ inuse' = inuse /\ objFree' = objFree /\ others' = others
    BY <1>13 DEF RegSet, Return
  <2>2. \A s \in Threads : s # t => pc'[s] = pc[s]
    BY <1>a, <1>13 DEF RegSet, Return, TypeOK
  <2>3. pc[t] \in {"sleep", "delete"} <=> pc'[t] \in {"sleep", "delete"}
    BY <1>a, <1>13 DEF RegSet, Return, TypeOK
  <2>4. Deleters' = Deleters
    BY <2>2, <2>3 DEF Deleters
  <2> QED
    BY <1>a, <2>1, <2>4 DEF PoolOK, PoolExact, RingsOwned
<1>14. ASSUME NEW t \in Threads, UnregLock(t) PROVE PoolOK'
  <2>3. /\ pc[t] = "unreg" /\ refs' = refs - 1
        /\ ring' = ring /\ inuse' = inuse /\ objFree' = objFree /\ others' = others
    BY <1>14 DEF UnregLock
  <2>4. refs > 0 /\ refs \in Nat
    BY <1>a, <2>3, RefsPositive, DpaRegAssumption DEF TypeOK
  <2>5. pc'[t] = IF refs' <= 0 THEN "sleep" ELSE "free"
    BY <1>a, <1>14 DEF UnregLock, Goto, TypeOK
  <2>6. refs' > 0 \/ Deleters' # {}
    BY <2>3, <2>4, <2>5 DEF Deleters
  <2> QED
    BY <1>a, <2>3, <2>4, <2>6 DEF PoolOK, PoolExact, RingsOwned
<1>15. ASSUME NEW t \in Threads, DelNic(t) PROVE PoolOK'
  <2>1. refs' = refs /\ ring' = ring /\ inuse' = inuse /\ objFree' = objFree /\ others' = others
    BY <1>15 DEF DelNic, ClearPromisc, Goto
  <2>2. \A s \in Threads : s # t => pc'[s] = pc[s]
    BY <1>a, <1>15 DEF DelNic, ClearPromisc, Goto, TypeOK
  <2>3. pc[t] \in {"sleep", "delete"} <=> pc'[t] \in {"sleep", "delete"}
    BY <1>a, <1>15 DEF DelNic, ClearPromisc, Goto, TypeOK
  <2>4. Deleters' = Deleters
    BY <2>2, <2>3 DEF Deleters
  <2> QED
    BY <1>a, <2>1, <2>4 DEF PoolOK, PoolExact, RingsOwned
<1>16. ASSUME NEW t \in Threads, DelRings(t) PROVE PoolOK'
  <2>2. \A s \in Threads : s # t => pc'[s] = pc[s]
    BY <1>a, <1>16 DEF DelRings, Goto, Return, TypeOK
  <2>3. pc[t] = "delete" /\ refs' = refs /\ pc'[t] \in {"idle", "free"} /\ ring' = ring
    BY <1>a, <1>16 DEF DelRings, Goto, Return, TypeOK
  <2>4. refs = 0 /\ t \in Deleters
    BY <1>a, <2>3 DEF IfOK, Deleters
  <2>5. \A s \in Deleters : s = t
    BY <1>a, <2>4 DEF IfOK
  <2>6. Deleters' = {}
    BY <2>2, <2>3, <2>5 DEF Deleters
  <2>7. ring \in inuse /\ ring \notin others /\ inuse = others \cup {ring}
    BY <1>a, <2>4 DEF PoolOK, RingsOwned
  <2>8. ring # 0
    BY <1>a, <2>7, DpaRegAssumption DEF TypeOK, Objs
  <2>9. inuse' = inuse \ {ring} /\ objFree' = objFree + 1 /\ others' = others
    BY <1>16, <2>8 DEF DelRings
  <2>10. PoolExact'
    BY <1>a, <2>7, <2>9, TakeGive DEF PoolOK
  <2>11. inuse' = others'
    BY <2>7, <2>9
  <2> QED
    BY <2>3, <2>4, <2>6, <2>10, <2>11 DEF PoolOK
<1>17. ASSUME NEW t \in Threads, PrivFree(t) PROVE PoolOK'
  <2>1. refs' = refs /\ ring' = ring /\ inuse' = inuse /\ objFree' = objFree /\ others' = others
    BY <1>17 DEF PrivFree, Goto
  <2>2. \A s \in Threads : s # t => pc'[s] = pc[s]
    BY <1>a, <1>17 DEF PrivFree, Goto, TypeOK
  <2>3. pc[t] \in {"sleep", "delete"} <=> pc'[t] \in {"sleep", "delete"}
    BY <1>a, <1>17 DEF PrivFree, Goto, TypeOK
  <2>4. Deleters' = Deleters
    BY <2>2, <2>3 DEF Deleters
  <2> QED
    BY <1>a, <2>1, <2>4 DEF PoolOK, PoolExact, RingsOwned
<1>18. ASSUME NEW t \in Threads, PrivClear(t) PROVE PoolOK'
  <2>1. refs' = refs /\ ring' = ring /\ inuse' = inuse /\ objFree' = objFree /\ others' = others
    BY <1>18 DEF PrivClear, Return
  <2>2. \A s \in Threads : s # t => pc'[s] = pc[s]
    BY <1>a, <1>18 DEF PrivClear, Return, TypeOK
  <2>3. pc[t] \in {"sleep", "delete"} <=> pc'[t] \in {"sleep", "delete"}
    BY <1>a, <1>18 DEF PrivClear, Return, TypeOK
  <2>4. Deleters' = Deleters
    BY <2>2, <2>3 DEF Deleters
  <2> QED
    BY <1>a, <2>1, <2>4 DEF PoolOK, PoolExact, RingsOwned
<1>19. ASSUME NEW t \in Threads, PollCheck(t) PROVE PoolOK'
  <2>1. refs' = refs /\ ring' = ring /\ inuse' = inuse /\ objFree' = objFree /\ others' = others
    BY <1>19 DEF PollCheck, Goto, Return
  <2>2. \A s \in Threads : s # t => pc'[s] = pc[s]
    BY <1>a, <1>19 DEF PollCheck, Goto, Return, TypeOK
  <2>3. pc[t] \in {"sleep", "delete"} <=> pc'[t] \in {"sleep", "delete"}
    BY <1>a, <1>19 DEF PollCheck, Goto, Return, TypeOK
  <2>4. Deleters' = Deleters
    BY <2>2, <2>3 DEF Deleters
  <2> QED
    BY <1>a, <2>1, <2>4 DEF PoolOK, PoolExact, RingsOwned
<1>20. ASSUME NEW t \in Threads, RxSync(t) PROVE PoolOK'
  <2>1. refs' = refs /\ ring' = ring /\ inuse' = inuse /\ objFree' = objFree /\ others' = others
    BY <1>20 DEF RxSync, Return
  <2>2. \A s \in Threads : s # t => pc'[s] = pc[s]
    BY <1>a, <1>20 DEF RxSync, Return, TypeOK
  <2>3. pc[t] \in {"sleep", "delete"} <=> pc'[t] \in {"sleep", "delete"}
    BY <1>a, <1>20 DEF RxSync, Return, TypeOK
  <2>4. Deleters' = Deleters
    BY <2>2, <2>3 DEF Deleters
  <2> QED
    BY <1>a, <2>1, <2>4 DEF PoolOK, PoolExact, RingsOwned
<1>21. CASE IfFlags
  BY <1>a, <1>21 DEF IfFlags, PoolOK, PoolExact, RingsOwned, Deleters
<1>22. CASE OtherNewIf
  <2>1. Least(Objs \ inuse) \in Objs \ inuse
    BY <1>a, <1>22, FreshObj DEF OtherNewIf, PoolOK
  <2>2. PICK o \in Objs \ inuse : inuse' = inuse \cup {o} /\ others' = others \cup {o}
                                  /\ objFree' = objFree - 1
    BY <1>22, <2>1 DEF OtherNewIf
  <2>3. PoolExact'
    BY <1>a, <2>2, TakeGive DEF PoolOK
  <2>4. refs' = refs /\ ring' = ring /\ Deleters' = Deleters
    BY <1>22 DEF OtherNewIf, Deleters
  <2> QED
    BY <1>a, <2>2, <2>3, <2>4 DEF PoolOK, RingsOwned
<1>23. CASE OtherFree
  <2>2. PICK o \in others : inuse' = inuse \ {o} /\ others' = others \ {o} /\ objFree' = objFree + 1
    BY <1>23 DEF OtherFree
  <2>3. o \in inuse
    BY <1>a, <2>2 DEF TypeOK
  <2>4. PoolExact'
    BY <1>a, <2>2, <2>3, TakeGive DEF PoolOK
  <2>5. refs' = refs /\ ring' = ring /\ Deleters' = Deleters
    BY <1>23 DEF OtherFree, Deleters
  <2> QED
    BY <1>a, <2>2, <2>3, <2>4, <2>5 DEF PoolOK, RingsOwned
<1>24. CASE UNCHANGED vars
  BY <1>a, <1>24 DEF vars, PoolOK, PoolExact, RingsOwned, Deleters
<1> QED
  BY <1>1, <1>2, <1>3, <1>4, <1>5, <1>6, <1>7, <1>8, <1>9, <1>10, <1>11, <1>12,
     <1>13, <1>14, <1>15, <1>16, <1>17, <1>18, <1>19, <1>20, <1>21, <1>22, <1>23, <1>24
  DEF Next, Enter, Register, Unregister, Use

----------------------------------------------------------------------------
(* The inductive invariants.                                               *)

LEMMA InitCore == ASSUME Init PROVE CInv
<1>1. Registered = {} /\ Leavers = {} /\ Making = {}
  BY DEF Init, Registered, Leavers, Making, At
<1>2. CountOK
  BY <1>1, FS_EmptySet DEF Init, CountOK
<1>3. ThreadTypes
  BY DpaRegAssumption DEF Init, ThreadTypes, Labels, Calls
<1>4. RegTypes
  <2>1. 0 \in 0 .. Word - 1 /\ 0 \in 0 .. NumRings
    BY DpaRegAssumption
  <2> QED
    BY <2>1 DEF Init, RegTypes
<1>5. CallOK
  BY DpaRegAssumption DEF Init, CallOK, At
<1>6. Live = {} /\ privs = {} /\ \A t \in Threads : why[t] = "none"
  BY DEF Init, Live
<1>7. PrivOK
  BY <1>6 DEF PrivOK
<1> QED
  BY <1>2, <1>3, <1>4, <1>5, <1>7 DEF CInv

LEMMA InitPool == ASSUME Init PROVE PoolTypes /\ IfOK /\ PoolOK
<1>1. Deleters = {}
  BY DEF Init, Deleters, At
<1>2. PoolTypes
  BY DpaRegAssumption DEF Init, PoolTypes
<1>3. IfOK
  BY <1>1 DEF Init, IfOK, At
<1>4. PoolExact
  BY DpaRegAssumption, FS_EmptySet DEF Init, PoolExact
<1>5. PoolOK
  BY <1>1, <1>4 DEF Init, PoolOK
<1> QED
  BY <1>2, <1>3, <1>5

\* Who is in a call, which dpa_priv belongs to whom and how many registrations are counted
\* stay right in every interleaving: dpa_reg_if and dpa_destructor change the counter and
\* the pointers under reg_lock, or on a file that no other call uses.
THEOREM Ownership == Spec => []CInv
<1>1. Init => CInv
  BY InitCore
<1>2. CInv /\ [Next]_vars => CInv'
  BY ThreadTypeStep, RegTypeStep, CallStep, PrivStep, CountStep DEF CInv
<1> QED
  BY <1>1, <1>2, PTL DEF Spec

\* dadp->refs is the number of registrations that are made and not being taken back, also
\* while a registration that failed is taken back by dpa_destructor_locked.
THEOREM Counted == Spec => []RefsAgree
<1>1. CInv => RefsAgree
  <2>1. SUFFICES ASSUME CInv PROVE RefsAgree
    OBVIOUS
  <2>2. refs = Cardinality(Registered) + Cardinality(Leavers) + Cardinality(Making)
    BY <2>1 DEF CInv, CountOK
  <2> QED
    BY <2>2 DEF RefsAgree, Leavers, Making
<1> QED
  BY <1>1, Ownership, PTL

\* If nobody registers while a registration that failed is taken back, the interface and
\* the pool are right as well: one thread deletes the rings, after the last registration
\* and before the next.
THEOREM Holding == ASSUME Overlaps = FALSE PROVE Spec => []IInv
<1>1. Init => IInv
  BY InitCore, InitPool DEF IInv
<1>2. IInv /\ [Next]_vars => IInv'
  <2>1. SUFFICES ASSUME IInv, [Next]_vars PROVE IInv'
    OBVIOUS
  <2>2. CInv'
    BY <2>1, ThreadTypeStep, RegTypeStep, CallStep, PrivStep, CountStep DEF IInv, CInv
  <2>3. PoolTypes' /\ IfOK' /\ PoolOK'
    BY <2>1, PoolTypeStep, IfStep, PoolStep
  <2> QED
    BY <2>2, <2>3 DEF IInv
<1> QED
  BY <1>1, <1>2, PTL DEF Spec

\* The variables keep their types: refs stays within num_rx_rings, promiscuity within its
\* width, obj_free within the pool.
THEOREM Typing == ASSUME Overlaps = FALSE PROVE Spec => []TypeOK
<1>1. IInv => TypeOK
  BY Parts DEF IInv, CInv
<1> QED
  BY <1>1, Holding, PTL

\* Rings and buffers of the pool are given back exactly once: obj_free agrees with bitmap.
THEOREM PoolKept == ASSUME Overlaps = FALSE PROVE Spec => []PoolExact
<1>1. IInv => PoolExact
  BY DEF IInv, PoolOK
<1> QED
  BY <1>1, Holding, PTL

\* A file that is registered, and that nobody unregisters, has its interface captured and
\* its rings allocated, however registrations of other files come and go.
THEOREM Receiving == ASSUME Overlaps = FALSE PROVE Spec => []RegisteredCanReceive
<1>1. IInv => RegisteredCanReceive
  <2>1. SUFFICES ASSUME IInv, NEW f \in Registered PROVE enabled /\ RingsOwned
    BY DEF RegisteredCanReceive
  <2>2. CInv /\ IfOK /\ PoolOK /\ CountOK
    BY <2>1 DEF IInv, CInv
  <2>3. Registered # {}
    OBVIOUS
  <2>4. refs > 0
    BY <2>2, <2>3, RefsPositive
  <2>5. RingsOwned
    BY <2>2, <2>4 DEF PoolOK
  <2>6. ASSUME ~enabled PROVE FALSE
    <3>1. PICK t \in Threads : At(t, "regnic")
      BY <2>2, <2>4, <2>6 DEF IfOK
    <3>2. Making # {} /\ refs = 1
      BY <2>2, <2>4, <2>6, <3>1 DEF IfOK, Making
    <3>3. Cardinality(Making) > 0 /\ Cardinality(Registered) > 0
      BY <2>3, <3>2, Finite, FS_EmptySet
    <3> QED
      BY <2>2, <3>2, <3>3, Finite DEF CountOK
  <2> QED
    BY <2>5, <2>6
<1> QED
  BY <1>1, Holding, PTL

\* DIOCUNREGIF, poll and DIOCRXSYNC never use a dpa_priv that another call has freed, and
\* DIOCRXSYNC never uses rings that were given back.
THEOREM NoDangling == ASSUME Overlaps = FALSE PROVE Spec => []NoUseAfterFree
<1>1. IInv => NoUseAfterFree
  <2>1. SUFFICES ASSUME IInv, NEW t \in Threads, pc[t] \in {"poll", "unreg", "sync"}
        PROVE  priv[t] \in privs /\ (At(t, "sync") => RingsOwned)
    BY DEF NoUseAfterFree, At
  <2>2. CInv /\ ThreadTypes /\ CallOK /\ PrivOK /\ PoolOK
    BY <2>1 DEF IInv, CInv
  <2>3. /\ why[t] = IF pc[t] = "unreg" THEN "unreg" ELSE "use"
        /\ file[t] \in Files
        /\ \A s \in Threads : file[s] = file[t] => s = t
    BY <2>1, <2>2 DEF CallOK, ThreadTypes, At
  <2>4. private[file[t]] # 0 /\ priv[t] = private[file[t]]
    BY <2>2, <2>3 DEF PrivOK
  <2>5. file[t] \in Live
    BY <2>1, <2>3, <2>4 DEF Live, At
  <2>6. priv[t] \in privs
    BY <2>2, <2>4, <2>5 DEF PrivOK
  <2>7. ASSUME At(t, "sync") PROVE RingsOwned
    <3>1. file[t] \in Registered
      BY <2>3, <2>4, <2>7 DEF Registered, Leaving, At
    <3>2. refs > 0
      BY <2>2, <3>1, RefsPositive
    <3> QED
      BY <2>2, <3>2 DEF PoolOK
  <2> QED
    BY <2>6, <2>7
<1> QED
  BY <1>1, Holding, PTL

\* When the last registration has been taken back nothing of it is left: the interface is
\* released, the pool has everything back, no dpa_priv and no private_data remain.
THEOREM CleanedUp == ASSUME Overlaps = FALSE PROVE Spec => []NothingLeft
<1>1. IInv => NothingLeft
  <2>1. SUFFICES ASSUME IInv, Quiet
        PROVE  ~enabled /\ inuse = others /\ privs = {} /\ \A f \in Files : private[f] = 0
    BY DEF NothingLeft
  <2>2. CInv /\ ThreadTypes /\ CallOK /\ PrivOK /\ CountOK /\ IfOK /\ PoolOK
    BY <2>1 DEF IInv, CInv
  <2>3. refs = 0 /\ \A t \in Threads : pc[t] = "idle" /\ why[t] = "none"
    BY <2>1, <2>2 DEF Quiet, CallOK, At
  <2>4. Deleters = {} /\ Leavers = {} /\ Making = {}
    BY <2>3 DEF Deleters, Leavers, Making, At
  <2>5. ~enabled
    BY <2>2, <2>3, <2>4 DEF IfOK
  <2>6. inuse = others
    BY <2>2, <2>3, <2>4 DEF PoolOK
  <2>7. Registered = {}
    <3>1. Cardinality(Registered) = 0
      BY <2>2, <2>3, <2>4, Finite, FS_EmptySet DEF CountOK
    <3> QED
      BY <3>1, Finite, FS_EmptySet
  <2>8. \A f \in Files : private[f] = 0
    BY <2>3, <2>7 DEF Registered, Leaving
  <2>9. Live = {}
    BY <2>8 DEF Live
  <2>10. privs = {}
    BY <2>2, <2>3, <2>9 DEF PrivOK
  <2> QED
    BY <2>5, <2>6, <2>8, <2>10
<1> QED
  BY <1>1, Holding, PTL

=============================================================================
