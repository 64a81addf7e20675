------------------------------- MODULE DpaReg -------------------------------
(***************************************************************************)
(* Registration of /dev/dpa files to one interface: DIOCREGIF, DIOCUNREGIF *)
(* and close, the deletion of the rings with the last registration, and    *)
(* the calls that use a registration while others come and go.             *)
(*                                                                         *)
(* The rings and packet buffers of the interface are taken and given back  *)
(* together, and are one object of the pool here; other interfaces use the *)
(* same pool.  A struct dpa_priv is a number.  reg_lock is `lock'; the ten *)
(* milliseconds that the code sleeps without it are the time between two   *)
(* steps.  A file is used by one thread at a time.                         *)
(***************************************************************************)
EXTENDS Integers, FiniteSets

CONSTANTS
    Threads,      \* threads that make system calls
    Files,        \* open files of /dev/dpa
    NumRings,     \* num_rx_rings, which bounds refs
    NumObjs,      \* sets of rings and buffers the pool has
    Tries,        \* turns of dpa_reg_if's loop while the interface is being deleted
    Word,         \* 2^32 in the kernel, where promiscuity is an unsigned int
    Overlaps      \* FALSE: nobody registers while a registration that failed is taken back

None == "none"       \* no thread, no file

ASSUME DpaRegAssumption ==
    /\ IsFiniteSet(Threads) /\ IsFiniteSet(Files) /\ None \notin Threads \cup Files
    /\ NumRings \in Nat \ {0} /\ NumObjs \in Nat /\ Tries \in Nat \ {0}
    /\ Word \in Nat \ {0, 1}
    /\ Overlaps \in BOOLEAN

VARIABLES
    up,                   \* IFF_UP
    enabled, refs, ring,  \* DPA_IF_ENABLE, dadp->refs, kring->ring (0: NULL)
    lock,                 \* who holds reg_lock
    promisc,              \* netdev->promiscuity, which nobody else changes
    inuse, objFree,       \* the pool: clear bits of bitmap, obj_free
    others,               \* those of inuse that other interfaces have
    privs, private,       \* allocated dpa_privs; private_data of each file (0: NULL)
    pc, file, priv, left, \* of each thread: where it is, its file, its dpa_priv, the
    why                   \* turns left, the call it makes

nvars == <<up, enabled, promisc, ring>>
pvars == <<inuse, objFree, others>>
tvars == <<pc, file, priv, left, why>>
vars == <<nvars, refs, lock, pvars, privs, private, tvars>>

Objs == 1 .. NumObjs
Privs == 1 .. Cardinality(Threads) + Cardinality(Files)

Least(S) == CHOOSE x \in S : \A y \in S : x <= y

\* DPA_IF_DELETING
MDeleting == FALSE                                 \* mistake: it is not looked at
Deleting == refs = 0 /\ enabled

\* __dev_set_promiscuity: setting fails if the counter would wrap, and leaves it
PromiscFails == (promisc + 1) % Word = 0
SetPromisc == promisc' = IF PromiscFails THEN promisc ELSE promisc + 1
ClearPromisc == promisc' = (promisc - 1) % Word

Init ==
    /\ up = TRUE /\ enabled = FALSE /\ promisc = 0 /\ refs = 0 /\ ring = 0
    /\ lock = None
    /\ inuse = {} /\ objFree = NumObjs /\ others = {}
    /\ privs = {} /\ private = [f \in Files |-> 0]
    /\ pc = [t \in Threads |-> "idle"] /\ file = [t \in Threads |-> None]
    /\ priv = [t \in Threads |-> 0] /\ left = [t \in Threads |-> 0]
    /\ why = [t \in Threads |-> "none"]

At(t, label) == pc[t] = label
Goto(t, label) == pc' = [pc EXCEPT ![t] = label] /\ UNCHANGED <<file, priv, left, why>>

\* the end of a call
Return(t) ==
    /\ pc' = [pc EXCEPT ![t] = "idle"] /\ file' = [file EXCEPT ![t] = None]
    /\ priv' = [priv EXCEPT ![t] = 0] /\ left' = [left EXCEPT ![t] = 0]
    /\ why' = [why EXCEPT ![t] = "none"]

\* the start of one
Call(t, f, p, call, label) ==
    /\ At(t, "idle")
    /\ \A other \in Threads : file[other] # f
    /\ pc' = [pc EXCEPT ![t] = label] /\ file' = [file EXCEPT ![t] = f]
    /\ priv' = [priv EXCEPT ![t] = p] /\ why' = [why EXCEPT ![t] = call]
    /\ left' = [left EXCEPT ![t] = IF call = "reg" THEN Tries ELSE 0]

----------------------------------------------------------------------------
(* DIOCREGIF.  On a file that is registered it only chooses other rings.    *)

RegEnter(t) ==
    /\ \E f \in Files :
          /\ private[f] = 0
          /\ LET p == Least(Privs \ privs)
             IN  Call(t, f, p, "reg", "reg") /\ privs' = privs \cup {p}
    /\ UNCHANGED <<nvars, refs, lock, pvars, private>>

RegGiveUp(t) ==
    /\ privs' = privs \ {priv[t]}
    /\ Return(t)
    /\ UNCHANGED <<up, enabled, promisc, refs, pvars, private>>

\* being deleted: try again, or give up
RegWait(t) ==
    /\ At(t, "reg") /\ lock = None /\ Deleting /\ left[t] > 1
    /\ left' = [left EXCEPT ![t] = left[t] - 1]
    /\ UNCHANGED <<nvars, refs, lock, pvars, privs, private, pc, file, priv, why>>

RegBusy(t) ==
    /\ At(t, "reg") /\ lock = None /\ Deleting /\ left[t] = 1
    /\ RegGiveUp(t)
    /\ UNCHANGED <<ring, lock>>

FailedLeaves == \E t \in Threads : At(t, "sleep") /\ why[t] = "reg"
Locks(t) == At(t, "reg") /\ lock = None /\ ~Deleting /\ (Overlaps \/ ~FailedLeaves)

\* no more files than rings
RegFull(t) ==
    /\ Locks(t) /\ refs = NumRings
    /\ RegGiveUp(t)
    /\ UNCHANGED <<ring, lock>>

\* dpa_new_if: the first registration takes rings and buffers from the pool
NewIf ==
    IF refs > 0
      THEN UNCHANGED <<ring, pvars>>
      ELSE /\ ring' = Least(Objs \ inuse)
           /\ inuse' = inuse \cup {ring'}
           /\ objFree' = objFree - 1
           /\ UNCHANGED others

RegNoMem(t) ==
    /\ Locks(t) /\ refs # NumRings
    /\ refs <= 0 /\ objFree = 0
    /\ ring' = 0
    /\ RegGiveUp(t)
    /\ UNCHANGED lock

MRegNewIf(t) ==                                    \* mistake: a full interface is joined
    /\ Locks(t)
    /\ refs > 0 \/ objFree > 0
    /\ lock' = t
    /\ NewIf
    /\ refs' = refs + 1
    /\ Goto(t, "regnic")
    /\ UNCHANGED <<up, enabled, promisc, privs, private>>
RegNewIf(t) ==
    /\ Locks(t) /\ refs # NumRings
    /\ refs > 0 \/ objFree > 0
    /\ lock' = t
    /\ NewIf
    /\ refs' = refs + 1
    /\ Goto(t, "regnic")
    /\ UNCHANGED <<up, enabled, promisc, privs, private>>

\* another file has done reg(netdev, 1)
RegJoin(t) ==
    /\ At(t, "regnic") /\ enabled
    /\ lock' = None
    /\ Goto(t, "regset")
    /\ UNCHANGED <<nvars, refs, pvars, privs, private>>

\* reg(netdev, 1)
MRegNic(t) ==                                      \* mistake: the lock is kept
    /\ At(t, "regnic") /\ ~enabled /\ up /\ ~PromiscFails
    /\ enabled' = TRUE
    /\ SetPromisc
    /\ Goto(t, "regset")
    /\ UNCHANGED <<up, ring, refs, lock, pvars, privs, private>>
RegNic(t) ==
    /\ At(t, "regnic") /\ ~enabled /\ up /\ ~PromiscFails
    /\ enabled' = TRUE
    /\ SetPromisc
    /\ lock' = None
    /\ Goto(t, "regset")
    /\ UNCHANGED <<up, ring, refs, pvars, privs, private>>

\* It fails on an interface that is down, and when the promiscuity cannot be set: then
\* dpa_destructor_locked takes back what the call has done.
MRegNicFails(t) ==                                 \* mistake: the count is kept
    /\ At(t, "regnic") /\ ~enabled /\ (~up \/ PromiscFails)
    /\ enabled' = up
    /\ lock' = None
    /\ Return(t) /\ privs' = privs \ {priv[t]}
    /\ UNCHANGED <<up, promisc, ring, refs, pvars, private>>
RegNicFails(t) ==
    /\ At(t, "regnic") /\ ~enabled /\ (~up \/ PromiscFails)
    /\ enabled' = up
    /\ refs' = refs - 1
    /\ lock' = None
    /\ IF refs' <= 0
         THEN Goto(t, "sleep") /\ UNCHANGED privs
         ELSE Return(t) /\ privs' = privs \ {priv[t]}
    /\ UNCHANGED <<up, promisc, ring, pvars, private>>

\* the file's private_data is set when the lock has been released
RegSet(t) ==
    /\ At(t, "regset")
    /\ private' = [private EXCEPT ![file[t]] = priv[t]]
    /\ Return(t)
    /\ UNCHANGED <<nvars, refs, lock, pvars, privs>>

----------------------------------------------------------------------------
(* DIOCUNREGIF and close: dpa_destructor.                                   *)

UnregEnter(t) ==
    /\ \E f \in Files : private[f] # 0 /\ Call(t, f, private[f], "unreg", "unreg")
    /\ UNCHANGED <<nvars, refs, lock, pvars, privs, private>>

\* dpa_destructor_locked up to the sleep with the lock released
MUnregLock(t) ==                                   \* mistake: one too early
    /\ At(t, "unreg") /\ lock = None
    /\ refs' = refs - 1
    /\ Goto(t, IF refs' <= 1 THEN "sleep" ELSE "free")
    /\ UNCHANGED <<nvars, lock, pvars, privs, private>>
UnregLock(t) ==
    /\ At(t, "unreg") /\ lock = None
    /\ refs' = refs - 1
    /\ Goto(t, IF refs' <= 0 THEN "sleep" ELSE "free")
    /\ UNCHANGED <<nvars, lock, pvars, privs, private>>

\* reg(netdev, 0)
DelNic(t) ==
    /\ At(t, "sleep") /\ lock = None
    /\ lock' = t
    /\ enabled' = FALSE /\ ClearPromisc
    /\ Goto(t, "delete")
    /\ UNCHANGED <<up, ring, refs, pvars, privs, private>>

\* all rings and buffers go back to the pool; kring->ring keeps its value
MDelRings(t) ==                                    \* mistake: the buffers stay allocated
    /\ At(t, "delete")
    /\ lock' = None
    /\ IF why[t] = "reg" THEN Return(t) /\ privs' = privs \ {priv[t]}
                         ELSE Goto(t, "free") /\ UNCHANGED privs
    /\ UNCHANGED <<nvars, refs, pvars, private>>
DelRings(t) ==
    /\ At(t, "delete")
    /\ IF ring = 0 THEN UNCHANGED pvars
                   ELSE inuse' = inuse \ {ring} /\ objFree' = objFree + 1 /\ UNCHANGED others
    /\ lock' = None
    /\ IF why[t] = "reg" THEN Return(t) /\ privs' = privs \ {priv[t]}
                         ELSE Goto(t, "free") /\ UNCHANGED privs
    /\ UNCHANGED <<nvars, refs, private>>

\* the dpa_priv is freed before the file forgets it
PrivFree(t) ==
    /\ At(t, "free")
    /\ privs' = privs \ {priv[t]}
    /\ Goto(t, "clear")
    /\ UNCHANGED <<nvars, refs, lock, pvars, private>>

MPrivClear(t) ==                                   \* mistake: private_data is kept
    /\ At(t, "clear")
    /\ Return(t)
    /\ UNCHANGED <<nvars, refs, lock, pvars, privs, private>>
PrivClear(t) ==
    /\ At(t, "clear")
    /\ private' = [private EXCEPT ![file[t]] = 0]
    /\ Return(t)
    /\ UNCHANGED <<nvars, refs, lock, pvars, privs>>

----------------------------------------------------------------------------
(* Calls that use a registration.  poll looks at the interface's flag       *)
(* before it uses the rings, DIOCRXSYNC does not.                           *)

PollEnter(t) ==
    /\ \E f \in Files : private[f] # 0 /\ Call(t, f, private[f], "use", "poll")
    /\ UNCHANGED <<nvars, refs, lock, pvars, privs, private>>

PollCheck(t) ==
    /\ At(t, "poll")
    /\ IF enabled THEN Goto(t, "sync") ELSE Return(t)
    /\ UNCHANGED <<nvars, refs, lock, pvars, privs, private>>

RxSyncEnter(t) ==
    /\ \E f \in Files : private[f] # 0 /\ Call(t, f, private[f], "use", "sync")
    /\ UNCHANGED <<nvars, refs, lock, pvars, privs, private>>

RxSync(t) ==
    /\ At(t, "sync")
    /\ Return(t)
    /\ UNCHANGED <<nvars, refs, lock, pvars, privs, private>>

\* the administrator sets the interface up or down; it stays registered
IfFlags ==
    /\ up' = ~up
    /\ UNCHANGED <<enabled, promisc, ring, refs, lock, pvars, privs, private, tvars>>

\* another interface takes rings and buffers from the pool, or gives them back
OtherNewIf ==
    /\ objFree > 0
    /\ LET o == Least(Objs \ inuse) IN inuse' = inuse \cup {o} /\ others' = others \cup {o}
    /\ objFree' = objFree - 1
    /\ UNCHANGED <<nvars, refs, lock, privs, private, tvars>>
OtherFree ==
    /\ \E o \in others : inuse' = inuse \ {o} /\ others' = others \ {o}
    /\ objFree' = objFree + 1
    /\ UNCHANGED <<nvars, refs, lock, privs, private, tvars>>

----------------------------------------------------------------------------
Register(t) ==
    \/ RegWait(t) \/ RegBusy(t) \/ RegFull(t) \/ RegNoMem(t) \/ RegNewIf(t)
    \/ RegJoin(t) \/ RegNic(t) \/ RegNicFails(t) \/ RegSet(t)
Unregister(t) == UnregLock(t) \/ DelNic(t) \/ DelRings(t) \/ PrivFree(t) \/ PrivClear(t)
Use(t) == PollCheck(t) \/ RxSync(t)
Enter(t) == RegEnter(t) \/ UnregEnter(t) \/ PollEnter(t) \/ RxSyncEnter(t)

Next ==
    \/ \E t \in Threads : Enter(t) \/ Register(t) \/ Unregister(t) \/ Use(t)
    \/ IfFlags \/ OtherNewIf \/ OtherFree

Spec == Init /\ [][Next]_vars

\* A system call that has begun goes on; reg_lock is a kernel mutex, which hands itself
\* to its waiters in order, so who waits for it gets it.
Fairness == \A t \in Threads : SF_vars(Register(t) \/ Unregister(t) \/ Use(t))

FairSpec == Spec /\ Fairness

----------------------------------------------------------------------------
TypeOK ==
    /\ up \in BOOLEAN /\ enabled \in BOOLEAN /\ promisc \in 0 .. Word - 1 /\ refs \in 0 .. NumRings
    /\ ring \in Objs \cup {0} /\ lock \in Threads \cup {None}
    /\ inuse \subseteq Objs /\ others \subseteq inuse /\ objFree \in 0 .. NumObjs
    /\ privs \subseteq Privs /\ private \in [Files -> Privs \cup {0}]
    /\ pc \in [Threads -> {"idle", "reg", "regnic", "regset", "unreg", "sleep", "delete",
                           "free", "clear", "poll", "sync"}]
    /\ file \in [Threads -> Files \cup {None}] /\ priv \in [Threads -> Privs \cup {0}]
    /\ left \in [Threads -> 0 .. Tries]
    /\ why \in [Threads -> {"none", "reg", "unreg", "use"}]

Leaving(f) == \E t \in Threads : file[t] = f /\ why[t] = "unreg"
Registered == {f \in Files : private[f] # 0 /\ ~Leaving(f)}

RingsOwned == ring \in inuse \ others

\* refs counts the registrations, with those that a call has made and not yet stored in
\* the file, and without those that a call has begun to take back.
RefsAgree ==
    refs = Cardinality(Registered) + Cardinality({t \in Threads : At(t, "unreg")})
             + Cardinality({t \in Threads : At(t, "regnic") \/ At(t, "regset")})

\* A file that is registered, and that nobody unregisters, can receive: the interface is
\* captured and its rings are its own, whoever else comes and goes.
RegisteredCanReceive == \A f \in Registered : enabled /\ RingsOwned

\* What is not allocated is free, once: nothing is given back twice or forgotten.
PoolExact == objFree + Cardinality(inuse) = NumObjs

\* Between calls, without a registration, nothing of a deleted one is left.
Quiet == refs = 0 /\ \A t \in Threads : At(t, "idle")
NothingLeft ==
    Quiet => ~enabled /\ inuse = others /\ privs = {} /\ \A f \in Files : private[f] = 0

\* No call uses a dpa_priv that was freed, or rings that were given back.
NoUseAfterFree ==
    \A t \in Threads : /\ pc[t] \in {"poll", "unreg"} => priv[t] \in privs
                       /\ At(t, "sync") => priv[t] \in privs /\ RingsOwned

\* Every call returns.
EveryCallReturns == \A t \in Threads : ~At(t, "idle") ~> At(t, "idle")

\* dpa_main.c says of dpa_destructor_locked that it puts the interface back into its
\* normal mode: then what reg() has added to the promiscuity is taken away.
NormalMode == Quiet => promisc = 0
=============================================================================
