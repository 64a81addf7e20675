------------------------------ MODULE PollWake ------------------------------
(***************************************************************************)
(* How a process that sleeps in poll learns of a packet: dpa_poll puts it  *)
(* on the wait queue of a ring, or of the interface when it polls all      *)
(* rings; an interrupt masks its vector and starts NAPI, which calls       *)
(* dpa_rx_irq for each ring of the vector; that wakes the two queues.      *)
(*                                                                         *)
(* Ring r has the lock q_lock and the wait queue wq, both called r; 0 is   *)
(* core_lock and rx_wq.  Poller 0 polls all rings, poller r only ring r;   *)
(* either poller 0 is there or the others, for a queue has one process.    *)
(* excl_locks is set by every driver.  The interface stays registered, and *)
(* is not reset.  What happens under a spin lock and needs no more than it *)
(* is one step.  Timeouts are left out: they make the process ask again.   *)
(***************************************************************************)
EXTENDS Naturals

CONSTANTS
    NumRings,     \* num_rx_rings
    NumVectors,   \* vectors of MSI-X that receive
    MaxFlaps      \* bound on changes of the carrier

ASSUME PollWakeAssumption ==
    /\ NumRings \in Nat \ {0, 1} /\ NumVectors \in 1 .. NumRings
    /\ MaxFlaps \in Nat

VARIABLES
    dd,           \* rings with a filled descriptor that rx_sync has not harvested
    avail,        \* rings whose avail is above 0
    carrier,      \* netif_carrier_ok
    flaps,        \* how often it has changed
    locked,       \* the spin locks
    eicr,         \* of each vector: an interrupt is latched
    npc, nring,   \* where its NAPI is, and with which ring; it is masked unless idle
    tpc, tring,   \* where each poller is, and with which ring
    ready,        \* revents is not 0
    first,        \* first call of the file's poll: pwait is not NULL
    queues,       \* wait queues the poller is on
    triggered,    \* pwq->triggered: it was woken
    missed        \* ghost: rings whose packets its rx_sync left, as the carrier was off

cvars == <<carrier, flaps>>
nvars == <<eicr, npc, nring>>
pvars == <<tpc, tring, ready, first, queues>>
vars == <<dd, avail, missed, cvars, locked, nvars, pvars, triggered>>

Rings == 1 .. NumRings
Vectors == 1 .. NumVectors
Core == 0
Pollers == {Core} \cup Rings
RingsOf(v) == {r \in Rings : r % NumVectors = v % NumVectors}
VectorOf(r) == CHOOSE v \in Vectors : r \in RingsOf(v)
CheckAll(t) == t = Core
PolledBy(t) == IF CheckAll(t) THEN Rings ELSE {t}
Least(S) == CHOOSE x \in S : \A y \in S : x <= y
After(S, r) == {x \in S : x > r}

Init ==
    /\ dd = {} /\ avail = {} /\ missed = [t \in Pollers |-> {}]
    /\ carrier \in BOOLEAN /\ flaps = 0
    /\ locked = [l \in {Core} \cup Rings |-> FALSE]
    /\ eicr = [v \in Vectors |-> FALSE] /\ npc = [v \in Vectors |-> "idle"]
    /\ nring = [v \in Vectors |-> Least(RingsOf(v))]
    /\ \E here \in {{Core}, Rings} : tpc = [t \in Pollers |-> IF t \in here THEN "user" ELSE "absent"]
    /\ tring = [t \in Pollers |-> Least(PolledBy(t))]
    /\ ready = [t \in Pollers |-> FALSE] /\ first = [t \in Pollers |-> TRUE]
    /\ queues = [t \in Pollers |-> {}] /\ triggered = [t \in Pollers |-> FALSE]

Lock(l) == ~locked[l] /\ locked' = [locked EXCEPT ![l] = TRUE]
Unlock(l) == locked' = [locked EXCEPT ![l] = FALSE]
TGoto(t, label) == tpc' = [tpc EXCEPT ![t] = label]

\* wake_up: all pollers on the queue
Wake(q) == triggered' = [t \in Pollers |-> triggered[t] \/ q \in queues[t]]

----------------------------------------------------------------------------
(* The NIC and the driver.                                                  *)

Arrive(r) ==
    /\ dd' = dd \cup {r}
    /\ eicr' = [eicr EXCEPT ![VectorOf(r)] = TRUE]
    /\ UNCHANGED <<avail, missed, cvars, locked, npc, nring, pvars, triggered>>

\* EIAM masks the vector, and NAPI is scheduled.
Interrupt(v) ==
    /\ eicr[v] /\ npc[v] = "idle"
    /\ eicr' = [eicr EXCEPT ![v] = FALSE]
    /\ npc' = [npc EXCEPT ![v] = "ring"]
    /\ UNCHANGED <<dd, avail, missed, cvars, locked, nring, pvars, triggered>>

\* dpa_rx_irq for one ring: under q_lock it wakes the queue of the ring
MIrqWakeRing(v) ==                                 \* mistake: q_lock is not waited for
    /\ npc[v] = "ring"
    /\ Wake(nring[v])
    /\ npc' = [npc EXCEPT ![v] = "core"]
    /\ UNCHANGED <<dd, avail, missed, cvars, locked, eicr, nring, pvars>>
IrqWakeRing(v) ==
    /\ npc[v] = "ring" /\ ~locked[nring[v]]
    /\ Wake(nring[v])
    /\ npc' = [npc EXCEPT ![v] = "core"]
    /\ UNCHANGED <<dd, avail, missed, cvars, locked, eicr, nring, pvars>>

\* Then, under core_lock, the queue of the interface.  dpa_rx_irq reports less work than
\* the budget, so that NAPI ends after the last ring and the vector is unmasked.
IrqWakeCore(v) ==
    /\ npc[v] = "core" /\ ~locked[Core]
    /\ Wake(Core)
    /\ LET rest == After(RingsOf(v), nring[v])
       IN  /\ npc' = [npc EXCEPT ![v] = IF rest = {} THEN "idle" ELSE "ring"]
           /\ nring' = [nring EXCEPT ![v] = Least(IF rest = {} THEN RingsOf(v) ELSE rest)]
    /\ UNCHANGED <<dd, avail, missed, cvars, locked, eicr, pvars>>

\* The service task interrupts all vectors, every two seconds.
MCheckHang ==                                      \* mistake: as for legacy interrupts, not
    /\ UNCHANGED vars                              \* those that receive
CheckHang ==
    /\ eicr' = [v \in Vectors |-> TRUE]
    /\ UNCHANGED <<dd, avail, missed, cvars, locked, npc, nring, pvars, triggered>>

\* The watchdog sees the link go down or come up.
Carrier ==
    /\ flaps < MaxFlaps
    /\ flaps' = flaps + 1
    /\ carrier' = ~carrier
    /\ UNCHANGED <<dd, avail, missed, locked, nvars, pvars, triggered>>

----------------------------------------------------------------------------
(* A process in poll.                                                       *)

\* What is left from before is seen without a lock.
Look(t) == PolledBy(t) \cap avail # {}
Start(t) == TGoto(t, IF Look(t) THEN "receive" ELSE IF CheckAll(t) THEN "core" ELSE "sync")

PollEnter(t) ==
    /\ tpc[t] = "user"
    /\ Start(t)
    /\ UNCHANGED <<dd, avail, missed, cvars, locked, nvars, tring, ready, first, queues, triggered>>

PollLockCore(t) ==
    /\ tpc[t] = "core"
    /\ Lock(Core)
    /\ TGoto(t, "sync")
    /\ UNCHANGED <<dd, avail, missed, cvars, nvars, tring, ready, first, queues, triggered>>

\* rx_sync harvests, or does nothing without a carrier
RxSync(t, r) ==
    IF carrier
      THEN /\ avail' = avail \cup ({r} \cap dd)
           /\ dd' = dd \ {r}
           /\ missed' = [missed EXCEPT ![t] = @ \ {r}]
      ELSE /\ missed' = [missed EXCEPT ![t] = @ \cup ({r} \cap dd)]
           /\ UNCHANGED <<dd, avail>>

\* under q_lock, first rx_sync
PollSync(t) ==
    /\ tpc[t] = "sync"
    /\ Lock(tring[t])
    /\ RxSync(t, tring[t])
    /\ ready' = [ready EXCEPT ![t] = @ \/ tring[t] \in avail']
    /\ TGoto(t, "unlock")
    /\ UNCHANGED <<cvars, nvars, tring, first, queues, triggered>>

\* poll_wait, which does nothing when pwait is NULL
PollWait(t, q) == queues' = [queues EXCEPT ![t] = IF first[t] THEN @ \cup {q} ELSE @]

\* then the poller of this ring only goes on its queue; the other one takes the next ring
MPollUnlock(t) ==                                  \* mistake: the loop goes one too far
    /\ tpc[t] = "unlock"
    /\ Unlock(tring[t])
    /\ LET on == CheckAll(t) /\ tring[t] <= NumRings
       IN  /\ TGoto(t, IF on THEN "sync" ELSE IF CheckAll(t) THEN "end"
                       ELSE IF ready[t] THEN "receive" ELSE "sleep")
           /\ tring' = [tring EXCEPT ![t] = IF on THEN @ + 1 ELSE Least(PolledBy(t))]
    /\ IF CheckAll(t) \/ ready[t] THEN UNCHANGED queues ELSE PollWait(t, tring[t])
    /\ UNCHANGED <<dd, avail, missed, cvars, nvars, ready, first, triggered>>
PollUnlock(t) ==
    /\ tpc[t] = "unlock"
    /\ Unlock(tring[t])
    /\ LET rest == After(PolledBy(t), tring[t])
       IN  /\ TGoto(t, IF rest # {} THEN "sync" ELSE IF CheckAll(t) THEN "end"
                       ELSE IF ready[t] THEN "receive" ELSE "sleep")
           /\ tring' = [tring EXCEPT ![t] = Least(IF rest = {} THEN PolledBy(t) ELSE rest)]
    /\ IF CheckAll(t) \/ ready[t] THEN UNCHANGED queues ELSE PollWait(t, tring[t])
    /\ UNCHANGED <<dd, avail, missed, cvars, nvars, ready, first, triggered>>

\* still under core_lock, the poller of all rings goes on the queue of the interface
PollEnd(t) ==
    /\ tpc[t] = "end"
    /\ TGoto(t, IF ready[t] THEN "receive" ELSE "sleep")
    /\ Unlock(Core)
    /\ IF ready[t] THEN UNCHANGED queues ELSE PollWait(t, Core)
    /\ UNCHANGED <<dd, avail, missed, cvars, nvars, tring, ready, first, triggered>>

\* do_sys_poll goes to sleep unless it was woken, and then asks once more, without pwait
PollWoken(t) ==
    /\ tpc[t] = "sleep" /\ triggered[t]
    /\ triggered' = [triggered EXCEPT ![t] = FALSE]
    /\ first' = [first EXCEPT ![t] = FALSE]
    /\ Start(t)
    /\ UNCHANGED <<dd, avail, missed, cvars, locked, nvars, tring, ready, queues>>

\* poll returns, and the process takes all packets of one ring
Receive(t) ==
    /\ tpc[t] = "receive"
    /\ IF Look(t)
         THEN \E r \in PolledBy(t) \cap avail : avail' = avail \ {r}
         ELSE UNCHANGED avail
    /\ TGoto(t, "user")
    /\ queues' = [queues EXCEPT ![t] = {}]
    /\ triggered' = [triggered EXCEPT ![t] = FALSE]
    /\ ready' = [ready EXCEPT ![t] = FALSE]
    /\ first' = [first EXCEPT ![t] = TRUE]
    /\ missed' = [missed EXCEPT ![t] = {}]
    /\ UNCHANGED <<dd, cvars, locked, nvars, tring>>

----------------------------------------------------------------------------
Napi(v) == IrqWakeRing(v) \/ IrqWakeCore(v)
Poll(t) ==
    \/ PollEnter(t) \/ PollLockCore(t) \/ PollSync(t) \/ PollUnlock(t)
    \/ PollEnd(t) \/ PollWoken(t) \/ Receive(t)

Next ==
    \/ \E r \in Rings : Arrive(r)
    \/ \E v \in Vectors : Interrupt(v) \/ Napi(v)
    \/ CheckHang \/ Carrier
    \/ \E t \in Pollers : Poll(t)

Spec == Init /\ [][Next]_vars

\* The CPUs run interrupts, NAPI, the service task and the processes; a spin lock is a
\* ticket lock, which is handed to its waiters in order.
Fairness ==
    /\ \A v \in Vectors : WF_vars(Interrupt(v)) /\ SF_vars(Napi(v))
    /\ \A t \in Pollers : SF_vars(Poll(t))
    /\ WF_vars(CheckHang)

FairSpec == Spec /\ Fairness

----------------------------------------------------------------------------
TypeOK ==
    /\ dd \subseteq Rings /\ avail \subseteq Rings
    /\ missed \in [Pollers -> SUBSET Rings]
    /\ carrier \in BOOLEAN /\ flaps \in 0 .. MaxFlaps
    /\ locked \in [{Core} \cup Rings -> BOOLEAN]
    /\ eicr \in [Vectors -> BOOLEAN] /\ npc \in [Vectors -> {"idle", "ring", "core"}]
    /\ nring \in [Vectors -> Rings]
    /\ tpc \in [Pollers -> {"absent", "user", "core", "sync", "unlock", "end", "sleep", "receive"}]
    /\ tring \in [Pollers -> Rings]
    /\ ready \in [Pollers -> BOOLEAN] /\ first \in [Pollers -> BOOLEAN]
    /\ queues \in [Pollers -> SUBSET ({Core} \cup Rings)]
    /\ triggered \in [Pollers -> BOOLEAN]

\* An interrupt that is latched, or NAPI before its wake-up, will still wake the sleeper.
Coming(t, r) ==
    LET v == VectorOf(r)
    IN  \/ eicr[v]
        \/ npc[v] = "ring" /\ (CheckAll(t) \/ nring[v] <= r)
        \/ npc[v] = "core" /\ (CheckAll(t) \/ nring[v] < r)

\* No wake-up is lost: when a process sleeps and was not woken, the packets of its rings
\* are still to be announced to it.  Those that a rx_sync left for want of a carrier are
\* the exception, and Woken says what becomes of them.
NoLostWakeup ==
    \A t \in Pollers : tpc[t] = "sleep" /\ ~triggered[t] =>
        \A r \in PolledBy(t) \ missed[t] : r \in dd \cup avail => Coming(t, r)

\* With a carrier for good every packet is harvested, though nothing is asked of timeouts:
\* no two locks block each other, and no announcement comes to nothing.
Steady == carrier /\ flaps = MaxFlaps
Woken == \A r \in Rings : r \in dd /\ Steady ~> r \notin dd
=============================================================================
