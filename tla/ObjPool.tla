------------------------------ MODULE ObjPool -------------------------------
(***************************************************************************)
(* The object pools of dpa_mem.c as several interfaces use them: dpa_new_if*)
(* takes one object of the interface pool for a file and, for the first    *)
(* file, a ring for each queue and a packet buffer for each slot; when a   *)
(* pool is empty it gives back what it has taken.  The destructor gives    *)
(* back the buffers under the allocator's lock, but the rings and the      *)
(* object of the interface pool without it.                                *)
(*                                                                         *)
(* An interface makes one call at a time, as reg_lock is held.  What is    *)
(* done under the allocator's lock for one ring is one step.  Objects 0    *)
(* and 1 of each pool are reserved and never in its bitmap.                *)
(***************************************************************************)
EXTENDS Integers, FiniteSets, FiniteSetsExt

CONSTANTS
    Ifs,           \* interfaces
    NumRings,      \* num_rx_rings of each
    Descs,         \* the values of num_rx_descs they may have
    IfObjs, RingObjs, BufObjs,   \* the sizes each pool may have, besides 0 and 1
    Stale,         \* TRUE: a registration that fails may meet pointers to the rings of
                   \* an earlier one, in queues it has not reached
    Races          \* TRUE: others use the pools within a release that does not hold
                   \* the allocator's lock

None == "none"     \* no interface

ASSUME ObjPoolAssumption ==
    /\ None \notin Ifs
    /\ IsFiniteSet(Ifs) /\ NumRings \in Nat \ {0}
    /\ Descs \subseteq Nat \ {0}
    /\ IfObjs \subseteq Nat /\ RingObjs \subseteq Nat /\ BufObjs \subseteq Nat
    /\ Stale \in BOOLEAN /\ Races \in BOOLEAN

VARIABLES
    total, descs,  \* the size of each pool, num_rx_descs of each interface
    bitmap,        \* of each pool: the objects whose bit is 1
    obj_free,      \* of each pool
    slot,          \* the memory of each ring: the buf_idx of its slots
    ring,          \* kring->ring of each queue of each interface (0: NULL)
    refs, difs,    \* registrations of each interface, their objects of the interface pool
    alloc,         \* who holds the allocator's lock
    pc, q, dif,    \* of each interface: where its call is, the queue, the object
    seen           \* what its release without the lock has loaded

svars == <<total, descs>>
pvars == <<bitmap, obj_free>>
fvars == <<refs, difs>>
vars == <<svars, pvars, slot, ring, fvars, alloc, pc, q, dif, seen>>

Pools == {"if", "ring", "buf"}
PoolsOf(ifs, rings, bufs) ==
    [p \in Pools |-> CASE p = "if" -> ifs [] p = "ring" -> rings [] p = "buf" -> bufs]
Queues == 1 .. NumRings

Init ==
    /\ total \in {PoolsOf(a, b, c) : a \in IfObjs, b \in RingObjs, c \in BufObjs}
    /\ descs \in [Ifs -> Descs]
    /\ bitmap = [p \in Pools |-> 2 .. total[p] + 1] /\ obj_free = total
    /\ slot = [r \in 2 .. total["ring"] + 1 |-> <<>>]
    /\ ring = [i \in Ifs |-> [k \in Queues |-> 0]]
    /\ refs = [i \in Ifs |-> 0] /\ difs = [i \in Ifs |-> {}]
    /\ alloc = None
    /\ pc = [i \in Ifs |-> "idle"] /\ q = [i \in Ifs |-> 1] /\ dif = [i \in Ifs |-> 0]
    /\ seen = [i \in Ifs |-> <<{}, 0>>]

Goto(i, label) == pc' = [pc EXCEPT ![i] = label]
\* the locals of the call are gone
Return(i) == Goto(i, "idle") /\ q' = [q EXCEPT ![i] = 1] /\ dif' = [dif EXCEPT ![i] = 0]

\* the allocator's lock is free; a release without it is over, or is not waited for
Releasing(i) == pc[i] \in {"storering", "storeif"}
Free == alloc = None /\ (Races \/ \A i \in Ifs : ~Releasing(i))

----------------------------------------------------------------------------
(* dpa_obj_malloc takes the first object whose bit is 1, dpa_obj_free sets  *)
(* the bit and counts, whether or not it was 1.                             *)

First(p) == Min(bitmap[p])
\* the n buffers dpa_new_bufs takes
FirstBufs(n) ==
    CHOOSE f \in [1 .. n -> bitmap["buf"]] :
        \A s \in 1 .. n : f[s] = Min(bitmap["buf"] \ {f[t] : t \in 1 .. s - 1})

Take(S) ==
    /\ bitmap' = [p \in Pools |-> bitmap[p] \ S[p]]
    /\ obj_free' = [p \in Pools |-> obj_free[p] - Cardinality(S[p])]

\* S: the objects, calls: how often dpa_obj_free is called
Put(S, calls) ==
    /\ bitmap' = [p \in Pools |-> bitmap[p] \cup S[p]]
    /\ obj_free' = [p \in Pools |-> obj_free[p] + calls[p]]

\* the slots of queues Q that hold a buffer dpa_free_buf accepts
Places(i, Q) == {p \in Q \X (1 .. descs[i]) : slot[ring[i][p[1]]][p[2]] > 1}
BufsOf(i, Q) == {slot[ring[i][p[1]]][p[2]] : p \in Places(i, Q)}
Pointers(i) == {k \in Queues : ring[i][k] # 0}
RingsOf(i, Q) == {ring[i][k] : k \in Q}

----------------------------------------------------------------------------
(* dpa_new_if.                                                              *)

\* for how many queues ring and buffers can be had
Obtainable(i) == Min({obj_free["ring"], obj_free["buf"] \div descs[i]})

\* a further file of an interface takes its own object only
Join(i) ==
    /\ pc[i] = "idle" /\ Free /\ refs[i] > 0 /\ obj_free["if"] > 0
    /\ Take(PoolsOf({First("if")}, {}, {}))
    /\ refs' = [refs EXCEPT ![i] = @ + 1] /\ difs' = [difs EXCEPT ![i] = @ \cup {First("if")}]
    /\ UNCHANGED <<svars, slot, ring, alloc, pc, q, dif, seen>>

NewIfBegin(i) ==
    /\ pc[i] = "idle" /\ Free /\ refs[i] = 0 /\ obj_free["if"] > 0
    /\ Stale \/ \A k \in Pointers(i) : k <= Obtainable(i) + 1
    /\ Take(PoolsOf({First("if")}, {}, {})) /\ dif' = [dif EXCEPT ![i] = First("if")]
    /\ alloc' = i /\ Goto(i, "new")
    /\ UNCHANGED <<svars, slot, ring, fvars, q, seen>>

NewRing(i) ==
    /\ pc[i] = "new" /\ q[i] <= NumRings /\ Obtainable(i) > 0
    /\ LET r == First("ring") bufs == FirstBufs(descs[i]) IN
       /\ Take(PoolsOf({}, {r}, {bufs[s] : s \in 1 .. descs[i]}))
       /\ ring' = [ring EXCEPT ![i][q[i]] = r] /\ slot' = [slot EXCEPT ![r] = bufs]
    /\ q' = [q EXCEPT ![i] = @ + 1]
    /\ UNCHANGED <<svars, fvars, alloc, pc, dif, seen>>

\* there is no ring, or dpa_new_bufs has given back the buffers it found and
\* cleared the slots of the ring; then the label cleanup
MCleanup(i) ==                               \* mistake: the buffers of queue 0 are not given back
    LET mine == {k \in Queues : k < q[i] /\ k > 1} IN
    Put(PoolsOf({dif[i]}, RingsOf(i, Pointers(i)), BufsOf(i, mine)),
        PoolsOf(1, Cardinality(Pointers(i)), Cardinality(Places(i, mine))))
Cleanup(i) ==
    LET mine == {k \in Queues : k < q[i]} IN
    Put(PoolsOf({dif[i]}, RingsOf(i, Pointers(i)), BufsOf(i, mine)),
        PoolsOf(1, Cardinality(Pointers(i)), Cardinality(Places(i, mine))))

NoRing(i) ==
    /\ pc[i] = "new" /\ q[i] <= NumRings /\ obj_free["ring"] = 0
    /\ ring' = [ring EXCEPT ![i][q[i]] = 0]
    /\ Goto(i, "cleanup")
    /\ UNCHANGED <<svars, pvars, slot, fvars, alloc, q, dif, seen>>

NoBufs(i) ==
    /\ pc[i] = "new" /\ q[i] <= NumRings /\ obj_free["ring"] > 0 /\ obj_free["buf"] < descs[i]
    /\ Take(PoolsOf({}, {First("ring")}, {}))
    /\ ring' = [ring EXCEPT ![i][q[i]] = First("ring")]
    /\ slot' = [slot EXCEPT ![First("ring")] = [s \in 1 .. descs[i] |-> 0]]
    /\ Goto(i, "cleanup")
    /\ UNCHANGED <<svars, fvars, alloc, q, dif, seen>>

NewIfFails(i) ==
    /\ pc[i] = "cleanup"
    /\ Cleanup(i)
    /\ alloc' = None /\ Return(i)
    /\ UNCHANGED <<svars, slot, ring, fvars, seen>>

NewIfDone(i) ==
    /\ pc[i] = "new" /\ q[i] > NumRings
    /\ refs' = [refs EXCEPT ![i] = @ + 1] /\ difs' = [difs EXCEPT ![i] = {dif[i]}]
    /\ alloc' = None /\ Return(i)
    /\ UNCHANGED <<svars, pvars, slot, ring, seen>>

NewIf(i) == Join(i) \/ NewIfBegin(i) \/ NewRing(i) \/ NoRing(i) \/ NoBufs(i) \/ NewIfFails(i) \/ NewIfDone(i)

----------------------------------------------------------------------------
(* dpa_destructor_locked.  A release without the lock loads the word of the *)
(* bitmap and the counter and stores them afterwards.                       *)

MLast(i) == refs'[i] <= 1
Last(i) == refs'[i] <= 0

UnregBegin(i) ==
    /\ pc[i] = "idle"
    /\ \E d \in difs[i] :
          /\ refs' = [refs EXCEPT ![i] = @ - 1] /\ difs' = [difs EXCEPT ![i] = @ \ {d}]
          /\ dif' = [dif EXCEPT ![i] = d]
    /\ Goto(i, IF Last(i) THEN "bufs" ELSE "freeif")
    /\ UNCHANGED <<svars, pvars, slot, ring, alloc, q, seen>>

UnregBufs(i) ==
    /\ pc[i] = "bufs" /\ Free
    /\ Put(PoolsOf({}, {}, BufsOf(i, Queues)), PoolsOf(0, 0, Cardinality(Places(i, Queues))))
    /\ Goto(i, "freering")
    /\ UNCHANGED <<svars, slot, ring, fvars, alloc, q, dif, seen>>

Loads(i, p) == Free /\ seen' = [seen EXCEPT ![i] = <<bitmap[p], obj_free[p]>>]
MStores(i, p, o) ==                          \* mistake: dpa_obj_free_va counts as well
    /\ bitmap' = [bitmap EXCEPT ![p] = seen[i][1] \cup {o}]
    /\ obj_free' = [obj_free EXCEPT ![p] = seen[i][2] + 2]
    /\ seen' = [seen EXCEPT ![i] = <<{}, 0>>]
Stores(i, p, o) ==
    /\ bitmap' = [bitmap EXCEPT ![p] = seen[i][1] \cup {o}]
    /\ obj_free' = [obj_free EXCEPT ![p] = seen[i][2] + 1]
    /\ seen' = [seen EXCEPT ![i] = <<{}, 0>>]

\* dpa_free_rings, for one ring; NULL is passed over
FreeRingLoads(i) ==
    /\ pc[i] = "freering"
    /\ IF q[i] \in Pointers(i)
       THEN Loads(i, "ring") /\ Goto(i, "storering") /\ UNCHANGED q
       ELSE /\ q' = [q EXCEPT ![i] = @ + 1]
            /\ Goto(i, IF q[i] > NumRings THEN "freeif" ELSE "freering")
            /\ UNCHANGED seen
    /\ UNCHANGED <<svars, pvars, slot, ring, fvars, alloc, dif>>

FreeRingStores(i) ==
    /\ pc[i] = "storering"
    /\ Stores(i, "ring", ring[i][q[i]])
    /\ q' = [q EXCEPT ![i] = @ + 1] /\ Goto(i, "freering")
    /\ UNCHANGED <<svars, slot, ring, fvars, alloc, dif>>

\* dpa_if_free
FreeIfLoads(i) ==
    /\ pc[i] = "freeif" /\ Loads(i, "if") /\ Goto(i, "storeif")
    /\ UNCHANGED <<svars, pvars, slot, ring, fvars, alloc, q, dif>>

FreeIfStores(i) ==
    /\ pc[i] = "storeif" /\ Stores(i, "if", dif[i]) /\ Return(i)
    /\ UNCHANGED <<svars, slot, ring, fvars, alloc>>

Unregister(i) ==
    UnregBegin(i) \/ UnregBufs(i) \/ FreeRingLoads(i) \/ FreeRingStores(i) \/ FreeIfLoads(i) \/ FreeIfStores(i)

Next == \E i \in Ifs : NewIf(i) \/ Unregister(i)

Spec == Init /\ [][Next]_vars

----------------------------------------------------------------------------
(* Properties.                                                              *)

\* The queues whose ring is in use: from dpa_new_if to the release of their buffers.
Live(i) == IF refs[i] > 0 THEN Queues ELSE IF pc[i] = "new" THEN 1 .. q[i] - 1 ELSE {}
Idle == \A i \in Ifs : pc[i] = "idle"

\* Types: the counter of a pool stays within its size and its bitmap within its objects.
TypeOK ==
    /\ bitmap \in [Pools -> SUBSET Nat]
    /\ \A p \in Pools : bitmap[p] \subseteq 2 .. total[p] + 1 /\ obj_free[p] \in 0 .. total[p]
    /\ ring \in [Ifs -> [Queues -> 0 .. total["ring"] + 1]]
    /\ refs \in [Ifs -> 0 .. total["if"]]
    /\ alloc \in Ifs \cup {None}
    /\ pc \in [Ifs -> {"idle", "new", "cleanup", "bufs", "freering", "storering", "freeif", "storeif"}]
    /\ q \in [Ifs -> 1 .. NumRings + 2]

\* No ring and no buffer that a registered interface uses is free or is used by another
\* queue or slot, whatever registrations failed half way before.
Exclusive ==
    /\ \A i, j \in Ifs : \A k \in Live(i), l \in Live(j) : <<i, k>> # <<j, l>> => ring[i][k] # ring[j][l]
    /\ \A i \in Ifs : RingsOf(i, Live(i)) \cap bitmap["ring"] = {}
    /\ \A i, j \in Ifs : \A x \in Places(i, Live(i)), y \in Places(j, Live(j)) :
          <<i, x>> # <<j, y>> => slot[ring[i][x[1]]][x[2]] # slot[ring[j][y[1]]][y[2]]
    /\ \A i \in Ifs : BufsOf(i, Live(i)) \cap bitmap["buf"] = {}

\* When no call is under way each pool has its count of free objects right, and all but
\* what the registered interfaces hold is free: neither a call that failed half way nor
\* the releases of several interfaces lose or invent an object.
NothingLost == Idle =>
    /\ \A p \in Pools : obj_free[p] = Cardinality(bitmap[p])
    /\ bitmap["if"] = (2 .. total["if"] + 1) \ UNION {difs[i] : i \in Ifs}
    /\ bitmap["ring"] = (2 .. total["ring"] + 1) \ UNION {RingsOf(i, Live(i)) : i \in Ifs}
    /\ bitmap["buf"] = (2 .. total["buf"] + 1) \ UNION {BufsOf(i, Live(i)) : i \in Ifs}
=============================================================================
