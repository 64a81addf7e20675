------------------------------- MODULE KRing -------------------------------
(***************************************************************************)
(* One receive queue of an Intel adapter (ixgbe, igb) captured by DPA: the *)
(* NIC's descriptor ring, the kernel's kring, the ring in the memory the   *)
(* process has mapped, rx_sync that keeps the three in step, the receive   *)
(* loop of libdpa, and the reinitialisation of the NIC ring by the driver. *)
(*                                                                         *)
(* Packets are the numbers 1, 2, ... in the order the NIC stores them.  A  *)
(* packet's number stands for its length and for its bytes.  VLAN and type *)
(* flags, byte counters and timestamps are left out, and so are            *)
(* next_to_use, nr_kflags and ring->hw_ofs: on Intel adapters they are     *)
(* written and never used (dpa_pend_intr is the constant 0).               *)
(***************************************************************************)
EXTENDS Integers, Sequences

CONSTANTS
    N,           \* nkr_num_slots = num_rx_descs: slots, and descriptors, of the queue
    Batch,       \* PKT_PER_PROCESS of libdpa
    MaxPkts,     \* bound: packets the NIC receives
    MaxResets,   \* bound: reinitialisations of the NIC ring
    MaxCrashes,  \* bound: deaths of the process, another one taking the queue over
    MaxResvd,    \* bound: buffers the process keeps with ring->reserved
    MaxFaults,   \* bound: bad values of cur or buf_idx stored by the process
    Drains       \* TRUE if a rx_sync that saw the carrier ends before the
                 \* descriptors are cleared (the driver sleeps in between)

ASSUME KRingAssumption ==
    /\ N \in Nat /\ N >= 3
    /\ Batch \in Nat \ {0}
    /\ MaxPkts \in Nat /\ MaxResets \in Nat /\ MaxCrashes \in Nat
    /\ MaxResvd \in Nat /\ MaxFaults \in Nat
    /\ Drains \in BOOLEAN

VARIABLES
    hwcur, hwavail, hwofs, total,         \* struct dpa_kring
    cur, avail, reserved, bufIdx, len,    \* struct dpa_ring and its slots
    ntc, done, dlen, daddr,               \* next_to_clean; descriptors with DD set
                                          \* (the NIC is done with them), their contents
    head, tail, rxen,                     \* the NIC's RDH, RDT and RXEN
    mem,                                  \* what the packet buffers hold
    carrier, rpc,                         \* carrier state, the driver's reset
    pc,                                   \* where the process is
    u, resvd, k, n, i,                    \* locals of rx_sync
    ucur, rx, todo,                       \* locals of the receive loop
    nextId, hlog, delivered,              \* history: see below
    resets, crashes, faults

kvars == <<hwcur, hwavail, hwofs, total>>
uvars == <<cur, avail, reserved, bufIdx, len>>
dvars == <<ntc, done, dlen, daddr>>
nvars == <<head, tail, rxen, mem>>
rvars == <<carrier, rpc>>
svars == <<u, resvd, k, n, i>>
lvars == <<ucur, rx, todo>>
hvars == <<nextId, hlog, delivered>>
bvars == <<resets, crashes, faults>>
vars == <<kvars, uvars, dvars, nvars, rvars, pc, svars, lvars, hvars, bvars>>

Slots == 0 .. N - 1
Buffers == 0 .. N + 1          \* 0 and 1 are never given to a slot
Usable == Buffers \ {0, 1}
Packets == 0 .. MaxPkts        \* 0: no packet

----------------------------------------------------------------------------
(* Index arithmetic.                                                        *)

Wrap(x) == IF x < 0 THEN x + N ELSE IF x < N THEN x ELSE x - N
Next1(x) == IF x = N - 1 THEN 0 ELSE x + 1

\* dpa_idx_n2k and dpa_idx_k2n: from a NIC index to a slot and back
N2K(x) == Wrap(x + hwofs)
MK2N(x) == Wrap(x + hwofs)                                   \* mistake: sign
K2N(x) == Wrap(x - hwofs)

\* the tail register for a ring whose next free descriptor is d: one is held back
MHoldBack(d) == d                                            \* mistake: none is
HoldBack(d) == Wrap(d - 1)

\* steps from index a to index b going up the ring
Dist(a, b) == IF a <= b THEN b - a ELSE b + N - a

\* the place of slot s in the sequence hlog of all harvested packets
Place(s) == total - hwavail + Dist(hwcur, s) + 1

----------------------------------------------------------------------------
(* The state dpa_new_if and the first registration leave behind, the link   *)
(* not yet up.                                                              *)

Init ==
    /\ hwcur = 0 /\ hwavail = 0 /\ hwofs = 0 /\ total = 0
    /\ cur = 0 /\ avail = 0 /\ reserved = 0
    /\ bufIdx = [s \in Slots |-> s + 2] /\ len = [s \in Slots |-> 0]
    /\ ntc = 0 /\ done = {} /\ dlen = [d \in Slots |-> 0]
    /\ daddr = [d \in Slots |-> d + 2]
    /\ head = 0 /\ tail = N - 1 /\ rxen = TRUE
    /\ mem = [b \in Buffers |-> 0]
    /\ carrier = FALSE /\ rpc = "up"
    /\ pc = "user"
    /\ u = 0 /\ resvd = 0 /\ k = 0 /\ n = 0 /\ i = 0
    /\ ucur = 0 /\ rx = 0 /\ todo = 0
    /\ nextId = 1 /\ hlog = <<>> /\ delivered = 0
    /\ resets = 0 /\ crashes = 0 /\ faults = 0

----------------------------------------------------------------------------
(* The NIC.  It owns the descriptors from head up to, not including, tail.  *)

NicReceive ==
    /\ rxen /\ head # tail /\ nextId <= MaxPkts
    /\ mem' = [mem EXCEPT ![daddr[head]] = nextId]
    /\ done' = done \cup {head}
    /\ dlen' = [dlen EXCEPT ![head] = nextId]
    /\ head' = Next1(head)
    /\ nextId' = nextId + 1
    /\ UNCHANGED <<kvars, uvars, ntc, daddr, tail, rxen, rvars, pc, svars, lvars,
                   hlog, delivered, bvars>>

----------------------------------------------------------------------------
(* rx_sync, called by dpa_poll when avail is 0 and by DIOCRXSYNC.           *)

Syncing == pc \in {"harvest", "rearm"}

\* dpa_ring_reinit.  A length above the buffer size cannot occur here: lengths
\* come from the NIC and the process does not write them.
BadSlot(s) == bufIdx[s] \notin Usable
MRingReinit(force) ==                              \* mistake: waiting packets skipped
    /\ bufIdx' = [s \in Slots |-> IF BadSlot(s) THEN 0 ELSE bufIdx[s]]
    /\ len' = [s \in Slots |-> IF BadSlot(s) THEN 0 ELSE len[s]]
    /\ cur' = Wrap(hwcur + hwavail) /\ avail' = 0
RingReinit(force) ==
    /\ bufIdx' = [s \in Slots |-> IF BadSlot(s) THEN 0 ELSE bufIdx[s]]
    /\ len' = [s \in Slots |-> IF BadSlot(s) THEN 0 ELSE len[s]]
    /\ IF force \/ \E s \in Slots : BadSlot(s)
         THEN cur' = hwcur /\ avail' = hwavail
         ELSE UNCHANGED <<cur, avail>>

SyncBadCur ==
    /\ pc \in {"user", "fault"} /\ carrier /\ cur > N - 1
    /\ RingReinit(TRUE)
    /\ pc' = "user"
    /\ u' = cur /\ resvd' = reserved
    /\ UNCHANGED <<kvars, reserved, dvars, nvars, rvars, k, n, i, lvars, hvars, bvars>>

SyncBegin ==
    /\ pc \in {"user", "fault"} /\ carrier /\ cur <= N - 1
    /\ pc' = "harvest"
    /\ u' = cur /\ resvd' = reserved
    /\ n' = ntc /\ k' = N2K(ntc) /\ i' = 0
    /\ UNCHANGED <<kvars, uvars, dvars, nvars, rvars, lvars, hvars, bvars>>

\* one turn of the loop over the descriptors the NIC is done with
MHarvest ==                                        \* mistake: the slot of the descriptor
    /\ pc = "harvest" /\ n \in done
    /\ len' = [len EXCEPT ![n] = dlen[n]]
    /\ hlog' = Append(hlog, dlen[n])
    /\ k' = Next1(k) /\ n' = Next1(n) /\ i' = i + 1
    /\ UNCHANGED <<kvars, cur, avail, reserved, bufIdx, dvars, nvars, rvars, pc,
                   u, resvd, lvars, nextId, delivered, bvars>>
Harvest ==
    /\ pc = "harvest" /\ n \in done
    /\ len' = [len EXCEPT ![k] = dlen[n]]
    /\ hlog' = Append(hlog, dlen[n])
    /\ k' = Next1(k) /\ n' = Next1(n) /\ i' = i + 1
    /\ UNCHANGED <<kvars, cur, avail, reserved, bufIdx, dvars, nvars, rvars, pc,
                   u, resvd, lvars, nextId, delivered, bvars>>

HarvestEnd ==
    /\ pc = "harvest" /\ n \notin done
    /\ total' = total + i
    /\ ntc' = n
    /\ hwavail' = hwavail + i
    /\ pc' = "rearm"
    /\ UNCHANGED <<hwcur, hwofs, uvars, done, dlen, daddr, nvars, rvars, svars, lvars,
                   hvars, bvars>>

\* The second half.  Descriptors of the slots hwcur up to cur - reserved go back
\* to the NIC; one of them is held back, so that head = tail means no descriptor.
Resvd == IF resvd > 0 /\ resvd + avail >= N THEN 0 ELSE resvd
MNewHwcur == u                                     \* mistake: reserved is ignored
NewHwcur == IF Resvd > u THEN u + N - Resvd ELSE u - Resvd
Released == {s \in Slots : Dist(hwcur, s) < Dist(hwcur, NewHwcur)}
FirstBad == {s \in Released : BadSlot(s)}
BeforeBad == {s \in Released : \A b \in FirstBad : Dist(hwcur, s) < Dist(hwcur, b)}

MRewrite(S) ==                                     \* mistake: DD is left set
    /\ done' = done
    /\ daddr' = [d \in Slots |-> IF N2K(d) \in S THEN bufIdx[N2K(d)] ELSE daddr[d]]
Rewrite(S) ==
    /\ done' = {d \in done : N2K(d) \notin S}
    /\ daddr' = [d \in Slots |-> IF N2K(d) \in S THEN bufIdx[N2K(d)] ELSE daddr[d]]

MPublished(a) == IF NewHwcur # hwcur THEN a - Resvd ELSE avail   \* mistake: only then
Published(a) == a - Resvd

Rearm ==
    /\ pc = "rearm" /\ FirstBad = {}
    /\ Rewrite(Released)
    /\ hwavail' = hwavail - Dist(hwcur, NewHwcur)
    /\ hwcur' = NewHwcur
    /\ tail' = IF NewHwcur # hwcur THEN HoldBack(K2N(NewHwcur)) ELSE tail
    /\ reserved' = Resvd
    /\ avail' = Published(hwavail')
    /\ pc' = "user"
    /\ UNCHANGED <<hwofs, total, cur, bufIdx, len, ntc, dlen, head, rxen, mem, rvars,
                   svars, lvars, hvars, bvars>>

\* a slot to be released has a bad buffer index: the loop stops there
RearmBad ==
    /\ pc = "rearm" /\ FirstBad # {}
    /\ Rewrite(BeforeBad)
    /\ RingReinit(FALSE)
    /\ reserved' = Resvd
    /\ pc' = "user"
    /\ UNCHANGED <<kvars, ntc, dlen, nvars, rvars, svars, lvars, hvars, bvars>>

----------------------------------------------------------------------------
(* The process: raw_recv_proc_intel.  With the carrier off rx_sync returns  *)
(* at once and changes nothing, so a poll that finds nothing is a stutter.  *)

RecvBegin ==
    /\ pc = "user" /\ avail > 0
    /\ pc' = "recv"
    /\ ucur' = cur /\ rx' = 0
    /\ todo' = IF avail < Batch THEN avail ELSE Batch
    /\ UNCHANGED <<kvars, uvars, dvars, nvars, rvars, svars, hvars, bvars>>

\* the callback is given slot ucur
RecvPacket ==
    /\ pc = "recv" /\ rx < todo
    /\ rx' = rx + 1 /\ ucur' = Next1(ucur)
    /\ delivered' = IF Place(ucur) > delivered THEN Place(ucur) ELSE delivered
    /\ UNCHANGED <<kvars, uvars, dvars, nvars, rvars, pc, svars, todo, nextId, hlog, bvars>>

\* ring->avail -= rx; then ring->cur = cur: two stores
StoreAvail == avail' = avail - rx /\ UNCHANGED cur
MStoreCur == UNCHANGED <<cur, avail>>              \* mistake: cur is forgotten
StoreCur == cur' = ucur /\ UNCHANGED avail
Store(p) == IF p = "cur" THEN StoreCur ELSE StoreAvail

RecvAvail ==
    /\ pc = "recv" /\ rx = todo
    /\ Store("avail")
    /\ pc' = "cur"
    /\ UNCHANGED <<kvars, reserved, bufIdx, len, dvars, nvars, rvars, svars, lvars, hvars,
                   bvars>>

RecvCur ==
    /\ pc = "cur"
    /\ Store("cur")
    /\ pc' = "user"
    /\ UNCHANGED <<kvars, reserved, bufIdx, len, dvars, nvars, rvars, svars, lvars, hvars,
                   bvars>>

\* a client that keeps (or lets go of) some of the buffers it has consumed
Reserve ==
    /\ pc = "user"
    /\ \E r \in 0 .. MaxResvd : r <= Dist(hwcur, cur) /\ reserved' = r
    /\ UNCHANGED <<kvars, cur, avail, bufIdx, len, dvars, nvars, rvars, pc, svars, lvars,
                   hvars, bvars>>

\* The process dies in user mode.  The interface stays registered through another
\* descriptor, and the process that takes the queue over starts from the ring.
Crash ==
    /\ pc \in {"user", "recv", "cur"} /\ crashes < MaxCrashes
    /\ crashes' = crashes + 1
    /\ pc' = "user"
    /\ UNCHANGED <<kvars, uvars, dvars, nvars, rvars, svars, lvars, hvars, resets, faults>>

\* stores rx_sync checks for: cur outside the ring, a buffer index with no buffer
BadCur ==
    /\ pc = "user" /\ faults < MaxFaults
    /\ cur' = N
    /\ pc' = "fault"
    /\ faults' = faults + 1
    /\ UNCHANGED <<kvars, avail, reserved, bufIdx, len, dvars, nvars, rvars, svars, lvars,
                   hvars, resets, crashes>>

BadBuf ==
    /\ pc = "user" /\ faults < MaxFaults
    /\ \E s \in Slots : Dist(hwcur, s) < Dist(hwcur, cur) /\ bufIdx' = [bufIdx EXCEPT ![s] = 0]
    /\ faults' = faults + 1
    /\ UNCHANGED <<kvars, cur, avail, reserved, len, dvars, nvars, rvars, pc, svars, lvars,
                   hvars, resets, crashes>>

----------------------------------------------------------------------------
(* The driver.  ixgbe_reinit_locked takes the interface down and up again   *)
(* while it stays registered; the watchdog sets the carrier.                *)

LinkUp ==
    /\ rpc = "up" /\ ~carrier
    /\ carrier' = TRUE
    /\ UNCHANGED <<kvars, uvars, dvars, nvars, rpc, pc, svars, lvars, hvars, bvars>>

LinkDown ==
    /\ rpc = "up" /\ carrier
    /\ carrier' = FALSE
    /\ UNCHANGED <<kvars, uvars, dvars, nvars, rpc, pc, svars, lvars, hvars, bvars>>

\* ixgbe_down: stop receiving, carrier off
ResetDown ==
    /\ rpc = "up" /\ resets < MaxResets
    /\ rxen' = FALSE /\ carrier' = FALSE
    /\ rpc' = "down"
    /\ resets' = resets + 1
    /\ UNCHANGED <<kvars, uvars, dvars, head, tail, mem, pc, svars, lvars, hvars,
                   crashes, faults>>

\* ixgbe_clean_rx_ring: what the NIC stored and rx_sync has not yet seen is gone
ResetClean ==
    /\ rpc = "down" /\ (Drains => ~Syncing)
    /\ done' = {} /\ dlen' = [d \in Slots |-> 0]
    /\ daddr' = [d \in Slots |-> 0]
    /\ ntc' = 0 /\ head' = 0 /\ tail' = 0
    /\ rpc' = "clean"
    /\ UNCHANGED <<kvars, uvars, rxen, mem, carrier, pc, svars, lvars, hvars, bvars>>

\* dpa_reset(dadp, ring, 0): harvested packets stay where they are in the ring, and
\* descriptor 0 goes to the slot after them
MNewHwofs == hwcur                                 \* mistake: harvested packets forgotten
NewHwofs == LET sum == hwcur + hwavail IN IF sum > N - 1 THEN sum - N ELSE sum

\* ixgbe_dpa_conf_rx_ring, then the NIC is started
ConfRxRing ==
    /\ rpc = "clean"
    /\ hwofs' = NewHwofs
    /\ daddr' = [d \in Slots |-> bufIdx[Wrap(d + NewHwofs)]]
    /\ tail' = N - 1 - hwavail
    /\ rxen' = TRUE
    /\ rpc' = "up"
    /\ UNCHANGED <<hwcur, hwavail, total, uvars, ntc, done, dlen, head, mem, carrier, pc,
                   svars, lvars, hvars, bvars>>

----------------------------------------------------------------------------
Sync == SyncBadCur \/ SyncBegin \/ Harvest \/ HarvestEnd \/ Rearm \/ RearmBad
Receive == RecvBegin \/ RecvPacket \/ RecvAvail \/ RecvCur
Client == Reserve \/ Crash \/ BadCur \/ BadBuf
Driver == LinkUp \/ LinkDown \/ ResetDown \/ ResetClean \/ ConfRxRing

Next == NicReceive \/ Sync \/ Receive \/ Client \/ Driver

Spec == Init /\ [][Next]_vars

\* The kernel runs a system call to its end, the driver finishes a reset, and the
\* process, which never leaves its loop and polls with a timeout of one second, goes
\* on whatever the NIC does.  RecvBegin is strongly fair because calls of DIOCRXSYNC
\* may come between two polls.
Fairness ==
    /\ WF_vars(SyncBegin \/ SyncBadCur)
    /\ WF_vars(Harvest \/ HarvestEnd \/ Rearm \/ RearmBad)
    /\ SF_vars(RecvBegin)
    /\ WF_vars(RecvPacket \/ RecvAvail \/ RecvCur)
    /\ WF_vars(ResetClean \/ ConfRxRing)

FairSpec == Spec /\ Fairness

----------------------------------------------------------------------------
TypeOK ==
    /\ hwcur \in Slots /\ hwavail \in 0 .. N - 1 /\ hwofs \in Slots /\ total \in Nat
    /\ cur \in 0 .. N /\ avail \in 0 .. N - 1 /\ reserved \in 0 .. N - 1
    /\ bufIdx \in [Slots -> Buffers] /\ len \in [Slots -> Packets]
    /\ ntc \in Slots /\ done \subseteq Slots /\ dlen \in [Slots -> Packets]
    /\ daddr \in [Slots -> Buffers]
    /\ head \in Slots /\ tail \in Slots /\ rxen \in BOOLEAN
    /\ mem \in [Buffers -> Packets]
    /\ carrier \in BOOLEAN /\ rpc \in {"up", "down", "clean"}
    /\ pc \in {"user", "fault", "harvest", "rearm", "recv", "cur"}
    /\ u \in 0 .. N /\ resvd \in 0 .. N - 1 /\ k \in Slots /\ n \in Slots /\ i \in 0 .. N - 1
    /\ ucur \in Slots /\ rx \in 0 .. N - 1 /\ todo \in 0 .. N - 1
    /\ nextId \in 1 .. MaxPkts + 1 /\ hlog \in Seq(Packets) /\ delivered \in Nat
    /\ resets \in 0 .. MaxResets /\ crashes \in 0 .. MaxCrashes /\ faults \in 0 .. MaxFaults

NicOwned == {d \in Slots : rxen /\ Dist(head, d) < Dist(head, tail)}
InUse == {s \in Slots : Dist(hwcur, s) < hwavail}   \* harvested, not yet released

\* The next descriptor rx_sync looks at belongs to the slot after the packets it has
\* handed to the process, before and after any number of resets.  Everything rx_sync
\* and conf_rx_ring do with indices rests on it.
IndexAgree == rpc # "clean" => N2K(ntc) = Wrap(hwcur + hwavail)

\* Zero copy: no buffer of a slot the process may read is one the NIC may write to,
\* and every address the NIC has is that of a buffer of this queue.
NicNeverWritesInUse ==
    \A d \in NicOwned : daddr[d] \in Usable /\ \A s \in InUse : daddr[d] # bufIdx[s]

\* No descriptor gets lost: while the NIC runs, those in use, those it has filled and
\* those it still owns are all but the one that rx_sync holds back.
DescriptorsConserved == rxen => hwavail + Dist(ntc, tail) = N - 1

\* What the callback is given is the packet that was harvested at this place, in its
\* slot's length and in its buffer, and no packet is passed over, also by a process
\* that has taken the queue over from one that died.
InOrder ==
    pc = "recv" /\ rx < todo =>
        /\ Place(ucur) <= total /\ Place(ucur) <= delivered + 1
        /\ bufIdx[ucur] # 0 => /\ len[ucur] = hlog[Place(ucur)]
                               /\ mem[bufIdx[ucur]] = hlog[Place(ucur)]

\* ... and without a death or a fault each packet is given to it once.
ExactlyOnce ==
    pc = "recv" /\ rx < todo /\ crashes = 0 /\ faults = 0 => Place(ucur) = delivered + 1

\* The NIC gets a buffer back only after the packet in it was given to the callback.
ReleasedWereDelivered == total - hwavail <= delivered

\* A registered queue is a queue of N - 1 buffers: rx_sync takes each packet once and in
\* the order the NIC has stored them, loses none but those that the NIC holds when a reset
\* clears its descriptors, and no buffer is used again before its packet was given.
Front == IF pc = "harvest" THEN n ELSE ntc
Unharvested == [j \in 1 .. Dist(Front, head) |-> dlen[Wrap(Front + j - 1)]]
Rx == INSTANCE RxQueue WITH
          Size <- N - 1, came <- nextId - 1, waiting <- Unharvested, taken <- hlog,
          given <- delivered, released <- total - hwavail, running <- rxen
RxSpec == Rx!Spec

\* Every packet the NIC has stored is given to the callback, or is dropped by a
\* reset, if the link is up for good.
AllDelivered ==
    <>[]carrier /\ [](faults = 0) => <>[](ntc = head /\ delivered = total)

\* A NIC out of descriptors gets some back, if the link is up for good.
NicFedAgain == <>[]carrier /\ [](faults = 0) => []<>(head # tail)

----------------------------------------------------------------------------
(* The inductive invariant behind the safety properties above.              *)

Filled == Dist(ntc, head)          \* descriptors the NIC has filled, not yet harvested
Given == Dist(ntc, tail)           \* those, and the ones the NIC still owns

\* where the driver is in a reset
ResetOK ==
    /\ rxen <=> rpc = "up"
    /\ rpc # "up" => ~carrier
    /\ rpc = "clean" => ~Syncing /\ ntc = 0 /\ head = 0 /\ tail = 0 /\ done = {}

\* the three rings agree on who has which slot
RingsOK ==
    rpc # "clean" =>
        /\ N2K(ntc) = Wrap(hwcur + hwavail)
        /\ hwavail + Given = N - 1
        /\ Filled <= Given
        /\ \A d \in Slots : Dist(ntc, d) < Filled => d \in done
        /\ \A d \in Slots : Filled <= Dist(ntc, d) /\ Dist(ntc, d) <= Given => d \notin done
        /\ \A d \in Slots : Dist(ntc, d) <= Given => daddr[d] = N2K(d) + 2

\* a slot has its own buffer or, if the process has written to it, none
BuffersOK ==
    \A s \in Slots : /\ bufIdx[s] \in {s + 2, 0}
                     /\ bufIdx[s] = 0 => faults > 0 /\ s \in InUse

\* a rx_sync in progress
SyncOK ==
    /\ Syncing => u = cur /\ resvd = reserved
    /\ pc = "harvest" => k = N2K(n) /\ Dist(ntc, n) = i /\ i <= Filled

\* the process is inside what it was given
ProcessOK ==
    /\ hwavail <= total
    /\ reserved <= MaxResvd
    /\ cur = N <=> pc = "fault"
    /\ pc = "fault" => faults > 0
    /\ cur # N => reserved <= Dist(hwcur, cur) /\ Dist(hwcur, cur) + avail <= hwavail
    /\ pc = "recv" => rx <= todo /\ todo <= avail /\ Dist(hwcur, ucur) = Dist(hwcur, cur) + rx
    /\ pc = "cur" => /\ Dist(hwcur, cur) <= Dist(hwcur, ucur)
                     /\ Dist(hwcur, ucur) + avail <= hwavail

IInv == TypeOK /\ ResetOK /\ RingsOK /\ BuffersOK /\ SyncOK /\ ProcessOK
=============================================================================
