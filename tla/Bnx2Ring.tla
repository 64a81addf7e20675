------------------------------ MODULE Bnx2Ring ------------------------------
(***************************************************************************)
(* One receive queue of a Broadcom bnx2 adapter captured by DPA.  The last *)
(* descriptor of each page of the NIC ring is a link to the next page (a   *)
(* chain descriptor), but the kring and the ring of the process have a     *)
(* slot for it: rx_sync must count it, the process must skip it, and the   *)
(* index the NIC is given must jump over it.                               *)
(*                                                                         *)
(* rx_prod, rx_cons and the NIC's consumer index run freely, modulo Word.  *)
(* The header of a packet lies in its buffer, and the packet's number      *)
(* stands for both; it is counted modulo Word too.  The process neither    *)
(* dies nor stores bad values here (KRing has these), VLAN tags, counters  *)
(* and nr_kflags are left out, and a reset of the NIC is one step that     *)
(* does not meet a rx_sync.  Locals are zeroed when they are dead.         *)
(***************************************************************************)
EXTENDS Integers, FiniteSets

CONSTANTS
    Page,            \* RX_DESC_CNT: 256
    Pages,           \* pages in use: rx_ring_size / MAX_RX_DESC_CNT
    Word,            \* 2^16
    Batch,           \* PKT_PER_PROCESS
    MaxResvd,        \* bound: buffers the process keeps with ring->reserved
    MaxResets,       \* bound: resets of the NIC
    CleanResets      \* TRUE: only with no packet waiting and the next slot at a page's start

\* bnx2_find_max_ring: pages of the ring, a power of two
MaxRing == IF Pages = 3 THEN 4 ELSE Pages
Num == MaxRing * Page                   \* nkr_num_slots = rx_max_ring_idx + 1
RingSize == Pages * (Page - 1)          \* rx_ring_size

ASSUME Bnx2RingAssumption ==
    /\ Page \in Nat /\ Page >= 4 /\ Pages \in 2 .. 4
    /\ Word \in Nat /\ \E q \in 2 .. Word : Word = q * Num
    /\ Batch \in Nat \ {0} /\ MaxResvd \in Nat /\ MaxResets \in Nat
    /\ CleanResets \in BOOLEAN

VARIABLES
    hwcur, hwavail, hwofs,          \* struct dpa_kring
    cur, avail, reserved, hw_ofs,   \* struct dpa_ring
    rx_prod, rx_cons, daddr,        \* struct bnx2_rx_ring_info; slot of each descriptor's buffer
    hw,                             \* consumer index in the status block
    mem,                            \* the packet in the buffer of each slot
    carrier, resets,
    pc, u, resvd, hw_cons, sw_cons, i,   \* where the process is; locals of rx_sync
    ucur, rx, todo,                 \* locals of the receive loop
    nextId, harvestId, expected     \* ghosts: the packet the NIC stores, rx_sync
                                    \* harvests and the callback is given next

kvars == <<hwcur, hwavail, hwofs>>
uvars == <<cur, avail, reserved, hw_ofs>>
dvars == <<rx_prod, rx_cons, daddr>>
nvars == <<hw, mem, nextId>>
rvars == <<carrier, resets>>
svars == <<u, resvd, hw_cons, sw_cons, i>>
lvars == <<ucur, rx, todo>>
vars == <<kvars, uvars, dvars, nvars, rvars, pc, svars, lvars, harvestId, expected>>

Slots == 0 .. Num - 1
Words == 0 .. Word - 1
NoSlot == Num

----------------------------------------------------------------------------
(* Indices.                                                                 *)

Plus(x, y) == (x + y) % Word
Idx(x) == x % Num                          \* RX_RING_IDX
RxRing(x) == x \div Page                   \* RX_RING: the page
Chain(x) == x % Page = Page - 1            \* (x & MAX_RX_DESC_CNT) == MAX_RX_DESC_CNT

\* NEXT_RX_BD
NextBd(x) == Plus(x, IF x % Page \in {Page - 2, Page - 1} THEN 2 ELSE 1)

\* x after m times NEXT_RX_BD
Advance(x, m) ==
    LET f[j \in 0 .. m] == IF j = 0 THEN x ELSE NextBd(f[j - 1]) IN f[m]

\* bnx2_get_hw_rx_cons
MGetHwCons == hw                                             \* mistake: chain not skipped
GetHwCons == IF Chain(hw) THEN Plus(hw, 1) ELSE hw

N2K(x) == (x + hwofs) % Num
K2N(x) == (x - hwofs) % Num
Next1(x) == IF x = Num - 1 THEN 0 ELSE x + 1
Dist(a, b) == (b - a) % Num

----------------------------------------------------------------------------
(* dpa_reset and bnx2_dpa_conf_rx_ring: the buffer of descriptor d is that  *)
(* of the slot d maps to, for the rx_ring_size descriptors after 0.         *)

Posted == {Advance(0, m) : m \in 0 .. RingSize - 1}

Init ==
    /\ hwcur = 0 /\ hwavail = 0 /\ hwofs = 0
    /\ cur = 0 /\ avail = 0 /\ reserved = 0 /\ hw_ofs = 0
    /\ rx_cons = 0 /\ rx_prod = Advance(0, RingSize)
    /\ daddr = [d \in Slots |-> IF d \in Posted THEN d ELSE NoSlot]
    /\ hw = 0 /\ mem = [s \in Slots |-> 0] /\ nextId = 0
    /\ carrier = FALSE /\ resets = 0
    /\ pc = "user"
    /\ u = 0 /\ resvd = 0 /\ hw_cons = 0 /\ sw_cons = 0 /\ i = 0
    /\ ucur = 0 /\ rx = 0 /\ todo = 0
    /\ harvestId = 0 /\ expected = 0

\* dpa_reset: the harvested packets stay, and descriptor 0 goes to the slot after them
NewHwofs == LET sum == hwcur + hwavail IN IF sum > Num - 1 THEN sum - Num ELSE sum

Syncing == pc \in {"harvest", "rearm"}
Clean == hwavail = 0 /\ K2N(hwcur) % Page = 0

\* the NIC stops, and what it stored and rx_sync has not yet seen is gone
Reset ==
    /\ resets < MaxResets /\ ~Syncing /\ (CleanResets => Clean)
    /\ resets' = resets + 1
    /\ carrier' = FALSE
    /\ hwofs' = NewHwofs
    /\ daddr' = [d \in Slots |-> IF d \in Posted THEN (d + NewHwofs) % Num ELSE daddr[d]]
    /\ rx_cons' = 0 /\ rx_prod' = Advance(0, RingSize)
    /\ hw' = 0 /\ nextId' = harvestId
    /\ UNCHANGED <<hwcur, hwavail, uvars, mem, pc, svars, lvars, harvestId, expected>>

\* The link comes up after that, and stays up: without it rx_sync would do nothing.
LinkUp ==
    /\ ~carrier
    /\ carrier' = TRUE
    /\ UNCHANGED <<kvars, uvars, dvars, nvars, resets, pc, svars, lvars, harvestId, expected>>

\* The NIC fills the descriptors before rx_prod, passing over the links.
NicReceive ==
    LET d == IF Chain(hw) THEN Plus(hw, 1) ELSE hw
    IN  /\ d # rx_prod
        /\ mem' = [mem EXCEPT ![daddr[Idx(d)]] = nextId]
        /\ hw' = Plus(d, 1)
        /\ nextId' = Plus(nextId, 1)
        /\ UNCHANGED <<kvars, uvars, dvars, rvars, pc, svars, lvars, harvestId, expected>>

----------------------------------------------------------------------------
(* rx_sync.                                                                 *)

\* without a carrier it does nothing
SyncBegin ==
    /\ pc = "user" /\ carrier
    /\ hw_ofs' = hwofs
    /\ u' = cur /\ resvd' = reserved
    /\ hw_cons' = GetHwCons /\ sw_cons' = rx_cons /\ i' = 0
    /\ pc' = "harvest"
    /\ UNCHANGED <<kvars, cur, avail, reserved, dvars, nvars, rvars, lvars, harvestId, expected>>

\* the guard that stops the harvest in a full ring
MFull == i >= RingSize - 1                         \* mistake: packets that wait forgotten
Full == i + hwavail >= RingSize - 1

HarvestPacket ==
    /\ pc = "harvest" /\ ~Full /\ sw_cons # hw_cons
    /\ sw_cons' = NextBd(sw_cons)
    /\ i' = i + 1
    /\ UNCHANGED <<kvars, uvars, dvars, nvars, rvars, pc, u, resvd, hw_cons, lvars,
                   harvestId, expected>>

\* the NIC's index is read again when the harvest has caught up with it
HarvestReload ==
    /\ pc = "harvest" /\ ~Full /\ sw_cons = hw_cons /\ GetHwCons # hw_cons
    /\ hw_cons' = GetHwCons
    /\ UNCHANGED <<kvars, uvars, dvars, nvars, rvars, pc, u, resvd, sw_cons, i, lvars,
                   harvestId, expected>>

\* chain descriptors between two slots of the kring, by the pages the slots lie in
MCrossed(k0, k1) == IF RxRing(k1) # RxRing(k0) THEN 1 ELSE 0     \* mistake: one at most
Crossed(k0, k1) ==
    LET pass_cycle == RxRing(RingSize) + 1
        ibefore == RxRing(k0)
        iend == RxRing(k1)
    IN  IF iend < ibefore THEN pass_cycle + iend - ibefore
        ELSE IF iend > ibefore THEN iend - ibefore
        ELSE IF i > Page - 1 THEN pass_cycle ELSE 0

HarvestEnd ==
    /\ pc = "harvest" /\ (Full \/ (sw_cons = hw_cons /\ GetHwCons = hw_cons))
    /\ hwavail' = IF i = 0 THEN hwavail
                  ELSE hwavail + i + Crossed(N2K(Idx(rx_cons)), N2K(Idx(sw_cons)))
    /\ rx_cons' = sw_cons
    /\ harvestId' = Plus(harvestId, i)
    /\ pc' = "rearm"
    /\ UNCHANGED <<hwcur, hwofs, uvars, rx_prod, daddr, nvars, rvars, svars, lvars, expected>>

\* What the process has released goes back to the NIC with its buffers as they are: only
\* rx_prod moves, by one for each slot whose successor is not that of a link.
Resvd == IF resvd > 0 /\ resvd + avail >= Num THEN 0 ELSE resvd
NewHwcur == IF u >= Resvd THEN u - Resvd ELSE u + Num - Resvd
Count == Dist(hwcur, NewHwcur)
MMoves == Count                                    \* mistake: links counted
MOwnMoves ==                                       \* mistake: the slot, not its successor
    Cardinality({j \in 0 .. Count - 1 : ~Chain(K2N((hwcur + j) % Num))})
Moves == Cardinality({j \in 1 .. Count : ~Chain(K2N((hwcur + j) % Num))})

MPublished(a) == IF Count > 0 THEN a - Resvd ELSE avail          \* mistake: only then
Published(a) == a - Resvd

Rearm ==
    /\ pc = "rearm"
    /\ hwavail' = hwavail - Count
    /\ hwcur' = NewHwcur
    /\ rx_prod' = Advance(rx_prod, Moves)
    /\ reserved' = Resvd
    /\ avail' = Published(hwavail')
    /\ pc' = "user"
    /\ u' = 0 /\ resvd' = 0 /\ hw_cons' = 0 /\ sw_cons' = 0 /\ i' = 0
    /\ UNCHANGED <<hwofs, cur, hw_ofs, rx_cons, daddr, nvars, rvars, lvars, harvestId, expected>>

----------------------------------------------------------------------------
(* The process: raw_recv_proc_bnx2.                                         *)

RecvBegin ==
    /\ pc = "user" /\ avail > 0
    /\ pc' = "recv"
    /\ ucur' = cur /\ rx' = 0
    /\ todo' = IF avail < Batch THEN avail ELSE Batch
    /\ UNCHANGED <<kvars, uvars, dvars, nvars, rvars, svars, harvestId, expected>>

\* the slot of a link, by the offset that rx_sync has copied
Skipped(s) == Chain((s - hw_ofs) % Num)

RecvSlot ==
    /\ pc = "recv" /\ rx < todo
    /\ expected' = IF Skipped(ucur) THEN expected ELSE Plus(mem[ucur], 1)
    /\ ucur' = Next1(ucur) /\ rx' = rx + 1
    /\ UNCHANGED <<kvars, uvars, dvars, nvars, rvars, pc, svars, todo, harvestId>>

RecvAvail ==
    /\ pc = "recv" /\ rx = todo
    /\ avail' = avail - rx
    /\ pc' = "cur"
    /\ UNCHANGED <<kvars, cur, reserved, hw_ofs, dvars, nvars, rvars, svars, lvars,
                   harvestId, expected>>

RecvCur ==
    /\ pc = "cur"
    /\ cur' = ucur
    /\ pc' = "user" /\ ucur' = 0 /\ rx' = 0 /\ todo' = 0
    /\ UNCHANGED <<kvars, avail, reserved, hw_ofs, dvars, nvars, rvars, svars, harvestId, expected>>

\* a client that keeps (or lets go of) some of the buffers it has consumed
Reserve ==
    /\ pc = "user"
    /\ \E r \in 0 .. MaxResvd : r <= Dist(hwcur, cur) /\ reserved' = r
    /\ UNCHANGED <<kvars, cur, avail, hw_ofs, dvars, nvars, rvars, pc, svars, lvars,
                   harvestId, expected>>

----------------------------------------------------------------------------
Sync == SyncBegin \/ HarvestPacket \/ HarvestReload \/ HarvestEnd \/ Rearm
Receive == RecvBegin \/ RecvSlot \/ RecvAvail \/ RecvCur

Next == NicReceive \/ Sync \/ Receive \/ Reserve \/ Reset \/ LinkUp

Spec == Init /\ [][Next]_vars

\* As for the Intel adapters: a system call comes to its end, the process goes on whatever
\* the NIC does, and finds its packets though other calls of DIOCRXSYNC come in between.
Fairness ==
    /\ SF_vars(SyncBegin)
    /\ WF_vars(HarvestPacket \/ HarvestReload \/ HarvestEnd \/ Rearm)
    /\ SF_vars(RecvBegin)
    /\ WF_vars(RecvSlot \/ RecvAvail \/ RecvCur)

FairSpec == Spec /\ Fairness

----------------------------------------------------------------------------
TypeOK ==
    /\ hwcur \in Slots /\ hwavail \in 0 .. Num - 1 /\ hwofs \in Slots
    /\ cur \in Slots /\ avail \in 0 .. Num - 1 /\ reserved \in 0 .. MaxResvd /\ hw_ofs \in Slots
    /\ rx_prod \in Words /\ rx_cons \in Words /\ daddr \in [Slots -> Slots \cup {NoSlot}]
    /\ hw \in Words /\ mem \in [Slots -> Words]
    /\ carrier \in BOOLEAN /\ resets \in 0 .. MaxResets
    /\ pc \in {"user", "harvest", "rearm", "recv", "cur"}
    /\ u \in Slots /\ resvd \in 0 .. MaxResvd /\ hw_cons \in Words /\ sw_cons \in Words
    /\ i \in 0 .. RingSize
    /\ ucur \in Slots /\ rx \in 0 .. Batch /\ todo \in 0 .. Batch
    /\ nextId \in Words /\ harvestId \in Words /\ expected \in Words

\* The kring's next empty buffer is that of the NIC's next descriptor (dpa_k.h): rx_sync
\* counts as many links as lie between the packets, wherever the pages turn.
NextEmptyAgrees == pc # "harvest" => N2K(Idx(rx_cons)) = (hwcur + hwavail) % Num

\* Descriptors the NIC may fill, and slots the process may read.
NicOwned == {Idx(Plus(hw, j)) : j \in 0 .. ((rx_prod - hw) % Word) - 1} \ {d \in Slots : Chain(d)}
InUse == {s \in Slots : Dist(hwcur, s) < hwavail}

\* Each descriptor of the NIC has a buffer, and none of them is one the process may read.
NicNeverWritesInUse == \A d \in NicOwned : daddr[d] \in Slots \ InUse

\* The NIC has been given all that was released: its limit is the descriptor of hwcur, or
\* the one before when that is a link, and one turn ahead of what rx_sync has harvested.
NicHasTheRest ==
    LET d == K2N(hwcur)
    IN  pc # "harvest" =>
            (rx_prod - rx_cons) % Word = Num - hwavail - (IF Chain(d) THEN 1 ELSE 0)

\* The callback is given the packets in the order they came, each once; links are passed
\* over, and nothing else is.
InOrder ==
    pc = "recv" /\ rx < todo =>
        IF Chain(K2N(ucur)) THEN Skipped(ucur) ELSE ~Skipped(ucur) /\ mem[ucur] = expected

\* With a carrier for good packets keep coming to the callback until all are delivered (or
\* dropped by a reset): in the order they came, so none waits for ever.
Delivered ==
    <>[]carrier => []<>(expected = nextId) \/ []<><<expected' # expected>>_expected
=============================================================================
