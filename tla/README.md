# A TLA+ model of DPA (Direct Packet Access)

DPA takes a network interface away from the Linux stack and gives its receive queues to
user processes without copying. A kernel module (`kernel/`) owns packet buffers that
processes map; patched Intel and Broadcom drivers (`drivers/*/…_dpa.h` and hooks in the
vendors' files) fill them; a library (`lib/`) receives from a queue directly, or from copies
that a daemon (`duplicator/`) makes into shared memory for several programs.

This directory holds TLA+ modules of the parts where order matters, TLC configurations that
check them, and proofs for TLAPS. `PROJECT.json` lists components, runs, hazards and
theorems, and for each definition the lines of code it models.

## The system

| Component | State | Operations | Module |
|---|---|---|---|
| Receive queue, Intel (`ixgbe_dpa.h`, `dpa_main.c`, hooks in `ixgbe_main.c`) | kring `hwcur hwavail hwofs`, ring `cur avail reserved slot[]`, NIC ring, buffers | `rx_sync`, `dpa_ring_reinit`, `dpa_reset`, `conf_rx_ring`, `ixgbe_down`, watchdog | KRing, RxQueue |
| Direct receive loop (`raw_intf.c`) | position in the ring | poll, callback, store `avail` and `cur` | KRing |
| Registration (`dpa_main.c`, `dpa_mem.c`, `ixgbe_dpa_reg`) | `refs`, enable flag, `reg_lock`, `private_data`, pool | DIOCREGIF, DIOCUNREGIF, close, DIOCRXSYNC, poll | DpaReg |
| Duplicator queue (`duplicator.c`, `queue.c`, `dup_queue.c`, `dup_intf.c`) | `widx ridx drop_packets slot[]` in shared memory, each side's own index | copy, drop, publish, read, give back | DupQueue, DupFifo |
| Poll and interrupts (`dpa_poll`, `dpa_rx_irq`) | wait queues, `q_lock`, `core_lock`, vectors | sleep, wake up | PollWake |
| Object pools (`dpa_mem.c`) | bitmaps, `obj_free`, slots of the rings | malloc, free, what a failed `dpa_new_if` undoes | ObjPool; a set in DpaReg |
| Life of an ixgbe interface (`ixgbe_main.c`, `ixgbe_dpa_reg`) | `IFF_UP`, enable flag, `DOWN`, `RESETTING`, NAPI, carrier | open, close, reset, watchdog, `reg()` | UpDown |
| Receive queue, Broadcom (`bnx2_dpa.h`, `raw_recv_proc_bnx2`) | as above, with links between pages of descriptors | `rx_sync`, `conf_rx_ring`, receive loop | Bnx2Ring |
| Receive queue, igb (`igb_dpa.h`) | as ixgbe | the same statements with other register names | KRing describes it |
| Shared memory file (`shm.c`, `dup_open`), map (`dpa_mmap`), attach and detach | file, lock, header | create, attach, open | not modelled |
| libdpa dispatch, statistics, tools, scripts, vendor drivers | | | not modelled |

How they meet. A process calls the kernel through poll and ioctl on `/dev/dpa` and shares
the rings with it in memory; the NIC shares descriptors and buffers with the kernel by DMA;
the driver calls `dpa_reset` and `dpa_rx_irq` from its own contexts, and DPA calls the driver
through `reg`, `rx_sync` and `get_rx_stats`. The duplicator is a process that uses the
direct interface, and shares queues with readers in POSIX shared memory, without a lock.

What is hard. Three index spaces (NIC ring, kring, user ring) must stay in step while the
NIC adds packets, the process consumes them and the driver resets the ring. Processes die
between two stores. Nobody locks the NIC or the driver out of `rx_sync`. The last
unregistration gives up its lock in the middle. Two programs move the two indices of a
queue with plain loads and stores. What makes each part correct:

- receive queue: indices agree, no buffer is written by the NIC while a process may read it,
  no descriptor is lost, packets arrive in order, once, and all of them;
- registration: who is registered can receive; rings are freed once, when nobody uses them,
  and in the end; every call returns;
- Broadcom queue: kring and NIC count the same descriptors although links lie between them,
  and the NIC always has the buffers that nobody uses;
- poll: no wake-up is lost between the look at a ring and the sleep;
- pools: no object is free and used, or used twice, and none is lost when a call fails half
  way;
- interface: NAPI and `rx_sync` meet only rings filled for the mode they are in, and nobody
  waits for ever for the bit, the lock or NAPI;
- duplicator queue: a bounded FIFO that drops only when it is full and counts what it drops.

## The modules

**KRing** models one receive queue of an Intel adapter. The variables carry the names of the
code: `hwcur`, `hwavail`, `hwofs` are the fields of `struct dpa_kring`, `cur`, `avail`,
`reserved` those of `struct dpa_ring`, `ntc` is `next_to_clean`, `head`, `tail` and `rxen`
are the NIC's registers; `done`, `dlen` and `daddr` are the descriptors' DD bit, length and
address, and `mem` is what the buffers hold. A packet is its number in the order of
arrival, which stands for its length and its bytes. `pc` says where the process is; a
`rx_sync` is `SyncBegin`, a `Harvest` for each descriptor, `HarvestEnd` and `Rearm`, and the
NIC and the driver act between them, as they can in the code. The receive loop gives each
packet to the callback in a step of its own (`RecvPacket`) and then stores `avail` and
`cur` in two (`RecvAvail`, `RecvCur`); the process may die at each (`Crash`), and another one
goes on from the ring. Only then does a `rx_sync` run on a ring of which one of the two is
stored and not the other: a queue has one thread, and no other calls `rx_sync` for it. A reset is `ResetDown`, `ResetClean`, `ConfRxRing`. `BadCur` and
`BadBuf` are the two stores of a broken process that `rx_sync` checks for.
**RxQueue** is what a captured queue promises: `N - 1` buffers, packets taken from the NIC each
once and in order, lost only while the NIC is stopped and all that wait in it together, given
to the process in order, and no buffer free before its packet was given. KRing implements it
(`RxSpec`), by a mapping under which the descriptors filled and not yet harvested are the
packets that wait, also in the middle of a harvest. A packet that is given again after a death is
no step of it; `ExactlyOnce` says when there is none.
**KRing_proofs** holds the proofs.

**DpaReg** models files that register to one interface. Each thread has a `pc` that passes
through the code's critical sections and the gaps between them: waiting for a deletion
(`RegWait`, `RegBusy`), `dpa_new_if` under the lock (`RegNewIf`, `RegFull`, `RegNoMem`),
`reg()` (`RegJoin`, `RegNic`, `RegNicFails`), the store of `private_data` after the unlock
(`RegSet`), and of `dpa_destructor` the part before the sleep (`UnregLock`), `reg(0)` and the
release of the rings after it (`DelNic`, `DelRings`), and the free of the `dpa_priv` before
the file forgets it (`PrivFree`, `PrivClear`). A `set_ring_id` that fails returns like
`RegFull` and has no action. Another interface takes from the same pool. `promisc` is the
kernel's unsigned counter, with `Word` in the place of 2^32.

**DupQueue** models one queue of the duplicator with its writer and its reader. `widx` and
`ridx` are volatile in the code and mentioned several times in a function, so each mention
is a load and a step (`WLoad1`, `WAbove`, `WBelow`, `WEqual`, `WLoad3`; `RLoad1`, `RLoad2`).
`w`, `wavali`, `r`, `ravali` are the locals of the two loops. **DupFifo** is what the queue
promises: a bounded FIFO that may be read in batches. The queue implements it, by the mapping
that takes the slots from `ridx` up to `widx` for the contents.

**Bnx2Ring** models one receive queue of bnx2. Every page of descriptors ends in a link to the
next; the NIC's ring, the kring and the process's ring each have to pass over it. `GetHwCons`
and `NextBd` jump over it, `Crossed` is the count of pages by which `rx_sync` adds the links
to `hwavail`, `Moves` the step of `rx_prod`, and `Skipped` what `raw_recv_proc_bnx2` passes
over. The NIC's indices have `Word` values in the place of 2^16. A `rx_sync` reads the NIC's
index again (`HarvestReload`) when it has caught up with it.

**PollWake** models a process in `dpa_poll` step by step: the look without a lock
(`PollEnter`), `core_lock` (`PollLockCore`), for each ring `q_lock` and `rx_sync`
(`PollSync`, `PollUnlock`), and the wait queues (`PollEnd`); and on the other side the interrupt,
NAPI and `dpa_rx_irq`'s two wake-ups under its two locks (`IrqWakeRing`, `IrqWakeCore`). `dd` and
`avail` say which rings have packets; how many does not matter to a wake-up. `CheckHang` is
the service task's interrupt, `Carrier` the watchdog. Waiting and waking are the kernel's:
a poller that was woken asks once more with `pwait` at NULL.

**ObjPool** models the three pools as two interfaces use them: `Join`, or `NewIfBegin` and a
`NewRing` for each queue, which may end in `NoRing` or `NoBufs` and then `NewIfFails`; and the
destructor, which frees buffers under the lock (`UnregBufs`) and rings and the interface object
without it, as loads and stores (`FreeRingLoads`, `FreeRingStores`, `FreeIfLoads`,
`FreeIfStores`). A bitmap is the set of the objects whose bit is 1. `kring->ring` keeps
pointing to rings that were freed, as in the code.

**UpDown** models who takes an ixgbe interface down and up. `Down`, `DownCarrier`, `DownNapi`
and `DownClean` are `ixgbe_down`; `UpFill`, `UpStart` and `UpNapi` are `ixgbe_up`. Three actors call
them: a registration (`RegCall`, `RegFlag`, `RegPromisc`), the administrator (`AdminOpen`,
`AdminClose`, `AdminReset`, under the rtnl lock) and the service task (`ServiceBegin`, and its
watchdog `WatchBegin`, `WatchLink`, `WatchCarrier`). `SetBit` and `ClearBit` are `RESETTING`,
which `ixgbe_close` does not look at. `ring` is what the descriptors point to: nothing, no
buffers, socket buffers or the process's.

## The runs

| Run | What it asks | Bounds |
|---|---|---|
| kring | Safety of the receive queue, it is an RxQueue, every packet is delivered, the NIC gets descriptors back | 4 slots, 5 packets, batch 2, 2 resets, 1 death, 1 kept buffer |
| kring_faults | A process that stores a bad value; the invariant of the proofs | 4 slots, 5 packets, 1 reset, 1 death, 1 fault |
| bnx2 | The queue with links: indices agree, the NIC has the rest, order, delivery | 2 pages of 4 descriptors, indices of 16 values, 1 reset, 1 kept buffer |
| poll | No wake-up is lost, no two locks block each other | 2 rings, 1 vector, 1 change of the carrier |
| reg | Registrations are counted right, rings freed once and in the end, every call returns | 2 threads, 3 files, 2 queues, 2 objects in the pool |
| pool | No object lost or used twice when pools run out | 2 interfaces of 2 queues with 1 or 2 slots, 3 or 4 rings, 4 or 5 buffers |
| updown | Rings fit the mode, every call ends | 1 registration, 1 administrator, 1 service task; the graph has no counter to bound |
| dup_queue | The queue is a FIFO, no overrun, drops and counters, and everything is read | 4 slots, 6 packets, batches of 3, 1 death of the reader |

Why the bounds are enough. Four slots are the fewest for a ring in which packets wait, are
harvested, are owned by the NIC and one descriptor is held back, all at once; five packets go
round it, so that every index wraps; two resets give an offset that is neither 0 nor
the first one. The pages of a bnx2 ring are as many as the shortest ring of the driver has, and
sixteen values of its indices wrap after two turns of the ring. In poll
one vector has two rings, so that `dpa_rx_irq` runs for both in a row; a second vector would take
its steps independently of the first but for `core_lock`. Two files fill an interface of two
queues and the third is refused; two threads let one register while the other is in the sleep
of the last deletion. Two interfaces of two queues need four rings: with three, the second
registration fails at its first or second queue for want of a ring, and with four rings and
too few buffers it fails at either for want of buffers. In the queue of the duplicator
six packets wrap both indices and a batch of three fills it.

Four more runs show where the code does not do what its comments say, each without an
assumption that a run above makes:

- **dup_lost**: a `dup_queue_read_avali` that sees `widx` before and after it wraps returns
  a negative number; the reader then gives back slots it has not read, and
  those packets are counted nowhere.
- **reg_promisc**: a registration refused because the interface is down is undone with
  `reg(netdev, 0)`, which lowers a promiscuity that was never raised. The counter wraps; the
  interface stays promiscuous, and the next registration fails.
- **reg_race**: while such a registration is undone the enable flag is not set, so the
  state that `DIOCREGIF` waits for is not seen. Another file joins, and then loses its rings.
- **bnx2_reset**: `rx_sync` counts links by the pages of the kring, but they lie at the ends of
  the NIC's pages. After a reset elsewhere than at a page's border the two differ, and
  the process is given slots that the NIC has not filled.

## Assumptions

The modules name what the code relies on without ensuring it. Each is a constant; changing
it makes TLC find a property violated, and `PROJECT.json` lists it as a hazard at its line.

- `Drains` (KRing): a `rx_sync` that saw the carrier ends before the driver clears the
  descriptors. The driver sleeps ten milliseconds and more in between, but there is no lock.
  Without it `IndexAgree` fails. UpDown's `DownClean` waits for `syncing` for the same reason.
- `MaxResvd = 0` where there are faults (KRing): `dpa_ring_reinit` rewinds `cur` and keeps
  `reserved`; with kept buffers the next `rx_sync` may release nearly the whole ring, and
  `hwavail` drops below zero.
- `Overlaps = FALSE` (DpaReg): nobody registers in the sleep of a registration that failed.
  `reg_race` drops it.
- `LoadsTear = FALSE` (DupQueue): a side stops at its first call whose loads disagree
  and whose result is wrong for it. `dup_lost` drops it.
- `CleanResets` (Bnx2Ring): a reset comes when no packet waits and the kring is at a page's border.
  `bnx2_reset` drops it. Two pages (or four) besides: with three, the NIC's ring has a page
  that gets no buffers, and `NicNeverWritesInUse` fails without a reset.
- `Stale = FALSE` (ObjPool): a registration does not run out of memory at a queue before one
  whose kring still points to a ring of an earlier registration. The clean-up would free that ring,
  which may be another interface's by now (`Exclusive`).
- `Races = FALSE` (ObjPool): nobody uses the pools while a destructor frees rings
  without the lock. Otherwise updates of the bitmap are lost (`Exclusive`).
- `Overlaps = {}` (UpDown): the administrator neither opens nor closes the interface during a
  registration or a reset (else `ixgbe_down` waits for ever in `napi_disable`, with `RESETTING`
  set), nor resets it during a registration (else one waits for the rtnl lock with the bit, the other
  for the bit with the lock), and a pass of the watchdog ends within `ixgbe_down`'s sleep (else the
  carrier of a closed interface is on and `rx_sync` goes to rings that were freed).
- One process at a time uses a queue and one thread a file, as in libdpa; one reader a
  queue of the duplicator.
- Memory is sequentially consistent: the code has `rmb`, `wmb` and `memory_barrier` where the
  two sides meet.

Fairness. In KRing, the kernel runs a `rx_sync` to its end (`SyncBegin`, `Harvest` and `Rearm`
weakly fair), the driver finishes a reset it has begun, and the process goes on: its loop
polls with a timeout of one second and never ends. `RecvBegin` is strongly fair as DIOCRXSYNC
may come between two polls and disables it while it runs. The NIC, the
link, faults and deaths are not fair; the liveness properties are stated for a link that
is up for good in the end. In DpaReg a call that has begun goes on: `reg_lock` is a kernel
mutex, which is handed to its waiters, hence strong fairness of the thread's steps. In
DupQueue both programs run. In Bnx2Ring the fairness is that of KRing. In PollWake the CPUs
run interrupts, NAPI and processes; the spin locks hand themselves to waiters in order, and the
service task interrupts every two seconds: `Woken` rests on that for packets that came without a
carrier. In UpDown who has begun goes on, and `RESETTING`, which is asked for every
millisecond while resets are seconds apart, is had at some time. ObjPool has no liveness property.

## What is proved

Each `X_proofs` proves theorems about module `X` for every value of its constants: of any size
of a ring or a pool, any number of processes, packets, resets and deaths. They are listed in
`PROJECT.json` under `theorems`. The properties of the runs are seldom inductive; each module
has one invariant, or a chain of them, that is, and that TLC has checked as well. Below it are
lemmas on the arithmetic or the sets it is made of, then a lemma for each action (in the larger
modules one for each action and part of the invariant), then the theorems.

**KRing_proofs**: `IInv` (`Inductive`), from which `TypeOK` (`Typing`), `IndexAgree`
(`Agreement`), `NicNeverWritesInUse` (`ZeroCopy`) and `DescriptorsConserved`
(`Conservation`) follow. That descriptor and slot indices agree after a reset needs
that `hwavail` counts what was harvested; that `rx_sync` releases only what it may needs
that the process is inside what it was given, at each point of its loop and at its death. `IInv`
says so in five parts: `ResetOK` (where the driver is), `RingsOK` (indices agree, `hwavail` and
the NIC's descriptors add up to all but one, DD is set on exactly those that the NIC has
filled, addresses belong to their slots), `BuffersOK` (slots have distinct buffers or, after
a fault, none), `SyncOK` (locals of a `rx_sync` in progress), `ProcessOK` (`cur`, `avail` and
`reserved` lie in what was handed out). On top of it `DInv` (`DataKept`) follows the packets
from the NIC's store to the callback: the log has what was harvested (`LogOK`), a filled
descriptor has its packet in its length and its buffer (`StoredOK`), so does each slot in use
(`PacketsOK`), and the callback has been given all that lies before the process (`DeliveredOK`).
From it come `InOrder` (`Ordered`), `ExactlyOnce` (`Once`), `ReleasedWereDelivered`
(`NotTooEarly`) and that the loop of `rx_sync` never laps the ring (`Stopping`). With both,
every step is one of RxQueue or none (`Refinement`). All assume `Legal`: `Drains`, and that
the process keeps no buffers or stores no bad values (with both they are false, see above).

**DupQueue_proofs** has two layers. `CInv` (`Counting`) holds with torn loads too: types, what
was copied, dropped and reported add up, and a writer in the branch that drops has seen a
full queue. It gives `TypeOK`, `DropsOnlyWhenFull` and `CountersAgree`. `QInv` (`Queueing`) holds
with `LoadsTear = FALSE`: the slots from `ridx` up to `widx` are the packets accepted and not given
back, the writer's and the reader's own indices lie in between, and what either has loaded
is on the safe side of what the other has moved since. It gives `NoOverrun` (`Overrun`),
`ReadsWhatWasWritten` (`Reading`) and, as every step of the queue is a step of the FIFO or none,
the refinement of DupFifo (`Refinement`).

**Bnx2Ring_proofs**: all is counted in steps up the rings. A reset that comes at a page's start
keeps kring and NIC ring whole pages apart (`OffsetsOK`), so links lie at the same offsets in both,
and `m` times `NEXT_RX_BD` from offset `a` pass `(a + m) \div (Page - 1)` links (`AdvanceAt`). From
that: `rx_sync` counts them right by the pages where it began and ended (`CrossedIs`), and one
buffer for each slot that is not before a link brings `rx_prod` to the descriptor of `hwcur`
(`RearmAt`). On these rest `RingsOK` (where `rx_cons`, `rx_prod` and the NIC are), `SyncOK` and
`ProcessOK` (inside what was given) and `DataOK` (which packet is in the buffer `t` slots up from
`hwcur`), together `IInv` (`Whereabouts`). From it `NextEmptyAgrees` (`LinksCounted`), `NicHasTheRest`
(`AllGivenBack`), `NicNeverWritesInUse` (`NoOverwriting`), `InOrder` (`Ordered`) and `TypeOK`. They
assume `Legal`: `CleanResets` (without it links are miscounted, as `bnx2_reset` shows), and not
three pages (then the ring has a fourth without buffers, a hazard in `PROJECT.json`).
`Advance` iterates, and the library's induction theorems cannot be used; a set of naturals that
has 0 and the successors of its members is shown to be all of them (`Induct`), which serves instead.

**PollWake_proofs**: a poller looks at a ring while it holds a lock that the interrupt needs
for its wake-up, and keeps it until it is on the wait queue. `IInv` (`Inductive`) says for each
`pc` of a poller which locks it holds (`LockOK`), when it is on its queue (`QueueOK`), that what it has
harvested makes it return (`SeenOK`), and that what came to a ring after its look is still to
be announced to it (`ComingOK`). `NoLostWakeup` (`WakeUps`) is the last part for one who sleeps.

**DpaReg_proofs** has two layers as well. `CInv` (`Ownership`) holds in every interleaving: who is in a
call, whose a `dpa_priv` is, and that `refs` counts registrations made and not taken back,
which is `RefsAgree` (`Counted`). `IInv` (`Holding`) adds the interface and the pool: at most one
thread deletes, only at `refs = 0`, and the rings are out of the pool exactly from the first
registration to the end of the deletion. It needs `Overlaps = FALSE`: without it two threads
delete, as `reg_race` shows. From it `TypeOK`, `PoolExact`, `RegisteredCanReceive`,
`NoUseAfterFree` and `NothingLeft`.

**ObjPool_proofs**: `IInv` (`Accounting`) says who has which object at each point of a call, also half way
through a registration, its way back, or a release (`HasIf`, `HasRing`, `HasBufs`): nothing had is
free, nothing is had twice, and what is not free is had. The free set and the counter that a
release without the lock has loaded are still the pool's (`CallOK`), and a registration has no
pointers beyond the queue it is at (`NoStale`); the first needs `Races = FALSE`, the second
`Stale = FALSE`. From it `TypeOK`, `Exclusive` (`Exclusion`) and `NothingLost` (`Balance`).

**UpDown_proofs**: `IInv` (`Alone`) says that one actor at a time is between `ixgbe_down` and the
end of `ixgbe_up` (`AloneOK`: by `RESETTING`, or because opening and closing keep apart from
the others), that each takes down only what is up (`UpOK`), and from where he is it follows whether
the interface is down and NAPI enabled (`DownOK`) and for whom the descriptors are (`RingOK`). From it
`TypeOK` (`Typing`; NAPI is never enabled twice) and `RightRing` (`OwnRing`). `Legal` excludes
`"close"` and `"watchdog"` from `Overlaps` (with either, TLC finds `RightRing` violated), not
`"ethtool"`: resets by the administrator during a registration may block both, but never
break the rings, which is more than the run shows.

Only model-checked:

- every liveness property (`AllDelivered`, `NicFedAgain`, `AllRead`, `EveryCallReturns`, `Woken`,
  `Delivered`, `EveryCallEnds`): fairness and ENABLED are beyond the proof system.

## Not modelled, and the plan

The modules follow DPA's own code, a few thousand lines; most of the repository's lines are the
three vendors' drivers (register access, PHYs, EEPROMs, transmission, ethtool), of which only the
parts that DPA's code calls or is called from are modelled. The share of all
lines that the map covers is therefore small and stays so.

Left out:

- VLAN and type flags, byte counters, timestamps, statistics and their formatting, option parsing,
  scripts: data that no property here depends on;
- creation of the pools (`dpa_new_obj_allocator`) and the offsets of the map: sequential code at
  module load. When a cluster cannot be had it keeps half of the objects with an `obj_total` that is
  one short and clusters that are cut in two (a hazard in `PROJECT.json`);
- attach and detach: `dpa_detach` frees the adapter while a thread may sleep in
  `dpa_destructor_locked`; files hold a reference on the interface and on the driver, and removal of
  a driver in use is refused by the kernel for that reason;
- the shared memory file: a duplicator that starts again truncates it under readers that have it
  mapped, and `magic` is written before the rest of the header;
- two threads on one file or on one queue: `rx_sync` reads `cur` and `reserved` before it takes
  `q_lock`, and `private_data` is cleared after what it points to was freed;
- in DpaReg, a `dpa_priv` that cannot be allocated (`dpa_main.c:458`: the device that was acquired is let go, and nothing else has changed)
  and an interface object that cannot be had;
- in PollWake, the `POLLERR` results of `dpa_poll` (not registered, or an error of `rx_sync`): the
  caller returns at once and does not sleep;
- in Bnx2Ring, `rx_prod_bseq`, bad buffers and the death of the process; a reset is one step there.
  What the code does about deaths and bad values is checked for the Intel queue, in KRing;
- suspend and bus errors in the drivers; bnx2's `reg()`, which has no bit `RESETTING`; `dup_proc_bnx2`.

Next:

1. Bnx2Ring as an RxQueue: its packets are counted modulo `Word`, and the number of each
   in full would have to be kept beside them.
2. `ShmFile`: creation under `flock`, the header, readers that open before, during and after.
