------------------------------- MODULE UpDown -------------------------------
(***************************************************************************)
(* Who takes an ixgbe interface down and up: ixgbe_dpa_reg, which changes  *)
(* the mode of the receive rings; the administrator, who opens, closes and *)
(* resets the interface under the rtnl lock; and the service task, which   *)
(* resets it and sets the carrier.  They share the bit __IXGBE_RESETTING,  *)
(* which ixgbe_close does not look at.                                     *)
(*                                                                         *)
(* The receive rings of the adapter are one.  A registration is here what  *)
(* it does to the driver: reg(1), rx_sync by the process, reg(0).          *)
(***************************************************************************)
EXTENDS Naturals

CONSTANT Overlaps     \* what may happen although the driver does not exclude it:
                      \*  "close"    open or close during a reg or a reset
                      \*  "ethtool"  a reset by the administrator during a reg
                      \*  "watchdog" ixgbe_down's sleep is shorter than a watchdog pass

ASSUME UpDownAssumption == Overlaps \subseteq {"close", "ethtool", "watchdog"}

VARIABLES
    iff_up,           \* IFF_UP
    flag,             \* DPA_IF_ENABLE
    DOWN, RESETTING,  \* bits of adapter->state
    rtnl,             \* who holds the rtnl lock
    napi,             \* how often NAPI is enabled: once or not at all
    carrier, link_up, need,  \* netif_carrier_ok, adapter->link_up, NEED_LINK_UPDATE
    ring,             \* what the descriptors point to
    pc, op,           \* where each actor is; what the administrator does
    reg, up,          \* ixgbe_dpa_reg: its argument, and what it has read of IFF_UP
    syncing           \* the process is in rx_sync, past its test of the carrier

lvars == <<carrier, link_up, need>>
rvars == <<reg, up>>
cvars == <<pc, op>>
vars == <<iff_up, flag, DOWN, RESETTING, rtnl, napi, lvars, ring, cvars, rvars, syncing>>

Actors == {"reg", "admin", "service"}
None == "none"
Goto(a, label) == pc' = [pc EXCEPT ![a] = label]
\* where the caller of ixgbe_down or of ixgbe_up goes on
AfterDown(a) == CASE a = "reg" -> "flag" [] a = "admin" /\ op = "close" -> "closed" [] OTHER -> "fill"
AfterUp(a) == CASE a = "reg" -> "promisc" [] a = "admin" /\ op = "open" -> "opened" [] OTHER -> "clear"

InReset(a) == pc[a] \in {"setbit", "down", "carrier", "napi", "clean", "fill", "start", "napion", "clear"}
InReg == pc["reg"] \notin {"idle", "failed"}
MayBegin(overlap, busy) == overlap \in Overlaps \/ ~busy

Init ==
    /\ iff_up = FALSE /\ flag = FALSE /\ DOWN = TRUE /\ RESETTING = FALSE
    /\ rtnl = None /\ napi = 0
    /\ carrier = FALSE /\ link_up = FALSE /\ need = FALSE
    /\ ring = "none"
    /\ pc = [a \in Actors |-> "idle"] /\ op = "none"
    /\ reg = FALSE /\ up = FALSE /\ syncing = FALSE

----------------------------------------------------------------------------
(* ixgbe_down.                                                              *)

Down(a) ==
    /\ pc[a] = "down"
    /\ DOWN' = TRUE /\ Goto(a, "carrier")
    /\ UNCHANGED <<iff_up, flag, RESETTING, rtnl, napi, lvars, ring, op, rvars, syncing>>

\* after a sleep of ten milliseconds, in which a watchdog pass ends
DownCarrier(a) ==
    /\ pc[a] = "carrier"
    /\ "watchdog" \in Overlaps \/ pc["service"] \notin {"link", "watch"}
    /\ carrier' = FALSE /\ Goto(a, "napi")
    /\ UNCHANGED <<iff_up, flag, DOWN, RESETTING, rtnl, napi, link_up, need, ring, op, rvars, syncing>>

\* napi_disable sleeps for as long as NAPI is disabled already
DownNapi(a) ==
    /\ pc[a] = "napi" /\ napi > 0
    /\ napi' = napi - 1 /\ need' = FALSE /\ Goto(a, "clean")
    /\ UNCHANGED <<iff_up, flag, DOWN, RESETTING, rtnl, carrier, link_up, ring, op, rvars, syncing>>

\* the reset of the hardware takes longer than a rx_sync; ixgbe_clean_rx_ring
DownClean(a) ==
    /\ pc[a] = "clean" /\ ~syncing
    /\ ring' = IF ring = "none" THEN ring ELSE "clean"
    /\ Goto(a, AfterDown(a))
    /\ UNCHANGED <<iff_up, flag, DOWN, RESETTING, rtnl, napi, lvars, op, rvars, syncing>>

(* ixgbe_up: ixgbe_configure, then ixgbe_up_complete.                       *)

UpFill(a) ==
    /\ pc[a] = "fill"
    /\ ring' = IF flag THEN "dpa" ELSE "skb"
    /\ Goto(a, "start")
    /\ UNCHANGED <<iff_up, flag, DOWN, RESETTING, rtnl, napi, lvars, op, rvars, syncing>>

UpStart(a) ==
    /\ pc[a] = "start"
    /\ DOWN' = FALSE /\ Goto(a, "napion")
    /\ UNCHANGED <<iff_up, flag, RESETTING, rtnl, napi, lvars, ring, op, rvars, syncing>>

UpNapi(a) ==
    /\ pc[a] = "napion"
    /\ napi' = napi + 1 /\ need' = TRUE /\ Goto(a, AfterUp(a))
    /\ UNCHANGED <<iff_up, flag, DOWN, RESETTING, rtnl, carrier, link_up, ring, op, rvars, syncing>>

DownUp(a) == Down(a) \/ DownCarrier(a) \/ DownNapi(a) \/ DownClean(a) \/ UpFill(a) \/ UpStart(a) \/ UpNapi(a)

----------------------------------------------------------------------------
(* What the three do under __IXGBE_RESETTING, polling for it.               *)

MSetBit(a) ==                             \* mistake: the flag is changed before ixgbe_down
    /\ pc[a] = "setbit" /\ ~RESETTING
    /\ RESETTING' = TRUE
    /\ flag' = IF a = "reg" THEN reg ELSE flag
    /\ Goto(a, IF a = "reg" /\ ~up THEN "flag" ELSE "down")
    /\ UNCHANGED <<iff_up, DOWN, rtnl, napi, lvars, ring, op, rvars, syncing>>
SetBit(a) ==
    /\ pc[a] = "setbit" /\ ~RESETTING
    /\ RESETTING' = TRUE
    /\ Goto(a, IF a = "reg" /\ ~up THEN "flag" ELSE "down")
    /\ UNCHANGED <<iff_up, flag, DOWN, rtnl, napi, lvars, ring, op, rvars, syncing>>

\* a reset by the administrator gives the rtnl lock back; the service task goes on with
\* its pass of the watchdog
ClearBit(a) ==
    /\ pc[a] = "clear"
    /\ RESETTING' = FALSE
    /\ rtnl' = IF a = "admin" THEN None ELSE rtnl
    /\ op' = IF a = "admin" THEN "none" ELSE op
    /\ Goto(a, IF a = "service" THEN "pass" ELSE "idle")
    /\ UNCHANGED <<iff_up, flag, DOWN, napi, lvars, ring, rvars, syncing>>

----------------------------------------------------------------------------
(* ixgbe_dpa_reg.                                                           *)

\* reads IFF_UP without the rtnl lock
RegCall(arg) ==
    /\ \/ pc["reg"] = "idle" /\ flag = ~arg
       \/ pc["reg"] = "failed" /\ ~arg
    /\ ~syncing
    /\ MayBegin("close", op \in {"open", "close"}) /\ MayBegin("ethtool", op = "reset")
    /\ reg' = arg /\ up' = iff_up
    /\ Goto("reg", IF arg /\ ~iff_up THEN "failed" ELSE "setbit")
    /\ UNCHANGED <<iff_up, flag, DOWN, RESETTING, rtnl, napi, lvars, ring, op, syncing>>

\* what dpa_reg_if does when reg(1) fails
TakeBack == pc["reg"] = "failed" /\ RegCall(FALSE)

MRegFlag ==                               \* mistake: ixgbe_up whether or not it was up
    /\ pc["reg"] = "flag"
    /\ flag' = reg
    /\ Goto("reg", "fill")
    /\ UNCHANGED <<iff_up, DOWN, RESETTING, rtnl, napi, lvars, ring, op, rvars, syncing>>
RegFlag ==
    /\ pc["reg"] = "flag"
    /\ flag' = reg
    /\ Goto("reg", IF up THEN "fill" ELSE "promisc")
    /\ UNCHANGED <<iff_up, DOWN, RESETTING, rtnl, napi, lvars, ring, op, rvars, syncing>>

\* dev_set_promiscuity, for which it waits for the rtnl lock
RegPromisc ==
    /\ pc["reg"] = "promisc" /\ rtnl = None
    /\ Goto("reg", "clear")
    /\ UNCHANGED <<iff_up, flag, DOWN, RESETTING, rtnl, napi, lvars, ring, op, rvars, syncing>>

\* The process between the calls.
SyncBegin ==
    /\ pc["reg"] = "idle" /\ flag /\ carrier /\ ~syncing
    /\ syncing' = TRUE
    /\ UNCHANGED <<iff_up, flag, DOWN, RESETTING, rtnl, napi, lvars, ring, cvars, rvars>>

SyncEnd ==
    /\ syncing
    /\ syncing' = FALSE
    /\ UNCHANGED <<iff_up, flag, DOWN, RESETTING, rtnl, napi, lvars, ring, cvars, rvars>>

----------------------------------------------------------------------------
(* The administrator, under the rtnl lock.                                  *)

AdminBegin(what, label) ==
    /\ pc["admin"] = "idle" /\ rtnl = None
    /\ rtnl' = "admin" /\ op' = what /\ Goto("admin", label)
    /\ UNCHANGED <<iff_up, flag, DOWN, RESETTING, napi, link_up, need, rvars, syncing>>

AdminOpen ==
    /\ ~iff_up /\ MayBegin("close", InReg \/ InReset("service"))
    /\ carrier' = FALSE /\ ring' = "clean"
    /\ AdminBegin("open", "fill")

AdminClose ==
    /\ iff_up /\ MayBegin("close", InReg \/ InReset("service"))
    /\ AdminBegin("close", "down") /\ UNCHANGED <<carrier, ring>>

\* by ethtool
AdminReset ==
    /\ iff_up /\ MayBegin("ethtool", InReg)
    /\ AdminBegin("reset", "setbit") /\ UNCHANGED <<carrier, ring>>

AdminEnd(isup, descriptors) ==
    /\ iff_up' = isup /\ ring' = descriptors
    /\ rtnl' = None /\ op' = "none" /\ Goto("admin", "idle")
    /\ UNCHANGED <<flag, DOWN, RESETTING, napi, lvars, rvars, syncing>>

AdminOpened == pc["admin"] = "opened" /\ AdminEnd(TRUE, ring)
\* ixgbe_request_irq fails
AdminOpenFails == pc["admin"] = "start" /\ op = "open" /\ AdminEnd(FALSE, "none")
AdminClosed == pc["admin"] = "closed" /\ AdminEnd(FALSE, "none")

----------------------------------------------------------------------------
(* The service task: ixgbe_reset_subtask, then ixgbe_watchdog_subtask.      *)

MBails == RESETTING                       \* mistake: does not look at __IXGBE_DOWN
Bails == DOWN \/ RESETTING

ServiceBegin ==
    /\ pc["service"] = "idle"
    /\ \E requested \in BOOLEAN :
          /\ (requested /\ ~Bails) => MayBegin("close", op \in {"open", "close"})
          /\ Goto("service", IF requested /\ ~Bails THEN "setbit" ELSE "pass")
    /\ UNCHANGED <<iff_up, flag, DOWN, RESETTING, rtnl, napi, lvars, ring, op, rvars, syncing>>

WatchBegin ==
    /\ pc["service"] = "pass"
    /\ Goto("service", IF DOWN THEN "idle" ELSE "link")
    /\ UNCHANGED <<iff_up, flag, DOWN, RESETTING, rtnl, napi, lvars, ring, op, rvars, syncing>>

\* asks the hardware when that is needed
WatchLink ==
    /\ pc["service"] = "link"
    /\ \E cable \in BOOLEAN :
          /\ link_up' = IF need THEN cable ELSE link_up
          /\ need' = (need /\ ~cable)
    /\ Goto("service", "watch")
    /\ UNCHANGED <<iff_up, flag, DOWN, RESETTING, rtnl, napi, carrier, ring, op, rvars, syncing>>

WatchCarrier ==
    /\ pc["service"] = "watch"
    /\ carrier' = link_up
    /\ Goto("service", "idle")
    /\ UNCHANGED <<iff_up, flag, DOWN, RESETTING, rtnl, napi, link_up, need, ring, op, rvars, syncing>>

----------------------------------------------------------------------------
Registration == DownUp("reg") \/ ClearBit("reg") \/ RegFlag \/ RegPromisc \/ TakeBack
Administration == DownUp("admin") \/ ClearBit("admin") \/ AdminOpened \/ AdminClosed
Service == DownUp("service") \/ ClearBit("service") \/ WatchBegin \/ WatchLink \/ WatchCarrier

Next ==
    \/ \E arg \in BOOLEAN : RegCall(arg)
    \/ \E a \in Actors : SetBit(a)
    \/ Registration \/ SyncBegin \/ SyncEnd
    \/ AdminOpen \/ AdminClose \/ AdminReset \/ AdminOpenFails \/ Administration
    \/ ServiceBegin \/ Service

Spec == Init /\ [][Next]_vars

\* Who has begun goes on.  The bit is asked for every millisecond and the resets are
\* far apart, so that it is had at some time; the rtnl lock is a mutex.
Fairness ==
    /\ WF_vars(Registration) /\ SF_vars(RegPromisc) /\ SF_vars(TakeBack)
    /\ WF_vars(Administration) /\ SF_vars(DownUp("admin"))
    /\ WF_vars(Service) /\ SF_vars(DownUp("service")) /\ SF_vars(DownUp("reg"))
    /\ WF_vars(SyncEnd)
    /\ \A a \in Actors : SF_vars(SetBit(a))

FairSpec == Spec /\ Fairness

----------------------------------------------------------------------------
(* Properties.                                                              *)

\* Types; NAPI is never enabled twice, which napi_enable takes for a bug.
TypeOK ==
    /\ iff_up \in BOOLEAN /\ flag \in BOOLEAN /\ DOWN \in BOOLEAN /\ RESETTING \in BOOLEAN
    /\ rtnl \in {None, "admin"} /\ napi \in {0, 1}
    /\ carrier \in BOOLEAN /\ link_up \in BOOLEAN /\ need \in BOOLEAN
    /\ ring \in {"none", "clean", "skb", "dpa"}
    /\ pc \in [Actors -> {"idle", "failed", "setbit", "down", "carrier", "napi", "clean", "flag", "fill",
                          "start", "napion", "promisc", "clear", "opened", "closed", "pass", "link", "watch"}]
    /\ op \in {"none", "open", "close", "reset"}
    /\ reg \in BOOLEAN /\ up \in BOOLEAN /\ syncing \in BOOLEAN

\* The driver and the process never work on descriptors that are not theirs: NAPI runs
\* only on rings filled for the mode the flag says, and a rx_sync only on rings filled
\* with the process's buffers, whoever takes the interface down meanwhile.
RightRing ==
    /\ napi > 0 => ring = IF flag THEN "dpa" ELSE "skb"
    /\ syncing => ring = "dpa"

\* Every registration, every call of the administrator and every pass of the service
\* task ends: none waits for ever for the bit, for the rtnl lock or in napi_disable.
EveryCallEnds == \A a \in Actors : pc[a] # "idle" ~> pc[a] = "idle"
=============================================================================
