---------------------------- MODULE UpDown_proofs ----------------------------
(***************************************************************************)
(* Proofs about UpDown, where nobody opens or closes the interface during  *)
(* a change of mode or a reset, and a pass of the watchdog ends within the *)
(* sleep of ixgbe_down; resets by ethtool may come at any time.            *)
(*                                                                         *)
(* The argument: whoever takes the interface down has it for himself until *)
(* it is up again, by the bit or because opening and closing are apart.    *)
(***************************************************************************)
EXTENDS UpDown, TLAPS

----------------------------------------------------------------------------
(* The invariant.                                                           *)

\* what nobody else may do meanwhile
Working == {"down", "carrier", "napi", "clean", "flag", "fill", "start", "napion", "promisc", "clear",
            "opened", "closed"}
Inside(a) == pc[a] \in Working
OpenClose == op \in {"open", "close"}
Somewhere(labels) == \E a \in Actors : pc[a] \in labels

Resets == {"setbit", "down", "carrier", "napi", "clean", "fill", "start", "napion", "clear"}
PlacesOK ==
    /\ pc["reg"] \in Resets \cup {"idle", "failed", "flag", "promisc"}
    /\ pc["service"] \in Resets \cup {"idle", "pass", "link", "watch"}
    /\ pc["admin"] \in CASE op = "none" -> {"idle"}
                         [] op = "open" -> {"fill", "start", "napion", "opened"}
                         [] op = "close" -> {"down", "carrier", "napi", "clean", "closed"}
                         [] op = "reset" -> Resets
    /\ rtnl = IF op = "none" THEN None ELSE "admin"

\* the bit, and the exclusion of open and close, let one actor at a time at the interface
AloneOK ==
    /\ \A a, b \in Actors : Inside(a) /\ Inside(b) => a = b
    /\ RESETTING <=> \E a \in Actors : Inside(a) /\ ~(a = "admin" /\ OpenClose)
    /\ OpenClose => ~InReg /\ ~InReset("service")

\* each takes down only what is up
UpOK ==
    /\ InReg => up = iff_up
    /\ pc["reg"] \in Resets \ {"setbit", "clear"} => up
    /\ InReset("service") => iff_up
    /\ op \in {"close", "reset"} => iff_up
    /\ op = "open" => ~iff_up

\* the interface is down, and NAPI off, exactly from ixgbe_down to ixgbe_up
DownOK ==
    /\ DOWN <=> \/ ~iff_up /\ ~(op = "open" /\ pc["admin"] \in {"napion", "opened"})
                \/ Somewhere({"carrier", "napi", "clean", "flag", "fill", "start", "closed"})
    /\ napi = IF \/ ~iff_up /\ pc["admin"] # "opened"
                 \/ Somewhere({"clean", "flag", "fill", "start", "napion", "closed"})
              THEN 0 ELSE 1

\* while it is not, the descriptors are those of its mode; while it is, there is no carrier
RingOK ==
    /\ ~DOWN \/ Somewhere({"carrier", "napi", "clean", "start"}) => ring = IF flag THEN "dpa" ELSE "skb"
    /\ DOWN /\ ~Somewhere({"carrier"}) => ~carrier /\ pc["service"] \notin {"link", "watch"}
    /\ syncing => /\ flag /\ pc["reg"] = "idle"
                  /\ ~DOWN \/ Somewhere({"carrier", "napi", "clean"})

IInv == TypeOK /\ PlacesOK /\ AloneOK /\ UpOK /\ DownOK /\ RingOK

\* open and close keep apart from the rest, and ixgbe_down's sleep is long enough
Legal == "close" \notin Overlaps /\ "watchdog" \notin Overlaps

\* TypeOK in parts
Labels == {"idle", "failed", "setbit", "down", "carrier", "napi", "clean", "flag", "fill", "start", "napion",
           "promisc", "clear", "opened", "closed", "pass", "link", "watch"}
Bits == iff_up \in BOOLEAN /\ flag \in BOOLEAN /\ DOWN \in BOOLEAN /\ RESETTING \in BOOLEAN
Carriers == carrier \in BOOLEAN /\ link_up \in BOOLEAN /\ need \in BOOLEAN
RegTypes == reg \in BOOLEAN /\ up \in BOOLEAN /\ syncing \in BOOLEAN
Others == /\ rtnl \in {None, "admin"} /\ napi \in {0, 1} /\ op \in {"none", "open", "close", "reset"}
          /\ ring \in {"none", "clean", "skb", "dpa"}

LEMMA DownStep ==
    ASSUME Legal, IInv, NEW a \in Actors, Down(a)
    PROVE  IInv'
<1>1. TypeOK'
  BY DEF IInv, TypeOK, Down, Goto, lvars, rvars
<1>2. PlacesOK'
  BY DEF IInv, TypeOK, PlacesOK, Down, Resets, Goto
<1>3. AloneOK'
  BY DEF IInv, AloneOK, Down, Inside, OpenClose, InReg, InReset, Goto, Working
<1>4. UpOK'
  BY DEF IInv, UpOK, Down, Resets, InReg, InReset, Goto, rvars
<1>5. DownOK'
  BY DEF IInv, TypeOK, DownOK, Down, Somewhere, Goto
<1>6. RingOK'
  BY DEF IInv, TypeOK, PlacesOK, AloneOK, UpOK, DownOK, RingOK, Down, Actors, Inside, InReg,
         InReset, Somewhere, Goto, Working
<1> QED
  BY <1>1, <1>2, <1>3, <1>4, <1>5, <1>6 DEF IInv

LEMMA DownCarrierStep ==
    ASSUME Legal, IInv, NEW a \in Actors, DownCarrier(a)
    PROVE  IInv'
<1>1. TypeOK'
  <2>1. Bits'
    BY DEF Bits, IInv, TypeOK, DownCarrier, lvars, rvars, cvars, None, Goto, Actors
  <2>2. Carriers'
    BY DEF Carriers, IInv, TypeOK, DownCarrier, lvars, rvars, cvars, None, Goto, Actors
  <2>3. RegTypes'
    BY DEF RegTypes, IInv, TypeOK, DownCarrier, lvars, rvars, cvars, None, Goto, Actors
  <2>4. Others'
    BY DEF Others, IInv, TypeOK, DownCarrier, lvars, rvars, cvars, None, Goto, Actors
  <2>5. pc' \in [Actors -> Labels]
    BY DEF Labels, IInv, TypeOK, DownCarrier, lvars, rvars, cvars, None, Goto, Actors
  <2> QED
    BY <2>1, <2>2, <2>3, <2>4, <2>5 DEF TypeOK, Bits, Carriers, RegTypes, Others, Labels
<1>2. PlacesOK'
  BY DEF IInv, TypeOK, PlacesOK, DownCarrier, Resets, Goto
<1>3. AloneOK'
  BY DEF IInv, AloneOK, DownCarrier, Inside, OpenClose, InReg, InReset, Goto, Working
<1>4. UpOK'
  BY DEF IInv, UpOK, DownCarrier, Resets, InReg, InReset, Goto, rvars
<1>5. DownOK'
  BY DEF IInv, DownOK, DownCarrier, Somewhere, Goto
<1>6. RingOK'
  BY DEF IInv, RingOK, Legal, DownCarrier, Somewhere, Goto
<1> QED
  BY <1>1, <1>2, <1>3, <1>4, <1>5, <1>6 DEF IInv

LEMMA DownNapiStep ==
    ASSUME Legal, IInv, NEW a \in Actors, DownNapi(a)
    PROVE  IInv'
<1>1. TypeOK'
  <2>1. Bits'
    BY DEF Bits, IInv, TypeOK, DownNapi, lvars, rvars, cvars, None, Goto, Actors
  <2>2. Carriers'
    BY DEF Carriers, IInv, TypeOK, DownNapi, lvars, rvars, cvars, None, Goto, Actors
  <2>3. RegTypes'
    BY DEF RegTypes, IInv, TypeOK, DownNapi, lvars, rvars, cvars, None, Goto, Actors
  <2>4. Others'
    BY DEF Others, IInv, TypeOK, DownNapi, lvars, rvars, cvars, None, Goto, Actors
  <2>5. pc' \in [Actors -> Labels]
    BY DEF Labels, IInv, TypeOK, DownNapi, lvars, rvars, cvars, None, Goto, Actors
  <2> QED
    BY <2>1, <2>2, <2>3, <2>4, <2>5 DEF TypeOK, Bits, Carriers, RegTypes, Others, Labels
<1>2. PlacesOK'
  BY DEF IInv, TypeOK, PlacesOK, DownNapi, Resets, Goto
<1>3. AloneOK'
  BY DEF IInv, AloneOK, DownNapi, Inside, OpenClose, InReg, InReset, Goto, Working
<1>4. UpOK'
  BY DEF IInv, UpOK, DownNapi, Resets, InReg, InReset, Goto, rvars
<1>5. DownOK'
  BY DEF IInv, TypeOK, DownOK, DownNapi, Somewhere, Goto
<1>6. RingOK'
  BY DEF IInv, RingOK, DownNapi, Somewhere, Goto
<1> QED
  BY <1>1, <1>2, <1>3, <1>4, <1>5, <1>6 DEF IInv

LEMMA DownCleanStep ==
    ASSUME Legal, IInv, NEW a \in Actors, DownClean(a)
    PROVE  IInv'
<1>1. TypeOK'
  BY DEF IInv, TypeOK, DownClean, Goto, AfterDown, lvars, rvars
<1>2. PlacesOK'
  BY DEF IInv, TypeOK, PlacesOK, DownClean, Resets, Goto, AfterDown
<1>3. AloneOK'
  BY DEF IInv, AloneOK, DownClean, Inside, OpenClose, InReg, InReset, Goto, AfterDown, Working
<1>4. UpOK'
  BY DEF IInv, UpOK, DownClean, Resets, InReg, InReset, Goto, rvars
<1>5. DownOK'
  BY DEF IInv, DownOK, DownClean, Somewhere, Goto, AfterDown
<1>6. RingOK'
  BY DEF IInv, TypeOK, AloneOK, DownOK, RingOK, DownClean, Inside, Somewhere, Goto, AfterDown,
         lvars, Working
<1> QED
  BY <1>1, <1>2, <1>3, <1>4, <1>5, <1>6 DEF IInv

LEMMA UpFillStep ==
    ASSUME Legal, IInv, NEW a \in Actors, UpFill(a)
    PROVE  IInv'
<1>1. TypeOK'
  BY DEF IInv, TypeOK, UpFill, Goto, lvars, rvars
<1>2. PlacesOK'
  BY DEF IInv, TypeOK, PlacesOK, UpFill, Resets, Goto
<1>3. AloneOK'
  BY DEF IInv, AloneOK, UpFill, Inside, OpenClose, InReg, InReset, Goto, Working
<1>4. UpOK'
  BY DEF IInv, UpOK, UpFill, Resets, InReg, InReset, Goto, rvars
<1>5. DownOK'
  BY DEF IInv, DownOK, UpFill, Somewhere, Goto
<1>6. RingOK'
  BY DEF IInv, RingOK, UpFill, Somewhere, Goto, lvars
<1> QED
  BY <1>1, <1>2, <1>3, <1>4, <1>5, <1>6 DEF IInv

LEMMA UpStartStep ==
    ASSUME Legal, IInv, NEW a \in Actors, UpStart(a)
    PROVE  IInv'
<1>1. TypeOK'
  <2>1. Bits'
    BY DEF Bits, IInv, TypeOK, UpStart, lvars, rvars, cvars, None, Goto, Actors
  <2>2. Carriers'
    BY DEF Carriers, IInv, TypeOK, UpStart, lvars, rvars, cvars, None, Goto, Actors
  <2>3. RegTypes'
    BY DEF RegTypes, IInv, TypeOK, UpStart, lvars, rvars, cvars, None, Goto, Actors
  <2>4. Others'
    BY DEF Others, IInv, TypeOK, UpStart, lvars, rvars, cvars, None, Goto, Actors
  <2>5. pc' \in [Actors -> Labels]
    BY DEF Labels, IInv, TypeOK, UpStart, lvars, rvars, cvars, None, Goto, Actors
  <2> QED
    BY <2>1, <2>2, <2>3, <2>4, <2>5 DEF TypeOK, Bits, Carriers, RegTypes, Others, Labels
<1>2. PlacesOK'
  BY DEF IInv, TypeOK, PlacesOK, UpStart, Resets, Goto
<1>3. AloneOK'
  BY DEF IInv, AloneOK, UpStart, Inside, OpenClose, InReg, InReset, Goto, Working
<1>4. UpOK'
  BY DEF IInv, UpOK, UpStart, Resets, InReg, InReset, Goto, rvars
<1>5. DownOK'
  BY DEF IInv, TypeOK, PlacesOK, AloneOK, UpOK, DownOK, UpStart, Actors, Inside, InReg, InReset,
         Somewhere, Goto, Working
<1>6. RingOK'
  BY DEF IInv, RingOK, UpStart, Somewhere, Goto
<1> QED
  BY <1>1, <1>2, <1>3, <1>4, <1>5, <1>6 DEF IInv

LEMMA UpNapiStep ==
    ASSUME Legal, IInv, NEW a \in Actors, UpNapi(a)
    PROVE  IInv'
<1>1. TypeOK'
  BY DEF IInv, TypeOK, DownOK, UpNapi, Somewhere, Goto, AfterUp, rvars
<1>2. PlacesOK'
  BY DEF IInv, TypeOK, PlacesOK, UpNapi, Resets, Goto, AfterUp
<1>3. AloneOK'
  BY DEF IInv, AloneOK, UpNapi, Inside, OpenClose, InReg, InReset, Goto, AfterUp, Working
<1>4. UpOK'
  BY DEF IInv, UpOK, UpNapi, Resets, InReg, InReset, Goto, rvars
<1>5. DownOK'
  BY DEF IInv, TypeOK, PlacesOK, AloneOK, UpOK, DownOK, UpNapi, Actors, Inside, InReg, InReset,
         Somewhere, Goto, AfterUp, Working
<1>6. RingOK'
  BY DEF IInv, RingOK, UpNapi, Somewhere, Goto, AfterUp
<1> QED
  BY <1>1, <1>2, <1>3, <1>4, <1>5, <1>6 DEF IInv

LEMMA SetBitStep ==
    ASSUME Legal, IInv, NEW a \in Actors, SetBit(a)
    PROVE  IInv'
<1>1. TypeOK'
  BY DEF IInv, TypeOK, SetBit, Goto, lvars, rvars
<1>2. PlacesOK'
  BY DEF IInv, TypeOK, PlacesOK, SetBit, Resets, Goto
<1>3. AloneOK'
  BY DEF IInv, TypeOK, PlacesOK, AloneOK, SetBit, Actors, Inside, OpenClose, InReg, InReset, Goto,
         Working
<1>4. UpOK'
  BY DEF IInv, UpOK, SetBit, Resets, InReg, InReset, Goto, rvars
<1>5. DownOK'
  BY DEF IInv, AloneOK, UpOK, DownOK, SetBit, Actors, Inside, InReg, Somewhere, Goto, Working
<1>6. RingOK'
  BY DEF IInv, RingOK, SetBit, Somewhere, Goto, lvars
<1> QED
  BY <1>1, <1>2, <1>3, <1>4, <1>5, <1>6 DEF IInv

LEMMA ClearBitStep ==
    ASSUME Legal, IInv, NEW a \in Actors, ClearBit(a)
    PROVE  IInv'
<1>1. TypeOK'
  <2>1. Bits'
    BY DEF Bits, IInv, TypeOK, ClearBit, lvars, rvars, cvars, None, Goto, Actors
  <2>2. Carriers'
    BY DEF Carriers, IInv, TypeOK, ClearBit, lvars, rvars, cvars, None, Goto, Actors
  <2>3. RegTypes'
    BY DEF RegTypes, IInv, TypeOK, ClearBit, lvars, rvars, cvars, None, Goto, Actors
  <2>4. Others'
    BY DEF Others, IInv, TypeOK, ClearBit, lvars, rvars, cvars, None, Goto, Actors
  <2>5. pc' \in [Actors -> Labels]
    BY DEF Labels, IInv, TypeOK, ClearBit, lvars, rvars, cvars, None, Goto, Actors
  <2> QED
    BY <2>1, <2>2, <2>3, <2>4, <2>5 DEF TypeOK, Bits, Carriers, RegTypes, Others, Labels
<1>2. PlacesOK'
  BY DEF IInv, TypeOK, PlacesOK, ClearBit, Goto
<1>3. AloneOK'
  BY DEF IInv, TypeOK, AloneOK, ClearBit, Inside, OpenClose, InReg, InReset, Goto, Working
<1>4. UpOK'
  BY DEF IInv, UpOK, ClearBit, Resets, InReg, InReset, Goto, rvars
<1>5. DownOK'
  BY DEF IInv, DownOK, ClearBit, Somewhere, Goto
<1>6. RingOK'
  BY DEF IInv, RingOK, ClearBit, Somewhere, Goto, lvars
<1> QED
  BY <1>1, <1>2, <1>3, <1>4, <1>5, <1>6 DEF IInv

LEMMA RegCallStep ==
    ASSUME Legal, IInv, NEW arg \in BOOLEAN, RegCall(arg)
    PROVE  IInv'
<1>1. TypeOK'
  BY DEF IInv, TypeOK, RegCall, Actors, Goto, lvars
<1>2. PlacesOK'
  BY DEF IInv, TypeOK, PlacesOK, RegCall, Resets, Goto
<1>3. AloneOK'
  BY DEF IInv, AloneOK, Legal, RegCall, Inside, OpenClose, MayBegin, Goto, Working
<1>4. UpOK'
  BY DEF IInv, UpOK, RegCall, Resets, InReset, Goto
<1>5. DownOK'
  BY DEF IInv, DownOK, RegCall, Somewhere, Goto
<1>6. RingOK'
  BY DEF IInv, RingOK, RegCall, Somewhere, Goto, lvars
<1> QED
  BY <1>1, <1>2, <1>3, <1>4, <1>5, <1>6 DEF IInv

LEMMA RegFlagStep ==
    ASSUME Legal, IInv, RegFlag
    PROVE  IInv'
<1>1. TypeOK'
  BY DEF IInv, TypeOK, RegFlag, Actors, Goto, lvars, rvars
<1>2. PlacesOK'
  BY DEF IInv, TypeOK, PlacesOK, RegFlag, Resets, Goto
<1>3. AloneOK'
  BY DEF IInv, AloneOK, RegFlag, Inside, OpenClose, InReg, Goto, Working
<1>4. UpOK'
  BY DEF IInv, UpOK, RegFlag, Resets, InReg, InReset, Goto, rvars
<1>5. DownOK'
  BY DEF IInv, AloneOK, UpOK, DownOK, RegFlag, Actors, Inside, InReg, Somewhere, Goto, Working
<1>6. RingOK'
  BY DEF IInv, AloneOK, DownOK, RingOK, RegFlag, Actors, Inside, Somewhere, Goto, lvars, Working
<1> QED
  BY <1>1, <1>2, <1>3, <1>4, <1>5, <1>6 DEF IInv

LEMMA RegPromiscStep ==
    ASSUME Legal, IInv, RegPromisc
    PROVE  IInv'
<1>1. TypeOK'
  BY DEF IInv, TypeOK, RegPromisc, Actors, Goto, lvars, rvars
<1>2. PlacesOK'
  BY DEF IInv, PlacesOK, RegPromisc, None, Resets, Goto
<1>3. AloneOK'
  BY DEF IInv, AloneOK, RegPromisc, Inside, OpenClose, InReg, Goto, Working
<1>4. UpOK'
  BY DEF IInv, UpOK, RegPromisc, InReg, InReset, Goto, rvars
<1>5. DownOK'
  BY DEF IInv, DownOK, RegPromisc, Somewhere, Goto
<1>6. RingOK'
  BY DEF IInv, RingOK, RegPromisc, Somewhere, Goto, lvars
<1> QED
  BY <1>1, <1>2, <1>3, <1>4, <1>5, <1>6 DEF IInv

LEMMA SyncBeginStep ==
    ASSUME Legal, IInv, SyncBegin
    PROVE  IInv'
<1>1. TypeOK'
  BY DEF IInv, TypeOK, SyncBegin, lvars, cvars, rvars
<1>2. PlacesOK'
  BY DEF IInv, TypeOK, PlacesOK, SyncBegin, cvars
<1>3. AloneOK'
  BY DEF IInv, AloneOK, SyncBegin, Inside, OpenClose, InReg, InReset, cvars
<1>4. UpOK'
  BY DEF IInv, UpOK, SyncBegin, InReg, InReset, cvars, rvars
<1>5. DownOK'
  BY DEF IInv, DownOK, SyncBegin, Somewhere, cvars
<1>6. RingOK'
  BY DEF IInv, RingOK, SyncBegin, Somewhere, cvars
<1> QED
  BY <1>1, <1>2, <1>3, <1>4, <1>5, <1>6 DEF IInv

LEMMA SyncEndStep ==
    ASSUME Legal, IInv, SyncEnd
    PROVE  IInv'
<1>1. TypeOK'
  <2>1. Bits'
    BY DEF Bits, IInv, TypeOK, SyncEnd, lvars, rvars, cvars, None, Goto, Actors
  <2>2. Carriers'
    BY DEF Carriers, IInv, TypeOK, SyncEnd, lvars, rvars, cvars, None, Goto, Actors
  <2>3. RegTypes'
    BY DEF RegTypes, IInv, TypeOK, SyncEnd, lvars, rvars, cvars, None, Goto, Actors
  <2>4. Others'
    BY DEF Others, IInv, TypeOK, SyncEnd, lvars, rvars, cvars, None, Goto, Actors
  <2>5. pc' \in [Actors -> Labels]
    BY DEF Labels, IInv, TypeOK, SyncEnd, lvars, rvars, cvars, None, Goto, Actors
  <2> QED
    BY <2>1, <2>2, <2>3, <2>4, <2>5 DEF TypeOK, Bits, Carriers, RegTypes, Others, Labels
<1>2. PlacesOK'
  BY DEF IInv, TypeOK, PlacesOK, SyncEnd, cvars
<1>3. AloneOK'
  BY DEF IInv, AloneOK, SyncEnd, Inside, OpenClose, InReg, InReset, cvars
<1>4. UpOK'
  BY DEF IInv, UpOK, SyncEnd, InReg, InReset, cvars, rvars
<1>5. DownOK'
  BY DEF IInv, DownOK, SyncEnd, Somewhere, cvars
<1>6. RingOK'
  BY DEF IInv, RingOK, SyncEnd, Somewhere, lvars, cvars
<1> QED
  BY <1>1, <1>2, <1>3, <1>4, <1>5, <1>6 DEF IInv

LEMMA AdminOpenStep ==
    ASSUME Legal, IInv, AdminOpen
    PROVE  IInv'
<1>1. TypeOK'
  <2>1. Bits'
    BY DEF Bits, IInv, TypeOK, AdminOpen, lvars, rvars, cvars, AdminBegin, None, Goto, Actors
  <2>2. Carriers'
    BY DEF Carriers, IInv, TypeOK, AdminOpen, lvars, rvars, cvars, AdminBegin, None, Goto, Actors
  <2>3. RegTypes'
    BY DEF RegTypes, IInv, TypeOK, AdminOpen, lvars, rvars, cvars, AdminBegin, None, Goto, Actors
  <2>4. Others'
    BY DEF Others, IInv, TypeOK, AdminOpen, lvars, rvars, cvars, AdminBegin, None, Goto, Actors
  <2>5. pc' \in [Actors -> Labels]
    BY DEF Labels, IInv, TypeOK, AdminOpen, lvars, rvars, cvars, AdminBegin, None, Goto, Actors
  <2> QED
    BY <2>1, <2>2, <2>3, <2>4, <2>5 DEF TypeOK, Bits, Carriers, RegTypes, Others, Labels
<1>2. PlacesOK'
  BY DEF IInv, TypeOK, PlacesOK, AdminOpen, Actors, AdminBegin, Goto
<1>3. AloneOK'
  BY DEF IInv, PlacesOK, AloneOK, Legal, AdminOpen, Actors, Resets, Inside, OpenClose, InReg,
         InReset, MayBegin, AdminBegin, Working, Goto
<1>4. UpOK'
  BY DEF UpOK, Legal, AdminOpen, Resets, InReg, InReset, MayBegin, AdminBegin, Goto
<1>5. DownOK'
  BY DEF IInv, DownOK, AdminOpen, AdminBegin, Goto
<1>6. RingOK'
  BY DEF IInv, DownOK, RingOK, Legal, AdminOpen, Actors, InReg, InReset, Somewhere, MayBegin,
         AdminBegin, Goto
<1> QED
  BY <1>1, <1>2, <1>3, <1>4, <1>5, <1>6 DEF IInv

LEMMA AdminCloseStep ==
    ASSUME Legal, IInv, AdminClose
    PROVE  IInv'
<1>1. TypeOK'
  BY DEF IInv, TypeOK, AdminClose, Actors, AdminBegin, Goto, rvars
<1>2. PlacesOK'
  BY DEF IInv, TypeOK, PlacesOK, AdminClose, Actors, AdminBegin, Goto
<1>3. AloneOK'
  BY DEF IInv, PlacesOK, AloneOK, Legal, AdminClose, Actors, Resets, Inside, OpenClose, InReg,
         InReset, MayBegin, AdminBegin, Working, Goto
<1>4. UpOK'
  BY DEF IInv, UpOK, AloneOK, PlacesOK, TypeOK, AdminClose, AdminBegin, Goto, InReg, InReset,
         Resets, Actors, OpenClose, Inside, Working, rvars
<1>5. DownOK'
  BY DEF IInv, DownOK, AdminClose, Somewhere, AdminBegin, Goto
<1>6. RingOK'
  BY DEF IInv, RingOK, AdminClose, Somewhere, AdminBegin, Goto
<1> QED
  BY <1>1, <1>2, <1>3, <1>4, <1>5, <1>6 DEF IInv

LEMMA AdminResetStep ==
    ASSUME Legal, IInv, AdminReset
    PROVE  IInv'
<1>1. TypeOK'
  BY DEF IInv, TypeOK, AdminReset, Actors, AdminBegin, Goto, rvars
<1>2. PlacesOK'
  BY DEF IInv, TypeOK, PlacesOK, AdminReset, Actors, Resets, AdminBegin, Goto
<1>3. AloneOK'
  BY DEF IInv, AloneOK, AdminReset, Inside, OpenClose, AdminBegin, Working, Goto
<1>4. UpOK'
  BY DEF IInv, UpOK, AloneOK, PlacesOK, TypeOK, AdminReset, AdminBegin, Goto, InReg, InReset,
         Resets, Actors, OpenClose, Inside, Working, rvars
<1>5. DownOK'
  BY DEF IInv, DownOK, AdminReset, Somewhere, AdminBegin, Goto
<1>6. RingOK'
  BY DEF IInv, RingOK, AdminReset, Somewhere, AdminBegin, Goto
<1> QED
  BY <1>1, <1>2, <1>3, <1>4, <1>5, <1>6 DEF IInv

LEMMA AdminOpenedStep ==
    ASSUME Legal, IInv, AdminOpened
    PROVE  IInv'
<1>1. TypeOK'
  BY DEF IInv, TypeOK, AdminOpened, Actors, AdminEnd, Goto, lvars, rvars
<1>2. PlacesOK'
  BY DEF IInv, TypeOK, PlacesOK, AdminOpened, Actors, AdminEnd, Goto
<1>3. AloneOK'
  BY DEF IInv, TypeOK, PlacesOK, AloneOK, AdminOpened, Resets, Inside, OpenClose, AdminEnd,
         Working, Goto
<1>4. UpOK'
  BY DEF IInv, UpOK, AloneOK, PlacesOK, TypeOK, AdminOpened, AdminEnd, Goto, InReg, InReset,
         Resets, Actors, OpenClose, Inside, Working, rvars
<1>5. DownOK'
  BY DEF IInv, TypeOK, PlacesOK, DownOK, AdminOpened, Resets, Somewhere, AdminEnd, Goto
<1>6. RingOK'
  BY DEF IInv, RingOK, AdminOpened, Somewhere, AdminEnd, Goto, lvars
<1> QED
  BY <1>1, <1>2, <1>3, <1>4, <1>5, <1>6 DEF IInv

LEMMA AdminOpenFailsStep ==
    ASSUME Legal, IInv, AdminOpenFails
    PROVE  IInv'
<1>1. TypeOK'
  <2>1. Bits'
    BY DEF Bits, IInv, TypeOK, AdminOpenFails, lvars, rvars, cvars, AdminEnd, None, Goto, Actors
  <2>2. Carriers'
    BY DEF Carriers, IInv, TypeOK, AdminOpenFails, lvars, rvars, cvars, AdminEnd, None, Goto, Actors
  <2>3. RegTypes'
    BY DEF RegTypes, IInv, TypeOK, AdminOpenFails, lvars, rvars, cvars, AdminEnd, None, Goto, Actors
  <2>4. Others'
    BY DEF Others, IInv, TypeOK, AdminOpenFails, lvars, rvars, cvars, AdminEnd, None, Goto, Actors
  <2>5. pc' \in [Actors -> Labels]
    BY DEF Labels, IInv, TypeOK, AdminOpenFails, lvars, rvars, cvars, AdminEnd, None, Goto, Actors
  <2> QED
    BY <2>1, <2>2, <2>3, <2>4, <2>5 DEF TypeOK, Bits, Carriers, RegTypes, Others, Labels
<1>2. PlacesOK'
  BY DEF IInv, TypeOK, PlacesOK, AdminOpenFails, Actors, AdminEnd, Goto
<1>3. AloneOK'
  BY DEF IInv, TypeOK, AloneOK, AdminOpenFails, Inside, OpenClose, AdminEnd, Working, Goto
<1>4. UpOK'
  BY DEF IInv, AloneOK, UpOK, AdminOpenFails, OpenClose, InReg, InReset, AdminEnd, Goto, rvars
<1>5. DownOK'
  BY DEF IInv, DownOK, AdminOpenFails, Actors, Somewhere, AdminEnd, Goto
<1>6. RingOK'
  BY DEF IInv, TypeOK, UpOK, DownOK, RingOK, AdminOpenFails, Actors, Resets, InReg, InReset,
         Somewhere, AdminEnd, Goto, lvars
<1> QED
  BY <1>1, <1>2, <1>3, <1>4, <1>5, <1>6 DEF IInv

LEMMA AdminClosedStep ==
    ASSUME Legal, IInv, AdminClosed
    PROVE  IInv'
<1>1. TypeOK'
  <2>1. Bits'
    BY DEF Bits, IInv, TypeOK, AdminClosed, lvars, rvars, cvars, AdminEnd, None, Goto, Actors
  <2>2. Carriers'
    BY DEF Carriers, IInv, TypeOK, AdminClosed, lvars, rvars, cvars, AdminEnd, None, Goto, Actors
  <2>3. RegTypes'
    BY DEF RegTypes, IInv, TypeOK, AdminClosed, lvars, rvars, cvars, AdminEnd, None, Goto, Actors
  <2>4. Others'
    BY DEF Others, IInv, TypeOK, AdminClosed, lvars, rvars, cvars, AdminEnd, None, Goto, Actors
  <2>5. pc' \in [Actors -> Labels]
    BY DEF Labels, IInv, TypeOK, AdminClosed, lvars, rvars, cvars, AdminEnd, None, Goto, Actors
  <2> QED
    BY <2>1, <2>2, <2>3, <2>4, <2>5 DEF TypeOK, Bits, Carriers, RegTypes, Others, Labels
<1>2. PlacesOK'
  BY DEF IInv, TypeOK, PlacesOK, AdminClosed, Actors, AdminEnd, Goto
<1>3. AloneOK'
  BY DEF IInv, TypeOK, PlacesOK, AloneOK, AdminClosed, Resets, Inside, OpenClose, AdminEnd,
         Working, Goto
<1>4. UpOK'
  BY DEF IInv, TypeOK, PlacesOK, AloneOK, UpOK, AdminClosed, Resets, OpenClose, InReg, InReset,
         AdminEnd, Goto
<1>5. DownOK'
  BY DEF IInv, DownOK, AdminClosed, Actors, Somewhere, AdminEnd, Goto
<1>6. RingOK'
  BY DEF IInv, AloneOK, DownOK, RingOK, AdminClosed, Actors, Inside, Somewhere, AdminEnd, Working,
         Goto, lvars
<1> QED
  BY <1>1, <1>2, <1>3, <1>4, <1>5, <1>6 DEF IInv

LEMMA ServiceBeginStep ==
    ASSUME Legal, IInv, ServiceBegin
    PROVE  IInv'
<1>1. TypeOK'
  BY DEF IInv, TypeOK, ServiceBegin, Actors, Goto, lvars, rvars
<1>2. PlacesOK'
  BY DEF IInv, TypeOK, PlacesOK, ServiceBegin, Resets, Goto
<1>3. AloneOK'
  BY DEF IInv, AloneOK, Legal, ServiceBegin, Inside, OpenClose, InReg, InReset, MayBegin, Goto,
         Working
<1>4. UpOK'
  BY DEF IInv, UpOK, DownOK, Legal, ServiceBegin, InReg, InReset, Bails, MayBegin, Goto, rvars
<1>5. DownOK'
  BY DEF IInv, DownOK, ServiceBegin, Somewhere, Goto
<1>6. RingOK'
  BY DEF IInv, RingOK, ServiceBegin, Somewhere, Goto, lvars
<1> QED
  BY <1>1, <1>2, <1>3, <1>4, <1>5, <1>6 DEF IInv

LEMMA WatchBeginStep ==
    ASSUME Legal, IInv, WatchBegin
    PROVE  IInv'
<1>1. TypeOK'
  BY DEF IInv, TypeOK, WatchBegin, Actors, Goto, lvars, rvars
<1>2. PlacesOK'
  BY DEF IInv, TypeOK, PlacesOK, WatchBegin, Goto
<1>3. AloneOK'
  BY DEF IInv, AloneOK, WatchBegin, Inside, OpenClose, InReg, InReset, Goto, Working
<1>4. UpOK'
  BY DEF IInv, UpOK, WatchBegin, InReg, InReset, Goto, rvars
<1>5. DownOK'
  BY DEF IInv, DownOK, WatchBegin, Somewhere, Goto
<1>6. RingOK'
  BY DEF IInv, RingOK, WatchBegin, Somewhere, Goto, lvars
<1> QED
  BY <1>1, <1>2, <1>3, <1>4, <1>5, <1>6 DEF IInv

LEMMA WatchLinkStep ==
    ASSUME Legal, IInv, WatchLink
    PROVE  IInv'
<1>1. TypeOK'
  BY DEF IInv, TypeOK, WatchLink, Actors, Goto, rvars
<1>2. PlacesOK'
  BY DEF IInv, TypeOK, PlacesOK, WatchLink, Goto
<1>3. AloneOK'
  BY DEF IInv, AloneOK, WatchLink, Inside, OpenClose, InReg, InReset, Goto, Working
<1>4. UpOK'
  BY DEF IInv, UpOK, WatchLink, InReg, InReset, Goto, rvars
<1>5. DownOK'
  BY DEF IInv, DownOK, WatchLink, Somewhere, Goto
<1>6. RingOK'
  BY DEF IInv, RingOK, WatchLink, Somewhere, Goto
<1> QED
  BY <1>1, <1>2, <1>3, <1>4, <1>5, <1>6 DEF IInv

LEMMA WatchCarrierStep ==
    ASSUME Legal, IInv, WatchCarrier
    PROVE  IInv'
<1>1. TypeOK'
  BY DEF IInv, TypeOK, WatchCarrier, Actors, Goto, rvars
<1>2. PlacesOK'
  BY DEF IInv, TypeOK, PlacesOK, WatchCarrier, Goto
<1>3. AloneOK'
  BY DEF IInv, AloneOK, WatchCarrier, Inside, OpenClose, InReg, InReset, Goto, Working
<1>4. UpOK'
  BY DEF IInv, UpOK, WatchCarrier, InReg, InReset, Goto, rvars
<1>5. DownOK'
  BY DEF IInv, DownOK, WatchCarrier, Somewhere, Goto
<1>6. RingOK'
  BY DEF IInv, RingOK, WatchCarrier, Somewhere, Goto
<1> QED
  BY <1>1, <1>2, <1>3, <1>4, <1>5, <1>6 DEF IInv

LEMMA Starting == Init => IInv
<1> SUFFICES ASSUME Init PROVE IInv
  OBVIOUS
<1>1. \A a \in Actors : pc[a] = "idle"
  BY DEF Init, Actors
<1>2. TypeOK
  BY DEF Init, TypeOK, None, Actors
<1>3. PlacesOK
  BY <1>1 DEF Init, PlacesOK, Resets, Actors, None
<1>4. AloneOK
  BY <1>1 DEF Init, AloneOK, Inside, Working, OpenClose, InReg, InReset, Actors
<1>5. UpOK
  BY <1>1 DEF Init, UpOK, Resets, InReg, InReset, Actors
<1>6. DownOK
  BY <1>1 DEF Init, DownOK, Somewhere, Actors
<1>7. RingOK
  BY <1>1 DEF Init, RingOK, Somewhere, Actors
<1> QED
  BY <1>2, <1>3, <1>4, <1>5, <1>6, <1>7 DEF IInv

LEMMA StutterStep ==
    ASSUME IInv, UNCHANGED vars
    PROVE  IInv'
<1> USE DEF vars, lvars, rvars, cvars
<1>1. TypeOK'
  BY DEF IInv, TypeOK
<1>2. PlacesOK'
  BY DEF IInv, PlacesOK
<1>3. AloneOK'
  BY DEF IInv, AloneOK, Inside, OpenClose, InReg, InReset
<1>4. UpOK'
  BY DEF IInv, UpOK, InReg, InReset
<1>5. DownOK'
  BY DEF IInv, DownOK, Somewhere
<1>6. RingOK'
  BY DEF IInv, RingOK, Somewhere
<1> QED
  BY <1>1, <1>2, <1>3, <1>4, <1>5, <1>6 DEF IInv

LEMMA NextStep ==
    ASSUME Legal, IInv, Next
    PROVE  IInv'
<1>1. ASSUME NEW a \in Actors, DownUp(a) \/ ClearBit(a) \/ SetBit(a)
      PROVE  IInv'
  BY <1>1, DownStep, DownCarrierStep, DownNapiStep, DownCleanStep, UpFillStep, UpStartStep, UpNapiStep,
     ClearBitStep, SetBitStep DEF DownUp
<1>2. ASSUME NEW arg \in BOOLEAN, RegCall(arg)
      PROVE  IInv'
  BY <1>2, RegCallStep
<1>3. "reg" \in Actors /\ "admin" \in Actors /\ "service" \in Actors
  BY DEF Actors
<1>4. CASE Registration
  <2>1. CASE TakeBack
    BY <2>1, <1>2 DEF TakeBack
  <2> QED
    BY <1>4, <1>1, <1>3, <2>1, RegFlagStep, RegPromiscStep DEF Registration
<1>5. CASE Administration
  BY <1>5, <1>1, <1>3, AdminOpenedStep, AdminClosedStep DEF Administration
<1>6. CASE Service
  BY <1>6, <1>1, <1>3, WatchBeginStep, WatchLinkStep, WatchCarrierStep DEF Service
<1>7. CASE SyncBegin \/ SyncEnd
  BY <1>7, SyncBeginStep, SyncEndStep
<1>8. CASE AdminOpen \/ AdminClose \/ AdminReset \/ AdminOpenFails
  BY <1>8, AdminOpenStep, AdminCloseStep, AdminResetStep, AdminOpenFailsStep
<1>9. CASE ServiceBegin
  BY <1>9, ServiceBeginStep
<1> QED
  BY <1>1, <1>2, <1>4, <1>5, <1>6, <1>7, <1>8, <1>9 DEF Next

----------------------------------------------------------------------------
(* The theorems.                                                            *)

\* The invariant: from ixgbe_down to ixgbe_up one actor has the interface for himself,
\* ixgbe_dpa_reg, ixgbe_reinit_locked, ixgbe_open and ixgbe_close take down only what is
\* up, and what the rings hold then follows from where he is.
THEOREM Alone ==
    ASSUME Legal
    PROVE  Spec => []IInv
<1>1. IInv /\ [Next]_vars => IInv'
  BY NextStep, StutterStep
<1> QED
  BY <1>1, Starting, PTL DEF Spec

\* ixgbe_up enables NAPI only where ixgbe_down has disabled it.
THEOREM Typing ==
    ASSUME Legal
    PROVE  Spec => []TypeOK
<1>1. IInv => TypeOK
  BY DEF IInv
<1> QED
  BY <1>1, Alone, PTL

\* Neither ixgbe_clean_rx_irq nor dpa_rx_irq (NAPI) nor the process (rx_sync) meets
\* descriptors that ixgbe_dpa_reg or a reset has cleaned or filled for the other mode.
THEOREM OwnRing ==
    ASSUME Legal
    PROVE  Spec => []RightRing
<1>1. ASSUME IInv PROVE RightRing
  <2>1. PlacesOK /\ DownOK /\ RingOK /\ TypeOK /\ AloneOK /\ UpOK
    BY <1>1 DEF IInv
  <2>2. ASSUME napi > 0 PROVE ring = IF flag THEN "dpa" ELSE "skb"
    BY <2>1, <2>2 DEF DownOK, RingOK, Somewhere, PlacesOK, AloneOK, UpOK, InReg, InReset, Actors, Resets,
       Inside, Working, OpenClose, TypeOK
  <2>3. ASSUME syncing PROVE ring = "dpa"
    BY <2>1, <2>3 DEF RingOK, Somewhere
  <2> QED
    BY <2>2, <2>3 DEF RightRing
<1> QED
  BY <1>1, Alone, PTL
=============================================================================
