------------------------------ MODULE DbProofs ------------------------------
(***************************************************************************)
(* Theorems about a Db (src/sqlite/db.cpp): its hooks while two threads use   *)
(* them (QueryMonitor), and what schema_info reads while others commit       *)
(* (Schema); for any monitors, listeners, tables and versions.               *)
(***************************************************************************)
EXTENDS QueryMonitor, Schema, TLAPS

------------------------------------------------------------------------------
(* QueryMonitor: what SQLite has is never freed, the hooks belong to one      *)
(* monitor, what is used after it is gone is so only in the two known        *)
(* windows, and who listens is told once.                                   *)

\* The UI thread is through with slot s.
Done(s) == s < ui.slot \/ (s = ui.slot /\ ui.step # "swap")

\* f is no function, or that of slot s of a monitor that has not begun or has not ended.
Living(s, f) ==
  f = Null \/ \E m \in Monitors : f = <<m, s>> /\ status[m] \in {"alive", "dying"}

\* A monitor is being built or destroyed just while the UI thread is at it.
UiInv ==
  /\ ui.monitor = Null => ui.slot = 1 /\ ui.step = "swap" /\ ui.old = Null
  /\ \A m \in Monitors : status[m] \in {"building", "dying"} <=> ui.monitor = m

\* While it is, the slots it is through with are that monitor's, or empty.
OwnedInv ==
  IF ui.monitor = Null
    THEN \/ \A s \in Slots : owned[s] = Null
         \/ \E m \in Monitors : status[m] = "alive" /\ \A s \in Slots : owned[s] = <<m, s>>
    ELSE \A s \in Slots :
           IF Done(s)
             THEN owned[s] = IF status[ui.monitor] = "building" THEN <<ui.monitor, s>> ELSE Null
             ELSE Living(s, owned[s])

\* SQLite has what the Db owns, but for the slot at which the two change.
RegisteredInv ==
  \A s \in Slots :
    registered[s] = IF s = ui.slot /\ ui.step = "register" THEN ui.old ELSE owned[s]

\* What is on the heap is owned or about to be freed.
HeapInv ==
  /\ ui.step # "swap" => Living(ui.slot, ui.old) /\ ui.old \in heap \cup {Null}
  /\ \A s \in Slots : owned[s] \in heap \cup {Null}
  /\ \A f \in heap : (\E s \in Slots : f = owned[s]) \/ (ui.step # "swap" /\ f = ui.old)

HookType ==
  /\ owned \in [Slots -> Functions \cup {Null}] /\ registered \in [Slots -> Functions \cup {Null}]
  /\ heap \subseteq Functions
  /\ status \in [Monitors -> {"absent", "building", "alive", "dying", "dead"}]
  /\ ui \in [monitor : Monitors \cup {Null}, slot : Slots,
             step : {"swap", "register", "free"}, old : Functions \cup {Null}]

HookInv == HookType /\ UiInv /\ OwnedInv /\ RegisteredInv /\ HeapInv

hookVars == <<owned, registered, heap, status, ui>>

LEMMA FunctionFacts ==
  /\ Null \notin Monitors /\ Null \notin Functions
  /\ \A m \in Monitors, s \in Slots : <<m, s>> \in Functions /\ <<m, s>>[1] = m /\ <<m, s>> # Null
  /\ \A f \in Functions : f[1] \in Monitors
BY QueryMonitorAssumption DEF Functions

LEMMA HookInit == Init => HookInv
<1> SUFFICES ASSUME Init PROVE HookInv
  OBVIOUS
<1>1. ui.monitor = Null /\ ui.slot = 1 /\ ui.step = "swap" /\ ui.old = Null
  BY DEF Init, UiIdle
<1>2. HookType
  BY DEF Init, UiIdle, HookType, Slots
<1>3. UiInv /\ OwnedInv /\ RegisteredInv /\ HeapInv
  BY <1>1, FunctionFacts DEF Init, UiInv, OwnedInv, RegisteredInv, HeapInv, Slots
<1> QED BY <1>2, <1>3 DEF HookInv

LEMMA StartStep ==
  ASSUME HookInv, NEW m \in Monitors, Construct(m) \/ Destruct(m)
  PROVE  HookInv'
<1>1. /\ ui = UiIdle /\ ui' = [UiIdle EXCEPT !.monitor = m]
      /\ UNCHANGED <<owned, registered, heap>>
  BY DEF Construct, Destruct, Start, dbVars
<1>2. \/ status[m] = "absent" /\ status' = [status EXCEPT ![m] = "building"]
      \/ status[m] = "alive" /\ status' = [status EXCEPT ![m] = "dying"]
  BY DEF Construct, Destruct, Start
<1>3. /\ ui.monitor = Null /\ ui.slot = 1 /\ ui.step = "swap" /\ ui.old = Null
      /\ ui'.monitor = m /\ ui'.slot = 1 /\ ui'.step = "swap" /\ ui'.old = Null
  BY <1>1 DEF UiIdle
<1>4. HookType'
  BY <1>1, <1>2 DEF HookInv, HookType, UiIdle
<1>5. UiInv'
  BY <1>2, <1>3, FunctionFacts DEF HookInv, HookType, UiInv
<1>6. \A s \in Slots : ~Done(s)'
  BY <1>3 DEF Done, Slots
<1>7. \A s \in Slots : Living(s, owned[s])'
  BY <1>1, <1>2, <1>3 DEF HookInv, HookType, OwnedInv, Living
<1>8. OwnedInv' /\ RegisteredInv' /\ HeapInv'
  BY <1>1, <1>3, <1>6, <1>7, FunctionFacts DEF HookInv, OwnedInv, RegisteredInv, HeapInv
<1> QED BY <1>4, <1>5, <1>8 DEF HookInv

LEMMA SwapStep == HookInv /\ Swap => HookInv'
<1> SUFFICES ASSUME HookInv, Swap PROVE HookInv'
  OBVIOUS
<1> DEFINE new == IF status[ui.monitor] = "building" THEN <<ui.monitor, ui.slot>> ELSE Null
<1>1. /\ ui.monitor # Null /\ ui.step = "swap" /\ ui.slot \in Slots /\ ui.monitor \in Monitors
      /\ ui' = [ui EXCEPT !.step = "register", !.old = owned[ui.slot]]
      /\ owned' = [owned EXCEPT ![ui.slot] = new] /\ heap' = heap \cup ({new} \ {Null})
      /\ registered' = registered /\ status' = status
  BY DEF Swap, HookInv, HookType
<1>2. ui'.monitor = ui.monitor /\ ui'.slot = ui.slot /\ ui'.step = "register" /\ ui'.old = owned[ui.slot]
  BY <1>1 DEF HookInv, HookType
<1>3. new \in Functions \cup {Null} /\ (new = Null \/ new \in Functions)
  BY <1>1, FunctionFacts
<1>4. HookType'
  BY <1>1, <1>3 DEF HookInv, HookType
<1>5. UiInv'
  BY <1>1, <1>2 DEF HookInv, UiInv
<1>6. \A s \in Slots : Done(s)' <=> (Done(s) \/ s = ui.slot)
  BY <1>1, <1>2 DEF Done, Slots
<1>7. ~Done(ui.slot)
  BY <1>1 DEF Done, Slots
<1>8. OwnedInv'
  BY <1>1, <1>2, <1>6, <1>7 DEF HookInv, HookType, OwnedInv, Living
<1>9. RegisteredInv'
  BY <1>1, <1>2 DEF HookInv, HookType, RegisteredInv
<1>10. HeapInv'
  <2>1. Living(ui.slot, owned[ui.slot]) /\ owned[ui.slot] \in heap \cup {Null}
    BY <1>1, <1>7 DEF HookInv, OwnedInv, HeapInv, Living
  <2> HIDE DEF new
  <2>2. \A s \in Slots : owned'[s] \in heap' \cup {Null}
    BY <1>1, <1>3 DEF HookInv, HookType, HeapInv
  <2>3. \A f \in heap' : (\E s \in Slots : f = owned'[s]) \/ f = owned[ui.slot]
    BY <1>1, <1>3 DEF HookInv, HookType, HeapInv
  <2> QED BY <1>1, <1>2, <2>1, <2>2, <2>3 DEF HeapInv, Living
<1> QED BY <1>4, <1>5, <1>8, <1>9, <1>10 DEF HookInv

LEMMA RegisterStep == HookInv /\ Register => HookInv'
<1> SUFFICES ASSUME HookInv, Register PROVE HookInv'
  OBVIOUS
<1>1. /\ ui.step = "register" /\ ui' = [ui EXCEPT !.step = "free"]
      /\ registered' = [registered EXCEPT ![ui.slot] = owned[ui.slot]]
      /\ owned' = owned /\ heap' = heap /\ status' = status
  BY DEF Register
<1>2. /\ ui.monitor # Null /\ ui.slot \in Slots
      /\ ui'.monitor = ui.monitor /\ ui'.slot = ui.slot /\ ui'.step = "free" /\ ui'.old = ui.old
  BY <1>1 DEF HookInv, HookType, UiInv
<1>3. HookType' /\ UiInv' /\ RegisteredInv'
  BY <1>1, <1>2 DEF HookInv, HookType, UiInv, RegisteredInv
<1>4. \A s \in Slots : Done(s)' <=> Done(s)
  BY <1>1, <1>2 DEF Done
<1>5. OwnedInv' /\ HeapInv'
  BY <1>1, <1>2, <1>4 DEF HookInv, OwnedInv, HeapInv, Living
<1> QED BY <1>3, <1>5 DEF HookInv

\* What Free frees belongs to no slot.
LEMMA OldIsNotOwned ==
  ASSUME HookInv, ui.step # "swap", NEW s \in Slots, owned[s] # Null
  PROVE  owned[s] # ui.old
<1>1. ui.monitor # Null /\ ui.slot \in Slots /\ Living(ui.slot, ui.old)
  BY DEF HookInv, HookType, UiInv, HeapInv
<1>2. (owned[s] = <<ui.monitor, s>> /\ status[ui.monitor] = "building") \/ s # ui.slot
  BY <1>1 DEF HookInv, OwnedInv, Done
<1>3. \E m \in Monitors : owned[s] = <<m, s>>
  BY <1>1 DEF HookInv, HookType, OwnedInv, Living
<1> QED BY <1>1, <1>2, <1>3 DEF Living

LEMMA FreeStep == HookInv /\ Free => HookInv'
<1> SUFFICES ASSUME HookInv, Free PROVE HookInv'
  OBVIOUS
<1>1. /\ ui.step = "free" /\ heap' = heap \ {ui.old}
      /\ owned' = owned /\ registered' = registered
  BY DEF Free
<1>2. ui.slot \in Slots /\ ui.monitor \in Monitors
  BY <1>1 DEF HookInv, HookType, UiInv
<1>3. \A s \in Slots : registered[s] = owned[s]
  BY <1>1 DEF HookInv, RegisteredInv
<1>4. \A s \in Slots : owned[s] \in heap' \cup {Null}
  BY <1>1, OldIsNotOwned DEF HookInv, HeapInv
<1>5. \A f \in heap' : \E s \in Slots : f = owned[s]
  BY <1>1 DEF HookInv, HeapInv
<1>6. CASE ui.slot < LastSlot(ui.monitor)
  <2>1. /\ ui' = [ui EXCEPT !.slot = @ + 1, !.step = "swap", !.old = Null] /\ status' = status
    BY <1>6 DEF Free
  <2>2. ui'.monitor = ui.monitor /\ ui'.slot = ui.slot + 1 /\ ui'.step = "swap" /\ ui'.old = Null
    BY <2>1 DEF HookInv, HookType
  <2>3. ui.slot + 1 \in Slots
    BY <1>2, <1>6 DEF LastSlot, Wal, Slots
  <2>4. HookType' /\ UiInv'
    BY <1>1, <1>2, <2>1, <2>2, <2>3, FunctionFacts DEF HookInv, HookType, UiInv
  <2>5. \A s \in Slots : Done(s)' <=> Done(s)
    BY <1>1, <1>2, <2>2 DEF Done, Slots
  <2>6. OwnedInv'
    BY <1>1, <1>2, <2>1, <2>2, <2>5, FunctionFacts DEF HookInv, OwnedInv, Living
  <2>7. RegisteredInv' /\ HeapInv'
    BY <1>1, <1>3, <1>4, <1>5, <2>2 DEF RegisteredInv, HeapInv
  <2> QED BY <2>4, <2>6, <2>7 DEF HookInv
<1>7. CASE ~(ui.slot < LastSlot(ui.monitor))
  <2>1. /\ ui' = UiIdle
        /\ status' = [status EXCEPT ![ui.monitor] = IF @ = "building" THEN "alive" ELSE "dead"]
    BY <1>7 DEF Free
  <2>2. ui'.monitor = Null /\ ui'.slot = 1 /\ ui'.step = "swap" /\ ui'.old = Null
    BY <2>1 DEF UiIdle
  <2>3. \A s \in Slots : Done(s)
    BY <1>1, <1>2, <1>7 DEF Done, LastSlot, Wal, Slots
  <2>4. HookType'
    BY <1>1, <1>2, <2>1 DEF HookInv, HookType, UiIdle, Slots
  <2>5. UiInv'
    BY <1>2, <2>1, <2>2, FunctionFacts DEF HookInv, HookType, UiInv
  <2>6. OwnedInv'
    BY <1>1, <1>2, <2>1, <2>2, <2>3, FunctionFacts DEF HookInv, HookType, OwnedInv
  <2>7. RegisteredInv' /\ HeapInv'
    BY <1>1, <1>3, <1>4, <1>5, <2>2 DEF RegisteredInv, HeapInv
  <2> QED BY <2>4, <2>5, <2>6, <2>7 DEF HookInv
<1> QED BY <1>6, <1>7

LEMMA HookNext == HookInv /\ [Next]_vars => HookInv'
<1> SUFFICES ASSUME HookInv, [Next]_vars PROVE HookInv'
  OBVIOUS
<1>1. CASE UNCHANGED hookVars
  BY <1>1 DEF hookVars, HookInv, HookType, UiInv, OwnedInv, RegisteredInv, HeapInv, Done, Living
<1>2. ASSUME NEW m \in Monitors, Construct(m) \/ Destruct(m) PROVE HookInv'
  BY <1>2, StartStep
<1>3. ASSUME NEW m \in Monitors, NEW l \in Listeners, listen_to_changes(m, l)
      PROVE  UNCHANGED hookVars
  BY <1>3 DEF listen_to_changes, hookVars, dbVars
<1>4. BeginCommit \/ Load \/ Copy \/ OtherHook \/ WalHook \/ CheckpointThrows \/ Tell \/ WalReturns
        => UNCHANGED hookVars
  BY DEF BeginCommit, Load, Copy, OtherHook, WalHook, CheckpointThrows, Tell, WalReturns, Uses, Bg,
     hookVars, dbVars
<1>5. Over \/ UNCHANGED vars => UNCHANGED hookVars
  BY DEF Over, vars, hookVars
<1> QED BY <1>1, <1>2, <1>3, <1>4, <1>5, SwapStep, RegisterStep, FreeStep DEF Next

LEMMA HookInvHolds == Spec => []HookInv
BY HookInit, HookNext, PTL DEF Spec

------------------------------------------------------------------------------
\* SQLite never has a pointer to a freed function, whatever is being set meanwhile.
THEOREM NeverFreed == Spec => []RegisteredIsLive
<1>1. HookInv => RegisteredIsLive
  BY DEF HookInv, RegisteredInv, HeapInv, RegisteredIsLive
<1> QED BY <1>1, HookInvHolds, PTL

\* Between the calls of the UI thread all hooks are those of one living monitor, or none.
THEOREM NoMixture == Spec => []HooksOfOneMonitor
<1>1. HookInv => HooksOfOneMonitor
  BY FunctionFacts DEF HookInv, UiInv, OwnedInv, RegisteredInv, HooksOfOneMonitor, UiIdle
<1> QED BY <1>1, HookInvHolds, PTL

------------------------------------------------------------------------------
\* What is gone when the background thread comes to use it.

BgType ==
  /\ bg \in [at : {"idle", "next", "loaded", "copied", "telling", "freed", "dangling", "threw"},
             slot : Slots, fn : Functions \cup {Null}, i : Nat, total : Nat]
  /\ bg.at \in {"loaded", "copied", "telling"} => bg.fn \in Functions
  /\ torn \in BOOLEAN /\ cut \in BOOLEAN

GoneInv ==
  /\ bg.at = "loaded" /\ bg.fn \notin heap => torn
  /\ bg.at \in {"copied", "telling"} /\ status[bg.fn[1]] = "dead" => cut
  /\ GoneOnlyMidway

BgInv == BgType /\ GoneInv

LEMMA BgInit == Init => BgInv
<1> SUFFICES ASSUME Init PROVE BgInv
  OBVIOUS
<1>1. bg = [at |-> "idle", slot |-> 1, fn |-> Null, i |-> 0, total |-> 0]
  BY DEF Init, BgIdle, BgAt, Update
<1>2. bg.at = "idle" /\ torn = FALSE /\ cut = FALSE
  BY <1>1 DEF Init
<1>3. bg \in [at : {"idle"}, slot : Slots, fn : Functions \cup {Null}, i : Nat, total : Nat]
  BY <1>1 DEF Slots
<1>4. BgType
  BY <1>2, <1>3 DEF BgType
<1> QED BY <1>2, <1>4 DEF BgInv, GoneInv, GoneOnlyMidway

\* The monitor of a function on the heap is not dead.
LEMMA HeapLives ==
  ASSUME HookInv, NEW f \in heap
  PROVE  f \in Functions /\ f[1] \in Monitors /\ status[f[1]] # "dead"
<1>1. f \in Functions /\ f # Null
  BY FunctionFacts DEF HookInv, HookType
<1>2. CASE ui.step # "swap" /\ f = ui.old
  <2>1. ui.slot \in Slots /\ Living(ui.slot, f)
    BY <1>2 DEF HookInv, HookType, HeapInv
  <2>2. PICK m \in Monitors : f = <<m, ui.slot>> /\ status[m] \in {"alive", "dying"}
    BY <1>1, <2>1 DEF Living
  <2> QED BY <1>1, <2>1, <2>2, FunctionFacts
<1>3. CASE \E s \in Slots : f = owned[s]
  <2>1. PICK s \in Slots : f = owned[s]
    BY <1>3
  <2>2. CASE ui.monitor = Null
    BY <1>1, <2>1, <2>2, FunctionFacts DEF HookInv, OwnedInv
  <2>3. CASE ui.monitor # Null /\ Done(s)
    <3>1. f = <<ui.monitor, s>> /\ status[ui.monitor] = "building" /\ ui.monitor \in Monitors
      BY <1>1, <2>1, <2>3 DEF HookInv, HookType, OwnedInv
    <3> QED BY <1>1, <3>1, FunctionFacts
  <2>4. CASE ui.monitor # Null /\ ~Done(s)
    <3>1. Living(s, f)
      BY <2>1, <2>4 DEF HookInv, OwnedInv
    <3>2. PICK m \in Monitors : f = <<m, s>> /\ status[m] \in {"alive", "dying"}
      BY <1>1, <3>1 DEF Living
    <3> QED BY <1>1, <2>1, <3>2, FunctionFacts
  <2> QED BY <2>2, <2>3, <2>4
<1> QED BY <1>2, <1>3 DEF HookInv, HeapInv

LEMMA UiKeepsBgInv ==
  ASSUME HookInv, BgInv,
         (\E m \in Monitors : Construct(m) \/ Destruct(m)) \/ Swap \/ Register \/ Free
  PROVE  BgInv'
<1>1. bg' = bg
  BY DEF Construct, Destruct, Start, Swap, Register, Free
<1>2. CASE ~Free
  <2>1. torn' = torn /\ cut' = cut /\ heap \subseteq heap'
    BY <1>2 DEF Construct, Destruct, Start, Swap, Register, dbVars
  <2>2. \A m \in Monitors : status'[m] = "dead" => status[m] = "dead"
    BY <1>2 DEF Construct, Destruct, Start, Swap, Register, HookInv, HookType
  <2> QED BY <1>1, <2>1, <2>2, FunctionFacts DEF BgInv, BgType, GoneInv, GoneOnlyMidway
<1>3. CASE Free
  <2>1. /\ heap' = heap \ {ui.old} /\ torn' = (torn \/ (bg.at = "loaded" /\ bg.fn = ui.old))
        /\ ui.monitor \in Monitors
    BY <1>3 DEF Free, HookInv, HookType, UiInv
  <2>2. \/ status' = status /\ cut' = cut
        \/ /\ status' = [status EXCEPT ![ui.monitor] = IF @ = "building" THEN "alive" ELSE "dead"]
           /\ cut' = (cut \/ (status[ui.monitor] = "dying" /\ Inside(ui.monitor)))
    BY <1>3 DEF Free
  <2>3. torn' \in BOOLEAN /\ cut' \in BOOLEAN
    BY <2>1, <2>2 DEF BgInv, BgType
  <2>4. BgType'
    BY <1>1, <2>3 DEF BgInv, BgType
  <2>5. bg.at = "loaded" /\ bg.fn \notin heap' => torn'
    BY <2>1 DEF BgInv, GoneInv
  <2>6. bg.at \in {"copied", "telling"} /\ status'[bg.fn[1]] = "dead" => cut'
    <3> SUFFICES ASSUME bg.at \in {"copied", "telling"}, status'[bg.fn[1]] = "dead" PROVE cut'
      OBVIOUS
    <3>1. bg.fn[1] \in Monitors
      BY FunctionFacts DEF BgInv, BgType
    <3>2. status[ui.monitor] \in {"building", "dying"}
      BY <2>1 DEF HookInv, UiInv
    <3> QED BY <2>1, <2>2, <3>1, <3>2 DEF BgInv, GoneInv, Inside, HookInv, HookType
  <2>7. GoneOnlyMidway'
    BY <1>1, <2>1, <2>2 DEF BgInv, GoneInv, GoneOnlyMidway
  <2> QED BY <1>1, <2>4, <2>5, <2>6, <2>7 DEF BgInv, GoneInv
<1> QED BY <1>2, <1>3

LEMMA AfterType ==
  ASSUME NEW s \in Slots, NEW b \in After(s)
  PROVE  /\ b \in [at : {"idle", "next"}, slot : Slots, fn : {Null}, i : {0}, total : {0}]
BY DEF After, BgIdle, BgAt, Slots, Update, Commit, Rollback, Wal

ListType == listeners \in [Monitors -> Seq(Listeners)]

LEMMA EmptySeq == \A S : <<>> \in Seq(S)
OBVIOUS

LEMMA ListTypeNext == ListType /\ [Next]_vars => ListType'
<1> SUFFICES ASSUME ListType, [Next]_vars PROVE ListType'
  OBVIOUS
<1>1. \/ UNCHANGED listeners
      \/ \E m, l : l \in Listeners /\ listeners' = [listeners EXCEPT ![m] = Append(@, l)]
  BY DEF Next, Construct, Destruct, Start, listen_to_changes, Swap, Register, Free, BeginCommit, Load,
     Copy, OtherHook, WalHook, CheckpointThrows, Tell, WalReturns, Over, vars
<1> QED BY <1>1 DEF ListType

LEMMA BgKeepsBgInv ==
  ASSUME HookInv, ListType, BgInv,
         \/ BeginCommit \/ Load \/ Copy \/ OtherHook
         \/ WalHook \/ CheckpointThrows \/ Tell \/ WalReturns
  PROVE  BgInv'
<1> USE FunctionFacts
<1>1. heap' = heap /\ status' = status /\ torn' = torn /\ cut' = cut
  BY DEF BeginCommit, Load, Copy, OtherHook, WalHook, CheckpointThrows, Tell, WalReturns, Uses, Bg, dbVars
<1>2. ASSUME NEW s \in Slots, bg' \in After(s) PROVE BgInv'
  <2>1. bg' \in [at : {"idle", "next"}, slot : Slots, fn : {Null}, i : {0}, total : {0}]
    BY <1>2, AfterType
  <2> QED BY <1>1, <2>1 DEF BgInv, BgType, GoneInv, GoneOnlyMidway
<1>3. CASE BeginCommit \/ WalReturns
  <2>1. bg' \in [at : {"idle", "next"}, slot : Slots, fn : {Null}, i : {0}, total : {0}]
    BY <1>3 DEF BeginCommit, WalReturns, Bg, BgIdle, BgAt, Slots, Update
  <2> QED BY <1>1, <2>1 DEF BgInv, BgType, GoneInv, GoneOnlyMidway
<1>4. CASE Load
  <2>1. CASE registered[bg.slot] = Null
    BY <1>2, <1>4, <2>1 DEF Load, Bg, BgInv, BgType
  <2>2. CASE registered[bg.slot] # Null
    <3>1. bg.slot \in Slots /\ registered[bg.slot] \in heap /\ registered[bg.slot] \in Functions
      BY <2>2 DEF BgInv, BgType, HookInv, HookType, RegisteredInv, HeapInv
    <3>2. bg' = BgAt("loaded", bg.slot, registered[bg.slot])
      BY <1>4, <2>2 DEF Load, Bg
    <3> QED BY <1>1, <3>1, <3>2 DEF BgAt, BgInv, BgType, GoneInv, GoneOnlyMidway
  <2> QED BY <2>1, <2>2
<1>5. CASE Copy
  <2>1. bg.at = "loaded" /\ bg' = [bg EXCEPT !.at = IF bg.fn \in heap THEN "copied" ELSE "freed"]
    BY <1>5 DEF Copy, Bg
  <2>2. bg'.fn = bg.fn /\ bg'.at = (IF bg.fn \in heap THEN "copied" ELSE "freed") /\ BgType'
    BY <1>1, <2>1 DEF BgInv, BgType
  <2>3. bg.fn \in heap => status[bg.fn[1]] # "dead"
    BY HeapLives
  <2> QED BY <1>1, <2>1, <2>2, <2>3 DEF BgInv, GoneInv, GoneOnlyMidway
<1>6. CASE OtherHook
  BY <1>2, <1>6 DEF OtherHook, CopyLasts, Bg, BgInv, BgType
<1>7. ASSUME NEW b, Uses(b), bg.at \in {"copied", "telling"}, b \in [at : {"telling", "threw"},
             slot : Slots, fn : {bg.fn}, i : Nat, total : Nat]
      PROVE  BgInv'
  <2>1. CASE status[bg.fn[1]] = "dead"
    <3>1. bg' = [bg EXCEPT !.at = "dangling"] /\ cut
      BY <1>7, <2>1 DEF Uses, Bg, CopyLasts, BgInv, GoneInv
    <3>2. bg'.at = "dangling" /\ BgType'
      BY <1>1, <3>1 DEF BgInv, BgType
    <3> QED BY <1>1, <3>1, <3>2 DEF BgInv, GoneInv, GoneOnlyMidway
  <2>2. CASE status[bg.fn[1]] # "dead"
    <3>1. bg' = b
      BY <1>7, <2>2 DEF Uses, Bg, CopyLasts
    <3>2. bg'.at \in {"telling", "threw"} /\ bg'.fn = bg.fn /\ BgType'
      BY <1>1, <1>7, <3>1 DEF BgInv, BgType
    <3> QED BY <1>1, <2>2, <3>2 DEF BgInv, GoneInv, GoneOnlyMidway
  <2> QED BY <2>1, <2>2
<1>8. ASSUME bg.at \in {"copied", "telling"} PROVE Len(listeners[bg.fn[1]]) \in Nat
  BY <1>8 DEF BgInv, BgType, ListType
<1>9. CASE WalHook
  <2> DEFINE b == [bg EXCEPT !.at = "telling", !.i = 1, !.total = Len(listeners[bg.fn[1]])]
  <2>1. bg.at = "copied" /\ Uses(b)
    BY <1>9 DEF WalHook
  <2>2. b \in [at : {"telling", "threw"}, slot : Slots, fn : {bg.fn}, i : Nat, total : Nat]
    BY <1>8, <2>1 DEF BgInv, BgType
  <2> QED BY <1>7, <2>1, <2>2
<1>10. CASE CheckpointThrows
  <2> DEFINE b == [bg EXCEPT !.at = "threw"]
  <2>1. bg.at = "copied" /\ Uses(b)
    BY <1>10 DEF CheckpointThrows
  <2>2. b \in [at : {"telling", "threw"}, slot : Slots, fn : {bg.fn}, i : Nat, total : Nat]
    BY DEF BgInv, BgType
  <2> QED BY <1>7, <2>1, <2>2
<1>11. CASE Tell
  <2> DEFINE b == [bg EXCEPT !.i = @ + 1]
  <2>1. bg.at = "telling" /\ Uses(b)
    BY <1>11 DEF Tell
  <2>2. b \in [at : {"telling", "threw"}, slot : Slots, fn : {bg.fn}, i : Nat, total : Nat]
    BY <2>1 DEF BgInv, BgType
  <2> QED BY <1>7, <2>1, <2>2
<1> QED BY <1>3, <1>4, <1>5, <1>6, <1>9, <1>10, <1>11

LEMMA BgNext == HookInv /\ ListType /\ BgInv /\ [Next]_vars => BgInv'
<1> SUFFICES ASSUME HookInv, ListType, BgInv, [Next]_vars PROVE BgInv'
  OBVIOUS
<1>1. ASSUME UNCHANGED <<heap, status, bg, torn, cut>> PROVE BgInv'
  BY <1>1 DEF BgInv, BgType, GoneInv, GoneOnlyMidway
<1>2. (\E m \in Monitors, l \in Listeners : listen_to_changes(m, l)) \/ Over \/ UNCHANGED vars
        => UNCHANGED <<heap, status, bg, torn, cut>>
  BY DEF listen_to_changes, dbVars, Over, vars
<1> QED BY <1>1, <1>2, UiKeepsBgInv, BgKeepsBgInv DEF Next

LEMMA BgInvHolds == Spec => [](ListType /\ BgInv)
<1>1. Init => ListType
  BY EmptySeq DEF Init, ListType
<1> QED BY <1>1, BgInit, BgNext, ListTypeNext, HookInvHolds, PTL DEF Spec

\* A freed function or a destroyed monitor is used only if it went in the known window.
THEOREM KnownWindows == Spec => []GoneOnlyMidway
<1>1. BgInv => GoneOnlyMidway
  BY DEF BgInv, GoneInv
<1> QED BY <1>1, BgInvHolds, PTL

------------------------------------------------------------------------------
\* Who is told of a commit.

\* No listener twice in a list.
ListInv == ListType /\ \A m \in Monitors : \A a, b \in 1 .. Len(listeners[m]) :
                         listeners[m][a] = listeners[m][b] => a = b

\* What is told so far is the beginning of the list, none of it added late; everyone
\* there was at the call is among those it is going to tell.
Telling(L) ==
  /\ bg.i \in 1 .. bg.total + 1 /\ bg.total <= Len(L) /\ Len(told) = bg.i - 1
  /\ \A k \in 1 .. bg.i - 1 : told[k] = L[k]
  /\ \A l \in due : \E k \in 1 .. bg.total : L[k] = l
  /\ \A k \in 1 .. bg.total : L[k] \notin late

TellInv ==
  /\ told \in Seq(Listeners) /\ due \subseteq Listeners /\ late \subseteq Listeners
  /\ bg.at \in {"next", "loaded", "copied"} => told = <<>> /\ late = {}
  /\ bg.at = "copied" /\ bg.slot = Wal => due \subseteq ToSet(listeners[bg.fn[1]])
  /\ bg.at = "telling" => Telling(listeners[bg.fn[1]])

\* Appending keeps what is there, and adds the element at the end.
LEMMA Appended ==
  ASSUME NEW S, NEW L \in Seq(S), NEW l \in S
  PROVE  /\ Append(L, l) \in Seq(S) /\ Len(L) \in Nat /\ Len(Append(L, l)) = Len(L) + 1
         /\ \A k \in 1 .. Len(L) : Append(L, l)[k] = L[k] /\ L[k] \in S
         /\ Append(L, l)[Len(L) + 1] = l
OBVIOUS

LEMMA ToSetIs ==
  ASSUME NEW S, NEW L \in Seq(S)
  PROVE  \A x : x \in ToSet(L) <=> \E k \in 1 .. Len(L) : x = L[k]
<1>1. DOMAIN L = 1 .. Len(L)
  OBVIOUS
<1> QED BY <1>1 DEF ToSet

\* A step leaves the lists alone, or appends a listener that is in none.
LEMMA ListStep ==
  ASSUME [Next]_vars
  PROVE  \/ listeners' = listeners
         \/ \E m \in Monitors \cup {bg.fn[1]}, l \in Listeners :
              New(l) /\ listeners' = [listeners EXCEPT ![m] = Append(@, l)]
BY DEF Next, Construct, Destruct, Start, listen_to_changes, Swap, Register, Free, BeginCommit, Load,
   Copy, OtherHook, WalHook, CheckpointThrows, Tell, WalReturns, Over, vars

\* So a list only grows.
LEMMA ListGrows ==
  ASSUME ListType, [Next]_vars, NEW m \in Monitors
  PROVE  /\ Len(listeners[m]) \in Nat /\ Len(listeners'[m]) \in Nat
         /\ Len(listeners[m]) <= Len(listeners'[m])
         /\ \A k \in 1 .. Len(listeners[m]) : listeners'[m][k] = listeners[m][k]
<1>1. listeners[m] \in Seq(Listeners) /\ Len(listeners[m]) \in Nat
  BY DEF ListType
<1>2. CASE listeners' = listeners
  BY <1>1, <1>2
<1>3. ASSUME NEW n, NEW l \in Listeners, listeners' = [listeners EXCEPT ![n] = Append(@, l)]
      PROVE  listeners'[m] = listeners[m] \/ listeners'[m] = Append(listeners[m], l)
  BY <1>3 DEF ListType
<1>4. ASSUME NEW l \in Listeners, listeners'[m] = listeners[m] \/ listeners'[m] = Append(listeners[m], l)
      PROVE  /\ Len(listeners'[m]) \in Nat /\ Len(listeners[m]) <= Len(listeners'[m])
             /\ \A k \in 1 .. Len(listeners[m]) : listeners'[m][k] = listeners[m][k]
  BY <1>1, <1>4, Appended
<1> QED BY <1>1, <1>2, <1>3, <1>4, ListStep

LEMMA ListInvNext == ListInv /\ [Next]_vars => ListInv'
<1> SUFFICES ASSUME ListInv, [Next]_vars PROVE ListInv'
  OBVIOUS
<1>1. ListType /\ ListType'
  BY ListTypeNext DEF ListInv
<1>2. CASE listeners' = listeners
  BY <1>2 DEF ListInv, ListType
<1>3. ASSUME NEW n, NEW l \in Listeners, New(l), listeners' = [listeners EXCEPT ![n] = Append(@, l)]
      PROVE  ListInv'
  <2> SUFFICES ASSUME NEW m \in Monitors, NEW a \in 1 .. Len(listeners'[m]),
                      NEW b \in 1 .. Len(listeners'[m]), listeners'[m][a] = listeners'[m][b]
               PROVE  a = b
    BY <1>1 DEF ListInv
  <2>1. listeners[m] \in Seq(Listeners) /\ \A k \in 1 .. Len(listeners[m]) : listeners[m][k] # l
    BY <1>1, <1>3 DEF New, Contains, ListType
  <2>2. \A c, d \in 1 .. Len(listeners[m]) : listeners[m][c] = listeners[m][d] => c = d
    BY DEF ListInv
  <2>3. CASE listeners'[m] = listeners[m]
    BY <2>2, <2>3
  <2>4. CASE listeners'[m] = Append(listeners[m], l)
    <3> DEFINE L == listeners[m]
    <3>1. /\ Len(L) \in Nat /\ Len(listeners'[m]) = Len(L) + 1
          /\ \A k \in 1 .. Len(L) : listeners'[m][k] = L[k]
          /\ listeners'[m][Len(L) + 1] = l
      BY <2>1, <2>4, Appended
    <3>2. (a \in 1 .. Len(L) \/ a = Len(L) + 1) /\ (b \in 1 .. Len(L) \/ b = Len(L) + 1)
      BY <3>1
    <3> QED BY <2>1, <2>2, <3>1, <3>2
  <2>5. listeners'[m] = listeners[m] \/ listeners'[m] = Append(listeners[m], l)
    BY <1>1, <1>3 DEF ListType
  <2> QED BY <2>3, <2>4, <2>5
<1> QED BY <1>2, <1>3, ListStep

\* Steps other than those of the WAL hook, seen from the commit.
LEMMA OthersKeepTellInv ==
  ASSUME ListType, BgInv, TellInv, [Next]_vars,
         UNCHANGED <<bg, told, due, late>>
  PROVE  TellInv'
<1>1. ASSUME bg.at \in {"copied", "telling"} PROVE bg.fn[1] \in Monitors
  BY <1>1, FunctionFacts DEF BgInv, BgType
<1>2. ASSUME bg.at = "copied", bg.slot = Wal PROVE due \subseteq ToSet(listeners'[bg.fn[1]])
  <2> DEFINE L == listeners[bg.fn[1]]
             M == listeners'[bg.fn[1]]
  <2>1. Len(L) \in Nat /\ Len(M) \in Nat /\ Len(L) <= Len(M) /\ \A k \in 1 .. Len(L) : M[k] = L[k]
    BY <1>1, <1>2, ListGrows
  <2>2. L \in Seq(Listeners) /\ M \in Seq(Listeners)
    BY <1>1, <1>2, ListTypeNext DEF ListType
  <2>3. ToSet(L) \subseteq ToSet(M)
    BY <2>1, <2>2, ToSetIs
  <2> QED BY <1>2, <2>3 DEF TellInv
<1>3. ASSUME bg.at = "telling" PROVE Telling(listeners'[bg.fn[1]])
  <2> DEFINE L == listeners[bg.fn[1]]
             M == listeners'[bg.fn[1]]
  <2>1. Len(L) \in Nat /\ Len(M) \in Nat /\ Len(L) <= Len(M) /\ \A k \in 1 .. Len(L) : M[k] = L[k]
    BY <1>1, <1>3, ListGrows
  <2>2. Telling(L) /\ bg.i \in Nat /\ bg.total \in Nat
    BY <1>3 DEF TellInv, BgInv, BgType
  <2>3. bg.total <= Len(L) /\ bg.i <= bg.total + 1
    BY <2>2 DEF Telling
  <2>4. \A k \in 1 .. bg.total : k \in 1 .. Len(L) /\ M[k] = L[k]
    BY <2>1, <2>2, <2>3
  <2>5. \A k \in 1 .. bg.i - 1 : k \in 1 .. bg.total
    BY <2>2, <2>3
  <2>6. bg.total <= Len(M)
    BY <2>1, <2>2, <2>3
  <2> HIDE DEF L, M
  <2>7. Telling(M)
    BY <2>2, <2>4, <2>5, <2>6 DEF Telling
  <2> QED BY <2>7 DEF M
<1>4. bg' = bg /\ told' = told /\ due' = due /\ late' = late
  OBVIOUS
<1> QED BY <1>2, <1>3, <1>4 DEF TellInv, Telling

LEMMA BgKeepsTellInv ==
  ASSUME ListInv, BgInv, TellInv, [Next]_vars,
         \/ BeginCommit \/ Load \/ Copy \/ OtherHook
         \/ WalHook \/ CheckpointThrows \/ Tell \/ WalReturns
  PROVE  TellInv'
<1> USE FunctionFacts
<1>1. ASSUME NEW s \in Slots, bg' \in After(s), listeners' = listeners,
             UNCHANGED commitVars, told = <<>>, late = {}
      PROVE  TellInv'
  <2>1. bg'.at \in {"idle", "next"}
    BY <1>1, AfterType
  <2> QED BY <1>1, <2>1 DEF TellInv, commitVars
<1>2. CASE BeginCommit
  <2>1. bg'.at = "next" /\ told' = <<>> /\ due' = {} /\ late' = {}
    BY <1>2 DEF BeginCommit, Bg, BgAt
  <2> QED BY <2>1, EmptySeq DEF TellInv
<1>3. CASE Load
  <2>1. told = <<>> /\ late = {} /\ listeners' = listeners /\ UNCHANGED commitVars /\ bg.slot \in Slots
    BY <1>3 DEF Load, TellInv, BgInv, BgType
  <2>2. CASE registered[bg.slot] = Null
    BY <1>1, <1>3, <2>1, <2>2 DEF Load, Bg
  <2>3. CASE registered[bg.slot] # Null
    <3>1. bg'.at = "loaded"
      BY <1>3, <2>3 DEF Load, Bg, BgAt
    <3> QED BY <2>1, <3>1 DEF TellInv, commitVars
  <2> QED BY <2>2, <2>3
<1>4. CASE Copy
  <2>1. /\ bg.at = "loaded" /\ bg.fn[1] \in Monitors /\ listeners' = listeners
        /\ told' = told /\ late' = late /\ told = <<>> /\ late = {}
    BY <1>4 DEF Copy, TellInv, BgInv, BgType
  <2>2. bg'.at \in {"copied", "freed"} /\ bg'.slot = bg.slot /\ bg'.fn = bg.fn
    BY <1>4 DEF Copy, Bg, BgInv, BgType
  <2>3. due' = IF bg.slot = Wal THEN ToSet(listeners[bg.fn[1]]) ELSE due
    BY <1>4 DEF Copy
  <2>4. listeners[bg.fn[1]] \in Seq(Listeners)
    BY <2>1 DEF ListInv, ListType
  <2>5. ToSet(listeners[bg.fn[1]]) \subseteq Listeners
    BY <2>4, ToSetIs
  <2>6. due' \subseteq Listeners
    BY <2>3, <2>5 DEF TellInv
  <2> QED BY <2>1, <2>2, <2>3, <2>6 DEF TellInv
<1>5. CASE OtherHook
  <2>1. told = <<>> /\ late = {} /\ listeners' = listeners /\ UNCHANGED commitVars /\ bg.slot \in Slots
    BY <1>5 DEF OtherHook, TellInv, BgInv, BgType
  <2> QED BY <1>1, <1>5, <2>1 DEF OtherHook, CopyLasts, Bg
<1>6. CASE WalHook
  <2> DEFINE L == listeners[bg.fn[1]]
             b == [bg EXCEPT !.at = "telling", !.i = 1, !.total = Len(listeners[bg.fn[1]])]
  <2>1. /\ bg.at = "copied" /\ bg.slot = Wal /\ bg.fn[1] \in Monitors /\ listeners' = listeners
        /\ told' = told /\ late' = late /\ due' = due /\ told = <<>> /\ late = {}
        /\ due \subseteq ToSet(L)
    BY <1>6 DEF WalHook, TellInv, BgInv, BgType, commitVars
  <2>2. L \in Seq(Listeners) /\ Len(L) \in Nat
    BY <2>1 DEF ListInv, ListType
  <2>3. \A l \in due : \E k \in 1 .. Len(L) : L[k] = l
    BY <2>1, <2>2, ToSetIs
  <2>4. CASE status[bg.fn[1]] = "dead"
    <3>1. bg'.at = "dangling"
      BY <1>6, <2>4 DEF WalHook, Uses, Bg, CopyLasts, BgInv, BgType
    <3> QED BY <2>1, <3>1 DEF TellInv
  <2>5. CASE status[bg.fn[1]] # "dead"
    <3>1. bg' = b
      BY <1>6, <2>5 DEF WalHook, Uses, Bg, CopyLasts
    <3>2. bg'.at = "telling" /\ bg'.i = 1 /\ bg'.total = Len(L) /\ bg'.fn = bg.fn
      BY <3>1 DEF BgInv, BgType
    <3>3. listeners'[bg'.fn[1]] = L /\ Len(told') = 0
      BY <2>1, <3>2
    <3> HIDE DEF L
    <3>4. Telling(listeners[bg.fn[1]])'
      BY <2>1, <2>2, <2>3, <3>2, <3>3 DEF Telling
    <3> QED BY <2>1, <3>2, <3>4 DEF TellInv
  <2> QED BY <2>4, <2>5
<1>7. CASE CheckpointThrows
  <2>1. bg'.at \in {"threw", "dangling"} /\ UNCHANGED commitVars
    BY <1>7 DEF CheckpointThrows, Uses, Bg, CopyLasts, BgInv, BgType
  <2> QED BY <2>1 DEF TellInv, commitVars
<1>8. CASE Tell
  <2> DEFINE L == listeners[bg.fn[1]]
             M == listeners'[bg.fn[1]]
             x == L[bg.i]
  <2>1. /\ bg.at = "telling" /\ bg.i <= bg.total /\ bg.fn[1] \in Monitors
        /\ due' = due /\ told' = Append(told, x) /\ bg.i \in Nat /\ bg.total \in Nat
    BY <1>8 DEF Tell, Total, BgInv, BgType
  <2>2. L \in Seq(Listeners) /\ M \in Seq(Listeners) /\ told \in Seq(Listeners)
    BY <2>1, ListTypeNext DEF ListInv, ListType, TellInv
  <2>3. Len(L) \in Nat /\ Len(M) \in Nat /\ Len(L) <= Len(M) /\ \A k \in 1 .. Len(L) : M[k] = L[k]
    BY <2>1, ListGrows DEF ListInv
  <2>4. Telling(L)
    BY <2>1 DEF TellInv
  <2>5. late' \subseteq Listeners /\ \A k \in 1 .. Len(L) : L[k] \in late' => L[k] \in late
    <3>1. CASE late' = late
      BY <3>1 DEF TellInv
    <3>2. ASSUME NEW l \in Listeners, New(l), late' = late \cup {l}
          PROVE  late' \subseteq Listeners /\ \A k \in 1 .. Len(L) : L[k] \in late' => L[k] \in late
      <4>1. \A k \in 1 .. Len(L) : L[k] # l
        BY <2>1, <3>2 DEF New, Contains
      <4> QED BY <3>2, <4>1 DEF TellInv
    <3> QED BY <1>8, <3>1, <3>2 DEF Tell
  <2> HIDE DEF L, M, x
  <2>6. bg.total <= Len(L) /\ 1 <= bg.i /\ Len(told) = bg.i - 1
    BY <2>1, <2>4 DEF Telling
  <2>7. bg.i \in 1 .. Len(L)
    BY <2>1, <2>3, <2>6
  <2>8. x \in Listeners
    BY <2>2, <2>7 DEF x
  <2>9. /\ told' \in Seq(Listeners) /\ Len(told') = bg.i
        /\ \A k \in 1 .. bg.i - 1 : told'[k] = told[k]
        /\ told'[bg.i] = x
    BY <2>1, <2>2, <2>6, <2>8, Appended
  <2>10. CASE status[bg.fn[1]] = "dead"
    <3>1. bg'.at = "dangling"
      BY <1>8, <2>10 DEF Tell, Uses, Bg, CopyLasts, BgInv, BgType
    <3> QED BY <2>1, <2>5, <2>9, <3>1 DEF TellInv
  <2>11. CASE status[bg.fn[1]] # "dead"
    <3>1. bg' = [bg EXCEPT !.i = @ + 1]
      BY <1>8, <2>11 DEF Tell, Uses, Bg, CopyLasts
    <3>2. bg'.at = "telling" /\ bg'.i = bg.i + 1 /\ bg'.total = bg.total /\ bg'.fn = bg.fn
      BY <2>1, <3>1 DEF BgInv, BgType
    <3>3. M = listeners'[bg'.fn[1]]
      BY <3>2 DEF M
    <3>4. \A k \in 1 .. bg.total : k \in 1 .. Len(L) /\ M[k] = L[k]
      BY <2>1, <2>3, <2>6
    <3>5. bg'.i \in 1 .. bg'.total + 1 /\ bg'.total <= Len(M) /\ Len(told') = bg'.i - 1
      BY <2>1, <2>3, <2>6, <2>9, <3>2
    <3>6. \A k \in 1 .. bg.i : told'[k] = M[k]
      <4> TAKE k \in 1 .. bg.i
      <4>1. k \in 1 .. bg.total
        BY <2>1
      <4>2. CASE k = bg.i
        BY <2>9, <3>4, <4>1, <4>2 DEF x
      <4>3. CASE k # bg.i
        <5>1. k \in 1 .. bg.i - 1
          BY <2>1, <4>3
        <5>2. told[k] = L[k]
          BY <2>4, <5>1 DEF Telling
        <5> QED BY <2>9, <3>4, <4>1, <5>1, <5>2
      <4> QED BY <4>2, <4>3
    <3>7. \A l \in due' : \E k \in 1 .. bg'.total : M[k] = l
      BY <2>1, <2>4, <3>2, <3>4 DEF Telling
    <3>8. \A k \in 1 .. bg'.total : M[k] \notin late'
      BY <2>4, <2>5, <3>2, <3>4 DEF Telling
    <3>9. bg'.i - 1 = bg.i
      BY <2>1, <3>2
    <3>10. Telling(listeners[bg.fn[1]])'
      BY <3>3, <3>5, <3>6, <3>7, <3>8, <3>9 DEF Telling
    <3> QED BY <2>1, <2>5, <2>9, <3>2, <3>10 DEF TellInv
  <2> QED BY <2>10, <2>11
<1>9. CASE WalReturns
  <2>1. bg'.at = "idle" /\ UNCHANGED commitVars
    BY <1>9 DEF WalReturns, Bg, BgIdle, BgAt
  <2> QED BY <2>1 DEF TellInv, commitVars
<1> QED BY <1>2, <1>3, <1>4, <1>5, <1>6, <1>7, <1>8, <1>9

LEMMA TellInvHolds == Spec => [](ListInv /\ BgInv /\ TellInv)
<1>1. Init => ListInv /\ TellInv
  <2> SUFFICES ASSUME Init PROVE ListInv /\ TellInv
    OBVIOUS
  <2>1. ListInv
    BY EmptySeq DEF Init, ListInv, ListType
  <2>2. TellInv
    BY EmptySeq DEF Init, TellInv, BgIdle, BgAt
  <2> QED BY <2>1, <2>2
<1>2. ListInv /\ BgInv /\ TellInv /\ [Next]_vars => TellInv'
  <2> SUFFICES ASSUME ListInv, BgInv, TellInv, [Next]_vars PROVE TellInv'
    OBVIOUS
  <2>1. \/ UNCHANGED <<bg, told, due, late>>
        \/ BeginCommit \/ Load \/ Copy \/ OtherHook
        \/ WalHook \/ CheckpointThrows \/ Tell \/ WalReturns
    BY DEF Next, Construct, Destruct, Start, Swap, Register, Free, listen_to_changes, Over, vars, commitVars
  <2> QED BY <2>1, OthersKeepTellInv, BgKeepsTellInv DEF ListInv
<1> QED BY <1>1, <1>2, ListInvNext, BgInvHolds, PTL DEF Spec

\* Whoever listened when the WAL hook was called is told of the commit, once.
THEOREM EveryoneToldOnce == Spec => ToldOnce
<1>1. ASSUME ListInv, BgInv, TellInv, WalReturns
      PROVE  due \subseteq ToSet(told) /\ late \cap ToSet(told) = {} /\ IsInjective(told)
  <2> DEFINE L == listeners[bg.fn[1]]
  <2>1. /\ bg.fn[1] \in Monitors /\ Telling(L) /\ bg.i > bg.total /\ told \in Seq(Listeners)
        /\ bg.i \in Nat /\ bg.total \in Nat
    BY <1>1, FunctionFacts DEF WalReturns, Total, TellInv, BgInv, BgType
  <2>2. \A a, b \in 1 .. Len(L) : L[a] = L[b] => a = b
    BY <1>1, <2>1 DEF ListInv
  <2>3. Len(L) \in Nat
    BY <1>1, <2>1 DEF ListInv, ListType
  <2> HIDE DEF L
  <2>4. Len(told) = bg.total /\ bg.total <= Len(L) /\ bg.i - 1 = bg.total
    BY <2>1 DEF Telling
  <2>5. DOMAIN told = 1 .. bg.total
    BY <2>1, <2>4
  <2>6. \A k \in 1 .. bg.total : told[k] = L[k] /\ k \in 1 .. Len(L)
    BY <2>1, <2>3, <2>4 DEF Telling
  <2>7. \A x : x \in ToSet(told) <=> \E k \in 1 .. bg.total : x = told[k]
    BY <2>1, <2>4, ToSetIs
  <2>8. IsInjective(told)
    BY <2>2, <2>5, <2>6 DEF IsInjective
  <2>9. \A l \in due : \E k \in 1 .. bg.total : l = told[k]
    BY <2>1, <2>6 DEF Telling
  <2>10. \A k \in 1 .. bg.total : told[k] \notin late
    BY <2>1, <2>6 DEF Telling
  <2> QED BY <2>7, <2>8, <2>9, <2>10
<1> QED BY <1>1, TellInvHolds, PTL DEF ToldOnce

\* The variables have their types.
THEOREM TypeCorrect == Spec => []TypeOK
<1>1. HookInv /\ ListInv /\ BgInv /\ TellInv => TypeOK
  BY DEF HookInv, HookType, ListInv, ListType, BgInv, BgType, TellInv, TypeOK
<1> QED BY <1>1, HookInvHolds, TellInvHolds, PTL

------------------------------------------------------------------------------
(* Schema.  What makes one version of several queries is that there is always *)
(* a cursor around them: the invariant says that the rows it has left, and   *)
(* the tables found so far, make up its version.                            *)

LEMMA TablesOfType == \A v \in Versions : TablesOf[v] \subseteq Tables
BY SchemaAssumption

\* What Exactly gives of a version: nothing of no tables, one of one table, all of all.
LEMMA ExactlyType ==
  ASSUME NEW v \in Versions, NEW S
  PROVE  Exactly(S, v) \subseteq TableInfos
BY TablesOfType DEF Exactly, TableInfos, TableInfo

LEMMA ExactlyNothing == \A v : Exactly({}, v) = {}
BY DEF Exactly

LEMMA ExactlyAbsent ==
  ASSUME NEW v \in Versions, NEW t \in Tables, t \notin TablesOf[v]
  PROVE  Exactly({t}, v) = {}
BY DEF Exactly

LEMMA ExactlyOne ==
  ASSUME NEW v \in Versions, NEW t \in TablesOf[v]
  PROVE  Exactly({t}, v) = {TableInfo(t, v, v)}
<1> {t} \cap TablesOf[v] = {t}
  OBVIOUS
<1> QED BY DEF Exactly

LEMMA ExactlyAll ==
  ASSUME NEW v \in Versions
  PROVE  Exactly(TablesOf[v], v) = Exactly(Tables, v)
<1> TablesOf[v] \cap TablesOf[v] = Tables \cap TablesOf[v]
  BY TablesOfType
<1> QED BY DEF Exactly

\* The next row of the cursor, added to those before it.
LEMMA ExactlyNext ==
  ASSUME NEW v \in Versions, NEW R \in SUBSET TablesOf[v], NEW t \in R
  PROVE  Exactly(TablesOf[v] \ (R \ {t}), v)
           = Exactly(TablesOf[v] \ R, v) \cup {TableInfo(t, v, v)}
<1> DEFINE A == (TablesOf[v] \ R) \cap TablesOf[v]
           B == (TablesOf[v] \ (R \ {t})) \cap TablesOf[v]
<1>1. B = A \cup {t}
  OBVIOUS
<1>2. {TableInfo(s, v, v) : s \in A \cup {t}} = {TableInfo(s, v, v) : s \in A} \cup {TableInfo(t, v, v)}
  OBVIOUS
<1> QED BY <1>1, <1>2 DEF Exactly

------------------------------------------------------------------------------
\* The version a call reads lies between its beginning and now.
VersionInv == began <= snapshot /\ snapshot <= version

WholeInv ==
  whole /\ pc # "idle" =>
    /\ rows \subseteq TablesOf[snapshot]
    /\ tables = Exactly(TablesOf[snapshot] \ rows, snapshot)
    /\ pc = "tables" => cursor = None
    /\ pc = "table" => cursor = None /\ table \in rows
    /\ pc = "columns" => cursor = snapshot /\ table \in rows

PartInv ==
  ~whole /\ pc # "idle" =>
    /\ rows = {} /\ tables = {} /\ table \in Tables /\ pc # "tables"
    /\ pc = "table" => cursor = None
    /\ pc = "columns" => cursor = snapshot /\ table \in TablesOf[snapshot]

CallInv == SchemaTypeOK /\ VersionInv /\ WholeInv /\ PartInv

SchemaInv == CallInv /\ OfOneVersion

\* What a query sees: the version of the cursor around it, or the newest one.
LEMMA SeenFacts ==
  ASSUME CallInv, pc # "idle"
  PROVE  /\ Seen \in Versions /\ began <= Seen /\ Seen <= version
         /\ pc = "columns" \/ (whole /\ rows # {}) => Seen = snapshot
         /\ ~whole /\ pc = "table" => Seen = version
<1>1. version \in Versions /\ snapshot \in Versions /\ began \in Versions
  BY DEF CallInv, SchemaTypeOK
<1>2. None \notin Versions /\ Versions \subseteq Nat
  BY SchemaAssumption DEF Versions
<1>3. began <= snapshot /\ snapshot <= version
  BY DEF CallInv, VersionInv
<1>4. pc = "columns" => cursor = snapshot
  BY DEF CallInv, SchemaTypeOK, WholeInv, PartInv
<1>5. ~whole /\ pc = "table" => rows = {} /\ cursor = None
  BY DEF CallInv, PartInv
<1> QED BY <1>1, <1>2, <1>3, <1>4, <1>5 DEF Seen

LEMMA SchemaInvInit == SchemaInit => SchemaInv
<1> SUFFICES ASSUME SchemaInit PROVE SchemaInv
  OBVIOUS
<1>1. 0 \in Versions
  BY SchemaAssumption DEF Versions
<1>2. SchemaTypeOK
  BY <1>1 DEF SchemaInit, SchemaTypeOK
<1>3. VersionInv /\ WholeInv /\ PartInv
  BY DEF SchemaInit, VersionInv, WholeInv, PartInv
<1>4. OfOneVersion
  BY DEF SchemaInit, OfOneVersion, Answered
<1> QED BY <1>2, <1>3, <1>4 DEF SchemaInv, CallInv

\* A call begins, on the newest version.
LEMMA BeginStep == SchemaInv /\ (schema_info \/ table_info) => SchemaInv'
<1> SUFFICES ASSUME SchemaInv, schema_info \/ table_info PROVE SchemaInv'
  OBVIOUS
<1>1. version \in Versions /\ TablesOf[version] \subseteq Tables /\ version <= version
  BY TablesOfType, SchemaAssumption DEF SchemaInv, CallInv, SchemaTypeOK, Versions
<1>2. version' = version /\ snapshot' = version /\ began' = version /\ pc' # "idle"
      /\ tables' = {} /\ result' = None /\ cursor' = None
  BY DEF schema_info, table_info, Begin
<1>3. CASE schema_info
  <2>1. whole' = TRUE /\ rows' = TablesOf[version] /\ table' = None /\ pc' = "tables"
    BY <1>3 DEF schema_info, Begin
  <2>2. TablesOf[version] \ TablesOf[version] = {}
    OBVIOUS
  <2>3. SchemaTypeOK' /\ VersionInv'
    BY <1>1, <1>2, <2>1 DEF SchemaTypeOK, VersionInv
  <2>4. WholeInv' /\ PartInv'
    BY <1>2, <2>1, <2>2, ExactlyNothing DEF WholeInv, PartInv
  <2> QED BY <1>2, <2>3, <2>4 DEF SchemaInv, CallInv, OfOneVersion, Answered
<1>4. CASE table_info
  <2>1. whole' = FALSE /\ rows' = {} /\ table' \in Tables /\ pc' = "table"
    BY <1>4 DEF table_info, Begin
  <2>2. SchemaTypeOK' /\ VersionInv'
    BY <1>1, <1>2, <2>1 DEF SchemaTypeOK, VersionInv
  <2>3. WholeInv' /\ PartInv'
    BY <1>2, <2>1 DEF WholeInv, PartInv
  <2> QED BY <1>2, <2>2, <2>3 DEF SchemaInv, CallInv, OfOneVersion, Answered
<1> QED BY <1>3, <1>4

\* The cursor of schema_info is past the last row, or on one.
LEMMA NextTableStep == SchemaInv /\ NextTable => SchemaInv'
<1> SUFFICES ASSUME SchemaInv, NextTable PROVE SchemaInv'
  OBVIOUS
<1>1. CallInv /\ SchemaTypeOK /\ VersionInv /\ pc = "tables" /\ whole
  BY DEF SchemaInv, CallInv, PartInv, NextTable, SchemaTypeOK
<1>2. /\ rows \subseteq TablesOf[snapshot] /\ cursor = None
      /\ tables = Exactly(TablesOf[snapshot] \ rows, snapshot)
  BY <1>1 DEF CallInv, WholeInv
<1>3. Seen \in Versions /\ began <= Seen /\ Seen <= version /\ (rows # {} => Seen = snapshot)
  BY <1>1, SeenFacts
<1>4. /\ whole' = whole /\ rows' = rows /\ cursor' = cursor /\ tables' = tables
      /\ snapshot' = Seen /\ version' = version /\ began' = began
  BY DEF NextTable, See
<1>5. CASE rows = {}
  <2>1. pc' = "idle" /\ result' = tables /\ table' = table
    BY <1>5 DEF NextTable, Finish
  <2>2. snapshot \in Versions /\ TablesOf[snapshot] \ {} = TablesOf[snapshot]
    BY <1>1 DEF SchemaTypeOK
  <2>3. result' = Exactly(Tables, snapshot)
    BY <1>2, <1>5, <2>1, <2>2, ExactlyAll
  <2>4. snapshot \in began' .. version'
    BY <1>1, <1>4, <2>2 DEF VersionInv, SchemaTypeOK, Versions
  <2>5. SchemaTypeOK' /\ VersionInv'
    BY <1>1, <1>3, <1>4, <2>1 DEF SchemaTypeOK, VersionInv
  <2>6. WholeInv' /\ PartInv'
    BY <1>1, <1>4, <2>1 DEF WholeInv, PartInv
  <2>7. OfOneVersion'
    BY <1>1, <1>4, <2>3, <2>4 DEF OfOneVersion
  <2> QED BY <2>5, <2>6, <2>7 DEF SchemaInv, CallInv
<1>6. CASE rows # {}
  <2>1. pc' = "table" /\ result' = result /\ table' \in rows
    BY <1>6 DEF NextTable
  <2>2. SchemaTypeOK' /\ VersionInv'
    BY <1>1, <1>3, <1>4, <2>1 DEF SchemaTypeOK, VersionInv
  <2>3. WholeInv' /\ PartInv'
    BY <1>1, <1>2, <1>3, <1>4, <1>6, <2>1 DEF WholeInv, PartInv
  <2> QED BY <2>1, <2>2, <2>3 DEF SchemaInv, CallInv, OfOneVersion, Answered
<1> QED BY <1>5, <1>6

\* table_info asks for its table: one that schema_info asks for is always there.
LEMMA SelectTableStep == SchemaInv /\ SelectTable => SchemaInv'
<1> SUFFICES ASSUME SchemaInv, SelectTable PROVE SchemaInv'
  OBVIOUS
<1>1. CallInv /\ SchemaTypeOK /\ VersionInv /\ WholeInv /\ PartInv /\ pc = "table" /\ table \in Tables
  BY DEF SchemaInv, CallInv, WholeInv, PartInv, SelectTable, SchemaTypeOK
<1>2. /\ Seen \in Versions /\ began <= Seen /\ Seen <= version
      /\ whole => Seen = snapshot /\ table \in rows /\ table \in TablesOf[Seen]
  <2>1. whole => table \in rows /\ rows \subseteq TablesOf[snapshot]
    BY <1>1 DEF WholeInv
  <2> QED BY <1>1, <2>1, SeenFacts
<1>3. /\ whole' = whole /\ table' = table
      /\ snapshot' = Seen /\ version' = version /\ began' = began
  BY DEF SelectTable, See
<1>4. CASE table \in TablesOf[Seen]
  <2>1. pc' = "columns" /\ cursor' = Seen
        /\ rows' = rows /\ tables' = tables /\ result' = result
    BY <1>4 DEF SelectTable
  <2>2. SchemaTypeOK' /\ VersionInv'
    BY <1>1, <1>2, <1>3, <2>1 DEF SchemaTypeOK, VersionInv
  <2>3. WholeInv' /\ PartInv'
    BY <1>1, <1>2, <1>3, <1>4, <2>1 DEF WholeInv, PartInv
  <2> QED BY <2>1, <2>2, <2>3 DEF SchemaInv, CallInv, OfOneVersion, Answered
<1>5. CASE table \notin TablesOf[Seen]
  <2>1. ~whole /\ rows = {} /\ tables = {}
    BY <1>1, <1>2, <1>5 DEF PartInv
  <2>2. pc' = "idle" /\ result' = {} /\ tables' = {} /\ rows' = {} /\ cursor' = None
    BY <1>5, <2>1 DEF SelectTable, Return, NotFound, Finish
  <2>3. SchemaTypeOK' /\ VersionInv'
    BY <1>1, <1>2, <1>3, <2>2 DEF SchemaTypeOK, VersionInv
  <2>4. WholeInv' /\ PartInv'
    BY <2>2 DEF WholeInv, PartInv
  <2>5. Exactly({table}, Seen) = {}
    BY <1>1, <1>2, <1>5, ExactlyAbsent
  <2>6. Seen \in began' .. version'
    BY <1>1, <1>2, <1>3, SchemaAssumption DEF SchemaTypeOK, Versions
  <2>7. OfOneVersion'
    BY <1>3, <2>1, <2>2, <2>5, <2>6 DEF OfOneVersion
  <2> QED BY <2>3, <2>4, <2>7 DEF SchemaInv, CallInv
<1> QED BY <1>4, <1>5

\* column_info reads the version that table_info's cursor is on, which ends with it.
LEMMA ReadColumnsStep == SchemaInv /\ ReadColumns => SchemaInv'
<1> SUFFICES ASSUME SchemaInv, ReadColumns PROVE SchemaInv'
  OBVIOUS
<1>1. CallInv /\ SchemaTypeOK /\ VersionInv /\ WholeInv /\ PartInv /\ pc = "columns"
  BY DEF SchemaInv, CallInv, ReadColumns
<1>2. Seen = snapshot /\ cursor = snapshot /\ table \in TablesOf[snapshot]
  BY <1>1, SeenFacts DEF WholeInv, PartInv, SchemaTypeOK
<1>3. snapshot \in Versions /\ began <= snapshot /\ snapshot <= version /\ table \in Tables
  BY <1>1, <1>2, TablesOfType DEF SchemaTypeOK, VersionInv
<1> DEFINE Found == {TableInfo(table, snapshot, snapshot)}
<1>4. /\ whole' = whole /\ table' = table /\ cursor' = None
      /\ snapshot' = snapshot /\ version' = version /\ began' = began
      /\ tables' = tables \cup Found /\ rows' = rows \ {table}
      /\ IF whole THEN pc' = "tables" /\ result' = result
                  ELSE pc' = "idle" /\ result' = tables'
  BY <1>2 DEF ReadColumns, See, Return, Finish
<1>5. Found \subseteq TableInfos
  BY <1>3 DEF TableInfo, TableInfos
<1> HIDE DEF Found
<1>6. SchemaTypeOK' /\ VersionInv'
  <2>1. tables' \subseteq TableInfos
    BY <1>1, <1>4, <1>5 DEF SchemaTypeOK
  <2> QED BY <1>1, <1>3, <1>4, <2>1 DEF SchemaTypeOK, VersionInv
<1>7. CASE whole
  <2>1. /\ rows \subseteq TablesOf[snapshot] /\ table \in rows
        /\ tables = Exactly(TablesOf[snapshot] \ rows, snapshot)
    BY <1>1, <1>7 DEF WholeInv
  <2>2. tables' = Exactly(TablesOf[snapshot] \ rows', snapshot)
    BY <1>3, <1>4, <2>1, ExactlyNext DEF Found
  <2>3. WholeInv' /\ PartInv'
    BY <1>4, <1>7, <2>1, <2>2 DEF WholeInv, PartInv
  <2> QED BY <1>4, <1>6, <1>7, <2>3 DEF SchemaInv, CallInv, OfOneVersion, Answered
<1>8. CASE ~whole
  <2>1. result' = Exactly({table}, snapshot)
    BY <1>1, <1>2, <1>3, <1>4, <1>8, ExactlyOne DEF PartInv, Found
  <2>2. snapshot \in began' .. version'
    BY <1>1, <1>3, <1>4, SchemaAssumption DEF SchemaTypeOK, Versions
  <2>3. OfOneVersion'
    BY <1>4, <1>8, <2>1, <2>2 DEF OfOneVersion
  <2>4. WholeInv' /\ PartInv'
    BY <1>4, <1>8 DEF WholeInv, PartInv
  <2> QED BY <1>6, <2>3, <2>4 DEF SchemaInv, CallInv
<1> QED BY <1>7, <1>8

LEMMA ThrowStep == SchemaInv /\ Throw => SchemaInv'
<1> SUFFICES ASSUME SchemaInv, Throw PROVE SchemaInv'
  OBVIOUS
<1>1. pc' = "idle" /\ result' = None /\ rows' = {} /\ cursor' = None
      /\ UNCHANGED <<version, snapshot, began, whole, table, tables>>
  BY DEF Throw, Finish
<1>2. SchemaTypeOK' /\ VersionInv'
  BY <1>1 DEF SchemaInv, CallInv, SchemaTypeOK, VersionInv
<1> QED BY <1>1, <1>2 DEF SchemaInv, CallInv, WholeInv, PartInv, OfOneVersion, Answered

\* What other connections commit changes none of it.
LEMMA OtherCommitStep == SchemaInv /\ OtherCommit => SchemaInv'
<1> SUFFICES ASSUME SchemaInv, OtherCommit PROVE SchemaInv'
  OBVIOUS
<1>1. version' = version + 1 /\ version < MaxVersion
      /\ UNCHANGED <<snapshot, pc, whole, rows, cursor, table, tables, result, began>>
  BY DEF OtherCommit
<1>2. version \in Versions /\ snapshot \in Versions /\ began \in Versions /\ MaxVersion \in Nat
  BY SchemaAssumption DEF SchemaInv, CallInv, SchemaTypeOK
<1>3. version' \in Versions /\ began .. version \subseteq began' .. version'
  BY <1>1, <1>2 DEF Versions
<1>4. SchemaTypeOK' /\ VersionInv'
  BY <1>1, <1>2, <1>3 DEF SchemaInv, CallInv, SchemaTypeOK, VersionInv, Versions
<1>5. WholeInv' /\ PartInv'
  BY <1>1 DEF SchemaInv, CallInv, WholeInv, PartInv
<1>6. OfOneVersion'
  BY <1>1, <1>3 DEF SchemaInv, OfOneVersion, Answered, Exactly
<1> QED BY <1>4, <1>5, <1>6 DEF SchemaInv, CallInv

LEMMA SchemaInvHolds == SchemaSpec => []SchemaInv
<1>1. SchemaInv /\ [SchemaNext]_schemaVars => SchemaInv'
  <2> SUFFICES ASSUME SchemaInv, [SchemaNext]_schemaVars PROVE SchemaInv'
    OBVIOUS
  <2>1. CASE SchemaNext
    BY <2>1, BeginStep, NextTableStep, SelectTableStep, ReadColumnsStep, ThrowStep,
       OtherCommitStep DEF SchemaNext
  <2>2. CASE UNCHANGED schemaVars
    BY <2>2 DEF schemaVars, SchemaInv, CallInv, SchemaTypeOK, VersionInv, WholeInv, PartInv, OfOneVersion,
       Answered, Exactly
  <2> QED BY <2>1, <2>2
<1> QED BY <1>1, SchemaInvInit, PTL DEF SchemaSpec

------------------------------------------------------------------------------
\* The variables keep their types, for any tables and history of the schema.
THEOREM SchemaTypeCorrect == SchemaSpec => []SchemaTypeOK
<1>1. SchemaInv => SchemaTypeOK
  BY DEF SchemaInv, CallInv
<1> QED BY <1>1, SchemaInvHolds, PTL

\* What schema_info and table_info return is of one version, for any tables, any number
\* of versions and any changes from one to the next.
THEOREM ReadsAreAtomic == SchemaSpec => []OfOneVersion
<1>1. SchemaInv => OfOneVersion
  BY DEF SchemaInv
<1> QED BY <1>1, SchemaInvHolds, PTL
==============================================================================
