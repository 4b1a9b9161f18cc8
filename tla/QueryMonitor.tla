----------------------------- MODULE QueryMonitor -----------------------------
(***************************************************************************)
(* QueryMonitor (src/sqlite_query/query_monitor.cpp) and the hooks of a Db   *)
(* (src/sqlite/db.cpp), used by two threads without a lock, as Api's         *)
(* m_read_db is: the UI thread creates and destroys monitors, and the        *)
(* background thread commits, which makes SQLite call the hooks.             *)
(*                                                                          *)
(* A hook is a function on the heap that the Db owns; SQLite has a raw       *)
(* pointer to it.  The trampoline loads that pointer, copies the function,   *)
(* and calls the copy; and what the copy captured is a raw `this` of the     *)
(* monitor.  So two things can be gone when they are used: the function, and *)
(* the monitor.                                                             *)
(***************************************************************************)
EXTENDS Naturals, Sequences, SequencesExt

CONSTANTS
  Monitors,
  Listeners,   \* each is added to one monitor, once
  Null         \* no function, no monitor

\* The hooks of a connection, in the order of _install_hooks and ~QueryMonitor.
Slots == 1 .. 4
Update == 1
Commit == 2
Rollback == 3
Wal == 4

\* A function on the heap, named after the monitor and the slot it was made for.
Functions == Monitors \X Slots

ASSUME QueryMonitorAssumption == Null \notin Monitors \cup Functions

VARIABLES
  owned,       \* per slot: what the Db's unique_ptr holds
  registered,  \* per slot: the pointer SQLite has
  heap,        \* the functions that are not freed
  status,      \* per monitor
  ui,          \* the UI thread: which monitor's hooks it is setting or clearing
  listeners,   \* per monitor: m_listeners
  bg,          \* the background thread: how far its commit is
  told,        \* the listeners called for the commit
  due, late,   \* history: the listeners there were when the WAL hook was called,
               \*   and those its listeners added meanwhile
  torn,        \* history: a function was freed between being loaded and copied
  cut          \* history: a monitor was destroyed while its hook was running

dbVars == <<owned, registered, heap>>
commitVars == <<told, due, late>>
vars == <<owned, registered, heap, status, ui, listeners, bg, told, due, late, torn, cut>>

UiIdle == [monitor |-> Null, slot |-> 1, step |-> "swap", old |-> Null]

\* at: "next" is before the call-out of slot; "freed", "dangling" and "threw" are how
\* the program may end.  i and total are the variables of the loop over the listeners.
BgAt(at, slot, fn) == [at |-> at, slot |-> slot, fn |-> fn, i |-> 0, total |-> 0]
BgIdle == BgAt("idle", Update, Null)

TypeOK ==
  /\ {owned, registered} \subseteq [Slots -> Functions \cup {Null}]
  /\ heap \subseteq Functions
  /\ status \in [Monitors -> {"absent", "building", "alive", "dying", "dead"}]
  /\ ui \in [monitor : Monitors \cup {Null}, slot : Slots,
             step : {"swap", "register", "free"}, old : Functions \cup {Null}]
  /\ listeners \in [Monitors -> Seq(Listeners)] /\ told \in Seq(Listeners)
  /\ bg \in [at : {"idle", "next", "loaded", "copied", "telling", "freed", "dangling", "threw"},
             slot : Slots, fn : Functions \cup {Null}, i : Nat, total : Nat]
  /\ due \subseteq Listeners /\ late \subseteq Listeners
  /\ torn \in BOOLEAN /\ cut \in BOOLEAN

Init ==
  /\ owned = [s \in Slots |-> Null] /\ registered = owned /\ heap = {}
  /\ status = [m \in Monitors |-> "absent"]
  /\ ui = UiIdle /\ bg = BgIdle
  /\ listeners = [m \in Monitors |-> <<>>]
  /\ told = <<>> /\ due = {} /\ late = {} /\ torn = FALSE /\ cut = FALSE

Ended == bg.at \in {"freed", "dangling", "threw"}

------------------------------------------------------------------------------
\* The UI thread: QueryMonitor's constructor and destructor, which set one slot after
\* the other, and Db::update_hook, commit_hook, rollback_hook and wal_hook.

Start(m, from, to) ==
  /\ ui = UiIdle /\ ~Ended /\ status[m] = from
  /\ status' = [status EXCEPT ![m] = to]
  /\ ui' = [UiIdle EXCEPT !.monitor = m]
  /\ UNCHANGED <<dbVars, listeners, bg, commitVars, torn, cut>>

Construct(m) == Start(m, "absent", "building")
Destruct(m) == Start(m, "alive", "dying")

\* std::swap: the Db owns the new function, or none, and the caller the old one.
Swap ==
  /\ ui.monitor # Null /\ ui.step = "swap" /\ ~Ended
  /\ LET s == ui.slot
         new == IF status[ui.monitor] = "building" THEN <<ui.monitor, s>> ELSE Null IN
       /\ owned' = [owned EXCEPT ![s] = new]
       /\ heap' = heap \cup ({new} \ {Null})
       /\ ui' = [ui EXCEPT !.step = "register", !.old = owned[s]]
  /\ UNCHANGED <<registered, status, listeners, bg, commitVars, torn, cut>>

\* Mutant of Register: clearing a slot does not tell SQLite.
RegisterUnlessNull ==
  /\ ui.step = "register" /\ ~Ended
  /\ registered' = IF owned[ui.slot] = Null THEN registered
                   ELSE [registered EXCEPT ![ui.slot] = owned[ui.slot]]
  /\ ui' = [ui EXCEPT !.step = "free"]
  /\ UNCHANGED <<owned, heap, status, listeners, bg, commitVars, torn, cut>>

\* sqlite3_..._hook
Register ==
  /\ ui.step = "register" /\ ~Ended
  /\ registered' = [registered EXCEPT ![ui.slot] = owned[ui.slot]]
  /\ ui' = [ui EXCEPT !.step = "free"]
  /\ UNCHANGED <<owned, heap, status, listeners, bg, commitVars, torn, cut>>

\* Mutant of LastSlot: the destructor leaves the WAL hook alone.
LastSlotForgotten(m) == IF status[m] = "building" THEN Wal ELSE Rollback

LastSlot(m) == Wal

\* The background thread is inside a hook of m.
Inside(m) == bg.at \in {"copied", "telling"} /\ bg.fn[1] = m

\* The old function goes out of scope; after the last slot the constructor or the
\* destructor returns.
Free ==
  /\ ui.step = "free" /\ ~Ended
  /\ heap' = heap \ {ui.old}
  /\ torn' = (torn \/ (bg.at = "loaded" /\ bg.fn = ui.old))
  /\ LET m == ui.monitor IN
       IF ui.slot < LastSlot(m)
         THEN /\ ui' = [ui EXCEPT !.slot = @ + 1, !.step = "swap", !.old = Null]
              /\ UNCHANGED <<status, cut>>
         ELSE /\ ui' = UiIdle
              /\ status' = [status EXCEPT ![m] = IF @ = "building" THEN "alive" ELSE "dead"]
              /\ cut' = (cut \/ (status[m] = "dying" /\ Inside(m)))
  /\ UNCHANGED <<owned, registered, listeners, bg, commitVars>>

New(l) == \A m \in Monitors : ~Contains(listeners[m], l)

listen_to_changes(m, l) ==
  /\ ui = UiIdle /\ ~Ended /\ status[m] = "alive" /\ New(l)
  /\ listeners' = [listeners EXCEPT ![m] = Append(@, l)]
  /\ UNCHANGED <<dbVars, status, ui, bg, commitVars, torn, cut>>

------------------------------------------------------------------------------
\* The background thread: a commit, and the hooks it makes SQLite call.

Bg(b) == bg' = b /\ UNCHANGED <<dbVars, status, ui, torn, cut>>

BeginCommit ==
  /\ bg = BgIdle
  /\ Bg(BgAt("next", Update, Null))
  /\ told' = <<>> /\ due' = {} /\ late' = {}
  /\ UNCHANGED listeners

\* The commit goes through after the commit hook, or it fails and is rolled back.
After(slot) ==
  IF slot = Update THEN {BgAt("next", Commit, Null)}
  ELSE IF slot = Commit THEN {BgAt("next", Wal, Null), BgAt("next", Rollback, Null)}
  ELSE {BgIdle}

\* The trampoline has the pointer SQLite gave it.
Load ==
  /\ bg.at = "next"
  /\ IF registered[bg.slot] = Null
       THEN \E b \in After(bg.slot) : Bg(b)
       ELSE Bg(BgAt("loaded", bg.slot, registered[bg.slot]))
  /\ UNCHANGED <<listeners, commitVars>>

Copy ==
  /\ bg.at = "loaded"
  /\ Bg([bg EXCEPT !.at = IF bg.fn \in heap THEN "copied" ELSE "freed"])
  /\ due' = IF bg.slot = Wal THEN ToSet(listeners[bg.fn[1]]) ELSE due
  /\ UNCHANGED <<listeners, told, late>>

\* Mutant of CopyLasts: the function is called where it is, not copied.
InPlaceLasts == bg.fn \in heap

CopyLasts == TRUE

\* The monitor's other hooks do nothing.
OtherHook ==
  /\ bg.at = "copied" /\ bg.slot # Wal
  /\ IF CopyLasts THEN \E b \in After(bg.slot) : Bg(b) ELSE Bg([bg EXCEPT !.at = "freed"])
  /\ UNCHANGED <<listeners, commitVars>>

\* _on_wal_commit uses the monitor: m_write_db, then m_listeners.
Uses(b) ==
  Bg(IF ~CopyLasts THEN [bg EXCEPT !.at = "freed"]
     ELSE IF status[bg.fn[1]] = "dead" THEN [bg EXCEPT !.at = "dangling"]
     ELSE b)

WalHook ==
  /\ bg.at = "copied" /\ bg.slot = Wal
  /\ Uses([bg EXCEPT !.at = "telling", !.i = 1, !.total = Len(listeners[bg.fn[1]])])
  /\ UNCHANGED <<listeners, commitVars>>

\* More than a thousand pages: wal_checkpoint_v2 throws if another process is at it.
CheckpointThrows ==
  /\ bg.at = "copied" /\ bg.slot = Wal
  /\ Uses([bg EXCEPT !.at = "threw"])
  /\ UNCHANGED <<listeners, commitVars>>

\* Mutant of Total: the size is read again in every round.
TotalNow == Len(listeners[bg.fn[1]])

Total == bg.total

\* A listener is called.  It may add one.
Tell ==
  /\ bg.at = "telling" /\ bg.i <= Total
  /\ LET m == bg.fn[1] IN
       /\ Uses([bg EXCEPT !.i = @ + 1])
       /\ told' = Append(told, listeners[m][bg.i])
       /\ \/ UNCHANGED <<listeners, late>>
          \/ \E l \in Listeners :
               /\ New(l)
               /\ listeners' = [listeners EXCEPT ![m] = Append(@, l)]
               /\ late' = late \cup {l}
  /\ UNCHANGED due

WalReturns ==
  /\ bg.at = "telling" /\ bg.i > Total
  /\ Bg(BgIdle)
  /\ UNCHANGED <<listeners, commitVars>>

\* What follows is undefined, or std::terminate.
Over == Ended /\ UNCHANGED vars

Next ==
  \/ \E m \in Monitors : \/ Construct(m) \/ Destruct(m)
                         \/ \E l \in Listeners : listen_to_changes(m, l)
  \/ Swap \/ Register \/ Free
  \/ BeginCommit \/ Load \/ Copy \/ OtherHook
  \/ WalHook \/ CheckpointThrows \/ Tell \/ WalReturns
  \/ Over

Spec == Init /\ [][Next]_vars

------------------------------------------------------------------------------
\* Properties.

\* SQLite never has a pointer to a freed function, not even halfway through setting a hook:
\* the old function is freed after SQLite has the new one.
RegisteredIsLive == \A s \in Slots : registered[s] \in heap \cup {Null}

\* Between the UI thread's calls the four hooks belong to one living monitor, or there are
\* none; so a commit made between those calls is told to one monitor entirely, although
\* monitors take the hooks from each other and a destructor clears the hooks of whoever has
\* them.  (A commit that spans a construction may call the hooks of two.)
HooksOfOneMonitor ==
  ui = UiIdle =>
    \/ \A s \in Slots : registered[s] = Null
    \/ \E m \in Monitors : status[m] = "alive" /\ \A s \in Slots : registered[s] = <<m, s>>

\* Because the function is copied before it is called, replacing it while it runs is safe:
\* it is gone only if it was freed in the instant between loading and copying it.  And the
\* monitor is gone only if it was destroyed while its hook ran: once ~QueryMonitor has
\* returned, no later commit calls it.
GoneOnlyMidway == (bg.at = "freed" => torn) /\ (bg.at = "dangling" => cut)

\* Every listener there was when the WAL hook was called is told of the commit, once; one
\* that a listener adds meanwhile is not.
ToldOnce ==
  [][WalReturns => /\ due \subseteq ToSet(told) /\ late \cap ToSet(told) = {}
                   /\ IsInjective(told)]_vars
==============================================================================
