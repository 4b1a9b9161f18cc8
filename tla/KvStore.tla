------------------------------- MODULE KvStore -------------------------------
(***************************************************************************)
(* SqliteStore (src/db/sqlite_store.cpp) and the constructor of Api that    *)
(* counts launches with it (src/api.cpp): several instances of the          *)
(* application on one file, kv.sqlite.                                      *)
(*                                                                          *)
(* The file is in rollback journal mode and nobody sets a busy timeout, so  *)
(* a conflicting lock fails a statement at once.  BEGIN takes no lock.  A   *)
(* SELECT holds a shared lock while its cursor is on a row; UPDATE takes    *)
(* the reserved lock, also when it finds no row; COMMIT needs everybody     *)
(* else's locks gone, and one that fails leaves a pending lock, which keeps *)
(* out new readers too, and its guard leaves the transaction open (see      *)
(* Transaction).  Closing a connection, or a crash, undoes its transaction. *)
(*                                                                          *)
(* Each action is one statement; BEGIN goes with the statement after it.    *)
(* The errors of a full or broken disk are left out.                        *)
(***************************************************************************)
EXTENDS Integers, Sequences

CONSTANTS
  Apps,         \* the running instances
  Usernames,
  Null,         \* the value of a missing key
  NoRequest,
  MaxLaunches   \* bound on the number of launches

Keys == {"launch_number", "username"}
Values == Usernames \cup Nat

Request == [op : {"get", "set"}, key : Keys, value : Values \cup {Null},
            state : {"asked", "reading", "missing", "written", "done", "refused"}]

ASSUME KvStoreAssumption ==
  /\ MaxLaunches \in Nat /\ NoRequest \notin Request /\ Usernames \cap Int = {}
  /\ Null \notin Values /\ Null \notin [Keys -> Values \cup {Null}]

VARIABLES
  created,   \* the file has the table `kv`
  kv,        \* its committed rows: per key, their values
  work,      \* the rows as the open write transaction sees them
  lock,      \* per app: what its connection holds
  stale,     \* per app: statements whose last step failed, reported by reset()
  pc,        \* per app: how far it is with starting
  launch,    \* per app: the constructor's local variable
  request,   \* per app: its call of the store
  launches,  \* how many launches there were (bound)
  counted,   \* history: how many launches were counted
  raced      \* history: one was counted while another was being counted

rowVars == <<created, kv>>
historyVars == <<launches, counted, raced>>
vars == <<created, kv, work, lock, stale, pc, launch, request, launches, counted, raced>>

TypeOK ==
  /\ created \in BOOLEAN /\ raced \in BOOLEAN
  /\ kv \in [Keys -> Seq(Values)] /\ work \in [Keys -> Seq(Values)]
  /\ lock \in [Apps -> {"none", "shared", "reserved", "pending"}]
  /\ stale \in [Apps -> SUBSET {"select", "update"}]
  /\ pc \in [Apps -> {"off", "setup", "start", "counting", "up"}]
  /\ launch \in [Apps -> Nat]
  /\ request \in [Apps -> Request \cup {NoRequest}]
  /\ launches \in 0 .. MaxLaunches /\ counted \in Nat

Init ==
  /\ created = FALSE
  /\ kv = [k \in Keys |-> <<>>] /\ work = kv
  /\ lock = [a \in Apps |-> "none"]
  /\ stale = [a \in Apps |-> {}]
  /\ pc = [a \in Apps |-> "off"]
  /\ launch = [a \in Apps |-> 0]
  /\ request = [a \in Apps |-> NoRequest]
  /\ launches = 0 /\ counted = 0 /\ raced = FALSE

------------------------------------------------------------------------------
\* The locks of the file

Others(a) == Apps \ {a}
Writing(a) == lock[a] \in {"reserved", "pending"}

CanRead(a) == \A b \in Others(a) : lock[b] # "pending"
CanWrite(a) == \A b \in Others(a) : ~Writing(b)
CanCommit(a) == \A b \in Others(a) : lock[b] = "none"

Hold(a, l) == lock' = [lock EXCEPT ![a] = l]

Forget(a) ==
  /\ stale' = [stale EXCEPT ![a] = {}]
  /\ pc' = [pc EXCEPT ![a] = "off"]
  /\ launch' = [launch EXCEPT ![a] = 0]
  /\ request' = [request EXCEPT ![a] = NoRequest]
  /\ Hold(a, "none")

\* Mutant of Close: the transaction left open is committed on the way out.
CloseCommits(a) ==
  /\ kv' = IF Writing(a) THEN work ELSE kv
  /\ Forget(a)
  /\ UNCHANGED <<created, work, historyVars>>

\* The connection goes away, and with it whatever it had not committed.
Close(a) ==
  /\ work' = IF Writing(a) THEN kv ELSE work
  /\ Forget(a)
  /\ UNCHANGED <<rowVars, historyVars>>

------------------------------------------------------------------------------
\* s_setup_db: CREATE TABLE IF NOT EXISTS in a transaction.  A launch that a lock
\* stops at once changes nothing, and has no action.

Launch(a) ==
  /\ pc[a] = "off" /\ launches < MaxLaunches
  /\ IF created THEN CanRead(a) /\ Hold(a, "shared")
                ELSE CanWrite(a) /\ Hold(a, "reserved")
  /\ pc' = [pc EXCEPT ![a] = "setup"]
  /\ launches' = launches + 1
  /\ UNCHANGED <<rowVars, work, stale, launch, request, counted, raced>>

\* While the table is being created, there is nothing for another instance to read.
SetupCommits(a) ==
  /\ pc[a] = "setup" /\ (lock[a] = "reserved" => CanCommit(a))
  /\ created' = TRUE
  /\ Hold(a, "none")
  /\ pc' = [pc EXCEPT ![a] = "start"]
  /\ UNCHANGED <<kv, work, stale, launch, request, historyVars>>

------------------------------------------------------------------------------
\* The calls Api makes.

\* A reader that has its row, and a writer that has not committed, seen from the map.
Mapped(r) ==
  IF r = NoRequest THEN NoRequest
  ELSE IF r.state = "reading" THEN [r EXCEPT !.state = "done"]
  ELSE IF r.state \in {"missing", "written"} THEN [r EXCEPT !.state = "asked"]
  ELSE r

\* The map that rows stand for.
MapOf(rows) == [k \in Keys |-> IF rows[k] = <<>> THEN Null ELSE Head(rows[k])]

mapSeen == MapOf(kv)
requestSeen == [a \in Apps |-> Mapped(request[a])]
limboSeen == [a \in Apps |-> IF lock[a] = "pending" THEN MapOf(work) ELSE Null]

Map == INSTANCE KvMap WITH
  Clients <- Apps, map <- mapSeen, request <- requestSeen, limbo <- limboSeen

\* The constructor reads the launch number, then sets it; after that the user's calls.
Calls(a) ==
  IF pc[a] = "start" THEN {Map!Get("launch_number")}
  ELSE IF pc[a] = "counting" THEN {Map!Set("launch_number", launch[a])}
  ELSE IF pc[a] = "up"
    THEN {Map!Get("username")} \cup {Map!Set("username", u) : u \in Usernames}
  ELSE {}

Call(a) ==
  /\ request[a] = NoRequest
  /\ \E r \in Calls(a) : request' = [request EXCEPT ![a] = r]
  /\ UNCHANGED <<rowVars, work, lock, stale, pc, launch, historyVars>>

At(a, op, state) ==
  request[a] # NoRequest /\ request[a].op = op /\ request[a].state = state

Become(a, state) == request' = [request EXCEPT ![a].state = state]

------------------------------------------------------------------------------
\* SqliteStore::get

Seen(a) == IF Writing(a) THEN work[request[a].key] ELSE kv[request[a].key]

\* The cursor stays on the first row; without one SQLite lets go at once.
Select(a) ==
  /\ At(a, "get", "asked") /\ "select" \notin stale[a] /\ CanRead(a)
  /\ LET rows == Seen(a) IN
       IF rows = <<>>
         THEN Become(a, "done") /\ UNCHANGED lock
         ELSE /\ request' = [request EXCEPT ![a].state = "reading", ![a].value = Head(rows)]
              /\ Hold(a, IF Writing(a) THEN lock[a] ELSE "shared")
  /\ UNCHANGED <<rowVars, work, stale, pc, launch, historyVars>>

\* Either the SELECT meets a lock, or reset() reports that an earlier one did.
SelectFails(a) ==
  /\ At(a, "get", "asked")
  /\ \/ "select" \in stale[a] /\ stale' = [stale EXCEPT ![a] = @ \ {"select"}]
     \/ /\ "select" \notin stale[a] /\ ~CanRead(a)
        /\ stale' = [stale EXCEPT ![a] = @ \cup {"select"}]
  /\ Become(a, "refused")
  /\ UNCHANGED <<rowVars, work, lock, pc, launch, historyVars>>

\* Mutant of CursorDestroyed: the SELECT is not reset.
CursorForgotten(a) ==
  /\ At(a, "get", "reading")
  /\ Become(a, "done")
  /\ UNCHANGED <<rowVars, work, lock, stale, pc, launch, historyVars>>

CursorDestroyed(a) ==
  /\ At(a, "get", "reading")
  /\ Become(a, "done")
  /\ Hold(a, IF Writing(a) THEN lock[a] ELSE "none")
  /\ UNCHANGED <<rowVars, work, stale, pc, launch, historyVars>>

------------------------------------------------------------------------------
\* SqliteStore::set

\* Mutant of Update: no transaction around it, so the lock lasts only if it found a row.
UpdateUnguarded(a) ==
  /\ At(a, "set", "asked") /\ ~Writing(a) /\ "update" \notin stale[a] /\ CanWrite(a)
  /\ LET k == request[a].key IN
       /\ work' = [work EXCEPT ![k] = [i \in DOMAIN @ |-> request[a].value]]
       /\ Become(a, IF work[k] = <<>> THEN "missing" ELSE "written")
       /\ Hold(a, IF work[k] = <<>> THEN "none" ELSE "reserved")
  /\ UNCHANGED <<rowVars, stale, pc, launch, historyVars>>

Update(a) ==
  /\ At(a, "set", "asked") /\ ~Writing(a) /\ "update" \notin stale[a] /\ CanWrite(a)
  /\ Hold(a, "reserved")
  /\ LET k == request[a].key IN
       /\ work' = [work EXCEPT ![k] = [i \in DOMAIN @ |-> request[a].value]]
       /\ Become(a, IF work[k] = <<>> THEN "missing" ELSE "written")
  /\ UNCHANGED <<rowVars, stale, pc, launch, historyVars>>

\* BEGIN fails inside a transaction, UPDATE under a lock, and reset() after either.
\* The guard, where there is one, rolls back: the SHARED lock that a refused UPDATE keeps
\* until then is not modelled, as a cursor's refuses another's COMMIT just the same.
UpdateFails(a) ==
  /\ At(a, "set", "asked")
  /\ \/ Writing(a) /\ UNCHANGED stale
     \/ ~Writing(a) /\ "update" \in stale[a] /\ stale' = [stale EXCEPT ![a] = @ \ {"update"}]
     \/ /\ ~Writing(a) /\ "update" \notin stale[a] /\ ~CanWrite(a)
        /\ stale' = [stale EXCEPT ![a] = @ \cup {"update"}]
  /\ Become(a, "refused")
  /\ UNCHANGED <<rowVars, work, lock, pc, launch, historyVars>>

Insert(a) ==
  /\ At(a, "set", "missing")
  /\ work' = [work EXCEPT ![request[a].key] = Append(@, request[a].value)]
  /\ Become(a, "written")
  /\ UNCHANGED <<rowVars, lock, stale, pc, launch, historyVars>>

\* b has read the launch number and not yet set it.
Counting(b) ==
  \/ pc[b] = "counting"
  \/ pc[b] = "start" /\ request[b] # NoRequest /\ request[b].state \in {"reading", "done"}

Counts(a) == request[a].key = "launch_number"

Commit(a) ==
  /\ At(a, "set", "written") /\ CanCommit(a)
  /\ kv' = work
  /\ Hold(a, "none")
  /\ Become(a, "done")
  /\ counted' = IF Counts(a) THEN counted + 1 ELSE counted
  /\ raced' = (raced \/ (Counts(a) /\ \E b \in Others(a) : Counting(b)))
  /\ UNCHANGED <<created, work, stale, pc, launch, launches>>

\* A reader is in the way.  The guard is in state COMMIT and does not roll back.
CommitFails(a) ==
  /\ At(a, "set", "written") /\ ~CanCommit(a)
  /\ Hold(a, "pending")
  /\ Become(a, "refused")
  /\ UNCHANGED <<rowVars, work, stale, pc, launch, historyVars>>

------------------------------------------------------------------------------
\* What Api makes of the answer.

\* Mutant of Next1: the number is stored as it was read.
SameNumber(v) == IF v = Null THEN 0 ELSE v
Next1(v) == IF v = Null THEN 0 ELSE v + 1

Return(a) ==
  /\ request[a] # NoRequest
  /\ request[a].state = "done" \/ (request[a].state = "refused" /\ pc[a] = "up")
  /\ request' = [request EXCEPT ![a] = NoRequest]
  /\ launch' = [launch EXCEPT ![a] = IF pc[a] = "start" THEN Next1(request[a].value) ELSE 0]
  /\ pc' = [pc EXCEPT ![a] = IF @ = "start" THEN "counting" ELSE "up"]
  /\ UNCHANGED <<rowVars, work, lock, stale, historyVars>>

\* The constructor throws: the store is destroyed with it.
LaunchFails(a) ==
  /\ request[a] # NoRequest /\ request[a].state = "refused" /\ pc[a] # "up"
  /\ Close(a)

\* A crash, or the end of the application.
Crash(a) == pc[a] # "off" /\ Close(a)

\* All launches are used up.
Terminated == launches = MaxLaunches /\ (\A a \in Apps : pc[a] = "off") /\ UNCHANGED vars

Next ==
  \/ \E a \in Apps :
       \/ Launch(a) \/ SetupCommits(a) \/ LaunchFails(a) \/ Crash(a)
       \/ Call(a) \/ Return(a)
       \/ Select(a) \/ SelectFails(a) \/ CursorDestroyed(a)
       \/ Update(a) \/ UpdateFails(a) \/ Insert(a) \/ Commit(a) \/ CommitFails(a)
  \/ Terminated

Spec == Init /\ [][Next]_vars

------------------------------------------------------------------------------
\* Properties.

\* No key ever has two rows, although the table has no unique index and set() inserts
\* when its UPDATE found none: the UPDATE keeps out every other writer even so.
OneRowPerKey == \A k \in Keys : Len(kv[k]) <= 1

\* Whatever the locks, the stale errors and the crashes, a set() that returned took effect
\* once, and one that threw has no effect that survives (see KvMap for what it may see).
ImplementsMap == Map!Spec

\* The launch number is the number of launches counted so far, less one, unless two
\* instances were between reading and setting it at the same time.
LaunchesCounted ==
  ~raced => counted = (IF kv["launch_number"] = <<>> THEN 0 ELSE kv["launch_number"][1] + 1)

\* Between its calls an application keeps nobody out, unless its COMMIT was refused.
IdleHoldsNoLock ==
  \A a \in Apps : request[a] = NoRequest /\ pc[a] # "setup" => lock[a] \in {"none", "pending"}
==============================================================================
