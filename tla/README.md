# mx3 in TLA+

mx3 is a C++ core shared by an iOS, an Android and a Linux application: a
SQLite wrapper, a background thread, an HTTP client for the GitHub API, and a view
model of a list of users. These modules model the parts of `src/` where order,
concurrency and failure decide whether the code is right, check them with TLC on
small instances, and prove the most important facts with TLAPS for every instance.
Paths below are relative to the repository.

## The system

| Component | State | Operations | Interacts with |
|---|---|---|---|
| `EventLoopCpp` (`src/event_loop.cpp`) | task queue, `m_stop`, `m_done`, two mutexes, two condition variables | `post`, `_run_loop`, destructor | every background task: HTTP answers, deletes |
| `calculate_diff` (`src/sqlite_query/query_diff.*`) | two positions, three lists of changes | the merge, the assembly | the user list |
| `TransactionStmts`, `TransactionGuard` (`src/sqlite/transaction.*`) over `Stmt` (`src/sqlite/stmt.cpp`) | `m_state`, the statements' last result | construct, `commit`, `rollback`, destroy | whoever writes; `ObservableDb` for its snapshots |
| `ObservableDb` (`src/sqlite_query/observable_db.cpp`) | `m_changes`, the old snapshot | update, commit, rollback and WAL hooks | SQLite calls it, it calls a listener |
| `UserListVmHandle`, `UserListVm` (`src/ui_interface/user_list_vm.cpp`) | `m_observer`, `m_prev_rows`, the rows of a view model | `start`, `delete_row`, `_notify_new_data` | everything below |
| `QueryMonitor` (`src/sqlite_query/query_monitor.cpp`) | `m_listeners`, the hooks of one `Db` | construct, `listen_to_changes`, notify, destroy | SQLite calls it; it calls the handle |
| `Http`, `github::get_users` | requests in flight | `get`, the answers | the platform's client, the background thread |
| `Api` (`src/api.cpp`) | databases, the two threads, the store | create, `observer_user_list`, launch number | all of the above |
| `Stmt`, `Cursor` (`src/sqlite/stmt.cpp`, `cursor.cpp`) | bindings, rows | `exec`, `exec_query`, `reset`, `next` | SQLite |
| `Db` (`src/sqlite/db.cpp`) | the hook functions, the connection | set a hook, `schema_info`, checkpoint | SQLite; every user of the file |
| `SqliteStore` (`src/db/sqlite_store.cpp`) | the table `kv` | set up, `get`, `set` | `Api`; other instances on the same file |
| `Value` | a tagged value | `==`, `<` | statements, `ObservableDb` |
| `Semaphore`, `Backup` | a counter; one `sqlite3_backup` | wait, notify; step, finish | tests; nobody |
| platform bindings, examples, interface files, vendored code | - | - | - |

Three threads meet in it: the UI thread, the background thread, which is the loop's,
and the network's. A background task writes to the database; SQLite calls hooks on the
same thread, inside the commit; the hooks read the database and post to the UI thread.

What is hard in it: the wakeups and the destruction of the loop; errors in the middle of
a transaction, from statements that remember their last error; hooks that come in
pairs, or do not; a WAL hook that reads after the write lock is released; lists that
are kept right by applying a chain of relative changes; objects that are released by
one thread while another is about to call them; several instances of the application that
read and write one file, each statement on its own. `PROJECT.json` lists these hazards one
by one, each at its line, with the properties that speak about it.

## The modules

`TaskRunner` is the abstract specification of a `SingleThreadTaskRunner`: accepted tasks
run one at a time, once, in order; closing waits for the running task, and drops the others.

`EventLoop` is `EventLoopCpp`. Each critical section is one action; both `notify_one`
calls, which come after the unlock, are actions of their own, and so is what a task does.
Condition variables lose notifications nobody waits for, and wake up spuriously. The
holders of a `shared_ptr` to the loop are modelled, because whoever drops the last one
runs the destructor: a client thread, or the loop thread, when the closure of a task
(`Owning`) held it. `ImplementsRunner` is the refinement of `TaskRunner`, with `submitted
<- posted`, `current <- task`, `closed <- ~alive`.

`Sorting` is what `std::sort` and ORDER BY leave in place of a set without ties, as a definition the
provers can work with.

`ListDiff` has the changes between two lists, `Replay`, which is an observer that applies them one after
the other, as `query_diff.hpp:22` says it may ("could be applied incrementally"), and `EntityDiff`, the exact
difference of two lists of users, as an operator: `Gone` deleted from the back, `Came` inserted from the front, `Differ` updated. `QueryDiff` is `calculate_diff`, one iteration of the merge per
step, with the caller's `is_same_entity`, `less_than` and `should_suppress_update` as
relations on rows. `QueryDiff` establishes that the code computes `EntityDiff` for lists of
users (`ChangesAreExact`), and `UserList` uses the operator.

`Transaction` is the guard over the four reused statements of one connection. `stale` holds
the statements whose last step failed: `Stmt::exec` resets first, `sqlite3_reset`
reports the old error again, and `reset` throws it. Locks of another connection, rollbacks SQLite does by itself,
nested guards and exceptions that unwind live guards are all included. So are the ways in which
`begin_read()` throws after its BEGIN (`transaction.cpp:14`), when there is no object yet whose destructor could roll back:
an empty `sqlite_master` (`ReadEmpty`), a file that another connection has locked exclusively or the error the
last SELECT has left (`ReadFails`), and any other error of the SELECT (`ReadFault`), after which the transaction
is still open or not: the vendored SQLite (`sqlite3VdbeHalt`) rolls back when the file cannot be read or memory is
short, and does not when what it reads is damaged. `failures` is history: which kinds of failure there
were since a BEGIN last worked. It lets a property say after which failures, and only after those, something
goes wrong, without an old failure excusing a later transaction.

`ObservableDb` is the four hooks. A row is a pair of a table and a rowid. `work` is
what the open transaction sees, `db` the committed rows, `m_read_snapshot` what the
commit hook's read transaction sees. `touched`, `before`, `after` and `unpaired` are history. Changes
that a failing statement undoes, changes SQLite does not report, empty and failing commits,
commits of other processes and a checkpoint that throws are included. That `begin_read()` would also throw if the read
connection saw no table is not: the tables are made before the hooks are set (`sqlite_query.gtest.cpp:77`). The columns of a row, the primary keys the
listener may ask for and the values bound to them are not: a row is one value.

`UserList` composes the rest: the UI thread, the network, the background queue, the hooks of
the shared connection, any number of handles, their view models and their observers. The table starts as an earlier launch may
have left it (`Stored`). The background thread is taken as `TaskRunner`
promises it: one task at a time, in order. A commit and the call of the hook are two steps, with
the UI thread in between. So are the two halves of a handle's destruction, which the UI thread or the background thread may
run: first its rows, observer and statement (`dying`), then its monitor, which clears the hooks. `crashed` marks
the call of a handle that is being or has been destroyed, that of a null observer, and the reading of an empty cell. `started`
is history: which handle was given which observer. Properties use it to say which lists they are about: `OwnHandles(o)`, the
handles of `o` had no other observer; `OnlyHandle(h)`, no other handle was ever made; `OnlyList`, both.
`m_observer`, and the hooks of a connection, are replaced in one step, although the code does it
without a lock: what a torn write would do is not modelled.

`Statement` is one `sqlite3_stmt` and the `Cursor` objects that share it. `stmt` is where
SQLite stands; `cursor` has what each cursor believes (`valid`) and, as history, what it was
opened on and has read, and whether anybody else has used the statement since (`sound`). SQLite
resets by itself a statement that is stepped again after its end (`sqlite3Step` in the vendored
version): that is what makes a second cursor silently start over, and why the properties
speak of sound cursors. Every caller in `src/` destroys its cursor before the next execution.
`next()` is called on valid cursors only, as all of them do. A row is
its version, bound value and position: `column_name`, `value_map` and the typed getters are views of it.

`SqlValue` is the equality and the order of values. Doubles are counted in halves, so that
there is one between any two integers; `Exact` stands for 2^53 and may be small.
`FirstChange` is `detail::allow_first_change` with `get_pk_pos` and `extract_primary_key`, one change
per step, over `SqlValue`; `std::set` is a set of keys of which no two tie.

`KvMap` is the abstract specification of the store: a call of `get` or `set` takes effect in one step
between being made and returning, or is refused and takes no effect. Its one weakness is the
code's: a client whose COMMIT was refused is left in its transaction (`limbo`), in which it sees its own value
that nobody else ever will, and keeps everybody from setting anything until it quits.

`KvStore` is `SqliteStore` and the part of `Api`'s constructor that counts launches, in several
instances of the application on one file. An action is one statement; the file's locks
are `lock`, one per connection, and `stale` the statements that will report an old error, as in
`Transaction`. `ImplementsMap` is the refinement: `mapSeen` takes the first row of each key, `requestSeen`
has a reader done when it has its row and a writer asking until it has committed, and
`limboSeen` is the open transaction of a connection whose COMMIT was refused. The SHARED lock that a refused UPDATE leaves
its transaction until the guard's ROLLBACK is within that one action (`UpdateFails`). A crash, and a constructor
that throws, close the connection wherever it is.

`QueryMonitor` is the monitor and the four hooks of a `Db`, with the functions on the heap: `owned` is what
the `unique_ptr` of each slot holds, `registered` the raw pointer SQLite has, `heap` the functions that
still exist. The UI thread sets or clears one slot after the other, in three steps each: swap, register, free. The background
thread's commit calls one slot after the other: load the pointer, copy the function, call the copy. The two
interleave without a lock, as `m_read_db` is used. `freed`, `dangling` and `threw` are the ways in
which the program may end; `torn` and `cut` are history, and say whether the other thread was in the
way. Listeners may add listeners while they are called. In `UserList`, what a monitor calls is what counts, and its
hooks are replaced in one step.

`Schema` is `Db::schema_info`: within one read transaction it lists the tables, and then prepares a pragma
per table, while other connections commit new versions of the schema.

The modules whose names end in `Proofs` hold theorems: `SqliteProofs` those about `Transaction` and
`Statement`, `DbProofs` those about `QueryMonitor` and `Schema`, `ObservableDbProofs` those about `ObservableDb`,
`FirstChange` and `SqlValue`, `ListDiffProofs` the facts about sorting and replaying which `QueryDiffProofs`,
`UserListProofs` and `ObservableDbProofs` rest on; each of the others, those of the module it is named after. The modules
ending in `MC` give TLC its sets. A definition that begins with "Mutant of" changes the
definition after it the way a plausible mistake would: put in its place, it
makes TLC report the property it is meant for. No specification uses one.

## The runs

| Run | Shows |
|---|---|
| `EventLoop_tasks` | Four tasks, two clients, one task that keeps the loop alive. `NoLostWakeup`: the thread sleeps with work, or with a stop flag, only while somebody is about to notify it. `DtorWaitsForTask`. `ImplementsRunner`. Under fairness `EventuallyRuns`, and `DtorReturns` on any thread but the loop's. |
| `EventLoop_destroy` | Finding: the loop thread notifies `m_done_cv` after the destructor may have returned. |
| `QueryDiff_lists` | `ReplayGivesNewList`, `ConsistentlyOrdered`, `RowsAccountedFor`, `ChangesAreExact`, `Terminates`, for all pairs of lists of the instance. |
| `Transaction_guards` | `DroppedNeverDurable` and `CommitMeansDurable`, whatever fails; and `DestructorNeverThrows`, `NoTransactionLeftOpen`, `CreationBegins`: the failures, since a BEGIN last worked, after which alone a guard ends the process, leaves a transaction behind, or cannot be created. |
| `Transaction_commit_busy` | Finding: a COMMIT that fails is not rolled back. |
| `ObservableDb_hooks` | `ReportExplainsCommit`: what the listener is told leads from the rows before the commit to those after it. `OldRowsPrecedeCommit`. `OnlyThisTransaction`: at most one change per row, and none of a transaction that was rolled back. `SnapshotReleased`. |
| `UserList_sync` | Two handles and two observers. `ShownIsViewModel`: the diffs apply to what the screen shows if its handles have had no other observer, and a null observer is called only if another handle was started. `ListIsCurrent`: at rest the only list is the table. Under fairness `DeleteAnswered` and `ListIsFilled`, for the only list. |
| `Statement_cursors` | `ReadsOneSnapshot`: what a cursor nobody disturbs reads is the result of one version. `ValidityIsTrue`: such a cursor is valid on a row, and invalid after the last. `NothingLeftBehind`: what may outlive a cursor. Under fairness `AllRowsReturns`. |
| `FirstChange_keys` | `KeepsTheFirstOfEachKey`: the set that goes by `<` agrees with `==`. |
| `KvStore_instances` | `OneRowPerKey`, although the table has no unique index. `LaunchesCounted`: a launch is lost only if two instances count at the same time. `IdleHoldsNoLock`. `ImplementsMap`. |
| `QueryMonitor_hooks` | `RegisteredIsLive`, `HooksOfOneMonitor`, `ToldOnce`; and `GoneOnlyMidway`: the two windows, and no other, in which a function or a monitor is gone when it is used. |
| `Schema_reads` | `OfOneVersion`: the schema that is returned is that of one version of the file. |

The type invariant of every module has been model-checked, and is a theorem; three runs still check it.

More disagreements show in the models without a run of their own:

- `~EventLoopCpp` (`event_loop.cpp:27`) waits for the loop to end; when a closure holds the last reference,
  it is the loop thread that runs it, which then waits for itself. `DtorReturns` speaks of the other
  threads.
- A transaction that changes nothing runs the commit hook but not the WAL hook; the commit hook of the
  next one finds the snapshot of the first still open and throws. `SnapshotReleased` names it (`unpaired`).
- A monitor "will notify listeners when changes are made" (`query_monitor.hpp:8`). `api.cpp:69` makes one per
  handle, all on one connection: a second handle takes the hooks of the first, whose listeners then hear
  nothing, and releasing either stops both. `HooksOfOneMonitor` says whose the hooks are, `OnlyList` in `UserList` excludes it.
- A handle that was created and not started yet posts a null observer, which the UI thread then calls
  (`user_list_vm.cpp:57` and `139-141`): start one handle, create a second, which takes the hooks
  (`api.cpp:69`), and let the answer to the first arrive. `NullNeedsAnotherList`, a part of `ShownIsViewModel`, says that
  this takes another handle; the states in which it happens are among those the run reaches (`crashed`).
- `start()` with a second observer gives it a diff against rows it has never been shown (`m_prev_rows` is the
  handle's, `user_list_vm.cpp:117`). `OwnHandles`, the other part, excludes such an observer.
- `delete_row()` with an index past the rows reads the cell that `get()` did not return (`user_list_vm.cpp:32`).
- A handle's `m_prev_rows`, `m_observer` and `m_list_stmt` are destroyed before `m_monitor` clears the hooks
  (`user_list_vm.hpp:44-48`): a commit in between calls a hook that uses them (`dying`).
- The table of the iOS example takes all changes as one batch (`MXSampleDataTableViewController.m:43-68`), in which the
  index of a row to reload is one of the list before the batch; the example passes `toIndex`. After an insert or a delete before
  an updated row it reloads another row, or one that is not there: from user 2 alone to users 1 and 2, the latter with a
  new login, it reloads row 1 of a list that has row 0. The Android example reloads its list. The models have neither.
- `set()` after a COMMIT that was refused leaves the application reading a value it never saved, and
  everyone else locked out of writing (`limbo` in `KvMap`).
- A listener that adds a listener makes `m_listeners` reallocate, and frees the `std::function` that is being
  called (`query_monitor.cpp:56`). The model keeps the function: what happens else is undefined.
- `_on_wal_commit` throws, through SQLite's C frames, if another process is checkpointing (`CheckpointThrows`). So does
  `ObservableDb::_on_wal` (`observable_db.cpp:227`), which has taken the changes by then and told nobody (`unreported`).
- `sqlite3_wal_hook` also takes the place of SQLite's own automatic checkpoint: nothing checkpoints a
  connection whose monitor has been destroyed.

And of those that have to do with transactions and changes: `begin_read()`
that throws leaves its BEGIN behind, on a database without tables, one that is locked, or after
a SELECT that failed (`ReadEmpty`, `ReadFails`, `ReadFault`), which is why `NoTransactionLeftOpen` and
`CreationBegins` name "read". A BEGIN that failed makes the next one fail, whether or not
a transaction is open (`CreationBegins` names "begin"). And a row the report leaves out
"has been added and deleted in the same transaction" (`observable_db.cpp:255`) only if no
other process has deleted it since (`ReportExplainsCommit` excludes such rows). The changes
of a table are reported in reverse, because `_collect_changes` turns them round again
(`observable_db.cpp:262`) after `collapse_by_rowid` has already done so. A row is deleted by its login, which
two rows may share once logins move (`HasLogin`). And the order of `value.hpp:57`, "that also
compares double and int values correctly", is right only for integers up to 2^53: beyond,
`ToDouble` rounds, and 2^53 and 2^53 + 1 are both `==` to the same double.

Bounds, and why they are enough:

- `EventLoop`: a task is posted at most once. Two clients and a posting task are all the
  kinds of rivals for the queue; four tasks fill it behind a running one. What holds
  is proved for any number; liveness is checked only.
- `QueryDiff`: three rows per list, over two entities, two keys and two data, have ties,
  entities that move, entities that occur twice and both tail loops. Unsorted lists, which the function
  rejects at once, have two rows. User lists have up to four ids.
- `Transaction`: two guards, since a third could only fail as the second does; three writes,
  so that one can be made before, under and after a failing guard. Rollback journal
  mode: in WAL mode fewer commits and fewer SELECTs fail. No bound on the number of operations.
- `ObservableDb`: `MaxChanges = 3`, the least number in which changes of one row have another between
  them; two rows of a table and one of another; two values. `MaxForeign = 1`: the
  properties speak of one row at a time. Symmetry permutes the values, which nothing tells apart;
  that run has invariants only.
- `UserList`: two handles, since a third could take the hooks from the second only as that does from the first; two
  observers; `MaxStarts = 2`, so that one handle may be started twice, or each once, by one observer or two;
  `MaxDeletes = 1`; two ids and two logins. An earlier launch may have left no row or both. Answers are empty, insert or
  rename one user, or give users 1 and 2 logins of which one was the other's: enough for deletes and answers that overtake each other, a delete
  of a row that is gone or that names two, and lists that grow and shrink. The safety properties are proved without these bounds.
- `Statement`: two cursors, since a third could disturb no differently; three versions, with results of
  no, one and three rows, that grow and shrink; two values to bind. Executions are not bounded.
- `FirstChange`: three changes, the least number in which a key comes back after another; two tables;
  `Exact = 4`, with keys at both ends of it. Rows have one or two columns.
- `KvStore`: two instances, which is enough to be in each other's way; three launches, so that one may follow two
  that raced or crashed; two names. Calls are not bounded. All but the values of the run are proved for any number.
- `QueryMonitor`: two monitors, one of which takes the hooks of the other; three listeners, so that one may be
  added while one is called and one waits. Commits are not bounded.
- `Schema`: two tables, and six versions that add and drop them, so that a table may be gone and come back between
  being listed and being read.

Fairness. `EventLoop` assumes that threads that can run do, and tasks return: weak fairness of the loop,
of the destructor and of a client inside `post()`. Nobody has to post, to release a reference,
or to wake up spuriously. `UserList` assumes that both threads run what is posted to them, which is
`EventuallyRuns` for the one and the platform's main loop for the other; not that the server
answers, nor that the user does anything. `QueryDiff` is sequential code that keeps running, and so
is the loop of `all_rows()` (`Statement`), which calls `next()` while the cursor is valid.

Deadlock is checked in every run. The states in which a system may stop have a stuttering
action of their own (`Terminated`, `Returned`, `Threw`, `Rest`, `Over`), so a stop anywhere else is an error.

## The theorems

Nearly all are of the form `Spec => []Property`, for every value of the constants the named assumptions
allow; where a theorem assumes more, it says so and so does this section. `tlapm <Module>.tla` checks them. Every
invariant and every refinement that a passing run checks is a theorem of this kind.

`EventLoopProofs` (from `EventLoopAssumption`): `TypeCorrectness`, `WakeupSafety`, `DtorSafety`,
`Refinement`. The properties are not inductive alone. The invariant adds how far the
destructor's state and the loop's are from each other (a loop that has finished saw `m_stop`, a destructor that
has returned saw `m_done`), that a running task is the last one taken, and that the queue is
the part of `posted` that is not started yet, from which FIFO order and the refinement
follow.

`ListDiffProofs`: what the others need to know of sorted lists, that there is one list of the elements of a finite set by
increasing key (`SortedByIs`, `AscendingIs`), and of replaying changes. The library's induction theorems cannot be used with
the provers at hand; induction goes through `LeastNat` instead: a set of natural numbers that is not empty has a least
element, which follows from the inclusion of finite sets being well-founded, so that a property that fails for some
length fails for a least one. The heart of it is `Leads`: some sequence of lists on screen leads from one list to another
by the deletes from the back, the inserts and the updates, and each change fits the list it finds. A delete
of a row after all others, an insert after all others and an update of a last row each extend it (`LeadsDelete` and its like), although each
changes the middle of the sequence of changes. `EntityReplay` follows: replaying the exact changes between two lists sorted by id gives the new one.

`QueryDiffProofs` (from `QueryDiffAssumption`: the order is a strict weak order, as
`std::is_sorted` needs): `TypeCorrectness`, `RowsAccounted`, `ResultOrdered`, `ReplayCorrect`, `ExactCorrect`, for lists of any
length. For the first three the invariant says that deletes, updates and suppressed pairs split the old positions
read so far, that inserts, updates and suppressed pairs split the new ones, and that each
list of changes is increasing. `ReplayInv` says that the changes so far lead from the old rows that have been read to the new
ones, but for suppressed updates (`Leads`). `ExactInv` says, for lists sorted by entity, which deletes, inserts and updates there are so far, and that
no row on one side of a position is the entity of a row on the other side of the other.

`UserListProofs` (from `UserListAssumption`): `TypeCorrect`, `ShownCorrect` and `ListCurrent`, for any number of handles, observers,
starts, deletes and releases. The invariant follows the rows through the queue of the UI thread to each screen whose handles are its
own: each update without a diff may follow anything, each diff is relative to the rows that the screen shows by then (`Follow`), and the
`m_prev_rows` of a handle that has the hooks or is about to be notified is what the screen shows once the queue is through
(`PrevIsLast`). A handle that takes the hooks over begins without a diff; so while another is still being notified, it has not been
(`HooksInv`). For `ListCurrent`, the last rows an only handle has posted are those of the table, unless the background thread is
about to post others (`TableInv`). That a diff which is relative to what is shown shows its rows is `EntityReplay`. An update with a null
observer on its way suspends the invariant for what comes after it, and a call of a null or destroyed object (`crashed`) ends it; what
the screens show, and who was started, hold beyond that (`ScreensFollow`, `StartInv`).

`ObservableDbProofs`, about the hooks (from `ObservableDbAssumption` and `NoSnapshotAssumption`): `DbTypeCorrect`,
`ReportCorrect`, `OldRowsCorrect`, `TransactionCorrect`, `SnapshotCorrect`. The invariant `HooksInv` says what the hooks have noted in each
phase: `m_changes` is the transaction's until it is reported, a transaction without pages has noted nothing (or the next would
report its changes), and the report is the one computed from the snapshot of the commit and the rows at the time of the WAL hook.
`CollectedAre` is what the report of one table holds, since each row has exactly one last change (`CollapseIs`).
`ReportComplete` says more than the run's properties: with no other writer, and if each change has its hook
(`~ExternalWriter`, `~SilentChanges`), the report is the whole difference between the rows before the commit and those after it,
for every row of the database. Each hypothesis excludes what the other theorems allow, and the report is incomplete without either.

About values (from `SqlValueAssumption`): `LtIsStrictWeakOrder`, `EqIsTie` and `RowEqIsRowTie`, for all values
whose integers are within `Exact`. They go through the order being lexicographic: by the rank of
the affinity, then by the number in halves; and rows by the first position that does not tie.

About the first change of each key (from `FirstChangeAssumption`): `FirstChangeTypeCorrect`, and `FirstChangeCorrect` for calls whose
integers are within `Exact`, without which `std::set` has no order to go by. The set knows only the keys that were
kept. That it suffices to compare a key with those (`FirstsDecide`) is because equality is transitive, and the earliest change with an equal
key is among them.

`SqliteProofs`, about `Transaction` (from `TransactionAssumption`): `TypeCorrectness`, `Atomicity`,
`Durability`, `DestructorSafety`, `NothingLeftOpen`, `GuardsBegin`. The invariant: at most one
guard is unfinished; it is inside the open transaction unless an exception is unwinding;
then what it wrote is in that transaction, and nothing dropped is. A failed COMMIT that stays open is
what makes this delicate: no later guard can begin, so nobody commits its rows. `FailureInv`
adds which failure each anomaly goes back to, since BEGIN last worked: nothing that failed before it matters.

About `Statement` (from `StatementAssumption`): `StatementTypeCorrect`, `OneSnapshot`, `ValidityIsHonest`,
`NothingOutlivesItsCursor`. The three statements about a sound cursor are inductive only together,
and with `RowExists`: that the row the statement stands on is one of its version is what makes
the end of the rows the end of all of them. What outlives a cursor (`NothingLeftBehind`) is inductive alone.

`KvStoreProofs` (from `KvStoreAssumption`): `TypeCorrect`, `KeysAreUnique`, `IdleIsHarmless`, `CountIsRight`,
and `StoreIsAMap`, the refinement of `KvMap`. The invariant says what each lock is held for, that there is at
most one writer, that the rows it sees are the file's but for the key it is setting, and that an
instance between reading and setting the launch number has the current one unless there was a race. That an
UPDATE that finds no row nevertheless has the write lock is what makes `missing` a state in which nobody else can insert.
The refinement has one case per action: a statement is a step of the map or is not seen.

`DbProofs`, about `QueryMonitor` (from `QueryMonitorAssumption`): `TypeCorrect`, `NeverFreed`, `NoMixture`, `KnownWindows`,
`EveryoneToldOnce`. While the UI thread is at a monitor, the slots it is through with are that
monitor's, or empty, and the others belong to monitors that have not ended; SQLite differs from the `Db` in at most
the slot between swap and register. From that follows that whatever the background thread finds on the heap belongs to
a monitor that is not dead, so that only what happens after loading or copying can hurt it. For `EveryoneToldOnce`: the
lists only grow, without repetition, and what has been told is the beginning of one.

About `Schema` (from `SchemaAssumption`): `SchemaTypeCorrect`, `ReadsAreAtomic`. What has been read is the tables of the
version at which the read transaction began.

Model-checked only: what must eventually happen (`EventuallyRuns`, `DtorReturns`, `Terminates`, `DeleteAnswered`,
`ListIsFilled`, `AllRowsReturns`), since the provers cannot reason about fairness.

## Not modelled

`EventLoopRef` and the platforms' loops, threads and HTTP clients are adapters; that they run what they
are given, in order, is an assumption of `UserList`. `Backup` makes a direct call of SQLite per method
and has no caller. The `Semaphore` has none but the tests. Copying and printing of a `Value`, NaN and
integers beyond 2^54 are left out: no property tells a value from its copy. SQLite is modelled as its
callers see it. JSON, SQL text, opening and pragmas are data or direct calls. Generated, vendored and
example code is left out; the observers are those the changes are made for, which apply them in order. Tasks
that throw end the process, whatever state it is in. `m_observer` is replaced in one step in `UserList`; the data race on
it is described under the hazards.

## Plan

1. `ChangeFeed`: commits as sets of row changes, which `ObservableDb` without silent changes and other
   writers implements. `ReportComplete` is the step that matters.
2. The refinement of `UserList`'s background queue to `TaskRunner`, which is an assumption of the module so far.
3. The action properties that the invariants suggest: a version a cursor reads from never changes while it is sound,
   and a change that is noted is reported or forgotten with its transaction.
4. A statement under which another of its connection writes, in `Statement`.
