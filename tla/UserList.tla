------------------------------ MODULE UserList ------------------------------
(***************************************************************************)
(* The list of GitHub users on screen (src/ui_interface/user_list_vm.cpp)   *)
(* and everything that keeps it up to date:                                 *)
(*                                                                          *)
(*   UI thread    creates handles (Api::observer_user_list), starts them,   *)
(*                deletes rows, shows the updates posted to it;             *)
(*   network      answers github::get_users through Http::Request;          *)
(*   bg thread    runs, one after the other, the answers and the deletes;   *)
(*                a commit that changed pages calls the WAL hook of m_db,   *)
(*                that is, the QueryMonitor installed last, which calls     *)
(*                UserListVmHandle::_notify_new_data.                       *)
(*                                                                          *)
(* The bg thread is EventLoopCpp (see EventLoop and TaskRunner), so its     *)
(* queue is first in, first out.  A commit and the call of the hook are two *)
(* steps: the UI thread runs in between.  So are the destruction of a       *)
(* handle's members and that of its monitor, which clears the hooks.        *)
(***************************************************************************)
EXTENDS ListDiff, FiniteSets

CONSTANTS
  Handles, Observers,
  MaxId,          \* user ids are 1 .. MaxId
  Logins,
  Responses,      \* the tables of users the server may send
  Stored,         \* the tables an earlier launch may have left
  None,           \* no user, no handle, no observer, no rows
  NetworkErrors,  \* requests may fail
  Releases,       \* the UI may drop a handle
  MaxStarts,      \* bound: calls of start()
  MaxDeletes      \* bound: calls of delete_row()

Ids == 1 .. MaxId
Users == [Ids -> Logins \cup {None}]

ASSUME UserListAssumption ==
  /\ MaxId \in Nat /\ MaxStarts \in Nat /\ MaxDeletes \in Nat
  /\ None \notin Logins \cup Handles \cup Observers
  /\ Responses \subseteq Users /\ Stored \subseteq Users
  /\ NetworkErrors \in BOOLEAN /\ Releases \in BOOLEAN

VARIABLES
  github_users,  \* the table
  hooks,         \* the handle whose monitor's hooks are installed on m_db
  status,        \* per handle: "absent", "held" by the UI, "released" by it and kept by
                 \* a task, "dying" (its members are gone, its hooks are not), or "gone"
  m_observer,    \* per handle
  m_prev_rows,   \* per handle: the rows of the last notification, or None
  requests,      \* how many HTTP requests are in flight
  bg_queue,      \* the tasks posted to the bg thread
  running,       \* the handle whose delete task the bg thread runs or ends, or None
  calling,       \* the handle the bg thread is about to notify, or None
  ui_queue,      \* the updates posted to the UI thread
  vm,            \* per observer: the last view model given to it, or None
  shown,         \* per observer: the rows on its screen, changed by the diffs
  awaiting,      \* history, per observer: it deleted a row and got no update since
  started,       \* history: the handles and observers start() was called with
  starts, deletes,  \* how many calls were made (bounds)
  crashed        \* a null observer or a destroyed handle was called, or an empty cell read

uiVars == <<vm, shown, awaiting>>
handleVars == <<hooks, status, m_observer>>
startVars == <<started, starts>>
vars == <<github_users, hooks, status, m_observer, m_prev_rows, requests, bg_queue,
          running, calling, ui_queue, vm, shown, awaiting, started, starts, deletes,
          crashed>>

Row == [id : Ids, login : Logins]

\* Mutant of list_rows: ids without a user are listed.
list_all_ids(users) == [k \in Ids |-> [id |-> k, login |-> users[k]]]

\* s_list_stmt: SELECT ... ORDER BY id.
list_rows(users) ==
  SortedBy({[id |-> k, login |-> users[k]] : k \in {i \in Ids : users[i] # None}},
           [r \in Row |-> r.id])

\* The tasks of the bg thread: a callback of get_users, and DELETE ... WHERE login.
WriteTask(users) == [kind |-> "write", users |-> users]
ErrorTask == [kind |-> "error"]
DeleteTask(h, r) == [kind |-> "delete", handle |-> h, login |-> r.login]

Tasks ==
  [kind : {"write"}, users : Responses] \cup {ErrorTask}
    \cup [kind : {"delete"}, handle : Handles, login : Logins]

\* What the lambda posted by _notify_new_data captures.
UpdateMsg == [observer : Observers \cup {None}, diff : Seq(ListChange) \cup {None},
              rows : Seq(Row), handle : Handles]

TypeOK ==
  /\ github_users \in Users
  /\ {hooks, running, calling} \subseteq Handles \cup {None}
  /\ status \in [Handles -> {"absent", "held", "released", "dying", "gone"}]
  /\ m_observer \in [Handles -> Observers \cup {None}]
  /\ m_prev_rows \in [Handles -> Seq(Row) \cup {None}]
  /\ requests \in 0 .. MaxStarts /\ starts \in 0 .. MaxStarts
  /\ deletes \in 0 .. MaxDeletes
  /\ bg_queue \in Seq(Tasks) /\ ui_queue \in Seq(UpdateMsg)
  /\ vm \in [Observers -> [rows : Seq(Row), handle : Handles] \cup {None}]
  /\ shown \in [Observers -> Seq(Row)] /\ awaiting \in [Observers -> BOOLEAN]
  /\ started \subseteq Handles \X Observers /\ crashed \in BOOLEAN

Init ==
  /\ github_users \in Stored
  /\ hooks = None /\ running = None /\ calling = None
  /\ status = [h \in Handles |-> "absent"]
  /\ m_observer = [h \in Handles |-> None]
  /\ m_prev_rows = [h \in Handles |-> None]
  /\ requests = 0 /\ starts = 0 /\ deletes = 0
  /\ bg_queue = <<>> /\ ui_queue = <<>>
  /\ vm = [o \in Observers |-> None] /\ shown = [o \in Observers |-> <<>>]
  /\ awaiting = [o \in Observers |-> FALSE]
  /\ started = {} /\ crashed = FALSE

------------------------------------------------------------------------------
\* The UI thread

\* A task that captured `self` keeps the handle alive.
Captured(h) ==
  running = h \/ \E i \in 1 .. Len(bg_queue) :
                   bg_queue[i].kind = "delete" /\ bg_queue[i].handle = h

Alive(h) == status[h] \in {"held", "released"}

\* The UI thread is not in the destructor of a handle.
UiFree == ~crashed /\ \A h \in Handles : status[h] = "dying" => running = h

\* The constructor's QueryMonitor replaces whatever hooks the connection has.
observer_user_list(h) ==
  /\ UiFree /\ status[h] = "absent"
  /\ status' = [status EXCEPT ![h] = "held"]
  /\ hooks' = h
  /\ UNCHANGED <<github_users, m_observer, m_prev_rows, requests, bg_queue, running,
                 calling, ui_queue, uiVars, startVars, deletes, crashed>>

start(h, o) ==
  /\ UiFree /\ status[h] = "held" /\ starts < MaxStarts
  /\ m_observer' = [m_observer EXCEPT ![h] = o]
  /\ requests' = requests + 1 /\ starts' = starts + 1
  /\ started' = started \cup {<<h, o>>}
  /\ UNCHANGED <<github_users, hooks, status, m_prev_rows, bg_queue, running, calling,
                 ui_queue, uiVars, deletes, crashed>>

\* If that was the last reference, ~UserListVmHandle destroys the members that come after
\* m_monitor first: m_observer, m_prev_rows and m_list_stmt.
ReleaseHandle(h) ==
  /\ Releases /\ UiFree /\ status[h] = "held"
  /\ status' = [status EXCEPT ![h] = IF Captured(h) THEN "released" ELSE "dying"]
  /\ UNCHANGED <<github_users, hooks, m_observer, m_prev_rows, requests, bg_queue, running,
                 calling, ui_queue, uiVars, startVars, deletes, crashed>>

\* ~QueryMonitor, on the thread that dropped the last reference, clears the hooks,
\* whoever's they are.
ClearHooks(h) ==
  /\ ~crashed /\ status[h] = "dying"
  /\ status' = [status EXCEPT ![h] = "gone"]
  /\ hooks' = None
  /\ running' = IF running = h THEN None ELSE running
  /\ UNCHANGED <<github_users, m_observer, m_prev_rows, requests, bg_queue, calling,
                 ui_queue, uiVars, startVars, deletes, crashed>>

\* UserListVm::delete_row and UserListVmHandle::delete_login, on the view model of the last
\* update the UI has shown.  An index past its rows gives an empty cell, which is read all
\* the same; a view model whose handle is gone does nothing.
delete_row(o, index) ==
  /\ UiFree /\ deletes < MaxDeletes
  /\ vm[o] # None
  /\ deletes' = deletes + 1
  /\ \/ /\ index < Len(vm[o].rows) /\ Alive(vm[o].handle)
        /\ bg_queue' = Append(bg_queue, DeleteTask(vm[o].handle, vm[o].rows[index + 1]))
        /\ awaiting' = [awaiting EXCEPT ![o] = TRUE]
        /\ UNCHANGED crashed
     \/ /\ index >= Len(vm[o].rows)
        /\ crashed' = TRUE
        /\ UNCHANGED <<bg_queue, awaiting>>
  /\ UNCHANGED <<github_users, handleVars, m_prev_rows, requests, running, calling,
                 ui_queue, vm, shown, startVars>>

\* The posted lambda: observer->on_update.  Without a diff the observer reloads its list,
\* and otherwise applies the changes one after the other (query_diff.hpp: "could be applied
\* incrementally").
on_update ==
  /\ UiFree /\ ui_queue # <<>>
  /\ ui_queue' = Tail(ui_queue)
  /\ LET msg == Head(ui_queue)
         o == msg.observer
     IN IF o = None
          THEN crashed' = TRUE /\ UNCHANGED uiVars
          ELSE /\ vm' = [vm EXCEPT ![o] = [rows |-> msg.rows, handle |-> msg.handle]]
               /\ shown' = [shown EXCEPT ![o] =
                              IF msg.diff = None THEN msg.rows
                                                 ELSE Replay(@, msg.diff, msg.rows)]
               /\ awaiting' = [awaiting EXCEPT ![o] = FALSE]
               /\ UNCHANGED crashed
  /\ UNCHANGED <<github_users, handleVars, m_prev_rows, requests, bg_queue, running,
                 calling, startVars, deletes>>

------------------------------------------------------------------------------
\* The network: Http::Request posts the callback to the bg thread.

Answers(task) ==
  /\ ~crashed /\ requests > 0
  /\ requests' = requests - 1
  /\ bg_queue' = Append(bg_queue, task)
  /\ UNCHANGED <<github_users, handleVars, m_prev_rows, running, calling, ui_queue,
                 uiVars, startVars, deletes, crashed>>

on_success(users) == Answers(WriteTask(users))
on_network_error == NetworkErrors /\ Answers(ErrorTask)

------------------------------------------------------------------------------
\* The bg thread

BgIdle == ~crashed /\ running = None /\ calling = None /\ bg_queue # <<>>

\* Mutant of WriteUsers: only an INSERT is taken for a change.
WriteUsersInserting ==
  /\ BgIdle /\ Head(bg_queue).kind = "write"
  /\ bg_queue' = Tail(bg_queue)
  /\ LET users == Head(bg_queue).users
     IN /\ github_users' = [k \in Ids |-> IF users[k] # None THEN users[k]
                                                           ELSE github_users[k]]
        /\ calling' = IF \E k \in Ids : users[k] # None /\ github_users[k] = None
                        THEN hooks ELSE None
  /\ UNCHANGED <<handleVars, m_prev_rows, requests, running, ui_queue, uiVars, startVars,
                 deletes, crashed>>

\* get_users' callback: UPDATE, and INSERT what was not there, in one transaction.
WriteUsers ==
  /\ BgIdle /\ Head(bg_queue).kind = "write"
  /\ bg_queue' = Tail(bg_queue)
  /\ LET users == Head(bg_queue).users
     IN /\ github_users' = [k \in Ids |-> IF users[k] # None THEN users[k]
                                                           ELSE github_users[k]]
        \* A transaction without a statement that writes calls no hook.
        /\ calling' = IF \E k \in Ids : users[k] # None THEN hooks ELSE None
  /\ UNCHANGED <<handleVars, m_prev_rows, requests, running, ui_queue, uiVars, startVars,
                 deletes, crashed>>

\* get_users drops an answer that is an error.
IgnoreError ==
  /\ BgIdle /\ Head(bg_queue).kind = "error"
  /\ bg_queue' = Tail(bg_queue)
  /\ UNCHANGED <<github_users, handleVars, m_prev_rows, requests, running, calling,
                 ui_queue, uiVars, startVars, deletes, crashed>>

HasLogin(login) == {k \in Ids : github_users[k] = login}

\* Mutant of DeleteLogin: a commit of deletes alone is not reported.
DeleteLoginSilent ==
  /\ BgIdle /\ Head(bg_queue).kind = "delete"
  /\ LET gone == HasLogin(Head(bg_queue).login)
     IN github_users' = [k \in Ids |-> IF k \in gone THEN None ELSE github_users[k]]
  /\ running' = Head(bg_queue).handle
  /\ bg_queue' = Tail(bg_queue)
  /\ UNCHANGED <<handleVars, m_prev_rows, requests, calling, ui_queue, uiVars, startVars,
                 deletes, crashed>>

\* A DELETE that matches no row changes no page, and calls no hook.
DeleteLogin ==
  /\ BgIdle /\ Head(bg_queue).kind = "delete"
  /\ LET task == Head(bg_queue)
         gone == HasLogin(task.login)
     IN /\ github_users' = [k \in Ids |-> IF k \in gone THEN None ELSE github_users[k]]
        /\ calling' = IF gone # {} THEN hooks ELSE None
        /\ running' = task.handle
  /\ bg_queue' = Tail(bg_queue)
  /\ UNCHANGED <<handleVars, m_prev_rows, requests, ui_queue, uiVars, startVars, deletes,
                 crashed>>

\* Mutants of _notify_new_data: m_prev_rows is kept from the first time on, or nothing
\* is posted the first time.
_notify_first_rows ==
  /\ ~crashed /\ calling # None
  /\ calling' = None
  /\ LET h == calling
         new_rows == list_rows(github_users)
         prev_rows == m_prev_rows[h]
         diff == IF prev_rows = None THEN None ELSE EntityDiff(prev_rows, new_rows)
     IN IF ~Alive(h)
          THEN crashed' = TRUE /\ UNCHANGED <<m_prev_rows, ui_queue>>
          ELSE /\ m_prev_rows' = IF prev_rows = None
                                   THEN [m_prev_rows EXCEPT ![h] = new_rows]
                                   ELSE m_prev_rows
               /\ ui_queue' = Append(ui_queue, [observer |-> m_observer[h], diff |-> diff,
                                                rows |-> new_rows, handle |-> h])
               /\ UNCHANGED crashed
  /\ UNCHANGED <<github_users, handleVars, requests, bg_queue, running, uiVars, startVars,
                 deletes>>

_notify_diffs_only ==
  /\ ~crashed /\ calling # None
  /\ calling' = None
  /\ LET h == calling
         new_rows == list_rows(github_users)
         prev_rows == m_prev_rows[h]
     IN IF ~Alive(h)
          THEN crashed' = TRUE /\ UNCHANGED <<m_prev_rows, ui_queue>>
          ELSE /\ m_prev_rows' = [m_prev_rows EXCEPT ![h] = new_rows]
               /\ ui_queue' = IF prev_rows = None THEN ui_queue
                              ELSE Append(ui_queue,
                                     [observer |-> m_observer[h],
                                      diff |-> EntityDiff(prev_rows, new_rows),
                                      rows |-> new_rows, handle |-> h])
               /\ UNCHANGED crashed
  /\ UNCHANGED <<github_users, handleVars, requests, bg_queue, running, uiVars, startVars,
                 deletes>>

\* UserListVmHandle::_notify_new_data, on the handle the hook was copied from.
_notify_new_data ==
  /\ ~crashed /\ calling # None
  /\ calling' = None
  /\ LET h == calling
         new_rows == list_rows(github_users)
         prev_rows == m_prev_rows[h]
         diff == IF prev_rows = None THEN None ELSE EntityDiff(prev_rows, new_rows)
     IN IF ~Alive(h)
          THEN crashed' = TRUE /\ UNCHANGED <<m_prev_rows, ui_queue>>
          ELSE /\ m_prev_rows' = [m_prev_rows EXCEPT ![h] = new_rows]
               /\ ui_queue' = Append(ui_queue, [observer |-> m_observer[h], diff |-> diff,
                                                rows |-> new_rows, handle |-> h])
               /\ UNCHANGED crashed
  /\ UNCHANGED <<github_users, handleVars, requests, bg_queue, running, uiVars, startVars,
                 deletes>>

LastReference(h) ==
  /\ status[h] = "released"
  /\ \A i \in 1 .. Len(bg_queue) :
       bg_queue[i].kind = "delete" => bg_queue[i].handle # h

\* The closure of a delete task is destroyed, and may take the handle with it.
DeleteReturns ==
  /\ ~crashed /\ running # None /\ calling = None /\ status[running] # "dying"
  /\ IF LastReference(running)
       THEN status' = [status EXCEPT ![running] = "dying"] /\ UNCHANGED running
       ELSE running' = None /\ UNCHANGED status
  /\ UNCHANGED <<github_users, hooks, m_observer, m_prev_rows, requests, bg_queue,
                 calling, ui_queue, uiVars, startVars, deletes, crashed>>

------------------------------------------------------------------------------
Quiet == requests = 0 /\ bg_queue = <<>> /\ running = None /\ calling = None
           /\ ui_queue = <<>>

\* With nothing pending the application rests until the user does something.
Rest == (Quiet \/ crashed) /\ UNCHANGED vars

Bg == WriteUsers \/ IgnoreError \/ DeleteLogin \/ _notify_new_data \/ DeleteReturns
Network == on_network_error \/ \E users \in Responses : on_success(users)

Next ==
  \/ \E h \in Handles : \/ observer_user_list(h)
                        \/ \E o \in Observers : start(h, o)
                        \/ ReleaseHandle(h)
                        \/ ClearHooks(h)
  \/ \E o \in Observers, index \in 0 .. MaxId - 1 : delete_row(o, index)
  \/ on_update
  \/ Network
  \/ Bg
  \/ Rest

Spec == Init /\ [][Next]_vars

\* Both threads run what is posted to them (EventuallyRuns of EventLoop, and the
\* platform's main loop), and end a destructor they have begun.  The user has to do
\* nothing, and the network not to answer.
FairSpec ==
  Spec /\ WF_vars(on_update) /\ WF_vars(Bg) /\ WF_vars(\E h \in Handles : ClearHooks(h))

------------------------------------------------------------------------------
\* Properties.

\* The handles the observer was given to have had no other observer.
OwnHandles(o) ==
  \A p, q \in started : p[2] = o /\ q[1] = p[1] => q = p

\* The diffs for such an observer arrive complete, in order, and relative to what it shows:
\* applied as query_diff.hpp promises, they make its list that of the last view model,
\* also when the list is started again, or a new handle takes over.
ScreensFollow ==
  \A o \in Observers : vm[o] # None /\ OwnHandles(o) => shown[o] = vm[o].rows

\* A notification before start() would carry a null observer.  None is posted as long as
\* no other handle was started: the list that takes over the hooks of a started one, and
\* is told of its answers or deletes before it is started itself, is the only way.
NullNeedsAnotherList ==
  \A i \in 1 .. Len(ui_queue) :
    ui_queue[i].observer = None => \E p \in started : p[1] # ui_queue[i].handle

ShownIsViewModel == ScreensFollow /\ NullNeedsAnotherList

\* No other handle was ever made that could have taken the hooks, or cleared them.
OnlyHandle(h) == \A g \in Handles \ {h} : status[g] = "absent"

OnlyList(o) == OwnHandles(o) /\ \A p \in started : p[2] = o => OnlyHandle(p[1])

\* When nothing is pending, a list that has been filled, and is the only one, shows the
\* table: no change of it, by an answer or a delete, goes unnoticed (query_monitor.hpp:
\* "will notify listeners when changes are made").
ListIsCurrent ==
  ~crashed /\ Quiet =>
    \A o \in Observers :
      vm[o] # None /\ status[vm[o].handle] = "held" /\ OnlyList(o)
        => vm[o].rows = list_rows(github_users)

\* After delete_row the observer of the only list gets a new view model, even when the row
\* it named is gone already or has changed (view_model.djinni: "a new view model will be
\* sent through the observer interface").
DeleteAnswered ==
  \A o \in Observers :
    (awaiting[o] /\ OnlyList(o)) ~> (~awaiting[o] \/ ~OnlyList(o) \/ crashed)

HoldsUser(task) ==
  task.kind = "write" /\ \E k \in Ids : task.users[k] # None

\* The only list is filled once an answer with a user has come, whatever else came before.
ListIsFilled ==
  \A h \in Handles :
    (/\ status[h] = "held" /\ OnlyHandle(h)
     /\ \E i \in 1 .. Len(bg_queue) : HoldsUser(bg_queue[i]))
      ~> \/ \E o \in Observers : vm[o] # None
         \/ status[h] # "held" \/ ~OnlyHandle(h) \/ crashed
=============================================================================
