--------------------------- MODULE UserListProofs ---------------------------
(***************************************************************************)
(* Proofs about the list of users, for any table, server, handles,          *)
(* observers and number of calls: its types, that the list on screen is the *)
(* last view model, and that the view model of the only list is the table   *)
(* when nothing is pending.                                                 *)
(***************************************************************************)
EXTENDS UserList, ListDiffProofs

------------------------------------------------------------------------------
\* s_list_stmt lists the users that there are, by increasing id.

LEMMA ListRowsIs ==
  ASSUME NEW users \in Users
  PROVE  list_rows(users) \in Seq(Row) /\ SortedById(list_rows(users))
<1> DEFINE K == {i \in Ids : users[i] # None}
           S == {[id |-> k, login |-> users[k]] : k \in K}
           key == [r \in Row |-> r.id]
           n == Cardinality(S)
           s == SortedBy(S, key)
<1>1. MaxId \in Nat
  BY UserListAssumption
<1>2. IsFiniteSet(S)
  <2>1. IsFiniteSet(Ids)
    BY <1>1, FS_Interval DEF Ids
  <2>2. IsFiniteSet(K)
    BY <2>1, FS_Subset
  <2> DEFINE f == [k \in K |-> [id |-> k, login |-> users[k]]]
  <2> HIDE DEF K
  <2>3. f \in Surjection(K, S)
    BY DEF Surjection
  <2> QED BY <2>2, <2>3, FS_Surjection
<1>3. S \subseteq Row
  <2> SUFFICES ASSUME NEW k \in K PROVE [id |-> k, login |-> users[k]] \in Row
    OBVIOUS
  <2>1. k \in Ids /\ users[k] \in Logins
    BY DEF Users
  <2> QED BY <2>1 DEF Row
<1>4. \A r \in S : key[r] = r.id /\ r.id \in Int
  <2>1. \A r \in Row : key[r] = r.id /\ r.id \in Int
    BY <1>1 DEF Row, Ids
  <2> QED BY <1>3, <2>1
<1>5. ASSUME NEW q \in S, NEW r \in S, q.id = r.id PROVE q = r
  BY <1>5
<1>6. list_rows(users) = s
  BY DEF list_rows
<1> HIDE DEF S, key
<1>7. IsKey(S, key)
  BY <1>4, <1>5 DEF IsKey
<1>8. n \in Nat
  BY <1>2, FS_CardinalityType
<1>9. Enumerates(s, S, key)
  BY <1>2, <1>7, SortedByIs
<1> HIDE DEF s, n
<1>10. s \in [1 .. n -> S] /\ \A i, j \in 1 .. n : i < j => key[s[i]] < key[s[j]]
  BY <1>9 DEF Enumerates, n
<1>11. s \in Seq(Row) /\ Len(s) = n
  BY <1>3, <1>8, <1>10
<1>12. SortedById(s)
  BY <1>4, <1>10, <1>11 DEF SortedById
<1> QED
  BY <1>6, <1>11, <1>12

------------------------------------------------------------------------------
\* Types

\* There are no more requests than calls of start, and the diffs posted to the UI thread
\* name rows of the list they come with.
DiffFits(msg) ==
  \/ msg.diff = None
  \/ /\ msg.diff \in Seq(ListChange)
     /\ \A k \in 1 .. Len(msg.diff) : NamesRows(msg.diff[k], msg.rows)

TypeInv ==
  /\ TypeOK
  /\ requests <= starts
  /\ \A i \in 1 .. Len(ui_queue) : DiffFits(ui_queue[i])

\* What is posted goes to the end of the queue, what runs is taken from its front.
LEMMA Posted ==
  ASSUME NEW S, NEW q \in Seq(S), NEW x \in S
  PROVE  /\ Append(q, x) \in Seq(S) /\ Len(Append(q, x)) = Len(q) + 1
         /\ Append(q, x) # <<>> /\ Append(q, x)[Len(q) + 1] = x
         /\ \A i \in 1 .. Len(q) : Append(q, x)[i] = q[i]
  BY AppendProperties

LEMMA Taken ==
  ASSUME NEW S, NEW q \in Seq(S), q # <<>>
  PROVE  /\ Tail(q) \in Seq(S) /\ Len(Tail(q)) = Len(q) - 1 /\ Len(q) \in Nat \ {0}
         /\ Head(q) \in S /\ Head(q) = q[1]
         /\ \A i \in 1 .. Len(Tail(q)) : Tail(q)[i] = q[i + 1]
  BY HeadTailProperties

LEMMA TaskTypes ==
  /\ \A task \in Tasks : task.kind = "write" => task.users \in Users
  /\ \A task \in Tasks : task.kind = "delete" => task.handle \in Handles
  /\ \A users \in Responses : WriteTask(users) \in Tasks
  /\ ErrorTask \in Tasks
  /\ \A h \in Handles, r \in Row : DeleteTask(h, r) \in Tasks
BY UserListAssumption DEF Tasks, WriteTask, ErrorTask, DeleteTask, Row

\* The answers and the deletes write a table of users.
LEMMA WritesUsers ==
  ASSUME github_users \in Users
  PROVE  /\ \A users \in Users :
              [k \in Ids |-> IF users[k] # None THEN users[k] ELSE github_users[k]] \in Users
         /\ \A S : [k \in Ids |-> IF k \in S THEN None ELSE github_users[k]] \in Users
BY DEF Users

\* Showing an update shows rows.
LEMMA ShowsRows ==
  ASSUME TypeInv, ui_queue # <<>>, NEW o \in Observers
  PROVE  LET msg == Head(ui_queue)
         IN (IF msg.diff = None THEN msg.rows ELSE Replay(shown[o], msg.diff, msg.rows)) \in Seq(Row)
<1> DEFINE msg == Head(ui_queue)
<1>1. ui_queue \in Seq(UpdateMsg) /\ shown[o] \in Seq(Row)
  BY DEF TypeInv, TypeOK
<1>2. msg \in UpdateMsg /\ msg = ui_queue[1] /\ 1 \in 1 .. Len(ui_queue)
  BY <1>1, Taken
<1>3. DiffFits(msg) /\ msg.rows \in Seq(Row)
  BY <1>2 DEF TypeInv, UpdateMsg
<1> HIDE DEF msg
<1>4. CASE msg.diff = None
  BY <1>3, <1>4 DEF msg
<1>5. CASE msg.diff # None
  <2>1. Replay(shown[o], msg.diff, msg.rows) \in Seq(Row)
    BY <1>1, <1>3, <1>5, ReplayTyped DEF DiffFits
  <2> QED BY <1>5, <2>1 DEF msg
<1> QED
  BY <1>4, <1>5

\* The message _notify_new_data posts.
LEMMA NotifyMsg ==
  ASSUME TypeOK, NEW h \in Handles
  PROVE  LET new_rows == list_rows(github_users)
             diff == IF m_prev_rows[h] = None THEN None ELSE EntityDiff(m_prev_rows[h], new_rows)
             msg == [observer |-> m_observer[h], diff |-> diff, rows |-> new_rows, handle |-> h]
         IN msg \in UpdateMsg /\ DiffFits(msg)
<1> DEFINE rows == list_rows(github_users)
           prev == m_prev_rows[h]
           diff == IF prev = None THEN None ELSE EntityDiff(prev, rows)
<1>1. rows \in Seq(Row)
  BY ListRowsIs DEF TypeOK
<1>2. m_observer[h] \in Observers \cup {None} /\ prev \in Seq(Row) \cup {None}
  BY DEF TypeOK
<1> HIDE DEF rows, prev
<1>3. \/ diff = None
      \/ diff \in Seq(ListChange) /\ \A k \in 1 .. Len(diff) : NamesRows(diff[k], rows)
  <2>1. CASE prev = None
    BY <2>1
  <2>2. CASE prev # None
    <3>1. prev \in Seq(Row) /\ diff = EntityDiff(prev, rows)
      BY <1>2, <2>2
    <3> QED BY <1>1, <3>1, EntityDiffTyped
  <2> QED BY <2>1, <2>2
<1> HIDE DEF diff
<1>4. [observer |-> m_observer[h], diff |-> diff, rows |-> rows, handle |-> h] \in UpdateMsg
  BY <1>1, <1>2, <1>3 DEF UpdateMsg
<1> QED
  BY <1>3, <1>4 DEF DiffFits, rows, prev, diff

LEMMA TypeStep == TypeInv /\ [Next]_vars => TypeInv'
<1> SUFFICES ASSUME TypeInv, [Next]_vars PROVE TypeInv'
  OBVIOUS
<1> USE DEF uiVars, handleVars, startVars
<1>1. ASSUME NEW h \in Handles, observer_user_list(h) PROVE TypeInv'
  BY <1>1 DEF observer_user_list, TypeInv, TypeOK
<1>2. ASSUME NEW h \in Handles, NEW o \in Observers, start(h, o) PROVE TypeInv'
  BY <1>2, UserListAssumption DEF start, TypeInv, TypeOK
<1>3. ASSUME NEW h \in Handles, ReleaseHandle(h) PROVE TypeInv'
  BY <1>3 DEF ReleaseHandle, TypeInv, TypeOK
<1>4. ASSUME NEW o \in Observers, NEW index \in 0 .. MaxId - 1, delete_row(o, index) PROVE TypeInv'
  <2>1. vm[o].handle \in Handles /\ vm[o].rows \in Seq(Row)
    BY <1>4 DEF delete_row, TypeInv, TypeOK
  <2>2. deletes' \in 0 .. MaxDeletes
    BY <1>4, UserListAssumption DEF delete_row, TypeInv, TypeOK
  <2>3. CASE index < Len(vm[o].rows)
    <3>1. index + 1 \in 1 .. Len(vm[o].rows)
      BY <2>1, <2>3, UserListAssumption
    <3>2. vm[o].rows[index + 1] \in Row
      BY <2>1, <3>1, ElementOfSeq
    <3>3. bg_queue' = Append(bg_queue, DeleteTask(vm[o].handle, vm[o].rows[index + 1]))
          /\ awaiting' = [awaiting EXCEPT ![o] = TRUE] /\ crashed' = crashed
      BY <1>4, <2>1, <2>3 DEF delete_row
    <3>4. bg_queue' \in Seq(Tasks)
      BY <2>1, <3>2, <3>3, TaskTypes, Posted DEF TypeInv, TypeOK
    <3> QED BY <1>4, <2>2, <3>3, <3>4 DEF delete_row, TypeInv, TypeOK
  <2>4. CASE ~(index < Len(vm[o].rows))
    <3>1. crashed' = TRUE /\ UNCHANGED <<bg_queue, awaiting>>
      BY <1>4, <2>4 DEF delete_row
    <3> QED BY <1>4, <2>2, <3>1 DEF delete_row, TypeInv, TypeOK
  <2> QED BY <2>3, <2>4
<1>5. CASE on_update
  <2> DEFINE msg == Head(ui_queue)
             o == msg.observer
  <2>1. /\ ui_queue # <<>> /\ ui_queue' = Tail(ui_queue)
        /\ UNCHANGED <<github_users, handleVars, m_prev_rows, requests, bg_queue, running,
                       calling, startVars, deletes>>
    BY <1>5 DEF on_update
  <2>2. /\ ui_queue' \in Seq(UpdateMsg) /\ Len(ui_queue') = Len(ui_queue) - 1
        /\ Len(ui_queue) \in Nat /\ msg \in UpdateMsg
        /\ \A i \in 1 .. Len(ui_queue') : ui_queue'[i] = ui_queue[i + 1]
    BY <2>1, Taken DEF TypeInv, TypeOK
  <2>3. \A i \in 1 .. Len(ui_queue') : DiffFits(ui_queue[i + 1])
    BY <2>2 DEF TypeInv
  <2>4. \A i \in 1 .. Len(ui_queue') : DiffFits(ui_queue'[i])
    BY <2>2, <2>3
  <2>5. /\ vm' \in [Observers -> [rows : Seq(Row), handle : Handles] \cup {None}]
        /\ shown' \in [Observers -> Seq(Row)] /\ awaiting' \in [Observers -> BOOLEAN]
        /\ crashed' \in BOOLEAN
    <3>1. CASE o = None
      BY <1>5, <3>1 DEF on_update, TypeInv, TypeOK
    <3>2. CASE o # None
      <4>1. o \in Observers /\ msg.rows \in Seq(Row) /\ msg.handle \in Handles
        BY <2>2, <3>2 DEF UpdateMsg
      <4> DEFINE screen == IF msg.diff = None THEN msg.rows
                                              ELSE Replay(shown[o], msg.diff, msg.rows)
      <4>2. screen \in Seq(Row)
        BY <2>1, <4>1, ShowsRows
      <4>3. /\ vm' = [vm EXCEPT ![o] = [rows |-> msg.rows, handle |-> msg.handle]]
            /\ shown' = [shown EXCEPT ![o] = screen]
            /\ awaiting' = [awaiting EXCEPT ![o] = FALSE] /\ crashed' = crashed
        BY <1>5, <3>2 DEF on_update
      <4> HIDE DEF screen, msg, o
      <4> QED BY <4>1, <4>2, <4>3 DEF TypeInv, TypeOK
    <3> QED BY <3>1, <3>2
  <2> HIDE DEF msg, o
  <2> QED BY <2>1, <2>2, <2>4, <2>5 DEF TypeInv, TypeOK, DiffFits
<1>6. ASSUME NEW task \in Tasks, Answers(task) PROVE TypeInv'
  <2>1. bg_queue' \in Seq(Tasks)
    BY <1>6, Posted DEF Answers, TypeInv, TypeOK
  <2> QED BY <1>6, <2>1, UserListAssumption DEF Answers, TypeInv, TypeOK
<1>7. CASE WriteUsers
  <2>1. bg_queue # <<>> /\ bg_queue \in Seq(Tasks) /\ github_users \in Users
    BY <1>7 DEF WriteUsers, BgIdle, TypeInv, TypeOK
  <2>2. Tail(bg_queue) \in Seq(Tasks) /\ Head(bg_queue) \in Tasks
    BY <2>1, Taken
  <2>3. Head(bg_queue).users \in Users
    BY <1>7, <2>2, TaskTypes DEF WriteUsers
  <2>4. github_users' \in Users
    BY <1>7, <2>1, <2>3, WritesUsers DEF WriteUsers
  <2> QED BY <1>7, <2>2, <2>4 DEF WriteUsers, TypeInv, TypeOK
<1>8. CASE IgnoreError
  <2>1. Tail(bg_queue) \in Seq(Tasks)
    BY <1>8, Taken DEF IgnoreError, BgIdle, TypeInv, TypeOK
  <2> QED BY <1>8, <2>1 DEF IgnoreError, TypeInv, TypeOK
<1>9. CASE DeleteLogin
  <2>1. bg_queue # <<>> /\ bg_queue \in Seq(Tasks) /\ github_users \in Users
    BY <1>9 DEF DeleteLogin, BgIdle, TypeInv, TypeOK
  <2>2. Tail(bg_queue) \in Seq(Tasks) /\ Head(bg_queue) \in Tasks
    BY <2>1, Taken
  <2>3. Head(bg_queue).handle \in Handles
    BY <1>9, <2>2, TaskTypes DEF DeleteLogin
  <2>4. github_users' \in Users
    BY <1>9, <2>1, WritesUsers DEF DeleteLogin
  <2> QED BY <1>9, <2>2, <2>3, <2>4 DEF DeleteLogin, TypeInv, TypeOK
<1>10. CASE _notify_new_data
  <2> DEFINE h == calling
             rows == list_rows(github_users)
             diff == IF m_prev_rows[h] = None THEN None ELSE EntityDiff(m_prev_rows[h], rows)
             msg == [observer |-> m_observer[h], diff |-> diff, rows |-> rows, handle |-> h]
  <2>1. h \in Handles /\ calling' = None
        /\ UNCHANGED <<github_users, handleVars, requests, bg_queue, running, uiVars, startVars, deletes>>
    BY <1>10 DEF _notify_new_data, TypeInv, TypeOK
  <2>2. CASE ~Alive(h)
    BY <1>10, <2>1, <2>2 DEF _notify_new_data, TypeInv, TypeOK
  <2>3. CASE Alive(h)
    <3>1. /\ m_prev_rows' = [m_prev_rows EXCEPT ![h] = rows]
          /\ ui_queue' = Append(ui_queue, msg) /\ crashed' = crashed
      BY <1>10, <2>3 DEF _notify_new_data
    <3>2. rows \in Seq(Row)
      BY ListRowsIs DEF TypeInv, TypeOK
    <3>3. msg \in UpdateMsg /\ DiffFits(msg)
      BY <2>1, NotifyMsg DEF TypeInv
    <3> HIDE DEF msg, rows, h
    <3>4. ui_queue \in Seq(UpdateMsg) /\ Len(ui_queue) \in Nat
      BY DEF TypeInv, TypeOK
    <3>5. /\ ui_queue' \in Seq(UpdateMsg) /\ Len(ui_queue') = Len(ui_queue) + 1
          /\ ui_queue'[Len(ui_queue) + 1] = msg
          /\ \A i \in 1 .. Len(ui_queue) : ui_queue'[i] = ui_queue[i]
      BY <3>1, <3>3, <3>4, Posted
    <3>6. ASSUME NEW i \in 1 .. Len(ui_queue') PROVE DiffFits(ui_queue'[i])
      <4>1. CASE i \in 1 .. Len(ui_queue)
        BY <3>5, <4>1 DEF TypeInv
      <4>2. CASE i = Len(ui_queue) + 1
        BY <3>3, <3>5, <4>2
      <4> QED BY <3>4, <3>5, <4>1, <4>2
    <3>7. m_prev_rows' \in [Handles -> Seq(Row) \cup {None}]
      BY <3>1, <3>2 DEF TypeInv, TypeOK
    <3> QED BY <2>1, <3>1, <3>5, <3>6, <3>7 DEF TypeInv, TypeOK, DiffFits
  <2> QED BY <2>2, <2>3
<1>11. CASE DeleteReturns
  BY <1>11 DEF DeleteReturns, TypeInv, TypeOK
<1>14. ASSUME NEW h \in Handles, ClearHooks(h) PROVE TypeInv'
  BY <1>14 DEF ClearHooks, TypeInv, TypeOK
<1>12. CASE UNCHANGED vars
  BY <1>12 DEF vars, TypeInv, TypeOK, DiffFits
<1>13. CASE Network
  <2>1. CASE on_network_error
    BY <1>6, <2>1, TaskTypes DEF on_network_error
  <2>2. CASE \E users \in Responses : on_success(users)
    BY <1>6, <2>2, TaskTypes DEF on_success
  <2> QED BY <1>13, <2>1, <2>2 DEF Network
<1> QED
  BY <1>1, <1>2, <1>3, <1>4, <1>5, <1>7, <1>8, <1>9, <1>10, <1>11, <1>12, <1>13,
     <1>14
  DEF Next, Bg, Rest

LEMMA TypeStart == Init => TypeInv
<1> SUFFICES ASSUME Init PROVE TypeInv
  OBVIOUS
<1>1. <<>> \in Seq(Tasks) /\ <<>> \in Seq(UpdateMsg) /\ <<>> \in Seq(Row) /\ Len(<<>>) = 0
  OBVIOUS
<1>2. TypeOK
  <2>1. /\ github_users \in Users /\ {hooks, running, calling} \subseteq Handles \cup {None}
        /\ status \in [Handles -> {"absent", "held", "released", "dying", "gone"}]
        /\ m_observer \in [Handles -> Observers \cup {None}]
        /\ m_prev_rows \in [Handles -> Seq(Row) \cup {None}] /\ crashed \in BOOLEAN
        /\ started \subseteq Handles \X Observers
    BY UserListAssumption DEF Init
  <2>2. requests \in 0 .. MaxStarts /\ starts \in 0 .. MaxStarts /\ deletes \in 0 .. MaxDeletes
    BY UserListAssumption DEF Init
  <2>3. bg_queue \in Seq(Tasks) /\ ui_queue \in Seq(UpdateMsg)
    BY <1>1 DEF Init
  <2>4. /\ vm \in [Observers -> [rows : Seq(Row), handle : Handles] \cup {None}]
        /\ shown \in [Observers -> Seq(Row)] /\ awaiting \in [Observers -> BOOLEAN]
    BY <1>1 DEF Init
  <2> QED BY <2>1, <2>2, <2>3, <2>4 DEF TypeOK
<1>3. requests <= starts /\ 1 .. Len(ui_queue) = {}
  BY <1>1 DEF Init
<1> QED BY <1>2, <1>3 DEF TypeInv

\* The table, the queues of both threads, the handles and the screens hold what they are
\* declared to hold; a diff never shows a row that is not there.
THEOREM TypeCorrect == Spec => []TypeOK
<1>1. Spec => []TypeInv
  BY TypeStart, TypeStep, PTL DEF Spec
<1> QED
  BY <1>1, PTL DEF TypeInv
------------------------------------------------------------------------------
\* What an observer's screen will show

\* The rows on the screen of an observer once the first n updates of the queue are shown:
\* those of the last update for it, or what it shows now.
LastFor(q, o, i, n) == q[i].observer = o /\ \A j \in i + 1 .. n : q[j].observer # o

ScreenAfter(q, screen, o, n) ==
  {q[i].rows : i \in {j \in 1 .. n : LastFor(q, o, j, n)}}
    \cup {rows \in {screen} : \A j \in 1 .. n : q[j].observer # o}

\* Each update replaces the list before it, or says how it differs from that list.
Follows(prev, msg) ==
  /\ SortedById(msg.rows)
  /\ \/ msg.diff = None
     \/ prev \in Seq(Row) /\ SortedById(prev) /\ msg.diff = EntityDiff(prev, msg.rows)

\* No update of the first n would be given to a null observer.
NoNull(q, n) == \A i \in 1 .. n : q[i].observer # None

------------------------------------------------------------------------------
\* The inductive invariant

\* What is under way was asked for by a start, and goes to an observer it was given.  Only
\* another handle's start makes a handle tell a null observer.
StartInv ==
  /\ started = {} => requests = 0 /\ bg_queue = <<>> /\ calling = None /\ ui_queue = <<>>
  /\ \A h \in Handles : m_observer[h] # None => <<h, m_observer[h]>> \in started
  /\ \A h \in Handles, o \in Observers : <<h, o>> \in started => m_observer[h] # None
  /\ \A i \in 1 .. Len(ui_queue) :
       LET msg == ui_queue[i]
       IN IF msg.observer = None THEN \E p \in started : p[1] # msg.handle
                                 ELSE <<msg.handle, msg.observer>> \in started
  /\ \A o \in Observers : vm[o] # None => <<vm[o].handle, o>> \in started

\* The hooks go to handles that were made and are not gone; a handle that took them while
\* another is about to be notified has not been notified yet.
HooksInv ==
  /\ \A h \in Handles :
       status[h] = "absent" => m_prev_rows[h] = None /\ m_observer[h] = None
  /\ \A h \in Handles : hooks = h => status[h] \notin {"absent", "gone"}
  /\ \A h \in Handles : calling = h => status[h] # "absent"
  /\ \A g, h \in Handles : hooks = g /\ calling = h /\ g # h => m_prev_rows[g] = None
  /\ \A h \in Handles : m_prev_rows[h] # None => SortedById(m_prev_rows[h])
  /\ NoNull(ui_queue, Len(ui_queue)) =>
       \A h \in Handles : m_observer[h] = None => m_prev_rows[h] = None

\* The updates queued for an observer with handles of its own follow each other and what it
\* shows, and the next diff of a handle that is or may be notified will be taken against the
\* last of them.
Follow(o, q, screen) ==
  \A i \in 1 .. Len(q) :
    q[i].observer = o /\ NoNull(q, i) =>
      \A rows \in ScreenAfter(q, screen, o, i - 1) : Follows(rows, q[i])

PrevIsLast(o, q, screen, prev_rows, given, notifying) ==
  \A h \in notifying :
    <<h, o>> \in given /\ NoNull(q, Len(q)) /\ prev_rows[h] # None =>
      \A rows \in ScreenAfter(q, screen, o, Len(q)) : prev_rows[h] = rows

Notifying == {h \in Handles : h \in {hooks, calling}}

ScreenInv(o) ==
  /\ Follow(o, ui_queue, shown[o])
  /\ PrevIsLast(o, ui_queue, shown[o], m_prev_rows, started, Notifying)

UpdatesInv == \A o \in Observers : OwnHandles(o) => ScreenInv(o)

Filled(o) == vm[o] # None \/ \E i \in 1 .. Len(ui_queue) : ui_queue[i].observer = o

\* The only handle has the hooks, and the last of the updates that it posted has the rows of
\* the table, unless it is about to post another.
TableInv(h) ==
  /\ hooks = h
  /\ \A o \in Observers :
       /\ OwnHandles(o) /\ <<h, o>> \in started /\ Filled(o)
       /\ NoNull(ui_queue, Len(ui_queue)) /\ calling = None
       => \A rows \in ScreenAfter(ui_queue, shown[o], o, Len(ui_queue)) :
            rows = list_rows(github_users)

TablesInv == \A h \in Handles : status[h] = "held" /\ OnlyHandle(h) => TableInv(h)

IInv ==
  /\ StartInv
  /\ ScreensFollow
  /\ ~crashed => HooksInv /\ UpdatesInv /\ TablesInv

------------------------------------------------------------------------------
\* Lemmas about what a screen will show

LEMMA ScreenSame ==
  ASSUME NEW q, NEW r, NEW s, NEW o, NEW n \in Nat, \A i \in 1 .. n : q[i] = r[i]
  PROVE  ScreenAfter(q, s, o, n) = ScreenAfter(r, s, o, n)
<1>1. \A i \in 1 .. n : LastFor(q, o, i, n) <=> LastFor(r, o, i, n)
  BY DEF LastFor
<1>2. (\A j \in 1 .. n : q[j].observer # o) <=> (\A j \in 1 .. n : r[j].observer # o)
  OBVIOUS
<1> QED
  BY <1>1, <1>2 DEF ScreenAfter

LEMMA ScreenNow ==
  ASSUME NEW q, NEW s, NEW o
  PROVE  s \in ScreenAfter(q, s, o, 0)
BY DEF ScreenAfter

\* An update posted to the end of the queue is shown last, to its observer.
LEMMA ScreenPosted ==
  ASSUME NEW q \in Seq(UpdateMsg), NEW msg \in UpdateMsg, NEW s, NEW o,
         NEW rows \in ScreenAfter(Append(q, msg), s, o, Len(q) + 1)
  PROVE  \/ msg.observer = o /\ rows = msg.rows
         \/ msg.observer # o /\ rows \in ScreenAfter(q, s, o, Len(q))
<1> DEFINE n == Len(q)
           r == Append(q, msg)
<1>1. r[n + 1] = msg /\ \A i \in 1 .. n : r[i] = q[i]
  BY Posted
<1>2. n \in Nat
  OBVIOUS
<1>3. rows \in ScreenAfter(r, s, o, n + 1)
  OBVIOUS
<1> HIDE DEF n, r
<1>4. CASE \E i \in 1 .. n + 1 : LastFor(r, o, i, n + 1) /\ rows = r[i].rows
  <2>1. PICK i \in 1 .. n + 1 : LastFor(r, o, i, n + 1) /\ rows = r[i].rows
    BY <1>4
  <2>2. CASE i = n + 1
    BY <1>1, <2>1, <2>2 DEF LastFor
  <2>3. CASE i # n + 1
    <3>1. i \in 1 .. n /\ n + 1 \in i + 1 .. n + 1 /\ \A j \in i + 1 .. n : j \in i + 1 .. n + 1
      BY <1>2, <2>3
    <3>2. msg.observer # o
      BY <1>1, <2>1, <3>1 DEF LastFor
    <3>3. q[i].observer = o /\ rows = q[i].rows
      BY <1>1, <2>1, <3>1 DEF LastFor
    <3>4. \A j \in i + 1 .. n : j \in 1 .. n /\ r[j].observer # o
      BY <1>2, <2>1, <3>1 DEF LastFor
    <3>5. LastFor(q, o, i, n)
      BY <1>1, <3>3, <3>4 DEF LastFor
    <3> QED BY <3>1, <3>2, <3>3, <3>5 DEF ScreenAfter, n
  <2> QED BY <2>2, <2>3
<1>5. CASE rows = s /\ \A j \in 1 .. n + 1 : r[j].observer # o
  <2>1. n + 1 \in 1 .. n + 1 /\ \A j \in 1 .. n : j \in 1 .. n + 1
    BY <1>2
  <2>2. msg.observer # o /\ \A j \in 1 .. n : q[j].observer # o
    BY <1>1, <1>5, <2>1
  <2> QED BY <1>5, <2>2 DEF ScreenAfter, n
<1> QED
  BY <1>3, <1>4, <1>5 DEF ScreenAfter

\* Showing the first update leaves what the screen will show as it was.
LEMMA ScreenShown ==
  ASSUME NEW q \in Seq(UpdateMsg), q # <<>>, NEW s, NEW o, NEW n \in 0 .. Len(Tail(q)),
         NEW rows \in ScreenAfter(Tail(q), IF q[1].observer = o THEN q[1].rows ELSE s, o, n)
  PROVE  rows \in ScreenAfter(q, s, o, n + 1)
<1> DEFINE r == Tail(q)
           t == IF q[1].observer = o THEN q[1].rows ELSE s
<1>1. n \in Nat /\ \A i \in 1 .. n : r[i] = q[i + 1]
  BY Taken
<1>2. rows \in ScreenAfter(r, t, o, n)
  OBVIOUS
<1> HIDE DEF r
<1>3. CASE \E i \in 1 .. n : LastFor(r, o, i, n) /\ rows = r[i].rows
  <2>1. PICK i \in 1 .. n : LastFor(r, o, i, n) /\ rows = r[i].rows
    BY <1>3
  <2>2. i + 1 \in 1 .. n + 1 /\ rows = q[i + 1].rows /\ q[i + 1].observer = o
    BY <1>1, <2>1 DEF LastFor
  <2>3. ASSUME NEW j \in i + 1 + 1 .. n + 1 PROVE q[j].observer # o
    <3>1. j - 1 \in i + 1 .. n /\ j - 1 \in 1 .. n /\ (j - 1) + 1 = j
      BY <1>1, <2>1
    <3>2. r[j - 1].observer # o
      BY <2>1, <3>1 DEF LastFor
    <3> QED BY <1>1, <3>1, <3>2
  <2> QED BY <2>2, <2>3 DEF ScreenAfter, LastFor
<1>4. CASE rows = t /\ \A j \in 1 .. n : r[j].observer # o
  <2>1. ASSUME NEW j \in 1 + 1 .. n + 1 PROVE q[j].observer # o
    <3>1. j - 1 \in 1 .. n /\ (j - 1) + 1 = j
      BY <1>1
    <3> QED BY <1>1, <1>4, <3>1
  <2>2. CASE q[1].observer = o
    <3>1. LastFor(q, o, 1, n + 1) /\ rows = q[1].rows /\ 1 \in 1 .. n + 1
      BY <1>1, <1>4, <2>1, <2>2 DEF LastFor
    <3> QED BY <3>1 DEF ScreenAfter
  <2>3. CASE q[1].observer # o
    <3>1. \A j \in 1 .. n + 1 : j = 1 \/ j \in 1 + 1 .. n + 1
      BY <1>1
    <3>2. \A j \in 1 .. n + 1 : q[j].observer # o
      BY <2>1, <2>3, <3>1
    <3> QED BY <1>4, <2>3, <3>2 DEF ScreenAfter
  <2> QED BY <2>2, <2>3
<1> QED
  BY <1>2, <1>3, <1>4 DEF ScreenAfter

\* Replacing the list, or applying the changes that follow it, gives the rows of the update.
LEMMA FollowingShows ==
  ASSUME NEW prev, NEW msg \in UpdateMsg, Follows(prev, msg)
  PROVE  (IF msg.diff = None THEN msg.rows ELSE Replay(prev, msg.diff, msg.rows)) = msg.rows
<1>1. msg.rows \in Seq(Row)
  BY DEF UpdateMsg
<1>2. CASE msg.diff = None
  BY <1>2
<1>3. CASE msg.diff # None
  <2>1. /\ prev \in Seq(Row) /\ SortedById(prev) /\ SortedById(msg.rows)
        /\ msg.diff = EntityDiff(prev, msg.rows)
    BY <1>3 DEF Follows
  <2>2. Replay(prev, EntityDiff(prev, msg.rows), msg.rows) = msg.rows
    BY <1>1, <2>1, EntityReplay
  <2> QED BY <1>3, <2>1, <2>2
<1> QED BY <1>2, <1>3

------------------------------------------------------------------------------
\* Every step keeps the invariant.

\* After a crash nothing moves.
LEMMA CrashedRests ==
  ASSUME TypeInv, [Next]_vars, crashed
  PROVE  UNCHANGED vars
BY DEF Next, Bg, Network, Rest, UiFree, BgIdle, observer_user_list, start, ReleaseHandle,
       ClearHooks, delete_row, on_update, on_success, on_network_error, Answers, WriteUsers,
       IgnoreError, DeleteLogin, _notify_new_data, DeleteReturns

LEMMA StartStep == TypeInv /\ StartInv /\ [Next]_vars => StartInv'
<1> SUFFICES ASSUME TypeInv, StartInv, [Next]_vars PROVE StartInv'
  OBVIOUS
<1> USE DEF uiVars, handleVars, startVars
<1>1. ASSUME UNCHANGED <<started, m_observer, ui_queue, vm>>,
             started # {} \/ UNCHANGED <<requests, bg_queue, calling>>
      PROVE  StartInv'
  BY <1>1 DEF StartInv
<1>2. ASSUME NEW h \in Handles, observer_user_list(h) \/ ReleaseHandle(h) \/ ClearHooks(h)
      PROVE  StartInv'
  BY <1>1, <1>2 DEF observer_user_list, ReleaseHandle, ClearHooks
<1>3. ASSUME NEW h \in Handles, NEW o \in Observers, start(h, o) PROVE StartInv'
  <2>1. /\ m_observer' = [m_observer EXCEPT ![h] = o] /\ started' = started \cup {<<h, o>>}
        /\ UNCHANGED <<ui_queue, vm>>
    BY <1>3 DEF start
  <2>2. started' # {} /\ o # None
    BY <2>1, UserListAssumption
  <2>3. /\ \A g \in Handles : m_observer'[g] # None => <<g, m_observer'[g]>> \in started'
        /\ \A g \in Handles, p \in Observers : <<g, p>> \in started' => m_observer'[g] # None
    BY <2>1, <2>2 DEF StartInv, TypeInv, TypeOK
  <2> QED BY <2>1, <2>2, <2>3 DEF StartInv
<1>4. ASSUME NEW o \in Observers, NEW index \in 0 .. MaxId - 1, delete_row(o, index)
      PROVE  StartInv'
  <2>1. UNCHANGED <<started, m_observer, ui_queue, vm, requests, calling>> /\ vm[o] # None
    BY <1>4 DEF delete_row
  <2> QED BY <1>1, <2>1 DEF StartInv
<1>5. CASE on_update
  <2> DEFINE msg == Head(ui_queue)
             o == msg.observer
  <2>1. /\ ui_queue # <<>> /\ ui_queue' = Tail(ui_queue) /\ started # {}
        /\ UNCHANGED <<started, m_observer, calling, requests, bg_queue>>
    BY <1>5 DEF on_update, StartInv
  <2>2. /\ msg \in UpdateMsg /\ msg = ui_queue[1] /\ 1 \in 1 .. Len(ui_queue)
        /\ \A i \in 1 .. Len(ui_queue') : i + 1 \in 1 .. Len(ui_queue) /\ ui_queue'[i] = ui_queue[i + 1]
    <3>1. ui_queue \in Seq(UpdateMsg)
      BY DEF TypeInv, TypeOK
    <3> QED BY <2>1, <3>1, Taken
  <2>3. o # None => o \in Observers /\ <<msg.handle, o>> \in started
    BY <2>2 DEF StartInv, UpdateMsg
  <2>4. vm' = IF o = None THEN vm ELSE [vm EXCEPT ![o] = [rows |-> msg.rows, handle |-> msg.handle]]
    BY <1>5 DEF on_update
  <2> HIDE DEF msg, o
  <2>5. \A p \in Observers : vm'[p] # None => <<vm'[p].handle, p>> \in started
    BY <2>3, <2>4 DEF StartInv, TypeInv, TypeOK
  <2>6. \A i \in 1 .. Len(ui_queue') :
          IF ui_queue'[i].observer = None THEN \E p \in started : p[1] # ui_queue'[i].handle
            ELSE <<ui_queue'[i].handle, ui_queue'[i].observer>> \in started
    BY <2>2 DEF StartInv
  <2> QED BY <2>1, <2>5, <2>6 DEF StartInv
<1>6. ASSUME NEW task, Answers(task) PROVE StartInv'
  <2>1. UNCHANGED <<started, m_observer, ui_queue, vm>> /\ requests > 0
    BY <1>6 DEF Answers
  <2> QED BY <1>1, <2>1 DEF StartInv
<1>7. CASE WriteUsers \/ IgnoreError \/ DeleteLogin
  <2>1. UNCHANGED <<started, m_observer, ui_queue, vm>> /\ bg_queue # <<>>
    BY <1>7 DEF WriteUsers, IgnoreError, DeleteLogin, BgIdle
  <2> QED BY <1>1, <2>1 DEF StartInv
<1>8. CASE _notify_new_data
  <2> DEFINE h == calling
             diff == IF m_prev_rows[h] = None THEN None
                       ELSE EntityDiff(m_prev_rows[h], list_rows(github_users))
             msg == [observer |-> m_observer[h], diff |-> diff, rows |-> list_rows(github_users),
                     handle |-> h]
  <2>1. /\ h \in Handles /\ started # {}
        /\ UNCHANGED <<started, m_observer, vm, requests, bg_queue>>
    BY <1>8 DEF _notify_new_data, StartInv, TypeInv, TypeOK
  <2>2. CASE ~Alive(h)
    BY <1>1, <1>8, <2>1, <2>2 DEF _notify_new_data
  <2>3. CASE Alive(h)
    <3>1. ui_queue' = Append(ui_queue, msg)
      BY <1>8, <2>3 DEF _notify_new_data
    <3>2. ui_queue \in Seq(UpdateMsg) /\ msg \in UpdateMsg
      BY <2>1, NotifyMsg DEF TypeInv, TypeOK
    <3>3. IF msg.observer = None THEN \E p \in started : p[1] # msg.handle
            ELSE <<msg.handle, msg.observer>> \in started
      <4>1. msg.observer = m_observer[h] /\ msg.handle = h
        OBVIOUS
      <4> HIDE DEF msg, h
      <4>2. CASE m_observer[h] # None
        BY <2>1, <4>1, <4>2 DEF StartInv
      <4>3. CASE m_observer[h] = None
        <5>1. PICK p \in started : TRUE
          BY <2>1
        <5>2. p \in Handles \X Observers
          BY <5>1 DEF TypeInv, TypeOK
        <5>3. p[1] \in Handles /\ p[2] \in Observers /\ p = <<p[1], p[2]>>
          BY <5>2
        <5>4. p[1] # h
          BY <2>1, <4>3, <5>1, <5>3 DEF StartInv
        <5> QED BY <4>1, <4>3, <5>1, <5>4
      <4> QED BY <4>2, <4>3
    <3> HIDE DEF msg
    <3>4. \A i \in 1 .. Len(ui_queue') :
            IF ui_queue'[i].observer = None THEN \E p \in started : p[1] # ui_queue'[i].handle
              ELSE <<ui_queue'[i].handle, ui_queue'[i].observer>> \in started
      <4> SUFFICES ASSUME NEW i \in 1 .. Len(ui_queue')
                   PROVE  IF ui_queue'[i].observer = None
                            THEN \E p \in started : p[1] # ui_queue'[i].handle
                            ELSE <<ui_queue'[i].handle, ui_queue'[i].observer>> \in started
        OBVIOUS
      <4>1. (i \in 1 .. Len(ui_queue) /\ ui_queue'[i] = ui_queue[i]) \/ ui_queue'[i] = msg
        BY <3>1, <3>2, Posted
      <4> QED BY <3>3, <4>1 DEF StartInv
    <3> QED BY <2>1, <3>4 DEF StartInv
  <2> QED BY <2>2, <2>3
<1>9. CASE DeleteReturns
  BY <1>1, <1>9 DEF DeleteReturns
<1>10. CASE UNCHANGED vars
  BY <1>1, <1>10 DEF vars
<1> QED
  BY <1>2, <1>3, <1>4, <1>5, <1>6, <1>7, <1>8, <1>9, <1>10
  DEF Next, Bg, Network, Rest, on_success, on_network_error

LEMMA NoNullPosted ==
  ASSUME NEW q \in Seq(UpdateMsg), NEW msg \in UpdateMsg,
         NoNull(Append(q, msg), Len(Append(q, msg)))
  PROVE  msg.observer # None /\ NoNull(q, Len(q))
<1> DEFINE r == Append(q, msg)
<1>1. /\ Len(r) = Len(q) + 1 /\ r[Len(q) + 1] = msg /\ Len(q) \in Nat
      /\ \A i \in 1 .. Len(q) : r[i] = q[i]
  BY Posted
<1>2. Len(q) + 1 \in 1 .. Len(r) /\ \A i \in 1 .. Len(q) : i \in 1 .. Len(r)
  BY <1>1
<1>3. \A i \in 1 .. Len(r) : r[i].observer # None
  BY DEF NoNull
<1> HIDE DEF r
<1> QED BY <1>1, <1>2, <1>3 DEF NoNull

LEMMA NoNullShown ==
  ASSUME NEW q \in Seq(UpdateMsg), q # <<>>, q[1].observer # None,
         NEW n \in 0 .. Len(Tail(q)), NoNull(Tail(q), n)
  PROVE  NoNull(q, n + 1)
<1> SUFFICES ASSUME NEW i \in 1 .. n + 1, i # 1 PROVE q[i].observer # None
  BY DEF NoNull
<1>1. i - 1 \in 1 .. n /\ i - 1 \in 1 .. Len(Tail(q)) /\ (i - 1) + 1 = i
  OBVIOUS
<1>2. Tail(q)[i - 1] = q[i]
  BY <1>1, Taken
<1> QED BY <1>1, <1>2 DEF NoNull

LEMMA HooksStep ==
  ASSUME TypeInv, ~crashed, HooksInv, [Next]_vars, ~crashed'
  PROVE  HooksInv'
<1> USE DEF uiVars, handleVars, startVars
<1>0. None \notin Handles /\ None \notin Observers
  BY UserListAssumption
<1>1. /\ status \in [Handles -> {"absent", "held", "released", "dying", "gone"}]
      /\ m_observer \in [Handles -> Observers \cup {None}]
      /\ m_prev_rows \in [Handles -> Seq(Row) \cup {None}]
      /\ {hooks, running, calling} \subseteq Handles \cup {None}
      /\ github_users \in Users /\ ui_queue \in Seq(UpdateMsg)
  BY DEF TypeInv, TypeOK
<1>2. ASSUME UNCHANGED <<m_prev_rows, m_observer, ui_queue, calling>>,
             \A h \in Handles : status'[h] = "absent" => status[h] = "absent",
             \A h \in Handles : hooks' = h => hooks = h /\ status'[h] \notin {"absent", "gone"}
      PROVE  HooksInv'
  BY <1>2 DEF HooksInv, NoNull
<1>3. ASSUME NEW h \in Handles, observer_user_list(h) PROVE HooksInv'
  <2>1. /\ status[h] = "absent" /\ status' = [status EXCEPT ![h] = "held"] /\ hooks' = h
        /\ UNCHANGED <<m_prev_rows, m_observer, ui_queue, calling>>
    BY <1>3 DEF observer_user_list
  <2>2. m_prev_rows[h] = None
    BY <2>1 DEF HooksInv
  <2> QED BY <1>1, <2>1, <2>2 DEF HooksInv, NoNull
<1>4. ASSUME NEW h \in Handles, NEW o \in Observers, start(h, o) PROVE HooksInv'
  <2>1. /\ status[h] = "held" /\ m_observer' = [m_observer EXCEPT ![h] = o]
        /\ UNCHANGED <<m_prev_rows, status, hooks, ui_queue, calling>>
    BY <1>4 DEF start
  <2>2. \A g \in Handles : m_observer'[g] = None => m_observer[g] = None
    BY <1>0, <1>1, <2>1
  <2>3. \A g \in Handles : status[g] = "absent" => m_observer'[g] = None
    BY <1>1, <2>1 DEF HooksInv
  <2> QED BY <2>1, <2>2, <2>3 DEF HooksInv, NoNull
<1>5. ASSUME NEW h \in Handles, ReleaseHandle(h) PROVE HooksInv'
  <2>1. /\ status[h] = "held" /\ status' = [status EXCEPT ![h] = status'[h]]
        /\ status'[h] \in {"released", "dying"}
        /\ UNCHANGED <<hooks, m_prev_rows, m_observer, ui_queue, calling>>
    BY <1>1, <1>5 DEF ReleaseHandle
  <2> HIDE DEF ReleaseHandle
  <2>2. \A g \in Handles : g # h => status'[g] = status[g]
    BY <1>1, <1>5 DEF ReleaseHandle
  <2>3. \A g \in Handles : hooks = g => status'[g] \notin {"absent", "gone"}
    BY <2>1, <2>2 DEF HooksInv
  <2>4. \A g \in Handles : status'[g] = "absent" => status[g] = "absent"
    BY <2>1, <2>2
  <2>5. \A g \in Handles : hooks' = g => hooks = g /\ status'[g] \notin {"absent", "gone"}
    BY <2>1, <2>3
  <2> QED BY <1>2, <2>1, <2>4, <2>5
<1>6. ASSUME NEW h \in Handles, ClearHooks(h) PROVE HooksInv'
  <2>1. /\ status' = [status EXCEPT ![h] = "gone"] /\ hooks' = None
        /\ UNCHANGED <<m_prev_rows, m_observer, ui_queue, calling>>
    BY <1>6 DEF ClearHooks
  <2> QED BY <1>0, <1>1, <1>2, <2>1
<1>7. ASSUME NEW o \in Observers, NEW index \in 0 .. MaxId - 1, delete_row(o, index)
      PROVE  HooksInv'
  BY <1>7 DEF delete_row, HooksInv, NoNull
<1>8. CASE on_update
  <2> DEFINE q == Tail(ui_queue)
  <2>1. /\ ui_queue # <<>> /\ ui_queue' = q
        /\ UNCHANGED <<m_prev_rows, m_observer, status, hooks, calling>>
    BY <1>8 DEF on_update
  <2>2. ui_queue[1].observer # None
    <3>1. Head(ui_queue) = ui_queue[1]
      BY <1>1, <2>1, Taken
    <3> QED BY <1>8, <3>1 DEF on_update
  <2>3. NoNull(q, Len(q)) => NoNull(ui_queue, Len(ui_queue))
    <3>1. Len(q) \in 0 .. Len(q) /\ Len(q) + 1 = Len(ui_queue)
      <4>1. q \in Seq(UpdateMsg) /\ Len(q) = Len(ui_queue) - 1 /\ Len(ui_queue) \in Nat \ {0}
        BY <1>1, <2>1, Taken
      <4> QED BY <4>1
    <3>2. NoNull(q, Len(q)) => NoNull(ui_queue, Len(q) + 1)
      BY <1>1, <2>1, <2>2, <3>1, NoNullShown
    <3> QED BY <3>1, <3>2
  <2> HIDE DEF q
  <2> QED BY <2>1, <2>3 DEF HooksInv
<1>9. ASSUME NEW task, Answers(task) PROVE HooksInv'
  BY <1>9 DEF Answers, HooksInv, NoNull
<1>10. CASE WriteUsers \/ IgnoreError \/ DeleteLogin
  <2>1. /\ calling' = hooks \/ calling' = None \/ calling' = calling
        /\ UNCHANGED <<m_prev_rows, m_observer, status, hooks, ui_queue>>
    BY <1>10 DEF WriteUsers, IgnoreError, DeleteLogin
  <2> QED BY <1>0, <2>1 DEF HooksInv, NoNull
<1>11. CASE _notify_new_data
  <2> DEFINE h == calling
             rows == list_rows(github_users)
             diff == IF m_prev_rows[h] = None THEN None ELSE EntityDiff(m_prev_rows[h], rows)
             msg == [observer |-> m_observer[h], diff |-> diff, rows |-> rows, handle |-> h]
  <2>1. h \in Handles /\ calling' = None /\ UNCHANGED <<m_observer, status, hooks>> /\ Alive(h)
    BY <1>1, <1>11 DEF _notify_new_data
  <2>2. m_prev_rows' = [m_prev_rows EXCEPT ![h] = rows] /\ ui_queue' = Append(ui_queue, msg)
    BY <1>11, <2>1 DEF _notify_new_data
  <2>3. SortedById(rows)
    BY <1>1, ListRowsIs
  <2>4. msg \in UpdateMsg /\ msg.observer = m_observer[h]
    BY <2>1, NotifyMsg DEF TypeInv
  <2> HIDE DEF msg, rows
  <2>5. \A g \in Handles : m_prev_rows'[g] = IF g = h THEN rows ELSE m_prev_rows[g]
    BY <1>1, <2>2
  <2>6. NoNull(ui_queue', Len(ui_queue')) => m_observer[h] # None /\ NoNull(ui_queue, Len(ui_queue))
    BY <1>1, <2>2, <2>4, NoNullPosted
  <2> QED BY <1>0, <2>1, <2>3, <2>5, <2>6 DEF HooksInv
<1>12. CASE DeleteReturns
  <2>1. UNCHANGED <<m_prev_rows, m_observer, ui_queue, calling, hooks>> /\ running \in Handles
    BY <1>1, <1>12 DEF DeleteReturns
  <2>2. \A g \in Handles : status'[g] = status[g] \/ (status[g] = "released" /\ status'[g] = "dying")
    BY <1>1, <1>12, <2>1 DEF DeleteReturns, LastReference
  <2>3. \A g \in Handles : hooks' = g => hooks = g /\ status'[g] \notin {"absent", "gone"}
    BY <2>1, <2>2 DEF HooksInv
  <2>4. \A g \in Handles : status'[g] = "absent" => status[g] = "absent"
    BY <2>2
  <2> QED BY <1>2, <2>1, <2>3, <2>4
<1>13. CASE UNCHANGED vars
  BY <1>13 DEF vars, HooksInv, NoNull
<1> QED
  BY <1>3, <1>4, <1>5, <1>6, <1>7, <1>8, <1>9, <1>10, <1>11, <1>12, <1>13
  DEF Next, Bg, Network, Rest, on_success, on_network_error

\* An observer that has shared no handle had shared none before.
LEMMA OwnBefore ==
  ASSUME [Next]_vars, NEW o, OwnHandles(o)'
  PROVE  OwnHandles(o) /\ started \subseteq started'
<1>1. started \subseteq started'
  BY DEF Next, Bg, Network, Rest, observer_user_list, start, ReleaseHandle, ClearHooks,
     delete_row, on_update, on_success, on_network_error, Answers, WriteUsers, IgnoreError,
     DeleteLogin, _notify_new_data, DeleteReturns, startVars, vars
<1> QED
  BY <1>1 DEF OwnHandles

\* What showing an update does to a screen.
ShowsHead(o) ==
  /\ ui_queue # <<>> /\ ui_queue' = Tail(ui_queue) /\ ui_queue[1].observer # None
  /\ shown'[o] = IF ui_queue[1].observer = o THEN ui_queue[1].rows ELSE shown[o]
  /\ vm'[o] = IF ui_queue[1].observer = o
                THEN [rows |-> ui_queue[1].rows, handle |-> ui_queue[1].handle] ELSE vm[o]

LEMMA UpdateShown ==
  ASSUME TypeInv, NEW o \in Observers, ScreenInv(o), on_update, ~crashed'
  PROVE  ShowsHead(o)
<1> DEFINE msg == Head(ui_queue)
           p == msg.observer
<1>1. ui_queue # <<>> /\ ui_queue' = Tail(ui_queue) /\ p # None
  BY DEF on_update
<1>2. msg \in UpdateMsg /\ msg = ui_queue[1] /\ 1 \in 1 .. Len(ui_queue)
  <2>1. ui_queue \in Seq(UpdateMsg)
    BY DEF TypeInv, TypeOK
  <2> QED BY <1>1, <2>1, Taken
<1>3. /\ vm' = [vm EXCEPT ![p] = [rows |-> msg.rows, handle |-> msg.handle]]
      /\ shown' = [shown EXCEPT ![p] = IF msg.diff = None THEN msg.rows
                                         ELSE Replay(@, msg.diff, msg.rows)]
  BY <1>1 DEF on_update
<1>4. vm \in [Observers -> [rows : Seq(Row), handle : Handles] \cup {None}]
      /\ shown \in [Observers -> Seq(Row)]
  BY DEF TypeInv, TypeOK
<1> HIDE DEF msg
<1>5. CASE p # o
  BY <1>1, <1>2, <1>3, <1>4, <1>5 DEF ShowsHead
<1>6. CASE p = o
  <2>1. NoNull(ui_queue, 1) /\ shown[o] \in ScreenAfter(ui_queue, shown[o], o, 1 - 1)
    BY <1>1, <1>2, ScreenNow DEF NoNull
  <2>2. Follows(shown[o], msg)
    BY <1>2, <1>6, <2>1 DEF ScreenInv, Follow
  <2>3. (IF msg.diff = None THEN msg.rows ELSE Replay(shown[o], msg.diff, msg.rows)) = msg.rows
    BY <1>2, <2>2, FollowingShows
  <2>4. shown'[o] = msg.rows /\ vm'[o] = [rows |-> msg.rows, handle |-> msg.handle]
    BY <1>3, <1>4, <1>6, <2>3
  <2> QED BY <1>1, <1>2, <1>6, <2>4 DEF ShowsHead
<1> QED
  BY <1>5, <1>6

LEMMA FollowStep ==
  ASSUME TypeInv, ScreensFollow, ~crashed => UpdatesInv, [Next]_vars
  PROVE  ScreensFollow'
<1> SUFFICES ASSUME NEW o \in Observers, vm'[o] # None, OwnHandles(o)'
             PROVE  shown'[o] = vm'[o].rows
  BY DEF ScreensFollow
<1>1. OwnHandles(o)
  BY OwnBefore
<1>2. CASE UNCHANGED <<vm, shown>>
  BY <1>1, <1>2 DEF ScreensFollow
<1>3. CASE on_update /\ crashed'
  <2>1. UNCHANGED <<vm, shown>>
    BY <1>3 DEF on_update, UiFree, uiVars
  <2> QED BY <1>2, <2>1
<1>4. CASE on_update /\ ~crashed'
  <2>1. ScreenInv(o)
    BY <1>1, <1>4 DEF on_update, UiFree, UpdatesInv
  <2>2. ShowsHead(o)
    BY <1>4, <2>1, UpdateShown
  <2> QED BY <1>1, <2>2 DEF ShowsHead, ScreensFollow
<1> QED
  BY <1>2, <1>3, <1>4
  DEF Next, Bg, Network, Rest, observer_user_list, start, ReleaseHandle, ClearHooks,
      delete_row, on_success, on_network_error, Answers, WriteUsers, IgnoreError,
      DeleteLogin, _notify_new_data, DeleteReturns, uiVars, vars

LEMMA ScreenStep ==
  ASSUME TypeInv, StartInv, ~crashed, HooksInv, UpdatesInv, [Next]_vars, ~crashed',
         NEW o \in Observers, OwnHandles(o)'
  PROVE  ScreenInv(o)'
<1> USE DEF uiVars, handleVars, startVars
<1>0. None \notin Handles /\ None \notin Observers
  BY UserListAssumption
<1>1. /\ m_observer \in [Handles -> Observers \cup {None}]
      /\ m_prev_rows \in [Handles -> Seq(Row) \cup {None}]
      /\ {hooks, running, calling} \subseteq Handles \cup {None}
      /\ github_users \in Users /\ ui_queue \in Seq(UpdateMsg) /\ Len(ui_queue) \in Nat
  BY DEF TypeInv, TypeOK
<1>2. ScreenInv(o) /\ OwnHandles(o)
  BY OwnBefore DEF UpdatesInv
<1>3. ASSUME UNCHANGED <<ui_queue, shown, m_prev_rows, started>>,
             \A h \in Handles : h \in {hooks', calling'} /\ m_prev_rows[h] # None
                                  => h \in {hooks, calling}
      PROVE  ScreenInv(o)'
  <2>1. Notifying' = {h \in Handles : h \in {hooks', calling'}}
    BY DEF Notifying
  <2>2. ScreenInv(o)' <=> /\ Follow(o, ui_queue, shown[o])
                          /\ PrevIsLast(o, ui_queue, shown[o], m_prev_rows, started, Notifying')
    BY <1>3 DEF ScreenInv
  <2>3. \A h \in Notifying' : m_prev_rows[h] # None => h \in Notifying
    BY <1>3, <2>1 DEF Notifying
  <2> QED BY <1>2, <2>2, <2>3 DEF ScreenInv, PrevIsLast
<1>4. ASSUME NEW h \in Handles, observer_user_list(h) PROVE ScreenInv(o)'
  <2>1. status[h] = "absent" /\ hooks' = h
        /\ UNCHANGED <<ui_queue, shown, m_prev_rows, started, calling>>
    BY <1>4 DEF observer_user_list
  <2> QED BY <1>3, <2>1 DEF HooksInv
<1>5. ASSUME NEW h \in Handles, NEW p \in Observers, start(h, p) PROVE ScreenInv(o)'
  <2>1. /\ started' = started \cup {<<h, p>>} /\ UNCHANGED <<ui_queue, shown, m_prev_rows>>
        /\ UNCHANGED <<hooks, calling>>
    BY <1>5 DEF start
  \* A handle that the observer is new to has had no other, and has told no one yet.
  <2>2. ASSUME NEW g \in Handles, <<g, o>> \in started', <<g, o>> \notin started,
               NoNull(ui_queue, Len(ui_queue))
        PROVE  m_prev_rows[g] = None
    <3>1. \A s \in Observers : <<g, s>> \notin started
      <4> SUFFICES ASSUME NEW s \in Observers, <<g, s>> \in started PROVE FALSE
        OBVIOUS
      <4>1. <<g, s>> \in started' /\ <<g, s>>[1] = <<g, o>>[1] /\ <<g, o>>[2] = o
        BY <2>1
      <4>2. <<g, s>> = <<g, o>>
        BY <2>2, <4>1 DEF OwnHandles
      <4> QED BY <2>2, <4>2
    <3>2. m_observer[g] = None
      BY <1>1, <3>1 DEF StartInv
    <3> QED BY <2>2, <3>2 DEF HooksInv
  <2>3. ASSUME NEW g \in Handles, <<g, o>> \in started', NoNull(ui_queue, Len(ui_queue)),
               g \in {hooks, calling}, m_prev_rows[g] # None
        PROVE  \A rows \in ScreenAfter(ui_queue, shown[o], o, Len(ui_queue)) : m_prev_rows[g] = rows
    BY <1>2, <2>2, <2>3 DEF ScreenInv, PrevIsLast, Notifying
  <2>4. PrevIsLast(o, ui_queue, shown[o], m_prev_rows, started', Notifying)
    BY <2>3 DEF PrevIsLast, Notifying
  <2>5. Notifying' = Notifying
    BY <2>1 DEF Notifying
  <2> QED BY <1>2, <2>1, <2>4, <2>5 DEF ScreenInv
<1>6. CASE on_update
  <2> DEFINE q == Tail(ui_queue)
             s == IF ui_queue[1].observer = o THEN ui_queue[1].rows ELSE shown[o]
  <2>1. /\ ui_queue # <<>> /\ ui_queue' = q /\ ui_queue[1].observer # None /\ shown'[o] = s
        /\ UNCHANGED <<hooks, calling, m_prev_rows, started>>
    BY <1>2, <1>6, UpdateShown DEF ShowsHead, on_update
  <2>2. /\ q \in Seq(UpdateMsg) /\ Len(q) + 1 = Len(ui_queue) /\ Len(q) \in Nat
        /\ \A i \in 1 .. Len(q) : q[i] = ui_queue[i + 1]
    <3>1. /\ q \in Seq(UpdateMsg) /\ Len(q) = Len(ui_queue) - 1 /\ Len(ui_queue) \in Nat \ {0}
          /\ \A i \in 1 .. Len(q) : q[i] = ui_queue[i + 1]
      BY <1>1, <2>1, Taken
    <3> QED BY <3>1
  <2>3. ASSUME NEW n \in 0 .. Len(q)
        PROVE  /\ NoNull(q, n) => NoNull(ui_queue, n + 1)
               /\ \A rows \in ScreenAfter(q, s, o, n) : rows \in ScreenAfter(ui_queue, shown[o], o, n + 1)
    <3>1. NoNull(q, n) => NoNull(ui_queue, n + 1)
      BY <1>1, <2>1, NoNullShown
    <3>2. ASSUME NEW rows \in ScreenAfter(q, s, o, n)
          PROVE  rows \in ScreenAfter(ui_queue, shown[o], o, n + 1)
      BY <1>1, <2>1, ScreenShown
    <3> QED BY <3>1, <3>2
  <2> HIDE DEF q, s
  <2>4. ASSUME NEW i \in 1 .. Len(q), q[i].observer = o, NoNull(q, i),
               NEW rows \in ScreenAfter(q, s, o, i - 1)
        PROVE  Follows(rows, q[i])
    <3>1. /\ i \in 0 .. Len(q) /\ i - 1 \in 0 .. Len(q) /\ i + 1 \in 1 .. Len(ui_queue)
          /\ (i - 1) + 1 = i /\ (i + 1) - 1 = i
      BY <2>2
    <3>2. NoNull(ui_queue, i + 1) /\ q[i] = ui_queue[i + 1]
      BY <2>2, <2>3, <2>4, <3>1
    <3>3. rows \in ScreenAfter(ui_queue, shown[o], o, (i - 1) + 1)
      BY <2>3, <3>1
    <3>4. rows \in ScreenAfter(ui_queue, shown[o], o, (i + 1) - 1)
      BY <3>1, <3>3
    <3> QED BY <1>2, <2>4, <3>1, <3>2, <3>4 DEF ScreenInv, Follow
  <2>5. ASSUME NEW h \in Notifying, <<h, o>> \in started, NoNull(q, Len(q)), m_prev_rows[h] # None, NEW rows \in ScreenAfter(q, s, o, Len(q))
        PROVE  m_prev_rows[h] = rows
    <3>1. Len(q) \in 0 .. Len(q)
      BY <2>2
    <3>2. NoNull(ui_queue, Len(ui_queue)) /\ rows \in ScreenAfter(ui_queue, shown[o], o, Len(ui_queue))
      BY <2>2, <2>3, <2>5, <3>1
    <3> QED BY <1>2, <2>5, <3>2 DEF ScreenInv, PrevIsLast
  <2>6. Follow(o, q, s)
    BY <2>4 DEF Follow
  <2>7. PrevIsLast(o, q, s, m_prev_rows, started, Notifying)
    BY <2>5 DEF PrevIsLast
  <2>8. Notifying' = Notifying
    BY <2>1 DEF Notifying
  <2> QED BY <2>1, <2>6, <2>7, <2>8 DEF ScreenInv
<1>7. CASE _notify_new_data
  <2> DEFINE h == calling
             new_rows == list_rows(github_users)
             prev == m_prev_rows[h]
             diff == IF prev = None THEN None ELSE EntityDiff(prev, new_rows)
             msg == [observer |-> m_observer[h], diff |-> diff, rows |-> new_rows, handle |-> h]
             n == Len(ui_queue)
             q == Append(ui_queue, msg)
  <2>1. h \in Handles /\ calling' = None /\ UNCHANGED <<hooks, started, shown>> /\ Alive(h)
    BY <1>1, <1>7 DEF _notify_new_data
  <2>2. m_prev_rows' = [m_prev_rows EXCEPT ![h] = new_rows] /\ ui_queue' = q
    BY <1>7, <2>1 DEF _notify_new_data
  <2>3. SortedById(new_rows) /\ new_rows \in Seq(Row)
    BY <1>1, ListRowsIs
  <2>4. /\ msg \in UpdateMsg /\ msg.observer = m_observer[h] /\ msg.diff = diff
        /\ msg.rows = new_rows
    BY <2>1, NotifyMsg DEF TypeInv
  <2>5. prev \in Seq(Row) \cup {None} /\ (prev # None => SortedById(prev))
    BY <1>1, <2>1 DEF HooksInv
  <2>6. m_observer[h] = o => <<h, o>> \in started
    BY <1>0, <2>1 DEF StartInv
  \* The handles of this observer have no other, so that the one notified tells it.
  <2>7. <<h, o>> \in started => m_observer[h] = o
    <3> SUFFICES ASSUME <<h, o>> \in started PROVE m_observer[h] = o
      OBVIOUS
    <3>1. <<h, m_observer[h]>> \in started
      BY <2>1 DEF StartInv
    <3>2. <<h, m_observer[h]>> = <<h, o>>
      <4>1. <<h, m_observer[h]>>[1] = <<h, o>>[1] /\ <<h, o>>[2] = o
        OBVIOUS
      <4> QED BY <1>2, <3>1, <4>1 DEF OwnHandles
    <3> QED BY <3>2
  <2>8. prev # None /\ <<h, o>> \in started /\ NoNull(ui_queue, n) =>
          \A rows \in ScreenAfter(ui_queue, shown[o], o, n) : prev = rows
    BY <1>2, <2>1 DEF ScreenInv, PrevIsLast, Notifying
  <2>9. m_prev_rows'[h] = new_rows /\ \A g \in Handles \ {h} : m_prev_rows'[g] = m_prev_rows[g]
    BY <1>1, <2>1, <2>2
  <2>10. /\ q[n + 1] = msg /\ Len(q) = n + 1
         /\ \A i \in 1 .. n : q[i] = ui_queue[i]
    BY <1>1, <2>4, Posted
  <2>11. NoNull(q, n + 1) => msg.observer # None /\ NoNull(ui_queue, n)
    BY <1>1, <2>4, <2>10, NoNullPosted
  <2>12. ASSUME NEW rows \in ScreenAfter(q, shown[o], o, n + 1)
         PROVE  \/ msg.observer = o /\ rows = new_rows
                \/ msg.observer # o /\ rows \in ScreenAfter(ui_queue, shown[o], o, n)
    BY <1>1, <2>4, ScreenPosted
  <2>13. ASSUME NEW i \in 0 .. n
         PROVE  ScreenAfter(q, shown[o], o, i) = ScreenAfter(ui_queue, shown[o], o, i)
    <3>1. i \in Nat /\ \A j \in 1 .. i : q[j] = ui_queue[j]
      BY <1>1, <2>10
    <3> HIDE DEF q
    <3> QED BY <3>1, ScreenSame
  <2>14. n \in Nat
    BY <1>1
  <2> HIDE DEF q, n, msg, new_rows
  \* The update follows those queued before it, which were not changed.
  <2>15. ASSUME NEW i \in 1 .. n + 1, q[i].observer = o, NoNull(q, i),
                NEW rows \in ScreenAfter(q, shown[o], o, i - 1)
         PROVE  Follows(rows, q[i])
    <3>1. i - 1 \in 0 .. n
      BY <2>14
    <3>2. rows \in ScreenAfter(ui_queue, shown[o], o, i - 1)
      BY <2>13, <3>1
    <3>3. CASE i = n + 1
      <4>1. m_observer[h] = o /\ <<h, o>> \in started /\ i - 1 = n /\ q[i] = msg
        BY <2>4, <2>6, <2>10, <2>14, <2>15, <3>3
      <4>2. NoNull(ui_queue, n)
        BY <2>11, <2>15, <3>3
      <4>3. prev # None => prev = rows
        BY <2>8, <3>2, <4>1, <4>2
      <4>4. diff = None \/ (rows \in Seq(Row) /\ SortedById(rows) /\ diff = EntityDiff(rows, new_rows))
        <5> HIDE DEF prev, h
        <5> QED BY <2>5, <4>3
      <4> HIDE DEF diff
      <4> QED BY <2>3, <2>4, <4>1, <4>4 DEF Follows
    <3>4. CASE i # n + 1
      <4>1. i \in 1 .. n /\ q[i] = ui_queue[i] /\ \A j \in 1 .. i : q[j] = ui_queue[j]
        BY <2>10, <2>14, <3>4
      <4>2. NoNull(ui_queue, i)
        BY <2>15, <4>1 DEF NoNull
      <4> QED BY <1>2, <2>15, <3>2, <4>1, <4>2 DEF ScreenInv, Follow, n
    <3> QED BY <3>3, <3>4
  <2>16. ASSUME NEW g \in Notifying', <<g, o>> \in started, NoNull(q, n + 1),
                m_prev_rows'[g] # None,
                NEW rows \in ScreenAfter(q, shown[o], o, n + 1)
         PROVE  m_prev_rows'[g] = rows
    <3>1. g = hooks /\ g \in Handles
      BY <1>0, <2>1 DEF Notifying
    <3>2. g = h
      BY <2>1, <2>9, <2>16, <3>1 DEF HooksInv
    <3>3. msg.observer = o
      BY <2>4, <2>7, <2>16, <3>2
    <3> QED BY <2>9, <2>12, <3>2, <3>3
  <2>17. Follow(o, q, shown[o])
    BY <2>10, <2>15 DEF Follow
  <2>18. PrevIsLast(o, q, shown[o], m_prev_rows', started, Notifying')
    BY <2>10, <2>16 DEF PrevIsLast
  <2> QED BY <2>1, <2>2, <2>17, <2>18 DEF ScreenInv
<1>8. CASE WriteUsers \/ IgnoreError \/ DeleteLogin
  <2>1. /\ calling' = hooks \/ calling' = None \/ calling' = calling
        /\ UNCHANGED <<ui_queue, shown, m_prev_rows, started, hooks>>
    BY <1>8 DEF WriteUsers, IgnoreError, DeleteLogin
  <2> QED BY <1>0, <1>3, <2>1
<1>9. ASSUME NEW h \in Handles, ClearHooks(h) PROVE ScreenInv(o)'
  BY <1>0, <1>3, <1>9 DEF ClearHooks
<1>10. CASE UNCHANGED <<ui_queue, shown, m_prev_rows, started, hooks, calling>>
  BY <1>3, <1>10
<1> QED
  BY <1>4, <1>5, <1>6, <1>7, <1>8, <1>9, <1>10
  DEF Next, Bg, Network, Rest, ReleaseHandle, delete_row, on_success, on_network_error,
      Answers, DeleteReturns, vars

\* A handle that was started is not absent.
LEMMA StartedMade ==
  ASSUME StartInv, HooksInv, NEW h \in Handles, NEW o \in Observers, <<h, o>> \in started
  PROVE  status[h] # "absent"
BY DEF StartInv, HooksInv

LEMMA TableStep ==
  ASSUME TypeInv, StartInv, ~crashed, HooksInv, UpdatesInv, TablesInv, [Next]_vars, ~crashed',
         NEW h \in Handles, status'[h] = "held", OnlyHandle(h)'
  PROVE  TableInv(h)'
<1> USE DEF uiVars, handleVars, startVars
<1>0. None \notin Handles /\ None \notin Observers
  BY UserListAssumption
<1>1. /\ status \in [Handles -> {"absent", "held", "released", "dying", "gone"}]
      /\ {hooks, running, calling} \subseteq Handles \cup {None}
      /\ github_users \in Users /\ ui_queue \in Seq(UpdateMsg) /\ Len(ui_queue) \in Nat
      /\ bg_queue \in Seq(Tasks)
  BY DEF TypeInv, TypeOK
<1>2. \A g \in Handles : g # h => status'[g] = "absent"
  BY DEF OnlyHandle
\* The rows its updates end with, as far as the property speaks of them.
<1> DEFINE Told(o) == OwnHandles(o) /\ <<h, o>> \in started /\ Filled(o)
                        /\ NoNull(ui_queue, Len(ui_queue)) /\ calling = None
           End(o) == ScreenAfter(ui_queue, shown[o], o, Len(ui_queue))
           Same(o) == \A rows \in End(o) : rows = list_rows(github_users)
<1>3. ASSUME hooks' = h, \A o \in Observers : Told(o)' => Same(o)' PROVE TableInv(h)'
  BY <1>3 DEF TableInv
<1>4. TableInv(h) <=> hooks = h /\ \A o \in Observers : Told(o) => Same(o)
  BY DEF TableInv
<1> HIDE DEF Told, Same
<1>5. ASSUME status[h] = "held", \A g \in Handles : status'[g] = "absent" => status[g] = "absent"
      PROVE  TableInv(h)
  BY <1>2, <1>5 DEF TablesInv, OnlyHandle
\* A step that changes neither the table nor what is shown, posted or notified.
<1>6. ASSUME UNCHANGED <<github_users, hooks, calling, ui_queue, vm, shown, started>>, TableInv(h)
      PROVE  TableInv(h)'
  <2>1. \A o \in Observers : Told(o)' <=> Told(o)
    BY <1>6 DEF Told, OwnHandles, Filled, NoNull
  <2>2. \A o \in Observers : Same(o)' <=> Same(o)
    BY <1>6 DEF Same, ScreenAfter, LastFor
  <2> QED BY <1>3, <1>4, <1>6, <2>1, <2>2
<1>7. ASSUME NEW g \in Handles, observer_user_list(g) PROVE TableInv(h)'
  <2>1. /\ status[g] = "absent" /\ status' = [status EXCEPT ![g] = "held"] /\ hooks' = g
        /\ UNCHANGED <<started, ui_queue, vm>>
    BY <1>7 DEF observer_user_list
  <2>2. g = h
    BY <1>1, <1>2, <2>1
  <2>3. ASSUME NEW o \in Observers PROVE ~Told(o)'
    <3>1. <<h, o>> \notin started
      BY <2>1, <2>2, StartedMade
    <3> QED BY <2>1, <3>1 DEF Told
  <2> QED BY <1>3, <2>1, <2>2, <2>3
<1>8. ASSUME NEW g \in Handles, NEW p \in Observers, start(g, p) PROVE TableInv(h)'
  <2>1. /\ started' = started \cup {<<g, p>>}
        /\ UNCHANGED <<github_users, hooks, status, calling, ui_queue, vm, shown>>
    BY <1>8 DEF start
  <2>2. TableInv(h)
    BY <1>5, <2>1
  <2>3. ASSUME NEW o \in Observers, Told(o)' PROVE Told(o)
    <3>1. OwnHandles(o) /\ Filled(o) /\ NoNull(ui_queue, Len(ui_queue)) /\ calling = None
      BY <2>1, <2>3, OwnBefore DEF Told, Filled, NoNull
    \* What the observer has got, or will, comes from the only handle.
    <3>2. PICK k \in Handles : <<k, o>> \in started
      <4>1. CASE vm[o] # None
        BY <4>1 DEF StartInv, TypeInv, TypeOK
      <4>2. CASE vm[o] = None
        <5>1. PICK i \in 1 .. Len(ui_queue) : ui_queue[i].observer = o
          BY <3>1, <4>2 DEF Filled
        <5>2. ui_queue[i] \in UpdateMsg
          BY <1>1
        <5>3. <<ui_queue[i].handle, o>> \in started /\ ui_queue[i].handle \in Handles
          BY <1>0, <5>1, <5>2 DEF StartInv, UpdateMsg
        <5> QED BY <5>3
      <4> QED BY <4>1, <4>2
    <3>3. k = h
      BY <1>2, <2>1, <3>2, StartedMade
    <3> QED BY <3>1, <3>2, <3>3 DEF Told
  <2>4. \A o \in Observers : Same(o)' <=> Same(o)
    BY <2>1 DEF Same, ScreenAfter, LastFor
  <2> QED BY <1>3, <1>4, <2>1, <2>2, <2>3, <2>4
<1>9. ASSUME NEW g \in Handles, ReleaseHandle(g) PROVE TableInv(h)'
  <2>1. /\ status[g] = "held" /\ status'[g] \in {"released", "dying"}
        /\ \A k \in Handles \ {g} : status'[k] = status[k]
        /\ UNCHANGED <<github_users, hooks, calling, ui_queue, vm, shown, started>>
    BY <1>1, <1>9 DEF ReleaseHandle
  <2> QED BY <1>2, <2>1
<1>10. ASSUME NEW g \in Handles, ClearHooks(g) PROVE TableInv(h)'
  <2>1. status'[g] = "gone"
    BY <1>1, <1>10 DEF ClearHooks
  <2> QED BY <1>2, <2>1
<1>11. ASSUME NEW o \in Observers, NEW index \in 0 .. MaxId - 1, delete_row(o, index)
       PROVE  TableInv(h)'
  BY <1>5, <1>6, <1>11 DEF delete_row
<1>12. CASE on_update
  <2> DEFINE q == Tail(ui_queue)
  <2>1. /\ ui_queue # <<>> /\ ui_queue' = q /\ Head(ui_queue).observer # None
        /\ UNCHANGED <<github_users, hooks, status, calling, started>>
    BY <1>12 DEF on_update
  <2>2. /\ q \in Seq(UpdateMsg) /\ Len(q) + 1 = Len(ui_queue) /\ Len(q) \in Nat
        /\ Head(ui_queue) = ui_queue[1] /\ 1 \in 1 .. Len(ui_queue)
        /\ \A i \in 1 .. Len(q) : q[i] = ui_queue[i + 1] /\ i + 1 \in 1 .. Len(ui_queue)
    <3>1. /\ q \in Seq(UpdateMsg) /\ Len(q) = Len(ui_queue) - 1 /\ Len(ui_queue) \in Nat \ {0}
          /\ Head(ui_queue) = ui_queue[1] /\ \A i \in 1 .. Len(q) : q[i] = ui_queue[i + 1]
      BY <1>1, <2>1, Taken
    <3> QED BY <3>1
  <2>3. TableInv(h)
    BY <1>5, <2>1
  <2>4. ASSUME NEW o \in Observers, Told(o)' PROVE Same(o)'
    <3>1. OwnHandles(o) /\ <<h, o>> \in started /\ calling = None /\ NoNull(q, Len(q))
          /\ Filled(o)'
      BY <2>1, <2>4, OwnBefore DEF Told
    <3>2. ShowsHead(o)
      BY <1>12, <3>1, UpdateShown DEF UpdatesInv
    <3>3. NoNull(ui_queue, Len(ui_queue))
      <4>1. Len(q) \in 0 .. Len(q)
        BY <2>2
      <4>2. NoNull(ui_queue, Len(q) + 1)
        BY <1>1, <2>1, <2>2, <3>1, <4>1, NoNullShown
      <4> QED BY <2>2, <4>2
    <3>4. Filled(o)
      <4>1. CASE ui_queue[1].observer = o
        BY <2>2, <4>1 DEF Filled
      <4>2. CASE ui_queue[1].observer # o
        <5>1. vm'[o] = vm[o]
          BY <3>2, <4>2 DEF ShowsHead
        <5> QED BY <2>1, <2>2, <3>1, <5>1 DEF Filled
      <4> QED BY <4>1, <4>2
    <3>5. Same(o)
      BY <1>4, <2>3, <3>1, <3>3, <3>4 DEF Told
    <3> DEFINE s == IF ui_queue[1].observer = o THEN ui_queue[1].rows ELSE shown[o]
    <3>6. ASSUME NEW rows \in ScreenAfter(q, s, o, Len(q)) PROVE rows \in End(o)
      <4>1. Len(q) \in 0 .. Len(q)
        BY <2>2
      <4>2. rows \in ScreenAfter(ui_queue, shown[o], o, Len(q) + 1)
        BY <1>1, <2>1, <4>1, ScreenShown
      <4> QED BY <2>2, <4>2
    <3>7. End(o)' = ScreenAfter(q, s, o, Len(q))
      BY <2>1, <3>2 DEF ShowsHead
    <3> HIDE DEF End, s, q
    <3> QED BY <2>1, <3>5, <3>6, <3>7 DEF Same
  <2> QED BY <1>3, <1>4, <2>1, <2>3, <2>4
<1>13. ASSUME NEW task, Answers(task) PROVE TableInv(h)'
  BY <1>5, <1>6, <1>13 DEF Answers
\* A commit that changed the table is about to be reported.
<1>14. ASSUME BgIdle, UNCHANGED <<status, hooks, ui_queue, vm, shown, started>>,
              calling' = hooks \/ (github_users' = github_users /\ calling' = None)
       PROVE  TableInv(h)'
  <2>1. TableInv(h) /\ hooks = h
    BY <1>4, <1>5, <1>14
  <2>2. CASE calling' = hooks
    BY <1>0, <1>3, <1>14, <2>1, <2>2 DEF Told
  <2>3. CASE github_users' = github_users /\ calling' = None
    BY <1>6, <1>14, <2>1, <2>3 DEF BgIdle
  <2> QED BY <1>14, <2>2, <2>3
<1>15. CASE WriteUsers
  <2> DEFINE users == Head(bg_queue).users
  <2>1. /\ BgIdle /\ UNCHANGED <<status, hooks, ui_queue, vm, shown, started>>
        /\ github_users' = [k \in Ids |-> IF users[k] # None THEN users[k] ELSE github_users[k]]
        /\ calling' = IF \E k \in Ids : users[k] # None THEN hooks ELSE None
    BY <1>15 DEF WriteUsers
  <2>2. CASE \E k \in Ids : users[k] # None
    BY <1>14, <2>1, <2>2
  <2>3. CASE ~ \E k \in Ids : users[k] # None
    <3>1. github_users' = [k \in Ids |-> github_users[k]]
      BY <2>1, <2>3
    <3>2. github_users' = github_users
      BY <1>1, <3>1 DEF Users
    <3> QED BY <1>14, <2>1, <2>3, <3>2
  <2> QED BY <2>2, <2>3
<1>16. CASE IgnoreError
  BY <1>5, <1>6, <1>16 DEF IgnoreError
<1>17. CASE DeleteLogin
  <2> DEFINE gone == HasLogin(Head(bg_queue).login)
  <2>1. /\ BgIdle /\ UNCHANGED <<status, hooks, ui_queue, vm, shown, started>>
        /\ github_users' = [k \in Ids |-> IF k \in gone THEN None ELSE github_users[k]]
        /\ calling' = IF gone # {} THEN hooks ELSE None
    BY <1>17 DEF DeleteLogin
  <2> HIDE DEF gone
  <2>2. CASE gone # {}
    BY <1>14, <2>1, <2>2
  <2>3. CASE gone = {}
    <3>1. github_users' = [k \in Ids |-> github_users[k]]
      BY <2>1, <2>3
    <3>2. github_users' = github_users
      BY <1>1, <3>1 DEF Users
    <3> QED BY <1>14, <2>1, <2>3, <3>2
  <2> QED BY <2>2, <2>3
<1>18. CASE _notify_new_data
  <2> DEFINE c == calling
             new_rows == list_rows(github_users)
             diff == IF m_prev_rows[c] = None THEN None ELSE EntityDiff(m_prev_rows[c], new_rows)
             msg == [observer |-> m_observer[c], diff |-> diff, rows |-> new_rows, handle |-> c]
  <2>1. /\ c \in Handles /\ Alive(c)
        /\ UNCHANGED <<github_users, hooks, status, started, shown>>
    BY <1>1, <1>18 DEF _notify_new_data
  <2>2. ui_queue' = Append(ui_queue, msg)
    BY <1>18, <2>1 DEF _notify_new_data
  <2>3. c = h
    BY <1>2, <2>1 DEF HooksInv
  <2>4. msg \in UpdateMsg /\ msg.observer = m_observer[h] /\ msg.rows = new_rows
    BY <2>1, <2>3, NotifyMsg DEF TypeInv
  <2>5. TableInv(h)
    BY <1>5, <2>1
  <2> HIDE DEF msg
  <2>6. ASSUME NEW o \in Observers, Told(o)' PROVE Same(o)'
    <3>1. OwnHandles(o) /\ <<h, o>> \in started
      BY <2>1, <2>6, OwnBefore DEF Told
    <3>2. m_observer[h] = o
      <4>1. <<h, m_observer[h]>> \in started
        BY <3>1 DEF StartInv
      <4>2. <<h, m_observer[h]>>[1] = <<h, o>>[1] /\ <<h, o>>[2] = o
        OBVIOUS
      <4>3. <<h, m_observer[h]>> = <<h, o>>
        BY <3>1, <4>1, <4>2 DEF OwnHandles
      <4> QED BY <4>3
    <3>3. Len(ui_queue') = Len(ui_queue) + 1
      BY <1>1, <2>2, <2>4, Posted
    <3>4. ASSUME NEW rows \in End(o)' PROVE rows = new_rows
      <4>1. rows \in ScreenAfter(Append(ui_queue, msg), shown[o], o, Len(ui_queue) + 1)
        BY <2>1, <2>2, <3>3
      <4> QED BY <1>1, <2>4, <3>2, <4>1, ScreenPosted
    <3>5. new_rows = list_rows(github_users')
      BY <2>1
    <3> HIDE DEF End, new_rows
    <3> QED BY <3>4, <3>5 DEF Same
  <2> QED BY <1>3, <1>4, <2>1, <2>5, <2>6
<1>19. CASE DeleteReturns
  <2>1. /\ UNCHANGED <<github_users, hooks, calling, ui_queue, vm, shown, started>>
        /\ running \in Handles
        /\ status' = status \/ (status[running] = "released" /\ status' = [status EXCEPT ![running] = "dying"])
    BY <1>1, <1>19 DEF DeleteReturns, LastReference
  <2>2. status[h] = "held" /\ \A g \in Handles : status'[g] = "absent" => status[g] = "absent"
    BY <1>1, <2>1
  <2> QED BY <1>5, <1>6, <2>1, <2>2
<1>20. CASE UNCHANGED vars
  BY <1>5, <1>6, <1>20 DEF vars
<1> QED
  BY <1>7, <1>8, <1>9, <1>10, <1>11, <1>12, <1>13, <1>15, <1>16, <1>17, <1>18, <1>19, <1>20
  DEF Next, Bg, Network, Rest, on_success, on_network_error

LEMMA IInvStart == ASSUME Init PROVE IInv
<1>1. Len(<<>>) = 0 /\ 1 .. 0 = {}
  OBVIOUS
<1>2. StartInv /\ ScreensFollow
  BY <1>1 DEF Init, StartInv, ScreensFollow
<1>3. HooksInv
  BY UserListAssumption DEF Init, HooksInv
<1>4. UpdatesInv
  <2>1. 1 .. Len(ui_queue) = {} /\ \A h \in Handles : m_prev_rows[h] = None
    BY <1>1 DEF Init
  <2>2. Notifying \subseteq Handles
    BY DEF Notifying
  <2> QED BY <2>1, <2>2 DEF UpdatesInv, ScreenInv, Follow, PrevIsLast
<1>5. TablesInv
  BY DEF Init, TablesInv
<1> QED
  BY <1>2, <1>3, <1>4, <1>5 DEF IInv

LEMMA IInvStep == TypeInv /\ IInv /\ [Next]_vars => IInv'
<1> SUFFICES ASSUME TypeInv, IInv, [Next]_vars PROVE IInv'
  OBVIOUS
<1>1. StartInv' /\ ScreensFollow'
  BY StartStep, FollowStep DEF IInv
<1>2. ASSUME ~crashed' PROVE ~crashed
  BY <1>2, CrashedRests DEF vars
<1>3. ASSUME ~crashed' PROVE HooksInv'
  BY <1>2, <1>3, HooksStep DEF IInv
<1>4. ASSUME ~crashed' PROVE UpdatesInv'
  <2> SUFFICES ASSUME NEW o \in Observers, OwnHandles(o)' PROVE ScreenInv(o)'
    BY DEF UpdatesInv
  <2> QED BY <1>2, <1>4, ScreenStep DEF IInv
<1>5. ASSUME ~crashed' PROVE TablesInv'
  <2> SUFFICES ASSUME NEW h \in Handles, status'[h] = "held", OnlyHandle(h)' PROVE TableInv(h)'
    BY DEF TablesInv
  <2> QED BY <1>2, <1>5, TableStep DEF IInv
<1> QED
  BY <1>1, <1>3, <1>4, <1>5 DEF IInv

\* For any number of handles and observers: the diffs arrive complete, in order and relative
\* to what the screen shows, at every observer whose handles are its own; and only a handle
\* that took the hooks of one that was started tells a null observer.
THEOREM ShownCorrect == Spec => []ShownIsViewModel
<1>1. TypeInv /\ IInv => ShownIsViewModel
  <2> SUFFICES ASSUME TypeInv, StartInv, ScreensFollow PROVE ShownIsViewModel
    BY DEF IInv
  <2>1. NullNeedsAnotherList
    BY DEF StartInv, NullNeedsAnotherList
  <2> QED BY <2>1 DEF ShownIsViewModel
<1> QED
  BY <1>1, IInvStart, IInvStep, TypeStart, TypeStep, PTL DEF Spec

\* When nothing is pending, the only list, held and filled, shows the table.
THEOREM ListCurrent == Spec => []ListIsCurrent
<1>1. TypeInv /\ IInv => ListIsCurrent
  <2> SUFFICES ASSUME TypeInv, StartInv, ScreensFollow, UpdatesInv, TablesInv, Quiet,
                      NEW o \in Observers, vm[o] # None, status[vm[o].handle] = "held",
                      OnlyList(o)
               PROVE  vm[o].rows = list_rows(github_users)
    BY DEF IInv, ListIsCurrent
  <2> DEFINE h == vm[o].handle
  <2>1. h \in Handles /\ <<h, o>> \in started
    BY DEF StartInv, TypeInv, TypeOK
  <2>2. OnlyHandle(h) /\ OwnHandles(o)
    <3>1. <<h, o>>[2] = o /\ <<h, o>>[1] = h
      OBVIOUS
    <3> QED BY <2>1, <3>1 DEF OnlyList
  <2>3. TableInv(h)
    BY <2>1, <2>2 DEF TablesInv
  <2>4. ui_queue = <<>> /\ calling = None /\ Len(<<>>) = 0
    BY DEF Quiet
  <2>5. NoNull(ui_queue, Len(ui_queue)) /\ shown[o] \in ScreenAfter(ui_queue, shown[o], o, Len(ui_queue))
    BY <2>4, ScreenNow DEF NoNull
  <2>6. shown[o] = list_rows(github_users)
    BY <2>1, <2>2, <2>3, <2>4, <2>5 DEF TableInv, Filled
  <2> QED BY <2>2, <2>6 DEF ScreensFollow
<1> QED
  BY <1>1, IInvStart, IInvStep, TypeStart, TypeStep, PTL DEF Spec
==============================================================================
