------------------------------ MODULE EventLoop ------------------------------
(***************************************************************************)
(* EventLoopCpp (src/event_loop.cpp): a queue of tasks, the thread that    *)
(* runs them, the threads that post, and the destructor that stops the     *)
(* thread and waits for it.                                                *)
(*                                                                         *)
(* Each critical section of m_task_mutex or m_done_mutex is one action:    *)
(* nothing else touches what the mutex protects while it is held.  What    *)
(* the code does outside a lock (both notify_one calls, running a task)    *)
(* is an action of its own.  A condition variable loses a notification     *)
(* nobody waits for, and a waiter may wake up spuriously.                  *)
(*                                                                         *)
(* The loop is held through shared_ptr.  Clients are the threads that hold *)
(* a reference; a task of Owning is one whose closure holds one too        *)
(* (UserListVmHandle::delete_login captures the handle, which holds the    *)
(* loop).  Whoever drops the last reference runs the destructor.           *)
(***************************************************************************)
EXTENDS Naturals, Sequences

CONSTANTS
  Tasks,      \* the calls to post() that can be made; each is made at most once
  Clients,    \* the threads other than the loop's that hold the loop
  Owning,     \* the tasks whose closure keeps the loop alive
  None,       \* "no task", "no thread"
  LoopThread  \* the thread start_thread() launched

ASSUME EventLoopAssumption ==
  /\ Clients # {}
  /\ Owning \subseteq Tasks
  /\ Tasks \cap Clients = {}
  /\ None \notin Tasks \cup Clients
  /\ LoopThread \notin Clients \cup {None}

VARIABLES
  m_queue,    \* the pending tasks
  m_stop,     \* the destructor asked the thread to stop
  m_done,     \* the thread has left its loop
  alive,      \* the members above are not destroyed yet
  loopPc,     \* where the loop thread is
  task,       \* the task it has taken and not finished
  clientPc,   \* where each client is: outside post(), or about to notify
  refs,       \* the holders of a shared_ptr to the loop
  dtor,       \* how far the destructor is
  dtorBy,     \* the thread that runs it
  posted,     \* history: every task ever enqueued, in order
  finished    \* history: how many tasks have returned

loopVars == <<loopPc, task>>
dtorVars == <<dtor, dtorBy>>
vars == <<m_queue, m_stop, m_done, alive, loopPc, task, clientPc, refs,
          dtor, dtorBy, posted, finished>>

LoopStates == {"check", "waiting", "running", "run_notify", "in_dtor",
               "finish", "notify_done", "exited"}
DtorStates == {"none", "stop", "notify", "check", "waiting", "returned"}

TypeOK ==
  /\ m_queue \in Seq(Tasks)
  /\ m_stop \in BOOLEAN
  /\ m_done \in BOOLEAN
  /\ alive \in BOOLEAN
  /\ loopPc \in LoopStates
  /\ task \in Tasks \cup {None}
  /\ clientPc \in [Clients -> {"idle", "notify"}]
  /\ refs \subseteq Clients \cup Owning
  /\ dtor \in DtorStates
  /\ dtorBy \in Clients \cup {None, LoopThread}
  /\ posted \in Seq(Tasks)
  /\ finished \in Nat

\* The constructor launches the thread; its first act is to check for work.
Init ==
  /\ m_queue = <<>>
  /\ m_stop = FALSE
  /\ m_done = FALSE
  /\ alive = TRUE
  /\ loopPc = "check"
  /\ task = None
  /\ clientPc = [c \in Clients |-> "idle"]
  /\ refs = Clients
  /\ dtor = "none"
  /\ dtorBy = None
  /\ posted = <<>>
  /\ finished = 0

------------------------------------------------------------------------------
\* post(): enqueue under the lock, then notify_one without it.

Posted == {posted[i] : i \in 1 .. Len(posted)}

Enqueue(t) ==
  /\ t \notin Posted
  /\ m_queue' = Append(m_queue, t)
  /\ posted' = Append(posted, t)
  /\ refs' = refs \cup ({t} \cap Owning)

\* m_task_cv.notify_one(): only the loop thread ever waits on it.
NotifyTaskCv == loopPc' = IF loopPc = "waiting" THEN "check" ELSE loopPc

\* Mutant of ClientPost: the notification is forgotten.
ClientPostSilent(c, t) ==
  /\ c \in refs
  /\ clientPc[c] = "idle"
  /\ Enqueue(t)
  /\ UNCHANGED <<m_stop, m_done, alive, loopVars, clientPc, dtorVars, finished>>

ClientPost(c, t) ==
  /\ c \in refs
  /\ clientPc[c] = "idle"
  /\ Enqueue(t)
  /\ clientPc' = [clientPc EXCEPT ![c] = "notify"]
  /\ UNCHANGED <<m_stop, m_done, alive, loopVars, dtorVars, finished>>

\* Mutant of ClientNotify: the notification goes to another condition variable.
ClientNotifyAstray(c) ==
  /\ clientPc[c] = "notify"
  /\ clientPc' = [clientPc EXCEPT ![c] = "idle"]
  /\ UNCHANGED <<m_queue, m_stop, m_done, alive, loopVars, refs, dtorVars,
                 posted, finished>>

ClientNotify(c) ==
  /\ clientPc[c] = "notify"
  /\ NotifyTaskCv
  /\ clientPc' = [clientPc EXCEPT ![c] = "idle"]
  /\ UNCHANGED <<m_queue, m_stop, m_done, alive, task, refs, dtorVars,
                 posted, finished>>

\* A client outside post() drops its reference; the last one enters ~EventLoopCpp.
ClientRelease(c) ==
  /\ c \in refs
  /\ clientPc[c] = "idle"
  /\ refs' = refs \ {c}
  /\ IF refs' = {} THEN dtor' = "stop" /\ dtorBy' = c ELSE UNCHANGED dtorVars
  /\ UNCHANGED <<m_queue, m_stop, m_done, alive, loopVars, clientPc,
                 posted, finished>>

------------------------------------------------------------------------------
\* _run_loop(): wait for work or for the stop flag; the flag wins.

LoopWait ==
  /\ loopPc = "check"
  /\ ~m_stop
  /\ m_queue = <<>>
  /\ loopPc' = "waiting"
  /\ UNCHANGED <<m_queue, m_stop, m_done, alive, task, clientPc, refs,
                 dtorVars, posted, finished>>

\* Mutant of LoopTake: the newest task first.
LoopTakeNewest ==
  /\ loopPc = "check"
  /\ ~m_stop
  /\ m_queue # <<>>
  /\ task' = m_queue[Len(m_queue)]
  /\ m_queue' = SubSeq(m_queue, 1, Len(m_queue) - 1)
  /\ loopPc' = "running"
  /\ UNCHANGED <<m_stop, m_done, alive, clientPc, refs, dtorVars, posted,
                 finished>>

LoopTake ==
  /\ loopPc = "check"
  /\ ~m_stop
  /\ m_queue # <<>>
  /\ task' = Head(m_queue)
  /\ m_queue' = Tail(m_queue)
  /\ loopPc' = "running"
  /\ UNCHANGED <<m_stop, m_done, alive, clientPc, refs, dtorVars, posted,
                 finished>>

LoopBreak ==
  /\ loopPc = "check"
  /\ m_stop
  /\ loopPc' = "finish"
  /\ UNCHANGED <<m_queue, m_stop, m_done, alive, task, clientPc, refs,
                 dtorVars, posted, finished>>

\* A running task posts to its own loop, which somebody must still hold.
TaskPost(t) ==
  /\ loopPc = "running"
  /\ refs # {}
  /\ Enqueue(t)
  /\ loopPc' = "run_notify"
  /\ UNCHANGED <<m_stop, m_done, alive, task, clientPc, dtorVars, finished>>

TaskNotify ==
  /\ loopPc = "run_notify"
  /\ loopPc' = "running"
  /\ UNCHANGED <<m_queue, m_stop, m_done, alive, task, clientPc, refs,
                 dtorVars, posted, finished>>

\* The task returns and its closure is destroyed at the end of the iteration.
\* If that drops the last reference, the destructor runs on the loop thread.
TaskReturn ==
  /\ loopPc = "running"
  /\ task' = None
  /\ finished' = finished + 1
  /\ refs' = refs \ {task}
  /\ IF task \in refs /\ refs' = {}
       THEN loopPc' = "in_dtor" /\ dtor' = "stop" /\ dtorBy' = LoopThread
       ELSE loopPc' = "check" /\ UNCHANGED dtorVars
  /\ UNCHANGED <<m_queue, m_stop, m_done, alive, clientPc, posted>>

LoopSetDone ==
  /\ loopPc = "finish"
  /\ m_done' = TRUE
  /\ loopPc' = "notify_done"
  /\ UNCHANGED <<m_queue, m_stop, alive, task, clientPc, refs, dtorVars,
                 posted, finished>>

\* Mutant of LoopNotifyDone: m_done is set and the destructor is not told.
LoopNotifyNobody ==
  /\ loopPc = "notify_done"
  /\ loopPc' = "exited"
  /\ UNCHANGED <<m_queue, m_stop, m_done, alive, task, clientPc, refs, dtorVars,
                 posted, finished>>

LoopNotifyDone ==
  /\ loopPc = "notify_done"
  /\ loopPc' = "exited"
  /\ dtor' = IF dtor = "waiting" THEN "check" ELSE dtor
  /\ UNCHANGED <<m_queue, m_stop, m_done, alive, task, clientPc, refs,
                 dtorBy, posted, finished>>

------------------------------------------------------------------------------
\* ~EventLoopCpp(): set the flag, notify, wait for m_done, destroy the members.

DtorStop ==
  /\ dtor = "stop"
  /\ m_stop' = TRUE
  /\ dtor' = "notify"
  /\ UNCHANGED <<m_queue, m_done, alive, loopVars, clientPc, refs, dtorBy,
                 posted, finished>>

DtorNotify ==
  /\ dtor = "notify"
  /\ NotifyTaskCv
  /\ dtor' = "check"
  /\ UNCHANGED <<m_queue, m_stop, m_done, alive, task, clientPc, refs, dtorBy,
                 posted, finished>>

DtorWait ==
  /\ dtor = "check"
  /\ ~m_done
  /\ dtor' = "waiting"
  /\ UNCHANGED <<m_queue, m_stop, m_done, alive, loopVars, clientPc, refs,
                 dtorBy, posted, finished>>

\* Mutant of DtorReturn: it does not look at m_done.
DtorReturnEarly ==
  /\ dtor = "check"
  /\ dtor' = "returned"
  /\ alive' = FALSE
  /\ m_queue' = <<>>
  /\ UNCHANGED <<m_stop, m_done, loopVars, clientPc, refs, dtorBy, posted,
                 finished>>

DtorReturn ==
  /\ dtor = "check"
  /\ m_done
  /\ dtor' = "returned"
  /\ alive' = FALSE
  /\ m_queue' = <<>>
  /\ UNCHANGED <<m_stop, m_done, loopVars, clientPc, refs, dtorBy, posted,
                 finished>>

\* std::condition_variable::wait may return without a notification.
SpuriousWakeup ==
  /\ \/ loopPc = "waiting" /\ loopPc' = "check" /\ UNCHANGED dtor
     \/ dtor = "waiting" /\ dtor' = "check" /\ UNCHANGED loopPc
  /\ UNCHANGED <<m_queue, m_stop, m_done, alive, task, clientPc, refs, dtorBy,
                 posted, finished>>

\* Everything is over: the one state the system may stop in.
Terminated ==
  /\ dtor = "returned"
  /\ loopPc = "exited"
  /\ UNCHANGED vars

------------------------------------------------------------------------------
Loop == \/ LoopWait \/ LoopTake \/ LoopBreak
        \/ TaskNotify \/ TaskReturn
        \/ LoopSetDone \/ LoopNotifyDone

Dtor == DtorStop \/ DtorNotify \/ DtorWait \/ DtorReturn

Next ==
  \/ \E c \in Clients : \/ \E t \in Tasks : ClientPost(c, t)
                        \/ ClientNotify(c)
                        \/ ClientRelease(c)
  \/ \E t \in Tasks : TaskPost(t)
  \/ Loop
  \/ Dtor
  \/ SpuriousWakeup
  \/ Terminated

\* Threads that can run do run, and tasks return.  Nobody has to post, to
\* release a reference, or to wake up spuriously.
Fairness ==
  /\ WF_vars(Loop)
  /\ WF_vars(Dtor)
  /\ \A c \in Clients : WF_vars(ClientNotify(c))

Spec == Init /\ [][Next]_vars

FairSpec == Spec /\ Fairness

------------------------------------------------------------------------------
\* Properties.

\* The thread sleeps on m_task_cv only when whoever gave it a reason to wake up
\* (a post, or the destructor's stop flag) is still about to notify it.  post()
\* and ~EventLoopCpp notify after unlocking, so the order matters.
NoLostWakeup ==
  loopPc = "waiting" =>
    /\ m_queue # <<>> => \E c \in Clients : clientPc[c] = "notify"
    /\ m_stop => dtor = "notify"

\* When ~EventLoopCpp has returned, no task is running and the thread has left its
\* loop for good (the test dtor_when_blocked), whatever was queued meanwhile.
DtorWaitsForTask ==
  dtor = "returned" => task = None /\ loopPc \in {"notify_done", "exited"}

\* The abstract runner: tasks run one at a time, once, in the order of their
\* post(), and never after the destructor.
Runner == INSTANCE TaskRunner
            WITH submitted <- posted, current <- task, closed <- ~alive

\* EventLoopCpp keeps the promise of SingleThreadTaskRunner.
ImplementsRunner == Runner!Spec

Started(t) == \E i \in 1 .. finished + (IF task = None THEN 0 ELSE 1) :
                posted[i] = t

\* Every posted task is started, unless the loop is told to stop first.
EventuallyRuns == \A t \in Tasks : (t \in Posted) ~> (Started(t) \/ m_stop)

\* The destructor never waits for ever, for a thread other than the loop's.
DtorReturns == (dtor # "none") ~> (dtor = "returned" \/ dtorBy = LoopThread)

\* The members outlive the loop thread: ~EventLoopCpp returns only when the thread
\* will not touch them again.
NoUseAfterDestroy == ~alive => loopPc = "exited"
==============================================================================
