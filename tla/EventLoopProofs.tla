--------------------------- MODULE EventLoopProofs ---------------------------
(***************************************************************************)
(* Proofs about EventLoop, for any set of tasks, of clients and of tasks   *)
(* whose closure owns the loop: typing, no lost wakeup, the destructor     *)
(* waits for the running task, and EventLoopCpp implements TaskRunner.     *)
(***************************************************************************)
EXTENDS EventLoop, SequenceTheorems, TLAPS

\* How the control states of the thread, of the destructor and of the flags that
\* they share go together.
ControlInv ==
  /\ (task # None) <=> (loopPc \in {"running", "run_notify"})
  /\ m_done <=> (loopPc \in {"notify_done", "exited"})
  /\ loopPc \in {"finish", "notify_done", "exited"} => m_stop
  /\ m_stop <=> (dtor \notin {"none", "stop"})
  /\ dtor = "returned" => m_done
  /\ alive <=> (dtor # "returned")
  /\ dtor # "none" => refs = {}

\* The number of tasks ever taken from the queue.
Taken == finished + (IF task = None THEN 0 ELSE 1)

\* While the loop lives, the queue is what was posted and not yet taken.
QueueInv ==
  /\ finished <= Len(posted)
  /\ task # None => finished < Len(posted) /\ task = posted[finished + 1]
  /\ alive => /\ Len(posted) = Taken + Len(m_queue)
              /\ \A i \in 1 .. Len(m_queue) : m_queue[i] = posted[Taken + i]

IInv == TypeOK /\ ControlInv /\ NoLostWakeup /\ QueueInv

\* The actions in which a variable of the queue or its history moves are proved
\* one by one; typing is common to all.
LEMMA TypeCorrect == TypeOK /\ [Next]_vars => TypeOK'
<1> USE EventLoopAssumption
<1> SUFFICES ASSUME TypeOK, [Next]_vars PROVE TypeOK'
    OBVIOUS
<1>1. CASE \E c \in Clients, t \in Tasks : ClientPost(c, t)
  BY <1>1 DEF TypeOK, ClientPost, Enqueue, loopVars, dtorVars, LoopStates, DtorStates
<1>2. CASE \E c \in Clients : ClientNotify(c)
  BY <1>2 DEF TypeOK, ClientNotify, NotifyTaskCv, dtorVars, LoopStates, DtorStates
<1>3. CASE \E c \in Clients : ClientRelease(c)
  BY <1>3 DEF TypeOK, ClientRelease, loopVars, dtorVars, LoopStates, DtorStates
<1>4. CASE \E t \in Tasks : TaskPost(t)
  BY <1>4 DEF TypeOK, TaskPost, Enqueue, dtorVars, LoopStates, DtorStates
<1>5. CASE Loop
  <2>1. CASE LoopTake
    BY <2>1 DEF TypeOK, LoopTake, dtorVars, LoopStates, DtorStates
  <2>2. CASE TaskReturn
    BY <2>2 DEF TypeOK, TaskReturn, dtorVars, LoopStates, DtorStates
  <2>3. CASE LoopNotifyDone
    BY <2>3 DEF TypeOK, LoopNotifyDone, LoopStates, DtorStates
  <2>4. CASE LoopWait \/ LoopBreak \/ TaskNotify \/ LoopSetDone
    BY <2>4 DEF TypeOK, LoopWait, LoopBreak, TaskNotify, LoopSetDone, dtorVars,
                LoopStates, DtorStates
  <2> QED
    BY <1>5, <2>1, <2>2, <2>3, <2>4 DEF Loop
<1>6. CASE Dtor
  <2>1. CASE DtorStop \/ DtorWait
    BY <2>1 DEF TypeOK, DtorStop, DtorWait, loopVars, LoopStates, DtorStates
  <2>2. CASE DtorNotify
    BY <2>2 DEF TypeOK, DtorNotify, NotifyTaskCv, LoopStates, DtorStates
  <2>3. CASE DtorReturn
    BY <2>3, EmptySeq DEF TypeOK, DtorReturn, loopVars, LoopStates, DtorStates
  <2> QED
    BY <1>6, <2>1, <2>2, <2>3 DEF Dtor
<1>7. CASE SpuriousWakeup
  BY <1>7 DEF TypeOK, SpuriousWakeup, LoopStates, DtorStates
<1>8. CASE UNCHANGED vars
  BY <1>8 DEF TypeOK, vars, loopVars, dtorVars
<1> QED
  BY <1>1, <1>2, <1>3, <1>4, <1>5, <1>6, <1>7, <1>8 DEF Next, Terminated

LEMMA ControlPreserved ==
  ASSUME TypeOK, ControlInv, [Next]_vars
  PROVE  ControlInv'
<1> USE EventLoopAssumption DEF ControlInv
<1>1. CASE \E c \in Clients, t \in Tasks : ClientPost(c, t)
  BY <1>1 DEF TypeOK, ClientPost, Enqueue, loopVars, dtorVars
<1>2. CASE \E c \in Clients : ClientNotify(c)
  BY <1>2 DEF TypeOK, ClientNotify, NotifyTaskCv, dtorVars
<1>3. CASE \E c \in Clients : ClientRelease(c)
  BY <1>3 DEF TypeOK, ClientRelease, loopVars, dtorVars
<1>4. CASE \E t \in Tasks : TaskPost(t)
  BY <1>4 DEF TypeOK, TaskPost, Enqueue, dtorVars
<1>5. CASE Loop
  <2>1. CASE LoopTake
    <3>1. task' # None
      BY <2>1, HeadTailProperties DEF TypeOK, LoopTake
    <3> QED
      BY <2>1, <3>1 DEF TypeOK, LoopTake, dtorVars
  <2>2. CASE TaskReturn
    BY <2>2 DEF TypeOK, TaskReturn, dtorVars
  <2>3. CASE LoopNotifyDone
    BY <2>3 DEF TypeOK, LoopNotifyDone
  <2>4. CASE LoopWait \/ LoopBreak \/ TaskNotify
    BY <2>4 DEF TypeOK, LoopWait, LoopBreak, TaskNotify, dtorVars
  <2>5. CASE LoopSetDone
    BY <2>5 DEF TypeOK, LoopSetDone, dtorVars
  <2> QED
    BY <1>5, <2>1, <2>2, <2>3, <2>4, <2>5 DEF Loop
<1>6. CASE Dtor
  <2>1. CASE DtorStop \/ DtorWait
    BY <2>1 DEF TypeOK, DtorStop, DtorWait, loopVars
  <2>2. CASE DtorNotify
    BY <2>2 DEF TypeOK, DtorNotify, NotifyTaskCv
  <2>3. CASE DtorReturn
    BY <2>3 DEF TypeOK, DtorReturn, loopVars
  <2> QED
    BY <1>6, <2>1, <2>2, <2>3 DEF Dtor
<1>7. CASE SpuriousWakeup
  BY <1>7 DEF TypeOK, SpuriousWakeup
<1>8. CASE UNCHANGED vars
  BY <1>8 DEF vars, loopVars, dtorVars
<1> QED
  BY <1>1, <1>2, <1>3, <1>4, <1>5, <1>6, <1>7, <1>8 DEF Next, Terminated

LEMMA NoLostWakeupPreserved ==
  ASSUME TypeOK, ControlInv, NoLostWakeup, [Next]_vars
  PROVE  NoLostWakeup'
<1> USE DEF NoLostWakeup
<1>1. CASE \E c \in Clients, t \in Tasks : ClientPost(c, t)
  BY <1>1 DEF TypeOK, ClientPost, loopVars, dtorVars
<1>2. CASE \E c \in Clients : ClientNotify(c)
  BY <1>2 DEF TypeOK, ClientNotify, NotifyTaskCv
<1>3. CASE \E c \in Clients : ClientRelease(c)
  BY <1>3 DEF TypeOK, ControlInv, ClientRelease, loopVars, dtorVars
<1>4. CASE \E t \in Tasks : TaskPost(t)
  BY <1>4 DEF TaskPost
<1>5. CASE Loop
  <2>1. CASE LoopWait
    BY <2>1 DEF LoopWait
  <2>2. CASE LoopTake \/ LoopBreak \/ TaskNotify \/ TaskReturn \/ LoopSetDone
    BY <2>2 DEF LoopTake, LoopBreak, TaskNotify, TaskReturn, LoopSetDone
  <2>3. CASE LoopNotifyDone
    BY <2>3 DEF LoopNotifyDone
  <2> QED
    BY <1>5, <2>1, <2>2, <2>3 DEF Loop
<1>6. CASE Dtor
  <2>1. CASE DtorStop
    BY <2>1 DEF DtorStop, loopVars
  <2>2. CASE DtorNotify
    BY <2>2 DEF DtorNotify, NotifyTaskCv
  <2>3. CASE DtorWait
    BY <2>3 DEF DtorWait, loopVars
  <2>4. CASE DtorReturn
    BY <2>4 DEF DtorReturn, ControlInv, loopVars
  <2> QED
    BY <1>6, <2>1, <2>2, <2>3, <2>4 DEF Dtor
<1>7. CASE SpuriousWakeup
  BY <1>7 DEF ControlInv, SpuriousWakeup
<1>8. CASE UNCHANGED vars
  BY <1>8 DEF vars, loopVars, dtorVars
<1> QED
  BY <1>1, <1>2, <1>3, <1>4, <1>5, <1>6, <1>7, <1>8 DEF Next, Terminated

\* post() on a live loop appends to the queue and to the history alike.
LEMMA EnqueueQueueInv ==
  ASSUME TypeOK, QueueInv, alive, NEW t \in Tasks, Enqueue(t),
         UNCHANGED <<task, finished, alive>>
  PROVE  QueueInv'
<1>1. /\ Len(m_queue') = Len(m_queue) + 1
      /\ Len(posted') = Len(posted) + 1
      /\ \A i \in 1 .. Len(m_queue) : m_queue'[i] = m_queue[i]
      /\ m_queue'[Len(m_queue) + 1] = t
      /\ \A i \in 1 .. Len(posted) : posted'[i] = posted[i]
      /\ posted'[Len(posted) + 1] = t
  BY AppendProperties DEF Enqueue, TypeOK
<1>2. Taken' = Taken /\ Taken \in Nat /\ finished \in Nat
  BY DEF Taken, TypeOK
<1>3. Len(posted) \in Nat /\ Len(m_queue) \in Nat
  BY DEF TypeOK
<1>4. Len(posted) = Taken + Len(m_queue)
  BY DEF QueueInv
<1>5. Len(posted') = Taken' + Len(m_queue')
  BY <1>1, <1>2, <1>3, <1>4
<1>6. ASSUME NEW i \in 1 .. Len(m_queue') PROVE m_queue'[i] = posted'[Taken' + i]
  <2>1. CASE i = Len(m_queue) + 1
    BY <2>1, <1>1, <1>2, <1>3, <1>4
  <2>2. CASE i \in 1 .. Len(m_queue)
    <3>1. m_queue[i] = posted[Taken + i]
      BY <2>2 DEF QueueInv
    <3>2. Taken + i \in 1 .. Len(posted)
      BY <2>2, <1>2, <1>3, <1>4
    <3>3. posted'[Taken' + i] = posted[Taken + i]
      BY <3>2, <1>1, <1>2
    <3> QED
      BY <2>2, <3>1, <3>3, <1>1
  <2> QED
    BY <2>1, <2>2, <1>1, <1>3
<1>7. finished <= Len(posted')
  BY <1>1, <1>2, <1>3 DEF QueueInv
<1>8. ASSUME task # None
      PROVE  finished < Len(posted') /\ task = posted'[finished + 1]
  <2>1. finished < Len(posted) /\ task = posted[finished + 1]
    BY <1>8 DEF QueueInv
  <2>2. finished + 1 \in 1 .. Len(posted)
    BY <2>1, <1>2, <1>3
  <2> QED
    BY <2>1, <2>2, <1>1, <1>2, <1>3
<1> QED
  BY <1>5, <1>6, <1>7, <1>8 DEF QueueInv

LEMMA QueuePreserved ==
  ASSUME TypeOK, ControlInv, QueueInv, [Next]_vars
  PROVE  QueueInv'
<1>1. CASE \E c \in Clients, t \in Tasks : ClientPost(c, t)
  BY <1>1, EnqueueQueueInv DEF ControlInv, ClientPost, loopVars
<1>2. CASE \E t \in Tasks : TaskPost(t)
  BY <1>2, EnqueueQueueInv DEF ControlInv, TaskPost
<1>3. CASE LoopTake
  <2>1. alive /\ task = None
    BY <1>3 DEF LoopTake, ControlInv
  <2>2. /\ Len(m_queue) > 0
        /\ m_queue[1] = Head(m_queue)
        /\ Len(m_queue') = Len(m_queue) - 1
        /\ \A i \in 1 .. Len(m_queue') : m_queue'[i] = m_queue[i + 1]
    BY <1>3, HeadTailProperties DEF LoopTake, TypeOK
  <2>3. task' # None /\ task' = m_queue[1]
    BY <1>3, <2>2, EventLoopAssumption, HeadTailProperties DEF LoopTake, TypeOK
  <2>4. /\ UNCHANGED <<posted, finished, alive>>
        /\ Taken = finished
        /\ Taken' = finished + 1
    BY <1>3, <2>1, <2>3 DEF LoopTake, Taken, TypeOK
  <2>5. finished \in Nat /\ Len(m_queue) \in Nat /\ Len(posted) \in Nat
    BY DEF TypeOK
  <2>6. /\ Len(posted) = finished + Len(m_queue)
        /\ \A i \in 1 .. Len(m_queue) : m_queue[i] = posted[finished + i]
    BY <2>1, <2>4 DEF QueueInv
  <2>7. Len(posted') = Taken' + Len(m_queue')
    BY <2>2, <2>4, <2>5, <2>6
  <2>8. ASSUME NEW i \in 1 .. Len(m_queue') PROVE m_queue'[i] = posted'[Taken' + i]
    <3>1. i + 1 \in 1 .. Len(m_queue) /\ finished + (i + 1) = Taken' + i
      BY <2>2, <2>4, <2>5
    <3> QED
      BY <3>1, <2>2, <2>4, <2>6
  <2>9. finished < Len(posted') /\ task' = posted'[finished + 1]
    BY <2>2, <2>3, <2>4, <2>5, <2>6
  <2> QED
    BY <2>4, <2>5, <2>7, <2>8, <2>9 DEF QueueInv
<1>4. CASE TaskReturn
  <2>1. /\ UNCHANGED <<posted, m_queue, alive>>
        /\ finished' = finished + 1
        /\ task # None /\ task' = None
        /\ Taken' = Taken
    BY <1>4 DEF TaskReturn, ControlInv, Taken, TypeOK
  <2> QED
    BY <2>1 DEF QueueInv, TypeOK
<1>5. CASE DtorReturn
  BY <1>5 DEF DtorReturn, QueueInv, Taken, TypeOK, loopVars
<1>6. CASE UNCHANGED <<m_queue, task, alive, posted, finished>>
  BY <1>6 DEF QueueInv, Taken
<1> QED
  BY <1>1, <1>2, <1>3, <1>4, <1>5, <1>6
  DEF Next, Loop, Dtor, Terminated, ClientNotify, ClientRelease, LoopWait,
      LoopBreak, TaskNotify, LoopSetDone, LoopNotifyDone, DtorStop, DtorNotify,
      DtorWait, SpuriousWakeup, vars, loopVars, dtorVars

\* The inductive invariant holds in every reachable state.
THEOREM Inductive == Spec => []IInv
<1>1. Init => IInv
  <2>1. Init => TypeOK
    <3> SUFFICES ASSUME Init PROVE TypeOK
      OBVIOUS
    <3>1. m_queue \in Seq(Tasks) /\ posted \in Seq(Tasks)
      BY EmptySeq DEF Init
    <3>2. clientPc \in [Clients -> {"idle", "notify"}]
      BY DEF Init
    <3> QED
      BY <3>1, <3>2 DEF Init, TypeOK, LoopStates, DtorStates
  <2>2. Init => ControlInv /\ NoLostWakeup
    BY DEF Init, ControlInv, NoLostWakeup
  <2>3. Init => QueueInv
    <3>1. Init => Len(m_queue) = 0 /\ Len(posted) = 0
      BY EmptySeq DEF Init
    <3>2. Init => finished = 0 /\ task = None /\ Taken = 0
      BY DEF Init, Taken
    <3> QED
      BY <3>1, <3>2 DEF QueueInv
  <2> QED
    BY <2>1, <2>2, <2>3 DEF IInv
<1>2. IInv /\ [Next]_vars => IInv'
  BY TypeCorrect, ControlPreserved, NoLostWakeupPreserved, QueuePreserved DEF IInv
<1> QED
  BY <1>1, <1>2, PTL DEF Spec

\* Typing of the members, of the two threads' control states and of the history.
THEOREM TypeCorrectness == Spec => []TypeOK
BY Inductive, PTL DEF IInv

\* The loop thread never sleeps on work or on a stop request that nobody is about
\* to announce: post() and ~EventLoopCpp notify after they unlock.
THEOREM WakeupSafety == Spec => []NoLostWakeup
BY Inductive, PTL DEF IInv

\* ~EventLoopCpp returns only after the task that was running has returned.
THEOREM DtorSafety == Spec => []DtorWaitsForTask
<1>1. IInv => DtorWaitsForTask
  BY DEF IInv, ControlInv, DtorWaitsForTask
<1> QED
  BY <1>1, Inductive, PTL

\* EventLoopCpp implements TaskRunner: each task once, in the order of post(), one at
\* a time, and none after the destructor.
THEOREM Refinement == Spec => ImplementsRunner
<1>1. Init => Runner!Init
  BY DEF Init, Runner!Init
<1>2. IInv /\ [Next]_vars => [Runner!Next]_Runner!vars
  <2> SUFFICES ASSUME IInv, [Next]_vars
               PROVE  Runner!Next \/ UNCHANGED Runner!vars
    OBVIOUS
  <2> USE DEF IInv, Runner!vars
  <2>1. ASSUME NEW t \in Tasks, Enqueue(t), refs # {},
               UNCHANGED <<finished, task, alive>>
        PROVE  Runner!Submit(t)
    BY <2>1 DEF ControlInv, Enqueue, Posted, Runner!Submit, Runner!Accepted
  <2>2. CASE \E c \in Clients, t \in Tasks : ClientPost(c, t)
    BY <2>1, <2>2 DEF ClientPost, loopVars, Runner!Next
  <2>3. CASE \E t \in Tasks : TaskPost(t)
    BY <2>1, <2>3 DEF TaskPost, Runner!Next
  <2>4. CASE LoopTake
    <3>1. alive /\ task = None /\ Len(m_queue) > 0 /\ Head(m_queue) = m_queue[1]
      BY <2>4, HeadTailProperties DEF LoopTake, ControlInv, TypeOK
    <3>2. finished < Len(posted) /\ Head(m_queue) = posted[finished + 1]
      BY <3>1 DEF QueueInv, Taken, TypeOK
    <3> QED
      BY <2>4, <3>1, <3>2 DEF LoopTake, Runner!Next, Runner!Start
  <2>5. CASE TaskReturn
    BY <2>5 DEF TaskReturn, ControlInv, Runner!Next, Runner!Finish
  <2>6. CASE DtorReturn
    BY <2>6 DEF DtorReturn, loopVars, ControlInv, Runner!Next, Runner!Close
  <2>7. CASE UNCHANGED <<task, alive, posted, finished>>
    BY <2>7
  <2> QED
    BY <2>2, <2>3, <2>4, <2>5, <2>6, <2>7
    DEF Next, Loop, Dtor, Terminated, ClientNotify, ClientRelease, LoopWait,
        LoopBreak, TaskNotify, LoopSetDone, LoopNotifyDone, DtorStop, DtorNotify,
        DtorWait, SpuriousWakeup, vars, loopVars, dtorVars
<1> QED
  BY <1>1, <1>2, Inductive, PTL DEF Spec, ImplementsRunner, Runner!Spec
==============================================================================
