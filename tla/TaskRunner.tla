----------------------------- MODULE TaskRunner -----------------------------
(***************************************************************************)
(* What a SingleThreadTaskRunner promises the code that posts to it:      *)
(* accepted tasks run one at a time, each once, in the order they were     *)
(* accepted, and once the runner is closed nothing runs and nothing ever   *)
(* will.  Tasks still pending when it closes are dropped.                  *)
(*                                                                         *)
(* EventLoop.tla (the C++ thread) is shown to implement this module.       *)
(***************************************************************************)
EXTENDS Naturals, Sequences

CONSTANTS
  Tasks,       \* the calls to post() that can be made
  None         \* "no task", which is none of them

VARIABLES
  submitted,   \* the tasks accepted so far, in order
  finished,    \* how many of them have run to completion
  current,     \* the task that is running, or None
  closed       \* the runner is gone

vars == <<submitted, finished, current, closed>>

Accepted == {submitted[i] : i \in 1 .. Len(submitted)}

TypeOK ==
  /\ submitted \in Seq(Tasks)
  /\ finished \in 0 .. Len(submitted)
  /\ current \in Tasks \cup {None}
  /\ closed \in BOOLEAN

Init ==
  /\ submitted = <<>>
  /\ finished = 0
  /\ current = None
  /\ closed = FALSE

Submit(t) ==
  /\ ~closed
  /\ t \notin Accepted
  /\ submitted' = Append(submitted, t)
  /\ UNCHANGED <<finished, current, closed>>

\* The oldest task that has not run yet becomes the running one.
Start ==
  /\ ~closed
  /\ current = None
  /\ finished < Len(submitted)
  /\ current' = submitted[finished + 1]
  /\ UNCHANGED <<submitted, finished, closed>>

Finish ==
  /\ current # None
  /\ current' = None
  /\ finished' = finished + 1
  /\ UNCHANGED <<submitted, closed>>

\* Closing waits for the running task and drops the pending ones.
Close ==
  /\ ~closed
  /\ current = None
  /\ closed' = TRUE
  /\ UNCHANGED <<submitted, finished, current>>

Next ==
  \/ \E t \in Tasks : Submit(t)
  \/ Start
  \/ Finish
  \/ Close

Spec == Init /\ [][Next]_vars
=============================================================================
