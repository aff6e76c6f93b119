----------------------------- MODULE TaskRuntime -----------------------------
(***************************************************************************)
(* One operation at a time, off the GUI thread: DesktopOperationRuntime    *)
(* (market_vault/desktop/runtime.py) over SerialTaskRunner                 *)
(* (market_vault/console/tasks.py) and its executor of one thread.         *)
(*                                                                         *)
(* Two threads act.  The GUI thread submits, polls and closes, each without*)
(* interruption.  The worker thread executes the operation, marks its      *)
(* future done and only then runs the done callback, which tells the       *)
(* runner; between the two the GUI thread may poll.                        *)
(*                                                                         *)
(* What the pages do when an operation is delivered is left to the module  *)
(* that composes them with the runtime.                                    *)
(***************************************************************************)
CONSTANT None  \* no operation, and no value

VARIABLES
  active,  \* the runtime's operation until its result is delivered, or None
  closed,  \* the runtime is closed
  work,    \* the worker's operation: op, stage, result, value; "done" also means free
  runner   \* TaskState.status of the runner: whether it is "RUNNING"

runtime == <<active, closed>>
worker  == <<work, runner>>

Stages == {"queued", "running", "middle", "done"}
NoWork == [op |-> None, stage |-> "done", result |-> "none", value |-> None]

RuntimeInit == active = None /\ closed = FALSE /\ work = NoWork /\ runner = FALSE

\* DesktopOperationRuntime.busy
Busy == active # None

-----------------------------------------------------------------------------
(***************************************************************************)
(* The GUI thread                                                          *)
(***************************************************************************)
\* DesktopOperationRuntime.submit with a configured backend, when the runtime
\* is neither closed nor busy: the runner takes the operation, or raises
\* because its previous one is still RUNNING, which the caller delivers.
Accepts == ~runner

Submitted(op) ==
  /\ active' = op
  /\ work' = [op |-> op, stage |-> "queued", result |-> "none", value |-> None]
  /\ runner' = TRUE

\* _poll finds the future done; the outcome is work.result.
Deliverable == Busy /\ work.stage = "done"

\* The runtime has delivered it and drops the future.
Idle == active' = None /\ work' = NoWork /\ UNCHANGED runner

\* requestShutdown; an active operation keeps the runtime open.
RequestShutdown ==
  /\ ~closed /\ ~Busy
  /\ closed' = TRUE
  /\ UNCHANGED <<active, worker>>

-----------------------------------------------------------------------------
(***************************************************************************)
(* The worker thread                                                       *)
(***************************************************************************)
Takes ==
  /\ work.stage = "queued"
  /\ work' = [work EXCEPT !.stage = "running"]
  /\ UNCHANGED <<runtime, runner>>

\* The operation gets to the point between its two steps.
Middle == work' = [work EXCEPT !.stage = "middle"] /\ UNCHANGED <<runtime, runner>>

\* Future.set_result with a value, if one matters, or set_exception.
Done(result, value) ==
  /\ work' = [work EXCEPT !.stage = "done", !.result = result, !.value = value]
  /\ UNCHANGED <<runtime, runner>>

\* _finish, the done callback.
Finish ==
  /\ work.stage = "done" /\ runner
  /\ runner' = FALSE
  /\ UNCHANGED <<runtime, work>>
=============================================================================
