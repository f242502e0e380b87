----------------------------- MODULE SerialQueue -----------------------------
(***************************************************************************)
(* What the callers of queue.h rely on: their tasks are run, stopping      *)
(* comes to an end, and TaskQueue implements SerialExecutor.               *)
(***************************************************************************)
EXTENDS TaskQueue, Functions

\* A thread inside queue_task or stop_executor is scheduled again, and so is
\* the executor.  Nobody is obliged to call queue_task or stop_executor, and
\* down_killable is not obliged to fail.
Fairness ==
  /\ \A c \in Caller : WF_vars((\E x \in Arg(c) : Add(c, x)) \/ Up(c))
  /\ WF_vars(StopperNext)
  /\ WF_vars(Start) /\ WF_vars(Down) /\ WF_vars(TakeNothing)
  /\ WF_vars(Take) /\ WF_vars(TakePoison) /\ WF_vars(Finish) /\ WF_vars(Exit)

FairSpec == Spec /\ Fairness

\* A task in the list with no poison before it, there or already taken, is
\* eventually run by the executor, or the thread was stopped before it first
\* ran: neither the order of add and up nor an interrupted wait strands it
\* (queue.h 36-40 and 55-71).
TaskEventuallyRuns ==
  \A t \in Task :
    (/\ exec \notin {"poisoned", "exited"}
     /\ \E i \in DOMAIN list : list[i] = t /\ \A j \in 1..i : list[j] # Poison)
      ~> (t \in Range(ran) \/ exec = "cancelled")

\* stop_executor terminates, whatever the other callers and the executor are
\* doing when it is called (queue.h 88-92).
StopTerminates == call[Stopper] = "add" ~> call[Stopper] = "done"

\* The queue implements a serial executor.  The running task still counts as
\* pending, because a task is done when its handler has returned.
Abstract == INSTANCE SerialExecutor WITH
  pending <- (IF exec = "run" THEN <<task>> ELSE << >>) \o list,
  ran <- ran,
  state <- CASE exec \in {"poisoned", "exited"} -> "poisoned"
             [] exec = "cancelled" -> "cancelled"
             [] OTHER -> "serving"

\* The refinement, safety and liveness: whatever the interleaving of the
\* callers' lock, add and up steps with the executor's, an outside observer
\* sees tasks submitted and run one by one in order (all of queue.h).
ImplementsSerialExecutor == Abstract!Spec
=============================================================================
