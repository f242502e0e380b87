--------------------------- MODULE SerialExecutor ---------------------------
(***************************************************************************)
(* What a task queue with one executor thread promises its callers: tasks  *)
(* run one at a time, in the order in which they were submitted, until the *)
(* poison task reaches the head of the queue; nothing runs after it.       *)
(*                                                                         *)
(* This is the abstract specification that TaskQueue (queue.h) implements. *)
(***************************************************************************)
EXTENDS Sequences

CONSTANTS Task,     \* the tasks that callers submit
          Poison    \* the task whose only effect is to stop the executor

VARIABLES pending,  \* submitted, neither completed nor discarded, oldest first
          ran,      \* the tasks whose handler has completed, in that order
          state     \* "serving", "poisoned" or "cancelled"

vars == <<pending, ran, state>>

Init ==
  /\ pending = << >>
  /\ ran = << >>
  /\ state = "serving"

Submit ==
  /\ \E x \in Task \cup {Poison} : pending' = Append(pending, x)
  /\ UNCHANGED <<ran, state>>

Run ==
  /\ state = "serving"
  /\ pending # << >>
  /\ Head(pending) # Poison
  /\ ran' = Append(ran, Head(pending))
  /\ pending' = Tail(pending)
  /\ UNCHANGED state

Stop ==
  /\ state = "serving"
  /\ pending # << >>
  /\ Head(pending) = Poison
  /\ state' = "poisoned"
  /\ pending' = Tail(pending)
  /\ UNCHANGED ran

\* A kernel thread that is stopped before it was first scheduled never serves.
Cancel ==
  /\ state = "serving"
  /\ ran = << >>
  /\ state' = "cancelled"
  /\ UNCHANGED <<pending, ran>>

Next == Submit \/ Run \/ Stop \/ Cancel

Safety == Init /\ [][Next]_vars

Spec == Safety /\ WF_vars(Run) /\ WF_vars(Stop)
=============================================================================
