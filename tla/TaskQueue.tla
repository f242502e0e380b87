------------------------------ MODULE TaskQueue ------------------------------
(***************************************************************************)
(* The task queue of queue.h: a linked list under a spinlock, a counting   *)
(* semaphore that counts its entries, the threads that call queue_task,    *)
(* the one executor thread, and stop_executor.                             *)
(*                                                                         *)
(* A step is what one thread does between two points where another thread  *)
(* can observe or disturb it.  The handler of a task runs while the        *)
(* executor holds the spinlock, as in the code, so it is a state of its    *)
(* own (exec = "run") between Take and Finish.                             *)
(***************************************************************************)
EXTENDS Integers, Sequences, FiniteSets

CONSTANTS Task,          \* the tasks that may be queued, each at most once
          Poison,        \* the entry whose handler is poison_task
          Caller,        \* the threads that call queue_task
          Stopper,       \* the caller that calls stop_executor
          MaxInterrupts  \* bound on failed down_killable calls

ASSUME CallerAssumption == IsFiniteSet(Caller) /\ Stopper \in Caller
ASSUME PoisonAssumption == Poison \notin Task
ASSUME InterruptAssumption == MaxInterrupts \in Nat

VARIABLES
  list,         \* queue->task.list, head first
  sem,          \* queue->sem
  lock,         \* queue->lock is held
  call,         \* where each caller is in queue_task or stop_executor
  exec,         \* where the executor thread is
  task,         \* the task whose handler is running (valid when exec = "run")
  should_stop,  \* kthread_stop was called on the executor
  interrupts,   \* history: failed calls of down_killable
  queued,       \* history: every entry ever added to the list
  ran           \* history: every task whose handler has returned

vars == <<list, sem, lock, call, exec, task, should_stop, interrupts,
          queued, ran>>

Entry == Task \cup {Poison}

CallPC == {"idle", "add", "up", "stop", "join", "done"}

ExecPC == {"created", "down", "woken", "interrupted", "run", "poisoned",
           "exited", "cancelled"}

-----------------------------------------------------------------------------
(* queue_task and stop_executor                                            *)

Init ==
  /\ list = << >>
  /\ sem = 0
  /\ lock = FALSE
  /\ call = [c \in Caller |-> "idle"]
  /\ exec = "created"
  /\ task = Poison
  /\ should_stop = FALSE
  /\ interrupts = 0
  /\ queued = << >>
  /\ ran = << >>

\* Mutant: queue_task does not take the lock.
LockIgnored(c) ==
  /\ call[c] = "idle"
  /\ lock' = TRUE
  /\ call' = [call EXCEPT ![c] = "add"]
  /\ UNCHANGED <<list, sem, exec, task, should_stop, interrupts, queued, ran>>

\* queue_task up to and including spin_lock.
Lock(c) ==
  /\ call[c] = "idle"
  /\ ~lock
  /\ lock' = TRUE
  /\ call' = [call EXCEPT ![c] = "add"]
  /\ UNCHANGED <<list, sem, exec, task, should_stop, interrupts, queued, ran>>

\* Mutant: list_add instead of list_add_tail.
AddFirst(c, x) ==
  /\ call[c] = "add"
  /\ list' = <<x>> \o list
  /\ queued' = Append(queued, x)
  /\ lock' = FALSE
  /\ call' = [call EXCEPT ![c] = "up"]
  /\ UNCHANGED <<sem, exec, task, should_stop, interrupts, ran>>

\* list_add_tail and spin_unlock.
Add(c, x) ==
  /\ call[c] = "add"
  /\ list' = Append(list, x)
  /\ queued' = Append(queued, x)
  /\ lock' = FALSE
  /\ call' = [call EXCEPT ![c] = "up"]
  /\ UNCHANGED <<sem, exec, task, should_stop, interrupts, ran>>

\* Mutant: the semaphore is binary.
UpBinary(c) ==
  /\ call[c] = "up"
  /\ sem' = 1
  /\ call' = [call EXCEPT ![c] = IF c = Stopper THEN "stop" ELSE "idle"]
  /\ UNCHANGED <<list, lock, exec, task, should_stop, interrupts, queued, ran>>

\* up, after the lock was released.  Only stop_executor has more to do.
Up(c) ==
  /\ call[c] = "up"
  /\ sem' = sem + 1
  /\ call' = [call EXCEPT ![c] = IF c = Stopper THEN "stop" ELSE "idle"]
  /\ UNCHANGED <<list, lock, exec, task, should_stop, interrupts, queued, ran>>

\* kthread_stop: raise the flag ...
KthreadStop ==
  /\ call[Stopper] = "stop"
  /\ should_stop' = TRUE
  /\ call' = [call EXCEPT ![Stopper] = "join"]
  /\ UNCHANGED <<list, sem, lock, exec, task, interrupts, queued, ran>>

\* Mutant: stop_executor does not wait for the thread.
JoinEarly ==
  /\ call[Stopper] = "join"
  /\ call' = [call EXCEPT ![Stopper] = "done"]
  /\ UNCHANGED <<list, sem, lock, exec, task, should_stop, interrupts, queued,
                 ran>>

\* ... and wait for the thread to exit.
Join ==
  /\ call[Stopper] = "join"
  /\ exec \in {"exited", "cancelled"}
  /\ call' = [call EXCEPT ![Stopper] = "done"]
  /\ UNCHANGED <<list, sem, lock, exec, task, should_stop, interrupts, queued,
                 ran>>

-----------------------------------------------------------------------------
(* task_executor and execute_task                                          *)

\* The thread is scheduled for the first time.  A kthread that finds that it
\* should already stop returns without calling its function.
Start ==
  /\ exec = "created"
  /\ exec' = IF should_stop THEN "cancelled" ELSE "down"
  /\ UNCHANGED <<list, sem, lock, call, task, should_stop, interrupts, queued,
                 ran>>

\* Mutant: down_killable does not wait.
DownAtOnce ==
  /\ exec = "down"
  /\ sem' = sem - 1
  /\ exec' = "woken"
  /\ UNCHANGED <<list, lock, call, task, should_stop, interrupts, queued, ran>>

\* down_killable succeeds.
Down ==
  /\ exec = "down"
  /\ sem > 0
  /\ sem' = sem - 1
  /\ exec' = "woken"
  /\ UNCHANGED <<list, lock, call, task, should_stop, interrupts, queued, ran>>

\* down_killable fails: the code prints a message and goes on all the same.
Interrupt ==
  /\ exec = "down"
  /\ sem = 0
  /\ interrupts < MaxInterrupts
  /\ interrupts' = interrupts + 1
  /\ exec' = "interrupted"
  /\ UNCHANGED <<list, sem, lock, call, task, should_stop, queued, ran>>

\* The lock is free and the list is empty: nothing to do, unlock, loop.
TakeNothing ==
  /\ exec \in {"woken", "interrupted"}
  /\ ~lock
  /\ list = << >>
  /\ exec' = "down"
  /\ UNCHANGED <<list, sem, lock, call, task, should_stop, interrupts, queued,
                 ran>>

\* Lock, unlink the first entry and call its handler: the lock stays held.
Take ==
  /\ exec \in {"woken", "interrupted"}
  /\ ~lock
  /\ list # << >>
  /\ Head(list) # Poison
  /\ list' = Tail(list)
  /\ task' = Head(list)
  /\ lock' = TRUE
  /\ exec' = "run"
  /\ UNCHANGED <<sem, call, should_stop, interrupts, queued, ran>>

\* Mutant: execute_task returns 1 for the poison as well.
TakePoisonLoops ==
  /\ exec \in {"woken", "interrupted"}
  /\ ~lock
  /\ list # << >>
  /\ Head(list) = Poison
  /\ list' = Tail(list)
  /\ exec' = "down"
  /\ UNCHANGED <<sem, lock, call, task, should_stop, interrupts, queued, ran>>

\* Lock, unlink the poison, free it, unlock: execute_task returns 0.
TakePoison ==
  /\ exec \in {"woken", "interrupted"}
  /\ ~lock
  /\ list # << >>
  /\ Head(list) = Poison
  /\ list' = Tail(list)
  /\ exec' = "poisoned"
  /\ UNCHANGED <<sem, lock, call, task, should_stop, interrupts, queued, ran>>

\* The handler returns: free the entry, unlock, loop.
Finish ==
  /\ exec = "run"
  /\ ran' = Append(ran, task)
  /\ task' = Poison
  /\ lock' = FALSE
  /\ exec' = "down"
  /\ UNCHANGED <<list, sem, call, should_stop, interrupts, queued>>

\* The msleep loop of task_executor ends once kthread_stop was called.
Exit ==
  /\ exec = "poisoned"
  /\ should_stop
  /\ exec' = "exited"
  /\ UNCHANGED <<list, sem, lock, call, task, should_stop, interrupts, queued,
                 ran>>

-----------------------------------------------------------------------------

\* Each caller queues what it has at hand: the stopper the poison, the others
\* a task that was not queued before.
Arg(c) ==
  IF c = Stopper THEN {Poison} ELSE Task \ {queued[i] : i \in DOMAIN queued}

CallerNext(c) ==
  \/ Arg(c) # {} /\ Lock(c)
  \/ \E x \in Arg(c) : Add(c, x)
  \/ Up(c)

StopperNext == KthreadStop \/ Join

ExecNext ==
  Start \/ Down \/ Interrupt \/ TakeNothing \/ Take \/ TakePoison \/ Finish
    \/ Exit

Next ==
  \/ \E c \in Caller : CallerNext(c)
  \/ StopperNext
  \/ ExecNext

Spec == Init /\ [][Next]_vars

-----------------------------------------------------------------------------
(* Properties                                                              *)

TypeOK ==
  /\ list \in Seq(Entry)
  /\ sem \in Nat
  /\ lock \in BOOLEAN
  /\ call \in [Caller -> CallPC]
  /\ exec \in ExecPC
  /\ task \in Entry
  /\ should_stop \in BOOLEAN
  /\ interrupts \in 0..MaxInterrupts
  /\ queued \in Seq(Entry)
  /\ ran \in Seq(Task)

\* The spinlock protects the list: at most one thread is between spin_lock and
\* spin_unlock, the executor counting from Take to Finish because it runs the
\* handler inside the critical section (queue.h 58-71), and the lock is free
\* exactly when nobody is.
MutualExclusion ==
  /\ \A c, d \in Caller : call[c] = "add" /\ call[d] = "add" => c = d
  /\ lock <=> (exec = "run" \/ \E c \in Caller : call[c] = "add")
  /\ exec = "run" => \A c \in Caller : call[c] # "add"

\* Callers that have linked their entry but not yet counted it.
Posting == {c \in Caller : call[c] = "up"}

\* Wake-ups that were or will be given for entries of the list.
Wakeups == sem + Cardinality(Posting) + (IF exec = "woken" THEN 1 ELSE 0)

\* No wake-up is lost: although queue_task raises the semaphore only after it
\* released the lock (queue.h 36-40), every entry of the list has a wake-up in
\* the semaphore, in the executor's hands or about to be given.  Surplus
\* wake-ups come only from interrupted waits (queue.h 55), one for each.
NoLostWakeup ==
  /\ Len(list) <= Wakeups
  /\ Wakeups + (IF exec = "interrupted" THEN 1 ELSE 0)
       <= Len(list) + interrupts

\* How many entries were unlinked from the list.
Taken == Len(queued) - Len(list)

\* First in, first out, nothing lost and nothing run twice: the tasks run so
\* far, the one that is running or the poison that ended the loop, and the
\* list, in this order, are exactly what was queued (queue.h 37, 60-62).
FifoOrder ==
  /\ \A i \in 1..Len(list) : Taken + i \in 1..Len(queued) /\ list[i] = queued[Taken + i]
  /\ \A i \in 1..Len(ran) : i <= Taken /\ ran[i] = queued[i]
  /\ CASE exec = "run" -> Taken = Len(ran) + 1 /\ task = queued[Taken]
       [] exec \in {"poisoned", "exited"} ->
            Taken = Len(ran) + 1 /\ queued[Taken] = Poison
       [] OTHER -> Taken = Len(ran)

\* When stop_executor returns, every task queued before its poison has run to
\* completion and none queued after it ever started (queue.h 88-92) -- unless
\* kthread_stop overtook the first scheduling of the thread, in which case no
\* task ran at all.
StopDrains ==
  call[Stopper] = "done" =>
    \/ exec = "cancelled" /\ ran = << >>
    \/ /\ exec = "exited"
       /\ \A i \in 1..Len(queued) :
            queued[i] = Poison <=> i = Len(ran) + 1

\* The poison is queued once, by the stopper, and the executor stops only for
\* it or for kthread_stop: what makes StopDrains inductive (queue.h 76-92).
PoisonOnce ==
  /\ \A i, j \in 1..Len(queued) :
       queued[i] = Poison /\ queued[j] = Poison => i = j
  /\ (\E i \in 1..Len(queued) : queued[i] = Poison)
       => call[Stopper] \in {"up", "stop", "join", "done"}
  /\ should_stop <=> call[Stopper] \in {"join", "done"}
  /\ call[Stopper] = "done" => exec \in {"exited", "cancelled"}
  /\ exec \in {"created", "cancelled"} => ran = << >>
  /\ exec = "run" => task \in Task

\* The inductive invariant.
IInv == TypeOK /\ MutualExclusion /\ NoLostWakeup /\ FifoOrder /\ PoisonOnce
=============================================================================
