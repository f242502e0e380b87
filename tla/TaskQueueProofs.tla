-------------------------- MODULE TaskQueueProofs --------------------------
(***************************************************************************)
(* Proofs about TaskQueue, for any number of callers, tasks and interrupted *)
(* waits.  IInv is inductive; the properties of queue.h follow from it.    *)
(***************************************************************************)
EXTENDS SerialQueue, FiniteSetTheorems, TLAPS

USE CallerAssumption, PoisonAssumption, InterruptAssumption

\* The shape of FifoOrder that is convenient in proofs: no CASE.
FifoCases ==
  /\ exec = "run" => Taken = Len(ran) + 1 /\ task = queued[Taken]
  /\ exec \in {"poisoned", "exited"} =>
       Taken = Len(ran) + 1 /\ queued[Taken] = Poison
  /\ exec \notin {"run", "poisoned", "exited"} => Taken = Len(ran)

FifoSeqs ==
  /\ \A i \in 1..Len(list) : Taken + i \in 1..Len(queued) /\ list[i] = queued[Taken + i]
  /\ \A i \in 1..Len(ran) : i <= Taken /\ ran[i] = queued[i]

\* FifoOrder in two parts: the sequences, and where the executor is.
LEMMA FifoSplit == FifoOrder <=> FifoSeqs /\ FifoCases
  BY DEF FifoOrder, FifoSeqs, FifoCases

\* The same in the next state.
LEMMA FifoSplitPrime == FifoOrder' <=> FifoSeqs' /\ FifoCases'
  BY DEF FifoOrder, FifoSeqs, FifoCases

\* Entering "up" adds the caller to Posting, leaving it removes it.
LEMMA PostingAdd ==
  ASSUME TypeOK, NEW c \in Caller, call[c] # "up",
         call' = [call EXCEPT ![c] = "up"]
  PROVE  Cardinality(Posting') = Cardinality(Posting) + 1
  <1>1. Posting' = Posting \cup {c} /\ c \notin Posting
    BY DEF TypeOK, Posting
  <1>2. IsFiniteSet(Posting)
    BY FS_Subset DEF Posting
  <1> QED BY <1>1, <1>2, FS_AddElement, Zenon

\* up takes its caller out of Posting (queue.h 40).
LEMMA PostingRemove ==
  ASSUME TypeOK, NEW c \in Caller, call[c] = "up", NEW pc, pc # "up",
         call' = [call EXCEPT ![c] = pc]
  PROVE  Cardinality(Posting') = Cardinality(Posting) - 1
  <1>1. Posting' = Posting \ {c} /\ c \in Posting
    BY DEF TypeOK, Posting
  <1>2. IsFiniteSet(Posting)
    BY FS_Subset DEF Posting
  <1> QED BY <1>1, <1>2, FS_RemoveElement, Zenon

\* Posting depends only on where the callers are.
LEMMA PostingSame ==
  ASSUME TypeOK, NEW c \in Caller, call[c] # "up", NEW pc, pc # "up",
         call' = [call EXCEPT ![c] = pc]
  PROVE  Posting' = Posting
  BY DEF TypeOK, Posting

\* There are finitely many callers, so Posting has a cardinality.
LEMMA PostingNat == Cardinality(Posting) \in Nat
  <1>1. IsFiniteSet(Posting)
    BY FS_Subset DEF Posting
  <1> QED BY <1>1, FS_CardinalityType

-----------------------------------------------------------------------------

\* The invariant holds after init_queue, before the thread first runs.
LEMMA InitIInv == Init => IInv
  <1> SUFFICES ASSUME Init PROVE IInv
    OBVIOUS
  <1> USE DEF Init
  <1>1. TypeOK
    <2>1. 0 \in 0..MaxInterrupts
      OBVIOUS
    <2>2. << >> \in Seq(Entry) /\ << >> \in Seq(Task)
      OBVIOUS
    <2>3. [c \in Caller |-> "idle"] \in [Caller -> CallPC]
      BY DEF CallPC
    <2> QED BY <2>1, <2>2, <2>3, Zenon DEF TypeOK, Entry, ExecPC
  <1>2. MutualExclusion
    BY DEF MutualExclusion
  <1>3. NoLostWakeup
    <2>1. Posting = {}
      BY DEF Posting
    <2> QED BY <2>1, FS_EmptySet DEF NoLostWakeup, Wakeups
  <1>4. FifoOrder
    BY FifoSplit DEF FifoSeqs, FifoCases, Taken
  <1>5. PoisonOnce
    BY DEF PoisonOnce
  <1> QED BY <1>1, <1>2, <1>3, <1>4, <1>5 DEF IInv

\* spin_lock in queue_task preserves the invariant (queue.h 36).
LEMMA LockStep ==
  ASSUME IInv, NEW c \in Caller, Lock(c)
  PROVE  IInv'
  <1> USE DEF Lock
  <1>0. TypeOK /\ MutualExclusion /\ NoLostWakeup /\ FifoOrder /\ PoisonOnce
    BY DEF IInv
  <1>1. TypeOK'
    BY <1>0 DEF TypeOK, CallPC
  <1>2. MutualExclusion'
    BY <1>0 DEF MutualExclusion, TypeOK
  <1>3. NoLostWakeup'
    <2>1. Posting' = Posting
      BY <1>0, PostingSame, Zenon
    <2> QED BY <1>0, <2>1 DEF NoLostWakeup, Wakeups
  <1>4. FifoOrder'
    BY <1>0 DEF FifoOrder, Taken
  <1>5. PoisonOnce'
    BY <1>0 DEF PoisonOnce, TypeOK
  <1> QED BY <1>1, <1>2, <1>3, <1>4, <1>5 DEF IInv

\* list_add_tail and spin_unlock preserve it (queue.h 37-38): the entry goes
\* to the end of both list and queued, and its caller owes a wake-up.
LEMMA AddStep ==
  ASSUME IInv, NEW c \in Caller, NEW x \in Arg(c), Add(c, x)
  PROVE  IInv'
  <1> USE DEF Add
  <1>0. TypeOK /\ MutualExclusion /\ NoLostWakeup /\ FifoOrder /\ PoisonOnce
    BY DEF IInv
  <1>a. x \in Entry /\ (x = Poison <=> c = Stopper)
    BY DEF Arg, Entry
  <1>b. /\ Len(list') = Len(list) + 1 /\ Len(queued') = Len(queued) + 1
        /\ Taken' = Taken
        /\ Len(list) \in Nat /\ Len(queued) \in Nat
    BY <1>0 DEF TypeOK, Taken
  <1>1. TypeOK'
    <2>1. list' \in Seq(Entry) /\ queued' \in Seq(Entry)
      BY <1>0, <1>a DEF TypeOK
    <2>2. call' \in [Caller -> CallPC]
      BY <1>0 DEF TypeOK, CallPC
    <2> QED BY <1>0, <2>1, <2>2, Zenon DEF TypeOK
  <1>2. MutualExclusion'
    BY <1>0 DEF MutualExclusion, TypeOK
  <1>3. NoLostWakeup'
    <2>1. Cardinality(Posting') = Cardinality(Posting) + 1
      BY <1>0, PostingAdd, Zenon
    <2>2. /\ sem' = sem /\ exec' = exec /\ interrupts' = interrupts
          /\ sem \in Nat /\ interrupts \in Nat
      BY <1>0 DEF TypeOK
    <2>3. Wakeups \in Nat /\ Wakeups' = Wakeups + 1
      BY ONLY <2>1, <2>2, PostingNat DEF Wakeups
    <2>4. NoLostWakeup
      BY <1>0
    <2> QED BY ONLY <1>b, <2>2, <2>3, <2>4 DEF NoLostWakeup
  <1>4. FifoOrder'
    <2>0. /\ \A i \in 1..Len(queued) : queued'[i] = queued[i]
          /\ queued'[Len(queued) + 1] = x
          /\ \A i \in 1..Len(list) : list'[i] = list[i]
          /\ list'[Len(list) + 1] = x
          /\ ran' = ran /\ Len(ran) \in Nat
      BY <1>0, <1>a DEF TypeOK
    <2>s. FifoSeqs /\ FifoCases
      BY <1>0, FifoSplit
    <2>t. Taken = Len(queued) - Len(list) /\ Taken \in Nat
      <3>1. Taken = Len(ran) \/ Taken = Len(ran) + 1
        BY <2>s DEF FifoCases
      <3> QED BY <2>0, <3>1 DEF Taken
    <2>1. ASSUME NEW i \in 1..Len(list')
          PROVE  Taken' + i \in 1..Len(queued') /\ list'[i] = queued'[Taken' + i]
      <3>1. CASE i = Len(list) + 1
        BY <3>1, <1>b, <2>0, <2>t
      <3>2. CASE i \in 1..Len(list)
        BY <3>2, <1>b, <2>0, <2>s, <2>t DEF FifoSeqs
      <3> QED BY <1>b, <3>1, <3>2
    <2>2. ASSUME NEW i \in 1..Len(ran')
          PROVE  i <= Taken' /\ ran'[i] = queued'[i]
      BY <1>b, <2>0, <2>s, <2>t DEF FifoSeqs
    <2>3. FifoCases'
      <3>1. exec' = exec /\ task' = task
        OBVIOUS
      <3>2. exec \in {"run", "poisoned", "exited"} => Taken \in 1..Len(queued)
        BY <1>b, <2>0, <2>s, <2>t DEF FifoCases
      <3> QED BY <1>b, <2>0, <2>s, <3>1, <3>2 DEF FifoCases
    <2> QED BY <2>1, <2>2, <2>3, FifoSplitPrime, Zenon DEF FifoSeqs
  <1>5. PoisonOnce'
    <2>1. /\ Len(queued') = Len(queued) + 1 /\ Len(queued) \in Nat
          /\ \A i \in 1..Len(queued) : queued'[i] = queued[i]
          /\ queued'[Len(queued) + 1] = x
      BY <1>0, <1>a DEF TypeOK
    <2>2. c = Stopper => \A i \in 1..Len(queued) : queued[i] # Poison
      BY <1>0 DEF PoisonOnce
    <2>3. \A i \in 1..Len(queued') :
            queued'[i] = Poison =>
              \/ i \in 1..Len(queued) /\ queued[i] = Poison
              \/ i = Len(queued) + 1 /\ c = Stopper
      <3> SUFFICES ASSUME NEW i \in 1..Len(queued'), queued'[i] = Poison
                   PROVE  \/ i \in 1..Len(queued) /\ queued[i] = Poison
                          \/ i = Len(queued) + 1 /\ c = Stopper
        OBVIOUS
      <3>1. i \in 1..Len(queued) \/ i = Len(queued) + 1
        BY <2>1
      <3> QED BY <1>a, <2>1, <3>1
    <2>4. \A i, j \in 1..Len(queued') :
            queued'[i] = Poison /\ queued'[j] = Poison => i = j
      BY <1>0, <2>2, <2>3 DEF PoisonOnce
    <2>5. (\E i \in 1..Len(queued') : queued'[i] = Poison)
            => call'[Stopper] \in {"up", "stop", "join", "done"}
      BY <1>0, <2>3 DEF PoisonOnce, TypeOK
    <2>6. call'[Stopper] \in {"join", "done"} <=> call[Stopper] \in {"join", "done"}
      BY <1>0 DEF TypeOK
    <2>7. call'[Stopper] = "done" => call[Stopper] = "done"
      BY <1>0 DEF TypeOK
    <2> QED BY <1>0, <2>4, <2>5, <2>6, <2>7 DEF PoisonOnce
  <1> QED BY <1>1, <1>2, <1>3, <1>4, <1>5 DEF IInv

\* up preserves it (queue.h 40): the wake-up that was owed is in the semaphore.
LEMMA UpStep ==
  ASSUME IInv, NEW c \in Caller, Up(c)
  PROVE  IInv'
  <1> USE DEF Up
  <1>0. TypeOK /\ MutualExclusion /\ NoLostWakeup /\ FifoOrder /\ PoisonOnce
    BY DEF IInv
  <1>1. TypeOK'
    BY <1>0 DEF TypeOK, CallPC
  <1>2. MutualExclusion'
    BY <1>0 DEF MutualExclusion, TypeOK
  <1>3. NoLostWakeup'
    <2>1. Cardinality(Posting') = Cardinality(Posting) - 1
      <3> DEFINE pc == IF c = Stopper THEN "stop" ELSE "idle"
      <3>1. pc # "up" /\ call' = [call EXCEPT ![c] = pc]
        OBVIOUS
      <3> HIDE DEF pc
      <3> QED BY <1>0, <3>1, PostingRemove, Zenon
    <2> QED BY <1>0, <2>1, PostingNat, SMTT(30) DEF NoLostWakeup, Wakeups, TypeOK
  <1>4. FifoOrder'
    BY <1>0 DEF FifoOrder, Taken
  <1>5. PoisonOnce'
    BY <1>0 DEF PoisonOnce, TypeOK
  <1> QED BY <1>1, <1>2, <1>3, <1>4, <1>5 DEF IInv

\* Raising the flag of kthread_stop preserves it (queue.h 91).
LEMMA KthreadStopStep ==
  ASSUME IInv, KthreadStop
  PROVE  IInv'
  <1> USE DEF KthreadStop
  <1>0. TypeOK /\ MutualExclusion /\ NoLostWakeup /\ FifoOrder /\ PoisonOnce
    BY DEF IInv
  <1>1. TypeOK'
    BY <1>0 DEF TypeOK, CallPC
  <1>2. MutualExclusion'
    BY <1>0 DEF MutualExclusion, TypeOK
  <1>3. NoLostWakeup'
    <2>1. Posting' = Posting
      BY <1>0, PostingSame, Zenon
    <2> QED BY <1>0, <2>1 DEF NoLostWakeup, Wakeups
  <1>4. FifoOrder'
    BY <1>0 DEF FifoOrder, Taken
  <1>5. PoisonOnce'
    BY <1>0 DEF PoisonOnce, TypeOK
  <1> QED BY <1>1, <1>2, <1>3, <1>4, <1>5 DEF IInv

\* The return of kthread_stop preserves it (queue.h 91).
LEMMA JoinStep ==
  ASSUME IInv, Join
  PROVE  IInv'
  <1> USE DEF Join
  <1>0. TypeOK /\ MutualExclusion /\ NoLostWakeup /\ FifoOrder /\ PoisonOnce
    BY DEF IInv
  <1>1. TypeOK'
    BY <1>0 DEF TypeOK, CallPC
  <1>2. MutualExclusion'
    BY <1>0 DEF MutualExclusion, TypeOK
  <1>3. NoLostWakeup'
    <2>1. Posting' = Posting
      BY <1>0, PostingSame, Zenon
    <2> QED BY <1>0, <2>1 DEF NoLostWakeup, Wakeups
  <1>4. FifoOrder'
    BY <1>0 DEF FifoOrder, Taken
  <1>5. PoisonOnce'
    BY <1>0 DEF PoisonOnce, TypeOK
  <1> QED BY <1>1, <1>2, <1>3, <1>4, <1>5 DEF IInv

\* The first scheduling of the executor preserves it.
LEMMA StartStep ==
  ASSUME IInv, Start
  PROVE  IInv'
  <1> USE DEF Start
  <1>0. TypeOK /\ MutualExclusion /\ NoLostWakeup /\ FifoOrder /\ PoisonOnce
    BY DEF IInv
  <1>1. TypeOK'
    BY <1>0 DEF TypeOK, ExecPC
  <1>2. MutualExclusion'
    BY <1>0 DEF MutualExclusion, TypeOK
  <1>3. NoLostWakeup'
    <2>1. Posting' = Posting
      BY DEF Posting
    <2> QED BY <1>0, <2>1, PostingNat DEF NoLostWakeup, Wakeups, TypeOK
  <1>4. FifoOrder'
    BY <1>0 DEF FifoOrder, Taken, TypeOK
  <1>5. PoisonOnce'
    BY <1>0 DEF PoisonOnce, TypeOK
  <1> QED BY <1>1, <1>2, <1>3, <1>4, <1>5 DEF IInv

\* A successful down_killable preserves it: a wake-up moves from the semaphore
\* to the executor (queue.h 55).
LEMMA DownStep ==
  ASSUME IInv, Down
  PROVE  IInv'
  <1> USE DEF Down
  <1>0. TypeOK /\ MutualExclusion /\ NoLostWakeup /\ FifoOrder /\ PoisonOnce
    BY DEF IInv
  <1>1. TypeOK'
    BY <1>0 DEF TypeOK, ExecPC
  <1>2. MutualExclusion'
    BY <1>0 DEF MutualExclusion, TypeOK
  <1>3. NoLostWakeup'
    <2>1. Posting' = Posting
      BY DEF Posting
    <2> QED BY <1>0, <2>1, PostingNat DEF NoLostWakeup, Wakeups, TypeOK
  <1>4. FifoOrder'
    BY <1>0 DEF FifoOrder, Taken, TypeOK
  <1>5. PoisonOnce'
    BY <1>0 DEF PoisonOnce, TypeOK
  <1> QED BY <1>1, <1>2, <1>3, <1>4, <1>5 DEF IInv

\* A failed down_killable preserves it: it is paid for by interrupts.
LEMMA InterruptStep ==
  ASSUME IInv, Interrupt
  PROVE  IInv'
  <1> USE DEF Interrupt
  <1>0. TypeOK /\ MutualExclusion /\ NoLostWakeup /\ FifoOrder /\ PoisonOnce
    BY DEF IInv
  <1>1. TypeOK'
    BY <1>0 DEF TypeOK, ExecPC
  <1>2. MutualExclusion'
    BY <1>0 DEF MutualExclusion, TypeOK
  <1>3. NoLostWakeup'
    <2>1. Posting' = Posting
      BY DEF Posting
    <2> QED BY <1>0, <2>1, PostingNat DEF NoLostWakeup, Wakeups, TypeOK
  <1>4. FifoOrder'
    BY <1>0 DEF FifoOrder, Taken, TypeOK
  <1>5. PoisonOnce'
    BY <1>0 DEF PoisonOnce, TypeOK
  <1> QED BY <1>1, <1>2, <1>3, <1>4, <1>5 DEF IInv

\* Finding the list empty preserves it (queue.h 59).
LEMMA TakeNothingStep ==
  ASSUME IInv, TakeNothing
  PROVE  IInv'
  <1> USE DEF TakeNothing
  <1>0. TypeOK /\ MutualExclusion /\ NoLostWakeup /\ FifoOrder /\ PoisonOnce
    BY DEF IInv
  <1>1. TypeOK'
    BY <1>0 DEF TypeOK, ExecPC
  <1>2. MutualExclusion'
    BY <1>0 DEF MutualExclusion, TypeOK
  <1>3. NoLostWakeup'
    <2>1. Posting' = Posting
      BY DEF Posting
    <2> QED BY <1>0, <2>1, PostingNat DEF NoLostWakeup, Wakeups, TypeOK
  <1>4. FifoOrder'
    BY <1>0 DEF FifoOrder, Taken, TypeOK
  <1>5. PoisonOnce'
    BY <1>0 DEF PoisonOnce, TypeOK
  <1> QED BY <1>1, <1>2, <1>3, <1>4, <1>5 DEF IInv

\* The return of task_executor preserves it (queue.h 82-85).
LEMMA ExitStep ==
  ASSUME IInv, Exit
  PROVE  IInv'
  <1> USE DEF Exit
  <1>0. TypeOK /\ MutualExclusion /\ NoLostWakeup /\ FifoOrder /\ PoisonOnce
    BY DEF IInv
  <1>1. TypeOK'
    BY <1>0 DEF TypeOK, ExecPC
  <1>2. MutualExclusion'
    BY <1>0 DEF MutualExclusion, TypeOK
  <1>3. NoLostWakeup'
    <2>1. Posting' = Posting
      BY DEF Posting
    <2> QED BY <1>0, <2>1, PostingNat DEF NoLostWakeup, Wakeups, TypeOK
  <1>4. FifoOrder'
    BY <1>0 DEF FifoOrder, Taken, TypeOK
  <1>5. PoisonOnce'
    BY <1>0 DEF PoisonOnce, TypeOK
  <1> QED BY <1>1, <1>2, <1>3, <1>4, <1>5 DEF IInv

\* What unlinking the first entry does to the list, and to Taken.
LEMMA Unlink ==
  ASSUME TypeOK, FifoOrder, list # << >>, list' = Tail(list),
         queued' = queued, ran' = ran,
         exec \in {"woken", "interrupted"}
  PROVE  /\ Head(list) \in Entry /\ Tail(list) \in Seq(Entry)
         /\ Len(list) \in Nat \ {0} /\ Len(list') = Len(list) - 1
         /\ Taken = Len(ran) /\ Len(ran) \in Nat
         /\ Taken' = Taken + 1 /\ Taken' \in 1..Len(queued)
         /\ queued[Taken'] = Head(list)
         /\ FifoSeqs'
  <1>1. /\ Head(list) \in Entry /\ Tail(list) \in Seq(Entry)
        /\ Len(list) \in Nat \ {0} /\ Len(list') = Len(list) - 1
        /\ \A i \in 1..Len(list') : list'[i] = list[i + 1]
        /\ Head(list) = list[1]
        /\ Len(queued) \in Nat /\ Len(ran) \in Nat
    BY DEF TypeOK
  <1>2. FifoSeqs /\ FifoCases
    BY FifoSplit
  <1>3. Taken = Len(ran) /\ Taken' = Taken + 1 /\ Taken = Len(queued) - Len(list)
    BY <1>1, <1>2 DEF FifoCases, Taken
  <1>4. Taken' \in 1..Len(queued) /\ queued[Taken'] = Head(list)
    BY <1>1, <1>2, <1>3 DEF FifoSeqs
  <1>5. ASSUME NEW i \in 1..Len(list')
        PROVE  Taken' + i \in 1..Len(queued') /\ list'[i] = queued'[Taken' + i]
    <2>1. i + 1 \in 1..Len(list) /\ Taken' + i = Taken + (i + 1)
      BY <1>1, <1>3
    <2> QED BY <1>1, <1>2, <2>1 DEF FifoSeqs
  <1>6. ASSUME NEW i \in 1..Len(ran')
        PROVE  i <= Taken' /\ ran'[i] = queued'[i]
    <2>1. i <= Taken /\ ran[i] = queued[i]
      BY <1>2 DEF FifoSeqs
    <2>2. i \in Nat /\ Taken \in Nat /\ Taken' = Taken + 1
      BY ONLY <1>1, <1>3, i \in 1..Len(ran'), ran' = ran
    <2> QED BY <2>1, <2>2
  <1>7. FifoSeqs'
    BY ONLY <1>5, <1>6 DEF FifoSeqs
  <1> QED BY ONLY <1>1, <1>3, <1>4, <1>7

\* Unlinking an entry uses up the wake-up that led to it, or pays back the
\* interrupted wait that did.
LEMMA UnlinkWakeups ==
  ASSUME TypeOK, NoLostWakeup, Len(list) \in Nat, Len(list') = Len(list) - 1,
         exec \in {"woken", "interrupted"}, exec' \in {"run", "poisoned"},
         sem' = sem, interrupts' = interrupts, call' = call
  PROVE  NoLostWakeup'
  <1>1. Posting' = Posting
    BY DEF Posting
  <1>2. sem \in Nat /\ interrupts \in Nat
    BY DEF TypeOK
  <1>3. Wakeups' = sem + Cardinality(Posting)
    BY <1>1, <1>2, PostingNat DEF Wakeups
  <1>4. CASE exec = "woken"
    <2>1. Wakeups = sem + Cardinality(Posting) + 1
      BY <1>4 DEF Wakeups
    <2> QED BY <1>2, <1>3, <1>4, <2>1, PostingNat DEF NoLostWakeup
  <1>5. CASE exec = "interrupted"
    <2>1. Wakeups = sem + Cardinality(Posting)
      BY <1>2, <1>5, PostingNat DEF Wakeups
    <2> QED BY <1>2, <1>3, <1>5, <2>1, PostingNat, SMTT(30) DEF NoLostWakeup
  <1> QED BY <1>4, <1>5

\* Unlinking a task and entering its handler preserves it (queue.h 60-67).
LEMMA TakeStep ==
  ASSUME IInv, Take
  PROVE  IInv'
  <1> USE DEF Take
  <1>0. TypeOK /\ MutualExclusion /\ NoLostWakeup /\ FifoOrder /\ PoisonOnce
    BY DEF IInv
  <1>u. /\ Head(list) \in Entry /\ Tail(list) \in Seq(Entry)
        /\ Len(list) \in Nat \ {0} /\ Len(list') = Len(list) - 1
        /\ Taken = Len(ran) /\ Len(ran) \in Nat
        /\ Taken' = Taken + 1 /\ Taken' \in 1..Len(queued)
        /\ queued[Taken'] = Head(list)
        /\ FifoSeqs'
    BY <1>0, Unlink
  <1>1. TypeOK'
    BY <1>0, <1>u DEF TypeOK, ExecPC
  <1>2. MutualExclusion'
    BY <1>0 DEF MutualExclusion, TypeOK
  <1>3. NoLostWakeup'
    BY <1>0, <1>u, UnlinkWakeups
  <1>4. FifoOrder'
    <2>1. FifoCases'
      BY <1>u DEF FifoCases
    <2> QED BY <1>u, <2>1, FifoSplitPrime
  <1>5. PoisonOnce'
    BY <1>0, <1>u, Zenon DEF PoisonOnce, TypeOK, Entry
  <1> QED BY <1>1, <1>2, <1>3, <1>4, <1>5 DEF IInv

\* Unlinking the poison preserves it (queue.h 60-65).
LEMMA TakePoisonStep ==
  ASSUME IInv, TakePoison
  PROVE  IInv'
  <1> USE DEF TakePoison
  <1>0. TypeOK /\ MutualExclusion /\ NoLostWakeup /\ FifoOrder /\ PoisonOnce
    BY DEF IInv
  <1>u. /\ Head(list) \in Entry /\ Tail(list) \in Seq(Entry)
        /\ Len(list) \in Nat \ {0} /\ Len(list') = Len(list) - 1
        /\ Taken = Len(ran) /\ Len(ran) \in Nat
        /\ Taken' = Taken + 1 /\ Taken' \in 1..Len(queued)
        /\ queued[Taken'] = Head(list)
        /\ FifoSeqs'
    BY <1>0, Unlink
  <1>1. TypeOK'
    BY <1>0, <1>u DEF TypeOK, ExecPC
  <1>2. MutualExclusion'
    BY <1>0 DEF MutualExclusion, TypeOK
  <1>3. NoLostWakeup'
    BY <1>0, <1>u, UnlinkWakeups
  <1>4. FifoOrder'
    <2>1. FifoCases'
      BY <1>u DEF FifoCases
    <2> QED BY <1>u, <2>1, FifoSplitPrime
  <1>5. PoisonOnce'
    BY <1>0, <1>u DEF PoisonOnce, TypeOK, Entry
  <1> QED BY <1>1, <1>2, <1>3, <1>4, <1>5 DEF IInv

\* The return of the handler and spin_unlock preserve it (queue.h 67-71).
LEMMA FinishStep ==
  ASSUME IInv, Finish
  PROVE  IInv'
  <1> USE DEF Finish
  <1>0. TypeOK /\ MutualExclusion /\ NoLostWakeup /\ FifoOrder /\ PoisonOnce
    BY DEF IInv
  <1>a. task \in Task
    BY <1>0 DEF PoisonOnce
  <1>b. /\ ran' \in Seq(Task) /\ Len(ran') = Len(ran) + 1 /\ Len(ran) \in Nat
        /\ \A i \in 1..Len(ran) : ran'[i] = ran[i]
        /\ ran'[Len(ran) + 1] = task
    BY <1>0, <1>a DEF TypeOK
  <1>1. TypeOK'
    BY <1>0, <1>b, Zenon DEF TypeOK, ExecPC, Entry
  <1>2. MutualExclusion'
    BY <1>0 DEF MutualExclusion, TypeOK
  <1>3. NoLostWakeup'
    <2>1. Posting' = Posting
      BY DEF Posting
    <2> QED BY <1>0, <2>1, PostingNat DEF NoLostWakeup, Wakeups, TypeOK
  <1>4. FifoOrder'
    <2>0. FifoSeqs /\ FifoCases
      BY <1>0, FifoSplit
    <2>1. Taken' = Taken /\ Taken = Len(ran) + 1 /\ task = queued[Taken]
      BY <2>0 DEF FifoCases, Taken
    <2>2. ASSUME NEW i \in 1..Len(ran')
          PROVE  i <= Taken' /\ ran'[i] = queued'[i]
      <3>1. CASE i = Len(ran) + 1
        BY <3>1, <1>b, <2>1
      <3>2. CASE i \in 1..Len(ran)
        BY <3>2, <1>b, <2>0, <2>1 DEF FifoSeqs
      <3> QED BY <1>b, <3>1, <3>2
    <2>3. FifoCases'
      BY <1>b, <2>1 DEF FifoCases
    <2>4. FifoSeqs'
      BY <2>0, <2>1, <2>2, Zenon DEF FifoSeqs
    <2> QED BY <2>3, <2>4, FifoSplitPrime
  <1>5. PoisonOnce'
    BY <1>0 DEF PoisonOnce, TypeOK
  <1> QED BY <1>1, <1>2, <1>3, <1>4, <1>5 DEF IInv

-----------------------------------------------------------------------------

\* The invariant is inductive: one case per action.
LEMMA NextIInv == IInv /\ [Next]_vars => IInv'
  <1> SUFFICES ASSUME IInv, [Next]_vars PROVE IInv'
    OBVIOUS
  <1>1. ASSUME NEW c \in Caller, CallerNext(c) PROVE IInv'
    BY <1>1, LockStep, AddStep, UpStep DEF CallerNext
  <1>2. CASE StopperNext
    BY <1>2, KthreadStopStep, JoinStep DEF StopperNext
  <1>3. CASE ExecNext
    BY <1>3, StartStep, DownStep, InterruptStep, TakeNothingStep, TakeStep,
       TakePoisonStep, FinishStep, ExitStep, SMTT(30) DEF ExecNext
  <1>4. CASE UNCHANGED vars
    <2>1. UNCHANGED <<Posting, Taken>>
      BY <1>4 DEF vars, Posting, Taken
    <2> QED BY <1>4, <2>1, SMTT(30) DEF vars, IInv, TypeOK, MutualExclusion, NoLostWakeup,
               Wakeups, FifoOrder, PoisonOnce
  <1> QED BY <1>1, <1>2, <1>3, <1>4 DEF Next

\* The inductive invariant holds in every reachable state of every queue,
\* whatever the callers, the tasks and the interrupted waits.
THEOREM Invariance == Spec => []IInv
  BY InitIInv, NextIInv, PTL DEF Spec

\* Type correctness of queue.h's state.
THEOREM TypeCorrect == Spec => []TypeOK
  <1>1. IInv => TypeOK
    BY DEF IInv
  <1> QED BY <1>1, Invariance, PTL

\* The spinlock excludes queue_task and the running handler from each other.
THEOREM MutexHolds == Spec => []MutualExclusion
  <1>1. IInv => MutualExclusion
    BY DEF IInv
  <1> QED BY <1>1, Invariance, PTL

\* Raising the semaphore after the unlock never strands an entry.
THEOREM WakeupsHold == Spec => []NoLostWakeup
  <1>1. IInv => NoLostWakeup
    BY DEF IInv
  <1> QED BY <1>1, Invariance, PTL

\* Tasks run once each and in the order in which they were queued.
THEOREM FifoHolds == Spec => []FifoOrder
  <1>1. IInv => FifoOrder
    BY DEF IInv
  <1> QED BY <1>1, Invariance, PTL

\* When stop_executor returns, what was queued before its poison has run and
\* nothing else has.
THEOREM StopDrainsHolds == Spec => []StopDrains
  <1>1. IInv => StopDrains
    <2> SUFFICES ASSUME IInv, call[Stopper] = "done" PROVE StopDrains
      BY DEF StopDrains
    <2>0. TypeOK /\ FifoSeqs /\ FifoCases /\ PoisonOnce
      BY FifoSplit DEF IInv
    <2>1. CASE exec = "cancelled"
      BY <2>0, <2>1 DEF StopDrains, PoisonOnce
    <2>2. CASE exec = "exited"
      <3>1. Taken = Len(ran) + 1 /\ queued[Taken] = Poison
        BY <2>0, <2>2 DEF FifoCases
      <3>2. Taken \in 1..Len(queued)
        BY <2>0, <3>1 DEF TypeOK, Taken
      <3> QED BY <2>0, <2>2, <3>1, <3>2 DEF StopDrains, PoisonOnce
    <2> QED BY <2>0, <2>1, <2>2 DEF PoisonOnce
  <1> QED BY <1>1, Invariance, PTL

-----------------------------------------------------------------------------
(* Refinement                                                              *)

Running == IF exec = "run" THEN <<task>> ELSE << >>

Pending == Running \o list

State == CASE exec \in {"poisoned", "exited"} -> "poisoned"
           [] exec = "cancelled" -> "cancelled"
           [] OTHER -> "serving"

\* The abstract state for each place where the executor can be.
LEMMA StateCases ==
  /\ exec \in {"poisoned", "exited"} => State = "poisoned"
  /\ exec = "cancelled" => State = "cancelled"
  /\ exec \notin {"poisoned", "exited", "cancelled"} => State = "serving"
  BY DEF State

\* The same in the next state.
LEMMA StateCasesPrime ==
  /\ exec' \in {"poisoned", "exited"} => State' = "poisoned"
  /\ exec' = "cancelled" => State' = "cancelled"
  /\ exec' \notin {"poisoned", "exited", "cancelled"} => State' = "serving"
  BY DEF State

\* Facts about the sequence <<t>> \o s and << >> \o s.
LEMMA ConcatFacts ==
  ASSUME NEW S, NEW s \in Seq(S), NEW t \in S, NEW x \in S
  PROVE  /\ << >> \o s = s
         /\ <<t>> \o s # << >>
         /\ Head(<<t>> \o s) = t
         /\ Tail(<<t>> \o s) = s
         /\ <<t>> \o Append(s, x) = Append(<<t>> \o s, x)
         /\ s # << >> => <<Head(s)>> \o Tail(s) = s
  BY SMTT(30)

\* Every step of the queue is a step of the serial executor or a stutter.
LEMMA AbstractStep ==
  ASSUME IInv, IInv', [Next]_vars
  PROVE  [Abstract!Next]_(Abstract!vars)
  <1> DEFINE Goal == \/ Abstract!Next
                    \/ UNCHANGED <<Pending, ran, State>>
  <1>g. SUFFICES Goal
    BY DEF Abstract!vars, Pending, Running, State
  <1> USE DEF Goal
  <1>0. TypeOK /\ PoisonOnce
    BY DEF IInv
  <1>1. ASSUME NEW c \in Caller, NEW x \in Arg(c), Add(c, x)
        PROVE  Abstract!Next
    <2>1. x \in Entry
      BY DEF Arg, Entry
    <2>2. Pending' = Append(Pending, x)
      BY <1>0, <1>1, <2>1, ConcatFacts, SMTT(30) DEF Pending, Running, Add, TypeOK
    <2>3. UNCHANGED <<ran, State>>
      BY <1>1 DEF Add, State
    <2> QED BY <2>1, <2>2, <2>3, ZenonT(40) DEF Abstract!Next, Abstract!Submit, Pending,
               Running, State, Entry
  <1>2. CASE Finish
    <2>1. Pending = <<task>> \o list /\ Pending' = list
      BY <1>0, <1>2, ConcatFacts DEF Pending, Running, Finish, TypeOK
    <2>2. Pending # << >> /\ Head(Pending) = task /\ Tail(Pending) = list
      BY <1>0, <2>1, ConcatFacts DEF TypeOK
    <2>3. task # Poison
      BY <1>0, <1>2 DEF PoisonOnce, Finish
    <2>4. State = "serving" /\ State' = "serving"
      BY <1>2, StateCases, StateCasesPrime DEF Finish
    <2> QED BY <1>2, <2>1, <2>2, <2>3, <2>4, Zenon DEF Abstract!Next, Abstract!Run,
               Pending, Running, State, Finish
  <1>3. CASE TakePoison
    <2>1. Pending = list /\ Pending' = Tail(list)
      BY <1>0, <1>3, ConcatFacts DEF Pending, Running, TakePoison, TypeOK
    <2>2. State = "serving" /\ State' = "poisoned"
      BY <1>3, StateCases, StateCasesPrime DEF TakePoison
    <2> QED BY <1>3, <2>1, <2>2, Zenon DEF Abstract!Next, Abstract!Stop, Pending,
               Running, State, TakePoison
  <1>4. CASE Take
    <2>1. Head(list) \in Entry /\ Tail(list) \in Seq(Entry)
      BY <1>0, <1>4 DEF TypeOK, Take
    <2>2. Pending = list /\ Pending' = <<Head(list)>> \o Tail(list)
      BY <1>0, <1>4, ConcatFacts DEF Pending, Running, Take, TypeOK
    <2>3. Pending' = Pending
      BY <1>0, <1>4, <2>2, ConcatFacts DEF TypeOK, Take
    <2>4. State' = State
      BY <1>4, StateCases, StateCasesPrime DEF Take
    <2> QED BY <1>4, <2>3, <2>4 DEF Take
  <1>5. CASE Start
    <2>1. Pending' = Pending /\ State = "serving"
      BY <1>5, StateCases DEF Pending, Running, Start
    <2>2. CASE should_stop
      <3>1. State' = "cancelled" /\ ran = << >>
        BY <1>0, <1>5, <2>2, StateCasesPrime DEF Start, PoisonOnce
      <3> QED BY <1>5, <2>1, <3>1 DEF Abstract!Next, Abstract!Cancel, Pending,
                 Running, State, Start
    <2>3. CASE ~should_stop
      <3>1. State' = "serving"
        BY <1>5, <2>3, StateCasesPrime DEF Start
      <3> QED BY <1>5, <2>1, <3>1 DEF Start
    <2> QED BY <2>2, <2>3
  <1>6. CASE Down \/ Interrupt \/ TakeNothing \/ Exit
    <2>1. /\ UNCHANGED <<list, ran, task>> /\ exec # "run" /\ exec' # "run"
          /\ \/ exec \notin {"poisoned", "exited", "cancelled"}
                /\ exec' \notin {"poisoned", "exited", "cancelled"}
             \/ exec = "poisoned" /\ exec' = "exited"
      BY <1>6 DEF Down, Interrupt, TakeNothing, Exit
    <2>2. State' = State
      BY ONLY <2>1, StateCases, StateCasesPrime
    <2>3. Pending' = Pending
      BY ONLY <2>1, Zenon DEF Pending, Running
    <2> QED BY <2>1, <2>2, <2>3
  <1>7. CASE KthreadStop \/ Join \/ UNCHANGED vars \/ \E c \in Caller : Lock(c) \/ Up(c)
    <2>1. UNCHANGED <<list, ran, task, exec>>
      BY <1>7 DEF KthreadStop, Join, Lock, Up, vars
    <2>2. Pending' = Pending /\ State' = State
      BY ONLY <2>1 DEF Pending, Running, State
    <2> QED BY <2>1, <2>2
  <1> QED BY <1>1, <1>2, <1>3, <1>4, <1>5, <1>6, <1>7
          DEF Next, CallerNext, StopperNext, ExecNext

\* queue.h implements the serial executor (the safety part of the refinement
\* that the run checks with its fairness).
THEOREM Refinement == Spec => Abstract!Safety
  <1>1. Init => Abstract!Init
    BY DEF Init, Abstract!Init
  <1>2. IInv /\ IInv' /\ [Next]_vars => [Abstract!Next]_(Abstract!vars)
    BY AbstractStep
  <1> QED BY <1>1, <1>2, Invariance, PTL DEF Spec, Abstract!Safety
=============================================================================
