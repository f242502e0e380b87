--------------------------- MODULE MihAnswerProofs ---------------------------
(***************************************************************************)
(* Lemmas about the kernel module: how handle_message calls                *)
(* dispatch_queue, which tasks are answered, what comes behind the         *)
(* poisons, and who owns which allocation.                                 *)
(***************************************************************************)
EXTENDS MihTaskProofs

-----------------------------------------------------------------------------
(* Acknowledge                                                             *)

\* Acknowledge is called by the running handle_message, and queue_task by it.
LEMMA AckStepsStep ==
  ASSUME AckSteps, m_exec \in M!ExecPC,
         m_call \in [{"udp", "netdev", "loader"} -> M!CallPC],
         d_call \in [{"mihf", "loader"} -> D!CallPC],
         [Next]_vars
  PROVE  AckSteps'
  <1> USE DEF AckSteps, mvars, dvars
  <1>0. ASSUME UNCHANGED <<ackpc, m_exec, m_task>>, d_call'["mihf"] = d_call["mihf"]
        PROVE  AckSteps'
    BY <1>0 DEF WantsAck
  <1>1. CASE Acknowledge
    BY <1>1 DEF Acknowledge, D!Lock, D!Add, D!Up, WantsAck
  <1>2. CASE HandleMessage
    BY <1>2 DEF HandleMessage
  <1>3. CASE LinkIndication
    BY <1>3 DEF LinkIndication, WantsAck, LinkKind
  <1>4. CASE MihfExecutor
    BY <1>4 DEF MihfExecutor, M!Start, M!Down, M!Take, M!TakePoison, M!Exit
  <1>5. CASE StopMihf \/ UdpQueue \/ NetDevNotifier
    BY <1>5, <1>0, Zenon DEF StopMihf, UdpQueue, NetDevNotifier, M!Lock, M!Add, M!Up,
       M!KthreadStop, M!Join
  <1>6. CASE StopDispatch
    BY <1>6, <1>0, Zenon DEF StopDispatch, D!Lock, D!Add, D!Up, D!KthreadStop, D!Join
  <1>7. CASE HandleUdpReply \/ DispatchExecutor
    BY <1>7, <1>0 DEF HandleUdpReply, DispatchExecutor, D!Finish, D!Start, D!Down, D!Take,
       D!TakePoison, D!Exit
  <1>8. CASE QuietStep
    BY <1>8, <1>0, QuietFrame
  <1> QED BY <1>1, <1>2, <1>3, <1>4, <1>5, <1>6, <1>7, <1>8, StepCases, Zenon

\* What the executor of mihf_queue is running has not run before, is not
\* linked any more and has no answer on dispatch_queue until Acknowledge links it.
LEMMA RunningTask ==
  ASSUME M!IInv, TasksPlaced, AckExactlyOnce, m_exec = "run"
  PROVE  /\ m_task \in MihfTask /\ m_task # Poison /\ m_task \in Range(m_queued)
         /\ m_task \notin Range(m_ran) /\ m_task \notin Range(m_list)
         /\ ~AckLinked => m_task \notin Range(d_queued)
  <1>1. m_task \in MihfTask /\ m_task # Poison
    BY MTypes, TaskFacts
  <1>2. m_task \in Range(m_queued) /\ m_task \notin Range(m_ran) /\ m_task \notin Range(m_list)
    BY <1>1, MTypes, MFifo, FifoFacts DEF TasksPlaced
  <1>3. ~AckLinked => m_task \notin Range(d_queued)
    BY <1>1, <1>2 DEF AckExactlyOnce
  <1> QED BY <1>1, <1>2, <1>3

\* Acknowledge never answers a task twice.
LEMMA AckFresh ==
  ASSUME M!IInv, TasksPlaced, AckExactlyOnce, m_exec = "run", WantsAck(m_task), ~AckLinked
  PROVE  m_task \in D!Arg("mihf")
  <1>1. m_task \in Datagram
    BY RunningTask, TaskFacts
  <1> QED BY <1>1, RunningTask DEF D!Arg, Range

\* Each step of the module is a step of dispatch_queue or leaves it alone.
LEMMA DispatchQueueStep ==
  ASSUME M!IInv, TasksPlaced, AckExactlyOnce, [Next]_vars
  PROVE  [D!Next]_(D!vars)
  <1>a. ASSUME UNCHANGED dvars PROVE [D!Next]_(D!vars)
    BY <1>a DEF dvars, D!vars
  <1>b. ASSUME NEW c \in {"mihf", "loader"}, D!CallerNext(c) PROVE D!Next
    BY <1>b DEF D!Next
  <1>1. CASE Acknowledge
    <2>0. m_exec = "run" /\ WantsAck(m_task)
      BY <1>1 DEF Acknowledge
    <2>1. CASE ackpc = "todo" /\ D!Lock("mihf")
      <3>1. ~AckLinked
        BY <2>1 DEF AckLinked
      <3>2. D!CallerNext("mihf")
        BY <2>0, <2>1, <3>1, AckFresh DEF D!CallerNext
      <3> QED BY <1>b, <3>2
    <2>2. CASE ackpc = "queueing" /\ D!Add("mihf", m_task)
      <3>1. ~AckLinked
        BY <2>2 DEF AckLinked, D!Add
      <3>2. D!CallerNext("mihf")
        BY <2>0, <2>2, <3>1, AckFresh DEF D!CallerNext
      <3> QED BY <1>b, <3>2
    <2>3. CASE D!Up("mihf")
      BY <2>3, <1>b DEF D!CallerNext
    <2> QED BY <1>1, <2>1, <2>2, <2>3 DEF Acknowledge
  <1>2. CASE StopDispatch
    <2>1. CASE D!Lock("loader") \/ D!Add("loader", Poison) \/ D!Up("loader")
      <3>1. D!Arg("loader") = {Poison}
        BY DEF D!Arg
      <3>2. D!CallerNext("loader")
        BY <2>1, <3>1 DEF D!CallerNext
      <3> QED BY <1>b, <3>2
    <2>2. CASE D!KthreadStop \/ D!Join
      BY <2>2 DEF D!Next, D!StopperNext
    <2> QED BY <1>2, <1>a, <2>1, <2>2 DEF StopDispatch
  <1>3. CASE HandleUdpReply \/ DispatchExecutor
    BY <1>3 DEF HandleUdpReply, DispatchExecutor, D!Next, D!ExecNext
  <1>4. CASE \/ QuietStep \/ UdpQueue \/ NetDevNotifier \/ StopMihf
             \/ HandleMessage \/ LinkIndication \/ MihfExecutor
    BY <1>4, <1>a, QuietFrame, Zenon
       DEF UdpQueue, NetDevNotifier, StopMihf, HandleMessage, LinkIndication, MihfExecutor
  <1> QED BY <1>1, <1>2, <1>3, <1>4, StepCases, Zenon

\* Only tasks of mihf_queue are answered.
LEMMA AnsweredQueued ==
  ASSUME M!IInv, TasksPlaced, AckExactlyOnce
  PROVE  \A x \in Range(d_queued) : x = Poison \/ x \in Range(m_queued)
  <1>1. AckLinked => m_task \in Range(m_queued)
    BY RunningTask DEF AckLinked
  <1>2. Range(m_ran) \subseteq Range(m_queued)
    BY MTypes, MFifo, FifoFacts DEF TasksPlaced
  <1> QED BY <1>1, <1>2 DEF AckExactlyOnce

\* The parts of AckExactlyOnce that concern what is queued for dispatch.
Answered ==
  Range(d_queued) \ {Poison} =
    {x \in Range(m_ran) : IsAckreq(x)} \cup (IF AckLinked THEN {m_task} ELSE {})
AnswerOrder == Once(d_queued) /\ SameOrder(d_queued, m_queued)
Replied == failed \cap {"reply_socket", "reply_pack"} = {} => sent = d_ran

\* Acknowledge links the one answer of the running task, behind the others.
LEMMA AcknowledgeStep ==
  ASSUME M!IInv, D!IInv, TasksPlaced, AckExactlyOnce, Acknowledge
  PROVE  Answered' /\ AnswerOrder'
  <1>0. /\ m_exec = "run" /\ WantsAck(m_task) /\ m_task.kind = "ackreq"
        /\ d_call \in [{"mihf", "loader"} -> D!CallPC]
        /\ m_exec' = m_exec /\ m_task' = m_task /\ m_ran' = m_ran /\ m_queued' = m_queued
    BY DTypes DEF Acknowledge, WantsAck, mvars
  <1>1. CASE ackpc = "todo" /\ D!Lock("mihf") /\ ackpc' = "queueing"
    <2>1. d_queued' = d_queued /\ d_call'["mihf"] = "add"
      BY <1>0, <1>1 DEF D!Lock
    <2>2. ~AckLinked /\ ~AckLinked'
      BY <1>1, <2>1 DEF AckLinked
    <2> QED BY <1>0, <2>1, <2>2 DEF Answered, AnswerOrder, AckExactlyOnce
  <1>2. CASE ackpc = "queueing" /\ D!Add("mihf", m_task) /\ ackpc' = ackpc
    <2>1. d_queued' = Append(d_queued, m_task) /\ d_call["mihf"] = "add" /\ d_call'["mihf"] = "up"
      BY <1>0, <1>2 DEF D!Add
    <2>2. ~AckLinked /\ AckLinked'
      BY <1>0, <1>2, <2>1 DEF AckLinked
    <2>3. /\ m_task \notin Range(d_queued) /\ m_task \notin Range(m_ran)
          /\ m_task \in Datagram /\ m_task # Poison
      BY <1>0, <2>2, RunningTask, TaskFacts
    <2>4. Range(d_queued') = Range(d_queued) \cup {m_task}
      BY <2>1, <2>3, DTypes, RangeAppend
    <2>5. Answered'
      BY <1>0, <2>2, <2>3, <2>4 DEF Answered, AckExactlyOnce
    <2>6. Once(Append(d_queued, m_task))
      BY <2>3, DTypes, OnceAppend DEF AckExactlyOnce
    <2>7. \E l \in 1..Len(m_queued) :
            /\ m_queued[l] = m_task
            /\ \A i \in 1..Len(d_queued) :
                 d_queued[i] # Poison =>
                   \E k \in 1..Len(m_queued) : k < l /\ m_queued[k] = d_queued[i]
      <3> DEFINE l == Len(m_ran) + 1
      <3>1. /\ Fifo(m_list, m_exec, m_task, m_queued, m_ran, Poison)
            /\ m_list \in Seq(MihfTask \cup {Poison})
            /\ m_queued \in Seq(MihfTask \cup {Poison}) /\ m_ran \in Seq(MihfTask)
        BY MTypes, MFifo
      <3>2. /\ l \in 1..Len(m_queued) /\ m_queued[l] = m_task
            /\ \A i \in 1..Len(m_ran) : i \in 1..Len(m_queued) /\ i < l /\ m_ran[i] = m_queued[i]
        BY <1>0, <3>1 DEF Fifo
      <3>3. ASSUME NEW i \in 1..Len(d_queued), d_queued[i] # Poison
            PROVE  \E k \in 1..Len(m_queued) : k < l /\ m_queued[k] = d_queued[i]
        <4>1. d_queued[i] \in Range(m_ran)
          BY <2>2, <3>3, DTypes, RangeType DEF AckExactlyOnce
        <4>2. PICK k \in 1..Len(m_ran) : m_ran[k] = d_queued[i]
          BY <3>1, <4>1 DEF Range
        <4> QED BY <3>2, <4>2
      <3> QED BY <3>2, <3>3, Zenon
    <2>8. SameOrder(Append(d_queued, m_task), m_queued)
      BY <2>3, <2>7, DTypes, MTypes, OrderAppendLeft, Zenon DEF AckExactlyOnce, TasksPlaced
    <2> QED BY <1>0, <2>1, <2>5, <2>6, <2>8 DEF AnswerOrder
  <1>3. CASE ackpc = "queueing" /\ D!Up("mihf") /\ ackpc' = "done"
    <2>1. d_queued' = d_queued /\ d_call["mihf"] = "up"
      BY <1>3 DEF D!Up
    <2>2. AckLinked /\ AckLinked'
      BY <1>0, <1>3, <2>1 DEF AckLinked
    <2> QED BY <1>0, <2>1, <2>2 DEF Answered, AnswerOrder, AckExactlyOnce
  <1> QED BY <1>1, <1>2, <1>3 DEF Acknowledge

\* When a handler returns, its task is answered if and only if it asked for it.
LEMMA FinishStep ==
  ASSUME M!IInv, TasksPlaced, AckSteps, AckExactlyOnce, HandleMessage \/ LinkIndication
  PROVE  Answered' /\ AnswerOrder'
  <1>1. /\ m_exec = "run" /\ m_exec' = "down" /\ m_ran' = Append(m_ran, m_task)
        /\ m_queued' = m_queued /\ d_queued' = d_queued
    BY DEF HandleMessage, LinkIndication, M!Finish, dvars
  <1>2. m_task \in MihfTask /\ m_task # Poison
    BY <1>1, RunningTask
  <1>3. Range(m_ran') = Range(m_ran) \cup {m_task}
    BY <1>1, <1>2, MTypes, RangeAppend
  <1>4. AckLinked <=> IsAckreq(m_task)
    <2>1. CASE HandleMessage
      BY <1>1, <1>2, <2>1 DEF HandleMessage, AckLinked, IsAckreq, WantsAck
    <2>2. CASE LinkIndication
      <3>1. m_task.kind # "ackreq"
        BY <2>2 DEF LinkIndication, LinkKind
      <3> QED BY <3>1 DEF AckLinked, IsAckreq
    <2> QED BY <2>1, <2>2
  <1>5. ~AckLinked'
    BY <1>1 DEF AckLinked
  <1> QED BY <1>1, <1>3, <1>4, <1>5 DEF Answered, AnswerOrder, AckExactlyOnce

\* Queueing a new task on mihf_queue answers nothing.
LEMMA QueueAnswersNothing ==
  ASSUME M!IInv, D!IInv, TasksPlaced, AckExactlyOnce,
         NEW x \in MihfTask \cup {Poison}, x = Poison \/ x \notin Range(m_queued),
         m_queued' = Append(m_queued, x),
         UNCHANGED <<d_queued, m_ran, m_exec, m_task, ackpc, d_call>>
  PROVE  Answered' /\ AnswerOrder'
  <1>1. AckLinked' <=> AckLinked
    BY DEF AckLinked
  <1>2. x = Poison \/ x \notin Range(d_queued)
    BY AnsweredQueued
  <1>3. SameOrder(d_queued, Append(m_queued, x))
    BY <1>2, MTypes, DTypes, OrderAppendRight DEF AckExactlyOnce
  <1> QED BY <1>1, <1>3 DEF Answered, AnswerOrder, AckExactlyOnce

\* What AckExactlyOnce is about changes only in the steps above.
LEMMA AnswersFrame ==
  ASSUME AckExactlyOnce, UNCHANGED <<d_queued, m_ran, m_queued>>,
         AckLinked' <=> AckLinked, AckLinked => m_task' = m_task
  PROVE  Answered' /\ AnswerOrder'
  BY DEF Answered, AnswerOrder, AckExactlyOnce

\* The callers of queue_task on mihf_queue, at every step of their calls.
LEMMA AnswersByMihfCallers ==
  ASSUME TypeOK, M!IInv, D!IInv, TasksPlaced, AckSteps, AckExactlyOnce,
         UdpQueue \/ NetDevNotifier \/ StopMihf
  PROVE  Answered' /\ AnswerOrder'
  <1>a. ASSUME UNCHANGED <<d_queued, m_ran, m_queued, m_exec, m_task, ackpc>>,
               d_call'["mihf"] = d_call["mihf"]
        PROVE  Answered' /\ AnswerOrder'
    BY <1>a, AnswersFrame DEF AckLinked
  <1>b. ASSUME UNCHANGED <<d_queued, ackpc, d_call>>, UNCHANGED mvars
        PROVE  Answered' /\ AnswerOrder'
    BY <1>a, <1>b DEF mvars
  <1>4. CASE UdpQueue
    <2>0. udp = "queue" /\ UNCHANGED <<d_queued, ackpc, d_call>>
      BY <1>4 DEF UdpQueue, dvars
    <2>1. CASE M!Lock("udp") \/ M!Up("udp")
      <3>1. UNCHANGED <<m_ran, m_queued, m_exec, m_task>>
        BY <2>1 DEF M!Lock, M!Up
      <3> QED BY <1>a, <2>0, <3>1
    <2>2. CASE M!Add("udp", udp_msg)
      <3>1. /\ m_call["udp"] = "add" /\ m_queued' = Append(m_queued, udp_msg)
            /\ UNCHANGED <<m_ran, m_exec, m_task>>
        BY <2>2 DEF M!Add
      <3>2. udp_msg \in MihfTask /\ udp_msg \notin Range(m_queued)
        BY <2>0, <3>1, Zenon DEF TypeOK, MihfTask, TasksPlaced, UdpHolds
      <3> QED BY <2>0, <3>1, <3>2, QueueAnswersNothing, Zenon
    <2> QED BY <1>4, <2>1, <2>2 DEF UdpQueue
  <1>5. CASE NetDevNotifier
    <2>0. UNCHANGED <<d_queued, ackpc, d_call>>
      BY <1>5 DEF NetDevNotifier, dvars
    <2>1. CASE M!Lock("netdev") \/ M!Up("netdev")
      <3>1. UNCHANGED <<m_ran, m_queued, m_exec, m_task>>
        BY <2>1 DEF M!Lock, M!Up
      <3> QED BY <1>a, <2>0, <3>1
    <2>2. ASSUME NEW e \in LinkEvent \ arrived, M!Add("netdev", e)
          PROVE  Answered' /\ AnswerOrder'
      <3>1. m_queued' = Append(m_queued, e) /\ UNCHANGED <<m_ran, m_exec, m_task>>
        BY <2>2 DEF M!Add
      <3>2. e \in MihfTask /\ e \notin Range(m_queued)
        BY TaskFacts DEF MihfTask, TasksPlaced
      <3> QED BY <2>0, <3>1, <3>2, QueueAnswersNothing
    <2> QED BY <1>5, <2>1, <2>2 DEF NetDevNotifier
  <1>6. CASE StopMihf
    <2>0. UNCHANGED <<d_queued, ackpc, d_call>>
      BY <1>6, Zenon DEF StopMihf, dvars
    <2>1. CASE M!Lock("loader") \/ M!Up("loader") \/ M!KthreadStop \/ M!Join
      <3>1. UNCHANGED <<m_ran, m_queued, m_exec, m_task>>
        BY <2>1 DEF M!Lock, M!Up, M!KthreadStop, M!Join
      <3> QED BY <1>a, <2>0, <3>1
    <2>2. CASE M!Add("loader", Poison)
      <3>1. m_queued' = Append(m_queued, Poison) /\ UNCHANGED <<m_ran, m_exec, m_task>>
        BY <2>2 DEF M!Add
      <3> QED BY <2>0, <3>1, QueueAnswersNothing
    <2>3. CASE UNCHANGED mvars
      BY <1>b, <2>0, <2>3
    <2> QED BY <1>6, <2>1, <2>2, <2>3, Zenon DEF StopMihf
  <1> QED BY <1>4, <1>5, <1>6

\* stop_executor of dispatch_queue adds nothing but the poison.
LEMMA AnswersByStopDispatch ==
  ASSUME M!IInv, D!IInv, TasksPlaced, AckExactlyOnce, StopDispatch
  PROVE  Answered' /\ AnswerOrder'
  <1>a. ASSUME UNCHANGED <<d_queued, m_ran, m_queued, m_exec, m_task, ackpc>>,
               d_call'["mihf"] = d_call["mihf"]
        PROVE  Answered' /\ AnswerOrder'
    BY <1>a, AnswersFrame DEF AckLinked
  <1>c. d_call \in [{"mihf", "loader"} -> D!CallPC]
    BY DTypes
  <1>0. UNCHANGED <<m_ran, m_queued, m_exec, m_task, ackpc>>
    BY DEF StopDispatch, mvars
  <1>1. CASE D!Lock("loader") \/ D!Up("loader") \/ D!KthreadStop \/ D!Join
    <2>1. d_queued' = d_queued /\ d_call'["mihf"] = d_call["mihf"]
      BY <1>c, <1>1 DEF D!Lock, D!Up, D!KthreadStop, D!Join
    <2> QED BY <1>a, <1>0, <2>1, Zenon
  <1>2. CASE D!Add("loader", Poison)
    <2>1. d_queued' = Append(d_queued, Poison) /\ d_call'["mihf"] = d_call["mihf"]
      BY <1>c, <1>2 DEF D!Add
    <2>2. AckLinked' <=> AckLinked
      BY <1>0, <2>1 DEF AckLinked
    <2>3. Range(d_queued') = Range(d_queued) \cup {Poison}
      BY <2>1, DTypes, RangeAppend, SMTT(30)
    <2>4. Answered'
      BY <1>0, <2>2, <2>3, Zenon DEF Answered, AckExactlyOnce
    <2>5. Once(Append(d_queued, Poison))
      BY DTypes, OnceAppend, Zenon DEF AckExactlyOnce
    <2>6. SameOrder(Append(d_queued, Poison), m_queued)
      BY DTypes, MTypes, OrderAppendLeft DEF AckExactlyOnce, TasksPlaced
    <2> QED BY <1>0, <2>1, <2>4, <2>5, <2>6, Zenon DEF AnswerOrder
  <1>3. CASE UNCHANGED dvars
    BY <1>a, <1>0, <1>3 DEF dvars
  <1> QED BY <1>1, <1>2, <1>3 DEF StopDispatch

\* The answers queued are those of the requests handled: every step.
LEMMA AnswersStep ==
  ASSUME TypeOK, M!IInv, D!IInv, TasksPlaced, AckSteps, AckExactlyOnce, [Next]_vars
  PROVE  Answered' /\ AnswerOrder'
  <1>b. ASSUME UNCHANGED <<d_queued, ackpc, d_call>>, UNCHANGED mvars
        PROVE  Answered' /\ AnswerOrder'
    BY <1>b, AnswersFrame DEF mvars, AckLinked
  <1>1. CASE Acknowledge
    BY <1>1, AcknowledgeStep
  <1>2. CASE HandleMessage \/ LinkIndication
    BY <1>2, FinishStep
  <1>3. CASE MihfExecutor
    <2>1. UNCHANGED <<d_queued, m_ran, m_queued, ackpc, d_call>> /\ m_exec # "run"
      BY <1>3 DEF MihfExecutor, M!Start, M!Down, M!Take, M!TakePoison, M!Exit, dvars
    <2>2. ~AckLinked /\ ~AckLinked'
      BY <2>1 DEF AckLinked, AckSteps
    <2> QED BY <2>1, <2>2, AnswersFrame, Zenon
  <1>4. CASE UdpQueue \/ NetDevNotifier \/ StopMihf
    BY <1>4, AnswersByMihfCallers
  <1>5. CASE StopDispatch
    BY <1>5, AnswersByStopDispatch
  <1>6. CASE HandleUdpReply \/ DispatchExecutor
    <2>1. UNCHANGED <<d_queued, d_call, ackpc>> /\ UNCHANGED mvars
      BY <1>6 DEF HandleUdpReply, DispatchExecutor, D!Finish, D!Start, D!Down, D!Take,
         D!TakePoison, D!Exit
    <2> QED BY <1>b, <2>1, Zenon
  <1>7. CASE QuietStep
    BY <1>7, <1>b, QuietFrame DEF dvars
  <1> QED BY <1>1, <1>2, <1>3, <1>4, <1>5, <1>6, <1>7, StepCases, Zenon

\* The answers sent are those handle_udp_reply took from the queue, as long as
\* it gets its sockets.
LEMMA RepliedStep ==
  ASSUME Replied, [Next]_vars
  PROVE  Replied'
  <1>0. ASSUME UNCHANGED <<sent, d_ran>>, failed \subseteq failed' PROVE Replied'
    BY <1>0 DEF Replied
  <1>1. CASE HandleUdpReply
    BY <1>1 DEF HandleUdpReply, D!Finish, Fails, Replied
  <1>2. CASE Acknowledge \/ DispatchExecutor \/ StopDispatch
    BY <1>0, <1>2, ZenonT(40) DEF Acknowledge, DispatchExecutor, StopDispatch, D!Lock, D!Add,
       D!Up, D!KthreadStop, D!Join, D!Start, D!Down, D!Take, D!TakePoison, D!Exit, lvars, evars, dvars
  <1>3. CASE UdpQueue \/ NetDevNotifier \/ StopMihf
    BY <1>0, <1>3, Zenon DEF UdpQueue, NetDevNotifier, StopMihf, lvars, evars, dvars
  <1>4. CASE HandleMessage \/ LinkIndication \/ MihfExecutor
    BY <1>0, <1>4 DEF HandleMessage, LinkIndication, MihfExecutor, lvars, evars, dvars
  <1>5. CASE QuietStep
    BY <1>0, <1>5, QuietFrame DEF dvars
  <1> QED BY <1>1, <1>2, <1>3, <1>4, <1>5, StepCases, Zenon

\* Every request is answered once, in order: preserved by every step.
LEMMA AckExactlyOnceStep ==
  ASSUME TypeOK, M!IInv, D!IInv, TasksPlaced, AckSteps, AckExactlyOnce, [Next]_vars
  PROVE  AckExactlyOnce'
  BY AnswersStep, RepliedStep DEF AckExactlyOnce, Answered, AnswerOrder, Replied

-----------------------------------------------------------------------------
(* The poisons                                                             *)

\* What a sequence with a new entry at its end looks like.
LEMMA AppendFacts ==
  ASSUME NEW S, NEW s \in Seq(S), NEW x \in S
  PROVE  /\ Len(s) \in Nat /\ Len(Append(s, x)) = Len(s) + 1
         /\ Append(s, x)[Len(s) + 1] = x
         /\ \A i \in 1..(Len(s) + 1) : i = Len(s) + 1 \/ (i \in 1..Len(s) /\ Append(s, x)[i] = s[i])
  OBVIOUS

\* The receiver starts once, and does not come back.
LEMMA UdpGone ==
  ASSUME [Next]_vars, udp \in {"none", "exited"}
  PROVE  udp' = udp \/ loader = "run_udp"
  <1>1. CASE LoaderNext
    BY <1>1, Zenon DEF LoaderNext, RegisterNetdev, RegisterInetaddr, RunThreads, KthreadRun,
       BeginStop, KillNetHand, StopThreads, KthreadStop, KthreadJoin, StopMihf, StopDispatch,
       Unregister, uvars
  <1>2. CASE UdpNext \/ UdpRecvError
    BY <1>2 DEF UdpNext, UdpStart, UdpCheck, UdpRecv, UdpQueue, UdpExit, UdpRecvError
  <1>3. CASE ~(LoaderNext \/ UdpNext \/ UdpRecvError)
    BY <1>3, Zenon DEF Next, NetDevNotifier, DevMon, Arrive, Acknowledge, HandleMessage,
       LinkIndication, MihfExecutor, HandleUdpReply, DispatchExecutor, vars, uvars
  <1> QED BY <1>1, <1>2, <1>3

\* The executor of mihf_queue does not come back either.
LEMMA MihfGone ==
  ASSUME [Next]_vars, m_exec \in {"exited", "cancelled"}
  PROVE  m_exec' = m_exec
  <1>1. CASE UdpQueue \/ NetDevNotifier \/ StopMihf
    BY <1>1 DEF UdpQueue, NetDevNotifier, StopMihf, M!Lock, M!Add, M!Up, M!KthreadStop, M!Join,
       mvars
  <1>2. CASE HandleMessage \/ LinkIndication \/ MihfExecutor
    BY <1>2 DEF HandleMessage, LinkIndication, MihfExecutor, M!Start, M!Down, M!Take,
       M!TakePoison, M!Exit
  <1>3. CASE Acknowledge \/ StopDispatch \/ HandleUdpReply \/ DispatchExecutor
    BY <1>3, Zenon DEF Acknowledge, StopDispatch, HandleUdpReply, DispatchExecutor, mvars
  <1>4. CASE QuietStep
    BY <1>4, QuietFrame DEF mvars
  <1> QED BY <1>1, <1>2, <1>3, <1>4, StepCases, ZenonT(40)

\* mod_End poisons mihf_queue after it stopped the receiver.
LEMMA MihfPoisonOrder ==
  ASSUME M!IInv, StopOrder, PoisonLast, [Next]_vars,
         m_call'["loader"] # "idle", "wakeup_socket" \notin failed'
  PROVE  udp' \in {"none", "exited"}
  <1>1. CASE StopMihf
    BY <1>1 DEF StopMihf, StopOrder, uvars
  <1>2. CASE ~StopMihf
    <2>1. m_call'["loader"] = m_call["loader"] /\ failed \subseteq failed'
      <3>1. CASE UdpQueue \/ NetDevNotifier
        BY <3>1, MTypes, Zenon DEF UdpQueue, NetDevNotifier, lvars, M!Lock, M!Add, M!Up
      <3> QED BY <1>2, <3>1, MihfCallFrame, Zenon
    <2>2. udp \in {"none", "exited"} /\ loader # "run_udp"
      BY <2>1, Zenon DEF PoisonLast, StopOrder
    <2> QED BY <2>2, UdpGone
  <1> QED BY <1>1, <1>2

\* It poisons dispatch_queue after it stopped the executor of mihf_queue.
LEMMA DispatchPoisonOrder ==
  ASSUME M!IInv, D!IInv, StopOrder, PoisonLast, [Next]_vars, d_call'["loader"] # "idle"
  PROVE  m_exec' \in {"exited", "cancelled"}
  <1>1. CASE d_call["loader"] # "idle"
    BY <1>1, MihfGone DEF PoisonLast
  <1>2. CASE StopDispatch /\ "dispatch" \in kt
    <2>1. m_call["loader"] = "done"
      BY <1>2 DEF StopDispatch, StopOrder
    <2>2. m_exec \in {"exited", "cancelled"}
      BY <2>1 DEF M!IInv, M!PoisonOnce
    <2> QED BY <2>2, MihfGone
  <1>3. CASE StopDispatch /\ "dispatch" \notin kt /\ d_call["loader"] = "idle"
    BY <1>3 DEF StopDispatch, D!Join, dvars
  <1>4. CASE Acknowledge /\ d_call["loader"] = "idle"
    BY <1>4, DTypes DEF Acknowledge, D!Lock, D!Add, D!Up
  <1> QED BY <1>1, <1>2, <1>3, <1>4, DispatchCallFrame, Zenon

\* Only the notifier is left to queue something behind the poison of mihf_queue.
LEMMA BehindMihfPoison ==
  ASSUME TypeOK, M!IInv, PoisonLast, [Next]_vars, "wakeup_socket" \notin failed'
  PROVE  \A i, j \in 1..Len(m_queued') :
           i < j /\ m_queued'[i] = Poison => m_queued'[j] \in LinkEvent
  <1>1. ASSUME NEW x \in Entries, m_queued' = Append(m_queued, x),
               x \in LinkEvent \/ \A i \in 1..Len(m_queued) : m_queued[i] # Poison,
               failed' = failed
        PROVE  \A i, j \in 1..Len(m_queued') :
                 i < j /\ m_queued'[i] = Poison => m_queued'[j] \in LinkEvent
    <2>1. m_queued \in Seq(Entries)
      BY MTypes DEF Entries
    <2>2. /\ Len(m_queued) \in Nat /\ Len(m_queued') = Len(m_queued) + 1
          /\ \A i \in 1..Len(m_queued) : m_queued'[i] = m_queued[i]
          /\ m_queued'[Len(m_queued) + 1] = x
      BY <1>1, <2>1, AppendFacts
    <2>3. \A i, j \in 1..Len(m_queued) :
            i < j /\ m_queued[i] = Poison => m_queued[j] \in LinkEvent
      BY <1>1 DEF PoisonLast
    <2>4. SUFFICES ASSUME NEW i \in 1..Len(m_queued'), NEW j \in 1..Len(m_queued'),
                          i < j, m_queued'[i] = Poison
                   PROVE  m_queued'[j] \in LinkEvent
      OBVIOUS
    <2>5. i \in 1..Len(m_queued) /\ (j \in 1..Len(m_queued) \/ j = Len(m_queued) + 1)
      BY <2>2, <2>4
    <2> QED BY <1>1, <2>2, <2>3, <2>4, <2>5, Zenon
  <1>2. CASE UdpQueue
    <2>1. CASE M!Add("udp", udp_msg)
      <3>1. m_queued' = Append(m_queued, udp_msg) /\ udp_msg \in Entries
        BY <2>1 DEF M!Add, TypeOK, MihfTask, Entries
      <3>2. \A i \in 1..Len(m_queued) : m_queued[i] # Poison
        BY <1>2, Zenon DEF PoisonLast, M!IInv, M!PoisonOnce, UdpQueue, lvars
      <3> QED BY <1>1, <1>2, <3>1, <3>2, Zenon DEF UdpQueue, lvars
    <2>2. CASE M!Lock("udp") \/ M!Up("udp")
      BY <1>2, <2>2, Zenon DEF M!Lock, M!Up, UdpQueue, lvars, PoisonLast
    <2> QED BY <1>2, <2>1, <2>2 DEF UdpQueue
  <1>3. CASE NetDevNotifier
    <2>1. ASSUME NEW e \in LinkEvent, M!Add("netdev", e)
          PROVE  m_queued' = Append(m_queued, e) /\ e \in Entries
      BY <2>1, Zenon DEF M!Add, MihfTask, Entries
    <2>2. CASE M!Lock("netdev") \/ M!Up("netdev")
      BY <1>3, <2>2, Zenon DEF M!Lock, M!Up, NetDevNotifier, lvars, PoisonLast
    <2> QED BY <1>1, <1>3, <2>1, <2>2, Zenon DEF NetDevNotifier, lvars
  <1>4. CASE StopMihf
    <2>1. CASE M!Add("loader", Poison)
      <3>1. m_queued' = Append(m_queued, Poison) /\ Poison \in Entries
        BY <2>1 DEF M!Add, Entries
      <3>2. \A i \in 1..Len(m_queued) : m_queued[i] # Poison
        BY <2>1, Zenon DEF M!Add, M!IInv, M!PoisonOnce
      <3> QED BY <1>1, <1>4, <3>1, <3>2, Zenon DEF StopMihf
    <2>2. CASE ~M!Add("loader", Poison)
      BY <1>4, <2>2, ZenonT(40) DEF StopMihf, M!Lock, M!Up, M!KthreadStop, M!Join, mvars, PoisonLast
    <2> QED BY <2>1, <2>2, Zenon
  <1>5. CASE ~(UdpQueue \/ NetDevNotifier \/ StopMihf)
    BY <1>5, MihfCallFrame DEF PoisonLast
  <1> QED BY <1>2, <1>3, <1>4, <1>5

\* Nothing is queued behind the poison of dispatch_queue.
LEMMA BehindDispatchPoison ==
  ASSUME M!IInv, D!IInv, PoisonLast, [Next]_vars
  PROVE  \A i \in 1..Len(d_queued') : d_queued'[i] = Poison => i = Len(d_queued')
  <1>1. ASSUME NEW x \in Datagram \cup {Poison}, d_queued' = Append(d_queued, x),
               \A i \in 1..Len(d_queued) : d_queued[i] # Poison
        PROVE  \A i \in 1..Len(d_queued') : d_queued'[i] = Poison => i = Len(d_queued')
    BY <1>1, DTypes, AppendFacts
  <1>2. CASE StopDispatch
    <2>1. CASE D!Add("loader", Poison)
      <3>1. \A i \in 1..Len(d_queued) : d_queued[i] # Poison
        BY <2>1, Zenon DEF D!Add, D!IInv, D!PoisonOnce
      <3> QED BY <1>1, <2>1, <3>1 DEF D!Add
    <2>2. CASE ~D!Add("loader", Poison)
      BY <1>2, <2>2 DEF StopDispatch, D!Lock, D!Up, D!KthreadStop, D!Join, dvars, PoisonLast
    <2> QED BY <2>1, <2>2
  <1>3. CASE Acknowledge
    <2>1. CASE D!Add("mihf", m_task)
      <3>1. m_exec = "run" /\ m_task \in Datagram
        BY <1>3, MTypes, TaskFacts, Zenon DEF Acknowledge
      <3>2. \A i \in 1..Len(d_queued) : d_queued[i] # Poison
        BY <3>1 DEF PoisonLast, D!IInv, D!PoisonOnce
      <3> QED BY <1>1, <2>1, <3>1, <3>2 DEF D!Add
    <2>2. CASE D!Lock("mihf") \/ D!Up("mihf")
      BY <2>2 DEF D!Lock, D!Up, PoisonLast
    <2> QED BY <1>3, <2>1, <2>2 DEF Acknowledge
  <1>4. CASE ~(Acknowledge \/ StopDispatch)
    BY <1>4, DispatchCallFrame, Zenon DEF PoisonLast
  <1> QED BY <1>2, <1>3, <1>4

\* PoisonLast is preserved by every step.
LEMMA PoisonLastStep ==
  ASSUME TypeOK, M!IInv, D!IInv, StopOrder, PoisonLast, [Next]_vars
  PROVE  PoisonLast'
  BY MihfPoisonOrder, DispatchPoisonOrder, BehindMihfPoison, BehindDispatchPoison DEF PoisonLast

-----------------------------------------------------------------------------
(* Objects                                                                 *)

\* The objects that exist when mod_Start and mod_End own G, the reply handlers
\* of R, the messages of B, the link parameters of L and the answers of A exist.
Objects(G, R, B, L, A) ==
  G \cup (UNION {ReplyObjects(x) : x \in R}) \cup (UNION {MessageObjects(x) : x \in B})
    \cup (UNION {LinkObjects(x) : x \in L}) \cup (UNION {AckObjects(x) : x \in A})

\* The buffers and TLV values of mih_Init, when mod_Start or mod_End is at l, and
\* those of UdpHandler, when it is at u.
Globals(l, u) == (IF l = "start" THEN {} ELSE GlobalValues)
                   \cup (IF l \in {"start", "unloaded"} THEN {} ELSE GlobalBuffers)
                   \cup (IF u = "recv" THEN RecvBuffers ELSE {})

\* Objects of different names, or of different owners, are different objects.
LEMMA ObjDisjoint ==
  ASSUME NEW N1, NEW N2, NEW i, NEW j, N1 \cap N2 = {} \/ i # j
  PROVE  Obj(N1, i) \cap Obj(N2, j) = {}
  BY DEF Obj

\* The names of the allocations, by who frees them.
ReplyNames == {"rxaddr", "reply_hand"}
MessageNames == {"buf", "parameter"}
AckNames == {"ack_msg", "ack_tlvs", "reply_parameter"}
LinkNames == {"mac_addr", "link_parameter"}
BufferNames == {"snd_buf", "rcv_buf", "src_mihf_id", "dst_mihf_id"}
ValueNames == {"src_value", "dst_value"}
RecvNames == {"next_rxaddr", "next_buf"}

\* No two allocations of the module share a name.
LEMMA NamesDisjoint ==
  /\ ReplyNames \cap MessageNames = {} /\ ReplyNames \cap AckNames = {}
  /\ ReplyNames \cap LinkNames = {} /\ ReplyNames \cap BufferNames = {}
  /\ MessageNames \cap AckNames = {} /\ MessageNames \cap LinkNames = {}
  /\ MessageNames \cap BufferNames = {} /\ MessageNames \cap ValueNames = {}
  /\ AckNames \cap LinkNames = {} /\ AckNames \cap BufferNames = {}
  /\ AckNames \cap ValueNames = {} /\ LinkNames \cap BufferNames = {}
  /\ LinkNames \cap ValueNames = {} /\ BufferNames \cap ValueNames = {}
  /\ RecvNames \cap ReplyNames = {} /\ RecvNames \cap MessageNames = {}
  /\ RecvNames \cap AckNames = {} /\ RecvNames \cap LinkNames = {}
  /\ RecvNames \cap BufferNames = {} /\ RecvNames \cap ValueNames = {}
  BY DEF ReplyNames, MessageNames, AckNames, LinkNames, BufferNames, ValueNames, RecvNames

\* What the owner of one object frees belongs to nobody else.
LEMMA ObjectsDisjoint ==
  ASSUME NEW x \in MihfTask, NEW y
  PROVE  /\ MessageObjects(x) \cap ReplyObjects(y) = {}
         /\ MessageObjects(x) \cap LinkObjects(y) = {}
         /\ MessageObjects(x) \cap AckObjects(y) = {}
         /\ LinkObjects(x) \cap ReplyObjects(y) = {}
         /\ LinkObjects(x) \cap MessageObjects(y) = {}
         /\ LinkObjects(x) \cap AckObjects(y) = {}
         /\ AckObjects(x) \cap ReplyObjects(y) = {}
         /\ AckObjects(x) \cap MessageObjects(y) = {}
         /\ AckObjects(x) \cap LinkObjects(y) = {}
         /\ GlobalBuffers \cap ReplyObjects(y) = {}
         /\ GlobalBuffers \cap MessageObjects(y) = {}
         /\ GlobalBuffers \cap LinkObjects(y) = {}
         /\ GlobalBuffers \cap AckObjects(y) = {}
  <1>1. /\ ReplyObjects(y) = Obj(ReplyNames, y.id) /\ MessageObjects(y) = Obj(MessageNames, y.id)
        /\ LinkObjects(y) = Obj(LinkNames, y.id) /\ AckObjects(y) = Obj(AckNames, y.id)
        /\ MessageObjects(x) = Obj(MessageNames, x.id) /\ LinkObjects(x) = Obj(LinkNames, x.id)
        /\ AckObjects(x) = Obj(AckNames, x.id) /\ GlobalBuffers = Obj(BufferNames, 0)
    BY Zenon DEF ReplyObjects, MessageObjects, LinkObjects, AckObjects, GlobalBuffers, ReplyNames,
       MessageNames, LinkNames, AckNames, BufferNames
  <1> QED BY <1>1, NamesDisjoint, ObjDisjoint

\* The objects of two tasks are different objects.
LEMMA OwnersDisjoint ==
  ASSUME NEW x \in MihfTask, NEW y \in MihfTask, x # y
  PROVE  /\ MessageObjects(x) \cap MessageObjects(y) = {}
         /\ LinkObjects(x) \cap LinkObjects(y) = {}
         /\ AckObjects(x) \cap AckObjects(y) = {}
  <1>1. x.id # y.id
    BY IdsDiffer
  <1> QED BY <1>1, ObjDisjoint DEF MessageObjects, LinkObjects, AckObjects

\* What UdpHandler waits with belongs to nobody else.
LEMMA RecvExclusive ==
  ASSUME NEW p \in RecvBuffers
  PROVE  /\ p \notin GlobalBuffers /\ p \notin GlobalValues
         /\ \A y : /\ p \notin ReplyObjects(y) /\ p \notin MessageObjects(y)
                   /\ p \notin LinkObjects(y) /\ p \notin AckObjects(y)
  <1>1. /\ RecvBuffers = Obj(RecvNames, 0)
        /\ GlobalBuffers = Obj(BufferNames, 0) /\ GlobalValues = Obj(ValueNames, 0)
    BY Zenon DEF RecvBuffers, GlobalBuffers, GlobalValues, RecvNames, BufferNames, ValueNames
  <1>2. ASSUME NEW y
        PROVE  /\ ReplyObjects(y) = Obj(ReplyNames, y.id)
               /\ MessageObjects(y) = Obj(MessageNames, y.id)
               /\ LinkObjects(y) = Obj(LinkNames, y.id) /\ AckObjects(y) = Obj(AckNames, y.id)
    BY Zenon DEF ReplyObjects, MessageObjects, LinkObjects, AckObjects, ReplyNames,
       MessageNames, LinkNames, AckNames
  <1>3. p \notin GlobalBuffers /\ p \notin GlobalValues
    BY <1>1, NamesDisjoint, ObjDisjoint
  <1>4. ASSUME NEW y
        PROVE  /\ p \notin ReplyObjects(y) /\ p \notin MessageObjects(y)
               /\ p \notin LinkObjects(y) /\ p \notin AckObjects(y)
    BY <1>1, <1>2, NamesDisjoint, ObjDisjoint
  <1> QED BY <1>3, <1>4

\* The objects of mih_Init and of a waiting UdpHandler are not those of a task.
LEMMA GlobalsDisjoint ==
  ASSUME NEW x, NEW l, NEW u
  PROVE  /\ Globals(l, u) \cap MessageObjects(x) = {}
         /\ Globals(l, u) \cap LinkObjects(x) = {}
         /\ Globals(l, u) \cap AckObjects(x) = {}
         /\ GlobalValues \cap GlobalBuffers = {}
  <1>1. /\ GlobalBuffers = Obj(BufferNames, 0) /\ GlobalValues = Obj(ValueNames, 0)
        /\ MessageObjects(x) = Obj(MessageNames, x.id) /\ LinkObjects(x) = Obj(LinkNames, x.id)
        /\ AckObjects(x) = Obj(AckNames, x.id)
    BY DEF MessageObjects, LinkObjects, AckObjects, GlobalBuffers, GlobalValues,
       MessageNames, LinkNames, AckNames, BufferNames, ValueNames
  <1>2. /\ GlobalBuffers \cap MessageObjects(x) = {} /\ GlobalValues \cap MessageObjects(x) = {}
        /\ GlobalBuffers \cap LinkObjects(x) = {} /\ GlobalValues \cap LinkObjects(x) = {}
        /\ GlobalBuffers \cap AckObjects(x) = {} /\ GlobalValues \cap AckObjects(x) = {}
        /\ GlobalValues \cap GlobalBuffers = {}
    BY <1>1, NamesDisjoint, ObjDisjoint
  <1> QED BY <1>2, RecvExclusive DEF Globals

\* An object exists because somebody owns it.
LEMMA InObjects ==
  ASSUME NEW G, NEW R, NEW B, NEW L, NEW A, NEW p
  PROVE  p \in Objects(G, R, B, L, A) <=>
           \/ p \in G
           \/ \E x \in R : p \in ReplyObjects(x)
           \/ \E x \in B : p \in MessageObjects(x)
           \/ \E x \in L : p \in LinkObjects(x)
           \/ \E x \in A : p \in AckObjects(x)
  BY DEF Objects

\* What handle_message frees belongs to the task it was called for.
LEMMA MessageExclusive ==
  ASSUME NEW x \in MihfTask, NEW p \in MessageObjects(x)
  PROVE  /\ \A l, u : p \notin Globals(l, u)
         /\ \A y : p \notin ReplyObjects(y) /\ p \notin LinkObjects(y) /\ p \notin AckObjects(y)
         /\ \A y \in MihfTask : p \in MessageObjects(y) => y = x
  BY GlobalsDisjoint, ObjectsDisjoint, OwnersDisjoint

\* What Link_*_indication frees belongs to the event it was called for.
LEMMA LinkExclusive ==
  ASSUME NEW x \in MihfTask, NEW p \in LinkObjects(x)
  PROVE  /\ \A l, u : p \notin Globals(l, u)
         /\ \A y : p \notin ReplyObjects(y) /\ p \notin MessageObjects(y) /\ p \notin AckObjects(y)
         /\ \A y \in MihfTask : p \in LinkObjects(y) => y = x
  BY GlobalsDisjoint, ObjectsDisjoint, OwnersDisjoint, Zenon

\* What handle_udp_reply frees belongs to the answer it was called for.
LEMMA AckExclusive ==
  ASSUME NEW x \in MihfTask, NEW p \in AckObjects(x)
  PROVE  /\ \A l, u : p \notin Globals(l, u)
         /\ \A y : p \notin ReplyObjects(y) /\ p \notin MessageObjects(y) /\ p \notin LinkObjects(y)
         /\ \A y \in MihfTask : p \in AckObjects(y) => y = x
  BY GlobalsDisjoint, ObjectsDisjoint, OwnersDisjoint, Zenon

\* What mod_End frees belongs to nobody else.
LEMMA BufferExclusive ==
  ASSUME NEW p \in GlobalBuffers
  PROVE  /\ p \notin GlobalValues /\ p \notin RecvBuffers
         /\ \A y : /\ p \notin ReplyObjects(y) /\ p \notin MessageObjects(y)
                   /\ p \notin LinkObjects(y) /\ p \notin AckObjects(y)
  <1>1. Wakeup \in MihfTask
    BY DEF MihfTask
  <1> QED BY <1>1, GlobalsDisjoint, ObjectsDisjoint, RecvExclusive

-----------------------------------------------------------------------------
(* The heap: loader, receiver and notifiers                                *)

\* Who owns what, for HeapPlaced.
ReplyOwned == UdpHolds \cup {y \in Range(m_queued) \ {Poison} : ~IsLink(y)}
MessageOwned == UdpHolds \cup {y \in InMihf : ~IsLink(y)}
LinkOwned == {y \in InMihf : IsLink(y)}
AckOwned == AckInHand \cup InDispatch

\* HeapPlaced in these terms.
LEMMA HeapDef ==
  /\ HeapPlaced <=>
       heap = Objects(Globals(loader, udp), ReplyOwned, MessageOwned, LinkOwned, AckOwned)
  /\ HeapPlaced' <=>
       heap' = Objects(Globals(loader', udp'), ReplyOwned', MessageOwned', LinkOwned', AckOwned')
  BY Zenon DEF HeapPlaced, Objects, Globals, ReplyOwned, MessageOwned, LinkOwned, AckOwned

\* Linking an entry.
LEMMA HeldAdd ==
  ASSUME NEW S, NEW list \in Seq(S), NEW exec, NEW task, NEW x \in S
  PROVE  Held(Append(list, x), exec, task) = Held(list, exec, task) \cup ({x} \ {Poison})
  BY RangeAppend DEF Held

\* Unlinking one.
LEMMA HeldTake ==
  ASSUME NEW S, NEW list \in Seq(S), list # << >>, NEW exec, NEW task, exec # "run"
  PROVE  /\ Head(list) # Poison => Held(Tail(list), "run", Head(list)) = Held(list, exec, task)
         /\ Head(list) = Poison => Held(Tail(list), "poisoned", task) = Held(list, exec, task)
  BY RangeTail DEF Held

\* The return of its handler.
LEMMA HeldFinish ==
  ASSUME NEW list, NEW task, task \notin Range(list)
  PROVE  Held(list, "down", Poison) = Held(list, "run", task) \ {task}
  BY DEF Held

\* A woken or sleeping executor holds what is linked.
LEMMA HeldIdle ==
  ASSUME NEW list, NEW e1, NEW e2, NEW t1, NEW t2, e1 # "run", e2 # "run"
  PROVE  Held(list, e1, t1) = Held(list, e2, t2)
  BY DEF Held

\* All the owners are tasks.
LEMMA OwnersAreTasks ==
  ASSUME TypeOK, M!IInv, D!IInv, AckSteps
  PROVE  /\ MessageOwned \in SUBSET MihfTask /\ LinkOwned \in SUBSET MihfTask
         /\ AckOwned \in SUBSET MihfTask /\ InMihf \in SUBSET MihfTask
  <1>1. Range(m_list) \subseteq MihfTask \cup {Poison} /\ Range(d_list) \subseteq Datagram \cup {Poison}
    BY MTypes, DTypes, RangeType
  <1>2. InMihf \in SUBSET MihfTask
    BY <1>1, MTypes DEF InMihf, Held
  <1>3. InDispatch \in SUBSET MihfTask
    BY <1>1, DTypes DEF InDispatch, Held, MihfTask
  <1>4. UdpHolds \in SUBSET MihfTask
    BY DEF UdpHolds, TypeOK, MihfTask
  <1>5. AckInHand \in SUBSET MihfTask
    BY MTypes DEF AckInHand, AckSteps
  <1> QED BY <1>2, <1>3, <1>4, <1>5 DEF MessageOwned, LinkOwned, AckOwned

\* Nothing changes hands.
LEMMA HeapFrame ==
  ASSUME HeapPlaced, heap' = heap, Globals(loader', udp') = Globals(loader, udp),
         UdpHolds' = UdpHolds, AckInHand' = AckInHand,
         InMihf' = InMihf, InDispatch' = InDispatch, m_queued' = m_queued
  PROVE  HeapPlaced'
  BY HeapDef DEF ReplyOwned, MessageOwned, LinkOwned, AckOwned

\* list_add_tail on mihf_queue.
LEMMA MihfLink ==
  ASSUME M!IInv, NEW x \in MihfTask \cup {Poison}, m_list' = Append(m_list, x),
         m_queued' = Append(m_queued, x), UNCHANGED <<m_exec, m_task>>
  PROVE  InMihf' = InMihf \cup ({x} \ {Poison}) /\ Range(m_queued') = Range(m_queued) \cup {x}
  <1>1. x \in Entries /\ m_list \in Seq(Entries) /\ m_queued \in Seq(Entries)
    BY MTypes DEF Entries
  <1>2. Held(Append(m_list, x), m_exec, m_task) = Held(m_list, m_exec, m_task) \cup ({x} \ {Poison})
    BY <1>1, HeldAdd
  <1>3. Range(Append(m_queued, x)) = Range(m_queued) \cup {x}
    BY <1>1, RangeAppend
  <1> QED BY <1>2, <1>3 DEF InMihf

\* list_add_tail on dispatch_queue.
LEMMA DispatchLink ==
  ASSUME D!IInv, NEW x \in Datagram \cup {Poison}, d_list' = Append(d_list, x),
         UNCHANGED <<d_exec, d_task>>
  PROVE  InDispatch' = InDispatch \cup ({x} \ {Poison})
  <1> DEFINE E == Datagram \cup {Poison}
  <1>1. x \in E /\ d_list \in Seq(E)
    BY DTypes
  <1> HIDE DEF E
  <1>2. Held(Append(d_list, x), d_exec, d_task) = Held(d_list, d_exec, d_task) \cup ({x} \ {Poison})
    BY <1>1, HeldAdd
  <1> QED BY <1>2 DEF InDispatch

\* What HeapPlaced says of the queues when they do not change.
LEMMA QueuesFrame ==
  /\ UNCHANGED mvars => InMihf' = InMihf /\ m_queued' = m_queued
  /\ UNCHANGED dvars => InDispatch' = InDispatch
  /\ UNCHANGED mvars /\ UNCHANGED uvars => UdpHolds' = UdpHolds
  /\ UNCHANGED mvars /\ UNCHANGED dvars /\ UNCHANGED ackpc => AckInHand' = AckInHand
  /\ UNCHANGED loader /\ UNCHANGED uvars => Globals(loader', udp') = Globals(loader, udp)
  BY DEF mvars, dvars, uvars, InMihf, InDispatch, Held, UdpHolds, AckInHand

\* The global buffers exist from mih_Init to the end of mod_End.
LEMMA GlobalsFacts ==
  /\ {loader, loader'} \cap {"start", "unloaded"} = {} /\ UNCHANGED uvars =>
       Globals(loader', udp') = Globals(loader, udp)
  /\ {loader, loader'} \cap {"start", "unloaded"} = {} /\ udp # "recv" /\ udp' # "recv" =>
       Globals(loader', udp') = Globals(loader, udp)
  /\ UNCHANGED loader /\ udp # "recv" /\ udp' # "recv" =>
       Globals(loader', udp') = Globals(loader, udp)
  BY Zenon DEF Globals, uvars

\* mod_Start and mod_End, apart from their calls of stop_executor.
LEMMA HeapLoaderStep ==
  ASSUME HeapPlaced, StopOrder,
         RegisterNetdev \/ RegisterInetaddr \/ RunThreads \/ BeginStop \/ KillNetHand
           \/ StopThreads \/ Unregister
  PROVE  HeapPlaced'
  <1>0. UNCHANGED mvars /\ UNCHANGED dvars /\ UNCHANGED ackpc
    BY QuietFrame DEF QuietStep
  <1>1. /\ InMihf' = InMihf /\ m_queued' = m_queued /\ InDispatch' = InDispatch
        /\ AckInHand' = AckInHand
    BY <1>0, QueuesFrame
  <1>2. CASE RunThreads
    <2>1. /\ heap' = heap /\ {loader, loader'} \cap {"start", "unloaded"} = {}
          /\ udp' = udp \/ (loader = "run_udp" /\ udp' = "created")
          /\ udp_msg' = udp_msg
      BY <1>2 DEF RunThreads, KthreadRun
    <2>2. loader = "run_udp" => udp = "none"
      BY DEF StopOrder
    <2>3. UdpHolds' = UdpHolds
      BY <1>0, <2>1, <2>2, Zenon DEF UdpHolds, mvars
    <2>4. Globals(loader', udp') = Globals(loader, udp)
      BY <2>1, <2>2, GlobalsFacts, Zenon DEF uvars
    <2> QED BY <1>1, <2>1, <2>3, <2>4, HeapFrame, Zenon
  <1>3. CASE RegisterInetaddr \/ BeginStop \/ KillNetHand \/ StopThreads
    <2>1. heap' = heap /\ {loader, loader'} \cap {"start", "unloaded"} = {} /\ UNCHANGED uvars
      BY <1>3, Zenon DEF RegisterInetaddr, BeginStop, KillNetHand, StopThreads, KthreadStop, KthreadJoin
    <2>2. UdpHolds' = UdpHolds
      BY <1>0, <2>1, QueuesFrame
    <2> QED BY <1>1, <2>1, <2>2, HeapFrame, GlobalsFacts, Zenon
  <1>4. CASE RegisterNetdev
    <2>1. /\ heap' = heap \cup GlobalBuffers \cup GlobalValues /\ UNCHANGED uvars
          /\ loader = "start" /\ loader' \in {"inetaddr", "refused"}
      BY <1>4 DEF RegisterNetdev
    <2>2. UdpHolds' = UdpHolds
      BY <1>0, <2>1, QueuesFrame
    <2>3. Globals(loader', udp') = Globals(loader, udp) \cup GlobalBuffers \cup GlobalValues
      BY <2>1 DEF Globals, uvars
    <2>4. heap = Objects(Globals(loader, udp), ReplyOwned, MessageOwned, LinkOwned, AckOwned)
      BY HeapDef
    <2>5. heap' = Objects(Globals(loader', udp'), ReplyOwned, MessageOwned, LinkOwned, AckOwned)
      BY <2>1, <2>3, <2>4 DEF Objects
    <2>6. /\ ReplyOwned' = ReplyOwned /\ MessageOwned' = MessageOwned
          /\ LinkOwned' = LinkOwned /\ AckOwned' = AckOwned
      BY <1>1, <2>2 DEF ReplyOwned, MessageOwned, LinkOwned, AckOwned
    <2> QED BY <2>5, <2>6, HeapDef, Zenon
  <1>5. CASE Unregister
    <2>1. /\ heap' = heap \ GlobalBuffers /\ UNCHANGED uvars
          /\ loader = "unregister" /\ loader' = "unloaded"
      BY <1>5 DEF Unregister
    <2>2. UdpHolds' = UdpHolds
      BY <1>0, <2>1, QueuesFrame, Zenon
    <2>3. /\ ReplyOwned' = ReplyOwned /\ MessageOwned' = MessageOwned
          /\ LinkOwned' = LinkOwned /\ AckOwned' = AckOwned
      BY <1>1, <2>2 DEF ReplyOwned, MessageOwned, LinkOwned, AckOwned
    <2>4. /\ GlobalBuffers \cap Globals(loader', udp') = {}
          /\ Globals(loader, udp) = GlobalBuffers \cup Globals(loader', udp')
          /\ heap = Objects(Globals(loader, udp), ReplyOwned, MessageOwned, LinkOwned, AckOwned)
      BY <2>1, HeapDef, BufferExclusive DEF Globals, uvars
    <2>5. ASSUME NEW p
          PROVE  p \in Objects(Globals(loader', udp'), ReplyOwned, MessageOwned, LinkOwned, AckOwned)
                   <=> p \in heap'
      BY <2>1, <2>4, InObjects, BufferExclusive
    <2> QED BY <2>3, <2>5, HeapDef, Zenon
  <1> QED BY <1>2, <1>3, <1>4, <1>5

\* UdpHandler allocates for the datagram it receives and hands it over.
LEMMA HeapUdpStep ==
  ASSUME HeapPlaced, TypeOK, M!IInv, TasksPlaced, UdpNext \/ UdpRecvError
  PROVE  HeapPlaced'
  <1>0. UNCHANGED dvars /\ UNCHANGED ackpc /\ UNCHANGED loader
    BY DEF UdpNext, UdpStart, UdpCheck, UdpRecv, UdpQueue, UdpExit, UdpRecvError, lvars
  <1>1. InDispatch' = InDispatch
    BY <1>0, QueuesFrame
  <1>t. m_call \in [{"udp", "netdev", "loader"} -> M!CallPC]
    BY MTypes
  <1>2. CASE UdpStart \/ UdpCheck \/ UdpExit \/ UdpRecvError
    <2>1. UNCHANGED mvars /\ udp # "queue" /\ udp' # "queue"
      BY <1>2 DEF UdpStart, UdpCheck, UdpExit, UdpRecvError
    <2>2. UdpHolds = {} /\ UdpHolds' = {}
      BY <2>1 DEF UdpHolds
    <2>3. /\ InMihf' = InMihf /\ m_queued' = m_queued /\ AckInHand' = AckInHand
      BY <1>0, <2>1, QueuesFrame
    <2>4. CASE UNCHANGED heap /\ udp # "recv" /\ udp' # "recv"
      BY <1>0, <1>1, <2>2, <2>3, <2>4, HeapFrame, GlobalsFacts, Zenon
    <2>5. /\ ReplyOwned' = ReplyOwned /\ MessageOwned' = MessageOwned
          /\ LinkOwned' = LinkOwned /\ AckOwned' = AckOwned
      BY <1>1, <2>2, <2>3 DEF ReplyOwned, MessageOwned, LinkOwned, AckOwned
    <2>6. heap = Objects(Globals(loader, udp), ReplyOwned, MessageOwned, LinkOwned, AckOwned)
      BY HeapDef
    <2>7. CASE heap' = heap \cup RecvBuffers /\ udp # "recv" /\ udp' = "recv"
      <3>1. Globals(loader', udp') = Globals(loader, udp) \cup RecvBuffers
        BY <1>0, <2>7 DEF Globals
      <3>2. heap' = Objects(Globals(loader', udp'), ReplyOwned, MessageOwned, LinkOwned, AckOwned)
        BY <2>6, <2>7, <3>1 DEF Objects
      <3> QED BY <2>5, <3>2, HeapDef, Zenon
    <2>8. CASE heap' = heap \ RecvBuffers /\ udp = "recv" /\ udp' # "recv"
      <3>1. /\ Globals(loader, udp) = Globals(loader', udp') \cup RecvBuffers
            /\ RecvBuffers \cap Globals(loader', udp') = {}
        BY <1>0, <2>8, RecvExclusive DEF Globals
      <3>2. ASSUME NEW p
            PROVE  p \in Objects(Globals(loader', udp'), ReplyOwned, MessageOwned, LinkOwned,
                                 AckOwned) <=> p \in heap'
        BY <2>6, <2>8, <3>1, InObjects, RecvExclusive
      <3> QED BY <2>5, <3>2, HeapDef, Zenon
    <2> QED BY <1>2, <2>4, <2>7, <2>8 DEF UdpStart, UdpCheck, UdpExit, UdpRecvError
  <1>3. CASE UdpRecv
    <2>1. /\ udp = "recv" /\ net # << >> /\ udp_msg' = Head(net) /\ udp' = "queue"
          /\ UNCHANGED mvars
          /\ heap' = (heap \ RecvBuffers) \cup ReplyObjects(Head(net))
                       \cup MessageObjects(Head(net))
      BY <1>3 DEF UdpRecv
    <2>2. m_call["udp"] = "idle" /\ m_call' = m_call
      BY <1>t, <2>1 DEF TasksPlaced, mvars
    <2>3. UdpHolds = {} /\ UdpHolds' = {Head(net)}
      BY <2>1, <2>2 DEF UdpHolds
    <2>4. /\ InMihf' = InMihf /\ m_queued' = m_queued /\ AckInHand' = AckInHand
      BY <1>0, <2>1, QueuesFrame
    <2>5. /\ ReplyOwned' = ReplyOwned \cup {Head(net)}
          /\ MessageOwned' = MessageOwned \cup {Head(net)}
          /\ LinkOwned' = LinkOwned /\ AckOwned' = AckOwned
      BY <1>1, <2>3, <2>4 DEF ReplyOwned, MessageOwned, LinkOwned, AckOwned
    <2>6. /\ heap = Objects(Globals(loader, udp), ReplyOwned, MessageOwned, LinkOwned, AckOwned)
          /\ Globals(loader, udp) = Globals(loader', udp') \cup RecvBuffers
          /\ RecvBuffers \cap Globals(loader', udp') = {}
      BY <1>0, <2>1, HeapDef, RecvExclusive DEF Globals
    <2>7. ASSUME NEW p
          PROVE  p \in Objects(Globals(loader', udp'), ReplyOwned', MessageOwned', LinkOwned,
                               AckOwned) <=> p \in heap'
      BY <2>1, <2>5, <2>6, InObjects, RecvExclusive
    <2> QED BY <2>5, <2>7, HeapDef, Zenon
  <1>4. CASE UdpQueue
    <2>1. udp = "queue" /\ UNCHANGED heap /\ UNCHANGED d_call
      BY <1>0, <1>4 DEF UdpQueue, dvars
    <2>2. CASE M!Lock("udp") /\ UNCHANGED uvars
      <3>1. /\ m_call["udp"] = "idle" /\ m_call'["udp"] = "add"
            /\ UNCHANGED <<m_list, m_exec, m_task, m_queued, udp, udp_msg>>
        BY <1>t, <2>2, Zenon DEF M!Lock, uvars
      <3>2. UdpHolds' = UdpHolds /\ InMihf' = InMihf /\ AckInHand' = AckInHand
        BY <1>0, <2>1, <3>1, Zenon DEF UdpHolds, InMihf, Held, AckInHand
      <3> QED BY <1>0, <1>1, <2>1, <2>2, <3>1, <3>2, HeapFrame, QueuesFrame
    <2>3. CASE M!Add("udp", udp_msg) /\ UNCHANGED uvars
      <3>1. /\ m_call["udp"] = "add" /\ m_call'["udp"] = "up"
            /\ m_list' = Append(m_list, udp_msg) /\ m_queued' = Append(m_queued, udp_msg)
            /\ UNCHANGED <<m_exec, m_task, udp, udp_msg>>
        BY <1>t, <2>3, Zenon DEF M!Add, uvars
      <3>2. udp_msg \in MihfTask \cup {Poison} /\ udp_msg # Poison /\ ~IsLink(udp_msg)
        BY TaskFacts DEF TypeOK, MihfTask
      <3>3. UdpHolds = {udp_msg} /\ UdpHolds' = {} /\ AckInHand' = AckInHand
        BY <1>0, <2>1, <3>1, Zenon DEF UdpHolds, AckInHand
      <3>4. InMihf' = InMihf \cup {udp_msg} /\ Range(m_queued') = Range(m_queued) \cup {udp_msg}
        BY <3>1, <3>2, MihfLink, Zenon
      <3>6. /\ ReplyOwned' = ReplyOwned /\ MessageOwned' = MessageOwned
            /\ LinkOwned' = LinkOwned /\ AckOwned' = AckOwned
        BY <1>1, <3>2, <3>3, <3>4 DEF ReplyOwned, MessageOwned, LinkOwned, AckOwned
      <3> QED BY <1>0, <2>1, <2>3, <3>6, HeapDef, QueuesFrame
    <2>4. CASE M!Up("udp") /\ udp' = "check"
      <3>1. m_call["udp"] = "up" /\ UNCHANGED <<m_list, m_exec, m_task, m_queued>>
        BY <2>4 DEF M!Up
      <3>2. UdpHolds = {} /\ UdpHolds' = {} /\ InMihf' = InMihf /\ AckInHand' = AckInHand
        BY <1>0, <2>1, <2>4, <3>1 DEF UdpHolds, InMihf, Held, AckInHand
      <3> QED BY <1>0, <1>1, <2>1, <2>4, <3>1, <3>2, HeapFrame, GlobalsFacts, Zenon
    <2> QED BY <1>4, <2>2, <2>3, <2>4 DEF UdpQueue
  <1> QED BY <1>2, <1>3, <1>4, Zenon DEF UdpNext

\* The notifier allocates for the event that it queues.
LEMMA HeapNotifierStep ==
  ASSUME HeapPlaced, M!IInv, NetDevNotifier
  PROVE  HeapPlaced'
  <1>t. m_call \in [{"udp", "netdev", "loader"} -> M!CallPC]
    BY MTypes
  <1>0. UNCHANGED loader /\ UNCHANGED uvars /\ UNCHANGED ackpc /\ UNCHANGED dvars
    BY DEF NetDevNotifier, lvars
  <1>1. CASE (M!Lock("netdev") \/ M!Up("netdev")) /\ UNCHANGED heap
    <2>1. /\ m_call'["udp"] = m_call["udp"]
          /\ UNCHANGED <<m_list, m_exec, m_task, m_queued, udp, udp_msg>>
      BY <1>t, <1>0, <1>1 DEF M!Lock, M!Up, uvars
    <2>2. UdpHolds' = UdpHolds /\ InMihf' = InMihf /\ AckInHand' = AckInHand
      BY <1>0, <2>1 DEF UdpHolds, InMihf, Held, AckInHand, dvars
    <2> QED BY <1>0, <1>1, <2>1, <2>2, HeapFrame, QueuesFrame
  <1>2. ASSUME NEW e \in LinkEvent, M!Add("netdev", e), heap' = heap \cup LinkObjects(e)
        PROVE  HeapPlaced'
    <2>1. /\ m_call'["udp"] = m_call["udp"] /\ m_list' = Append(m_list, e)
          /\ m_queued' = Append(m_queued, e) /\ UNCHANGED <<m_exec, m_task, udp, udp_msg>>
      BY <1>t, <1>0, <1>2 DEF M!Add, uvars
    <2>2. UdpHolds' = UdpHolds /\ AckInHand' = AckInHand
      BY <1>0, <2>1 DEF UdpHolds, AckInHand, dvars
    <2>3. e \in MihfTask \cup {Poison} /\ e # Poison /\ IsLink(e)
      BY TaskFacts DEF MihfTask
    <2>4. InMihf' = InMihf \cup {e} /\ Range(m_queued') = Range(m_queued) \cup {e}
      BY <2>1, <2>3, MihfLink
    <2>5. /\ ReplyOwned' = ReplyOwned /\ MessageOwned' = MessageOwned
          /\ LinkOwned' = LinkOwned \cup {e} /\ AckOwned' = AckOwned
      BY <1>0, <2>2, <2>3, <2>4, QueuesFrame, Zenon DEF ReplyOwned, MessageOwned, LinkOwned, AckOwned
    <2>6. heap = Objects(Globals(loader, udp), ReplyOwned, MessageOwned, LinkOwned, AckOwned)
      BY HeapDef
    <2>7. ASSUME NEW p
          PROVE  p \in Objects(Globals(loader, udp), ReplyOwned, MessageOwned, LinkOwned', AckOwned)
                   <=> p \in heap'
      BY <1>2, <2>5, <2>6, InObjects
    <2> QED BY <1>0, <2>5, <2>7, HeapDef, QueuesFrame, Zenon
  <1> QED BY <1>1, <1>2 DEF NetDevNotifier

\* stop_executor allocates and frees nothing that is counted here.
LEMMA HeapStopStep ==
  ASSUME HeapPlaced, TypeOK, M!IInv, D!IInv, StopMihf \/ StopDispatch
  PROVE  HeapPlaced'
  <1>t. /\ m_call \in [{"udp", "netdev", "loader"} -> M!CallPC]
        /\ d_call \in [{"mihf", "loader"} -> D!CallPC]
    BY MTypes, DTypes
  <1>0. /\ heap' = heap /\ UNCHANGED uvars /\ UNCHANGED ackpc
        /\ {loader, loader'} \cap {"start", "unloaded"} = {}
    BY DEF StopMihf, StopDispatch, TypeOK
  <1>1. CASE StopMihf
    <2>0. UNCHANGED dvars
      BY <1>1 DEF StopMihf
    <2>1. CASE M!Lock("loader") \/ M!Up("loader") \/ M!KthreadStop \/ M!Join
      <3>1. /\ m_call'["udp"] = m_call["udp"]
            /\ UNCHANGED <<m_list, m_exec, m_task, m_queued, udp, udp_msg>>
        BY <1>t, <1>0, <2>1 DEF M!Lock, M!Up, M!KthreadStop, M!Join, uvars
      <3>2. UdpHolds' = UdpHolds /\ InMihf' = InMihf /\ AckInHand' = AckInHand
        BY <1>0, <2>0, <3>1, Zenon DEF UdpHolds, InMihf, Held, AckInHand, dvars
      <3> QED BY <1>0, <2>0, <3>1, <3>2, HeapFrame, QueuesFrame, GlobalsFacts
    <2>2. CASE M!Add("loader", Poison)
      <3>1. /\ m_call'["udp"] = m_call["udp"] /\ m_list' = Append(m_list, Poison)
            /\ m_queued' = Append(m_queued, Poison) /\ UNCHANGED <<m_exec, m_task, udp, udp_msg>>
        BY <1>t, <1>0, <2>2 DEF M!Add, uvars
      <3>2. UdpHolds' = UdpHolds /\ AckInHand' = AckInHand
        BY <1>0, <2>0, <3>1, Zenon DEF UdpHolds, AckInHand, dvars
      <3>3. InMihf' = InMihf \cup ({Poison} \ {Poison})
            /\ Range(m_queued') = Range(m_queued) \cup {Poison}
        BY <3>1, MihfLink
      <3>4. /\ ReplyOwned' = ReplyOwned /\ MessageOwned' = MessageOwned
            /\ LinkOwned' = LinkOwned /\ AckOwned' = AckOwned
        BY <2>0, <3>2, <3>3, QueuesFrame, Zenon DEF ReplyOwned, MessageOwned, LinkOwned, AckOwned
      <3> QED BY <1>0, <3>4, HeapDef, GlobalsFacts
    <2>3. CASE UNCHANGED mvars
      BY <1>0, <2>0, <2>3, HeapFrame, QueuesFrame, GlobalsFacts, Zenon
    <2> QED BY <1>1, <2>1, <2>2, <2>3 DEF StopMihf
  <1>2. CASE StopDispatch
    <2>0. UNCHANGED mvars
      BY <1>2 DEF StopDispatch
    <2>1. CASE D!Lock("loader") \/ D!Up("loader") \/ D!KthreadStop \/ D!Join
      <3>1. d_call'["mihf"] = d_call["mihf"] /\ UNCHANGED <<d_list, d_exec, d_task>>
        BY <1>t, <2>1 DEF D!Lock, D!Up, D!KthreadStop, D!Join
      <3>2. InDispatch' = InDispatch /\ AckInHand' = AckInHand
        BY <1>0, <2>0, <3>1, Zenon DEF InDispatch, Held, AckInHand, mvars
      <3> QED BY <1>0, <2>0, <3>2, HeapFrame, QueuesFrame, GlobalsFacts, Zenon
    <2>2. CASE D!Add("loader", Poison)
      <3>1. /\ d_call'["mihf"] = d_call["mihf"] /\ d_list' = Append(d_list, Poison)
            /\ UNCHANGED <<d_exec, d_task>>
        BY <1>t, <2>2 DEF D!Add
      <3>2. AckInHand' = AckInHand
        BY <1>0, <2>0, <3>1 DEF AckInHand, mvars
      <3>3. InDispatch' = InDispatch \cup ({Poison} \ {Poison})
        BY <3>1, DispatchLink
      <3>4. InDispatch' = InDispatch
        BY <3>3
      <3> QED BY <1>0, <2>0, <3>2, <3>4, HeapFrame, QueuesFrame, GlobalsFacts, Zenon
    <2>3. CASE UNCHANGED dvars
      BY <1>0, <2>0, <2>3, HeapFrame, QueuesFrame, GlobalsFacts
    <2> QED BY <1>2, <2>1, <2>2, <2>3 DEF StopDispatch
  <1> QED BY <1>1, <1>2

=============================================================================
