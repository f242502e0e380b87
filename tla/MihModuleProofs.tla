--------------------------- MODULE MihModuleProofs ---------------------------
(***************************************************************************)
(* Proofs about the kernel module: the accounting of its allocations, and  *)
(* the theorems.  IInv is invariant, and the module uses both queues as    *)
(* TaskQueue expects, for any datagrams, link events and faults.           *)
(***************************************************************************)
EXTENDS MihAnswerProofs

-----------------------------------------------------------------------------
(* The heap: handlers and executors                                        *)

\* Acknowledge builds an answer and hands it over.
LEMMA HeapAcknowledgeStep ==
  ASSUME HeapPlaced, M!IInv, D!IInv, Acknowledge
  PROVE  HeapPlaced'
  <1>t. d_call \in [{"mihf", "loader"} -> D!CallPC]
    BY DTypes
  <1>0. /\ UNCHANGED loader /\ UNCHANGED uvars /\ UNCHANGED mvars /\ m_task' = m_task
        /\ m_exec = "run" /\ WantsAck(m_task)
    BY DEF Acknowledge, lvars, mvars
  <1>1. UdpHolds' = UdpHolds /\ InMihf' = InMihf /\ m_queued' = m_queued
    BY <1>0, QueuesFrame
  <1>2. CASE ackpc = "todo" /\ D!Lock("mihf") /\ heap' = heap \cup AckObjects(m_task)
             /\ ackpc' = "queueing"
    <2>1. d_call'["mihf"] = "add" /\ UNCHANGED <<d_list, d_exec, d_task>>
      BY <1>t, <1>2 DEF D!Lock
    <2>2. AckInHand = {} /\ AckInHand' = {m_task} /\ InDispatch' = InDispatch
      BY <1>0, <1>2, <2>1 DEF AckInHand, InDispatch, Held
    <2>3. /\ ReplyOwned' = ReplyOwned /\ MessageOwned' = MessageOwned
          /\ LinkOwned' = LinkOwned /\ AckOwned' = AckOwned \cup {m_task}
      BY <1>1, <2>2 DEF ReplyOwned, MessageOwned, LinkOwned, AckOwned
    <2>4. heap = Objects(Globals(loader, udp), ReplyOwned, MessageOwned, LinkOwned, AckOwned)
      BY HeapDef
    <2>5. ASSUME NEW p
          PROVE  p \in Objects(Globals(loader, udp), ReplyOwned, MessageOwned, LinkOwned, AckOwned')
                   <=> p \in heap'
      BY <1>2, <2>3, <2>4, InObjects
    <2> QED BY <1>0, <2>3, <2>5, HeapDef, QueuesFrame, Zenon
  <1>3. CASE ackpc = "queueing" /\ D!Add("mihf", m_task) /\ UNCHANGED <<heap, ackpc>>
    <2>1. /\ d_call["mihf"] = "add" /\ d_call'["mihf"] = "up"
          /\ d_list' = Append(d_list, m_task) /\ UNCHANGED <<d_exec, d_task>>
      BY <1>t, <1>3 DEF D!Add
    <2>2. m_task \in Datagram \cup {Poison} /\ m_task # Poison
      BY <1>0, MTypes, TaskFacts
    <2>3. InDispatch' = InDispatch \cup {m_task}
      BY <2>1, <2>2, DispatchLink
    <2>4. AckInHand = {m_task} /\ AckInHand' = {}
      BY <1>3, <2>1 DEF AckInHand
    <2>5. /\ ReplyOwned' = ReplyOwned /\ MessageOwned' = MessageOwned
          /\ LinkOwned' = LinkOwned /\ AckOwned' = AckOwned
      BY <1>1, <2>3, <2>4 DEF ReplyOwned, MessageOwned, LinkOwned, AckOwned
    <2> QED BY <1>0, <1>3, <2>5, HeapDef, QueuesFrame, Zenon
  <1>4. CASE ackpc = "queueing" /\ D!Up("mihf") /\ ackpc' = "done" /\ UNCHANGED heap
    <2>1. d_call["mihf"] = "up" /\ UNCHANGED <<d_list, d_exec, d_task>>
      BY <1>4 DEF D!Up
    <2>2. AckInHand' = AckInHand /\ InDispatch' = InDispatch
      BY <1>0, <1>4, <2>1 DEF AckInHand, InDispatch, Held
    <2> QED BY <1>0, <1>1, <1>4, <2>2, HeapFrame, QueuesFrame
  <1> QED BY <1>2, <1>3, <1>4 DEF Acknowledge

\* handle_message and Link_*_indication free what came with their task.
LEMMA HeapHandlerStep ==
  ASSUME HeapPlaced, TypeOK, M!IInv, D!IInv, TasksPlaced, AckSteps, AckExactlyOnce,
         HandleMessage \/ LinkIndication
  PROVE  HeapPlaced'
  <1>0. /\ UNCHANGED loader /\ UNCHANGED uvars /\ UNCHANGED dvars
        /\ m_exec = "run" /\ m_exec' = "down" /\ m_task' = Poison
        /\ UNCHANGED <<m_list, m_call, m_queued>>
    BY DEF HandleMessage, LinkIndication, M!Finish, lvars
  <1>1. /\ m_task \in MihfTask /\ m_task # Poison /\ m_task \in Range(m_queued)
        /\ m_task \notin Range(m_list)
    BY <1>0, RunningTask
  <1>2. UdpHolds' = UdpHolds /\ InDispatch' = InDispatch /\ m_task \notin UdpHolds
    BY <1>0, <1>1, QueuesFrame DEF UdpHolds, uvars, TasksPlaced
  <1>3. InMihf' = InMihf \ {m_task}
    BY <1>0, <1>1, HeldFinish DEF InMihf
  <1>4. AckInHand = {} /\ AckInHand' = {}
    <2>1. CASE HandleMessage
      BY <2>1 DEF HandleMessage, AckInHand, AckSteps
    <2>2. CASE LinkIndication
      <3>1. ~WantsAck(m_task) /\ ackpc' = ackpc
        BY <2>2 DEF LinkIndication, WantsAck, LinkKind
      <3> QED BY <3>1 DEF AckInHand, AckSteps
    <2> QED BY <2>1, <2>2
  <1>5. /\ heap = Objects(Globals(loader, udp), ReplyOwned, MessageOwned, LinkOwned, AckOwned)
        /\ MessageOwned \in SUBSET MihfTask /\ LinkOwned \in SUBSET MihfTask
        /\ AckOwned \in SUBSET MihfTask
    BY HeapDef, OwnersAreTasks
  <1>6. ReplyOwned' = ReplyOwned /\ AckOwned' = AckOwned
    BY <1>0, <1>2, <1>4, Zenon DEF ReplyOwned, AckOwned
  <1>7. CASE HandleMessage
    <2>1. ~IsLink(m_task) /\ heap' = heap \ MessageObjects(m_task)
      BY <1>7 DEF HandleMessage, IsLink, DatagramKind, LinkKind
    <2>2. MessageOwned' = MessageOwned \ {m_task} /\ LinkOwned' = LinkOwned
      BY <1>2, <1>3, <2>1, Zenon DEF MessageOwned, LinkOwned
    <2>3. ASSUME NEW p
          PROVE  p \in Objects(Globals(loader, udp), ReplyOwned, MessageOwned', LinkOwned, AckOwned)
                   <=> p \in heap'
      BY <1>1, <1>5, <2>1, <2>2, InObjects, MessageExclusive
    <2> QED BY <1>0, <1>6, <2>2, <2>3, HeapDef, QueuesFrame, Zenon
  <1>8. CASE LinkIndication
    <2>1. IsLink(m_task) /\ heap' = heap \ LinkObjects(m_task)
      BY <1>8 DEF LinkIndication, IsLink
    <2>2. MessageOwned' = MessageOwned /\ LinkOwned' = LinkOwned \ {m_task}
      BY <1>2, <1>3, <2>1, Zenon DEF MessageOwned, LinkOwned
    <2>3. ASSUME NEW p
          PROVE  p \in Objects(Globals(loader, udp), ReplyOwned, MessageOwned, LinkOwned', AckOwned)
                   <=> p \in heap'
      BY <1>1, <1>5, <2>1, <2>2, InObjects, LinkExclusive
    <2> QED BY <1>0, <1>6, <2>2, <2>3, HeapDef, QueuesFrame, Zenon
  <1> QED BY <1>7, <1>8

\* handle_udp_reply frees the answer whether or not it could send it.
LEMMA HeapReplyStep ==
  ASSUME HeapPlaced, TypeOK, M!IInv, D!IInv, TasksPlaced, AckSteps, AckExactlyOnce,
         HandleUdpReply
  PROVE  HeapPlaced'
  <1>0. /\ UNCHANGED loader /\ UNCHANGED uvars /\ UNCHANGED mvars /\ UNCHANGED ackpc
        /\ d_exec = "run" /\ d_exec' = "down" /\ d_task' = Poison
        /\ UNCHANGED <<d_list, d_call>> /\ heap' = heap \ AckObjects(d_task)
    BY DEF HandleUdpReply, D!Finish
  <1>1. /\ d_task \in Datagram /\ d_task \in MihfTask /\ d_task # Poison
    BY <1>0, DTypes, TaskFacts, Zenon DEF MihfTask
  <1>2. d_task \in Range(d_queued) /\ d_task \notin Range(d_list)
    BY <1>0, <1>1, DTypes, DFifo, FifoFacts, SMTT(30) DEF AckExactlyOnce
  <1>3. AckInHand' = AckInHand /\ d_task \notin AckInHand
    <2>1. ASSUME ackpc = "queueing", d_call["mihf"] = "add" PROVE m_task # d_task
      <3>1. m_exec = "run" /\ ~AckLinked
        BY <2>1 DEF AckSteps, AckLinked
      <3> QED BY <1>2, <3>1, RunningTask, Zenon
    <2> QED BY <1>0, <2>1 DEF AckInHand, mvars
  <1>4. InDispatch' = InDispatch \ {d_task}
    BY <1>0, <1>2, HeldFinish, Zenon DEF InDispatch
  <1>5. /\ heap = Objects(Globals(loader, udp), ReplyOwned, MessageOwned, LinkOwned, AckOwned)
        /\ AckOwned \in SUBSET MihfTask
    BY HeapDef, OwnersAreTasks, Zenon
  <1>6. /\ ReplyOwned' = ReplyOwned /\ MessageOwned' = MessageOwned
        /\ LinkOwned' = LinkOwned /\ AckOwned' = AckOwned \ {d_task}
    BY <1>0, <1>3, <1>4, QueuesFrame DEF ReplyOwned, MessageOwned, LinkOwned, AckOwned
  <1>7. ASSUME NEW p
        PROVE  p \in Objects(Globals(loader, udp), ReplyOwned, MessageOwned, LinkOwned, AckOwned')
                 <=> p \in heap'
    BY <1>0, <1>1, <1>5, <1>6, InObjects, AckExclusive
  <1> QED BY <1>0, <1>6, <1>7, HeapDef, QueuesFrame, Zenon

\* Between two handlers the executors only unlink.
LEMMA HeapExecutorStep ==
  ASSUME HeapPlaced, M!IInv, D!IInv, AckSteps, MihfExecutor \/ DispatchExecutor
  PROVE  HeapPlaced'
  <1>0. heap' = heap /\ UNCHANGED loader /\ UNCHANGED uvars /\ UNCHANGED ackpc
    BY DEF MihfExecutor, DispatchExecutor, lvars
  <1>1. CASE MihfExecutor
    <2>0. UNCHANGED dvars /\ UNCHANGED <<m_call, m_queued>> /\ m_exec # "run"
      BY <1>1 DEF MihfExecutor, M!Start, M!Down, M!Take, M!TakePoison, M!Exit
    <2>1. UdpHolds' = UdpHolds /\ AckInHand = {} /\ AckInHand' = {}
      BY <1>0, <2>0 DEF UdpHolds, uvars, AckInHand, AckSteps
    <2>2. InMihf' = InMihf
      <3>1. CASE M!Start \/ M!Down \/ M!Exit
        <4>1. m_exec' # "run" /\ m_list' = m_list
          BY <3>1 DEF M!Start, M!Down, M!Exit
        <4> QED BY <2>0, <4>1, HeldIdle DEF InMihf
      <3>2. CASE M!Take \/ M!TakePoison
        <4>1. /\ m_list # << >> /\ m_list' = Tail(m_list)
              /\ \/ Head(m_list) # Poison /\ m_exec' = "run" /\ m_task' = Head(m_list)
                 \/ Head(m_list) = Poison /\ m_exec' = "poisoned" /\ m_task' = m_task
          BY <3>2 DEF M!Take, M!TakePoison
        <4> QED BY <2>0, <4>1, MTypes, HeldTake DEF InMihf
      <3> QED BY <1>1, <3>1, <3>2, Zenon DEF MihfExecutor
    <2> QED BY <1>0, <2>0, <2>1, <2>2, HeapFrame, QueuesFrame
  <1>2. CASE DispatchExecutor
    <2>0. UNCHANGED mvars /\ UNCHANGED d_call /\ d_exec # "run"
      BY <1>2 DEF DispatchExecutor, D!Start, D!Down, D!Take, D!TakePoison, D!Exit
    <2>1. AckInHand' = AckInHand
      BY <1>0, <2>0 DEF AckInHand, mvars
    <2>2. InDispatch' = InDispatch
      <3>1. CASE D!Start \/ D!Down \/ D!Exit
        <4>1. d_exec' # "run" /\ d_list' = d_list
          BY <3>1 DEF D!Start, D!Down, D!Exit
        <4> QED BY <2>0, <4>1, HeldIdle DEF InDispatch
      <3>2. CASE D!Take \/ D!TakePoison
        <4>1. /\ d_list # << >> /\ d_list' = Tail(d_list)
              /\ \/ Head(d_list) # Poison /\ d_exec' = "run" /\ d_task' = Head(d_list)
                 \/ Head(d_list) = Poison /\ d_exec' = "poisoned" /\ d_task' = d_task
          BY <3>2, Zenon DEF D!Take, D!TakePoison
        <4> QED BY <2>0, <4>1, DTypes, HeldTake DEF InDispatch
      <3> QED BY <1>2, <3>1, <3>2, Zenon DEF DispatchExecutor
    <2> QED BY <1>0, <2>0, <2>1, <2>2, HeapFrame, QueuesFrame, Zenon
  <1> QED BY <1>1, <1>2, Zenon

\* The allocations are accounted for: every step.
LEMMA HeapStep ==
  ASSUME HeapPlaced, TypeOK, M!IInv, D!IInv, TasksPlaced, AckSteps, AckExactlyOnce,
         StopOrder, [Next]_vars
  PROVE  HeapPlaced'
  <1>1. CASE DevMon \/ Arrive \/ UNCHANGED vars
    <2>1. UNCHANGED mvars /\ UNCHANGED dvars /\ UNCHANGED <<ackpc, uvars, heap, loader>>
      BY <1>1 DEF DevMon, Arrive, vars, lvars
    <2> QED BY <2>1, HeapFrame, QueuesFrame, Zenon
  <1> QED
    BY <1>1, HeapLoaderStep, HeapUdpStep, HeapNotifierStep, HeapStopStep, HeapAcknowledgeStep,
       HeapHandlerStep, HeapReplyStep, HeapExecutorStep, Zenon DEF Next, LoaderNext

-----------------------------------------------------------------------------
(* The inductive invariant                                                 *)

\* kthread_run comes before the first step of an executor.
LEMMA CreatedStep ==
  ASSUME ExecutorsCreated, [Next]_vars
  PROVE  ExecutorsCreated'
  <1>1. CASE MihfExecutor \/ DispatchExecutor
    BY <1>1, Zenon DEF MihfExecutor, DispatchExecutor, M!Start, M!Down, M!Take, M!TakePoison,
       M!Exit, D!Start, D!Down, D!Take, D!TakePoison, D!Exit, lvars, mvars, dvars,
       ExecutorsCreated
  <1>2. CASE HandleMessage \/ LinkIndication \/ HandleUdpReply
    BY <1>2, Zenon DEF HandleMessage, LinkIndication, HandleUdpReply, M!Finish, D!Finish, lvars,
       mvars, dvars, ExecutorsCreated
  <1>3. CASE NetDevNotifier \/ Acknowledge \/ UdpQueue
    BY <1>3, Zenon DEF NetDevNotifier, Acknowledge, UdpQueue, M!Lock, M!Add, M!Up, D!Lock, D!Add,
       D!Up, lvars, mvars, dvars, ExecutorsCreated
  <1>4. CASE StopMihf \/ StopDispatch
    BY <1>4, Zenon DEF StopMihf, StopDispatch, M!Lock, M!Add, M!Up, M!KthreadStop, M!Join,
       D!Lock, D!Add, D!Up, D!KthreadStop, D!Join, mvars, dvars, ExecutorsCreated
  <1>5. CASE QuietStep
    <2>1. UNCHANGED mvars /\ UNCHANGED dvars
      BY <1>5, QuietFrame
    <2>2. kt \subseteq kt'
      BY <1>5, Zenon DEF QuietStep, RegisterNetdev, RegisterInetaddr, RunThreads, KthreadRun,
         BeginStop, KillNetHand, StopThreads, KthreadStop, KthreadJoin, Unregister, UdpStart,
         UdpCheck, UdpRecv, UdpRecvError, UdpExit, DevMon, Arrive, lvars, vars
    <2> QED BY <2>1, <2>2, Zenon DEF mvars, dvars, ExecutorsCreated
  <1> QED BY <1>1, <1>2, <1>3, <1>4, <1>5, StepCases, Zenon

\* IInv holds when the module is loaded, apart from the queues.
LEMMA InitModule ==
  ASSUME Init
  PROVE  /\ TasksPlaced /\ AckSteps /\ AckExactlyOnce /\ HeapPlaced
         /\ StopOrder /\ ExecutorsCreated /\ StopOnce /\ StopsLiveThreads /\ PoisonLast
  <1>0. /\ m_call = [c \in {"udp", "netdev", "loader"} |-> "idle"]
        /\ d_call = [c \in {"mihf", "loader"} |-> "idle"]
        /\ m_list = << >> /\ d_list = << >> /\ m_queued = << >> /\ d_queued = << >>
        /\ m_ran = << >> /\ d_ran = << >> /\ m_exec = "created" /\ d_exec = "created"
    BY DEF Init, M!Init, D!Init
  <1>1. UdpHolds = {} /\ AckInHand = {} /\ ~AckLinked /\ InMihf = {} /\ InDispatch = {}
    BY <1>0, EmptyOnce, Zenon DEF Init, UdpHolds, AckInHand, AckLinked, InMihf, InDispatch, Held
  <1>2. TasksPlaced
    BY <1>0, <1>1, EmptyOnce, Zenon DEF Init, TasksPlaced
  <1>3. AckSteps
    BY <1>0, Zenon DEF Init, AckSteps
  <1>4. AckExactlyOnce
    BY <1>0, <1>1, EmptyOnce DEF Init, AckExactlyOnce, SameOrder
  <1>5. HeapPlaced
    BY <1>0, <1>1, EmptyOnce, Zenon DEF Init, HeapPlaced
  <1>6. StopOrder /\ ExecutorsCreated /\ StopOnce /\ StopsLiveThreads
    BY <1>0 DEF Init, StopOrder, ExecutorsCreated, StopOnce, StopsLiveThreads
  <1>7. PoisonLast
    BY <1>0 DEF Init, PoisonLast
  <1> QED BY <1>2, <1>3, <1>4, <1>5, <1>6, <1>7, Zenon

\* The types hold when the module is loaded, given those of the queues.
LEMMA InitTypes ==
  ASSUME Init, M!TypeOK, D!TypeOK
  PROVE  TypeOK
  <1>1. net \in Seq(Datagram \cup {Wakeup}) /\ sent \in Seq(Datagram)
    BY DEF Init
  <1>2. /\ arrived \subseteq Datagram \cup LinkEvent /\ failed \subseteq Faults
        /\ udp_msg \in Datagram \cup {Wakeup}
    BY DEF Init
  <1> QED BY <1>1, <1>2, Zenon DEF Init, TypeOK

\* IInv is preserved, given that it is for the queues.
LEMMA ModuleStep ==
  ASSUME IInv, M!IInv', D!IInv', [Next]_vars
  PROVE  IInv'
  <1>1. /\ TypeOK /\ M!IInv /\ D!IInv /\ TasksPlaced /\ AckSteps /\ AckExactlyOnce
        /\ HeapPlaced /\ StopOrder /\ ExecutorsCreated /\ Threads /\ PoisonLast
    BY DEF IInv, Threads
  <1>2. TypeOK'
    BY <1>1, TypeOKStep, Zenon DEF M!IInv, D!IInv
  <1>3. TasksPlaced' /\ AckExactlyOnce'
    BY <1>1, PlacedStep, AckExactlyOnceStep, Zenon
  <1>4. AckSteps'
    BY <1>1, MTypes, DTypes, AckStepsStep, Zenon DEF M!IInv, M!TypeOK
  <1>5. Threads'
    BY <1>1, MTypes, DTypes, ThreadsStep, Zenon
  <1>6. HeapPlaced' /\ PoisonLast' /\ ExecutorsCreated'
    BY <1>1, HeapStep, PoisonLastStep, CreatedStep, Zenon
  <1> QED BY <1>2, <1>3, <1>4, <1>5, <1>6, Zenon DEF IInv, Threads

-----------------------------------------------------------------------------
(* What the invariant says of a module that was unloaded                   *)

\* If mod_End could wake the receiver, the threads are gone.
LEMMA ThreadsStopped ==
  ASSUME IInv, "wakeup_socket" \notin failed
  PROVE  UnloadStopsThreads
  <1>1. StopOrder /\ M!PoisonOnce /\ D!PoisonOnce
    BY DEF IInv, M!IInv, D!IInv
  <1> QED BY <1>1, Zenon DEF UnloadStopsThreads, StopOrder, M!PoisonOnce, D!PoisonOnce

\* The entries of a sequence are those at its indices.
LEMMA Indexed ==
  ASSUME NEW S, NEW s \in Seq(S)
  PROVE  Range(s) = {s[i] : i \in 1..Len(s)}
  BY DEF Range

\* Then the pipeline is empty as well.  A poison was taken from each queue, so
\* everything before it has run, and PoisonLast says what was behind it.
LEMMA Drained ==
  ASSUME IInv, "wakeup_socket" \notin failed
  PROVE  PipelineDrained
  <1> SUFFICES ASSUME loader = "unloaded", m_exec = "exited", d_exec = "exited"
               PROVE  /\ Range(m_list) \subseteq LinkEvent
                      /\ udp # "queue"
                      /\ d_list = << >>
                      /\ \A x \in Range(m_queued) : IsAckreq(x) => x \in Range(d_ran)
    BY DEF PipelineDrained
  <1>0. M!IInv /\ D!IInv /\ PoisonLast /\ AckExactlyOnce /\ StopOrder
    BY DEF IInv
  <1> DEFINE mt == Len(m_queued) - Len(m_list)
             dt == Len(d_queued) - Len(d_list)
  <1>1. /\ mt = Len(m_ran) + 1 /\ m_queued[mt] = Poison
        /\ \A i \in 1..Len(m_list) : mt + i \in 1..Len(m_queued) /\ m_list[i] = m_queued[mt + i]
        /\ \A i \in 1..Len(m_ran) : m_ran[i] = m_queued[i]
    BY <1>0, MFifo, Zenon DEF Fifo
  <1>2. /\ dt = Len(d_ran) + 1 /\ d_queued[dt] = Poison
        /\ \A i \in 1..Len(d_ran) : d_ran[i] = d_queued[i]
    BY <1>0, DFifo, Zenon DEF Fifo
  <1>3. /\ Len(m_list) \in Nat /\ Len(m_queued) \in Nat /\ Len(m_ran) \in Nat
        /\ Len(d_list) \in Nat /\ Len(d_queued) \in Nat /\ Len(d_ran) \in Nat
    BY <1>0, MTypes, DTypes
  <1>4. /\ Range(m_list) = {m_list[i] : i \in 1..Len(m_list)}
        /\ Range(m_queued) = {m_queued[i] : i \in 1..Len(m_queued)}
        /\ Range(d_queued) = {d_queued[i] : i \in 1..Len(d_queued)}
        /\ Range(m_ran) = {m_ran[i] : i \in 1..Len(m_ran)}
        /\ Range(d_ran) = {d_ran[i] : i \in 1..Len(d_ran)}
    BY <1>0, MTypes, DTypes, Indexed, Zenon
  <1>5. mt \in 1..Len(m_queued) /\ dt \in 1..Len(d_queued)
    BY <1>1, <1>2, <1>3, SMTT(30)
  <1>6. dt = Len(d_queued) => d_list = << >>
    BY <1>0, <1>3, DTypes
  <1> HIDE DEF mt, dt
  <1>7. \A j \in 1..Len(m_queued) : mt < j => m_queued[j] \in LinkEvent
    BY <1>0, <1>1, <1>5, Zenon DEF PoisonLast
  <1>8. dt = Len(d_queued)
    BY <1>0, <1>2, <1>5, Zenon DEF PoisonLast
  <1>9. Range(m_list) \subseteq LinkEvent
    <2>1. ASSUME NEW i \in 1..Len(m_list) PROVE m_list[i] \in LinkEvent
      <3>1. mt + i \in 1..Len(m_queued) /\ m_list[i] = m_queued[mt + i]
        BY <1>1, Zenon
      <3>2. mt \in Int /\ i \in Int
        BY <1>3, <1>5
      <3>3. mt < mt + i
        BY <3>2, <2>1
      <3> QED BY <1>7, <3>1, <3>3, Zenon
    <2> QED BY <1>4, <2>1
  <1>10. ASSUME NEW x \in Range(m_queued), IsAckreq(x) PROVE x \in Range(d_ran)
    <2>1. PICK k \in 1..Len(m_queued) : x = m_queued[k]
      BY <1>4
    <2>2. x # Poison /\ x \notin LinkEvent
      BY <1>10, TaskFacts, Zenon DEF IsAckreq, IsLink, LinkKind
    <2>3. k # mt /\ ~(mt < k)
      BY <1>1, <1>7, <2>1, <2>2, Zenon
    <2>4. k \in 1..Len(m_ran) /\ m_ran[k] = x
      BY <1>1, <1>3, <2>1, <2>3
    <2>5. x \in Range(d_queued)
      BY <1>0, <1>4, <1>10, <2>2, <2>4, Zenon DEF AckExactlyOnce
    <2>6. PICK l \in 1..Len(d_queued) : x = d_queued[l]
      BY <1>4, <2>5, ZenonT(40)
    <2>7. l # dt
      BY <1>2, <2>2, <2>6, ZenonT(40)
    <2>8. l \in 1..Len(d_ran) /\ d_ran[l] = x
      BY <1>2, <1>3, <1>8, <2>6, <2>7
    <2> QED BY <1>4, <2>8, Zenon
  <1>11. udp # "queue"
    BY <1>0 DEF StopOrder
  <1> QED BY <1>6, <1>8, <1>9, <1>10, <1>11, Zenon

\* Who frees what, when the objects are where HeapPlaced says: the two halves of
\* HeapAccounting have between them what the places hold.
LEMMA HeapSplit ==
  ASSUME IInv
  PROVE  heap = Owned \cup Leaked
  <1>1. /\ InMihfForever \subseteq InMihf /\ InDispatchForever \subseteq InDispatch
    BY Zenon DEF InMihfForever, InDispatchForever, Stranded, InMihf, InDispatch, Held
  <1>2. \A x \in UdpHolds : ~IsLink(x)
    BY TaskFacts DEF IInv, TypeOK, UdpHolds
  <1>3. heap = Objects(Globals(loader, udp), ReplyOwned, MessageOwned, LinkOwned, AckOwned)
    BY HeapDef DEF IInv
  <1> DEFINE tasks == UdpHolds \cup InMihf
  <1>4. ASSUME NEW p
        PROVE  (\E x \in tasks : p \in TaskObjects(x)) <=>
                 \/ \E x \in MessageOwned : p \in MessageObjects(x)
                 \/ \E x \in LinkOwned : p \in LinkObjects(x)
    BY <1>2, Zenon DEF TaskObjects, MessageOwned, LinkOwned
  <1>5. ASSUME NEW p
        PROVE  p \in Owned \cup Leaked <=>
                 \/ p \in Globals(loader, udp)
                 \/ \E x \in ReplyOwned : p \in ReplyObjects(x)
                 \/ \E x \in tasks : p \in TaskObjects(x)
                 \/ \E x \in AckOwned : p \in AckObjects(x)
    <2>1. p \in Globals(loader, udp) <=>
            \/ p \in (IF loader \in {"start", "refused", "unloaded"} THEN {} ELSE GlobalBuffers)
            \/ p \in (IF udp = "recv" THEN RecvBuffers ELSE {})
            \/ p \in (IF loader = "start" THEN {} ELSE GlobalValues)
            \/ p \in (IF loader = "refused" THEN GlobalBuffers ELSE {})
      BY Zenon DEF Globals
    <2>2. (\E x \in tasks : p \in TaskObjects(x)) <=>
            \/ \E x \in UdpHolds \cup (InMihf \ InMihfForever) : p \in TaskObjects(x)
            \/ \E x \in InMihfForever : p \in TaskObjects(x)
      BY <1>1, Zenon
    <2>3. (\E x \in AckOwned : p \in AckObjects(x)) <=>
            \/ \E x \in AckInHand \cup (InDispatch \ InDispatchForever) : p \in AckObjects(x)
            \/ \E x \in InDispatchForever : p \in AckObjects(x)
      BY <1>1, Zenon DEF AckOwned
    <2> HIDE DEF tasks
    <2> QED BY <2>1, <2>2, <2>3 DEF Owned, Leaked, ReplyOwned
  <1> QED BY <1>3, <1>4, <1>5, InObjects

\* When the module is gone nobody owns anything: no thread holds or runs a task,
\* and every queue is abandoned.
LEMMA NothingOwned ==
  ASSUME IInv, Gone
  PROVE  Owned = {}
  <1>1. /\ StopOrder /\ ExecutorsCreated /\ AckSteps
        /\ loader = "unloaded" => UnloadStopsThreads
    BY ThreadsStopped DEF IInv, Gone
  <1>2. loader \in {"refused", "unloaded"} /\ udp \in {"none", "exited"}
    BY <1>1, Zenon DEF Gone, StopOrder, UnloadStopsThreads
  <1>3. /\ m_exec # "run" /\ Abandoned("mihf", m_exec)
        /\ d_exec # "run" /\ Abandoned("dispatch", d_exec)
    BY <1>1, <1>2 DEF StopOrder, ExecutorsCreated, UnloadStopsThreads, Abandoned
  <1>4. UdpHolds = {} /\ AckInHand = {}
    BY <1>1, <1>2, <1>3 DEF UdpHolds, AckInHand, AckSteps
  <1>5. InMihf \ InMihfForever = {} /\ InDispatch \ InDispatchForever = {}
    BY <1>3 DEF InMihf, InDispatch, Held, InMihfForever, InDispatchForever, Stranded
  <1> QED BY <1>2, <1>4, <1>5 DEF Owned

\* What IInv says of the module.
LEMMA Implied ==
  IInv => /\ TypeOK /\ AckExactlyOnce /\ HeapAccounting /\ StopsLiveThreads
          /\ "wakeup_socket" \notin failed => UnloadStopsThreads
          /\ "wakeup_socket" \notin failed => PipelineDrained
  BY ThreadsStopped, Drained, HeapSplit, NothingOwned, Zenon DEF IInv, HeapAccounting

\* The module starts with both queues as init_executor leaves them.
LEMMA InitQueues == Init => M!Init /\ D!Init
  BY Zenon DEF Init

\* Every step of the module is a step of each queue, or leaves it alone.
LEMMA StepQueues == IInv /\ [Next]_vars => [M!Next]_(M!vars) /\ [D!Next]_(D!vars)
  BY MihfQueueStep, DispatchQueueStep, Zenon DEF IInv

\* IInv holds when the module is loaded, given that it does for the queues.
LEMMA InitParts == Init /\ M!IInv /\ D!IInv => IInv
  BY InitModule, InitTypes, Zenon DEF IInv, M!IInv, D!IInv

\* Every step of the module preserves IInv, given that it does for the queues.
LEMMA StepParts == IInv /\ M!IInv' /\ D!IInv' /\ [Next]_vars => IInv'
  BY ModuleStep, Zenon

-----------------------------------------------------------------------------
(* The queues                                                              *)

MQ == INSTANCE TaskQueueProofs WITH
  Task <- MihfTask, Caller <- {"udp", "netdev", "loader"},
  Stopper <- "loader", MaxInterrupts <- 0,
  list <- m_list, sem <- m_sem, lock <- m_lock, call <- m_call,
  exec <- m_exec, task <- m_task, should_stop <- m_stop,
  interrupts <- m_intr, queued <- m_queued, ran <- m_ran

\* MQ is M, with the theorems about TaskQueue: the same initial states,
LEMMA MihfQueueInit == M!Init <=> MQ!Init
  BY Zenon DEF M!Init, MQ!Init

\* the same steps,
LEMMA MihfQueueNext == [M!Next]_(M!vars) <=> [MQ!Next]_(MQ!vars)
  BY ZenonT(40) DEF M!Next, MQ!Next, M!CallerNext, MQ!CallerNext,
             M!StopperNext, MQ!StopperNext, M!ExecNext, MQ!ExecNext,
             M!Arg, MQ!Arg, M!Lock, MQ!Lock, M!Add, MQ!Add, M!Up, MQ!Up,
             M!KthreadStop, MQ!KthreadStop, M!Join, MQ!Join, M!Start, MQ!Start,
             M!Down, MQ!Down, M!Interrupt, MQ!Interrupt,
             M!TakeNothing, MQ!TakeNothing, M!Take, MQ!Take,
             M!TakePoison, MQ!TakePoison, M!Finish, MQ!Finish, M!Exit, MQ!Exit,
             M!vars, MQ!vars

\* and the same invariant.
LEMMA MihfQueueInvariant == M!IInv <=> MQ!IInv
  <1>1. M!Wakeups = MQ!Wakeups
    BY Zenon DEF M!Wakeups, MQ!Wakeups, M!Posting, MQ!Posting,
                 M!Cardinality, MQ!Cardinality
  <1>2. M!FifoOrder <=> MQ!FifoOrder
    BY ZenonT(40) DEF M!FifoOrder, MQ!FifoOrder, M!Taken, MQ!Taken
  <1> QED BY <1>1, <1>2, Zenon
          DEF M!IInv, MQ!IInv, M!TypeOK, MQ!TypeOK,
              M!MutualExclusion, MQ!MutualExclusion,
              M!NoLostWakeup, MQ!NoLostWakeup, M!PoisonOnce, MQ!PoisonOnce,
              M!Entry, MQ!Entry, M!CallPC, MQ!CallPC, M!ExecPC, MQ!ExecPC

\* The callers of mihf_queue are finitely many, and the poison is no task of it.
LEMMA MihfQueueCallers == MQ!IsFiniteSet({"udp", "netdev", "loader"}) /\ Poison \notin MihfTask
  BY CallersListed, TaskFacts, Zenon DEF MQ!IsFiniteSet

\* The invariant of mihf_queue holds at first, and the steps of the queue
\* preserve it.
LEMMA MihfQueueIInv ==
  /\ M!Init => M!IInv
  /\ M!IInv /\ [M!Next]_(M!vars) => M!IInv'
  <1>1. M!IInv' <=> MQ!IInv'
    BY MihfQueueInvariant, PTL
  <1> QED BY <1>1, MihfQueueInit, MihfQueueNext, MihfQueueInvariant, MihfQueueCallers,
             MQ!InitIInv, MQ!NextIInv, Zenon

DQ == INSTANCE TaskQueueProofs WITH
  Task <- Datagram, Caller <- {"mihf", "loader"},
  Stopper <- "loader", MaxInterrupts <- 0,
  list <- d_list, sem <- d_sem, lock <- d_lock, call <- d_call,
  exec <- d_exec, task <- d_task, should_stop <- d_stop,
  interrupts <- d_intr, queued <- d_queued, ran <- d_ran

\* DQ is D, with the theorems about TaskQueue: the same initial states,
LEMMA DispatchQueueInit == D!Init <=> DQ!Init
  BY Zenon DEF D!Init, DQ!Init

\* the same steps,
LEMMA DispatchQueueNext == [D!Next]_(D!vars) <=> [DQ!Next]_(DQ!vars)
  BY ZenonT(40) DEF D!Next, DQ!Next, D!CallerNext, DQ!CallerNext,
             D!StopperNext, DQ!StopperNext, D!ExecNext, DQ!ExecNext,
             D!Arg, DQ!Arg, D!Lock, DQ!Lock, D!Add, DQ!Add, D!Up, DQ!Up,
             D!KthreadStop, DQ!KthreadStop, D!Join, DQ!Join, D!Start, DQ!Start,
             D!Down, DQ!Down, D!Interrupt, DQ!Interrupt,
             D!TakeNothing, DQ!TakeNothing, D!Take, DQ!Take,
             D!TakePoison, DQ!TakePoison, D!Finish, DQ!Finish, D!Exit, DQ!Exit,
             D!vars, DQ!vars

\* and the same invariant.
LEMMA DispatchQueueInvariant == D!IInv <=> DQ!IInv
  <1>1. D!Wakeups = DQ!Wakeups
    BY Zenon DEF D!Wakeups, DQ!Wakeups, D!Posting, DQ!Posting,
                 D!Cardinality, DQ!Cardinality
  <1>2. D!FifoOrder <=> DQ!FifoOrder
    BY ZenonT(40) DEF D!FifoOrder, DQ!FifoOrder, D!Taken, DQ!Taken
  <1> QED BY <1>1, <1>2, Zenon
          DEF D!IInv, DQ!IInv, D!TypeOK, DQ!TypeOK,
              D!MutualExclusion, DQ!MutualExclusion,
              D!NoLostWakeup, DQ!NoLostWakeup, D!PoisonOnce, DQ!PoisonOnce,
              D!Entry, DQ!Entry, D!CallPC, DQ!CallPC, D!ExecPC, DQ!ExecPC

\* The callers of dispatch_queue are finitely many, and the poison is no task of it.
LEMMA DispatchQueueCallers == DQ!IsFiniteSet({"mihf", "loader"}) /\ Poison \notin Datagram
  BY CallersListed, TaskFacts, Zenon DEF DQ!IsFiniteSet

\* The invariant of dispatch_queue holds at first, and the steps of the queue
\* preserve it.
LEMMA DispatchQueueIInv ==
  /\ D!Init => D!IInv
  /\ D!IInv /\ [D!Next]_(D!vars) => D!IInv'
  <1>1. D!IInv' <=> DQ!IInv'
    BY DispatchQueueInvariant, PTL
  <1> QED BY <1>1, DispatchQueueInit, DispatchQueueNext, DispatchQueueInvariant, DispatchQueueCallers,
             DQ!InitIInv, DQ!NextIInv, Zenon

-----------------------------------------------------------------------------
(* Theorems                                                                *)

\* IInv holds when the module is loaded.
LEMMA InitIInv == Init => IInv
  BY InitQueues, MihfQueueIInv, DispatchQueueIInv, InitParts, Zenon

\* Every step of the module preserves IInv: the loader's, the threads', the
\* notifier's and the faults.
LEMMA NextIInv == IInv /\ [Next]_vars => IInv'
  <1>1. IInv => M!IInv /\ D!IInv
    BY Zenon DEF IInv
  <1> QED BY <1>1, StepQueues, MihfQueueIInv, DispatchQueueIInv, StepParts, Zenon

\* IInv is an invariant of the module: whatever is received, whichever of the
\* steps of mod_Start fails and whenever the module is unloaded.
THEOREM Invariance == Spec => []IInv
  BY InitIInv, NextIInv, PTL DEF Spec

\* The module uses mihf_queue and dispatch_queue as TaskQueue describes: every
\* step of the module is a step of each queue, or leaves it alone.
THEOREM UsesQueues == Spec => UsesTaskQueues
  BY InitQueues, StepQueues, Invariance, PTL DEF Spec, UsesTaskQueues, M!Spec, D!Spec

\* So each of them gives the module what SerialExecutor promises: its tasks run
\* one at a time and in the order in which they were queued, none is skipped,
\* and none runs after the poison.
THEOREM SerialQueues == Spec => MQ!Abstract!Safety /\ DQ!Abstract!Safety
  <1>1. MQ!Spec => MQ!Abstract!Safety
    BY MihfQueueCallers, MQ!Refinement, Zenon
  <1>2. DQ!Spec => DQ!Abstract!Safety
    BY DispatchQueueCallers, DQ!Refinement, Zenon
  <1> QED BY <1>1, <1>2, MihfQueueInit, MihfQueueNext, DispatchQueueInit,
             DispatchQueueNext, UsesQueues, PTL
          DEF UsesTaskQueues, M!Spec, MQ!Spec, D!Spec, DQ!Spec

\* The module keeps its types: the positions of its threads, the datagrams and
\* link events they pass on, and the state of both queues.
THEOREM TypeCorrect == Spec => []TypeOK
  BY Invariance, Implied, PTL

\* Each request that handle_message has handled is answered once, in the order
\* of mihf_queue, and nothing else is (proto.c 243-251), although the answer
\* passes through a second queue with a thread of its own.
THEOREM AnswersOnce == Spec => []AckExactlyOnce
  BY Invariance, Implied, PTL

\* What is allocated is at all times what a thread, a handler or mod_End will
\* free and the leaks of net_hand.c and mih_mod.c that Leaked names; when the
\* module is gone it is only these, whatever failed before.
THEOREM HeapAccounted == Spec => []HeapAccounting
  BY Invariance, Implied, PTL

\* kthread_stop meets a thread that has returned only after UdpSockInit or a
\* kthread_run of mod_Start failed.
THEOREM StopsOnlyLive == Spec => []StopsLiveThreads
  BY Invariance, Implied, PTL

\* When mod_End returns no thread of the module runs, unless the socket that is
\* to wake the receiver could not be created (mih_mod.c 207-213).
THEOREM ThreadsStop == Spec => []("wakeup_socket" \notin failed => UnloadStopsThreads)
  BY Invariance, Implied, PTL

\* On the same condition every request that was queued has been answered when
\* mod_End returns, and nothing but late link events is left on the queues.
THEOREM PipelineDrains == Spec => []("wakeup_socket" \notin failed => PipelineDrained)
  BY Invariance, Implied, PTL
=============================================================================
