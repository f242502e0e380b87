---------------------------- MODULE MihTaskProofs ----------------------------
(***************************************************************************)
(* Lemmas about the kernel module: its tasks, how it calls mihf_queue,     *)
(* which threads run, and where each task is.                              *)
(***************************************************************************)
EXTENDS MihModule, TLAPS

-----------------------------------------------------------------------------
(* Tasks                                                                   *)

\* What the assumptions on ids and kinds give: the tasks of mihf_queue are told
\* apart by their ids, and none is both a datagram and a link event.
LEMMA TaskFacts ==
  /\ Wakeup \notin Datagram /\ Wakeup \notin LinkEvent
  /\ Poison \notin MihfTask /\ Poison \notin Datagram /\ Poison # Wakeup
  /\ Poison \notin LinkEvent /\ Datagram \cap LinkEvent = {}
  /\ \A x \in Datagram \cup {Wakeup} : x.kind \in DatagramKind /\ ~IsLink(x)
  /\ \A x \in LinkEvent : IsLink(x) /\ x.kind \notin DatagramKind
  /\ \A x \in MihfTask : WantsAck(x) => x \in Datagram
  <1>1. Wakeup.id = 0 /\ Wakeup.kind = "garbage"
    BY DEF Wakeup
  <1>2. DatagramKind \cap LinkKind = {} /\ "garbage" \in DatagramKind
    BY DEF DatagramKind, LinkKind
  <1>3. Wakeup \notin Datagram /\ Wakeup \notin LinkEvent
    BY <1>1, DatagramAssumption, LinkEventAssumption
  <1>4. \A x \in Datagram \cup {Wakeup} : x.kind \in DatagramKind /\ ~IsLink(x)
    BY <1>1, <1>2, DatagramAssumption DEF IsLink
  <1>5. \A x \in LinkEvent : IsLink(x) /\ x.kind \notin DatagramKind
    BY <1>2, LinkEventAssumption DEF IsLink
  <1>6. \A x \in MihfTask : WantsAck(x) => x \in Datagram
    <2>1. "ackreq" \notin LinkKind /\ "ackreq" # "garbage"
      BY DEF LinkKind
    <2> QED BY <1>1, <1>5, <2>1 DEF MihfTask, WantsAck, IsLink
  <1> QED BY <1>3, <1>4, <1>5, <1>6, PoisonAssumption DEF MihfTask

\* Tasks are told apart by their ids.
LEMMA IdsDiffer ==
  ASSUME NEW x \in MihfTask, NEW y \in MihfTask, x.id = y.id
  PROVE  x = y
  <1>1. Wakeup.id = 0
    BY DEF Wakeup
  <1> QED BY <1>1, DatagramAssumption, LinkEventAssumption, IdAssumption DEF MihfTask

\* The threads that call queue_task can be listed: mihf_queue has three callers,
\* dispatch_queue two.
LEMMA CallersListed ==
  /\ /\ <<"udp", "netdev", "loader">> \in Seq({"udp", "netdev", "loader"})
     /\ Len(<<"udp", "netdev", "loader">>) = 3
     /\ \A c \in {"udp", "netdev", "loader"} :
          \E k \in 1..3 : <<"udp", "netdev", "loader">>[k] = c
  /\ /\ <<"mihf", "loader">> \in Seq({"mihf", "loader"})
     /\ Len(<<"mihf", "loader">>) = 2
     /\ \A c \in {"mihf", "loader"} : \E k \in 1..2 : <<"mihf", "loader">>[k] = c
  OBVIOUS

\* The types of mihf_queue, spelled out.
LEMMA MTypes ==
  ASSUME M!IInv
  PROVE  /\ m_list \in Seq(MihfTask \cup {Poison})
         /\ m_queued \in Seq(MihfTask \cup {Poison})
         /\ m_ran \in Seq(MihfTask)
         /\ m_task \in MihfTask \cup {Poison}
         /\ m_call \in [{"udp", "netdev", "loader"} -> M!CallPC]
         /\ m_exec = "run" => m_task \in MihfTask
  BY DEF M!IInv, M!TypeOK, M!Entry, M!PoisonOnce

\* The types of dispatch_queue, spelled out.
LEMMA DTypes ==
  ASSUME D!IInv
  PROVE  /\ d_list \in Seq(Datagram \cup {Poison})
         /\ d_queued \in Seq(Datagram \cup {Poison})
         /\ d_ran \in Seq(Datagram)
         /\ d_task \in Datagram \cup {Poison}
         /\ d_call \in [{"mihf", "loader"} -> D!CallPC]
         /\ d_exec = "run" => d_task \in Datagram
  BY DEF D!IInv, D!TypeOK, D!Entry, D!PoisonOnce

-----------------------------------------------------------------------------
(* Sequences of tasks                                                      *)

\* What UdpHandler may receive, and what mihf_queue may hold.
Received == Datagram \cup {Wakeup}

Entries == MihfTask \cup {Poison}

\* list_add_tail adds its entry to the entries of a queue.
LEMMA RangeAppend ==
  ASSUME NEW S, NEW s \in Seq(S), NEW x \in S
  PROVE  Range(Append(s, x)) = Range(s) \cup {x}
  <1>1. /\ Len(Append(s, x)) = Len(s) + 1 /\ Len(s) \in Nat
        /\ \A i \in 1..Len(s) : Append(s, x)[i] = s[i]
        /\ Append(s, x)[Len(s) + 1] = x
        /\ DOMAIN Append(s, x) = 1..(Len(s) + 1) /\ DOMAIN s = 1..Len(s)
    OBVIOUS
  <1>2. \A y \in Range(Append(s, x)) : y \in Range(s) \cup {x}
    BY <1>1 DEF Range
  <1>3. \A y \in Range(s) \cup {x} : y \in Range(Append(s, x))
    BY <1>1 DEF Range
  <1> QED BY <1>2, <1>3

\* Unlinking the first entry removes it from the entries of a queue.
LEMMA RangeTail ==
  ASSUME NEW S, NEW s \in Seq(S), s # << >>
  PROVE  /\ Range(s) = Range(Tail(s)) \cup {Head(s)}
         /\ Tail(s) \in Seq(S) /\ Head(s) \in S
  <1>1. /\ Len(Tail(s)) = Len(s) - 1 /\ Len(s) \in Nat \ {0}
        /\ \A i \in 1..Len(Tail(s)) : Tail(s)[i] = s[i + 1]
        /\ Head(s) = s[1] /\ Tail(s) \in Seq(S) /\ Head(s) \in S
        /\ DOMAIN s = 1..Len(s) /\ DOMAIN Tail(s) = 1..Len(Tail(s))
    OBVIOUS
  <1>2. ASSUME NEW y \in Range(s) PROVE y \in Range(Tail(s)) \cup {Head(s)}
    <2>1. PICK i \in 1..Len(s) : y = s[i]
      BY <1>1 DEF Range
    <2>2. i = 1 \/ (i - 1 \in DOMAIN Tail(s) /\ Tail(s)[i - 1] = s[i])
      BY <1>1
    <2> QED BY <1>1, <2>1, <2>2, Zenon DEF Range
  <1>3. ASSUME NEW y \in Range(Tail(s)) \cup {Head(s)} PROVE y \in Range(s)
    <2>1. 1 \in DOMAIN s /\ \A i \in DOMAIN Tail(s) : i + 1 \in DOMAIN s
      BY <1>1
    <2> QED BY <1>1, <2>1 DEF Range
  <1> QED BY <1>1, <1>2, <1>3

\* The entries of a typed sequence have its type.
LEMMA RangeType ==
  ASSUME NEW S, NEW s \in Seq(S)
  PROVE  Range(s) \subseteq S /\ \A i \in 1..Len(s) : s[i] \in Range(s)
  BY DEF Range

\* Appending a task that is not there yet keeps every task unique.
LEMMA OnceAppend ==
  ASSUME NEW S, NEW s \in Seq(S), NEW x \in S, Once(s), x = Poison \/ x \notin Range(s)
  PROVE  Once(Append(s, x))
  <1>1. /\ Len(Append(s, x)) = Len(s) + 1 /\ Len(s) \in Nat
        /\ \A i \in 1..Len(s) : Append(s, x)[i] = s[i]
        /\ Append(s, x)[Len(s) + 1] = x
    OBVIOUS
  <1>2. \A i \in 1..Len(s) : s[i] # x \/ x = Poison
    BY RangeType
  <1>3. \A i \in 1..(Len(s) + 1) : i \in 1..Len(s) \/ i = Len(s) + 1
    BY <1>1
  <1> QED BY <1>1, <1>2, <1>3 DEF Once

\* Taking the first task from a sequence leaves the others, once each.
LEMMA OnceTail ==
  ASSUME NEW S, NEW s \in Seq(S), s # << >>, Once(s)
  PROVE  /\ Once(Tail(s))
         /\ Head(s) # Poison => Head(s) \notin Range(Tail(s))
  <1>1. /\ Len(Tail(s)) = Len(s) - 1 /\ Len(s) \in Nat \ {0}
        /\ \A i \in 1..Len(Tail(s)) : Tail(s)[i] = s[i + 1] /\ i + 1 \in 1..Len(s)
        /\ Head(s) = s[1] /\ 1 \in 1..Len(s)
        /\ DOMAIN Tail(s) = 1..Len(Tail(s))
    OBVIOUS
  <1>2. Once(Tail(s))
    <2> SUFFICES ASSUME NEW i \in 1..Len(Tail(s)), NEW j \in 1..Len(Tail(s)),
                        Tail(s)[i] = Tail(s)[j], Tail(s)[i] # Poison
                 PROVE  i = j
      BY DEF Once
    <2>1. i + 1 = j + 1
      BY <1>1 DEF Once
    <2> QED BY <2>1
  <1>3. ASSUME Head(s) # Poison, Head(s) \in Range(Tail(s)) PROVE FALSE
    <2>1. PICK i \in 1..Len(Tail(s)) : Tail(s)[i] = Head(s)
      BY <1>1, <1>3 DEF Range
    <2>2. i + 1 = 1
      BY <1>1, <1>3, <2>1 DEF Once
    <2> QED BY <2>2
  <1> QED BY <1>2, <1>3

\* An empty receive buffer.
LEMMA EmptyOnce == Once(<< >>) /\ Range(<< >>) = {}
  BY DEF Once, Range

\* A queue's entries are unlinked in order, for any sequences: list is what is
\* left of queued after the entries that ran and the one that is running.
Fifo(list, exec, task, queued, ran, poison) ==
  LET taken == Len(queued) - Len(list) IN
  /\ \A i \in 1..Len(list) : taken + i \in 1..Len(queued) /\ list[i] = queued[taken + i]
  /\ \A i \in 1..Len(ran) : i <= taken /\ ran[i] = queued[i]
  /\ exec = "run" => taken = Len(ran) + 1 /\ task = queued[taken]
  /\ exec \in {"poisoned", "exited"} => taken = Len(ran) + 1 /\ queued[taken] = poison
  /\ exec \notin {"run", "poisoned", "exited"} => taken = Len(ran)

LEMMA MFifo == M!IInv => Fifo(m_list, m_exec, m_task, m_queued, m_ran, Poison)
  BY DEF M!IInv, M!FifoOrder, M!Taken, Fifo
LEMMA DFifo == D!IInv => Fifo(d_list, d_exec, d_task, d_queued, d_ran, Poison)
  BY DEF D!IInv, D!FifoOrder, D!Taken, Fifo

\* Everything that runs, has run or is linked was queued; what runs has not run
\* before and is not linked any more, if it was queued once.
LEMMA FifoFacts ==
  ASSUME NEW S, NEW T, NEW list \in Seq(S), NEW queued \in Seq(S), NEW ran \in Seq(T),
         NEW exec, NEW task,
         Fifo(list, exec, task, queued, ran, Poison), Once(queued)
  PROVE  /\ Range(list) \subseteq Range(queued) /\ Range(ran) \subseteq Range(queued)
         /\ exec = "run" /\ task # Poison =>
              /\ task \in Range(queued) /\ task \notin Range(ran) /\ task \notin Range(list)
  <1> DEFINE taken == Len(queued) - Len(list)
  <1>0. /\ Len(list) \in Nat /\ Len(queued) \in Nat /\ Len(ran) \in Nat
        /\ DOMAIN list = 1..Len(list) /\ DOMAIN queued = 1..Len(queued)
        /\ DOMAIN ran = 1..Len(ran) /\ taken \in Int
        /\ Len(queued) = taken + Len(list)
    OBVIOUS
  <1>1. /\ \A i \in 1..Len(list) : taken + i \in 1..Len(queued) /\ list[i] = queued[taken + i]
        /\ \A i \in 1..Len(ran) : i <= taken /\ ran[i] = queued[i]
        /\ exec = "run" => taken = Len(ran) + 1 /\ task = queued[taken]
    BY DEF Fifo
  <1> HIDE DEF taken
  <1>2. Range(list) \subseteq Range(queued)
    BY <1>0, <1>1 DEF Range
  <1>3. \A i \in 1..Len(ran) : i \in 1..Len(queued)
    BY <1>0, <1>1
  <1>4. Range(ran) \subseteq Range(queued)
    BY <1>0, <1>1, <1>3 DEF Range
  <1>5. ASSUME exec = "run", task # Poison
        PROVE  task \in Range(queued) /\ task \notin Range(ran) /\ task \notin Range(list)
    <2>1. taken \in 1..Len(queued) /\ task = queued[taken] /\ taken = Len(ran) + 1
      BY <1>0, <1>1, <1>5
    <2>2. \A i \in 1..Len(ran) : ran[i] # task
      BY <1>0, <1>1, <1>3, <1>5, <2>1 DEF Once
    <2>3. ASSUME NEW i \in 1..Len(list), list[i] = task PROVE FALSE
      <3>1. taken + i \in 1..Len(queued) /\ queued[taken + i] = task
        BY <1>1, <2>3
      <3>2. taken + i = taken
        BY <1>5, <2>1, <3>1 DEF Once
      <3> QED BY <1>0, <3>2
    <2> QED BY <1>0, <2>1, <2>2, <2>3 DEF Range
  <1> QED BY <1>2, <1>4, <1>5

\* Appending to the second sequence a task that is not in the first.
LEMMA OrderAppendRight ==
  ASSUME NEW S, NEW T, NEW s \in Seq(S), NEW t \in Seq(T), NEW x \in T,
         SameOrder(s, t), x = Poison \/ x \notin Range(s)
  PROVE  SameOrder(s, Append(t, x))
  <1>1. /\ Len(Append(t, x)) = Len(t) + 1 /\ Len(t) \in Nat
        /\ \A i \in 1..Len(t) : Append(t, x)[i] = t[i]
        /\ Append(t, x)[Len(t) + 1] = x
    OBVIOUS
  <1>2. \A i \in 1..Len(s) : s[i] # x \/ x = Poison
    BY RangeType
  <1>3. \A i \in 1..(Len(t) + 1) : i \in 1..Len(t) \/ i = Len(t) + 1
    BY <1>1
  <1> QED BY <1>1, <1>2, <1>3 DEF SameOrder

\* Appending to the first sequence the poison, or a task that comes later in
\* the second than all the tasks of the first.
LEMMA OrderAppendLeft ==
  ASSUME NEW S, NEW T, NEW s \in Seq(S), NEW t \in Seq(T), NEW x \in S,
         SameOrder(s, t), Once(t),
         \/ x = Poison
         \/ \E l \in 1..Len(t) :
              /\ t[l] = x
              /\ \A i \in 1..Len(s) :
                   s[i] # Poison => \E k \in 1..Len(t) : k < l /\ t[k] = s[i]
  PROVE  SameOrder(Append(s, x), t)
  <1>1. /\ Len(Append(s, x)) = Len(s) + 1 /\ Len(s) \in Nat
        /\ \A i \in 1..Len(s) : Append(s, x)[i] = s[i]
        /\ Append(s, x)[Len(s) + 1] = x
    OBVIOUS
  <1> SUFFICES ASSUME NEW i \in 1..Len(Append(s, x)), NEW j \in 1..Len(Append(s, x)),
                      NEW k \in 1..Len(t), NEW l \in 1..Len(t),
                      i < j, Append(s, x)[i] = t[k], Append(s, x)[j] = t[l],
                      t[k] # Poison, t[l] # Poison
               PROVE  k < l
    BY Zenon DEF SameOrder
  <1>2. i \in 1..Len(s) /\ (j \in 1..Len(s) \/ j = Len(s) + 1)
    BY <1>1
  <1>3. CASE j \in 1..Len(s)
    BY <1>1, <1>2, <1>3 DEF SameOrder
  <1>4. CASE j = Len(s) + 1
    <2>1. x = t[l] /\ x # Poison /\ s[i] = t[k]
      BY <1>1, <1>2, <1>4
    <2>2. PICK m \in 1..Len(t) :
             /\ t[m] = x
             /\ \A a \in 1..Len(s) :
                  s[a] # Poison => \E b \in 1..Len(t) : b < m /\ t[b] = s[a]
      BY <2>1
    <2>3. PICK b \in 1..Len(t) : b < m /\ t[b] = s[i]
      BY <1>2, <2>1, <2>2
    <2>4. b = k /\ m = l
      BY <2>1, <2>2, <2>3 DEF Once
    <2> QED BY <2>3, <2>4
  <1> QED BY <1>2, <1>3, <1>4

-----------------------------------------------------------------------------
(* Steps                                                                   *)

\* The steps of the loader, of the receiver and of the environment that leave
\* both queues alone.
QuietStep ==
  \/ RegisterNetdev \/ RegisterInetaddr \/ RunThreads \/ BeginStop \/ KillNetHand
  \/ StopThreads \/ Unregister
  \/ UdpStart \/ UdpCheck \/ UdpRecv \/ UdpExit \/ UdpRecvError
  \/ DevMon \/ Arrive \/ UNCHANGED vars

\* A step is quiet or a step of a queue's caller or executor.
LEMMA StepCases ==
  ASSUME [Next]_vars
  PROVE  \/ QuietStep
         \/ UdpQueue \/ NetDevNotifier \/ StopMihf
         \/ HandleMessage \/ LinkIndication \/ MihfExecutor
         \/ Acknowledge \/ StopDispatch
         \/ HandleUdpReply \/ DispatchExecutor
  BY Zenon DEF Next, LoaderNext, UdpNext, QuietStep

\* What the steps of the loader, of the receiver and of the environment keep.
LEMMA QuietFrame ==
  ASSUME QuietStep
  PROVE  /\ UNCHANGED mvars /\ UNCHANGED dvars /\ UNCHANGED <<ackpc, sent>>
         /\ failed \subseteq failed'
  <1> DEFINE G == /\ UNCHANGED mvars /\ UNCHANGED dvars /\ UNCHANGED <<ackpc, sent>>
                  /\ failed \subseteq failed'
  <1>1. CASE RegisterNetdev \/ RegisterInetaddr
    BY <1>1 DEF RegisterNetdev, RegisterInetaddr, Fails, evars
  <1>2. CASE RunThreads
    <2>1. UNCHANGED mvars /\ UNCHANGED dvars /\ UNCHANGED <<ackpc, evars>>
      BY <1>2, Zenon DEF RunThreads, KthreadRun
    <2>2. failed \subseteq failed'
      BY <1>2 DEF RunThreads, KthreadRun, Fails
    <2> QED BY <2>1, <2>2 DEF evars
  <1>3. CASE BeginStop \/ KillNetHand
    BY <1>3 DEF BeginStop, KillNetHand, Fails, evars
  <1>4. CASE StopThreads \/ Unregister
    BY <1>4, Zenon DEF StopThreads, KthreadStop, KthreadJoin, Unregister, evars
  <1>5. CASE UdpStart \/ UdpCheck \/ UdpRecv
    BY <1>5 DEF UdpStart, UdpCheck, UdpRecv, Fails, lvars, evars
  <1>6. CASE UdpExit \/ UdpRecvError \/ DevMon \/ Arrive \/ UNCHANGED vars
    BY <1>6 DEF UdpExit, UdpRecvError, DevMon, Arrive, vars, Fails, lvars, evars
  <1> QED BY <1>1, <1>2, <1>3, <1>4, <1>5, <1>6, Zenon DEF QuietStep

\* Only the callers of queue_task on mihf_queue extend it or move their calls.
LEMMA MihfCallFrame ==
  ASSUME [Next]_vars, ~(UdpQueue \/ NetDevNotifier \/ StopMihf)
  PROVE  UNCHANGED <<m_queued, m_call>> /\ failed \subseteq failed'
  <1>1. CASE HandleMessage \/ LinkIndication \/ MihfExecutor
    BY <1>1, Zenon DEF HandleMessage, LinkIndication, MihfExecutor, lvars, M!Finish, M!Start,
       M!Down, M!Take, M!TakePoison, M!Exit
  <1>2. CASE Acknowledge \/ StopDispatch \/ HandleUdpReply \/ DispatchExecutor
    BY <1>2 DEF Acknowledge, StopDispatch, HandleUdpReply, DispatchExecutor, lvars, mvars, Fails
  <1>3. CASE QuietStep
    BY <1>3, QuietFrame DEF mvars
  <1> QED BY <1>1, <1>2, <1>3, StepCases, Zenon

\* Only Acknowledge and stop_executor extend dispatch_queue or move their calls.
LEMMA DispatchCallFrame ==
  ASSUME [Next]_vars, ~(Acknowledge \/ StopDispatch)
  PROVE  UNCHANGED <<d_queued, d_call>>
  <1>1. CASE HandleUdpReply \/ DispatchExecutor
    BY <1>1, Zenon DEF HandleUdpReply, DispatchExecutor, D!Finish, D!Start, D!Down, D!Take,
       D!TakePoison, D!Exit
  <1>2. CASE \/ UdpQueue \/ NetDevNotifier \/ StopMihf
             \/ HandleMessage \/ LinkIndication \/ MihfExecutor
    BY <1>2, Zenon DEF UdpQueue, NetDevNotifier, StopMihf, HandleMessage, LinkIndication,
       MihfExecutor, dvars
  <1>3. CASE QuietStep
    BY <1>3, QuietFrame DEF dvars
  <1> QED BY <1>1, <1>2, <1>3, StepCases, Zenon

-----------------------------------------------------------------------------
(* mihf_queue                                                              *)

\* UdpHandler never queues a task twice.
LEMMA UdpFresh ==
  ASSUME IInv, udp = "queue", m_call["udp"] # "up"
  PROVE  udp_msg \in M!Arg("udp")
  <1>1. udp_msg \in UdpHolds
    BY DEF UdpHolds
  <1>2. udp_msg \notin Range(m_queued)
    BY <1>1 DEF IInv, TasksPlaced
  <1>3. udp_msg \in MihfTask
    BY DEF IInv, TypeOK, MihfTask
  <1> QED BY <1>2, <1>3 DEF M!Arg, Range

\* NetDevNotifier queues an event once.
LEMMA EventFresh ==
  ASSUME IInv, NEW e \in LinkEvent \ arrived
  PROVE  e \in M!Arg("netdev")
  <1>1. e \in MihfTask /\ e # Wakeup /\ e # Poison
    BY TaskFacts DEF MihfTask
  <1>2. e \notin Range(m_queued)
    BY <1>1 DEF IInv, TasksPlaced
  <1> QED BY <1>1, <1>2 DEF M!Arg, Range

\* Each step of the module is a step of mihf_queue or leaves it alone.
LEMMA MihfQueueStep ==
  ASSUME IInv, [Next]_vars
  PROVE  [M!Next]_(M!vars)
  <1>a. ASSUME UNCHANGED mvars PROVE [M!Next]_(M!vars)
    BY <1>a DEF mvars, M!vars
  <1>b. ASSUME NEW c \in {"udp", "netdev", "loader"}, M!CallerNext(c) PROVE M!Next
    BY <1>b DEF M!Next
  <1>1. CASE UdpQueue
    <2>1. CASE M!Lock("udp")
      <3>1. m_call["udp"] # "up" /\ udp = "queue"
        BY <1>1, <2>1 DEF M!Lock, UdpQueue
      <3>2. M!CallerNext("udp")
        BY <2>1, <3>1, UdpFresh DEF M!CallerNext
      <3> QED BY <1>b, <3>2
    <2>2. CASE M!Add("udp", udp_msg)
      <3>1. m_call["udp"] # "up" /\ udp = "queue"
        BY <1>1, <2>2 DEF M!Add, UdpQueue
      <3>2. M!CallerNext("udp")
        BY <2>2, <3>1, UdpFresh DEF M!CallerNext
      <3> QED BY <1>b, <3>2
    <2>3. CASE M!Up("udp")
      BY <2>3, <1>b DEF M!CallerNext
    <2> QED BY <1>1, <2>1, <2>2, <2>3 DEF UdpQueue
  <1>2. CASE NetDevNotifier
    <2>1. CASE M!Lock("netdev") /\ LinkEvent \ arrived # {}
      <3>1. PICK e \in LinkEvent \ arrived : TRUE
        BY <2>1
      <3>2. M!CallerNext("netdev")
        BY <2>1, <3>1, EventFresh DEF M!CallerNext
      <3> QED BY <1>b, <3>2
    <2>2. ASSUME NEW e \in LinkEvent \ arrived, M!Add("netdev", e) PROVE M!Next
      <3>1. M!CallerNext("netdev")
        BY <2>2, EventFresh DEF M!CallerNext
      <3> QED BY <1>b, <3>1
    <2>3. CASE M!Up("netdev")
      BY <2>3, <1>b DEF M!CallerNext
    <2> QED BY <1>2, <2>1, <2>2, <2>3 DEF NetDevNotifier
  <1>3. CASE StopMihf
    <2>1. CASE M!Lock("loader") \/ M!Add("loader", Poison) \/ M!Up("loader")
      <3>1. M!Arg("loader") = {Poison}
        BY DEF M!Arg
      <3>2. M!CallerNext("loader")
        BY <2>1, <3>1 DEF M!CallerNext
      <3> QED BY <1>b, <3>2
    <2>2. CASE M!KthreadStop \/ M!Join
      BY <2>2 DEF M!Next, M!StopperNext
    <2> QED BY <1>3, <1>a, <2>1, <2>2 DEF StopMihf
  <1>4. CASE HandleMessage \/ LinkIndication
    BY <1>4 DEF HandleMessage, LinkIndication, M!Next, M!ExecNext
  <1>5. CASE MihfExecutor
    BY <1>5 DEF MihfExecutor, M!Next, M!ExecNext
  <1>6. CASE QuietStep \/ Acknowledge \/ StopDispatch \/ HandleUdpReply \/ DispatchExecutor
    BY <1>6, <1>a, QuietFrame, Zenon
       DEF StopDispatch, Acknowledge, HandleUdpReply, DispatchExecutor
  <1> QED BY <1>1, <1>2, <1>3, <1>4, <1>5, <1>6, StepCases, Zenon

-----------------------------------------------------------------------------
(* Types                                                                   *)

\* The variables of the module by the kind of their values.
PcType ==
  /\ loader \in {"start", "refused", "inetaddr", "run_udp", "run_dev", "run_mihf",
                 "run_dispatch", "kthread_failure", "loaded", "wake", "stop_udp",
                 "join_udp", "stop_dev", "join_dev", "stop_mihf", "stop_dispatch",
                 "unregister", "unloaded", "undefined"}
  /\ udp \in {"none", "created", "check", "recv", "queue", "drain", "exited"}
  /\ dev \in {"none", "running", "exited"}
  /\ ackpc \in {"todo", "queueing", "done"}

\* Every step leaves every thread at a line of its code.
LEMMA PcTypeStep ==
  ASSUME PcType, [Next]_vars
  PROVE  PcType'
  <1> USE DEF PcType, lvars, uvars
  <1>1. CASE RegisterNetdev \/ RegisterInetaddr \/ BeginStop \/ KillNetHand
    BY <1>1 DEF RegisterNetdev, RegisterInetaddr, BeginStop, KillNetHand
  <1>2. CASE RunThreads
    BY <1>2, Zenon DEF RunThreads, KthreadRun
  <1>3. CASE StopThreads \/ StopMihf \/ StopDispatch \/ Unregister
    BY <1>3, Zenon DEF StopThreads, KthreadStop, KthreadJoin, StopMihf, StopDispatch, Unregister
  <1>4. CASE UdpNext \/ UdpRecvError
    BY <1>4 DEF UdpNext, UdpStart, UdpCheck, UdpRecv, UdpQueue, UdpExit, UdpRecvError
  <1>5. CASE NetDevNotifier \/ DevMon \/ Arrive
    BY <1>5 DEF NetDevNotifier, DevMon, Arrive
  <1>6. CASE Acknowledge \/ HandleMessage \/ LinkIndication \/ MihfExecutor
    BY <1>6 DEF Acknowledge, HandleMessage, LinkIndication, MihfExecutor
  <1>7. CASE HandleUdpReply \/ DispatchExecutor \/ UNCHANGED vars
    BY <1>7, Zenon DEF HandleUdpReply, DispatchExecutor, vars
  <1> QED BY <1>1, <1>2, <1>3, <1>4, <1>5, <1>6, <1>7, Zenon DEF Next, LoaderNext

SetType ==
  /\ kt \subseteq {"udp", "dev", "mihf", "dispatch"}
  /\ stop \subseteq {"udp", "dev"}
  /\ arrived \subseteq Datagram \cup LinkEvent
  /\ failed \subseteq Faults

\* Threads, tasks and faults are those that exist.
LEMMA SetTypeStep ==
  ASSUME SetType, [Next]_vars
  PROVE  SetType'
  <1> USE DEF SetType, Fails, lvars, evars
  <1>1. CASE LoaderNext
    BY <1>1, Zenon DEF LoaderNext, RegisterNetdev, RegisterInetaddr, RunThreads, KthreadRun,
       BeginStop, KillNetHand, StopThreads, KthreadStop, KthreadJoin, StopMihf,
       StopDispatch, Unregister
  <1>2. CASE UdpNext \/ UdpRecvError
    BY <1>2, Zenon DEF UdpNext, UdpStart, UdpCheck, UdpRecv, UdpQueue, UdpExit, UdpRecvError
  <1>3. CASE ~LoaderNext /\ ~(UdpNext \/ UdpRecvError)
    BY <1>3, Zenon DEF Next, NetDevNotifier, DevMon, Arrive, Acknowledge, HandleMessage,
       LinkIndication, MihfExecutor, HandleUdpReply, DispatchExecutor, vars
  <1> QED BY <1>1, <1>2, <1>3

SeqType ==
  /\ udp_msg \in Datagram \cup {Wakeup}
  /\ net \in Seq(Datagram \cup {Wakeup})
  /\ sent \in Seq(Datagram)

\* Only datagrams are received and answered.
LEMMA SeqTypeStep ==
  ASSUME SeqType, d_exec = "run" => d_task \in Datagram, [Next]_vars
  PROVE  SeqType'
  <1> USE DEF SeqType, uvars, evars
  <1>1. CASE LoaderNext
    <2>1. Append(net, Wakeup) \in Seq(Datagram \cup {Wakeup})
      OBVIOUS
    <2> QED BY <1>1, <2>1, Zenon DEF LoaderNext, RegisterNetdev, RegisterInetaddr, RunThreads,
       KthreadRun, BeginStop, KillNetHand, SendWakeup, StopThreads, KthreadStop,
       KthreadJoin, StopMihf, StopDispatch, Unregister
  <1>2. CASE UdpNext \/ UdpRecvError
    <2>1. << >> \in Seq(Datagram \cup {Wakeup})
      OBVIOUS
    <2>2. net # << >> => /\ Head(net) \in Datagram \cup {Wakeup}
                        /\ Tail(net) \in Seq(Datagram \cup {Wakeup})
      OBVIOUS
    <2>3. Wakeup \in Datagram \cup {Wakeup}
      OBVIOUS
    <2> QED BY <1>2, <2>1, <2>2, <2>3, Zenon DEF UdpNext, UdpStart, UdpCheck, UdpRecv, UdpQueue,
       UdpExit, UdpRecvError
  <1>3. CASE ~LoaderNext /\ ~(UdpNext \/ UdpRecvError)
    <2>1. \A d \in Datagram : Append(net, d) \in Seq(Datagram \cup {Wakeup})
      OBVIOUS
    <2>2. \A d \in Datagram : Append(sent, d) \in Seq(Datagram)
      OBVIOUS
    <2> QED BY <1>3, <2>1, <2>2, Zenon DEF Next, NetDevNotifier, DevMon, Arrive, Acknowledge,
       HandleMessage, LinkIndication, MihfExecutor, HandleUdpReply, DispatchExecutor, vars
  <1> QED BY <1>1, <1>2, <1>3

\* The flags of mod_Start and mod_End.
LEMMA FlagTypeStep ==
  ASSUME unloading \in BOOLEAN, flag \in BOOLEAN, netdev \in BOOLEAN, [Next]_vars
  PROVE  unloading' \in BOOLEAN /\ flag' \in BOOLEAN /\ netdev' \in BOOLEAN
  <1>1. CASE LoaderNext
    BY <1>1, Zenon DEF LoaderNext, RegisterNetdev, RegisterInetaddr, RunThreads, KthreadRun,
       BeginStop, KillNetHand, StopThreads, KthreadStop, KthreadJoin, StopMihf,
       StopDispatch, Unregister
  <1>2. CASE UdpNext \/ UdpRecvError
    BY <1>2, Zenon DEF UdpNext, UdpStart, UdpCheck, UdpRecv, UdpQueue, UdpExit, UdpRecvError,
       lvars
  <1>3. CASE ~LoaderNext /\ ~(UdpNext \/ UdpRecvError)
    BY <1>3, Zenon DEF Next, NetDevNotifier, DevMon, Arrive, Acknowledge, HandleMessage,
       LinkIndication, MihfExecutor, HandleUdpReply, DispatchExecutor, vars, lvars
  <1> QED BY <1>1, <1>2, <1>3

\* TypeOK is preserved, given that the two queues keep their types.
LEMMA TypeOKStep ==
  ASSUME TypeOK, D!IInv, M!TypeOK', D!TypeOK', [Next]_vars
  PROVE  TypeOK'
  <1>1. PcType' /\ SetType'
    BY PcTypeStep, SetTypeStep DEF TypeOK, PcType, SetType
  <1>2. SeqType'
    BY DTypes, SeqTypeStep DEF TypeOK, SeqType
  <1>3. unloading' \in BOOLEAN /\ flag' \in BOOLEAN /\ netdev' \in BOOLEAN
    BY FlagTypeStep DEF TypeOK
  <1> QED BY <1>1, <1>2, <1>3, Zenon DEF TypeOK, PcType, SetType, SeqType

-----------------------------------------------------------------------------
(* Threads                                                                 *)

\* What the stop sequences of mod_End and mod_Start maintain, and the faults
\* that it depends on.
Threads == StopOrder /\ StopOnce /\ StopsLiveThreads

Relevant == {"wakeup_socket", "udp_init", "kthread"}

\* What Threads depends on.
ThreadsFrame ==
  /\ UNCHANGED <<loader, unloading, kt, stop, udp, dev>>
  /\ failed' \cap Relevant = failed \cap Relevant
  /\ m_call'["loader"] = m_call["loader"]
  /\ d_call'["loader"] = d_call["loader"]

\* Steps of the other threads keep it.
LEMMA ThreadsFrameKeeps ==
  ASSUME Threads, ThreadsFrame
  PROVE  Threads'
  <1>1. \A f \in Relevant : f \in failed' <=> f \in failed
    BY DEF ThreadsFrame
  <1> QED BY <1>1 DEF Threads, ThreadsFrame, StopOrder, StopOnce, StopsLiveThreads, Relevant

\* The threads are started and stopped in order, and no thread that was seen to
\* exit is stopped again, unless one of the faults named in StopOnce happened.
LEMMA ThreadsStep ==
  ASSUME TypeOK, Threads,
         m_call \in [{"udp", "netdev", "loader"} -> M!CallPC],
         d_call \in [{"mihf", "loader"} -> D!CallPC],
         [Next]_vars
  PROVE  Threads'
  <1>12. CASE NetDevNotifier
    <2>1. ThreadsFrame
      BY <1>12 DEF NetDevNotifier, M!Lock, M!Add, M!Up, Fails, mvars, dvars, lvars, uvars, ThreadsFrame
    <2> QED BY <2>1, ThreadsFrameKeeps, Zenon
  <1>14. CASE Arrive
    <2>1. ThreadsFrame
      BY <1>14, Zenon DEF Arrive, mvars, dvars, lvars, uvars, ThreadsFrame
    <2> QED BY <2>1, ThreadsFrameKeeps, Zenon
  <1>15. CASE Acknowledge
    <2>1. ThreadsFrame
      BY <1>15 DEF Acknowledge, D!Lock, D!Add, D!Up, Fails, mvars, dvars, lvars, uvars, ThreadsFrame
    <2> QED BY <2>1, ThreadsFrameKeeps, Zenon
  <1>16. CASE HandleMessage \/ LinkIndication \/ MihfExecutor
    <2>1. ThreadsFrame
      BY <1>16, Zenon DEF HandleMessage, LinkIndication, MihfExecutor, M!Finish,
         M!Start, M!Down, M!Take, M!TakePoison, M!Exit, Fails, mvars, dvars, lvars, uvars, ThreadsFrame
    <2> QED BY <2>1, ThreadsFrameKeeps, Zenon
  <1>17. CASE HandleUdpReply
    <2>1. ThreadsFrame
      BY <1>17 DEF HandleUdpReply, D!Finish, Fails, Relevant, mvars, dvars, lvars, uvars, ThreadsFrame
    <2> QED BY <2>1, ThreadsFrameKeeps, Zenon
  <1>18. CASE DispatchExecutor
    <2>1. ThreadsFrame
      BY <1>18, Zenon DEF DispatchExecutor, D!Start, D!Down, D!Take,
         D!TakePoison, D!Exit, mvars, dvars, lvars, uvars, ThreadsFrame
    <2> QED BY <2>1, ThreadsFrameKeeps, Zenon
  <1>19. CASE UNCHANGED vars
    <2>1. ThreadsFrame
      BY <1>19 DEF vars, mvars, dvars, lvars, uvars, ThreadsFrame
    <2> QED BY <2>1, ThreadsFrameKeeps, Zenon
  <1> USE DEF Threads, StopOrder, StopOnce, StopsLiveThreads, Fails, mvars, dvars, lvars, uvars
  <1>1. CASE RegisterNetdev
    BY <1>1 DEF RegisterNetdev
  <1>2. CASE RegisterInetaddr
    BY <1>2, Zenon DEF RegisterInetaddr
  <1>3. CASE RunThreads
    BY <1>3, Zenon DEF RunThreads, KthreadRun
  <1>4. CASE BeginStop
    BY <1>4, Zenon DEF BeginStop
  <1>5. CASE KillNetHand
    BY <1>5 DEF KillNetHand
  <1>6. CASE StopThreads
    <2>1. CASE KthreadStop("udp", udp, "stop_udp", "join_udp", "stop_dev")
      BY <2>1 DEF KthreadStop
    <2>2. CASE KthreadJoin(udp, "join_udp", "stop_dev")
      BY <2>2 DEF KthreadJoin
    <2>3. CASE KthreadStop("dev", dev, "stop_dev", "join_dev", "stop_mihf")
      BY <2>3 DEF KthreadStop
    <2>4. CASE KthreadJoin(dev, "join_dev", "stop_mihf")
      BY <2>4, Zenon DEF KthreadJoin
    <2> QED BY ONLY <1>6, <2>1, <2>2, <2>3, <2>4, Zenon DEF StopThreads
  <1>7. CASE StopMihf
    BY <1>7 DEF StopMihf, M!Lock, M!Add, M!Up, M!KthreadStop, M!Join
  <1>8. CASE StopDispatch
    BY <1>8 DEF StopDispatch, D!Lock, D!Add, D!Up, D!KthreadStop, D!Join
  <1>9. CASE Unregister
    BY <1>9 DEF Unregister
  <1>10. CASE UdpStart \/ UdpExit
    BY <1>10 DEF UdpStart, UdpExit
  <1>20. CASE UdpCheck \/ UdpRecv
    BY <1>20 DEF UdpCheck, UdpRecv
  <1>21. CASE UdpRecvError
    BY <1>21 DEF UdpRecvError
  <1>11. CASE UdpQueue
    BY <1>11 DEF UdpQueue, M!Lock, M!Add, M!Up
  <1>13. CASE DevMon
    BY <1>13 DEF DevMon
  <1> QED BY <1>1, <1>2, <1>3, <1>4, <1>5, <1>6, <1>7, <1>8, <1>9, <1>10, <1>11, <1>12,
             <1>13, <1>14, <1>15, <1>16, <1>17, <1>18, <1>19, <1>20, <1>21, Zenon
          DEF Next, LoaderNext, UdpNext

-----------------------------------------------------------------------------
(* Where a task is                                                         *)

\* TasksPlaced without where the threads are: what is in the buffer, with
\* UdpHandler and on the queue, as operator of these.
Placed(n, h, q, arr) ==
  /\ Once(n) /\ Once(q)
  /\ Range(n) \cap Range(q) = {}
  /\ h \cap (Range(n) \cup Range(q)) = {}
  /\ Range(n) \cup h \cup Range(q) \subseteq arr \cup {Wakeup, Poison}

OnItsWay(n, h, q) == Wakeup \in Range(n) \cup h \cup Range(q)

\* A datagram that is nowhere yet enters the receive buffer.
LEMMA PlacedDeliver ==
  ASSUME NEW n \in Seq(Received), NEW h, NEW q, NEW arr,
         NEW x \in Received,
         Placed(n, h, q, arr), x \notin Range(n) \cup h \cup Range(q), x \in arr \/ x = Wakeup
  PROVE  /\ Placed(Append(n, x), h, q, arr)
         /\ OnItsWay(Append(n, x), h, q) <=> OnItsWay(n, h, q) \/ x = Wakeup
  BY RangeAppend, OnceAppend DEF Placed, OnItsWay

\* UdpHandler takes the first datagram from the buffer.
LEMMA PlacedReceive ==
  ASSUME NEW n \in Seq(Received), NEW q, NEW arr, n # << >>,
         Placed(n, {}, q, arr)
  PROVE  /\ Placed(Tail(n), {Head(n)}, q, arr)
         /\ OnItsWay(Tail(n), {Head(n)}, q) <=> OnItsWay(n, {}, q)
  BY RangeTail, OnceTail, TaskFacts DEF Placed, OnItsWay, Received

\* UdpHandler queues what it holds.
LEMMA PlacedQueue ==
  ASSUME NEW q \in Seq(Entries), NEW n, NEW arr,
         NEW x \in Entries,
         Placed(n, {x}, q, arr)
  PROVE  /\ Placed(n, {}, Append(q, x), arr)
         /\ OnItsWay(n, {}, Append(q, x)) <=> OnItsWay(n, {x}, q)
  BY RangeAppend, OnceAppend DEF Placed, OnItsWay

\* The notifier or stop_executor queue an entry.
LEMMA PlacedNotify ==
  ASSUME NEW q \in Seq(Entries), NEW n, NEW h, NEW arr,
         NEW x \in Entries,
         Placed(n, h, q, arr), x \notin Range(n) \cup h, x = Poison \/ x \notin Range(q),
         x \in arr \/ x = Poison
  PROVE  /\ Placed(n, h, Append(q, x), arr)
         /\ OnItsWay(n, h, Append(q, x)) <=> OnItsWay(n, h, q) \/ x = Wakeup
  BY RangeAppend, OnceAppend DEF Placed, OnItsWay

\* Releasing the socket empties the buffer.
LEMMA PlacedRelease ==
  ASSUME NEW n, NEW h, NEW q, NEW arr, Placed(n, h, q, arr)
  PROVE  /\ Placed(<< >>, h, q, arr)
         /\ OnItsWay(<< >>, h, q) => OnItsWay(n, h, q)
  BY EmptyOnce DEF Placed, OnItsWay

\* TasksPlaced in these terms.
LEMMA PlacedDef ==
  TasksPlaced <=>
    /\ Placed(net, UdpHolds, m_queued, arrived)
    /\ OnItsWay(net, UdpHolds, m_queued) =>
         udp = "exited" \/ loader \in {"stop_udp", "join_udp"}
    /\ m_call["udp"] # "idle" => udp = "queue"
  BY DEF TasksPlaced, Placed, OnItsWay

\* The same in the next state.
LEMMA PlacedDefPrime ==
  TasksPlaced' <=>
    /\ Placed(net', UdpHolds', m_queued', arrived')
    /\ OnItsWay(net', UdpHolds', m_queued') =>
         udp' = "exited" \/ loader' \in {"stop_udp", "join_udp"}
    /\ m_call'["udp"] # "idle" => udp' = "queue"
  BY DEF TasksPlaced, Placed, OnItsWay

\* Who holds a datagram depends on two program counters only.
LEMMA HoldsCases ==
  /\ udp = "queue" /\ m_call["udp"] # "up" => UdpHolds = {udp_msg}
  /\ udp # "queue" \/ m_call["udp"] = "up" => UdpHolds = {}
  BY DEF UdpHolds

\* The same in the next state.
LEMMA HoldsCasesPrime ==
  /\ udp' = "queue" /\ m_call'["udp"] # "up" => UdpHolds' = {udp_msg'}
  /\ udp' # "queue" \/ m_call'["udp"] = "up" => UdpHolds' = {}
  BY DEF UdpHolds

\* Steps that move no task, and at most see the receiver stop.
LEMMA PlacedFrame ==
  ASSUME TasksPlaced, UNCHANGED <<net, m_queued, arrived>>, UdpHolds' = UdpHolds,
         m_call'["udp"] # "idle" => udp' = "queue",
         udp = "exited" \/ loader \in {"stop_udp", "join_udp"} =>
           udp' = "exited" \/ loader' \in {"stop_udp", "join_udp"}
  PROVE  TasksPlaced'
  BY Zenon, PlacedDef, PlacedDefPrime

\* What the lemmas below use of the invariant.
LEMMA PlacedFacts ==
  ASSUME TypeOK, M!IInv, TasksPlaced
  PROVE  /\ Placed(net, UdpHolds, m_queued, arrived)
         /\ OnItsWay(net, UdpHolds, m_queued) =>
              udp = "exited" \/ loader \in {"stop_udp", "join_udp"}
         /\ m_call["udp"] # "idle" => udp = "queue"
         /\ net \in Seq(Received) /\ udp_msg \in Received
         /\ m_queued \in Seq(Entries)
         /\ m_call \in [{"udp", "netdev", "loader"} -> M!CallPC]
  <1>1. net \in Seq(Received) /\ udp_msg \in Received
    BY DEF TypeOK, Received
  <1>2. /\ m_queued \in Seq(Entries)
        /\ m_call \in [{"udp", "netdev", "loader"} -> M!CallPC]
    BY MTypes DEF Entries
  <1> QED BY <1>1, <1>2, PlacedDef

\* The network and kill_net_hand_threads deliver what is nowhere else yet.
LEMMA PlacedByNetwork ==
  ASSUME TypeOK, M!IInv, TasksPlaced, Arrive \/ KillNetHand
  PROVE  TasksPlaced'
  <1>0. /\ Placed(net, UdpHolds, m_queued, arrived)
        /\ OnItsWay(net, UdpHolds, m_queued) =>
             udp = "exited" \/ loader \in {"stop_udp", "join_udp"}
        /\ m_call["udp"] # "idle" => udp = "queue"
    BY PlacedFacts
  <1>t. /\ net \in Seq(Received) /\ udp_msg \in Received
        /\ m_queued \in Seq(Entries)
        /\ m_call \in [{"udp", "netdev", "loader"} -> M!CallPC]
    BY PlacedFacts
  <1>1. CASE Arrive
    <2>1. PICK d \in Datagram \ arrived :
            net' = Append(net, d) /\ arrived' = arrived \cup {d}
      BY <1>1 DEF Arrive
    <2>2. UNCHANGED <<loader, udp, udp_msg, m_queued, m_call>>
      BY <1>1 DEF Arrive, lvars, uvars, mvars
    <2>3. UdpHolds' = UdpHolds
      BY <2>2 DEF UdpHolds
    <2>4. d # Wakeup /\ d # Poison /\ d \notin Range(net) \cup UdpHolds \cup Range(m_queued)
      BY <1>0, TaskFacts DEF Placed, OnItsWay
    <2>5. /\ Placed(net', UdpHolds, m_queued, arrived')
          /\ OnItsWay(net', UdpHolds, m_queued) <=> OnItsWay(net, UdpHolds, m_queued)
      <3>1. /\ d \in Received /\ d \in arrived'
            /\ Placed(net, UdpHolds, m_queued, arrived')
        BY <1>0, <2>1 DEF Placed, Received
      <3>2. /\ Placed(Append(net, d), UdpHolds, m_queued, arrived')
            /\ OnItsWay(Append(net, d), UdpHolds, m_queued) <=>
                 OnItsWay(net, UdpHolds, m_queued) \/ d = Wakeup
        BY <1>t, <2>4, <3>1, PlacedDeliver, Zenon
      <3> QED BY <2>1, <2>4, <3>2
    <2> QED BY <1>0, <2>2, <2>3, <2>4, <2>5, PlacedDefPrime
  <1>2. CASE KillNetHand
    <2>1. /\ UNCHANGED <<udp, udp_msg, m_queued, m_call, arrived>>
          /\ loader = "wake" /\ UdpHolds' = UdpHolds
      BY <1>2 DEF KillNetHand, uvars, mvars, UdpHolds
    <2>2. CASE net' = net
      BY <1>0, <2>1, <2>2, PlacedDefPrime, Zenon
    <2>3. CASE net' = Append(net, Wakeup) /\ udp # "exited" /\ loader' = "stop_udp"
      <3>1. Wakeup \notin Range(net) \cup UdpHolds \cup Range(m_queued)
        BY <1>0, <2>1, <2>3 DEF OnItsWay
      <3>2. Placed(net', UdpHolds, m_queued, arrived')
        <4>1. Wakeup \in Received
          BY DEF Received
        <4> QED BY <1>0, <1>t, <2>1, <2>3, <3>1, <4>1, PlacedDeliver
      <3> QED BY <1>0, <2>1, <2>3, <3>2, PlacedDefPrime
    <2> QED BY <1>2, <2>2, <2>3, Zenon DEF KillNetHand, SendWakeup
  <1> QED BY <1>1, <1>2

\* UdpHandler takes a datagram from the buffer, or empties it.
LEMMA PlacedByReceiver ==
  ASSUME TypeOK, M!IInv, TasksPlaced, UdpCheck \/ UdpRecvError \/ UdpRecv
  PROVE  TasksPlaced'
  <1>0. /\ Placed(net, UdpHolds, m_queued, arrived)
        /\ OnItsWay(net, UdpHolds, m_queued) =>
             udp = "exited" \/ loader \in {"stop_udp", "join_udp"}
        /\ m_call["udp"] # "idle" => udp = "queue"
    BY PlacedFacts
  <1>t. /\ net \in Seq(Received) /\ udp_msg \in Received
        /\ m_queued \in Seq(Entries)
        /\ m_call \in [{"udp", "netdev", "loader"} -> M!CallPC]
    BY PlacedFacts
  <1>3. CASE UdpCheck \/ UdpRecvError
    <2>1. /\ UNCHANGED <<loader, m_queued, m_call, arrived>> /\ net' \in {net, << >>}
          /\ udp \notin {"queue", "exited"} /\ udp' # "queue"
      BY <1>3, Zenon DEF UdpCheck, UdpRecvError, lvars, mvars
    <2>2. UdpHolds = {} /\ UdpHolds' = {}
      BY <2>1, HoldsCases, HoldsCasesPrime
    <2>3. /\ Placed(net', UdpHolds', m_queued', arrived')
          /\ OnItsWay(net', UdpHolds', m_queued') => OnItsWay(net, UdpHolds, m_queued)
      BY <1>0, <2>1, <2>2, PlacedRelease, Zenon
    <2> QED BY <1>0, <2>1, <2>3, PlacedDefPrime, Zenon
  <1>4. CASE UdpRecv
    <2>1. /\ UNCHANGED <<loader, m_queued, m_call, arrived>> /\ net # << >>
          /\ net' = Tail(net) /\ udp_msg' = Head(net)
          /\ udp = "recv" /\ udp' = "queue" /\ m_call["udp"] = "idle"
      BY <1>0, <1>4 DEF UdpRecv, lvars, mvars
    <2>2. UdpHolds = {} /\ UdpHolds' = {Head(net)}
      BY <2>1, HoldsCases, HoldsCasesPrime
    <2>3. /\ Placed(net', UdpHolds', m_queued', arrived')
          /\ OnItsWay(net', UdpHolds', m_queued') <=> OnItsWay(net, UdpHolds, m_queued)
      BY <1>0, <1>t, <2>1, <2>2, PlacedReceive
    <2> QED BY <1>0, <2>1, <2>3, PlacedDefPrime, Zenon
  <1> QED BY <1>3, <1>4

\* UdpHandler queues what it took.
LEMMA PlacedByUdpQueue ==
  ASSUME TypeOK, M!IInv, TasksPlaced, UdpQueue
  PROVE  TasksPlaced'
  <1>0. /\ Placed(net, UdpHolds, m_queued, arrived)
        /\ OnItsWay(net, UdpHolds, m_queued) =>
             udp = "exited" \/ loader \in {"stop_udp", "join_udp"}
        /\ m_call["udp"] # "idle" => udp = "queue"
    BY PlacedFacts
  <1>t. /\ net \in Seq(Received) /\ udp_msg \in Received
        /\ m_queued \in Seq(Entries)
        /\ m_call \in [{"udp", "netdev", "loader"} -> M!CallPC]
    BY PlacedFacts
  <1>5. CASE UdpQueue
    <2>1. /\ UNCHANGED <<loader, net, arrived>> /\ udp = "queue"
      BY <1>5 DEF UdpQueue, lvars, evars
    <2>2. CASE M!Lock("udp") /\ UNCHANGED uvars
      <3>1. m_queued' = m_queued /\ m_call["udp"] # "up" /\ m_call'["udp"] # "up"
        BY <1>t, <2>2 DEF M!Lock
      <3>2. UdpHolds' = UdpHolds
        BY <2>1, <2>2, <3>1, HoldsCases, HoldsCasesPrime DEF uvars
      <3> QED BY <2>1, <2>2, <3>1, <3>2, PlacedFrame DEF uvars
    <2>3. CASE M!Add("udp", udp_msg) /\ UNCHANGED uvars
      <3>1. /\ m_queued' = Append(m_queued, udp_msg)
            /\ m_call["udp"] = "add" /\ m_call'["udp"] = "up"
        BY <1>t, <2>3 DEF M!Add
      <3>2. UdpHolds = {udp_msg} /\ UdpHolds' = {}
        BY <2>1, <3>1, HoldsCases, HoldsCasesPrime, Zenon
      <3>3. /\ Placed(net, UdpHolds', m_queued', arrived)
            /\ OnItsWay(net, UdpHolds', m_queued') <=> OnItsWay(net, UdpHolds, m_queued)
        BY <1>0, <1>t, <3>1, <3>2, PlacedQueue, Zenon DEF MihfTask, Received, Entries
      <3> QED BY <1>0, <2>1, <2>3, <3>3, PlacedDefPrime DEF uvars
    <2>4. CASE M!Up("udp") /\ udp' = "check"
      <3>1. /\ m_queued' = m_queued
            /\ m_call["udp"] = "up" /\ m_call'["udp"] = "idle"
        BY <1>t, <2>4 DEF M!Up
      <3>2. UdpHolds' = UdpHolds
        BY <2>4, <3>1, HoldsCases, HoldsCasesPrime, Zenon
      <3> QED BY <2>1, <2>4, <3>1, <3>2, PlacedFrame, Zenon
    <2> QED BY <1>5, <2>2, <2>3, <2>4 DEF UdpQueue
  <1> QED BY <1>5

\* The notifier or stop_executor queue a new entry.
LEMMA PlacedByEntry ==
  ASSUME TypeOK, M!IInv, TasksPlaced,
         loader' = loader \/ loader = "stop_mihf",
         UNCHANGED <<udp, udp_msg, net>>, m_call'["udp"] = m_call["udp"],
         NEW x \in LinkEvent \cup {Poison}, m_queued' = Append(m_queued, x),
         arrived' = (IF x = Poison THEN arrived ELSE arrived \cup {x}),
         x \notin arrived
  PROVE  TasksPlaced'
  <1>a. /\ Placed(net, UdpHolds, m_queued, arrived)
        /\ OnItsWay(net, UdpHolds, m_queued) =>
             udp = "exited" \/ loader \in {"stop_udp", "join_udp"}
        /\ m_call["udp"] # "idle" => udp = "queue"
    BY PlacedFacts
  <1>t. /\ net \in Seq(Received) /\ udp_msg \in Received
        /\ m_queued \in Seq(Entries)
        /\ m_call \in [{"udp", "netdev", "loader"} -> M!CallPC]
    BY PlacedFacts, Zenon
  <1>1. x # Wakeup /\ x \notin Datagram /\ x \in Entries
    BY TaskFacts DEF MihfTask, Entries
  <1>2. UdpHolds' = UdpHolds
    BY Zenon DEF UdpHolds
  <1>3. x \notin Range(net) \cup UdpHolds
    <2>1. x \notin Received
      BY <1>1, TaskFacts DEF Received
    <2>2. Range(net) \subseteq Received
      BY <1>t, RangeType, Zenon
    <2>3. UdpHolds \subseteq {udp_msg}
      BY Zenon DEF UdpHolds
    <2> QED BY <1>t, <2>1, <2>2, <2>3, Zenon
  <1>4. x = Poison \/ x \notin Range(m_queued)
    BY <1>a, <1>1, Zenon DEF Placed
  <1>5. /\ Placed(net, UdpHolds, m_queued', arrived')
        /\ OnItsWay(net, UdpHolds, m_queued') <=> OnItsWay(net, UdpHolds, m_queued)
    <2>1. /\ x \in arrived' \/ x = Poison
          /\ Placed(net, UdpHolds, m_queued, arrived')
      BY <1>a DEF Placed
    <2>2. /\ Placed(net, UdpHolds, Append(m_queued, x), arrived')
          /\ OnItsWay(net, UdpHolds, Append(m_queued, x)) <=>
               OnItsWay(net, UdpHolds, m_queued) \/ x = Wakeup
      BY <1>t, <1>1, <1>3, <1>4, <2>1, PlacedNotify, Zenon
    <2> QED BY <1>1, <2>2
  <1> QED BY <1>a, <1>1, <1>2, <1>5, PlacedDefPrime

\* The notifier and stop_executor, at every step of their calls.
LEMMA PlacedByCallers ==
  ASSUME TypeOK, M!IInv, TasksPlaced, NetDevNotifier \/ StopMihf
  PROVE  TasksPlaced'
  <1>0. /\ Placed(net, UdpHolds, m_queued, arrived)
        /\ OnItsWay(net, UdpHolds, m_queued) =>
             udp = "exited" \/ loader \in {"stop_udp", "join_udp"}
        /\ m_call["udp"] # "idle" => udp = "queue"
    BY PlacedFacts
  <1>t. m_call \in [{"udp", "netdev", "loader"} -> M!CallPC]
    BY MTypes
  <1>7. CASE NetDevNotifier
    <2>1. UNCHANGED <<loader, udp, udp_msg, net>>
      BY <1>7, Zenon DEF NetDevNotifier, lvars, uvars
    <2>2. ASSUME NEW e \in LinkEvent \ arrived, M!Add("netdev", e),
                 arrived' = arrived \cup {e}
          PROVE  TasksPlaced'
      <3>1. m_queued' = Append(m_queued, e) /\ m_call'["udp"] = m_call["udp"]
        BY <1>t, <2>2 DEF M!Add
      <3>2. e # Poison
        BY TaskFacts
      <3> QED BY PlacedByEntry, <2>1, <2>2, <3>1, <3>2, Zenon
    <2>3. CASE (M!Lock("netdev") \/ M!Up("netdev")) /\ arrived' = arrived
      <3>1. m_queued' = m_queued /\ m_call'["udp"] = m_call["udp"]
        BY <1>t, <2>3 DEF M!Lock, M!Up
      <3>2. UdpHolds' = UdpHolds
        BY <2>1, <3>1, Zenon DEF UdpHolds
      <3> QED BY <1>0, <2>1, <2>3, <3>1, <3>2, PlacedFrame, Zenon
    <2> QED BY <1>7, <2>2, <2>3, Zenon DEF NetDevNotifier
  <1>8. CASE StopMihf
    <2>1. UNCHANGED <<udp, udp_msg, net, arrived>> /\ loader = "stop_mihf"
      BY <1>8 DEF StopMihf, uvars, evars
    <2>2. CASE M!Add("loader", Poison)
      <3>1. m_queued' = Append(m_queued, Poison) /\ m_call'["udp"] = m_call["udp"]
        BY <1>t, <2>2 DEF M!Add
      <3>2. Poison \notin arrived
        BY TaskFacts DEF TypeOK
      <3> QED BY PlacedByEntry, <2>1, <2>2, <3>1, <3>2
    <2>3. CASE ~M!Add("loader", Poison)
      <3>1. m_queued' = m_queued /\ m_call'["udp"] = m_call["udp"]
        BY <1>t, <1>8, <2>3, Zenon DEF StopMihf, M!Lock, M!Up, M!KthreadStop, M!Join, mvars
      <3>2. UdpHolds' = UdpHolds
        BY <2>1, <3>1, Zenon DEF UdpHolds
      <3> QED BY <1>0, <2>1, <3>1, <3>2, PlacedFrame, Zenon
    <2> QED BY <2>2, <2>3, Zenon
  <1> QED BY <1>7, <1>8

\* The other steps move no task.
LEMMA PlacedByOthers ==
  ASSUME M!IInv, StopOrder, TasksPlaced,
         \/ UdpStart \/ UdpExit \/ RunThreads
         \/ RegisterNetdev \/ RegisterInetaddr \/ BeginStop \/ StopThreads \/ StopDispatch
         \/ Unregister
         \/ DevMon \/ Acknowledge \/ HandleUdpReply \/ DispatchExecutor \/ UNCHANGED vars
         \/ HandleMessage \/ LinkIndication \/ MihfExecutor
  PROVE  TasksPlaced'
  <1>0. m_call["udp"] # "idle" => udp = "queue"
    BY DEF TasksPlaced
  <1>9. ASSUME UNCHANGED <<net, m_queued, arrived, udp, udp_msg, m_call, loader>>
        PROVE  TasksPlaced'
    <2>1. UdpHolds' = UdpHolds
      BY <1>9, Zenon DEF UdpHolds
    <2> QED BY <1>0, <1>9, <2>1, PlacedFrame
  <1>10. ASSUME UNCHANGED <<net, m_queued, arrived, m_call>>, udp # "queue", udp' # "queue",
                udp = "exited" \/ loader \in {"stop_udp", "join_udp"} =>
                  udp' = "exited" \/ loader' \in {"stop_udp", "join_udp"}
        PROVE  TasksPlaced'
    <2>1. UdpHolds' = UdpHolds
      BY <1>10, HoldsCases, HoldsCasesPrime, Zenon
    <2> QED BY <1>0, <1>10, <2>1, PlacedFrame, Zenon
  <1>11. CASE UdpStart \/ UdpExit
    BY <1>11, <1>10, Zenon DEF UdpStart, UdpExit, lvars, evars, mvars
  <1>12. CASE RunThreads
    <2>1. UNCHANGED <<net, m_queued, arrived, m_call, udp_msg>>
      BY <1>12, Zenon DEF RunThreads, KthreadRun, evars, mvars
    <2>2. CASE KthreadRun("udp", "run_udp", "run_dev")
      <3>1. udp = "none"
        BY <2>2 DEF StopOrder, KthreadRun
      <3> QED BY <1>10, <2>1, <2>2, <3>1, Zenon DEF KthreadRun
    <2>3. CASE ~KthreadRun("udp", "run_udp", "run_dev")
      <3>1. udp' = udp /\ loader \notin {"stop_udp", "join_udp"}
        BY <1>12, <2>3, Zenon DEF RunThreads, KthreadRun
      <3>2. UdpHolds' = UdpHolds
        BY <2>1, <3>1, Zenon DEF UdpHolds
      <3> QED BY <1>0, <2>1, <3>1, <3>2, PlacedFrame
    <2> QED BY <2>2, <2>3
  <1>13. CASE RegisterNetdev \/ RegisterInetaddr \/ BeginStop \/ StopThreads \/ StopDispatch
                \/ Unregister
    <2>1. UNCHANGED <<net, m_queued, arrived, m_call, udp, udp_msg>>
      BY <1>13, Zenon DEF RegisterNetdev, RegisterInetaddr, BeginStop, StopThreads, KthreadStop,
         KthreadJoin, StopDispatch, Unregister, evars, mvars, uvars
    <2>2. loader \in {"stop_udp", "join_udp"} =>
            udp' = "exited" \/ loader' \in {"stop_udp", "join_udp"}
      BY <1>13, <2>1, Zenon DEF RegisterNetdev, RegisterInetaddr, BeginStop, StopThreads, KthreadStop,
         KthreadJoin, StopDispatch, Unregister, StopOrder
    <2>3. UdpHolds' = UdpHolds
      BY <2>1, Zenon DEF UdpHolds
    <2> QED BY <1>0, <2>1, <2>2, <2>3, PlacedFrame
  <1>14. CASE DevMon \/ Acknowledge \/ HandleUdpReply \/ DispatchExecutor \/ UNCHANGED vars
    BY <1>14, <1>9, Zenon DEF DevMon, Acknowledge, HandleUdpReply, DispatchExecutor, vars, lvars, uvars,
       evars, mvars
  <1>15. CASE HandleMessage \/ LinkIndication \/ MihfExecutor
    BY <1>15, <1>9, Zenon DEF HandleMessage, LinkIndication, MihfExecutor, lvars, uvars, evars,
       M!Finish, M!Start, M!Down, M!Take, M!TakePoison, M!Exit
  <1> QED BY <1>11, <1>12, <1>13, <1>14, <1>15, Zenon

\* TasksPlaced is preserved by every step.
LEMMA PlacedStep ==
  ASSUME TypeOK, M!IInv, StopOrder, TasksPlaced, [Next]_vars
  PROVE  TasksPlaced'
  BY PlacedByNetwork, PlacedByReceiver, PlacedByUdpQueue, PlacedByCallers, PlacedByOthers, Zenon
     DEF Next, LoaderNext, UdpNext

=============================================================================
