------------------------------ MODULE MihModule ------------------------------
(***************************************************************************)
(* The kernel module as a whole: mod_Start and mod_End (mih_mod.c), the    *)
(* UDP receiver and the two handlers that the executors run (net_hand.c,   *)
(* proto.c), the link notifier and the device monitor (dev_mon.c,          *)
(* mih_link_sap.c), around two instances of TaskQueue: mihf_queue (M) and  *)
(* dispatch_queue (D).                                                     *)
(*                                                                         *)
(*   network -> UdpHandler --> mihf_queue --> handle_message               *)
(*   kernel  -> NetDevNotifier -^                 |  Acknowledge           *)
(*                                                v                        *)
(*   network <- handle_udp_reply <--------- dispatch_queue                 *)
(*                                                                         *)
(* Unload stops the threads in the order of this picture.                  *)
(***************************************************************************)
EXTENDS Integers, Sequences, FiniteSets, Functions

CONSTANTS
  Datagram,   \* what the network may deliver: records [id, kind]
  LinkEvent,  \* what the kernel may notify: records [id, kind]
  Poison,     \* the poison task of both queues
  Faults      \* the environment failures that may happen, a set of names

\* What a datagram is to handle_message: one that unpack_mih_message rejects,
\* one for another MIHF, one for this MIHF without and one with ACK-Req.
DatagramKind == {"garbage", "foreign", "plain", "ackreq"}

\* One notification per Link_*_indication that NetDevNotifier queues.
LinkKind == {"up", "down", "going_down"}

FaultName == {"netdev", "inetaddr", "kthread", "udp_init", "recv",
              "wakeup_socket", "wakeup_send", "reply_socket", "reply_pack"}

ASSUME DatagramAssumption ==
  \A d \in Datagram : d.id \in Nat \ {0} /\ d.kind \in DatagramKind
ASSUME LinkEventAssumption ==
  \A e \in LinkEvent : e.id \in Nat \ {0} /\ e.kind \in LinkKind
ASSUME IdAssumption ==
  \A x, y \in Datagram \cup LinkEvent : x.id = y.id => x = y
ASSUME FaultAssumption == Faults \subseteq FaultName

\* The five bytes that kill_net_hand_threads sends to the module's own socket.
Wakeup == [id |-> 0, kind |-> "garbage"]

MihfTask == Datagram \cup {Wakeup} \cup LinkEvent

ASSUME PoisonAssumption == Poison \notin MihfTask

VARIABLES
  loader,     \* where mod_Start or mod_End is
  unloading,  \* mod_End was entered
  flag,       \* _threads_should_stop
  kt,         \* the threads whose task_struct pointer is set
  stop,       \* the threads on which kthread_stop was called
  netdev,     \* NetDevNotifier is registered
  udp,        \* where UdpHandler is
  udp_msg,    \* the datagram UdpHandler is queueing
  dev,        \* where DevMon is
  net,        \* datagrams in the receive buffer of the bound socket
  arrived,    \* history: datagrams and events that have happened
  sent,       \* history: the datagrams whose ACK was sent, in order
  ackpc,      \* where Acknowledge is in the running handle_message
  heap,       \* the live allocations, pairs of object and owner id
  failed,     \* history: the faults that have happened
  m_list, m_sem, m_lock, m_call, m_exec, m_task, m_stop, m_intr, m_queued, m_ran,
  d_list, d_sem, d_lock, d_call, d_exec, d_task, d_stop, d_intr, d_queued, d_ran

mvars == <<m_list, m_sem, m_lock, m_call, m_exec, m_task, m_stop, m_intr,
           m_queued, m_ran>>
dvars == <<d_list, d_sem, d_lock, d_call, d_exec, d_task, d_stop, d_intr,
           d_queued, d_ran>>
lvars == <<loader, unloading, flag, kt, stop, netdev, failed>>
uvars == <<udp, udp_msg>>
evars == <<net, arrived, sent>>

vars == <<lvars, uvars, dev, evars, ackpc, heap, mvars, dvars>>

M == INSTANCE TaskQueue WITH
  Task <- MihfTask, Caller <- {"udp", "netdev", "loader"},
  Stopper <- "loader", MaxInterrupts <- 0,
  list <- m_list, sem <- m_sem, lock <- m_lock, call <- m_call,
  exec <- m_exec, task <- m_task, should_stop <- m_stop,
  interrupts <- m_intr, queued <- m_queued, ran <- m_ran

D == INSTANCE TaskQueue WITH
  Task <- Datagram, Caller <- {"mihf", "loader"},
  Stopper <- "loader", MaxInterrupts <- 0,
  list <- d_list, sem <- d_sem, lock <- d_lock, call <- d_call,
  exec <- d_exec, task <- d_task, should_stop <- d_stop,
  interrupts <- d_intr, queued <- d_queued, ran <- d_ran

-----------------------------------------------------------------------------
(* Heap objects.  The entries that queue_task allocates are not among them *)
(* (they are the lists), nor is what one step allocates and frees again    *)
(* (the TLVs of a request in handle_message, the buffer of                 *)
(* handle_udp_reply).                                                      *)

Obj(names, id) == {<<n, id>> : n \in names}

\* mih_Init: the buffers that mod_End frees and the TLV values that it does not.
GlobalBuffers == Obj({"snd_buf", "rcv_buf", "src_mihf_id", "dst_mihf_id"}, 0)
GlobalValues == Obj({"src_value", "dst_value"}, 0)

\* UdpHandler, before it waits for a datagram: its rxaddr and buf, which belong
\* to the datagram once there is one.
RecvBuffers == Obj({"next_rxaddr", "next_buf"}, 0)

\* UdpHandler, per datagram; handle_message frees only the second pair.
ReplyObjects(x) == Obj({"rxaddr", "reply_hand"}, x.id)
MessageObjects(x) == Obj({"buf", "parameter"}, x.id)

\* Acknowledge, with two TLVs and their values, and queue_message;
\* handle_udp_reply frees them.
AckObjects(x) == Obj({"ack_msg", "ack_tlvs", "reply_parameter"}, x.id)

\* DevLinkUp, DevLinkDown and DevLinkGoingDown; the indication frees them.
LinkObjects(x) == Obj({"mac_addr", "link_parameter"}, x.id)

-----------------------------------------------------------------------------

Init ==
  /\ loader = "start"
  /\ unloading = FALSE
  /\ flag = FALSE
  /\ kt = {}
  /\ stop = {}
  /\ netdev = FALSE
  /\ udp = "none"
  /\ udp_msg = Wakeup
  /\ dev = "none"
  /\ net = << >>
  /\ arrived = {}
  /\ sent = << >>
  /\ ackpc = "todo"
  /\ heap = {}
  /\ failed = {}
  /\ M!Init
  /\ D!Init

\* A failure of the environment, if this instance allows it.
Fails(f) ==
  /\ f \in Faults
  /\ failed' = failed \cup {f}

-----------------------------------------------------------------------------
(* mod_Start                                                               *)

\* mih_Init, init_queue twice, register_netdevice_notifier.
RegisterNetdev ==
  /\ loader = "start"
  /\ heap' = heap \cup GlobalBuffers \cup GlobalValues
  /\ \/ /\ netdev' = TRUE
        /\ loader' = "inetaddr"
        /\ UNCHANGED failed
     \/ /\ Fails("netdev")
        /\ loader' = "refused"
        /\ UNCHANGED netdev
  /\ UNCHANGED <<unloading, flag, kt, stop, uvars, dev, evars, ackpc, mvars, dvars>>

\* register_inetaddr_notifier; on failure the first notifier stays registered.
RegisterInetaddr ==
  /\ loader = "inetaddr"
  /\ \/ /\ loader' = "run_udp"
        /\ UNCHANGED failed
     \/ /\ Fails("inetaddr")
        /\ loader' = "refused"
  /\ UNCHANGED <<unloading, flag, kt, stop, netdev, uvars, dev, evars, ackpc, heap,
                 mvars, dvars>>

\* One kthread_run of mod_Start, and where control goes after it.
KthreadRun(t, from, to) ==
  /\ loader = from
  /\ \/ /\ kt' = kt \cup {t}
        /\ loader' = to
        /\ udp' = IF t = "udp" THEN "created" ELSE udp
        /\ dev' = IF t = "dev" THEN "running" ELSE dev
        /\ UNCHANGED failed
     \/ /\ Fails("kthread")
        /\ loader' = "kthread_failure"
        /\ UNCHANGED <<kt, udp, dev>>
  /\ UNCHANGED <<unloading, flag, stop, netdev, udp_msg, evars, ackpc, heap, mvars,
                 dvars>>

RunThreads ==
  \/ KthreadRun("udp", "run_udp", "run_dev")
  \/ KthreadRun("dev", "run_dev", "run_mihf")
  \/ KthreadRun("mihf", "run_mihf", "run_dispatch")
  \/ KthreadRun("dispatch", "run_dispatch", "loaded")

-----------------------------------------------------------------------------
(* The stop sequence shared by mod_End and the failure path of mod_Start   *)

\* mod_End, or the code at kthread_failure.
BeginStop ==
  /\ loader \in {"loaded", "kthread_failure"}
  /\ unloading' = (loader = "loaded")
  /\ flag' = TRUE
  /\ loader' = "wake"
  /\ UNCHANGED <<kt, stop, netdev, failed, uvars, dev, evars, ackpc, heap, mvars,
                 dvars>>

\* Mutant: kill_net_hand_threads does not send.
SendNothing == UNCHANGED net

\* udp_send of the wake-up datagram, which is lost if no socket is bound.
SendWakeup ==
  net' = IF udp \in {"check", "recv", "queue"} THEN Append(net, Wakeup) ELSE net

\* kill_net_hand_threads: wake the receiver with a datagram.  If the socket for
\* it cannot be created the function returns without stopping the receiver.
KillNetHand ==
  /\ loader = "wake"
  /\ \/ /\ "udp" \notin kt
        /\ loader' = "stop_dev"
        /\ UNCHANGED <<net, failed>>
     \/ /\ "udp" \in kt
        /\ Fails("wakeup_socket")
        /\ loader' = "stop_dev"
        /\ UNCHANGED net
     \/ /\ "udp" \in kt
        /\ SendWakeup
        /\ loader' = "stop_udp"
        /\ UNCHANGED failed
     \/ /\ "udp" \in kt
        /\ Fails("wakeup_send")
        /\ loader' = "stop_udp"
        /\ UNCHANGED net
  /\ UNCHANGED <<unloading, flag, kt, stop, netdev, uvars, dev, arrived, sent, ackpc,
                 heap, mvars, dvars>>

\* kthread_stop of a thread that is in state st: undefined if the thread has
\* already exited, else raise its flag and go on to wait for it.
KthreadStop(t, st, from, join, to) ==
  /\ loader = from
  /\ loader' = IF t \notin kt THEN to ELSE IF st = "exited" THEN "undefined" ELSE join
  /\ stop' = IF t \in kt THEN stop \cup {t} ELSE stop
  /\ UNCHANGED <<unloading, flag, kt, netdev, failed, uvars, dev, evars, ackpc, heap,
                 mvars, dvars>>

\* Mutant: kthread_stop does not wait.
KthreadJoinEarly(st, join, to) ==
  /\ loader = join
  /\ loader' = to
  /\ UNCHANGED <<unloading, flag, kt, stop, netdev, failed, uvars, dev, evars, ackpc,
                 heap, mvars, dvars>>

KthreadJoin(st, join, to) ==
  /\ loader = join
  /\ st = "exited"
  /\ loader' = to
  /\ UNCHANGED <<unloading, flag, kt, stop, netdev, failed, uvars, dev, evars, ackpc,
                 heap, mvars, dvars>>

StopThreads ==
  \/ KthreadStop("udp", udp, "stop_udp", "join_udp", "stop_dev")
  \/ KthreadJoin(udp, "join_udp", "stop_dev")
  \/ KthreadStop("dev", dev, "stop_dev", "join_dev", "stop_mihf")
  \/ KthreadJoin(dev, "join_dev", "stop_mihf")

\* if (_mihf_t) stop_executor(&mihf_queue, _mihf_t), a step of it at a time.
StopMihf ==
  /\ loader = "stop_mihf"
  /\ \/ /\ "mihf" \notin kt
        /\ loader' = "stop_dispatch"
        /\ UNCHANGED mvars
     \/ /\ "mihf" \in kt
        /\ M!Lock("loader") \/ M!Add("loader", Poison) \/ M!Up("loader") \/ M!KthreadStop
        /\ UNCHANGED loader
     \/ /\ M!Join
        /\ loader' = "stop_dispatch"
  /\ UNCHANGED <<unloading, flag, kt, stop, netdev, failed, uvars, dev, evars, ackpc,
                 heap, dvars>>

\* The same for dispatch_queue; mod_Start returns 0 after its failure path.
StopDispatch ==
  LET after == IF unloading THEN "unregister" ELSE "loaded" IN
  /\ loader = "stop_dispatch"
  /\ \/ /\ "dispatch" \notin kt
        /\ loader' = after
        /\ UNCHANGED dvars
     \/ /\ "dispatch" \in kt
        /\ D!Lock("loader") \/ D!Add("loader", Poison) \/ D!Up("loader") \/ D!KthreadStop
        /\ UNCHANGED loader
     \/ /\ D!Join
        /\ loader' = after
  /\ UNCHANGED <<unloading, flag, kt, stop, netdev, failed, uvars, dev, evars, ackpc,
                 heap, mvars>>

\* The end of mod_End.  Unregistering waits for a notifier call in progress.
Unregister ==
  /\ loader = "unregister"
  /\ m_call["netdev"] = "idle"
  /\ netdev' = FALSE
  /\ heap' = heap \ GlobalBuffers
  /\ loader' = "unloaded"
  /\ UNCHANGED <<unloading, flag, kt, stop, failed, uvars, dev, evars, ackpc, mvars,
                 dvars>>

LoaderNext ==
  RegisterNetdev \/ RegisterInetaddr \/ RunThreads \/ BeginStop \/ KillNetHand
    \/ StopThreads \/ StopMihf \/ StopDispatch \/ Unregister

-----------------------------------------------------------------------------
(* UdpHandler                                                              *)

\* The thread starts: UdpSockInit, or nothing at all if it should stop already.
UdpStart ==
  /\ udp = "created"
  /\ \/ /\ udp' = IF "udp" \in stop THEN "exited" ELSE "check"
        /\ UNCHANGED failed
     \/ /\ "udp" \notin stop
        /\ Fails("udp_init")
        /\ udp' = "exited"
  /\ UNCHANGED <<loader, unloading, flag, kt, stop, netdev, udp_msg, dev, evars, ackpc,
                 heap, mvars, dvars>>

\* The loop condition, and the allocations for the next datagram; leaving the
\* loop releases the socket, with what it has received.
UdpCheck ==
  LET leave == flag \/ "udp" \in stop IN
  /\ udp = "check"
  /\ udp' = IF leave THEN "drain" ELSE "recv"
  /\ net' = IF leave THEN << >> ELSE net
  /\ heap' = IF leave THEN heap ELSE heap \cup RecvBuffers
  /\ UNCHANGED <<lvars, udp_msg, dev, arrived, sent, ackpc, mvars, dvars>>

\* udp_recv returns a datagram, which takes over rxaddr and buf and gets a reply
\* handler and a parameter.
UdpRecv ==
  /\ udp = "recv"
  /\ net # << >>
  /\ udp_msg' = Head(net)
  /\ net' = Tail(net)
  /\ heap' = (heap \ RecvBuffers) \cup ReplyObjects(Head(net)) \cup MessageObjects(Head(net))
  /\ udp' = "queue"
  /\ UNCHANGED <<lvars, dev, arrived, sent, ackpc, mvars, dvars>>

\* Mutant: the loop is left without the two kfree.
UdpRecvErrorLeaks ==
  /\ udp = "recv"
  /\ flag \/ "udp" \in stop
  /\ Fails("recv")
  /\ udp' = "drain"
  /\ net' = << >>
  /\ UNCHANGED <<loader, unloading, flag, kt, stop, netdev, udp_msg, dev, arrived, sent,
                 ackpc, heap, mvars, dvars>>

\* udp_recv fails.  If the module is stopping the buffers are freed and the loop
\* ends; otherwise the receiver tries again with them, which changes nothing.
UdpRecvError ==
  /\ udp = "recv"
  /\ flag \/ "udp" \in stop
  /\ Fails("recv")
  /\ heap' = heap \ RecvBuffers
  /\ udp' = "drain"
  /\ net' = << >>
  /\ UNCHANGED <<loader, unloading, flag, kt, stop, netdev, udp_msg, dev, arrived, sent,
                 ackpc, mvars, dvars>>

\* queue_task(&mihf_queue, &handle_message, parameter), a step at a time.
UdpQueue ==
  /\ udp = "queue"
  /\ \/ /\ M!Lock("udp") \/ M!Add("udp", udp_msg)
        /\ UNCHANGED uvars
     \/ /\ M!Up("udp")
        /\ udp' = "check"
        /\ udp_msg' = Wakeup
  /\ UNCHANGED <<lvars, dev, evars, ackpc, heap, dvars>>

\* Mutant: UdpHandler returns without the msleep loop.
UdpExitEarly ==
  /\ udp = "drain"
  /\ udp' = "exited"
  /\ UNCHANGED <<lvars, udp_msg, dev, evars, ackpc, heap, mvars, dvars>>

\* The msleep loop at the end of UdpHandler.
UdpExit ==
  /\ udp = "drain"
  /\ "udp" \in stop
  /\ udp' = "exited"
  /\ UNCHANGED <<lvars, udp_msg, dev, evars, ackpc, heap, mvars, dvars>>

UdpNext == UdpStart \/ UdpCheck \/ UdpRecv \/ UdpQueue \/ UdpExit

-----------------------------------------------------------------------------
(* The notifier and the device monitor                                     *)

\* NetDevNotifier for an Ethernet device: DevLinkUp, DevLinkDown or
\* DevLinkGoingDown allocate a parameter and queue the indication.
NetDevNotifier ==
  /\ \/ /\ netdev
        /\ LinkEvent \ arrived # {}
        /\ M!Lock("netdev")
        /\ UNCHANGED <<arrived, heap>>
     \/ \E e \in LinkEvent \ arrived :
          /\ M!Add("netdev", e)
          /\ arrived' = arrived \cup {e}
          /\ heap' = heap \cup LinkObjects(e)
     \/ /\ M!Up("netdev")
        /\ UNCHANGED <<arrived, heap>>
  /\ UNCHANGED <<lvars, uvars, dev, net, sent, ackpc, dvars>>

\* DevMon only sleeps until it is stopped.
DevMon ==
  /\ dev = "running"
  /\ "dev" \in stop
  /\ dev' = "exited"
  /\ UNCHANGED <<lvars, uvars, evars, ackpc, heap, mvars, dvars>>

\* The network delivers a datagram to the bound socket.  Loss is a datagram
\* that never arrives, duplication two that differ only in their id.
Arrive ==
  /\ udp \in {"check", "recv", "queue"}
  /\ \E d \in Datagram \ arrived :
       /\ net' = Append(net, d)
       /\ arrived' = arrived \cup {d}
  /\ UNCHANGED <<lvars, uvars, dev, sent, ackpc, heap, mvars, dvars>>

-----------------------------------------------------------------------------
(* The executor of mihf_queue: handle_message and Link_*_indication        *)

\* ProcessRequest finds its own MIHF id and ACK-Req.
WantsAck(x) == x.kind = "ackreq"

\* Mutant: ProcessRequest goes on to acknowledge what it has acknowledged.
AcknowledgeAgain ==
  /\ m_exec = "run"
  /\ WantsAck(m_task)
  /\ \/ /\ ackpc = "todo"
        /\ D!Lock("mihf")
        /\ heap' = heap \cup AckObjects(m_task)
        /\ ackpc' = "queueing"
     \/ /\ ackpc = "queueing"
        /\ D!Add("mihf", m_task)
        /\ UNCHANGED <<heap, ackpc>>
     \/ /\ ackpc = "queueing"
        /\ D!Up("mihf")
        /\ ackpc' \in {"todo", "done"}
        /\ UNCHANGED heap
  /\ UNCHANGED <<lvars, uvars, dev, evars, mvars>>

\* Acknowledge builds the answer, queue_message queues it, all while the
\* executor holds the lock of mihf_queue.
Acknowledge ==
  /\ m_exec = "run"
  /\ WantsAck(m_task)
  /\ \/ /\ ackpc = "todo"
        /\ D!Lock("mihf")
        /\ heap' = heap \cup AckObjects(m_task)
        /\ ackpc' = "queueing"
     \/ /\ ackpc = "queueing"
        /\ D!Add("mihf", m_task)
        /\ UNCHANGED <<heap, ackpc>>
     \/ /\ ackpc = "queueing"
        /\ D!Up("mihf")
        /\ ackpc' = "done"
        /\ UNCHANGED heap
  /\ UNCHANGED <<lvars, uvars, dev, evars, mvars>>

\* The rest of handle_message: the service handlers change nothing, the
\* message and the parameter are freed.
HandleMessage ==
  /\ m_exec = "run"
  /\ m_task.kind \in DatagramKind
  /\ WantsAck(m_task) => ackpc = "done"
  /\ M!Finish
  /\ heap' = heap \ MessageObjects(m_task)
  /\ ackpc' = "todo"
  /\ UNCHANGED <<lvars, uvars, dev, evars, dvars>>

\* Mutant: Link_*_indication does not free the link address.
LinkIndicationLeaks ==
  /\ m_exec = "run"
  /\ m_task.kind \in LinkKind
  /\ M!Finish
  /\ heap' = heap \ Obj({"link_parameter"}, m_task.id)
  /\ UNCHANGED <<lvars, uvars, dev, evars, ackpc, dvars>>

\* Link_Up_indication and its like free their parameter.
LinkIndication ==
  /\ m_exec = "run"
  /\ m_task.kind \in LinkKind
  /\ M!Finish
  /\ heap' = heap \ LinkObjects(m_task)
  /\ UNCHANGED <<lvars, uvars, dev, evars, ackpc, dvars>>

\* The loop of task_executor between two handlers.  Its wait is never
\* interrupted here: a kernel thread ignores signals, and allow_signal acts on
\* the process that loads the module.  Without interrupts a woken executor
\* finds a task (NoLostWakeup), so TakeNothing has no place here.
MihfExecutor ==
  /\ \/ "mihf" \in kt /\ M!Start
     \/ M!Down \/ M!Take \/ M!TakePoison \/ M!Exit
  /\ UNCHANGED <<lvars, uvars, dev, evars, ackpc, heap, dvars>>

-----------------------------------------------------------------------------
(* The executor of dispatch_queue: handle_udp_reply                        *)

\* Mutant: when the message cannot be packed nothing is freed.
HandleUdpReplyLeaks ==
  /\ d_exec = "run"
  /\ \/ /\ sent' = Append(sent, d_task)
        /\ heap' = heap \ AckObjects(d_task)
        /\ UNCHANGED failed
     \/ /\ Fails("reply_socket")
        /\ heap' = heap \ AckObjects(d_task)
        /\ UNCHANGED sent
     \/ /\ Fails("reply_pack")
        /\ UNCHANGED <<sent, heap>>
  /\ D!Finish
  /\ UNCHANGED <<loader, unloading, flag, kt, stop, netdev, uvars, dev, net, arrived,
                 ackpc, mvars>>

\* Pack and send the acknowledgement and free it: sock_out.  Without a socket it
\* is only freed: msg_out; if it does not fit the buffer, the socket is released
\* as well: sock_out.  There always is a message: queue_message passes ack_msg.
HandleUdpReply ==
  /\ d_exec = "run"
  /\ \/ /\ sent' = Append(sent, d_task)
        /\ UNCHANGED failed
     \/ /\ Fails("reply_socket")
        /\ UNCHANGED sent
     \/ /\ Fails("reply_pack")
        /\ UNCHANGED sent
  /\ D!Finish
  /\ heap' = heap \ AckObjects(d_task)
  /\ UNCHANGED <<loader, unloading, flag, kt, stop, netdev, uvars, dev, net, arrived,
                 ackpc, mvars>>

DispatchExecutor ==
  /\ \/ "dispatch" \in kt /\ D!Start
     \/ D!Down \/ D!Take \/ D!TakePoison \/ D!Exit
  /\ UNCHANGED <<lvars, uvars, dev, evars, ackpc, heap, mvars>>

-----------------------------------------------------------------------------

Next ==
  \/ LoaderNext
  \/ UdpNext \/ UdpRecvError
  \/ NetDevNotifier \/ DevMon \/ Arrive
  \/ Acknowledge \/ HandleMessage \/ LinkIndication \/ MihfExecutor
  \/ HandleUdpReply \/ DispatchExecutor

Spec == Init /\ [][Next]_vars

\* Every thread that is not asleep is scheduled again.  Nobody has to unload
\* the module, no datagram and no link event has to come, and nothing fails.
Fairness ==
  /\ WF_vars(LoaderNext /\ loader # "loaded")
  /\ WF_vars(UdpNext)
  /\ WF_vars(NetDevNotifier /\ m_call["netdev"] # "idle")
  /\ WF_vars(DevMon)
  /\ WF_vars(Acknowledge) /\ WF_vars(HandleMessage) /\ WF_vars(LinkIndication)
  /\ WF_vars(MihfExecutor)
  /\ WF_vars(HandleUdpReply) /\ WF_vars(DispatchExecutor)

FairSpec == Spec /\ Fairness

-----------------------------------------------------------------------------
(* Properties                                                              *)

TypeOK ==
  /\ loader \in {"start", "refused", "inetaddr", "run_udp", "run_dev", "run_mihf",
                 "run_dispatch", "kthread_failure", "loaded", "wake", "stop_udp",
                 "join_udp", "stop_dev", "join_dev", "stop_mihf", "stop_dispatch",
                 "unregister", "unloaded", "undefined"}
  /\ unloading \in BOOLEAN /\ flag \in BOOLEAN /\ netdev \in BOOLEAN
  /\ kt \subseteq {"udp", "dev", "mihf", "dispatch"}
  /\ stop \subseteq {"udp", "dev"}
  /\ udp \in {"none", "created", "check", "recv", "queue", "drain", "exited"}
  /\ udp_msg \in Datagram \cup {Wakeup}
  /\ dev \in {"none", "running", "exited"}
  /\ net \in Seq(Datagram \cup {Wakeup})
  /\ arrived \subseteq Datagram \cup LinkEvent
  /\ sent \in Seq(Datagram)
  /\ ackpc \in {"todo", "queueing", "done"}
  /\ failed \subseteq Faults
  /\ M!TypeOK /\ D!TypeOK

IsAckreq(x) == x # Poison /\ x.kind = "ackreq"

\* handle_message runs and has already linked its ACK to dispatch_queue.
AckLinked ==
  /\ m_exec = "run" /\ m_task.kind = "ackreq"
  /\ ackpc = "done" \/ (ackpc = "queueing" /\ d_call["mihf"] = "up")

\* No task occurs twice in s.
Once(s) == \A i, j \in 1..Len(s) : s[i] = s[j] /\ s[i] # Poison => i = j

\* The tasks that two queues have in common are in the same order in both.
SameOrder(s, t) ==
  \A i, j \in 1..Len(s) : \A k, l \in 1..Len(t) :
    /\ i < j /\ s[i] = t[k] /\ s[j] = t[l]
    /\ t[k] # Poison /\ t[l] # Poison
    => k < l

\* Every datagram for this MIHF that requests an acknowledgement is answered
\* exactly once, in the order in which they were queued, and nothing else is
\* answered (proto.c 243-251 and 8-19, net_hand.c 148-182): the answers on
\* dispatch_queue are those of the requests handled so far, and they are sent
\* as long as reply sockets can be created and the answers packed.
AckExactlyOnce ==
  /\ Range(d_queued) \ {Poison} =
       {x \in Range(m_ran) : IsAckreq(x)} \cup (IF AckLinked THEN {m_task} ELSE {})
  /\ Once(d_queued) /\ SameOrder(d_queued, m_queued)
  /\ failed \cap {"reply_socket", "reply_pack"} = {} => sent = d_ran

\* The module keeps to the rules of queue.h: its callers are one thread each,
\* they take the steps of queue_task in order and queue each task once, and only
\* the loader queues a poison, once, and then stops and joins the executor
\* (net_hand.c 332, dev_mon.c 237, proto.c 16, mih_mod.c 234-236).  So TaskQueue
\* describes both queues, and what it promises holds of them.
UsesTaskQueues == M!Spec /\ D!Spec

\* UdpHandler owns the datagram it has received but not yet linked.
UdpHolds == IF udp = "queue" /\ m_call["udp"] # "up" THEN {udp_msg} ELSE {}

\* The entries of a queue and its running task.
Held(list, exec, task) ==
  (Range(list) \ {Poison}) \cup (IF exec = "run" THEN {task} ELSE {})

InMihf == Held(m_list, m_exec, m_task)

InDispatch == Held(d_list, d_exec, d_task)

\* The answer that Acknowledge has built but not yet linked.
AckInHand == IF ackpc = "queueing" /\ d_call["mihf"] = "add" THEN {m_task} ELSE {}

IsLink(x) == x.kind \in LinkKind

\* The executor of a queue will not take another entry: it has exited, or was
\* stopped before it first ran, or mod_Start is past its kthread_run and did not
\* create it.
Abandoned(t, exec) ==
  \/ exec \in {"exited", "cancelled"}
  \/ t \notin kt /\ loader \notin {"start", "inetaddr", "run_udp", "run_dev", "run_mihf",
                                  "run_dispatch"}

Stranded(t, list, exec) == IF Abandoned(t, exec) THEN Range(list) \ {Poison} ELSE {}

InMihfForever == Stranded("mihf", m_list, m_exec)

InDispatchForever == Stranded("dispatch", d_list, d_exec)

TaskObjects(x) == IF IsLink(x) THEN LinkObjects(x) ELSE MessageObjects(x)

\* What no code frees: the values of the global TLVs (mih_mod.c 243-247), the
\* global buffers when mod_Start returns an error (126-135), the reply handler
\* and the address of every datagram (net_hand.c 303, 322-324, freed by neither
\* handle_message 120-135 nor handle_udp_reply 148-182), and what belongs to
\* the tasks that no executor will take: behind a poison, in front of it if the
\* executor never ran, or on the queue of an executor that was not created.
Leaked ==
       (IF loader = "start" THEN {} ELSE GlobalValues)
  \cup (IF loader = "refused" THEN GlobalBuffers ELSE {})
  \cup (UNION {ReplyObjects(x) : x \in UdpHolds \cup
                                   {y \in Range(m_queued) \ {Poison} : ~IsLink(y)}})
  \cup (UNION {TaskObjects(x) : x \in InMihfForever})
  \cup (UNION {AckObjects(x) : x \in InDispatchForever})

\* What somebody still has to free: mod_End, UdpHandler, and the handlers of the
\* tasks that are queued or run.
Owned ==
       (IF loader \in {"start", "refused", "unloaded"} THEN {} ELSE GlobalBuffers)
  \cup (IF udp = "recv" THEN RecvBuffers ELSE {})
  \cup (UNION {TaskObjects(x) : x \in UdpHolds \cup (InMihf \ InMihfForever)})
  \cup (UNION {AckObjects(x) : x \in AckInHand \cup (InDispatch \ InDispatchForever)})

\* mod_Start returned an error, or mod_End returned and the receiver is not
\* still running because it could not be woken.
Gone == loader = "refused" \/ (loader = "unloaded" /\ "wakeup_socket" \notin failed)

\* Exact accounting of the module's allocations across threads and error paths:
\* no object is freed twice, or used after its owner freed it, and when the
\* module is gone all that is left of its memory is what Leaked names.
HeapAccounting ==
  /\ heap = Owned \cup Leaked
  /\ Gone => Owned = {}

AllStarted == kt = {"udp", "dev", "mihf", "dispatch"}

\* Unloading drains the pipeline: because mod_End stops the receiver before
\* mihf_queue and mihf_queue before dispatch_queue (mih_mod.c 230-236), every
\* datagram that was received is handled and every acknowledgement it asked
\* for is processed before the module is gone; only link events notified after
\* the poison remain.  Excepted are executors that were stopped before they
\* first ran.
PipelineDrained ==
  loader = "unloaded" /\ AllStarted /\ m_exec = "exited" /\ d_exec = "exited" =>
    /\ Range(m_list) \subseteq LinkEvent
    /\ udp # "queue"
    /\ d_list = << >>
    /\ \A x \in Range(m_queued) : IsAckreq(x) => x \in Range(d_ran)

\* "Stop kernel threads" (mih_mod.c 229): when mod_End returns, and the code of
\* the module goes away, no thread runs any more.
UnloadStopsThreads ==
  loader = "unloaded" =>
    /\ udp \in {"none", "exited"}
    /\ dev \in {"none", "exited"}
    /\ "mihf" \in kt => m_exec \in {"exited", "cancelled"}
    /\ "dispatch" \in kt => d_exec \in {"exited", "cancelled"}

\* mod_End calls kthread_stop on a thread that is gone only after UdpSockInit
\* failed (net_hand.c 296-299) or after the failure path of mod_Start stopped
\* the threads without clearing the pointers (mih_mod.c 160-172).
StopsLiveThreads == loader = "undefined" => failed \cap {"udp_init", "kthread"} # {}

-----------------------------------------------------------------------------
(* The inductive invariant                                                 *)

\* The accounting of HeapAccounting by place, whoever will free the objects.
HeapPlaced ==
  heap = (IF loader = "start" THEN {} ELSE GlobalValues)
    \cup (IF loader \in {"start", "unloaded"} THEN {} ELSE GlobalBuffers)
    \cup (IF udp = "recv" THEN RecvBuffers ELSE {})
    \cup (UNION {ReplyObjects(x) : x \in UdpHolds \cup
                                     {y \in Range(m_queued) \ {Poison} : ~IsLink(y)}})
    \cup (UNION {MessageObjects(x) : x \in UdpHolds \cup {y \in InMihf : ~IsLink(y)}})
    \cup (UNION {LinkObjects(x) : x \in {y \in InMihf : IsLink(y)}})
    \cup (UNION {AckObjects(x) : x \in AckInHand \cup InDispatch})

\* A task is in one place: in the receive buffer, with UdpHandler, or queued
\* (once) on mihf_queue, and everything but the wake-up datagram and the
\* poison has arrived.  The wake-up datagram is on its way only while
\* kill_net_hand_threads waits for the receiver or when the receiver is gone,
\* so a second stop sequence never queues a second one.
TasksPlaced ==
  /\ Once(net) /\ Once(m_queued)
  /\ Range(net) \cap Range(m_queued) = {}
  /\ UdpHolds \cap (Range(net) \cup Range(m_queued)) = {}
  /\ Range(net) \cup UdpHolds \cup Range(m_queued) \subseteq arrived \cup {Wakeup, Poison}
  /\ Wakeup \in Range(net) \cup UdpHolds \cup Range(m_queued) =>
       udp = "exited" \/ loader \in {"stop_udp", "join_udp"}
  /\ m_call["udp"] # "idle" => udp = "queue"

\* Where Acknowledge is, and where its call of queue_task is.
AckSteps ==
  /\ ackpc # "todo" => m_exec = "run" /\ WantsAck(m_task)
  /\ IF ackpc = "queueing" THEN d_call["mihf"] \in {"add", "up"}
                          ELSE d_call["mihf"] = "idle"

\* Which threads exist and which were stopped, as mod_Start and mod_End proceed.
StopOrder ==
  /\ udp = "none" <=> "udp" \notin kt
  /\ dev = "none" <=> "dev" \notin kt
  /\ loader \in {"stop_udp", "join_udp"} => "udp" \in kt
  /\ loader = "join_dev" => "dev" \in kt
  /\ loader \in {"start", "refused", "inetaddr", "run_udp"} => kt = {}
  /\ loader = "run_dispatch" \/ "dispatch" \in kt => "mihf" \in kt
  /\ m_call["loader"] # "idle" => "mihf" \in kt
  /\ loader \in {"stop_dev", "join_dev", "stop_mihf", "stop_dispatch", "unregister",
                 "unloaded"} /\ "wakeup_socket" \notin failed =>
       udp \in {"none", "exited"}
  /\ loader \in {"stop_mihf", "stop_dispatch", "unregister", "unloaded"} =>
       dev \in {"none", "exited"}
  /\ loader \in {"stop_dispatch", "unregister", "unloaded"} /\ "mihf" \in kt =>
       m_call["loader"] = "done"
  /\ loader \in {"unregister", "unloaded"} /\ "dispatch" \in kt =>
       d_call["loader"] = "done"

\* An executor runs only if mod_Start has created its thread.
ExecutorsCreated ==
  /\ m_exec # "created" => "mihf" \in kt
  /\ d_exec # "created" => "dispatch" \in kt

\* As long as no kthread_run has failed there is only one stop sequence, that
\* of mod_End, and a thread exits only after it was stopped.
StopOnce ==
  /\ udp = "exited" => "udp" \in stop \/ "udp_init" \in failed
  /\ dev = "exited" => "dev" \in stop
  /\ loader = "kthread_failure" => "kthread" \in failed
  /\ "kthread" \notin failed =>
       /\ loader \in {"wake", "stop_udp", "join_udp", "stop_dev", "join_dev",
                     "stop_mihf", "stop_dispatch"} => unloading
       /\ "udp" \in stop => loader \in {"join_udp", "stop_dev", "join_dev", "stop_mihf",
                                      "stop_dispatch", "unregister", "unloaded",
                                      "undefined"}
       /\ "dev" \in stop => loader \in {"join_dev", "stop_mihf", "stop_dispatch",
                                      "unregister", "unloaded", "undefined"}

\* What comes behind a poison: link events on mihf_queue, because the receiver
\* was stopped first, and nothing on dispatch_queue, because the executor of
\* mihf_queue was.
PoisonLast ==
  /\ m_call["loader"] # "idle" /\ "wakeup_socket" \notin failed =>
       udp \in {"none", "exited"}
  /\ d_call["loader"] # "idle" => m_exec \in {"exited", "cancelled"}
  /\ "wakeup_socket" \notin failed =>
       \A i, j \in 1..Len(m_queued) :
         i < j /\ m_queued[i] = Poison => m_queued[j] \in LinkEvent
  /\ \A i \in 1..Len(d_queued) : d_queued[i] = Poison => i = Len(d_queued)

\* The inductive invariant: both queues are used as TaskQueue expects, and the
\* module around them keeps account of its tasks, threads and memory.
IInv ==
  /\ TypeOK /\ M!IInv /\ D!IInv
  /\ TasksPlaced /\ AckSteps /\ AckExactlyOnce /\ HeapPlaced
  /\ StopOrder /\ ExecutorsCreated /\ StopOnce /\ StopsLiveThreads /\ PoisonLast

-----------------------------------------------------------------------------
(* Liveness                                                                *)

\* A queued request for acknowledgement is eventually answered, although both
\* executors run their handlers under a lock and handle_message takes the lock
\* of dispatch_queue while it holds that of mihf_queue (unless an executor was
\* stopped before it first ran).
AckEventuallySent ==
  \A d \in Datagram :
    (d.kind = "ackreq" /\ d \in Range(m_queued))
      ~> (d \in Range(sent) \/ "cancelled" \in {m_exec, d_exec})

\* rmmod terminates: the datagram of kill_net_hand_threads wakes a receiver
\* that sleeps in udp_recv (mih_mod.c 183-221), whenever the flag is raised
\* relative to its loop.
UnloadTerminates == loader = "wake" ~> loader = "unloaded"
=============================================================================
