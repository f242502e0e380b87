# A verification project for the MIH module

The repository is a Linux kernel module that implements a Media Independent
Handover Function (MIHF, IEEE 802.21), with a user-space daemon that is an older
version of the same function.  This directory holds TLA+ models of both, TLC runs
that check them, and TLAPS proofs about the task queue, the whole module around
its two queues, the encoding, messages on their way through both directions of it,
the exchange of messages, the link events and the daemon.  `PROJECT.json` maps every definition to the source lines it models.

## 1. The system

| Part | Source | State | Operations |
|---|---|---|---|
| Task queue | `queue.h` | list, semaphore, spinlock | `queue_task`, `execute_task`, `task_executor`, `stop_executor` |
| Life cycle | `mih_mod.c` | `_threads_should_stop`, thread pointers, global buffers | `mod_Start`, `kill_net_hand_threads`, `mod_End` |
| Network | `net_hand.c` | UDP socket | `UdpHandler`, `handle_message`, `handle_udp_reply` (TCP: disabled) |
| Devices | `dev_mon.c`, `mih_link_sap.c` | registered notifiers | `NetDevNotifier`, `DevMon`, `Link_*_indication` |
| Protocol | `proto.c` | none of its own | `ProcessRequest`, four dispatchers, 23 handlers, `Acknowledge` |
| Encoding | `message.c` | none | header, length field, octet string, MIHF id TLV, message |
| Daemon | `mihfd.c` | `_fds`, `_time_to_quit` | `SockInit`, poll loop, one thread per request, signals |
| Test client | `client.c` | none | connects to the daemon, writes one header, closes |
| Unused or stubs | `ksock.c`, `ho_eng.c`, most of `mih_sap.c` | | |

How they interact: `UdpHandler` and `NetDevNotifier` queue tasks on `mihf_queue`.
Its executor runs `handle_message`, which decodes the datagram, calls
`ProcessRequest`, and, when an acknowledgement is requested, queues a reply on
`dispatch_queue`, whose executor sends it.  `mod_End` stops the receiver, the
device monitor and the two executors, in this order.  The daemon is a program of
its own: `main` polls four sockets and creates a thread for each kind of input,
and all threads share the array that `poll` writes.

What is hard to get right: the semaphore is raised after the lock was released;
handlers run while the spinlock is held, and one of them takes the lock of the
other queue; a sleeping receiver has to be woken by a datagram; the notifiers
stay registered until the queues are gone; a kernel thread can be stopped before
it ever ran; `mod_Start` can fail half-way; the length field has two forms; the
carrier of a device is read later than it changed; a worker of the daemon decides
by the result of whichever poll came last.

## 2. Modules

| Module | Models |
|---|---|
| `SerialExecutor` | abstract: tasks run one by one, in order, until the poison |
| `TaskQueue` | `queue.h`, one step per point where threads can interfere |
| `SerialQueue` | what callers of `TaskQueue` rely on: fairness, liveness, the refinement of `SerialExecutor` |
| `TaskQueueProofs` | theorems about `TaskQueue` and `SerialQueue` |
| `MihModule` | the whole module around two instances of `TaskQueue`, and its inductive invariant |
| `MihTaskProofs` | lemmas: sequences and tasks, the types, the threads, where each task is, how `mihf_queue` is used |
| `MihAnswerProofs` | lemmas: answers, how `dispatch_queue` is used, what is behind a poison, allocations of the loader, the receiver and the notifiers |
| `MihModuleProofs` | lemmas: allocations of the handlers and executors; the theorems about `MihModule` |
| `Codec` | the encoding functions as operators on octet sequences |
| `Message` | packing a message and the loop of `unpack_mih_message` |
| `MessageProofs` | theorems about the length field of `Codec` and about `Message` |
| `Proto` | handlers, dispatchers, the header of an acknowledgement |
| `Exchange` | MIHFs over a network that loses, duplicates and reorders |
| `ExchangeProofs` | theorems about the header of `Codec`, `Proto` and `Exchange` |
| `LinkMonitor` | devices, the notifier and the indications that result |
| `LinkMonitorProofs` | theorems about `LinkMonitor` |
| `DaemonProto` | the daemon's cast of octets to a header, its dispatchers and handlers |
| `Daemon` | `SockInit`, the loop of `main`, the workers, signals, the clients |
| `DaemonProofs` | theorems about `DaemonProto` and `Daemon` |
| `MC*` | values of the constants for TLC |

**TaskQueue.** `list`, `sem` and `lock` are the fields of `struct task_queue`;
`call` and `exec` say where each thread is.  `Lock`, `Add`, `Up` are
`queue_task`; `KthreadStop` and `Join` complete `stop_executor`; `Down` to
`Finish` are `execute_task`; `Exit` is the sleep loop of `task_executor`.  The
handler runs between `Take` and `Finish` with the lock held, as in the code.
`queued`, `ran` and `interrupts` are history variables.  A task is queued at most
once: it stands for one call.  `kmalloc` succeeds, as the code assumes.

**Cancelled threads.** `kthread_stop` on a thread that was not yet scheduled makes
it exit without calling its function (`Start` with `should_stop`).  The queue is
then never drained; the properties say so explicitly.

**MihModule.** `loader` is the position in `mod_Start` or `mod_End`; `kt` the
non-null thread pointers; `stop` the threads that were told to stop; `udp` and
`dev` the positions of the two plain threads; `net` the receive buffer of the
socket; `heap` the live allocations.  A datagram is reduced to what
`handle_message` tells apart: undecodable, for another MIHF, for this one without
or with ACK-Req.  The names in `Faults` are the failures the code tests for, and
the failure of the wake-up `udp_send`, which it does not test.  The waits of the
executors are not interrupted here: kernel threads ignore signals, and
`allow_signal` in `mod_Start` acts on the process that loads the module.  A failed
`kthread_run` is NULL, because that is what the code compares with.  Calling
`kthread_stop` on a thread that has exited leads to `loader = "undefined"`.
`handle_udp_reply` sends the answer, or has no socket for it ("reply_socket"), or
cannot pack it ("reply_pack"), and frees it in each case.  It is never called
without a message; the failure of its `udp_send` is ignored by the code, so that
`sent` is what was handed to `udp_send`.

*Allocations.* `heap` has what lives from one step to the next, named by what it is
and by the task it belongs to: the buffers of `mih_Init`; the `rxaddr` and `buf` with
which `UdpHandler` waits in `udp_recv` (`RecvBuffers`: `UdpCheck` allocates them, a
datagram takes them over, and a failed receive keeps them for another try or frees
them when the thread is to stop); what comes with a datagram, an acknowledgement and
a link event.  `HeapAccounting` splits it: `Owned` is what a step that is still to come frees,
`Leaked` what none does, and when the module is `Gone` (refused or unloaded) nothing
is owned.  The leaks are the values of the two global TLVs, the global buffers if
`mod_Start` returns an error, the reply handler and the address of each datagram, and
what belongs to tasks on a queue whose executor has exited, was cancelled or was not
created.

**Codec, Message.** A C function that fills a buffer and returns a count is an
operator that returns both.  Octets behind the received ones are zero because
`UdpHandler` clears the buffer.  `Message` packs two MIHF id TLVs under any
header; ids repeat one printable octet, and messages that exceed the buffer are
not sent.

**Proto, Exchange.** Handlers have no effect but their result.  A packet carries a
header as octets and the MIHF ids as node names.  A node handles a packet in one
step; the queues inside a node are the subject of `MihModule`.  Replies leave from
a socket that is released at once, so an answer to it is lost.

**LinkMonitor.** `MihModule` has one kind of link event and no device.  Here the
devices are the state: `present`, `up`, `carrier`, and what the kernel has still to
notify (`replay`, `closing`, `linkwatch`).  The kernel's actions are external; they
keep the rules that a notifier relies on: calls under the rtnl lock, two of them
when a device closes, `NETDEV_CHANGE` late and only for a device that is up.
`TaskFor` is the switch of `NetDevNotifier`, and the three `DevLink` functions make
the tasks with their link types.  `queue` is the serial executor that `TaskQueue`
implements; `last` is what was indicated, `told` what was queued last, and `changed`
has the devices with a `NETDEV_CHANGE` since they were set up.  It is there because
`NETDEV_UP` does not look at the carrier: a device that is set up without one is
reported with Link_Up, and stays so until its carrier changes (`ReportedUp`).

**DaemonProto.** The daemon casts its buffer to the structure, whose layout is not
the wire format of `message.c`.  Its dispatchers and handlers leave `res`
uninitialised on some paths, so an operator is the set of the possible results.

**Daemon.** `fd`, `events` and `revents` are `_fds`; `fd` tells 0 ("stdin"), -1
("none"), a socket that `bind` or `listen` refused, and an open one.  `main` and
`pc` are the positions of the threads, with a step for each access to `revents` and
for every call that may block: a thread reads the `revents` of one slot in a step
(`MainTest`, `Pick`), so that another poll can come between the two sides of a
condition; a poll writes all of them at once.  `SockInit` may fail at every entry,
and `main` goes on.  `poll` is modelled by what Linux does: `POLLHUP` for a TCP
socket that does not listen, `EINTR` only when nothing is ready, `revents` cleared.
`sa_flags` is never set by `SigInit`, so it is any value of `SaFlags`.  A thread
limit (`Thread`) stands for that of the process; `pthread_create` then returns a
positive number, which `main` compares with -1.  The daemon processes the message
after the step of `read` or `recvfrom` in the same step, because handlers have no
effects.  `result` is a history of what became of each connection and datagram.

## 3. Runs

| Run | Shows | Bounds |
|---|---|---|
| `task_queue` | exclusion, no lost wake-up, FIFO, stop drains, tasks run, `stop_executor` returns, refinement of `SerialExecutor` | 2 callers and a stopper, 3 tasks, 2 interrupted waits |
| `mih_module` | acknowledged once, heap, drained, threads stopped; ACKs are sent, unload returns | 2 ACK-Req, 1 link event, no faults |
| `mih_module_faults` | the inductive invariant (types, acknowledgements, places, stop order) and the heap under every fault; each queue is used as `TaskQueue` says; when `kthread_stop` is unsafe | 1 ACK-Req, 1 foreign datagram, 1 link event, all nine faults in any combination |
| `wakeup_socket_fails` | violation, see below | one fault |
| `wakeup_send_fails` | violation, see below | one fault |
| `message` | what is accepted was sent; short ids are accepted; the loop progresses | fields at 0, 1 and maximum; 12 id lengths from 0 to 256 |
| `message_longest_id` | violation, see below | 5 id lengths |
| `exchange` | ACKs identify requests and are not acknowledged; dispatchers and handlers agree with `mih.h`, the information service excepted | 2 nodes, 2 messages of 19, 2 duplicate deliveries |
| `daemon` | connections have one owner, known requests are no errors, input is served | 2 connections, 1 datagram, 2 workers, 1 signal, 3 hosts |
| `daemon_signal` | violation, see below | as `daemon` |
| `daemon_tcp_wait` | violation, see below | no signal |
| `link_monitor` | for which devices Link_Up is the last word; going down, then down | Ethernet, wireless, other device; 4 events |

The bounds are the smallest at which the cases of interest occur.  Two callers and
a stopper contend for the lock, and three tasks make a queue in which order shows.
Two requests make the order of answers visible.  A link event can come before,
during and after the stop.  The id lengths lie on both sides of 128, where the
form of the length field changes for the string and for the TLV around it, and of
256.  The 19 messages of `exchange` are seven transactions to be told apart, and
twelve requests around the first and the last action of each service.  In `daemon`,
two workers are enough for one to overwrite what the other is about to read and for
surplus workers to exhaust the threads; the second connection is the one that makes
the listening socket ready again.  Its hosts have IPv6 without raw entries, the IPv4
list of the GNU C library with a standard input that has hung up, and no address.
It takes one signal and no `SA_RESTART`, which would interrupt fewer calls; a second
signal under `SA_RESETHAND` is in the model and in the proofs but not in this run.
Four events are enough for a device to go down and up again while its carrier
changes twice.  No run uses symmetry.  Deadlock is not checked, because every model
may stop: nobody has to send, queue, connect or unload.

**Fairness.** A thread that can take a step is scheduled again (weak fairness),
which is what the kernel's scheduler gives.  No fairness is assumed for calls from
outside: queueing, stopping, unloading, datagrams, link events, and entering
`queue_task`.  Failures are not obliged to happen where they are actions of their
own.  Weak fairness does not by itself promise a contended
spinlock to any one thread; it is enough here because the tasks are finitely many,
so that contention ends.  With an endless stream of tasks the liveness properties
would need a fair lock.  In the daemon each thread is scheduled, the three
seconds of a poll pass, and a client that has connected writes and closes, as
`client.c` does; nobody has to connect or to send a datagram or a signal.  `sent` means handed to `udp_send`: whether the reply
reaches its peer is the network's affair.

**What the violations show.**

* `wakeup_socket_fails`: when `sock_create` fails, `kill_net_hand_threads` returns
  before `kthread_stop` (`mih_mod.c:209`), and `mod_End` completes with the
  receiver running, under the comment "Stop kernel threads." (`mih_mod.c:229`).
* `wakeup_send_fails`: the result of `udp_send` is ignored (`mih_mod.c:218`).
  Without the datagram the receiver sleeps on and the unload never returns;
  the comment says "Use a socket to force the net_hand thread to wake up"
  (`mih_mod.c:183`).
* `message_longest_id`: ids of 128 octets or more are packed without an error and
  rejected by the receiver.  `mih.h:630` says "Maximum length: 253 characters, but
  limmited to 63 octets in some protocols that also use NAI identifiers": within
  the 63 octets the encoding is right, and up to 127.
* `daemon_tcp_wait`: the worker polls the listening sockets and not the connection
  that it has accepted (`mihfd.c:542`).  It reads only when another connection
  arrives; otherwise a request that is there is closed unread.  The comment says
  "waits up to 3 seconds to read data after connection establishment"
  (`mihfd.c:541`).
* `daemon_signal`: `SigHandler` only sets `_time_to_quit`, "a global variable to stop
  the main loop if we receive a signal" (`mihfd.c:51`).  `main` looks at it after a
  poll without a timeout (`mihfd.c:649`).  If the handler has run before `main` sleeps
  in this poll, or runs in a worker thread, and no request comes, the loop never
  stops.  The fairness of the run schedules every thread; nobody has to connect.

`RequestsServed` has an exception that is part of what the code does: input is not
served once every thread is a surplus worker that blocks (`Exhausted`).  A connection
that is closed unread counts as served here; `daemon_tcp_wait` is about those.

The question in `queue.h:56`, "Semaphore was interrupted. Fatal?", has an answer:
no.  Each interrupted wait may leave one surplus wake-up, never a missing one.

**Mutants.** For each property of a passing run, `PROJECT.json` names a plausible
bug (a definition with a comment "Mutant") under which TLC refutes the property.

## 4. Proofs

**The queue.**  `TaskQueueProofs` holds for every finite set of callers, any set of tasks and any
bound on interrupts.  `FifoOrder` and `NoLostWakeup` are not inductive alone: that
an entry counts once needs mutual exclusion, and `StopDrains` needs to know that
there is one poison and when `should_stop` is set.  The inductive invariant is

    IInv == TypeOK /\ MutualExclusion /\ NoLostWakeup /\ FifoOrder /\ PoisonOnce

with one lemma per action; the cardinality of the callers between `Add` and `Up`
is treated in three lemmas (`PostingAdd`, `PostingRemove`, `PostingSame`).
`StopDrains` follows from `IInv` without a further induction.  `Refinement` shows
that each step is a step of `SerialExecutor` or a stutter (safety part).  The
assumptions are `CallerAssumption`, `PoisonAssumption` and `InterruptAssumption`.

**The module.**  `MihTaskProofs`, `MihAnswerProofs` and `MihModuleProofs` hold for
any datagrams, any link events and any set of faults.  `UsesQueues` is the step that
makes the proof modular: each step of the module is a step of `M`, the `TaskQueue`
of `mihf_queue`, and of `D`, that of `dispatch_queue`, or leaves it unchanged.  So
the invariant of `TaskQueue` need not be proved again.  `MQ` and `DQ` are the same two
queues as instances of `TaskQueueProofs`, whose `InitIInv` and `NextIInv` then give
`M!IInv` and `D!IInv`, and whose `Refinement` gives `SerialQueues`.  But
`TaskQueue` lets a caller queue a task only once, and whether the module does so
depends on everything around the queues.  Hence the conjuncts of

    IInv == /\ TypeOK /\ M!IInv /\ D!IInv
            /\ TasksPlaced /\ AckSteps /\ AckExactlyOnce /\ HeapPlaced
            /\ StopOrder /\ ExecutorsCreated /\ StopOnce /\ StopsLiveThreads /\ PoisonLast

* `TasksPlaced`: a datagram is in the receive buffer, with `UdpHandler`, or queued,
  and in one of these only; that makes it new to `mihf_queue`.  The wake-up datagram
  is the hard case, because `kill_net_hand_threads` may run twice: it is around only
  while the loader waits for the receiver, or after the receiver is gone.
* `AckSteps` and `AckExactlyOnce`: an answer is new to `dispatch_queue`, because the
  answers queued are those of the requests that ran, and what is running has not run
  (`FifoOrder` of `M`).  That the answers are in the order of the requests
  (`SameOrder`) follows in the same way.
* `HeapPlaced`: the allocations by place, whoever frees them.  A step frees what its
  task owned, and the task is in no other place, which is `TasksPlaced` and
  `FifoOrder` again.  `HeapAccounting` follows without a further induction: `HeapSplit`
  divides the places into those that are owned and those that are not, for which an
  executor that was not created must not run (`ExecutorsCreated`), and `NothingOwned`
  shows that the former are empty at the end.
* `StopOrder` and `StopOnce`: which threads exist, and which are gone, at each
  position of the loader; this gives `StopsLiveThreads` and `UnloadStopsThreads`.
* `PoisonLast`: nothing but link events is behind the poison of `mihf_queue`, and
  nothing at all behind that of `dispatch_queue`.  With `FifoOrder` it gives
  `PipelineDrained`.

`ThreadsStop` and `PipelineDrains` carry the condition `"wakeup_socket" \notin failed`:
without it `UnloadStopsThreads` is false, as `wakeup_socket_fails` shows.  All other
faults may have occurred.  The run `mih_module` has no faults, so there the condition
holds in every state.  The assumptions are those at the head of `MihModule`: tasks
have different ids, the wake-up datagram has its own, kinds are as listed, and the
poison is not a task.

**The encoding.**  `ExchangeProofs` proves that header packing and unpacking are
inverse on headers with zero reserved bits, and that an acknowledgement keeps its
transaction over the wire and does not ask for one.  `MessageProofs` has the length
field: `Field(n)` is what `pack_variable_length_field` writes for `n` where there is
room (`PackField`); lengths up to 128 survive, and each longer one loses exactly 128,
which is the cause of `message_longest_id`.

**Messages.**  The rest of `MessageProofs` holds for any set of headers and any lengths
of the two ids, up to what fits the buffer.  `AcceptedIsSent` says nothing before the
loop of `unpack_mih_message` has ended, and `InStep` nothing behind an id of more than
127 octets, so neither is inductive.  `Standing` says where the loop can be, for ids of
`a` and `b` octets: at the start; behind the first or behind both TLVs, if their ids
were short; or 128 octets short of the end of a TLV whose id has more than 128 octets,
with the last 128 octets of this id still to come.

    IInv == \/ Init
            \/ /\ pc \in {"wire", "unpack", "accepted", "rejected"}
               /\ \E a, b \in Nat : Sent(a, b) /\ Receiving(a, b)

`Sent` has the octets of the datagram as the concatenation of its parts; `Receiving`
contains `Standing`.  An iteration meets one of four cases, each a lemma about
`unpack_mih_tlv` at a position of any buffer: an id of at most 127 octets is read as it
was written (`UnpackShort`); one of 128 octets is refused at once, because the length of
the TLV loses 128 and that of the string does not (`UnpackEdge`); a longer one is cut
short by 128 (`UnpackLong`); and what the loop then takes for the type is an octet of an
id, which is the type of no MIHF id TLV, so the message is refused (`UnpackAstray`).  The
last case is why `AcceptedIsSent` holds although lengths above 128 are misread, and it
depends on the octet that ids consist of.  Besides that, the assumptions are that ids and
headers are of their types and that a payload that fits the buffer has a length of 16
bits (`PayloadAssumption`).

**The exchange.**  The rest of `ExchangeProofs` holds for any MIHFs, any messages and any loss, duplication and
order.  `NoAckStorm` counts, so its step needs the lemma `CountedAppend` on the
set of deliveries that ask for an answer; `AckIdentifiesRequest` needs that
a packet in the network that asks for an answer is one that a user sent.  Users
send whole headers without ACK-Rsp (`RequestAssumption`).  `DispatchAgrees` goes through every
dispatcher and handler for arbitrary headers: what is taken is what `mih.h` lists for the
management, event and command services.  `InformationDispatch` has the fourth: `ProcessInfo`
takes the actions 2 to 5 of the management service, where `mih.h` lists 1 and 2.

**Link events.**  `LinkMonitorProofs` holds for any set of devices and any number of events.
`SettledAgrees` says nothing while tasks are queued, so the induction is on the
whole queue: what was last told is the last entry for the device or, without one,
what was last indicated (`QueueTold`); behind each Link_Going_Down of a device comes
its Link_Down (`QueuePaired`); and what was told agrees with the state of the device
unless a notification is outstanding (`StateTold`, `ClosingTold`).  A device that was set
up without a carrier is told to be up as long as it is not in `changed`.

**The daemon.**  `DaemonProofs` holds for any number of threads, connections
and datagrams, any messages, any list of addresses and any `sa_flags`.
`ConnectionsOwned` needs that a connection is in one place only: queued once, or
open, or finished (`Once`), and that sockets and threads hold what is of their kind
(`Places`):

    IInv == TypeOK /\ Places /\ Once /\ ConnectionsOwned /\ ErrorsJustified

`ErrorsJustified` rests on `KnownRequestsTaken`, which goes through the switches.
In the same module `StructRoundTrip` shows that the cast
inverts the layout in which `client.c` writes; `WireMisread` shows what it makes of
the wire format of `message.c`.  The assumptions are those at the head of `Daemon`: a connection carries nothing or at
least a header, and a datagram at least a header.

Only model-checked: liveness (`TaskEventuallyRuns`, `StopTerminates`,
`AckEventuallySent`, `UnloadTerminates`, `RequestsServed`) and the liveness
part of the refinement, because fairness and ENABLED are out of the prover's reach.
Every safety invariant and action property of a passing run is proved, two of them under
the condition on the wake-up socket.

## 5. Not modelled

* `UnixSockInit` in `mihfd.c`, which nothing calls; messages that arrive in
  fragments or are shorter than a header; addresses and the output buffer, which
  the daemon does not use; descriptors that `SockInit` leaves behind when a slot is
  overwritten.
* The TCP side of `net_hand.c`: its thread is commented out in `mod_Start`.
* `InAddrNotifier`, which only logs; the addresses in link identifiers, which no
  indication reads.
* Failing allocations, and sleeping while a spinlock is held: the code does both,
  and what the kernel then does is outside these models.
* Messages with fewer than two TLVs or other types, and arbitrary octets as input.
* Stubs and unused files: `ksock.c`, `ho_eng.c`, most of `mih_sap.c` (its request to
  discover capabilities builds a header and sends nothing).
* `data.h`, `ext_types.h` and most of `mih.h`: type definitions without operations.

## 6. Plan

Done, in order of importance: `TaskQueue` (everything rests on it), `MihModule`,
`Codec` and `Message`, `Proto` and `Exchange`, then `Daemon` and `LinkMonitor` with
their proofs, then the proofs about `MihModule`, then those about `Message`.  Next:

1. A daemon with more workers than inputs, to bound how many surplus workers a
   burst creates.
