-------------------------------- MODULE Daemon -------------------------------
(***************************************************************************)
(* The user-space daemon (mihfd.c): SigInit and SockInit, the poll loop of *)
(* main, the worker threads that main creates for TCP and UDP input,       *)
(* signals, and the clients.                                               *)
(*                                                                         *)
(* All threads share the array _fds: every poll, of main or of a TCP       *)
(* worker, overwrites its revents, and every thread decides what to do by  *)
(* reading them later.  A step of a thread reads the revents of one slot,  *)
(* or goes up to a call that may block; a poll writes all of them.         *)
(***************************************************************************)
EXTENDS DaemonProto, FiniteSets

CONSTANTS
  Host,       \* where the daemon may be started: what getaddrinfo returns there,
              \* and whether standard input has hung up
  SaFlags,    \* the values that the uninitialised sa_flags may have
  Thread,     \* the worker threads that the process may have at a time
  Conn,       \* the TCP connections that clients make
  Dgram,      \* the UDP datagrams that clients send
  Msg,        \* the octets sent over each of them, none if a client only connects
  NoConn,     \* no connection
  MaxSignals  \* bound on the signals that are sent

Slot == {"TCP4", "UDP4", "TCP6", "UDP6"}
TcpSlot == {"TCP4", "TCP6"}
UdpSlot == {"UDP4", "UDP6"}
NoSlot == "none"

Entry == [family : {"AF_INET", "AF_INET6"},
          socktype : {"SOCK_STREAM", "SOCK_DGRAM", "SOCK_RAW"}]

Flag == {"SA_RESTART", "SA_RESETHAND"}

ASSUME HostAssumption == Host \subseteq [addrinfo : Seq(Entry), hup : BOOLEAN]
ASSUME FlagAssumption == SaFlags \subseteq SUBSET Flag
ASSUME ClientAssumption == NoConn \notin Conn /\ Conn \cap Dgram = {}
ASSUME MsgAssumption ==
  /\ \A x \in Conn \cup Dgram : Msg[x] \in Seq(Octet)
  /\ \A x \in Conn : Msg[x] = << >> \/ Len(Msg[x]) >= HeaderSize
  /\ \A x \in Dgram : Len(Msg[x]) >= HeaderSize
ASSUME SignalAssumption == MaxSignals \in Nat

VARIABLES
  main,     \* where the main thread is
  todo,     \* the entries that SockInit has still to go through
  flags,    \* sa_flags
  hup,      \* standard input has hung up
  fd,       \* _fds[].fd: "stdin" is 0 and "none" is -1
  events,   \* _fds[].events has POLLIN
  revents,  \* _fds[].revents has POLLIN
  queue,    \* connections that wait for accept, datagrams that wait for recvfrom
  pc,       \* where each worker thread is
  ind,      \* the slot that it works on
  newsock,  \* the connection that it has accepted
  open,     \* the accepted connections whose descriptor is open
  client,   \* what the client of each connection has done
  sent,     \* the datagrams that were sent
  quit,     \* _time_to_quit
  signals,  \* history: how many signals were sent
  result    \* history: what became of each connection and datagram

initvars == <<todo, flags, hup, fd, events>>
workers == <<pc, ind, newsock, open>>
clients == <<client, sent>>
vars == <<main, initvars, revents, queue, workers, clients, quit, signals, result>>

MainPC == {"siginit", "sockinit", "poll", "tcp4", "tcp6", "udp4", "udp6", "test",
           "exited", "killed"}

WorkerPC == {"free", "tcp_pick4", "tcp_pick6", "tcp_recheck", "accept", "wait", "waited",
             "read", "udp_pick4", "udp_pick6", "udp_recheck", "recv"}

Ended == main \in {"exited", "killed"}

Init ==
  /\ main = "siginit"
  /\ \E h \in Host : todo = h.addrinfo /\ hup = h.hup
  /\ flags = {}
  /\ fd = [s \in Slot |-> "stdin"]
  /\ events = [s \in Slot |-> FALSE]
  /\ revents = [s \in Slot |-> FALSE]
  /\ queue = [s \in Slot |-> << >>]
  /\ pc = [t \in Thread |-> "free"]
  /\ ind = [t \in Thread |-> NoSlot]
  /\ newsock = [t \in Thread |-> NoConn]
  /\ open = {}
  /\ client = [c \in Conn |-> "idle"]
  /\ sent = {}
  /\ quit = FALSE
  /\ signals = 0
  /\ result = [x \in Conn \cup Dgram |-> "none"]

-----------------------------------------------------------------------------
(* SigInit and SockInit                                                    *)

\* sigaction does not fail for these signals; sa_flags is what was on the stack.
SigInit ==
  /\ main = "siginit"
  /\ flags' \in SaFlags
  /\ main' = "sockinit"
  /\ UNCHANGED <<todo, hup, fd, events, revents, queue, workers, clients, quit,
                 signals, result>>

\* The slot for an entry: what is not a stream socket is taken for UDP.
SlotOf(e) ==
  CASE e.family = "AF_INET" /\ e.socktype = "SOCK_STREAM" -> "TCP4"
    [] e.family = "AF_INET" /\ e.socktype # "SOCK_STREAM" -> "UDP4"
    [] e.family = "AF_INET6" /\ e.socktype = "SOCK_STREAM" -> "TCP6"
    [] OTHER -> "UDP6"

\* An entry for which socket, bind and, for TCP, listen succeed.  There is no
\* raw socket for protocol 0.
OpenSocket ==
  /\ main = "sockinit"
  /\ todo # << >>
  /\ Head(todo).socktype # "SOCK_RAW"
  /\ fd' = [fd EXCEPT ![SlotOf(Head(todo))] = "open"]
  /\ events' = [events EXCEPT ![SlotOf(Head(todo))] = TRUE]
  /\ todo' = Tail(todo)
  /\ UNCHANGED <<main, flags, hup, revents, queue, workers, clients, quit, signals,
                 result>>

\* socket fails: SockInit returns -1, and main calls Quit, which only removes
\* a file, and goes on to its loop.
SocketFails ==
  /\ main = "sockinit"
  /\ todo # << >>
  /\ fd' = [fd EXCEPT ![SlotOf(Head(todo))] = "none"]
  /\ main' = "poll"
  /\ UNCHANGED <<todo, flags, hup, events, revents, queue, workers, clients, quit,
                 signals, result>>

\* bind or listen fails: the same with a descriptor that is of no use.  The
\* options that are set on a socket that listens do not fail.
BindFails ==
  /\ main = "sockinit"
  /\ todo # << >>
  /\ Head(todo).socktype # "SOCK_RAW"
  /\ fd' = [fd EXCEPT ![SlotOf(Head(todo))] = "unbound"]
  /\ main' = "poll"
  /\ UNCHANGED <<todo, flags, hup, events, revents, queue, workers, clients, quit,
                 signals, result>>

\* All entries were gone through.  Without any, SockInit returns -1, as it does
\* when getaddrinfo fails, which is the empty list here; main goes on anyway.
SockInitReturns ==
  /\ main = "sockinit"
  /\ todo = << >>
  /\ main' = "poll"
  /\ UNCHANGED <<initvars, revents, queue, workers, clients, quit, signals, result>>

-----------------------------------------------------------------------------
(* poll on _fds                                                            *)

Ready(s) == fd[s] = "open" /\ events[s] /\ queue[s] # << >>

\* POLLHUP is reported without being asked for: by a TCP socket that neither
\* listens nor is connected, and by a standard input that has hung up.
HangUp(s) == (fd[s] = "unbound" /\ s \in TcpSlot) \/ (fd[s] = "stdin" /\ hup)

\* poll has something to return.
Event == \E s \in Slot : Ready(s) \/ HangUp(s)

Readiness == [s \in Slot |-> Ready(s)]

Nothing == [s \in Slot |-> FALSE]

\* _fds[s].fd != 0 && _fds[s].revents & POLLIN
Polled(s) == fd[s] # "stdin" /\ revents[s]

-----------------------------------------------------------------------------
(* The loop of main                                                        *)

MainPoll ==
  /\ main = "poll"
  /\ Event
  /\ revents' = Readiness
  /\ main' = "tcp4"
  /\ UNCHANGED <<initvars, queue, workers, clients, quit, signals, result>>

\* pthread_create.  At the limit it fails with a positive number, which the
\* code does not take for a failure.
Spawn(start) ==
  LET free == {t \in Thread : pc[t] = "free"}
  IN  pc' = IF free = {} THEN pc
            ELSE [pc EXCEPT ![CHOOSE t \in free : TRUE] = start]

\* One side of the || in the conditions of main: start a thread and go on, or
\* look at the other side, if there is one.
MainTest(from, s, start, to, otherwise) ==
  /\ main = from
  /\ \/ Polled(s) /\ Spawn(start) /\ main' = to
     \/ ~Polled(s) /\ main' = otherwise /\ UNCHANGED pc
  /\ UNCHANGED <<initvars, revents, queue, ind, newsock, open, clients, quit, signals,
                 result>>

MainTcp ==
  \/ MainTest("tcp4", "TCP4", "tcp_pick4", "udp4", "tcp6")
  \/ MainTest("tcp6", "TCP6", "tcp_pick4", "udp4", "udp4")

MainUdp ==
  \/ MainTest("udp4", "UDP4", "udp_pick4", "test", "udp6")
  \/ MainTest("udp6", "UDP6", "udp_pick4", "test", "test")

\* The process ends, and all its threads and descriptors with it.
End(how) ==
  /\ main' = how
  /\ pc' = [t \in Thread |-> "free"]
  /\ newsock' = [t \in Thread |-> NoConn]
  /\ open' = {}
  /\ ind' = [t \in Thread |-> NoSlot]
  /\ UNCHANGED <<initvars, revents, queue, clients, result>>

\* while (!_time_to_quit)
MainLoops ==
  /\ main = "test"
  /\ ~quit
  /\ main' = "poll"
  /\ UNCHANGED <<initvars, revents, queue, workers, clients, quit, signals, result>>

MainReturns ==
  /\ main = "test"
  /\ quit
  /\ End("exited")
  /\ UNCHANGED <<quit, signals>>

-----------------------------------------------------------------------------
(* HandleTcpRequest                                                        *)

Goto(t, where) == pc' = [pc EXCEPT ![t] = where]

\* pthread_exit: the thread's variables are gone.
Exit(t) == Goto(t, "free") /\ ind' = [ind EXCEPT ![t] = NoSlot]

\* One branch of the if with which a thread chooses its socket, by the revents of
\* whatever poll came last: take slot s, or go on to the next branch, or exit.
Pick(t, from, s, found, otherwise) ==
  /\ pc[t] = from
  /\ \/ Polled(s) /\ Goto(t, found) /\ ind' = [ind EXCEPT ![t] = s]
     \/ ~Polled(s) /\ Goto(t, otherwise) /\ UNCHANGED ind
  /\ UNCHANGED <<main, initvars, revents, queue, newsock, open, clients, quit, signals,
                 result>>

TcpPick(t) ==
  \/ Pick(t, "tcp_pick4", "TCP4", "tcp_recheck", "tcp_pick6")
  \/ Pick(t, "tcp_pick6", "TCP6", "tcp_recheck", "free")

TcpRecheck(t) ==
  /\ pc[t] = "tcp_recheck"
  /\ \/ Polled(ind[t]) /\ Goto(t, "accept") /\ UNCHANGED ind
     \/ ~Polled(ind[t]) /\ Exit(t)
  /\ UNCHANGED <<main, initvars, revents, queue, newsock, open, clients, quit,
                 signals, result>>

Accept(t) ==
  /\ pc[t] = "accept"
  /\ queue[ind[t]] # << >>
  /\ newsock' = [newsock EXCEPT ![t] = Head(queue[ind[t]])]
  /\ open' = open \cup {Head(queue[ind[t]])}
  /\ queue' = [queue EXCEPT ![ind[t]] = Tail(@)]
  /\ Goto(t, "wait")
  /\ UNCHANGED <<main, initvars, revents, ind, clients, quit, signals, result>>

\* The second poll is on _fds again and not on the new connection.
WaitReady(t) ==
  /\ pc[t] = "wait"
  /\ Event
  /\ revents' = Readiness
  /\ Goto(t, "waited")
  /\ UNCHANGED <<main, initvars, queue, ind, newsock, open, clients, quit, signals,
                 result>>

\* Mutant: the connection is closed only after it was read.
LeaveUnclosed(t, outcome) ==
  /\ UNCHANGED open
  /\ newsock' = [newsock EXCEPT ![t] = NoConn]
  /\ result' = [result EXCEPT ![newsock[t]] = outcome]
  /\ Exit(t)

\* close(newsock), and the thread exits.
Leave(t, outcome) ==
  /\ open' = open \ {newsock[t]}
  /\ newsock' = [newsock EXCEPT ![t] = NoConn]
  /\ result' = [result EXCEPT ![newsock[t]] = outcome]
  /\ Exit(t)

\* What a close without a read means for the client.
Unread(t) ==
  IF client[newsock[t]] = "closed" /\ Msg[newsock[t]] # << >> THEN "unread"
  ELSE "dropped"

\* Three seconds pass: poll returns 0.
WaitTimeout(t) ==
  /\ pc[t] = "wait"
  /\ ~Event
  /\ revents' = Nothing
  /\ Leave(t, Unread(t))
  /\ UNCHANGED <<main, initvars, queue, clients, quit, signals>>

\* The connection is read only if its listening socket was reported again.
Waited(t) ==
  /\ pc[t] = "waited"
  /\ \/ /\ Polled(ind[t])
        /\ Goto(t, "read")
        /\ UNCHANGED <<ind, newsock, open, result>>
     \/ /\ ~Polled(ind[t])
        /\ Leave(t, Unread(t))
  /\ UNCHANGED <<main, initvars, revents, queue, clients, quit, signals>>

\* What may come of ProcessRequest for a message: its caller logs an error when
\* it returns -1.
Outcome(res) == IF res = -1 THEN "error" ELSE "ok"

\* Without a message, read returns 0, and the buffer is whatever was on the stack.
Outcomes ==
  [x \in Conn \cup Dgram |->
     {Outcome(res) : res \in IF Msg[x] = << >> THEN Uninitialised
                             ELSE ProcessRequest(CastHeader(Msg[x]))}]

\* read returns once the client has written or closed.
Read(t) ==
  /\ pc[t] = "read"
  /\ client[newsock[t]] = "closed"
  /\ \E outcome \in Outcomes[newsock[t]] : Leave(t, outcome)
  /\ UNCHANGED <<main, initvars, revents, queue, clients, quit, signals>>

-----------------------------------------------------------------------------
(* HandleUdpRequest                                                        *)

\* Mutant: the thread looks at the first socket only.
UdpPickFirst(t) == Pick(t, "udp_pick4", "UDP4", "udp_recheck", "free")

UdpPick(t) ==
  \/ Pick(t, "udp_pick4", "UDP4", "udp_recheck", "udp_pick6")
  \/ Pick(t, "udp_pick6", "UDP6", "udp_recheck", "free")

\* Mutant: copied from HandleTcpRequest, with its accept.
UdpRecheckAccepts(t) ==
  /\ pc[t] = "udp_recheck"
  /\ \/ Polled(ind[t]) /\ Goto(t, "accept") /\ UNCHANGED ind
     \/ ~Polled(ind[t]) /\ Exit(t)
  /\ UNCHANGED <<main, initvars, revents, queue, newsock, open, clients, quit,
                 signals, result>>

UdpRecheck(t) ==
  /\ pc[t] = "udp_recheck"
  /\ \/ Polled(ind[t]) /\ Goto(t, "recv") /\ UNCHANGED ind
     \/ ~Polled(ind[t]) /\ Exit(t)
  /\ UNCHANGED <<main, initvars, revents, queue, newsock, open, clients, quit,
                 signals, result>>

\* recvfrom and ProcessRequest.
Recv(t) ==
  /\ pc[t] = "recv"
  /\ queue[ind[t]] # << >>
  /\ LET d == Head(queue[ind[t]])
     IN  \E outcome \in Outcomes[d] : result' = [result EXCEPT ![d] = outcome]
  /\ queue' = [queue EXCEPT ![ind[t]] = Tail(@)]
  /\ Exit(t)
  /\ UNCHANGED <<main, initvars, revents, newsock, open, clients, quit, signals>>

-----------------------------------------------------------------------------
(* Signals.  The handler runs in any thread.                               *)

\* Without SigInit, or again after SA_RESETHAND, the signal ends the process.
SignalKills ==
  /\ ~Ended /\ signals < MaxSignals
  /\ main = "siginit" \/ (quit /\ "SA_RESETHAND" \in flags)
  /\ End("killed")
  /\ signals' = signals + 1
  /\ UNCHANGED quit

Handler ==
  /\ ~Ended /\ main # "siginit" /\ signals < MaxSignals
  /\ signals' = signals + 1
  /\ quit' = TRUE
  /\ UNCHANGED <<initvars, clients>>

\* No call is interrupted: the thread is not in one, or one that restarts.
SignalNoted ==
  /\ Handler
  /\ UNCHANGED <<main, revents, queue, workers, result>>

\* The poll of main returns -1.
SignalWakesMain ==
  /\ Handler
  /\ main = "poll" /\ ~Event
  /\ revents' = Nothing
  /\ main' = "test"
  /\ UNCHANGED <<queue, workers, result>>

\* A blocking call of a worker fails: poll always, the others unless SA_RESTART.
SignalWakesWorker(t) ==
  /\ Handler
  /\ \/ /\ pc[t] = "wait" /\ ~Event
        /\ revents' = Nothing
        /\ Leave(t, Unread(t))
     \/ /\ "SA_RESTART" \notin flags
        /\ pc[t] \in {"accept", "recv"} /\ queue[ind[t]] = << >>
        /\ Exit(t)
        /\ UNCHANGED <<revents, newsock, open, result>>
     \/ /\ "SA_RESTART" \notin flags
        /\ pc[t] = "read" /\ client[newsock[t]] = "connected"
        /\ Leave(t, "dropped")
        /\ UNCHANGED revents
  /\ UNCHANGED <<main, queue>>

-----------------------------------------------------------------------------
(* The clients                                                             *)

\* The second argument of listen.
Backlog == 5

\* The sockets are set up.  What arrives before the loop begins waits for it.
Serving == main \in {"poll", "tcp4", "tcp6", "udp4", "udp6", "test"}

Connect(c, s) ==
  /\ Serving /\ client[c] = "idle"
  /\ fd[s] = "open" /\ Len(queue[s]) < Backlog
  /\ client' = [client EXCEPT ![c] = "connected"]
  /\ queue' = [queue EXCEPT ![s] = Append(@, c)]
  /\ UNCHANGED <<main, initvars, revents, workers, sent, quit, signals, result>>

\* write, if there is something to write, and close, whether the daemon still
\* has the connection or not.
WriteAndClose(c) ==
  /\ Serving /\ client[c] = "connected"
  /\ client' = [client EXCEPT ![c] = "closed"]
  /\ UNCHANGED <<main, initvars, revents, queue, workers, sent, quit, signals, result>>

SendTo(d, s) ==
  /\ Serving /\ d \notin sent
  /\ fd[s] = "open"
  /\ sent' = sent \cup {d}
  /\ queue' = [queue EXCEPT ![s] = Append(@, d)]
  /\ UNCHANGED <<main, initvars, revents, workers, client, quit, signals, result>>

-----------------------------------------------------------------------------

MainNext ==
  \/ SigInit \/ OpenSocket \/ SocketFails \/ BindFails \/ SockInitReturns
  \/ MainPoll \/ MainTcp \/ MainUdp \/ MainLoops \/ MainReturns

WorkerNext(t) ==
  \/ TcpPick(t) \/ TcpRecheck(t) \/ Accept(t) \/ WaitReady(t) \/ WaitTimeout(t)
  \/ Waited(t) \/ Read(t)
  \/ UdpPick(t) \/ UdpRecheck(t) \/ Recv(t)

SignalNext ==
  SignalKills \/ SignalNoted \/ SignalWakesMain \/ \E t \in Thread : SignalWakesWorker(t)

ClientNext ==
  \/ \E c \in Conn, s \in TcpSlot : Connect(c, s)
  \/ \E c \in Conn : WriteAndClose(c)
  \/ \E d \in Dgram, s \in UdpSlot : SendTo(d, s)

Next == MainNext \/ (\E t \in Thread : WorkerNext(t)) \/ SignalNext \/ ClientNext

Spec == Init /\ [][Next]_vars

\* Every thread is scheduled, the three seconds pass, and a client that has
\* connected writes and closes, as client.c does.  Nobody is obliged to connect,
\* to send a datagram or a signal.
Fairness ==
  /\ WF_vars(MainNext)
  /\ \A t \in Thread : WF_vars(WorkerNext(t))
  /\ \A c \in Conn : WF_vars(WriteAndClose(c))

FairSpec == Spec /\ Fairness

-----------------------------------------------------------------------------
(* Properties                                                              *)

TypeOK ==
  /\ main \in MainPC
  /\ todo \in Seq(Entry)
  /\ flags \in SUBSET Flag
  /\ hup \in BOOLEAN
  /\ fd \in [Slot -> {"stdin", "none", "unbound", "open"}]
  /\ events \in [Slot -> BOOLEAN]
  /\ revents \in [Slot -> BOOLEAN]
  /\ queue \in [Slot -> Seq(Conn \cup Dgram)]
  /\ pc \in [Thread -> WorkerPC]
  /\ ind \in [Thread -> Slot \cup {NoSlot}]
  /\ newsock \in [Thread -> Conn \cup {NoConn}]
  /\ open \subseteq Conn
  /\ client \in [Conn -> {"idle", "connected", "closed"}]
  /\ sent \subseteq Dgram
  /\ quit \in BOOLEAN
  /\ signals \in 0..MaxSignals
  /\ result \in [Conn \cup Dgram -> {"none", "ok", "error", "dropped", "unread"}]

Holding == {"wait", "waited", "read"}

\* Accepted connections are closed again (mihfd.c 532-562): whatever the polls,
\* time-outs and signals of the other threads do, each open descriptor belongs
\* to exactly one worker that has yet to close it, and no worker uses a
\* connection that was closed or that another worker has.
ConnectionsOwned ==
  /\ open = {newsock[t] : t \in {u \in Thread : pc[u] \in Holding}}
  /\ \A t, u \in Thread :
       pc[t] \in Holding /\ pc[u] \in Holding /\ newsock[t] = newsock[u] => t = u
  /\ \A c \in open : result[c] = "none"

\* A request for an action that mih.h lists is not reported as an error, by
\* whichever path it came (mihfd.c 551 and 606, through the casts and switches
\* of 290-497 and the `res' that they leave uninitialised).
ErrorsJustified ==
  \A x \in Conn \cup Dgram :
    result[x] = "error" /\ Msg[x] # << >> =>
      CastHeader(Msg[x]).opcode # REQUEST \/ ~KnownAction(CastHeader(Msg[x]))

\* Every connection that was made and every datagram that was sent has been dealt
\* with.
Served ==
  /\ \A c \in Conn : client[c] # "idle" => result[c] # "none"
  /\ \A d \in sent : result[d] # "none"

\* Every thread is a surplus one, blocked on a socket that another has emptied.
Exhausted ==
  \A t \in Thread : pc[t] \in {"accept", "recv"} /\ queue[ind[t]] = << >>

\* Input is served (mihfd.c 647-675): once clients have stopped making it, every
\* connection has been accepted and closed again and every datagram processed,
\* whatever polls have overwritten the revents meanwhile -- unless the process
\* ends, or the surplus workers that main starts while the first has not yet
\* taken the input have used up all threads and are blocked for good.  Each input
\* is made once, so this is what it is for each of them to be served eventually.
RequestsServed == <>[]Served \/ <>[]Ended \/ <>[]Exhausted

\* "a global variable to stop the main loop if we receive a signal" (mihfd.c 51):
\* once SigHandler has set it, the process ends.
QuitStops == quit ~> Ended

\* The worker reads what arrives within three seconds of the connection
\* (the comment at mihfd.c 541): no connection is closed whose request has
\* arrived and was not read.
RequestRead == \A c \in Conn : result[c] # "unread"
=============================================================================
