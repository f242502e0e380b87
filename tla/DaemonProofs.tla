---------------------------- MODULE DaemonProofs -----------------------------
(***************************************************************************)
(* Proofs about the user-space daemon: how the cast of its buffer reads a  *)
(* header and which requests it handles; and, for any number of threads    *)
(* and clients, that accepted connections are owned and errors justified,  *)
(* from an inductive invariant about where a connection is.                *)
(***************************************************************************)
EXTENDS Daemon, TLAPS

-----------------------------------------------------------------------------
(* Headers                                                                 *)

\* The bounds of the fields of a header (mih.h 716-768).
LEMMA Fields ==
  ASSUME NEW h \in mih_header_t
  PROVE  /\ h.version \in Nat /\ h.version < 16
         /\ h.ackreq \in Nat /\ h.ackreq < 2
         /\ h.ackrsp \in Nat /\ h.ackrsp < 2
         /\ h.uir \in Nat /\ h.uir < 2
         /\ h.morefragment \in Nat /\ h.morefragment < 2
         /\ h.fragmentnumber \in Nat /\ h.fragmentnumber < 128
         /\ h.rsvd1 \in Nat /\ h.rsvd1 < 2
         /\ h.sid \in Nat /\ h.sid < 16
         /\ h.opcode \in Nat /\ h.opcode < 4
         /\ h.aid \in Nat /\ h.aid < 1024
         /\ h.rsvd2 \in Nat /\ h.rsvd2 < 16
         /\ h.tid \in Nat /\ h.tid < 4096
         /\ h.payloadlength \in Nat /\ h.payloadlength < 65536
  BY SMT DEF mih_header_t, Below, Bit

\* The cast of mihfd.c (544-551, 596-606) reads back the structure that client.c
\* writes (69-96), whatever the thirteen fields are.
THEOREM StructRoundTrip ==
  ASSUME NEW h \in mih_header_t
  PROVE  CastHeader(StructOctets(h)) = h
<1> DEFINE b == StructOctets(h)
           g == CastHeader(b)
<1>1. /\ b[1] = h.version + h.ackreq * 16 + h.ackrsp * 32 + h.uir * 64
                  + h.morefragment * 128
      /\ b[2] = h.fragmentnumber + h.rsvd1 * 128
      /\ b[3] = h.sid + h.opcode * 16 + (h.aid % 4) * 64
      /\ b[4] = h.aid \div 4
      /\ b[5] = h.rsvd2 + (h.tid % 16) * 16
      /\ b[6] = h.tid \div 16
      /\ b[7] = Low(h.payloadlength) /\ b[8] = High(h.payloadlength)
  BY DEF StructOctets
<1> HIDE DEF b
<1>2. /\ g.version = h.version /\ g.ackreq = h.ackreq /\ g.ackrsp = h.ackrsp
      /\ g.uir = h.uir /\ g.morefragment = h.morefragment
  <2> DEFINE v == h.version  a == h.ackreq  r == h.ackrsp  u == h.uir
             m == h.morefragment  o == b[1]
  <2>1. /\ v \in Nat /\ v < 16 /\ a \in Nat /\ a < 2 /\ r \in Nat /\ r < 2
        /\ u \in Nat /\ u < 2 /\ m \in Nat /\ m < 2
    BY Fields, SMT
  <2>2. o = v + a * 16 + r * 32 + u * 64 + m * 128
    BY ONLY <1>1, SMT
  <2> HIDE DEF v, a, r, u, m, o
  <2>3. /\ o % 16 = v /\ (o \div 16) % 2 = a /\ (o \div 32) % 2 = r
        /\ (o \div 64) % 2 = u /\ o \div 128 = m
    BY ONLY <2>1, <2>2, SMT
  <2> QED
    BY ONLY <2>3, SMT DEF v, a, r, u, m, o, CastHeader
<1>3. g.fragmentnumber = h.fragmentnumber /\ g.rsvd1 = h.rsvd1
  <2> DEFINE f == h.fragmentnumber  r == h.rsvd1  o == b[2]
  <2>1. f \in Nat /\ f < 128 /\ r \in Nat /\ r < 2
    BY Fields, SMT
  <2>2. o = f + r * 128
    BY ONLY <1>1, SMT
  <2> HIDE DEF f, r, o
  <2>3. o % 128 = f /\ o \div 128 = r
    BY ONLY <2>1, <2>2, SMT
  <2> QED
    BY ONLY <2>3, SMT DEF f, r, o, CastHeader
<1>4. g.sid = h.sid /\ g.opcode = h.opcode /\ g.aid = h.aid
  <2> DEFINE v == h.sid  p == h.opcode  n == h.aid  o == b[3]  w == b[4]
  <2>1. v \in Nat /\ v < 16 /\ p \in Nat /\ p < 4 /\ n \in Nat
    BY Fields, SMT
  <2>2. o = v + p * 16 + (n % 4) * 64 /\ w = n \div 4
    BY ONLY <1>1, SMT
  <2> HIDE DEF v, p, n, o, w
  <2>3. o % 16 = v /\ (o \div 16) % 4 = p /\ o \div 64 + w * 4 = n
    BY ONLY <2>1, <2>2, SMT
  <2> QED
    BY ONLY <2>3, SMT DEF v, p, n, o, w, CastHeader
<1>5. g.rsvd2 = h.rsvd2 /\ g.tid = h.tid
  <2> DEFINE v == h.rsvd2  n == h.tid  o == b[5]  w == b[6]
  <2>1. v \in Nat /\ v < 16 /\ n \in Nat
    BY Fields, SMT
  <2>2. o = v + (n % 16) * 16 /\ w = n \div 16
    BY ONLY <1>1, SMT
  <2> HIDE DEF v, n, o, w
  <2>3. o % 16 = v /\ o \div 16 + w * 16 = n
    BY ONLY <2>1, <2>2, SMT
  <2> QED
    BY ONLY <2>3, SMT DEF v, n, o, w, CastHeader
<1>6. g.payloadlength = h.payloadlength
  <2> DEFINE n == h.payloadlength  o == b[7]  w == b[8]
  <2>1. n \in Nat
    BY Fields, SMT
  <2>2. o = Low(n) /\ w = High(n)
    BY ONLY <1>1, SMT
  <2> HIDE DEF n, o, w
  <2>3. Word(w, o) = n
    BY ONLY <2>1, <2>2, SMT DEF Low, High, Word
  <2> QED
    BY ONLY <2>3, SMT DEF n, o, w, CastHeader
<1>7. g = [version |-> g.version, ackreq |-> g.ackreq, ackrsp |-> g.ackrsp,
           uir |-> g.uir, morefragment |-> g.morefragment,
           fragmentnumber |-> g.fragmentnumber, rsvd1 |-> g.rsvd1, sid |-> g.sid,
           opcode |-> g.opcode, aid |-> g.aid, rsvd2 |-> g.rsvd2, tid |-> g.tid,
           payloadlength |-> g.payloadlength]
  BY DEF CastHeader
<1>8. h = [version |-> h.version, ackreq |-> h.ackreq, ackrsp |-> h.ackrsp,
           uir |-> h.uir, morefragment |-> h.morefragment,
           fragmentnumber |-> h.fragmentnumber, rsvd1 |-> h.rsvd1, sid |-> h.sid,
           opcode |-> h.opcode, aid |-> h.aid, rsvd2 |-> h.rsvd2, tid |-> h.tid,
           payloadlength |-> h.payloadlength]
  BY SMT DEF mih_header_t
<1> HIDE DEF g
<1>9. g = h
  BY <1>2, <1>3, <1>4, <1>5, <1>6, <1>7, <1>8, SMT
<1> QED
  BY <1>9 DEF g, b

\* The daemon does not read what the kernel module sends (message.c 8-24): from a
\* header in the wire format the cast takes the service from the opcode and the
\* action from the service.
THEOREM WireMisread ==
  ASSUME NEW h \in mih_header_t
  PROVE  LET g == CastHeader(pack_mih_header(h)) IN
         /\ g.sid = h.opcode * 4 + High(h.aid)
         /\ g.opcode = h.sid % 4
         /\ g.aid = h.sid \div 4 + Low(h.aid) * 4
<1> DEFINE b == pack_mih_header(h)
           v == h.sid  p == h.opcode  n == h.aid  o == b[3]  w == b[4]
<1>1. v \in Nat /\ v < 16 /\ p \in Nat /\ p < 4 /\ n \in Nat /\ n < 1024
  BY Fields, SMT
<1>2. o = v * 16 + p * 4 + High(n) /\ w = Low(n)
  BY SMT DEF pack_mih_header
<1> HIDE DEF v, p, n, o, w
<1>3. High(n) \in Nat /\ High(n) < 4 /\ Low(n) \in Nat
  BY ONLY <1>1, SMT DEF High, Low
<1>4. /\ o % 16 = p * 4 + High(n) /\ (o \div 16) % 4 = v % 4
      /\ o \div 64 + w * 4 = v \div 4 + Low(n) * 4
  BY ONLY <1>1, <1>2, <1>3, SMT
<1> HIDE DEF b
<1>5. /\ b[3] % 16 = h.opcode * 4 + High(h.aid) /\ (b[3] \div 16) % 4 = h.sid % 4
      /\ b[3] \div 64 + b[4] * 4 = h.sid \div 4 + Low(h.aid) * 4
  BY ONLY <1>4 DEF v, p, n, o, w
<1>6. LET g == CastHeader(b) IN
      /\ g.sid = h.opcode * 4 + High(h.aid)
      /\ g.opcode = h.sid % 4
      /\ g.aid = h.sid \div 4 + Low(h.aid) * 4
  BY ONLY <1>5, SMT DEF CastHeader
<1> QED
  BY <1>6 DEF b

-----------------------------------------------------------------------------
(* Dispatch                                                                *)

\* A request for a known action is taken, and never by chance: the path through
\* the switches of mihfd.c 290-497 to its handler leaves no `res' uninitialised.
THEOREM KnownRequestsTaken ==
  ASSUME NEW h, h.aid \in Nat, h.opcode = REQUEST, KnownAction(h)
  PROVE  ProcessRequest(h) = {0}
<1> USE DEF REQUEST, RESPONSE, INDICATION, SERVICE_MANAGEMENT, EVENT_SERVICE,
            COMMAND_SERVICE, INFORMATION_SERVICE, Handle
<1>1. CASE h.sid = SERVICE_MANAGEMENT
  <2>1. ProcessRequest(h) = ProcessService(h) /\ h.aid \in 1..5
    BY <1>1 DEF ProcessRequest, KnownAction
  <2> QED
    BY <1>1, <2>1
       DEF ProcessService, CapabilityDiscover, Register, Deregister, EventSubscribe,
           EventUnsubscribe
<1>2. CASE h.sid = EVENT_SERVICE
  <2>1. ProcessRequest(h) = ProcessEvent(h) /\ h.aid \in (1..8) \ {4}
    BY <1>2 DEF ProcessRequest, KnownAction
  <2> QED
    BY <1>2, <2>1
       DEF ProcessEvent, LinkDetected, LinkUp, LinkDown, LinkParametersReport,
           LinkGoingDown, LinkHandoverImminent, LinkHandoverComplete
<1>3. CASE h.sid = COMMAND_SERVICE
  <2>1. ProcessRequest(h) = ProcessCmd(h) /\ h.aid \in 1..11
    BY <1>3 DEF ProcessRequest, KnownAction
  <2> QED
    BY <1>3, <2>1
       DEF ProcessCmd, LinkGetParameters, LinkConfigureThresholds, LinkActions,
           NetHOCandidateQuery, MNHOCandidateQuery, N2NHOQueryResources, MNHOCommit,
           NetHOCommit, N2NHOCommit, MNHOComplete, N2NHOComplete
<1>4. CASE h.sid = INFORMATION_SERVICE
  <2>1. ProcessRequest(h) = ProcessInfo(h) /\ h.aid \in 1..2
    BY <1>4 DEF ProcessRequest, KnownAction
  <2> QED
    BY <1>4, <2>1 DEF ProcessInfo, CapabilityDiscover, Register
<1> QED
  BY <1>1, <1>2, <1>3, <1>4 DEF KnownAction

-----------------------------------------------------------------------------
(* What becomes of a message                                               *)

\* An error may be reported for a message.
Justified(x) ==
  \/ Msg[x] = << >>
  \/ CastHeader(Msg[x]).opcode # REQUEST
  \/ ~KnownAction(CastHeader(Msg[x]))

\* What becomes of a message: the caller logs an error only if ProcessRequest may
\* return -1 for it, which it does for no known request (mihfd.c 551, 606).
LEMMA OutcomesJustified ==
  ASSUME NEW x \in Conn \cup Dgram, NEW outcome \in Outcomes[x]
  PROVE  outcome \in {"ok", "error"} /\ (outcome = "error" => Justified(x))
<1>1. PICK res \in (IF Msg[x] = << >> THEN Uninitialised
                   ELSE ProcessRequest(CastHeader(Msg[x]))) : outcome = Outcome(res)
  BY DEF Outcomes
<1>2. outcome \in {"ok", "error"} /\ (outcome = "error" => res = -1)
  BY <1>1 DEF Outcome
<1>3. ASSUME ~Justified(x)
      PROVE  res = 0
  <2> DEFINE h == CastHeader(Msg[x])
  <2>1. Msg[x] # << >> /\ h.opcode = REQUEST /\ KnownAction(h)
    BY <1>3 DEF Justified
  <2>2. Msg[x] \in Seq(Octet) /\ Len(Msg[x]) >= HeaderSize
    BY <2>1, MsgAssumption
  <2>3. Msg[x][3] \in Nat /\ Msg[x][4] \in Nat
    BY <2>2 DEF HeaderSize, Octet, Below
  <2>4. h.aid \in Nat
    <3> DEFINE o == Msg[x][3]  w == Msg[x][4]
    <3> HIDE DEF o, w
    <3>1. o \in Nat /\ w \in Nat
      BY <2>3 DEF o, w
    <3>2. o \div 64 + w * 4 \in Nat
      BY ONLY <3>1, SMT
    <3> QED
      BY <3>2 DEF CastHeader, o, w
  <2> HIDE DEF h
  <2>5. ProcessRequest(h) = {0}
    BY <2>1, <2>4, KnownRequestsTaken
  <2> QED
    BY <1>1, <2>1, <2>5 DEF h
<1> QED
  BY <1>2, <1>3

-----------------------------------------------------------------------------
(* The inductive invariant: what threads and queues hold has its kind, and *)
(* a connection is in one place only.                                      *)

Places ==
  /\ \A t \in Thread :
       /\ pc[t] \in {"tcp_recheck", "accept"} \cup Holding => ind[t] \in TcpSlot
       /\ pc[t] \in {"udp_recheck", "recv"} => ind[t] \in UdpSlot
       /\ pc[t] \in Holding => newsock[t] \in Conn
  /\ \A s \in TcpSlot : queue[s] \in Seq(Conn)
  /\ \A s \in UdpSlot : queue[s] \in Seq(Dgram)

\* A queued connection was made, and is neither open nor finished.
QueuedFresh(q, cl, op, res) ==
  \A s \in TcpSlot : \A i \in 1..Len(q[s]) :
    cl[q[s][i]] # "idle" /\ q[s][i] \notin op /\ res[q[s][i]] = "none"

\* It is queued once.
QueuedOnce(q) ==
  \A s, r \in TcpSlot : \A i \in 1..Len(q[s]), j \in 1..Len(q[r]) :
    q[s][i] = q[r][j] => s = r /\ i = j

\* A connection that was not made is neither open nor finished.
IdleUnused(cl, op, res) ==
  \A c \in Conn : cl[c] = "idle" => c \notin op /\ res[c] = "none"

Once ==
  /\ QueuedFresh(queue, client, open, result)
  /\ QueuedOnce(queue)
  /\ IdleUnused(client, open, result)

IInv == TypeOK /\ Places /\ Once /\ ConnectionsOwned /\ ErrorsJustified

\* The invariant holds when main begins: no socket, no thread, no connection
\* (mihfd.c 618-644).
LEMMA InitIInv ==
  ASSUME Init
  PROVE  IInv
<1>1. PICK h \in Host : todo = h.addrinfo /\ hup = h.hup
  BY DEF Init
<1>2. todo \in Seq(Entry) /\ hup \in BOOLEAN
  BY <1>1, HostAssumption
<1>3. \A s \in Slot : queue[s] = << >>
  BY DEF Init
<1>4. TypeOK
  <2>1. << >> \in Seq(Conn \cup Dgram)
    OBVIOUS
  <2>2. queue \in [Slot -> Seq(Conn \cup Dgram)]
    BY <2>1, Zenon DEF Init
  <2>3. /\ main \in MainPC /\ flags \in SUBSET Flag
        /\ fd \in [Slot -> {"stdin", "none", "unbound", "open"}]
        /\ events \in [Slot -> BOOLEAN] /\ revents \in [Slot -> BOOLEAN]
        /\ pc \in [Thread -> WorkerPC] /\ ind \in [Thread -> Slot \cup {NoSlot}]
        /\ newsock \in [Thread -> Conn \cup {NoConn}] /\ open \subseteq Conn
        /\ client \in [Conn -> {"idle", "connected", "closed"}] /\ sent \subseteq Dgram
        /\ quit \in BOOLEAN
        /\ result \in [Conn \cup Dgram -> {"none", "ok", "error", "dropped", "unread"}]
    BY Zenon DEF Init, MainPC, WorkerPC
  <2>4. signals \in 0..MaxSignals
    BY SignalAssumption DEF Init
  <2> QED
    BY <1>2, <2>2, <2>3, <2>4, Zenon DEF TypeOK
<1>5. \A s \in Slot : queue[s] \in Seq(Conn) /\ queue[s] \in Seq(Dgram) /\ Len(queue[s]) = 0
  <2>1. << >> \in Seq(Conn) /\ << >> \in Seq(Dgram) /\ Len(<< >>) = 0
    OBVIOUS
  <2> QED
    BY <1>3, <2>1, Zenon
<1>6. Places
  BY <1>5 DEF Init, Places, Holding, TcpSlot, UdpSlot, Slot
<1>7. Once
  <2>1. \A s \in TcpSlot : Len(queue[s]) = 0
    BY <1>5 DEF TcpSlot, Slot
  <2>2. QueuedFresh(queue, client, open, result) /\ QueuedOnce(queue)
    BY <2>1 DEF QueuedFresh, QueuedOnce
  <2>3. IdleUnused(client, open, result)
    BY DEF Init, IdleUnused
  <2> QED
    BY <2>2, <2>3 DEF Once
<1>8. ConnectionsOwned /\ ErrorsJustified
  BY DEF Init, ConnectionsOwned, ErrorsJustified, Holding
<1> QED
  BY <1>4, <1>6, <1>7, <1>8 DEF IInv

-----------------------------------------------------------------------------
(* Steps that do not touch a connection                                    *)

\* A step that changes neither the connections nor which threads hold one.
LEMMA Quiet ==
  ASSUME IInv, UNCHANGED <<queue, newsock, open, client, result>>,
         \A t \in Thread : pc'[t] \in Holding <=> pc[t] \in Holding
  PROVE  Once' /\ ConnectionsOwned' /\ ErrorsJustified'
<1>1. Once'
  BY DEF IInv, Once
<1>2. ErrorsJustified'
  BY DEF IInv, ErrorsJustified
<1>3. ConnectionsOwned'
  BY DEF IInv, ConnectionsOwned
<1> QED
  BY <1>1, <1>2, <1>3

\* SigInit, SockInit, the polls of main, its loop and the signals that only set
\* _time_to_quit (mihfd.c 99-288, 618-680).
LEMMA MainQuiet ==
  ASSUME IInv, \/ SigInit \/ OpenSocket \/ SocketFails \/ BindFails \/ SockInitReturns
               \/ MainPoll \/ MainLoops \/ SignalNoted \/ SignalWakesMain
  PROVE  IInv'
<1>1. TypeOK /\ Places
  BY DEF IInv
<1>2. UNCHANGED <<queue, pc, ind, newsock, open, client, sent, result>>
  BY DEF SigInit, OpenSocket, SocketFails, BindFails, SockInitReturns, MainPoll, MainLoops,
         SignalNoted, SignalWakesMain, Handler, workers, clients
<1>3. Places'
  BY <1>1, <1>2 DEF Places
<1>4. Once' /\ ConnectionsOwned' /\ ErrorsJustified'
  BY <1>2, Quiet
<1>5. todo # << >> => SlotOf(Head(todo)) \in Slot /\ Tail(todo) \in Seq(Entry)
  BY <1>1 DEF TypeOK, SlotOf, Slot
<1>6. Readiness \in [Slot -> BOOLEAN] /\ Nothing \in [Slot -> BOOLEAN]
  BY DEF Readiness, Nothing, Ready
<1>7. TypeOK'
  <2>1. CASE SigInit
    BY <1>1, <1>2, <2>1, FlagAssumption DEF SigInit, TypeOK, MainPC
  <2>2. CASE OpenSocket
    BY <1>1, <1>2, <1>5, <2>2 DEF OpenSocket, TypeOK
  <2>3. CASE SocketFails \/ BindFails
    BY <1>1, <1>2, <1>5, <2>3, Zenon DEF SocketFails, BindFails, TypeOK, MainPC
  <2>4. CASE SockInitReturns \/ MainPoll \/ MainLoops
    BY <1>1, <1>2, <1>6, <2>4
       DEF SockInitReturns, MainPoll, MainLoops, TypeOK, MainPC, initvars
  <2>5. CASE SignalNoted \/ SignalWakesMain
    <3>1. signals' \in 0..MaxSignals
      BY <1>1, <2>5, SignalAssumption DEF SignalNoted, SignalWakesMain, Handler, TypeOK
    <3>2. main' \in MainPC /\ revents' \in [Slot -> BOOLEAN]
      BY <1>1, <1>6, <2>5 DEF SignalNoted, SignalWakesMain, TypeOK, MainPC
    <3>3. quit' = TRUE /\ UNCHANGED initvars
      BY <2>5 DEF SignalNoted, SignalWakesMain, Handler
    <3> QED
      BY <1>1, <1>2, <3>1, <3>2, <3>3, Zenon DEF TypeOK, initvars
  <2> QED
    BY <2>1, <2>2, <2>3, <2>4, <2>5
<1> QED
  BY <1>3, <1>4, <1>7 DEF IInv

\* pthread_create (mihfd.c 651-673) starts a thread that holds nothing.
LEMMA SpawnQuiet ==
  ASSUME IInv, MainTcp \/ MainUdp
  PROVE  IInv'
<1>1. TypeOK /\ Places
  BY DEF IInv
<1>2. UNCHANGED <<initvars, revents, queue, ind, newsock, open, client, sent, quit, signals,
                  result>> /\ main' \in MainPC
  BY DEF MainTcp, MainUdp, MainTest, clients, MainPC
<1>3. PICK start \in {"tcp_pick4", "udp_pick4"} : Spawn(start) \/ pc' = pc
  BY DEF MainTcp, MainUdp, MainTest
<1>4. \/ pc' = pc
      \/ \E t \in Thread : pc[t] = "free" /\ pc' = [pc EXCEPT ![t] = start]
  <2> DEFINE free == {t \in Thread : pc[t] = "free"}
  <2>1. CASE pc' = pc
    BY <2>1
  <2>2. CASE Spawn(start) /\ free = {}
    BY <2>2 DEF Spawn
  <2>3. CASE Spawn(start) /\ free # {}
    <3> DEFINE u == CHOOSE t \in free : TRUE
    <3>1. u \in free
      BY <2>3
    <3>2. pc' = [pc EXCEPT ![u] = start]
      BY <2>3 DEF Spawn
    <3> HIDE DEF u
    <3> QED
      BY <3>1, <3>2, Zenon
  <2> QED
    BY <1>3, <2>1, <2>2, <2>3
<1>5. TypeOK'
  <2>1. pc' \in [Thread -> WorkerPC]
    BY <1>1, <1>4, ZenonT(40) DEF TypeOK, WorkerPC
  <2> QED
    BY <1>1, <1>2, <2>1 DEF TypeOK, initvars
<1>6. /\ Places'
      /\ \A t \in Thread : pc'[t] \in Holding <=> pc[t] \in Holding
  <2>1. \A t \in Thread : pc'[t] = pc[t] \/ (pc[t] = "free" /\ pc'[t] = start)
    BY <1>1, <1>4 DEF TypeOK
  <2> QED
    BY <1>1, <1>2, <1>3, <2>1 DEF Places, Holding
<1>7. Once' /\ ConnectionsOwned' /\ ErrorsJustified'
  BY <1>2, <1>6, Quiet
<1> QED
  BY <1>5, <1>6, <1>7 DEF IInv

\* A thread that moves on, keeping what it holds: where it goes, its slot is of
\* the right kind.
LEMMA MoveQuiet ==
  ASSUME IInv, NEW t \in Thread, NEW where \in WorkerPC,
         pc' = [pc EXCEPT ![t] = where],
         UNCHANGED <<main, initvars, queue, newsock, open, client, sent, result>>,
         revents' \in [Slot -> BOOLEAN], quit' \in BOOLEAN, signals' \in 0..MaxSignals,
         ind' \in [Thread -> Slot \cup {NoSlot}],
         \A u \in Thread : u # t => ind'[u] = ind[u],
         where \in Holding <=> pc[t] \in Holding,
         where \in {"tcp_recheck", "accept"} \cup Holding => ind'[t] \in TcpSlot,
         where \in {"udp_recheck", "recv"} => ind'[t] \in UdpSlot
  PROVE  IInv'
<1>1. TypeOK /\ Places
  BY DEF IInv
<1>2. /\ pc' \in [Thread -> WorkerPC] /\ pc'[t] = where
      /\ \A u \in Thread : u # t => pc'[u] = pc[u]
  BY <1>1 DEF TypeOK
<1>3. TypeOK'
  BY <1>1, <1>2, Zenon DEF TypeOK, initvars
<1>4. Places'
  <2>1. \A u \in Thread :
          /\ pc'[u] \in {"tcp_recheck", "accept"} \cup Holding => ind'[u] \in TcpSlot
          /\ pc'[u] \in {"udp_recheck", "recv"} => ind'[u] \in UdpSlot
          /\ pc'[u] \in Holding => newsock[u] \in Conn
    BY <1>1, <1>2 DEF Places
  <2> QED
    BY <1>1, <2>1 DEF Places
<1>5. \A u \in Thread : pc'[u] \in Holding <=> pc[u] \in Holding
  BY <1>2
<1>6. Once' /\ ConnectionsOwned' /\ ErrorsJustified'
  BY <1>5, Quiet
<1> QED
  BY <1>3, <1>4, <1>6 DEF IInv

\* The steps in which a worker chooses its socket or gives up (mihfd.c 522-529,
\* 587-594) and the second poll (542).
LEMMA PickQuiet ==
  ASSUME IInv, NEW t \in Thread,
         \/ TcpPick(t) \/ TcpRecheck(t) \/ UdpPick(t) \/ UdpRecheck(t) \/ WaitReady(t)
  PROVE  IInv'
<1>1. TypeOK /\ Places
  BY DEF IInv
<1>2. /\ UNCHANGED <<main, initvars, queue, newsock, open, client, sent, result>>
      /\ quit' \in BOOLEAN /\ signals' \in 0..MaxSignals
  BY <1>1 DEF TcpPick, TcpRecheck, UdpPick, UdpRecheck, Pick, WaitReady, clients, TypeOK
<1>3. revents' \in [Slot -> BOOLEAN]
  <2>1. Readiness \in [Slot -> BOOLEAN]
    BY Zenon DEF Readiness, Ready
  <2> QED
    BY <1>1, <2>1 DEF TcpPick, TcpRecheck, UdpPick, UdpRecheck, Pick, WaitReady, TypeOK
<1>4. \E where \in WorkerPC :
        /\ pc' = [pc EXCEPT ![t] = where]
        /\ ind' \in [Thread -> Slot \cup {NoSlot}]
        /\ \A u \in Thread : u # t => ind'[u] = ind[u]
        /\ where \in Holding <=> pc[t] \in Holding
        /\ where \in {"tcp_recheck", "accept"} \cup Holding => ind'[t] \in TcpSlot
        /\ where \in {"udp_recheck", "recv"} => ind'[t] \in UdpSlot
  <2>1. ind \in [Thread -> Slot \cup {NoSlot}] /\ {"TCP4", "TCP6", "UDP4", "UDP6"} \subseteq Slot
    BY <1>1 DEF TypeOK, Slot
  <2>2. CASE \E where \in {"free", "tcp_pick6", "udp_pick6"} :
                 Goto(t, where) /\ pc[t] \notin Holding /\ ind' = ind
    <3>1. PICK where \in {"free", "tcp_pick6", "udp_pick6"} :
            Goto(t, where) /\ pc[t] \notin Holding /\ ind' = ind
      BY <2>2, Zenon
    <3>2. where \in WorkerPC /\ where \notin {"tcp_recheck", "accept", "udp_recheck", "recv"}
          /\ where \notin Holding
      BY DEF WorkerPC, Holding
    <3> QED
      BY <2>1, <3>1, <3>2, Zenon DEF Goto
  <2>3. CASE Exit(t) /\ pc[t] \notin Holding
    <3>1. "free" \in WorkerPC /\ pc' = [pc EXCEPT ![t] = "free"]
      BY <2>3 DEF Exit, Goto, WorkerPC
    <3>2. ind' = [ind EXCEPT ![t] = NoSlot]
      BY <2>3 DEF Exit
    <3> QED
      BY <2>1, <2>3, <3>1, <3>2, Zenon DEF Holding
  <2>4. CASE \E s \in TcpSlot : /\ pc[t] \notin Holding /\ ind' = [ind EXCEPT ![t] = s]
                               /\ Goto(t, "tcp_recheck")
    <3>1. "tcp_recheck" \in WorkerPC /\ pc' = [pc EXCEPT ![t] = "tcp_recheck"]
      BY <2>4 DEF Goto, WorkerPC
    <3> QED
      BY <2>1, <2>4, <3>1, Zenon DEF Holding, TcpSlot
  <2>5. CASE \E s \in UdpSlot : /\ pc[t] \notin Holding /\ ind' = [ind EXCEPT ![t] = s]
                               /\ Goto(t, "udp_recheck")
    <3>1. "udp_recheck" \in WorkerPC /\ pc' = [pc EXCEPT ![t] = "udp_recheck"]
      BY <2>5 DEF Goto, WorkerPC
    <3>2. PICK s \in UdpSlot : ind' = [ind EXCEPT ![t] = s]
      BY <2>5, Zenon
    <3>3. ind' \in [Thread -> Slot \cup {NoSlot}] /\ ind'[t] \in UdpSlot
      BY <2>1, <3>2 DEF UdpSlot
    <3>4. \A u \in Thread : u # t => ind'[u] = ind[u]
      BY <2>1, <3>2
    <3> QED
      BY <2>5, <3>1, <3>3, <3>4, Zenon DEF Holding
  <2>6. CASE pc[t] = "tcp_recheck" /\ Goto(t, "accept") /\ ind' = ind
    <3>1. "accept" \in WorkerPC /\ pc' = [pc EXCEPT ![t] = "accept"]
      BY <2>6 DEF Goto, WorkerPC
    <3>2. ind[t] \in TcpSlot
      BY <1>1, <2>6 DEF Places
    <3> QED
      BY <2>1, <2>6, <3>1, <3>2, Zenon DEF Holding
  <2>7. CASE pc[t] = "udp_recheck" /\ Goto(t, "recv") /\ ind' = ind
    <3>1. "recv" \in WorkerPC /\ pc' = [pc EXCEPT ![t] = "recv"]
      BY <2>7 DEF Goto, WorkerPC
    <3>2. ind[t] \in UdpSlot
      BY <1>1, <2>7 DEF Places
    <3> QED
      BY <2>1, <2>7, <3>1, <3>2, Zenon DEF Holding
  <2>8. CASE pc[t] = "wait" /\ Goto(t, "waited") /\ ind' = ind
    <3>1. "waited" \in WorkerPC /\ pc' = [pc EXCEPT ![t] = "waited"]
      BY <2>8 DEF Goto, WorkerPC
    <3>2. ind[t] \in TcpSlot
      BY <1>1, <2>8 DEF Places, Holding
    <3> QED
      BY <2>1, <2>8, <3>1, <3>2, Zenon DEF Holding
  <2>9. CASE TcpPick(t)
    BY <2>4, <2>9, <2>2, Zenon DEF TcpPick, Pick, TcpSlot, Holding
  <2>10. CASE UdpPick(t)
    BY <2>5, <2>10, <2>2, Zenon DEF UdpPick, Pick, UdpSlot, Holding
  <2>11. CASE TcpRecheck(t)
    BY <2>3, <2>6, <2>11, ZenonT(40) DEF TcpRecheck, Holding
  <2>12. CASE UdpRecheck(t)
    BY <2>3, <2>7, <2>12, Zenon DEF UdpRecheck, Holding
  <2>13. CASE WaitReady(t)
    BY <2>8, <2>13 DEF WaitReady
  <2> QED
    BY <2>9, <2>10, <2>11, <2>12, <2>13
<1> QED
  BY <1>2, <1>3, <1>4, MoveQuiet, Zenon

-----------------------------------------------------------------------------
(* Steps that end a worker's connection                                    *)

\* A worker that closes its connection and exits (mihfd.c 558-562): only its own
\* connection is affected, and its outcome may only be an error if it is
\* justified.
LEMMA Left ==
  ASSUME IInv, NEW t \in Thread, pc[t] \in Holding,
         NEW outcome \in {"ok", "error", "dropped", "unread"},
         outcome = "error" => Justified(newsock[t]),
         Leave(t, outcome),
         UNCHANGED <<main, initvars, queue, client, sent>>,
         revents' \in [Slot -> BOOLEAN], quit' \in BOOLEAN, signals' \in 0..MaxSignals
  PROVE  IInv'
<1> DEFINE c == newsock[t]
<1>1. TypeOK /\ Places /\ Once /\ ConnectionsOwned /\ ErrorsJustified
  BY DEF IInv
<1>2. /\ pc' \in [Thread -> WorkerPC] /\ pc'[t] = "free"
      /\ \A u \in Thread : u # t => pc'[u] = pc[u]
  BY <1>1 DEF TypeOK, Leave, Exit, Goto, WorkerPC
<1>3. /\ ind' \in [Thread -> Slot \cup {NoSlot}]
      /\ \A u \in Thread : u # t => ind'[u] = ind[u]
  BY <1>1 DEF TypeOK, Leave, Exit
<1>4. /\ newsock' \in [Thread -> Conn \cup {NoConn}]
      /\ \A u \in Thread : u # t => newsock'[u] = newsock[u]
  BY <1>1 DEF TypeOK, Leave
<1>5. c \in Conn /\ c \in open
  BY <1>1 DEF Places, ConnectionsOwned
<1>6. open' = open \ {c}
  BY DEF Leave
<1>7. /\ result' \in [Conn \cup Dgram -> {"none", "ok", "error", "dropped", "unread"}]
      /\ result'[c] = outcome
      /\ \A x \in Conn \cup Dgram : x # c => result'[x] = result[x]
  BY <1>1, <1>5 DEF TypeOK, Leave
<1> HIDE DEF c
<1>8. TypeOK'
  BY <1>1, <1>2, <1>3, <1>4, <1>6, <1>7, Zenon DEF TypeOK, initvars
<1>9. Places'
  <2>1. \A u \in Thread :
          /\ pc'[u] \in {"tcp_recheck", "accept"} \cup Holding => ind'[u] \in TcpSlot
          /\ pc'[u] \in {"udp_recheck", "recv"} => ind'[u] \in UdpSlot
          /\ pc'[u] \in Holding => newsock'[u] \in Conn
    BY <1>1, <1>2, <1>3, <1>4, Zenon DEF Places, Holding
  <2> QED
    BY <1>1, <2>1, Zenon DEF Places
<1>10. Once'
  <2>1. \A s \in TcpSlot : \A i \in 1..Len(queue[s]) :
          /\ queue[s][i] \in Conn /\ queue[s][i] # c
          /\ client[queue[s][i]] # "idle" /\ queue[s][i] \notin open
          /\ result[queue[s][i]] = "none"
    BY <1>1, <1>5 DEF Once, QueuedFresh, Places
  <2>2. \A s \in TcpSlot : \A i \in 1..Len(queue[s]) :
          /\ client[queue[s][i]] # "idle" /\ queue[s][i] \notin open'
          /\ result'[queue[s][i]] = "none"
    BY <1>6, <1>7, <2>1
  <2>3. \A x \in Conn : client[x] = "idle" => x \notin open' /\ result'[x] = "none"
    BY <1>1, <1>5, <1>6, <1>7 DEF Once, IdleUnused
  <2>4. QueuedFresh(queue, client, open', result') /\ IdleUnused(client, open', result')
    BY ONLY <2>2, <2>3 DEF QueuedFresh, IdleUnused
  <2> QED
    BY <1>1, <2>4 DEF Once
<1>11. ConnectionsOwned'
  <2>1. \A u \in Thread : pc'[u] \in Holding <=> u # t /\ pc[u] \in Holding
    BY <1>2 DEF Holding
  <2>2. \A u \in Thread : u # t /\ pc[u] \in Holding => newsock[u] # c
    BY <1>1 DEF ConnectionsOwned, c
  <2>3. open' = {newsock'[u] : u \in {v \in Thread : pc'[v] \in Holding}}
    <3>1. ASSUME NEW x \in open'
          PROVE  \E u \in Thread : pc'[u] \in Holding /\ x = newsock'[u]
      <4>1. PICK u \in Thread : pc[u] \in Holding /\ x = newsock[u]
        BY <1>1, <1>6, <3>1 DEF ConnectionsOwned
      <4>2. u # t
        BY <1>6, <3>1, <4>1 DEF c
      <4> QED
        BY <1>4, <2>1, <4>1, <4>2
    <3>2. ASSUME NEW u \in Thread, pc'[u] \in Holding
          PROVE  newsock'[u] \in open'
      <4>1. u # t /\ pc[u] \in Holding
        BY <2>1, <3>2
      <4>2. newsock[u] \in open /\ newsock[u] # c
        BY <1>1, <2>2, <4>1 DEF ConnectionsOwned
      <4> QED
        BY <1>4, <1>6, <4>1, <4>2
    <3> QED
      BY <3>1, <3>2
  <2>4. \A u, v \in Thread :
          pc'[u] \in Holding /\ pc'[v] \in Holding /\ newsock'[u] = newsock'[v] => u = v
    BY <1>1, <1>4, <2>1 DEF ConnectionsOwned
  <2>5. \A x \in open' : result'[x] = "none"
    BY <1>1, <1>6, <1>7 DEF ConnectionsOwned, TypeOK
  <2> QED
    BY <2>3, <2>4, <2>5 DEF ConnectionsOwned
<1>12. ErrorsJustified'
  <2> SUFFICES ASSUME NEW x \in Conn \cup Dgram, result'[x] = "error"
               PROVE  Justified(x)
    BY ZenonT(40) DEF ErrorsJustified, Justified
  <2>1. CASE x = c
    BY <1>7, <2>1 DEF c
  <2>2. CASE x # c
    BY <1>1, <1>7, <2>2, ZenonT(40) DEF ErrorsJustified, Justified
  <2> QED
    BY <2>1, <2>2, Zenon
<1> QED
  BY <1>8, <1>9, <1>10, <1>11, <1>12 DEF IInv

\* The time-out, the test of revents and the read (mihfd.c 542-562).
LEMMA LeaveIInv ==
  ASSUME IInv, NEW t \in Thread, WaitTimeout(t) \/ Waited(t) \/ Read(t)
  PROVE  IInv'
<1>1. TypeOK /\ Places
  BY Zenon DEF IInv
<1>2. /\ UNCHANGED <<main, initvars, queue, client, sent>>
      /\ quit' = quit /\ signals' = signals
  BY Zenon DEF WaitTimeout, Waited, Read, clients
<1>3. revents' \in [Slot -> BOOLEAN] /\ quit' \in BOOLEAN /\ signals' \in 0..MaxSignals
  BY <1>1, <1>2, ZenonT(40) DEF WaitTimeout, Waited, Read, TypeOK, Nothing
<1>4. pc[t] \in Holding /\ ind[t] \in TcpSlot /\ newsock[t] \in Conn
  BY <1>1, Zenon DEF WaitTimeout, Waited, Read, Holding, Places
<1>5. Unread(t) \in {"dropped", "unread"}
  BY ZenonT(30) DEF Unread
<1>6. CASE Leave(t, Unread(t))
  BY <1>2, <1>3, <1>4, <1>5, <1>6, Left, Zenon
<1>7. CASE Waited(t) /\ Polled(ind[t])
  <2>1. "read" \in WorkerPC /\ "read" \in Holding
    BY DEF WorkerPC, Holding
  <2>2. pc' = [pc EXCEPT ![t] = "read"] /\ UNCHANGED <<ind, newsock, open, result>>
    BY <1>7 DEF Waited, Goto
  <2>3. ind' \in [Thread -> Slot \cup {NoSlot}]
    BY <1>1, <2>2 DEF TypeOK
  <2> QED
    BY <1>2, <1>3, <1>4, <2>1, <2>2, <2>3, MoveQuiet, Zenon
<1>8. CASE Read(t)
  <2>1. PICK outcome \in Outcomes[newsock[t]] : Leave(t, outcome)
    BY <1>8 DEF Read
  <2>2. outcome \in {"ok", "error"} /\ (outcome = "error" => Justified(newsock[t]))
    BY <1>4, OutcomesJustified
  <2> QED
    BY <1>2, <1>3, <1>4, <2>1, <2>2, Left, Zenon
<1> QED
  BY <1>6, <1>7, <1>8, Zenon DEF WaitTimeout, Waited

\* A signal that interrupts a call of a worker (mihfd.c 530-560, 596-612).
LEMMA SignalWorkerIInv ==
  ASSUME IInv, NEW t \in Thread, SignalWakesWorker(t)
  PROVE  IInv'
<1>1. TypeOK /\ Places
  BY DEF IInv
<1>2. /\ UNCHANGED <<main, initvars, queue, client, sent>>
      /\ quit' = TRUE /\ signals < MaxSignals /\ signals' = signals + 1
  BY DEF SignalWakesWorker, Handler, clients
<1>3. revents' \in [Slot -> BOOLEAN]
  BY <1>1, Zenon DEF SignalWakesWorker, TypeOK, Nothing
<1>4. quit' \in BOOLEAN
  BY <1>2, Zenon
<1>5. signals' \in 0..MaxSignals
  BY <1>1, <1>2, SignalAssumption DEF TypeOK
<1>6. CASE pc[t] = "wait" /\ Leave(t, Unread(t))
  <2>1. Unread(t) \in {"dropped", "unread"} /\ pc[t] \in Holding
    BY <1>6 DEF Unread, Holding
  <2> QED
    BY <1>2, <1>3, <1>4, <1>5, <1>6, <2>1, Left
<1>7. CASE pc[t] = "read" /\ Leave(t, "dropped")
  <2>1. pc[t] \in Holding
    BY <1>7 DEF Holding
  <2> QED
    BY <1>2, <1>3, <1>4, <1>5, <1>7, <2>1, Left
<1>8. CASE /\ pc[t] \in {"accept", "recv"} /\ Exit(t)
           /\ UNCHANGED <<revents, newsock, open, result>>
  <2>1. "free" \in WorkerPC /\ "free" \notin Holding /\ pc[t] \notin Holding
    BY <1>8 DEF WorkerPC, Holding
  <2>2. pc' = [pc EXCEPT ![t] = "free"] /\ ind' = [ind EXCEPT ![t] = NoSlot]
    BY <1>8 DEF Exit, Goto
  <2>3. /\ ind' \in [Thread -> Slot \cup {NoSlot}]
        /\ \A u \in Thread : u # t => ind'[u] = ind[u]
    BY <1>1, <2>2 DEF TypeOK
  <2>4. /\ "free" \in {"tcp_recheck", "accept"} \cup Holding => ind'[t] \in TcpSlot
        /\ "free" \in {"udp_recheck", "recv"} => ind'[t] \in UdpSlot
    BY <2>1
  <2> QED
    BY <1>2, <1>3, <1>4, <1>5, <1>8, <2>1, <2>2, <2>3, <2>4, MoveQuiet, Zenon
<1> QED
  BY <1>6, <1>7, <1>8 DEF SignalWakesWorker


-----------------------------------------------------------------------------
(* Steps that change a queue                                               *)

\* The connection that accept returns was in no other place (mihfd.c 530-540).
LEMMA AcceptIInv ==
  ASSUME IInv, NEW t \in Thread, Accept(t)
  PROVE  IInv'
<1> DEFINE s == ind[t]
           c == Head(queue[s])
<1>1. TypeOK /\ Places /\ Once /\ ConnectionsOwned /\ ErrorsJustified
  BY DEF IInv
<1>2. UNCHANGED <<main, initvars, revents, ind, client, sent, quit, signals, result>>
  BY DEF Accept, clients
<1>3. s \in TcpSlot /\ s \in Slot /\ s \notin UdpSlot /\ pc[t] \notin Holding
  BY <1>1 DEF Accept, Places, TcpSlot, UdpSlot, Slot, Holding
<1>4. queue[s] \in Seq(Conn) /\ queue[s] # << >>
  BY <1>1, <1>3 DEF Places, Accept
<1>5. c \in Conn /\ c = queue[s][1] /\ Len(queue[s]) >= 1 /\ 1 \in 1..Len(queue[s])
  BY <1>4
<1>6. /\ Tail(queue[s]) \in Seq(Conn) /\ Len(Tail(queue[s])) = Len(queue[s]) - 1
      /\ \A i \in 1..Len(Tail(queue[s])) :
           Tail(queue[s])[i] = queue[s][i + 1] /\ i + 1 \in 1..Len(queue[s])
  BY <1>4
<1>7. /\ queue' = [queue EXCEPT ![s] = Tail(queue[s])]
      /\ newsock' = [newsock EXCEPT ![t] = c] /\ open' = open \cup {c}
      /\ pc' = [pc EXCEPT ![t] = "wait"]
  BY DEF Accept, Goto
<1> HIDE DEF c, s
<1>8. /\ queue'[s] = Tail(queue[s])
      /\ \A r \in Slot : r # s => queue'[r] = queue[r]
      /\ newsock'[t] = c /\ \A u \in Thread : u # t => newsock'[u] = newsock[u]
      /\ pc'[t] = "wait" /\ \A u \in Thread : u # t => pc'[u] = pc[u]
  BY <1>1, <1>3, <1>7 DEF TypeOK
<1>9. TypeOK'
  <2>1. Tail(queue[s]) \in Seq(Conn \cup Dgram)
    BY <1>1, <1>3, <1>4 DEF TypeOK
  <2>2. queue' \in [Slot -> Seq(Conn \cup Dgram)]
    BY <1>1, <1>7, <2>1, Zenon DEF TypeOK
  <2>3. /\ newsock' \in [Thread -> Conn \cup {NoConn}] /\ open' \subseteq Conn
        /\ pc' \in [Thread -> WorkerPC]
    BY <1>1, <1>5, <1>7 DEF TypeOK, WorkerPC
  <2> QED
    BY <1>1, <1>2, <2>2, <2>3, Zenon DEF TypeOK, initvars
<1>10. Places'
  <2>1. \A u \in Thread :
          /\ pc'[u] \in {"tcp_recheck", "accept"} \cup Holding => ind[u] \in TcpSlot
          /\ pc'[u] \in {"udp_recheck", "recv"} => ind[u] \in UdpSlot
          /\ pc'[u] \in Holding => newsock'[u] \in Conn
    <3> TAKE u \in Thread
    <3>1. CASE u = t
      BY <1>3, <1>5, <1>8, <3>1 DEF s, Holding
    <3>2. CASE u # t
      BY <1>1, <1>8, <3>2 DEF Places
    <3> QED
      BY <3>1, <3>2
  <2>2. /\ \A r \in TcpSlot : queue'[r] \in Seq(Conn)
        /\ \A r \in UdpSlot : queue'[r] \in Seq(Dgram)
    <3>1. \A r \in TcpSlot \cup UdpSlot :
            queue'[r] = IF r = s THEN Tail(queue[s]) ELSE queue[r]
      BY <1>8 DEF Slot, TcpSlot, UdpSlot
    <3>2. ASSUME NEW r \in TcpSlot
          PROVE  queue'[r] \in Seq(Conn)
      BY <1>1, <1>6, <3>1, ZenonT(30) DEF Places
    <3>3. ASSUME NEW r \in UdpSlot
          PROVE  queue'[r] \in Seq(Dgram)
      BY <1>1, <1>3, <3>1 DEF Places
    <3> QED
      BY <3>2, <3>3
  <2> QED
    BY <1>2, <2>1, <2>2 DEF Places
<1>11. client[c] # "idle" /\ c \notin open /\ result[c] = "none"
  BY <1>1, <1>3, <1>5 DEF Once, QueuedFresh
\* What is still queued was queued before, elsewhere than at the head.
<1>12. ASSUME NEW r \in TcpSlot, NEW i \in 1..Len(queue'[r])
       PROVE  \E k \in 1..Len(queue[r]) :
                /\ queue'[r][i] = queue[r][k] /\ queue[r][k] # c
                /\ k = IF r = s THEN i + 1 ELSE i
  <2>1. r \in Slot
    BY DEF TcpSlot, Slot
  <2>2. CASE r = s
    <3>1. /\ i \in 1..Len(Tail(queue[s])) /\ queue'[r][i] = queue[s][i + 1]
          /\ i + 1 \in 1..Len(queue[s]) /\ i + 1 # 1
      <4>1. queue'[r] = Tail(queue[s])
        BY <1>8, <2>2
      <4>2. i \in 1..Len(Tail(queue[s]))
        BY <4>1
      <4>3. i + 1 # 1
        BY <4>2
      <4> QED
        BY <1>6, <4>1, <4>2, <4>3
    <3>2. queue[s][i + 1] # c
      BY <1>1, <1>3, <1>5, <3>1 DEF Once, QueuedOnce
    <3> QED
      BY <2>2, <3>1, <3>2
  <2>3. CASE r # s
    <3>1. i \in 1..Len(queue[r]) /\ queue'[r][i] = queue[r][i]
      BY <1>8, <2>1, <2>3
    <3>2. queue[r][i] # c
      BY <1>1, <1>3, <1>5, <2>3, <3>1 DEF Once, QueuedOnce
    <3> QED
      BY <2>3, <3>1, <3>2
  <2> QED
    BY <2>2, <2>3
<1>13. Once'
  <2>1. \A r \in TcpSlot : \A i \in 1..Len(queue'[r]) :
          /\ client[queue'[r][i]] # "idle" /\ queue'[r][i] \notin open'
          /\ result[queue'[r][i]] = "none"
    <3> TAKE r \in TcpSlot
    <3> TAKE i \in 1..Len(queue'[r])
    <3>1. PICK k \in 1..Len(queue[r]) : queue'[r][i] = queue[r][k] /\ queue[r][k] # c
      BY <1>12
    <3> QED
      BY <1>1, <1>7, <3>1 DEF Once, QueuedFresh
  <2>2. ASSUME NEW q \in TcpSlot, NEW r \in TcpSlot,
               NEW i \in 1..Len(queue'[q]), NEW j \in 1..Len(queue'[r]),
               queue'[q][i] = queue'[r][j]
        PROVE  q = r /\ i = j
    <3>1. PICK k \in 1..Len(queue[q]) :
            queue'[q][i] = queue[q][k] /\ k = IF q = s THEN i + 1 ELSE i
      BY <1>12
    <3>2. PICK m \in 1..Len(queue[r]) :
            queue'[r][j] = queue[r][m] /\ m = IF r = s THEN j + 1 ELSE j
      BY <1>12
    <3>3. queue[q][k] = queue[r][m]
      BY <2>2, <3>1, <3>2, Zenon
    <3>4. \A a, b \in TcpSlot : \A x \in 1..Len(queue[a]), y \in 1..Len(queue[b]) :
            queue[a][x] = queue[b][y] => a = b /\ x = y
      BY <1>1 DEF Once, QueuedOnce
    <3>5. q = r /\ k = m
      BY <3>3, <3>4, ZenonT(40)
    <3>6. i \in Int /\ j \in Int
      OBVIOUS
    <3> QED
      BY <3>1, <3>2, <3>5, <3>6
  <2>3. \A x \in Conn : client[x] = "idle" => x \notin open' /\ result[x] = "none"
    BY <1>1, <1>7, <1>11 DEF Once, IdleUnused
  <2>4. QueuedFresh(queue', client, open', result)
    BY ONLY <2>1 DEF QueuedFresh
  <2>5. QueuedOnce(queue')
    BY ONLY <2>2 DEF QueuedOnce
  <2>6. IdleUnused(client, open', result)
    BY ONLY <2>3 DEF IdleUnused
  <2> QED
    BY <1>2, <2>4, <2>5, <2>6, ZenonT(30) DEF Once
<1>14. ConnectionsOwned'
  <2>1. \A u \in Thread : pc'[u] \in Holding <=> u = t \/ pc[u] \in Holding
    BY <1>8 DEF Holding
  <2>2. \A u \in Thread : pc[u] \in Holding => u # t /\ newsock[u] \in open /\ newsock[u] # c
    BY <1>1, <1>3, <1>11 DEF ConnectionsOwned
  <2>3. open' = {newsock'[u] : u \in {v \in Thread : pc'[v] \in Holding}}
    <3>1. ASSUME NEW x \in open'
          PROVE  \E u \in Thread : pc'[u] \in Holding /\ x = newsock'[u]
      <4>1. CASE x = c
        BY <1>8, <2>1, <4>1
      <4>2. CASE x \in open
        <5>1. PICK u \in Thread : pc[u] \in Holding /\ x = newsock[u]
          BY <1>1, <4>2 DEF ConnectionsOwned
        <5> QED
          BY <1>8, <2>1, <2>2, <5>1
      <4> QED
        BY <1>7, <4>1, <4>2
    <3>2. ASSUME NEW u \in Thread, pc'[u] \in Holding
          PROVE  newsock'[u] \in open'
      BY <1>7, <1>8, <2>1, <2>2, <3>2, SMTT(30)
    <3> QED
      BY <3>1, <3>2
  <2>4. \A u, v \in Thread :
          pc'[u] \in Holding /\ pc'[v] \in Holding /\ newsock'[u] = newsock'[v] => u = v
    BY <1>1, <1>8, <2>1, <2>2, ZenonT(30) DEF ConnectionsOwned
  <2>5. \A x \in open' : result[x] = "none"
    BY <1>1, <1>7, <1>11 DEF ConnectionsOwned
  <2> QED
    BY <1>2, <2>3, <2>4, <2>5, Zenon DEF ConnectionsOwned
<1>15. ErrorsJustified'
  BY <1>1, <1>2 DEF ErrorsJustified
<1> QED
  BY <1>9, <1>10, <1>13, <1>14, <1>15 DEF IInv

\* A datagram is received and processed (mihfd.c 596-612).
LEMMA RecvIInv ==
  ASSUME IInv, NEW t \in Thread, Recv(t)
  PROVE  IInv'
<1> DEFINE s == ind[t]
           d == Head(queue[s])
<1>1. TypeOK /\ Places /\ Once /\ ConnectionsOwned /\ ErrorsJustified
  BY DEF IInv
<1>2. UNCHANGED <<main, initvars, revents, newsock, open, client, sent, quit, signals>>
  BY DEF Recv, clients
<1>3. s \in UdpSlot /\ s \in Slot /\ s \notin TcpSlot /\ pc[t] \notin Holding
  BY <1>1, SMTT(30) DEF Recv, Places, TcpSlot, UdpSlot, Slot, Holding
<1>4. queue[s] \in Seq(Dgram) /\ queue[s] # << >>
  BY <1>1, <1>3 DEF Places, Recv
<1>5. d \in Dgram /\ d \notin Conn /\ Tail(queue[s]) \in Seq(Dgram)
  BY <1>4, ClientAssumption
<1>6. PICK outcome \in Outcomes[d] : result' = [result EXCEPT ![d] = outcome]
  BY Zenon DEF Recv
<1>7. outcome \in {"ok", "error"} /\ (outcome = "error" => Justified(d))
  BY <1>5, OutcomesJustified
<1>8. /\ queue' = [queue EXCEPT ![s] = Tail(queue[s])]
      /\ pc' = [pc EXCEPT ![t] = "free"] /\ ind' = [ind EXCEPT ![t] = NoSlot]
  BY DEF Recv, Exit, Goto
<1> HIDE DEF d, s
<1>9. /\ queue'[s] = Tail(queue[s])
      /\ \A r \in Slot : r # s => queue'[r] = queue[r]
      /\ pc'[t] = "free" /\ \A u \in Thread : u # t => pc'[u] = pc[u]
      /\ \A u \in Thread : u # t => ind'[u] = ind[u]
  BY <1>1, <1>3, <1>8, Zenon DEF TypeOK
<1>10. /\ result' \in [Conn \cup Dgram -> {"none", "ok", "error", "dropped", "unread"}]
       /\ result'[d] = outcome
       /\ \A x \in Conn \cup Dgram : x # d => result'[x] = result[x]
  BY <1>1, <1>5, <1>6, <1>7, Zenon DEF TypeOK
<1>11. \A x \in Conn : result'[x] = result[x]
  BY <1>5, <1>10
<1>12. TypeOK'
  <2>1. Tail(queue[s]) \in Seq(Conn \cup Dgram)
    BY <1>1, <1>3, <1>4 DEF TypeOK
  <2>2. queue' \in [Slot -> Seq(Conn \cup Dgram)]
    BY <1>1, <1>8, <2>1, Zenon DEF TypeOK
  <2>3. pc' \in [Thread -> WorkerPC] /\ ind' \in [Thread -> Slot \cup {NoSlot}]
    BY <1>1, <1>8, Zenon DEF TypeOK, WorkerPC
  <2> QED
    BY <1>1, <1>2, <1>10, <2>2, <2>3, ZenonT(30) DEF TypeOK, initvars
<1>13. \A r \in TcpSlot : queue'[r] = queue[r]
  BY <1>3, <1>9, ZenonT(30) DEF TcpSlot, Slot
<1>14. Places'
  <2>1. \A u \in Thread :
          /\ pc'[u] \in {"tcp_recheck", "accept"} \cup Holding => ind'[u] \in TcpSlot
          /\ pc'[u] \in {"udp_recheck", "recv"} => ind'[u] \in UdpSlot
          /\ pc'[u] \in Holding => newsock[u] \in Conn
    BY <1>1, <1>9, Zenon DEF Places, Holding
  <2>2. \A r \in UdpSlot : queue'[r] \in Seq(Dgram)
    <3> TAKE r \in UdpSlot
    <3>1. r \in Slot /\ queue[r] \in Seq(Dgram)
      BY <1>1, SMTT(30) DEF Places, Slot, UdpSlot
    <3>2. queue'[r] = IF r = s THEN Tail(queue[s]) ELSE queue[r]
      BY <1>9, <3>1
    <3> QED
      BY <1>5, <3>1, <3>2
  <2> QED
    BY <1>1, <1>2, <1>13, <2>1, <2>2, ZenonT(30) DEF Places
<1>15. Once'
  <2>1. \A r \in TcpSlot : \A i \in 1..Len(queue[r]) : queue[r][i] \in Conn
    BY <1>1 DEF Places
  <2>2. \A r \in TcpSlot : \A i \in 1..Len(queue'[r]) :
          /\ client[queue'[r][i]] # "idle" /\ queue'[r][i] \notin open
          /\ result'[queue'[r][i]] = "none"
    <3>1. \A r \in TcpSlot : \A i \in 1..Len(queue[r]) :
            client[queue[r][i]] # "idle" /\ queue[r][i] \notin open /\ result[queue[r][i]] = "none"
      BY <1>1, Zenon DEF Once, QueuedFresh
    <3> TAKE r \in TcpSlot
    <3>2. queue'[r] = queue[r]
      BY <1>13, Zenon
    <3> TAKE i \in 1..Len(queue'[r])
    <3>3. i \in 1..Len(queue[r]) /\ queue'[r][i] = queue[r][i]
      BY <3>2, Zenon
    <3>4. result'[queue[r][i]] = result[queue[r][i]]
      BY <1>11, <2>1, <3>3, Zenon
    <3> QED
      BY <3>1, <3>3, <3>4, Zenon
  <2>3. \A q, r \in TcpSlot : \A i \in 1..Len(queue'[q]), j \in 1..Len(queue'[r]) :
          queue'[q][i] = queue'[r][j] => q = r /\ i = j
    <3>1. \A q, r \in TcpSlot : \A i \in 1..Len(queue[q]), j \in 1..Len(queue[r]) :
            queue[q][i] = queue[r][j] => q = r /\ i = j
      BY <1>1 DEF Once, QueuedOnce
    <3> TAKE q, r \in TcpSlot
    <3>2. queue'[q] = queue[q] /\ queue'[r] = queue[r]
      BY <1>13
    <3> TAKE i \in 1..Len(queue'[q]), j \in 1..Len(queue'[r])
    <3>3. /\ i \in 1..Len(queue[q]) /\ queue'[q][i] = queue[q][i]
          /\ j \in 1..Len(queue[r]) /\ queue'[r][j] = queue[r][j]
      BY <3>2, Zenon
    <3>4. queue[q][i] = queue[r][j] => q = r /\ i = j
      BY <3>1, <3>3, ZenonT(30)
    <3> QED
      BY ONLY <3>3, <3>4, Zenon
  <2>4. \A x \in Conn : client[x] = "idle" => x \notin open /\ result'[x] = "none"
    BY <1>1, <1>11 DEF Once, IdleUnused
  <2>5. QueuedFresh(queue', client, open, result')
    BY ONLY <2>2 DEF QueuedFresh
  <2>6. QueuedOnce(queue')
    BY ONLY <2>3 DEF QueuedOnce
  <2>7. IdleUnused(client, open, result')
    BY ONLY <2>4 DEF IdleUnused
  <2> QED
    BY <1>2, <2>5, <2>6, <2>7 DEF Once
<1>16. ConnectionsOwned'
  <2>1. \A u \in Thread : pc'[u] \in Holding <=> pc[u] \in Holding
    BY <1>3, <1>9 DEF Holding
  <2>2. {newsock[u] : u \in {v \in Thread : pc'[v] \in Holding}}
          = {newsock[u] : u \in {v \in Thread : pc[v] \in Holding}}
    BY <2>1
  <2>3. \A x \in open : result'[x] = "none"
    BY <1>1, <1>11, Zenon DEF ConnectionsOwned, TypeOK
  <2> QED
    BY <1>1, <1>2, <2>1, <2>2, <2>3 DEF ConnectionsOwned
<1>17. ErrorsJustified'
  <2> SUFFICES ASSUME NEW x \in Conn \cup Dgram, result'[x] = "error"
               PROVE  Justified(x)
    BY SMTT(30) DEF ErrorsJustified, Justified
  <2>1. CASE x = d
    BY <1>7, <1>10, <2>1, SMTT(30)
  <2>2. CASE x # d
    BY <1>1, <1>10, <2>2 DEF ErrorsJustified, Justified
  <2> QED
    BY <2>1, <2>2, SMTT(30)
<1> QED
  BY <1>12, <1>14, <1>15, <1>16, <1>17, ZenonT(30) DEF IInv

\* A client connects: its connection was in no place before.
LEMMA ConnectIInv ==
  ASSUME IInv, NEW c \in Conn, NEW s \in TcpSlot, Connect(c, s)
  PROVE  IInv'
<1>1. TypeOK /\ Places /\ Once /\ ConnectionsOwned /\ ErrorsJustified
  BY DEF IInv
<1>2. UNCHANGED <<main, initvars, revents, pc, ind, newsock, open, sent, quit, signals, result>>
  BY DEF Connect, workers
<1>3. client[c] = "idle" /\ c \notin open /\ result[c] = "none"
  BY <1>1, ZenonT(30) DEF Connect, Once, IdleUnused
<1>4. s \in Slot /\ s \notin UdpSlot /\ queue[s] \in Seq(Conn)
  BY <1>1 DEF Places, Slot, TcpSlot, UdpSlot
<1>5. /\ Append(queue[s], c) \in Seq(Conn)
      /\ Len(Append(queue[s], c)) = Len(queue[s]) + 1 /\ Len(queue[s]) \in Nat
      /\ \A i \in 1..(Len(queue[s]) + 1) :
           \/ i \in 1..Len(queue[s]) /\ Append(queue[s], c)[i] = queue[s][i]
           \/ i = Len(queue[s]) + 1 /\ Append(queue[s], c)[i] = c
  BY <1>4
<1>6. /\ queue' = [queue EXCEPT ![s] = Append(queue[s], c)]
      /\ client' = [client EXCEPT ![c] = "connected"]
  BY DEF Connect
<1>7. /\ queue'[s] = Append(queue[s], c)
      /\ \A r \in Slot : r # s => queue'[r] = queue[r]
      /\ client'[c] = "connected" /\ \A x \in Conn : x # c => client'[x] = client[x]
  BY <1>1, <1>4, <1>6 DEF TypeOK
<1>8. TypeOK'
  <2>1. Append(queue[s], c) \in Seq(Conn \cup Dgram)
    BY <1>1, <1>4 DEF TypeOK
  <2>2. queue' \in [Slot -> Seq(Conn \cup Dgram)]
    BY <1>1, <1>6, <2>1, Zenon DEF TypeOK
  <2>3. client' \in [Conn -> {"idle", "connected", "closed"}]
    BY <1>1, <1>6 DEF TypeOK
  <2> QED
    BY <1>1, <1>2, <2>2, <2>3, Zenon DEF TypeOK, initvars
<1>9. Places'
  <2>1. \A r \in TcpSlot \cup UdpSlot :
          queue'[r] = IF r = s THEN Append(queue[s], c) ELSE queue[r]
    BY <1>7, Zenon DEF Slot, TcpSlot, UdpSlot
  <2>2. ASSUME NEW r \in TcpSlot
        PROVE  queue'[r] \in Seq(Conn)
    BY <1>1, <1>5, <2>1, ZenonT(30) DEF Places
  <2>3. ASSUME NEW r \in UdpSlot
        PROVE  queue'[r] \in Seq(Dgram)
    BY <1>1, <1>4, <2>1 DEF Places
  <2> QED
    BY <1>1, <1>2, <2>2, <2>3 DEF Places
\* What is queued is the new connection, or was queued before.
<1>10. ASSUME NEW r \in TcpSlot, NEW i \in 1..Len(queue'[r])
       PROVE  \/ r = s /\ i = Len(queue[s]) + 1 /\ queue'[r][i] = c
              \/ i \in 1..Len(queue[r]) /\ queue'[r][i] = queue[r][i]
                 /\ queue[r][i] \in Conn /\ queue[r][i] # c
  <2>1. r \in Slot
    BY Zenon DEF TcpSlot, Slot
  <2>2. \A k \in 1..Len(queue[r]) : queue[r][k] \in Conn /\ queue[r][k] # c
    <3>1. queue[r] \in Seq(Conn)
      BY <1>1, Zenon DEF Places
    <3>2. \A k \in 1..Len(queue[r]) : client[queue[r][k]] # "idle"
      BY <1>1, ZenonT(30) DEF Once, QueuedFresh
    <3> QED
      BY <1>3, <3>1, <3>2
  <2>3. CASE r = s
    <3>1. queue'[r] = Append(queue[s], c) /\ i \in 1..(Len(queue[s]) + 1)
      BY <1>5, <1>7, <2>3
    <3> QED
      BY <1>5, <2>2, <2>3, <3>1
  <2>4. CASE r # s
    BY <1>7, <2>1, <2>2, <2>4
  <2> QED
    BY <2>3, <2>4
<1>11. Once'
  <2>1. \A r \in TcpSlot : \A i \in 1..Len(queue'[r]) :
          /\ client'[queue'[r][i]] # "idle" /\ queue'[r][i] \notin open
          /\ result[queue'[r][i]] = "none"
    <3> TAKE r \in TcpSlot
    <3> TAKE i \in 1..Len(queue'[r])
    <3>1. CASE queue'[r][i] = c
      BY <1>3, <1>7, <3>1
    <3>2. CASE /\ i \in 1..Len(queue[r]) /\ queue'[r][i] = queue[r][i]
               /\ queue[r][i] \in Conn /\ queue[r][i] # c
      <4>1. client[queue[r][i]] # "idle" /\ queue[r][i] \notin open /\ result[queue[r][i]] = "none"
        BY <1>1, <3>2, Zenon DEF Once, QueuedFresh
      <4> QED
        BY <1>7, <3>2, <4>1, Zenon
    <3> QED
      BY <1>10, <3>1, <3>2
  <2>2. ASSUME NEW q \in TcpSlot, NEW r \in TcpSlot,
               NEW i \in 1..Len(queue'[q]), NEW j \in 1..Len(queue'[r]),
               queue'[q][i] = queue'[r][j]
        PROVE  q = r /\ i = j
    <3>1. CASE queue'[q][i] = c
      <4>1. q = s /\ i = Len(queue[s]) + 1
        BY <1>10, <3>1
      <4>2. r = s /\ j = Len(queue[s]) + 1
        <5>1. queue'[r][j] = c
          BY <2>2, <3>1
        <5> QED
          BY <1>10, <5>1
      <4> QED
        BY <4>1, <4>2
    <3>2. CASE queue'[q][i] # c
      <4>1. i \in 1..Len(queue[q]) /\ queue'[q][i] = queue[q][i]
        BY <1>10, <3>2
      <4>2. j \in 1..Len(queue[r]) /\ queue'[r][j] = queue[r][j]
        BY <1>10, <2>2, <3>2, Zenon
      <4>3. \A a, b \in TcpSlot : \A x \in 1..Len(queue[a]), y \in 1..Len(queue[b]) :
              queue[a][x] = queue[b][y] => a = b /\ x = y
        BY <1>1 DEF Once, QueuedOnce
      <4>4. queue[q][i] = queue[r][j]
        BY <2>2, <4>1, <4>2, ZenonT(30)
      <4> QED
        BY ONLY <4>1, <4>2, <4>3, <4>4, q \in TcpSlot, r \in TcpSlot, ZenonT(40)
    <3> QED
      BY <3>1, <3>2
  <2>3. \A x \in Conn : client'[x] = "idle" => x \notin open /\ result[x] = "none"
    BY <1>1, <1>7 DEF Once, IdleUnused
  <2>4. QueuedFresh(queue', client', open, result)
    BY ONLY <2>1, ZenonT(30) DEF QueuedFresh
  <2>5. QueuedOnce(queue')
    BY ONLY <2>2, ZenonT(30) DEF QueuedOnce
  <2>6. IdleUnused(client', open, result)
    BY ONLY <2>3, SMTT(30) DEF IdleUnused
  <2> QED
    BY <1>2, <2>4, <2>5, <2>6 DEF Once
<1>12. ConnectionsOwned' /\ ErrorsJustified'
  BY <1>1, <1>2, Zenon DEF ConnectionsOwned, ErrorsJustified
<1> QED
  BY <1>8, <1>9, <1>11, <1>12 DEF IInv

\* A client writes and closes (client.c 96-101).
LEMMA CloseIInv ==
  ASSUME IInv, NEW c \in Conn, WriteAndClose(c)
  PROVE  IInv'
<1>1. TypeOK /\ Places /\ Once /\ ConnectionsOwned /\ ErrorsJustified
  BY DEF IInv
<1>2. UNCHANGED <<main, initvars, revents, queue, pc, ind, newsock, open, sent, quit, signals,
                  result>>
  BY DEF WriteAndClose, workers
<1>3. /\ client' \in [Conn -> {"idle", "connected", "closed"}]
      /\ client'[c] = "closed" /\ \A x \in Conn : x # c => client'[x] = client[x]
  BY <1>1 DEF WriteAndClose, TypeOK
<1>4. TypeOK'
  BY <1>1, <1>2, <1>3, ZenonT(30) DEF TypeOK, initvars
<1>5. Places' /\ ConnectionsOwned' /\ ErrorsJustified'
  BY <1>1, <1>2, Zenon DEF Places, ConnectionsOwned, ErrorsJustified
<1>6. Once'
  <2>1. \A r \in TcpSlot : \A i \in 1..Len(queue[r]) :
          queue[r][i] \in Conn /\ client[queue[r][i]] # "idle"
    BY <1>1 DEF Once, QueuedFresh, Places
  <2>2. \A r \in TcpSlot : \A i \in 1..Len(queue[r]) : client'[queue[r][i]] # "idle"
    BY <1>3, <2>1
  <2>3. \A x \in Conn : client'[x] = "idle" => client[x] = "idle"
    BY <1>3, SMTT(30)
  <2>4. QueuedFresh(queue, client', open, result)
    BY <1>1, <2>2 DEF Once, QueuedFresh
  <2>5. IdleUnused(client', open, result)
    BY <1>1, <2>3 DEF Once, IdleUnused
  <2> QED
    BY <1>1, <1>2, <2>4, <2>5, SMTT(30) DEF Once
<1> QED
  BY <1>4, <1>5, <1>6 DEF IInv

\* A datagram arrives: it goes to a socket that no connection uses.
LEMMA SendToIInv ==
  ASSUME IInv, NEW d \in Dgram, NEW s \in UdpSlot, SendTo(d, s)
  PROVE  IInv'
<1>1. TypeOK /\ Places /\ Once /\ ConnectionsOwned /\ ErrorsJustified
  BY DEF IInv
<1>2. UNCHANGED <<main, initvars, revents, pc, ind, newsock, open, client, quit, signals, result>>
  BY DEF SendTo, workers
<1>3. s \in Slot /\ s \notin TcpSlot /\ queue[s] \in Seq(Dgram)
  BY <1>1 DEF Places, Slot, TcpSlot, UdpSlot
<1>4. queue' = [queue EXCEPT ![s] = Append(queue[s], d)] /\ sent' = sent \cup {d}
  BY DEF SendTo
<1>5. \A r \in TcpSlot \cup UdpSlot :
        queue'[r] = IF r = s THEN Append(queue[s], d) ELSE queue[r]
  BY <1>1, <1>4 DEF TypeOK, Slot, TcpSlot, UdpSlot
<1>6. TypeOK'
  <2>1. Append(queue[s], d) \in Seq(Conn \cup Dgram)
    BY <1>1, <1>3 DEF TypeOK
  <2>2. queue' \in [Slot -> Seq(Conn \cup Dgram)]
    BY <1>1, <1>4, <2>1, Zenon DEF TypeOK
  <2>3. sent' \subseteq Dgram
    BY <1>1, <1>4 DEF TypeOK
  <2> QED
    BY <1>1, <1>2, <2>2, <2>3, Zenon DEF TypeOK, initvars
<1>7. \A r \in TcpSlot : queue'[r] = queue[r]
  BY <1>3, <1>5, SMTT(30)
<1>8. Places'
  <2>1. ASSUME NEW r \in UdpSlot
        PROVE  queue'[r] \in Seq(Dgram)
    <3>1. queue[r] \in Seq(Dgram)
      BY <1>1 DEF Places
    <3>2. Append(queue[s], d) \in Seq(Dgram)
      BY <1>3
    <3> QED
      BY <1>5, <3>1, <3>2, Zenon
  <2> QED
    BY <1>1, <1>2, <1>7, <2>1 DEF Places
<1>9. Once'
  <2>1. \A r \in TcpSlot : \A i \in 1..Len(queue'[r]) :
          /\ client[queue'[r][i]] # "idle" /\ queue'[r][i] \notin open
          /\ result[queue'[r][i]] = "none"
    <3> TAKE r \in TcpSlot
    <3>1. queue'[r] = queue[r]
      BY <1>7, Zenon
    <3> QED
      BY <1>1, <3>1, ZenonT(30) DEF Once, QueuedFresh
  <2>2. \A q, r \in TcpSlot : \A i \in 1..Len(queue'[q]), j \in 1..Len(queue'[r]) :
          queue'[q][i] = queue'[r][j] => q = r /\ i = j
    <3>1. \A q, r \in TcpSlot : \A i \in 1..Len(queue[q]), j \in 1..Len(queue[r]) :
            queue[q][i] = queue[r][j] => q = r /\ i = j
      BY <1>1, Zenon DEF Once, QueuedOnce
    <3>2. ASSUME NEW q \in TcpSlot, NEW r \in TcpSlot,
                 NEW i \in 1..Len(queue'[q]), NEW j \in 1..Len(queue'[r]),
                 queue'[q][i] = queue'[r][j]
          PROVE  q = r /\ i = j
      <4>1. queue'[q] = queue[q] /\ queue'[r] = queue[r]
        BY <1>7
      <4>2. i \in 1..Len(queue[q]) /\ j \in 1..Len(queue[r]) /\ queue[q][i] = queue[r][j]
        BY <3>2, <4>1, Zenon
      <4> QED
        BY <3>1, <4>2, ZenonT(30)
    <3> QED
      BY ONLY <3>2, Zenon
  <2>3. QueuedFresh(queue', client, open, result)
    BY ONLY <2>1 DEF QueuedFresh
  <2>4. QueuedOnce(queue')
    BY ONLY <2>2, SMTT(30) DEF QueuedOnce
  <2> QED
    BY <1>1, <1>2, <2>3, <2>4, ZenonT(30) DEF Once
<1>10. ConnectionsOwned' /\ ErrorsJustified'
  BY <1>1, <1>2 DEF ConnectionsOwned, ErrorsJustified
<1> QED
  BY <1>6, <1>8, <1>9, <1>10 DEF IInv

-----------------------------------------------------------------------------

\* The end of the process closes every descriptor (mihfd.c 677-679, and the
\* default action of a signal).
LEMMA EndIInv ==
  ASSUME IInv, MainReturns \/ SignalKills
  PROVE  IInv'
<1>1. TypeOK /\ Places /\ Once /\ ConnectionsOwned /\ ErrorsJustified
  BY DEF IInv
<1>2. UNCHANGED <<initvars, revents, queue, client, sent, result, quit>>
  BY DEF MainReturns, SignalKills, End, clients
<1>3. /\ main' \in MainPC /\ open' = {}
      /\ pc' = [t \in Thread |-> "free"] /\ ind' = [t \in Thread |-> NoSlot]
      /\ newsock' = [t \in Thread |-> NoConn]
  BY DEF MainReturns, SignalKills, End, MainPC
<1>4. signals' \in 0..MaxSignals
  <2>1. \/ signals' = signals
        \/ signals < MaxSignals /\ signals' = signals + 1
    BY DEF MainReturns, SignalKills
  <2> QED
    BY <1>1, <2>1, SignalAssumption DEF TypeOK
<1>5. TypeOK'
  <2>1. /\ pc' \in [Thread -> WorkerPC] /\ ind' \in [Thread -> Slot \cup {NoSlot}]
        /\ newsock' \in [Thread -> Conn \cup {NoConn}] /\ open' \subseteq Conn
    BY <1>3 DEF WorkerPC
  <2> QED
    BY <1>1, <1>2, <1>3, <1>4, <2>1, Zenon DEF TypeOK, initvars
<1>6. \A t \in Thread : pc'[t] = "free"
  BY <1>3
<1>7. Places'
  BY <1>1, <1>2, <1>6, Zenon DEF Places, Holding
<1>8. Once' /\ ErrorsJustified'
  <2>1. QueuedFresh(queue, client, open', result)
    BY <1>1, <1>3 DEF Once, QueuedFresh
  <2>2. IdleUnused(client, open', result)
    BY <1>1, <1>3 DEF Once, IdleUnused
  <2>3. Once'
    BY <1>1, <1>2, <2>1, <2>2 DEF Once
  <2>4. ErrorsJustified'
    BY <1>1, <1>2 DEF ErrorsJustified
  <2> QED
    BY <2>3, <2>4, SMTT(30)
<1>9. ConnectionsOwned'
  BY <1>3, <1>6 DEF ConnectionsOwned, Holding
<1> QED
  BY <1>5, <1>7, <1>8, <1>9 DEF IInv

\* Every step of the daemon, its workers, its signals and its clients preserves
\* the invariant.
LEMMA NextIInv ==
  ASSUME IInv, [Next]_vars
  PROVE  IInv'
<1>1. CASE UNCHANGED vars
  <2>1. UNCHANGED <<main, initvars, revents, queue, pc, ind, newsock, open, client, sent, quit,
                    signals, result>>
    BY <1>1 DEF vars, workers, clients
  <2>2. TypeOK'
    BY <2>1, ZenonT(30) DEF IInv, TypeOK, initvars
  <2>3. Places'
    BY <2>1 DEF IInv, Places
  <2>4. Once' /\ ConnectionsOwned' /\ ErrorsJustified'
    BY <2>1, Quiet
  <2> QED
    BY <2>2, <2>3, <2>4 DEF IInv
<1>2. CASE MainNext
  BY <1>2, MainQuiet, SpawnQuiet, EndIInv DEF MainNext
<1>3. ASSUME NEW t \in Thread, WorkerNext(t)
      PROVE  IInv'
  BY <1>3, PickQuiet, AcceptIInv, LeaveIInv, RecvIInv DEF WorkerNext
<1>4. CASE SignalNext
  BY <1>4, MainQuiet, EndIInv, SignalWorkerIInv DEF SignalNext
<1>5. CASE ClientNext
  BY <1>5, ConnectIInv, CloseIInv, SendToIInv DEF ClientNext
<1> QED
  BY <1>1, <1>2, <1>3, <1>4, <1>5 DEF Next

\* The inductive invariant holds in every state of the daemon.
LEMMA IInvHolds == Spec => []IInv
<1>1. Init => IInv
  BY InitIInv
<1>2. IInv /\ [Next]_vars => IInv'
  BY NextIInv
<1> QED
  BY <1>1, <1>2, PTL DEF Spec

\* Type correctness of the daemon's model for every number of threads, every set
\* of connections and datagrams, every list of addresses and every sa_flags; in
\* particular, what a worker accepts is a connection and never a datagram.
THEOREM TypeCorrect == Spec => []TypeOK
<1>1. IInv => TypeOK
  BY DEF IInv
<1> QED
  BY <1>1, IInvHolds, PTL

\* Each open connection belongs to exactly one worker, however many workers there
\* are and however their polls, time-outs and signals interleave (mihfd.c 532-562).
THEOREM ConnectionsHeld == Spec => []ConnectionsOwned
<1>1. IInv => ConnectionsOwned
  BY DEF IInv
<1> QED
  BY <1>1, IInvHolds, PTL

\* No request for an action that mih.h lists is reported as an error, whatever
\* octets the clients send (mihfd.c 290-497, 551, 606).
THEOREM ErrorsExplained == Spec => []ErrorsJustified
<1>1. IInv => ErrorsJustified
  BY DEF IInv
<1> QED
  BY <1>1, IInvHolds, PTL
=============================================================================
