---------------------------- MODULE ExchangeProofs ---------------------------
(***************************************************************************)
(* The encoding of message.c: the header survives packing and unpacking.   *)
(*                                                                         *)
(* What Exchange promises, for any MIHFs, any messages of their users and  *)
(* any number of sends, losses and duplicates: acknowledgements identify   *)
(* what they acknowledge and are not acknowledged, and the dispatchers     *)
(* take exactly the known actions.  The argument is that a packet in the   *)
(* network that asks for an acknowledgement is one that a user sent.       *)
(***************************************************************************)
EXTENDS Exchange, FiniteSetTheorems, TLAPS

-----------------------------------------------------------------------------
(* The header                                                              *)

\* A word that was split into two octets is put together again, also under the
\* masks of the fields that are shorter than a word (message.c 17-23, 37-41).
LEMMA WordRoundTrip ==
  ASSUME NEW n \in Nat, n < 65536
  PROVE  /\ High(n) \in Nat /\ High(n) < 256
         /\ Low(n) \in Nat /\ Low(n) < 256
         /\ Word(High(n), Low(n)) = n
  BY SMT DEF High, Low, Word

\* The second octet is the fragment number and a reserved bit.
LEMMA SecondOctet ==
  ASSUME NEW f \in Nat, f < 128
  PROVE  f * 2 \in Nat /\ f * 2 < 256 /\ (f * 2) \div 2 = f /\ (f * 2) % 2 = 0
  BY SMT

-----------------------------------------------------------------------------

\* unpack_mih_header inverts pack_mih_header on every header whose reserved
\* bits are zero, whatever its eleven other fields (message.c 8-42).
THEOREM HeaderRoundTrip ==
  ASSUME NEW h \in mih_header_t, h.rsvd1 = 0, h.rsvd2 = 0
  PROVE  unpack_mih_header(pack_mih_header(h)) = h
<1> DEFINE b == pack_mih_header(h)
           g == unpack_mih_header(b)
<1>1. /\ h.version \in Nat /\ h.version < 16
      /\ h.ackreq \in Nat /\ h.ackreq < 2
      /\ h.ackrsp \in Nat /\ h.ackrsp < 2
      /\ h.uir \in Nat /\ h.uir < 2
      /\ h.morefragment \in Nat /\ h.morefragment < 2
      /\ h.fragmentnumber \in Nat /\ h.fragmentnumber < 128
      /\ h.sid \in Nat /\ h.sid < 16
      /\ h.opcode \in Nat /\ h.opcode < 4
      /\ h.aid \in Nat /\ h.aid < 1024
      /\ h.tid \in Nat /\ h.tid < 4096
      /\ h.payloadlength \in Nat /\ h.payloadlength < 65536
  BY DEF mih_header_t, Below, Bit
<1>2. /\ b[1] = h.version * 16 + h.ackreq * 8 + h.ackrsp * 4 + h.uir * 2
                  + h.morefragment
      /\ b[2] = h.fragmentnumber * 2
      /\ b[3] = h.sid * 16 + h.opcode * 4 + High(h.aid)
      /\ b[4] = Low(h.aid)
      /\ b[5] = High(h.tid) /\ b[6] = Low(h.tid)
      /\ b[7] = High(h.payloadlength) /\ b[8] = Low(h.payloadlength)
  BY DEF pack_mih_header
<1> HIDE DEF b
<1>3. /\ g.version = h.version /\ g.ackreq = h.ackreq /\ g.ackrsp = h.ackrsp
      /\ g.uir = h.uir /\ g.morefragment = h.morefragment
<2>1. /\ b[1] \div 16 = h.version
      /\ (b[1] \div 8) % 2 = h.ackreq
      /\ (b[1] \div 4) % 2 = h.ackrsp
      /\ (b[1] \div 2) % 2 = h.uir
      /\ b[1] % 2 = h.morefragment
  <3> DEFINE v == h.version  a == h.ackreq  r == h.ackrsp  u == h.uir
             m == h.morefragment  o == b[1]
  <3>1. /\ v \in Nat /\ v < 16 /\ a \in Nat /\ a < 2 /\ r \in Nat /\ r < 2
        /\ u \in Nat /\ u < 2 /\ m \in Nat /\ m < 2
    BY <1>1
  <3>2. o = v * 16 + a * 8 + r * 4 + u * 2 + m
    BY <1>2
  <3> HIDE DEF v, a, r, u, m, o
  <3>3. /\ o \div 16 = v /\ (o \div 8) % 2 = a /\ (o \div 4) % 2 = r
        /\ (o \div 2) % 2 = u /\ o % 2 = m
    BY ONLY <3>1, <3>2, SMT
  <3> QED
    BY <3>3 DEF v, a, r, u, m, o
<2> QED
  BY ONLY <2>1 DEF unpack_mih_header
<1>4. g.fragmentnumber = h.fragmentnumber /\ g.rsvd1 = 0
  BY <1>1, <1>2, SecondOctet DEF unpack_mih_header
<1>5. /\ High(h.aid) \in Nat /\ High(h.aid) < 4
      /\ High(h.tid) \in Nat /\ High(h.tid) < 16
  BY <1>1 DEF High
<1>6. /\ g.sid = h.sid /\ g.opcode = h.opcode
      /\ b[3] % 4 = High(h.aid)
<2>1. /\ b[3] \div 16 = h.sid
      /\ (b[3] \div 4) % 4 = h.opcode
      /\ b[3] % 4 = High(h.aid)
  <3> DEFINE v == h.sid  p == h.opcode  q == High(h.aid)  o == b[3]
  <3>1. v \in Nat /\ v < 16 /\ p \in Nat /\ p < 4 /\ q \in Nat /\ q < 4
    BY <1>1, <1>5
  <3>2. o = v * 16 + p * 4 + q
    BY <1>2
  <3> HIDE DEF v, p, q, o
  <3>3. o \div 16 = v /\ (o \div 4) % 4 = p /\ o % 4 = q
    BY ONLY <3>1, <3>2, SMT
  <3> QED
    BY <3>3 DEF v, p, q, o
<2> QED
  BY ONLY <2>1 DEF unpack_mih_header
<1>7. g.aid = h.aid
  BY <1>1, <1>2, <1>6, WordRoundTrip DEF unpack_mih_header
<1>8. High(h.tid) % 16 = High(h.tid) /\ High(h.tid) \div 16 = 0
  BY <1>5
<1>9. g.tid = h.tid /\ g.rsvd2 = 0
  BY <1>1, <1>2, <1>8, WordRoundTrip DEF unpack_mih_header
<1>10. g.payloadlength = h.payloadlength
  BY <1>1, <1>2, WordRoundTrip DEF unpack_mih_header
<1>11. g = [version |-> g.version, ackreq |-> g.ackreq, ackrsp |-> g.ackrsp,
            uir |-> g.uir, morefragment |-> g.morefragment,
            fragmentnumber |-> g.fragmentnumber, rsvd1 |-> g.rsvd1, sid |-> g.sid,
            opcode |-> g.opcode, aid |-> g.aid, rsvd2 |-> g.rsvd2, tid |-> g.tid,
            payloadlength |-> g.payloadlength]
  BY DEF unpack_mih_header
<1>12. h = [version |-> h.version, ackreq |-> h.ackreq, ackrsp |-> h.ackrsp,
            uir |-> h.uir, morefragment |-> h.morefragment,
            fragmentnumber |-> h.fragmentnumber, rsvd1 |-> h.rsvd1, sid |-> h.sid,
            opcode |-> h.opcode, aid |-> h.aid, rsvd2 |-> h.rsvd2, tid |-> h.tid,
            payloadlength |-> h.payloadlength]
  BY DEF mih_header_t
<1> HIDE DEF g
<1>13. g = h
  BY <1>3, <1>4, <1>6, <1>7, <1>9, <1>10, <1>11, <1>12
<1> QED
  BY <1>13 DEF g, b

\* An acknowledgement carries the transaction of the request over the wire, is
\* marked as one, and does not ask for another (proto.c 34-40).
THEOREM AckOnTheWire ==
  ASSUME NEW h \in mih_header_t
  PROVE  LET g == unpack_mih_header(pack_mih_header(AckHeader(h))) IN
         /\ g.ackreq = 0 /\ g.ackrsp = 1
         /\ g.sid = h.sid /\ g.opcode = h.opcode /\ g.aid = h.aid /\ g.tid = h.tid
<1>1. AckHeader(h) \in mih_header_t
  BY DEF AckHeader, mih_header_t, Below, Bit
<1>2. AckHeader(h).rsvd1 = 0 /\ AckHeader(h).rsvd2 = 0
  BY DEF AckHeader
<1>3. unpack_mih_header(pack_mih_header(AckHeader(h))) = AckHeader(h)
  BY <1>1, <1>2, HeaderRoundTrip
<1> QED
  BY <1>3 DEF AckHeader

-----------------------------------------------------------------------------
(* The exchange                                                            *)

\* Every packet in the network is well formed, and is a user's message if it asks
\* for an acknowledgement.
GoodPacket(p) ==
  /\ p \in Packet /\ Len(p.octets) = HeaderSize
  /\ HeaderOf(p).ackreq = 1 => \E s \in 1..Len(sends) : sends[s] = p

\* What AckIdentifiesRequest says of an acknowledgement a and a packet q, when the
\* users have sent S.
Identified(S, a, q) ==
  /\ \E s \in 1..Len(S) : S[s] = q
  /\ q.from = a.to /\ q.src = a.dst /\ q.dst = a.src
  /\ HeaderOf(q).ackreq = 1
  /\ SameTransaction(HeaderOf(q), HeaderOf(a))

AllIdentified(S, A, H) ==
  \A k \in 1..Len(A) : A[k].to \in Node =>
    \E j \in 1..Len(H) : Identified(S, A[k], H[j].packet)

Handled == [packet : Packet, res : {-1, 0}]

IInv ==
  /\ \A p \in BagToSet(net) : GoodPacket(p)
  /\ sends \in Seq(Request)
  /\ acks \in Seq(Packet)
  /\ handled \in Seq(Handled)
  /\ dups \in 0..MaxDups
  /\ AckIdentifiesRequest
  /\ NoAckStorm
  /\ RequestsTaken

-----------------------------------------------------------------------------
(* The dispatchers                                                         *)

\* The dispatchers refuse with -1 and take with 0, and take a request exactly when
\* its action is known, Capability Discover and the information service excepted
\* (proto.c 61-273).
LEMMA Dispatch ==
  ASSUME NEW h \in mih_header_t
  PROVE  /\ ProcessSid(h) \in {-1, 0}
         /\ h.opcode = REQUEST /\ h.sid # INFORMATION_SERVICE =>
              (ProcessSid(h) = 0 <=> KnownAction(h) /\ ~IsDiscover(h))
<1>1. h.sid \in Nat /\ h.aid \in Nat
  BY DEF mih_header_t, Below
<1> USE DEF REQUEST, RESPONSE, INDICATION, SERVICE_MANAGEMENT, EVENT_SERVICE,
            COMMAND_SERVICE, INFORMATION_SERVICE, Handle
<1>2. CASE h.sid = SERVICE_MANAGEMENT
  <2>1. ProcessSid(h) = ProcessService(h)
    BY <1>2 DEF ProcessSid
  <2>2. KnownAction(h) <=> h.aid \in 1..5
    BY <1>2 DEF KnownAction
  <2>3. IsDiscover(h) <=> h.aid = 1
    BY <1>2 DEF IsDiscover
  <2> QED
    BY <1>1, <1>2, <2>1, <2>2, <2>3
       DEF ProcessService, CapabilityDiscover, Register, Deregister, EventSubscribe,
           EventUnsubscribe
<1>3. CASE h.sid = EVENT_SERVICE
  <2>1. ProcessSid(h) = ProcessEvent(h)
    BY <1>3 DEF ProcessSid
  <2>2. KnownAction(h) <=> h.aid \in (1..8) \ {4}
    BY <1>3 DEF KnownAction
  <2>3. ~IsDiscover(h)
    BY <1>3 DEF IsDiscover
  <2> QED
    BY <1>1, <1>3, <2>1, <2>2, <2>3
       DEF ProcessEvent, LinkDetected, LinkUp, LinkDown, LinkParametersReport,
           LinkGoingDown, LinkHandoverImminent, LinkHandoverComplete
<1>4. CASE h.sid = COMMAND_SERVICE
  <2>1. ProcessSid(h) = ProcessCmd(h)
    BY <1>4 DEF ProcessSid
  <2>2. KnownAction(h) <=> h.aid \in 1..11
    BY <1>4 DEF KnownAction
  <2>3. ~IsDiscover(h)
    BY <1>4 DEF IsDiscover
  <2> QED
    BY <1>1, <1>4, <2>1, <2>2, <2>3
       DEF ProcessCmd, LinkGetParameters, LinkConfigureThresholds, LinkActions,
           NetHOCandidateQuery, MNHOCandidateQuery, N2NHOQueryResources, MNHOCommit,
           NetHOCommit, N2NHOCommit, MNHOComplete, N2NHOComplete
<1>5. CASE h.sid = INFORMATION_SERVICE
  <2>1. ProcessSid(h) = ProcessInfo(h)
    BY <1>5 DEF ProcessSid
  <2> QED
    BY <1>1, <1>5, <2>1
       DEF ProcessInfo, CapabilityDiscover, Register, Deregister, EventSubscribe,
           EventUnsubscribe
<1>6. CASE h.sid \notin {SERVICE_MANAGEMENT, EVENT_SERVICE, COMMAND_SERVICE,
                         INFORMATION_SERVICE}
  BY <1>6 DEF ProcessSid, KnownAction
<1> QED
  BY <1>2, <1>3, <1>4, <1>5, <1>6

\* What ProcessInfo does (proto.c 203-224) with a request for the information
\* service: it takes the actions 2 to 5, so it disagrees with the list of mih.h
\* (126-128) on GET_INFORMATION, which it refuses, and on 3, 4 and 5.
THEOREM InformationDispatch ==
  ASSUME NEW h \in mih_header_t, h.opcode = REQUEST, h.sid = INFORMATION_SERVICE
  PROVE  /\ ProcessSid(h) = 0 <=> h.aid \in 2..5
         /\ (ProcessSid(h) = 0 <=> KnownAction(h)) <=> h.aid \notin {1, 3, 4, 5}
<1> USE DEF REQUEST, RESPONSE, INDICATION, SERVICE_MANAGEMENT, EVENT_SERVICE,
            COMMAND_SERVICE, INFORMATION_SERVICE
<1>1. h.aid \in Nat
  BY DEF mih_header_t, Below
<1>2. ProcessSid(h) = ProcessInfo(h) /\ (KnownAction(h) <=> h.aid \in 1..2)
  BY DEF ProcessSid, KnownAction
<1>3. ProcessInfo(h) = 0 <=> h.aid \in 2..5
  BY <1>1
     DEF ProcessInfo, Handle, CapabilityDiscover, Register, Deregister, EventSubscribe,
         EventUnsubscribe
<1> QED
  BY <1>1, <1>2, <1>3

-----------------------------------------------------------------------------
(* Headers                                                                 *)

\* unpack_mih_header returns a header for any eight octets (message.c 26-42).
LEMMA UnpackType ==
  ASSUME NEW b \in Seq(Octet), Len(b) = HeaderSize
  PROVE  unpack_mih_header(b) \in mih_header_t
<1>1. \A i \in 1..8 : b[i] \in Nat /\ b[i] < 256
  <2>1. \A i \in 1..Len(b) : b[i] \in Octet
    OBVIOUS
  <2>2. Len(b) = 8
    BY DEF HeaderSize
  <2>3. \A i \in 1..8 : b[i] \in Octet
    BY ONLY <2>1, <2>2, Zenon
  <2>4. \A x \in Octet : x \in Nat /\ x < 256
    BY ONLY Zenon DEF Octet, Below
  <2> QED
    BY ONLY <2>3, <2>4, Zenon
<1>2. ASSUME NEW n \in Nat, n < 256
      PROVE  /\ n \div 16 \in Below(16) /\ (n \div 8) % 2 \in Bit
             /\ (n \div 4) % 2 \in Bit /\ (n \div 2) % 2 \in Bit /\ n % 2 \in Bit
             /\ n \div 2 \in Below(128) /\ (n \div 4) % 4 \in Below(4)
  BY <1>2, SMT DEF Below, Bit
<1>3. /\ b[1] \in Nat /\ b[1] < 256 /\ b[2] \in Nat /\ b[2] < 256
      /\ b[3] \in Nat /\ b[3] < 256 /\ b[4] \in Nat /\ b[4] < 256
      /\ b[5] \in Nat /\ b[5] < 256 /\ b[6] \in Nat /\ b[6] < 256
      /\ b[7] \in Nat /\ b[7] < 256 /\ b[8] \in Nat /\ b[8] < 256
  BY <1>1
<1>4. /\ b[1] \div 16 \in Below(16) /\ (b[1] \div 8) % 2 \in Bit
      /\ (b[1] \div 4) % 2 \in Bit /\ (b[1] \div 2) % 2 \in Bit /\ b[1] % 2 \in Bit
  BY ONLY <1>2, <1>3, Zenon
<1>5. /\ b[2] \div 2 \in Below(128) /\ b[2] % 2 \in Bit
      /\ b[3] \div 16 \in Below(16) /\ (b[3] \div 4) % 4 \in Below(4)
      /\ b[5] \div 16 \in Below(16)
  BY ONLY <1>2, <1>3, Zenon
<1>6. /\ Word(b[3] % 4, b[4]) \in Below(1024)
      /\ Word(b[5] % 16, b[6]) \in Below(4096)
      /\ Word(b[7], b[8]) \in Below(65536)
  <2> DEFINE b3 == b[3]  b4 == b[4]  b5 == b[5]  b6 == b[6]  b7 == b[7]  b8 == b[8]
  <2>1. /\ b3 \in Nat /\ b3 < 256 /\ b4 \in Nat /\ b4 < 256 /\ b5 \in Nat /\ b5 < 256
        /\ b6 \in Nat /\ b6 < 256 /\ b7 \in Nat /\ b7 < 256 /\ b8 \in Nat /\ b8 < 256
    BY <1>3
  <2> HIDE DEF b3, b4, b5, b6, b7, b8
  <2>2. /\ Word(b3 % 4, b4) \in Below(1024) /\ Word(b5 % 16, b6) \in Below(4096)
        /\ Word(b7, b8) \in Below(65536)
    BY ONLY <2>1, SMT DEF Below, Word
  <2> QED
    BY <2>2, SMT DEF b3, b4, b5, b6, b7, b8
<1> QED
  BY ONLY <1>4, <1>5, <1>6, SMT DEF unpack_mih_header, mih_header_t

\* pack_mih_header writes eight octets (message.c 8-24).
LEMMA PackType ==
  ASSUME NEW h \in mih_header_t
  PROVE  /\ pack_mih_header(h) \in Seq(Octet)
         /\ Len(pack_mih_header(h)) = HeaderSize
<1>1. /\ h.version \in Below(16) /\ h.ackreq \in Below(2) /\ h.ackrsp \in Below(2)
      /\ h.uir \in Below(2) /\ h.morefragment \in Below(2)
      /\ h.fragmentnumber \in Below(128)
      /\ h.sid \in Below(16) /\ h.opcode \in Below(4) /\ h.aid \in Below(1024)
      /\ h.tid \in Below(4096) /\ h.payloadlength \in Below(65536)
  BY DEF mih_header_t, Bit
<1>2. h.version * 16 + h.ackreq * 8 + h.ackrsp * 4 + h.uir * 2 + h.morefragment \in Octet
  BY <1>1, SMT DEF Below, Octet
<1>3. h.fragmentnumber * 2 \in Octet
  BY <1>1, SMT DEF Below, Octet
<1>4. h.sid * 16 + h.opcode * 4 + High(h.aid) \in Octet
  BY <1>1, SMT DEF Below, Octet, High
<1>5. /\ Low(h.aid) \in Octet /\ High(h.tid) \in Octet /\ Low(h.tid) \in Octet
      /\ High(h.payloadlength) \in Octet /\ Low(h.payloadlength) \in Octet
  BY <1>1, SMT DEF Below, Octet, High, Low
<1> QED
  BY <1>2, <1>3, <1>4, <1>5 DEF pack_mih_header, HeaderSize

\* The answer to a packet that arrives is a packet, goes to where the packet came
\* from, has its transaction, and does not ask for an answer (proto.c 21-59).
LEMMA AckPacketGood ==
  ASSUME NEW p \in Packet, Len(p.octets) = HeaderSize, p.to \in Node
  PROVE  /\ AckPacket(p) \in Packet /\ Len(AckPacket(p).octets) = HeaderSize
         /\ HeaderOf(AckPacket(p)).ackreq = 0
         /\ SameTransaction(HeaderOf(p), HeaderOf(AckPacket(p)))
<1>1. HeaderOf(p) \in mih_header_t
  BY UnpackType DEF HeaderOf, Packet
<1>2. AckHeader(HeaderOf(p)) \in mih_header_t
  BY <1>1 DEF AckHeader, mih_header_t, Below, Bit
<1>3. /\ pack_mih_header(AckHeader(HeaderOf(p))) \in Seq(Octet)
      /\ Len(pack_mih_header(AckHeader(HeaderOf(p)))) = HeaderSize
  BY <1>2, PackType
<1>4. /\ AckPacket(p) \in Packet /\ Len(AckPacket(p).octets) = HeaderSize
      /\ HeaderOf(AckPacket(p))
           = unpack_mih_header(pack_mih_header(AckHeader(HeaderOf(p))))
  BY <1>3 DEF AckPacket, Packet, HeaderOf
<1> QED
  BY <1>1, <1>4, AckOnTheWire DEF SameTransaction

-----------------------------------------------------------------------------
(* The inductive invariant                                                 *)

\* What is in a bag after a packet was added to it or removed from it.
LEMMA BagDomains ==
  ASSUME NEW B, NEW S, NEW p
  PROVE  /\ BagToSet(B (+) SetToBag(S)) = BagToSet(B) \cup S
         /\ BagToSet(B (-) SetToBag({p})) \subseteq BagToSet(B)
  BY DEF BagToSet, SetToBag, (+), (-)

\* The packets whose acknowledgements NoAckStorm counts.
Counted(h) ==
  {k \in 1..Len(h) :
     LET p == h[k].packet IN
     ~IsAckPacket(p) /\ p.dst = p.to /\ HeaderOf(p).ackreq = 1}

\* One more packet was handled: it is counted if it is one of those.
LEMMA CountedAppend ==
  ASSUME NEW h \in Seq(Handled), NEW x \in Handled
  PROVE  LET p == x.packet
             c == ~IsAckPacket(p) /\ p.dst = p.to /\ HeaderOf(p).ackreq = 1
         IN  Cardinality(Counted(Append(h, x)))
               = Cardinality(Counted(h)) + (IF c THEN 1 ELSE 0)
<1> DEFINE c == /\ ~IsAckPacket(x.packet) /\ x.packet.dst = x.packet.to
                /\ HeaderOf(x.packet).ackreq = 1
           g == Append(h, x)
           n == Len(h)
           new == n + 1
<1>1. /\ n \in Nat /\ Len(g) = n + 1 /\ g[n + 1] = x
      /\ \A k \in 1..n : g[k] = h[k]
  OBVIOUS
<1>2. Counted(g) = IF c THEN Counted(h) \cup {new} ELSE Counted(h)
  BY <1>1 DEF Counted
<1>3. IsFiniteSet(Counted(h)) /\ new \notin Counted(h)
  <2>1. IsFiniteSet(1..n)
    BY <1>1, FS_Interval
  <2> QED
    BY <1>1, <2>1, FS_Subset DEF Counted
<1>4. Cardinality(Counted(h)) \in Nat
  BY <1>3, FS_CardinalityType
<1> HIDE DEF g, new
<1>5. Cardinality(Counted(h) \cup {new}) = Cardinality(Counted(h)) + 1
  BY <1>3, FS_AddElement, Zenon
<1>6. Cardinality(Counted(g)) = Cardinality(Counted(h)) + (IF c THEN 1 ELSE 0)
  BY <1>2, <1>4, <1>5
<1> QED
  BY <1>6 DEF g

\* At first no packet was sent and none handled.
LEMMA InitIInv ==
  ASSUME Init
  PROVE  IInv
<1>1. /\ BagToSet(net) = {} /\ sends = << >> /\ acks = << >> /\ handled = << >>
      /\ dups \in 0..MaxDups
  BY BoundAssumption DEF Init, EmptyBag, SetToBag, BagToSet
<1>2. Len(acks) = 0 /\ Len(handled) = 0 /\ Counted(handled) = {}
  BY <1>1 DEF Counted
<1>3. NoAckStorm
  BY <1>2, FS_EmptySet DEF NoAckStorm, Counted
<1>4. AckIdentifiesRequest /\ RequestsTaken
  BY <1>2 DEF AckIdentifiesRequest, RequestsTaken
<1> QED
  BY <1>1, <1>3, <1>4 DEF IInv

\* A message that an MIHF sends is in the network and is one of those sent.
LEMMA SendIInv ==
  ASSUME IInv, Send
  PROVE  IInv'
<1>1. PICK p \in Request : /\ net' = net (+) SetToBag({p})
                          /\ sends' = Append(sends, p)
  BY Zenon DEF Send
<1>2. UNCHANGED <<handled, acks, dups>>
  BY DEF Send
<1>3. /\ sends \in Seq(Request) /\ sends' \in Seq(Request)
      /\ Len(sends') = Len(sends) + 1 /\ Len(sends) \in Nat
      /\ \A s \in 1..Len(sends) : s \in 1..Len(sends') /\ sends'[s] = sends[s]
      /\ Len(sends') \in 1..Len(sends') /\ sends'[Len(sends')] = p
  BY <1>1 DEF IInv
<1>4. BagToSet(net') = BagToSet(net) \cup {p}
  BY <1>1, BagDomains, Zenon
<1>5. \A q \in BagToSet(net') : GoodPacket(q)'
  <2>1. \A q \in BagToSet(net) : GoodPacket(q)'
    BY <1>3 DEF IInv, GoodPacket
  <2>2. GoodPacket(p)'
    BY <1>3, RequestAssumption DEF GoodPacket
  <2> QED
    BY <1>4, <2>1, <2>2
<1>6. AckIdentifiesRequest'
  BY <1>2, <1>3, SMTT(30) DEF IInv, AckIdentifiesRequest
<1>7. NoAckStorm' /\ RequestsTaken'
  BY <1>2 DEF IInv, NoAckStorm, RequestsTaken
<1> QED
  BY <1>2, <1>3, <1>5, <1>6, <1>7 DEF IInv

\* A lost packet leaves what was handled and what was sent.
LEMMA LoseIInv ==
  ASSUME IInv, NEW p, Lose(p)
  PROVE  IInv'
<1>1. UNCHANGED <<sends, handled, acks, dups>> /\ net' = net (-) SetToBag({p})
  BY DEF Lose
<1>2. BagToSet(net') \subseteq BagToSet(net)
  BY <1>1, BagDomains, Zenon
<1>3. \A q \in BagToSet(net') : GoodPacket(q)'
  BY <1>1, <1>2, Zenon DEF IInv, GoodPacket
<1>4. AckIdentifiesRequest' /\ NoAckStorm' /\ RequestsTaken'
  BY <1>1, ZenonT(40) DEF IInv, AckIdentifiesRequest, NoAckStorm, RequestsTaken
<1> QED
  BY <1>1, <1>3, <1>4, Zenon DEF IInv

\* A packet is handled (proto.c 229-276): what it asks for is answered once, and the
\* dispatchers' verdict is as it should be.
LEMMA ProcessRequestIInv ==
  ASSUME IInv, NEW p \in BagToSet(net), ProcessRequest(p)
  PROVE  IInv'
<1> DEFINE x == [packet |-> p, res |-> Result(p)]
           m == Len(handled)
           n == Len(acks)
<1>1. /\ p \in Packet /\ Len(p.octets) = HeaderSize /\ p.to \in Node
      /\ HeaderOf(p).ackreq = 1 => \E s \in 1..Len(sends) : sends[s] = p
  BY DEF IInv, GoodPacket, ProcessRequest
<1>2. HeaderOf(p) \in mih_header_t
  BY <1>1, UnpackType DEF HeaderOf, Packet
<1>3. Result(p) \in {-1, 0}
  BY <1>2, Dispatch DEF Result
<1>4. x \in Handled /\ x.packet = p /\ x.res = Result(p)
  BY <1>1, <1>3 DEF Handled
<1>5. /\ handled' = Append(handled, x) /\ sends' = sends /\ acks' = acks \o Answers(p)
  BY DEF ProcessRequest
<1> HIDE DEF x
<1>6. /\ m \in Nat /\ Len(handled') = m + 1 /\ handled'[m + 1] = x
      /\ \A k \in 1..m : k \in 1..(m + 1) /\ handled'[k] = handled[k]
      /\ handled' \in Seq(Handled) /\ handled \in Seq(Handled)
  BY <1>4, <1>5 DEF IInv
<1>7. /\ AckPacket(p) \in Packet /\ Len(AckPacket(p).octets) = HeaderSize
      /\ HeaderOf(AckPacket(p)).ackreq = 0
      /\ SameTransaction(HeaderOf(p), HeaderOf(AckPacket(p)))
  BY <1>1, AckPacketGood
<1>8. acks \in Seq(Packet) /\ n \in Nat
  BY DEF IInv
<1>9. /\ WantsAck(p) => acks' = Append(acks, AckPacket(p))
      /\ ~WantsAck(p) => acks' = acks
  BY <1>5, <1>8 DEF Answers
<1>10. acks' \in Seq(Packet)
  BY <1>7, <1>8, <1>9
<1>11. \A q \in BagToSet(net') : GoodPacket(q)'
  <2>1. BagToSet(net') \subseteq BagToSet(net) \cup {AckPacket(p)}
    <3> DEFINE S == {a \in {AckPacket(p)} : WantsAck(p)}
    <3>1. \/ net' = (net (-) SetToBag({p})) (+) SetToBag(S)
          \/ net' = net (+) SetToBag(S)
      BY DEF ProcessRequest
    <3> HIDE DEF S
    <3>2. S \subseteq {AckPacket(p)}
      BY DEF S
    <3>3. BagToSet(net (+) SetToBag(S)) = BagToSet(net) \cup S
      BY BagDomains, Zenon
    <3>4. BagToSet((net (-) SetToBag({p})) (+) SetToBag(S))
            = BagToSet(net (-) SetToBag({p})) \cup S
      BY BagDomains, Zenon
    <3>5. BagToSet(net (-) SetToBag({p})) \subseteq BagToSet(net)
      BY BagDomains, Zenon
    <3> QED
      BY <3>1, <3>2, <3>3, <3>4, <3>5
  <2>2. GoodPacket(AckPacket(p))'
    BY <1>7 DEF GoodPacket
  <2>3. \A q \in BagToSet(net) : GoodPacket(q)'
    BY <1>5 DEF IInv, GoodPacket
  <2> QED
    BY <2>1, <2>2, <2>3
<1>12. dups' \in 0..MaxDups
  BY BoundAssumption DEF IInv, ProcessRequest
<1>13. RequestsTaken'
  <2> SUFFICES ASSUME NEW k \in 1..(m + 1)
               PROVE  LET q == handled'[k].packet
                          h == HeaderOf(q)
                      IN  q.dst = q.to /\ h.opcode = REQUEST /\ h.sid # INFORMATION_SERVICE =>
                            (handled'[k].res = 0 <=> KnownAction(h) /\ ~IsDiscover(h))
    BY <1>6 DEF RequestsTaken
  <2>1. CASE k \in 1..m
    BY <1>6, <2>1, Zenon DEF IInv, RequestsTaken
  <2>2. CASE k = m + 1
    <3>1. handled'[k].packet = p /\ handled'[k].res = Result(p)
      BY <1>4, <1>6, <2>2
    <3>2. p.dst = p.to => Result(p) = ProcessSid(HeaderOf(p))
      BY DEF Result
    <3> QED
      BY <1>2, <3>1, <3>2, Dispatch
  <2> QED
    BY <1>6, <2>1, <2>2
<1>14. AckIdentifiesRequest'
  <2>1. AllIdentified(sends, acks, handled)
    BY DEF IInv, AckIdentifiesRequest, AllIdentified, Identified
  <2>2. \A k \in 1..n : acks[k].to \in Node =>
          \E j \in 1..(m + 1) : Identified(sends, acks[k], handled'[j].packet)
    BY <1>6, <2>1, SMTT(30) DEF AllIdentified
  <2>3. WantsAck(p) => Identified(sends, AckPacket(p), handled'[m + 1].packet)
    BY <1>1, <1>4, <1>6, <1>7 DEF WantsAck, AckPacket, Identified
  <2>4. m + 1 \in 1..(m + 1)
    BY <1>6
  <2>5. \A k \in 1..Len(acks') : acks'[k].to \in Node =>
          \E j \in 1..(m + 1) : Identified(sends, acks'[k], handled'[j].packet)
    <3>1. CASE ~WantsAck(p)
      BY <1>9, <2>2, <3>1
    <3>2. CASE WantsAck(p)
      <4>1. /\ Len(acks') = n + 1 /\ acks'[n + 1] = AckPacket(p)
            /\ \A k \in 1..n : acks'[k] = acks[k]
        BY <1>7, <1>8, <1>9, <3>2
      <4>2. \A k \in 1..(n + 1) : k \in 1..n \/ k = n + 1
        BY <1>8
      <4> QED
        BY <2>2, <2>3, <2>4, <3>2, <4>1, <4>2
    <3> QED
      BY <3>1, <3>2
  <2>6. AllIdentified(sends', acks', handled')
    BY <1>5, <1>6, <2>5 DEF AllIdentified
  <2> QED
    BY <2>6 DEF AckIdentifiesRequest, AllIdentified, Identified
<1>15. NoAckStorm'
  <2> DEFINE c == ~IsAckPacket(p) /\ p.dst = p.to /\ HeaderOf(p).ackreq = 1
  <2>1. WantsAck(p) <=> c
    <3>1. HeaderOf(p).ackreq = 1 => p \in Request
      BY <1>1 DEF IInv
    <3>2. p \in Request => ~IsAckPacket(p)
      BY RequestAssumption DEF IsAckPacket
    <3> QED
      BY <3>1, <3>2 DEF WantsAck
  <2>2. n = Cardinality(Counted(handled))
    BY DEF IInv, NoAckStorm, Counted
  <2>3. Cardinality(Counted(handled')) = Cardinality(Counted(handled)) + (IF c THEN 1 ELSE 0)
    <3>1. Cardinality(Counted(Append(handled, x)))
            = Cardinality(Counted(handled))
                + (IF /\ ~IsAckPacket(x.packet) /\ x.packet.dst = x.packet.to
                      /\ HeaderOf(x.packet).ackreq = 1 THEN 1 ELSE 0)
      BY <1>4, <1>6, CountedAppend
    <3> QED
      BY <1>4, <1>5, <3>1
  <2> HIDE DEF c
  <2>4. Len(acks') = n + (IF c THEN 1 ELSE 0)
    BY <1>7, <1>8, <1>9, <2>1
  <2>5. Len(acks') = Cardinality(Counted(handled'))
    BY <2>2, <2>3, <2>4
  <2> QED
    BY <2>5 DEF NoAckStorm, Counted
<1> QED
  BY <1>5, <1>6, <1>10, <1>11, <1>12, <1>13, <1>14, <1>15 DEF IInv

\* The inductive invariant holds in every state.
LEMMA IInvHolds == Spec => []IInv
<1>1. Init => IInv
  BY InitIInv
<1>2. IInv /\ [Next]_vars => IInv'
  <2> SUFFICES ASSUME IInv, [Next]_vars
               PROVE  IInv'
    OBVIOUS
  <2>1. CASE Send
    BY <2>1, SendIInv
  <2>2. ASSUME NEW p \in BagToSet(net), ProcessRequest(p)
        PROVE  IInv'
    BY <2>2, ProcessRequestIInv
  <2>3. ASSUME NEW p \in BagToSet(net), Lose(p)
        PROVE  IInv'
    BY <2>3, LoseIInv, SMTT(30)
  <2>4. CASE UNCHANGED vars
    BY <2>4, ZenonT(40) DEF vars, IInv, GoodPacket, AckIdentifiesRequest, NoAckStorm, RequestsTaken
  <2> QED
    BY <2>1, <2>2, <2>3, <2>4 DEF Next
<1> QED
  BY <1>1, <1>2, PTL DEF Spec

-----------------------------------------------------------------------------

\* TypeOK: the network, the histories and the results keep their types.
THEOREM TypeCorrect == Spec => []TypeOK
<1>1. ASSUME IInv
      PROVE  TypeOK
  <2>1. \A k \in 1..Len(handled) : handled[k] \in Handled
    BY <1>1 DEF IInv
  <2>2. \A k \in 1..Len(handled) : handled[k].packet \in Packet /\ handled[k].res \in {-1, 0}
    BY <2>1 DEF Handled
  <2> QED
    BY <1>1, <2>2 DEF IInv, TypeOK, GoodPacket
<1> QED
  BY <1>1, IInvHolds, PTL

\* AckIdentifiesRequest for any MIHFs, messages, losses and duplicates: every
\* acknowledgement that Acknowledge builds (proto.c 34-54) has the transaction of
\* a message that its receiver did send.
THEOREM AcksIdentify == Spec => []AckIdentifiesRequest
<1>1. IInv => AckIdentifiesRequest
  BY DEF IInv
<1> QED
  BY <1>1, IInvHolds, PTL

\* NoAckStorm for any MIHFs and messages: acknowledgements (proto.c 34-36) are not
\* acknowledged, there is one for each delivery that asks for it.
THEOREM AcksEnd == Spec => []NoAckStorm
<1>1. IInv => NoAckStorm
  BY DEF IInv
<1> QED
  BY <1>1, IInvHolds, PTL

\* RequestsTaken for every header: the dispatchers and the handlers of proto.c
\* take a request for any service but the information service exactly when mih.h
\* lists its action, Capability Discover excepted.
THEOREM DispatchAgrees == Spec => []RequestsTaken
<1>1. IInv => RequestsTaken
  BY DEF IInv
<1> QED
  BY <1>1, IInvHolds, PTL

=============================================================================
