------------------------------- MODULE Exchange ------------------------------
(***************************************************************************)
(* MIHFs that exchange messages over UDP: ProcessRequest with Acknowledge  *)
(* (proto.c) and handle_udp_reply (net_hand.c) at every node, over a       *)
(* network that loses, duplicates and reorders.  A packet carries the      *)
(* header in the octets of Codec, and the two MIHF ids as node names; the  *)
(* payload length is left to module Message.  The queues between the steps *)
(* of a node are in MihModule: here a node handles a packet in one step.   *)
(***************************************************************************)
EXTENDS Proto, Bags, FiniteSets

CONSTANTS
  Node,      \* the MIHFs, both the ids and the addresses of their ports
  Fresh,     \* the address of a socket that handle_udp_reply makes and releases
  Request,   \* the packets that the users of the MIHFs may send
  MaxSends,  \* bound on the packets that are sent
  MaxDups    \* bound on the deliveries of a packet that stays in the network

Packet ==
  [to : Node \cup {Fresh}, from : Node \cup {Fresh}, src : Node, dst : Node,
   octets : Seq(Octet)]

HeaderOf(p) == unpack_mih_header(p.octets)

ASSUME NodeAssumption == IsFiniteSet(Node) /\ Fresh \notin Node
ASSUME RequestAssumption ==
  \A p \in Request :
    /\ p \in Packet
    /\ p.to \in Node /\ p.from = p.src
    /\ Len(p.octets) = HeaderSize
    /\ HeaderOf(p).ackrsp = 0
ASSUME BoundAssumption == MaxSends \in Nat /\ MaxDups \in Nat

VARIABLES
  net,      \* the packets in the network, a bag
  sends,    \* history: the packets that the users sent, in order
  handled,  \* history: what ProcessRequest was called for and its result
  acks,     \* history: the acknowledgements, in the order in which they were sent
  dups      \* history: deliveries that left the packet in the network

vars == <<net, sends, handled, acks, dups>>

Init ==
  /\ net = EmptyBag
  /\ sends = << >>
  /\ handled = << >>
  /\ acks = << >>
  /\ dups = 0

\* A peer sends a message of its own over UDP (client.c does not: it uses TCP).
Send ==
  /\ Len(sends) < MaxSends
  /\ \E p \in Request :
       /\ net' = net (+) SetToBag({p})
       /\ sends' = Append(sends, p)
  /\ UNCHANGED <<handled, acks, dups>>

\* The packet that answers p: Acknowledge swaps the MIHF ids, handle_udp_reply
\* sends to the address that p came from, from a socket of its own.
AckPacket(p) ==
  [to |-> p.from, from |-> Fresh, src |-> p.to, dst |-> p.src,
   octets |-> pack_mih_header(AckHeader(HeaderOf(p)))]

WantsAck(p) == p.dst = p.to /\ HeaderOf(p).ackreq = 1

Answers(p) == IF WantsAck(p) THEN <<AckPacket(p)>> ELSE << >>

\* The result of ProcessRequest, which refuses what is for another MIHF.
Result(p) == IF p.dst = p.to THEN ProcessSid(HeaderOf(p)) ELSE -1

\* ProcessRequest for a packet that arrives.
ProcessRequest(p) ==
  /\ BagIn(p, net)
  /\ p.to \in Node
  /\ handled' = Append(handled, [packet |-> p, res |-> Result(p)])
  /\ acks' = acks \o Answers(p)
  /\ LET answer == SetToBag({a \in {AckPacket(p)} : WantsAck(p)}) IN
     \/ /\ net' = (net (-) SetToBag({p})) (+) answer
        /\ UNCHANGED dups
     \/ /\ dups < MaxDups
        /\ dups' = dups + 1
        /\ net' = net (+) answer
  /\ UNCHANGED sends

\* A packet is lost, as is every packet to a socket that is gone.
Lose(p) ==
  /\ BagIn(p, net)
  /\ net' = net (-) SetToBag({p})
  /\ UNCHANGED <<sends, handled, acks, dups>>

Next ==
  \/ Send
  \/ \E p \in BagToSet(net) : ProcessRequest(p) \/ Lose(p)

Spec == Init /\ [][Next]_vars

-----------------------------------------------------------------------------
(* Properties                                                              *)

TypeOK ==
  /\ BagToSet(net) \subseteq Packet
  /\ sends \in Seq(Request)
  /\ acks \in Seq(Packet)
  /\ \A k \in 1..Len(handled) :
       handled[k].packet \in Packet /\ handled[k].res \in {-1, 0}
  /\ dups \in 0..MaxDups

SameTransaction(g, h) ==
  g.sid = h.sid /\ g.opcode = h.opcode /\ g.aid = h.aid /\ g.tid = h.tid

\* An acknowledgement identifies the request that it is for (proto.c 34-54):
\* whatever was lost, duplicated or overtaken, a MIHF to which an ACK is sent
\* has itself sent a message with the same service, opcode, action and
\* transaction, with ACK-Req, to the MIHF that the ACK names as its source,
\* and that MIHF has processed it.
AckIdentifiesRequest ==
  \A k \in 1..Len(acks) :
    acks[k].to \in Node =>
      \E j \in 1..Len(handled) :
        LET q == handled[j].packet IN
        /\ \E s \in 1..Len(sends) : sends[s] = q
        /\ q.from = acks[k].to /\ q.src = acks[k].dst /\ q.dst = acks[k].src
        /\ HeaderOf(q).ackreq = 1
        /\ SameTransaction(HeaderOf(q), HeaderOf(acks[k]))

IsAckPacket(p) == HeaderOf(p).ackrsp = 1

\* ACKs are never acknowledged (proto.c 34-36 sets ackrsp and leaves ackreq
\* zero): there is one ACK per delivery of a user's message that requests it,
\* so two MIHFs do not answer each other for ever.
NoAckStorm ==
  Len(acks) =
    Cardinality({k \in 1..Len(handled) :
                   LET p == handled[k].packet IN
                   ~IsAckPacket(p) /\ p.dst = p.to /\ HeaderOf(p).ackreq = 1})

\* The request to discover capabilities is the one that its handler does not take.
IsDiscover(h) == h.sid = SERVICE_MANAGEMENT /\ h.aid = 1

\* The double dispatch on service and action leads to the handler that checks
\* for the same action (proto.c 71-92, 107-134, 149-188 against the check at the
\* head of each handler): a request for this MIHF is taken exactly when mih.h
\* lists its action for its service, Capability Discover excepted.  This is not so
\* for the information service, whose switch (proto.c 203-224) does not have the
\* actions of mih.h 126-128; InformationDispatch has what it takes instead.
RequestsTaken ==
  \A k \in 1..Len(handled) :
    LET p == handled[k].packet
        h == HeaderOf(p)
    IN  p.dst = p.to /\ h.opcode = REQUEST /\ h.sid # INFORMATION_SERVICE =>
          (handled[k].res = 0 <=> KnownAction(h) /\ ~IsDiscover(h))
=============================================================================
