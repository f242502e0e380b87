------------------------------ MODULE MCExchange -----------------------------
(* Two MIHFs, messages in both directions between them, and messages at the *)
(* edges of the ranges of services and actions.                             *)
EXTENDS Exchange

CONSTANTS n1, n2

MCNode == {n1, n2}

MCHeader(ackreq, sid, opcode, aid, tid) ==
  [version |-> 1, ackreq |-> ackreq, ackrsp |-> 0, uir |-> 0, morefragment |-> 0,
   fragmentnumber |-> 0, rsvd1 |-> 0, sid |-> sid, opcode |-> opcode, aid |-> aid,
   rsvd2 |-> 0, tid |-> tid, payloadlength |-> 0]

MCPacket(from, to, dst, h) ==
  [to |-> to, from |-> from, src |-> from, dst |-> dst,
   octets |-> pack_mih_header(h)]

\* The transactions that the ACKs have to tell apart, in both directions; one
\* is refused by its handler, one is for another MIHF.
MCTransactions ==
  {MCPacket(n1, n2, n2, MCHeader(1, 1, REQUEST, 2, 1)),
   MCPacket(n1, n2, n2, MCHeader(1, 1, REQUEST, 2, 257)),
   MCPacket(n1, n2, n2, MCHeader(1, 1, RESPONSE, 2, 1)),
   MCPacket(n1, n2, n2, MCHeader(1, 1, RESPONSE, 1, 4095)),
   MCPacket(n1, n2, n2, MCHeader(0, 3, INDICATION, 11, 2)),
   MCPacket(n1, n2, n1, MCHeader(1, 1, REQUEST, 2, 3)),
   MCPacket(n2, n1, n1, MCHeader(1, 2, INDICATION, 8, 1))}

\* Around the first and the last action of the services, the gap in those of the
\* event service, and an unknown service.
MCEdges ==
  {MCPacket(n1, n2, n2, MCHeader(0, x[1], REQUEST, x[2], 0)) :
     x \in {<<0, 2>>, <<1, 0>>, <<1, 1>>, <<1, 5>>, <<1, 6>>, <<2, 3>>, <<2, 4>>,
           <<2, 8>>, <<3, 11>>, <<3, 12>>, <<4, 5>>, <<5, 1>>}}

MCRequest == MCTransactions \cup MCEdges
=============================================================================
