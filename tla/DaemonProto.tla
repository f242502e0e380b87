------------------------------ MODULE DaemonProto ----------------------------
(***************************************************************************)
(* What the user-space daemon (mihfd.c) makes of the octets that it reads. *)
(* It casts its buffer to mih_header_t, so it sees the layout that the     *)
(* compiler gave the structure (the one in which client.c writes it) and   *)
(* not the wire format of message.c.                                       *)
(*                                                                         *)
(* Handlers and dispatchers return `res', which the default branches leave *)
(* uninitialised: an operator here is the SET of results that the C        *)
(* function may return.  The callers only tell -1 from other values, so 0  *)
(* stands for every value but -1.                                          *)
(***************************************************************************)
EXTENDS Codec

\* The octets of the structure: its bit-fields from the least significant bit
\* on, its words in little-endian order.
StructOctets(h) ==
  << h.version + h.ackreq * 16 + h.ackrsp * 32 + h.uir * 64 + h.morefragment * 128,
     h.fragmentnumber + h.rsvd1 * 128,
     h.sid + h.opcode * 16 + (h.aid % 4) * 64,
     h.aid \div 4,
     h.rsvd2 + (h.tid % 16) * 16,
     h.tid \div 16,
     Low(h.payloadlength),
     High(h.payloadlength) >>

\* (mih_header_t *)in_buf
CastHeader(b) ==
  [version |-> b[1] % 16,
   ackreq |-> (b[1] \div 16) % 2,
   ackrsp |-> (b[1] \div 32) % 2,
   uir |-> (b[1] \div 64) % 2,
   morefragment |-> b[1] \div 128,
   fragmentnumber |-> b[2] % 128,
   rsvd1 |-> b[2] \div 128,
   sid |-> b[3] % 16,
   opcode |-> (b[3] \div 16) % 4,
   aid |-> b[3] \div 64 + b[4] * 4,
   rsvd2 |-> b[5] % 16,
   tid |-> b[5] \div 16 + b[6] * 16,
   payloadlength |-> Word(b[8], b[7])]

\* The header of client.c, with the service of its option -s, -e or -c and the
\* action of its option -a.
ClientHeader(sid, aid) ==
  [version |-> 1, ackreq |-> 0, ackrsp |-> 0, uir |-> 0, morefragment |-> 0,
   fragmentnumber |-> 0, rsvd1 |-> 0, sid |-> sid, opcode |-> REQUEST, aid |-> aid,
   rsvd2 |-> 0, tid |-> 0, payloadlength |-> 0]

-----------------------------------------------------------------------------
(* Handlers                                                                *)

Uninitialised == {-1, 0}

Handle(h, aid, opcodes) ==
  CASE h.aid # aid -> {-1}
    [] h.aid = aid /\ h.opcode \in opcodes -> {0}
    [] OTHER -> Uninitialised

CapabilityDiscover(h) == Handle(h, 1, {REQUEST, INDICATION})
Register(h) == Handle(h, 2, {REQUEST, INDICATION})
Deregister(h) == Handle(h, 3, {REQUEST, INDICATION})
EventSubscribe(h) == Handle(h, 4, {REQUEST})
EventUnsubscribe(h) == Handle(h, 5, {REQUEST, INDICATION})

LinkDetected(h) == Handle(h, 1, {REQUEST, INDICATION})
LinkUp(h) == Handle(h, 2, {REQUEST, INDICATION})
LinkDown(h) == Handle(h, 3, {REQUEST, INDICATION})
LinkParametersReport(h) == Handle(h, 5, {REQUEST, INDICATION})
LinkGoingDown(h) == Handle(h, 6, {REQUEST, INDICATION})
LinkHandoverImminent(h) == Handle(h, 7, {REQUEST, INDICATION})
LinkHandoverComplete(h) == Handle(h, 8, {REQUEST, INDICATION})

LinkGetParameters(h) == Handle(h, 1, {REQUEST, INDICATION})
LinkConfigureThresholds(h) == Handle(h, 2, {REQUEST, INDICATION})
LinkActions(h) == Handle(h, 3, {REQUEST, INDICATION})
NetHOCandidateQuery(h) == Handle(h, 4, {REQUEST, INDICATION})
MNHOCandidateQuery(h) == Handle(h, 5, {REQUEST, INDICATION})
N2NHOQueryResources(h) == Handle(h, 6, {REQUEST, INDICATION})
MNHOCommit(h) == Handle(h, 7, {REQUEST, INDICATION})
NetHOCommit(h) == Handle(h, 8, {REQUEST, INDICATION})
N2NHOCommit(h) == Handle(h, 9, {REQUEST, INDICATION})
MNHOComplete(h) == Handle(h, 10, {REQUEST, INDICATION})
N2NHOComplete(h) == Handle(h, 11, {REQUEST, INDICATION})

-----------------------------------------------------------------------------
(* Dispatchers                                                             *)

\* Mutant: a new action was added to the switch without moving the others.
ProcessServiceShifted(h) ==
  IF h.sid # SERVICE_MANAGEMENT THEN {-1} ELSE
  CASE h.aid = 1 -> CapabilityDiscover(h)
    [] h.aid = 2 -> Deregister(h)
    [] h.aid = 3 -> EventSubscribe(h)
    [] OTHER -> Uninitialised

ProcessService(h) ==
  IF h.sid # SERVICE_MANAGEMENT THEN {-1} ELSE
  CASE h.aid = 1 -> CapabilityDiscover(h)
    [] h.aid = 2 -> Register(h)
    [] h.aid = 3 -> Deregister(h)
    [] h.aid = 4 -> EventSubscribe(h)
    [] h.aid = 5 -> EventUnsubscribe(h)
    [] OTHER -> Uninitialised

ProcessEvent(h) ==
  IF h.sid # EVENT_SERVICE THEN {-1} ELSE
  CASE h.aid = 1 -> LinkDetected(h)
    [] h.aid = 2 -> LinkUp(h)
    [] h.aid = 3 -> LinkDown(h)
    [] h.aid = 5 -> LinkParametersReport(h)
    [] h.aid = 6 -> LinkGoingDown(h)
    [] h.aid = 7 -> LinkHandoverImminent(h)
    [] h.aid = 8 -> LinkHandoverComplete(h)
    [] OTHER -> Uninitialised

ProcessCmd(h) ==
  IF h.sid # COMMAND_SERVICE THEN {-1} ELSE
  CASE h.aid = 1 -> LinkGetParameters(h)
    [] h.aid = 2 -> LinkConfigureThresholds(h)
    [] h.aid = 3 -> LinkActions(h)
    [] h.aid = 4 -> NetHOCandidateQuery(h)
    [] h.aid = 5 -> MNHOCandidateQuery(h)
    [] h.aid = 6 -> N2NHOQueryResources(h)
    [] h.aid = 7 -> MNHOCommit(h)
    [] h.aid = 8 -> NetHOCommit(h)
    [] h.aid = 9 -> N2NHOCommit(h)
    [] h.aid = 10 -> MNHOComplete(h)
    [] h.aid = 11 -> N2NHOComplete(h)
    [] OTHER -> Uninitialised

ProcessInfo(h) ==
  IF h.sid # INFORMATION_SERVICE THEN {-1} ELSE
  CASE h.aid = 1 -> CapabilityDiscover(h)
    [] h.aid = 2 -> Register(h)
    [] h.aid = 3 -> Deregister(h)
    [] h.aid = 4 -> EventSubscribe(h)
    [] h.aid = 5 -> EventUnsubscribe(h)
    [] OTHER -> Uninitialised

ProcessRequest(h) ==
  CASE h.sid = SERVICE_MANAGEMENT -> ProcessService(h)
    [] h.sid = EVENT_SERVICE -> ProcessEvent(h)
    [] h.sid = COMMAND_SERVICE -> ProcessCmd(h)
    [] h.sid = INFORMATION_SERVICE -> ProcessInfo(h)
    [] OTHER -> Uninitialised
=============================================================================
