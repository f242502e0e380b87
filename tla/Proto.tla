-------------------------------- MODULE Proto --------------------------------
(***************************************************************************)
(* The protocol handling of proto.c as operators on a header h: the        *)
(* service handlers, which only say whether they take the message (0) or   *)
(* not (-1), the four dispatchers, and the header of an acknowledgement.   *)
(***************************************************************************)
EXTENDS Codec

-----------------------------------------------------------------------------
(* Handlers.  Each checks the action again before it looks at the opcode.  *)

\* Mutant: a refusal is a positive number.
HandlePositive(h, aid, opcodes) == IF h.aid = aid /\ h.opcode \in opcodes THEN 0 ELSE 1

Handle(h, aid, opcodes) == IF h.aid = aid /\ h.opcode \in opcodes THEN 0 ELSE -1

CapabilityDiscover(h) == Handle(h, 1, {RESPONSE})
Register(h) == Handle(h, 2, {REQUEST, INDICATION})
Deregister(h) == Handle(h, 3, {REQUEST, INDICATION})
EventSubscribe(h) == Handle(h, 4, {REQUEST})
EventUnsubscribe(h) == Handle(h, 5, {REQUEST, INDICATION})

LinkDetected(h) == Handle(h, 1, {REQUEST, INDICATION})
LinkUp(h) == Handle(h, 2, {REQUEST, INDICATION})
LinkDown(h) == Handle(h, 3, {REQUEST, INDICATION})
LinkParametersReport(h) == Handle(h, 5, {REQUEST, INDICATION})
LinkGoingDown(h) == Handle(h, 6, {REQUEST, INDICATION})
LinkHandoverImminent(h) == Handle(h, 7, {REQUEST, INDICATION})
LinkHandoverComplete(h) == Handle(h, 8, {REQUEST, INDICATION})

LinkGetParameters(h) == Handle(h, 1, {REQUEST, INDICATION})
LinkConfigureThresholds(h) == Handle(h, 2, {REQUEST, INDICATION})
LinkActions(h) == Handle(h, 3, {REQUEST, INDICATION})
NetHOCandidateQuery(h) == Handle(h, 4, {REQUEST, INDICATION})
MNHOCandidateQuery(h) == Handle(h, 5, {REQUEST, INDICATION})
N2NHOQueryResources(h) == Handle(h, 6, {REQUEST, INDICATION})
MNHOCommit(h) == Handle(h, 7, {REQUEST, INDICATION})
NetHOCommit(h) == Handle(h, 8, {REQUEST, INDICATION})
N2NHOCommit(h) == Handle(h, 9, {REQUEST, INDICATION})
MNHOComplete(h) == Handle(h, 10, {REQUEST, INDICATION})
N2NHOComplete(h) == Handle(h, 11, {REQUEST, INDICATION})

-----------------------------------------------------------------------------
(* Dispatchers                                                             *)

\* Mutant: a new action was added to the switch without moving the others.
ProcessServiceShifted(h) ==
  IF h.sid # SERVICE_MANAGEMENT THEN -1 ELSE
  CASE h.aid = 1 -> CapabilityDiscover(h)
    [] h.aid = 2 -> Deregister(h)
    [] h.aid = 3 -> EventSubscribe(h)
    [] OTHER -> -1

ProcessService(h) ==
  IF h.sid # SERVICE_MANAGEMENT THEN -1 ELSE
  CASE h.aid = 1 -> CapabilityDiscover(h)
    [] h.aid = 2 -> Register(h)
    [] h.aid = 3 -> Deregister(h)
    [] h.aid = 4 -> EventSubscribe(h)
    [] h.aid = 5 -> EventUnsubscribe(h)
    [] OTHER -> -1

ProcessEvent(h) ==
  IF h.sid # EVENT_SERVICE THEN -1 ELSE
  CASE h.aid = 1 -> LinkDetected(h)
    [] h.aid = 2 -> LinkUp(h)
    [] h.aid = 3 -> LinkDown(h)
    [] h.aid = 5 -> LinkParametersReport(h)
    [] h.aid = 6 -> LinkGoingDown(h)
    [] h.aid = 7 -> LinkHandoverImminent(h)
    [] h.aid = 8 -> LinkHandoverComplete(h)
    [] OTHER -> -1

ProcessCmd(h) ==
  IF h.sid # COMMAND_SERVICE THEN -1 ELSE
  CASE h.aid = 1 -> LinkGetParameters(h)
    [] h.aid = 2 -> LinkConfigureThresholds(h)
    [] h.aid = 3 -> LinkActions(h)
    [] h.aid = 4 -> NetHOCandidateQuery(h)
    [] h.aid = 5 -> MNHOCandidateQuery(h)
    [] h.aid = 6 -> N2NHOQueryResources(h)
    [] h.aid = 7 -> MNHOCommit(h)
    [] h.aid = 8 -> NetHOCommit(h)
    [] h.aid = 9 -> N2NHOCommit(h)
    [] h.aid = 10 -> MNHOComplete(h)
    [] h.aid = 11 -> N2NHOComplete(h)
    [] OTHER -> -1

\* The switch for the information service has the labels of service management,
\* and not GET_INFORMATION and PUSH_INFORMATION.
ProcessInfo(h) ==
  IF h.sid # INFORMATION_SERVICE THEN -1 ELSE
  CASE h.aid = 1 -> CapabilityDiscover(h)
    [] h.aid = 2 -> Register(h)
    [] h.aid = 3 -> Deregister(h)
    [] h.aid = 4 -> EventSubscribe(h)
    [] h.aid = 5 -> EventUnsubscribe(h)
    [] OTHER -> -1

\* The switch at the end of ProcessRequest.
ProcessSid(h) ==
  CASE h.sid = SERVICE_MANAGEMENT -> ProcessService(h)
    [] h.sid = EVENT_SERVICE -> ProcessEvent(h)
    [] h.sid = COMMAND_SERVICE -> ProcessCmd(h)
    [] h.sid = INFORMATION_SERVICE -> ProcessInfo(h)
    [] OTHER -> -1

-----------------------------------------------------------------------------
(* Acknowledgements                                                        *)

\* Mutant: the header of the request is kept, ACK-Req included.
AckHeaderKeepsAckReq(h) == [h EXCEPT !.ackrsp = 1]

\* Mutant: the transaction id stays zero.
AckHeaderNoTid(h) == [h EXCEPT !.ackreq = 0, !.ackrsp = 1, !.tid = 0]

\* The header that Acknowledge builds from the fields of the request.
AckHeader(h) ==
  [version |-> 1, ackreq |-> 0, ackrsp |-> 1, uir |-> 0, morefragment |-> 0,
   fragmentnumber |-> 0, rsvd1 |-> 0, sid |-> h.sid, opcode |-> h.opcode,
   aid |-> h.aid, rsvd2 |-> 0, tid |-> h.tid, payloadlength |-> 0]
=============================================================================
