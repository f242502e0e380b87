------------------------------ MODULE MCMessage ------------------------------
(* Instances of Message: headers at the edges of their fields, ids around   *)
(* the lengths at which the encoding changes.                               *)
EXTENDS Message

\* Each field at zero, at one and at its largest value, one or all at a time.
MCZero ==
  [version |-> 0, ackreq |-> 0, ackrsp |-> 0, uir |-> 0, morefragment |-> 0,
   fragmentnumber |-> 0, rsvd1 |-> 0, sid |-> 0, opcode |-> 0, aid |-> 0,
   rsvd2 |-> 0, tid |-> 0, payloadlength |-> 0]

MCLargest ==
  [version |-> 15, ackreq |-> 1, ackrsp |-> 1, uir |-> 1, morefragment |-> 1,
   fragmentnumber |-> 127, rsvd1 |-> 0, sid |-> 15, opcode |-> 3, aid |-> 1023,
   rsvd2 |-> 0, tid |-> 4095, payloadlength |-> 0]

MCField == DOMAIN MCZero \ {"rsvd1", "rsvd2", "payloadlength"}

MCHeader ==
  {MCLargest}
    \cup {[MCZero EXCEPT ![f] = 1] : f \in MCField}
    \cup {[MCZero EXCEPT ![f] = MCLargest[f]] : f \in MCField}
    \cup {[MCZero EXCEPT !.aid = 256, !.tid = 256]}

MCIdLength == {0, 1, 63, 126, 127, 128, 129, 130, 253, 254, 255, 256}

MCOneHeader == {[MCZero EXCEPT !.version = 1, !.ackrsp = 1]}
=============================================================================
