------------------------------- MODULE Message -------------------------------
(***************************************************************************)
(* The life of one MIH message: pack_mih_message at the sender, the        *)
(* receive buffer, and unpack_mih_message at the receiver, an iteration of *)
(* its loop at a time (message.c).  The message has the TLVs of the one     *)
(* that Acknowledge builds, a source and a destination MIHF id, under any  *)
(* header.  An id is a repeated printable octet: the code looks at its length  *)
(* only, and at its octets only where it mistakes them for TLVs.           *)
(***************************************************************************)
EXTENDS Codec

CONSTANTS
  Header,    \* the headers to send
  IdLength,  \* the lengths of MIHF ids to send
  IdOctet    \* an octet of a MIHF id

ASSUME HeaderAssumption ==
  \A h \in Header : h \in mih_header_t /\ h.rsvd1 = 0 /\ h.rsvd2 = 0
ASSUME IdLengthAssumption == IdLength \subseteq Nat
ASSUME IdOctetAssumption == IdOctet \in 32..126
\* The length of a payload fits its field of 16 bits.
ASSUME PayloadAssumption == BUFFER_SIZE - HeaderSize < 65536

VARIABLES
  pc,       \* "compose", "wire", "unpack", "accepted" or "rejected"
  message,  \* the message of the sender
  wire,     \* the datagram
  header,   \* msg->header of the receiver
  i,        \* octets of the payload that were consumed
  tlvs      \* msg->tlvs of the receiver

vars == <<pc, message, wire, header, i, tlvs>>

MihfId(n) == [k \in 1..n |-> IdOctet]

Tlv(type, n) == [type |-> type, value |-> MihfId(n)]

NoMessage == [header |-> << >>, tlvs |-> << >>]

Init ==
  /\ pc = "compose"
  /\ message = NoMessage
  /\ wire = << >>
  /\ header = << >>
  /\ i = 0
  /\ tlvs = << >>

\* The TLVs of a message one behind the other, as pack_mih_message leaves them,
\* or an error as soon as one of the two does not fit.
pack_tlvs(list, buf_size) ==
  LET first == pack_mih_tlv(list[1], buf_size)
      second == pack_mih_tlv(list[2], buf_size - first.ret)
  IN  IF first.ret < 0 \/ second.ret < 0 THEN PackError
      ELSE Packed(first.out \o second.out)

\* pack_mih_message sets the payload length in the sender's header.
pack_mih_message(h, list) ==
  LET payload == pack_tlvs(list, BUFFER_SIZE - HeaderSize)
      hdr == [h EXCEPT !.payloadlength = payload.ret]
  IN  /\ BUFFER_SIZE >= HeaderSize
      /\ payload.ret >= 0
      /\ message' = [header |-> hdr, tlvs |-> list]
      /\ wire' = pack_mih_header(hdr) \o payload.out

Send ==
  /\ pc = "compose"
  /\ \E h \in Header, src, dst \in IdLength :
       pack_mih_message(h, <<Tlv(SRC_MIHF_ID_TLV, src), Tlv(DST_MIHF_ID_TLV, dst)>>)
  /\ pc' = "wire"
  /\ UNCHANGED <<header, i, tlvs>>

\* unpack_mih_message before its loop.
UnpackHeader ==
  LET hdr == unpack_mih_header(wire) IN
  /\ pc = "wire"
  /\ pc' = IF Len(wire) < HeaderSize \/ Len(wire) # hdr.payloadlength + HeaderSize
           THEN "rejected" ELSE "unpack"
  /\ header' = hdr
  /\ UNCHANGED <<message, wire, i, tlvs>>

\* The loop condition fails.
UnpackDone ==
  /\ pc = "unpack"
  /\ i >= header.payloadlength
  /\ pc' = "accepted"
  /\ UNCHANGED <<message, wire, header, i, tlvs>>

\* Mutant: the position moves one octet too far.
UnpackTlvTooFar ==
  LET s == unpack_mih_tlv(wire, HeaderSize + i + 1, Len(wire) - HeaderSize - i) IN
  /\ pc = "unpack"
  /\ i < header.payloadlength
  /\ IF s.ret < 0
     THEN /\ pc' = "rejected"
          /\ tlvs' = << >>
          /\ UNCHANGED i
     ELSE /\ tlvs' = Append(tlvs, s.tlv)
          /\ i' = i + s.ret + 1
          /\ UNCHANGED pc
  /\ UNCHANGED <<message, wire, header>>

\* Mutant: the position stays.
UnpackTlvStuck ==
  LET s == unpack_mih_tlv(wire, HeaderSize + i + 1, Len(wire) - HeaderSize - i) IN
  /\ pc = "unpack"
  /\ i < header.payloadlength
  /\ IF s.ret < 0
     THEN /\ pc' = "rejected"
          /\ tlvs' = << >>
          /\ UNCHANGED i
     ELSE /\ tlvs' = Append(tlvs, s.tlv)
          /\ i' = i
          /\ UNCHANGED pc
  /\ UNCHANGED <<message, wire, header>>

\* One iteration; an error frees the TLVs and ends the loop.
UnpackTlv ==
  LET s == unpack_mih_tlv(wire, HeaderSize + i + 1, Len(wire) - HeaderSize - i) IN
  /\ pc = "unpack"
  /\ i < header.payloadlength
  /\ IF s.ret < 0
     THEN /\ pc' = "rejected"
          /\ tlvs' = << >>
          /\ UNCHANGED i
     ELSE /\ tlvs' = Append(tlvs, s.tlv)
          /\ i' = i + s.ret
          /\ UNCHANGED pc
  /\ UNCHANGED <<message, wire, header>>

Next == Send \/ UnpackHeader \/ UnpackDone \/ UnpackTlv

Spec == Init /\ [][Next]_vars

-----------------------------------------------------------------------------
(* Properties                                                              *)

TypeOK ==
  /\ pc \in {"compose", "wire", "unpack", "accepted", "rejected"}
  /\ \A k \in 1..Len(wire) : wire[k] \in Octet
  /\ header = << >> \/ header \in mih_header_t
  /\ i \in Nat
  /\ \A k \in 1..Len(tlvs) : tlvs[k].type \in MihfIdTlv

\* What is decoded is never something else than what was encoded: a message
\* that unpack_mih_message accepts has the header and the two ids that were
\* packed, although ids of more than 127 octets are cut short or refused on
\* the way (message.c 62, 96-113, 475): the rest of such an id is no TLV.
AcceptedIsSent == pc = "accepted" => header = message.header /\ tlvs = message.tlvs

\* Every message whose ids have at most 127 octets is accepted: the lengths of
\* the string and of the TLV around it then fit the short form of the field
\* (message.c 52-60 and 96-99).
ShortIdsAccepted ==
  pc = "rejected" => \E k \in 1..2 : Len(message.tlvs[k].value) > 127

\* Where the sender ended its first n TLVs, of two.
Boundary(n) ==
  LET Size(k) == pack_mih_tlv(message.tlvs[k], BUFFER_SIZE).ret IN
  CASE n = 0 -> 0 [] n = 1 -> Size(1) [] n = 2 -> Size(1) + Size(2)

\* The loop of unpack_mih_message keeps in step with that of pack_mih_message
\* (message.c 365-377 and 324-333): it never runs past the payload or finds
\* more TLVs than were packed, and until it meets an id of more than 127 octets
\* it stands exactly where the sender ended a TLV, with the same TLVs read.
InStep ==
  pc = "unpack" =>
    /\ i + HeaderSize <= Len(wire)
    /\ Len(tlvs) <= 2
    /\ (\A k \in 1..Len(tlvs) : Len(message.tlvs[k].value) <= 127) =>
         i = Boundary(Len(tlvs)) /\ tlvs = SubSeq(message.tlvs, 1, Len(tlvs))

\* Why the loop ends: an iteration that does not leave it consumes at least the
\* type, the length and the length of the string of a TLV (message.c 365-377).
UnpackProgress ==
  [][pc = "unpack" /\ pc' = "unpack" => i' >= i + 3 /\ Len(tlvs') = Len(tlvs) + 1]_vars

\* "The MIHF Identifier. Maximum length: 253 characters" (mih.h 630) and "Max.
\* octetc in ID" (mih.h 25, MIH_ID_LEN): a message between MIHFs whose identifiers have at most 253 octets is accepted.
MaximumIdAccepted ==
  pc = "rejected" => \E k \in 1..2 : Len(message.tlvs[k].value) > 253
=============================================================================
