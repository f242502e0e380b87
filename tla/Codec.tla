-------------------------------- MODULE Codec --------------------------------
(***************************************************************************)
(* The encoding functions of message.c as operators on sequences of        *)
(* octets: the eight octets of the MIH header, the variable length field,  *)
(* the octet string and the two MIHF id TLVs.  A C function that returns a *)
(* count or -1 and fills a buffer is an operator whose result is a record  *)
(* of both.  A shift is a multiplication or a division by a power of two.  *)
(***************************************************************************)
EXTENDS Integers, Sequences

CONSTANT BUFFER_SIZE  \* message.h

ASSUME BufferAssumption == BUFFER_SIZE \in Nat

\* The values of an unsigned number.
Below(n) == {k \in Nat : k < n}

Octet == Below(256)

-----------------------------------------------------------------------------
(* The header                                                              *)

Bit == Below(2)

mih_header_t ==
  [version : Below(16), ackreq : Bit, ackrsp : Bit, uir : Bit, morefragment : Bit,
   fragmentnumber : Below(128), rsvd1 : Bit, sid : Below(16), opcode : Below(4),
   aid : Below(1024), rsvd2 : Below(16), tid : Below(4096),
   payloadlength : Below(65536)]

HeaderSize == 8

REQUEST == 1
RESPONSE == 2
INDICATION == 3

SERVICE_MANAGEMENT == 1
EVENT_SERVICE == 2
COMMAND_SERVICE == 3
INFORMATION_SERVICE == 4

\* The actions that mih.h lists for each of the services.
KnownAction(h) ==
  CASE h.sid = SERVICE_MANAGEMENT -> h.aid \in 1..5
    [] h.sid = EVENT_SERVICE -> h.aid \in (1..8) \ {4}
    [] h.sid = COMMAND_SERVICE -> h.aid \in 1..11
    [] h.sid = INFORMATION_SERVICE -> h.aid \in 1..2
    [] OTHER -> FALSE

High(n) == n \div 256

Low(n) == n % 256

\* Mutant: little-endian.
WordSwapped(high, low) == low * 256 + high

Word(high, low) == high * 256 + low

pack_mih_header(hdr) ==
  << hdr.version * 16 + hdr.ackreq * 8 + hdr.ackrsp * 4 + hdr.uir * 2
       + hdr.morefragment,
     hdr.fragmentnumber * 2,
     hdr.sid * 16 + hdr.opcode * 4 + High(hdr.aid),
     Low(hdr.aid),
     High(hdr.tid),
     Low(hdr.tid),
     High(hdr.payloadlength),
     Low(hdr.payloadlength) >>

unpack_mih_header(b) ==
  [version |-> b[1] \div 16,
   ackreq |-> (b[1] \div 8) % 2,
   ackrsp |-> (b[1] \div 4) % 2,
   uir |-> (b[1] \div 2) % 2,
   morefragment |-> b[1] % 2,
   fragmentnumber |-> b[2] \div 2,
   rsvd1 |-> b[2] % 2,
   sid |-> b[3] \div 16,
   opcode |-> (b[3] \div 4) % 4,
   aid |-> Word(b[3] % 4, b[4]),
   rsvd2 |-> b[5] \div 16,
   tid |-> Word(b[5] % 16, b[6]),
   payloadlength |-> Word(b[7], b[8])]

-----------------------------------------------------------------------------
(* The variable length field                                               *)

\* What a function returns and the octets that it wrote.
Packed(out) == [ret |-> Len(out), out |-> out]

PackError == [ret |-> -1, out |-> << >>]

\* The least number of octets that hold n > 0.
OctetsOf(n) ==
  IF n < 256 THEN 1 ELSE IF n < 65536 THEN 2 ELSE IF n < 16777216 THEN 3 ELSE 4

\* Octet i of the big-endian number n of the given size.
BigEndianOctet(n, octets, i) ==
  CASE i = octets     -> n % 256
    [] i = octets - 1 -> (n \div 256) % 256
    [] i = octets - 2 -> (n \div 65536) % 256
    [] i = octets - 3 -> (n \div 16777216) % 256

\* Mutant: always the short form.
pack_variable_length_field_short(length, buf_size) ==
  IF buf_size < 1 THEN PackError ELSE Packed(<<length>>)

pack_variable_length_field(length, buf_size) ==
  IF length <= 128
  THEN IF buf_size < 1 THEN PackError ELSE Packed(<<length>>)
  ELSE LET octets == OctetsOf(length - 128) IN
       IF buf_size <= octets THEN PackError
       ELSE Packed([i \in 1..octets + 1 |->
                      IF i = 1 THEN 128 + octets
                      ELSE BigEndianOctet(length - 128, octets, i - 1)])

\* What lies behind the received octets: UdpHandler zeroes the buffer first.
At(buf, i) == IF i \in 1..Len(buf) THEN buf[i] ELSE 0

\* Mutant: the last octet is not copied.
SliceShort(buf, pos, n) == SubSeq(buf, pos, pos + n - 2)

\* The n octets from buf[pos] on.
Slice(buf, pos, n) ==
  IF pos + n - 1 <= Len(buf) THEN SubSeq(buf, pos, pos + n - 1)
  ELSE [k \in 1..n |-> At(buf, pos + k - 1)]

\* The number whose last octet is buf[last], of which the first is buf[first].
BigEndian(buf, first, last) ==
  LET Digit(i) == IF i >= first THEN At(buf, i) ELSE 0 IN
  Digit(last) + 256 * Digit(last - 1) + 65536 * Digit(last - 2)
    + 16777216 * Digit(last - 3)

ParseError == [ret |-> -1, length |-> 0]

\* The field that starts at buf[pos].  The octets of a long field hold the
\* length less 128, which is what the function returns.
parse_variable_length_field(buf, pos) ==
  LET first == At(buf, pos)
      length_octets == first % 128
  IN  IF first <= 128 THEN [ret |-> 1, length |-> first]
      ELSE IF length_octets > 4 THEN ParseError
      ELSE [ret |-> length_octets + 1,
            length |-> BigEndian(buf, pos + 1, pos + length_octets)]

-----------------------------------------------------------------------------
(* The octet string and the TLVs                                           *)

pack_octet_string(string, buf_size) ==
  LET field == pack_variable_length_field(Len(string), buf_size) IN
  IF field.ret < 0 \/ field.ret + Len(string) > buf_size THEN PackError
  ELSE Packed(field.out \o string)

\* The octet string at buf[pos].
unpack_octet_string(buf, pos) ==
  LET field == parse_variable_length_field(buf, pos) IN
  IF field.ret < 0 THEN [ret |-> -1, string |-> << >>]
  ELSE [ret |-> field.ret + field.length,
        string |-> Slice(buf, pos + field.ret, field.length)]

SRC_MIHF_ID_TLV == 1
DST_MIHF_ID_TLV == 2
MihfIdTlv == {SRC_MIHF_ID_TLV, DST_MIHF_ID_TLV}

pack_mihf_id_tlv(tlv, buf_size) ==
  LET string == pack_octet_string(tlv.value, BUFFER_SIZE)
      field == pack_variable_length_field(string.ret, buf_size)
  IN  IF string.ret < 0 \/ field.ret < 0 \/ field.ret + string.ret > buf_size
      THEN PackError
      ELSE Packed(field.out \o string.out)

\* Types other than the two MIHF ids are refused.
pack_mih_tlv(tlv, buf_size) ==
  LET body == pack_mihf_id_tlv(tlv, buf_size - 1) IN
  IF buf_size < 1 \/ tlv.type \notin MihfIdTlv \/ body.ret < 0 THEN PackError
  ELSE Packed(<<tlv.type>> \o body.out)

TlvError == [ret |-> -1, tlv |-> [type |-> 0, value |-> << >>]]

\* The length of the octet string must be the length of the TLV.
unpack_mihf_id_tlv(type, length, buf, pos) ==
  LET string == unpack_octet_string(buf, pos) IN
  IF string.ret < 0 \/ string.ret # length THEN TlvError
  ELSE [ret |-> string.ret, tlv |-> [type |-> type, value |-> string.string]]

\* The TLV at buf[pos], of the in_len octets that are left.
unpack_mih_tlv(buf, pos, in_len) ==
  LET field == parse_variable_length_field(buf, pos + 1)
      body == unpack_mihf_id_tlv(At(buf, pos), field.length, buf, pos + 1 + field.ret)
  IN  IF in_len < 2 \/ field.ret < 0 \/ At(buf, pos) \notin MihfIdTlv \/ body.ret < 0
      THEN TlvError
      ELSE [ret |-> 1 + field.ret + body.ret, tlv |-> body.tlv]
=============================================================================
