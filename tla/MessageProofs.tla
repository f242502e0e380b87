---------------------------- MODULE MessageProofs ----------------------------
(***************************************************************************)
(* What Message promises, for any headers and any lengths of the ids: a    *)
(* message that is accepted is the one that was sent, and ids of at most   *)
(* 127 octets are always accepted.  The argument is where the loop of      *)
(* unpack_mih_message can stand: between two TLVs as long as all ids were  *)
(* short, and behind a longer one on an octet of that id, which is no type *)
(* of a TLV, so that the next iteration refuses the message.               *)
(***************************************************************************)
EXTENDS Message, TLAPS

-----------------------------------------------------------------------------
(* The variable length field                                               *)

\* The octets of the length field for n, which are at most five.
Field(n) == pack_variable_length_field(n, 5).out

\* The octets of out are in buf from buf[pos] on.
Holds(buf, pos, out) == \A k \in 1..Len(out) : At(buf, pos + k - 1) = out[k]

\* The number of octets that hold n, and what it says about n.
LEMMA OctetsOfFacts ==
  ASSUME NEW n \in Nat
  PROVE  /\ OctetsOf(n) \in {1, 2, 3, 4}
         /\ OctetsOf(n) = 1 => n < 256
         /\ OctetsOf(n) = 2 => n < 65536
         /\ OctetsOf(n) = 3 => n < 16777216
  BY DEF OctetsOf

\* The octets of a number are octets.
LEMMA BigEndianOctetType ==
  ASSUME NEW n \in Nat, NEW o \in {1, 2, 3, 4}, NEW k \in 1..o
  PROVE  BigEndianOctet(n, o, k) \in Octet
<1>1. /\ n % 256 \in Octet /\ (n \div 256) % 256 \in Octet
      /\ (n \div 65536) % 256 \in Octet /\ (n \div 16777216) % 256 \in Octet
  BY SMT DEF Octet, Below
<1>2. k = o \/ k = o - 1 \/ k = o - 2 \/ k = o - 3
  BY SMT
<1> QED
  BY <1>1, <1>2, SMT DEF BigEndianOctet

\* A length of at most 128 is its own field (message.c 52-60).
LEMMA ShortField ==
  ASSUME NEW n \in Nat, n <= 128
  PROVE  Field(n) = <<n>>
  BY DEF Field, pack_variable_length_field, Packed

\* The field of a longer one is the number of the octets that follow and the
\* length less 128 in these (message.c 62-78).
LEMMA LongField ==
  ASSUME NEW n \in Nat, n > 128
  PROVE  Field(n) = [k \in 1..OctetsOf(n - 128) + 1 |->
                       IF k = 1 THEN 128 + OctetsOf(n - 128)
                       ELSE BigEndianOctet(n - 128, OctetsOf(n - 128), k - 1)]
<1>1. ~(n <= 128) /\ ~(5 <= OctetsOf(n - 128))
  BY OctetsOfFacts
<1> QED
  BY ONLY <1>1, Zenon DEF Field, pack_variable_length_field, Packed

\* What the field consists of.
LEMMA FieldType ==
  ASSUME NEW n \in Nat
  PROVE  /\ Field(n) \in Seq(Octet)
         /\ Len(Field(n)) = IF n <= 128 THEN 1 ELSE OctetsOf(n - 128) + 1
         /\ Len(Field(n)) \in 1..5
<1>1. CASE n <= 128
  <2>1. n \in Octet
    BY <1>1 DEF Octet, Below
  <2>2. Field(n) = <<n>>
    BY <1>1, ShortField
  <2>3. <<n>> \in Seq(Octet) /\ Len(<<n>>) = 1
    BY <2>1
  <2>4. Field(n) \in Seq(Octet) /\ Len(Field(n)) = 1
    BY <2>2, <2>3, Zenon
  <2> QED
    BY <1>1, <2>4
<1>2. CASE n > 128
  <2> DEFINE o == OctetsOf(n - 128)
             F(k) == IF k = 1 THEN 128 + o ELSE BigEndianOctet(n - 128, o, k - 1)
  <2>1. o \in {1, 2, 3, 4} /\ n - 128 \in Nat
    BY <1>2, OctetsOfFacts
  <2>2. Field(n) = [k \in 1..o + 1 |-> F(k)]
    BY <1>2, LongField
  <2> HIDE DEF o
  <2>3. ASSUME NEW k \in 1..o + 1
        PROVE  F(k) \in Octet
    <3>1. 128 + o \in Octet
      BY <2>1 DEF Octet, Below
    <3>2. k # 1 => k - 1 \in 1..o
      BY <2>1
    <3> QED
      BY <2>1, <3>1, <3>2, BigEndianOctetType
  <2> HIDE DEF F
  <2>4. Field(n) \in Seq(Octet) /\ Len(Field(n)) = o + 1
    BY <2>1, <2>2, <2>3
  <2> QED
    BY <1>2, <2>1, <2>4 DEF o
<1> QED
  BY <1>1, <1>2

\* pack_variable_length_field writes the field where there is room for it.
LEMMA PackField ==
  ASSUME NEW n \in Nat, NEW size \in Int
  PROVE  pack_variable_length_field(n, size)
           = IF Len(Field(n)) <= size THEN Packed(Field(n)) ELSE PackError
<1>1. CASE n <= 128
  <2>1. Field(n) = <<n>> /\ Len(<<n>>) = 1
    BY <1>1, ShortField
  <2> QED
    BY <1>1, <2>1 DEF pack_variable_length_field
<1>2. CASE n > 128
  <2> DEFINE o == OctetsOf(n - 128)
  <2>1. o \in {1, 2, 3, 4} /\ Len(Field(n)) = o + 1
    BY <1>2, OctetsOfFacts, FieldType
  <2>2. ~(n <= 128) /\ (size <= o <=> ~(Len(Field(n)) <= size))
    BY <1>2, <2>1
  <2>3. pack_variable_length_field(n, size)
          = IF size <= o THEN PackError ELSE Packed(Field(n))
    BY <1>2, <2>2, LongField, Zenon DEF pack_variable_length_field
  <2> QED
    BY <2>2, <2>3, Zenon
<1> QED
  BY <1>1, <1>2

\* A length of at most 128 is parsed as what was packed, wherever it is and
\* whatever follows it in the buffer (message.c 52-60, 96-99).
THEOREM ShortLengthRoundTrip ==
  ASSUME NEW n \in Nat, n <= 128, NEW buf, NEW pos \in Nat, Holds(buf, pos, Field(n))
  PROVE  parse_variable_length_field(buf, pos) = [ret |-> Len(Field(n)), length |-> n]
<1>1. At(buf, pos) = n /\ Len(Field(n)) = 1
  BY ShortField DEF Holds
<1> QED
  BY <1>1 DEF parse_variable_length_field

\* A number is the sum of its octets.
LEMMA Digits ==
  ASSUME NEW m \in Nat
  PROVE  /\ m < 65536 => m = (m % 256) + 256 * ((m \div 256) % 256)
         /\ m < 16777216 =>
              m = (m % 256) + 256 * ((m \div 256) % 256) + 65536 * ((m \div 65536) % 256)
         /\ m < 4294967296 =>
              m = (m % 256) + 256 * ((m \div 256) % 256) + 65536 * ((m \div 65536) % 256)
                    + 16777216 * ((m \div 16777216) % 256)
<1> DEFINE q1 == m \div 256
           q2 == m \div 65536
           q3 == m \div 16777216
<1>1. q1 \in Nat /\ m = 256 * q1 + (m % 256) /\ (m % 256) \in Nat /\ (m % 256) < 256
  BY SMT
<1>2. q2 \in Nat /\ q1 = 256 * q2 + (q1 % 256) /\ (q1 % 256) \in Nat /\ (q1 % 256) < 256
  BY SMT
<1>3. q3 \in Nat /\ q2 = 256 * q3 + (q2 % 256) /\ (q2 % 256) \in Nat /\ (q2 % 256) < 256
  BY SMT
<1>4. q3 < 256 => q3 % 256 = q3
  BY <1>3, SMT
<1> HIDE DEF q1, q2, q3
<1>5. m < 65536 => q2 = 0
  BY <1>1, <1>2, SMT
<1>6. m < 16777216 => q3 = 0
  BY <1>1, <1>2, <1>3, SMT
<1>7. m < 4294967296 => q3 < 256
  BY <1>1, <1>2, <1>3, SMT
<1>8. /\ m < 65536 => m = (m % 256) + 256 * (q1 % 256)
      /\ m < 16777216 => m = (m % 256) + 256 * (q1 % 256) + 65536 * (q2 % 256)
      /\ m < 4294967296 =>
           m = (m % 256) + 256 * (q1 % 256) + 65536 * (q2 % 256) + 16777216 * (q3 % 256)
  BY <1>1, <1>2, <1>3, <1>4, <1>5, <1>6, <1>7, SMT
<1> QED
  BY <1>8, SMT DEF q1, q2, q3

\* A longer one is parsed as 128 less than what was packed, in as many octets as
\* were written: pack_variable_length_field subtracts 128 (message.c 62) and
\* parse_variable_length_field does not add it (message.c 106-113).
THEOREM LongLengthLoses128 ==
  ASSUME NEW n \in Nat, n > 128, n - 128 < 4294967296,
         NEW buf, NEW pos \in Nat, Holds(buf, pos, Field(n))
  PROVE  parse_variable_length_field(buf, pos)
           = [ret |-> Len(Field(n)), length |-> n - 128]
<1> DEFINE m == n - 128
           o == OctetsOf(m)
           A(k) == At(buf, pos + k)
<1>1. m \in Nat /\ m < 4294967296
  BY SMT
<1>2. /\ o \in {1, 2, 3, 4}
      /\ o = 1 => m < 256
      /\ o = 2 => m < 65536
      /\ o = 3 => m < 16777216
  BY <1>1, OctetsOfFacts
<1>3. Len(Field(n)) = o + 1
  BY FieldType
<1>4. /\ Field(n)[1] = 128 + o
      /\ \A k \in 1..o : Field(n)[k + 1] = BigEndianOctet(m, o, k)
  <2>1. Field(n) = [k \in 1..o + 1 |->
                      IF k = 1 THEN 128 + o ELSE BigEndianOctet(m, o, k - 1)]
    BY LongField
  <2> HIDE DEF m, o
  <2> QED
    BY <1>2, <2>1
<1> HIDE DEF m, o
<1>5. At(buf, pos) = 128 + o
  BY <1>2, <1>3, <1>4 DEF Holds
<1>6. \A k \in 1..o : A(k) = BigEndianOctet(m, o, k)
  <2>1. \A k \in 1..o : k + 1 \in 1..o + 1 /\ pos + (k + 1) - 1 = pos + k
    BY <1>2
  <2> QED
    BY <1>3, <1>4, <2>1 DEF Holds
<1>7. BigEndian(buf, pos + 1, pos + o) = m
  <2>1. CASE o = 1
    <3>1. A(1) = m % 256
      BY <2>1, <1>6 DEF BigEndianOctet
    <3>2. BigEndian(buf, pos + 1, pos + 1) = A(1)
      BY <3>1, <1>1 DEF BigEndian
    <3> QED
      BY <3>1, <3>2, <2>1, <1>1, <1>2
  <2>2. CASE o = 2
    <3>1. A(2) = m % 256 /\ A(1) = (m \div 256) % 256
      BY <2>2, <1>6 DEF BigEndianOctet
    <3>2. BigEndian(buf, pos + 1, pos + 2) = A(2) + 256 * A(1)
      <4>1. pos + 2 - 1 = pos + 1
        OBVIOUS
      <4> QED
        BY <3>1, <1>1, <4>1 DEF BigEndian
    <3> QED
      BY <3>1, <3>2, <2>2, <1>1, <1>2, Digits
  <2>3. CASE o = 3
    <3>1. A(3) = m % 256 /\ A(2) = (m \div 256) % 256 /\ A(1) = (m \div 65536) % 256
      BY <2>3, <1>6 DEF BigEndianOctet
    <3>2. BigEndian(buf, pos + 1, pos + 3) = A(3) + 256 * A(2) + 65536 * A(1)
      <4>1. pos + 3 - 1 = pos + 2 /\ pos + 3 - 2 = pos + 1
        OBVIOUS
      <4> QED
        BY <3>1, <1>1, <4>1 DEF BigEndian
    <3> QED
      BY <3>1, <3>2, <2>3, <1>1, <1>2, Digits
  <2>4. CASE o = 4
    <3>1. /\ A(4) = m % 256 /\ A(3) = (m \div 256) % 256
          /\ A(2) = (m \div 65536) % 256 /\ A(1) = (m \div 16777216) % 256
      BY <2>4, <1>6 DEF BigEndianOctet
    <3>2. BigEndian(buf, pos + 1, pos + 4)
            = A(4) + 256 * A(3) + 65536 * A(2) + 16777216 * A(1)
      <4>1. pos + 4 - 1 = pos + 3 /\ pos + 4 - 2 = pos + 2 /\ pos + 4 - 3 = pos + 1
        OBVIOUS
      <4> QED
        BY <3>1, <1>1, <4>1 DEF BigEndian
    <3> QED
      BY <3>1, <3>2, <2>4, <1>1, Digits
  <2> QED
    BY <1>2, <2>1, <2>2, <2>3, <2>4
<1> QED
  <2>1. ~(At(buf, pos) <= 128) /\ At(buf, pos) % 128 = o /\ ~(o > 4)
    BY <1>2, <1>5
  <2>2. parse_variable_length_field(buf, pos) = [ret |-> o + 1, length |-> m]
    BY <2>1, <1>7 DEF parse_variable_length_field
  <2> QED
    BY <2>2, <1>3 DEF m

-----------------------------------------------------------------------------
(* A packed TLV                                                            *)

\* The octets of an octet string of n octets, and of the TLV around it.
StringSize(n) == Len(Field(n)) + n

Encoded(type, n) == <<type>> \o (Field(StringSize(n)) \o (Field(n) \o MihfId(n)))

\* Where the parts of a concatenation are.
LEMMA ConcatParts ==
  ASSUME NEW T, NEW s \in Seq(T), NEW t \in Seq(T)
  PROVE  /\ s \o t \in Seq(T) /\ Len(s \o t) = Len(s) + Len(t)
         /\ \A k \in 1..Len(s) : (s \o t)[k] = s[k]
         /\ \A k \in 1..Len(t) : (s \o t)[Len(s) + k] = t[k]
  OBVIOUS

\* Where the parts are that are written one behind the other.
LEMMA FourParts ==
  ASSUME NEW T, NEW x \in T, NEW a \in Seq(T), NEW b \in Seq(T), NEW c \in Seq(T),
         NEW e, e = <<x>> \o (a \o (b \o c))
  PROVE  /\ e \in Seq(T) /\ Len(e) = 1 + Len(a) + Len(b) + Len(c)
         /\ e[1] = x
         /\ \A k \in 1..Len(a) : e[1 + k] = a[k]
         /\ \A k \in 1..Len(b) : e[1 + Len(a) + k] = b[k]
         /\ \A k \in 1..Len(c) : e[1 + Len(a) + Len(b) + k] = c[k]
  <1> DEFINE S == b \o c
             R == a \o S
  <1>0. e = <<x>> \o R
    OBVIOUS
  <1>1. /\ S \in Seq(T) /\ Len(S) = Len(b) + Len(c)
        /\ \A k \in 1..Len(b) : S[k] = b[k]
        /\ \A k \in 1..Len(c) : S[Len(b) + k] = c[k]
    BY ConcatParts
  <1> HIDE DEF S
  <1>2. /\ R \in Seq(T) /\ Len(R) = Len(a) + Len(S)
        /\ \A k \in 1..Len(a) : R[k] = a[k]
        /\ \A k \in 1..Len(S) : R[Len(a) + k] = S[k]
    <2>1. S \in Seq(T)
      BY <1>1
    <2> QED BY <2>1, ConcatParts
  <1> HIDE DEF R
  <1> DEFINE U == <<x>>
  <1>3. U \in Seq(T) /\ Len(U) = 1 /\ U[1] = x /\ e = U \o R
    <2>1. U \in Seq(T) /\ Len(U) = 1 /\ U[1] = x
      OBVIOUS
    <2> QED BY <1>0, <2>1, Zenon
  <1> HIDE DEF U
  <1>4. /\ e \in Seq(T) /\ Len(e) = 1 + Len(R) /\ e[1] = x
        /\ \A k \in 1..Len(R) : e[1 + k] = R[k]
    <2>1. R \in Seq(T) /\ U \in Seq(T)
      BY <1>2, <1>3
    <2>2. /\ U \o R \in Seq(T) /\ Len(U \o R) = Len(U) + Len(R)
          /\ \A k \in 1..Len(U) : (U \o R)[k] = U[k]
          /\ \A k \in 1..Len(R) : (U \o R)[Len(U) + k] = R[k]
      BY ONLY <2>1, ConcatParts
    <2> QED BY ONLY <1>3, <2>1, <2>2
  <1>5. Len(a) \in Nat /\ Len(b) \in Nat /\ Len(c) \in Nat
    OBVIOUS
  <1>6. \A k \in 1..Len(a) : e[1 + k] = a[k]
    BY <1>1, <1>2, <1>4, <1>5
  <1>7. \A k \in 1..Len(b) : e[1 + Len(a) + k] = b[k]
    <2>1. ASSUME NEW k \in 1..Len(b)
          PROVE  /\ k \in 1..Len(S) /\ Len(a) + k \in 1..Len(R)
                 /\ 1 + (Len(a) + k) = 1 + Len(a) + k
      BY <1>1, <1>2, <1>5
    <2> QED BY <1>1, <1>2, <1>4, <2>1, Zenon
  <1>8. \A k \in 1..Len(c) : e[1 + Len(a) + Len(b) + k] = c[k]
    <2>1. ASSUME NEW k \in 1..Len(c)
          PROVE  /\ Len(b) + k \in 1..Len(S) /\ Len(a) + (Len(b) + k) \in 1..Len(R)
                 /\ 1 + (Len(a) + (Len(b) + k)) = 1 + Len(a) + Len(b) + k
      BY <1>1, <1>2, <1>5
    <2> QED BY <1>1, <1>2, <1>4, <2>1, ZenonT(40)
  <1>9. Len(e) = 1 + Len(a) + Len(b) + Len(c)
    BY <1>1, <1>2, <1>4, <1>5
  <1> QED BY <1>4, <1>6, <1>7, <1>8, <1>9, Zenon

\* The parts of a TLV e: its type, the length of its value, the length of the
\* id in its value, and the n octets of the id.
Parts(e, type, F, G, n) ==
  /\ Len(e) = 1 + Len(F) + Len(G) + n
  /\ e[1] = type
  /\ \A k \in 1..Len(F) : e[1 + k] = F[k]
  /\ \A k \in 1..Len(G) : e[1 + Len(F) + k] = G[k]
  /\ \A k \in 1..n : e[1 + Len(F) + Len(G) + k] = IdOctet

\* A packed TLV consists of these parts.
LEMMA EncodedParts ==
  ASSUME NEW type \in MihfIdTlv, NEW n \in Nat
  PROVE  /\ StringSize(n) \in Nat /\ StringSize(n) = Len(Field(n)) + n
         /\ Len(Field(StringSize(n))) \in 1..5 /\ Len(Field(n)) \in 1..5
         /\ Encoded(type, n) \in Seq(Octet)
         /\ Len(Encoded(type, n)) = 1 + Len(Field(StringSize(n))) + StringSize(n)
         /\ Parts(Encoded(type, n), type, Field(StringSize(n)), Field(n), n)
  <1> DEFINE F == Field(StringSize(n))
             G == Field(n)
             I == MihfId(n)
             E == Encoded(type, n)
  <1>1. G \in Seq(Octet) /\ Len(G) \in 1..5
    BY FieldType
  <1>2. StringSize(n) \in Nat /\ StringSize(n) = Len(G) + n
    BY <1>1 DEF StringSize
  <1>3. F \in Seq(Octet) /\ Len(F) \in 1..5
    BY <1>2, FieldType
  <1>4. type \in Octet /\ IdOctet \in Octet
    BY IdOctetAssumption DEF MihfIdTlv, SRC_MIHF_ID_TLV, DST_MIHF_ID_TLV, Octet, Below
  <1>5. I \in Seq(Octet) /\ Len(I) = n /\ \A k \in 1..n : I[k] = IdOctet
    BY <1>4 DEF MihfId
  <1>6. E = <<type>> \o (F \o (G \o I))
    BY DEF Encoded
  <1> HIDE DEF F, G, I, E
  <1>7. /\ E \in Seq(Octet) /\ Len(E) = 1 + Len(F) + Len(G) + Len(I) /\ E[1] = type
        /\ \A k \in 1..Len(F) : E[1 + k] = F[k]
        /\ \A k \in 1..Len(G) : E[1 + Len(F) + k] = G[k]
        /\ \A k \in 1..Len(I) : E[1 + Len(F) + Len(G) + k] = I[k]
    <2>1. type \in Octet /\ F \in Seq(Octet) /\ G \in Seq(Octet) /\ I \in Seq(Octet)
      BY <1>1, <1>3, <1>4, <1>5
    <2> QED BY <1>6, <2>1, FourParts, SMTT(30)
  <1>8. Len(E) = 1 + Len(F) + StringSize(n)
    BY <1>1, <1>2, <1>3, <1>5, <1>7
  <1>9. \A k \in 1..n : E[1 + Len(F) + Len(G) + k] = IdOctet
    BY <1>5, <1>7, Zenon
  <1>10. Parts(E, type, F, G, n)
    BY <1>5, <1>7, <1>9, Zenon DEF Parts
  <1> QED BY <1>1, <1>2, <1>3, <1>7, <1>8, <1>10, Zenon DEF E, F, G

\* pack_mih_tlv writes the TLV if its string fits the buffer of
\* pack_mihf_id_tlv and the TLV what is left of the message's.
LEMMA PackTlv ==
  ASSUME NEW type \in MihfIdTlv, NEW n \in Nat, NEW size \in Int
  PROVE  pack_mih_tlv(Tlv(type, n), size)
           = IF StringSize(n) <= BUFFER_SIZE /\ Len(Encoded(type, n)) <= size
             THEN Packed(Encoded(type, n)) ELSE PackError
  <1> DEFINE tlv == Tlv(type, n)
             string == pack_octet_string(tlv.value, BUFFER_SIZE)
             field == pack_variable_length_field(string.ret, size - 1)
             F == Field(StringSize(n))
             G == Field(n)
  <1>1. tlv.type = type /\ tlv.value = MihfId(n) /\ Len(MihfId(n)) = n
    BY DEF Tlv, MihfId
  <1>2. /\ Len(G) \in 1..5 /\ StringSize(n) \in Nat /\ StringSize(n) = Len(G) + n
        /\ Len(F) \in 1..5 /\ Len(Encoded(type, n)) = 1 + Len(F) + StringSize(n)
    BY EncodedParts
  <1>3. /\ G \in Seq(Octet) /\ F \in Seq(Octet) /\ MihfId(n) \in Seq(Octet)
        /\ type \in Octet
    <2>1. IdOctet \in Octet /\ type \in Octet
      BY IdOctetAssumption DEF MihfIdTlv, SRC_MIHF_ID_TLV, DST_MIHF_ID_TLV, Octet, Below
    <2> QED BY <1>2, <2>1, FieldType DEF MihfId
  <1> HIDE DEF F, G
  <1>4. G \o MihfId(n) \in Seq(Octet) /\ Len(G \o MihfId(n)) = StringSize(n)
    BY <1>1, <1>2, <1>3
  <1>5. string = IF StringSize(n) <= BUFFER_SIZE THEN Packed(G \o MihfId(n)) ELSE PackError
    <2> DEFINE head == pack_variable_length_field(n, BUFFER_SIZE)
    <2>1. head = IF Len(G) <= BUFFER_SIZE THEN Packed(G) ELSE PackError
      BY BufferAssumption, PackField DEF G
    <2>2. string = IF head.ret < 0 \/ head.ret + n > BUFFER_SIZE THEN PackError
                   ELSE Packed(head.out \o MihfId(n))
      BY <1>1 DEF pack_octet_string
    <2> HIDE DEF head
    <2>3. CASE Len(G) <= BUFFER_SIZE
      BY <1>2, <2>1, <2>2, <2>3, BufferAssumption DEF Packed
    <2>4. CASE ~(Len(G) <= BUFFER_SIZE)
      BY <1>2, <2>1, <2>2, <2>4, BufferAssumption DEF PackError
    <2> QED BY <2>3, <2>4
  <1>6. string.ret = IF StringSize(n) <= BUFFER_SIZE THEN StringSize(n) ELSE -1
    BY <1>4, <1>5 DEF Packed, PackError
  <1>7. pack_mih_tlv(tlv, size)
          = LET body == IF string.ret < 0 \/ field.ret < 0
                             \/ field.ret + string.ret > size - 1
                        THEN PackError ELSE Packed(field.out \o string.out)
            IN  IF size < 1 \/ body.ret < 0 THEN PackError
                ELSE Packed(<<type>> \o body.out)
    BY <1>1 DEF pack_mih_tlv, pack_mihf_id_tlv
  <1>8. SUFFICES pack_mih_tlv(tlv, size)
                   = IF StringSize(n) <= BUFFER_SIZE /\ Len(Encoded(type, n)) <= size
                     THEN Packed(Encoded(type, n)) ELSE PackError
    OBVIOUS
  <1> DEFINE body == IF string.ret < 0 \/ field.ret < 0
                          \/ field.ret + string.ret > size - 1
                     THEN PackError ELSE Packed(field.out \o string.out)
  <1>9. pack_mih_tlv(tlv, size) = IF size < 1 \/ body.ret < 0 THEN PackError
                                  ELSE Packed(<<type>> \o body.out)
    BY <1>7
  <1> HIDE DEF tlv, string
  <1>10. CASE ~(StringSize(n) <= BUFFER_SIZE)
    <2>1. body = PackError
      BY <1>6, <1>10
    <2> HIDE DEF body
    <2> QED BY <1>9, <1>10, <2>1 DEF PackError
  <1>11. CASE StringSize(n) <= BUFFER_SIZE
    <2>1. string.ret = StringSize(n) /\ string.out = G \o MihfId(n)
      BY <1>5, <1>6, <1>11 DEF Packed
    <2>2. field = IF Len(F) <= size - 1 THEN Packed(F) ELSE PackError
      <3>1. field = pack_variable_length_field(StringSize(n), size - 1)
        BY <2>1
      <3>2. size - 1 \in Int
        OBVIOUS
      <3> QED BY <1>2, <3>1, <3>2, PackField, Zenon DEF F
    <2> HIDE DEF field
    <2>3. CASE Len(Encoded(type, n)) <= size
      <3>1. field.ret = Len(F) /\ field.out = F
        BY <1>2, <2>2, <2>3 DEF Packed
      <3>2. Len(F) + StringSize(n) <= size - 1 /\ ~(size < 1)
        BY <1>2, <2>3
      <3>3. body = Packed(F \o (G \o MihfId(n)))
        BY <1>2, <2>1, <3>1, <3>2
      <3>4. Len(F \o (G \o MihfId(n))) >= 0
        BY <1>3, <1>4
      <3> HIDE DEF body
      <3>5. ~(body.ret < 0) /\ body.out = F \o (G \o MihfId(n))
        BY <3>3, <3>4 DEF Packed
      <3>6. pack_mih_tlv(tlv, size) = Packed(Encoded(type, n))
        BY <1>9, <3>2, <3>5, Zenon DEF Encoded, F, G
      <3> QED BY <1>11, <2>3, <3>6
    <2>4. CASE ~(Len(Encoded(type, n)) <= size)
      <3>1. body = PackError \/ size < 1
        <4>1. CASE Len(F) <= size - 1
          <5>1. field.ret = Len(F) /\ Len(F) + StringSize(n) > size - 1
            BY <1>2, <2>2, <2>4, <4>1 DEF Packed
          <5> QED BY <2>1, <5>1
        <4>2. CASE ~(Len(F) <= size - 1)
          <5>1. field.ret = -1
            BY <2>2, <4>2 DEF PackError
          <5> QED BY <5>1
        <4> QED BY <4>1, <4>2
      <3> HIDE DEF body
      <3>2. pack_mih_tlv(tlv, size) = PackError
        BY <1>9, <3>1 DEF PackError
      <3> QED BY <2>4, <3>2
    <2> QED BY <2>3, <2>4
  <1> QED BY <1>10, <1>11

-----------------------------------------------------------------------------
(* Unpacking a TLV                                                         *)

\* The octets of an id in a buffer.
LEMMA IdHeld ==
  ASSUME NEW buf, NEW pos \in Nat, NEW n \in Nat
  PROVE  Holds(buf, pos, MihfId(n)) <=> \A k \in 1..n : At(buf, pos + k - 1) = IdOctet
  <1>1. Len(MihfId(n)) = n /\ \A k \in 1..n : MihfId(n)[k] = IdOctet
    BY DEF MihfId
  <1> QED BY <1>1, Zenon DEF Holds

\* An id in a buffer starts with every shorter one.
LEMMA IdHeldPrefix ==
  ASSUME NEW buf, NEW pos \in Nat, NEW n \in Nat, NEW m \in Nat, m <= n,
         Holds(buf, pos, MihfId(n))
  PROVE  Holds(buf, pos, MihfId(m))
  <1>1. \A k \in 1..m : k \in 1..n
    OBVIOUS
  <1> QED BY <1>1, IdHeld, Zenon

\* Where the parts of a TLV are that is in a buffer.
LEMMA HeldParts ==
  ASSUME NEW type \in MihfIdTlv, NEW n \in Nat, NEW buf, NEW pos \in Nat,
         Holds(buf, pos, Encoded(type, n))
  PROVE  LET f == Len(Field(StringSize(n)))
             g == Len(Field(n))
         IN  /\ At(buf, pos) = type
             /\ Holds(buf, pos + 1, Field(StringSize(n)))
             /\ Holds(buf, pos + 1 + f, Field(n))
             /\ Holds(buf, pos + 1 + f + g, MihfId(n))
  <1> DEFINE e == Encoded(type, n)
             F == Field(StringSize(n))
             G == Field(n)
             f == Len(F)
             g == Len(G)
             A(k) == At(buf, k)
  <1>1. Parts(e, type, F, G, n) /\ f \in 1..5 /\ g \in 1..5
    BY EncodedParts
  <1>2. \A k \in 1..Len(e) : A(pos + k - 1) = e[k]
    BY DEF Holds
  <1>3. f = Len(F) /\ g = Len(G)
    OBVIOUS
  <1> HIDE DEF e, F, G, A, f, g
  <1>8. /\ Len(e) = 1 + f + g + n
        /\ e[1] = type
        /\ \A k \in 1..f : e[1 + k] = F[k]
        /\ \A k \in 1..g : e[1 + f + k] = G[k]
        /\ \A k \in 1..n : e[1 + f + g + k] = IdOctet
    BY <1>1, <1>3, Zenon DEF Parts
  <1>4. A(pos) = type
    <2>1. 1 \in 1..Len(e) /\ pos + 1 - 1 = pos
      BY <1>1, <1>8
    <2> QED BY <1>2, <1>8, <2>1, Zenon
  <1>5. \A k \in 1..f : A(pos + 1 + k - 1) = F[k]
    <2>1. ASSUME NEW k \in 1..f
          PROVE  1 + k \in 1..Len(e) /\ pos + (1 + k) - 1 = pos + 1 + k - 1
      BY <1>1, <1>8
    <2> QED BY <1>2, <1>8, <2>1, Zenon
  <1>6. \A k \in 1..g : A(pos + 1 + f + k - 1) = G[k]
    <2>1. ASSUME NEW k \in 1..g
          PROVE  1 + f + k \in 1..Len(e) /\ pos + (1 + f + k) - 1 = pos + 1 + f + k - 1
      BY <1>1, <1>8
    <2> QED BY <1>2, <1>8, <2>1, Zenon
  <1>7. \A k \in 1..n : A(pos + 1 + f + g + k - 1) = IdOctet
    <2>1. ASSUME NEW k \in 1..n
          PROVE  /\ 1 + f + g + k \in 1..Len(e)
                 /\ pos + (1 + f + g + k) - 1 = pos + 1 + f + g + k - 1
      BY <1>1, <1>8
    <2> QED BY <1>2, <1>8, <2>1, Zenon
  <1>9. /\ Holds(buf, pos + 1, F)
        /\ Holds(buf, pos + 1 + f, G)
        /\ Holds(buf, pos + 1 + f + g, MihfId(n))
    <2>1. Holds(buf, pos + 1, F) /\ Holds(buf, pos + 1 + f, G)
      BY <1>3, <1>5, <1>6, Zenon DEF Holds, A
    <2>2. pos + 1 + f + g \in Nat
      BY <1>1
    <2>3. \A k \in 1..n : At(buf, pos + 1 + f + g + k - 1) = IdOctet
      BY <1>7 DEF A
    <2>4. Holds(buf, pos + 1 + f + g, MihfId(n))
      BY <2>2, <2>3, IdHeld, Zenon
    <2> QED BY <2>1, <2>4
  <1> QED BY <1>4, <1>9, Zenon DEF A, F, G, f, g

\* The octets of an id are copied out of the buffer.
LEMMA SliceOfId ==
  ASSUME NEW buf \in Seq(Octet), NEW pos \in Nat, pos > 0, NEW n \in Nat,
         Holds(buf, pos, MihfId(n))
  PROVE  Slice(buf, pos, n) = MihfId(n)
  <1>0. \A k \in 1..n : At(buf, pos + k - 1) = IdOctet
    BY IdHeld, Zenon
  <1>1. CASE pos + n - 1 <= Len(buf)
    <2>1. Len(buf) \in Nat
      OBVIOUS
    <2>2. SubSeq(buf, pos, pos + n - 1) = [k \in 1..n |-> buf[pos + k - 1]]
      <3>1. SubSeq(buf, pos, pos + n - 1)
              = [k \in 1..(1 + (pos + n - 1) - pos) |-> buf[k + pos - 1]]
        OBVIOUS
      <3>2. 1 + (pos + n - 1) - pos = n /\ \A k \in 1..n : k + pos - 1 = pos + k - 1
        OBVIOUS
      <3> QED BY <3>1, <3>2
    <2>3. \A k \in 1..n : buf[pos + k - 1] = IdOctet
      <3>1. \A k \in 1..n : pos + k - 1 \in 1..Len(buf)
        BY <1>1, <2>1
      <3> QED BY <1>0, <3>1, Zenon DEF At
    <2>4. Slice(buf, pos, n) = SubSeq(buf, pos, pos + n - 1)
      BY <1>1, Zenon DEF Slice
    <2> QED BY <2>2, <2>3, <2>4, Zenon DEF MihfId
  <1>2. CASE ~(pos + n - 1 <= Len(buf))
    <2>1. Slice(buf, pos, n) = [k \in 1..n |-> At(buf, pos + k - 1)]
      BY <1>2, Zenon DEF Slice
    <2> QED BY <1>0, <2>1, Zenon DEF MihfId
  <1> QED BY <1>1, <1>2

\* unpack_octet_string returns the length that parse_variable_length_field found,
\* and that many octets of the id (message.c 232-260).
LEMMA UnpackString ==
  ASSUME NEW buf \in Seq(Octet), NEW pos \in Nat, pos > 0, NEW g \in Nat, NEW n \in Nat,
         parse_variable_length_field(buf, pos) = [ret |-> g, length |-> n],
         Holds(buf, pos + g, MihfId(n))
  PROVE  unpack_octet_string(buf, pos) = [ret |-> g + n, string |-> MihfId(n)]
  <1>1. pos + g \in Nat /\ pos + g > 0
    OBVIOUS
  <1>2. Slice(buf, pos + g, n) = MihfId(n)
    BY <1>1, SliceOfId, Zenon
  <1> QED BY <1>2 DEF unpack_octet_string

\* unpack_mih_tlv compares what the two fields say (message.c 210-240, 462-483).
LEMMA UnpackFields ==
  ASSUME NEW buf, NEW pos \in Nat, NEW type \in MihfIdTlv, NEW in_len \in Int, in_len >= 2,
         NEW f \in Nat, NEW l \in Nat, NEW r \in Nat, NEW s,
         At(buf, pos) = type,
         parse_variable_length_field(buf, pos + 1) = [ret |-> f, length |-> l],
         unpack_octet_string(buf, pos + 1 + f) = [ret |-> r, string |-> s]
  PROVE  unpack_mih_tlv(buf, pos, in_len)
           = IF r = l THEN [ret |-> 1 + f + r, tlv |-> [type |-> type, value |-> s]]
             ELSE TlvError
  <1> DEFINE body == unpack_mihf_id_tlv(type, l, buf, pos + 1 + f)
  <1>1. body = IF r = l THEN [ret |-> r, tlv |-> [type |-> type, value |-> s]]
               ELSE TlvError
    BY DEF unpack_mihf_id_tlv
  <1>2. unpack_mih_tlv(buf, pos, in_len)
          = IF body.ret < 0 THEN TlvError ELSE [ret |-> 1 + f + body.ret, tlv |-> body.tlv]
    BY DEF unpack_mih_tlv
  <1> HIDE DEF body
  <1>3. CASE r = l
    <2>1. body.ret = r /\ body.tlv = [type |-> type, value |-> s]
      BY <1>1, <1>3
    <2> QED BY <1>2, <1>3, <2>1
  <1>4. CASE r # l
    BY <1>1, <1>2, <1>4 DEF TlvError
  <1> QED BY <1>3, <1>4

\* What parse_variable_length_field makes of the field for n.
Parsed(n) == IF n <= 128 THEN n ELSE n - 128

\* Both forms of the length field at once.
LEMMA ParseField ==
  ASSUME NEW n \in Nat, n <= 2 * BUFFER_SIZE, NEW buf, NEW pos \in Nat,
         Holds(buf, pos, Field(n))
  PROVE  /\ parse_variable_length_field(buf, pos)
              = [ret |-> Len(Field(n)), length |-> Parsed(n)]
         /\ Parsed(n) \in Nat /\ Parsed(n) <= n
  <1>1. CASE n <= 128
    BY <1>1, ShortLengthRoundTrip DEF Parsed
  <1>2. CASE n > 128
    <2>1. n - 128 < 4294967296
      BY PayloadAssumption, BufferAssumption DEF HeaderSize
    <2>2. parse_variable_length_field(buf, pos) = [ret |-> Len(Field(n)), length |-> n - 128]
      BY <1>2, <2>1, LongLengthLoses128
    <2> QED BY <1>2, <2>2 DEF Parsed
  <1> QED BY <1>1, <1>2

\* What unpack_mih_tlv makes of a packed TLV: the two fields must agree also
\* after each has lost 128 or not, and then the id is cut to the parsed length.
LEMMA UnpackEncoded ==
  ASSUME NEW type \in MihfIdTlv, NEW n \in Nat, StringSize(n) <= BUFFER_SIZE,
         NEW buf \in Seq(Octet), NEW pos \in Nat, pos > 0, NEW in_len \in Int, in_len >= 2,
         Holds(buf, pos, Encoded(type, n))
  PROVE  unpack_mih_tlv(buf, pos, in_len)
           = IF Len(Field(n)) + Parsed(n) = Parsed(StringSize(n))
             THEN [ret |-> 1 + Len(Field(StringSize(n))) + (Len(Field(n)) + Parsed(n)),
                   tlv |-> Tlv(type, Parsed(n))]
             ELSE TlvError
  <1> DEFINE F == Field(StringSize(n))
             G == Field(n)
             f == Len(F)
             g == Len(G)
             p == Parsed(n)
             q == Parsed(StringSize(n))
  <1>1. f \in 1..5 /\ g \in 1..5 /\ StringSize(n) = g + n
    BY EncodedParts
  <1>2. /\ At(buf, pos) = type
        /\ Holds(buf, pos + 1, F)
        /\ Holds(buf, pos + 1 + f, G)
        /\ Holds(buf, pos + 1 + f + g, MihfId(n))
    BY HeldParts
  <1>3. /\ parse_variable_length_field(buf, pos + 1) = [ret |-> f, length |-> q]
        /\ q \in Nat
    <2>1. StringSize(n) \in Nat /\ StringSize(n) <= 2 * BUFFER_SIZE /\ pos + 1 \in Nat
      BY <1>1, BufferAssumption
    <2>2. Holds(buf, pos + 1, Field(StringSize(n)))
      BY <1>2
    <2> QED BY ONLY <2>1, <2>2, ParseField
  <1>4. /\ parse_variable_length_field(buf, pos + 1 + f) = [ret |-> g, length |-> p]
        /\ p \in Nat /\ p <= n
    <2>1. n <= 2 * BUFFER_SIZE /\ pos + 1 + f \in Nat
      BY <1>1, BufferAssumption
    <2>2. Holds(buf, pos + 1 + f, Field(n))
      BY <1>2
    <2> HIDE DEF f
    <2> QED BY ONLY n \in Nat, <2>1, <2>2, ParseField
  <1> HIDE DEF F, G, f, g, p, q
  <1>5. unpack_octet_string(buf, pos + 1 + f) = [ret |-> g + p, string |-> MihfId(p)]
    <2>1. pos + 1 + f \in Nat /\ pos + 1 + f > 0 /\ g \in Nat /\ pos + 1 + f + g \in Nat
      BY <1>1
    <2>2. Holds(buf, pos + 1 + f + g, MihfId(p))
      BY <1>2, <1>4, <2>1, IdHeldPrefix
    <2> QED BY <1>4, <2>1, <2>2, UnpackString
  <1>6. unpack_mih_tlv(buf, pos, in_len)
          = IF g + p = q
            THEN [ret |-> 1 + f + (g + p), tlv |-> [type |-> type, value |-> MihfId(p)]]
            ELSE TlvError
    <2>1. f \in Nat /\ g + p \in Nat
      BY <1>1, <1>4
    <2> QED BY <1>2, <1>3, <1>5, <2>1, UnpackFields
  <1> QED BY <1>6, Zenon DEF F, G, f, g, p, q, Tlv

\* A TLV with an id of at most 127 octets is read back as it was.
LEMMA UnpackShort ==
  ASSUME NEW type \in MihfIdTlv, NEW n \in Nat, StringSize(n) <= BUFFER_SIZE,
         NEW buf \in Seq(Octet), NEW pos \in Nat, pos > 0, NEW in_len \in Int, in_len >= 2,
         Holds(buf, pos, Encoded(type, n)),
         n <= 127
  PROVE  unpack_mih_tlv(buf, pos, in_len)
           = [ret |-> Len(Encoded(type, n)), tlv |-> Tlv(type, n)]
  <1> DEFINE f == Len(Field(StringSize(n)))
             g == Len(Field(n))
  <1>1. g = 1
    BY FieldType
  <1>2. f \in 1..5 /\ StringSize(n) = 1 + n /\ Len(Encoded(type, n)) = 1 + f + StringSize(n)
    BY <1>1, EncodedParts, Zenon
  <1>3. Parsed(n) = n /\ Parsed(StringSize(n)) = 1 + n
    BY <1>2 DEF Parsed
  <1> HIDE DEF f, g
  <1>4. unpack_mih_tlv(buf, pos, in_len)
          = IF g + Parsed(n) = Parsed(StringSize(n))
            THEN [ret |-> 1 + f + (g + Parsed(n)), tlv |-> Tlv(type, Parsed(n))]
            ELSE TlvError
    BY UnpackEncoded, Zenon DEF f, g
  <1> QED BY <1>1, <1>2, <1>3, <1>4

\* One with an id of 128 octets is refused: the field of the string is short and
\* the field around it is not.
LEMMA UnpackEdge ==
  ASSUME NEW type \in MihfIdTlv, NEW n \in Nat, StringSize(n) <= BUFFER_SIZE,
         NEW buf \in Seq(Octet), NEW pos \in Nat, pos > 0, NEW in_len \in Int, in_len >= 2,
         Holds(buf, pos, Encoded(type, n)),
         n = 128
  PROVE  unpack_mih_tlv(buf, pos, in_len) = TlvError
  <1> DEFINE g == Len(Field(n))
  <1>1. g = 1
    BY FieldType
  <1>2. StringSize(n) = g + n
    BY EncodedParts
  <1>3. unpack_mih_tlv(buf, pos, in_len) = TlvError \/ g + Parsed(n) = Parsed(StringSize(n))
    BY UnpackEncoded
  <1> HIDE DEF g
  <1>4. Parsed(n) = 128 /\ Parsed(StringSize(n)) = 1
    BY <1>1, <1>2 DEF Parsed
  <1> QED BY <1>1, <1>3, <1>4

\* Of a longer id the last 128 octets are left unread.
LEMMA UnpackLong ==
  ASSUME NEW type \in MihfIdTlv, NEW n \in Nat, StringSize(n) <= BUFFER_SIZE,
         NEW buf \in Seq(Octet), NEW pos \in Nat, pos > 0, NEW in_len \in Int, in_len >= 2,
         Holds(buf, pos, Encoded(type, n)),
         n > 128
  PROVE  /\ unpack_mih_tlv(buf, pos, in_len)
              = [ret |-> Len(Encoded(type, n)) - 128, tlv |-> Tlv(type, n - 128)]
         /\ Len(Encoded(type, n)) > 131
         /\ At(buf, pos + (Len(Encoded(type, n)) - 128)) = IdOctet
  <1> DEFINE f == Len(Field(StringSize(n)))
             g == Len(Field(n))
             e == Len(Encoded(type, n))
  <1>1. f \in 1..5 /\ g \in 1..5 /\ StringSize(n) = g + n /\ e = 1 + f + StringSize(n)
    BY EncodedParts
  <1>2. Holds(buf, pos + 1 + f + g, MihfId(n))
    BY HeldParts
  <1>3. unpack_mih_tlv(buf, pos, in_len)
          = IF g + Parsed(n) = Parsed(StringSize(n))
            THEN [ret |-> 1 + f + (g + Parsed(n)), tlv |-> Tlv(type, Parsed(n))]
            ELSE TlvError
    BY UnpackEncoded
  <1> HIDE DEF f, g, e
  <1>4. Parsed(n) = n - 128 /\ Parsed(StringSize(n)) = g + n - 128
    BY <1>1 DEF Parsed
  <1>5. unpack_mih_tlv(buf, pos, in_len) = [ret |-> e - 128, tlv |-> Tlv(type, n - 128)]
    <2>1. g + Parsed(n) = Parsed(StringSize(n)) /\ 1 + f + (g + Parsed(n)) = e - 128
      BY <1>1, <1>4
    <2> QED BY <1>3, <1>4, <2>1
  <1>6. At(buf, pos + (e - 128)) = IdOctet
    <2>1. /\ n - 127 \in 1..n /\ pos + 1 + f + g \in Nat
          /\ pos + 1 + f + g + (n - 127) - 1 = pos + (e - 128)
      BY <1>1
    <2>2. \A k \in 1..n : At(buf, pos + 1 + f + g + k - 1) = IdOctet
      BY <1>2, <2>1, IdHeld
    <2> QED BY <2>1, <2>2, Zenon
  <1>7. e > 131
    BY <1>1
  <1> QED BY <1>5, <1>6, <1>7, Zenon DEF e

\* An octet of an id is not the type of a TLV.
LEMMA UnpackAstray ==
  ASSUME NEW buf, NEW pos, NEW in_len, At(buf, pos) = IdOctet
  PROVE  unpack_mih_tlv(buf, pos, in_len) = TlvError
  <1>1. IdOctet \notin MihfIdTlv
    BY IdOctetAssumption DEF MihfIdTlv, SRC_MIHF_ID_TLV, DST_MIHF_ID_TLV
  <1> QED BY <1>1, Zenon DEF unpack_mih_tlv

-----------------------------------------------------------------------------
(* The inductive invariant                                                 *)

Ids(a, b) == <<Tlv(SRC_MIHF_ID_TLV, a), Tlv(DST_MIHF_ID_TLV, b)>>

\* The sender's message has ids of a and b octets, and the datagram is what
\* pack_mih_message made of it.
Sent(a, b) ==
  LET src == Encoded(SRC_MIHF_ID_TLV, a)
      dst == Encoded(DST_MIHF_ID_TLV, b)
  IN  /\ message.header \in mih_header_t
      /\ message.header.rsvd1 = 0 /\ message.header.rsvd2 = 0
      /\ message.header.payloadlength = Len(src) + Len(dst)
      /\ message.tlvs = Ids(a, b)
      /\ wire = pack_mih_header(message.header) \o (src \o dst)
      /\ StringSize(a) <= BUFFER_SIZE /\ StringSize(b) <= BUFFER_SIZE
      /\ Len(src) + Len(dst) <= BUFFER_SIZE

\* Where the loop of unpack_mih_message can stand: before, between and behind
\* the two TLVs if it has read short ids only, and 128 octets before the end of
\* the TLV if the last one had more than 128.
Standing(a, b) ==
  LET x == Len(Encoded(SRC_MIHF_ID_TLV, a))
      y == Len(Encoded(DST_MIHF_ID_TLV, b))
      Src(n) == Tlv(SRC_MIHF_ID_TLV, n)
      Dst(n) == Tlv(DST_MIHF_ID_TLV, n)
  IN  \/ tlvs = << >> /\ i = 0
      \/ a <= 127 /\ tlvs = <<Src(a)>> /\ i = x
      \/ a <= 127 /\ b <= 127 /\ tlvs = <<Src(a), Dst(b)>> /\ i = x + y
      \/ a > 128 /\ tlvs = <<Src(a - 128)>> /\ i = x - 128
      \/ a <= 127 /\ b > 128 /\ tlvs = <<Src(a), Dst(b - 128)>> /\ i = x + y - 128

\* What the receiver has, by where it is.
Receiving(a, b) ==
  /\ i \in Nat
  /\ pc = "wire" => header = << >> /\ i = 0 /\ tlvs = << >>
  /\ pc # "wire" => header = message.header
  /\ pc = "unpack" => Standing(a, b)
  /\ pc = "accepted" => tlvs = message.tlvs
  /\ pc = "rejected" => tlvs = << >> /\ (a > 127 \/ b > 127)

IInv ==
  \/ Init
  \/ /\ pc \in {"wire", "unpack", "accepted", "rejected"}
     /\ \E a, b \in Nat : Sent(a, b) /\ Receiving(a, b)

\* A packed header is eight octets (message.c 8-24).
LEMMA HeaderOctets ==
  ASSUME NEW h \in mih_header_t
  PROVE  pack_mih_header(h) \in Seq(Octet) /\ Len(pack_mih_header(h)) = HeaderSize
  <1>1. /\ h.version \in Nat /\ h.version < 16
        /\ h.ackreq \in Nat /\ h.ackreq < 2
        /\ h.ackrsp \in Nat /\ h.ackrsp < 2
        /\ h.uir \in Nat /\ h.uir < 2
        /\ h.morefragment \in Nat /\ h.morefragment < 2
        /\ h.fragmentnumber \in Nat /\ h.fragmentnumber < 128
        /\ h.sid \in Nat /\ h.sid < 16
        /\ h.opcode \in Nat /\ h.opcode < 4
        /\ h.aid \in Nat /\ h.aid < 1024
        /\ h.tid \in Nat /\ h.tid < 4096
        /\ h.payloadlength \in Nat /\ h.payloadlength < 65536
    BY DEF mih_header_t, Below, Bit
  <1>2. /\ High(h.aid) \in Nat /\ High(h.aid) < 4
        /\ High(h.tid) \in Octet /\ Low(h.aid) \in Octet /\ Low(h.tid) \in Octet
        /\ High(h.payloadlength) \in Octet /\ Low(h.payloadlength) \in Octet
    BY <1>1 DEF High, Low, Octet, Below
  <1>3. /\ h.version * 16 + h.ackreq * 8 + h.ackrsp * 4 + h.uir * 2 + h.morefragment \in Octet
        /\ h.fragmentnumber * 2 \in Octet
        /\ h.sid * 16 + h.opcode * 4 + High(h.aid) \in Octet
    BY <1>1, <1>2 DEF Octet, Below
  <1> QED BY <1>2, <1>3 DEF pack_mih_header, HeaderSize

\* A word that was split into two octets is put together again, also under the
\* masks of the fields that are shorter than a word (message.c 17-23, 37-41).
LEMMA WordRoundTrip ==
  ASSUME NEW n \in Nat, n < 65536
  PROVE  /\ High(n) \in Nat /\ High(n) < 256
         /\ Low(n) \in Nat /\ Low(n) < 256
         /\ Word(High(n), Low(n)) = n
  BY SMT DEF High, Low, Word

\* The second octet is the fragment number and a reserved bit.
LEMMA SecondOctet ==
  ASSUME NEW f \in Nat, f < 128
  PROVE  f * 2 \in Nat /\ f * 2 < 256 /\ (f * 2) \div 2 = f /\ (f * 2) % 2 = 0
  BY SMT

\* unpack_mih_header inverts pack_mih_header on every header whose reserved
\* bits are zero (message.c 8-42).
LEMMA HeaderRoundTrip ==
  ASSUME NEW h \in mih_header_t, h.rsvd1 = 0, h.rsvd2 = 0
  PROVE  unpack_mih_header(pack_mih_header(h)) = h
  <1> DEFINE w == pack_mih_header(h)
             g == unpack_mih_header(w)
  <1>1. /\ h.version \in Nat /\ h.version < 16
        /\ h.ackreq \in Nat /\ h.ackreq < 2
        /\ h.ackrsp \in Nat /\ h.ackrsp < 2
        /\ h.uir \in Nat /\ h.uir < 2
        /\ h.morefragment \in Nat /\ h.morefragment < 2
        /\ h.fragmentnumber \in Nat /\ h.fragmentnumber < 128
        /\ h.sid \in Nat /\ h.sid < 16
        /\ h.opcode \in Nat /\ h.opcode < 4
        /\ h.aid \in Nat /\ h.aid < 1024
        /\ h.tid \in Nat /\ h.tid < 4096
        /\ h.payloadlength \in Nat /\ h.payloadlength < 65536
    BY DEF mih_header_t, Below, Bit
  <1>2. /\ w[1] = h.version * 16 + h.ackreq * 8 + h.ackrsp * 4 + h.uir * 2
                    + h.morefragment
        /\ w[2] = h.fragmentnumber * 2
        /\ w[3] = h.sid * 16 + h.opcode * 4 + High(h.aid)
        /\ w[4] = Low(h.aid)
        /\ w[5] = High(h.tid) /\ w[6] = Low(h.tid)
        /\ w[7] = High(h.payloadlength) /\ w[8] = Low(h.payloadlength)
    BY DEF pack_mih_header
  <1> HIDE DEF w
  <1>3. /\ g.version = h.version /\ g.ackreq = h.ackreq /\ g.ackrsp = h.ackrsp
        /\ g.uir = h.uir /\ g.morefragment = h.morefragment
  <2>1. /\ w[1] \div 16 = h.version
        /\ (w[1] \div 8) % 2 = h.ackreq
        /\ (w[1] \div 4) % 2 = h.ackrsp
        /\ (w[1] \div 2) % 2 = h.uir
        /\ w[1] % 2 = h.morefragment
    <3> DEFINE v == h.version  a == h.ackreq  r == h.ackrsp  u == h.uir
               m == h.morefragment  o == w[1]
    <3>1. /\ v \in Nat /\ v < 16 /\ a \in Nat /\ a < 2 /\ r \in Nat /\ r < 2
          /\ u \in Nat /\ u < 2 /\ m \in Nat /\ m < 2
      BY <1>1
    <3>2. o = v * 16 + a * 8 + r * 4 + u * 2 + m
      BY <1>2
    <3> HIDE DEF v, a, r, u, m, o
    <3>3. /\ o \div 16 = v /\ (o \div 8) % 2 = a /\ (o \div 4) % 2 = r
          /\ (o \div 2) % 2 = u /\ o % 2 = m
      BY ONLY <3>1, <3>2, SMT
    <3> QED
      BY <3>3 DEF v, a, r, u, m, o
  <2> QED
    BY ONLY <2>1 DEF unpack_mih_header
  <1>4. g.fragmentnumber = h.fragmentnumber /\ g.rsvd1 = 0
    BY <1>1, <1>2, SecondOctet DEF unpack_mih_header
  <1>5. /\ High(h.aid) \in Nat /\ High(h.aid) < 4
        /\ High(h.tid) \in Nat /\ High(h.tid) < 16
    BY <1>1 DEF High
  <1>6. /\ g.sid = h.sid /\ g.opcode = h.opcode
        /\ w[3] % 4 = High(h.aid)
  <2>1. /\ w[3] \div 16 = h.sid
        /\ (w[3] \div 4) % 4 = h.opcode
        /\ w[3] % 4 = High(h.aid)
    <3> DEFINE v == h.sid  p == h.opcode  q == High(h.aid)  o == w[3]
    <3>1. v \in Nat /\ v < 16 /\ p \in Nat /\ p < 4 /\ q \in Nat /\ q < 4
      BY <1>1, <1>5
    <3>2. o = v * 16 + p * 4 + q
      BY <1>2
    <3> HIDE DEF v, p, q, o
    <3>3. o \div 16 = v /\ (o \div 4) % 4 = p /\ o % 4 = q
      BY ONLY <3>1, <3>2, SMT
    <3> QED
      BY <3>3 DEF v, p, q, o
  <2> QED
    BY ONLY <2>1 DEF unpack_mih_header
  <1>7. g.aid = h.aid
    BY <1>1, <1>2, <1>6, WordRoundTrip DEF unpack_mih_header
  <1>8. High(h.tid) % 16 = High(h.tid) /\ High(h.tid) \div 16 = 0
    BY <1>5
  <1>9. g.tid = h.tid /\ g.rsvd2 = 0
    BY <1>1, <1>2, <1>8, WordRoundTrip DEF unpack_mih_header
  <1>10. g.payloadlength = h.payloadlength
    BY <1>1, <1>2, WordRoundTrip, SMTT(30) DEF unpack_mih_header
  <1>11. g = [version |-> g.version, ackreq |-> g.ackreq, ackrsp |-> g.ackrsp,
              uir |-> g.uir, morefragment |-> g.morefragment,
              fragmentnumber |-> g.fragmentnumber, rsvd1 |-> g.rsvd1, sid |-> g.sid,
              opcode |-> g.opcode, aid |-> g.aid, rsvd2 |-> g.rsvd2, tid |-> g.tid,
              payloadlength |-> g.payloadlength]
    BY DEF unpack_mih_header
  <1>12. h = [version |-> h.version, ackreq |-> h.ackreq, ackrsp |-> h.ackrsp,
              uir |-> h.uir, morefragment |-> h.morefragment,
              fragmentnumber |-> h.fragmentnumber, rsvd1 |-> h.rsvd1, sid |-> h.sid,
              opcode |-> h.opcode, aid |-> h.aid, rsvd2 |-> h.rsvd2, tid |-> h.tid,
              payloadlength |-> h.payloadlength]
    BY DEF mih_header_t
  <1> HIDE DEF g
  <1>13. g = h
    BY <1>3, <1>4, <1>6, <1>7, <1>9, <1>10, <1>11, <1>12
  <1> QED
    BY <1>13 DEF g, w

\* unpack_mih_header looks at eight octets only, so it finds the header also in
\* front of a payload.
LEMMA HeaderAhead ==
  ASSUME NEW h \in mih_header_t, h.rsvd1 = 0, h.rsvd2 = 0,
         NEW w, \A k \in 1..HeaderSize : w[k] = pack_mih_header(h)[k]
  PROVE  unpack_mih_header(w) = h
  <1> DEFINE b == pack_mih_header(h)
  <1>1. unpack_mih_header(b) = h
    BY HeaderRoundTrip
  <1>2. /\ w[1] = b[1] /\ w[2] = b[2] /\ w[3] = b[3] /\ w[4] = b[4]
        /\ w[5] = b[5] /\ w[6] = b[6] /\ w[7] = b[7] /\ w[8] = b[8]
    BY DEF HeaderSize
  <1> HIDE DEF b
  <1>3. unpack_mih_header(w) = unpack_mih_header(b)
    BY <1>2, Zenon DEF unpack_mih_header
  <1> QED BY <1>1, <1>3

\* w consists of three parts.
ThreeParts(w, p, s, t) == w = p \o (s \o t)

\* The octets of the first, of the middle and of the last part of a buffer.
LEMMA HeldBehind ==
  ASSUME NEW p \in Seq(Octet), NEW s \in Seq(Octet), NEW t \in Seq(Octet),
         NEW w, ThreeParts(w, p, s, t)
  PROVE  /\ w \in Seq(Octet) /\ Len(w) = Len(p) + Len(s) + Len(t)
         /\ \A k \in 1..Len(p) : w[k] = p[k]
         /\ Holds(w, Len(p) + 1, s)
         /\ Holds(w, Len(p) + Len(s) + 1, t)
  <1> DEFINE r == s \o t
  <1>1. /\ r \in Seq(Octet) /\ Len(r) = Len(s) + Len(t)
        /\ \A k \in 1..Len(s) : r[k] = s[k]
        /\ \A k \in 1..Len(t) : r[Len(s) + k] = t[k]
    BY ConcatParts
  <1>2. w = p \o r
    BY Zenon DEF ThreeParts
  <1> HIDE DEF r
  <1>3. /\ w \in Seq(Octet) /\ Len(w) = Len(p) + Len(r)
        /\ \A k \in 1..Len(p) : w[k] = p[k]
        /\ \A k \in 1..Len(r) : w[Len(p) + k] = r[k]
    <2>1. r \in Seq(Octet)
      BY <1>1
    <2>2. /\ p \o r \in Seq(Octet) /\ Len(p \o r) = Len(p) + Len(r)
          /\ \A k \in 1..Len(p) : (p \o r)[k] = p[k]
          /\ \A k \in 1..Len(r) : (p \o r)[Len(p) + k] = r[k]
      BY ONLY p \in Seq(Octet), <2>1, ConcatParts
    <2> QED BY ONLY <1>2, <2>2, Zenon
  <1>4. Len(p) \in Nat /\ Len(s) \in Nat /\ Len(t) \in Nat
    OBVIOUS
  <1>5. Len(w) = Len(p) + Len(s) + Len(t)
    BY ONLY <1>1, <1>3, <1>4
  <1>6. \A k \in 1..Len(s) : At(w, Len(p) + 1 + k - 1) = s[k]
    <2>1. ASSUME NEW k \in 1..Len(s)
          PROVE  /\ k \in 1..Len(r) /\ Len(p) + k \in 1..Len(w)
                 /\ Len(p) + 1 + k - 1 = Len(p) + k
      BY ONLY <1>1, <1>3, <1>4, k \in 1..Len(s)
    <2> QED BY ONLY <1>1, <1>3, <2>1, Zenon DEF At
  <1>7. \A k \in 1..Len(t) : At(w, Len(p) + Len(s) + 1 + k - 1) = t[k]
    <2>1. ASSUME NEW k \in 1..Len(t)
          PROVE  /\ Len(s) + k \in 1..Len(r) /\ Len(p) + (Len(s) + k) \in 1..Len(w)
                 /\ Len(p) + Len(s) + 1 + k - 1 = Len(p) + (Len(s) + k)
      BY ONLY <1>1, <1>3, <1>4, k \in 1..Len(t)
    <2> QED BY ONLY <1>1, <1>3, <2>1, Zenon DEF At
  <1> QED BY <1>3, <1>5, <1>6, <1>7, Zenon DEF Holds

\* Where the parts of the datagram are.
LEMMA WireParts ==
  ASSUME NEW a \in Nat, NEW b \in Nat, Sent(a, b)
  PROVE  LET src == Encoded(SRC_MIHF_ID_TLV, a)
             dst == Encoded(DST_MIHF_ID_TLV, b)
         IN  /\ wire \in Seq(Octet) /\ Len(wire) = HeaderSize + Len(src) + Len(dst)
             /\ Len(src) \in Nat /\ Len(src) >= 3 /\ Len(dst) \in Nat /\ Len(dst) >= 3
             /\ unpack_mih_header(wire) = message.header
             /\ Holds(wire, HeaderSize + 1, src)
             /\ Holds(wire, HeaderSize + Len(src) + 1, dst)
  <1> DEFINE src == Encoded(SRC_MIHF_ID_TLV, a)
             dst == Encoded(DST_MIHF_ID_TLV, b)
             p == pack_mih_header(message.header)
  <1>1. /\ wire = p \o (src \o dst)
        /\ message.header \in mih_header_t
        /\ message.header.rsvd1 = 0 /\ message.header.rsvd2 = 0
    BY DEF Sent
  <1>2. /\ src \in Seq(Octet) /\ Len(src) \in Nat /\ Len(src) >= 3
        /\ dst \in Seq(Octet) /\ Len(dst) \in Nat /\ Len(dst) >= 3
    <2>1. ASSUME NEW type \in MihfIdTlv, NEW n \in Nat
          PROVE  /\ Encoded(type, n) \in Seq(Octet)
                 /\ Len(Encoded(type, n)) \in Nat /\ Len(Encoded(type, n)) >= 3
      <3> DEFINE e == Encoded(type, n)
                 f == Len(Field(StringSize(n)))
                 g == Len(Field(n))
      <3>1. /\ e \in Seq(Octet) /\ Len(e) = 1 + f + StringSize(n)
            /\ StringSize(n) = g + n /\ f \in 1..5 /\ g \in 1..5
        BY EncodedParts, Zenon
      <3> HIDE DEF e, f, g
      <3>2. e \in Seq(Octet) /\ Len(e) \in Nat /\ Len(e) >= 3
        BY <3>1
      <3> QED BY <3>2, Zenon DEF e
    <2>2. SRC_MIHF_ID_TLV \in MihfIdTlv /\ DST_MIHF_ID_TLV \in MihfIdTlv
      BY DEF MihfIdTlv
    <2> QED BY <2>1, <2>2
  <1>3. p \in Seq(Octet) /\ Len(p) = HeaderSize
    BY <1>1, HeaderOctets
  <1> HIDE DEF src, dst
  <1> HIDE DEF p
  <1>4. /\ wire \in Seq(Octet) /\ Len(wire) = Len(p) + Len(src) + Len(dst)
        /\ \A k \in 1..Len(p) : wire[k] = p[k]
        /\ Holds(wire, Len(p) + 1, src)
        /\ Holds(wire, Len(p) + Len(src) + 1, dst)
    <2>1. /\ p \in Seq(Octet) /\ src \in Seq(Octet) /\ dst \in Seq(Octet)
          /\ ThreeParts(wire, p, src, dst)
      BY <1>1, <1>2, <1>3, Zenon DEF ThreeParts
    <2> QED BY ONLY <2>1, HeldBehind, Zenon
  <1>5. unpack_mih_header(wire) = message.header
    BY <1>1, <1>3, <1>4, HeaderAhead, Zenon DEF p
  <1> QED BY <1>2, <1>3, <1>4, <1>5, Zenon DEF src, dst

\* The loop of pack_mih_message writes both TLVs or fails (message.c 318-333).
LEMMA PackTlvs ==
  ASSUME NEW a \in Nat, NEW b \in Nat, NEW size \in Int,
         pack_tlvs(Ids(a, b), size).ret >= 0
  PROVE  LET src == Encoded(SRC_MIHF_ID_TLV, a)
             dst == Encoded(DST_MIHF_ID_TLV, b)
         IN  /\ StringSize(a) <= BUFFER_SIZE /\ StringSize(b) <= BUFFER_SIZE
             /\ Len(src) + Len(dst) \in Nat /\ Len(src) + Len(dst) <= size
             /\ pack_tlvs(Ids(a, b), size).ret = Len(src) + Len(dst)
             /\ pack_tlvs(Ids(a, b), size).out = src \o dst
  <1> DEFINE src == Encoded(SRC_MIHF_ID_TLV, a)
             dst == Encoded(DST_MIHF_ID_TLV, b)
             first == pack_mih_tlv(Tlv(SRC_MIHF_ID_TLV, a), size)
             rest == pack_mih_tlv(Tlv(DST_MIHF_ID_TLV, b), size - Len(src))
             payload == pack_tlvs(Ids(a, b), size)
  <1>1. Ids(a, b)[1] = Tlv(SRC_MIHF_ID_TLV, a) /\ Ids(a, b)[2] = Tlv(DST_MIHF_ID_TLV, b)
    BY DEF Ids
  <1>2. payload = IF first.ret < 0
                       \/ pack_mih_tlv(Tlv(DST_MIHF_ID_TLV, b), size - first.ret).ret < 0
                  THEN PackError
                  ELSE Packed(first.out \o
                         pack_mih_tlv(Tlv(DST_MIHF_ID_TLV, b), size - first.ret).out)
    BY <1>1, Zenon DEF pack_tlvs
  <1>3. SRC_MIHF_ID_TLV \in MihfIdTlv /\ DST_MIHF_ID_TLV \in MihfIdTlv
    BY DEF MihfIdTlv
  <1>4. src \in Seq(Octet) /\ dst \in Seq(Octet)
    BY <1>3, EncodedParts
  <1>5. first = IF StringSize(a) <= BUFFER_SIZE /\ Len(src) <= size
                THEN Packed(src) ELSE PackError
    BY <1>3, PackTlv
  <1> HIDE DEF first, payload, src
  <1>6. first.ret >= 0
    <2>1. CASE first.ret < 0
      BY <1>2, <2>1 DEF PackError, payload
    <2>2. CASE ~(first.ret < 0)
      BY <1>5, <2>2, <1>4 DEF Packed, PackError
    <2> QED BY <2>1, <2>2
  <1>7. /\ StringSize(a) <= BUFFER_SIZE /\ Len(src) <= size
        /\ first.ret = Len(src) /\ first.out = src
    BY <1>5, <1>6 DEF Packed, PackError
  <1>8. rest = IF StringSize(b) <= BUFFER_SIZE /\ Len(dst) <= size - Len(src)
               THEN Packed(dst) ELSE PackError
    <2>1. size - Len(src) \in Int
      BY <1>4
    <2> QED BY <1>3, <2>1, PackTlv
  <1>9. payload = IF rest.ret < 0 THEN PackError ELSE Packed(src \o rest.out)
    BY <1>2, <1>6, <1>7
  <1> HIDE DEF rest, dst
  <1>10. StringSize(b) <= BUFFER_SIZE /\ Len(dst) <= size - Len(src) /\ rest = Packed(dst)
    BY <1>8, <1>9 DEF PackError, payload
  <1>11. payload = Packed(src \o dst)
    BY <1>4, <1>9, <1>10 DEF Packed
  <1>12. Len(src \o dst) = Len(src) + Len(dst) /\ Len(src) \in Nat /\ Len(dst) \in Nat
    BY <1>4
  <1>13. /\ Len(src) + Len(dst) \in Nat /\ Len(src) + Len(dst) <= size
         /\ payload.ret = Len(src) + Len(dst) /\ payload.out = src \o dst
    BY <1>10, <1>11, <1>12 DEF Packed
  <1> QED BY <1>7, <1>10, <1>13, Zenon DEF payload, src, dst

\* pack_mih_message puts the two TLVs behind the header, or fails (message.c 300-345).
LEMMA PackedMessage ==
  ASSUME NEW h \in Header, NEW a \in Nat, NEW b \in Nat,
         pack_mih_message(h, Ids(a, b))
  PROVE  Sent(a, b)'
  <1> DEFINE src == Encoded(SRC_MIHF_ID_TLV, a)
             dst == Encoded(DST_MIHF_ID_TLV, b)
             list == Ids(a, b)
             size == BUFFER_SIZE - HeaderSize
             payload == pack_tlvs(list, size)
             hdr == [h EXCEPT !.payloadlength = payload.ret]
  <1>1. /\ payload.ret >= 0 /\ message' = [header |-> hdr, tlvs |-> list]
        /\ wire' = pack_mih_header(hdr) \o payload.out
    BY Zenon DEF pack_mih_message
  <1>2. size \in Int /\ size <= BUFFER_SIZE /\ size < 65536
    <2>1. size < 65536
      BY ONLY PayloadAssumption, SMT
    <2>2. size \in Int /\ size <= BUFFER_SIZE
      BY ONLY BufferAssumption DEF HeaderSize
    <2> QED BY ONLY <2>1, <2>2, SMT
  <1> HIDE DEF size
  <1>3. /\ StringSize(a) <= BUFFER_SIZE /\ StringSize(b) <= BUFFER_SIZE
        /\ Len(src) + Len(dst) \in Nat /\ Len(src) + Len(dst) <= size
        /\ payload.ret = Len(src) + Len(dst)
        /\ payload.out = src \o dst
    <2>1. payload.ret >= 0
      BY <1>1, Zenon
    <2> QED BY <1>2, <2>1, PackTlvs
  <1> HIDE DEF payload, src, dst, list
  <1>4. Len(src) + Len(dst) <= BUFFER_SIZE /\ payload.ret \in Below(65536)
    BY <1>2, <1>3, BufferAssumption DEF Below
  <1>5. /\ hdr \in mih_header_t /\ hdr.rsvd1 = 0 /\ hdr.rsvd2 = 0
        /\ hdr.payloadlength = payload.ret
    <2>1. h \in mih_header_t /\ h.rsvd1 = 0 /\ h.rsvd2 = 0
      BY HeaderAssumption
    <2> QED BY ONLY <1>4, <2>1 DEF mih_header_t
  <1> HIDE DEF hdr
  <1>6. message'.header = hdr /\ message'.tlvs = list
    BY <1>1
  <1>7. wire' = pack_mih_header(hdr) \o (src \o dst)
    BY <1>1, <1>3, Zenon
  <1>8. hdr.payloadlength = Len(src) + Len(dst)
    BY <1>3, <1>5, Zenon
  <1> QED BY <1>3, <1>4, <1>5, <1>6, <1>7, <1>8 DEF Sent, src, dst, list

\* The sender's message and the datagram stay.
LEMMA SentKeeps ==
  ASSUME NEW a \in Nat, NEW b \in Nat, Sent(a, b), UNCHANGED <<message, wire>>
  PROVE  Sent(a, b)'
  BY Zenon DEF Sent

\* What unpack_mih_tlv makes of a packed TLV, by the length of its id.
LEMMA UnpackCases ==
  ASSUME NEW type \in MihfIdTlv, NEW n \in Nat, StringSize(n) <= BUFFER_SIZE,
         NEW buf \in Seq(Octet), NEW pos \in Nat, pos > 0, NEW in_len \in Int, in_len >= 2,
         Holds(buf, pos, Encoded(type, n))
  PROVE  LET s == unpack_mih_tlv(buf, pos, in_len)
             e == Len(Encoded(type, n))
         IN  \/ n <= 127 /\ s.ret = e /\ s.tlv = Tlv(type, n)
             \/ n = 128 /\ s.ret < 0
             \/ n > 128 /\ e > 131 /\ s.ret = e - 128 /\ s.tlv = Tlv(type, n - 128)
  <1> DEFINE s == unpack_mih_tlv(buf, pos, in_len)
             e == Len(Encoded(type, n))
  <1>1. CASE n <= 127
    <2>1. s = [ret |-> e, tlv |-> Tlv(type, n)]
      BY <1>1, UnpackShort
    <2> HIDE DEF s, e
    <2>2. s.ret = e /\ s.tlv = Tlv(type, n)
      BY <2>1
    <2> QED BY <1>1, <2>2, Zenon DEF s, e
  <1>2. CASE n = 128
    <2>1. s = TlvError
      BY <1>2, UnpackEdge
    <2> QED BY <1>2, <2>1 DEF TlvError
  <1>3. CASE n > 128
    <2>1. s = [ret |-> e - 128, tlv |-> Tlv(type, n - 128)] /\ e > 131
      BY <1>3, UnpackLong
    <2> HIDE DEF s, e
    <2>2. s.ret = e - 128 /\ s.tlv = Tlv(type, n - 128) /\ e > 131
      BY <2>1
    <2> QED BY <1>3, <2>2 DEF s, e
  <1> QED BY <1>1, <1>2, <1>3

\* The list of TLVs grows at its end.
LEMMA AppendToOne ==
  ASSUME NEW u, NEW t
  PROVE  Len(<<u>>) = 1 /\ Append(<<u>>, t) = <<u, t>> /\ Len(<<u, t>>) = 2
  <1> DEFINE p == <<u>>
             q == Append(p, t)
             r == <<u, t>>
  <1>1. p \in Seq({u, t}) /\ Len(p) = 1 /\ p[1] = u
    OBVIOUS
  <1>2. r \in Seq({u, t}) /\ Len(r) = 2 /\ r[1] = u /\ r[2] = t
    OBVIOUS
  <1> HIDE DEF p, r
  <1>3. q \in Seq({u, t}) /\ Len(q) = 2 /\ q[1] = u /\ q[2] = t
    <2>1. p \in Seq({u, t}) /\ t \in {u, t}
      BY <1>1
    <2>2. /\ q \in Seq({u, t}) /\ Len(q) = Len(p) + 1
          /\ \A k \in 1..Len(p) : q[k] = p[k]
          /\ q[Len(p) + 1] = t
      BY ONLY <2>1
    <2> HIDE DEF q
    <2> QED BY <1>1, <2>2
  <1> HIDE DEF q
  <1>4. q = r
    BY <1>2, <1>3
  <1> QED BY <1>1, <1>2, <1>4 DEF p, q, r

\* An iteration of the loop reads the next TLV, up to its end if the id is short, or
\* ends the loop, which takes an id of more than 127 octets (message.c 365-377).
LEMMA Iteration ==
  ASSUME NEW a \in Nat, NEW b \in Nat, Sent(a, b), Receiving(a, b), UnpackTlv
  PROVE  \/ /\ pc' = "unpack" /\ Standing(a, b)'
            /\ i' \in Nat /\ i' >= i + 3 /\ Len(tlvs') = Len(tlvs) + 1
         \/ /\ pc' = "rejected" /\ tlvs' = << >> /\ i' = i
            /\ a > 127 \/ b > 127
  <1> DEFINE x == Len(Encoded(SRC_MIHF_ID_TLV, a))
             y == Len(Encoded(DST_MIHF_ID_TLV, b))
             Src(n) == Tlv(SRC_MIHF_ID_TLV, n)
             Dst(n) == Tlv(DST_MIHF_ID_TLV, n)
             pos == HeaderSize + i + 1
             in_len == Len(wire) - HeaderSize - i
             s == unpack_mih_tlv(wire, pos, in_len)
  <1>1. /\ wire \in Seq(Octet) /\ Len(wire) = HeaderSize + x + y
        /\ x \in Nat /\ x >= 3 /\ y \in Nat /\ y >= 3
        /\ Holds(wire, HeaderSize + 1, Encoded(SRC_MIHF_ID_TLV, a))
        /\ Holds(wire, HeaderSize + x + 1, Encoded(DST_MIHF_ID_TLV, b))
    BY WireParts
  <1>2. /\ SRC_MIHF_ID_TLV \in MihfIdTlv /\ DST_MIHF_ID_TLV \in MihfIdTlv
        /\ StringSize(a) <= BUFFER_SIZE /\ StringSize(b) <= BUFFER_SIZE
    BY DEF MihfIdTlv, Sent
  <1>3. header.payloadlength = x + y /\ i \in Nat /\ i < x + y /\ pc = "unpack"
    BY DEF Receiving, Sent, UnpackTlv
  <1>4. \/ tlvs = << >> /\ i = 0
        \/ a <= 127 /\ tlvs = <<Src(a)>> /\ i = x
        \/ a > 128 /\ tlvs = <<Src(a - 128)>> /\ i = x - 128
        \/ a <= 127 /\ b > 128 /\ tlvs = <<Src(a), Dst(b - 128)>> /\ i = x + y - 128
    BY <1>3 DEF Receiving, Standing
  <1>5. /\ s.ret < 0 => pc' = "rejected" /\ tlvs' = << >> /\ i' = i
        /\ ~(s.ret < 0) => pc' = "unpack" /\ tlvs' = Append(tlvs, s.tlv) /\ i' = i + s.ret
    BY DEF UnpackTlv
  <1>6. /\ HeaderSize + 1 \in Nat /\ HeaderSize + 1 > 0
        /\ HeaderSize + x + 1 \in Nat /\ HeaderSize + x + 1 > 0
    BY <1>1 DEF HeaderSize
  <1>7. /\ a > 128 => At(wire, HeaderSize + 1 + (x - 128)) = IdOctet
        /\ b > 128 => At(wire, HeaderSize + x + 1 + (y - 128)) = IdOctet
    BY <1>1, <1>2, <1>6, UnpackLong
  <1> HIDE DEF Src, Dst
  <1>8. CASE tlvs = << >> /\ i = 0
    <2>1. pos = HeaderSize + 1 /\ in_len \in Int /\ in_len >= 2
      BY <1>1, <1>8 DEF HeaderSize
    <2>2. \/ a <= 127 /\ s.ret = x /\ s.tlv = Src(a)
          \/ a = 128 /\ s.ret < 0
          \/ a > 128 /\ x > 131 /\ s.ret = x - 128 /\ s.tlv = Src(a - 128)
      <3>1. /\ SRC_MIHF_ID_TLV \in MihfIdTlv /\ StringSize(a) <= BUFFER_SIZE
            /\ wire \in Seq(Octet) /\ pos \in Nat /\ pos > 0
            /\ in_len \in Int /\ in_len >= 2
            /\ Holds(wire, pos, Encoded(SRC_MIHF_ID_TLV, a))
        BY <1>1, <1>2, <1>6, <2>1, Zenon
      <3> HIDE DEF pos, in_len
      <3> QED BY ONLY a \in Nat, <3>1, UnpackCases, SMT DEF Src, s, x
    <2> HIDE DEF s, x
    <2>3. Len(tlvs) = 0 /\ \A t : Append(tlvs, t) = <<t>> /\ Len(<<t>>) = 1
      BY <1>8
    <2>4. \/ pc' = "rejected" /\ tlvs' = << >> /\ i' = i /\ a > 127
          \/ pc' = "unpack" /\ a <= 127 /\ tlvs' = <<Src(a)>> /\ i' = x
          \/ pc' = "unpack" /\ a > 128 /\ tlvs' = <<Src(a - 128)>> /\ i' = x - 128 /\ x > 131
      <3>1. /\ s.ret < 0 => pc' = "rejected" /\ tlvs' = << >> /\ i' = i
            /\ ~(s.ret < 0) => pc' = "unpack" /\ tlvs' = <<s.tlv>> /\ i' = s.ret
        BY <1>5, <1>8, <2>2, <2>3, <1>1
      <3> QED BY <1>1, <2>2, <3>1
    <2> QED BY <1>1, <1>8, <2>3, <2>4 DEF Standing, x, Src
  <1>9. CASE a <= 127 /\ tlvs = <<Src(a)>> /\ i = x
    <2>1. pos = HeaderSize + x + 1 /\ in_len \in Int /\ in_len >= 2
      BY <1>1, <1>9 DEF HeaderSize
    <2>2. \/ b <= 127 /\ s.ret = y /\ s.tlv = Dst(b)
          \/ b = 128 /\ s.ret < 0
          \/ b > 128 /\ y > 131 /\ s.ret = y - 128 /\ s.tlv = Dst(b - 128)
      <3>1. /\ DST_MIHF_ID_TLV \in MihfIdTlv /\ StringSize(b) <= BUFFER_SIZE
            /\ wire \in Seq(Octet) /\ pos \in Nat /\ pos > 0
            /\ in_len \in Int /\ in_len >= 2
            /\ Holds(wire, pos, Encoded(DST_MIHF_ID_TLV, b))
        BY <1>1, <1>2, <1>6, <2>1, Zenon
      <3> HIDE DEF pos, in_len
      <3> QED BY ONLY b \in Nat, <3>1, UnpackCases, SMT DEF Dst, s, y
    <2> HIDE DEF s, x, y
    <2>3. Len(tlvs) = 1 /\ \A t : Append(tlvs, t) = <<Src(a), t>> /\ Len(<<Src(a), t>>) = 2
      BY <1>9, AppendToOne, Zenon
    <2>4. \/ pc' = "rejected" /\ tlvs' = << >> /\ i' = i /\ b > 127
          \/ pc' = "unpack" /\ b <= 127 /\ tlvs' = <<Src(a), Dst(b)>> /\ i' = x + y
          \/ /\ pc' = "unpack" /\ b > 128 /\ tlvs' = <<Src(a), Dst(b - 128)>>
             /\ i' = x + (y - 128) /\ y > 131
      <3>1. /\ s.ret < 0 => pc' = "rejected" /\ tlvs' = << >> /\ i' = i
            /\ ~(s.ret < 0) => pc' = "unpack" /\ tlvs' = <<Src(a), s.tlv>> /\ i' = x + s.ret
        BY <1>5, <1>9, <2>3
      <3> QED BY <1>1, <2>2, <3>1
    <2> QED BY <1>1, <1>9, <2>3, <2>4 DEF Standing, x, y, Src, Dst
  <1>10. CASE \/ a > 128 /\ tlvs = <<Src(a - 128)>> /\ i = x - 128
              \/ a <= 127 /\ b > 128 /\ tlvs = <<Src(a), Dst(b - 128)>> /\ i = x + y - 128
    <2>1. At(wire, pos) = IdOctet /\ (a > 127 \/ b > 127)
      <3> HIDE DEF x, y
      <3>1. CASE a > 128 /\ i = x - 128
        <4>1. pos = HeaderSize + 1 + (x - 128)
          BY <1>1, <3>1 DEF HeaderSize
        <4> QED BY <1>7, <3>1, <4>1
      <3>2. CASE b > 128 /\ i = x + y - 128
        <4>1. pos = HeaderSize + x + 1 + (y - 128)
          BY <1>1, <3>2 DEF HeaderSize
        <4> QED BY <1>7, <3>2, <4>1
      <3> QED BY <1>10, <3>1, <3>2
    <2>2. s = TlvError
      BY <2>1, UnpackAstray
    <2>3. s.ret < 0
      BY <2>2 DEF TlvError
    <2> QED BY <1>5, <2>1, <2>3
  <1> QED BY <1>4, <1>8, <1>9, <1>10

\* The invariant is kept by every step of pack_mih_message and unpack_mih_message.
LEMMA NextIInv == IInv /\ [Next]_vars => IInv'
  <1> SUFFICES ASSUME IInv, [Next]_vars
               PROVE  IInv'
    OBVIOUS
  <1>1. CASE Send
    <2>1. pc = "compose" /\ pc' = "wire" /\ UNCHANGED <<header, i, tlvs>>
      BY <1>1 DEF Send
    <2>2. header = << >> /\ i = 0 /\ tlvs = << >>
      BY <2>1 DEF IInv, Init
    <2>3. PICK h \in Header, src \in IdLength, dst \in IdLength :
                 pack_mih_message(h, Ids(src, dst))
      BY <1>1, Zenon DEF Send, Ids
    <2>4. src \in Nat /\ dst \in Nat
      BY IdLengthAssumption
    <2>5. Sent(src, dst)'
      BY <2>3, <2>4, PackedMessage, Zenon
    <2>6. Receiving(src, dst)'
      BY <2>1, <2>2 DEF Receiving
    <2> QED BY <2>1, <2>4, <2>5, <2>6 DEF IInv
  <1>2. CASE pc # "compose" /\ [Next]_vars /\ ~Send
    <2>1. PICK a \in Nat, b \in Nat : Sent(a, b) /\ Receiving(a, b)
      BY <1>2 DEF IInv, Init
    <2>2. pc \in {"wire", "unpack", "accepted", "rejected"} /\ UNCHANGED <<message, wire>>
      BY <1>2 DEF IInv, Init, Next, UnpackHeader, UnpackDone, UnpackTlv, vars
    <2>3. Sent(a, b)'
      BY <2>1, <2>2, SentKeeps
    <2>4. SUFFICES Receiving(a, b)' /\ pc' \in {"wire", "unpack", "accepted", "rejected"}
      BY <2>3 DEF IInv
    <2>5. message'.header = message.header /\ message'.tlvs = message.tlvs
      BY <2>2
    <2>6. CASE UnpackHeader
      <3>1. /\ unpack_mih_header(wire) = message.header
            /\ Len(wire) = message.header.payloadlength + HeaderSize
            /\ ~(Len(wire) < HeaderSize)
        <4> DEFINE x == Len(Encoded(SRC_MIHF_ID_TLV, a))
                   y == Len(Encoded(DST_MIHF_ID_TLV, b))
        <4>1. /\ unpack_mih_header(wire) = message.header
              /\ Len(wire) = HeaderSize + x + y /\ x \in Nat /\ y \in Nat
          BY <2>1, WireParts
        <4>2. message.header.payloadlength = x + y
          BY <2>1 DEF Sent
        <4> HIDE DEF x, y
        <4> QED BY <4>1, <4>2 DEF HeaderSize
      <3>2. /\ pc = "wire" /\ pc' = "unpack" /\ header' = message.header
            /\ UNCHANGED <<i, tlvs>>
        BY <2>6, <3>1, Zenon DEF UnpackHeader
      <3>3. i = 0 /\ tlvs = << >>
        BY <2>1, <3>2 DEF Receiving
      <3>4. Standing(a, b)'
        BY <3>2, <3>3 DEF Standing
      <3> QED BY <2>5, <3>2, <3>3, <3>4 DEF Receiving
    <2>7. CASE UnpackDone
      <3>1. /\ pc = "unpack" /\ i >= header.payloadlength /\ pc' = "accepted"
            /\ UNCHANGED <<header, i, tlvs>>
        BY <2>7 DEF UnpackDone
      <3>2. header = message.header /\ i \in Nat /\ Standing(a, b)
        BY <2>1, <3>1 DEF Receiving
      <3>3. tlvs = message.tlvs
        <4> DEFINE x == Len(Encoded(SRC_MIHF_ID_TLV, a))
                   y == Len(Encoded(DST_MIHF_ID_TLV, b))
        <4>1. /\ x \in Nat /\ x >= 3 /\ y \in Nat /\ y >= 3
          BY <2>1, WireParts
        <4>2. i >= x + y /\ message.tlvs = Ids(a, b)
          BY <2>1, <3>1, <3>2 DEF Sent
        <4>3. i = 0 \/ i = x \/ i = x - 128 \/ i = x + y - 128 \/ tlvs = Ids(a, b)
          BY <3>2 DEF Standing, Ids
        <4> HIDE DEF x, y
        <4> QED BY <4>1, <4>2, <4>3
      <3> QED BY <2>5, <3>1, <3>2, <3>3 DEF Receiving
    <2>8. CASE UnpackTlv
      <3>1. /\ header' = header /\ pc = "unpack"
        BY <2>8 DEF UnpackTlv
      <3>2. header = message.header /\ i \in Nat
        BY <2>1, <3>1 DEF Receiving
      <3>3. \/ pc' = "unpack" /\ Standing(a, b)' /\ i' \in Nat
            \/ pc' = "rejected" /\ tlvs' = << >> /\ i' = i /\ (a > 127 \/ b > 127)
        BY <2>1, <2>8, Iteration
      <3> QED BY <2>5, <3>1, <3>2, <3>3 DEF Receiving
    <2>9. CASE UNCHANGED vars
      <3>1. UNCHANGED <<pc, message, header, i, tlvs>>
        BY <2>9 DEF vars
      <3>2. Receiving(a, b)'
        BY <2>1, <3>1, Zenon DEF Receiving, Standing
      <3> QED BY <2>2, <3>1, <3>2
    <2> QED BY <1>2, <2>6, <2>7, <2>8, <2>9 DEF Next
  <1>3. CASE pc = "compose" /\ ~Send
    <2>1. UNCHANGED vars
      BY <1>3 DEF Next, UnpackHeader, UnpackDone, UnpackTlv
    <2>2. Init
      BY <1>3 DEF IInv
    <2> QED BY <2>1, <2>2 DEF IInv, Init, vars
  <1> QED BY <1>1, <1>2, <1>3

\* IInv is an invariant of the life of a message.
THEOREM Invariance == Spec => []IInv
  <1>1. Init => IInv
    BY DEF IInv
  <1> QED BY <1>1, NextIInv, PTL DEF Spec

-----------------------------------------------------------------------------
(* Theorems                                                                *)

\* The TLVs that the receiver can hold are MIHF ids.
LEMMA IdTypes ==
  ASSUME NEW list, NEW m, NEW n,
         \/ list = << >>
         \/ list = <<Tlv(SRC_MIHF_ID_TLV, m)>>
         \/ list = <<Tlv(SRC_MIHF_ID_TLV, m), Tlv(DST_MIHF_ID_TLV, n)>>
  PROVE  \A k \in 1..Len(list) : list[k].type \in MihfIdTlv
  <1>1. CASE list = << >>
    BY <1>1
  <1>2. CASE list = <<Tlv(SRC_MIHF_ID_TLV, m)>>
    BY <1>2 DEF Tlv, MihfIdTlv
  <1>3. CASE list = <<Tlv(SRC_MIHF_ID_TLV, m), Tlv(DST_MIHF_ID_TLV, n)>>
    BY <1>3 DEF Tlv, MihfIdTlv
  <1> QED BY <1>1, <1>2, <1>3

\* Every message consists of octets, and every TLV that is read is a MIHF id.
THEOREM TypeCorrect == Spec => []TypeOK
  <1>1. IInv => TypeOK
    <2>1. ASSUME Init
          PROVE  TypeOK
      BY <2>1 DEF Init, TypeOK
    <2>2. ASSUME pc \in {"wire", "unpack", "accepted", "rejected"},
                 NEW a \in Nat, NEW b \in Nat, Sent(a, b), Receiving(a, b)
          PROVE  TypeOK
      <3>1. wire \in Seq(Octet)
        BY <2>2, WireParts
      <3>2. header = << >> \/ header \in mih_header_t
        BY <2>2 DEF Receiving, Sent
      <3>3. \E m, n :
              \/ tlvs = << >>
              \/ tlvs = <<Tlv(SRC_MIHF_ID_TLV, m)>>
              \/ tlvs = <<Tlv(SRC_MIHF_ID_TLV, m), Tlv(DST_MIHF_ID_TLV, n)>>
        <4>1. CASE pc \in {"wire", "rejected"}
          BY <2>2, <4>1 DEF Receiving
        <4>2. CASE pc = "accepted"
          BY <2>2, <4>2, Zenon DEF Receiving, Sent, Ids
        <4>3. CASE pc = "unpack"
          BY <2>2, <4>3, Zenon DEF Receiving, Standing
        <4> QED BY <2>2, <4>1, <4>2, <4>3
      <3>4. \A k \in 1..Len(tlvs) : tlvs[k].type \in MihfIdTlv
        BY <3>3, IdTypes, Zenon
      <3>5. i \in Nat
        BY <2>2 DEF Receiving
      <3>6. \A k \in 1..Len(wire) : wire[k] \in Octet
        BY <3>1
      <3> QED BY <2>2, <3>2, <3>4, <3>5, <3>6 DEF TypeOK
    <2> QED BY <2>1, <2>2 DEF IInv
  <1> QED BY <1>1, Invariance, PTL

\* A message that unpack_mih_message accepts is the one that was sent, for any
\* header, any two ids and any size of the buffers.
THEOREM AcceptedAsSent == Spec => []AcceptedIsSent
  <1>1. IInv => AcceptedIsSent
    BY DEF IInv, Init, Receiving, AcceptedIsSent
  <1> QED BY <1>1, Invariance, PTL

\* The lengths of the ids that were sent.
LEMMA IdsFacts ==
  ASSUME NEW a \in Nat, NEW b \in Nat
  PROVE  /\ Ids(a, b)[1] = Tlv(SRC_MIHF_ID_TLV, a) /\ Ids(a, b)[2] = Tlv(DST_MIHF_ID_TLV, b)
         /\ Len(Ids(a, b)[1].value) = a /\ Len(Ids(a, b)[2].value) = b
  BY DEF Ids, Tlv, MihfId

\* unpack_mih_message refuses a message only if one of its ids has more than 127
\* octets.
THEOREM ShortIdsPass == Spec => []ShortIdsAccepted
  <1>1. IInv => ShortIdsAccepted
    <2> SUFFICES ASSUME IInv, pc = "rejected"
                 PROVE  \E k \in 1..2 : Len(message.tlvs[k].value) > 127
      BY DEF ShortIdsAccepted
    <2>1. PICK a \in Nat, b \in Nat : Sent(a, b) /\ Receiving(a, b)
      BY DEF IInv, Init
    <2>2. message.tlvs = Ids(a, b) /\ (a > 127 \/ b > 127)
      BY <2>1 DEF Sent, Receiving
    <2>3. Len(message.tlvs[1].value) = a /\ Len(message.tlvs[2].value) = b
      BY <2>2, IdsFacts
    <2> QED BY <2>2, <2>3
  <1> QED BY <1>1, Invariance, PTL

\* Where the sender ended its TLVs is where the TLVs end that pack_mih_tlv writes.
LEMMA Boundaries ==
  ASSUME NEW a \in Nat, NEW b \in Nat, Sent(a, b)
  PROVE  LET x == Len(Encoded(SRC_MIHF_ID_TLV, a))
             y == Len(Encoded(DST_MIHF_ID_TLV, b))
         IN  Boundary(0) = 0 /\ Boundary(1) = x /\ Boundary(2) = x + y
  <1> DEFINE x == Len(Encoded(SRC_MIHF_ID_TLV, a))
             y == Len(Encoded(DST_MIHF_ID_TLV, b))
  <1>1. /\ message.tlvs[1] = Tlv(SRC_MIHF_ID_TLV, a) /\ message.tlvs[2] = Tlv(DST_MIHF_ID_TLV, b)
        /\ StringSize(a) <= BUFFER_SIZE /\ StringSize(b) <= BUFFER_SIZE
        /\ x + y <= BUFFER_SIZE
    <2>1. message.tlvs = Ids(a, b)
      BY DEF Sent
    <2>2. /\ message.tlvs[1] = Tlv(SRC_MIHF_ID_TLV, a)
          /\ message.tlvs[2] = Tlv(DST_MIHF_ID_TLV, b)
      BY <2>1, IdsFacts
    <2> QED BY <2>2 DEF Sent
  <1>2. x \in Nat /\ y \in Nat
    BY WireParts
  <1>3. x <= BUFFER_SIZE /\ y <= BUFFER_SIZE /\ BUFFER_SIZE \in Int
    <2> HIDE DEF x, y
    <2> QED BY <1>1, <1>2, BufferAssumption
  <1>4. SRC_MIHF_ID_TLV \in MihfIdTlv /\ DST_MIHF_ID_TLV \in MihfIdTlv
    BY DEF MihfIdTlv
  <1>5. /\ pack_mih_tlv(Tlv(SRC_MIHF_ID_TLV, a), BUFFER_SIZE).ret = x
        /\ pack_mih_tlv(Tlv(DST_MIHF_ID_TLV, b), BUFFER_SIZE).ret = y
    BY <1>1, <1>3, <1>4, PackTlv DEF Packed
  <1> QED BY <1>1, <1>5 DEF Boundary

\* The first TLVs of two.
LEMMA PrefixOfTwo ==
  ASSUME NEW u, NEW t
  PROVE  /\ Len(<<u>>) = 1 /\ SubSeq(<<u, t>>, 1, 1) = <<u>>
         /\ Len(<<u, t>>) = 2 /\ SubSeq(<<u, t>>, 1, 2) = <<u, t>>
  <1> DEFINE p == <<u>>
             r == <<u, t>>
             T == {u, t}
  <1>1. p \in Seq(T) /\ Len(p) = 1 /\ p[1] = u
    OBVIOUS
  <1>2. r \in Seq(T) /\ Len(r) = 2 /\ r[1] = u /\ r[2] = t
    OBVIOUS
  <1> HIDE DEF p, r, T
  <1>3. ASSUME NEW n \in 1..2
        PROVE  /\ SubSeq(r, 1, n) \in Seq(T) /\ Len(SubSeq(r, 1, n)) = n
               /\ \A k \in 1..n : SubSeq(r, 1, n)[k] = r[k]
    BY <1>2
  <1>4. SubSeq(r, 1, 1) = p
    <2> DEFINE q == SubSeq(r, 1, 1)
    <2>1. q \in Seq(T) /\ Len(q) = 1 /\ q[1] = u
      BY <1>2, <1>3
    <2> HIDE DEF q
    <2>2. q = p
      BY <1>1, <2>1
    <2> QED BY <2>2 DEF q
  <1>5. SubSeq(r, 1, 2) = r
    <2> DEFINE q == SubSeq(r, 1, 2)
    <2>1. q \in Seq(T) /\ Len(q) = 2 /\ q[1] = u /\ q[2] = t
      BY <1>2, <1>3
    <2> HIDE DEF q
    <2>2. q = r
      BY <1>2, <2>1
    <2> QED BY <2>2 DEF q
  <1> QED BY <1>1, <1>2, <1>4, <1>5, Zenon DEF p, r

\* The loop of unpack_mih_message keeps in step with that of pack_mih_message,
\* for any two ids, until it meets one of more than 127 octets.
THEOREM KeepsStep == Spec => []InStep
  <1>1. IInv => InStep
    <2> SUFFICES ASSUME IInv, pc = "unpack"
                 PROVE  /\ i + HeaderSize <= Len(wire)
                        /\ Len(tlvs) <= 2
                        /\ (\A k \in 1..Len(tlvs) : Len(message.tlvs[k].value) <= 127) =>
                             /\ i = Boundary(Len(tlvs))
                             /\ tlvs = SubSeq(message.tlvs, 1, Len(tlvs))
      BY DEF InStep
    <2>1. PICK a \in Nat, b \in Nat : Sent(a, b) /\ Receiving(a, b)
      BY DEF IInv, Init
    <2> DEFINE x == Len(Encoded(SRC_MIHF_ID_TLV, a))
               y == Len(Encoded(DST_MIHF_ID_TLV, b))
               Src(n) == Tlv(SRC_MIHF_ID_TLV, n)
               Dst(n) == Tlv(DST_MIHF_ID_TLV, n)
    <2>2. /\ Len(wire) = HeaderSize + x + y
          /\ x \in Nat /\ x >= 3 /\ y \in Nat /\ y >= 3
      BY <2>1, WireParts
    <2>3. /\ message.tlvs = <<Src(a), Dst(b)>>
          /\ Len(message.tlvs[1].value) = a /\ Len(message.tlvs[2].value) = b
      <3>1. message.tlvs = Ids(a, b)
        BY <2>1 DEF Sent
      <3> QED BY <3>1, IdsFacts DEF Ids
    <2>4. Boundary(0) = 0 /\ Boundary(1) = x /\ Boundary(2) = x + y
      BY <2>1, Boundaries
    <2>5. \/ tlvs = << >> /\ i = 0
          \/ a <= 127 /\ tlvs = <<Src(a)>> /\ i = x
          \/ a <= 127 /\ b <= 127 /\ tlvs = <<Src(a), Dst(b)>> /\ i = x + y
          \/ a > 128 /\ tlvs = <<Src(a - 128)>> /\ i = x - 128
          \/ a <= 127 /\ b > 128 /\ tlvs = <<Src(a), Dst(b - 128)>> /\ i = x + y - 128
      BY <2>1 DEF Receiving, Standing
    <2> HIDE DEF x, y, Src, Dst
    <2>6. i + HeaderSize <= Len(wire)
      <3>1. i <= x + y /\ i \in Int
        BY <2>2, <2>5
      <3> QED BY <2>2, <3>1 DEF HeaderSize
    <2>7. CASE tlvs = << >> /\ i = 0
      <3>1. Len(tlvs) = 0 /\ SubSeq(message.tlvs, 1, 0) = << >>
        BY <2>3, <2>7
      <3> QED BY <2>4, <2>6, <2>7, <3>1
    <2>8. CASE tlvs = <<Src(a)>> /\ i = x
      <3>1. Len(tlvs) = 1 /\ SubSeq(message.tlvs, 1, 1) = <<Src(a)>>
        BY <2>3, <2>8, PrefixOfTwo, Zenon
      <3>2. i = Boundary(Len(tlvs)) /\ tlvs = SubSeq(message.tlvs, 1, Len(tlvs))
        BY <2>4, <2>8, <3>1, Zenon
      <3>3. Len(tlvs) <= 2
        BY <3>1
      <3> QED BY <2>6, <3>2, <3>3, Zenon
    <2>9. CASE tlvs = <<Src(a), Dst(b)>> /\ i = x + y
      <3>1. Len(tlvs) = 2 /\ SubSeq(message.tlvs, 1, 2) = <<Src(a), Dst(b)>>
        BY <2>3, <2>9, PrefixOfTwo, Zenon
      <3>2. i = Boundary(Len(tlvs)) /\ tlvs = SubSeq(message.tlvs, 1, Len(tlvs))
        BY <2>4, <2>9, <3>1, Zenon
      <3>3. Len(tlvs) <= 2
        BY <3>1
      <3> QED BY <2>6, <3>2, <3>3, Zenon
    <2>10. CASE a > 128 /\ tlvs = <<Src(a - 128)>>
      <3>1. Len(tlvs) = 1
        BY <2>10
      <3>2. ~(\A k \in 1..Len(tlvs) : Len(message.tlvs[k].value) <= 127)
        BY <2>3, <2>10, <3>1
      <3> QED BY <2>6, <3>1, <3>2
    <2>11. CASE b > 128 /\ tlvs = <<Src(a), Dst(b - 128)>>
      <3>1. Len(tlvs) = 2
        BY <2>11
      <3>2. ~(\A k \in 1..Len(tlvs) : Len(message.tlvs[k].value) <= 127)
        BY <2>3, <2>11, <3>1
      <3> QED BY <2>6, <3>1, <3>2
    <2> QED BY <2>5, <2>7, <2>8, <2>9, <2>10, <2>11
  <1> QED BY <1>1, Invariance, PTL

\* Every iteration of the loop of unpack_mih_message that does not leave it consumes
\* at least three octets and yields one TLV.
THEOREM Progress == Spec => UnpackProgress
  <1>1. IInv /\ [Next]_vars =>
          [pc = "unpack" /\ pc' = "unpack" => i' >= i + 3 /\ Len(tlvs') = Len(tlvs) + 1]_vars
    <2> SUFFICES ASSUME IInv, Next, pc = "unpack", pc' = "unpack"
                 PROVE  i' >= i + 3 /\ Len(tlvs') = Len(tlvs) + 1
      BY DEF vars
    <2>1. UnpackTlv
      BY DEF Next, Send, UnpackHeader, UnpackDone
    <2>2. PICK a \in Nat, b \in Nat : Sent(a, b) /\ Receiving(a, b)
      BY DEF IInv, Init
    <2> QED BY <2>1, <2>2, Iteration
  <1> QED BY <1>1, Invariance, PTL DEF Spec, UnpackProgress
=============================================================================
