---------------------------- MODULE CodecProofs ----------------------------
(***************************************************************************)
(* Theorems about the byte formats of Codec, for strings of any length     *)
(* the code accepts.                                                       *)
(***************************************************************************)
EXTENDS Codec, SequenceTheorems, WellFoundedInduction, TLAPS

\* Strings of bytes; what matters of a byte is that it is a number.
String == Seq(Nat)

\* Numbers that two and four bytes hold.
Fits16(n) == n \in Nat /\ n < 65536
Fits32(n) == n \in Nat /\ n \div 65536 < 65536

\* The string b stands in p at offset o.
At(p, o, b) == o + Len(b) <= Len(p) /\ \A i \in 1 .. Len(b) : p[o + i] = b[i]

-----------------------------------------------------------------------------
\* Where the parts of a concatenation stand.

LEMMA ConcatType == ASSUME NEW a \in String, NEW b \in String
                    PROVE  a \o b \in String /\ Len(a \o b) = Len(a) + Len(b)
  BY DEF String

LEMMA ConcatAssoc ==
    ASSUME NEW a \in String, NEW b \in String, NEW c \in String
    PROVE  (a \o b) \o c = a \o (b \o c)
  <1>1. a \o b \in String /\ b \o c \in String /\ (a \o b) \o c \in String /\ a \o (b \o c) \in String
    BY ConcatType
  <1>2. Len(a) \in Nat /\ Len(b) \in Nat /\ Len(c) \in Nat
    BY DEF String
  <1>3. Len((a \o b) \o c) = Len(a) + Len(b) + Len(c) /\ Len(a \o (b \o c)) = Len(a) + Len(b) + Len(c)
    <2>1. /\ Len((a \o b) \o c) = Len(a \o b) + Len(c) /\ Len(a \o b) = Len(a) + Len(b)
          /\ Len(a \o (b \o c)) = Len(a) + Len(b \o c) /\ Len(b \o c) = Len(b) + Len(c)
      BY <1>1, ConcatType
    <2> QED
      BY <1>2, <2>1
  <1>4. \A i \in 1 .. Len(a) + Len(b) + Len(c) : ((a \o b) \o c)[i] = (a \o (b \o c))[i]
    BY <1>1, <1>2 DEF String
  <1> QED
    BY <1>1, <1>3, <1>4, SeqEqual DEF String

LEMMA LenIsNat == ASSUME NEW a \in String PROVE Len(a) \in Nat
  BY DEF String

LEMMA AtWhole == ASSUME NEW a \in String PROVE At(a, 0, a)
  BY DEF At, String

LEMMA AtLeft ==
    ASSUME NEW a \in String, NEW b \in String, NEW x \in String, NEW o \in Nat, At(a, o, x)
    PROVE  At(a \o b, o, x)
  BY DEF At, String

LEMMA AtRight ==
    ASSUME NEW a \in String, NEW b \in String, NEW x \in String, NEW o \in Nat, At(b, o, x)
    PROVE  At(a \o b, Len(a) + o, x)
  BY DEF At, String

LEMMA AtOwn ==
    ASSUME NEW a \in String, NEW b \in String
    PROVE  At(a \o b, 0, a) /\ At(a \o b, Len(a), b)
  BY DEF At, String

\* What stands in a string that stands in p stands in p.
LEMMA AtInside ==
    ASSUME NEW p \in String, NEW a \in String, NEW x \in String, NEW o \in Nat, NEW q \in Nat,
           At(p, q, a), At(a, o, x)
    PROVE  At(p, q + o, x)
  <1>1. Len(p) \in Nat /\ Len(a) \in Nat /\ Len(x) \in Nat
    BY LenIsNat
  <1>2. q + Len(a) <= Len(p) /\ o + Len(x) <= Len(a)
    BY DEF At
  <1>3. ASSUME NEW i \in 1 .. Len(x) PROVE p[(q + o) + i] = x[i]
    <2>1. o + i \in 1 .. Len(a) /\ q + (o + i) = (q + o) + i
      BY <1>1, <1>2
    <2>2. p[q + (o + i)] = a[o + i] /\ a[o + i] = x[i]
      BY <2>1 DEF At
    <2> QED
      BY <2>1, <2>2
  <1>4. (q + o) + Len(x) <= Len(p)
    BY <1>1, <1>2
  <1> QED
    BY <1>3, <1>4 DEF At

\* A string cut after x still has it.
LEMMA AtCut ==
    ASSUME NEW p \in String, NEW x \in String, NEW o \in Nat, NEW k \in Nat,
           At(p, o, x), o + Len(x) <= k, k <= Len(p)
    PROVE  At(SubSeq(p, 1, k), o, x)
  <1>1. Len(p) \in Nat /\ Len(x) \in Nat
    BY LenIsNat
  <1>2. Len(SubSeq(p, 1, k)) = k /\ \A i \in 1 .. k : SubSeq(p, 1, k)[i] = p[i]
    BY <1>1 DEF String
  <1>3. ASSUME NEW i \in 1 .. Len(x) PROVE SubSeq(p, 1, k)[o + i] = x[i]
    <2>1. o + i \in 1 .. k
      BY <1>1
    <2> QED
      BY <1>2, <2>1 DEF At
  <1> QED
    BY <1>2, <1>3 DEF At

\* What the readers take from where a string or a number stands.
LEMMA BytesAt ==
    ASSUME NEW p \in String, NEW x \in String, NEW o \in Nat, At(p, o, x)
    PROVE  Bytes(p, o, Len(x)) = x
  <1> DEFINE n == Len(x)
             b == SubSeq(p, o + 1, o + n)
  <1>1. n \in Nat /\ Len(p) \in Nat /\ o + n <= Len(p) /\ \A i \in 1 .. Len(p) : p[i] \in Nat
    BY LenIsNat DEF At, String
  <1>2. \A i \in 1 .. n : p[o + i] = x[i]
    BY DEF At
  <1> HIDE DEF n
  <1>3. \A i \in o + 1 .. o + n : p[i] \in Nat
    BY <1>1
  <1>4. /\ b \in Seq(Nat)
        /\ Len(b) = IF o + 1 <= o + n THEN (o + n) - (o + 1) + 1 ELSE 0
        /\ \A i \in 1 .. (o + n) - (o + 1) + 1 : b[i] = p[(o + 1) + i - 1]
    <2>1. o + 1 \in Int /\ o + n \in Int
      BY <1>1
    <2> QED
      BY <1>3, <2>1, SubSeqProperties
  <1> HIDE DEF b
  <1>5. Len(b) = n
    BY <1>1, <1>4
  <1>6. ASSUME NEW i \in 1 .. n PROVE b[i] = x[i]
    <2>1. i \in 1 .. (o + n) - (o + 1) + 1 /\ (o + 1) + i - 1 = o + i
      BY <1>1
    <2> QED
      BY <1>2, <1>4, <2>1
  <1>7. b = x
    BY <1>4, <1>5, <1>6, SeqEqual DEF n, String
  <1> QED
    BY <1>7 DEF b, n, Bytes

LEMMA PutUint16Type ==
    ASSUME NEW n \in Nat PROVE PutUint16(n) \in String /\ Len(PutUint16(n)) = 2
  BY DEF PutUint16, String

LEMMA Uint16At ==
    ASSUME NEW p \in String, NEW n, Fits16(n), NEW o \in Nat, At(p, o, PutUint16(n))
    PROVE  Uint16(p, o) = n
  <1>1. p[o + 1] = (n \div 256) % 256 /\ p[o + 2] = n % 256
    BY PutUint16Type, SMT DEF At, PutUint16, Fits16
  <1>2. (((n \div 256) % 256) * 256) + (n % 256) = n
    BY SMT DEF Fits16
  <1> QED
    BY <1>1, <1>2, SMT DEF Uint16

LEMMA PutUint32Type ==
    ASSUME NEW n \in Nat PROVE PutUint32(n) \in String /\ Len(PutUint32(n)) = 4
  <1> DEFINE a == n \div 65536
             b == n % 65536
  <1>1. a \in Nat /\ b \in Nat
    BY SMT
  <1>2. PutUint32(n) = PutUint16(a) \o PutUint16(b)
    BY SMT DEF PutUint32
  <1> HIDE DEF a, b
  <1>3. /\ PutUint16(a) \o PutUint16(b) \in String
        /\ Len(PutUint16(a) \o PutUint16(b)) = Len(PutUint16(a)) + Len(PutUint16(b))
    BY <1>1, PutUint16Type, ConcatType
  <1>4. Len(PutUint16(a)) = 2 /\ Len(PutUint16(b)) = 2
    BY <1>1, PutUint16Type
  <1> QED
    BY <1>2, <1>3, <1>4

LEMMA Uint32At ==
    ASSUME NEW p \in String, NEW n, Fits32(n), NEW o \in Nat, At(p, o, PutUint32(n))
    PROVE  Uint32(p, o) = n
  <1> DEFINE a == PutUint16(n \div 65536)
             b == PutUint16(n % 65536)
  <1>1. Fits16(n \div 65536) /\ Fits16(n % 65536) /\ n \div 65536 \in Nat /\ n % 65536 \in Nat
    BY SMT DEF Fits16, Fits32
  <1>2. a \in String /\ b \in String /\ Len(a) = 2 /\ a \o b \in String
    BY <1>1, PutUint16Type, ConcatType, SMT
  <1>3. At(p, o, a \o b)
    BY SMT DEF PutUint32
  <1> HIDE DEF a, b
  <1>4. At(p, o, a) /\ At(p, o + 2, b)
    <2>1. At(a \o b, 0, a) /\ At(a \o b, 2, b)
      BY <1>2, AtOwn
    <2>2. At(p, o + 0, a) /\ At(p, o + 2, b)
      BY <1>2, <1>3, <2>1, AtInside
    <2> QED
      BY <2>2
  <1>5. Uint16(p, o) = n \div 65536 /\ Uint16(p, o + 2) = n % 65536
    BY <1>1, <1>4, Uint16At, SMT DEF a, b
  <1>6. ((n \div 65536) * 65536) + (n % 65536) = n
    BY SMT DEF Fits32
  <1> QED
    BY <1>5, <1>6, SMT DEF Uint32

LEMMA Str16Facts ==
    ASSUME NEW s \in String
    PROVE  /\ Str16(s) \in String /\ Len(Str16(s)) = 2 + Len(s)
           /\ At(Str16(s), 0, PutUint16(Len(s))) /\ At(Str16(s), 2, s)
  BY LenIsNat, PutUint16Type, ConcatType, AtOwn DEF Str16

-----------------------------------------------------------------------------
\* The binary messages of forward/mux.go

Message == [type : DOMAIN TypeCode, id : String, data : String]

LEMMA OkFields ==
    ASSUME NEW m \in Message
    PROVE  Ok(m).res = "ok" /\ Ok(m).type = m.type /\ Ok(m).id = m.id /\ Ok(m).data = m.data
  BY DEF Ok, Message

LEMMA OkBytes == ASSUME NEW b PROVE Ok([bytes |-> b]).bytes = b /\ Ok([bytes |-> b]).res = "ok"
  BY DEF Ok

LEMMA MessageFields ==
    ASSUME NEW m \in Message
    PROVE  /\ m.type \in DOMAIN TypeCode /\ m.id \in String /\ m.data \in String
           /\ m = [type |-> m.type, id |-> m.id, data |-> m.data]
  BY DEF Message

\* A type code stands for one type.
LEMMA TypeCodes ==
    ASSUME NEW t \in DOMAIN TypeCode
    PROVE  TypeCode[t] \in Nat /\ {u \in DOMAIN TypeCode : TypeCode[u] = TypeCode[t]} = {t}
  BY DEF TypeCode

\* The parts of an encoded message.
LEMMA BinaryParts ==
    ASSUME NEW m \in Message, BinaryEncode(m) # Err
    PROVE  LET b == BinaryEncode(m).bytes
           IN  /\ b \in String /\ Len(b) = 7 + Len(m.id) + Len(m.data)
               /\ b[1] = TypeCode[m.type]
               /\ At(b, 1, PutUint16(Len(m.id))) /\ At(b, 3, m.id)
               /\ At(b, 3 + Len(m.id), PutUint32(Len(m.data)))
               /\ At(b, 7 + Len(m.id), m.data)
               /\ Fits16(Len(m.id)) /\ Fits32(Len(m.data))
  <1> DEFINE t == <<TypeCode[m.type]>>
             i == Str16(m.id)
             n == PutUint32(Len(m.data))
  <1>1. /\ t \in String /\ Len(t) = 1 /\ t[1] = TypeCode[m.type]
        /\ m.id \in String /\ m.data \in String /\ Len(m.id) \in Nat /\ Len(m.data) \in Nat
    BY MessageFields, TypeCodes, LenIsNat DEF String
  <1>2. i \in String /\ Len(i) = 2 + Len(m.id) /\ n \in String /\ Len(n) = 4
    BY <1>1, Str16Facts, PutUint32Type
  <1>3. At(i, 0, PutUint16(Len(m.id))) /\ At(i, 2, m.id) /\ PutUint16(Len(m.id)) \in String
    BY <1>1, Str16Facts, PutUint16Type
  <1>4. ~ (Len(m.id) > 65535) /\ ~ (Len(m.data) - 1 > 2147483647)
    BY SMT DEF BinaryEncode
  <1>5. Fits16(Len(m.id)) /\ Fits32(Len(m.data))
    <2>1. ASSUME NEW k \in Nat, ~ (k - 1 > 2147483647) PROVE Fits32(k)
      BY <2>1, SMT DEF Fits32
    <2>2. Fits32(Len(m.data))
      BY <1>1, <1>4, <2>1, SMT
    <2>3. Fits16(Len(m.id))
      BY <1>1, <1>4, SMT DEF Fits16
    <2> QED
      BY <2>2, <2>3
  <1>6. BinaryEncode(m) = Ok([bytes |-> t \o i \o n \o m.data])
    BY <1>4, SMT DEF BinaryEncode
  <1>7. BinaryEncode(m).bytes = t \o i \o n \o m.data
    BY <1>6, OkBytes
  <1> HIDE DEF t, i, n
  <1>8. t \o i \in String /\ t \o i \o n \in String /\ t \o i \o n \o m.data \in String
    BY <1>1, <1>2, ConcatType
  <1>9. Len(t \o i) = 3 + Len(m.id) /\ Len(t \o i \o n) = 7 + Len(m.id)
    <2>1. Len(t \o i) = Len(t) + Len(i) /\ Len(t \o i \o n) = Len(t \o i) + Len(n)
      BY <1>1, <1>2, <1>8, ConcatType
    <2> QED
      BY <1>1, <1>2, <2>1
  <1>10. Len(t \o i \o n \o m.data) = 7 + Len(m.id) + Len(m.data)
    <2>1. Len(t \o i \o n \o m.data) = Len(t \o i \o n) + Len(m.data)
      BY <1>1, <1>2, <1>8, ConcatType
    <2> QED
      BY <1>1, <1>9, <2>1
  <1>11. At(t \o i, 1, PutUint16(Len(m.id))) /\ At(t \o i, 3, m.id) /\ At(t \o i, 0, t)
    <2>1. At(t \o i, 1 + 0, PutUint16(Len(m.id))) /\ At(t \o i, 1 + 2, m.id)
      BY <1>1, <1>2, <1>3, AtRight
    <2> QED
      BY <1>1, <1>2, <2>1, AtOwn
  <1>12. /\ At(t \o i \o n, 1, PutUint16(Len(m.id))) /\ At(t \o i \o n, 3, m.id)
         /\ At(t \o i \o n, 0, t) /\ At(t \o i \o n, 3 + Len(m.id), n)
    BY <1>1, <1>2, <1>3, <1>8, <1>9, <1>11, AtLeft, AtOwn
  <1> DEFINE h == t \o i \o n
             b == h \o m.data
  <1>13. /\ At(b, 1, PutUint16(Len(m.id))) /\ At(b, 3, m.id) /\ At(b, 0, t)
         /\ At(b, 3 + Len(m.id), n) /\ At(b, 7 + Len(m.id), m.data)
    <2> HIDE DEF h
    <2> USE DEF b
    <2>1. h \in String /\ Len(h) = 7 + Len(m.id) /\ 3 + Len(m.id) \in Nat
      BY <1>1, <1>8, <1>9 DEF h
    <2>2. /\ At(h, 1, PutUint16(Len(m.id))) /\ At(h, 3, m.id) /\ At(h, 0, t)
          /\ At(h, 3 + Len(m.id), n)
      BY <1>12 DEF h
    <2>3. At(b, 7 + Len(m.id), m.data)
      BY <1>1, <2>1, AtOwn
    <2> QED
      BY <1>1, <1>2, <1>3, <2>1, <2>2, <2>3, AtLeft
  <1>14. b[1] = TypeCode[m.type]
    <2> HIDE DEF b
    <2> QED
      BY <1>1, <1>13 DEF At
  <1> QED
    BY <1>5, <1>7, <1>8, <1>10, <1>13, <1>14 DEF n

\* A message is decoded to itself, whatever follows it in the buffer.
LEMMA BinaryDecodes ==
    ASSUME NEW m \in Message, BinaryEncode(m) # Err,
           NEW p \in String, At(p, 0, BinaryEncode(m).bytes)
    PROVE  BinaryDecode(p) = Ok(m)
  <1> DEFINE b == BinaryEncode(m).bytes
             il == Len(m.id)
             dl == Len(m.data)
  <1>1. /\ b \in String /\ Len(b) = 7 + il + dl /\ b[1] = TypeCode[m.type]
        /\ At(b, 1, PutUint16(il)) /\ At(b, 3, m.id)
        /\ At(b, 3 + il, PutUint32(dl)) /\ At(b, 7 + il, m.data)
        /\ Fits16(il) /\ Fits32(dl)
    BY BinaryParts
  <1>2. m.id \in String /\ m.data \in String /\ il \in Nat /\ dl \in Nat
    BY MessageFields, LenIsNat
  <1>3. PutUint16(il) \in String /\ PutUint32(dl) \in String /\ 3 + il \in Nat /\ 7 + il \in Nat
    BY <1>2, PutUint16Type, PutUint32Type
  <1> HIDE DEF b, il, dl
  <1>4. At(p, 0, b)
    BY DEF b
  <1>5. /\ At(p, 0 + 1, PutUint16(il)) /\ At(p, 0 + 3, m.id)
        /\ At(p, 0 + (3 + il), PutUint32(dl)) /\ At(p, 0 + (7 + il), m.data)
    BY <1>1, <1>2, <1>3, <1>4, AtInside
  <1>6. At(p, 1, PutUint16(il)) /\ At(p, 3, m.id) /\ At(p, 3 + il, PutUint32(dl)) /\ At(p, 7 + il, m.data)
    BY <1>2, <1>5
  <1>7. Uint16(p, 1) = il /\ Uint32(p, 3 + il) = dl /\ Bytes(p, 3, il) = m.id /\ Bytes(p, 7 + il, dl) = m.data
    BY <1>1, <1>2, <1>3, <1>6, Uint16At, Uint32At, BytesAt DEF il, dl
  <1>8. Len(p) \in Nat /\ Len(p) >= 7 + il + dl /\ p[1] = TypeCode[m.type]
    <2>1. Len(p) \in Nat /\ 0 + Len(b) <= Len(p) /\ \A i \in 1 .. Len(b) : p[0 + i] = b[i]
      BY <1>4, LenIsNat DEF At
    <2>2. 1 \in 1 .. Len(b)
      BY <1>1, <1>2
    <2>3. p[0 + 1] = b[1]
      BY <2>1, <2>2
    <2> QED
      BY <1>1, <1>2, <2>1, <2>3
  <1>9. m.type \in {t \in DOMAIN TypeCode : TypeCode[t] = p[1]}
        /\ {t \in DOMAIN TypeCode : TypeCode[t] = p[1]} = {m.type}
    BY <1>8, MessageFields, TypeCodes
  <1> DEFINE types == {t \in DOMAIN TypeCode : TypeCode[t] = p[1]}
  <1>10. (IF types = {} THEN "UNKNOWN" ELSE CHOOSE t \in types : TRUE) = m.type
    BY <1>9
  <1> HIDE DEF types
  <1>11. BinaryDecode(p) = Ok([type |-> m.type, id |-> m.id, data |-> m.data])
    <2>1. Len(p) >= 7 /\ Len(p) >= 3 + il + 4 /\ Len(p) >= 7 + il + dl
      BY <1>2, <1>8
    <2> QED
      BY <1>7, <1>10, <2>1 DEF BinaryDecode, types
  <1> QED
    BY <1>11, MessageFields

\* BinaryProtocol: what Encode accepts, Decode gives back, for every ID and payload
\* (mux.go:160-255).
THEOREM BinaryRoundTrip ==
    ASSUME NEW m \in Message, BinaryEncode(m) # Err
    PROVE  BinaryDecode(BinaryEncode(m).bytes) = Ok(m)
  BY BinaryParts, AtWhole, BinaryDecodes

\* A binary message cut anywhere is refused, never taken for a shorter one
\* (mux.go:220-247).
THEOREM BinaryCutRefused ==
    ASSUME NEW m \in Message, BinaryEncode(m) # Err,
           NEW k \in 0 .. Len(BinaryEncode(m).bytes) - 1
    PROVE  BinaryDecode(SubSeq(BinaryEncode(m).bytes, 1, k)) = Err
  <1> DEFINE b == BinaryEncode(m).bytes
             p == SubSeq(b, 1, k)
             il == Len(m.id)
             dl == Len(m.data)
  <1>1. /\ b \in String /\ Len(b) = 7 + il + dl
        /\ At(b, 1, PutUint16(il)) /\ At(b, 3 + il, PutUint32(dl))
        /\ Fits16(il) /\ Fits32(dl)
    BY BinaryParts
  <1>2. m.id \in String /\ m.data \in String /\ il \in Nat /\ dl \in Nat
    BY MessageFields, LenIsNat
  <1>3. /\ PutUint16(il) \in String /\ Len(PutUint16(il)) = 2
        /\ PutUint32(dl) \in String /\ Len(PutUint32(dl)) = 4
    BY <1>2, PutUint16Type, PutUint32Type
  <1>4. k \in 0 .. Len(b) - 1
    OBVIOUS
  <1> HIDE DEF b, il, dl
  <1>5. k \in Nat /\ k < 7 + il + dl /\ k <= Len(b)
    BY <1>1, <1>2, <1>4
  <1>6. p \in String /\ Len(p) = k
    BY <1>1, <1>5 DEF String
  <1> HIDE DEF p
  <1>7. k >= 7 => Uint16(p, 1) = il
    <2> SUFFICES ASSUME k >= 7 PROVE Uint16(p, 1) = il
      OBVIOUS
    <2>1. 1 + Len(PutUint16(il)) <= k
      BY <1>3, <1>5
    <2>2. At(p, 1, PutUint16(il))
      BY <1>1, <1>3, <1>5, <2>1, AtCut DEF p
    <2> QED
      BY <1>1, <1>6, <2>2, Uint16At
  <1>8. k >= 3 + il + 4 => Uint32(p, 3 + il) = dl
    <2> SUFFICES ASSUME k >= 3 + il + 4 PROVE Uint32(p, 3 + il) = dl
      OBVIOUS
    <2>1. 3 + il + Len(PutUint32(dl)) <= k /\ 3 + il \in Nat
      BY <1>2, <1>3, <1>5
    <2>2. At(p, 3 + il, PutUint32(dl))
      BY <1>1, <1>3, <1>5, <2>1, AtCut DEF p
    <2> QED
      BY <1>1, <1>6, <2>1, <2>2, Uint32At
  <1>9. ~ (Len(p) >= 7 /\ Len(p) >= 3 + Uint16(p, 1) + 4
             /\ Len(p) >= 7 + Uint16(p, 1) + Uint32(p, 3 + Uint16(p, 1)))
    <2> SUFFICES ASSUME k >= 7, k >= 3 + Uint16(p, 1) + 4,
                        k >= 7 + Uint16(p, 1) + Uint32(p, 3 + Uint16(p, 1))
                 PROVE  FALSE
      BY <1>6
    <2>1. Uint16(p, 1) = il
      BY <1>7
    <2>2. Uint32(p, 3 + il) = dl
      BY <1>8, <2>1
    <2>3. k >= 7 + il + dl
      BY <2>1, <2>2
    <2> QED
      BY <1>2, <1>5, <2>3
  <1>10. BinaryDecode(p) = Err
    BY <1>9 DEF BinaryDecode
  <1> QED
    BY <1>10 DEF p, b

-----------------------------------------------------------------------------
\* Induction, and functions defined by recursion on a rank.

\* A nonempty set of numbers has a least one.
LEMMA LeastNumber == ASSUME NEW T, T \subseteq Nat, T # {} PROVE \E x \in T : \A y \in T : x <= y
  <1> DEFINE R == {ss \in Nat \X Nat : ss[1] < ss[2]}
  <1>1. IsWellFoundedOn(R, Nat)
    BY NatLessThanWellFounded DEF OpToRel
  <1>2. \A x, y \in T : <<y, x>> \in R <=> y < x
    OBVIOUS
  <1> HIDE DEF R
  <1>3. PICK x \in T : \A y \in T : ~ (<<y, x>> \in R)
    BY <1>1, WFMin
  <1>4. \A y \in T : ~ (y < x)
    BY <1>2, <1>3
  <1>5. \A y \in T : x <= y
    BY <1>4
  <1> QED
    BY <1>5

\* A set that has a number whenever it has the smaller ones has them all.
LEMMA Induction ==
    ASSUME NEW S, \A n \in Nat : (\A k \in Nat : k < n => k \in S) => n \in S
    PROVE  \A n \in Nat : n \in S
  <1> DEFINE T == {n \in Nat : n \notin S}
  <1> SUFFICES ASSUME T # {} PROVE FALSE
    OBVIOUS
  <1>1. PICK x \in T : \A y \in T : x <= y
    BY LeastNumber
  <1>2. \A k \in Nat : k < x => k \in S
    BY <1>1
  <1> QED
    BY <1>2

\* f satisfies the equation of the recursion on the elements of rank below n.
Solves(f, D, rank, prev, base, step, n) ==
    \A x \in D : rank[x] < n =>
        f[x] = IF rank[x] = 0 THEN base[x] ELSE step[<<x, f[prev[x]]>>]

\* f is the function the recursion defines.
Recursion(f, D, V, rank, prev, base, step) ==
    /\ f \in [D -> V]
    /\ \A x \in D : f[x] = IF rank[x] = 0 THEN base[x] ELSE step[<<x, f[prev[x]]>>]

\* The recursion f[x] = step[x, f[prev[x]]], where prev lowers the rank, has a
\* solution.
LEMMA RecursionSolved ==
    ASSUME NEW D, NEW V, NEW rank \in [D -> Nat], NEW prev \in [D -> D],
           NEW base \in [D -> V], NEW step \in [D \X V -> V],
           \A x \in D : rank[x] # 0 => rank[prev[x]] < rank[x]
    PROVE  \E f : Recursion(f, D, V, rank, prev, base, step)
  <1> DEFINE Sol(f, n) == Solves(f, D, rank, prev, base, step, n)
             F(n) == {f \in [D -> V] : Sol(f, n)}
             S == {n \in Nat : F(n) # {}}
  <1>1. CASE D = {}
    <2> DEFINE f == [x \in D |-> IF rank[x] = 0 THEN base[x] ELSE x]
    <2>1. Recursion(f, D, V, rank, prev, base, step)
      BY <1>1 DEF Recursion
    <2> QED
      BY <2>1
  <1>2. CASE D # {}
    <2>1. base \in F(0)
      BY DEF Solves
    <2>2. ASSUME NEW n \in Nat, NEW f \in F(n)
          PROVE  [x \in D |-> IF rank[x] = 0 THEN base[x] ELSE step[<<x, f[prev[x]]>>]] \in F(n + 1)
      <3> DEFINE g == [x \in D |-> IF rank[x] = 0 THEN base[x] ELSE step[<<x, f[prev[x]]>>]]
      <3>1. f \in [D -> V] /\ Sol(f, n)
        OBVIOUS
      <3>2. g \in [D -> V]
        BY <3>1
      <3>3. ASSUME NEW x \in D, rank[x] < n + 1, rank[x] # 0 PROVE g[prev[x]] = f[prev[x]]
        <4>1. prev[x] \in D /\ rank[prev[x]] < n /\ rank[prev[x]] \in Nat
          BY <3>3
        <4> QED
          BY <3>1, <4>1 DEF Solves
      <3>4. Sol(g, n + 1)
        BY <3>3 DEF Solves
      <3> QED
        BY <3>2, <3>4
    <2>3. \A n \in Nat : (\A k \in Nat : k < n => k \in S) => n \in S
      <3> SUFFICES ASSUME NEW n \in Nat, \A k \in Nat : k < n => k \in S PROVE F(n) # {}
        OBVIOUS
      <3>1. CASE n = 0
        BY <2>1, <3>1
      <3>2. CASE n # 0
        <4>1. n - 1 \in Nat /\ n - 1 < n /\ (n - 1) + 1 = n
          BY <3>2
        <4>2. F(n - 1) # {}
          BY <4>1
        <4>3. PICK f \in F(n - 1) : TRUE
          BY <4>2
        <4> HIDE DEF F
        <4>4. F((n - 1) + 1) # {}
          BY <2>2, <4>1, <4>3
        <4> QED
          BY <4>1, <4>4
      <3> QED
        BY <3>1, <3>2
    <2> HIDE DEF S
    <2>4. \A n \in Nat : n \in S
      BY <2>3, Induction
    <2>5. \A n \in Nat : F(n) # {}
      BY <2>4 DEF S
    \* Two solutions agree where both solve.
    <2>6. ASSUME NEW n \in Nat, NEW m \in Nat, NEW f \in F(n), NEW g \in F(m)
          PROVE  \A x \in D : rank[x] < n /\ rank[x] < m => f[x] = g[x]
      <3> DEFINE A == {k \in Nat : \A x \in D : rank[x] = k /\ k < n /\ k < m => f[x] = g[x]}
      <3>1. ASSUME NEW k \in Nat, \A j \in Nat : j < k => j \in A,
                   NEW x \in D, rank[x] = k, k < n, k < m
            PROVE  f[x] = g[x]
        <4>1. CASE k = 0
          BY <3>1, <4>1 DEF Solves
        <4>2. CASE k # 0
          <5>1. prev[x] \in D /\ rank[prev[x]] \in Nat /\ rank[prev[x]] < k
            BY <3>1, <4>2
          <5>2. rank[prev[x]] \in A
            BY <3>1, <5>1
          <5>3. f[prev[x]] = g[prev[x]]
            BY <3>1, <5>1, <5>2
          <5>4. f[x] = step[<<x, f[prev[x]]>>] /\ g[x] = step[<<x, g[prev[x]]>>]
            BY <3>1, <4>2 DEF Solves
          <5> QED
            BY <5>3, <5>4
        <4> QED
          BY <4>1, <4>2
      <3>2. \A k \in Nat : (\A j \in Nat : j < k => j \in A) => k \in A
        BY <3>1
      <3> HIDE DEF A
      <3>3. \A k \in Nat : k \in A
        BY <3>2, Induction
      <3> QED
        BY <3>3 DEF A
    <2> DEFINE G(n) == CHOOSE f \in F(n) : TRUE
               H == [x \in D |-> G(rank[x] + 1)[x]]
    <2>7. \A n \in Nat : G(n) \in F(n)
      BY <2>5
    <2> HIDE DEF G
    <2>8. \A x \in D : H[x] \in V
      BY <2>7
    <2>9. ASSUME NEW x \in D
          PROVE  H[x] = IF rank[x] = 0 THEN base[x] ELSE step[<<x, H[prev[x]]>>]
      <3> DEFINE g == G(rank[x] + 1)
      <3>1. rank[x] \in Nat /\ rank[x] + 1 \in Nat /\ rank[x] < rank[x] + 1
        OBVIOUS
      <3>2. g \in F(rank[x] + 1)
        BY <2>7, <3>1
      <3>3. g[x] = IF rank[x] = 0 THEN base[x] ELSE step[<<x, g[prev[x]]>>]
        BY <3>1, <3>2 DEF Solves
      <3>4. ASSUME rank[x] # 0 PROVE H[prev[x]] = g[prev[x]]
        <4> DEFINE y == prev[x]
        <4>1. y \in D /\ rank[y] \in Nat /\ rank[y] < rank[x] /\ rank[y] + 1 \in Nat
          BY <3>4
        <4>2. H[y] = G(rank[y] + 1)[y] /\ G(rank[y] + 1) \in F(rank[y] + 1)
          BY <2>7, <4>1
        <4>3. rank[y] < rank[y] + 1 /\ rank[y] < rank[x] + 1
          BY <3>1, <4>1
        <4> HIDE DEF g, y, H, F
        <4>4. G(rank[y] + 1)[y] = g[y]
          BY <2>6, <3>1, <3>2, <4>1, <4>2, <4>3
        <4> QED
          BY <4>2, <4>4 DEF y
      <3>5. H[x] = g[x]
        OBVIOUS
      <3> QED
        BY <3>3, <3>4, <3>5
    <2>10. H \in [D -> V]
      BY <2>8
    <2>11. Recursion(H, D, V, rank, prev, base, step)
      <3> HIDE DEF H
      <3> QED
        BY <2>9, <2>10 DEF Recursion
    <2> QED
      BY <2>11
  <1> QED
    BY <1>1, <1>2

-----------------------------------------------------------------------------
\* Decimal numbers

\* What writeInt leaves, digit by digit.
LEMMA WriteIntDef ==
    /\ writeInt \in [Nat -> String]
    /\ \A n \in Nat : n < 10 => writeInt[n] = <<48 + n>>
    /\ \A n \in Nat : ~ (n < 10) => writeInt[n] = Append(writeInt[n \div 10], 48 + (n % 10))
  <1> DEFINE rank == [n \in Nat |-> IF n < 10 THEN 0 ELSE n]
             prev == [n \in Nat |-> n \div 10]
             base == [n \in Nat |-> <<48 + n>>]
             step == [x \in Nat \X String |-> Append(x[2], 48 + (x[1] % 10))]
             eq(f) == f = [n \in Nat |-> IF n < 10 THEN <<48 + n>>
                                         ELSE Append(f[n \div 10], 48 + (n % 10))]
  <1>1. \A n \in Nat : n \div 10 \in Nat /\ n % 10 \in Nat
    OBVIOUS
  <1>2. /\ rank \in [Nat -> Nat] /\ prev \in [Nat -> Nat]
        /\ base \in [Nat -> String] /\ step \in [Nat \X String -> String]
    BY <1>1 DEF String
  <1>3. \A n \in Nat : rank[n] # 0 => rank[prev[n]] < rank[n]
    OBVIOUS
  <1>4. \A n \in Nat : (rank[n] = 0 <=> n < 10) /\ prev[n] = n \div 10 /\ base[n] = <<48 + n>>
    OBVIOUS
  <1>5. \A n \in Nat, s \in String : step[<<n, s>>] = Append(s, 48 + (n % 10))
    OBVIOUS
  <1> HIDE DEF rank, prev, base, step
  <1>6. PICK f : Recursion(f, Nat, String, rank, prev, base, step)
    BY <1>2, <1>3, RecursionSolved
  <1>7. eq(f)
    <2>1. ASSUME NEW n \in Nat
          PROVE  f[n] = IF n < 10 THEN <<48 + n>> ELSE Append(f[n \div 10], 48 + (n % 10))
      <3>1. f[n] = IF rank[n] = 0 THEN base[n] ELSE step[<<n, f[prev[n]]>>]
        BY <1>6 DEF Recursion
      <3>2. f[n \div 10] \in String
        BY <1>1, <1>6 DEF Recursion
      <3> QED
        BY <1>4, <1>5, <3>1, <3>2
    <2> QED
      BY <1>6, <2>1 DEF Recursion
  <1>8. writeInt = CHOOSE g : eq(g)
    BY DEF writeInt
  <1>9. eq(writeInt)
    BY <1>7, <1>8
  <1>10. /\ \A n \in Nat : n < 10 => writeInt[n] = <<48 + n>>
         /\ \A n \in Nat : ~ (n < 10) => writeInt[n] = Append(writeInt[n \div 10], 48 + (n % 10))
    <2> DEFINE one(n) == <<48 + n>>
               more(n) == Append(writeInt[n \div 10], 48 + (n % 10))
    <2>1. writeInt = [n \in Nat |-> IF n < 10 THEN one(n) ELSE more(n)]
      BY <1>9
    <2> HIDE DEF one, more
    <2>2. \A n \in Nat : (n < 10 => writeInt[n] = one(n)) /\ (~ (n < 10) => writeInt[n] = more(n))
      BY <2>1
    <2> QED
      BY <2>2 DEF one, more
  <1> DEFINE S == {n \in Nat : writeInt[n] \in String}
  <1>11. ASSUME NEW n \in Nat, \A k \in Nat : k < n => k \in S PROVE writeInt[n] \in String
    <2>1. CASE n < 10
      <3>1. writeInt[n] = <<48 + n>>
        BY <1>10, <2>1, Zenon
      <3>2. <<48 + n>> \in Seq(Nat)
        OBVIOUS
      <3> QED
        BY <3>1, <3>2 DEF String
    <2>2. CASE ~ (n < 10)
      <3>1. n \div 10 \in Nat /\ n \div 10 < n /\ n % 10 \in Nat
        BY <2>2
      <3>2. writeInt[n \div 10] \in String
        BY <1>11, <3>1
      <3>3. writeInt[n] = Append(writeInt[n \div 10], 48 + (n % 10))
        BY <1>10, <2>2, Zenon
      <3>4. 48 + (n % 10) \in Nat
        BY <3>1
      <3> QED
        BY <3>2, <3>3, <3>4 DEF String
    <2> QED
      BY <2>1, <2>2
  <1>12. \A n \in Nat : (\A k \in Nat : k < n => k \in S) => n \in S
    BY <1>11
  <1> HIDE DEF S
  <1>13. \A n \in Nat : n \in S
    BY <1>12, Induction
  <1>14. writeInt \in [Nat -> String]
    BY <1>9, <1>13 DEF S
  <1> QED
    BY <1>10, <1>14

LEMMA FrontLast ==
    ASSUME NEW s \in String, s # <<>>
    PROVE  /\ Front(s) \in String /\ Len(Front(s)) = Len(s) - 1 /\ Last(s) \in Nat
           /\ \A i \in 1 .. Len(s) - 1 : Front(s)[i] = s[i]
  <1>1. Len(s) \in Nat /\ Len(s) # 0 /\ \A i \in 1 .. Len(s) : s[i] \in Nat
    BY DEF String
  <1>2. Len(s) - 1 \in Nat /\ Len(s) \in 1 .. Len(s)
    BY <1>1
  <1> DEFINE k == Len(s) - 1
  <1>3. \A i \in 1 .. k : s[i] \in Nat
    BY <1>1
  <1> HIDE DEF k
  <1>4. k \in Nat
    BY <1>2 DEF k
  <1>5. /\ SubSeq(s, 1, k) \in Seq(Nat)
        /\ Len(SubSeq(s, 1, k)) = IF 1 <= k THEN k - 1 + 1 ELSE 0
        /\ \A i \in 1 .. k - 1 + 1 : SubSeq(s, 1, k)[i] = s[1 + i - 1]
    BY <1>3, <1>4, SubSeqProperties
  <1>6. Len(SubSeq(s, 1, k)) = k
    BY <1>4, <1>5
  <1>7. \A i \in 1 .. k : SubSeq(s, 1, k)[i] = s[i]
    BY <1>4, <1>5
  <1>8. s[Len(s)] \in Nat
    BY <1>1, <1>2
  <1> QED
    BY <1>5, <1>6, <1>7, <1>8 DEF String, Front, Last, k

LEMMA AtoiDef ==
    /\ Atoi \in [String -> Int]
    /\ \A s \in String : Atoi[s] = IF s = <<>> THEN 0 ELSE Atoi[Front(s)] * 10 + (Last(s) - 48)
  <1> DEFINE rank == [s \in String |-> Len(s)]
             prev == [s \in String |-> IF s = <<>> THEN s ELSE Front(s)]
             base == [s \in String |-> 0]
             step == [x \in String \X Int |-> IF x[1] = <<>> THEN 0 ELSE x[2] * 10 + (Last(x[1]) - 48)]
             eq(f) == f = [s \in Seq(Nat) |-> IF s = <<>> THEN 0 ELSE f[Front(s)] * 10 + (Last(s) - 48)]
  <1>1. \A s \in String : s # <<>> => Front(s) \in String /\ Len(Front(s)) = Len(s) - 1 /\ Last(s) \in Nat
    BY FrontLast
  <1>2. \A s \in String : Len(s) \in Nat /\ (Len(s) = 0 <=> s = <<>>)
    BY DEF String
  <1>3. rank \in [String -> Nat] /\ prev \in [String -> String] /\ base \in [String -> Int]
    BY <1>1, <1>2
  <1>4. step \in [String \X Int -> Int]
    <2>1. ASSUME NEW s \in String, NEW r \in Int, s # <<>> PROVE r * 10 + (Last(s) - 48) \in Int
      BY <1>1, <2>1
    <2> QED
      BY <2>1
  <1>5. \A s \in String : rank[s] # 0 => rank[prev[s]] < rank[s]
    BY <1>1, <1>2
  <1>6. /\ \A s \in String : (rank[s] = 0 <=> s = <<>>) /\ (s # <<>> => prev[s] = Front(s)) /\ base[s] = 0
        /\ \A s \in String, r \in Int : s # <<>> => step[<<s, r>>] = r * 10 + (Last(s) - 48)
    BY <1>2
  <1> HIDE DEF rank, prev, base, step
  <1>7. PICK f : Recursion(f, String, Int, rank, prev, base, step)
    BY <1>3, <1>4, <1>5, RecursionSolved
  <1>8. eq(f)
    <2>1. ASSUME NEW s \in String
          PROVE  f[s] = IF s = <<>> THEN 0 ELSE f[Front(s)] * 10 + (Last(s) - 48)
      <3>1. f[s] = IF rank[s] = 0 THEN base[s] ELSE step[<<s, f[prev[s]]>>]
        BY <1>7 DEF Recursion
      <3>2. s # <<>> => f[Front(s)] \in Int
        BY <1>1, <1>7 DEF Recursion
      <3> QED
        BY <1>6, <3>1, <3>2
    <2>2. f = [s \in Seq(Nat) |-> f[s]]
      BY <1>7 DEF Recursion, String
    <2> QED
      BY <2>1, <2>2 DEF String
  <1>9. Atoi = CHOOSE g : eq(g)
    BY DEF Atoi
  <1>10. eq(Atoi)
    BY <1>8, <1>9
  <1>11. \A s \in String : Atoi[s] = IF s = <<>> THEN 0 ELSE Atoi[Front(s)] * 10 + (Last(s) - 48)
    BY <1>10 DEF String
  <1> DEFINE S == {n \in Nat : \A s \in String : Len(s) = n => Atoi[s] \in Int}
  <1>12. ASSUME NEW n \in Nat, \A k \in Nat : k < n => k \in S, NEW s \in String, Len(s) = n
         PROVE  Atoi[s] \in Int
    <2>1. CASE s = <<>>
      BY <1>11, <2>1
    <2>2. CASE s # <<>>
      <3>1. Front(s) \in String /\ Len(Front(s)) \in Nat /\ Len(Front(s)) < n
        BY <1>1, <1>2, <1>12, <2>2
      <3>2. Atoi[Front(s)] \in Int /\ Last(s) \in Int
        BY <1>1, <1>12, <2>2, <3>1
      <3>3. Atoi[s] = Atoi[Front(s)] * 10 + (Last(s) - 48)
        BY <1>11, <2>2
      <3> DEFINE a == Atoi[Front(s)]
                 l == Last(s)
      <3> HIDE DEF a, l
      <3>4. a * 10 + (l - 48) \in Int
        BY <3>2 DEF a, l
      <3> QED
        BY <3>3, <3>4 DEF a, l
    <2> QED
      BY <2>1, <2>2
  <1>13. \A n \in Nat : (\A k \in Nat : k < n => k \in S) => n \in S
    BY <1>12
  <1> HIDE DEF S
  <1>14. \A n \in Nat : n \in S
    BY <1>13, Induction
  <1>15. \A s \in String : Atoi[s] \in Int
    BY <1>2, <1>14 DEF S
  <1>16. Atoi \in [String -> Int]
    BY <1>10, <1>15 DEF String
  <1> QED
    BY <1>11, <1>16

\* A length is read back as it was written, from digits alone.
LEMMA DecimalRoundTrip ==
    \A n \in Nat : /\ Atoi[writeInt[n]] = n
                   /\ writeInt[n] # <<>> /\ ToSet(writeInt[n]) \subseteq Digit
  <1> DEFINE good(n) == /\ Atoi[writeInt[n]] = n
                        /\ writeInt[n] # <<>> /\ ToSet(writeInt[n]) \subseteq Digit
             S == {n \in Nat : good(n)}
  <1>1. ASSUME NEW n \in Nat, \A k \in Nat : k < n => k \in S PROVE good(n)
    <2> DEFINE w == writeInt[n]
    <2>1. CASE n < 10
      <3>1. w = <<48 + n>> /\ 48 + n \in Nat
        BY <2>1, WriteIntDef
      <3>2. w \in String /\ w # <<>> /\ Front(w) = <<>> /\ Last(w) = 48 + n /\ <<>> \in String
        BY <3>1 DEF Front, Last, String
      <3>3. ToSet(w) \subseteq Digit
        <4>1. 48 + n \in Digit
          BY <2>1 DEF Digit
        <4> QED
          BY <3>1, <4>1 DEF ToSet
      <3> HIDE DEF w
      <3>4. Atoi[<<>>] = 0 /\ Atoi[w] = Atoi[<<>>] * 10 + ((48 + n) - 48)
        BY <3>2, AtoiDef
      <3>5. Atoi[w] = n
        BY <3>4
      <3> QED
        BY <3>2, <3>3, <3>5 DEF w
    <2>2. CASE ~ (n < 10)
      <3> DEFINE q == n \div 10
                 d == n % 10
                 v == writeInt[q]
      <3>1. q \in Nat /\ q < n /\ d \in 0 .. 9 /\ n = q * 10 + d
        BY <2>2
      <3>2. v \in String /\ good(q) /\ w = Append(v, 48 + d)
        BY <1>1, <2>2, <3>1, WriteIntDef
      <3> HIDE DEF q, d, v, w
      <3>3. /\ w \in String /\ w # <<>> /\ Last(w) = 48 + d
            /\ Len(Front(w)) = Len(v) /\ Front(w) \in Seq(Nat) /\ \A i \in 1 .. Len(v) : Front(w)[i] = v[i]
        BY <3>1, <3>2 DEF Front, Last, String
      <3>4. Front(w) = v
        BY <3>2, <3>3, SeqEqual DEF String
      <3>5. Atoi[v] = q /\ v # <<>> /\ ToSet(v) \subseteq Digit
        BY <3>2 DEF v
      <3>6. Atoi[w] = Atoi[v] * 10 + ((48 + d) - 48)
        BY <3>3, <3>4, AtoiDef
      <3>7. Atoi[w] = n
        BY <3>1, <3>5, <3>6
      <3>8. ToSet(w) \subseteq Digit
        <4>1. \A i \in 1 .. Len(w) : w[i] \in Digit
          <5>1. \A i \in 1 .. Len(v) : v[i] \in Digit
            BY <3>2, <3>5 DEF ToSet, String
          <5>2. 48 + d \in Digit
            BY <3>1 DEF Digit
          <5> QED
            BY <3>1, <3>2, <5>1, <5>2 DEF String
        <4> QED
          BY <3>3, <4>1 DEF ToSet, String
      <3> QED
        BY <3>3, <3>7, <3>8 DEF w
    <2> QED
      BY <2>1, <2>2
  <1>2. \A n \in Nat : (\A k \in Nat : k < n => k \in S) => n \in S
    BY <1>1
  <1> HIDE DEF S
  <1>3. \A n \in Nat : n \in S
    BY <1>2, Induction
  <1> QED
    BY <1>3 DEF S

-----------------------------------------------------------------------------
\* The text messages of forward/mux.go

NoColon(x) == \A i \in 1 .. Len(x) : x[i] # Colon

LEMMA MinIs ==
    ASSUME NEW S, S \subseteq Nat, NEW x \in S, \A y \in S : x <= y
    PROVE  Min(S) = x
  <1>1. \A z \in S : (\A y \in S : z <= y) => z = x
    <2>1. ASSUME NEW z \in S, \A y \in S : z <= y PROVE z = x
      <3>1. z \in Nat /\ x \in Nat /\ z <= x /\ x <= z
        BY <2>1
      <3> QED
        BY <3>1
    <2> QED
      BY <2>1
  <1> QED
    BY <1>1 DEF Min

\* The colon that ends a part without colons is the next one.
LEMMA NextColonFound ==
    ASSUME NEW s \in String, NEW o \in Nat, NEW x \in String, At(s, o, x), NoColon(x),
           o + Len(x) < Len(s), s[o + Len(x) + 1] = Colon
    PROVE  NextColon(s, o) = o + Len(x) + 1
  <1> DEFINE n == Len(x)
             l == Len(s)
             T == {j \in o + 1 .. l : s[j] = Colon} \union {l + 1}
  <1>1. n \in Nat /\ l \in Nat /\ o + n < l
    BY LenIsNat
  <1>2. \A i \in 1 .. n : s[o + i] # Colon
    BY DEF At, NoColon
  <1>3. s[o + n + 1] = Colon
    OBVIOUS
  <1> HIDE DEF n, l
  <1>4. T \subseteq Nat /\ o + n + 1 \in T
    BY <1>1, <1>3
  <1>5. ASSUME NEW j \in T PROVE o + n + 1 <= j
    <2>1. CASE j = l + 1
      BY <1>1, <2>1
    <2>2. CASE j # l + 1
      <3>1. j \in o + 1 .. l /\ s[j] = Colon
        BY <2>2
      <3>2. CASE j - o \in 1 .. n
        <4>1. o + (j - o) = j
          BY <1>1, <3>1
        <4> QED
          BY <1>2, <3>1, <3>2, <4>1
      <3>3. CASE ~ (j - o \in 1 .. n)
        BY <1>1, <3>1, <3>3
      <3> QED
        BY <3>2, <3>3
    <2> QED
      BY <2>1, <2>2
  <1> HIDE DEF T
  <1>6. Min(T) = o + n + 1
    BY <1>4, <1>5, MinIs
  <1> QED
    BY <1>6 DEF NextColon, T, n, l

\* After the last colon comes none.
LEMMA NextColonNone ==
    ASSUME NEW s \in String, NEW o \in Nat, \A j \in o + 1 .. Len(s) : s[j] # Colon
    PROVE  NextColon(s, o) = Len(s) + 1
  <1> DEFINE T == {j \in o + 1 .. Len(s) : s[j] = Colon} \union {Len(s) + 1}
  <1>1. T = {Len(s) + 1} /\ Len(s) + 1 \in Nat
    BY LenIsNat
  <1>2. T \subseteq Nat /\ Len(s) + 1 \in T /\ \A y \in T : Len(s) + 1 <= y
    BY <1>1
  <1> HIDE DEF T
  <1>3. Min(T) = Len(s) + 1
    BY <1>2, MinIs
  <1> QED
    BY <1>3 DEF NextColon, T

LEMMA NextColonBound ==
    ASSUME NEW s \in String, NEW o \in Nat
    PROVE  NextColon(s, o) \in Nat /\ NextColon(s, o) <= Len(s) + 1
  <1> DEFINE T == {j \in o + 1 .. Len(s) : s[j] = Colon} \union {Len(s) + 1}
  <1>1. Len(s) \in Nat
    BY LenIsNat
  <1>2. T \subseteq Nat /\ Len(s) + 1 \in T /\ \A y \in T : y <= Len(s) + 1
    BY <1>1
  <1> HIDE DEF T
  <1>3. PICK x \in T : \A y \in T : x <= y
    BY <1>2, LeastNumber
  <1>4. Min(T) = x
    BY <1>2, <1>3, MinIs
  <1> QED
    BY <1>2, <1>4 DEF NextColon, T

\* What SplitN returns when k of its four parts begin inside the string.
LEMMA SplitNParts ==
    ASSUME NEW s \in String, NEW k \in 1 .. 4,
           NEW a, a = <<0, NextColon(s, 0), NextColon(s, NextColon(s, 0)),
                        NextColon(s, NextColon(s, NextColon(s, 0)))>>,
           a[k] <= Len(s), \A j \in k + 1 .. 4 : ~ (a[j] <= Len(s))
    PROVE  /\ Len(SplitN(s)) = k
           /\ \A j \in 1 .. k :
                SplitN(s)[j] = SubSeq(s, a[j] + 1, IF j = k THEN Len(s) ELSE a[j + 1] - 1)
  <1> DEFINE K == {j \in 1 .. 4 : a[j] <= Len(s)}
  <1>1. k \in K /\ \A j \in K : k >= j
    OBVIOUS
  <1>2. \A x \in K : (\A y \in K : x >= y) => x = k
    BY <1>1
  <1> HIDE DEF K
  <1>3. Max(K) = k
    BY <1>1, <1>2 DEF Max
  <1> DEFINE part(j) == SubSeq(s, a[j] + 1, IF j = k THEN Len(s) ELSE a[j + 1] - 1)
  <1>4. SplitN(s) = [j \in 1 .. k |-> part(j)]
    BY <1>3 DEF SplitN, K
  <1> HIDE DEF part
  <1>5. Len(SplitN(s)) = k /\ \A j \in 1 .. k : SplitN(s)[j] = part(j)
    BY <1>4
  <1> QED
    BY <1>5 DEF part

LEMMA StripNewline ==
    ASSUME NEW s \in String
    PROVE  LET d == s \o <<Newline>>
           IN  d # <<>> /\ Last(d) = Newline /\ Front(d) = s
  <1> DEFINE d == s \o <<Newline>>
  <1>1. Newline \in Nat /\ <<Newline>> \in String /\ Len(<<Newline>>) = 1
    BY DEF Newline, String
  <1>2. d \in String /\ Len(d) = Len(s) + 1 /\ Len(s) \in Nat
    BY <1>1, ConcatType, LenIsNat
  <1>3. At(d, 0, s) /\ At(d, Len(s), <<Newline>>)
    BY <1>1, AtOwn
  <1> HIDE DEF d
  <1>4. d # <<>>
    BY <1>2 DEF String
  <1>5. Last(d) = Newline
    BY <1>1, <1>2, <1>3 DEF At, Last
  <1>6. Front(d) \in String /\ Len(Front(d)) = Len(s) /\ \A i \in 1 .. Len(s) : Front(d)[i] = d[i]
    <2>1. Len(d) - 1 = Len(s)
      BY <1>2
    <2> QED
      BY <1>2, <1>4, <2>1, FrontLast
  <1>7. \A i \in 1 .. Len(s) : Front(d)[i] = s[i]
    BY <1>2, <1>3, <1>6 DEF At
  <1>8. Front(d) = s
    BY <1>6, <1>7, SeqEqual DEF String
  <1> QED
    BY <1>4, <1>5, <1>8 DEF d

\* Digits have no sign.
LEMMA UnsignedDigits ==
    ASSUME NEW w \in String, w # <<>>, ToSet(w) \subseteq Digit
    PROVE  Unsigned(w) = w /\ w[1] # Minus
  <1>1. w[1] \in Digit
    <2>1. 1 \in DOMAIN w
      BY DEF String
    <2> QED
      BY <2>1 DEF ToSet
  <1>2. w[1] \notin {Plus, Minus}
    BY <1>1 DEF Digit, Plus, Minus
  <1> QED
    BY <1>2 DEF Unsigned

\* The type of a text message is found again, and holds no colon.
LEMMA TextTypes ==
    ASSUME NEW t \in DOMAIN TextOf
    PROVE  /\ TextOf[t] \in String /\ NoColon(TextOf[t])
           /\ {u \in DOMAIN TextOf : TextOf[u] = TextOf[t]} = {t}
  <1>1. DOMAIN TextOf = {"DATA", "CLOSE", "REQUEST", "RESPONSE", "HANDSHAKE", "NEWCONN"}
    BY DEF TextOf
  <1>2. /\ TextOf["DATA"] = <<68, 65, 84, 65>>
        /\ TextOf["CLOSE"] = <<67, 76, 79, 83, 69>>
        /\ TextOf["REQUEST"] = <<82, 69, 81, 85, 69, 83, 84>>
        /\ TextOf["RESPONSE"] = <<82, 69, 83, 80, 79, 78, 83, 69>>
        /\ TextOf["HANDSHAKE"] = <<72, 65, 78, 68, 83, 72, 65, 75, 69>>
        /\ TextOf["NEWCONN"] = <<78, 69, 87, 67, 79, 78, 78>>
    BY DEF TextOf
  <1>3. \A u \in DOMAIN TextOf : TextOf[u] \in String /\ NoColon(TextOf[u])
    <2> USE DEF String, NoColon, Colon
    <2>1. TextOf["DATA"] \in String /\ NoColon(TextOf["DATA"])
      BY <1>2
    <2>2. TextOf["CLOSE"] \in String /\ NoColon(TextOf["CLOSE"])
      BY <1>2
    <2>3. TextOf["REQUEST"] \in String /\ NoColon(TextOf["REQUEST"])
      BY <1>2
    <2>4. TextOf["RESPONSE"] \in String /\ NoColon(TextOf["RESPONSE"])
      BY <1>2
    <2>5. TextOf["HANDSHAKE"] \in String /\ NoColon(TextOf["HANDSHAKE"])
      BY <1>2
    <2>6. TextOf["NEWCONN"] \in String /\ NoColon(TextOf["NEWCONN"])
      BY <1>2
    <2> HIDE DEF String, NoColon
    <2> QED
      BY <1>1, <2>1, <2>2, <2>3, <2>4, <2>5, <2>6
  <1>4. /\ Len(TextOf["DATA"]) = 4 /\ Len(TextOf["CLOSE"]) = 5
        /\ Len(TextOf["REQUEST"]) = 7 /\ Len(TextOf["RESPONSE"]) = 8
        /\ Len(TextOf["HANDSHAKE"]) = 9 /\ Len(TextOf["NEWCONN"]) = 7
        /\ TextOf["REQUEST"][1] = 82 /\ TextOf["NEWCONN"][1] = 78
    BY <1>2
  <1>5. \A u \in DOMAIN TextOf : TextOf[u] = TextOf[t] => u = t
    <2> SUFFICES ASSUME NEW u \in DOMAIN TextOf, TextOf[u] = TextOf[t], u # t PROVE FALSE
      OBVIOUS
    <2>1. Len(TextOf[u]) = Len(TextOf[t]) /\ TextOf[u][1] = TextOf[t][1]
      OBVIOUS
    <2> QED
      BY <1>1, <1>4, <2>1
  <1> QED
    BY <1>3, <1>5

\* The messages the text format can carry: the ID has no colon, and a CLOSE has no
\* payload.
TextMessage ==
    {m \in Message : /\ m.type \in {"DATA", "REQUEST", "RESPONSE", "NEWCONN", "CLOSE"}
                     /\ NoColon(m.id)
                     /\ m.type = "CLOSE" => m.data = <<>>}

\* What follows the ID in the text of a message.
Trailer(m) ==
    IF m.type = "NEWCONN" THEN <<Colon>> \o m.data
    ELSE IF m.data = <<>> THEN <<>>
    ELSE <<Colon>> \o writeInt[Len(m.data)] \o <<Colon>> \o m.data

LEMMA ColonString == <<Colon>> \in String /\ Len(<<Colon>>) = 1 /\ <<Colon>>[1] = Colon
  BY DEF Colon, String

LEMMA EmptyString == <<>> \in String /\ Len(<<>>) = 0
  BY DEF String

LEMMA TextShape ==
    ASSUME NEW m \in TextMessage
    PROVE  /\ m.type \in DOMAIN TextOf /\ m.id \in String /\ m.data \in String
           /\ Trailer(m) \in String
           /\ TextEncode(m) = (TextOf[m.type] \o <<Colon>> \o m.id \o Trailer(m)) \o <<Newline>>
  <1> DEFINE T == TextOf[m.type]
             C == <<Colon>>
             w == writeInt[Len(m.data)]
             h == T \o C \o m.id
  <1>1. /\ m.type \in {"DATA", "REQUEST", "RESPONSE", "NEWCONN", "CLOSE"}
        /\ m.id \in String /\ m.data \in String /\ (m.type = "CLOSE" => m.data = <<>>)
    BY MessageFields DEF TextMessage
  <1>2. m.type \in DOMAIN TextOf
    BY <1>1 DEF TextOf
  <1>3. T \in String /\ C \in String /\ w \in String
    BY <1>1, <1>2, TextTypes, ColonString, LenIsNat, WriteIntDef
  <1> HIDE DEF T, C, w
  <1>4. T \o C \in String /\ h \in String /\ C \o w \in String /\ C \o w \o C \in String
    BY <1>1, <1>3, ConcatType
  <1>5. C \o w \o C \o m.data \in String /\ C \o m.data \in String
    BY <1>1, <1>3, <1>4, ConcatType
  <1>6. h \o (C \o m.data) = h \o C \o m.data /\ h \o <<>> = h
    <2> HIDE DEF h
    <2>1. h \in String /\ C \in String /\ m.data \in String
      BY <1>1, <1>3, <1>4
    <2>2. h \o C \o m.data = h \o (C \o m.data)
      BY <2>1, ConcatAssoc
    <2>3. h \o <<>> = h
      BY <2>1, ConcatEmptySeq DEF String
    <2> QED
      BY <2>2, <2>3
  <1>7. CASE m.type \in {"DATA", "REQUEST", "RESPONSE"}
    <2>1. Trailer(m) = IF m.data = <<>> THEN <<>> ELSE C \o w \o C \o m.data
      BY <1>7 DEF Trailer, C, w
    <2>2. TextEncode(m) = encodeMessage(T \o C, m.id, m.data)
      BY <1>7 DEF TextEncode, T, C
    <2>3. encodeMessage(T \o C, m.id, m.data) = h \o Trailer(m) \o <<Newline>>
      BY <2>1 DEF encodeMessage, C, w
    <2>4. Trailer(m) \in String
      BY <1>5, <2>1, EmptyString
    <2> QED
      BY <1>1, <1>2, <2>2, <2>3, <2>4 DEF T, C
  <1>8. CASE m.type = "CLOSE"
    <2>1. Trailer(m) = <<>> /\ TextEncode(m) = h \o <<Newline>>
      BY <1>1, <1>8 DEF Trailer, TextEncode, T, C
    <2> QED
      BY <1>1, <1>2, <1>6, <2>1, EmptyString DEF T, C
  <1>9. CASE m.type = "NEWCONN"
    <2>1. Trailer(m) = C \o m.data /\ TextEncode(m) = h \o C \o m.data \o <<Newline>>
      BY <1>9 DEF Trailer, TextEncode, T, C
    <2> QED
      BY <1>1, <1>2, <1>5, <1>6, <2>1 DEF T, C
  <1> QED
    BY <1>1, <1>7, <1>8, <1>9

\* s is T, a colon, x and r, and its first two colons are those around x.
Headed(s, T, x, r) ==
    /\ s \in String /\ Len(s) = Len(T) + 1 + Len(x) + Len(r)
    /\ At(s, 0, T) /\ At(s, Len(T) + 1, x) /\ At(s, Len(T) + 1 + Len(x), r)
    /\ NextColon(s, 0) = Len(T) + 1
    /\ NextColon(s, Len(T) + 1) = Len(T) + 1 + Len(x) + 1

LEMMA TextHead ==
    ASSUME NEW T \in String, NEW x \in String, NEW r \in String, NoColon(T), NoColon(x),
           r = <<>> \/ r[1] = Colon
    PROVE  Headed(T \o <<Colon>> \o x \o r, T, x, r)
  <1> DEFINE C == <<Colon>>
             s == T \o <<Colon>> \o x \o r
             tl == Len(T)
             xl == Len(x)
             rl == Len(r)
             h == T \o C
             g == h \o x
  <1>1. tl \in Nat /\ xl \in Nat /\ rl \in Nat /\ C \in String /\ Len(C) = 1 /\ C[1] = Colon
    BY LenIsNat, ColonString
  <1> HIDE DEF C
  <1>2. h \in String /\ Len(h) = Len(T) + Len(C) /\ At(h, 0, T) /\ At(h, Len(T), C)
    BY <1>1, ConcatType, AtOwn
  <1>3. s = g \o r
    BY DEF C
  <1> HIDE DEF s
  <1> HIDE DEF h
  <1>4. g \in String /\ Len(g) = Len(h) + Len(x) /\ At(g, 0, T) /\ At(g, Len(T), C) /\ At(g, Len(h), x)
    BY <1>1, <1>2, ConcatType, AtOwn, AtLeft
  <1> HIDE DEF g
  <1>5. /\ s \in String /\ Len(s) = Len(g) + Len(r) /\ At(s, 0, T) /\ At(s, Len(T), C)
        /\ At(s, Len(h), x) /\ At(s, Len(g), r)
    <2>1. Len(h) \in Nat /\ Len(T) \in Nat
      BY <1>2, LenIsNat
    <2>2. g \o r \in String /\ Len(g \o r) = Len(g) + Len(r)
      BY <1>4, ConcatType
    <2>3. At(g \o r, Len(g), r)
      BY <1>4, AtOwn
    <2>4. At(g \o r, 0, T) /\ At(g \o r, Len(T), C) /\ At(g \o r, Len(h), x)
      BY <1>1, <1>4, <2>1, AtLeft
    <2> QED
      BY <1>3, <2>2, <2>3, <2>4
  <1>6. Len(h) = tl + 1
    BY <1>1, <1>2
  <1>7. Len(g) = tl + 1 + xl
    BY <1>1, <1>4, <1>6
  <1>8. Len(s) = tl + 1 + xl + rl
    BY <1>1, <1>5, <1>7
  <1>9. At(s, tl, C) /\ At(s, tl + 1, x) /\ At(s, tl + 1 + xl, r)
    BY <1>5, <1>6, <1>7
  <1>10. s[tl + 1] = Colon /\ 0 + tl < Len(s) /\ s[0 + tl + 1] = Colon
    <2>1. s[tl + 1] = Colon
      BY <1>1, <1>9 DEF At
    <2> QED
      BY <1>1, <1>8, <2>1
  <1>11. NextColon(s, 0) = 0 + tl + 1
    BY <1>5, <1>10, NextColonFound
  <1>12. NextColon(s, tl + 1) = tl + 1 + xl + 1
    <2>1. CASE r = <<>>
      <3>1. rl = 0
        BY <2>1, EmptyString
      <3> HIDE DEF tl, xl, rl
      <3>2. ASSUME NEW j \in (tl + 1) + 1 .. Len(s) PROVE s[j] # Colon
        <4>1. j - (tl + 1) \in 1 .. xl /\ (tl + 1) + (j - (tl + 1)) = j
          BY <1>1, <1>8, <3>1
        <4>2. s[(tl + 1) + (j - (tl + 1))] = x[j - (tl + 1)]
          BY <1>9, <4>1 DEF At, xl
        <4> QED
          BY <4>1, <4>2 DEF NoColon, xl
      <3>3. tl + 1 \in Nat /\ Len(s) + 1 = tl + 1 + xl + 1
        BY <1>1, <1>8, <3>1
      <3>4. NextColon(s, tl + 1) = Len(s) + 1
        BY <1>5, <3>2, <3>3, NextColonNone
      <3> QED
        BY <3>3, <3>4
    <2>2. CASE r # <<>>
      <3>1. r[1] = Colon /\ rl # 0
        BY <2>2 DEF String
      <3>2. s[(tl + 1 + xl) + 1] = Colon
        BY <1>1, <1>9, <3>1 DEF At
      <3>3. (tl + 1) + xl < Len(s)
        BY <1>1, <1>8, <3>1
      <3>4. tl + 1 \in Nat /\ (tl + 1) + xl + 1 = (tl + 1 + xl) + 1
        BY <1>1
      <3>5. At(s, tl + 1, x) /\ s \in String
        BY <1>5, <1>9
      <3> HIDE DEF tl
      <3>6. s[(tl + 1) + xl + 1] = Colon
        BY <3>2, <3>4
      <3>7. NextColon(s, tl + 1) = (tl + 1) + xl + 1
        BY <3>3, <3>4, <3>5, <3>6, NextColonFound
      <3> QED
        BY <3>4, <3>7
    <2> QED
      BY <2>1, <2>2
  <1> QED
    BY <1>1, <1>5, <1>8, <1>9, <1>11, <1>12 DEF Headed, s

\* DefaultMuxDecoder reads back what DefaultMuxEncoder wrote, for every payload,
\* delimiters and digits included (mux.go:275-390, 440-560).
THEOREM TextRoundTrip ==
    ASSUME NEW m \in TextMessage
    PROVE  TextDecode(TextEncode(m)) = Ok(m)
  <1> DEFINE T == TextOf[m.type]
             x == m.id
             r == Trailer(m)
             s == T \o <<Colon>> \o x \o r
             tl == Len(T)
             xl == Len(x)
             rl == Len(r)
             dl == Len(m.data)
             n3 == NextColon(s, tl + 1 + xl + 1)
             a == <<0, tl + 1, tl + 1 + xl + 1, n3>>
             parts == SplitN(s)
  <1>1. /\ m.type \in DOMAIN TextOf /\ x \in String /\ m.data \in String /\ r \in String
        /\ TextEncode(m) = s \o <<Newline>>
    BY TextShape
  <1>2. /\ T \in String /\ NoColon(T) /\ {u \in DOMAIN TextOf : TextOf[u] = T} = {m.type}
        /\ NoColon(x) /\ m = [type |-> m.type, id |-> x, data |-> m.data]
        /\ m.type \in {"DATA", "REQUEST", "RESPONSE", "NEWCONN", "CLOSE"}
        /\ m.type = "CLOSE" => m.data = <<>>
    BY <1>1, TextTypes, MessageFields DEF TextMessage
  <1>3. r = <<>> \/ r[1] = Colon
    <2>1. ASSUME NEW y \in String PROVE (<<Colon>> \o y)[1] = Colon
      BY ColonString DEF String
    <2>2. m.type # "NEWCONN" /\ m.data # <<>> =>
            r = <<Colon>> \o (writeInt[dl] \o <<Colon>> \o m.data)
          /\ writeInt[dl] \o <<Colon>> \o m.data \in String
      <3>1. writeInt[dl] \in String /\ <<Colon>> \in String
        BY <1>1, LenIsNat, WriteIntDef, ColonString
      <3>2. writeInt[dl] \o <<Colon>> \in String /\ writeInt[dl] \o <<Colon>> \o m.data \in String
        BY <1>1, <3>1, ConcatType
      <3>3. /\ <<Colon>> \o writeInt[dl] \o <<Colon>> = <<Colon>> \o (writeInt[dl] \o <<Colon>>)
            /\ (<<Colon>> \o (writeInt[dl] \o <<Colon>>)) \o m.data
                 = <<Colon>> \o (writeInt[dl] \o <<Colon>> \o m.data)
        <4> DEFINE C == <<Colon>>
                   w == writeInt[dl]
        <4>1. C \in String /\ w \in String /\ w \o C \in String /\ m.data \in String
          BY <1>1, <3>1, <3>2
        <4> HIDE DEF C, w
        <4>2. C \o w \o C = C \o (w \o C) /\ (C \o (w \o C)) \o m.data = C \o ((w \o C) \o m.data)
          BY <4>1, ConcatAssoc
        <4> QED
          BY <4>2 DEF C, w
      <3> QED
        BY <3>2, <3>3 DEF Trailer
    <2> QED
      BY <1>1, <2>1, <2>2 DEF Trailer
  <1>4. tl \in Nat /\ xl \in Nat /\ rl \in Nat /\ dl \in Nat
    BY <1>1, <1>2, LenIsNat
  <1>5. /\ s \in String /\ Len(s) = tl + 1 + xl + rl
        /\ At(s, 0, T) /\ At(s, tl + 1, x) /\ At(s, tl + 1 + xl, r)
        /\ NextColon(s, 0) = tl + 1 /\ NextColon(s, tl + 1) = tl + 1 + xl + 1
    <2>1. T \in String /\ x \in String /\ r \in String /\ NoColon(T) /\ NoColon(x)
      BY <1>1, <1>2
    <2> HIDE DEF T, x, r
    <2>2. Headed(s, T, x, r)
      BY <1>3, <2>1, TextHead
    <2> HIDE DEF s
    <2> QED
      BY <2>2 DEF Headed
  <1>6. TrimNewline(TextEncode(m)) = s
    BY <1>1, <1>5, StripNewline DEF TrimNewline
  <1> HIDE DEF T, x, r, s, tl, xl, rl, dl, n3, parts
  <1>7. tl + 1 + xl + 1 \in Nat /\ n3 \in Nat /\ n3 <= Len(s) + 1
    <2>1. tl + 1 + xl + 1 \in Nat
      BY <1>4
    <2> QED
      BY <1>5, <2>1, NextColonBound DEF n3
  <1>8. /\ a = <<0, NextColon(s, 0), NextColon(s, NextColon(s, 0)),
                 NextColon(s, NextColon(s, NextColon(s, 0)))>>
        /\ a[1] = 0 /\ a[2] = tl + 1 /\ a[3] = tl + 1 + xl + 1 /\ a[4] = n3
    BY <1>5 DEF n3
  <1> HIDE DEF a
  \* The first two parts are the type and the ID.
  <1>9. ASSUME NEW k \in 2 .. 4, a[k] <= Len(s), \A j \in k + 1 .. 4 : ~ (a[j] <= Len(s)),
               k = 2 => rl = 0
        PROVE  /\ Len(parts) = k /\ parts[1] = T /\ parts[2] = x
               /\ \A j \in 1 .. k :
                    parts[j] = SubSeq(s, a[j] + 1, IF j = k THEN Len(s) ELSE a[j + 1] - 1)
    <2>1. k \in 1 .. 4
      OBVIOUS
    <2>2. a[k] <= Len(s) /\ \A j \in k + 1 .. 4 : ~ (a[j] <= Len(s))
      BY <1>9
    <2>3. Len(parts) = k
      BY <1>5, <1>8, <2>1, <2>2, SplitNParts DEF parts
    <2>4. \A j \in 1 .. k :
            parts[j] = SubSeq(s, a[j] + 1, IF j = k THEN Len(s) ELSE a[j + 1] - 1)
      BY <1>5, <1>8, <2>1, <2>2, SplitNParts DEF parts
    <2>5. 1 \in 1 .. k /\ 2 \in 1 .. k /\ 1 # k
      OBVIOUS
    <2>6. parts[1] = SubSeq(s, a[1] + 1, a[1 + 1] - 1)
      BY <2>4, <2>5
    <2>7. parts[1] = SubSeq(s, 0 + 1, 0 + tl)
      BY <1>4, <1>8, <2>6
    <2>8. parts[1] = T
      BY <1>2, <1>5, <2>7, BytesAt DEF Bytes, tl
    <2>9. parts[2] = SubSeq(s, (tl + 1) + 1, (tl + 1) + xl)
      <3>1. CASE k = 2
        <4>1. parts[2] = SubSeq(s, a[2] + 1, Len(s))
          BY <2>4, <2>5, <3>1
        <4> QED
          BY <1>4, <1>5, <1>8, <1>9, <3>1, <4>1
      <3>2. CASE k # 2
        <4>1. parts[2] = SubSeq(s, a[2] + 1, a[2 + 1] - 1)
          BY <2>4, <2>5, <3>2
        <4>2. a[2 + 1] - 1 = (tl + 1) + xl
          BY <1>4, <1>8
        <4> QED
          BY <1>8, <4>1, <4>2
      <3> QED
        BY <3>1, <3>2
    <2>10. parts[2] = x
      <3>1. tl + 1 \in Nat
        BY <1>4
      <3> QED
        BY <1>1, <1>5, <2>9, <3>1, BytesAt DEF Bytes, xl
    <2> QED
      BY <2>3, <2>4, <2>8, <2>10
  \* A type and an ID are decoded by what follows them.
  <1> DEFINE types == {t \in DOMAIN TextOf : TextOf[t] = parts[1]}
  <1>10. ASSUME parts[1] = T PROVE types # {} /\ (CHOOSE t \in types : TRUE) = m.type
    BY <1>2, <1>10
  <1> HIDE DEF types
  <1>11. TextDecode(TextEncode(m)) = DecodeParts(s, parts)
    BY <1>6 DEF TextDecode, parts
  <1>12. CASE r = <<>>
    <2>1. rl = 0 /\ m.data = <<>> /\ m.type # "NEWCONN"
      <3>1. ASSUME NEW y \in String PROVE <<Colon>> \o y # <<>>
        BY ColonString DEF String
      <3>2. m.data # <<>> /\ m.type # "NEWCONN" =>
              \E y \in String : r = <<Colon>> \o writeInt[dl] \o <<Colon>> \o y /\ y # <<>>
        BY <1>1 DEF Trailer, r, dl
      <3>3. ASSUME NEW y \in String PROVE <<Colon>> \o writeInt[dl] \o <<Colon>> \o y # <<>>
        <4>1. writeInt[dl] \in String /\ <<Colon>> \in String
          BY <1>4, WriteIntDef, ColonString
        <4> DEFINE q == <<Colon>> \o writeInt[dl] \o <<Colon>>
        <4>2. q \in String /\ Len(q) # 0
          <5>1. <<Colon>> \o writeInt[dl] \in String
            BY <4>1, ConcatType
          <5>2. q \in String /\ Len(q) = Len(<<Colon>> \o writeInt[dl]) + Len(<<Colon>>)
            BY <4>1, <5>1, ConcatType
          <5> QED
            BY <5>1, <5>2, ColonString, LenIsNat
        <4> HIDE DEF q
        <4>3. q \o y # <<>>
          BY <4>2 DEF String
        <4> QED
          BY <4>3 DEF q
      <3> QED
        BY <1>1, <1>12, <3>1, <3>2, <3>3, EmptyString DEF Trailer, r, rl
    <2>2. n3 = Len(s) + 1
      <3>1. \A j \in (tl + 1 + xl + 1) + 1 .. Len(s) : s[j] # Colon
        BY <1>4, <1>5, <2>1
      <3> QED
        BY <1>5, <1>7, <3>1, NextColonNone DEF n3
    <2>3. a[2] <= Len(s) /\ \A j \in 2 + 1 .. 4 : ~ (a[j] <= Len(s))
      BY <1>4, <1>5, <1>8, <2>1, <2>2
    <2>4. Len(parts) = 2 /\ parts[1] = T /\ parts[2] = x
      BY <1>9, <2>1, <2>3
    <2>5. TextDecode(TextEncode(m)) = Ok([type |-> m.type, id |-> x, data |-> <<>>])
      <3>1. ~ (Len(parts) < 2) /\ ~ (Len(parts) = 4)
        BY <2>4
      <3> QED
        BY <1>10, <1>11, <2>1, <2>4, <3>1, Zenon DEF DecodeParts, types
    <2> QED
      BY <1>2, <2>1, <2>5
  <1>13. CASE m.type = "NEWCONN"
    <2>1. r = <<Colon>> \o m.data
      BY <1>13 DEF Trailer, r
    <2>2. rl = 1 + dl /\ At(r, 1, m.data)
      BY <1>1, <2>1, ColonString, ConcatType, AtOwn DEF rl, dl
    <2>3. At(s, (tl + 1 + xl) + 1, m.data)
      <3>1. tl + 1 + xl \in Nat
        BY <1>4
      <3> QED
        BY <1>1, <1>5, <2>2, <3>1, AtInside
    <2>4. Len(parts) >= 3 /\ parts[1] = T /\ parts[2] = x
      <3>1. CASE n3 <= Len(s)
        <4>1. a[4] <= Len(s) /\ \A j \in 4 + 1 .. 4 : ~ (a[j] <= Len(s))
          BY <1>8, <3>1
        <4> QED
          BY <1>9, <4>1
      <3>2. CASE ~ (n3 <= Len(s))
        <4>1. a[3] <= Len(s) /\ \A j \in 3 + 1 .. 4 : ~ (a[j] <= Len(s))
          BY <1>4, <1>5, <1>8, <2>2, <3>2
        <4>2. Len(parts) = 3 /\ parts[1] = T /\ parts[2] = x
          BY <1>9, <4>1
        <4> QED
          BY <4>2
      <3> QED
        BY <3>1, <3>2
    <2>5. SubSeq(s, tl + xl + 3, Len(s)) = m.data
      <3> DEFINE o == (tl + 1 + xl) + 1
      <3>1. o \in Nat /\ tl + xl + 3 = o + 1 /\ Len(s) = o + dl
        BY <1>4, <1>5, <2>2
      <3> HIDE DEF o
      <3>2. Bytes(s, o, dl) = m.data
        BY <1>1, <1>5, <2>3, <3>1, BytesAt DEF dl, o
      <3> QED
        BY <3>1, <3>2 DEF Bytes
    <2>6. Len(parts) \in Nat \/ Len(parts) >= 3
      BY <2>4
    <2>7. TextDecode(TextEncode(m)) =
            Ok([type |-> m.type, id |-> x, data |-> SubSeq(s, tl + xl + 3, Len(s))])
      <3>1. m.type \notin {"DATA", "REQUEST", "RESPONSE"}
        BY <1>13
      <3>2. ~ (Len(parts) < 2)
        BY <2>4
      <3> QED
        BY <1>10, <1>11, <1>13, <2>4, <3>1, <3>2 DEF DecodeParts, types, tl, xl
    <2> QED
      BY <1>2, <2>5, <2>7
  <1>14. CASE m.type # "NEWCONN" /\ r # <<>>
    <2> DEFINE w == writeInt[dl]
               wl == Len(w)
               C == <<Colon>>
    <2>1. m.data # <<>> /\ r = C \o w \o C \o m.data /\ m.type \in {"DATA", "REQUEST", "RESPONSE"}
      BY <1>2, <1>14 DEF Trailer, r, dl
    <2>2. /\ w \in String /\ w # <<>> /\ ToSet(w) \subseteq Digit /\ Atoi[w] = dl
          /\ C \in String /\ Len(C) = 1 /\ wl \in Nat
      BY <1>4, WriteIntDef, DecimalRoundTrip, ColonString, LenIsNat
    <2>3. NoColon(w)
      <3>1. ASSUME NEW i \in 1 .. Len(w) PROVE w[i] # Colon
        <4>1. i \in DOMAIN w
          BY <2>2 DEF String
        <4>2. w[i] \in Digit
          BY <2>2, <4>1 DEF ToSet
        <4> QED
          BY <4>2 DEF Digit, Colon
      <3> QED
        BY <3>1 DEF NoColon
    <2> HIDE DEF w, C
    <2>4. C \o w \in String /\ Len(C \o w) = Len(C) + Len(w) /\ At(C \o w, Len(C), w)
      BY <2>2, ConcatType, AtOwn
    <2>5. /\ C \o w \o C \in String /\ Len(C \o w \o C) = Len(C \o w) + Len(C)
          /\ At(C \o w \o C, Len(C), w) /\ At(C \o w \o C, Len(C \o w), C)
      BY <2>2, <2>4, ConcatType, AtOwn, AtLeft
    <2>6. Len(C \o w) = 1 + wl /\ Len(C \o w \o C) = 2 + wl
      BY <2>2, <2>4, <2>5
    <2> DEFINE q == C \o w \o C
    <2>7. q \in String /\ Len(q) = 2 + wl /\ At(q, 1, w) /\ At(q, 1 + wl, C) /\ 1 + wl \in Nat
      BY <2>2, <2>5, <2>6
    <2> HIDE DEF q
    <2>8. At(r, 1, w) /\ At(r, 1 + wl, C) /\ At(r, Len(q), m.data) /\ Len(r) = Len(q) + Len(m.data)
      <3>1. r = q \o m.data
        BY <2>1 DEF q
      <3>2. At(q \o m.data, 1, w) /\ At(q \o m.data, 1 + wl, C)
        BY <1>1, <2>2, <2>7, AtLeft
      <3>3. At(q \o m.data, Len(q), m.data) /\ Len(q \o m.data) = Len(q) + Len(m.data)
        BY <1>1, <2>7, AtOwn, ConcatType
      <3> QED
        BY <3>1, <3>2, <3>3
    <2>9. rl = 2 + wl + dl /\ At(r, 2 + wl, m.data)
      BY <1>4, <2>2, <2>7, <2>8 DEF rl, dl
    <2> DEFINE o == tl + 1 + xl
    <2>10. o \in Nat /\ o + 1 \in Nat /\ At(s, o, r) /\ Len(s) = o + rl
      BY <1>4, <1>5
    <2> HIDE DEF o, wl
    <2>11. At(s, o + 1, w) /\ At(s, o + (1 + wl), C) /\ At(s, o + (2 + wl), m.data)
      <3>1. 1 + wl \in Nat /\ 2 + wl \in Nat
        BY <2>2
      <3> QED
        BY <1>1, <1>5, <2>2, <2>8, <2>9, <2>10, <3>1, AtInside
    <2>12. (o + 1) + wl < Len(s) /\ s[(o + 1) + wl + 1] = Colon
      <3>1. s[(o + (1 + wl)) + 1] = Colon
        BY <2>2, <2>11, ColonString DEF At, C
      <3> QED
        BY <1>4, <2>2, <2>9, <2>10, <3>1
    <2>13. n3 = (o + 1) + wl + 1
      <3>1. n3 = NextColon(s, o + 1)
        BY DEF n3, o
      <3> QED
        BY <1>5, <2>2, <2>3, <2>10, <2>11, <2>12, <3>1, NextColonFound DEF wl
    <2>14. a[4] <= Len(s) /\ \A j \in 4 + 1 .. 4 : ~ (a[j] <= Len(s))
      BY <1>4, <1>8, <2>2, <2>9, <2>10, <2>13
    <2>15. /\ Len(parts) = 4 /\ parts[1] = T /\ parts[2] = x
           /\ parts[3] = SubSeq(s, a[3] + 1, a[4] - 1) /\ parts[4] = SubSeq(s, a[4] + 1, Len(s))
      <3>1. /\ Len(parts) = 4 /\ parts[1] = T /\ parts[2] = x
            /\ \A j \in 1 .. 4 :
                 parts[j] = SubSeq(s, a[j] + 1, IF j = 4 THEN Len(s) ELSE a[j + 1] - 1)
        BY <1>9, <2>14
      <3>2. /\ parts[3] = SubSeq(s, a[3] + 1, IF 3 = 4 THEN Len(s) ELSE a[3 + 1] - 1)
            /\ parts[4] = SubSeq(s, a[4] + 1, IF 4 = 4 THEN Len(s) ELSE a[4 + 1] - 1)
        BY <3>1
      <3> QED
        BY <3>1, <3>2
    <2>16. parts[3] = w
      <3>1. a[3] + 1 = (o + 1) + 1 /\ a[4] - 1 = (o + 1) + wl
        BY <1>4, <1>8, <2>2, <2>10, <2>13 DEF o
      <3>2. Bytes(s, o + 1, wl) = w
        BY <1>5, <2>2, <2>10, <2>11, BytesAt DEF wl
      <3> QED
        BY <2>15, <3>1, <3>2 DEF Bytes
    <2>17. parts[4] = m.data
      <3>1. o + (2 + wl) \in Nat /\ a[4] + 1 = (o + (2 + wl)) + 1 /\ Len(s) = (o + (2 + wl)) + dl
        <4>1. n3 = o + (2 + wl) /\ o + (2 + wl) \in Nat
          BY <2>2, <2>10, <2>13
        <4>2. Len(s) = (o + (2 + wl)) + dl
          BY <1>4, <2>2, <2>9, <2>10
        <4> QED
          BY <1>8, <4>1, <4>2
      <3>2. Bytes(s, o + (2 + wl), dl) = m.data
        BY <1>1, <1>5, <2>11, <3>1, BytesAt DEF dl
      <3> QED
        BY <2>15, <3>1, <3>2 DEF Bytes
    <2>18. ~ (Len(parts[4]) > Atoi[parts[3]])
      BY <1>4, <2>2, <2>16, <2>17 DEF dl
    <2>19. TextDecode(TextEncode(m)) = Ok([type |-> m.type, id |-> x, data |-> m.data])
      <3>1. ~ (Len(parts) < 2)
        BY <2>15
      <3>2. /\ Unsigned(parts[3]) = parts[3] /\ parts[3] # <<>> /\ ToSet(parts[3]) \subseteq Digit
            /\ ~ (parts[3][1] = Minus)
        BY <2>2, <2>16, UnsignedDigits
      <3> QED
        BY <1>10, <1>11, <2>1, <2>15, <2>17, <2>18, <3>1, <3>2, Zenon DEF DecodeParts, types
    <2> QED
      BY <1>2, <2>19
  <1> QED
    BY <1>12, <1>13, <1>14

-----------------------------------------------------------------------------
\* The control messages and the session header

\* p is what a reader has of message m past its first k bytes: less of it, or more
\* than the message.
Reads(p, m, k) == \A i \in 1 .. Len(p) : i + k <= Len(m) => p[i] = m[i + k]

LEMMA ReadsAt ==
    ASSUME NEW p \in String, NEW m \in String, NEW k \in Nat, NEW o \in Nat, NEW x \in String,
           Reads(p, m, k), At(m, k + o, x), o + Len(x) <= Len(p)
    PROVE  At(p, o, x)
  <1>1. Len(p) \in Nat /\ Len(m) \in Nat /\ Len(x) \in Nat
    BY LenIsNat
  <1>2. (k + o) + Len(x) <= Len(m)
    BY DEF At
  <1>3. ASSUME NEW i \in 1 .. Len(x) PROVE p[o + i] = x[i]
    <2>1. o + i \in 1 .. Len(p) /\ (o + i) + k <= Len(m) /\ (o + i) + k = (k + o) + i
      BY <1>1, <1>2
    <2>2. p[o + i] = m[(o + i) + k]
      BY <2>1 DEF Reads
    <2>3. m[(k + o) + i] = x[i]
      BY DEF At
    <2> QED
      BY <2>1, <2>2, <2>3
  <1> QED
    BY <1>3 DEF At

LEMMA ResliceAt ==
    ASSUME NEW p \in String, NEW x \in String, NEW o \in Nat, At(p, o, x)
    PROVE  Reslice(p, o, Len(x)) = x
  <1>1. Len(p) \in Nat /\ Len(x) \in Nat /\ o + Len(x) <= Len(p)
    BY LenIsNat DEF At
  <1> DEFINE r == [i \in 1 .. Len(x) |-> IF o + i <= Len(p) THEN p[o + i] ELSE Stale]
  <1>2. \A i \in 1 .. Len(x) : r[i] = x[i]
    BY <1>1 DEF At
  <1>3. \A i \in 1 .. Len(x) : x[i] \in Nat
    BY DEF String
  <1>4. r \in [1 .. Len(x) -> Nat]
    BY <1>2, <1>3
  <1>5. r \in Seq(Nat) /\ Len(r) = Len(x)
    BY <1>1, <1>4
  <1>6. r = x
    BY <1>2, <1>5, SeqEqual DEF String
  <1> QED
    BY <1>6 DEF Reslice

\* In m stands the string s of n bytes, its length before it, o bytes past the k that a
\* reader does not have.
FieldAt(m, k, o, s, n) == s \in String /\ Fits16(n) /\ n = Len(s) /\ At(m, k + o, Str16(s))

\* It is read back whole if the reader has all of it, and its length if the reader has
\* that.
LEMMA FieldRead ==
    ASSUME NEW p \in String, NEW m \in String, NEW k \in Nat, NEW o \in Nat, NEW s, NEW n,
           Reads(p, m, k), FieldAt(m, k, o, s, n)
    PROVE  /\ o + 2 <= Len(p) => Uint16(p, o) = n
           /\ (o + 2) + n <= Len(p) => Bytes(p, o + 2, n) = s /\ Reslice(p, o + 2, n) = s
  <1>1. s \in String /\ Fits16(Len(s)) /\ n = Len(s) /\ At(m, k + o, Str16(s))
    BY DEF FieldAt
  <1>2. /\ Str16(s) \in String /\ Len(s) \in Nat
        /\ At(Str16(s), 0, PutUint16(Len(s))) /\ At(Str16(s), 2, s)
        /\ PutUint16(Len(s)) \in String /\ Len(PutUint16(Len(s))) = 2
    BY <1>1, LenIsNat, Str16Facts, PutUint16Type
  <1>3. At(m, (k + o) + 0, PutUint16(Len(s))) /\ At(m, (k + o) + 2, s)
    BY <1>1, <1>2, AtInside
  <1>4. At(m, k + o, PutUint16(Len(s))) /\ At(m, k + (o + 2), s)
    <2>1. (k + o) + 0 = k + o /\ (k + o) + 2 = k + (o + 2)
      OBVIOUS
    <2> QED
      BY <1>3, <2>1
  <1>5. ASSUME o + 2 <= Len(p) PROVE Uint16(p, o) = Len(s)
    <2>1. At(p, o, PutUint16(Len(s)))
      BY <1>2, <1>4, <1>5, ReadsAt
    <2> QED
      BY <1>1, <2>1, Uint16At
  <1>6. ASSUME (o + 2) + Len(s) <= Len(p)
        PROVE  Bytes(p, o + 2, Len(s)) = s /\ Reslice(p, o + 2, Len(s)) = s
    <2>1. o + 2 \in Nat
      OBVIOUS
    <2>2. At(p, o + 2, s)
      BY <1>1, <1>4, <1>6, <2>1, ReadsAt
    <2> QED
      BY <1>1, <2>1, <2>2, BytesAt, ResliceAt
  <1> QED
    BY <1>1, <1>5, <1>6

LEMMA ByteRead ==
    ASSUME NEW p \in String, NEW m \in String, NEW k \in Nat, NEW o \in Nat, NEW c \in Nat,
           Reads(p, m, k), At(m, k + o, <<c>>), o + 1 <= Len(p)
    PROVE  p[o + 1] = c
  <1>1. <<c>> \in String /\ Len(<<c>>) = 1 /\ <<c>>[1] = c
    BY DEF String
  <1>2. At(p, o, <<c>>)
    BY <1>1, ReadsAt
  <1> QED
    BY <1>1, <1>2 DEF At

\* What stands in a string stands there still when more is written behind it.
LEMMA Extended ==
    ASSUME NEW m \in String, NEW y \in String
    PROVE  /\ m \o y \in String /\ Len(m \o y) = Len(m) + Len(y) /\ Len(m \o y) \in Nat
           /\ At(m \o y, Len(m), y)
           /\ \A o \in Nat, x \in String : At(m, o, x) => At(m \o y, o, x)
  BY ConcatType, LenIsNat, AtOwn, AtLeft

\* Where five parts stand in their concatenation.
LEMMA FiveParts ==
    ASSUME NEW a \in String, NEW b \in String, NEW c \in String, NEW d \in String, NEW e \in String
    PROVE  LET m == a \o b \o c \o d \o e
           IN  /\ m \in String /\ Len(m) = Len(a) + Len(b) + Len(c) + Len(d) + Len(e)
               /\ At(m, 0, a) /\ At(m, Len(a), b) /\ At(m, Len(a) + Len(b), c)
               /\ At(m, Len(a) + Len(b) + Len(c), d)
               /\ At(m, Len(a) + Len(b) + Len(c) + Len(d), e)
  <1> DEFINE m2 == a \o b
             m3 == m2 \o c
             m4 == m3 \o d
             m5 == m4 \o e
  <1>1. Len(a) \in Nat /\ Len(b) \in Nat /\ Len(c) \in Nat /\ Len(d) \in Nat /\ Len(e) \in Nat
    BY LenIsNat
  <1>2. /\ m2 \in String /\ Len(m2) = Len(a) + Len(b) /\ Len(m2) \in Nat
        /\ At(m2, 0, a) /\ At(m2, Len(a), b)
    BY <1>1, ConcatType, AtOwn
  <1> HIDE DEF m2
  <1>3. /\ m3 \in String /\ Len(m3) = Len(m2) + Len(c) /\ Len(m3) \in Nat
        /\ At(m3, Len(m2), c) /\ \A o \in Nat, x \in String : At(m2, o, x) => At(m3, o, x)
    BY <1>1, <1>2, Extended
  <1> HIDE DEF m3
  <1>4. /\ m4 \in String /\ Len(m4) = Len(m3) + Len(d) /\ Len(m4) \in Nat
        /\ At(m4, Len(m3), d) /\ \A o \in Nat, x \in String : At(m3, o, x) => At(m4, o, x)
    BY <1>1, <1>3, Extended
  <1> HIDE DEF m4
  <1>5. /\ m5 \in String /\ Len(m5) = Len(m4) + Len(e)
        /\ At(m5, Len(m4), e) /\ \A o \in Nat, x \in String : At(m4, o, x) => At(m5, o, x)
    BY <1>1, <1>4, Extended
  <1> HIDE DEF m5
  <1>6. a \o b \o c \o d \o e = m5
    BY DEF m2, m3, m4, m5
  <1>7. At(m3, 0, a) /\ At(m3, Len(a), b)
    BY <1>1, <1>2, <1>3
  <1>8. At(m4, 0, a) /\ At(m4, Len(a), b) /\ At(m4, Len(m2), c)
    BY <1>1, <1>2, <1>3, <1>4, <1>7
  <1>9. At(m5, 0, a) /\ At(m5, Len(a), b) /\ At(m5, Len(m2), c) /\ At(m5, Len(m3), d)
    BY <1>1, <1>2, <1>3, <1>4, <1>5, <1>8
  <1>10. /\ Len(m3) = Len(a) + Len(b) + Len(c) /\ Len(m4) = Len(a) + Len(b) + Len(c) + Len(d)
         /\ Len(m5) = Len(a) + Len(b) + Len(c) + Len(d) + Len(e)
    BY <1>2, <1>3, <1>4, <1>5
  <1> QED
    BY <1>2, <1>5, <1>6, <1>9, <1>10

\* A field whose length two bytes hold.
Field(s) == s \in String /\ Fits16(Len(s))

LEMMA FieldFacts ==
    ASSUME NEW s, Field(s)
    PROVE  /\ s \in String /\ Fits16(Len(s)) /\ Len(s) \in Nat
           /\ Str16(s) \in String /\ Len(Str16(s)) = 2 + Len(s)
  BY LenIsNat, Str16Facts DEF Field

LEMMA ByteString == ASSUME NEW c \in Nat PROVE <<c>> \in String /\ Len(<<c>>) = 1
  BY DEF String

\* The layout of a registration.
LEMMA RegisterLayout ==
    ASSUME NEW r, Field(r.id), Field(r.addr), Field(r.domain), Field(r.token), r.proto \in Nat
    PROVE  LET m == buildRegisterMessage(r)
               addrAt == 3 + Len(r.id)
               domAt == addrAt + 2 + Len(r.addr)
               tokAt == domAt + 2 + Len(r.domain)
           IN  /\ m \in String /\ Len(m) = 1 + (tokAt + 2 + Len(r.token))
               /\ At(m, 0, <<MsgTypeRegister>>) /\ At(m, 1 + 0, Str16(r.id))
               /\ At(m, 1 + (2 + Len(r.id)), <<r.proto>>) /\ At(m, 1 + addrAt, Str16(r.addr))
               /\ At(m, 1 + domAt, Str16(r.domain)) /\ At(m, 1 + tokAt, Str16(r.token))
  <1> DEFINE t == <<MsgTypeRegister>>
             i == Str16(r.id)
             p == <<r.proto>>
             a == Str16(r.addr)
             d == Str16(r.domain)
             k == Str16(r.token)
             il == Len(r.id)
             al == Len(r.addr)
             dl == Len(r.domain)
             tl == Len(r.token)
             m5 == t \o i \o p \o a \o d
             m == m5 \o k
  <1>1. /\ i \in String /\ Len(i) = 2 + il /\ a \in String /\ Len(a) = 2 + al
        /\ d \in String /\ Len(d) = 2 + dl /\ k \in String /\ Len(k) = 2 + tl
        /\ il \in Nat /\ al \in Nat /\ dl \in Nat /\ tl \in Nat
    BY FieldFacts
  <1>2. t \in String /\ Len(t) = 1 /\ p \in String /\ Len(p) = 1
    BY ByteString DEF MsgTypeRegister
  <1> HIDE DEF t, i, p, a, d, k, il, al, dl, tl
  <1>3. /\ m5 \in String /\ Len(m5) = Len(t) + Len(i) + Len(p) + Len(a) + Len(d)
        /\ At(m5, 0, t) /\ At(m5, Len(t), i) /\ At(m5, Len(t) + Len(i), p)
        /\ At(m5, Len(t) + Len(i) + Len(p), a)
        /\ At(m5, Len(t) + Len(i) + Len(p) + Len(a), d)
    <2>1. t \in String /\ i \in String /\ p \in String /\ a \in String /\ d \in String
      BY <1>1, <1>2
    <2> QED
      BY <2>1, FiveParts, Zenon
  <1> HIDE DEF m5
  <1>4. /\ Len(m5) = 1 + (3 + il + 2 + al + 2 + dl)
        /\ Len(t) = 1 + 0 /\ Len(t) + Len(i) = 1 + (2 + il) /\ Len(t) + Len(i) + Len(p) = 1 + (3 + il)
        /\ Len(t) + Len(i) + Len(p) + Len(a) = 1 + (3 + il + 2 + al)
    BY <1>1, <1>2, <1>3
  <1>5. /\ At(m5, 1 + 0, i) /\ At(m5, 1 + (2 + il), p) /\ At(m5, 1 + (3 + il), a)
        /\ At(m5, 1 + (3 + il + 2 + al), d)
    BY <1>3, <1>4
  <1>6. /\ 1 + 0 \in Nat /\ 1 + (2 + il) \in Nat /\ 1 + (3 + il) \in Nat
        /\ 1 + (3 + il + 2 + al) \in Nat
    BY <1>1
  <1>7. /\ m \in String /\ Len(m) = Len(m5) + Len(k) /\ At(m, Len(m5), k) /\ At(m, 0, t)
        /\ At(m, 1 + 0, i) /\ At(m, 1 + (2 + il), p) /\ At(m, 1 + (3 + il), a)
        /\ At(m, 1 + (3 + il + 2 + al), d)
    BY <1>1, <1>2, <1>3, <1>5, <1>6, ConcatType, AtOwn, AtLeft
  <1>8. m = buildRegisterMessage(r)
    BY DEF m5, t, i, p, a, d, k, buildRegisterMessage
  <1> HIDE DEF m
  <1>9. Len(m) = 1 + (3 + il + 2 + al + 2 + dl + 2 + tl) /\ At(m, 1 + (3 + il + 2 + al + 2 + dl), k)
    <2>1. At(m, 1 + (3 + il + 2 + al + 2 + dl), k)
      BY <1>4, <1>7
    <2>2. Len(m) = (1 + (3 + il + 2 + al + 2 + dl)) + (2 + tl)
      BY <1>1, <1>4, <1>7
    <2> QED
      BY <1>1, <2>1, <2>2
  <1> QED
    BY <1>7, <1>8, <1>9 DEF t, i, p, a, d, k, il, al, dl, tl

\* However much of a registration the server has read, it takes it as it was sent or
\* refuses it (parseRegisterPayload, quic.go:3844).
THEOREM RegistrationExact ==
    ASSUME NEW r, Field(r.id), Field(r.addr), Field(r.domain), Field(r.token), r.proto \in Nat,
           NEW p \in String, Reads(p, buildRegisterMessage(r), 1)
    PROVE  \/ parseRegisterPayload(p) = Err
           \/ /\ Len(p) >= Len(buildRegisterMessage(r)) - 1
              /\ parseRegisterPayload(p) =
                   Ok([id |-> r.id, proto |-> r.proto, addr |-> r.addr, domain |-> r.domain,
                       token |-> r.token])
  <1> DEFINE m == buildRegisterMessage(r)
             il == Len(r.id)
             al == Len(r.addr)
             dl == Len(r.domain)
             tl == Len(r.token)
             addrAt == 3 + il
             domAt == addrAt + 2 + al
             tokAt == domAt + 2 + dl
             A == 2 + Uint16(p, 0) + 1
             D == A + 2 + Uint16(p, A)
             T == D + 2 + Uint16(p, D)
             Accepted == /\ Len(p) >= 9
                         /\ 2 + Uint16(p, 0) < Len(p)
                         /\ p[A] \in ProtocolTCP .. ProtocolHTTP3
                         /\ A + 2 <= Len(p)
                         /\ D <= Len(p)
                         /\ D + 2 <= Len(p)
                         /\ Uint16(p, D) > 0 => T <= Len(p)
                         /\ T + 2 <= Len(p)
                         /\ T + 2 + Uint16(p, T) <= Len(p)
             result == Ok([id |-> Bytes(p, 2, Uint16(p, 0)), proto |-> p[A],
                           addr |-> Bytes(p, A + 2, Uint16(p, A)),
                           domain |-> Bytes(p, D + 2, Uint16(p, D)),
                           token |-> Bytes(p, T + 2, Uint16(p, T))])
  <1>1. /\ m \in String /\ Len(m) = 1 + (tokAt + 2 + tl)
        /\ At(m, 1 + 0, Str16(r.id)) /\ At(m, 1 + (2 + il), <<r.proto>>)
        /\ At(m, 1 + addrAt, Str16(r.addr)) /\ At(m, 1 + domAt, Str16(r.domain))
        /\ At(m, 1 + tokAt, Str16(r.token))
    BY RegisterLayout
  <1>2. /\ r.id \in String /\ r.addr \in String /\ r.domain \in String /\ r.token \in String
        /\ Fits16(il) /\ Fits16(al) /\ Fits16(dl) /\ Fits16(tl)
        /\ il \in Nat /\ al \in Nat /\ dl \in Nat /\ tl \in Nat
    BY FieldFacts
  <1>3. /\ FieldAt(m, 1, 0, r.id, il) /\ FieldAt(m, 1, addrAt, r.addr, al)
        /\ FieldAt(m, 1, domAt, r.domain, dl) /\ FieldAt(m, 1, tokAt, r.token, tl)
    BY <1>1, <1>2 DEF FieldAt
  <1>4. parseRegisterPayload(p) = IF Accepted THEN result ELSE Err
    BY DEF parseRegisterPayload
  <1>5. Reads(p, m, 1) /\ Len(p) \in Nat
    BY LenIsNat
  <1>6. Accepted => /\ Len(p) >= 9 /\ A + 2 <= Len(p) /\ D + 2 <= Len(p) /\ T + 2 <= Len(p)
                    /\ T + 2 + Uint16(p, T) <= Len(p)
    OBVIOUS
  <1> HIDE DEF m, Accepted, result, il, al, dl, tl
  <1> SUFFICES ASSUME Accepted
               PROVE  /\ Len(p) >= Len(m) - 1
                      /\ result = Ok([id |-> r.id, proto |-> r.proto, addr |-> r.addr,
                                      domain |-> r.domain, token |-> r.token])
    BY <1>4 DEF m
  <1>7. addrAt = 3 + il /\ domAt = addrAt + 2 + al /\ tokAt = domAt + 2 + dl
    OBVIOUS
  <1>8. A = 2 + Uint16(p, 0) + 1 /\ D = A + 2 + Uint16(p, A) /\ T = D + 2 + Uint16(p, D)
    OBVIOUS
  <1>9. addrAt \in Nat /\ domAt \in Nat /\ tokAt \in Nat
    BY <1>2
  <1> HIDE DEF addrAt, domAt, tokAt, A, D, T
  <1>10. Uint16(p, 0) = il
    <2>1. 0 + 2 <= Len(p)
      BY <1>5, <1>6
    <2> QED
      BY <1>1, <1>3, <1>5, <2>1, FieldRead
  <1>11. A = addrAt
    BY <1>2, <1>7, <1>8, <1>10
  <1>12. Uint16(p, addrAt) = al
    BY <1>1, <1>3, <1>5, <1>6, <1>9, <1>11, FieldRead
  <1>13. D = domAt
    BY <1>7, <1>8, <1>11, <1>12
  <1>14. Uint16(p, domAt) = dl
    BY <1>1, <1>3, <1>5, <1>6, <1>9, <1>13, FieldRead
  <1>15. T = tokAt
    BY <1>7, <1>8, <1>13, <1>14
  <1>16. Uint16(p, tokAt) = tl
    BY <1>1, <1>3, <1>5, <1>6, <1>9, <1>15, FieldRead
  <1>17. tokAt + 2 + tl <= Len(p)
    BY <1>6, <1>15, <1>16
  <1>18. /\ (0 + 2) + il <= Len(p) /\ (addrAt + 2) + al <= Len(p) /\ (domAt + 2) + dl <= Len(p)
         /\ (tokAt + 2) + tl <= Len(p) /\ 2 + il \in Nat /\ (2 + il) + 1 <= Len(p)
         /\ (2 + il) + 1 = addrAt /\ 0 + 2 = 2
    BY <1>2, <1>5, <1>7, <1>9, <1>17
  <1>19. Bytes(p, 0 + 2, il) = r.id
    BY <1>1, <1>3, <1>5, <1>18, FieldRead
  <1>20. Bytes(p, addrAt + 2, al) = r.addr
    BY <1>1, <1>3, <1>5, <1>9, <1>18, FieldRead
  <1>21. Bytes(p, domAt + 2, dl) = r.domain
    BY <1>1, <1>3, <1>5, <1>9, <1>18, FieldRead
  <1>22. Bytes(p, tokAt + 2, tl) = r.token
    BY <1>1, <1>3, <1>5, <1>9, <1>18, FieldRead
  <1>23. p[(2 + il) + 1] = r.proto
    BY <1>1, <1>5, <1>18, ByteRead
  <1>24. Len(p) >= Len(m) - 1
    <2>1. Len(m) - 1 = tokAt + 2 + tl
      BY <1>1, <1>2, <1>9
    <2> QED
      BY <1>17, <2>1, <1>2, <1>5, <1>9
  <1>25. result = Ok([id |-> r.id, proto |-> r.proto, addr |-> r.addr, domain |-> r.domain,
                      token |-> r.token])
    BY <1>10, <1>11, <1>12, <1>13, <1>14, <1>15, <1>16, <1>18, <1>19, <1>20, <1>21, <1>22, <1>23
       DEF result
  <1> QED
    BY <1>24, <1>25

\* The same for a session restore (handleSessionRestore).
THEOREM RestoreExact ==
    ASSUME NEW r, Field(r.id), Field(r.addr), r.proto \in Nat,
           NEW p \in String, Reads(p, sendSessionRestore(r), 1)
    PROVE  \/ parseSessionRestore(p) = Err
           \/ /\ Len(p) >= Len(sendSessionRestore(r)) - 1
              /\ parseSessionRestore(p) = Ok([id |-> r.id, proto |-> r.proto, addr |-> r.addr])
  <1> DEFINE m == sendSessionRestore(r)
             il == Len(r.id)
             al == Len(r.addr)
             addrAt == 3 + il
             t == <<MsgTypeSessionRestore>>
             A == 2 + Uint16(p, 0) + 1
             Accepted == /\ Len(p) >= 2
                         /\ Len(p) >= A
                         /\ Len(p) >= A + 2
                         /\ Len(p) >= A + 2 + Uint16(p, A) + 8
             result == Ok([id |-> Bytes(p, 2, Uint16(p, 0)), proto |-> p[A],
                           addr |-> Bytes(p, A + 2, Uint16(p, A))])
  <1>1. /\ r.id \in String /\ r.addr \in String /\ Fits16(il) /\ Fits16(al)
        /\ il \in Nat /\ al \in Nat
        /\ Str16(r.id) \in String /\ Len(Str16(r.id)) = 2 + il
        /\ Str16(r.addr) \in String /\ Len(Str16(r.addr)) = 2 + al
    BY FieldFacts
  <1>2. /\ t \in String /\ Len(t) = 1 /\ <<r.proto>> \in String /\ Len(<<r.proto>>) = 1
        /\ Timestamp \in String /\ Len(Timestamp) = 8
    <2>1. Timestamp \in Seq(Nat) /\ Len(Timestamp) = 8
      BY DEF Timestamp
    <2> QED
      BY <2>1, ByteString DEF MsgTypeSessionRestore, String
  <1>3. parseSessionRestore(p) = IF Accepted THEN result ELSE Err
    BY DEF parseSessionRestore
  <1>4. Reads(p, m, 1) /\ Len(p) \in Nat
    BY LenIsNat
  <1>5. m = t \o Str16(r.id) \o <<r.proto>> \o Str16(r.addr) \o Timestamp
    BY DEF sendSessionRestore
  <1>6. /\ m \in String
        /\ Len(m) = Len(t) + Len(Str16(r.id)) + Len(<<r.proto>>) + Len(Str16(r.addr)) + Len(Timestamp)
        /\ At(m, Len(t), Str16(r.id)) /\ At(m, Len(t) + Len(Str16(r.id)), <<r.proto>>)
        /\ At(m, Len(t) + Len(Str16(r.id)) + Len(<<r.proto>>), Str16(r.addr))
    <2> DEFINE i == Str16(r.id)
               o == <<r.proto>>
               a == Str16(r.addr)
               x == t \o i \o o \o a \o Timestamp
    <2>1. t \in String /\ i \in String /\ o \in String /\ a \in String /\ Timestamp \in String
      BY <1>1, <1>2
    <2> HIDE DEF m, t, i, o, a
    <2>2. /\ x \in String /\ Len(x) = Len(t) + Len(i) + Len(o) + Len(a) + Len(Timestamp)
          /\ At(x, 0, t) /\ At(x, Len(t), i) /\ At(x, Len(t) + Len(i), o)
          /\ At(x, Len(t) + Len(i) + Len(o), a)
          /\ At(x, Len(t) + Len(i) + Len(o) + Len(a), Timestamp)
      BY <2>1, FiveParts, Zenon
    <2>3. m = x
      BY <1>5 DEF i, o, a
    <2> HIDE DEF x
    <2> QED
      BY <2>2, <2>3 DEF i, o, a
  <1>7. Accepted => A + 2 <= Len(p) /\ A + 2 + Uint16(p, A) + 8 <= Len(p) /\ 2 <= Len(p)
    BY <1>4
  <1> HIDE DEF m, t, il, al, Accepted, result
  <1>8. addrAt = 3 + il /\ addrAt \in Nat /\ A = 2 + Uint16(p, 0) + 1
    BY <1>1
  <1> HIDE DEF addrAt, A
  <1>9. /\ Len(m) = 1 + (addrAt + 2 + al + 8)
        /\ Len(t) = 1 + 0 /\ Len(t) + Len(Str16(r.id)) = 1 + (2 + il)
        /\ Len(t) + Len(Str16(r.id)) + Len(<<r.proto>>) = 1 + addrAt
    BY <1>1, <1>2, <1>6, <1>8
  <1>10. At(m, 1 + 0, Str16(r.id)) /\ At(m, 1 + (2 + il), <<r.proto>>) /\ At(m, 1 + addrAt, Str16(r.addr))
    BY <1>6, <1>9
  <1>11. FieldAt(m, 1, 0, r.id, il) /\ FieldAt(m, 1, addrAt, r.addr, al)
    BY <1>1, <1>10 DEF FieldAt, il, al
  <1> SUFFICES ASSUME Accepted
               PROVE  /\ Len(p) >= Len(m) - 1
                      /\ result = Ok([id |-> r.id, proto |-> r.proto, addr |-> r.addr])
    BY <1>3 DEF m
  <1>12. Uint16(p, 0) = il
    <2>1. 0 + 2 <= Len(p)
      BY <1>7
    <2> QED
      BY <1>4, <1>6, <1>11, <2>1, FieldRead
  <1>13. A = addrAt
    BY <1>1, <1>8, <1>12
  <1>14. Uint16(p, addrAt) = al
    BY <1>4, <1>6, <1>7, <1>8, <1>11, <1>13, FieldRead
  <1>15. addrAt + 2 + al + 8 <= Len(p)
    BY <1>7, <1>13, <1>14
  <1>16. /\ (0 + 2) + il <= Len(p) /\ (addrAt + 2) + al <= Len(p)
         /\ 2 + il \in Nat /\ (2 + il) + 1 <= Len(p) /\ (2 + il) + 1 = addrAt /\ 0 + 2 = 2
    BY <1>1, <1>4, <1>8, <1>15
  <1>17. Bytes(p, 0 + 2, il) = r.id
    BY <1>4, <1>6, <1>11, <1>16, FieldRead
  <1>18. Bytes(p, addrAt + 2, al) = r.addr
    BY <1>4, <1>6, <1>8, <1>11, <1>16, FieldRead
  <1>19. p[(2 + il) + 1] = r.proto
    BY <1>4, <1>6, <1>10, <1>16, ByteRead
  <1>20. Len(p) >= Len(m) - 1
    <2>1. Len(m) - 1 = addrAt + 2 + al + 8
      BY <1>1, <1>8, <1>9
    <2> QED
      BY <1>1, <1>4, <1>8, <1>15, <2>1
  <1>21. result = Ok([id |-> r.id, proto |-> r.proto, addr |-> r.addr])
    BY <1>12, <1>13, <1>14, <1>16, <1>17, <1>18, <1>19 DEF result
  <1> QED
    BY <1>20, <1>21

\* What Ok wraps.
LEMMA OkAck ==
    ASSUME NEW i, NEW u, NEW e
    PROVE  LET q == Ok([id |-> i, url |-> u, err |-> e])
           IN  q.res = "ok" /\ q.id = i /\ q.url = u /\ q.err = e
  BY DEF Ok

\* However much of an acknowledgement the client has read, and whatever follows it, it
\* takes the ID and the URL whole, and an error for an error, or runs off the end
\* (readRegisterAck, quic.go:2936).
THEOREM AckExact ==
    ASSUME NEW a, Field(a.id), Field(a.url), Field(a.err), a.port \in Nat,
           NEW p \in String, Reads(p, sendRegisterAck(a), 1), parseRegisterAck(p) # Panic
    PROVE  /\ parseRegisterAck(p).id = a.id /\ parseRegisterAck(p).url = a.url
           /\ parseRegisterAck(p).err = <<>> <=> a.err = <<>>
  <1> DEFINE m == sendRegisterAck(a)
             il == Len(a.id)
             ul == Len(a.url)
             el == Len(a.err)
             urlAt == 2 + il
             errAt == urlAt + 2 + ul + 2
             t == <<MsgTypeRegisterAck>>
             port == PutUint16(a.port)
             U == 2 + Uint16(p, 0)
             E == U + 2 + Uint16(p, U) + 2
             Fine == 2 <= Len(p) /\ U + 2 <= Len(p) /\ E + 2 <= Len(p)
             error == Reslice(p, E + 2, Uint16(p, E))
             result == Ok([id |-> Reslice(p, 2, Uint16(p, 0)),
                           url |-> Reslice(p, U + 2, Uint16(p, U)), err |-> error])
  <1>1. /\ a.id \in String /\ a.url \in String /\ a.err \in String
        /\ Fits16(il) /\ Fits16(ul) /\ Fits16(el) /\ il \in Nat /\ ul \in Nat /\ el \in Nat
        /\ Str16(a.id) \in String /\ Len(Str16(a.id)) = 2 + il
        /\ Str16(a.url) \in String /\ Len(Str16(a.url)) = 2 + ul
        /\ Str16(a.err) \in String /\ Len(Str16(a.err)) = 2 + el
    BY FieldFacts
  <1>2. t \in String /\ Len(t) = 1 /\ port \in String /\ Len(port) = 2
    BY ByteString, PutUint16Type DEF MsgTypeRegisterAck
  <1>3. parseRegisterAck(p) = IF Fine THEN result ELSE Panic
    BY DEF parseRegisterAck
  <1>4. Reads(p, m, 1) /\ Len(p) \in Nat
    BY LenIsNat
  <1>5. m = t \o Str16(a.id) \o Str16(a.url) \o port \o Str16(a.err)
    BY DEF sendRegisterAck
  <1>6. /\ m \in String
        /\ At(m, Len(t), Str16(a.id)) /\ At(m, Len(t) + Len(Str16(a.id)), Str16(a.url))
        /\ At(m, Len(t) + Len(Str16(a.id)) + Len(Str16(a.url)) + Len(port), Str16(a.err))
    <2> DEFINE i == Str16(a.id)
               u == Str16(a.url)
               e == Str16(a.err)
               x == t \o i \o u \o port \o e
    <2>1. t \in String /\ i \in String /\ u \in String /\ port \in String /\ e \in String
      BY <1>1, <1>2
    <2> HIDE DEF m, t, port, i, u, e
    <2>2. /\ x \in String /\ Len(x) = Len(t) + Len(i) + Len(u) + Len(port) + Len(e)
          /\ At(x, 0, t) /\ At(x, Len(t), i) /\ At(x, Len(t) + Len(i), u)
          /\ At(x, Len(t) + Len(i) + Len(u), port)
          /\ At(x, Len(t) + Len(i) + Len(u) + Len(port), e)
      BY <2>1, FiveParts, Zenon
    <2>3. m = x
      BY <1>5 DEF i, u, e
    <2> HIDE DEF x
    <2> QED
      BY <2>2, <2>3 DEF i, u, e
  <1> HIDE DEF m, t, port, il, ul, el, result, error
  <1>7. /\ Len(t) = 1 + 0 /\ Len(t) + Len(Str16(a.id)) = 1 + urlAt
        /\ Len(t) + Len(Str16(a.id)) + Len(Str16(a.url)) + Len(port) = 1 + errAt
    BY <1>1, <1>2
  <1>8. /\ urlAt = 2 + il /\ errAt = urlAt + 2 + ul + 2 /\ urlAt \in Nat /\ errAt \in Nat
        /\ U = 2 + Uint16(p, 0) /\ E = U + 2 + Uint16(p, U) + 2
    BY <1>1
  <1>9. Fine /\ parseRegisterAck(p) = result
    BY <1>3
  <1>10. 2 <= Len(p) /\ U + 2 <= Len(p) /\ E + 2 <= Len(p)
    BY <1>9
  <1> HIDE DEF urlAt, errAt, U, E, Fine
  <1>11. At(m, 1 + 0, Str16(a.id)) /\ At(m, 1 + urlAt, Str16(a.url)) /\ At(m, 1 + errAt, Str16(a.err))
    BY <1>6, <1>7
  <1>12. /\ FieldAt(m, 1, 0, a.id, il) /\ FieldAt(m, 1, urlAt, a.url, ul)
         /\ FieldAt(m, 1, errAt, a.err, el)
    BY <1>1, <1>11 DEF FieldAt, il, ul, el
  <1>13. Uint16(p, 0) = il
    <2>1. 0 + 2 <= Len(p)
      BY <1>10
    <2> QED
      BY <1>4, <1>6, <1>12, <2>1, FieldRead
  <1>14. U = urlAt
    BY <1>8, <1>13
  <1>15. Uint16(p, urlAt) = ul
    BY <1>4, <1>6, <1>8, <1>10, <1>12, <1>14, FieldRead
  <1>16. E = errAt
    BY <1>8, <1>14, <1>15
  <1>17. Uint16(p, errAt) = el
    BY <1>4, <1>6, <1>8, <1>10, <1>12, <1>16, FieldRead
  <1>18. (0 + 2) + il <= Len(p) /\ (urlAt + 2) + ul <= Len(p) /\ 0 + 2 = 2
    <2>1. urlAt + 2 + ul + 2 + 2 <= Len(p) /\ urlAt = 2 + il
      BY <1>8, <1>10, <1>16
    <2> QED
      BY <1>1, <1>4, <1>8, <2>1
  <1>19. Reslice(p, 0 + 2, il) = a.id
    BY <1>4, <1>6, <1>12, <1>18, FieldRead
  <1>20. Reslice(p, urlAt + 2, ul) = a.url
    BY <1>4, <1>6, <1>8, <1>12, <1>18, FieldRead
  <1>21. result = Ok([id |-> a.id, url |-> a.url, err |-> error])
    BY <1>13, <1>14, <1>15, <1>18, <1>19, <1>20 DEF result
  <1>22. error = <<>> <=> a.err = <<>>
    <2>1. error = [i \in 1 .. el |-> IF (E + 2) + i <= Len(p) THEN p[(E + 2) + i] ELSE Stale]
      BY <1>16, <1>17 DEF error, Reslice
    <2>2. el = 0 => error = <<>>
      BY <2>1
    <2>3. el # 0 => 1 \in DOMAIN error
      BY <1>1, <2>1
    <2>4. error = <<>> => 1 \notin DOMAIN error
      OBVIOUS
    <2>5. el = 0 <=> a.err = <<>>
      BY <1>1 DEF el, String
    <2> QED
      BY <2>2, <2>3, <2>4, <2>5
  <1> QED
    BY <1>9, <1>21, <1>22, OkAck

-----------------------------------------------------------------------------
\* The session header

\* Headers: the address type is given, or found from the target.
Header(h) ==
    /\ h.proto \in Nat /\ h.addrType \in Nat /\ h.flags \in Nat /\ Fits32(h.stream)
    /\ Field(h.target) /\ Field(h.conn)

\* The address type that is written.
TypeWritten(h) == IF h.addrType = 0 THEN detectAddrType(h.target) ELSE h.addrType

LEMMA TypeWrittenNat == ASSUME NEW h, Header(h) PROVE TypeWritten(h) \in Nat
  <1>1. detectAddrType(h.target) \in {1, 2, 3}
    BY DEF detectAddrType
  <1> QED
    BY <1>1 DEF TypeWritten, Header

\* The layout of a header.
LEMMA HeaderLayout ==
    ASSUME NEW h, Header(h)
    PROVE  LET d == EncodeSessionHeader(h)
               flagsAt == 4 + Len(h.target)
               connAt == flagsAt + 3
               mapped == HasFrameMap(h.proto, h.flags)
           IN  /\ d \in String
               /\ Len(d) = connAt + Len(h.conn) + (IF mapped THEN 4 ELSE 0)
               /\ d[1] = h.proto /\ d[2] = TypeWritten(h)
               /\ At(d, 2, Str16(h.target)) /\ At(d, flagsAt, <<h.flags>>)
               /\ At(d, flagsAt + 1, Str16(h.conn))
               /\ mapped => At(d, connAt + Len(h.conn), PutUint32(h.stream))
  <1> DEFINE mapped == HasFrameMap(h.proto, h.flags)
             t == <<h.proto, TypeWritten(h)>>
             a == Str16(h.target)
             f == <<h.flags>>
             c == Str16(h.conn)
             x == IF mapped THEN PutUint32(h.stream) ELSE <<>>
             d == t \o a \o f \o c \o x
             al == Len(h.target)
             cl == Len(h.conn)
  <1>1. h.proto \in Nat /\ h.flags \in Nat /\ TypeWritten(h) \in Nat /\ h.stream \in Nat
    BY TypeWrittenNat DEF Header, Fits32
  <1>2. /\ a \in String /\ Len(a) = 2 + al /\ c \in String /\ Len(c) = 2 + cl
        /\ al \in Nat /\ cl \in Nat
    BY FieldFacts DEF Header
  <1>3. t \in String /\ Len(t) = 2 /\ t[1] = h.proto /\ t[2] = TypeWritten(h)
    BY <1>1 DEF String
  <1>4. f \in String /\ Len(f) = 1
    BY <1>1, ByteString
  <1>5. x \in String /\ Len(x) = IF mapped THEN 4 ELSE 0
    <2>1. PutUint32(h.stream) \in String /\ Len(PutUint32(h.stream)) = 4
      BY <1>1, PutUint32Type
    <2>2. CASE mapped
      BY <2>1, <2>2
    <2>3. CASE ~mapped
      BY <2>3, EmptyString
    <2> QED
      BY <2>2, <2>3
  <1>6. d = EncodeSessionHeader(h)
    BY DEF EncodeSessionHeader, TypeWritten
  <1>7. mapped => x = PutUint32(h.stream)
    OBVIOUS
  <1> HIDE DEF t, a, f, c, x, al, cl, mapped
  <1>8. /\ d \in String /\ Len(d) = Len(t) + Len(a) + Len(f) + Len(c) + Len(x)
        /\ At(d, 0, t) /\ At(d, Len(t), a) /\ At(d, Len(t) + Len(a), f)
        /\ At(d, Len(t) + Len(a) + Len(f), c) /\ At(d, Len(t) + Len(a) + Len(f) + Len(c), x)
    <2>1. t \in String /\ a \in String /\ f \in String /\ c \in String /\ x \in String
      BY <1>2, <1>3, <1>4, <1>5
    <2> QED
      BY <2>1, FiveParts, Zenon
  <1> HIDE DEF d
  <1>9. /\ Len(t) = 2 /\ Len(t) + Len(a) = 4 + al /\ Len(t) + Len(a) + Len(f) = (4 + al) + 1
        /\ Len(t) + Len(a) + Len(f) + Len(c) = (4 + al) + 3 + cl
        /\ Len(d) = (4 + al) + 3 + cl + Len(x)
    BY <1>2, <1>3, <1>4, <1>5, <1>8
  <1>10. d[1] = h.proto /\ d[2] = TypeWritten(h)
    <2>1. \A i \in 1 .. Len(t) : d[0 + i] = t[i]
      BY <1>8 DEF At
    <2>2. 1 \in 1 .. Len(t) /\ 2 \in 1 .. Len(t)
      BY <1>3
    <2>3. d[0 + 1] = t[1] /\ d[0 + 2] = t[2]
      BY <2>1, <2>2
    <2> QED
      BY <1>3, <2>3
  <1>11. /\ At(d, 2, a) /\ At(d, 4 + al, f) /\ At(d, (4 + al) + 1, c)
         /\ mapped => At(d, (4 + al) + 3 + cl, PutUint32(h.stream))
    BY <1>7, <1>8, <1>9
  <1> QED
    BY <1>5, <1>6, <1>8, <1>9, <1>10, <1>11 DEF a, f, c, al, cl, mapped

\* What a reader of a header, and of what follows it, finds in it.
LEMMA HeaderRead ==
    ASSUME NEW h, Header(h), NEW p \in String, Reads(p, EncodeSessionHeader(h), 0)
    PROVE  LET flagsAt == 4 + Len(h.target)
               connAt == flagsAt + 3
               size == connAt + Len(h.conn)
           IN  /\ 2 <= Len(p) => p[1] = h.proto /\ p[2] = TypeWritten(h)
               /\ 4 <= Len(p) => Uint16(p, 2) = Len(h.target)
               /\ connAt <= Len(p) => /\ p[flagsAt + 1] = h.flags
                                      /\ Uint16(p, flagsAt + 1) = Len(h.conn)
                                      /\ Bytes(p, 4, Len(h.target)) = h.target
               /\ size <= Len(p) => Bytes(p, connAt, Len(h.conn)) = h.conn
               /\ HasFrameMap(h.proto, h.flags) /\ size + 4 <= Len(p) => Uint32(p, size) = h.stream
  <1> DEFINE d == EncodeSessionHeader(h)
             al == Len(h.target)
             cl == Len(h.conn)
             flagsAt == 4 + al
             connAt == flagsAt + 3
             size == connAt + cl
             mapped == HasFrameMap(h.proto, h.flags)
             s4 == PutUint32(h.stream)
  <1>1. /\ d \in String
        /\ Len(d) = connAt + Len(h.conn) + (IF mapped THEN 4 ELSE 0)
        /\ d[1] = h.proto /\ d[2] = TypeWritten(h)
        /\ At(d, 2, Str16(h.target)) /\ At(d, flagsAt, <<h.flags>>)
        /\ At(d, flagsAt + 1, Str16(h.conn))
        /\ mapped => At(d, size, s4)
    BY HeaderLayout
  <1>2. /\ h.target \in String /\ h.conn \in String /\ Fits16(al) /\ Fits16(cl)
        /\ al \in Nat /\ cl \in Nat
    BY FieldFacts DEF Header
  <1>3. h.flags \in Nat /\ Fits32(h.stream) /\ s4 \in String /\ Len(s4) = 4
    BY PutUint32Type DEF Header, Fits32
  <1>4. Reads(p, d, 0) /\ Len(p) \in Nat
    BY LenIsNat
  <1>5. Len(d) \in Nat /\ 2 <= Len(d)
    <2>1. Len(d) = 4 + al + 3 + cl + (IF mapped THEN 4 ELSE 0)
      BY <1>1
    <2> HIDE DEF d, al, cl, mapped
    <2> QED
      BY <1>2, <2>1
  <1> DEFINE afterFlags == flagsAt + 1
  <1> HIDE DEF d, al, cl, mapped, s4
  <1>6. /\ flagsAt \in Nat /\ afterFlags \in Nat /\ size \in Nat
        /\ afterFlags + 2 = connAt /\ size = connAt + cl /\ connAt = 4 + al + 3 /\ flagsAt = 4 + al
        /\ afterFlags = flagsAt + 1
        /\ 0 + 2 = 2 /\ 0 + flagsAt = flagsAt /\ 0 + afterFlags = afterFlags /\ 0 + size = size
    BY <1>2
  <1>7. /\ FieldAt(d, 0, 2, h.target, al) /\ FieldAt(d, 0, afterFlags, h.conn, cl)
        /\ At(d, 0 + flagsAt, <<h.flags>>) /\ (mapped => At(d, 0 + size, s4))
    <2>1. At(d, 0 + 2, Str16(h.target)) /\ At(d, 0 + afterFlags, Str16(h.conn))
      BY <1>1, <1>6
    <2>2. At(d, 0 + flagsAt, <<h.flags>>) /\ (mapped => At(d, 0 + size, s4))
      BY <1>1, <1>6
    <2> QED
      BY <1>2, <2>1, <2>2 DEF FieldAt, al, cl
  <1> HIDE DEF flagsAt, connAt, size, afterFlags
  <1>8. ASSUME 2 <= Len(p) PROVE p[1] = h.proto /\ p[2] = TypeWritten(h)
    <2>1. 1 \in 1 .. Len(p) /\ 2 \in 1 .. Len(p) /\ 1 + 0 <= Len(d) /\ 2 + 0 <= Len(d)
      BY <1>4, <1>5, <1>8
    <2>2. p[1] = d[1 + 0] /\ p[2] = d[2 + 0]
      BY <1>4, <2>1 DEF Reads
    <2> QED
      BY <1>1, <2>2
  <1>9. ASSUME 4 <= Len(p) PROVE Uint16(p, 2) = al
    <2>1. 2 + 2 <= Len(p)
      BY <1>9
    <2> QED
      BY <1>1, <1>4, <1>7, <2>1, FieldRead
  <1>10. ASSUME connAt <= Len(p)
         PROVE  p[flagsAt + 1] = h.flags /\ Uint16(p, afterFlags) = cl /\ Bytes(p, 4, al) = h.target
    <2>1. flagsAt + 1 <= Len(p) /\ afterFlags + 2 <= Len(p) /\ (2 + 2) + al <= Len(p) /\ 2 + 2 = 4
      BY <1>2, <1>4, <1>6, <1>10
    <2>2. p[flagsAt + 1] = h.flags
      BY <1>1, <1>3, <1>4, <1>6, <1>7, <2>1, ByteRead
    <2>3. Uint16(p, afterFlags) = cl
      BY <1>1, <1>4, <1>6, <1>7, <2>1, FieldRead
    <2>4. Bytes(p, 2 + 2, al) = h.target
      BY <1>1, <1>4, <1>7, <2>1, FieldRead
    <2> QED
      BY <2>1, <2>2, <2>3, <2>4
  <1>11. ASSUME size <= Len(p) PROVE Bytes(p, connAt, cl) = h.conn
    <2>1. (afterFlags + 2) + cl <= Len(p)
      BY <1>6, <1>11
    <2>2. Bytes(p, afterFlags + 2, cl) = h.conn
      BY <1>1, <1>4, <1>6, <1>7, <2>1, FieldRead
    <2> QED
      BY <1>6, <2>2
  <1>12. ASSUME mapped, size + 4 <= Len(p) PROVE Uint32(p, size) = h.stream
    <2>1. At(d, 0 + size, s4) /\ size + Len(s4) <= Len(p)
      BY <1>3, <1>7, <1>12
    <2>2. At(p, size, s4)
      BY <1>1, <1>3, <1>4, <1>6, <2>1, ReadsAt
    <2> QED
      BY <1>3, <1>6, <2>2, Uint32At DEF s4
  <1> QED
    BY <1>8, <1>9, <1>10, <1>11, <1>12 DEF al, cl, mapped, flagsAt, connAt, size, afterFlags

\* A header is decoded to itself whatever follows it, and a part of one is refused
\* (Encode and DecodeSessionHeader, quic.go:156, 226).
THEOREM HeaderExact ==
    ASSUME NEW h, Header(h), NEW p \in String, Reads(p, EncodeSessionHeader(h), 0)
    PROVE  DecodeSessionHeader(p) =
             IF Len(p) >= Len(EncodeSessionHeader(h))
             THEN Ok([proto |-> h.proto, addrType |-> TypeWritten(h), target |-> h.target,
                      flags |-> h.flags, conn |-> h.conn,
                      stream |-> IF HasFrameMap(h.proto, h.flags) THEN h.stream ELSE 0])
             ELSE Err
  <1> DEFINE al == Len(h.target)
             cl == Len(h.conn)
             flagsAt == 4 + al
             connAt == flagsAt + 3
             size == connAt + cl
             mapped == HasFrameMap(h.proto, h.flags)
             n == Len(EncodeSessionHeader(h))
             F == 4 + Uint16(p, 2)
             C == F + 3
             CL == Uint16(p, F + 1)
             M == HasFrameMap(p[1], p[F + 1])
             Fine == /\ Len(p) >= 7
                     /\ Len(p) >= F + 3
                     /\ Len(p) >= C + CL
                     /\ M => Len(p) >= C + CL + 4
             result == Ok([proto |-> p[1], addrType |-> p[2], target |-> Bytes(p, 4, F - 4),
                           flags |-> p[F + 1], conn |-> Bytes(p, C, CL),
                           stream |-> IF M THEN Uint32(p, C + CL) ELSE 0])
             value == Ok([proto |-> h.proto, addrType |-> TypeWritten(h), target |-> h.target,
                          flags |-> h.flags, conn |-> h.conn,
                          stream |-> IF mapped THEN h.stream ELSE 0])
  <1>1. al \in Nat /\ cl \in Nat /\ Len(p) \in Nat
    BY FieldFacts, LenIsNat DEF Header
  <1>2. n = size + (IF mapped THEN 4 ELSE 0)
    BY HeaderLayout
  <1>3. DecodeSessionHeader(p) = IF Fine THEN result ELSE Err
    BY DEF DecodeSessionHeader
  <1>4. /\ 2 <= Len(p) => p[1] = h.proto /\ p[2] = TypeWritten(h)
        /\ 4 <= Len(p) => Uint16(p, 2) = al
        /\ connAt <= Len(p) => /\ p[flagsAt + 1] = h.flags
                               /\ Uint16(p, flagsAt + 1) = cl
                               /\ Bytes(p, 4, al) = h.target
        /\ size <= Len(p) => Bytes(p, connAt, cl) = h.conn
        /\ mapped /\ size + 4 <= Len(p) => Uint32(p, size) = h.stream
    BY HeaderRead
  <1> HIDE DEF al, cl, mapped, n, Fine, result, value
  <1>5. ASSUME Len(p) >= 7 PROVE F = flagsAt /\ C = connAt /\ p[1] = h.proto /\ p[2] = TypeWritten(h)
    BY <1>1, <1>4, <1>5
  <1>6. ASSUME Len(p) >= 7, Len(p) >= F + 3
        PROVE  CL = cl /\ p[F + 1] = h.flags /\ Bytes(p, 4, al) = h.target /\ (M <=> mapped)
    <2>1. F = flagsAt /\ p[1] = h.proto /\ connAt <= Len(p)
      BY <1>1, <1>5, <1>6
    <2>2. p[F + 1] = h.flags /\ CL = cl /\ Bytes(p, 4, al) = h.target
      BY <1>4, <2>1
    <2> QED
      BY <2>1, <2>2 DEF mapped
  <1> HIDE DEF M, CL
  <1>7. ASSUME Fine PROVE Len(p) >= n
    <2>1. Len(p) >= 7 /\ Len(p) >= F + 3 /\ Len(p) >= C + CL /\ (M => Len(p) >= C + CL + 4)
      BY <1>7 DEF Fine, CL, M
    <2>2. C = connAt /\ CL = cl /\ (M <=> mapped)
      BY <1>5, <1>6, <2>1
    <2> QED
      BY <1>1, <1>2, <2>1, <2>2
  <1>8. ASSUME Len(p) >= n PROVE Fine /\ result = value
    <2>1. Len(p) >= size /\ Len(p) >= 7 /\ (mapped => Len(p) >= size + 4)
      BY <1>1, <1>2, <1>8
    <2>2. F = flagsAt /\ C = connAt /\ p[1] = h.proto /\ p[2] = TypeWritten(h)
      BY <1>5, <2>1
    <2>3. Len(p) >= F + 3
      BY <1>1, <2>1, <2>2
    <2>4. CL = cl /\ p[F + 1] = h.flags /\ Bytes(p, 4, al) = h.target /\ (M <=> mapped)
      BY <1>6, <2>1, <2>3
    <2>5. C + CL = size
      BY <2>2, <2>4
    <2>6. Fine
      BY <2>1, <2>3, <2>4, <2>5 DEF Fine, CL, M
    <2>7. F - 4 = al /\ Bytes(p, C, CL) = h.conn
      BY <1>1, <1>4, <2>1, <2>2, <2>4
    <2>8. (IF M THEN Uint32(p, C + CL) ELSE 0) = IF mapped THEN h.stream ELSE 0
      <3>1. CASE mapped
        <4>1. Uint32(p, size) = h.stream
          BY <1>4, <2>1, <3>1
        <4> QED
          BY <2>4, <2>5, <3>1, <4>1
      <3>2. CASE ~mapped
        BY <2>4, <3>2
      <3> QED
        BY <3>1, <3>2
    <2> HIDE DEF F, C
    <2>9. result = value
      BY <2>2, <2>4, <2>7, <2>8 DEF result, value, CL, M
    <2> QED
      BY <2>6, <2>9
  <1> QED
    BY <1>3, <1>7, <1>8 DEF n, value, mapped

LEMMA ReadsJoined ==
    ASSUME NEW a \in String, NEW b \in String PROVE Reads(a \o b, a, 0)
  <1>1. \A i \in 1 .. Len(a) : (a \o b)[i] = a[i]
    BY DEF String
  <1>2. Len(a) \in Nat /\ Len(a \o b) \in Nat
    BY LenIsNat, ConcatType
  <1> QED
    BY <1>1, <1>2 DEF Reads

LEMMA RestOf ==
    ASSUME NEW a \in String, NEW b \in String
    PROVE  SubSeq(a \o b, Len(a) + 1, Len(a \o b)) = b
  <1>1. a \o b \in String /\ Len(a \o b) = Len(a) + Len(b) /\ Len(a) \in Nat
    BY ConcatType, LenIsNat
  <1>2. Bytes(a \o b, Len(a), Len(b)) = b
    BY <1>1, AtOwn, BytesAt
  <1> QED
    BY <1>1, <1>2 DEF Bytes

\* The client takes from a data stream what the server put there: the target, the
\* connection and, untouched, the bytes behind the header (handleQUICDataStream).
THEOREM StreamHeaderExact ==
    ASSUME NEW h, Header(h), h.proto \in ProtocolTCP .. ProtocolHTTP3,
           ~HasFrameMap(h.proto, h.flags), NEW b \in String
    PROVE  handleQUICDataStream(EncodeSessionHeader(h) \o b) =
             Ok([target |-> h.target, conn |-> h.conn, rest |-> b])
  <1> DEFINE e == EncodeSessionHeader(h)
             s == e \o b
             al == Len(h.target)
             cl == Len(h.conn)
             flagsAt == 4 + al
             connAt == flagsAt + 3
             size == connAt + cl
             F == 3 + 1 + Uint16(s, 1 + 1)
             CL == Uint16(s, F + 1)
             C == F + 3
             new == Len(s) >= 1 /\ s[1] \in ProtocolTCP .. ProtocolHTTP3
             fine == /\ Len(s) >= 3 + 1
                     /\ Len(s) >= F + 3
                     /\ Len(s) >= C + CL
             result == Ok([target |-> Bytes(s, 3 + 1, F - 3 - 1), conn |-> Bytes(s, C, CL),
                           rest |-> SubSeq(s, C + CL + 1, Len(s))])
  <1>1. al \in Nat /\ cl \in Nat
    BY FieldFacts DEF Header
  <1>2. e \in String /\ Len(e) = size
    <2>1. e \in String /\ Len(e) = size + (IF HasFrameMap(h.proto, h.flags) THEN 4 ELSE 0)
      BY HeaderLayout
    <2> HIDE DEF e
    <2> QED
      BY <1>1, <2>1
  <1>3. s \in String /\ Len(s) = Len(e) + Len(b) /\ Len(b) \in Nat /\ Reads(s, e, 0)
    BY <1>2, ConcatType, LenIsNat, ReadsJoined
  <1>4. SubSeq(s, Len(e) + 1, Len(s)) = b
    BY <1>2, RestOf
  <1>5. new /\ fine => handleQUICDataStream(s) = result
    BY DEF handleQUICDataStream, ReadHeader
  <1> HIDE DEF s
  <1>6. /\ 2 <= Len(s) => s[1] = h.proto
        /\ 4 <= Len(s) => Uint16(s, 2) = al
        /\ connAt <= Len(s) => Uint16(s, flagsAt + 1) = cl /\ Bytes(s, 4, al) = h.target
        /\ size <= Len(s) => Bytes(s, connAt, cl) = h.conn
    BY <1>3, HeaderRead
  <1> HIDE DEF e, al, cl, result
  <1>7. Len(s) \in Nat /\ size <= Len(s) /\ connAt <= Len(s) /\ 4 <= Len(s) /\ 2 <= Len(s)
    BY <1>1, <1>2, <1>3
  <1>8. F = flagsAt /\ C = connAt
    BY <1>1, <1>6, <1>7
  <1>9. CL = cl /\ C + CL = Len(e)
    BY <1>2, <1>6, <1>7, <1>8
  <1>10. new /\ fine
    BY <1>1, <1>6, <1>7, <1>8, <1>9
  <1>11. F - 3 - 1 = al /\ 3 + 1 = 4
    BY <1>1, <1>8
  <1> HIDE DEF F, C, CL
  <1>12. result = Ok([target |-> h.target, conn |-> h.conn, rest |-> b])
    BY <1>4, <1>6, <1>7, <1>8, <1>9, <1>11 DEF result
  <1> QED
    BY <1>5, <1>10, <1>12 DEF s, e

\* The header of older peers has the connection ID alone; both sides still read it, for
\* one byte holds the length of an ID and no protocol is 0.
THEOREM LegacyHeaderExact ==
    ASSUME NEW id \in String, Len(id) < 256, NEW b \in String, NEW a \in {0, 1}
    PROVE  ReadHeader(Str16(id) \o b, a) = Ok([target |-> <<>>, conn |-> id, rest |-> b])
  <1> DEFINE e == Str16(id)
             s == e \o b
             n == Len(id)
             old == Len(s) >= 2 /\ Len(s) >= 2 + Uint16(s, 0)
             result == Ok([target |-> <<>>, conn |-> Bytes(s, 2, Uint16(s, 0)),
                           rest |-> SubSeq(s, 3 + Uint16(s, 0), Len(s))])
  <1>1. n \in Nat /\ n < 256 /\ Fits16(n)
    BY LenIsNat, SMT DEF Fits16
  <1>2. /\ e \in String /\ Len(e) = 2 + n
        /\ At(e, 0, PutUint16(n))
    BY Str16Facts
  <1>3. s \in String /\ Len(s) = Len(e) + Len(b) /\ Len(b) \in Nat /\ Reads(s, e, 0)
    BY <1>2, ConcatType, LenIsNat, ReadsJoined
  <1>4. SubSeq(s, Len(e) + 1, Len(s)) = b
    BY <1>2, RestOf
  <1>5. FieldAt(e, 0, 0, id, n)
    <2>1. At(e, 0 + 0, Str16(id))
      BY <1>2, AtWhole
    <2> QED
      BY <1>1, <2>1 DEF FieldAt
  <1> HIDE DEF s, e
  <1>6. 0 + 2 <= Len(s) /\ (0 + 2) + n <= Len(s) /\ Len(s) \in Nat
    BY <1>1, <1>2, <1>3
  <1>7. Uint16(s, 0) = n /\ Bytes(s, 0 + 2, n) = id
    BY <1>1, <1>2, <1>3, <1>5, <1>6, FieldRead
  <1>8. s[1] = 0
    <2>1. PutUint16(n) = <<0, n>>
      <3>1. (n \div 256) % 256 = 0 /\ n % 256 = n
        BY <1>1, SMT
      <3> QED
        BY <3>1 DEF PutUint16
    <2>2. Len(PutUint16(n)) = 2 /\ PutUint16(n)[1] = 0 /\ PutUint16(n) \in String
      BY <1>1, <2>1, PutUint16Type
    <2>3. At(s, 0, PutUint16(n))
      <3>1. At(e, 0 + 0, PutUint16(n)) /\ 0 + Len(PutUint16(n)) <= Len(s)
        BY <1>2, <1>6, <2>2
      <3> HIDE DEF n
      <3> QED
        BY <1>2, <1>3, <2>2, <3>1, ReadsAt
    <2>4. s[0 + 1] = PutUint16(n)[1]
      BY <2>2, <2>3 DEF At
    <2> QED
      BY <2>2, <2>4
  <1>9. ~ (s[1] \in ProtocolTCP .. ProtocolHTTP3)
    BY <1>8 DEF ProtocolTCP, ProtocolHTTP3
  <1>10. old
    BY <1>6, <1>7
  <1>11. ReadHeader(s, a) = result
    BY <1>9, <1>10 DEF ReadHeader
  <1>12. 3 + n = Len(e) + 1 /\ 0 + 2 = 2
    BY <1>1, <1>2
  <1>13. result = Ok([target |-> <<>>, conn |-> id, rest |-> b])
    <2> HIDE DEF n
    <2> QED
      BY <1>4, <1>7, <1>12
  <1> HIDE DEF result
  <1> QED
    BY <1>11, <1>13 DEF s, e

-----------------------------------------------------------------------------
\* Bytes in flight

\* f[k] is what the first k writes of p amount to.
Joins(f, p, S) ==
    /\ f \in [0 .. Len(p) -> Seq(S)]
    /\ f[0] = <<>>
    /\ \A i \in 1 .. Len(p) : f[i] = f[i - 1] \o p[i]

LEMMA JoinExists ==
    ASSUME NEW S, NEW p \in Seq(Seq(S))
    PROVE  \E f : Joins(f, p, S)
  <1> DEFINE D == 0 .. Len(p)
             V == Seq(S)
             rank == [i \in D |-> i]
             prev == [i \in D |-> IF i = 0 THEN 0 ELSE i - 1]
             base == [i \in D |-> <<>>]
             step == [x \in D \X V |-> IF x[1] = 0 THEN x[2] ELSE x[2] \o p[x[1]]]
  <1>1. Len(p) \in Nat /\ \A i \in 1 .. Len(p) : p[i] \in V
    OBVIOUS
  <1>2. rank \in [D -> Nat] /\ prev \in [D -> D] /\ base \in [D -> V]
    BY <1>1
  <1>3. \A i \in D, s \in V : i # 0 => s \o p[i] \in V
    BY <1>1
  <1>4. step \in [D \X V -> V]
    BY <1>3
  <1>5. \A i \in D : rank[i] # 0 => rank[prev[i]] < rank[i]
    BY <1>1
  <1>6. /\ \A i \in D : rank[i] = i /\ base[i] = <<>> /\ (i # 0 => prev[i] = i - 1)
        /\ \A i \in D, s \in V : i # 0 => step[<<i, s>>] = s \o p[i]
    OBVIOUS
  <1> HIDE DEF rank, prev, base, step, V
  <1>7. PICK f : Recursion(f, D, V, rank, prev, base, step)
    BY <1>2, <1>4, <1>5, RecursionSolved
  <1>8. f \in [D -> V] /\ \A x \in D : f[x] = IF rank[x] = 0 THEN base[x] ELSE step[<<x, f[prev[x]]>>]
    BY <1>7 DEF Recursion
  <1>9. 0 \in D /\ \A i \in 1 .. Len(p) : i \in D /\ i # 0 /\ i - 1 \in D
    BY <1>1
  <1> HIDE DEF D
  <1>10. f[0] = <<>>
    BY <1>6, <1>8, <1>9
  <1>11. ASSUME NEW i \in 1 .. Len(p) PROVE f[i] = f[i - 1] \o p[i]
    <2>1. i \in D /\ i # 0 /\ i - 1 \in D
      BY <1>9
    <2>2. f[i - 1] \in V
      BY <1>8, <2>1
    <2>3. f[i] = step[<<i, f[i - 1]>>]
      BY <1>6, <1>8, <2>1
    <2> QED
      BY <1>6, <2>1, <2>2, <2>3
  <1> QED
    BY <1>8, <1>10, <1>11 DEF Joins, V, D

\* FlattenSeq of the first writes.
LEMMA FlattenIs ==
    ASSUME NEW S, NEW p \in Seq(Seq(S)), NEW f, Joins(f, p, S), NEW k \in 0 .. Len(p)
    PROVE  FlattenSeq(SubSeq(p, 1, k)) = f[k]
  <1> DEFINE q == SubSeq(p, 1, k)
             eq(g) == g = [i \in 1 .. Len(q) |-> IF i = 1 THEN q[i] ELSE g[i - 1] \o q[i]]
             flat == CHOOSE g : eq(g)
  <1>1. Len(p) \in Nat /\ k \in Nat /\ Len(q) = k /\ \A i \in 1 .. k : q[i] = p[i]
    OBVIOUS
  <1>2. \A i \in 1 .. k : i \in 1 .. Len(p)
    BY <1>1
  <1>3. f[0] = <<>> /\ \A i \in 1 .. Len(p) : f[i] = f[i - 1] \o p[i]
    BY DEF Joins
  <1>4. CASE k = 0
    <2>1. q = <<>>
      BY <1>1, <1>4
    <2>2. FlattenSeq(q) = q
      BY <1>1, <1>4 DEF FlattenSeq
    <2> QED
      BY <1>3, <1>4, <2>1, <2>2
  <1>5. CASE k # 0
    <2>1. FlattenSeq(q) = flat[Len(q)]
      BY <1>1, <1>5 DEF FlattenSeq
    <2> HIDE DEF q
    <2>2. f[1] = q[1]
      <3>1. 1 \in 1 .. k /\ 1 - 1 = 0
        BY <1>1, <1>5
      <3>2. f[1] = <<>> \o p[1] /\ p[1] \in Seq(S) /\ q[1] = p[1]
        <4>1. 1 \in 1 .. Len(p) /\ q[1] = p[1]
          BY <1>1, <1>2, <3>1
        <4>2. f[1] = f[1 - 1] \o p[1]
          BY <1>3, <4>1
        <4>3. p[1] \in Seq(S)
          BY <4>1
        <4> QED
          BY <1>3, <3>1, <4>1, <4>2, <4>3
      <3>3. <<>> \o p[1] = p[1]
        BY <3>2
      <3> QED
        BY <3>2, <3>3
    <2>3. ASSUME NEW i \in 1 .. k, i # 1 PROVE i - 1 \in 1 .. k /\ i - 1 \in Nat /\ i - 1 < i /\ f[i] = f[i - 1] \o q[i]
      <3>1. i - 1 \in 1 .. k /\ i - 1 \in Nat /\ i - 1 < i
        BY <1>1, <2>3
      <3> QED
        BY <1>1, <1>2, <1>3, <3>1
    <2>4. eq([i \in 1 .. k |-> f[i]])
      BY <1>1, <2>2, <2>3
    <2>5. eq(flat)
      BY <2>4
    <2> HIDE DEF flat
    <2>6. \A i \in 1 .. k : flat[i] = IF i = 1 THEN q[i] ELSE flat[i - 1] \o q[i]
      BY <1>1, <2>5
    <2> DEFINE A == {n \in Nat : n \in 1 .. k => flat[n] = f[n]}
    <2>7. ASSUME NEW n \in Nat, \A j \in Nat : j < n => j \in A, n \in 1 .. k PROVE flat[n] = f[n]
      <3>1. CASE n = 1
        BY <2>2, <2>6, <2>7, <3>1
      <3>2. CASE n # 1
        <4>1. n - 1 \in 1 .. k /\ n - 1 \in Nat /\ n - 1 < n /\ f[n] = f[n - 1] \o q[n]
          BY <2>3, <2>7, <3>2
        <4>2. flat[n - 1] = f[n - 1]
          BY <2>7, <4>1
        <4>3. flat[n] = flat[n - 1] \o q[n]
          BY <2>6, <2>7, <3>2
        <4> QED
          BY <4>1, <4>2, <4>3
      <3> QED
        BY <3>1, <3>2
    <2>8. \A n \in Nat : (\A j \in Nat : j < n => j \in A) => n \in A
      BY <2>7
    <2> HIDE DEF A
    <2>9. k \in A
      BY <1>1, <2>8, Induction
    <2>10. k \in 1 .. k
      BY <1>1, <1>5
    <2>11. flat[k] = f[k]
      BY <2>9, <2>10 DEF A
    <2> QED
      BY <1>1, <2>1, <2>11 DEF q
  <1> QED
    BY <1>4, <1>5

\* What is written at once, and what a direction of the control stream holds.
Chunk == Seq(Byte) \ {<<>>}
Pipe == Seq(Chunk)

LEMMA BytesAreString == ASSUME NEW s \in Seq(Byte) PROVE s \in String /\ Len(s) \in Nat
  <1>1. \A b \in Byte : b \in Nat
    BY DEF Byte
  <1>2. Len(s) \in Nat /\ \A i \in 1 .. Len(s) : s[i] \in Nat
    BY <1>1
  <1>3. s \in [1 .. Len(s) -> Nat]
    BY <1>2
  <1> QED
    BY <1>2, <1>3 DEF String

LEMMA WriteFacts ==
    ASSUME NEW w \in Chunk
    PROVE  w \in Seq(Byte) /\ w \in String /\ Len(w) \in Nat \ {0} /\ w[1] \in Byte
  <1>1. w \in Seq(Byte) /\ w # <<>>
    BY DEF Chunk
  <1>2. w \in String
    BY <1>1, BytesAreString
  <1>3. Len(w) \in Nat \ {0} /\ 1 \in 1 .. Len(w)
    BY <1>1
  <1> QED
    BY <1>1, <1>2, <1>3

LEMMA PipeFacts ==
    ASSUME NEW p \in Pipe
    PROVE  /\ Len(p) \in Nat /\ p \in Seq(Seq(Byte)) /\ \A i \in 1 .. Len(p) : p[i] \in Chunk
           /\ p # <<>> => 1 \in 1 .. Len(p) /\ p[1] \in Chunk
           /\ \E f : Joins(f, p, Byte)
  <1>1. /\ Len(p) \in Nat /\ \A i \in 1 .. Len(p) : p[i] \in Chunk
        /\ p # <<>> => 1 \in 1 .. Len(p)
    BY DEF Pipe
  <1>2. \A i \in 1 .. Len(p) : p[i] \in Seq(Byte)
    BY <1>1, WriteFacts
  <1>3. p \in Seq(Seq(Byte))
    BY <1>1, <1>2 DEF Pipe
  <1> QED
    BY <1>1, <1>3, JoinExists

\* The sizes of the first writes.
Sizes(f, p) ==
    /\ Len(f[0]) = 0
    /\ \A i \in 0 .. Len(p) : f[i] \in Seq(Byte) /\ f[i] \in String /\ Len(f[i]) \in Nat
    /\ \A i \in 1 .. Len(p) : Len(f[i]) = Len(f[i - 1]) + Len(p[i]) /\ Len(p[i]) \in Nat \ {0}
    /\ \A k \in 0 .. Len(p) : InFlight(SubSeq(p, 1, k)) = Len(f[k])
    /\ FlattenSeq(p) = f[Len(p)]

LEMMA JoinSizes ==
    ASSUME NEW p \in Pipe, NEW f, Joins(f, p, Byte)
    PROVE  Sizes(f, p)
  <1>1. Len(p) \in Nat /\ p \in Seq(Seq(Byte)) /\ \A i \in 1 .. Len(p) : p[i] \in Chunk
    BY PipeFacts
  <1>2. \A i \in 0 .. Len(p) : f[i] \in Seq(Byte)
    BY DEF Joins
  <1>3. \A s \in Seq(Byte) : s \in String /\ Len(s) \in Nat
    BY BytesAreString
  <1>4. ASSUME NEW i \in 1 .. Len(p)
        PROVE  Len(f[i]) = Len(f[i - 1]) + Len(p[i]) /\ Len(p[i]) \in Nat \ {0}
    <2>1. p[i] \in Seq(Byte) /\ Len(p[i]) \in Nat \ {0}
      BY <1>1, WriteFacts
    <2>2. f[i] = f[i - 1] \o p[i] /\ f[i - 1] \in Seq(Byte)
      <3>1. i - 1 \in 0 .. Len(p)
        BY <1>1
      <3> QED
        BY <1>2, <3>1 DEF Joins
    <2> QED
      BY <2>1, <2>2
  <1>5. \A k \in 0 .. Len(p) : FlattenSeq(SubSeq(p, 1, k)) = f[k]
    BY <1>1, FlattenIs
  <1>6. SubSeq(p, 1, Len(p)) = p
    BY <1>1
  <1>7. FlattenSeq(p) = f[Len(p)]
    <2>1. Len(p) \in 0 .. Len(p)
      BY <1>1
    <2> QED
      BY <1>5, <1>6, <2>1
  <1>8. f[0] = <<>>
    BY DEF Joins
  <1> QED
    BY <1>2, <1>3, <1>4, <1>5, <1>7, <1>8 DEF Sizes, InFlight

\* The bytes in flight begin with the first write.
LEMMA FirstWrite ==
    ASSUME NEW p \in Pipe, p # <<>>
    PROVE  /\ FlattenSeq(p) \in Seq(Byte) /\ FlattenSeq(p) \in String
           /\ Len(FlattenSeq(p)) = InFlight(p) /\ InFlight(p) \in Nat
           /\ At(FlattenSeq(p), 0, p[1]) /\ Len(p[1]) <= InFlight(p)
  <1>1. Len(p) \in Nat /\ 1 \in 1 .. Len(p) /\ p[1] \in Chunk
    BY PipeFacts
  <1>2. PICK f : Joins(f, p, Byte)
    BY PipeFacts
  <1>3. /\ \A i \in 0 .. Len(p) : f[i] \in Seq(Byte) /\ f[i] \in String /\ Len(f[i]) \in Nat
        /\ FlattenSeq(p) = f[Len(p)]
    <2>1. Sizes(f, p)
      BY <1>2, JoinSizes
    <2> QED
      BY <2>1 DEF Sizes
  <1>4. p[1] \in String /\ Len(p[1]) \in Nat
    BY <1>1, WriteFacts
  <1> DEFINE A == {n \in Nat : n \in 1 .. Len(p) => At(f[n], 0, p[1])}
  <1>5. ASSUME NEW n \in Nat, \A j \in Nat : j < n => j \in A, n \in 1 .. Len(p)
        PROVE  At(f[n], 0, p[1])
    <2>1. f[n] = f[n - 1] \o p[n] /\ n - 1 \in 0 .. Len(p) /\ p[n] \in Chunk
      <3>1. n - 1 \in 0 .. Len(p)
        BY <1>1, <1>5
      <3>2. f[n] = f[n - 1] \o p[n]
        BY <1>2, <1>5 DEF Joins
      <3>3. p[n] \in Chunk
        BY <1>5, PipeFacts
      <3> QED
        BY <3>1, <3>2, <3>3
    <2>2. f[n - 1] \in String /\ p[n] \in String
      BY <1>3, <2>1, WriteFacts
    <2>3. CASE n = 1
      <3>1. f[n - 1] = <<>> /\ f[n] = <<>> \o p[1]
        <4>1. f[0] = <<>> /\ n - 1 = 0
          BY <1>2, <2>3 DEF Joins
        <4> QED
          BY <2>1, <2>3, <4>1
      <3>2. <<>> \o p[1] = p[1]
        BY <1>4 DEF String
      <3> QED
        BY <1>4, <3>1, <3>2, AtWhole
    <2>4. CASE n # 1
      <3>1. n - 1 \in Nat /\ n - 1 < n /\ n - 1 \in 1 .. Len(p)
        BY <1>1, <1>5, <2>4
      <3>2. At(f[n - 1], 0, p[1])
        BY <1>5, <3>1
      <3> QED
        BY <1>4, <2>1, <2>2, <3>2, AtLeft
    <2> QED
      BY <2>3, <2>4
  <1>6. \A n \in Nat : (\A j \in Nat : j < n => j \in A) => n \in A
    BY <1>5
  <1> HIDE DEF A
  <1>7. Len(p) \in A
    BY <1>1, <1>6, Induction
  <1>8. At(f[Len(p)], 0, p[1])
    BY <1>1, <1>7 DEF A
  <1>9. Len(p) \in 0 .. Len(p)
    BY <1>1
  <1> QED
    BY <1>3, <1>4, <1>8, <1>9 DEF InFlight, At

\* What is left of a sequence past its first k elements.
LEMMA Suffix ==
    ASSUME NEW S, NEW s \in Seq(S), NEW k \in 0 .. Len(s)
    PROVE  /\ SubSeq(s, k + 1, Len(s)) \in Seq(S) /\ Len(SubSeq(s, k + 1, Len(s))) = Len(s) - k
           /\ \A i \in 1 .. Len(s) - k : SubSeq(s, k + 1, Len(s))[i] = s[k + i]
  <1>1. Len(s) \in Nat /\ k \in Nat /\ k <= Len(s)
    OBVIOUS
  <1>2. /\ SubSeq(s, k + 1, Len(s)) \in Seq(S)
        /\ Len(SubSeq(s, k + 1, Len(s))) = IF k + 1 <= Len(s) THEN Len(s) - (k + 1) + 1 ELSE 0
        /\ \A i \in 1 .. Len(s) - (k + 1) + 1 : SubSeq(s, k + 1, Len(s))[i] = s[(k + 1) + i - 1]
    BY <1>1, SubSeqProperties
  <1>3. (IF k + 1 <= Len(s) THEN Len(s) - (k + 1) + 1 ELSE 0) = Len(s) - k /\ Len(s) - (k + 1) + 1 = Len(s) - k
    BY <1>1
  <1>4. \A i \in 1 .. Len(s) - k : (k + 1) + i - 1 = k + i
    BY <1>1
  <1>5. Len(SubSeq(s, k + 1, Len(s))) = Len(s) - k
    BY <1>2, <1>3, Zenon
  <1>6. \A i \in 1 .. Len(s) - k : SubSeq(s, k + 1, Len(s))[i] = s[k + i]
    <2> DEFINE r == SubSeq(s, k + 1, Len(s))
               l == Len(s) - k
    <2>1. \A i \in 1 .. l : r[i] = s[(k + 1) + i - 1]
      <3>1. \A i \in 1 .. Len(s) - (k + 1) + 1 : r[i] = s[(k + 1) + i - 1]
        <4>1. \A i \in 1 .. Len(s) - (k + 1) + 1 : SubSeq(s, k + 1, Len(s))[i] = s[(k + 1) + i - 1]
          BY <1>1, SubSeqProperties
        <4> QED
          BY <4>1, Zenon DEF r
      <3>2. Len(s) - (k + 1) + 1 = l
        BY <1>1
      <3> HIDE DEF r, l
      <3> QED
        BY <3>1, <3>2, Zenon
    <2> HIDE DEF r, l
    <2>2. \A i \in 1 .. l : (k + 1) + i - 1 = k + i
      BY <1>4 DEF l
    <2>3. \A i \in 1 .. l : r[i] = s[k + i]
      BY <2>1, <2>2
    <2> QED
      BY <2>3 DEF r, l
  <1> QED
    BY <1>2, <1>5, <1>6

\* A Read of n bytes takes the first k writes and a part of the next one.
LEMMA AfterReadIs ==
    ASSUME NEW p \in Pipe, NEW n \in Nat, NEW f, Joins(f, p, Byte)
    PROVE  \E k \in 0 .. Len(p) :
             /\ Len(f[k]) <= n /\ (k = Len(p) \/ n < Len(f[k + 1]))
             /\ k = Len(p) => AfterRead(p, n) = <<>>
             /\ k # Len(p) => AfterRead(p, n) =
                  <<SubSeq(p[k + 1], n - Len(f[k]) + 1, Len(p[k + 1]))>>
                      \o Tail(SubSeq(p, k + 1, Len(p)))
  <1>1. Len(p) \in Nat /\ \A i \in 1 .. Len(p) : p[i] \in Chunk
    BY PipeFacts
  <1>2. /\ Len(f[0]) = 0
        /\ \A i \in 0 .. Len(p) : Len(f[i]) \in Nat
        /\ \A k \in 0 .. Len(p) : InFlight(SubSeq(p, 1, k)) = Len(f[k])
    <2>1. Sizes(f, p)
      BY JoinSizes
    <2> QED
      BY <2>1 DEF Sizes
  <1> DEFINE P(k) == Len(f[k]) <= n /\ (k = Len(p) \/ n < Len(f[k + 1]))
             Q(k) == /\ InFlight(SubSeq(p, 1, k)) <= n
                     /\ (k = Len(p) \/ n < InFlight(SubSeq(p, 1, k + 1)))
             K == CHOOSE k \in 0 .. Len(p) : Q(k)
             left == SubSeq(p, K + 1, Len(p))
  <1>3. \A k \in 0 .. Len(p) : Q(k) <=> P(k)
    BY <1>1, <1>2
  <1>4. \E k \in 0 .. Len(p) : P(k)
    <2> DEFINE X == {j \in 0 .. Len(p) : j = Len(p) \/ n < Len(f[j + 1])}
    <2>1. X \subseteq Nat /\ Len(p) \in X
      BY <1>1
    <2>2. PICK x \in X : \A y \in X : x <= y
      BY <2>1, LeastNumber
    <2>3. CASE x = 0
      BY <1>2, <2>2, <2>3
    <2>4. CASE x # 0
      <3>1. x - 1 \in 0 .. Len(p) /\ x - 1 # Len(p) /\ ~ (x <= x - 1) /\ (x - 1) + 1 = x
        BY <1>1, <2>2, <2>4
      <3>2. ~ (n < Len(f[x]))
        BY <2>2, <3>1
      <3>3. Len(f[x]) <= n
        BY <1>2, <2>2, <3>2
      <3> QED
        BY <2>2, <3>3
    <2> QED
      BY <2>3, <2>4
  <1>5. AfterRead(p, n) = IF left = <<>> THEN left
                          ELSE <<SubSeq(left[1], n - InFlight(SubSeq(p, 1, K)) + 1, Len(left[1]))>> \o Tail(left)
    BY DEF AfterRead
  <1>6. K \in 0 .. Len(p) /\ Q(K)
    BY <1>3, <1>4
  <1> HIDE DEF K, Q
  <1>7. P(K) /\ InFlight(SubSeq(p, 1, K)) = Len(f[K])
    BY <1>2, <1>3, <1>6
  <1>8. CASE K = Len(p)
    <2>1. left = <<>>
      BY <1>1, <1>6, <1>8
    <2> QED
      BY <1>5, <1>6, <1>7, <1>8, <2>1
  <1>9. CASE K # Len(p)
    <2>1. K + 1 \in 1 .. Len(p) /\ K \in Nat
      BY <1>1, <1>6, <1>9
    <2>2. Len(left) = Len(p) - K /\ \A i \in 1 .. Len(p) - K : left[i] = p[K + i]
      BY <1>1, <1>6, Suffix DEF Pipe
    <2>3. 1 \in 1 .. Len(p) - K
      BY <1>1, <2>1
    <2> HIDE DEF left
    <2>4. left # <<>> /\ left[1] = p[K + 1]
      <3>1. Len(left) # 0 /\ left[1] = p[K + 1]
        BY <1>1, <2>1, <2>2, <2>3
      <3> QED
        BY <3>1
    <2> QED
      BY <1>5, <1>6, <1>7, <1>9, <2>4 DEF left
  <1> QED
    BY <1>8, <1>9

LEMMA AfterReadType ==
    ASSUME NEW p \in Pipe, NEW n \in Nat PROVE AfterRead(p, n) \in Pipe
  <1>1. PICK f : Joins(f, p, Byte)
    BY PipeFacts
  <1>2. PICK k \in 0 .. Len(p) :
          /\ Len(f[k]) <= n /\ (k = Len(p) \/ n < Len(f[k + 1]))
          /\ k = Len(p) => AfterRead(p, n) = <<>>
          /\ k # Len(p) => AfterRead(p, n) =
               <<SubSeq(p[k + 1], n - Len(f[k]) + 1, Len(p[k + 1]))>>
                   \o Tail(SubSeq(p, k + 1, Len(p)))
    BY <1>1, AfterReadIs
  <1>3. CASE k = Len(p)
    BY <1>2, <1>3 DEF Pipe
  <1>4. CASE k # Len(p)
    <2> DEFINE w == p[k + 1]
               o == n - Len(f[k])
               rest == Tail(SubSeq(p, k + 1, Len(p)))
               part == SubSeq(w, o + 1, Len(w))
    <2>1. Len(p) \in Nat /\ k \in Nat /\ k + 1 \in 1 .. Len(p) /\ (k + 1) - 1 = k
      <3>1. Len(p) \in Nat
        BY PipeFacts
      <3> QED
        BY <1>4, <3>1
    <2>2. w \in Chunk /\ w \in Seq(Byte) /\ Len(w) \in Nat
      BY <2>1, PipeFacts, WriteFacts
    <2>3. Len(f[k]) \in Nat /\ Len(f[k + 1]) = Len(f[k]) + Len(w)
      <3>1. k \in 0 .. Len(p)
        OBVIOUS
      <3>2. Len(f[k]) \in Nat /\ Len(f[k + 1]) = Len(f[(k + 1) - 1]) + Len(p[k + 1])
        <4>1. Sizes(f, p)
          BY <1>1, JoinSizes
        <4> QED
          BY <2>1, <3>1, <4>1 DEF Sizes
      <3> QED
        BY <2>1, <3>2
    <2>4. o \in Nat /\ o < Len(w)
      <3>1. Len(f[k]) <= n /\ n < Len(f[k]) + Len(w)
        BY <1>2, <1>4, <2>3
      <3> HIDE DEF w
      <3> QED
        BY <2>2, <2>3, <3>1
    <2> HIDE DEF w, o
    <2>5. part \in Seq(Byte) /\ Len(part) = Len(w) - o
      <3>1. o \in 0 .. Len(w)
        BY <2>2, <2>4
      <3> QED
        BY <2>2, <3>1, Suffix
    <2>6. part \in Chunk
      <3> HIDE DEF part
      <3>1. Len(part) # 0
        BY <2>2, <2>4, <2>5
      <3> QED
        BY <2>5, <3>1 DEF Chunk
    <2>7. rest \in Pipe
      <3> DEFINE left == SubSeq(p, k + 1, Len(p))
      <3>1. left \in Seq(Chunk) /\ Len(left) = Len(p) - k
        BY Suffix DEF Pipe
      <3> HIDE DEF left
      <3>2. left # <<>>
        BY <2>1, <3>1
      <3>3. Tail(left) \in Seq(Chunk)
        BY <3>1, <3>2
      <3> QED
        BY <3>3 DEF Pipe, left
    <2> HIDE DEF part, rest
    <2>8. <<part>> \o rest \in Pipe
      BY <2>6, <2>7 DEF Pipe
    <2> QED
      BY <1>2, <1>4, <2>8 DEF part, rest, w, o
  <1> QED
    BY <1>3, <1>4

\* One write alone in flight.
LEMMA OneWrite ==
    ASSUME NEW w \in Chunk
    PROVE  /\ <<w>> \in Pipe /\ <<w>> # <<>> /\ <<w>>[1] = w /\ InFlight(<<w>>) = Len(w)
           /\ AfterRead(<<w>>, Len(w)) = <<>>
  <1> DEFINE p == <<w>>
             n == Len(w)
  <1>1. p \in Pipe /\ p # <<>> /\ p[1] = w /\ Len(p) = 1
    <2>1. p \in Seq(Chunk) /\ p[1] = w /\ Len(p) = 1
      OBVIOUS
    <2> QED
      BY <2>1 DEF Pipe
  <1>2. n \in Nat
    BY WriteFacts
  <1> HIDE DEF p, n
  <1>3. PICK f : Joins(f, p, Byte)
    BY <1>1, PipeFacts
  <1>4. /\ Len(f[0]) = 0 /\ FlattenSeq(p) = f[Len(p)]
        /\ \A i \in 1 .. Len(p) : Len(f[i]) = Len(f[i - 1]) + Len(p[i])
    <2>1. Sizes(f, p)
      BY <1>1, <1>3, JoinSizes
    <2> QED
      BY <2>1 DEF Sizes
  <1>5. Len(f[1]) = n
    <2>1. 1 \in 1 .. Len(p) /\ 1 - 1 = 0
      BY <1>1
    <2>2. Len(f[1]) = Len(f[0]) + Len(p[1])
      BY <1>4, <2>1
    <2> QED
      BY <1>1, <1>2, <1>4, <2>2 DEF n
  <1>6. PICK k \in 0 .. Len(p) :
          /\ k = Len(p) \/ n < Len(f[k + 1])
          /\ k = Len(p) => AfterRead(p, n) = <<>>
    BY <1>1, <1>2, <1>3, AfterReadIs
  <1>7. k = 1
    <2>1. k = 0 \/ k = 1
      BY <1>1
    <2>2. ASSUME k = 0 PROVE FALSE
      <3>1. n < Len(f[0 + 1])
        BY <1>1, <1>6, <2>2
      <3> QED
        BY <1>2, <1>5, <3>1
    <2> QED
      BY <2>1, <2>2
  <1>8. InFlight(p) = n
    BY <1>1, <1>4, <1>5 DEF InFlight
  <1> QED
    BY <1>1, <1>6, <1>7, <1>8 DEF p, n

LEMMA ByteWrite == ASSUME NEW c \in Byte PROVE <<c>> \in Chunk
  BY DEF Chunk

LEMMA Longer ==
    ASSUME NEW a \in Chunk, NEW b \in Seq(Byte) PROVE a \o b \in Chunk /\ (a \o b)[1] = a[1]
  <1>1. a \in Seq(Byte) /\ Len(a) \in Nat \ {0}
    BY WriteFacts
  <1>2. a \o b \in Seq(Byte) /\ Len(a \o b) = Len(a) + Len(b) /\ Len(b) \in Nat
    BY <1>1
  <1>3. Len(a \o b) # 0
    BY <1>1, <1>2
  <1>4. (a \o b)[1] = a[1]
    BY <1>1
  <1> QED
    BY <1>2, <1>3, <1>4 DEF Chunk

LEMMA BytesJoined == ASSUME NEW a \in Seq(Byte), NEW b \in Seq(Byte) PROVE a \o b \in Seq(Byte)
  OBVIOUS

LEMMA PutBytes == ASSUME NEW n \in Nat PROVE PutUint16(n) \in Seq(Byte)
  <1>1. (n \div 256) % 256 \in 0 .. 255 /\ n % 256 \in 0 .. 255
    BY SMT
  <1> QED
    BY <1>1 DEF PutUint16, Byte

\* A length in decimal is written in bytes.
LEMMA DigitBytes == ASSUME NEW n \in Nat PROVE writeInt[n] \in Seq(Byte)
  <1> DEFINE w == writeInt[n]
  <1>1. w \in String /\ ToSet(w) \subseteq Digit
    BY WriteIntDef, DecimalRoundTrip
  <1> HIDE DEF w
  <1>2. Len(w) \in Nat /\ w \in [1 .. Len(w) -> Nat] /\ DOMAIN w = 1 .. Len(w)
    BY <1>1 DEF String
  <1>3. ASSUME NEW i \in 1 .. Len(w) PROVE w[i] \in Byte
    <2>1. w[i] \in ToSet(w)
      BY <1>2 DEF ToSet
    <2>2. w[i] \in Digit
      BY <1>1, <2>1
    <2> QED
      BY <2>2 DEF Digit, Byte
  <1>4. w \in [1 .. Len(w) -> Byte]
    BY <1>2, <1>3
  <1>5. w \in Seq(Byte)
    BY <1>2, <1>4
  <1> QED
    BY <1>5 DEF w

LEMMA Appended ==
    ASSUME NEW p \in Pipe, NEW w \in Chunk
    PROVE  /\ Append(p, w) \in Pipe /\ Append(p, w) # <<>>
           /\ Append(p, w)[1] = IF p = <<>> THEN w ELSE p[1]
           /\ p = <<>> => Append(p, w) = <<w>>
  <1>1. p \in Seq(Chunk) /\ Len(p) \in Nat
    BY DEF Pipe
  <1>2. /\ Append(p, w) \in Seq(Chunk) /\ Len(Append(p, w)) = Len(p) + 1
        /\ Append(p, w)[Len(p) + 1] = w /\ \A i \in 1 .. Len(p) : Append(p, w)[i] = p[i]
    BY <1>1
  <1>3. Append(p, w) # <<>>
    BY <1>1, <1>2
  <1>4. CASE p = <<>>
    BY <1>1, <1>2, <1>3, <1>4 DEF Pipe
  <1>5. CASE p # <<>>
    <2>1. 1 \in 1 .. Len(p)
      BY <1>1, <1>5
    <2> QED
      BY <1>2, <1>3, <1>5, <2>1 DEF Pipe
  <1> QED
    BY <1>4, <1>5

\* Reads that end between two writes

LEMMA SizesGrow ==
    ASSUME NEW p \in Pipe, NEW f, Sizes(f, p), NEW k \in 0 .. Len(p)
    PROVE  \A i \in 0 .. Len(p) : i < k => Len(f[i]) < Len(f[k])
  <1> DEFINE S == {j \in Nat : j <= Len(p) => \A i \in 0 .. Len(p) : i < j => Len(f[i]) < Len(f[j])}
  <1>1. Len(p) \in Nat
    BY PipeFacts
  <1>2. \A i \in 0 .. Len(p) : Len(f[i]) \in Nat
    BY DEF Sizes
  <1>3. \A i \in 1 .. Len(p) : Len(f[i]) = Len(f[i - 1]) + Len(p[i]) /\ Len(p[i]) \in Nat \ {0}
    BY DEF Sizes
  <1>4. ASSUME NEW n \in Nat, \A j \in Nat : j < n => j \in S PROVE n \in S
    <2> SUFFICES ASSUME n <= Len(p), NEW i \in 0 .. Len(p), i < n PROVE Len(f[i]) < Len(f[n])
      OBVIOUS
    <2>1. n \in 1 .. Len(p) /\ n - 1 \in Nat /\ n - 1 < n /\ n - 1 \in 0 .. Len(p)
      BY <1>1
    <2>2. Len(f[n - 1]) < Len(f[n])
      <3>1. Len(f[n]) = Len(f[n - 1]) + Len(p[n]) /\ Len(p[n]) \in Nat \ {0}
        BY <1>3, <2>1
      <3>2. Len(f[n - 1]) \in Nat
        BY <1>2, <2>1
      <3>3. \A a \in Nat, b \in Nat \ {0} : a < a + b
        OBVIOUS
      <3>4. Len(f[n - 1]) < Len(f[n - 1]) + Len(p[n])
        BY <3>1, <3>2, <3>3
      <3> QED
        BY <3>1, <3>4
    <2>3. i < n - 1 => Len(f[i]) < Len(f[n - 1])
      BY <1>1, <1>4, <2>1
    <2>4. i = n - 1 \/ i < n - 1
      BY <1>1, <2>1
    <2> QED
      BY <1>1, <1>2, <2>1, <2>2, <2>3, <2>4
  <1> HIDE DEF S
  <1>5. \A n \in Nat : n \in S
    BY <1>4, Induction
  <1>6. k \in Nat /\ k <= Len(p)
    BY <1>1
  <1> QED
    BY <1>5, <1>6 DEF S

\* q is p without its first k elements.
Drops(q, p, k) ==
    /\ k \in 1 .. Len(p) /\ Len(q) = Len(p) - k
    /\ \A i \in 1 .. Len(q) : q[i] = p[k + i]

\* A read that does not end inside a write takes the first write, and leaves the last ones.
LEMMA ReadsUnsplit ==
    ASSUME NEW p \in Pipe, p # <<>>, NEW n \in 1 .. InFlight(p), ~ EndsInside(p, n)
    PROVE  /\ Len(p[1]) <= n
           /\ \E k \in 1 .. Len(p) : Drops(AfterRead(p, n), p, k)
           /\ n = Len(p[1]) => Drops(AfterRead(p, n), p, 1)
  <1>1. PICK f : Joins(f, p, Byte)
    BY PipeFacts
  <1>2. Sizes(f, p)
    BY <1>1, JoinSizes
  <1>3. n \in Nat /\ Len(p) \in Nat /\ 1 \in 1 .. Len(p) /\ \A i \in 1 .. Len(p) : p[i] \in Chunk
    BY FirstWrite, PipeFacts
  <1>4. PICK k \in 0 .. Len(p) :
          /\ Len(f[k]) <= n /\ (k = Len(p) \/ n < Len(f[k + 1]))
          /\ k = Len(p) => AfterRead(p, n) = <<>>
          /\ k # Len(p) => AfterRead(p, n) =
               <<SubSeq(p[k + 1], n - Len(f[k]) + 1, Len(p[k + 1]))>>
                   \o Tail(SubSeq(p, k + 1, Len(p)))
    BY <1>1, <1>3, AfterReadIs
  <1>5. /\ \A i \in 0 .. Len(p) : Len(f[i]) \in Nat
        /\ \A i, j \in 0 .. Len(p) : i < j => Len(f[i]) < Len(f[j])
    BY <1>2, SizesGrow DEF Sizes
  <1>6. Len(f[1]) = Len(p[1])
    <2>1. \A i \in 1 .. Len(p) : Len(f[i]) = Len(f[i - 1]) + Len(p[i]) /\ Len(p[i]) \in Nat \ {0}
      BY <1>2 DEF Sizes
    <2>2. Len(f[0]) = 0 /\ 1 - 1 = 0
      BY <1>2 DEF Sizes
    <2>3. Len(f[1]) = Len(f[0]) + Len(p[1]) /\ Len(p[1]) \in Nat
      BY <1>3, <2>1, <2>2
    <2> QED
      BY <2>2, <2>3
  <1>7. k # Len(p) => Len(f[k]) = n
    <2> SUFFICES ASSUME k # Len(p) PROVE Len(f[k]) = n
      OBVIOUS
    <2> DEFINE q == AfterRead(p, n)
               part == SubSeq(p[k + 1], n - Len(f[k]) + 1, Len(p[k + 1]))
               rest == Tail(SubSeq(p, k + 1, Len(p)))
    <2>1. q \in Pipe
      BY <1>3, AfterReadType
    <2>2. q # <<>>
      <3>1. q = <<part>> \o rest
        BY <1>4
      <3>2. SubSeq(p, k + 1, Len(p)) \in Seq(Chunk) /\ Len(SubSeq(p, k + 1, Len(p))) = Len(p) - k
        BY Suffix DEF Pipe
      <3>3. rest \in Seq(Chunk)
        <4> DEFINE left == SubSeq(p, k + 1, Len(p))
        <4>1. left \in Seq(Chunk) /\ Len(left) # 0
          BY <1>3, <3>2
        <4> HIDE DEF left
        <4>2. Tail(left) \in Seq(Chunk)
          BY <4>1
        <4> QED
          BY <4>2 DEF left
      <3> HIDE DEF part, rest
      <3>4. Len(<<part>> \o rest) = 1 + Len(rest) /\ Len(rest) \in Nat
        BY <3>3
      <3> QED
        BY <3>1, <3>4
    <2>3. InFlight(q) \in Nat /\ Len(q[1]) \in Nat \ {0} /\ Len(q[1]) <= InFlight(q)
      <3> HIDE DEF q
      <3>1. q[1] \in Chunk
        BY <2>1, <2>2, PipeFacts
      <3> QED
        BY <2>1, <2>2, <3>1, FirstWrite, WriteFacts
    <2>4. InFlight(q) > 0
      <3> HIDE DEF q
      <3> QED
        BY <2>3
    <2>5. PICK j \in 1 .. Len(p) : InFlight(SubSeq(p, 1, j)) = n
      BY <2>4 DEF EndsInside
    <2>6. j \in 0 .. Len(p) /\ Len(f[j]) = n
      <3>1. j \in 0 .. Len(p)
        BY <1>3
      <3> QED
        BY <1>2, <2>5, <3>1 DEF Sizes
    <2>7. k + 1 \in 0 .. Len(p) /\ n < Len(f[k + 1])
      BY <1>3, <1>4
    <2>8. ~ (k + 1 < j) /\ j # k + 1
      BY <1>3, <1>5, <2>6, <2>7
    <2>9. j < k \/ j = k
      BY <1>3, <2>8
    <2> QED
      BY <1>3, <1>4, <1>5, <2>6, <2>9
  <1>8. k # 0
    <2>1. Len(f[0]) = 0 /\ n # 0
      BY <1>2, <1>3 DEF Sizes
    <2> QED
      BY <1>3, <1>7, <2>1
  <1>9. k \in 1 .. Len(p)
    BY <1>3, <1>8
  <1>10. Len(p[1]) <= n /\ (n = Len(p[1]) => k = 1)
    <2>1. k = 1 \/ 1 < k
      BY <1>3, <1>9
    <2>2. 1 \in 0 .. Len(p) /\ k \in 0 .. Len(p)
      BY <1>3
    <2>3. 1 < k => Len(f[1]) < Len(f[k])
      BY <1>5, <2>2
    <2> QED
      BY <1>3, <1>4, <1>5, <1>6, <2>1, <2>2, <2>3
  <1>11. Drops(AfterRead(p, n), p, k)
    <2>1. CASE k = Len(p)
      <3>1. AfterRead(p, n) = <<>>
        BY <1>4, <2>1
      <3>2. Len(<<>>) = Len(p) - k /\ 1 .. Len(<<>>) = {}
        BY <1>3, <2>1
      <3> QED
        BY <1>9, <3>1, <3>2 DEF Drops
    <2>2. CASE k # Len(p)
      <3> DEFINE w == p[k + 1]
                 left == SubSeq(p, k + 1, Len(p))
      <3>1. k + 1 \in 1 .. Len(p) /\ n - Len(f[k]) + 1 = 1
        BY <1>3, <1>7, <1>9, <2>2
      <3>2. w \in Seq(Byte)
        BY <1>3, <3>1, WriteFacts
      <3>3. SubSeq(w, 1, Len(w)) = w
        <4> HIDE DEF w
        <4> QED
          BY <3>2
      <3>4. AfterRead(p, n) = <<w>> \o Tail(left)
        BY <1>4, <2>2, <3>1, <3>3
      <3>5. /\ left \in Seq(Chunk) /\ Len(left) = Len(p) - k
            /\ \A i \in 1 .. Len(p) - k : left[i] = p[k + i]
        BY Suffix DEF Pipe
      <3>6. w = left[1] /\ Len(left) # 0
        <4>1. 1 \in 1 .. Len(p) - k
          BY <1>3, <1>9, <3>1
        <4> HIDE DEF left
        <4> QED
          BY <1>3, <1>9, <3>1, <3>5, <4>1
      <3> HIDE DEF w, left
      <3>7. <<w>> \o Tail(left) = left
        BY <3>5, <3>6
      <3> QED
        BY <1>9, <3>4, <3>5, <3>7 DEF Drops
    <2> QED
      BY <2>1, <2>2
  <1> QED
    BY <1>9, <1>10, <1>11

\* A read of the first write, and of nothing else, does not split it.
LEMMA WholeIsUnsplit ==
    ASSUME NEW p \in Pipe, p # <<>> PROVE ~ EndsInside(p, Len(p[1]))
  <1>1. Len(p) \in Nat /\ 1 \in 1 .. Len(p)
    BY PipeFacts
  <1>2. PICK f : Joins(f, p, Byte)
    BY PipeFacts
  <1>3. Sizes(f, p)
    BY <1>2, JoinSizes
  <1>4. 1 \in 0 .. Len(p)
    BY <1>1
  <1>5. InFlight(SubSeq(p, 1, 1)) = Len(p[1])
    <2>1. \A i \in 1 .. Len(p) : Len(f[i]) = Len(f[i - 1]) + Len(p[i]) /\ Len(p[i]) \in Nat \ {0}
      BY <1>3 DEF Sizes
    <2>2. Len(f[0]) = 0 /\ 1 - 1 = 0 /\ InFlight(SubSeq(p, 1, 1)) = Len(f[1])
      BY <1>3, <1>4 DEF Sizes
    <2>3. Len(f[1]) = Len(f[0]) + Len(p[1]) /\ Len(p[1]) \in Nat
      BY <1>1, <2>1, <2>2
    <2> QED
      BY <2>2, <2>3
  <1> QED
    BY <1>1, <1>5 DEF EndsInside

LEMMA PipeAppend ==
    ASSUME NEW p \in Pipe, NEW w \in Chunk
    PROVE  /\ Len(Append(p, w)) = Len(p) + 1 /\ Len(p) \in Nat
           /\ \A i \in 1 .. Len(p) : Append(p, w)[i] = p[i]
           /\ Append(p, w)[Len(p) + 1] = w
  BY DEF Pipe

-----------------------------------------------------------------------------
\* Text messages that a Read returned in part, or with what follows them

LEMMA NextColonIs ==
    ASSUME NEW s \in String, NEW o \in Nat, NextColon(s, o) <= Len(s)
    PROVE  NextColon(s, o) \in o + 1 .. Len(s) /\ s[NextColon(s, o)] = Colon
  <1> DEFINE T == {j \in o + 1 .. Len(s) : s[j] = Colon} \union {Len(s) + 1}
  <1>1. Len(s) \in Nat
    BY LenIsNat
  <1>2. T \subseteq Nat /\ Len(s) + 1 \in T
    BY <1>1
  <1>3. \A x \in T : x <= Len(s) => x \in o + 1 .. Len(s) /\ s[x] = Colon
    BY <1>1
  <1>4. NextColon(s, o) = Min(T)
    BY DEF NextColon
  <1> HIDE DEF T
  <1>5. PICK x \in T : \A y \in T : x <= y
    BY <1>2, LeastNumber
  <1>6. Min(T) = x
    BY <1>2, <1>5, MinIs
  <1> QED
    BY <1>3, <1>4, <1>5, <1>6

\* SplitN returns the parts that begin inside the string.
LEMMA SplitNIs ==
    ASSUME NEW s \in String,
           NEW a, a = <<0, NextColon(s, 0), NextColon(s, NextColon(s, 0)),
                        NextColon(s, NextColon(s, NextColon(s, 0)))>>
    PROVE  \E k \in 1 .. 4 :
             /\ \A j \in 1 .. 4 : a[j] <= Len(s) <=> j <= k
             /\ Len(SplitN(s)) = k
             /\ \A j \in 1 .. k :
                  SplitN(s)[j] = SubSeq(s, a[j] + 1, IF j = k THEN Len(s) ELSE a[j + 1] - 1)
  <1> DEFINE l == Len(s)
             n1 == NextColon(s, 0)
             n2 == NextColon(s, n1)
             n3 == NextColon(s, n2)
  <1>1. l \in Nat
    BY LenIsNat
  <1>2. n1 \in Nat /\ n1 <= l + 1
    BY NextColonBound
  <1>3. n2 \in Nat /\ n2 <= l + 1 /\ (~ (n1 <= l) => ~ (n2 <= l))
    <2> HIDE DEF n1
    <2>1. n2 \in Nat /\ n2 <= l + 1
      BY <1>2, NextColonBound
    <2>2. n2 <= l => n2 \in n1 + 1 .. l
      BY <1>2, NextColonIs
    <2> HIDE DEF n2, l
    <2> QED
      BY <1>1, <1>2, <2>1, <2>2
  <1>4. n3 \in Nat /\ n3 <= l + 1 /\ (~ (n2 <= l) => ~ (n3 <= l))
    <2>0. n2 \in Nat /\ n2 <= l + 1
      BY <1>3
    <2> HIDE DEF n2
    <2>1. n3 \in Nat /\ n3 <= l + 1
      BY <2>0, NextColonBound
    <2>2. n3 <= l => n3 \in n2 + 1 .. l
      BY <2>0, NextColonIs
    <2> HIDE DEF n3, l
    <2> QED
      BY <1>1, <2>0, <2>1, <2>2
  <1>5. a = <<0, n1, n2, n3>>
    OBVIOUS
  <1> HIDE DEF n1, n2, n3
  <1>6. a[1] = 0 /\ a[2] = n1 /\ a[3] = n2 /\ a[4] = n3
    BY <1>5
  <1>7. PICK k \in 1 .. 4 : \A j \in 1 .. 4 : a[j] <= l <=> j <= k
    <2> HIDE DEF l
    <2>0. (n3 <= l => n2 <= l) /\ (n2 <= l => n1 <= l) /\ a[1] <= l
      BY <1>1, <1>3, <1>4, <1>6
    <2>1. CASE n3 <= l
      <3>1. \A j \in 1 .. 4 : a[j] <= l <=> j <= 4
        BY <1>6, <2>0, <2>1
      <3> QED
        BY <3>1
    <2>2. CASE n2 <= l /\ ~ (n3 <= l)
      <3>1. \A j \in 1 .. 4 : a[j] <= l <=> j <= 3
        BY <1>6, <2>0, <2>2
      <3> QED
        BY <3>1
    <2>3. CASE n1 <= l /\ ~ (n2 <= l)
      <3>1. \A j \in 1 .. 4 : a[j] <= l <=> j <= 2
        BY <1>6, <2>0, <2>3
      <3> QED
        BY <3>1
    <2>4. CASE ~ (n1 <= l)
      <3>1. \A j \in 1 .. 4 : a[j] <= l <=> j <= 1
        BY <1>6, <2>0, <2>4
      <3> QED
        BY <3>1
    <2> QED
      BY <2>1, <2>2, <2>3, <2>4
  <1>8. a[k] <= Len(s) /\ \A j \in k + 1 .. 4 : ~ (a[j] <= Len(s))
    BY <1>7
  <1>9. /\ Len(SplitN(s)) = k
        /\ \A j \in 1 .. k :
             SplitN(s)[j] = SubSeq(s, a[j] + 1, IF j = k THEN Len(s) ELSE a[j + 1] - 1)
    <2> HIDE DEF l
    <2>1. CASE k = 1
      BY <1>8, <2>1, SplitNParts
    <2>2. CASE k = 2
      BY <1>8, <2>2, SplitNParts
    <2>3. CASE k = 3
      BY <1>8, <2>3, SplitNParts
    <2>4. CASE k = 4
      <3>1. a[4] <= Len(s) /\ \A j \in 4 + 1 .. 4 : ~ (a[j] <= Len(s))
        BY <1>8, <2>4
      <3>2. /\ Len(SplitN(s)) = 4
            /\ \A j \in 1 .. 4 :
                 SplitN(s)[j] = SubSeq(s, a[j] + 1, IF j = 4 THEN Len(s) ELSE a[j + 1] - 1)
        BY <3>1, SplitNParts
      <3> QED
        BY <2>4, <3>2
    <2> QED
      BY <2>1, <2>2, <2>3, <2>4
  <1> QED
    BY <1>7, <1>9, Zenon

LEMMA TrimIs ==
    ASSUME NEW d \in String, d # <<>>
    PROVE  LET s == TrimNewline(d)
           IN  /\ s \in String /\ (Len(s) = Len(d) \/ Len(s) = Len(d) - 1)
               /\ \A i \in 1 .. Len(s) : s[i] = d[i]
  <1>1. CASE Last(d) = Newline
    <2>1. TrimNewline(d) = Front(d)
      BY <1>1 DEF TrimNewline
    <2>2. /\ Front(d) \in String /\ Len(Front(d)) = Len(d) - 1
          /\ \A i \in 1 .. Len(d) - 1 : Front(d)[i] = d[i]
      BY FrontLast
    <2> QED
      BY <2>1, <2>2
  <1>2. CASE Last(d) # Newline
    <2>1. TrimNewline(d) = d
      BY <1>2 DEF TrimNewline
    <2> QED
      BY <2>1
  <1> QED
    BY <1>1, <1>2

\* The types that carry a length and a payload.
Sized == {"DATA", "REQUEST", "RESPONSE"}

\* Where the parts of a message stand in its text.
LEMMA TextLayout ==
    ASSUME NEW m \in TextMessage
    PROVE  LET e == TextEncode(m)
               tl == Len(TextOf[m.type])
               xl == Len(m.id)
               w == writeInt[Len(m.data)]
               o == tl + 1 + xl + 1
           IN  /\ e \in String /\ tl + 1 < Len(e)
               /\ At(e, 0, TextOf[m.type]) /\ e[tl + 1] = Colon /\ At(e, tl + 1, m.id)
               /\ m.type \in Sized /\ m.data # <<>> =>
                    /\ e[o] = Colon /\ At(e, o, w) /\ e[o + Len(w) + 1] = Colon
                    /\ At(e, o + Len(w) + 1, m.data)
                    /\ Len(e) = o + Len(w) + 1 + Len(m.data) + 1
  <1> DEFINE T == TextOf[m.type]
             C == <<Colon>>
             N == <<Newline>>
             x == m.id
             y == m.data
             w == writeInt[Len(y)]
             r == Trailer(m)
             e == TextEncode(m)
             tl == Len(T)
             xl == Len(x)
             wl == Len(w)
  <1>1. /\ m.type \in DOMAIN TextOf /\ x \in String /\ y \in String /\ r \in String
        /\ e = T \o C \o x \o r \o N
    BY TextShape
  <1>2. T \in String /\ C \in String /\ N \in String /\ Len(C) = 1 /\ C[1] = Colon /\ Len(N) = 1
    BY <1>1, TextTypes, ColonString, ByteString DEF Newline
  <1>3. w \in String
    BY <1>1, LenIsNat, WriteIntDef
  <1>4. m.type \in Sized /\ y # <<>> => r = C \o w \o C \o y
    BY DEF Trailer, Sized
  <1> HIDE DEF T, C, N, x, y, w, r, e
  <1>5. tl \in Nat /\ xl \in Nat /\ wl \in Nat /\ Len(r) \in Nat /\ Len(y) \in Nat
    BY <1>1, <1>2, <1>3, LenIsNat
  <1>6. /\ e \in String /\ Len(e) = tl + Len(C) + xl + Len(r) + Len(N)
        /\ At(e, 0, T) /\ At(e, tl, C) /\ At(e, tl + Len(C), x) /\ At(e, tl + Len(C) + xl, r)
    <2>1. T \in String /\ C \in String /\ x \in String /\ r \in String /\ N \in String
      BY <1>1, <1>2
    <2> DEFINE q == T \o C \o x \o r \o N
    <2>2. /\ q \in String /\ Len(q) = Len(T) + Len(C) + Len(x) + Len(r) + Len(N)
          /\ At(q, 0, T) /\ At(q, Len(T), C) /\ At(q, Len(T) + Len(C), x)
          /\ At(q, Len(T) + Len(C) + Len(x), r)
          /\ At(q, Len(T) + Len(C) + Len(x) + Len(r), N)
      BY <2>1, FiveParts, Zenon
    <2>3. e = q
      BY <1>1
    <2> QED
      BY <2>2, <2>3
  <1>7. Len(e) = tl + 1 + xl + Len(r) + 1 /\ At(e, tl + 1, x) /\ At(e, tl + 1 + xl, r)
    BY <1>2, <1>6
  <1>8. e[tl + 1] = Colon
    BY <1>2, <1>5, <1>6 DEF At
  <1>9. ASSUME m.type \in Sized, y # <<>>
        PROVE  LET o == tl + 1 + xl + 1
               IN  /\ e[o] = Colon /\ At(e, o, w) /\ e[o + wl + 1] = Colon
                   /\ At(e, o + wl + 1, y) /\ Len(e) = o + wl + 1 + Len(y) + 1
    <2> DEFINE E == <<>>
               b == tl + 1 + xl
    <2>1. r = C \o w \o C \o y /\ E \in String /\ Len(E) = 0
      BY <1>4, <1>9, EmptyString
    <2>2. r \o E = r
      BY <1>1, <2>1, ConcatEmptySeq DEF String
    <2> HIDE DEF E
    <2>3. LET q == C \o w \o C \o y \o E
          IN  /\ q \in String /\ Len(q) = Len(C) + Len(w) + Len(C) + Len(y) + Len(E)
              /\ At(q, 0, C) /\ At(q, Len(C), w) /\ At(q, Len(C) + Len(w), C)
              /\ At(q, Len(C) + Len(w) + Len(C), y)
              /\ At(q, Len(C) + Len(w) + Len(C) + Len(y), E)
      <3>1. C \in String /\ w \in String /\ y \in String /\ E \in String
        BY <1>1, <1>2, <1>3, <2>1
      <3> QED
        BY <3>1, FiveParts, Zenon
    <2>4. C \o w \o C \o y \o E = r
      BY <2>1, <2>2
    <2>5. /\ Len(r) = Len(C) + wl + Len(C) + Len(y) + Len(E)
          /\ At(r, 0, C) /\ At(r, Len(C), w) /\ At(r, Len(C) + wl, C)
          /\ At(r, Len(C) + wl + Len(C), y)
      BY <2>3, <2>4
    <2>6. /\ Len(r) = 2 + wl + Len(y)
          /\ At(r, 0, C) /\ At(r, 1, w) /\ At(r, 1 + wl, C) /\ At(r, 1 + wl + 1, y)
      BY <1>2, <1>5, <2>1, <2>5
    <2>7. b \in Nat /\ 1 + wl \in Nat /\ 1 + wl + 1 \in Nat
      BY <1>5
    <2> HIDE DEF b
    <2>8. At(e, b, r)
      BY <1>7 DEF b
    <2> HIDE DEF wl
    <2>9. At(e, b + 0, C) /\ At(e, b + 1, w) /\ At(e, b + (1 + wl), C) /\ At(e, b + (1 + wl + 1), y)
      BY <1>1, <1>2, <1>3, <1>6, <2>6, <2>7, <2>8, AtInside
    <2>10. e[b + 1] = Colon /\ e[b + (1 + wl) + 1] = Colon
      <3>1. e[(b + 0) + 1] = Colon /\ e[(b + (1 + wl)) + 1] = Colon
        BY <1>2, <2>9 DEF At
      <3> QED
        BY <2>7, <3>1
    <2>11. /\ b + 1 = tl + 1 + xl + 1 /\ b + (1 + wl) + 1 = (tl + 1 + xl + 1) + wl + 1
           /\ b + (1 + wl + 1) = (tl + 1 + xl + 1) + wl + 1
      BY <1>5 DEF b, wl
    <2>12. Len(e) = (tl + 1 + xl + 1) + wl + 1 + Len(y) + 1
      BY <1>5, <1>7, <2>6 DEF wl
    <2> QED
      BY <2>9, <2>10, <2>11, <2>12 DEF wl
  <1>10. tl + 1 < Len(e)
    BY <1>5, <1>7
  <1> QED
    BY <1>6, <1>7, <1>8, <1>9, <1>10 DEF T, x, y, w, e

\* The type of a text that was cut is missing or whole.
LEMMA FirstPart ==
    ASSUME NEW s \in String, NEW T \in String, NoColon(T),
           \A i \in 1 .. Len(s) : i <= Len(T) => s[i] = T[i],
           Len(T) < Len(s) => s[Len(T) + 1] = Colon
    PROVE  /\ Len(s) <= Len(T) => Len(SplitN(s)) = 1
           /\ Len(T) < Len(s) => /\ NextColon(s, 0) = Len(T) + 1
                                 /\ Len(SplitN(s)) \in 2 .. 4 /\ SplitN(s)[1] = T
  <1> DEFINE a == <<0, NextColon(s, 0), NextColon(s, NextColon(s, 0)),
                    NextColon(s, NextColon(s, NextColon(s, 0)))>>
             l == Len(s)
             tl == Len(T)
             parts == SplitN(s)
  <1>1. l \in Nat /\ tl \in Nat /\ \A i \in 1 .. tl : T[i] # Colon
    BY LenIsNat DEF NoColon
  <1>3. a[1] = 0 /\ a[2] = NextColon(s, 0)
    OBVIOUS
  <1>0. a = <<0, NextColon(s, 0), NextColon(s, NextColon(s, 0)),
              NextColon(s, NextColon(s, NextColon(s, 0)))>>
    OBVIOUS
  <1> HIDE DEF a
  <1>2. PICK k \in 1 .. 4 :
          /\ \A j \in 1 .. 4 : a[j] <= l <=> j <= k
          /\ Len(parts) = k
          /\ \A j \in 1 .. k : parts[j] = SubSeq(s, a[j] + 1, IF j = k THEN l ELSE a[j + 1] - 1)
    BY <1>0, SplitNIs, Zenon
  <1> HIDE DEF parts
  <1>4. ASSUME l <= tl PROVE Len(parts) = 1
    <2>1. \A j \in 0 + 1 .. Len(s) : s[j] # Colon
      BY <1>1, <1>4
    <2>2. NextColon(s, 0) = l + 1
      BY <2>1, NextColonNone
    <2>3. ~ (a[2] <= l)
      BY <1>1, <1>3, <2>2
    <2> QED
      BY <1>2, <2>3
  <1>5. ASSUME tl < l PROVE NextColon(s, 0) = tl + 1 /\ Len(parts) \in 2 .. 4 /\ parts[1] = T
    <2>1. At(s, 0, T)
      BY <1>1, <1>5 DEF At
    <2>2. 0 + Len(T) < Len(s) /\ s[0 + Len(T) + 1] = Colon
      BY <1>1, <1>5
    <2>3. NextColon(s, 0) = 0 + Len(T) + 1
      BY <2>1, <2>2, NextColonFound
    <2>4. NextColon(s, 0) = tl + 1
      BY <1>1, <2>3
    <2>5. a[2] <= l
      BY <1>1, <1>3, <1>5, <2>4
    <2>6. k \in 2 .. 4
      BY <1>2, <2>5
    <2>7. parts[1] = SubSeq(s, a[1] + 1, a[1 + 1] - 1)
      <3>1. 1 \in 1 .. k /\ 1 # k
        BY <2>6
      <3> QED
        BY <1>2, <3>1
    <2>8. parts[1] = SubSeq(s, 0 + 1, 0 + Len(T))
      BY <1>1, <1>3, <2>4, <2>7
    <2>9. parts[1] = T
      BY <2>1, <2>8, BytesAt DEF Bytes
    <2> QED
      BY <1>2, <2>4, <2>6, <2>9
  <1> QED
    BY <1>4, <1>5 DEF parts

LEMMA OkMessage ==
    ASSUME NEW a, NEW b, NEW c
    PROVE  LET r == Ok([type |-> a, id |-> b, data |-> c])
           IN  r.res = "ok" /\ r.type = a /\ r.id = b /\ r.data = c
  BY DEF Ok

LEMMA PrefixIs ==
    ASSUME NEW v \in String, NEW y \in String, Len(v) <= Len(y), \A i \in 1 .. Len(v) : v[i] = y[i]
    PROVE  IsPrefix(v, y) /\ (Len(v) = Len(y) => v = y)
  <1>1. Len(v) \in Nat /\ Len(y) \in Nat
    BY LenIsNat
  <1>2. At(y, 0, v) /\ At(v, 0, v)
    BY <1>1 DEF At
  <1>3. SubSeq(y, 0 + 1, 0 + Len(v)) = v /\ SubSeq(v, 0 + 1, 0 + Len(v)) = v
    BY <1>2, BytesAt DEF Bytes
  <1>4. SubSeq(y, 1, Len(v)) = v /\ SubSeq(v, 1, Len(v)) = v
    BY <1>1, <1>3
  <1>5. Len(v) = Len(y) => v = y
    BY SeqEqual DEF String
  <1> QED
    BY <1>4, <1>5 DEF IsPrefix

\* A text of which a Read returned a part, or which came with what follows it, is refused
\* or has its type, and as much of its payload as was read; once all of it was read, and
\* more or not, a message with a payload is as it was sent (mux.go:527-534).
THEOREM TextReads ==
    ASSUME NEW m \in TextMessage, m.type \in Sized => m.data # <<>>,
           NEW d \in String, d # <<>>, Reads(d, TextEncode(m), 0)
    PROVE  LET t == TextDecode(d)
           IN  /\ t = Err \/ (t.res = "ok" /\ t.type = m.type)
               /\ t.res = "ok" /\ m.type \in Sized =>
                    IsPrefix(t.data, m.data) /\ (t.data = <<>> \/ t.id = m.id)
               /\ t.res = "ok" /\ m.type = "CLOSE" => t.data = <<>>
               /\ m.type \in Sized /\ Len(d) >= Len(TextEncode(m)) =>
                    t.res = "ok" /\ t.id = m.id /\ t.data = m.data
  <1> DEFINE e == TextEncode(m)
             T == TextOf[m.type]
             x == m.id
             y == m.data
             w == writeInt[Len(y)]
             s == TrimNewline(d)
             parts == SplitN(s)
             tl == Len(T)
             xl == Len(x)
             yl == Len(y)
             wl == Len(w)
             p1 == tl + 1
             p2 == tl + 1 + xl + 1
             p3 == p2 + wl + 1
             t == TextDecode(d)
             types == {u \in DOMAIN TextOf : TextOf[u] = parts[1]}
  <1>1. /\ e \in String /\ p1 < Len(e) /\ At(e, 0, T) /\ e[p1] = Colon /\ At(e, p1, x)
        /\ m.type \in Sized => /\ e[p2] = Colon /\ At(e, p2, w) /\ e[p3] = Colon /\ At(e, p3, y)
                               /\ Len(e) = p3 + yl + 1
    BY TextLayout
  <1>2. /\ m.type \in DOMAIN TextOf /\ x \in String /\ y \in String /\ NoColon(x)
    BY TextShape DEF TextMessage
  <1>3. T \in String /\ NoColon(T) /\ {u \in DOMAIN TextOf : TextOf[u] = T} = {m.type}
    BY <1>2, TextTypes
  <1>4. /\ w \in String /\ w # <<>> /\ ToSet(w) \subseteq Digit /\ Atoi[w] = yl
        /\ Unsigned(w) = w /\ w[1] # Minus
    BY <1>2, LenIsNat, WriteIntDef, DecimalRoundTrip, UnsignedDigits
  <1>5. NoColon(w)
    <2>1. ASSUME NEW i \in 1 .. Len(w) PROVE w[i] # Colon
      <3>1. i \in DOMAIN w
        BY <1>4 DEF String
      <3>2. w[i] \in Digit
        BY <1>4, <3>1 DEF ToSet
      <3> QED
        BY <3>2 DEF Digit, Colon
    <2> QED
      BY <2>1 DEF NoColon
  <1>6. /\ s \in String /\ (Len(s) = Len(d) \/ Len(s) = Len(d) - 1) /\ Len(s) \in Nat /\ Len(d) \in Nat
        /\ \A i \in 1 .. Len(s) : s[i] = d[i]
    BY TrimIs, LenIsNat
  <1>7. t = DecodeParts(s, parts)
    BY DEF TextDecode
  <1> HIDE DEF e, T, x, y, w, s, parts, t
  <1>8. tl \in Nat /\ xl \in Nat /\ yl \in Nat /\ wl \in Nat /\ Len(e) \in Nat
    BY <1>1, <1>2, <1>3, <1>4, LenIsNat
  <1>9. ASSUME NEW i \in 1 .. Len(s), i <= Len(e) PROVE s[i] = e[i]
    <2>1. i \in 1 .. Len(d) /\ i + 0 = i
      BY <1>6
    <2>2. \A j \in 1 .. Len(d) : j + 0 <= Len(e) => d[j] = e[j + 0]
      BY DEF Reads, e
    <2> QED
      BY <1>6, <1>9, <2>1, <2>2
  \* What stands in the text stands in what was read of it.
  <1>10. ASSUME NEW z \in String, NEW o \in Nat, At(e, o, z), o + Len(z) <= Len(s)
         PROVE  At(s, o, z)
    <2>1. ASSUME NEW i \in 1 .. Len(z) PROVE s[o + i] = z[i]
      <3>1. Len(z) \in Nat /\ o + Len(z) <= Len(e) /\ e[o + i] = z[i]
        BY <1>10, LenIsNat DEF At
      <3>2. o + i \in 1 .. Len(s) /\ o + i <= Len(e)
        BY <1>6, <1>8, <1>10, <3>1
      <3> QED
        BY <1>9, <3>1, <3>2
    <2> QED
      BY <1>10, <2>1 DEF At
  <1>11. \A i \in 1 .. Len(s) : i <= Len(T) => s[i] = T[i]
    <2>1. \A i \in 1 .. tl : e[0 + i] = T[i] /\ i <= Len(e)
      BY <1>1, <1>8 DEF At
    <2> QED
      BY <1>6, <1>8, <1>9, <2>1
  <1>12. tl < Len(s) => s[tl + 1] = Colon
    BY <1>1, <1>6, <1>8, <1>9
  <1>13. /\ Len(s) <= tl => Len(parts) = 1
         /\ tl < Len(s) => NextColon(s, 0) = p1 /\ Len(parts) \in 2 .. 4 /\ parts[1] = T
    BY <1>3, <1>6, <1>11, <1>12, FirstPart DEF parts
  <1>14. ASSUME parts[1] = T PROVE types # {} /\ (CHOOSE u \in types : TRUE) = m.type
    BY <1>3, <1>14
  <1> HIDE DEF types
  <1>15. CASE Len(s) <= tl
    <2>0. Len(parts) = 1
      BY <1>13, <1>15, Zenon
    <2>1. Len(parts) < 2
      BY <2>0
    <2>2. t = Err
      BY <1>7, <2>1 DEF DecodeParts
    <2>3. ~ (Len(d) >= Len(e))
      BY <1>1, <1>6, <1>8, <1>15
    <2> QED
      BY <2>2, <2>3 DEF Err, t, e
  <1>16. CASE tl < Len(s) /\ m.type \notin Sized
    <2>0. Len(parts) \in 2 .. 4 /\ parts[1] = T
      BY <1>13, <1>16, Zenon
    <2>1. parts[1] = T /\ ~ (Len(parts) < 2)
      BY <2>0
    <2>2. ASSUME m.type # "CLOSE" PROVE \E i, v : t = Ok([type |-> m.type, id |-> i, data |-> v])
      BY <1>7, <1>14, <1>16, <2>1, Zenon DEF DecodeParts, types, Sized
    <2>4. ASSUME m.type = "CLOSE" PROVE t = Ok([type |-> m.type, id |-> parts[2], data |-> <<>>])
      <3>1. m.type \notin {"DATA", "REQUEST", "RESPONSE"} /\ m.type # "NEWCONN"
        BY <2>4
      <3> QED
        BY <1>7, <1>14, <2>1, <3>1, Zenon DEF DecodeParts, types
    <2>5. CASE m.type # "CLOSE"
      <3>0. PICK i, v : t = Ok([type |-> m.type, id |-> i, data |-> v])
        BY <2>2, <2>5
      <3>1. t.res = "ok" /\ t.type = m.type
        BY <3>0, OkMessage
      <3> QED
        BY <1>16, <2>5, <3>1 DEF t
    <2>6. CASE m.type = "CLOSE"
      <3>1. t.res = "ok" /\ t.type = m.type /\ t.data = <<>>
        BY <2>4, <2>6, OkMessage
      <3> QED
        BY <1>16, <3>1 DEF t
    <2> QED
      BY <2>5, <2>6
  <1>17. CASE tl < Len(s) /\ m.type \in Sized
    <2>0. Len(parts) \in 2 .. 4 /\ parts[1] = T /\ NextColon(s, 0) = p1
      BY <1>13, <1>17, Zenon
    <2>1. parts[1] = T /\ ~ (Len(parts) < 2) /\ NextColon(s, 0) = p1
      BY <2>0
    <2> DEFINE a == <<0, NextColon(s, 0), NextColon(s, NextColon(s, 0)),
                      NextColon(s, NextColon(s, NextColon(s, 0)))>>
    <2>2. PICK k \in 1 .. 4 :
            /\ \A j \in 1 .. 4 : a[j] <= Len(s) <=> j <= k
            /\ Len(parts) = k
            /\ \A j \in 1 .. k : parts[j] = SubSeq(s, a[j] + 1, IF j = k THEN Len(s) ELSE a[j + 1] - 1)
      BY <1>6, SplitNIs DEF parts
    <2>3. a[2] = p1 /\ a[3] = NextColon(s, p1) /\ a[4] = NextColon(s, a[3])
      BY <2>1
    <2> HIDE DEF a
    <2>4. p1 \in Nat /\ p2 \in Nat /\ p3 \in Nat /\ p1 + xl + 1 = p2 /\ p2 + wl + 1 = p3
      BY <1>8
    <2>5. CASE Len(s) < p3
      \* Two colons alone stand before the payload's.
      <3>1. ASSUME NEW i \in 1 .. Len(s), s[i] = Colon PROVE i = p1 \/ i = p2
        <4>1. i < p3 /\ i <= Len(e) /\ e[i] = Colon
          <5>1. i < p3 /\ i <= Len(e)
            BY <1>1, <1>6, <1>8, <1>17, <2>4, <2>5
          <5> QED
            BY <1>9, <3>1, <5>1
        <4>2. CASE i \in 1 .. tl
          <5>1. e[0 + i] = T[i] /\ T[i] # Colon
            BY <1>1, <1>3, <4>2 DEF At, NoColon
          <5> QED
            BY <4>1, <4>2, <5>1
        <4>3. CASE i \in p1 + 1 .. p1 + xl
          <5>1. i - p1 \in 1 .. xl /\ p1 + (i - p1) = i
            BY <1>8, <2>4, <4>3
          <5>2. e[p1 + (i - p1)] = x[i - p1] /\ x[i - p1] # Colon
            BY <1>1, <1>2, <5>1 DEF At, NoColon
          <5> QED
            BY <4>1, <5>1, <5>2
        <4>4. CASE i \in p2 + 1 .. p2 + wl
          <5>1. i - p2 \in 1 .. wl /\ p2 + (i - p2) = i
            BY <1>8, <2>4, <4>4
          <5>2. e[p2 + (i - p2)] = w[i - p2] /\ w[i - p2] # Colon
            BY <1>1, <1>5, <1>17, <5>1 DEF At, NoColon
          <5> QED
            BY <4>1, <5>1, <5>2
        <4>5. \/ i \in 1 .. tl \/ i = p1 \/ i \in p1 + 1 .. p1 + xl \/ i = p2
              \/ i \in p2 + 1 .. p2 + wl
          BY <1>8, <4>1
        <4> QED
          BY <4>2, <4>3, <4>4, <4>5
      <3>2. ASSUME Len(parts) = 4 PROVE FALSE
        <4>1. a[3] <= Len(s) /\ a[4] <= Len(s)
          BY <2>2, <3>2
        <4>2. a[3] \in p1 + 1 .. Len(s) /\ s[a[3]] = Colon
          BY <1>6, <2>3, <2>4, <4>1, NextColonIs
        <4>3. a[3] \in Nat
          BY <1>6, <2>4, <4>2
        <4>4. a[4] \in a[3] + 1 .. Len(s) /\ s[a[4]] = Colon
          BY <1>6, <2>3, <4>1, <4>3, NextColonIs
        <4>5. a[3] \in 1 .. Len(s) /\ a[4] \in 1 .. Len(s)
          BY <1>6, <2>4, <4>2, <4>3, <4>4
        <4>6. (a[3] = p1 \/ a[3] = p2) /\ (a[4] = p1 \/ a[4] = p2)
          BY <3>1, <4>2, <4>4, <4>5
        <4> QED
          BY <1>6, <2>4, <4>2, <4>3, <4>4, <4>6
      <3>3. t = Ok([type |-> m.type, id |-> parts[2], data |-> <<>>])
        <4>1. ~ (Len(parts) = 4) /\ m.type # "NEWCONN"
          BY <1>17, <3>2 DEF Sized
        <4> QED
          BY <1>7, <1>14, <2>1, <4>1, Zenon DEF DecodeParts, types
      <3>4. t.res = "ok" /\ t.type = m.type /\ t.data = <<>>
        BY <3>3, OkMessage
      <3>5. IsPrefix(t.data, y)
        BY <1>2, <1>8, <3>4, EmptyString, PrefixIs
      <3>6. ~ (Len(d) >= Len(e))
        BY <1>1, <1>6, <1>8, <1>17, <2>4, <2>5
      <3> QED
        BY <3>4, <3>5, <3>6 DEF t, e, y
    <2>6. CASE p3 <= Len(s)
      <3>1. At(s, p1, x) /\ At(s, p2, w)
        <4>1. p1 + xl <= Len(s) /\ p2 + wl <= Len(s)
          BY <1>6, <1>8, <2>4, <2>6
        <4> QED
          BY <1>1, <1>2, <1>4, <1>10, <1>17, <2>4, <4>1
      <3>2. s[p2] = Colon /\ s[p3] = Colon
        <4>1. p2 \in 1 .. Len(s) /\ p3 \in 1 .. Len(s) /\ p2 <= Len(e) /\ p3 <= Len(e)
          BY <1>1, <1>6, <1>8, <1>17, <2>4, <2>6
        <4> QED
          BY <1>1, <1>9, <1>17, <4>1
      <3>3. a[3] = p2
        <4>1. p1 + Len(x) < Len(s) /\ s[p1 + Len(x) + 1] = Colon
          BY <1>6, <1>8, <2>4, <2>6, <3>2
        <4>2. NextColon(s, p1) = p1 + Len(x) + 1
          BY <1>2, <1>6, <2>4, <3>1, <4>1, NextColonFound
        <4> QED
          BY <2>3, <2>4, <4>2
      <3>4. a[4] = p3
        <4>1. p2 + Len(w) < Len(s) /\ s[p2 + Len(w) + 1] = Colon
          BY <1>6, <1>8, <2>4, <2>6, <3>2
        <4>2. NextColon(s, p2) = p2 + Len(w) + 1
          BY <1>4, <1>5, <1>6, <2>4, <3>1, <4>1, NextColonFound
        <4> QED
          BY <2>3, <2>4, <3>3, <4>2
      <3>5. k = 4 /\ Len(parts) = 4
        BY <2>2, <2>6, <3>4
      <3>6. /\ parts[2] = SubSeq(s, p1 + 1, p1 + xl) /\ parts[3] = SubSeq(s, p2 + 1, p2 + wl)
            /\ parts[4] = SubSeq(s, p3 + 1, Len(s))
        <4>1. /\ parts[2] = SubSeq(s, a[2] + 1, a[2 + 1] - 1) /\ parts[3] = SubSeq(s, a[3] + 1, a[3 + 1] - 1)
              /\ parts[4] = SubSeq(s, a[4] + 1, Len(s))
          BY <2>2, <3>5
        <4>2. a[2 + 1] - 1 = p1 + xl /\ a[3 + 1] - 1 = p2 + wl
          BY <1>8, <2>4, <3>3, <3>4
        <4> QED
          BY <2>3, <3>3, <3>4, <4>1, <4>2
      <3>7. parts[2] = x /\ parts[3] = w
        BY <1>2, <1>4, <1>6, <2>4, <3>1, <3>6, BytesAt DEF Bytes
      <3> DEFINE q == parts[4]
                 n == Len(s) - p3
                 v == IF Len(q) > yl THEN Bytes(q, 0, yl) ELSE q
      <3>8. n \in Nat /\ q \in String /\ Len(q) = n /\ \A i \in 1 .. n : q[i] = s[p3 + i]
        <4>1. n \in Nat /\ Len(s) \in Int /\ p3 + 1 \in Int
          BY <1>6, <2>4, <2>6
        <4>2. \A i \in p3 + 1 .. Len(s) : s[i] \in Nat
          <5>1. \A i \in 1 .. Len(s) : s[i] \in Nat
            BY <1>6 DEF String
          <5>2. p3 \in Nat
            BY <2>4
          <5> HIDE DEF p3
          <5> QED
            BY <1>6, <5>1, <5>2
        <4>3. /\ q \in Seq(Nat) /\ Len(q) = IF p3 + 1 <= Len(s) THEN Len(s) - (p3 + 1) + 1 ELSE 0
              /\ \A i \in 1 .. Len(s) - (p3 + 1) + 1 : q[i] = s[(p3 + 1) + i - 1]
          BY <3>6, <4>1, <4>2, SubSeqProperties
        <4> HIDE DEF q
        <4>4. Len(q) = n
          BY <1>6, <2>4, <2>6, <4>1, <4>3
        <4>5. ASSUME NEW i \in 1 .. n PROVE q[i] = s[p3 + i]
          <5>1. i \in 1 .. Len(s) - (p3 + 1) + 1 /\ (p3 + 1) + i - 1 = p3 + i
            BY <1>6, <2>4, <2>6
          <5> QED
            BY <4>3, <5>1
        <4> QED
          BY <4>1, <4>3, <4>4, <4>5 DEF String
      <3>9. t = Ok([type |-> m.type, id |-> x, data |-> v])
        <4>1. /\ ~ (parts[3] = <<>>) /\ Unsigned(parts[3]) = parts[3] /\ ToSet(parts[3]) \subseteq Digit
              /\ ~ (parts[3][1] = Minus) /\ Atoi[parts[3]] = yl
          BY <1>4, <3>7
        <4> QED
          BY <1>7, <1>14, <1>17, <2>1, <3>5, <3>7, <4>1, Zenon DEF DecodeParts, types, Sized
      <3> HIDE DEF q
      <3>10. /\ v \in String /\ Len(v) <= yl /\ (n >= yl => Len(v) = yl)
             /\ \A i \in 1 .. Len(v) : i <= n /\ v[i] = q[i]
        <4>1. CASE Len(q) > yl
          <5>1. v = SubSeq(q, 0 + 1, 0 + yl)
            BY <4>1 DEF Bytes
          <5>2. v = SubSeq(q, 1, yl) /\ yl <= n
            BY <1>8, <3>8, <4>1, <5>1
          <5> HIDE DEF v
          <5>3. v \in String /\ Len(v) = yl /\ \A i \in 1 .. yl : v[i] = q[i]
            BY <1>8, <3>8, <5>2 DEF String
          <5> QED
            BY <1>8, <3>8, <5>2, <5>3
        <4>2. CASE ~ (Len(q) > yl)
          BY <1>8, <3>8, <4>2
        <4> QED
          BY <4>1, <4>2
      <3> HIDE DEF v
      <3>11. ASSUME NEW i \in 1 .. Len(v) PROVE v[i] = y[i]
        <4>1. Len(v) \in Nat /\ i \in 1 .. n /\ i \in 1 .. yl
          BY <1>8, <3>8, <3>10, LenIsNat
        <4>2. p3 + i \in 1 .. Len(s) /\ p3 + i <= Len(e)
          BY <1>1, <1>6, <1>8, <1>17, <2>4, <4>1
        <4>3. v[i] = s[p3 + i]
          BY <3>8, <3>10, <4>1
        <4>4. s[p3 + i] = e[p3 + i]
          BY <1>9, <4>2
        <4>5. e[p3 + i] = y[i]
          BY <1>1, <1>17, <4>1 DEF At
        <4> QED
          BY <4>3, <4>4, <4>5
      <3>12. IsPrefix(v, y) /\ (Len(v) = yl => v = y)
        BY <1>2, <3>10, <3>11, PrefixIs
      <3>13. t.res = "ok" /\ t.type = m.type /\ t.id = x /\ t.data = v
        BY <3>9, OkMessage
      <3>14. Len(d) >= Len(e) => n >= yl
        BY <1>1, <1>6, <1>8, <1>17, <2>4
      <3> QED
        <4>1. m.type # "CLOSE"
          BY <1>17 DEF Sized
        <4> QED
          BY <3>10, <3>12, <3>13, <3>14, <4>1 DEF t, e, x, y
    <2> QED
      BY <1>6, <2>4, <2>5, <2>6
  <1> QED
    BY <1>6, <1>8, <1>15, <1>16, <1>17

=============================================================================
