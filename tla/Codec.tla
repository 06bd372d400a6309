------------------------------- MODULE Codec --------------------------------
(***************************************************************************)
(* The byte formats of the tunnel: the control messages and the session    *)
(* header of quic/quic.go, and the text and binary messages of             *)
(* forward/mux.go.  A byte is a number below 256 and a string is the       *)
(* sequence of its bytes, so that lengths, their two- and four-byte big    *)
(* endian forms and the bounds checks are those of the code.  Offsets are  *)
(* Go's: offset o is position o + 1.                                       *)
(*                                                                         *)
(* A decoder answers a record, Err (the code returns an error or drops the *)
(* message) or Panic (an index or a slice beyond the bytes it was given).  *)
(***************************************************************************)
EXTENDS Integers, SequencesExt

Byte == 0 .. 255

\* Control message and stream types (quic.go:75-92, 2409).
StreamTypeControl == 0
StreamTypeData == 1
MsgTypeRegister == 1
MsgTypeRegisterAck == 2
MsgTypeHeartbeat == 3
MsgTypeHeartbeatAck == 4
MsgTypeNewConn == 5
MsgTypeCloseConn == 6
MsgTypeData == 8
MsgTypeConfigUpdate == 9
MsgTypeConfigAck == 10
MsgTypeSessionRestore == 11

ProtocolTCP == 1
ProtocolHTTP2 == 4
ProtocolHTTP3 == 5

Err == [res |-> "err"]
Panic == [res |-> "panic"]
Ok(r) == [f \in {"res"} \union DOMAIN r |-> IF f = "res" THEN "ok" ELSE r[f]]

PutUint16(n) == <<(n \div 256) % 256, n % 256>>
PutUint32(n) == PutUint16(n \div 65536) \o PutUint16(n % 65536)
Uint16(p, o) == p[o + 1] * 256 + p[o + 2]
Uint32(p, o) == Uint16(p, o) * 65536 + Uint16(p, o + 2)
Bytes(p, o, n) == SubSeq(p, o + 1, o + n)
Str16(s) == PutUint16(Len(s)) \o s

\* A slice of a longer buffer may reach past the bytes that were read: Go
\* checks it against the capacity.  Stale stands for what an earlier read
\* left there.
Stale == 256
Reslice(p, o, n) == [i \in 1 .. n |-> IF o + i <= Len(p) THEN p[o + i] ELSE Stale]

-----------------------------------------------------------------------------
\* Streams.  A pipe is the sequence of the writes not read yet, and a Read takes
\* any number of its bytes: it may end inside a write or take several at once.

InFlight(pipe) == Len(FlattenSeq(pipe))

\* What is left of the writes once n bytes are read.
AfterRead(pipe, n) ==
    LET size(k) == InFlight(SubSeq(pipe, 1, k))
        k == CHOOSE k \in 0 .. Len(pipe) : size(k) <= n /\ (k = Len(pipe) \/ n < size(k + 1))
        left == SubSeq(pipe, k + 1, Len(pipe))
    IN  IF left = <<>> THEN left
        ELSE <<SubSeq(left[1], n - size(k) + 1, Len(left[1]))>> \o Tail(left)

EndsInside(pipe, n) == InFlight(AfterRead(pipe, n)) > 0
    /\ \A k \in 1 .. Len(pipe) : InFlight(SubSeq(pipe, 1, k)) /= n

-----------------------------------------------------------------------------
\* Control messages

buildRegisterMessage(r) ==
    <<MsgTypeRegister>> \o Str16(r.id) \o <<r.proto>> \o Str16(r.addr)
        \o Str16(r.domain) \o Str16(r.token)

\* Mutant: the token's bounds are not checked.
parseRegisterPayload_NoTokenCheck(p) ==
    LET idLen == Uint16(p, 0)
        addrAt == 2 + idLen + 1
        addrLen == Uint16(p, addrAt)
        domAt == addrAt + 2 + addrLen
        domLen == Uint16(p, domAt)
        tokAt == domAt + 2 + domLen
        tokLen == Uint16(p, tokAt)
    IN  IF /\ Len(p) >= 9
           /\ 2 + idLen < Len(p)
           /\ p[addrAt] \in ProtocolTCP .. ProtocolHTTP3
           /\ addrAt + 2 <= Len(p)
           /\ domAt <= Len(p)
           /\ domAt + 2 <= Len(p)
           /\ domLen > 0 => tokAt <= Len(p)
           /\ tokAt + 2 <= Len(p)
        THEN Ok([id |-> Bytes(p, 2, idLen), proto |-> p[addrAt],
                 addr |-> Bytes(p, addrAt + 2, addrLen),
                 domain |-> Bytes(p, domAt + 2, domLen),
                 token |-> Reslice(p, tokAt + 2, tokLen)])
        ELSE Err

\* Every failed check is an error that refuses the registration.
parseRegisterPayload(p) ==
    LET idLen == Uint16(p, 0)
        addrAt == 2 + idLen + 1
        addrLen == Uint16(p, addrAt)
        domAt == addrAt + 2 + addrLen
        domLen == Uint16(p, domAt)
        tokAt == domAt + 2 + domLen
        tokLen == Uint16(p, tokAt)
    IN  IF /\ Len(p) >= 9
           /\ 2 + idLen < Len(p)
           /\ p[addrAt] \in ProtocolTCP .. ProtocolHTTP3
           /\ addrAt + 2 <= Len(p)
           /\ domAt <= Len(p)
           /\ domAt + 2 <= Len(p)
           /\ domLen > 0 => tokAt <= Len(p)
           /\ tokAt + 2 <= Len(p)
           /\ tokAt + 2 + tokLen <= Len(p)
        THEN Ok([id |-> Bytes(p, 2, idLen), proto |-> p[addrAt],
                 addr |-> Bytes(p, addrAt + 2, addrLen),
                 domain |-> Bytes(p, domAt + 2, domLen),
                 token |-> Bytes(p, tokAt + 2, tokLen)])
        ELSE Err

\* Eight bytes of timestamp, which the server reads and does not use.
Timestamp == [i \in 1 .. 8 |-> 0]

sendSessionRestore(r) ==
    <<MsgTypeSessionRestore>> \o Str16(r.id) \o <<r.proto>> \o Str16(r.addr) \o Timestamp

parseSessionRestore(p) ==
    LET idLen == Uint16(p, 0)
        addrAt == 2 + idLen + 1
        addrLen == Uint16(p, addrAt)
    IN  IF /\ Len(p) >= 2
           /\ Len(p) >= addrAt
           /\ Len(p) >= addrAt + 2
           /\ Len(p) >= addrAt + 2 + addrLen + 8
        THEN Ok([id |-> Bytes(p, 2, idLen), proto |-> p[addrAt],
                 addr |-> Bytes(p, addrAt + 2, addrLen)])
        ELSE Err

sendRegisterAck(a) ==
    <<MsgTypeRegisterAck>> \o Str16(a.id) \o Str16(a.url) \o PutUint16(a.port) \o Str16(a.err)

\* The client checks no length: short of bytes it panics, except inside a
\* string, which it takes from the rest of its buffer.
parseRegisterAck(p) ==
    LET idLen == Uint16(p, 0)
        urlAt == 2 + idLen
        urlLen == Uint16(p, urlAt)
        errAt == urlAt + 2 + urlLen + 2
        errLen == Uint16(p, errAt)
    IN  IF /\ 2 <= Len(p)
           /\ urlAt + 2 <= Len(p)
           /\ errAt + 2 <= Len(p)
        THEN Ok([id |-> Reslice(p, 2, idLen), url |-> Reslice(p, urlAt + 2, urlLen),
                 err |-> Reslice(p, errAt + 2, errLen)])
        ELSE Panic

buildNewConnMessage(id, remote) == <<MsgTypeNewConn>> \o Str16(id) \o Str16(remote)

\* Mutant: the remote address is not read.
parseNewConn_NoRemote(p) ==
    IF 2 <= Len(p) THEN Ok([id |-> Reslice(p, 2, Uint16(p, 0)), remote |-> <<>>]) ELSE Panic

parseNewConn(p) ==
    LET idLen == Uint16(p, 0)
        remAt == 2 + idLen
    IN  IF 2 <= Len(p) /\ remAt + 2 <= Len(p)
        THEN Ok([id |-> Reslice(p, 2, idLen), remote |-> Reslice(p, remAt + 2, Uint16(p, remAt))])
        ELSE Panic

BuildCloseConnMessage(id) == <<MsgTypeCloseConn>> \o id

\* The binary DATA message the client's handleData expects.
parseData(p) ==
    LET idLen == Uint16(p, 0)
        lenAt == 2 + idLen
        dataLen == Uint32(p, lenAt)
    IN  IF /\ 2 <= Len(p)
           /\ 2 + idLen <= Len(p)
           /\ lenAt + 4 <= Len(p)
           /\ lenAt + 4 + dataLen <= Len(p)
        THEN Ok([id |-> Bytes(p, 2, idLen), data |-> Bytes(p, lenAt + 4, dataLen)])
        ELSE Err

SendConfigUpdate(json) == <<MsgTypeConfigUpdate>> \o Str16(json)

parseConfigUpdate(p) ==
    IF 2 <= Len(p) /\ 2 + Uint16(p, 0) <= Len(p)
    THEN Ok([json |-> Bytes(p, 2, Uint16(p, 0))])
    ELSE Err

-----------------------------------------------------------------------------
\* The session header of a data stream

Dot == 46
Colon == 58
Digit == 48 .. 57

\* net.SplitHostPort and net.ParseIP on the addresses of the model: four
\* numbers, a name, or a bracketed address with colons.
detectAddrType(target) ==
    LET host == IF Contains(target, Colon)
                THEN SubSeq(target, 1, SelectLastInSeq(target, LAMBDA c : c = Colon) - 1)
                ELSE target
    IN  IF \E i \in DOMAIN host : host[i] = Colon THEN 2
        ELSE IF /\ ToSet(host) \subseteq Digit \union {Dot}
                /\ Len(SelectSeq(host, LAMBDA c : c = Dot)) = 3 THEN 1
        ELSE 3

HasFrameMap(proto, flags) == proto = ProtocolHTTP2 /\ (flags \div 4) % 2 = 1

EncodeSessionHeader(h) ==
    <<h.proto, IF h.addrType = 0 THEN detectAddrType(h.target) ELSE h.addrType>>
        \o Str16(h.target) \o <<h.flags>> \o Str16(h.conn)
        \o (IF HasFrameMap(h.proto, h.flags) THEN PutUint32(h.stream) ELSE <<>>)

DecodeSessionHeader(d) ==
    LET flagsAt == 4 + Uint16(d, 2)
        connAt == flagsAt + 3
        connLen == Uint16(d, flagsAt + 1)
        mapped == HasFrameMap(d[1], d[flagsAt + 1])
    IN  IF /\ Len(d) >= 7
           /\ Len(d) >= flagsAt + 3
           /\ Len(d) >= connAt + connLen
           /\ mapped => Len(d) >= connAt + connLen + 4
        THEN Ok([proto |-> d[1], addrType |-> d[2], target |-> Bytes(d, 4, flagsAt - 4),
                 flags |-> d[flagsAt + 1], conn |-> Bytes(d, connAt, connLen),
                 stream |-> IF mapped THEN Uint32(d, connAt + connLen) ELSE 0])
        ELSE Err

\* What a reader of a data stream takes after the stream type: the header, in
\* the new or the legacy format, and the bytes left for the connection.  a is
\* the number of bytes it reads between the protocol and the target.
ReadHeader(s, a) ==
    LET flagsAt == 3 + a + Uint16(s, 1 + a)
        connLen == Uint16(s, flagsAt + 1)
        connAt == flagsAt + 3
    IN  IF Len(s) >= 1 /\ s[1] \in ProtocolTCP .. ProtocolHTTP3
        THEN IF /\ Len(s) >= 3 + a
                /\ Len(s) >= flagsAt + 3
                /\ Len(s) >= connAt + connLen
             THEN Ok([target |-> Bytes(s, 3 + a, flagsAt - 3 - a),
                      conn |-> Bytes(s, connAt, connLen),
                      rest |-> SubSeq(s, connAt + connLen + 1, Len(s))])
             ELSE Err
        ELSE IF Len(s) >= 2 /\ Len(s) >= 2 + Uint16(s, 0)
        THEN Ok([target |-> <<>>, conn |-> Bytes(s, 2, Uint16(s, 0)),
                 rest |-> SubSeq(s, 3 + Uint16(s, 0), Len(s))])
        ELSE Err

\* Mutant: the client does not read the address type.
handleQUICDataStream_NoAddrType(s) == ReadHeader(s, 0)

\* The client reads the address type and the server does not.
handleQUICDataStream(s) == ReadHeader(s, 1)
handleDataStream(s) == ReadHeader(s, 0)

-----------------------------------------------------------------------------
\* The messages of forward/mux.go

Newline == 10

\* The decimal digits of a length, as writeInt leaves them.
writeInt[n \in Nat] == IF n < 10 THEN <<48 + n>> ELSE Append(writeInt[n \div 10], 48 + (n % 10))

\* Mutant: no delimiter after the data.
encodeMessage_NoDelimiter(prefix, id, data) ==
    prefix \o id
        \o (IF data = <<>> THEN <<>> ELSE <<Colon>> \o writeInt[Len(data)] \o <<Colon>> \o data)

\* Without data a message has no length field at all.
encodeMessage(prefix, id, data) ==
    prefix \o id
        \o (IF data = <<>> THEN <<>> ELSE <<Colon>> \o writeInt[Len(data)] \o <<Colon>> \o data)
        \o <<Newline>>

TextOf == [DATA |-> <<68, 65, 84, 65>>, CLOSE |-> <<67, 76, 79, 83, 69>>,
           REQUEST |-> <<82, 69, 81, 85, 69, 83, 84>>,
           RESPONSE |-> <<82, 69, 83, 80, 79, 78, 83, 69>>,
           HANDSHAKE |-> <<72, 65, 78, 68, 83, 72, 65, 75, 69>>,
           NEWCONN |-> <<78, 69, 87, 67, 79, 78, 78>>]

\* DefaultMuxEncoder: EncodeData, EncodeRequest and EncodeResponse by
\* encodeMessage, which makes room for its message, EncodeClose and EncodeNewConn
\* by hand into a buffer of 64 KiB that their messages have to fit.
TextEncode(m) ==
    LET prefix == TextOf[m.type] \o <<Colon>>
    IN  CASE m.type \in {"DATA", "REQUEST", "RESPONSE"} -> encodeMessage(prefix, m.id, m.data)
          [] m.type = "CLOSE" -> prefix \o m.id \o <<Newline>>
          [] m.type = "NEWCONN" -> prefix \o m.id \o <<Colon>> \o m.data \o <<Newline>>

\* The first colon after position i, or one past the end.
NextColon(s, i) == Min({j \in i + 1 .. Len(s) : s[j] = Colon} \union {Len(s) + 1})

\* bytes.SplitN(s, ":", 4): the parts between the first three colons.
SplitN(s) ==
    LET n1 == NextColon(s, 0)
        n2 == NextColon(s, n1)
        at == <<0, n1, n2, NextColon(s, n2)>>
        k == Max({j \in 1 .. 4 : at[j] <= Len(s)})
    IN  [j \in 1 .. k |-> SubSeq(s, at[j] + 1, IF j = k THEN Len(s) ELSE at[j + 1] - 1)]

\* strconv.Atoi of decimal digits.
Atoi[s \in Seq(Nat)] == IF s = <<>> THEN 0 ELSE Atoi[Front(s)] * 10 + (Last(s) - 48)

TrimNewline(d) == IF d /= <<>> /\ Last(d) = Newline THEN Front(d) ELSE d

\* The digits of a number that may have a sign.
Plus == 43
Minus == 45
Unsigned(s) == IF s /= <<>> /\ s[1] \in {Plus, Minus} THEN Tail(s) ELSE s

\* The message that the parts of s stand for.  A payload longer than its length
\* is cut, a shorter one is taken as it is, and cutting it to a negative length
\* panics.  A length that no int holds, which Atoi refuses, is not told apart.
DecodeParts(s, parts) ==
    LET types == {t \in DOMAIN TextOf : TextOf[t] = parts[1]}
        type == CHOOSE t \in types : TRUE
        digits == Unsigned(parts[3])
        len == Atoi[digits]
        payload == parts[4]
    IN  IF Len(parts) < 2 \/ types = {} THEN Err
        ELSE IF type \in {"DATA", "REQUEST", "RESPONSE"} /\ Len(parts) = 4
        THEN IF digits = <<>> \/ ~ ToSet(digits) \subseteq Digit THEN Err
             ELSE IF parts[3][1] = Minus /\ len > 0 THEN Panic
             ELSE Ok([type |-> type, id |-> parts[2],
                      data |-> IF Len(payload) > len THEN Bytes(payload, 0, len) ELSE payload])
        ELSE IF type = "NEWCONN" /\ Len(parts) >= 3
        THEN Ok([type |-> type, id |-> parts[2],
                 data |-> SubSeq(s, Len(parts[1]) + Len(parts[2]) + 3, Len(s))])
        ELSE Ok([type |-> type, id |-> parts[2], data |-> <<>>])

\* DefaultMuxDecoder.Decode.
TextDecode(d) == LET s == TrimNewline(d) IN DecodeParts(s, SplitN(s))

\* BinaryProtocol: [type:1][id_len:2][id][payload_len:4][payload].
TypeCode == [DATA |-> 0, CLOSE |-> 1, REQUEST |-> 2, RESPONSE |-> 3, HANDSHAKE |-> 4, NEWCONN |-> 5]

BinaryEncode(m) ==
    IF Len(m.id) > 65535 \/ Len(m.data) - 1 > 2147483647 THEN Err
    ELSE Ok([bytes |-> <<TypeCode[m.type]>> \o Str16(m.id) \o PutUint32(Len(m.data)) \o m.data])

BinaryDecode(d) ==
    LET idLen == Uint16(d, 1)
        len == Uint32(d, 3 + idLen)
        types == {t \in DOMAIN TypeCode : TypeCode[t] = d[1]}
    IN  IF /\ Len(d) >= 7
           /\ Len(d) >= 3 + idLen + 4
           /\ Len(d) >= 7 + idLen + len
        THEN Ok([type |-> IF types = {} THEN "UNKNOWN" ELSE CHOOSE t \in types : TRUE,
                 id |-> Bytes(d, 3, idLen), data |-> Bytes(d, 7 + idLen, len)])
        ELSE Err
=============================================================================
