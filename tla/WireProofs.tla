----------------------------- MODULE WireProofs -----------------------------
(***************************************************************************)
(* Theorems about Wire.                                                    *)
(***************************************************************************)
EXTENDS Wire, CodecProofs

-----------------------------------------------------------------------------
\* Reading

\* One Read: the type is the first byte of the first write, and the rest agrees with
\* that write as far as both go.
LEMMA MsgRead ==
    ASSUME NEW p \in Pipe, p # <<>>, NEW n \in 1 .. InFlight(p)
    PROVE  /\ Msg(p, n).type = p[1][1]
           /\ Msg(p, n).payload \in Seq(Byte) /\ Msg(p, n).payload \in String
           /\ Len(Msg(p, n).payload) = n - 1
           /\ Reads(Msg(p, n).payload, p[1], 1)
  <1> DEFINE b == FlattenSeq(p)
             w == p[1]
             c == SubSeq(b, 1, n)
  <1>1. b \in Seq(Byte) /\ Len(b) \in Nat /\ Len(b) = InFlight(p) /\ At(b, 0, w) /\ Len(w) <= Len(b)
    BY FirstWrite
  <1>2. w \in Chunk /\ Len(w) \in Nat /\ Len(w) # 0
    BY PipeFacts, WriteFacts
  <1>3. n \in Nat /\ n # 0 /\ n <= Len(b)
    BY <1>1
  <1>4. \A i \in 1 .. Len(w) : b[i] = w[i]
    BY <1>1, <1>2 DEF At
  <1>5. Msg(p, n).type = c[1] /\ Msg(p, n).payload = Tail(c)
    BY DEF Msg
  <1> HIDE DEF b, w
  <1>6. c \in Seq(Byte) /\ Len(c) = n /\ \A i \in 1 .. n : c[i] = b[i]
    BY <1>1, <1>3
  <1> HIDE DEF c
  <1>7. c # <<>>
    BY <1>3, <1>6
  <1>8. Tail(c) \in Seq(Byte) /\ Len(Tail(c)) = n - 1 /\ \A i \in 1 .. n - 1 : Tail(c)[i] = c[i + 1]
    BY <1>3, <1>6, <1>7
  <1>9. Tail(c) \in String
    BY <1>8, BytesAreString, Zenon
  <1>10. c[1] = w[1]
    BY <1>2, <1>3, <1>4, <1>6
  <1>11. ASSUME NEW i \in 1 .. n - 1, i + 1 <= Len(w) PROVE Tail(c)[i] = w[i + 1]
    <2>1. i + 1 \in 1 .. n /\ i + 1 \in 1 .. Len(w)
      BY <1>2, <1>3, <1>11
    <2> QED
      BY <1>4, <1>6, <1>8, <2>1
  <1>12. Reads(Tail(c), w, 1)
    BY <1>8, <1>11 DEF Reads
  <1> QED
    BY <1>5, <1>8, <1>9, <1>10, <1>12 DEF w

-----------------------------------------------------------------------------
\* The inductive invariant

\* What the client writes to register or to restore, and what the server makes of it.
RegMsg(r) == IF r.restore THEN sendSessionRestore(r.reg) ELSE buildRegisterMessage(r.reg)
Stored(r) ==
    IF r.restore THEN Ok([id |-> r.reg.id, proto |-> r.reg.proto, addr |-> r.reg.addr])
    ELSE Ok([id |-> r.reg.id, proto |-> r.reg.proto, addr |-> r.reg.addr,
             domain |-> r.reg.domain, token |-> r.reg.token])

\* The answers of the handler.
Accepted(r) == sendRegisterAck([id |-> r.reg.id, url |-> PublicURL, port |-> 80, err |-> <<>>])
Refused(id) == sendRegisterAck([id |-> id, url |-> <<>>, port |-> 0, err |-> Payload])

Types ==
    /\ c2s \in Pipe /\ s2c \in Pipe
    /\ phase \in {"start", "waiting", "connected", "failed", "crashed"}
    /\ srv \in {"accept", "typed", "stored", "serving", "closed"}
    /\ ext \subseteq sfwd /\ sfwd \subseteq used /\ used \subseteq ConnID
    /\ local \subseteq lfwd /\ lfwd \subseteq Seq(Byte)
    /\ extra \in 0 .. MaxExtra /\ cuts \in 0 .. MaxCuts
    /\ DOMAIN streams \subseteq ConnID

\* Until the handler has read the request, nothing but the request is in flight.
Requests ==
    /\ phase # "start" => sent \in Request
    /\ srv = "accept" =>
          /\ s2c = <<>>
          /\ \/ phase = "start" /\ c2s = <<>>
             \/ phase = "waiting" /\ c2s = <<<<StreamTypeControl>>, RegMsg(sent)>>
    /\ srv = "typed" => phase = "waiting" /\ c2s = <<RegMsg(sent)>> /\ s2c = <<>>
    /\ srv \in {"stored", "serving", "closed"} => phase # "start"

\* The tunnel is the one that was asked for.
Tunnels ==
    /\ srv \in {"stored", "serving"} => tunnel = Stored(sent)
    /\ srv \notin {"stored", "serving"} => tunnel = None
    /\ phase = "connected" => srv = "serving" /\ known = [id |-> tunnel.id, url |-> PublicURL]
    /\ srv # "serving" => sfwd = {} /\ DOMAIN streams = {}

\* While the client waits, what it will read first is the answer to its request or a
\* config update, which it takes for a failure.
Answers ==
    phase = "waiting" =>
        /\ srv \in {"stored", "serving"} => c2s = <<>>
        /\ srv = "stored" => s2c = <<>> \/ s2c[1] = SendConfigUpdate(Payload)
        /\ srv = "serving" => s2c # <<>> /\ s2c[1] \in {SendConfigUpdate(Payload), Accepted(sent)}
        /\ srv = "closed" => s2c = <<>> \/ \E id \in {<<>>, sent.reg.id} : s2c = <<Refused(id)>>

IInv == Types /\ Requests /\ Tunnels /\ Answers /\ StreamReachesItsConn

-----------------------------------------------------------------------------
\* What is written

LEMMA StringFacts ==
    ASSUME NEW s, IsString(s)
    PROVE  s \in Seq(Byte) /\ Field(s) /\ Len(s) \in Nat /\ Str16(s) \in Seq(Byte)
  <1>1. s \in Seq(Byte) /\ Len(s) < 65536
    BY DEF IsString
  <1>2. s \in String /\ Len(s) \in Nat
    BY <1>1, BytesAreString
  <1>3. Field(s)
    BY <1>1, <1>2, SMT DEF Field, Fits16
  <1>4. Str16(s) \in Seq(Byte)
    BY <1>1, <1>2, PutBytes, BytesJoined DEF Str16
  <1> QED
    BY <1>1, <1>2, <1>3, <1>4

LEMMA EmptyIsString == IsString(<<>>)
  BY SMT DEF IsString

LEMMA AckWrite ==
    ASSUME NEW a, IsString(a.id), IsString(a.url), IsString(a.err), a.port \in Nat
    PROVE  sendRegisterAck(a) \in Chunk /\ sendRegisterAck(a)[1] = MsgTypeRegisterAck
  <1> DEFINE t == <<MsgTypeRegisterAck>>
             i == Str16(a.id)
             u == Str16(a.url)
             o == PutUint16(a.port)
             e == Str16(a.err)
  <1>1. t \in Chunk /\ t[1] = MsgTypeRegisterAck
    BY ByteWrite DEF MsgTypeRegisterAck, Byte
  <1>2. i \in Seq(Byte) /\ u \in Seq(Byte) /\ e \in Seq(Byte) /\ o \in Seq(Byte)
    BY StringFacts, PutBytes
  <1>3. sendRegisterAck(a) = t \o i \o u \o o \o e
    BY DEF sendRegisterAck
  <1> HIDE DEF t, i, u, o, e
  <1>4. t \o i \in Chunk /\ (t \o i)[1] = MsgTypeRegisterAck
    BY <1>1, <1>2, Longer
  <1>5. t \o i \o u \in Chunk /\ (t \o i \o u)[1] = MsgTypeRegisterAck
    BY <1>2, <1>4, Longer
  <1>6. t \o i \o u \o o \in Chunk /\ (t \o i \o u \o o)[1] = MsgTypeRegisterAck
    BY <1>2, <1>5, Longer
  <1>7. t \o i \o u \o o \o e \in Chunk /\ (t \o i \o u \o o \o e)[1] = MsgTypeRegisterAck
    BY <1>2, <1>6, Longer
  <1> QED
    BY <1>3, <1>7

LEMMA RequestFacts ==
    ASSUME NEW r \in Request
    PROVE  /\ IsString(r.reg.id) /\ IsString(r.reg.addr)
           /\ IsString(r.reg.domain) /\ IsString(r.reg.token)
           /\ r.reg.proto \in 1 .. 5 /\ r.reg.proto \in Byte /\ r.reg.proto \in Nat
           /\ r.restore \in BOOLEAN
  BY WireAssumption DEF ProtocolTCP, ProtocolHTTP3, Byte

LEMMA TimestampBytes == Timestamp \in Seq(Byte)
  <1>1. Timestamp = <<0, 0, 0, 0, 0, 0, 0, 0>>
    BY DEF Timestamp
  <1> QED
    BY <1>1 DEF Byte

\* A write that begins with byte c.
Begins(w, c) == w \in Chunk /\ w[1] = c

LEMMA RequestWrite ==
    ASSUME NEW r \in Request
    PROVE  /\ RegMsg(r) \in Chunk
           /\ RegMsg(r)[1] = IF r.restore THEN MsgTypeSessionRestore ELSE MsgTypeRegister
  <1> DEFINE i == Str16(r.reg.id)
             p == <<r.reg.proto>>
             a == Str16(r.reg.addr)
             d == Str16(r.reg.domain)
             k == Str16(r.reg.token)
             t1 == <<MsgTypeRegister>>
             t2 == <<MsgTypeSessionRestore>>
  <1>1. t1 \in Chunk /\ t2 \in Chunk /\ t1[1] = MsgTypeRegister /\ t2[1] = MsgTypeSessionRestore
    BY ByteWrite DEF MsgTypeRegister, MsgTypeSessionRestore, Byte
  <1>2. i \in Seq(Byte) /\ a \in Seq(Byte) /\ d \in Seq(Byte) /\ k \in Seq(Byte)
    BY RequestFacts, StringFacts
  <1>3. p \in Seq(Byte)
    <2>1. r.reg.proto \in Byte
      BY RequestFacts
    <2> QED
      BY <2>1
  <1>4. buildRegisterMessage(r.reg) = t1 \o i \o p \o a \o d \o k
    BY DEF buildRegisterMessage
  <1>5. sendSessionRestore(r.reg) = t2 \o i \o p \o a \o Timestamp
    BY DEF sendSessionRestore
  <1> HIDE DEF t1, t2, i, p, a, d, k
  <1>6. Begins(t1 \o i, MsgTypeRegister) /\ Begins(t2 \o i, MsgTypeSessionRestore)
    BY <1>1, <1>2, Longer DEF Begins
  <1>7. Begins(t1 \o i \o p, MsgTypeRegister) /\ Begins(t2 \o i \o p, MsgTypeSessionRestore)
    BY <1>3, <1>6, Longer DEF Begins
  <1>8. Begins(t1 \o i \o p \o a, MsgTypeRegister) /\ Begins(t2 \o i \o p \o a, MsgTypeSessionRestore)
    BY <1>2, <1>7, Longer DEF Begins
  <1>9. /\ Begins(t1 \o i \o p \o a \o d, MsgTypeRegister)
        /\ Begins(t2 \o i \o p \o a \o Timestamp, MsgTypeSessionRestore)
    BY <1>2, <1>8, Longer, TimestampBytes DEF Begins
  <1>10. Begins(t1 \o i \o p \o a \o d \o k, MsgTypeRegister)
    BY <1>2, <1>9, Longer DEF Begins
  <1>11. CASE r.restore
    BY <1>5, <1>9, <1>11 DEF RegMsg, Begins
  <1>12. CASE ~ r.restore
    BY <1>4, <1>10, <1>12 DEF RegMsg, Begins
  <1> QED
    BY <1>11, <1>12

LEMMA ConnFacts ==
    ASSUME NEW id \in ConnID
    PROVE  IsString(id) /\ id \in Seq(Byte) /\ id \in String /\ Len(id) < 256 /\ Field(id)
  <1>1. IsString(id) /\ Len(id) < 256
    BY WireAssumption
  <1>2. id \in Seq(Byte) /\ Field(id)
    BY <1>1, StringFacts
  <1> QED
    BY <1>1, <1>2, BytesAreString

LEMMA SmallWrites ==
    /\ <<MsgTypeHeartbeat>> \in Chunk /\ <<MsgTypeHeartbeatAck>> \in Chunk
    /\ <<MsgTypeConfigAck>> \in Chunk /\ <<StreamTypeControl>> \in Chunk
    /\ SendConfigUpdate(Payload) \in Chunk /\ SendConfigUpdate(Payload)[1] = MsgTypeConfigUpdate
  <1>1. /\ <<MsgTypeHeartbeat>> \in Chunk /\ <<MsgTypeHeartbeatAck>> \in Chunk
        /\ <<MsgTypeConfigAck>> \in Chunk /\ <<StreamTypeControl>> \in Chunk
        /\ <<MsgTypeConfigUpdate>> \in Chunk
    BY ByteWrite DEF MsgTypeHeartbeat, MsgTypeHeartbeatAck, MsgTypeConfigAck, StreamTypeControl,
                     MsgTypeConfigUpdate, Byte
  <1>2. Str16(Payload) \in Seq(Byte)
    BY WireAssumption, StringFacts
  <1> QED
    BY <1>1, <1>2, Longer DEF SendConfigUpdate

LEMMA CloseWrite == ASSUME NEW id \in Seq(Byte) PROVE BuildCloseConnMessage(id) \in Chunk
  <1>1. <<MsgTypeCloseConn>> \in Chunk
    BY ByteWrite DEF MsgTypeCloseConn, Byte
  <1> QED
    BY <1>1, Longer DEF BuildCloseConnMessage

LEMMA NewConnWrite == ASSUME NEW id \in ConnID PROVE buildNewConnMessage(id, Remote) \in Chunk
  <1>1. <<MsgTypeNewConn>> \in Chunk
    BY ByteWrite DEF MsgTypeNewConn, Byte
  <1>2. Str16(id) \in Seq(Byte) /\ Str16(Remote) \in Seq(Byte)
    BY WireAssumption, ConnFacts, StringFacts
  <1>3. <<MsgTypeNewConn>> \o Str16(id) \in Chunk
    BY <1>1, <1>2, Longer
  <1>4. <<MsgTypeNewConn>> \o Str16(id) \o Str16(Remote) \in Chunk
    BY <1>2, <1>3, Longer
  <1> QED
    BY <1>4 DEF buildNewConnMessage

LEMMA DataWrite ==
    ASSUME NEW id \in Seq(Byte)
    PROVE  /\ TextEncode([type |-> "DATA", id |-> id, data |-> Payload]) \in Chunk
           /\ TextEncode([type |-> "DATA", id |-> id, data |-> Payload])[1] = 68
  <1> DEFINE t == TextOf["DATA"]
             c == <<Colon>>
             l == writeInt[Len(Payload)]
             n == <<Newline>>
             b == c \o l \o c \o Payload
  <1>1. Payload \in Seq(Byte) /\ Payload # <<>> /\ Len(Payload) \in Nat
    BY WireAssumption, StringFacts
  <1>2. t \in Chunk /\ t[1] = 68
    BY DEF TextOf, Chunk, Byte
  <1>3. c \in Seq(Byte) /\ n \in Seq(Byte) /\ c \in Chunk
    BY ByteWrite DEF Colon, Newline, Byte
  <1>4. l \in Seq(Byte)
    BY <1>1, DigitBytes
  <1>5. TextEncode([type |-> "DATA", id |-> id, data |-> Payload]) = (t \o c) \o id \o b \o n
    BY <1>1 DEF TextEncode, encodeMessage
  <1> HIDE DEF t, c, l, n
  <1>6. c \o l \in Seq(Byte)
    BY <1>3, <1>4, BytesJoined
  <1>7. c \o l \o c \in Seq(Byte)
    BY <1>3, <1>6, BytesJoined
  <1>8. b \in Seq(Byte)
    BY <1>1, <1>7, BytesJoined
  <1> HIDE DEF b
  <1>9. t \o c \in Chunk /\ (t \o c)[1] = 68
    BY <1>2, <1>3, Longer
  <1>10. (t \o c) \o id \in Chunk /\ ((t \o c) \o id)[1] = 68
    BY <1>9, Longer
  <1>11. (t \o c) \o id \o b \in Chunk /\ ((t \o c) \o id \o b)[1] = 68
    BY <1>8, <1>10, Longer
  <1>12. (t \o c) \o id \o b \o n \in Chunk /\ ((t \o c) \o id \o b \o n)[1] = 68
    BY <1>3, <1>11, Longer
  <1> QED
    BY <1>5, <1>12

-----------------------------------------------------------------------------
\* What is read

LEMMA StoredFacts ==
    ASSUME NEW r \in Request
    PROVE  /\ Stored(r).res = "ok" /\ Stored(r).id = r.reg.id /\ Stored(r).proto = r.reg.proto
           /\ Stored(r).addr = r.reg.addr
           /\ ~ r.restore => Stored(r).domain = r.reg.domain /\ Stored(r).token = r.reg.token
  <1>1. CASE r.restore
    BY <1>1 DEF Stored, Ok
  <1>2. CASE ~ r.restore
    BY <1>2 DEF Stored, Ok
  <1> QED
    BY <1>1, <1>2

LEMMA ErrIsNotOk == Err.res # "ok"
  BY DEF Err

\* However the request is read, the handler refuses it or has all of it and takes it as
\* it was sent.
LEMMA RequestRead ==
    ASSUME NEW r \in Request, NEW n \in 1 .. InFlight(<<RegMsg(r)>>)
    PROVE  \/ ParsedRequest(Msg(<<RegMsg(r)>>, n)) = Err
           \/ /\ ParsedRequest(Msg(<<RegMsg(r)>>, n)) = Stored(r)
              /\ AfterRead(<<RegMsg(r)>>, n) = <<>>
  <1> DEFINE w == RegMsg(r)
             p == <<w>>
             m == Msg(p, n)
             q == m.payload
  <1>1. /\ w \in Chunk
        /\ w[1] = IF r.restore THEN MsgTypeSessionRestore ELSE MsgTypeRegister
    BY RequestWrite
  <1>2. Len(w) \in Nat
    BY <1>1, WriteFacts
  <1>3. r.restore => w = sendSessionRestore(r.reg)
    BY DEF RegMsg
  <1>4. ~ r.restore => w = buildRegisterMessage(r.reg)
    BY DEF RegMsg
  <1> HIDE DEF w
  <1>5. p \in Pipe /\ p # <<>> /\ p[1] = w /\ InFlight(p) = Len(w) /\ AfterRead(p, Len(w)) = <<>>
    BY <1>1, OneWrite
  <1> HIDE DEF p
  <1>6. n \in 1 .. InFlight(p)
    BY DEF p, w
  <1>7. m.type = p[1][1] /\ q \in String /\ Len(q) = n - 1 /\ Reads(q, p[1], 1)
    BY <1>5, <1>6, MsgRead
  <1>8. m.type = w[1] /\ q \in String /\ Len(q) = n - 1 /\ Reads(q, w, 1)
    BY <1>5, <1>7
  <1>9. n \in Nat /\ n <= Len(w)
    BY <1>2, <1>5, <1>6
  <1> HIDE DEF m
  <1>10. ASSUME Len(q) >= Len(w) - 1 PROVE AfterRead(p, n) = <<>>
    <2>1. n = Len(w)
      BY <1>2, <1>8, <1>9, <1>10
    <2> QED
      BY <1>5, <2>1
  <1>11. /\ Field(r.reg.id) /\ Field(r.reg.addr) /\ Field(r.reg.domain) /\ Field(r.reg.token)
         /\ r.reg.proto \in Nat
    BY RequestFacts, StringFacts
  <1> DEFINE parsed == ParsedRequest(m)
  <1> HIDE DEF q
  <1>12. CASE r.restore
    <2>1. parsed = parseSessionRestore(q)
      BY <1>1, <1>8, <1>12 DEF ParsedRequest, q
    <2>2. \/ parseSessionRestore(q) = Err
          \/ /\ Len(q) >= Len(w) - 1
             /\ parseSessionRestore(q) =
                  Ok([id |-> r.reg.id, proto |-> r.reg.proto, addr |-> r.reg.addr])
      BY <1>3, <1>8, <1>11, <1>12, RestoreExact
    <2>3. parsed = Err \/ (parsed = Stored(r) /\ AfterRead(p, n) = <<>>)
      BY <1>10, <1>12, <2>1, <2>2 DEF Stored
    <2> QED
      BY <2>3 DEF m, p, w
  <1>13. CASE ~ r.restore
    <2>1. parsed = parseRegisterPayload(q)
      BY <1>1, <1>8, <1>13 DEF ParsedRequest, q, MsgTypeRegister, MsgTypeSessionRestore
    <2>2. \/ parseRegisterPayload(q) = Err
          \/ /\ Len(q) >= Len(w) - 1
             /\ parseRegisterPayload(q) =
                  Ok([id |-> r.reg.id, proto |-> r.reg.proto, addr |-> r.reg.addr,
                      domain |-> r.reg.domain, token |-> r.reg.token])
      BY <1>4, <1>8, <1>11, <1>13, RegistrationExact
    <2>3. parsed = Err \/ (parsed = Stored(r) /\ AfterRead(p, n) = <<>>)
      BY <1>10, <1>13, <2>1, <2>2 DEF Stored
    <2> QED
      BY <2>3 DEF m, p, w
  <1> QED
    BY <1>12, <1>13

\* However the answer is read, and whatever is read with it, the client has the ID and the
\* URL of it, and an error for an error, or panics.
LEMMA AnswerRead ==
    ASSUME NEW p \in Pipe, p # <<>>, NEW n \in 1 .. InFlight(p),
           NEW i, NEW u, NEW o \in Nat, NEW e, IsString(i), IsString(u), IsString(e),
           p[1] = sendRegisterAck([id |-> i, url |-> u, port |-> o, err |-> e]),
           parseRegisterAck(Msg(p, n).payload) # Panic
    PROVE  /\ parseRegisterAck(Msg(p, n).payload).id = i
           /\ parseRegisterAck(Msg(p, n).payload).url = u
           /\ parseRegisterAck(Msg(p, n).payload).err = <<>> <=> e = <<>>
  <1> DEFINE a == [id |-> i, url |-> u, port |-> o, err |-> e]
             q == Msg(p, n).payload
  <1>1. a.id = i /\ a.url = u /\ a.port = o /\ a.err = e
    OBVIOUS
  <1>2. q \in String /\ Reads(q, p[1], 1)
    BY MsgRead
  <1>3. p[1] = sendRegisterAck(a) /\ parseRegisterAck(q) # Panic
    OBVIOUS
  <1> HIDE DEF a, q
  <1>4. Field(a.id) /\ Field(a.url) /\ Field(a.err) /\ a.port \in Nat
    BY <1>1, StringFacts
  <1>5. Reads(q, sendRegisterAck(a), 1)
    BY <1>2, <1>3
  <1>6. /\ parseRegisterAck(q).id = a.id /\ parseRegisterAck(q).url = a.url
        /\ parseRegisterAck(q).err = <<>> <=> a.err = <<>>
    BY <1>2, <1>3, <1>4, <1>5, AckExact
  <1> QED
    BY <1>1, <1>6 DEF q

LEMMA ReadCuts ==
    ASSUME cuts \in 0 .. MaxCuts, NEW dir, NEW p, NEW n, Read(dir, p, n)
    PROVE  cuts' \in 0 .. MaxCuts
  <1>1. MaxCuts \in Nat
    BY WireAssumption
  <1> QED
    BY <1>1 DEF Read

\* The ID a NEWCONN message names lies in the bytes that were read.
LEMMA NewConnID ==
    ASSUME NEW q \in Seq(Byte), parseNewConn(q) # Panic
    PROVE  parseNewConn(q).id \in Seq(Byte)
  <1> DEFINE l == Uint16(q, 0)
             i == Reslice(q, 2, l)
             fine == 2 <= Len(q) /\ (2 + l) + 2 <= Len(q)
             rec == [id |-> i, remote |-> Reslice(q, (2 + l) + 2, Uint16(q, 2 + l))]
  <1>1. parseNewConn(q) = IF fine THEN Ok(rec) ELSE Panic
    BY DEF parseNewConn
  <1>2. fine /\ parseNewConn(q) = Ok(rec)
    BY <1>1
  <1>3. Ok(rec).id = i
    BY DEF Ok
  <1>4. Len(q) \in Nat /\ \A j \in 1 .. Len(q) : q[j] \in Byte
    OBVIOUS
  <1>5. l \in Nat
    <2>1. q[0 + 1] \in Nat /\ q[0 + 2] \in Nat
      <3>1. 1 \in 1 .. Len(q) /\ 2 \in 1 .. Len(q)
        <4>1. 2 <= Len(q)
          BY <1>2, Zenon
        <4> QED
          BY <1>4, <4>1
      <3>2. q[1] \in Byte /\ q[2] \in Byte
        BY <1>4, <3>1
      <3>3. \A b \in Byte : b \in Nat
        BY DEF Byte
      <3>4. 0 + 1 = 1 /\ 0 + 2 = 2
        OBVIOUS
      <3> QED
        BY <3>2, <3>3, <3>4
    <2> QED
      BY <2>1 DEF Uint16
  <1> HIDE DEF l
  <1>6. \A j \in 1 .. l : 2 + j <= Len(q) /\ 2 + j \in 1 .. Len(q)
    BY <1>2, <1>4, <1>5
  <1>7. i \in [1 .. l -> Byte]
    BY <1>4, <1>6 DEF Reslice
  <1>8. i \in Seq(Byte)
    BY <1>5, <1>7
  <1> QED
    BY <1>2, <1>3, <1>8

-----------------------------------------------------------------------------
\* Every step keeps the invariant

LEMMA InitHolds == ASSUME Init PROVE IInv
  <1>1. Types
    <2>1. MaxExtra \in Nat /\ MaxCuts \in Nat
      BY WireAssumption
    <2>2. <<>> \in Pipe
      BY DEF Pipe
    <2> QED
      BY <2>1, <2>2 DEF Init, Types
  <1>2. Requests /\ Tunnels /\ Answers
    BY DEF Init, Requests, Tunnels, Answers
  <1>3. StreamReachesItsConn
    BY DEF Init, StreamReachesItsConn
  <1> QED
    BY <1>1, <1>2, <1>3 DEF IInv

\* Where the two sides are when the tunnel is served.
LEMMA Served ==
    ASSUME IInv
    PROVE  /\ phase = "connected" => srv = "serving"
           /\ sfwd # {} => srv = "serving"
           /\ phase = "start" => srv = "accept"
           /\ phase # "start" => sent \in Request
           /\ srv # "accept" => phase # "start"
  BY DEF IInv, Types, Requests, Tunnels

LEMMA StreamsKept ==
    ASSUME StreamReachesItsConn, UNCHANGED <<streams, tunnel>>
    PROVE  StreamReachesItsConn'
  BY DEF StreamReachesItsConn

\* A step about connections keeps the registration, provided it takes nothing from the
\* control stream before the client has its answer, and puts nothing before that answer.
LEMMA RegistrationKept ==
    ASSUME IInv, Types', UNCHANGED <<sent, srv, tunnel, known, streams>>,
           srv \notin {"accept", "typed"},
           phase' = phase \/ phase' = "crashed",
           srv # "serving" => sfwd' = {},
           phase = "waiting" =>
              /\ c2s' = c2s
              /\ s2c # <<>> => s2c' # <<>> /\ s2c'[1] = s2c[1]
              /\ srv = "stored" /\ s2c = <<>> => s2c' = <<>> \/ s2c'[1] = SendConfigUpdate(Payload)
              /\ srv = "closed" => s2c' = s2c
    PROVE  IInv'
  <1>1. Requests'
    BY DEF IInv, Types, Requests
  <1>2. Tunnels'
    BY DEF IInv, Types, Tunnels
  <1>3. Answers'
    <2> SUFFICES ASSUME phase' = "waiting" PROVE Answers'
      BY DEF Answers
    <2>1. phase = "waiting" /\ phase' = phase
      OBVIOUS
    <2>2. /\ srv \in {"stored", "serving"} => c2s = <<>>
          /\ srv = "stored" => s2c = <<>> \/ s2c[1] = SendConfigUpdate(Payload)
          /\ srv = "serving" => s2c # <<>> /\ s2c[1] \in {SendConfigUpdate(Payload), Accepted(sent)}
          /\ srv = "closed" => s2c = <<>> \/ \E id \in {<<>>, sent.reg.id} : s2c = <<Refused(id)>>
      BY <2>1 DEF IInv, Answers
    <2>3. srv' \in {"stored", "serving"} => c2s' = <<>>
      BY <2>1, <2>2
    <2>4. srv' = "stored" => s2c' = <<>> \/ s2c'[1] = SendConfigUpdate(Payload)
      BY <2>1, <2>2
    <2>5. srv' = "serving" => s2c' # <<>> /\ s2c'[1] \in {SendConfigUpdate(Payload), Accepted(sent')}
      BY <2>1, <2>2
    <2>6. srv' = "closed" => s2c' = <<>> \/ \E id \in {<<>>, sent'.reg.id} : s2c' = <<Refused(id)>>
      BY <2>1, <2>2
    <2> QED
      BY <2>3, <2>4, <2>5, <2>6 DEF Answers
  <1>4. StreamReachesItsConn'
    BY StreamsKept DEF IInv
  <1> QED
    BY <1>1, <1>2, <1>3, <1>4 DEF IInv

LEMMA SendRegisterStep ==
    ASSUME IInv, NEW r \in Request, SendRegister(r) PROVE IInv'
  <1>1. phase = "start" /\ srv = "accept" /\ s2c = <<>>
    BY DEF SendRegister, IInv, Types, Requests
  <1>2. phase' = "waiting" /\ srv' = srv /\ s2c' = s2c /\ sent' = r /\ tunnel' = tunnel
        /\ c2s' = <<<<StreamTypeControl>>, RegMsg(r)>> /\ streams' = streams /\ known' = known
        /\ UNCHANGED <<ext, sfwd, local, lfwd, used, extra, cuts>>
    BY DEF SendRegister, RegMsg, conns
  <1>3. c2s' \in Pipe
    <2>1. <<StreamTypeControl>> \in Chunk /\ RegMsg(r) \in Chunk
      BY SmallWrites, RequestWrite
    <2> QED
      BY <1>2, <2>1 DEF Pipe
  <1>4. Types'
    BY <1>2, <1>3 DEF IInv, Types
  <1>5. Requests'
    <2>1. c2s' = <<<<StreamTypeControl>>, RegMsg(sent')>>
      BY <1>2
    <2> QED
      BY <1>1, <1>2, <2>1 DEF Requests
  <1>6. Tunnels' /\ Answers'
    BY <1>1, <1>2 DEF IInv, Tunnels, Answers
  <1>7. StreamReachesItsConn'
    BY <1>2, StreamsKept DEF IInv
  <1> QED
    BY <1>4, <1>5, <1>6, <1>7 DEF IInv

LEMMA StreamTypeStep == ASSUME IInv, StreamType PROVE IInv'
  <1>1. srv = "accept" /\ srv' = "typed" /\ c2s # <<>> /\ c2s' = Tail(c2s)
        /\ UNCHANGED <<s2c, phase, sent, tunnel, known, ext, sfwd, local, lfwd, used, extra, cuts, streams>>
    BY DEF StreamType, conns
  <1>2. phase = "waiting" /\ c2s = <<<<StreamTypeControl>>, RegMsg(sent)>> /\ s2c = <<>> /\ sent \in Request
    BY <1>1 DEF IInv, Requests
  <1>3. RegMsg(sent) \in Chunk /\ <<StreamTypeControl>> \in Chunk
    BY <1>2, RequestWrite, SmallWrites
  <1>4. c2s' = <<RegMsg(sent)>>
    BY <1>1, <1>2
  <1>5. c2s' \in Pipe
    BY <1>3, <1>4 DEF Pipe
  <1>6. Types'
    BY <1>1, <1>5 DEF IInv, Types
  <1>7. Requests'
    BY <1>1, <1>2, <1>4 DEF Requests
  <1>8. Tunnels' /\ Answers'
    BY <1>1, <1>2 DEF IInv, Tunnels, Answers
  <1>9. StreamReachesItsConn'
    BY <1>1, StreamsKept DEF IInv
  <1> QED
    BY <1>6, <1>7, <1>8, <1>9 DEF IInv

LEMMA StoreStep == ASSUME IInv, NEW n, Store(n) PROVE IInv'
  <1>1. srv = "typed" /\ srv' = "stored" /\ n \in 1 .. InFlight(c2s) /\ Read("c2s", c2s, n)
        /\ c2s' = AfterRead(c2s, n) /\ tunnel' = ParsedRequest(Msg(c2s, n)) /\ tunnel'.res = "ok"
        /\ UNCHANGED <<s2c, phase, sent, known, ext, sfwd, local, lfwd, used, extra, streams>>
    BY DEF Store, conns
  <1>2. phase = "waiting" /\ c2s = <<RegMsg(sent)>> /\ s2c = <<>> /\ sent \in Request
    BY <1>1 DEF IInv, Requests
  <1>3. tunnel' = Stored(sent) /\ c2s' = <<>>
    <2>1. \/ ParsedRequest(Msg(c2s, n)) = Err
          \/ ParsedRequest(Msg(c2s, n)) = Stored(sent) /\ AfterRead(c2s, n) = <<>>
      BY <1>1, <1>2, RequestRead
    <2>2. ParsedRequest(Msg(c2s, n)) # Err
      BY <1>1, ErrIsNotOk
    <2> QED
      BY <1>1, <2>1, <2>2
  <1>4. Types'
    <2>1. cuts' \in 0 .. MaxCuts
      BY <1>1, ReadCuts DEF IInv, Types
    <2>2. c2s' \in Pipe
      BY <1>3 DEF Pipe
    <2> QED
      BY <1>1, <2>1, <2>2 DEF IInv, Types
  <1>5. Requests'
    BY <1>1, <1>2 DEF Requests
  <1>6. Tunnels'
    <2>1. phase' # "connected" /\ sfwd = {} /\ DOMAIN streams = {}
      BY <1>1, <1>2 DEF IInv, Tunnels
    <2>2. tunnel' = Stored(sent')
      BY <1>1, <1>3
    <2> QED
      BY <1>1, <2>1, <2>2 DEF Tunnels
  <1>7. Answers'
    BY <1>1, <1>2, <1>3 DEF Answers
  <1>8. StreamReachesItsConn'
    <2>1. DOMAIN streams' = {}
      BY <1>1 DEF IInv, Tunnels
    <2> QED
      BY <2>1 DEF StreamReachesItsConn
  <1> QED
    BY <1>4, <1>5, <1>6, <1>7, <1>8 DEF IInv

LEMMA RefusedWrite == ASSUME NEW id, IsString(id) PROVE Begins(Refused(id), MsgTypeRegisterAck)
  <1> DEFINE a == [id |-> id, url |-> <<>>, port |-> 0, err |-> Payload]
  <1>1. IsString(a.id) /\ IsString(a.url) /\ IsString(a.err) /\ a.port \in Nat
    BY WireAssumption, EmptyIsString
  <1>2. Refused(id) = sendRegisterAck(a)
    BY DEF Refused
  <1> HIDE DEF a
  <1>3. sendRegisterAck(a) \in Chunk /\ sendRegisterAck(a)[1] = MsgTypeRegisterAck
    BY <1>1, AckWrite
  <1> QED
    BY <1>2, <1>3 DEF Begins

LEMMA AcceptedWrite == ASSUME NEW r \in Request PROVE Begins(Accepted(r), MsgTypeRegisterAck)
  <1> DEFINE a == [id |-> r.reg.id, url |-> PublicURL, port |-> 80, err |-> <<>>]
  <1>1. IsString(a.id) /\ IsString(a.url) /\ IsString(a.err) /\ a.port \in Nat
    BY WireAssumption, RequestFacts, EmptyIsString
  <1>2. Accepted(r) = sendRegisterAck(a)
    BY DEF Accepted
  <1> HIDE DEF a
  <1>3. sendRegisterAck(a) \in Chunk /\ sendRegisterAck(a)[1] = MsgTypeRegisterAck
    BY <1>1, AckWrite
  <1> QED
    BY <1>2, <1>3 DEF Begins

LEMMA AckStep == ASSUME IInv, Ack PROVE IInv'
  <1> DEFINE w == Accepted(sent)
  <1>1. srv = "stored" /\ srv' = "serving"
        /\ UNCHANGED <<c2s, phase, sent, tunnel, known, ext, sfwd, local, lfwd, used, extra, cuts, streams>>
    BY DEF Ack, conns
  <1>2. sent \in Request /\ tunnel = Stored(sent) /\ phase # "connected" /\ phase # "start"
    BY <1>1 DEF IInv, Requests, Tunnels
  <1>3. s2c' = Append(s2c, w)
    <2>1. tunnel.id = sent.reg.id
      BY <1>2, StoredFacts
    <2> QED
      BY <2>1 DEF Ack, Accepted
  <1>4. w \in Chunk
    BY <1>2, AcceptedWrite DEF Begins
  <1> HIDE DEF w
  <1>5. s2c' \in Pipe /\ s2c' # <<>> /\ s2c'[1] = IF s2c = <<>> THEN w ELSE s2c[1]
    <2>1. s2c \in Pipe
      BY DEF IInv, Types
    <2> QED
      BY <1>3, <1>4, <2>1, Appended
  <1>6. Types'
    BY <1>1, <1>5 DEF IInv, Types
  <1>7. Requests'
    BY <1>1, <1>2 DEF IInv, Requests
  <1>8. Tunnels'
    BY <1>1, <1>2 DEF IInv, Tunnels
  <1>9. Answers'
    <2> SUFFICES ASSUME phase' = "waiting" PROVE Answers'
      BY DEF Answers
    <2>1. c2s = <<>> /\ (s2c = <<>> \/ s2c[1] = SendConfigUpdate(Payload))
      BY <1>1 DEF IInv, Answers
    <2>2. s2c' # <<>> /\ s2c'[1] \in {SendConfigUpdate(Payload), Accepted(sent')}
      BY <1>1, <1>5, <2>1 DEF w
    <2> QED
      BY <1>1, <2>1, <2>2 DEF Answers
  <1>10. StreamReachesItsConn'
    BY <1>1, StreamsKept DEF IInv
  <1> QED
    BY <1>6, <1>7, <1>8, <1>9, <1>10 DEF IInv

LEMMA RefuseStep == ASSUME IInv, NEW n, Refuse(n) PROVE IInv'
  <1> DEFINE m == Msg(c2s, n)
             p == ParsedRequest(m)
             id == IF p.res = "ok" THEN p.id ELSE <<>>
  <1>1. srv = "typed" /\ srv' = "closed" /\ n \in 1 .. InFlight(c2s) /\ Read("c2s", c2s, n)
        /\ c2s' = AfterRead(c2s, n)
        /\ UNCHANGED <<phase, sent, tunnel, known, ext, sfwd, local, lfwd, used, extra, streams>>
    BY DEF Refuse, conns
  <1>2. s2c' = s2c \/ s2c' = Append(s2c, Refused(id))
    BY DEF Refuse, Refused
  <1>3. phase = "waiting" /\ c2s = <<RegMsg(sent)>> /\ s2c = <<>> /\ sent \in Request
    BY <1>1 DEF IInv, Requests
  <1>4. id \in {<<>>, sent.reg.id}
    <2>1. p = Err \/ p = Stored(sent)
      BY <1>1, <1>3, RequestRead
    <2> HIDE DEF p
    <2>2. p = Err => id = <<>>
      BY ErrIsNotOk
    <2>3. p = Stored(sent) => id = sent.reg.id
      BY <1>3, StoredFacts
    <2> QED
      BY <2>1, <2>2, <2>3
  <1> HIDE DEF id
  <1>5. IsString(id)
    BY <1>3, <1>4, EmptyIsString, RequestFacts
  <1>6. s2c' = <<>> \/ s2c' = <<Refused(id)>>
    BY <1>2, <1>3
  <1>7. Types'
    <2>1. cuts' \in 0 .. MaxCuts
      BY <1>1, ReadCuts DEF IInv, Types
    <2>2. c2s' \in Pipe
      <3>1. c2s \in Pipe /\ c2s # <<>>
        BY <1>3 DEF IInv, Types
      <3>2. n \in Nat
        BY <1>1, <3>1, FirstWrite
      <3> QED
        BY <1>1, <3>1, <3>2, AfterReadType
    <2>3. s2c' \in Pipe
      <3>1. Refused(id) \in Chunk
        BY <1>5, RefusedWrite DEF Begins
      <3>2. <<Refused(id)>> \in Pipe /\ <<>> \in Pipe
        BY <3>1 DEF Pipe
      <3> QED
        BY <1>6, <3>2
    <2> QED
      BY <1>1, <2>1, <2>2, <2>3 DEF IInv, Types
  <1>8. Requests'
    BY <1>1, <1>3 DEF Requests
  <1>9. Tunnels'
    BY <1>1, <1>3 DEF IInv, Tunnels
  <1>10. Answers'
    <2>1. s2c' = <<>> \/ \E i \in {<<>>, sent'.reg.id} : s2c' = <<Refused(i)>>
      BY <1>1, <1>4, <1>6
    <2> QED
      BY <1>1, <2>1 DEF Answers
  <1>11. StreamReachesItsConn'
    BY <1>1, StreamsKept DEF IInv
  <1> QED
    BY <1>7, <1>8, <1>9, <1>10, <1>11 DEF IInv

\* What the client may take its answer from.
LEMMA AnswerFirst ==
    ASSUME IInv, phase = "waiting", s2c # <<>>
    PROVE  /\ sent \in Request /\ s2c \in Pipe
           /\ \/ s2c[1] = SendConfigUpdate(Payload)
              \/ srv = "serving" /\ s2c[1] = Accepted(sent)
              \/ \E id : IsString(id) /\ s2c[1] = Refused(id)
  <1>1. sent \in Request /\ s2c \in Pipe
    BY DEF IInv, Types, Requests
  <1>2. srv \in {"stored", "serving", "closed"}
    BY DEF IInv, Types, Requests
  <1>3. CASE srv = "stored"
    BY <1>1, <1>3 DEF IInv, Answers
  <1>4. CASE srv = "serving"
    BY <1>1, <1>4 DEF IInv, Answers
  <1>5. CASE srv = "closed"
    <2>1. PICK id \in {<<>>, sent.reg.id} : s2c = <<Refused(id)>>
      BY <1>5 DEF IInv, Answers
    <2>2. IsString(id) /\ s2c[1] = Refused(id)
      BY <1>1, <2>1, EmptyIsString, RequestFacts
    <2> QED
      BY <1>1, <2>2
  <1> QED
    BY <1>2, <1>3, <1>4, <1>5

\* A client that takes itself for connected has read the answer of its tunnel.
LEMMA AnswerTaken ==
    ASSUME IInv, NEW n, ReadAck(n)
    PROVE  /\ phase' \in {"connected", "failed", "crashed"}
           /\ phase' = "connected" => srv = "serving" /\ known' = [id |-> tunnel.id, url |-> PublicURL]
  <1> DEFINE m == Msg(s2c, n)
             a == parseRegisterAck(m.payload)
  <1>1. phase = "waiting" /\ s2c # <<>> /\ n \in 1 .. InFlight(s2c)
    BY DEF ReadAck
  <1>2. \/ m.type # MsgTypeRegisterAck /\ phase' = "failed"
        \/ m.type = MsgTypeRegisterAck /\ a = Panic /\ phase' = "crashed"
        \/ /\ m.type = MsgTypeRegisterAck /\ a # Panic
           /\ known' = [id |-> a.id, url |-> a.url]
           /\ phase' = IF a.err = <<>> THEN "connected" ELSE "failed"
    BY DEF ReadAck
  <1>3. phase' \in {"connected", "failed", "crashed"}
    BY <1>2
  <1>4. ASSUME phase' = "connected"
        PROVE  srv = "serving" /\ known' = [id |-> tunnel.id, url |-> PublicURL]
    <2>1. /\ m.type = MsgTypeRegisterAck /\ a # Panic /\ a.err = <<>>
          /\ known' = [id |-> a.id, url |-> a.url]
      BY <1>2, <1>4
    <2>2. s2c \in Pipe /\ sent \in Request
      BY <1>1, AnswerFirst
    <2>3. m.type = s2c[1][1]
      BY <1>1, <2>2, MsgRead
    <2>4. CASE s2c[1] = SendConfigUpdate(Payload)
      BY <2>1, <2>3, <2>4, SmallWrites DEF MsgTypeRegisterAck, MsgTypeConfigUpdate
    <2>5. CASE srv = "serving" /\ s2c[1] = Accepted(sent)
      <3>1. s2c[1] = sendRegisterAck([id |-> sent.reg.id, url |-> PublicURL, port |-> 80, err |-> <<>>])
        BY <2>5 DEF Accepted
      <3>2. IsString(sent.reg.id) /\ IsString(PublicURL) /\ IsString(<<>>)
        BY <2>2, RequestFacts, WireAssumption, EmptyIsString
      <3>3. 80 \in Nat
        OBVIOUS
      <3>4. a.id = sent.reg.id /\ a.url = PublicURL
        <4> DEFINE p == s2c
                   i == sent.reg.id
                   u == PublicURL
                   o == 80
                   e == <<>>
        <4>1. p \in Pipe /\ p # <<>> /\ n \in 1 .. InFlight(p) /\ IsString(i) /\ IsString(u)
          BY <1>1, <2>2, <3>2
        <4>2. p[1] = sendRegisterAck([id |-> i, url |-> u, port |-> o, err |-> e])
          BY <3>1
        <4>3. parseRegisterAck(Msg(p, n).payload) # Panic /\ IsString(e) /\ o \in Nat
          BY <2>1, <3>2, <3>3
        <4> HIDE DEF p, i, u, o, e
        <4>4. /\ parseRegisterAck(Msg(p, n).payload).id = i
              /\ parseRegisterAck(Msg(p, n).payload).url = u
              /\ parseRegisterAck(Msg(p, n).payload).err = <<>> <=> e = <<>>
          BY <4>1, <4>2, <4>3, AnswerRead
        <4> QED
          BY <4>4 DEF p, i, u
      <3>5. tunnel.id = sent.reg.id
        BY <2>2, <2>5, StoredFacts DEF IInv, Tunnels
      <3> QED
        BY <2>1, <2>5, <3>4, <3>5
    <2>6. ASSUME NEW id, IsString(id), s2c[1] = Refused(id) PROVE FALSE
      <3>1. s2c[1] = sendRegisterAck([id |-> id, url |-> <<>>, port |-> 0, err |-> Payload])
        BY <2>6 DEF Refused
      <3>2. IsString(<<>>) /\ IsString(Payload) /\ Payload # <<>>
        BY WireAssumption, EmptyIsString
      <3>3. a.err = <<>> <=> Payload = <<>>
        BY <1>1, <2>1, <2>2, <2>6, <3>1, <3>2, AnswerRead
      <3> QED
        BY <2>1, <3>2, <3>3
    <2> QED
      BY <1>1, <2>4, <2>5, <2>6, AnswerFirst
  <1> QED
    BY <1>3, <1>4

LEMMA ReadAckStep == ASSUME IInv, NEW n, ReadAck(n) PROVE IInv'
  <1>1. phase = "waiting" /\ s2c # <<>> /\ n \in 1 .. InFlight(s2c) /\ Read("s2c", s2c, n)
        /\ s2c' = AfterRead(s2c, n)
        /\ UNCHANGED <<c2s, sent, srv, tunnel, ext, sfwd, local, lfwd, used, extra, streams>>
    BY DEF ReadAck, conns
  <1>2. /\ phase' \in {"connected", "failed", "crashed"}
        /\ phase' = "connected" => srv = "serving" /\ known' = [id |-> tunnel.id, url |-> PublicURL]
    BY AnswerTaken
  <1>3. srv \notin {"accept", "typed"} /\ sent \in Request
    BY <1>1 DEF IInv, Requests
  <1>4. Types'
    <2>1. cuts' \in 0 .. MaxCuts
      BY <1>1, ReadCuts DEF IInv, Types
    <2>2. s2c' \in Pipe
      <3>1. s2c \in Pipe
        BY DEF IInv, Types
      <3>2. n \in Nat
        BY <1>1, <3>1, FirstWrite
      <3> QED
        BY <1>1, <3>1, <3>2, AfterReadType
    <2> QED
      BY <1>1, <1>2, <2>1, <2>2 DEF IInv, Types
  <1>5. Requests' /\ Answers'
    BY <1>1, <1>2, <1>3 DEF Requests, Answers
  <1>6. Tunnels'
    BY <1>1, <1>2 DEF IInv, Tunnels
  <1>7. StreamReachesItsConn'
    BY <1>1, StreamsKept DEF IInv
  <1> QED
    BY <1>4, <1>5, <1>6, <1>7 DEF IInv

LEMMA AckEOFStep == ASSUME IInv, AckEOF PROVE IInv'
  <1>1. phase = "waiting" /\ phase' = "failed" /\ srv = "closed"
        /\ UNCHANGED <<c2s, s2c, cuts, sent, srv, tunnel, known, ext, sfwd, local, lfwd, used, extra, streams>>
    BY DEF AckEOF, conns, control
  <1>2. Types'
    BY <1>1 DEF IInv, Types
  <1>3. Requests' /\ Tunnels' /\ Answers'
    BY <1>1 DEF IInv, Requests, Tunnels, Answers
  <1>4. StreamReachesItsConn'
    BY <1>1, StreamsKept DEF IInv
  <1> QED
    BY <1>2, <1>3, <1>4 DEF IInv

\* A read of the control stream leaves a pipe.
LEMMA ReadKeeps ==
    ASSUME NEW dir, NEW p \in Pipe, p # <<>>, NEW n \in 1 .. InFlight(p), Read(dir, p, n), cuts \in 0 .. MaxCuts
    PROVE  AfterRead(p, n) \in Pipe /\ cuts' \in 0 .. MaxCuts
  <1>1. n \in Nat
    BY FirstWrite
  <1> QED
    BY <1>1, AfterReadType, ReadCuts

LEMMA ExternalConnStep == ASSUME IInv, NEW id \in ConnID, ExternalConn(id) PROVE IInv'
  <1> DEFINE w == buildNewConnMessage(id, Remote)
  <1>1. /\ srv = "serving" /\ s2c' = Append(s2c, w)
        /\ used' = used \union {id} /\ ext' = ext \union {id} /\ sfwd' = sfwd \union {id}
        /\ UNCHANGED <<c2s, cuts, local, lfwd, phase, sent, srv, tunnel, known, extra, streams>>
    BY DEF ExternalConn, setup
  <1>2. w \in Chunk
    BY NewConnWrite
  <1> HIDE DEF w
  <1>3. s2c \in Pipe
    BY DEF IInv, Types
  <1>4. s2c' \in Pipe /\ s2c' # <<>> /\ s2c'[1] = IF s2c = <<>> THEN w ELSE s2c[1]
    BY <1>1, <1>2, <1>3, Appended
  <1>5. Types'
    BY <1>1, <1>4 DEF IInv, Types
  <1> QED
    BY <1>1, <1>4, <1>5, RegistrationKept

LEMMA ExternalDataStep == ASSUME IInv, NEW id \in ConnID, ExternalData(id) PROVE IInv'
  <1> DEFINE w == TextEncode([type |-> "DATA", id |-> id, data |-> Payload])
  <1>1. /\ id \in sfwd /\ s2c' = Append(s2c, w) /\ extra < MaxExtra /\ extra' = extra + 1
        /\ UNCHANGED <<c2s, cuts, ext, sfwd, local, lfwd, used, phase, sent, srv, tunnel, known, streams>>
    BY DEF ExternalData, setup
  <1>2. w \in Chunk
    BY ConnFacts, DataWrite
  <1> HIDE DEF w
  <1>3. s2c \in Pipe /\ extra \in 0 .. MaxExtra /\ MaxExtra \in Nat
    BY WireAssumption DEF IInv, Types
  <1>4. s2c' \in Pipe /\ s2c' # <<>> /\ s2c'[1] = IF s2c = <<>> THEN w ELSE s2c[1]
    BY <1>1, <1>2, <1>3, Appended
  <1>5. extra' \in 0 .. MaxExtra
    BY <1>1, <1>3
  <1>6. Types'
    BY <1>1, <1>4, <1>5 DEF IInv, Types
  <1>7. srv = "serving"
    BY <1>1, Served
  <1> QED
    BY <1>1, <1>4, <1>6, <1>7, RegistrationKept

LEMMA ExternalEndsStep == ASSUME IInv, NEW id \in ConnID, ExternalEnds(id) PROVE IInv'
  <1> DEFINE w == BuildCloseConnMessage(id)
  <1>1. /\ id \in sfwd /\ s2c' = Append(s2c, w)
        /\ sfwd' = sfwd \ {id} /\ ext' = ext \ {id}
        /\ UNCHANGED <<c2s, cuts, local, lfwd, used, phase, sent, srv, tunnel, known, extra, streams>>
    BY DEF ExternalEnds, setup
  <1>2. w \in Chunk
    BY ConnFacts, CloseWrite
  <1> HIDE DEF w
  <1>3. s2c \in Pipe
    BY DEF IInv, Types
  <1>4. s2c' \in Pipe /\ s2c' # <<>> /\ s2c'[1] = IF s2c = <<>> THEN w ELSE s2c[1]
    BY <1>1, <1>2, <1>3, Appended
  <1>5. Types'
    BY <1>1, <1>4 DEF IInv, Types
  <1>6. srv = "serving"
    BY <1>1, Served
  <1> QED
    BY <1>1, <1>4, <1>5, <1>6, RegistrationKept

LEMMA ConfigUpdateStep == ASSUME IInv, ConfigUpdate PROVE IInv'
  <1> DEFINE w == SendConfigUpdate(Payload)
  <1>1. /\ srv \in {"stored", "serving"} /\ s2c' = Append(s2c, w)
        /\ extra < MaxExtra /\ extra' = extra + 1
        /\ UNCHANGED <<c2s, cuts, ext, sfwd, local, lfwd, used, phase, sent, srv, tunnel, known, streams>>
    BY DEF ConfigUpdate, setup, conns
  <1>2. w \in Chunk
    BY SmallWrites
  <1>3. s2c \in Pipe /\ extra \in 0 .. MaxExtra /\ MaxExtra \in Nat
    BY WireAssumption DEF IInv, Types
  <1>4. s2c' \in Pipe /\ s2c' # <<>> /\ s2c'[1] = IF s2c = <<>> THEN w ELSE s2c[1]
    BY <1>1, <1>2, <1>3, Appended
  <1>5. extra' \in 0 .. MaxExtra
    BY <1>1, <1>3
  <1>6. Types'
    BY <1>1, <1>4, <1>5 DEF IInv, Types
  <1>7. srv # "serving" => sfwd' = {}
    BY <1>1 DEF IInv, Tunnels
  <1> QED
    BY <1>1, <1>4, <1>6, <1>7, RegistrationKept

LEMMA ServerReadStep == ASSUME IInv, NEW n, ServerRead(n) PROVE IInv'
  <1> DEFINE w == <<MsgTypeHeartbeatAck>>
  <1>1. /\ srv = "serving" /\ c2s # <<>> /\ n \in 1 .. InFlight(c2s) /\ Read("c2s", c2s, n)
        /\ c2s' = AfterRead(c2s, n) /\ ext' \subseteq ext
        /\ s2c' = s2c \/ s2c' = Append(s2c, w)
        /\ UNCHANGED <<sfwd, local, lfwd, used, phase, sent, srv, tunnel, known, extra, streams>>
    BY DEF ServerRead, setup
  <1>2. w \in Chunk
    BY SmallWrites
  <1> HIDE DEF w
  <1>3. c2s \in Pipe /\ s2c \in Pipe /\ cuts \in 0 .. MaxCuts
    BY DEF IInv, Types
  <1>4. s2c' \in Pipe
    BY <1>1, <1>2, <1>3, Appended
  <1>5. c2s' \in Pipe /\ cuts' \in 0 .. MaxCuts
    BY <1>1, <1>3, ReadKeeps
  <1>6. Types'
    BY <1>1, <1>4, <1>5 DEF IInv, Types
  <1>7. phase # "waiting"
    BY <1>1 DEF IInv, Answers
  <1> QED
    BY <1>1, <1>6, <1>7, RegistrationKept

LEMMA ClientNewConnStep == ASSUME IInv, NEW n, NEW dials \in BOOLEAN, ClientNewConn(n, dials) PROVE IInv'
  <1> DEFINE q == Msg(s2c, n).payload
             c == parseNewConn(q)
  <1>1. /\ phase = "connected" /\ s2c # <<>> /\ n \in 1 .. InFlight(s2c) /\ Read("s2c", s2c, n)
        /\ s2c' = AfterRead(s2c, n)
        /\ UNCHANGED <<ext, sfwd, used, sent, srv, tunnel, known, extra, streams>>
    BY DEF ClientNewConn
  <1>2. \/ phase' = "crashed" /\ UNCHANGED <<c2s, local, lfwd>>
        \/ /\ c # Panic /\ phase' = phase
           /\ local' = local \/ (local' = local \union {c.id} /\ lfwd' = lfwd \union {c.id})
           /\ lfwd' = lfwd \/ lfwd' = lfwd \union {c.id}
           /\ c2s' = c2s \/ c2s' = Append(c2s, BuildCloseConnMessage(c.id))
    BY DEF ClientNewConn
  <1>3. c2s \in Pipe /\ s2c \in Pipe /\ cuts \in 0 .. MaxCuts /\ srv = "serving"
    BY <1>1, Served DEF IInv, Types
  <1>4. q \in Seq(Byte)
    BY <1>1, <1>3, MsgRead
  <1> HIDE DEF q
  <1>5. c # Panic => c.id \in Seq(Byte)
    BY <1>4, NewConnID
  <1>6. s2c' \in Pipe /\ cuts' \in 0 .. MaxCuts
    BY <1>1, <1>3, ReadKeeps
  <1> HIDE DEF c
  <1>7. c2s' \in Pipe
    <2>1. c # Panic => Append(c2s, BuildCloseConnMessage(c.id)) \in Pipe
      BY <1>3, <1>5, CloseWrite, Appended
    <2> QED
      BY <1>2, <1>3, <2>1
  <1>8. local' \subseteq lfwd' /\ lfwd' \subseteq Seq(Byte)
    <2>1. local \subseteq lfwd /\ lfwd \subseteq Seq(Byte)
      BY DEF IInv, Types
    <2> QED
      BY <1>2, <1>5, <2>1
  <1>9. Types'
    BY <1>1, <1>2, <1>6, <1>7, <1>8 DEF IInv, Types
  <1>10. phase' = phase \/ phase' = "crashed"
    BY <1>2
  <1> QED
    BY <1>1, <1>3, <1>9, <1>10, RegistrationKept

LEMMA ClientReadStep == ASSUME IInv, NEW n, ClientRead(n) PROVE IInv'
  <1> DEFINE w == <<MsgTypeConfigAck>>
  <1>1. /\ phase = "connected" /\ s2c # <<>> /\ n \in 1 .. InFlight(s2c) /\ Read("s2c", s2c, n)
        /\ s2c' = AfterRead(s2c, n) /\ local' \subseteq local
        /\ c2s' = c2s \/ c2s' = Append(c2s, w)
        /\ UNCHANGED <<ext, sfwd, lfwd, used, phase, sent, srv, tunnel, known, extra, streams>>
    BY DEF ClientRead, setup
  <1>2. w \in Chunk
    BY SmallWrites
  <1> HIDE DEF w
  <1>3. c2s \in Pipe /\ s2c \in Pipe /\ cuts \in 0 .. MaxCuts /\ srv = "serving"
    BY <1>1, Served DEF IInv, Types
  <1>4. c2s' \in Pipe
    BY <1>1, <1>2, <1>3, Appended
  <1>5. s2c' \in Pipe /\ cuts' \in 0 .. MaxCuts
    BY <1>1, <1>3, ReadKeeps
  <1>6. Types'
    BY <1>1, <1>4, <1>5 DEF IInv, Types
  <1> QED
    BY <1>1, <1>3, <1>6, RegistrationKept

\* The steps of the client that only write.
LEMMA ClientWriteStep ==
    ASSUME IInv, phase = "connected", NEW w \in Chunk, c2s' = Append(c2s, w),
           extra' \in 0 .. MaxExtra, local' \subseteq lfwd', lfwd' \subseteq lfwd,
           UNCHANGED <<s2c, cuts, ext, sfwd, used, phase, sent, srv, tunnel, known, streams>>
    PROVE  IInv'
  <1>1. c2s' \in Pipe
    BY Appended DEF IInv, Types
  <1>2. Types'
    BY <1>1 DEF IInv, Types
  <1>3. srv = "serving"
    BY Served
  <1> QED
    BY <1>2, <1>3, RegistrationKept

LEMMA HeartbeatStep == ASSUME IInv, Heartbeat PROVE IInv'
  <1> DEFINE w == <<MsgTypeHeartbeat>>
  <1>1. /\ phase = "connected" /\ extra < MaxExtra /\ extra' = extra + 1 /\ c2s' = Append(c2s, w)
        /\ UNCHANGED <<s2c, cuts, ext, sfwd, local, lfwd, used, phase, sent, srv, tunnel, known, streams>>
    BY DEF Heartbeat, setup, conns
  <1>2. w \in Chunk
    BY SmallWrites
  <1> HIDE DEF w
  <1>3. extra' \in 0 .. MaxExtra /\ local' \subseteq lfwd' /\ lfwd' \subseteq lfwd
    BY <1>1, WireAssumption DEF IInv, Types
  <1> QED
    BY <1>1, <1>2, <1>3, ClientWriteStep

LEMMA LocalDataStep == ASSUME IInv, NEW id \in lfwd, LocalData(id) PROVE IInv'
  <1> DEFINE w == TextEncode([type |-> "DATA", id |-> id, data |-> Payload])
  <1>1. /\ phase = "connected" /\ extra < MaxExtra /\ extra' = extra + 1 /\ c2s' = Append(c2s, w)
        /\ UNCHANGED <<s2c, cuts, ext, sfwd, local, lfwd, used, phase, sent, srv, tunnel, known, streams>>
    BY DEF LocalData, setup, conns
  <1>2. w \in Chunk
    BY DataWrite DEF IInv, Types
  <1> HIDE DEF w
  <1>3. extra' \in 0 .. MaxExtra /\ local' \subseteq lfwd' /\ lfwd' \subseteq lfwd
    BY <1>1, WireAssumption DEF IInv, Types
  <1> QED
    BY <1>1, <1>2, <1>3, ClientWriteStep

LEMMA LocalEndsStep == ASSUME IInv, NEW id \in lfwd, LocalEnds(id) PROVE IInv'
  <1> DEFINE w == BuildCloseConnMessage(id)
  <1>1. /\ phase = "connected" /\ c2s' = Append(c2s, w)
        /\ lfwd' = lfwd \ {id} /\ local' = local \ {id}
        /\ UNCHANGED <<s2c, cuts, ext, sfwd, used, phase, sent, srv, tunnel, known, extra, streams>>
    BY DEF LocalEnds, setup
  <1>2. w \in Chunk
    BY CloseWrite DEF IInv, Types
  <1> HIDE DEF w
  <1>3. extra' \in 0 .. MaxExtra /\ local' \subseteq lfwd' /\ lfwd' \subseteq lfwd
    BY <1>1 DEF IInv, Types
  <1> QED
    BY <1>1, <1>2, <1>3, ClientWriteStep

LEMMA OpenStreamStep == ASSUME IInv, NEW id \in ConnID, OpenStream(id) PROVE IInv'
  <1> DEFINE h == [proto |-> tunnel.proto, addrType |-> 0, target |-> tunnel.addr,
                   flags |-> 0, conn |-> id, stream |-> 0]
             taken == handleQUICDataStream(EncodeSessionHeader(h) \o Payload)
  <1>1. /\ srv = "serving" /\ phase = "connected" /\ used' = used \union {id}
        /\ UNCHANGED <<c2s, s2c, cuts, ext, sfwd, local, lfwd, phase, sent, srv, tunnel, known, extra>>
    BY DEF OpenStream, setup, control
  <1>2. streams' = [i \in DOMAIN streams \union {id} |-> IF i = id THEN taken ELSE streams[i]]
    BY DEF OpenStream
  <1>3. Types'
    BY <1>1, <1>2 DEF IInv, Types
  <1>4. Requests' /\ Answers'
    BY <1>1 DEF IInv, Requests, Answers
  <1>5. Tunnels'
    BY <1>1 DEF IInv, Tunnels
  <1>6. taken = Ok([target |-> tunnel.addr, conn |-> id, rest |-> Payload])
    <2>1. sent \in Request /\ tunnel = Stored(sent)
      BY <1>1 DEF IInv, Requests, Tunnels
    <2>2. /\ IsString(tunnel.addr) /\ tunnel.proto \in 1 .. 5 /\ tunnel.proto \in Nat
      BY <2>1, StoredFacts, RequestFacts
    <2>3. Field(tunnel.addr) /\ Field(id) /\ Payload \in Seq(Byte)
      BY <2>2, ConnFacts, StringFacts, WireAssumption
    <2>4. /\ h.proto = tunnel.proto /\ h.addrType = 0 /\ h.target = tunnel.addr /\ h.flags = 0
          /\ h.conn = id /\ h.stream = 0
      OBVIOUS
    <2> HIDE DEF h
    <2>5. Header(h)
      BY <2>2, <2>3, <2>4 DEF Header, Fits32
    <2>6. ~ HasFrameMap(h.proto, h.flags)
      BY <2>4 DEF HasFrameMap
    <2>7. h.proto \in ProtocolTCP .. ProtocolHTTP3
      BY <2>2, <2>4 DEF ProtocolTCP, ProtocolHTTP3
    <2>8. Payload \in String
      BY <2>3, BytesAreString
    <2>9. taken = Ok([target |-> h.target, conn |-> h.conn, rest |-> Payload])
      BY <2>5, <2>6, <2>7, <2>8, StreamHeaderExact
    <2> QED
      BY <2>4, <2>9
  <1> HIDE DEF taken
  <1>7. StreamReachesItsConn'
    <2>1. \A i \in DOMAIN streams : streams[i] = Ok([target |-> tunnel.addr, conn |-> i, rest |-> Payload])
      BY DEF IInv, StreamReachesItsConn
    <2>2. \A i \in DOMAIN streams' : streams'[i] = Ok([target |-> tunnel.addr, conn |-> i, rest |-> Payload])
      BY <1>2, <1>6, <2>1
    <2> QED
      BY <1>1, <2>2 DEF StreamReachesItsConn
  <1> QED
    BY <1>3, <1>4, <1>5, <1>7 DEF IInv

LEMMA StutterStep == ASSUME IInv, UNCHANGED vars PROVE IInv'
  <1>1. UNCHANGED <<c2s, s2c, phase, sent, srv, tunnel, known, ext, sfwd, local, lfwd, used, extra, cuts, streams>>
    BY DEF vars, control, conns, setup
  <1>2. Types'
    BY <1>1 DEF IInv, Types
  <1>3. Requests' /\ Tunnels' /\ Answers'
    BY <1>1 DEF IInv, Requests, Tunnels, Answers
  <1>4. StreamReachesItsConn'
    BY <1>1, StreamsKept DEF IInv
  <1> QED
    BY <1>2, <1>3, <1>4 DEF IInv

-----------------------------------------------------------------------------
\* Theorems

\* Whatever a request, an ID, a URL and a payload hold, and wherever reads cut the control
\* stream: before it has the request the handler has nothing else to read, the tunnel it
\* keeps is the one in the request, and the first thing a waiting client reads is the
\* answer to its own request or a config update (quic.go:927-1010, 2936).
THEOREM InductiveInvariant == Spec => []IInv
  <1>1. Init => IInv
    BY InitHolds
  <1>2. IInv /\ [Next]_vars => IInv'
    <2> SUFFICES ASSUME IInv, [Next]_vars PROVE IInv'
      OBVIOUS
    <2>1. ASSUME NEW r \in Request, SendRegister(r) PROVE IInv'
      BY <2>1, SendRegisterStep
    <2>2. CASE StreamType
      BY <2>2, StreamTypeStep
    <2>3. CASE Ack
      BY <2>3, AckStep
    <2>4. CASE AckEOF
      BY <2>4, AckEOFStep
    <2>5. CASE ConfigUpdate
      BY <2>5, ConfigUpdateStep
    <2>6. CASE Heartbeat
      BY <2>6, HeartbeatStep
    <2>7. ASSUME NEW n \in 1 .. InFlight(c2s), Store(n) \/ Refuse(n) \/ ServerRead(n) PROVE IInv'
      BY <2>7, StoreStep, RefuseStep, ServerReadStep
    <2>8. ASSUME NEW n \in 1 .. InFlight(s2c), ReadAck(n) \/ ClientRead(n) PROVE IInv'
      BY <2>8, ReadAckStep, ClientReadStep
    <2>9. ASSUME NEW n \in 1 .. InFlight(s2c), NEW dials \in BOOLEAN, ClientNewConn(n, dials) PROVE IInv'
      BY <2>9, ClientNewConnStep
    <2>10. ASSUME NEW id \in ConnID, ExternalConn(id) \/ ExternalData(id) \/ ExternalEnds(id) \/ OpenStream(id)
           PROVE  IInv'
      BY <2>10, ExternalConnStep, ExternalDataStep, ExternalEndsStep, OpenStreamStep
    <2>11. ASSUME NEW id \in lfwd, LocalData(id) \/ LocalEnds(id) PROVE IInv'
      BY <2>11, LocalDataStep, LocalEndsStep
    <2>12. CASE UNCHANGED vars
      BY <2>12, StutterStep
    <2> QED
      BY <2>1, <2>2, <2>3, <2>4, <2>5, <2>6, <2>7, <2>8, <2>9, <2>10, <2>11, <2>12 DEF Next
  <1> QED
    BY <1>1, <1>2, PTL DEF Spec

LEMMA PipeIsPipe == ASSUME NEW p \in Pipe PROVE IsPipe(p)
  <1>1. Len(p) \in Nat /\ DOMAIN p = 1 .. Len(p) /\ \A i \in 1 .. Len(p) : p[i] \in Chunk
    BY PipeFacts DEF Pipe
  <1>2. ASSUME NEW w \in Chunk PROVE w # <<>> /\ ToSet(w) \subseteq Byte
    <2>1. w \in Seq(Byte) /\ w # <<>>
      BY DEF Chunk
    <2> QED
      BY <2>1 DEF ToSet
  <1> QED
    BY <1>1, <1>2 DEF IsPipe

\* Registration in bytes: a request cut by a read is refused and never registered as a
\* shorter one, and a client that takes itself for connected has the ID and the URL of the
\* tunnel that serves it, for every request, URL and payload the code can send
\* (parseRegisterPayload, handleSessionRestore and readRegisterAck).
THEOREM RegistrationIsExact == Spec => []Registration
  <1>1. IInv => Registration
    <2> SUFFICES ASSUME IInv PROVE Registration
      OBVIOUS
    <2>1. TypeOK
      <3>1. IsPipe(c2s) /\ IsPipe(s2c)
        BY PipeIsPipe DEF IInv, Types
      <3> QED
        BY <3>1 DEF IInv, Types, TypeOK
    <2>2. RegistersWhatWasSent
      <3> SUFFICES ASSUME tunnel # None PROVE RegistersWhatWasSent
        BY DEF RegistersWhatWasSent
      <3>1. tunnel = Stored(sent) /\ sent \in Request
        BY DEF IInv, Types, Tunnels, Requests
      <3>2. /\ tunnel["id"] = sent.reg["id"] /\ tunnel["proto"] = sent.reg["proto"]
            /\ tunnel["addr"] = sent.reg["addr"]
            /\ ~ sent.restore => tunnel.domain = sent.reg.domain /\ tunnel.token = sent.reg.token
        BY <3>1, StoredFacts
      <3> QED
        BY <3>2 DEF RegistersWhatWasSent
    <2>3. ConnectedKnowsTunnel
      BY DEF IInv, Tunnels, ConnectedKnowsTunnel
    <2> QED
      BY <2>1, <2>2, <2>3 DEF Registration
  <1> QED
    BY <1>1, InductiveInvariant, PTL

\* A prefix of a string is read from it.
LEMMA PrefixReads ==
    ASSUME NEW s \in String, NEW k \in 0 .. Len(s)
    PROVE  SubSeq(s, 1, k) \in String /\ Len(SubSeq(s, 1, k)) = k /\ Reads(SubSeq(s, 1, k), s, 0)
  <1>1. Len(s) \in Nat
    BY LenIsNat
  <1>2. SubSeq(s, 1, k) \in String /\ Len(SubSeq(s, 1, k)) = k /\ \A i \in 1 .. k : SubSeq(s, 1, k)[i] = s[i]
    BY <1>1 DEF String
  <1> QED
    BY <1>2 DEF Reads

LEMMA WholeReads == ASSUME NEW s \in String PROVE Reads(s, s, 0)
  <1>1. Len(s) \in Nat
    BY LenIsNat
  <1> QED
    BY <1>1 DEF Reads, String

\* The header with these fields, and that what follows holds of its bytes d.
HeaderOf(proto, type, target, flags, id) ==
    [proto |-> proto, addrType |-> type, target |-> target, flags |-> flags, conn |-> id,
     stream |-> IF HasFrameMap(proto, flags) THEN MappedStream ELSE 0]
Decodes(d, h) ==
    /\ DecodeSessionHeader(d) = Ok(h)
    /\ \A k \in 0 .. Len(d) - 1 : DecodeSessionHeader(SubSeq(d, 1, k)) = Err

LEMMA HeaderOfDecodes ==
    ASSUME NEW target, NEW id, IsString(target), IsString(id),
           NEW proto \in ProtocolTCP .. ProtocolHTTP3, NEW flags \in {0, 1, 4, 5}
    PROVE  Decodes(EncodeSessionHeader(HeaderOf(proto, 0, target, flags, id)),
                   HeaderOf(proto, detectAddrType(target), target, flags, id))
  <1> DEFINE h == HeaderOf(proto, 0, target, flags, id)
             g == HeaderOf(proto, detectAddrType(target), target, flags, id)
             d == EncodeSessionHeader(h)
             st == IF HasFrameMap(proto, flags) THEN MappedStream ELSE 0
  <1>1. /\ h.proto = proto /\ h.addrType = 0 /\ h.target = target /\ h.flags = flags
        /\ h.conn = id /\ h.stream = st
    BY DEF HeaderOf
  <1>2. g = [proto |-> proto, addrType |-> detectAddrType(target), target |-> target,
             flags |-> flags, conn |-> id, stream |-> st]
    BY Zenon DEF HeaderOf
  <1>3. Fits32(st) /\ (IF HasFrameMap(proto, flags) THEN st ELSE 0) = st
    <2>1. Fits32(MappedStream) /\ Fits32(0)
      BY SMT DEF Fits32, MappedStream
    <2> QED
      BY <2>1, Zenon
  <1>4. proto \in Nat /\ flags \in Nat
    BY DEF ProtocolTCP, ProtocolHTTP3
  <1> HIDE DEF h, g, st
  <1>5. Header(h)
    BY <1>1, <1>3, <1>4, StringFacts DEF Header
  <1>6. d \in String
    BY <1>5, HeaderLayout, Zenon
  <1>7. TypeWritten(h) = detectAddrType(target)
    BY <1>1 DEF TypeWritten
  <1>8. ASSUME NEW p \in String, Reads(p, d, 0)
        PROVE  DecodeSessionHeader(p) = IF Len(p) >= Len(d) THEN Ok(g) ELSE Err
    <2>1. DecodeSessionHeader(p) =
             IF Len(p) >= Len(EncodeSessionHeader(h))
             THEN Ok([proto |-> h.proto, addrType |-> TypeWritten(h), target |-> h.target,
                      flags |-> h.flags, conn |-> h.conn,
                      stream |-> IF HasFrameMap(h.proto, h.flags) THEN h.stream ELSE 0])
             ELSE Err
      BY <1>5, <1>8, HeaderExact, Zenon
    <2>2. [proto |-> h.proto, addrType |-> TypeWritten(h), target |-> h.target,
           flags |-> h.flags, conn |-> h.conn,
           stream |-> IF HasFrameMap(h.proto, h.flags) THEN h.stream ELSE 0] = g
      BY <1>1, <1>2, <1>3, <1>7, Zenon
    <2> QED
      BY <2>1, <2>2, Zenon
  <1> HIDE DEF d
  <1>9. Len(d) \in Nat
    BY <1>6, LenIsNat
  <1>10. DecodeSessionHeader(d) = Ok(g)
    BY <1>6, <1>8, <1>9, WholeReads
  <1>11. ASSUME NEW k \in 0 .. Len(d) - 1 PROVE DecodeSessionHeader(SubSeq(d, 1, k)) = Err
    <2> DEFINE p == SubSeq(d, 1, k)
    <2>1. k \in 0 .. Len(d) /\ ~ (k >= Len(d))
      BY <1>9
    <2>2. p \in String /\ Len(p) = k /\ Reads(p, d, 0)
      BY <1>6, <2>1, PrefixReads
    <2> HIDE DEF p
    <2>3. DecodeSessionHeader(p) = Err
      BY <1>8, <2>1, <2>2
    <2> QED
      BY <2>3 DEF p
  <1>12. Decodes(d, g)
    BY <1>10, <1>11, Zenon DEF Decodes
  <1> QED
    BY <1>12, Zenon DEF d, g, h

\* A data stream in bytes: a header of any protocol, with or without the stream mapping, is
\* decoded to itself and never from a part of it, the legacy header is read alike by both
\* sides, and the payload of every data stream reaches the connection it is for, with the
\* target of the tunnel (Encode, DecodeSessionHeader, handleQUICDataStream, handleDataStream).
THEOREM DataStreamsAreExact == Spec => []DataStreams
  <1>1. ASSUME IInv, srv = "stored" PROVE HeaderDecodes
    <2>1. tunnel = Stored(sent) /\ sent \in Request
      BY <1>1 DEF IInv, Tunnels, Requests
    <2>2. IsString(tunnel.addr) /\ IsString(tunnel.id)
      BY <2>1, StoredFacts, RequestFacts
    <2> DEFINE t == detectAddrType(tunnel.addr)
    <2>3. ASSUME NEW proto \in ProtocolTCP .. ProtocolHTTP3, NEW flags \in {0, 1, 4, 5}
          PROVE  LET h == [proto |-> proto, addrType |-> detectAddrType(tunnel.addr),
                           target |-> tunnel.addr, flags |-> flags, conn |-> tunnel.id,
                           stream |-> IF HasFrameMap(proto, flags) THEN MappedStream ELSE 0]
                     d == EncodeSessionHeader([h EXCEPT !.addrType = 0])
                 IN  /\ DecodeSessionHeader(d) = Ok(h)
                     /\ \A k \in 0 .. Len(d) - 1 : DecodeSessionHeader(SubSeq(d, 1, k)) = Err
      <3> DEFINE h == HeaderOf(proto, t, tunnel.addr, flags, tunnel.id)
                 g == HeaderOf(proto, 0, tunnel.addr, flags, tunnel.id)
                 d == EncodeSessionHeader([h EXCEPT !.addrType = 0])
      <3>1. [h EXCEPT !.addrType = 0] = g
        <4> DEFINE st == IF HasFrameMap(proto, flags) THEN MappedStream ELSE 0
        <4>1. /\ h = [proto |-> proto, addrType |-> t, target |-> tunnel.addr, flags |-> flags,
                      conn |-> tunnel.id, stream |-> st]
              /\ g = [proto |-> proto, addrType |-> 0, target |-> tunnel.addr, flags |-> flags,
                      conn |-> tunnel.id, stream |-> st]
          BY Zenon DEF HeaderOf
        <4> HIDE DEF st, h, g, t
        <4> QED
          BY <4>1
      <3>2. Decodes(EncodeSessionHeader(g), h)
        BY <2>2, HeaderOfDecodes, Zenon
      <3>3. Decodes(d, h)
        BY <3>1, <3>2, Zenon
      <3> QED
        BY <3>3, Zenon DEF Decodes, HeaderOf
    <2>4. ASSUME NEW id \in ConnID
          PROVE  LET s == Str16(id) \o Payload
                 IN  /\ handleDataStream(s) = handleQUICDataStream(s)
                     /\ handleDataStream(s) = Ok([target |-> <<>>, conn |-> id, rest |-> Payload])
      <3>1. id \in String /\ Len(id) < 256 /\ Payload \in String
        BY ConnFacts, WireAssumption, StringFacts, BytesAreString
      <3>2. \A a \in {0, 1} : ReadHeader(Str16(id) \o Payload, a)
                                = Ok([target |-> <<>>, conn |-> id, rest |-> Payload])
        BY <3>1, LegacyHeaderExact
      <3> QED
        BY <3>2, Zenon DEF handleDataStream, handleQUICDataStream
    <2> QED
      BY <2>3, <2>4, Zenon DEF HeaderDecodes
  <1>2. IInv => DataStreams
    <2>1. srv # "stored" => HeaderDecodes
      BY Zenon DEF HeaderDecodes
    <2> QED
      BY <1>1, <2>1, Zenon DEF DataStreams, IInv
  <1> QED
    BY <1>2, InductiveInvariant, PTL

-----------------------------------------------------------------------------
\* The invariant of the messages about connections

\* A message that opens, closes or feeds no connection.
Aside(w) == w[1] \notin {MsgTypeNewConn, MsgTypeCloseConn, MsgTypeData}

NewMsg(id) == buildNewConnMessage(id, Remote)
CloseMsg(id) == BuildCloseConnMessage(id)

\* What the two sides write of the connections in ids, when what was said is in what.
FromServer(w, ids, what) ==
    \/ Aside(w)
    \/ \E id \in ids : w = NewMsg(id) /\ <<"newconn", id>> \in what
    \/ \E id \in ids : w = CloseMsg(id) /\ <<"close", id>> \in what
FromClient(w, ids, what) ==
    \/ w[1] # MsgTypeCloseConn
    \/ \E id \in ids : w = CloseMsg(id) /\ <<"close", id>> \in what

\* Until a read ends inside a message, the writes in flight are messages.
Unsplit ==
    split = {} =>
        /\ \A i \in 1 .. Len(s2c) : FromServer(s2c[i], used, said)
        /\ \A i \in 1 .. Len(c2s) : FromClient(c2s[i], used, said)
        /\ ActsOnSent

Has(p, w) == \E i \in 1 .. Len(p) : p[i] = w
Before(p, v, w) == \A i, j \in 1 .. Len(p) : p[i] = v /\ p[j] = w => i < j
Once(p, v) == \A i, j \in 1 .. Len(p) : p[i] = v /\ p[j] = v => i = j

\* Where the sides differ about a connection, a message on its way settles it.
Settled(id) ==
    LET opening == Has(s2c, NewMsg(id))
        ending == Has(s2c, CloseMsg(id))
        answered == Has(c2s, CloseMsg(id))
    IN  /\ id \in ext /\ id \notin local => opening \/ answered
        /\ id \in local /\ id \notin ext => ending
        /\ opening /\ id \notin ext => ending
        /\ answered => id \notin local /\ ~ opening
        /\ id \in lfwd => ~ opening
        /\ ending => id \notin sfwd
        /\ id \notin used => ~ opening /\ ~ ending /\ ~ answered /\ id \notin lfwd
        /\ Once(s2c, NewMsg(id)) /\ Before(s2c, NewMsg(id), CloseMsg(id))
Agreement == cuts = 0 => split = {} /\ \A id \in ConnID : Settled(id)

CInv == Unsplit /\ CrashOnlyOnSplit /\ Agreement

-----------------------------------------------------------------------------
\* The messages about connections

LEMMA NewMsgFacts ==
    ASSUME NEW id \in ConnID
    PROVE  /\ NewMsg(id) \in Chunk /\ NewMsg(id)[1] = MsgTypeNewConn
           /\ NewMsg(id) \in String /\ Len(NewMsg(id)) = 1 + (2 + Len(id)) + (2 + Len(Remote))
           /\ At(NewMsg(id), 1, Str16(id))
  <1> DEFINE t == <<MsgTypeNewConn>>
             i == Str16(id)
             r == Str16(Remote)
  <1>1. t \in Chunk /\ t[1] = MsgTypeNewConn /\ t \in String /\ Len(t) = 1
    BY ByteWrite, ByteString DEF MsgTypeNewConn, Byte
  <1>2. Field(id) /\ Field(Remote) /\ i \in Seq(Byte) /\ r \in Seq(Byte)
    BY WireAssumption, ConnFacts, StringFacts
  <1>3. i \in String /\ Len(i) = 2 + Len(id) /\ r \in String /\ Len(r) = 2 + Len(Remote)
        /\ Len(id) \in Nat /\ Len(Remote) \in Nat
    BY <1>2, FieldFacts
  <1>4. NewMsg(id) = (t \o i) \o r
    BY DEF NewMsg, buildNewConnMessage
  <1> HIDE DEF t, i, r
  <1>5. t \o i \in Chunk /\ (t \o i)[1] = MsgTypeNewConn
    BY <1>1, <1>2, Longer
  <1>6. (t \o i) \o r \in Chunk /\ ((t \o i) \o r)[1] = MsgTypeNewConn
    BY <1>2, <1>5, Longer
  <1>7. t \o i \in String /\ Len(t \o i) = Len(t) + Len(i) /\ At(t \o i, Len(t), i)
    BY <1>1, <1>3, Extended
  <1>8. /\ (t \o i) \o r \in String /\ Len((t \o i) \o r) = Len(t \o i) + Len(r)
        /\ At((t \o i) \o r, 1, i)
    BY <1>1, <1>3, <1>7, Extended
  <1>9. Len((t \o i) \o r) = 1 + (2 + Len(id)) + (2 + Len(Remote))
    BY <1>1, <1>3, <1>7, <1>8
  <1> QED
    BY <1>4, <1>6, <1>8, <1>9 DEF i

LEMMA CloseMsgFacts ==
    ASSUME NEW id \in Seq(Byte)
    PROVE  /\ CloseMsg(id) \in Chunk /\ CloseMsg(id)[1] = MsgTypeCloseConn
           /\ CloseMsg(id) \in String /\ Len(CloseMsg(id)) = 1 + Len(id) /\ At(CloseMsg(id), 1, id)
  <1> DEFINE t == <<MsgTypeCloseConn>>
  <1>1. t \in Chunk /\ t[1] = MsgTypeCloseConn /\ t \in String /\ Len(t) = 1
    <2>1. MsgTypeCloseConn \in Byte /\ MsgTypeCloseConn \in Nat
      BY DEF MsgTypeCloseConn, Byte
    <2> QED
      BY <2>1, ByteWrite, ByteString
  <1>2. id \in String
    BY BytesAreString
  <1>3. CloseMsg(id) = t \o id
    BY DEF CloseMsg, BuildCloseConnMessage
  <1> HIDE DEF t
  <1>4. t \o id \in Chunk /\ (t \o id)[1] = MsgTypeCloseConn
    BY <1>1, Longer
  <1>5. t \o id \in String /\ Len(t \o id) = Len(t) + Len(id) /\ At(t \o id, Len(t), id)
    BY <1>1, <1>2, Extended
  <1> QED
    BY <1>1, <1>3, <1>4, <1>5

LEMMA SameLength == ASSUME NEW a \in ConnID, NEW b \in ConnID PROVE Len(a) = Len(b)
  BY WireAssumption

\* Messages about two connections differ.
LEMMA MessagesDiffer ==
    ASSUME NEW a \in ConnID, NEW b \in ConnID
    PROVE  /\ NewMsg(a) = NewMsg(b) => a = b
           /\ CloseMsg(a) = CloseMsg(b) => a = b
           /\ NewMsg(a) # CloseMsg(b)
  <1>1. a \in String /\ b \in String /\ Len(a) \in Nat /\ Len(a) = Len(b) /\ a \in Seq(Byte) /\ b \in Seq(Byte)
    BY ConnFacts, SameLength, LenIsNat
  <1>2. ASSUME NewMsg(a) = NewMsg(b) PROVE a = b
    <2> DEFINE m == NewMsg(a)
    <2>1. m \in String /\ At(m, 1, Str16(a)) /\ At(m, 1, Str16(b))
      BY <1>2, NewMsgFacts
    <2> HIDE DEF m
    <2>2. Str16(a) \in String /\ Str16(b) \in String /\ At(Str16(a), 2, a) /\ At(Str16(b), 2, b)
      BY <1>1, Str16Facts
    <2>3. At(m, 1 + 2, a) /\ At(m, 1 + 2, b)
      BY <1>1, <2>1, <2>2, AtInside
    <2>4. Bytes(m, 1 + 2, Len(a)) = a /\ Bytes(m, 1 + 2, Len(b)) = b
      BY <1>1, <2>1, <2>3, BytesAt
    <2> QED
      BY <1>1, <2>4
  <1>3. ASSUME CloseMsg(a) = CloseMsg(b) PROVE a = b
    <2> DEFINE m == CloseMsg(a)
    <2>1. m \in String /\ At(m, 1, a) /\ At(m, 1, b)
      BY <1>1, <1>3, CloseMsgFacts
    <2> HIDE DEF m
    <2>2. Bytes(m, 1, Len(a)) = a /\ Bytes(m, 1, Len(b)) = b
      BY <1>1, <2>1, BytesAt
    <2> QED
      BY <1>1, <2>2
  <1>4. NewMsg(a) # CloseMsg(b)
    BY <1>1, NewMsgFacts, CloseMsgFacts DEF MsgTypeNewConn, MsgTypeCloseConn
  <1> QED
    BY <1>2, <1>3, <1>4

DataMsg(id) == TextEncode([type |-> "DATA", id |-> id, data |-> Payload])

\* The messages that are about no connection.
LEMMA Asides ==
    /\ \A id \in Seq(Byte) : Aside(DataMsg(id))
    /\ \A r \in Request : Aside(Accepted(r)) /\ RegMsg(r)[1] # MsgTypeCloseConn
    /\ \A id : IsString(id) => Aside(Refused(id))
    /\ Aside(SendConfigUpdate(Payload)) /\ Aside(<<MsgTypeHeartbeatAck>>)
    /\ Aside(<<MsgTypeHeartbeat>>) /\ Aside(<<MsgTypeConfigAck>>) /\ Aside(<<StreamTypeControl>>)
  <1> USE DEF MsgTypeNewConn, MsgTypeCloseConn, MsgTypeData
  <1>1. \A w : w[1] \in {0, 2, 3, 4, 9, 10, 68} => Aside(w)
    BY DEF Aside
  <1>2. \A id \in Seq(Byte) : Aside(DataMsg(id))
    BY <1>1, DataWrite DEF DataMsg
  <1>3. \A r \in Request : Aside(Accepted(r)) /\ RegMsg(r)[1] # MsgTypeCloseConn
    BY <1>1, AcceptedWrite, RequestWrite DEF Begins, MsgTypeRegisterAck, MsgTypeRegister, MsgTypeSessionRestore
  <1>4. \A id : IsString(id) => Aside(Refused(id))
    BY <1>1, RefusedWrite DEF Begins, MsgTypeRegisterAck
  <1>5. Aside(SendConfigUpdate(Payload))
    BY <1>1, SmallWrites DEF MsgTypeConfigUpdate
  <1>6. /\ Aside(<<MsgTypeHeartbeatAck>>) /\ Aside(<<MsgTypeHeartbeat>>)
        /\ Aside(<<MsgTypeConfigAck>>) /\ Aside(<<StreamTypeControl>>)
    BY DEF Aside, MsgTypeHeartbeatAck, MsgTypeHeartbeat, MsgTypeConfigAck, StreamTypeControl
  <1> QED
    BY <1>2, <1>3, <1>4, <1>5, <1>6

\* An aside is no message about a connection.
LEMMA AsideIsNot ==
    ASSUME NEW w, NEW id \in ConnID
    PROVE  /\ Aside(w) => w # NewMsg(id) /\ w # CloseMsg(id) /\ w[1] # MsgTypeCloseConn
           /\ w[1] # MsgTypeCloseConn => w # CloseMsg(id)
  <1>1. NewMsg(id)[1] = MsgTypeNewConn /\ CloseMsg(id)[1] = MsgTypeCloseConn
    BY NewMsgFacts, CloseMsgFacts, ConnFacts
  <1> QED
    BY <1>1 DEF Aside

-----------------------------------------------------------------------------
\* Messages read whole

\* A NEWCONN that was read whole, with or without what follows it, names its connection.
LEMMA NewConnRead ==
    ASSUME NEW p \in Pipe, p # <<>>, NEW n \in 1 .. InFlight(p), NEW id \in ConnID,
           p[1] = NewMsg(id), Len(p[1]) <= n
    PROVE  /\ parseNewConn(Msg(p, n).payload) # Panic
           /\ parseNewConn(Msg(p, n).payload).id = id
  <1> DEFINE q == Msg(p, n).payload
             m == NewMsg(id)
             l == Uint16(q, 0)
             i == Reslice(q, 2, l)
             fine == 2 <= Len(q) /\ (2 + l) + 2 <= Len(q)
             rec == [id |-> i, remote |-> Reslice(q, (2 + l) + 2, Uint16(q, 2 + l))]
  <1>1. q \in String /\ Len(q) = n - 1 /\ Reads(q, m, 1)
    BY MsgRead
  <1>2. m \in String /\ Len(m) = 1 + (2 + Len(id)) + (2 + Len(Remote)) /\ At(m, 1, Str16(id))
    BY NewMsgFacts
  <1>3. id \in String /\ Fits16(Len(id)) /\ Len(id) \in Nat /\ Len(Remote) \in Nat
    BY WireAssumption, ConnFacts, StringFacts, FieldFacts
  <1>4. n \in Nat /\ Len(m) <= n
    BY FirstWrite
  <1>5. parseNewConn(q) = IF fine THEN Ok(rec) ELSE Panic
    BY DEF parseNewConn
  <1>6. Ok(rec).id = i /\ Ok(rec).res = "ok"
    BY DEF Ok
  <1> HIDE DEF q, m
  <1>7. Len(q) \in Nat /\ (2 + Len(id)) + 2 <= Len(q) /\ 0 + 2 <= Len(q) /\ (0 + 2) + Len(id) <= Len(q)
        /\ 2 <= Len(q)
    BY <1>1, <1>2, <1>3, <1>4
  <1>8. 1 + 0 = 1 /\ 0 + 2 = 2
    OBVIOUS
  <1>9. FieldAt(m, 1, 0, id, Len(id))
    BY <1>2, <1>3, <1>8 DEF FieldAt
  <1>10. Uint16(q, 0) = Len(id) /\ Reslice(q, 0 + 2, Len(id)) = id
    BY <1>1, <1>2, <1>7, <1>9, FieldRead
  <1>11. l = Len(id) /\ i = id
    BY <1>8, <1>10
  <1>12. fine
    BY <1>7, <1>11
  <1> HIDE DEF l, i, rec, fine
  <1>13. parseNewConn(q) = Ok(rec)
    BY <1>5, <1>12
  <1>14. Ok(rec) # Panic
    BY <1>6 DEF Panic
  <1> QED
    BY <1>6, <1>11, <1>13, <1>14 DEF q

\* What is read from a CLOSE is an ID only if it is the one in it.
LEMMA CloseRead ==
    ASSUME NEW p \in Pipe, p # <<>>, NEW n \in 1 .. InFlight(p), NEW id \in ConnID,
           p[1] = CloseMsg(id)
    PROVE  /\ Msg(p, n).payload \in ConnID => Msg(p, n).payload = id
           /\ n = Len(p[1]) => Msg(p, n).payload = id
  <1> DEFINE q == Msg(p, n).payload
             m == CloseMsg(id)
  <1>1. q \in String /\ Len(q) = n - 1 /\ Reads(q, m, 1)
    BY MsgRead
  <1>2. id \in String /\ Len(id) \in Nat /\ id \in Seq(Byte)
    BY ConnFacts, LenIsNat
  <1>3. m \in String /\ Len(m) = 1 + Len(id) /\ At(m, 1, id)
    BY <1>2, CloseMsgFacts
  <1>4. n \in Nat
    BY FirstWrite
  <1>5. ASSUME Len(q) = Len(id) PROVE q = id
    <2> HIDE DEF q, m
    <2>1. At(m, 1 + 0, id) /\ 0 + Len(id) <= Len(q)
      BY <1>2, <1>3, <1>5
    <2>2. At(q, 0, id)
      BY <1>1, <1>2, <1>3, <2>1, ReadsAt
    <2>3. At(q, 0, q)
      BY <1>1, AtWhole
    <2>4. Bytes(q, 0, Len(id)) = id /\ Bytes(q, 0, Len(q)) = q
      BY <1>1, <1>2, <2>2, <2>3, BytesAt
    <2> QED
      BY <1>5, <2>4
  <1>6. q \in ConnID => Len(q) = Len(id)
    BY SameLength
  <1>7. n = Len(p[1]) => Len(q) = Len(id)
    <2> HIDE DEF q, m
    <2>1. Len(p[1]) = 1 + Len(id)
      BY <1>3 DEF m
    <2> QED
      BY <1>1, <1>2, <1>4, <2>1
  <1> QED
    BY <1>5, <1>6, <1>7

\* An acknowledgement that was read whole does not end early.
LEMMA AckRead ==
    ASSUME NEW p \in Pipe, p # <<>>, NEW n \in 1 .. InFlight(p),
           NEW a, IsString(a.id), IsString(a.url), IsString(a.err), a.port \in Nat,
           p[1] = sendRegisterAck(a), Len(p[1]) <= n
    PROVE  parseRegisterAck(Msg(p, n).payload) # Panic
  <1> DEFINE q == Msg(p, n).payload
             m == sendRegisterAck(a)
             il == Len(a.id)
             ul == Len(a.url)
             U == 2 + Uint16(q, 0)
             E == U + 2 + Uint16(q, U) + 2
             fine == 2 <= Len(q) /\ U + 2 <= Len(q) /\ E + 2 <= Len(q)
             rec == [id |-> Reslice(q, 2, Uint16(q, 0)), url |-> Reslice(q, U + 2, Uint16(q, U)),
                     err |-> Reslice(q, E + 2, Uint16(q, E))]
  <1>1. q \in String /\ Len(q) = n - 1 /\ Reads(q, m, 1)
    BY MsgRead
  <1>2. n \in Nat /\ Len(m) <= n
    BY FirstWrite
  <1>3. /\ a.id \in String /\ a.url \in String /\ Fits16(il) /\ Fits16(ul)
        /\ Str16(a.id) \in String /\ Len(Str16(a.id)) = 2 + il
        /\ Str16(a.url) \in String /\ Len(Str16(a.url)) = 2 + ul
        /\ Str16(a.err) \in String /\ Len(Str16(a.err)) = 2 + Len(a.err)
        /\ il \in Nat /\ ul \in Nat /\ Len(a.err) \in Nat
    BY StringFacts, FieldFacts
  <1>4. parseRegisterAck(q) = IF fine THEN Ok(rec) ELSE Panic
    BY DEF parseRegisterAck
  <1>5. Ok(rec) # Panic
    <2>1. Ok(rec).res = "ok"
      BY DEF Ok
    <2> HIDE DEF rec
    <2> QED
      BY <2>1 DEF Panic
  <1> HIDE DEF q, m, il, ul, rec
  <1>6. /\ m \in String /\ Len(m) = 1 + (2 + il) + (2 + ul) + 2 + (2 + Len(a.err))
        /\ At(m, 1, Str16(a.id)) /\ At(m, 1 + (2 + il), Str16(a.url))
    <2> DEFINE t == <<MsgTypeRegisterAck>>
               port == PutUint16(a.port)
               i == Str16(a.id)
               u == Str16(a.url)
               e == Str16(a.err)
               x == t \o i \o u \o port \o e
    <2>1. t \in String /\ Len(t) = 1 /\ port \in String /\ Len(port) = 2
      BY ByteString, PutUint16Type DEF MsgTypeRegisterAck
    <2>2. m = x
      BY DEF m, sendRegisterAck
    <2>3. /\ i \in String /\ u \in String /\ e \in String
          /\ Len(i) = 2 + il /\ Len(u) = 2 + ul /\ Len(e) = 2 + Len(a.err)
      BY <1>3
    <2> HIDE DEF t, port, i, u, e
    <2>4. /\ x \in String /\ Len(x) = Len(t) + Len(i) + Len(u) + Len(port) + Len(e)
          /\ At(x, 0, t) /\ At(x, Len(t), i) /\ At(x, Len(t) + Len(i), u)
          /\ At(x, Len(t) + Len(i) + Len(u), port)
          /\ At(x, Len(t) + Len(i) + Len(u) + Len(port), e)
      BY <2>1, <2>3, FiveParts, Zenon
    <2> HIDE DEF x
    <2>5. Len(t) + Len(i) = 1 + (2 + il)
          /\ Len(t) + Len(i) + Len(u) + Len(port) + Len(e) = 1 + (2 + il) + (2 + ul) + 2 + (2 + Len(a.err))
      BY <1>3, <2>1, <2>3
    <2>6. At(m, 1, i) /\ At(m, 1 + (2 + il), u)
      BY <2>1, <2>2, <2>4, <2>5, Zenon
    <2>7. m \in String /\ Len(m) = 1 + (2 + il) + (2 + ul) + 2 + (2 + Len(a.err))
      BY <2>2, <2>4, <2>5, Zenon
    <2> QED
      BY <2>6, <2>7, Zenon DEF i, u
  <1>7. /\ Len(q) \in Nat /\ 0 + 2 <= Len(q) /\ (2 + il) + 2 <= Len(q) /\ 2 <= Len(q)
        /\ ((2 + il) + 2 + ul + 2) + 2 <= Len(q) /\ 2 + il \in Nat
    <2> HIDE DEF U, E, fine
    <2>1. \A x, y, i, u, e \in Nat :
             /\ x = 1 + (2 + i) + (2 + u) + 2 + (2 + e) /\ x <= y
             => /\ y - 1 \in Nat /\ 0 + 2 <= y - 1 /\ (2 + i) + 2 <= y - 1 /\ 2 <= y - 1
                /\ ((2 + i) + 2 + u + 2) + 2 <= y - 1 /\ 2 + i \in Nat
      OBVIOUS
    <2>2. Len(m) \in Nat
      BY <1>6, LenIsNat
    <2>3. /\ n - 1 \in Nat /\ 0 + 2 <= n - 1 /\ (2 + il) + 2 <= n - 1 /\ 2 <= n - 1
          /\ ((2 + il) + 2 + ul + 2) + 2 <= n - 1 /\ 2 + il \in Nat
      BY <1>2, <1>3, <1>6, <2>1, <2>2, Zenon
    <2> QED
      BY <1>1, <2>3, Zenon
  <1>8. 1 + 0 = 1
    OBVIOUS
  <1>9. FieldAt(m, 1, 0, a.id, il) /\ FieldAt(m, 1, 2 + il, a.url, ul)
    <2>1. At(m, 1 + 0, Str16(a.id)) /\ At(m, 1 + (2 + il), Str16(a.url))
      BY <1>6, <1>8, Zenon
    <2> QED
      BY <1>3, <2>1, Zenon DEF FieldAt, il, ul
  <1>10. Uint16(q, 0) = il
    BY <1>1, <1>6, <1>7, <1>9, FieldRead
  <1>11. U = 2 + il
    BY <1>10
  <1> HIDE DEF U
  <1>12. Uint16(q, 2 + il) = ul
    BY <1>1, <1>6, <1>7, <1>9, FieldRead
  <1>13. E = (2 + il) + 2 + ul + 2
    BY <1>11, <1>12
  <1> HIDE DEF E
  <1>14. fine
    BY <1>7, <1>11, <1>13
  <1> QED
    BY <1>4, <1>5, <1>14 DEF q

-----------------------------------------------------------------------------
\* What a write and a read leave in flight

LEMMA HasAppend ==
    ASSUME NEW p \in Pipe, NEW w \in Chunk, NEW v
    PROVE  /\ Has(Append(p, w), v) <=> Has(p, v) \/ v = w
           /\ Once(p, v) /\ (v = w => ~ Has(p, v)) => Once(Append(p, w), v)
  <1> DEFINE q == Append(p, w)
             n == Len(p)
  <1>1. n \in Nat /\ Len(q) = n + 1 /\ q[n + 1] = w /\ \A i \in 1 .. n : q[i] = p[i]
    BY PipeAppend
  <1> HIDE DEF q, n
  <1>2. n + 1 \in 1 .. n + 1 /\ \A i \in 1 .. n + 1 : i = n + 1 \/ i \in 1 .. n
    BY <1>1
  <1>3. \A i \in 1 .. n : i \in 1 .. n + 1
    BY <1>1
  <1>4. Has(q, v) <=> Has(p, v) \/ v = w
    BY <1>1, <1>2, <1>3, Zenon DEF Has, n
  <1>5. ASSUME Once(p, v), v = w => ~ Has(p, v) PROVE Once(q, v)
    BY <1>1, <1>2, <1>5, Zenon DEF Once, Has, n
  <1> QED
    BY <1>4, <1>5 DEF q

LEMMA BeforeAppend ==
    ASSUME NEW p \in Pipe, NEW w \in Chunk, NEW v, NEW u, Before(p, v, u), u # v,
           v = w => ~ Has(p, u)
    PROVE  Before(Append(p, w), v, u)
  <1> DEFINE q == Append(p, w)
             n == Len(p)
  <1>1. n \in Nat /\ Len(q) = n + 1 /\ q[n + 1] = w /\ \A i \in 1 .. n : q[i] = p[i]
    BY PipeAppend
  <1>2. \A i, j \in 1 .. n : p[i] = v /\ p[j] = u => i < j
    BY DEF Before
  <1>3. v = w => \A i \in 1 .. n : p[i] # u
    BY DEF Has
  <1> HIDE DEF q, n
  <1>4. ASSUME NEW i \in 1 .. n + 1, NEW j \in 1 .. n + 1, q[i] = v, q[j] = u PROVE i < j
    <2>1. CASE j = n + 1
      <3>1. i \in 1 .. n
        BY <1>1, <1>4, <2>1
      <3> QED
        BY <1>1, <2>1, <3>1
    <2>2. CASE j # n + 1
      <3>1. j \in 1 .. n /\ p[j] = u
        BY <1>1, <1>4, <2>2
      <3>2. i \in 1 .. n
        BY <1>1, <1>3, <1>4, <3>1
      <3> QED
        BY <1>1, <1>2, <1>4, <3>1, <3>2
    <2> QED
      BY <2>1, <2>2
  <1>5. Before(q, v, u)
    BY <1>1, <1>4 DEF Before
  <1> QED
    BY <1>5 DEF q

LEMMA HasDrop ==
    ASSUME NEW p \in Pipe, NEW q \in Pipe, Drops(q, p, 1), NEW v
    PROVE  /\ Has(q, v) => Has(p, v)
           /\ v # p[1] => (Has(p, v) <=> Has(q, v))
           /\ Once(p, v) => Once(q, v)
           /\ Once(p, v) /\ p[1] = v => ~ Has(q, v)
           /\ Has(p, p[1])
           /\ \A u : Before(p, v, u) => Before(q, v, u)
           /\ \A u : Before(p, v, u) /\ p[1] = u => ~ Has(p, v)
  <1> DEFINE n == Len(p)
             k == Len(q)
  <1>1. n \in Nat /\ k \in Nat /\ k = n - 1 /\ 1 \in 1 .. n /\ \A i \in 1 .. k : q[i] = p[1 + i]
    BY PipeFacts DEF Drops
  <1> HIDE DEF n, k
  <1>2. \A i \in 1 .. k : 1 + i \in 1 .. n /\ 1 + i # 1
    BY <1>1
  <1>3. \A i \in 1 .. n : i = 1 \/ (i - 1 \in 1 .. k /\ 1 + (i - 1) = i)
    BY <1>1
  <1>4. \A i, j \in 1 .. k : (1 + i = 1 + j => i = j) /\ (1 + i < 1 + j => i < j)
    BY <1>1
  <1>5. \A i \in 1 .. n : ~ (i < 1)
    BY <1>1
  <1>6. Has(q, v) => Has(p, v)
    BY <1>1, <1>2, Zenon DEF Has, n, k
  <1>7. ASSUME v # p[1], Has(p, v) PROVE Has(q, v)
    <2>1. PICK i \in 1 .. n : p[i] = v
      BY <1>7 DEF Has, n
    <2>2. i - 1 \in 1 .. k /\ 1 + (i - 1) = i
      BY <1>3, <1>7, <2>1
    <2>3. q[i - 1] = v
      BY <1>1, <2>1, <2>2
    <2> QED
      BY <2>2, <2>3 DEF Has, k
  <1>8. Once(p, v) => Once(q, v)
    BY <1>1, <1>2, <1>4, Zenon DEF Once, n, k
  <1>9. ASSUME Once(p, v), p[1] = v, Has(q, v) PROVE FALSE
    <2>1. PICK i \in 1 .. k : q[i] = v
      BY <1>9 DEF Has, k
    <2>2. p[1 + i] = v /\ 1 + i \in 1 .. n /\ 1 + i # 1
      BY <1>1, <1>2, <2>1
    <2> QED
      BY <1>1, <1>9, <2>2 DEF Once, n
  <1>10. Has(p, p[1])
    BY <1>1 DEF Has, n
  <1>11. \A u : Before(p, v, u) => Before(q, v, u)
    BY <1>1, <1>2, <1>4, Zenon DEF Before, n, k
  <1>12. \A u : Before(p, v, u) /\ p[1] = u => ~ Has(p, v)
    BY <1>1, <1>5, Zenon DEF Before, Has, n
  <1> QED
    BY <1>6, <1>7, <1>8, <1>9, <1>10, <1>11, <1>12

\* q holds of connection id what p holds of it.
SameOf(q, p, id) ==
    /\ Has(q, NewMsg(id)) <=> Has(p, NewMsg(id))
    /\ Has(q, CloseMsg(id)) <=> Has(p, CloseMsg(id))
    /\ Once(p, NewMsg(id)) => Once(q, NewMsg(id))
    /\ Before(p, NewMsg(id), CloseMsg(id)) => Before(q, NewMsg(id), CloseMsg(id))

LEMMA SameAppend ==
    ASSUME NEW p \in Pipe, NEW w \in Chunk, NEW id \in ConnID, w # NewMsg(id), w # CloseMsg(id)
    PROVE  SameOf(Append(p, w), p, id)
  <1>1. NewMsg(id) # CloseMsg(id)
    BY MessagesDiffer
  <1>2. Has(Append(p, w), NewMsg(id)) <=> Has(p, NewMsg(id))
    BY HasAppend
  <1>3. Has(Append(p, w), CloseMsg(id)) <=> Has(p, CloseMsg(id))
    BY HasAppend
  <1>4. Once(p, NewMsg(id)) => Once(Append(p, w), NewMsg(id))
    BY HasAppend
  <1>5. Before(p, NewMsg(id), CloseMsg(id)) => Before(Append(p, w), NewMsg(id), CloseMsg(id))
    BY <1>1, BeforeAppend
  <1> QED
    BY <1>2, <1>3, <1>4, <1>5 DEF SameOf

LEMMA SameDrop ==
    ASSUME NEW p \in Pipe, NEW q \in Pipe, Drops(q, p, 1), NEW id \in ConnID,
           p[1] # NewMsg(id), p[1] # CloseMsg(id)
    PROVE  SameOf(q, p, id)
  <1>1. Has(q, NewMsg(id)) <=> Has(p, NewMsg(id))
    BY HasDrop
  <1>2. Has(q, CloseMsg(id)) <=> Has(p, CloseMsg(id))
    BY HasDrop
  <1>3. Once(p, NewMsg(id)) => Once(q, NewMsg(id))
    BY HasDrop
  <1>4. Before(p, NewMsg(id), CloseMsg(id)) => Before(q, NewMsg(id), CloseMsg(id))
    BY HasDrop
  <1> QED
    BY <1>1, <1>2, <1>3, <1>4 DEF SameOf

\* A step keeps what holds of a connection it is not about.
LEMMA SettledKept ==
    ASSUME NEW id, Settled(id), s2c' = s2c \/ SameOf(s2c', s2c, id),
           Has(c2s', CloseMsg(id)) <=> Has(c2s, CloseMsg(id)),
           id \in ext' <=> id \in ext, id \in local' <=> id \in local,
           id \in lfwd' <=> id \in lfwd, id \in sfwd' <=> id \in sfwd,
           id \in used => id \in used'
    PROVE  Settled(id)'
  <1>1. SameOf(s2c', s2c, id)
    BY DEF SameOf
  <1> QED
    BY <1>1 DEF Settled, SameOf

\* Every write of q was in p, or is what the server may write.
ServerAdds(q, p, ids, what) ==
    \A i \in 1 .. Len(q) : FromServer(q[i], ids, what) \/ \E j \in 1 .. Len(p) : q[i] = p[j]
ClientAdds(q, p, ids, what) ==
    \A i \in 1 .. Len(q) : FromClient(q[i], ids, what) \/ \E j \in 1 .. Len(p) : q[i] = p[j]

LEMMA UnsplitKept ==
    ASSUME Unsplit, split' = {} => split = {},
           split' = {} => /\ used \subseteq used' /\ said \subseteq said' /\ ActsOnSent'
                          /\ s2c' = s2c \/ ServerAdds(s2c', s2c, used', said')
                          /\ c2s' = c2s \/ ClientAdds(c2s', c2s, used', said')
    PROVE  Unsplit'
  <1> SUFFICES ASSUME split' = {}
               PROVE  /\ \A i \in 1 .. Len(s2c') : FromServer(s2c'[i], used', said')
                      /\ \A i \in 1 .. Len(c2s') : FromClient(c2s'[i], used', said')
                      /\ ActsOnSent'
    BY DEF Unsplit
  <1>1. /\ \A i \in 1 .. Len(s2c) : FromServer(s2c[i], used, said)
        /\ \A i \in 1 .. Len(c2s) : FromClient(c2s[i], used, said)
    BY DEF Unsplit
  <1>2. \A w : /\ FromServer(w, used, said) => FromServer(w, used', said')
               /\ FromClient(w, used, said) => FromClient(w, used', said')
    BY DEF FromServer, FromClient
  <1>3. ServerAdds(s2c', s2c, used', said') /\ ClientAdds(c2s', c2s, used', said')
    BY DEF ServerAdds, ClientAdds
  <1>4. \A i \in 1 .. Len(s2c') : FromServer(s2c'[i], used', said')
    BY <1>1, <1>2, <1>3, Zenon DEF ServerAdds
  <1>5. \A i \in 1 .. Len(c2s') : FromClient(c2s'[i], used', said')
    BY <1>1, <1>2, <1>3, Zenon DEF ClientAdds
  <1> QED
    BY <1>4, <1>5

LEMMA AddsAppend ==
    ASSUME NEW p \in Pipe, NEW w \in Chunk, NEW ids, NEW what
    PROVE  /\ FromServer(w, ids, what) => ServerAdds(Append(p, w), p, ids, what)
           /\ FromClient(w, ids, what) => ClientAdds(Append(p, w), p, ids, what)
  <1> DEFINE q == Append(p, w)
             n == Len(p)
  <1>1. n \in Nat /\ Len(q) = n + 1 /\ q[n + 1] = w /\ \A i \in 1 .. n : q[i] = p[i]
    BY PipeAppend
  <1> HIDE DEF q, n
  <1>2. \A i \in 1 .. n + 1 : i = n + 1 \/ i \in 1 .. n
    BY <1>1
  <1>3. \A i \in 1 .. Len(q) : q[i] = w \/ \E j \in 1 .. n : q[i] = p[j]
    BY <1>1, <1>2, Zenon
  <1> QED
    BY <1>3, Zenon DEF ServerAdds, ClientAdds, q, n

LEMMA AddsDrop ==
    ASSUME NEW p \in Pipe, NEW q, NEW k, Drops(q, p, k), Len(q) \in Nat, NEW ids, NEW what
    PROVE  ServerAdds(q, p, ids, what) /\ ClientAdds(q, p, ids, what)
  <1>1. Len(p) \in Nat /\ k \in 1 .. Len(p) /\ Len(q) = Len(p) - k /\ \A i \in 1 .. Len(q) : q[i] = p[k + i]
    BY PipeFacts DEF Drops
  <1>2. \A i \in 1 .. Len(q) : k + i \in 1 .. Len(p)
    BY <1>1
  <1> QED
    BY <1>1, <1>2, Zenon DEF ServerAdds, ClientAdds

\* A read that splits nothing has the first write, and leaves writes.
LEMMA UnsplitRead ==
    ASSUME NEW dir, NEW p \in Pipe, p # <<>>, NEW n \in 1 .. InFlight(p), Read(dir, p, n), split' = {}
    PROVE  /\ split = {} /\ Len(p[1]) <= n
           /\ \A ids, what : /\ ServerAdds(AfterRead(p, n), p, ids, what)
                             /\ ClientAdds(AfterRead(p, n), p, ids, what)
  <1>1. split = {} /\ ~ EndsInside(p, n)
    BY DEF Read
  <1>2. Len(p[1]) <= n /\ \E k \in 1 .. Len(p) : Drops(AfterRead(p, n), p, k)
    BY <1>1, ReadsUnsplit
  <1>3. AfterRead(p, n) \in Pipe
    <2>1. n \in Nat
      BY FirstWrite
    <2> QED
      BY <2>1, AfterReadType
  <1>4. Len(AfterRead(p, n)) \in Nat
    BY <1>3, PipeFacts
  <1> QED
    BY <1>1, <1>2, <1>4, AddsDrop

\* Without a cut, a read is of one write.
LEMMA WholeRead ==
    ASSUME NEW dir, NEW p \in Pipe, p # <<>>, NEW n \in 1 .. InFlight(p), Read(dir, p, n),
           cuts \in 0 .. MaxCuts, cuts' = 0
    PROVE  /\ cuts = 0 /\ n = Len(p[1]) /\ AfterRead(p, n) \in Pipe
           /\ Drops(AfterRead(p, n), p, 1) /\ (split = {} => split' = {})
  <1>1. cuts \in Nat
    BY WireAssumption
  <1>2. n = Len(p[1]) /\ cuts = 0
    BY <1>1 DEF Read
  <1>3. ~ EndsInside(p, n)
    BY <1>2, WholeIsUnsplit
  <1>4. Drops(AfterRead(p, n), p, 1)
    BY <1>2, <1>3, ReadsUnsplit
  <1>5. AfterRead(p, n) \in Pipe
    <2>1. n \in Nat
      BY FirstWrite
    <2> QED
      BY <2>1, AfterReadType
  <1>6. split = {} => split' = {}
    BY <1>3 DEF Read
  <1> QED
    BY <1>2, <1>4, <1>5, <1>6

LEMMA AgreementKept ==
    ASSUME Agreement, cuts' = 0 => cuts = 0, cuts' = 0 /\ split = {} => split' = {},
           cuts' = 0 /\ split = {} => \A id \in ConnID : Settled(id) => Settled(id)'
    PROVE  Agreement'
  BY DEF Agreement

-----------------------------------------------------------------------------
\* Every step keeps it

LEMMA CInitHolds == ASSUME Init PROVE CInv
  <1>1. c2s = <<>> /\ s2c = <<>> /\ Len(c2s) = 0 /\ Len(s2c) = 0
    BY DEF Init
  <1>2. 1 .. 0 = {}
    OBVIOUS
  <1>3. /\ ext = {} /\ sfwd = {} /\ local = {} /\ lfwd = {} /\ acted = {} /\ phase = "start"
        /\ split = {}
    BY DEF Init
  <1>4. Unsplit
    BY <1>1, <1>2, <1>3 DEF Unsplit, ActsOnSent
  <1>5. CrashOnlyOnSplit
    BY <1>3 DEF CrashOnlyOnSplit
  <1>6. ASSUME NEW id \in ConnID PROVE Settled(id)
    BY <1>1, <1>2, <1>3 DEF Settled, Has, Once, Before
  <1>7. Agreement
    BY <1>3, <1>6 DEF Agreement
  <1> QED
    BY <1>4, <1>5, <1>7 DEF CInv

LEMMA PipesAre == ASSUME IInv PROVE c2s \in Pipe /\ s2c \in Pipe /\ cuts \in 0 .. MaxCuts
  BY DEF IInv, Types

\* The server writes what is about no connection.
LEMMA ServerAside ==
    ASSUME IInv, CInv, NEW w \in Chunk, Aside(w), s2c' = s2c \/ s2c' = Append(s2c, w),
           used \subseteq used', said \subseteq said', phase' = "crashed" => phase = "crashed",
           UNCHANGED <<c2s, ext, sfwd, local, lfwd, acted, split, cuts>>
    PROVE  CInv'
  <1>1. s2c \in Pipe
    BY PipesAre
  <1>2. Unsplit'
    <2>1. FromServer(w, used', said')
      BY DEF FromServer
    <2>2. s2c' = s2c \/ ServerAdds(s2c', s2c, used', said')
      BY <1>1, <2>1, AddsAppend
    <2>3. split = {} => ActsOnSent'
      BY DEF CInv, Unsplit, ActsOnSent
    <2> QED
      BY <2>2, <2>3, UnsplitKept DEF CInv
  <1>3. CrashOnlyOnSplit'
    BY DEF CInv, CrashOnlyOnSplit
  <1>4. ASSUME NEW id \in ConnID, Settled(id) PROVE Settled(id)'
    <2>1. w # NewMsg(id) /\ w # CloseMsg(id)
      BY AsideIsNot
    <2>2. s2c' = s2c \/ SameOf(s2c', s2c, id)
      BY <1>1, <2>1, SameAppend
    <2> QED
      BY <1>4, <2>2, SettledKept
  <1>5. Agreement'
    BY <1>4, AgreementKept DEF CInv
  <1> QED
    BY <1>2, <1>3, <1>5 DEF CInv

\* The client writes what closes no connection.
LEMMA ClientAside ==
    ASSUME IInv, CInv, NEW w \in Chunk, w[1] # MsgTypeCloseConn, c2s' = Append(c2s, w),
           phase' = phase,
           UNCHANGED <<s2c, ext, sfwd, local, lfwd, used, said, acted, split, cuts>>
    PROVE  CInv'
  <1>1. c2s \in Pipe
    BY PipesAre
  <1>2. Unsplit'
    <2>1. FromClient(w, used', said')
      BY DEF FromClient
    <2>2. ClientAdds(c2s', c2s, used', said')
      BY <1>1, <2>1, AddsAppend
    <2>3. split = {} => ActsOnSent'
      BY DEF CInv, Unsplit, ActsOnSent
    <2> QED
      BY <2>2, <2>3, UnsplitKept DEF CInv
  <1>3. CrashOnlyOnSplit'
    BY DEF CInv, CrashOnlyOnSplit
  <1>4. ASSUME NEW id \in ConnID, Settled(id) PROVE Settled(id)'
    <2>1. w # CloseMsg(id)
      BY AsideIsNot
    <2>2. Has(c2s', CloseMsg(id)) <=> Has(c2s, CloseMsg(id))
      BY <1>1, <2>1, HasAppend
    <2> QED
      BY <1>4, <2>2, SettledKept
  <1>5. Agreement'
    BY <1>4, AgreementKept DEF CInv
  <1> QED
    BY <1>2, <1>3, <1>5 DEF CInv

\* While the registration goes on, nothing in flight closes a connection.
LEMMA Registering ==
    ASSUME IInv, CInv, NEW w \in Chunk, Aside(w), s2c' = s2c \/ s2c' = Append(s2c, w),
           \A i \in 1 .. Len(c2s) : c2s[i][1] # MsgTypeCloseConn,
           split' = {} => \A i \in 1 .. Len(c2s') : c2s'[i][1] # MsgTypeCloseConn,
           split' = {} => split = {}, cuts' = 0 => cuts = 0, cuts' = 0 /\ split = {} => split' = {},
           phase' # "crashed",
           UNCHANGED <<ext, sfwd, local, lfwd, used, said, acted>>
    PROVE  CInv'
  <1>1. s2c \in Pipe
    BY PipesAre
  <1>2. Unsplit'
    <2>1. FromServer(w, used', said')
      BY DEF FromServer
    <2>2. s2c' = s2c \/ ServerAdds(s2c', s2c, used', said')
      BY <1>1, <2>1, AddsAppend
    <2>3. split' = {} => ClientAdds(c2s', c2s, used', said')
      BY DEF ClientAdds, FromClient
    <2>4. split' = {} => ActsOnSent'
      BY DEF CInv, Unsplit, ActsOnSent
    <2> QED
      BY <2>2, <2>3, <2>4, UnsplitKept DEF CInv
  <1>3. CrashOnlyOnSplit'
    BY DEF CrashOnlyOnSplit
  <1>4. ASSUME NEW id \in ConnID, Settled(id), cuts' = 0, split = {} PROVE Settled(id)'
    <2>1. w # NewMsg(id) /\ w # CloseMsg(id)
      BY AsideIsNot
    <2>2. s2c' = s2c \/ SameOf(s2c', s2c, id)
      BY <1>1, <2>1, SameAppend
    <2>3. ~ Has(c2s, CloseMsg(id)) /\ ~ Has(c2s', CloseMsg(id))
      BY <1>4, AsideIsNot DEF Has
    <2> QED
      BY <1>4, <2>2, <2>3, SettledKept
  <1>5. Agreement'
    BY <1>4, AgreementKept DEF CInv
  <1> QED
    BY <1>2, <1>3, <1>5 DEF CInv

LEMMA CSendRegister == ASSUME IInv, CInv, NEW r \in Request, SendRegister(r) PROVE CInv'
  <1> DEFINE t == <<StreamTypeControl>>
             m == RegMsg(r)
  <1>1. /\ phase = "start" /\ phase' = "waiting" /\ c2s' = <<t, m>>
        /\ UNCHANGED <<s2c, ext, sfwd, local, lfwd, used, said, acted, split, cuts>>
    BY DEF SendRegister, RegMsg, conns
  <1>2. c2s = <<>>
    BY <1>1, Served DEF IInv, Requests
  <1>3. m[1] # MsgTypeCloseConn /\ t[1] # MsgTypeCloseConn /\ t \in Chunk /\ Aside(t)
    BY Asides, SmallWrites DEF Aside
  <1> HIDE DEF t, m
  <1>4. \A i \in 1 .. Len(c2s') : c2s'[i][1] # MsgTypeCloseConn
    BY <1>1, <1>3
  <1>5. \A i \in 1 .. Len(c2s) : c2s[i][1] # MsgTypeCloseConn
    BY <1>2
  <1> QED
    BY <1>1, <1>3, <1>4, <1>5, Registering

LEMMA CStreamType == ASSUME IInv, CInv, StreamType PROVE CInv'
  <1> DEFINE t == <<StreamTypeControl>>
             m == RegMsg(sent)
  <1>1. /\ srv = "accept" /\ c2s # <<>> /\ c2s' = Tail(c2s) /\ phase' = phase
        /\ UNCHANGED <<s2c, ext, sfwd, local, lfwd, used, said, acted, split, cuts>>
    BY DEF StreamType, conns
  <1>2. c2s = <<t, m>> /\ phase = "waiting" /\ sent \in Request
    BY <1>1 DEF IInv, Requests
  <1>3. m[1] # MsgTypeCloseConn /\ t[1] # MsgTypeCloseConn /\ t \in Chunk /\ Aside(t)
    BY <1>2, Asides, SmallWrites DEF Aside
  <1> HIDE DEF t, m
  <1>4. c2s' = <<m>>
    BY <1>1, <1>2
  <1>5. \A i \in 1 .. Len(c2s') : c2s'[i][1] # MsgTypeCloseConn
    BY <1>3, <1>4
  <1>6. \A i \in 1 .. Len(c2s) : c2s[i][1] # MsgTypeCloseConn
    BY <1>2, <1>3
  <1> QED
    BY <1>1, <1>2, <1>3, <1>5, <1>6, Registering

\* The handler has read the request, whole or not, and stored or refused it.
LEMMA RequestTaken ==
    ASSUME IInv, CInv, srv = "typed", NEW n \in 1 .. InFlight(c2s), Read("c2s", c2s, n),
           c2s' = AfterRead(c2s, n), NEW w \in Chunk, Aside(w), s2c' = s2c \/ s2c' = Append(s2c, w),
           UNCHANGED <<phase, ext, sfwd, local, lfwd, used, said, acted>>
    PROVE  CInv'
  <1>1. phase = "waiting" /\ c2s = <<RegMsg(sent)>> /\ sent \in Request
    BY DEF IInv, Requests
  <1>2. RegMsg(sent)[1] # MsgTypeCloseConn
    BY <1>1, Asides
  <1>3. c2s \in Pipe /\ cuts \in 0 .. MaxCuts /\ c2s # <<>>
    BY <1>1, PipesAre
  <1>4. \A i \in 1 .. Len(c2s) : c2s[i][1] # MsgTypeCloseConn
    BY <1>1, <1>2
  <1>5. ASSUME split' = {} PROVE split = {} /\ \A i \in 1 .. Len(c2s') : c2s'[i][1] # MsgTypeCloseConn
    <2>1. split = {} /\ ClientAdds(c2s', c2s, {}, {})
      BY <1>3, <1>5, UnsplitRead
    <2> QED
      BY <1>4, <2>1, Zenon DEF ClientAdds, FromClient
  <1>6. cuts' = 0 => cuts = 0 /\ (split = {} => split' = {})
    BY <1>3, WholeRead
  <1> QED
    BY <1>1, <1>4, <1>5, <1>6, Registering

LEMMA CStore == ASSUME IInv, CInv, NEW n, Store(n) PROVE CInv'
  <1> DEFINE w == <<MsgTypeHeartbeatAck>>
  <1>1. w \in Chunk /\ Aside(w)
    BY SmallWrites, Asides
  <1> HIDE DEF w
  <1>2. /\ srv = "typed" /\ n \in 1 .. InFlight(c2s) /\ Read("c2s", c2s, n) /\ c2s' = AfterRead(c2s, n)
        /\ UNCHANGED <<s2c, phase, ext, sfwd, local, lfwd, used, said, acted>>
    BY DEF Store, conns
  <1> QED
    BY <1>1, <1>2, RequestTaken

LEMMA CRefuse == ASSUME IInv, CInv, NEW n, Refuse(n) PROVE CInv'
  <1> DEFINE m == Msg(c2s, n)
             p == ParsedRequest(m)
             id == IF p.res = "ok" THEN p.id ELSE <<>>
             w == Refused(id)
  <1>1. /\ srv = "typed" /\ n \in 1 .. InFlight(c2s) /\ Read("c2s", c2s, n) /\ c2s' = AfterRead(c2s, n)
        /\ UNCHANGED <<phase, ext, sfwd, local, lfwd, used, said, acted>>
    BY DEF Refuse, conns
  <1>2. s2c' = s2c \/ s2c' = Append(s2c, w)
    BY DEF Refuse, Refused
  <1>3. c2s = <<RegMsg(sent)>> /\ sent \in Request
    BY <1>1 DEF IInv, Requests
  <1>4. IsString(id)
    <2>1. p = Err \/ p = Stored(sent)
      BY <1>1, <1>3, RequestRead
    <2> HIDE DEF p
    <2>2. p = Err => id = <<>>
      BY ErrIsNotOk
    <2>3. p = Stored(sent) => id = sent.reg.id
      BY <1>3, StoredFacts
    <2> QED
      BY <1>3, <2>1, <2>2, <2>3, EmptyIsString, RequestFacts
  <1> HIDE DEF id
  <1>5. w \in Chunk /\ Aside(w)
    BY <1>4, RefusedWrite, Asides DEF Begins
  <1> HIDE DEF w
  <1> QED
    BY <1>1, <1>2, <1>5, RequestTaken

LEMMA CAck == ASSUME IInv, CInv, Ack PROVE CInv'
  <1> DEFINE w == Accepted(sent)
  <1>1. srv = "stored" /\ UNCHANGED <<c2s, phase, ext, sfwd, local, lfwd, used, said, acted, split, cuts>>
    BY DEF Ack, conns
  <1>2. sent \in Request /\ tunnel = Stored(sent)
    BY <1>1 DEF IInv, Requests, Tunnels
  <1>3. s2c' = Append(s2c, w)
    <2>1. tunnel.id = sent.reg.id
      BY <1>2, StoredFacts
    <2> QED
      BY <2>1 DEF Ack, Accepted
  <1>4. w \in Chunk /\ Aside(w)
    BY <1>2, AcceptedWrite, Asides DEF Begins
  <1> HIDE DEF w
  <1> QED
    BY <1>1, <1>3, <1>4, ServerAside

LEMMA CConfigUpdate == ASSUME IInv, CInv, ConfigUpdate PROVE CInv'
  <1> DEFINE w == SendConfigUpdate(Payload)
  <1>1. /\ s2c' = Append(s2c, w)
        /\ UNCHANGED <<c2s, phase, ext, sfwd, local, lfwd, used, said, acted, split, cuts>>
    BY DEF ConfigUpdate, conns, setup
  <1>2. w \in Chunk /\ Aside(w)
    BY SmallWrites, Asides
  <1> HIDE DEF w
  <1> QED
    BY <1>1, <1>2, ServerAside

LEMMA CExternalData == ASSUME IInv, CInv, NEW id \in ConnID, ExternalData(id) PROVE CInv'
  <1> DEFINE w == DataMsg(id)
  <1>1. /\ s2c' = Append(s2c, w) /\ said \subseteq said'
        /\ UNCHANGED <<c2s, phase, ext, sfwd, local, lfwd, used, acted, split, cuts>>
    BY DEF ExternalData, setup, DataMsg
  <1>2. w \in Chunk /\ Aside(w)
    BY ConnFacts, DataWrite, Asides DEF DataMsg
  <1> HIDE DEF w
  <1> QED
    BY <1>1, <1>2, ServerAside

\* The steps that leave the control stream and the connections alone.
LEMMA COther ==
    ASSUME IInv, CInv, AckEOF \/ (\E id \in ConnID : OpenStream(id)) \/ UNCHANGED vars
    PROVE  CInv'
  <1> DEFINE w == <<MsgTypeHeartbeatAck>>
  <1>1. w \in Chunk /\ Aside(w)
    BY SmallWrites, Asides
  <1> HIDE DEF w
  <1>2. CASE AckEOF
    <2>1. /\ phase' = "failed"
          /\ UNCHANGED <<c2s, s2c, ext, sfwd, local, lfwd, used, said, acted, split, cuts>>
      BY <1>2 DEF AckEOF, conns, control
    <2> QED
      BY <1>1, <2>1, ServerAside
  <1>3. ASSUME NEW id \in ConnID, OpenStream(id) PROVE CInv'
    <2>1. /\ used \subseteq used'
          /\ UNCHANGED <<c2s, s2c, phase, ext, sfwd, local, lfwd, said, acted, split, cuts>>
      BY <1>3 DEF OpenStream, control, setup
    <2> QED
      BY <1>1, <2>1, ServerAside
  <1>4. CASE UNCHANGED vars
    <2>1. UNCHANGED <<c2s, s2c, phase, ext, sfwd, local, lfwd, used, said, acted, split, cuts>>
      BY <1>4 DEF vars, control, conns, setup
    <2> QED
      BY <1>1, <2>1, ServerAside
  <1> QED
    BY <1>2, <1>3, <1>4

LEMMA CHeartbeat == ASSUME IInv, CInv, Heartbeat PROVE CInv'
  <1> DEFINE w == <<MsgTypeHeartbeat>>
  <1>1. /\ c2s' = Append(c2s, w)
        /\ UNCHANGED <<s2c, phase, ext, sfwd, local, lfwd, used, said, acted, split, cuts>>
    BY DEF Heartbeat, conns, setup
  <1>2. w \in Chunk /\ w[1] # MsgTypeCloseConn
    BY SmallWrites, Asides DEF Aside
  <1> HIDE DEF w
  <1> QED
    BY <1>1, <1>2, ClientAside

LEMMA CLocalData == ASSUME IInv, CInv, NEW id \in lfwd, LocalData(id) PROVE CInv'
  <1> DEFINE w == DataMsg(id)
  <1>1. /\ c2s' = Append(c2s, w)
        /\ UNCHANGED <<s2c, phase, ext, sfwd, local, lfwd, used, said, acted, split, cuts>>
    BY DEF LocalData, conns, setup, DataMsg
  <1>2. w \in Chunk /\ w[1] # MsgTypeCloseConn
    <2>1. id \in Seq(Byte)
      BY DEF IInv, Types
    <2> QED
      BY <2>1, DataWrite, Asides DEF DataMsg, Aside
  <1> HIDE DEF w
  <1> QED
    BY <1>1, <1>2, ClientAside

\* What holds of the connection a step is about, by the parts of Settled.
LEMMA SettledParts ==
    ASSUME NEW id, Settled(id)
    PROVE  /\ id \in ext /\ id \notin local => Has(s2c, NewMsg(id)) \/ Has(c2s, CloseMsg(id))
           /\ id \in local /\ id \notin ext => Has(s2c, CloseMsg(id))
           /\ Has(s2c, NewMsg(id)) /\ id \notin ext => Has(s2c, CloseMsg(id))
           /\ Has(c2s, CloseMsg(id)) => id \notin local /\ ~ Has(s2c, NewMsg(id))
           /\ id \in lfwd => ~ Has(s2c, NewMsg(id))
           /\ Has(s2c, CloseMsg(id)) => id \notin sfwd
           /\ id \notin used => /\ ~ Has(s2c, NewMsg(id)) /\ ~ Has(s2c, CloseMsg(id))
                                /\ ~ Has(c2s, CloseMsg(id)) /\ id \notin lfwd
           /\ Once(s2c, NewMsg(id)) /\ Before(s2c, NewMsg(id), CloseMsg(id))
  BY DEF Settled

LEMMA CExternalConn == ASSUME IInv, CInv, NEW id \in ConnID, ExternalConn(id) PROVE CInv'
  <1> DEFINE w == NewMsg(id)
  <1>1. /\ id \notin used /\ s2c' = Append(s2c, w) /\ said' = said \union {<<"newconn", id>>}
        /\ used' = used \union {id} /\ ext' = ext \union {id} /\ sfwd' = sfwd \union {id}
        /\ UNCHANGED <<c2s, phase, local, lfwd, acted, split, cuts>>
    BY DEF ExternalConn, setup, NewMsg
  <1>2. w \in Chunk
    BY NewMsgFacts
  <1>3. s2c \in Pipe /\ local \subseteq lfwd
    BY DEF IInv, Types
  <1>4. Unsplit'
    <2>1. FromServer(w, used', said')
      BY <1>1 DEF FromServer
    <2>2. ServerAdds(s2c', s2c, used', said')
      BY <1>1, <1>2, <1>3, <2>1, AddsAppend
    <2>3. split = {} => ActsOnSent'
      BY <1>1 DEF CInv, Unsplit, ActsOnSent
    <2> QED
      BY <1>1, <2>2, <2>3, UnsplitKept DEF CInv
  <1>5. CrashOnlyOnSplit'
    BY <1>1 DEF CInv, CrashOnlyOnSplit
  <1>6. ASSUME NEW i \in ConnID, Settled(i) PROVE Settled(i)'
    <2>1. CASE i = id
      <3>1. /\ ~ Has(s2c, NewMsg(id)) /\ ~ Has(s2c, CloseMsg(id)) /\ ~ Has(c2s, CloseMsg(id))
            /\ id \notin lfwd
            /\ Once(s2c, NewMsg(id)) /\ Before(s2c, NewMsg(id), CloseMsg(id))
        BY <1>1, <1>6, <2>1, SettledParts
      <3>2. NewMsg(id) # CloseMsg(id)
        BY MessagesDiffer
      <3>3. /\ Has(s2c', NewMsg(id)) /\ ~ Has(s2c', CloseMsg(id)) /\ Once(s2c', NewMsg(id))
            /\ Before(s2c', NewMsg(id), CloseMsg(id))
        BY <1>1, <1>2, <1>3, <3>1, <3>2, HasAppend, BeforeAppend
      <3> QED
        BY <1>1, <1>3, <2>1, <3>1, <3>3 DEF Settled
    <2>2. CASE i # id
      <3>1. w # NewMsg(i) /\ w # CloseMsg(i)
        BY <2>2, MessagesDiffer
      <3>2. SameOf(s2c', s2c, i)
        BY <1>1, <1>2, <1>3, <3>1, SameAppend
      <3> QED
        BY <1>1, <1>6, <2>2, <3>2, SettledKept
    <2> QED
      BY <2>1, <2>2
  <1>7. Agreement'
    BY <1>1, <1>6, AgreementKept DEF CInv
  <1> QED
    BY <1>4, <1>5, <1>7 DEF CInv

LEMMA CExternalEnds == ASSUME IInv, CInv, NEW id \in ConnID, ExternalEnds(id) PROVE CInv'
  <1> DEFINE w == CloseMsg(id)
  <1>1. /\ id \in sfwd /\ s2c' = Append(s2c, w) /\ said' = said \union {<<"close", id>>}
        /\ sfwd' = sfwd \ {id} /\ ext' = ext \ {id}
        /\ UNCHANGED <<c2s, phase, local, lfwd, used, acted, split, cuts>>
    BY DEF ExternalEnds, setup, CloseMsg
  <1>2. w \in Chunk
    BY ConnFacts, CloseMsgFacts
  <1>3. s2c \in Pipe /\ id \in used
    BY <1>1 DEF IInv, Types
  <1>4. Unsplit'
    <2>1. FromServer(w, used', said')
      BY <1>1, <1>3 DEF FromServer
    <2>2. ServerAdds(s2c', s2c, used', said')
      BY <1>1, <1>2, <1>3, <2>1, AddsAppend
    <2>3. split = {} => ActsOnSent'
      BY <1>1 DEF CInv, Unsplit, ActsOnSent
    <2> QED
      BY <1>1, <2>2, <2>3, UnsplitKept DEF CInv
  <1>5. CrashOnlyOnSplit'
    BY <1>1 DEF CInv, CrashOnlyOnSplit
  <1>6. ASSUME NEW i \in ConnID, Settled(i) PROVE Settled(i)'
    <2>1. CASE i = id
      <3>1. NewMsg(id) # CloseMsg(id)
        BY MessagesDiffer
      <3>2. /\ Has(s2c', NewMsg(id)) <=> Has(s2c, NewMsg(id))
            /\ Has(s2c', CloseMsg(id))
            /\ Once(s2c, NewMsg(id)) => Once(s2c', NewMsg(id))
        BY <1>1, <1>2, <1>3, <3>1, HasAppend
      <3>3. Before(s2c, NewMsg(id), CloseMsg(id)) => Before(s2c', NewMsg(id), CloseMsg(id))
        BY <1>1, <1>2, <1>3, <3>1, BeforeAppend
      <3> QED
        BY <1>1, <1>3, <1>6, <2>1, <3>2, <3>3 DEF Settled
    <2>2. CASE i # id
      <3>1. w # NewMsg(i) /\ w # CloseMsg(i)
        BY <2>2, MessagesDiffer
      <3>2. SameOf(s2c', s2c, i)
        BY <1>1, <1>2, <1>3, <3>1, SameAppend
      <3> QED
        BY <1>1, <1>6, <2>2, <3>2, SettledKept
    <2> QED
      BY <2>1, <2>2
  <1>7. Agreement'
    BY <1>1, <1>6, AgreementKept DEF CInv
  <1> QED
    BY <1>4, <1>5, <1>7 DEF CInv

LEMMA CLocalEnds == ASSUME IInv, CInv, NEW id \in lfwd, LocalEnds(id) PROVE CInv'
  <1> DEFINE w == CloseMsg(id)
  <1>1. /\ c2s' = Append(c2s, w) /\ said' = said \union {<<"close", id>>}
        /\ lfwd' = lfwd \ {id} /\ local' = local \ {id}
        /\ UNCHANGED <<s2c, phase, ext, sfwd, used, acted, split, cuts>>
    BY DEF LocalEnds, setup, CloseMsg
  <1>2. w \in Chunk
    <2>1. id \in Seq(Byte)
      BY DEF IInv, Types
    <2> QED
      BY <2>1, CloseMsgFacts
  <1>3. c2s \in Pipe
    BY DEF IInv, Types
  <1>4. Unsplit'
    <2>1. split = {} => id \in used
      BY DEF CInv, Unsplit, ActsOnSent
    <2>2. split = {} => FromClient(w, used', said')
      BY <1>1, <2>1 DEF FromClient
    <2>3. split = {} => ClientAdds(c2s', c2s, used', said')
      BY <1>1, <1>2, <1>3, <2>2, AddsAppend
    <2>4. split = {} => ActsOnSent'
      BY <1>1 DEF CInv, Unsplit, ActsOnSent
    <2> QED
      BY <1>1, <2>3, <2>4, UnsplitKept DEF CInv
  <1>5. CrashOnlyOnSplit'
    BY <1>1 DEF CInv, CrashOnlyOnSplit
  <1>6. ASSUME NEW i \in ConnID, Settled(i), split = {} PROVE Settled(i)'
    <2>1. CASE i = id
      <3>1. Has(c2s', CloseMsg(id)) /\ ~ Has(s2c, NewMsg(id)) /\ id \in used
        BY <1>1, <1>2, <1>3, <1>6, <2>1, HasAppend, SettledParts
      <3> QED
        BY <1>1, <1>6, <2>1, <3>1 DEF Settled
    <2>2. CASE i # id
      <3>1. id \in ConnID
        BY <1>6 DEF CInv, Unsplit, ActsOnSent, IInv, Types
      <3>2. w # CloseMsg(i)
        BY <2>2, <3>1, MessagesDiffer
      <3>3. Has(c2s', CloseMsg(i)) <=> Has(c2s, CloseMsg(i))
        BY <1>1, <1>2, <1>3, <3>2, HasAppend
      <3> QED
        BY <1>1, <1>6, <2>2, <3>3, SettledKept
    <2> QED
      BY <2>1, <2>2
  <1>7. Agreement'
    BY <1>1, <1>6, AgreementKept DEF CInv
  <1> QED
    BY <1>4, <1>5, <1>7 DEF CInv

LEMMA CServerRead == ASSUME IInv, CInv, NEW n, ServerRead(n) PROVE CInv'
  <1> DEFINE v == <<MsgTypeHeartbeatAck>>
             m == Msg(c2s, n)
             closes == m.type = MsgTypeCloseConn /\ m.payload \in ext
  <1>1. /\ c2s # <<>> /\ n \in 1 .. InFlight(c2s) /\ Read("c2s", c2s, n) /\ c2s' = AfterRead(c2s, n)
        /\ s2c' = s2c \/ s2c' = Append(s2c, v)
        /\ UNCHANGED <<phase, sfwd, local, lfwd, used, said>>
    BY DEF ServerRead, setup
  <1>2. /\ ext' = IF closes THEN ext \ {m.payload} ELSE ext
        /\ acted' = IF closes THEN acted \union {<<"close", m.payload>>} ELSE acted
    BY DEF ServerRead
  <1>3. /\ c2s \in Pipe /\ s2c \in Pipe /\ cuts \in 0 .. MaxCuts /\ ext \subseteq used
        /\ used \subseteq ConnID
    BY DEF IInv, Types
  <1>4. m.type = c2s[1][1] /\ 1 \in 1 .. Len(c2s)
    BY <1>1, <1>3, MsgRead, PipeFacts
  <1>5. v \in Chunk /\ Aside(v)
    BY SmallWrites, Asides
  <1> HIDE DEF m, v
  <1>6. ASSUME split = {}, closes
        PROVE  /\ m.payload \in ConnID /\ c2s[1] = CloseMsg(m.payload)
               /\ <<"close", m.payload>> \in said
    <2>1. FromClient(c2s[1], used, said)
      BY <1>4, <1>6 DEF CInv, Unsplit
    <2>2. PICK id \in used : c2s[1] = CloseMsg(id) /\ <<"close", id>> \in said
      BY <1>4, <1>6, <2>1 DEF FromClient
    <2>3. m.payload = id
      BY <1>1, <1>3, <1>6, <2>2, CloseRead DEF m
    <2> QED
      BY <1>3, <2>2, <2>3
  <1>7. split' = {} => split = {}
    BY <1>1, <1>3, UnsplitRead
  <1>8. Unsplit'
    <2>1. FromServer(v, used', said')
      BY <1>5 DEF FromServer
    <2>2. s2c' = s2c \/ ServerAdds(s2c', s2c, used', said')
      BY <1>1, <1>3, <1>5, <2>1, AddsAppend
    <2>3. split' = {} => ClientAdds(c2s', c2s, used', said')
      BY <1>1, <1>3, UnsplitRead
    <2>4. split = {} => ActsOnSent'
      <3> HIDE DEF closes
      <3> QED
        BY <1>1, <1>2, <1>6 DEF CInv, Unsplit, ActsOnSent
    <2> QED
      BY <1>1, <1>7, <2>2, <2>3, <2>4, UnsplitKept DEF CInv
  <1>9. CrashOnlyOnSplit'
    <2>1. split # {} => split' # {}
      BY <1>1 DEF Read
    <2> QED
      BY <1>1, <2>1 DEF CInv, CrashOnlyOnSplit
  <1>10. ASSUME cuts' = 0, split = {}, NEW i \in ConnID, Settled(i) PROVE Settled(i)'
    <2>1. Drops(c2s', c2s, 1) /\ n = Len(c2s[1]) /\ c2s' \in Pipe
      BY <1>1, <1>3, <1>10, WholeRead
    <2>2. s2c' = s2c \/ SameOf(s2c', s2c, i)
      <3>1. v # NewMsg(i) /\ v # CloseMsg(i)
        BY <1>5, AsideIsNot
      <3> QED
        BY <1>1, <1>3, <1>5, <3>1, SameAppend
    <2>3. CASE c2s[1] = CloseMsg(i)
      <3>1. m.payload = i /\ m.type = MsgTypeCloseConn
        BY <1>1, <1>3, <1>4, <2>1, <2>3, CloseRead, CloseMsgFacts, ConnFacts DEF m
      <3>2. i \notin ext'
        BY <1>2, <3>1
      <3>3. Has(c2s, CloseMsg(i))
        BY <1>3, <2>1, <2>3, HasDrop
      <3>4. i \notin local /\ ~ Has(s2c, NewMsg(i))
        BY <1>10, <3>3, SettledParts
      <3>5. Has(c2s', CloseMsg(i)) => Has(c2s, CloseMsg(i))
        BY <1>3, <2>1, HasDrop
      <3>6. SameOf(s2c', s2c, i)
        BY <2>2 DEF SameOf
      <3> QED
        BY <1>1, <1>10, <3>2, <3>4, <3>5, <3>6 DEF Settled, SameOf
    <2>4. CASE c2s[1] # CloseMsg(i)
      <3>1. closes => m.payload # i
        BY <1>6, <1>10, <2>4
      <3>2. i \in ext' <=> i \in ext
        <4> HIDE DEF closes
        <4> QED
          BY <1>2, <3>1
      <3>3. Has(c2s', CloseMsg(i)) <=> Has(c2s, CloseMsg(i))
        BY <1>3, <2>1, <2>4, HasDrop
      <3> QED
        BY <1>1, <1>10, <2>2, <3>2, <3>3, SettledKept
    <2> QED
      BY <2>3, <2>4
  <1>11. Agreement'
    <2>1. cuts' = 0 => cuts = 0 /\ (split = {} => split' = {})
      BY <1>1, <1>3, WholeRead
    <2> QED
      BY <1>10, <2>1, AgreementKept DEF CInv
  <1> QED
    BY <1>8, <1>9, <1>11 DEF CInv

LEMMA CReadAck == ASSUME IInv, CInv, NEW n, ReadAck(n) PROVE CInv'
  <1> DEFINE m == Msg(s2c, n)
             a == parseRegisterAck(m.payload)
  <1>1. /\ phase = "waiting" /\ s2c # <<>> /\ n \in 1 .. InFlight(s2c) /\ Read("s2c", s2c, n)
        /\ s2c' = AfterRead(s2c, n)
        /\ UNCHANGED <<c2s, ext, sfwd, local, lfwd, used, said, acted>>
    BY DEF ReadAck, conns
  <1>2. s2c \in Pipe /\ cuts \in 0 .. MaxCuts
    BY DEF IInv, Types
  <1>3. /\ sent \in Request
        /\ \/ s2c[1] = SendConfigUpdate(Payload)
           \/ s2c[1] = Accepted(sent)
           \/ \E id : IsString(id) /\ s2c[1] = Refused(id)
    BY <1>1, AnswerFirst
  <1>4. Aside(s2c[1])
    BY <1>3, Asides
  <1>5. Unsplit'
    <2>1. split' = {} => split = {} /\ ServerAdds(s2c', s2c, used', said')
      BY <1>1, <1>2, UnsplitRead
    <2>2. split = {} => ActsOnSent'
      BY <1>1 DEF CInv, Unsplit, ActsOnSent
    <2> QED
      BY <1>1, <2>1, <2>2, UnsplitKept DEF CInv
  <1>6. CrashOnlyOnSplit'
    <2> SUFFICES ASSUME phase' = "crashed", split' = {} PROVE FALSE
      BY DEF CrashOnlyOnSplit
    <2>1. m.type = MsgTypeRegisterAck /\ a = Panic
      BY DEF ReadAck
    <2>2. Len(s2c[1]) <= n
      BY <1>1, <1>2, UnsplitRead
    <2>3. m.type = s2c[1][1]
      BY <1>1, <1>2, MsgRead
    <2>4. CASE s2c[1] = SendConfigUpdate(Payload)
      BY <2>1, <2>3, <2>4, SmallWrites DEF MsgTypeRegisterAck, MsgTypeConfigUpdate
    <2>5. CASE s2c[1] = Accepted(sent)
      <3> DEFINE r == [id |-> sent.reg.id, url |-> PublicURL, port |-> 80, err |-> <<>>]
      <3>1. s2c[1] = sendRegisterAck(r)
        BY <2>5 DEF Accepted
      <3>2. r.id = sent.reg.id /\ r.url = PublicURL /\ r.port \in Nat /\ r.err = <<>>
        OBVIOUS
      <3> HIDE DEF r
      <3>3. IsString(r.id) /\ IsString(r.url) /\ IsString(r.err)
        BY <1>3, <3>2, RequestFacts, WireAssumption, EmptyIsString
      <3> QED
        BY <1>1, <1>2, <2>1, <2>2, <3>1, <3>2, <3>3, AckRead
    <2>6. ASSUME NEW id, IsString(id), s2c[1] = Refused(id) PROVE FALSE
      <3> DEFINE r == [id |-> id, url |-> <<>>, port |-> 0, err |-> Payload]
      <3>1. s2c[1] = sendRegisterAck(r)
        BY <2>6 DEF Refused
      <3>2. r.id = id /\ r.url = <<>> /\ r.port \in Nat /\ r.err = Payload
        OBVIOUS
      <3> HIDE DEF r
      <3>3. IsString(r.id) /\ IsString(r.url) /\ IsString(r.err)
        BY <2>6, <3>2, WireAssumption, EmptyIsString
      <3> QED
        BY <1>1, <1>2, <2>1, <2>2, <3>1, <3>2, <3>3, AckRead
    <2> QED
      BY <1>3, <2>4, <2>5, <2>6
  <1>7. ASSUME cuts' = 0, NEW i \in ConnID, Settled(i) PROVE Settled(i)'
    <2>1. Drops(s2c', s2c, 1) /\ s2c' \in Pipe
      BY <1>1, <1>2, <1>7, WholeRead
    <2>2. SameOf(s2c', s2c, i)
      BY <1>2, <1>4, <2>1, AsideIsNot, SameDrop
    <2> QED
      BY <1>1, <1>7, <2>2, SettledKept
  <1>8. Agreement'
    <2>1. cuts' = 0 => cuts = 0 /\ (split = {} => split' = {})
      BY <1>1, <1>2, WholeRead
    <2> QED
      BY <1>7, <2>1, AgreementKept DEF CInv
  <1> QED
    BY <1>5, <1>6, <1>8 DEF CInv

\* What the client reads first of a control stream that no read has split.
LEMMA FirstFromServer ==
    ASSUME IInv, CInv, split = {}, s2c # <<>>
    PROVE  /\ FromServer(s2c[1], used, said)
           /\ s2c[1][1] = MsgTypeNewConn =>
                \E id \in ConnID : s2c[1] = NewMsg(id) /\ id \in used /\ <<"newconn", id>> \in said
           /\ s2c[1][1] = MsgTypeCloseConn =>
                \E id \in ConnID : s2c[1] = CloseMsg(id) /\ <<"close", id>> \in said
           /\ s2c[1][1] # MsgTypeData
  <1>1. s2c \in Pipe /\ used \subseteq ConnID /\ 1 \in 1 .. Len(s2c)
    BY PipeFacts DEF IInv, Types
  <1>2. FromServer(s2c[1], used, said)
    BY <1>1 DEF CInv, Unsplit
  <1>3. \A id \in ConnID : NewMsg(id)[1] = MsgTypeNewConn /\ CloseMsg(id)[1] = MsgTypeCloseConn
    BY ConnFacts, NewMsgFacts, CloseMsgFacts
  <1>4. MsgTypeNewConn # MsgTypeCloseConn /\ MsgTypeNewConn # MsgTypeData /\ MsgTypeCloseConn # MsgTypeData
    BY DEF MsgTypeNewConn, MsgTypeCloseConn, MsgTypeData
  <1>5. CASE Aside(s2c[1])
    BY <1>2, <1>5 DEF Aside
  <1>6. ASSUME NEW id \in used, s2c[1] = NewMsg(id), <<"newconn", id>> \in said
        PROVE  /\ s2c[1][1] = MsgTypeNewConn
               /\ \E i \in ConnID : s2c[1] = NewMsg(i) /\ i \in used /\ <<"newconn", i>> \in said
    BY <1>1, <1>3, <1>6
  <1>7. ASSUME NEW id \in used, s2c[1] = CloseMsg(id), <<"close", id>> \in said
        PROVE  /\ s2c[1][1] = MsgTypeCloseConn
               /\ \E i \in ConnID : s2c[1] = CloseMsg(i) /\ <<"close", i>> \in said
    BY <1>1, <1>3, <1>7
  <1> QED
    BY <1>2, <1>4, <1>5, <1>6, <1>7 DEF FromServer

LEMMA CClientNewConn ==
    ASSUME IInv, CInv, NEW n, NEW dials \in BOOLEAN, ClientNewConn(n, dials) PROVE CInv'
  <1> DEFINE c == parseNewConn(Msg(s2c, n).payload)
  <1>1. /\ phase = "connected" /\ s2c # <<>> /\ n \in 1 .. InFlight(s2c) /\ Read("s2c", s2c, n)
        /\ Msg(s2c, n).type = MsgTypeNewConn /\ s2c' = AfterRead(s2c, n)
        /\ UNCHANGED <<ext, sfwd, used>>
    BY DEF ClientNewConn
  <1>2. \/ c = Panic /\ phase' = "crashed" /\ UNCHANGED <<c2s, local, lfwd, said, acted>>
        \/ /\ c # Panic /\ phase' = phase /\ acted' = acted \union {<<"newconn", c.id>>}
           /\ \/ /\ local' = local \union {c.id} /\ lfwd' = lfwd \union {c.id}
                 /\ UNCHANGED <<c2s, said>>
              \/ /\ c2s' = Append(c2s, CloseMsg(c.id)) /\ said' = said \union {<<"close", c.id>>}
                 /\ UNCHANGED <<local, lfwd>>
    <2>1. CASE dials
      BY <2>1 DEF ClientNewConn
    <2>2. CASE ~ dials
      BY <2>2 DEF ClientNewConn, CloseMsg
    <2> QED
      BY <2>1, <2>2
  <1>3. /\ s2c \in Pipe /\ c2s \in Pipe /\ cuts \in 0 .. MaxCuts /\ used \subseteq ConnID
        /\ local \subseteq lfwd /\ ext \subseteq sfwd
    BY DEF IInv, Types
  <1>4. s2c[1][1] = MsgTypeNewConn
    BY <1>1, <1>3, MsgRead
  <1>5. ASSUME split' = {}
        PROVE  /\ split = {} /\ c # Panic /\ c.id \in ConnID /\ c.id \in used
               /\ s2c[1] = NewMsg(c.id) /\ <<"newconn", c.id>> \in said
               /\ ServerAdds(s2c', s2c, used', said')
    <2>1. split = {} /\ Len(s2c[1]) <= n /\ ServerAdds(s2c', s2c, used', said')
      BY <1>1, <1>3, <1>5, UnsplitRead
    <2>2. PICK id \in ConnID : s2c[1] = NewMsg(id) /\ id \in used /\ <<"newconn", id>> \in said
      BY <1>1, <1>4, <2>1, FirstFromServer
    <2>3. c # Panic /\ c.id = id
      BY <1>1, <1>3, <2>1, <2>2, NewConnRead
    <2> QED
      BY <2>1, <2>2, <2>3
  <1> HIDE DEF c
  <1>6. CloseMsg(c.id) \in Chunk \/ split' # {}
    BY <1>5, ConnFacts, CloseMsgFacts
  <1>7. Unsplit'
    <2>1. split' = {} => said \subseteq said' /\ ActsOnSent'
      <3> SUFFICES ASSUME split' = {} PROVE said \subseteq said' /\ ActsOnSent'
        OBVIOUS
      <3>1. said \subseteq said'
        BY <1>2
      <3>2. /\ acted' \subseteq acted \union {<<"newconn", c.id>>}
            /\ lfwd' \subseteq lfwd \union {c.id} /\ used' = used
        BY <1>1, <1>2
      <3>3. /\ acted \subseteq said /\ <<"newconn", c.id>> \in said
            /\ lfwd \subseteq used /\ c.id \in used
        BY <1>5 DEF CInv, Unsplit, ActsOnSent
      <3> QED
        BY <3>1, <3>2, <3>3 DEF ActsOnSent
    <2>2. split' = {} => c2s' = c2s \/ ClientAdds(c2s', c2s, used', said')
      <3> SUFFICES ASSUME split' = {}, c2s' # c2s PROVE ClientAdds(c2s', c2s, used', said')
        OBVIOUS
      <3>1. c2s' = Append(c2s, CloseMsg(c.id)) /\ <<"close", c.id>> \in said' /\ c.id \in used'
        BY <1>1, <1>2, <1>5
      <3>2. FromClient(CloseMsg(c.id), used', said')
        BY <3>1 DEF FromClient
      <3> QED
        BY <1>3, <1>6, <3>1, <3>2, AddsAppend
    <2> QED
      BY <1>1, <1>5, <2>1, <2>2, UnsplitKept DEF CInv
  <1>8. CrashOnlyOnSplit'
    BY <1>1, <1>2, <1>5 DEF CrashOnlyOnSplit
  <1>9. ASSUME cuts' = 0, split = {}, NEW i \in ConnID, Settled(i) PROVE Settled(i)'
    <2>1. Drops(s2c', s2c, 1) /\ s2c' \in Pipe /\ split' = {}
      BY <1>1, <1>3, <1>9, WholeRead
    <2>2. /\ c # Panic /\ c.id \in ConnID /\ c.id \in used /\ s2c[1] = NewMsg(c.id)
          /\ CloseMsg(c.id) \in Chunk
      BY <1>5, <1>6, <2>1
    <2>3. NewMsg(i) # CloseMsg(i) /\ NewMsg(c.id) # CloseMsg(i)
      BY <2>2, MessagesDiffer
    <2>4. CASE i = c.id
      <3>1. Has(s2c, NewMsg(i)) /\ Once(s2c, NewMsg(i)) /\ Before(s2c, NewMsg(i), CloseMsg(i))
        BY <1>3, <1>9, <2>1, <2>2, <2>4, HasDrop, SettledParts
      <3>2. i \notin lfwd /\ i \notin local /\ ~ Has(c2s, CloseMsg(i))
        BY <1>3, <1>9, <3>1, SettledParts
      <3>3. /\ ~ Has(s2c', NewMsg(i)) /\ Once(s2c', NewMsg(i))
            /\ Before(s2c', NewMsg(i), CloseMsg(i))
        BY <1>3, <2>1, <2>2, <2>4, <3>1, HasDrop
      <3>4. Has(s2c', CloseMsg(i)) <=> Has(s2c, CloseMsg(i))
        BY <1>3, <2>1, <2>2, <2>3, HasDrop
      <3>5. i \notin ext => Has(s2c, CloseMsg(i))
        BY <1>9, <3>1, SettledParts
      <3>6. Has(s2c, CloseMsg(i)) => i \notin sfwd
        BY <1>9, SettledParts
      <3>7. CASE /\ local' = local \union {c.id} /\ lfwd' = lfwd \union {c.id}
                 /\ UNCHANGED <<c2s, said>>
        BY <1>1, <2>2, <2>4, <3>2, <3>3, <3>4, <3>5, <3>6, <3>7 DEF Settled
      <3>8. CASE /\ c2s' = Append(c2s, CloseMsg(c.id)) /\ UNCHANGED <<local, lfwd>>
        <4>1. Has(c2s', CloseMsg(i))
          BY <1>3, <2>2, <2>4, <3>8, HasAppend
        <4> QED
          BY <1>1, <2>2, <2>4, <3>2, <3>3, <3>4, <3>5, <3>6, <3>8, <4>1 DEF Settled
      <3> QED
        BY <1>2, <2>2, <3>7, <3>8
    <2>5. CASE i # c.id
      <3>1. s2c[1] # NewMsg(i) /\ s2c[1] # CloseMsg(i) /\ CloseMsg(c.id) # CloseMsg(i)
        BY <2>2, <2>3, <2>5, MessagesDiffer
      <3>2. SameOf(s2c', s2c, i)
        BY <1>3, <2>1, <3>1, SameDrop
      <3>3. Has(Append(c2s, CloseMsg(c.id)), CloseMsg(i)) <=> Has(c2s, CloseMsg(i))
        BY <1>3, <2>2, <3>1, HasAppend
      <3>4. Has(c2s', CloseMsg(i)) <=> Has(c2s, CloseMsg(i))
        BY <1>2, <2>2, <3>3
      <3>5. (i \in local' <=> i \in local) /\ (i \in lfwd' <=> i \in lfwd)
        BY <1>2, <2>2, <2>5
      <3> QED
        BY <1>1, <1>9, <3>2, <3>4, <3>5, SettledKept
    <2> QED
      BY <2>4, <2>5
  <1>10. Agreement'
    <2>1. cuts' = 0 => cuts = 0 /\ (split = {} => split' = {})
      BY <1>1, <1>3, WholeRead
    <2> QED
      BY <1>9, <2>1, AgreementKept DEF CInv
  <1> QED
    BY <1>7, <1>8, <1>10 DEF CInv

LEMMA CClientRead == ASSUME IInv, CInv, NEW n, ClientRead(n) PROVE CInv'
  <1> DEFINE v == <<MsgTypeConfigAck>>
             m == Msg(s2c, n)
             closes == m.type = MsgTypeCloseConn /\ m.payload \in local
             d == parseData(m.payload)
             writes == m.type = MsgTypeData /\ d.res = "ok" /\ d.id \in local
  <1>1. /\ s2c # <<>> /\ n \in 1 .. InFlight(s2c) /\ Read("s2c", s2c, n) /\ s2c' = AfterRead(s2c, n)
        /\ m.type # MsgTypeNewConn
        /\ c2s' = c2s \/ c2s' = Append(c2s, v)
        /\ UNCHANGED <<phase, ext, sfwd, lfwd, used, said>>
    BY DEF ClientRead, setup
  <1>2. /\ local' = IF closes THEN local \ {m.payload} ELSE local
        /\ acted' = acted \union (IF closes THEN {<<"close", m.payload>>} ELSE {})
                          \union (IF writes THEN {<<"data", d.id>>} ELSE {})
    BY DEF ClientRead
  <1>3. /\ s2c \in Pipe /\ c2s \in Pipe /\ cuts \in 0 .. MaxCuts /\ used \subseteq ConnID
        /\ local \subseteq lfwd /\ ext \subseteq sfwd
    BY DEF IInv, Types
  <1>4. m.type = s2c[1][1]
    BY <1>1, <1>3, MsgRead
  <1>5. v \in Chunk /\ v[1] # MsgTypeCloseConn
    BY SmallWrites, Asides DEF Aside
  <1>6. split = {} => ~ writes
    BY <1>1, <1>4, FirstFromServer
  <1> HIDE DEF m, v, d
  <1>7. ASSUME split = {}, closes
        PROVE  /\ m.payload \in ConnID /\ s2c[1] = CloseMsg(m.payload)
               /\ <<"close", m.payload>> \in said
    <2>1. PICK id \in ConnID : s2c[1] = CloseMsg(id) /\ <<"close", id>> \in said
      BY <1>1, <1>4, <1>7, FirstFromServer
    <2>2. m.payload \in ConnID
      BY <1>3, <1>7 DEF CInv, Unsplit, ActsOnSent
    <2>3. m.payload = id
      BY <1>1, <1>3, <2>1, <2>2, CloseRead DEF m
    <2> QED
      BY <2>1, <2>3
  <1>8. split' = {} => split = {} /\ ServerAdds(s2c', s2c, used', said')
    BY <1>1, <1>3, UnsplitRead
  <1>9. Unsplit'
    <2>1. FromClient(v, used', said')
      BY <1>5 DEF FromClient
    <2>2. c2s' = c2s \/ ClientAdds(c2s', c2s, used', said')
      BY <1>1, <1>3, <1>5, <2>1, AddsAppend
    <2>3. split = {} => ActsOnSent'
      <3> HIDE DEF closes, writes
      <3> SUFFICES ASSUME split = {} PROVE ActsOnSent'
        OBVIOUS
      <3>1. acted \subseteq said /\ lfwd \subseteq used /\ ~ writes
        BY <1>6 DEF CInv, Unsplit, ActsOnSent
      <3>2. acted' = acted \union (IF closes THEN {<<"close", m.payload>>} ELSE {})
        BY <1>2, <3>1
      <3>3. closes => <<"close", m.payload>> \in said
        BY <1>7
      <3>4. acted' \subseteq said
        BY <3>1, <3>2, <3>3, Zenon
      <3> QED
        BY <1>1, <3>1, <3>4 DEF ActsOnSent
    <2> QED
      BY <1>1, <1>8, <2>2, <2>3, UnsplitKept DEF CInv
  <1>10. CrashOnlyOnSplit'
    <2>1. split # {} => split' # {}
      BY <1>1 DEF Read
    <2> QED
      BY <1>1, <2>1 DEF CInv, CrashOnlyOnSplit
  <1>11. ASSUME cuts' = 0, split = {}, NEW i \in ConnID, Settled(i) PROVE Settled(i)'
    <2>1. Drops(s2c', s2c, 1) /\ n = Len(s2c[1]) /\ s2c' \in Pipe
      BY <1>1, <1>3, <1>11, WholeRead
    <2>2. Has(c2s', CloseMsg(i)) <=> Has(c2s, CloseMsg(i))
      <3>1. v # CloseMsg(i)
        BY <1>5, AsideIsNot
      <3>2. Has(Append(c2s, v), CloseMsg(i)) <=> Has(c2s, CloseMsg(i))
        BY <1>3, <1>5, <3>1, HasAppend
      <3> QED
        BY <1>1, <3>2
    <2>3. s2c[1] # NewMsg(i)
      BY <1>1, <1>4, NewMsgFacts
    <2>4. CASE s2c[1] = CloseMsg(i)
      <3>1. m.payload = i /\ m.type = MsgTypeCloseConn
        BY <1>1, <1>3, <1>4, <2>1, <2>4, CloseRead, CloseMsgFacts, ConnFacts DEF m
      <3>2. i \notin local'
        BY <1>2, <3>1
      <3>3. Has(s2c, CloseMsg(i)) /\ Before(s2c, NewMsg(i), CloseMsg(i)) /\ Once(s2c, NewMsg(i))
        BY <1>3, <1>11, <2>1, <2>4, HasDrop, SettledParts
      <3>4. ~ Has(s2c, NewMsg(i)) /\ Before(s2c', NewMsg(i), CloseMsg(i)) /\ Once(s2c', NewMsg(i))
        BY <1>3, <2>1, <2>4, <3>3, HasDrop
      <3>5. ~ Has(s2c', NewMsg(i)) /\ (Has(s2c', CloseMsg(i)) => Has(s2c, CloseMsg(i)))
        BY <1>3, <2>1, <3>4, HasDrop
      <3>6. i \notin sfwd /\ i \notin ext
        BY <1>3, <1>11, <3>3, SettledParts
      <3>7. i \notin used => ~ Has(c2s, CloseMsg(i)) /\ ~ Has(s2c, CloseMsg(i)) /\ i \notin lfwd
        BY <1>11, SettledParts
      <3> QED
        BY <1>1, <2>2, <3>2, <3>4, <3>5, <3>6, <3>7 DEF Settled
    <2>5. CASE s2c[1] # CloseMsg(i)
      <3>1. closes => m.payload # i
        BY <1>7, <1>11, <2>5
      <3>2. i \in local' <=> i \in local
        <4> HIDE DEF closes
        <4> QED
          BY <1>2, <3>1
      <3>3. SameOf(s2c', s2c, i)
        BY <1>3, <2>1, <2>3, <2>5, SameDrop
      <3> QED
        BY <1>1, <1>11, <2>2, <3>2, <3>3, SettledKept
    <2> QED
      BY <2>4, <2>5
  <1>12. Agreement'
    <2>1. cuts' = 0 => cuts = 0 /\ (split = {} => split' = {})
      BY <1>1, <1>3, WholeRead
    <2> QED
      BY <1>11, <2>1, AgreementKept DEF CInv
  <1> QED
    BY <1>9, <1>10, <1>12 DEF CInv

\* The control stream in bytes, for every ID, payload and number of reads: while no read has
\* ended inside a message neither side acts on what the other did not say and the client's
\* unchecked parsers run off the end of none, and while every read returned one message the
\* two sides agree on the open connections once nothing is in flight (both control loops,
\* readRegisterAck and handleNewConn).
THEOREM ControlStreamIsExact == Spec => []ControlStream
  <1>1. Init => CInv
    BY CInitHolds
  <1>2. IInv /\ CInv /\ [Next]_vars => CInv'
    <2> SUFFICES ASSUME IInv, CInv, [Next]_vars PROVE CInv'
      OBVIOUS
    <2>1. ASSUME NEW r \in Request, SendRegister(r) PROVE CInv'
      BY <2>1, CSendRegister
    <2>2. CASE StreamType
      BY <2>2, CStreamType
    <2>3. CASE Ack
      BY <2>3, CAck
    <2>4. CASE AckEOF
      BY <2>4, COther
    <2>5. CASE ConfigUpdate
      BY <2>5, CConfigUpdate
    <2>6. CASE Heartbeat
      BY <2>6, CHeartbeat
    <2>7. ASSUME NEW n \in 1 .. InFlight(c2s), Store(n) \/ Refuse(n) \/ ServerRead(n) PROVE CInv'
      BY <2>7, CStore, CRefuse, CServerRead
    <2>8. ASSUME NEW n \in 1 .. InFlight(s2c), ReadAck(n) \/ ClientRead(n) PROVE CInv'
      BY <2>8, CReadAck, CClientRead
    <2>9. ASSUME NEW n \in 1 .. InFlight(s2c), NEW dials \in BOOLEAN, ClientNewConn(n, dials) PROVE CInv'
      BY <2>9, CClientNewConn
    <2>10. ASSUME NEW id \in ConnID, ExternalConn(id) \/ ExternalData(id) \/ ExternalEnds(id) PROVE CInv'
      BY <2>10, CExternalConn, CExternalData, CExternalEnds
    <2>11. ASSUME NEW id \in ConnID, OpenStream(id) PROVE CInv'
      BY <2>11, COther
    <2>12. ASSUME NEW id \in lfwd, LocalData(id) \/ LocalEnds(id) PROVE CInv'
      BY <2>12, CLocalData, CLocalEnds
    <2>13. CASE UNCHANGED vars
      BY <2>13, COther
    <2> QED
      BY <2>1, <2>2, <2>3, <2>4, <2>5, <2>6, <2>7, <2>8, <2>9, <2>10, <2>11, <2>12, <2>13 DEF Next
  <1>3. IInv /\ CInv => ControlStream
    <2> SUFFICES ASSUME IInv, CInv PROVE ControlStream
      OBVIOUS
    <2>1. UnsplitActsOnSent /\ CrashOnlyOnSplit
      BY DEF CInv, Unsplit, UnsplitActsOnSent
    <2>2. ASSUME cuts = 0, c2s = <<>>, s2c = <<>> PROVE ext = local
      <3>1. split = {} /\ \A id \in ConnID : Settled(id)
        BY <2>2 DEF CInv, Agreement
      <3>2. ext \subseteq ConnID /\ local \subseteq ConnID
        BY <3>1 DEF CInv, Unsplit, ActsOnSent, IInv, Types
      <3>3. \A w : ~ Has(s2c, w) /\ ~ Has(c2s, w)
        <4>1. Len(s2c) = 0 /\ Len(c2s) = 0 /\ 1 .. 0 = {}
          BY <2>2
        <4> QED
          BY <4>1 DEF Has
      <3>4. \A id \in ConnID : id \in ext <=> id \in local
        BY <3>1, <3>3, SettledParts
      <3> QED
        BY <3>2, <3>4
    <2> QED
      BY <2>1, <2>2 DEF ControlStream, WholeReadsAgree
  <1> QED
    BY <1>1, <1>2, <1>3, InductiveInvariant, PTL DEF Spec

=============================================================================
