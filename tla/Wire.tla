-------------------------------- MODULE Wire --------------------------------
(***************************************************************************)
(* One tunnel connection as bytes: the control stream between a MuxClient  *)
(* and the MuxServer, from the registration to the messages about external *)
(* connections, and the data streams the server opens (quic/quic.go).      *)
(*                                                                         *)
(* A QUIC stream carries bytes and keeps no message boundaries, while both *)
(* control loops take whatever one Read returns for one message.  A read   *)
(* here returns any number of the bytes in flight, so that it may end      *)
(* inside a message or take several at once.                               *)
(***************************************************************************)
EXTENDS Codec, FiniteSets

CONSTANTS
    ConnID,         \* connection IDs, strings of one length
    Request,        \* what a client may send: reg (id, proto, addr, domain, token)
                    \* and whether it restores a session
    Remote,         \* the remote address of every external connection
    PublicURL,      \* the URL the server answers with
    Payload,        \* what an external or a local side sends
    MaxExtra,       \* bound on heartbeats, config updates and data messages
    MaxCuts         \* bound on reads that do not return exactly one write

\* Strings whose length two bytes hold.
IsString(s) == s \in Seq(Byte) /\ Len(s) < 65536

\* generateID makes sixteen hexadecimal digits: one byte holds the length of an ID.
ASSUME WireAssumption ==
    /\ \A id \in ConnID : IsString(id) /\ Len(id) < 256
    /\ \A a, b \in ConnID : Len(a) = Len(b)
    /\ \A r \in Request : /\ IsString(r.reg.id) /\ IsString(r.reg.addr) /\ r.reg.id /= <<>>
                         /\ IsString(r.reg.domain) /\ IsString(r.reg.token)
                         /\ r.reg.proto \in ProtocolTCP .. ProtocolHTTP3
                         /\ r.restore \in BOOLEAN
    /\ IsString(Remote) /\ IsString(PublicURL)
    /\ IsString(Payload) /\ Payload /= <<>>
    /\ MaxExtra \in Nat /\ MaxCuts \in Nat

VARIABLES
    c2s, s2c,   \* the control stream each way: the writes not read yet
    phase,      \* the client's: "start", "waiting", "connected", "failed", "crashed"
    sent,       \* the registration and whether it restores a session
    srv,        \* the handler's: "accept", "typed", "stored", "serving", "closed"
    tunnel,     \* the tunnel the handler serves, None before
    known,      \* the client's tunnelID and publicURL
    ext, sfwd,  \* ExternalConns and the forwardExternalToControl goroutines
    local, lfwd,\* localConns and the forwardLocalToControl goroutines
    used,       \* connection IDs given out
    extra,      \* heartbeats, config updates and data messages written
    said, acted,\* what was written about a connection, what a reader acted on
    split,      \* the directions in which a read has ended inside a write
    shifted,    \* a read has begun where such a read ended, or later
    cuts,       \* reads that did not take exactly one write
    streams     \* what the client took from each data stream

control == <<c2s, s2c, split, shifted, cuts>>
conns == <<ext, sfwd, local, lfwd, used, said, acted>>
setup == <<phase, sent, srv, tunnel, known>>
vars == <<control, conns, setup, extra, streams>>

None == [none |-> TRUE]

-----------------------------------------------------------------------------
\* Reading

\* One Read of n bytes and the message parseControlMessage makes of them.
Read(dir, pipe, n) ==
    /\ n = Len(pipe[1]) \/ cuts < MaxCuts
    /\ split' = IF EndsInside(pipe, n) THEN split \union {dir} ELSE split
    /\ shifted' = (shifted \/ dir \in split)
    /\ cuts' = IF n = Len(pipe[1]) THEN cuts ELSE cuts + 1

Msg(pipe, n) == LET b == SubSeq(FlattenSeq(pipe), 1, n) IN [type |-> b[1], payload |-> Tail(b)]

-----------------------------------------------------------------------------
\* Registration

\* connect and connect0RTT: the stream type, then register or restore.
SendRegister(r) ==
    /\ phase = "start"
    /\ phase' = "waiting"
    /\ sent' = r
    /\ c2s' = <<<<StreamTypeControl>>,
                IF r.restore THEN sendSessionRestore(r.reg) ELSE buildRegisterMessage(r.reg)>>
    /\ UNCHANGED <<s2c, split, shifted, cuts, conns, srv, tunnel, known, extra, streams>>

\* handleConnection reads the stream type with ReadFull.
StreamType ==
    /\ srv = "accept" /\ c2s /= <<>>
    /\ c2s[1] = <<StreamTypeControl>>
    /\ c2s' = Tail(c2s)
    /\ srv' = "typed"
    /\ UNCHANGED <<s2c, split, shifted, cuts, conns, phase, sent, tunnel, known, extra, streams>>

ParsedRequest(m) ==
    IF m.type = MsgTypeSessionRestore THEN parseSessionRestore(m.payload)
    ELSE parseRegisterPayload(m.payload)

Store(n) ==
    /\ srv = "typed" /\ c2s /= <<>>
    /\ n \in 1 .. InFlight(c2s)
    /\ LET p == ParsedRequest(Msg(c2s, n))
       IN p.res = "ok" /\ tunnel' = p
    /\ Read("c2s", c2s, n)
    /\ c2s' = AfterRead(c2s, n)
    /\ srv' = "stored"
    /\ UNCHANGED <<s2c, conns, phase, sent, known, extra, streams>>

Ack ==
    /\ srv = "stored"
    /\ srv' = "serving"
    /\ s2c' = Append(s2c, sendRegisterAck([id |-> tunnel.id, url |-> PublicURL, port |-> 80, err |-> <<>>]))
    /\ UNCHANGED <<c2s, split, shifted, cuts, conns, phase, sent, tunnel, known, extra, streams>>

\* The request does not parse, or the server refuses it (token, tunnel limit,
\* no port).  Only a restore that does not parse is left without an answer.
Refuse(n) ==
    /\ srv = "typed" /\ c2s /= <<>>
    /\ n \in 1 .. InFlight(c2s)
    /\ LET m == Msg(c2s, n)
           p == ParsedRequest(m)
           ack == sendRegisterAck([id |-> IF p.res = "ok" THEN p.id ELSE <<>>, url |-> <<>>,
                                   port |-> 0, err |-> Payload])
           silent == p = Err /\ m.type = MsgTypeSessionRestore
       IN s2c' = IF silent THEN s2c ELSE Append(s2c, ack)
    /\ Read("c2s", c2s, n)
    /\ c2s' = AfterRead(c2s, n)
    /\ srv' = "closed"
    /\ UNCHANGED <<conns, phase, sent, tunnel, known, extra, streams>>

\* readRegisterAck.  The state is stored before the error is looked at.
ReadAck(n) ==
    /\ phase = "waiting" /\ s2c /= <<>>
    /\ n \in 1 .. InFlight(s2c)
    /\ LET m == Msg(s2c, n)
           a == parseRegisterAck(m.payload)
       IN  IF m.type /= MsgTypeRegisterAck THEN phase' = "failed" /\ known' = known
           ELSE IF a = Panic THEN phase' = "crashed" /\ known' = known
           ELSE /\ known' = [id |-> a.id, url |-> a.url]
                /\ phase' = IF a.err = <<>> THEN "connected" ELSE "failed"
    /\ Read("s2c", s2c, n)
    /\ s2c' = AfterRead(s2c, n)
    /\ UNCHANGED <<c2s, conns, sent, srv, tunnel, extra, streams>>

\* The handler has returned and closed the stream.
AckEOF ==
    /\ phase = "waiting" /\ srv = "closed" /\ s2c = <<>>
    /\ phase' = "failed"
    /\ UNCHANGED <<control, conns, sent, srv, tunnel, known, extra, streams>>

-----------------------------------------------------------------------------
\* The server's side of a served tunnel

\* handleExternalConnection stores the connection and announces it.
ExternalConn(id) ==
    /\ srv = "serving" /\ tunnel.proto = ProtocolTCP
    /\ id \notin used
    /\ used' = used \union {id}
    /\ ext' = ext \union {id}
    /\ sfwd' = sfwd \union {id}
    /\ s2c' = Append(s2c, buildNewConnMessage(id, Remote))
    /\ said' = said \union {<<"newconn", id>>}
    /\ UNCHANGED <<c2s, split, shifted, cuts, local, lfwd, acted, setup, extra, streams>>

\* forwardExternalToControl: data in the text format, CLOSE when it ends.
\* The client's loop has no case for a text message.
ExternalData(id) ==
    /\ id \in sfwd \intersect ext /\ extra < MaxExtra
    /\ extra' = extra + 1
    /\ s2c' = Append(s2c, TextEncode([type |-> "DATA", id |-> id, data |-> Payload]))
    /\ said' = said \union {<<"data", id>>}
    /\ UNCHANGED <<c2s, split, shifted, cuts, ext, sfwd, local, lfwd, used, acted, setup, streams>>

\* Mutant: the client is not told.
ExternalEnds_Silent(id) ==
    /\ id \in sfwd
    /\ sfwd' = sfwd \ {id}
    /\ ext' = ext \ {id}
    /\ UNCHANGED <<control, local, lfwd, used, said, acted, setup, extra, streams>>

ExternalEnds(id) ==
    /\ id \in sfwd
    /\ sfwd' = sfwd \ {id}
    /\ ext' = ext \ {id}
    /\ s2c' = Append(s2c, BuildCloseConnMessage(id))
    /\ said' = said \union {<<"close", id>>}
    /\ UNCHANGED <<c2s, split, shifted, cuts, local, lfwd, used, acted, setup, extra, streams>>

\* A program may call this as soon as the tunnel is in the map.
ConfigUpdate ==
    /\ srv \in {"stored", "serving"} /\ extra < MaxExtra
    /\ extra' = extra + 1
    /\ s2c' = Append(s2c, SendConfigUpdate(Payload))
    /\ UNCHANGED <<c2s, split, shifted, cuts, conns, setup, streams>>

\* MuxServer.controlLoop: one read, one message.
ServerRead(n) ==
    /\ srv = "serving" /\ c2s /= <<>>
    /\ n \in 1 .. InFlight(c2s)
    /\ LET m == Msg(c2s, n)
           closes == m.type = MsgTypeCloseConn /\ m.payload \in ext
       IN  /\ ext' = IF closes THEN ext \ {m.payload} ELSE ext
           /\ acted' = IF closes THEN acted \union {<<"close", m.payload>>} ELSE acted
           /\ s2c' = IF m.type = MsgTypeHeartbeat THEN Append(s2c, <<MsgTypeHeartbeatAck>>) ELSE s2c
    /\ Read("c2s", c2s, n)
    /\ c2s' = AfterRead(c2s, n)
    /\ UNCHANGED <<sfwd, local, lfwd, used, said, setup, extra, streams>>

\* forwardQUICStream and handleTCPConnection: a data stream to the client.
\* Its handler there reads with ReadFull, so where the bytes are cut does not
\* matter.
OpenStream(id) ==
    /\ srv = "serving" /\ phase = "connected"
    /\ id \notin used
    /\ used' = used \union {id}
    /\ LET h == [proto |-> tunnel.proto, addrType |-> 0, target |-> tunnel.addr,
                 flags |-> 0, conn |-> id, stream |-> 0]
       IN streams' = [i \in DOMAIN streams \union {id} |->
                         IF i = id THEN handleQUICDataStream(EncodeSessionHeader(h) \o Payload)
                         ELSE streams[i]]
    /\ UNCHANGED <<control, ext, sfwd, local, lfwd, said, acted, setup, extra>>

-----------------------------------------------------------------------------
\* The client's side

\* handleNewConn dials the local service; without it the answer is a CLOSE.
ClientNewConn(n, dials) ==
    /\ phase = "connected" /\ s2c /= <<>>
    /\ n \in 1 .. InFlight(s2c)
    /\ Msg(s2c, n).type = MsgTypeNewConn
    /\ LET c == parseNewConn(Msg(s2c, n).payload)
       IN  IF c = Panic
           THEN phase' = "crashed" /\ UNCHANGED <<c2s, local, lfwd, said, acted>>
           ELSE /\ acted' = acted \union {<<"newconn", c.id>>}
                /\ local' = IF dials THEN local \union {c.id} ELSE local
                /\ lfwd' = IF dials THEN lfwd \union {c.id} ELSE lfwd
                /\ c2s' = IF dials THEN c2s ELSE Append(c2s, BuildCloseConnMessage(c.id))
                /\ said' = IF dials THEN said ELSE said \union {<<"close", c.id>>}
                /\ phase' = phase
    /\ Read("s2c", s2c, n)
    /\ s2c' = AfterRead(s2c, n)
    /\ UNCHANGED <<ext, sfwd, used, sent, srv, tunnel, known, extra, streams>>

\* The other messages of MuxClient.controlLoop.
ClientRead(n) ==
    /\ phase = "connected" /\ s2c /= <<>>
    /\ n \in 1 .. InFlight(s2c)
    /\ LET m == Msg(s2c, n)
           closes == m.type = MsgTypeCloseConn /\ m.payload \in local
           d == parseData(m.payload)
           writes == m.type = MsgTypeData /\ d.res = "ok" /\ d.id \in local
           configures == m.type = MsgTypeConfigUpdate /\ parseConfigUpdate(m.payload).res = "ok"
       IN  /\ m.type /= MsgTypeNewConn
           /\ local' = IF closes THEN local \ {m.payload} ELSE local
           /\ acted' = acted \union (IF closes THEN {<<"close", m.payload>>} ELSE {})
                             \union (IF writes THEN {<<"data", d.id>>} ELSE {})
           /\ c2s' = IF configures THEN Append(c2s, <<MsgTypeConfigAck>>) ELSE c2s
    /\ Read("s2c", s2c, n)
    /\ s2c' = AfterRead(s2c, n)
    /\ UNCHANGED <<ext, sfwd, lfwd, used, said, setup, extra, streams>>

Heartbeat ==
    /\ phase = "connected" /\ extra < MaxExtra
    /\ extra' = extra + 1
    /\ c2s' = Append(c2s, <<MsgTypeHeartbeat>>)
    /\ UNCHANGED <<s2c, split, shifted, cuts, conns, setup, streams>>

\* forwardLocalToControl, whose data the server's loop has no case for.
LocalData(id) ==
    /\ phase = "connected" /\ id \in lfwd \intersect local /\ extra < MaxExtra
    /\ extra' = extra + 1
    /\ c2s' = Append(c2s, TextEncode([type |-> "DATA", id |-> id, data |-> Payload]))
    /\ UNCHANGED <<s2c, split, shifted, cuts, conns, setup, streams>>

LocalEnds(id) ==
    /\ phase = "connected" /\ id \in lfwd
    /\ lfwd' = lfwd \ {id}
    /\ local' = local \ {id}
    /\ c2s' = Append(c2s, BuildCloseConnMessage(id))
    /\ said' = said \union {<<"close", id>>}
    /\ UNCHANGED <<s2c, split, shifted, cuts, ext, sfwd, used, acted, setup, extra, streams>>

-----------------------------------------------------------------------------

Init ==
    /\ c2s = <<>> /\ s2c = <<>>
    /\ split = {} /\ shifted = FALSE /\ cuts = 0
    /\ phase = "start" /\ srv = "accept"
    /\ sent = None /\ tunnel = None
    /\ known = [id |-> <<>>, url |-> <<>>]
    /\ ext = {} /\ sfwd = {} /\ local = {} /\ lfwd = {}
    /\ used = {} /\ said = {} /\ acted = {}
    /\ extra = 0
    /\ streams = <<>>

Next ==
    \/ \E r \in Request : SendRegister(r)
    \/ StreamType \/ Ack \/ AckEOF \/ ConfigUpdate \/ Heartbeat
    \/ \E n \in 1 .. InFlight(c2s) : Store(n) \/ Refuse(n) \/ ServerRead(n)
    \/ \E n \in 1 .. InFlight(s2c) :
          ReadAck(n) \/ ClientRead(n) \/ \E dials \in BOOLEAN : ClientNewConn(n, dials)
    \/ \E id \in ConnID : \/ ExternalConn(id) \/ ExternalData(id) \/ ExternalEnds(id)
                          \/ OpenStream(id)
    \/ \E id \in lfwd : LocalData(id) \/ LocalEnds(id)

Spec == Init /\ [][Next]_vars

-----------------------------------------------------------------------------
\* Properties

IsPipe(p) == \A i \in DOMAIN p : p[i] /= <<>> /\ ToSet(p[i]) \subseteq Byte

\* Both pipes hold bytes, and the connections the server keeps are ones it gave an
\* ID to (quic.go:486).
TypeOK ==
    /\ IsPipe(c2s) /\ IsPipe(s2c)
    /\ phase \in {"start", "waiting", "connected", "failed", "crashed"}
    /\ srv \in {"accept", "typed", "stored", "serving", "closed"}
    /\ ext \subseteq sfwd /\ sfwd \subseteq used /\ used \subseteq ConnID
    /\ local \subseteq lfwd
    /\ extra \in 0 .. MaxExtra /\ cuts \in 0 .. MaxCuts
    /\ DOMAIN streams \subseteq ConnID

\* A request cut short by the read is refused, never stored as a shorter
\* registration: the tunnel has the fields the client sent
\* (parseRegisterPayload, quic.go:3844, and handleSessionRestore).
RegistersWhatWasSent ==
    tunnel /= None =>
        /\ \A f \in {"id", "proto", "addr"} : tunnel[f] = sent.reg[f]
        /\ ~ sent.restore => tunnel.domain = sent.reg.domain /\ tunnel.token = sent.reg.token

\* A client that believes itself connected has the server's tunnel ID and URL
\* in full, however the acknowledgement was cut, and even with a config
\* update written around it (readRegisterAck, quic.go:2936).
ConnectedKnowsTunnel ==
    phase = "connected" =>
        srv = "serving" /\ known = [id |-> tunnel.id, url |-> PublicURL]

\* Neither side opens or closes a connection that no message named (controlLoop,
\* quic.go:1077 and 3081), and the connections the client keeps are ones the server
\* gave an ID to (quic.go:2474).
ActsOnSent == acted \subseteq said /\ lfwd \subseteq used

\* A read that ends inside a message does no harm itself: the part of a NEWCONN
\* or of a CLOSE that it returns names the connection in full or is not acted on,
\* by the panic of parseNewConn (quic.go:3143) or because no connection has the ID.
\* The read after it begins inside that message, takes its first byte for a type,
\* and may then open or close what nobody named, since payloads go into the
\* messages as they are (quic.go:1941).
FirstCutHarmless == ~ shifted => ActsOnSent

\* No read has ended inside a message, in either direction.
UnsplitActsOnSent == split = {} => ActsOnSent

\* As long as every read returned one message, the two sides agree on the open
\* connections once nothing is in flight (NEWCONN and CLOSE both ways).
WholeReadsAgree ==
    cuts = 0 /\ c2s = <<>> /\ s2c = <<>> /\ phase = "connected" => ext = local

\* The client's unchecked parsers (quic.go:2961, 3144) only run off the end of
\* a message that a read cut.
CrashOnlyOnSplit == phase = "crashed" => split /= {}

\* The client takes from a data stream the connection, the target and the
\* payload the server put there (Encode, quic.go:156; handleQUICDataStream).
StreamReachesItsConn ==
    \A id \in DOMAIN streams :
        streams[id] = Ok([target |-> tunnel.addr, conn |-> id, rest |-> Payload])

\* A stream number whose bytes are not all alike.
MappedStream == 65793

\* A session header of any protocol, with or without the stream mapping, is
\* decoded to itself, and no part of one is taken for a whole one
\* (DecodeSessionHeader, quic.go:226); both sides still read the legacy header.
HeaderDecodes ==
    srv = "stored" =>
        \A proto \in ProtocolTCP .. ProtocolHTTP3, flags \in {0, 1, 4, 5} :
            LET h == [proto |-> proto, addrType |-> detectAddrType(tunnel.addr),
                      target |-> tunnel.addr, flags |-> flags, conn |-> tunnel.id,
                      stream |-> IF HasFrameMap(proto, flags) THEN MappedStream ELSE 0]
                d == EncodeSessionHeader([h EXCEPT !.addrType = 0])
            IN  /\ DecodeSessionHeader(d) = Ok(h)
                /\ \A k \in 0 .. Len(d) - 1 : DecodeSessionHeader(SubSeq(d, 1, k)) = Err
                /\ \A id \in ConnID :
                      LET s == Str16(id) \o Payload
                      IN  /\ handleDataStream(s) = handleQUICDataStream(s)
                          /\ handleDataStream(s) = Ok([target |-> <<>>, conn |-> id, rest |-> Payload])

\* Registration and its acknowledgement, in bytes and however they are read: the
\* two sides agree on the tunnel, or the client does not take itself for connected.
Registration == TypeOK /\ RegistersWhatWasSent /\ ConnectedKnowsTunnel

\* Messages about connections, written by both sides and joined by reads: as long as
\* none is cut nobody acts on what was not said, nobody runs off the end of a
\* message, and while reads are whole the two sides agree.
ControlStream == UnsplitActsOnSent /\ WholeReadsAgree /\ CrashOnlyOnSplit

\* Data streams: the header a side writes is the one the other reads, and the
\* payload behind it reaches the connection it is for.
DataStreams == StreamReachesItsConn /\ HeaderDecodes

=============================================================================
