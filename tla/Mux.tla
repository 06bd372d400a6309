-------------------------------- MODULE Mux ---------------------------------
(***************************************************************************)
(* The multiplexing part of the forward package (forward/mux.go): many     *)
(* local connections over one shared connection, by a MuxConnManager, one  *)
(* connection by a BidirectionalMuxForwarder, or HTTP requests by an       *)
(* HTTPMuxForwarder.  A program uses one of the three on a connection.     *)
(*                                                                         *)
(* Every message goes through the encoder and the decoder of Codec, and a  *)
(* Read of the shared connection returns any number of the bytes sent: the *)
(* readers of this file take what one Read returns for one message.  The   *)
(* backpressure controllers of this file are private and nothing pauses    *)
(* them, so their checks never take effect.                                *)
(***************************************************************************)
EXTENDS Codec, FiniteSets

CONSTANTS
    ID,          \* connection and request IDs
    Handle,      \* local connections, each added once
    Data,        \* what one read of a local connection may return
    None,        \* no handle
    Uses,        \* the forwarders to be considered
    PairTypes,   \* the types of message that the peer of a pair sends
    MaxFrames,   \* bound on the data frames written and on those a manager is given
    MaxSent      \* bound on the frames the peer of a pair or of requests sends

\* The text format ends an ID at the first colon, and an ID with an address, or with
\* nothing, fits the 64 KiB buffer of EncodeNewConn and EncodeClose.
ASSUME MuxAssumption ==
    /\ IsFiniteSet(Handle) /\ Handle /= {} /\ None \notin Handle
    /\ ID /= {} /\ \A id \in ID : id \in Seq(Byte) /\ ~ Contains(id, Colon)
    /\ \A d \in Data : d \in Seq(Byte) /\ d /= <<>>
    /\ \A id \in ID, d \in Data \union {<<>>} : Len(id) + Len(d) + 10 <= 65536
    /\ Uses \subseteq {"manager", "pair", "http"}
    /\ MaxFrames \in Nat /\ MaxSent \in Nat

VARIABLES
    use,         \* "manager", "pair" or "http"
    mux,         \* the shared connection works
    out,         \* the frames written to it
    wrote,       \* the messages those frames stand for
    received,    \* number of frames the peer has sent
    inbox,       \* those of them not read yet, as writes of bytes
    told,        \* the messages they stand for
    cut,         \* a Read has ended inside a frame
    shifted,     \* and another Read has followed, with the rest of it
    crashed,     \* Decode has panicked
    entry,       \* connections: the handle stored for an ID, or None
    replaced,    \* handles that another was stored over
    active,      \* activeConns
    owner,       \* the ID a handle was added under
    local,       \* a handle's connection: "idle", "open", "eof", "reset", "closed"
    fwd,         \* its forwarder: "off", "top", "read", "end", "done"
    cancelled,   \* ctx of the manager or of the pair
    ranging,     \* IDs the Range of Close has still to visit
    why,         \* handles that had a reason of their own to be closed
    resets,      \* handles whose connection was reset
    reader,      \* the pair's reader of the shared connection
    took,        \* what its last Read made it do, the type and payload, or nothing
    ret,         \* the pair's call has returned
    req,         \* an HTTP request: "idle", "wait", "ok", "failed"
    result,      \* the payload a request returned
    pending,     \* requests the peer has still to answer
    late         \* two requests have waited at once, or one gave up

\* The handle of the pair.
PairHandle == CHOOSE h \in Handle : TRUE

wire == <<mux, out, wrote, received>>
reads == <<inbox, told, cut, shifted, crashed>>
table == <<entry, replaced, active, owner, local, fwd, why, resets>>
pair == <<reader, took, ret>>
http == <<req, result, pending, late>>
vars == <<use, wire, reads, table, cancelled, ranging, pair, http>>

\* A Write of one encoded message to the shared connection.
Write(m) ==
    /\ out' = Append(out, TextEncode(m))
    /\ wrote' = Append(wrote, m)

Room == Len(out) < MaxFrames

\* One Read of the shared connection: n of the bytes sent, taken for a message d.
Got(n) == TextDecode(SubSeq(FlattenSeq(inbox), 1, n))

Read(n, d) ==
    /\ n \in 1 .. InFlight(inbox)
    /\ inbox' = AfterRead(inbox, n)
    /\ cut' = (cut \/ EndsInside(inbox, n))
    /\ shifted' = (shifted \/ cut)
    /\ crashed' = (d = Panic)
    /\ UNCHANGED told

-----------------------------------------------------------------------------
\* MuxConnManager

\* What is stored under the ID is overwritten, whether or not it is in use.
AddConnection(h, id) ==
    /\ use = "manager" /\ local[h] = "idle"
    /\ entry' = [entry EXCEPT ![id] = h]
    /\ replaced' = replaced \union ({entry[id]} \ {None})
    /\ owner' = [owner EXCEPT ![h] = id]
    /\ active' = active + 1
    /\ local' = [local EXCEPT ![h] = "open"]
    /\ fwd' = [fwd EXCEPT ![h] = "top"]
    /\ UNCHANGED <<use, wire, reads, why, resets, cancelled, ranging, pair, http>>

\* LoadAndDelete, Close and the decrement, as RemoveConnection and the end of
\* a forwarder do them.
Forget(id) ==
    IF entry[id] = None THEN UNCHANGED <<entry, active, local>>
    ELSE /\ entry' = [entry EXCEPT ![id] = None]
         /\ active' = active - 1
         /\ local' = [local EXCEPT ![entry[id]] = "closed"]

RemoveConnection(id) ==
    /\ use = "manager" /\ entry[id] /= None
    /\ Forget(id)
    /\ why' = why \union {entry[id]}
    /\ UNCHANGED <<use, wire, reads, replaced, owner, fwd, resets, cancelled, ranging, pair, http>>

\* Mutant: a NEWCONN drops the connection stored under its ID.
HandleIncoming_NewConnDrops(m) ==
    /\ use = "manager" /\ received < MaxFrames
    /\ received' = received + 1
    /\ LET d == TextDecode(TextEncode(m))
       IN  IF d.type = "CLOSE"
           THEN Forget(d.id) /\ why' = why \union ({entry[d.id]} \ {None})
           ELSE IF d.type = "NEWCONN" THEN Forget(d.id) /\ why' = why
           ELSE UNCHANGED <<entry, active, local, why>>
    /\ UNCHANGED <<use, mux, out, wrote, reads, replaced, owner, fwd, resets,
                   cancelled, ranging, pair, http>>

\* HandleIncoming with one encoded message: DATA and RESPONSE are written to the
\* connection, CLOSE removes it.  A NEWCONN comes back to the caller.
HandleIncoming(m) ==
    /\ use = "manager" /\ received < MaxFrames
    /\ received' = received + 1
    /\ LET d == TextDecode(TextEncode(m))
       IN  IF d.type = "CLOSE"
           THEN Forget(d.id) /\ why' = why \union ({entry[d.id]} \ {None})
           ELSE UNCHANGED <<entry, active, local, why>>
    /\ UNCHANGED <<use, mux, out, wrote, reads, replaced, owner, fwd, resets,
                   cancelled, ranging, pair, http>>

CloseManager ==
    /\ use = "manager" /\ ~ cancelled
    /\ cancelled' = TRUE
    /\ ranging' = {id \in ID : entry[id] /= None}
    /\ UNCHANGED <<use, wire, reads, table, pair, http>>

\* Mutant: Close only cancels.
CloseVisit_NoClose(id) ==
    /\ id \in ranging
    /\ ranging' = ranging \ {id}
    /\ UNCHANGED <<use, wire, reads, table, cancelled, pair, http>>

\* The Range of Close: the connection is closed and stays in the map.
CloseVisit(id) ==
    /\ id \in ranging
    /\ ranging' = ranging \ {id}
    /\ IF entry[id] = None THEN UNCHANGED <<local, why>>
       ELSE /\ local' = [local EXCEPT ![entry[id]] = "closed"]
            /\ why' = why \union {entry[id]}
    /\ UNCHANGED <<use, wire, reads, entry, replaced, active, owner, fwd, resets, cancelled, pair, http>>

-----------------------------------------------------------------------------
\* ForwardMux, also the local half of the pair

FwdTop(h) ==
    /\ fwd[h] = "top"
    /\ fwd' = [fwd EXCEPT ![h] = IF cancelled THEN "end" ELSE "read"]
    /\ why' = IF cancelled THEN why \union {h} ELSE why
    /\ UNCHANGED <<use, wire, reads, entry, replaced, active, owner, local, resets, cancelled, ranging, pair, http>>

FwdData(h, data) ==
    /\ fwd[h] = "read" /\ local[h] = "open" /\ Room
    /\ IF mux THEN Write([type |-> "DATA", id |-> owner[h], data |-> data])
       ELSE UNCHANGED <<out, wrote>>
    /\ fwd' = [fwd EXCEPT ![h] = IF mux THEN "top" ELSE "end"]
    /\ why' = IF mux THEN why ELSE why \union {h}
    /\ UNCHANGED <<use, mux, received, reads, entry, replaced, active, owner, local, resets,
                   cancelled, ranging, pair, http>>

\* EOF or a closed connection: the peer is told.
FwdClosed(h) ==
    /\ fwd[h] = "read" /\ local[h] \in {"eof", "closed"}
    /\ IF mux THEN Write([type |-> "CLOSE", id |-> owner[h], data |-> <<>>])
       ELSE UNCHANGED <<out, wrote>>
    /\ fwd' = [fwd EXCEPT ![h] = "end"]
    /\ why' = why \union {h}
    /\ UNCHANGED <<use, mux, received, reads, entry, replaced, active, owner, local, resets,
                   cancelled, ranging, pair, http>>

\* IsClosedErr does not look inside the os.SyscallError that a read of a reset
\* connection returns, so the forwarder ends without a CLOSE.
FwdReset(h) ==
    /\ fwd[h] = "read" /\ local[h] = "reset"
    /\ fwd' = [fwd EXCEPT ![h] = "end"]
    /\ why' = why \union {h}
    /\ UNCHANGED <<use, wire, reads, entry, replaced, active, owner, local, resets, cancelled, ranging, pair, http>>

\* The goroutine of AddConnection once ForwardMux has returned.
FwdCleanup(h) ==
    /\ use = "manager" /\ fwd[h] = "end"
    /\ Forget(owner[h])
    /\ fwd' = [fwd EXCEPT ![h] = "done"]
    /\ UNCHANGED <<use, wire, reads, replaced, owner, why, resets, cancelled, ranging, pair, http>>

-----------------------------------------------------------------------------
\* BidirectionalMuxForwarder: one handle, a writer and a reader goroutine

\* The first result on errCh returns the call and cancels the context.
PairReturns(h) ==
    /\ use = "pair" /\ ~ ret
    /\ fwd[h] = "end" \/ reader = "done"
    /\ ret' = TRUE
    /\ cancelled' = TRUE
    /\ UNCHANGED <<use, wire, reads, table, ranging, reader, took, http>>

PairTop ==
    /\ reader = "top"
    /\ reader' = IF cancelled THEN "done" ELSE "read"
    /\ UNCHANGED <<use, wire, reads, table, cancelled, ranging, took, ret, http>>

\* A message of the shared connection, whatever its ID: DATA and RESPONSE with a
\* payload are written to the local connection, CLOSE closes it, and what does not
\* decode is dropped.
PairMessage(h, n) ==
    /\ reader = "read"
    /\ LET d == Got(n)
           payload == d.res = "ok" /\ d.type \in {"DATA", "RESPONSE"} /\ d.data /= <<>>
           close == d.res = "ok" /\ d.type = "CLOSE"
       IN  /\ Read(n, d)
           /\ local' = IF close THEN [local EXCEPT ![h] = "closed"] ELSE local
           /\ reader' = IF close \/ (payload /\ local[h] \in {"reset", "closed"})
                        THEN "done" ELSE "top"
           /\ took' = IF close \/ payload THEN {[type |-> d.type, data |-> d.data]} ELSE {}
    /\ UNCHANGED <<use, wire, entry, replaced, active, owner, fwd, why, resets,
                   cancelled, ranging, ret, http>>

PairMuxFails ==
    /\ reader = "read" /\ ~ mux
    /\ reader' = "done"
    /\ UNCHANGED <<use, wire, reads, table, cancelled, ranging, took, ret, http>>

-----------------------------------------------------------------------------
\* HTTPMuxForwarder

ForwardHTTP(id, data) ==
    /\ use = "http" /\ req[id] = "idle"
    /\ IF mux THEN Write([type |-> "REQUEST", id |-> id, data |-> data])
       ELSE UNCHANGED <<out, wrote>>
    /\ req' = [req EXCEPT ![id] = IF mux THEN "wait" ELSE "failed"]
    /\ pending' = IF mux THEN pending \union {id} ELSE pending
    /\ late' = (late \/ \E r \in ID : req[r] = "wait")
    /\ UNCHANGED <<use, mux, received, reads, table, cancelled, ranging, pair, result>>

\* Mutant: the ID of the response is not compared.
ReadResponse_NoID(id, n) ==
    /\ req[id] = "wait"
    /\ LET d == Got(n)
           own == d.res = "ok" /\ d.type = "RESPONSE"
       IN  /\ Read(n, d)
           /\ req' = [req EXCEPT ![id] = IF own THEN "ok" ELSE "failed"]
           /\ result' = [result EXCEPT ![id] = IF own THEN d.data ELSE @]
    /\ UNCHANGED <<use, wire, table, cancelled, ranging, pair, pending, late>>

\* Any waiting call reads what has come; what is not a response of its own fails it.
ReadResponse(id, n) ==
    /\ req[id] = "wait"
    /\ LET d == Got(n)
           own == d.res = "ok" /\ d.type = "RESPONSE" /\ d.id = id
       IN  /\ Read(n, d)
           /\ req' = [req EXCEPT ![id] = IF own THEN "ok" ELSE "failed"]
           /\ result' = [result EXCEPT ![id] = IF own THEN d.data ELSE @]
    /\ UNCHANGED <<use, wire, table, cancelled, ranging, pair, pending, late>>

\* The deadline passes, or the connection fails.
ResponseFails(id) ==
    /\ req[id] = "wait"
    /\ req' = [req EXCEPT ![id] = "failed"]
    /\ late' = TRUE
    /\ UNCHANGED <<use, wire, reads, table, cancelled, ranging, pair, result, pending>>

-----------------------------------------------------------------------------
\* The outside

\* The peer sends a message about the connection of the pair, or answers a request.
PeerSends(m) ==
    /\ mux /\ received < MaxSent
    /\ \/ use = "pair" /\ m.type \in PairTypes /\ m.id = owner[PairHandle]
       \/ use = "http" /\ m.type = "RESPONSE" /\ m.id \in pending
    /\ received' = received + 1
    /\ inbox' = Append(inbox, TextEncode(m))
    /\ told' = told \union {m}
    /\ pending' = pending \ {m.id}
    /\ UNCHANGED <<use, mux, out, wrote, cut, shifted, crashed, table, cancelled, ranging,
                   pair, req, result, late>>

LocalEnds(h, how) ==
    /\ local[h] = "open"
    /\ local' = [local EXCEPT ![h] = how]
    /\ resets' = IF how = "reset" THEN resets \union {h} ELSE resets
    /\ UNCHANGED <<use, wire, reads, entry, replaced, active, owner, fwd, why, cancelled, ranging, pair, http>>

MuxBreaks ==
    /\ mux
    /\ mux' = FALSE
    /\ UNCHANGED <<use, out, wrote, received, reads, table, cancelled, ranging, pair, http>>

-----------------------------------------------------------------------------

Init ==
    LET mine(h) == use = "pair" /\ h = PairHandle
    IN  /\ use \in Uses
        /\ mux = TRUE /\ out = <<>> /\ wrote = <<>> /\ received = 0
        /\ inbox = <<>> /\ told = {} /\ cut = FALSE /\ shifted = FALSE /\ crashed = FALSE
        /\ entry = [id \in ID |-> None] /\ replaced = {} /\ active = 0
        /\ owner = [h \in Handle |-> CHOOSE id \in ID : TRUE]
        /\ local = [h \in Handle |-> IF mine(h) THEN "open" ELSE "idle"]
        /\ fwd = [h \in Handle |-> IF mine(h) THEN "top" ELSE "off"]
        /\ why = {} /\ resets = {}
        /\ cancelled = FALSE /\ ranging = {}
        /\ reader = IF use = "pair" THEN "top" ELSE "off"
        /\ took = {} /\ ret = FALSE
        /\ req = [id \in ID |-> "idle"] /\ result = [id \in ID |-> None]
        /\ pending = {} /\ late = FALSE

\* What the peer may send over a connection.
Incoming == [type : {"DATA", "RESPONSE", "NEWCONN"}, id : ID, data : Data]
                \union [type : {"CLOSE"}, id : ID, data : {<<>>}]

Goroutine(h) == FwdTop(h) \/ FwdClosed(h) \/ FwdReset(h) \/ FwdCleanup(h)
Pair == PairReturns(PairHandle) \/ PairTop \/ PairMuxFails

Steps ==
    \/ \E h \in Handle : \/ Goroutine(h)
                         \/ \E id \in ID : AddConnection(h, id)
                         \/ \E d \in Data : FwdData(h, d)
                         \/ \E how \in {"eof", "reset"} : LocalEnds(h, how)
    \/ \E id \in ID : \/ RemoveConnection(id) \/ CloseVisit(id) \/ ResponseFails(id)
                      \/ \E d \in Data : ForwardHTTP(id, d)
                      \/ \E n \in 1 .. InFlight(inbox) : ReadResponse(id, n)
    \/ \E m \in Incoming : HandleIncoming(m) \/ PeerSends(m)
    \/ \E n \in 1 .. InFlight(inbox) : PairMessage(PairHandle, n)
    \/ CloseManager \/ MuxBreaks \/ Pair

Next == ~ crashed /\ Steps

Spec == Init /\ [][Next]_vars

\* A goroutine that can run does; nobody has to send or to end a connection, and what
\* was sent over a connection that broke may be lost.
FairSpec ==
    /\ Spec
    /\ \A h \in Handle : WF_vars(~ crashed /\ Goroutine(h))
    /\ \A id \in ID : WF_vars(CloseVisit(id))
    /\ WF_vars(~ crashed /\ (PairTop \/ PairMuxFails))
    /\ WF_vars(~ crashed /\ PairReturns(PairHandle))

-----------------------------------------------------------------------------
\* Properties

Ended(h) == fwd[h] \in {"end", "done"}

\* Types, and a stored handle is stored under its own ID.
TypeOK ==
    /\ use \in {"manager", "pair", "http"}
    /\ received \in 0 .. (IF use = "manager" THEN MaxFrames ELSE MaxSent)
    /\ entry \in [ID -> Handle \union {None}]
    /\ owner \in [Handle -> ID]
    /\ \A id \in ID : entry[id] /= None => owner[entry[id]] = id /\ fwd[entry[id]] \notin {"off", "done"}
    /\ local \in [Handle -> {"idle", "open", "eof", "reset", "closed"}]
    /\ fwd \in [Handle -> {"off", "top", "read", "end", "done"}]
    /\ reader \in {"off", "top", "read", "done"}
    /\ req \in [ID -> {"idle", "wait", "ok", "failed"}]

\* activeConns is the number of connections in the map, whoever removes them:
\* RemoveConnection, a CLOSE or a forwarder, in any order; every connection that
\* another was stored over stays counted for good (mux.go:828-861).
CountMatches == active = Cardinality({id \in ID : entry[id] /= None}) + Cardinality(replaced)

\* A connection is closed because it ended, was removed or the manager closed;
\* only where an ID is used again can the forwarder of the earlier connection
\* remove the later one (mux.go:848).
ClosedForAReason ==
    use = "manager" =>
        \A h \in Handle : local[h] = "closed" /\ h \notin why =>
            \E g \in Handle \ {h} : owner[g] = owner[h] /\ fwd[g] = "done"

\* A forwarder that ends over a working connection has told the peer, except
\* where the local connection was reset (mux.go:591).
SilentOnlyByReset ==
    \A h \in Handle : Ended(h) /\ mux /\ ~ cancelled =>
        \/ h \in resets
        \/ \E i \in DOMAIN wrote : wrote[i].type = "CLOSE" /\ wrote[i].id = owner[h]

\* What a frame decodes to is what was written, in the text and in the binary
\* format, colons, digits and newlines in the payload included, and a binary
\* frame cut short is refused (mux.go:160-255, 489-544).
FramesExact ==
    \A i \in DOMAIN wrote :
        LET b == BinaryEncode(wrote[i]).bytes
        IN  /\ TextDecode(out[i]) = Ok(wrote[i])
            /\ BinaryDecode(b) = Ok(wrote[i])
            /\ \A k \in 0 .. Len(b) - 1 : BinaryDecode(SubSeq(b, 1, k)) = Err

\* A request returns the response to it, or after a Read that ended inside a frame the
\* beginning of one, and over a working connection it fails only where requests
\* overlapped, an earlier one gave up or a response was cut (mux.go:963-1005).
OwnResponse ==
    \A id \in ID :
        LET own == {m \in told : m.type = "RESPONSE" /\ m.id = id}
        IN  /\ result[id] /= None /\ ~ cut => \E m \in own : m.data = result[id]
            /\ result[id] /= None /\ ~ shifted =>
                 result[id] = <<>> \/ \E m \in own : IsPrefix(result[id], m.data)
            /\ req[id] = "failed" /\ mux => late \/ cut

\* The pair writes and closes what the peer said, or after such a Read the beginning of
\* it (mux.go:733-763).
PairCopies ==
    \A f \in took :
        LET said == {m \in told : m.type = f.type}
        IN  /\ ~ cut => \E m \in said : m.data = f.data
            /\ ~ shifted => \E m \in said : IsPrefix(f.data, m.data)

\* What one Read of the shared connection is taken for: the message sent as long as no
\* frame is cut, its beginning in the Read that cuts the first one, and a length that
\* Decode cannot slice to only in what follows it (mux.go:527-534, 733, 985).
MuxReads == OwnResponse /\ PairCopies /\ (crashed => shifted)

\* After Close every forwarder ends and the map is empty, also with connections added
\* meanwhile, except the forwarder of a connection that was stored over: nobody closes
\* it, and it waits for its own end (mux.go:922).
CloseDrains ==
    use = "manager" /\ cancelled ~>
        /\ \A h \in Handle : fwd[h] \in {"off", "done"} \/ (h \in replaced /\ local[h] = "open")
        /\ \A id \in ID : entry[id] = None

\* ForwardBidirectionalMux returns once the local connection ends or the shared
\* one fails, and what it leaves running is blocked on a connection that still
\* works (mux.go:767).
PairEnds ==
    use = "pair" /\ (local[PairHandle] /= "open" \/ ~ mux) ~>
        \/ crashed
        \/ /\ ret
           /\ Ended(PairHandle) \/ local[PairHandle] = "open"
           /\ reader = "done" \/ mux

\* The table of MuxConnManager: counted exactly, emptied only for a reason, and
\* the peer is told (mux.go:828-927).
MuxTable == TypeOK /\ CountMatches /\ ClosedForAReason /\ SilentOnlyByReset

\* Closing the manager, or either end of a pair, ends the goroutines.
MuxEnds == CloseDrains /\ PairEnds

=============================================================================
