----------------------------- MODULE ServerConns -----------------------------
(****************************************************************************)
(* The external connections of one tunnel (quic/quic.go): accepting, storing *)
(* and counting them, forwarding their data, and the four parties that may   *)
(* close one: its forwarders, the client (CLOSE message), closeTunnel and    *)
(* cleanupIdleStreams.                                                       *)
(*                                                                           *)
(* A "tcp" connection comes from the tunnel's own listener and is forwarded  *)
(* through the control stream by forwardExternalToControl; the client may    *)
(* also open a data stream for it.  A "domain" connection comes from the     *)
(* shared TCP+TLS port and is forwarded by forwardBidirectional over a data  *)
(* stream the server opens.                                                  *)
(****************************************************************************)
EXTENDS Integers, FiniteSets

CONSTANTS
    Conn,       \* external connections
    Kind,       \* Kind[x]: "tcp" or "domain"
    MaxConns,   \* the limit of connLimiter
    Nil

ASSUME ConnAssumption ==
    /\ Kind \in [Conn -> {"tcp", "domain"}]
    /\ MaxConns \in Nat
    /\ Nil \notin Conn

VARIABLES
    pc,             \* pc[x]: the handler of x, and forwardExternalToControl
    pipe,           \* pipe[x]: the forwardBidirectional of x
    in, out,        \* in[x], out[x]: its goroutines External -> Stream, Stream -> External
    sock,           \* sock[x]: the server has not closed x
    peer,           \* peer[x]: the external side has not closed x
    stream,         \* stream[x]: x's data stream can still be read from
    ExternalConns,  \* Tunnel.ExternalConns
    streamActivity, \* Tunnel.streamActivity
    counted,        \* counted[x]: what x has added to activeConns so far
    slots,          \* connLimiter.current
    sweep,          \* the connection cleanupIdleStreams is closing, or Nil
    closing,        \* where closeTunnel is
    toVisit         \* what its Range over ExternalConns has still to visit

fwdVars  == <<pipe, in, out, streamActivity>>
netVars  == <<peer, stream>>
mapVars  == <<ExternalConns, counted>>
tearVars == <<sweep, closing, toVisit>>
vars == <<pc, fwdVars, sock, netVars, mapVars, slots, tearVars>>

Init ==
    /\ pc = [x \in Conn |-> "idle"]
    /\ pipe = [x \in Conn |-> "none"]
    /\ in = [x \in Conn |-> "top"] /\ out = [x \in Conn |-> "top"]
    /\ sock = [x \in Conn |-> TRUE]
    /\ peer = [x \in Conn |-> TRUE]
    /\ stream = [x \in Conn |-> TRUE]
    /\ ExternalConns = {} /\ streamActivity = {}
    /\ counted = [x \in Conn |-> 0]
    /\ slots = 0
    /\ sweep = Nil
    /\ closing = "no"
    /\ toVisit = {}

----------------------------------------------------------------------------
\* tunnel.ctx is done; the tunnel's QUIC connection is closed.
Cancelled  == closing # "no"
ConnClosed == closing \in {"ranging", "done"}

Goto(x, l) == pc' = [pc EXCEPT ![x] = l]
CloseSock(x) == sock' = [sock EXCEPT ![x] = FALSE]

\* ExternalConns.Delete and activeConns.Add(-1), found or not.
Forget(x) ==
    /\ ExternalConns' = ExternalConns \ {x}
    /\ counted' = [counted EXCEPT ![x] = @ - 1]

\* ExternalConns.LoadAndDelete, and activeConns.Add(-1) if it was loaded.
LoadAndForget(x) ==
    /\ ExternalConns' = ExternalConns \ {x}
    /\ counted' = IF x \in ExternalConns THEN [counted EXCEPT ![x] = @ - 1] ELSE counted

\* A Read on the external connection, resp. on the data stream, fails.
ExtReadFails(x)    == ~sock[x] \/ ~peer[x]
StreamReadFails(x) == ~stream[x] \/ ConnClosed

----------------------------------------------------------------------------
(* handleExternalConnection and handleTCPConnection *)

\* A domain connection with a bad header, or for a domain without a tunnel.
RefuseDomain(x) ==
    /\ pc[x] = "idle" /\ Kind[x] = "domain"
    /\ Goto(x, "done")
    /\ CloseSock(x)
    /\ UNCHANGED <<fwdVars, netVars, mapVars, slots, tearVars>>

Acquire(x) ==
    /\ pc[x] = "idle"
    /\ IF slots >= MaxConns
       THEN Goto(x, "done") /\ CloseSock(x) /\ UNCHANGED slots
       ELSE Goto(x, "acquired") /\ slots' = slots + 1 /\ UNCHANGED sock
    /\ UNCHANGED <<fwdVars, netVars, mapVars, tearVars>>

\* handleTCPConnection opens a data stream and writes its header, or gives up.
OpenStream(x) ==
    /\ pc[x] = "acquired" /\ Kind[x] = "domain"
    /\ \/ ~ConnClosed /\ Goto(x, "opened") /\ UNCHANGED <<sock, slots>>
       \/ Goto(x, "done") /\ CloseSock(x) /\ slots' = slots - 1
    /\ UNCHANGED <<fwdVars, netVars, mapVars, tearVars>>

\* The connection is stored and counted; a failing NEWCONN write is only logged.
Store(x) ==
    /\ \/ pc[x] = "acquired" /\ Kind[x] = "tcp" /\ Goto(x, "top") /\ UNCHANGED pipe
       \/ pc[x] = "opened" /\ Goto(x, "pipe") /\ pipe' = [pipe EXCEPT ![x] = "start"]
    /\ ExternalConns' = ExternalConns \cup {x}
    /\ counted' = [counted EXCEPT ![x] = @ + 1]
    /\ UNCHANGED <<in, out, streamActivity, sock, netVars, slots, tearVars>>

----------------------------------------------------------------------------
(* forwardExternalToControl *)

\* Mutant: the context is not checked.
FwdTop_NoCheck(x) ==
    /\ pc[x] = "top"
    /\ Goto(x, "read")
    /\ UNCHANGED <<fwdVars, sock, netVars, mapVars, slots, tearVars>>

FwdTop(x) ==
    /\ pc[x] = "top"
    /\ Goto(x, IF Cancelled THEN "close" ELSE "read")
    /\ UNCHANGED <<fwdVars, sock, netVars, mapVars, slots, tearVars>>

\* Data is read and written to the control stream, which may fail.
FwdData(x) ==
    /\ pc[x] = "read" /\ ~ExtReadFails(x)
    /\ Goto(x, "top") \/ Goto(x, "close")
    /\ UNCHANGED <<fwdVars, sock, netVars, mapVars, slots, tearVars>>

FwdReadError(x) ==
    /\ pc[x] = "read" /\ ExtReadFails(x)
    /\ Goto(x, "close")
    /\ UNCHANGED <<fwdVars, sock, netVars, mapVars, slots, tearVars>>

\* The deferred function: Close, ...
FwdClose(x) ==
    /\ pc[x] = "close"
    /\ CloseSock(x)
    /\ Goto(x, "forget")
    /\ UNCHANGED <<fwdVars, netVars, mapVars, slots, tearVars>>

\* ... Delete and decrement whether or not somebody else did, and a CLOSE message.
FwdForget(x) ==
    /\ pc[x] = "forget"
    /\ Forget(x)
    /\ Goto(x, "release")
    /\ UNCHANGED <<fwdVars, sock, netVars, slots, tearVars>>

\* Mutant: the slot is kept.
FwdRelease_Not(x) ==
    /\ pc[x] = "release"
    /\ Goto(x, "done")
    /\ UNCHANGED <<fwdVars, sock, netVars, mapVars, slots, tearVars>>

\* handleExternalConnection's deferred Release.
FwdRelease(x) ==
    /\ pc[x] = "release"
    /\ slots' = slots - 1
    /\ Goto(x, "done")
    /\ UNCHANGED <<fwdVars, sock, netVars, mapVars, tearVars>>

----------------------------------------------------------------------------
(* handleDataStream and forwardBidirectional *)

\* The client opens a data stream naming a connection that is stored.
DataStream(x) ==
    /\ Kind[x] = "tcp" /\ pipe[x] = "none"
    /\ x \in ExternalConns /\ ~ConnClosed
    /\ pipe' = [pipe EXCEPT ![x] = "start"]
    /\ UNCHANGED <<pc, in, out, streamActivity, sock, netVars, mapVars, slots, tearVars>>

PipeStart(x) ==
    /\ pipe[x] = "start"
    /\ pipe' = [pipe EXCEPT ![x] = "running"]
    /\ streamActivity' = streamActivity \cup {x}
    /\ UNCHANGED <<pc, in, out, sock, netVars, mapVars, slots, tearVars>>

\* The pipe's context is cancelled by the first direction that ends.
PipeCancelled(x) == Cancelled \/ in[x] = "ended" \/ out[x] = "ended"

\* Each direction: check the context, Read, Write, again; any failure ends it.
In(x) ==
    /\ pipe[x] = "running"
    /\ \/ in[x] = "top" /\ in' = [in EXCEPT ![x] = IF PipeCancelled(x) THEN "ended" ELSE "read"]
       \/ in[x] = "read" /\ ExtReadFails(x) /\ in' = [in EXCEPT ![x] = "ended"]
       \/ in[x] = "read" /\ ~ExtReadFails(x) /\ \E l \in {"top", "ended"} :
            in' = [in EXCEPT ![x] = l]
    /\ UNCHANGED <<pc, pipe, out, streamActivity, sock, netVars, mapVars, slots, tearVars>>

Out(x) ==
    /\ pipe[x] = "running"
    /\ \/ out[x] = "top" /\ out' = [out EXCEPT ![x] = IF PipeCancelled(x) THEN "ended" ELSE "read"]
       \/ out[x] = "read" /\ StreamReadFails(x) /\ out' = [out EXCEPT ![x] = "ended"]
       \/ out[x] = "read" /\ ~StreamReadFails(x) /\ \E l \in {"top", "ended"} :
            out' = [out EXCEPT ![x] = l]
    /\ UNCHANGED <<pc, pipe, in, streamActivity, sock, netVars, mapVars, slots, tearVars>>

\* Both directions are done: the deferred function closes both ends, ...
PipeClose(x) ==
    /\ pipe[x] = "running" /\ in[x] = "ended" /\ out[x] = "ended"
    /\ pipe' = [pipe EXCEPT ![x] = "forget"]
    /\ CloseSock(x)
    /\ UNCHANGED <<pc, in, out, streamActivity, netVars, mapVars, slots, tearVars>>

\* Mutant: the forwarder decrements unconditionally.
PipeForget_Unconditional(x) ==
    /\ pipe[x] = "forget"
    /\ Forget(x)
    /\ streamActivity' = streamActivity \ {x}
    /\ pipe' = [pipe EXCEPT ![x] = "done"]
    /\ pc' = [pc EXCEPT ![x] = IF Kind[x] = "domain" THEN "done" ELSE @]
    /\ UNCHANGED <<in, out, sock, netVars, slots, tearVars>>

\* ... forgets the connection if nobody else has, and, for a domain connection,
\* the handler returns.  It does not give its slot back.
PipeForget(x) ==
    /\ pipe[x] = "forget"
    /\ LoadAndForget(x)
    /\ streamActivity' = streamActivity \ {x}
    /\ pipe' = [pipe EXCEPT ![x] = "done"]
    /\ pc' = [pc EXCEPT ![x] = IF Kind[x] = "domain" THEN "done" ELSE @]
    /\ UNCHANGED <<in, out, sock, netVars, slots, tearVars>>

----------------------------------------------------------------------------
(* Other parties that close a connection *)

\* controlLoop: a CLOSE message from the client.
CloseConn(x) ==
    /\ ~ConnClosed /\ x \in ExternalConns
    /\ LoadAndForget(x)
    /\ CloseSock(x)
    /\ UNCHANGED <<pc, fwdVars, netVars, slots, tearVars>>

\* cleanupIdleStreams: no data for streamIdleTimeout.  It loads the connection,
\* closes it, ...
SweepIdle(x) ==
    /\ sweep = Nil /\ x \in streamActivity
    /\ IF x \in ExternalConns
       THEN CloseSock(x) /\ sweep' = x /\ UNCHANGED streamActivity
       ELSE streamActivity' = streamActivity \ {x} /\ UNCHANGED <<sock, sweep>>
    /\ UNCHANGED <<pc, pipe, in, out, netVars, mapVars, slots, closing, toVisit>>

\* ... deletes it and decrements, although somebody may have done so in between.
SweepForget ==
    /\ sweep # Nil
    /\ Forget(sweep)
    /\ streamActivity' = streamActivity \ {sweep}
    /\ sweep' = Nil
    /\ UNCHANGED <<pc, pipe, in, out, sock, netVars, slots, closing, toVisit>>

\* closeTunnel: cancel, ...
Cancel ==
    /\ closing = "no"
    /\ closing' = "cancelled"
    /\ UNCHANGED <<pc, fwdVars, sock, netVars, mapVars, slots, sweep, toVisit>>

\* ... close the QUIC connection, ...
Disconnect ==
    /\ closing = "cancelled"
    /\ closing' = "ranging"
    /\ toVisit' = Conn
    /\ UNCHANGED <<pc, fwdVars, sock, netVars, mapVars, slots, sweep>>

\* ... Range over ExternalConns: a connection stored after its visit is missed.
Visit(x) ==
    /\ closing = "ranging" /\ x \in toVisit
    /\ toVisit' = toVisit \ {x}
    /\ LoadAndForget(x)
    /\ sock' = [sock EXCEPT ![x] = @ /\ x \notin ExternalConns]
    /\ UNCHANGED <<pc, fwdVars, netVars, slots, sweep, closing>>

Ranged ==
    /\ closing = "ranging" /\ toVisit = {}
    /\ closing' = "done"
    /\ UNCHANGED <<pc, fwdVars, sock, netVars, mapVars, slots, sweep, toVisit>>

\* The environment: the external side, resp. the client's data stream, ends.
PeerCloses(x) ==
    /\ peer[x]
    /\ peer' = [peer EXCEPT ![x] = FALSE]
    /\ UNCHANGED <<pc, fwdVars, sock, stream, mapVars, slots, tearVars>>

StreamEnds(x) ==
    /\ stream[x] /\ pipe[x] # "none"
    /\ stream' = [stream EXCEPT ![x] = FALSE]
    /\ UNCHANGED <<pc, fwdVars, sock, peer, mapVars, slots, tearVars>>

----------------------------------------------------------------------------
Fwd(x)  == FwdTop(x) \/ FwdData(x) \/ FwdReadError(x) \/ FwdClose(x) \/ FwdForget(x)
           \/ FwdRelease(x)
Pipe(x) == PipeStart(x) \/ PipeClose(x) \/ PipeForget(x)

Next ==
    \/ \E x \in Conn :
         \/ RefuseDomain(x) \/ Acquire(x) \/ OpenStream(x) \/ Store(x)
         \/ Fwd(x) \/ DataStream(x) \/ Pipe(x) \/ In(x) \/ Out(x)
         \/ CloseConn(x) \/ SweepIdle(x) \/ Visit(x) \/ PeerCloses(x) \/ StreamEnds(x)
    \/ SweepForget \/ Cancel \/ Disconnect \/ Ranged

Spec == Init /\ [][Next]_vars

\* Goroutines that can run do run; opening a stream may block until the connection
\* is closed.  Nothing is assumed of the external side, of
\* the client, of data arriving, or of the tunnel being closed at all.
Fairness ==
    /\ \A x \in Conn :
         /\ WF_vars(OpenStream(x) /\ ConnClosed) /\ WF_vars(Store(x))
         /\ WF_vars(FwdTop(x) \/ FwdReadError(x) \/ FwdClose(x) \/ FwdForget(x) \/ FwdRelease(x))
         /\ WF_vars(Pipe(x))
         /\ WF_vars(In(x) /\ (in[x] = "read" => ExtReadFails(x)))
         /\ WF_vars(Out(x) /\ (out[x] = "read" => StreamReadFails(x)))
         /\ WF_vars(Visit(x))
    /\ WF_vars(SweepForget) /\ WF_vars(Disconnect) /\ WF_vars(Ranged)

FairSpec == Spec /\ Fairness

----------------------------------------------------------------------------
TypeOK ==
    /\ pc \in [Conn -> {"idle", "acquired", "opened", "pipe", "top", "read",
                        "close", "forget", "release", "done"}]
    /\ pipe \in [Conn -> {"none", "start", "running", "forget", "done"}]
    /\ in \in [Conn -> {"top", "read", "ended"}]
    /\ out \in [Conn -> {"top", "read", "ended"}]
    /\ sock \in [Conn -> BOOLEAN] /\ peer \in [Conn -> BOOLEAN]
    /\ stream \in [Conn -> BOOLEAN]
    /\ ExternalConns \subseteq Conn /\ streamActivity \subseteq Conn
    /\ counted \in [Conn -> Int]
    /\ slots \in 0 .. MaxConns
    /\ sweep \in Conn \cup {Nil}
    /\ closing \in {"no", "cancelled", "ranging", "done"}
    /\ toVisit \subseteq Conn

\* activeConns never counts a connection that is not stored, and misses it by a
\* bounded amount: the unconditional decrements of forwardExternalToControl and of
\* cleanupIdleStreams count one connection off at most once each beyond its own.
CountBounded ==
    \A x \in Conn :
        /\ counted[x] <= IF x \in ExternalConns THEN 1 ELSE 0
        /\ counted[x] >= IF Kind[x] = "tcp" THEN -2 ELSE -1

\* No dead connection lingers in the map: one the server has closed and that is
\* still stored has a goroutine on its way to delete it.
DeadIsForgotten ==
    \A x \in ExternalConns : ~sock[x] =>
        pc[x] = "forget" \/ pipe[x] = "forget" \/ sweep = x

\* A slot of the limiter is held while a handler runs, however it ends; the only
\* slots lost are those of domain connections that got as far as forwarding.
SlotsLostOnlyByDomain ==
    slots = Cardinality({x \in Conn : pc[x] \notin {"idle", "done"}})
            + Cardinality({x \in Conn : Kind[x] = "domain" /\ pipe[x] = "done"})

\* closeTunnel ends every handler and forwarder of the tunnel, also of connections
\* stored after its Range has passed: these find the context cancelled.
CloseEndsAll ==
    \A x \in Conn : closing = "done" ~>
        pc[x] \in {"idle", "done"} /\ pipe[x] \in {"none", "done"}

\* The table of external connections: in every state it holds no dead connection
\* for good, and activeConns differs from it by no more than the double
\* decrements allow, whichever of the four parties removes a connection.
ExternalTable == TypeOK /\ CountBounded /\ DeadIsForgotten

=============================================================================
