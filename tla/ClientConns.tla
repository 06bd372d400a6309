----------------------------- MODULE ClientConns -----------------------------
(****************************************************************************)
(* The local connections of the client (quic/quic.go), against Stop.         *)
(*                                                                           *)
(* A "control" connection is dialled for a NEWCONN message and fed by DATA   *)
(* messages; forwardLocalToControl sends what it reads back.  A "stream"     *)
(* connection is dialled for a data stream the server opened, and both are   *)
(* piped by handleTCPDataStreamForward.  IDs are unique, and the server     *)
(* names one in a NEWCONN message or opens a data stream for it.             *)
(*                                                                           *)
(* Control messages are handled by the control loops.  After a reconnect     *)
(* there may be two (MuxClient), each on its own stream, and the second may  *)
(* handle a message before the first is done with an earlier one.            *)
(*                                                                           *)
(* A reconnect replaces s.conn and the control stream and closes neither, and *)
(* Stop closes only what it finds in s.conn.  A goroutine reads both anew in *)
(* every round, so that what stays on an abandoned connection is a Read or an *)
(* AcceptStream that has already begun, and the data streams it carries.     *)
(****************************************************************************)
EXTENDS Integers, FiniteSets

CONSTANTS
    Conn,       \* local TCP connections, by connID
    Announced,  \* those the server names in NEWCONN messages
    Loop,       \* control loops
    Nil

ASSUME ClientConnsAssumption == Nil \notin Conn /\ IsFiniteSet(Loop) /\ Announced \subseteq Conn

VARIABLES
    busy,       \* busy[l]: <<what, x>>, the message control loop l is handling
    asked,      \* connections whose NEWCONN message was read
    told,       \* connections whose CLOSE message was handled
    overtaken,  \* ... while another loop was still dialling them
    pc,         \* pc[x]: the forwarder of x
    in, out,    \* in[x], out[x]: its goroutines Tunnel -> Local, Local -> Tunnel
    sock,       \* sock[x]: the local socket: "none", "open" or "closed"
    peer,       \* peer[x]: the local service has not closed x
    data,       \* data[x]: the data stream of x has not ended
    localConns, \* s.localConns
    counted,    \* counted[x]: what x has added to activeConns so far
    held,       \* loops blocked in Read on a control stream that was abandoned
    abandoned,  \* some connection was, while it was up
    old,        \* connections whose data stream is one of an abandoned connection
    stop, toVisit   \* where Stop is, and what its Range has still to visit

msgVars  == <<busy, asked, told, overtaken>>
pipeVars == <<in, out, data>>
mapVars  == <<localConns, counted>>
linkVars == <<held, abandoned, old>>
stopVars == <<stop, toVisit>>
vars == <<msgVars, pc, pipeVars, sock, peer, mapVars, linkVars, stopVars>>

Idle == <<"idle", Nil>>

Init ==
    /\ busy = [l \in Loop |-> Idle]
    /\ asked = {} /\ told = {} /\ overtaken = {}
    /\ pc = [x \in Conn |-> "none"]
    /\ in = [x \in Conn |-> "top"] /\ out = [x \in Conn |-> "top"]
    /\ sock = [x \in Conn |-> "none"]
    /\ peer = [x \in Conn |-> TRUE] /\ data = [x \in Conn |-> TRUE]
    /\ localConns = {} /\ counted = [x \in Conn |-> 0]
    /\ held = {} /\ abandoned = FALSE /\ old = {}
    /\ stop = "no" /\ toVisit = {}

----------------------------------------------------------------------------
\* s.ctx is done; the connection in s.conn is closed.
Cancelled == stop # "no"
Severed   == stop \notin {"no", "cancelled"}

Goto(x, l) == pc' = [pc EXCEPT ![x] = l]
CloseSock(x) == sock' = [sock EXCEPT ![x] = "closed"]

\* localConns.Store and activeConns.Add(1) for a socket just dialled.
Store(x) ==
    /\ localConns' = localConns \cup {x}
    /\ counted' = [counted EXCEPT ![x] = @ + 1]
    /\ sock' = [sock EXCEPT ![x] = "open"]

\* localConns.Delete and activeConns.Add(-1), found or not.
Forget(x) ==
    /\ localConns' = localConns \ {x}
    /\ counted' = [counted EXCEPT ![x] = @ - 1]

LocalReadFails(x)  == sock[x] = "closed" \/ ~peer[x]
StreamReadFails(x) == ~data[x] \/ (Severed /\ x \notin old)

\* Control loop l gets another message, which may be the last of an abandoned stream:
\* the next one it reads is of the current stream.
Receives(l) ==
    /\ busy[l] = Idle /\ (l \in held \/ ~Severed)
    /\ held' = held \ {l}
    /\ UNCHANGED <<abandoned, old>>

----------------------------------------------------------------------------
(* controlLoop: NEWCONN, DATA and CLOSE messages *)

\* handleNewConn dials the local service; the loop waits for it.
NewConn(l, x) ==
    /\ x \in Announced \ asked /\ pc[x] = "none"
    /\ Receives(l)
    /\ asked' = asked \cup {x}
    /\ busy' = [busy EXCEPT ![l] = <<"dial", x>>]
    /\ UNCHANGED <<told, overtaken, pc, pipeVars, sock, peer, mapVars, stopVars>>

\* It fails, and a CLOSE message is sent, or the connection is stored and forwarded.
DialLocal(l) ==
    /\ busy[l][1] = "dial"
    /\ LET x == busy[l][2] IN
         \/ UNCHANGED <<pc, sock, mapVars>>
         \/ Store(x) /\ Goto(x, "top")
    /\ busy' = [busy EXCEPT ![l] = Idle]
    /\ UNCHANGED <<asked, told, overtaken, pipeVars, peer, linkVars, stopVars>>

\* handleData loads the connection; data for one that is not stored is dropped.
Data(l, x) ==
    /\ x \in localConns /\ x \in asked
    /\ Receives(l)
    /\ busy' = [busy EXCEPT ![l] = <<"write", x>>]
    /\ UNCHANGED <<asked, told, overtaken, pc, pipeVars, sock, peer, mapVars, stopVars>>

\* Mutant: a failing write leaves the connection in the map.
DataWrite_NoDelete(l) ==
    /\ busy[l][1] = "write"
    /\ LET x == busy[l][2] IN
         \/ sock[x] = "open" /\ UNCHANGED <<sock, counted>>
         \/ LocalReadFails(x) /\ CloseSock(x) /\ counted' = [counted EXCEPT ![x] = @ - 1]
    /\ busy' = [busy EXCEPT ![l] = Idle]
    /\ UNCHANGED <<asked, told, overtaken, pc, pipeVars, peer, localConns, linkVars, stopVars>>

\* It writes; a failing write closes, deletes and decrements.
DataWrite(l) ==
    /\ busy[l][1] = "write"
    /\ LET x == busy[l][2] IN
         \/ sock[x] = "open" /\ UNCHANGED <<sock, mapVars>>
         \/ LocalReadFails(x) /\ CloseSock(x) /\ Forget(x)
    /\ busy' = [busy EXCEPT ![l] = Idle]
    /\ UNCHANGED <<asked, told, overtaken, pc, pipeVars, peer, linkVars, stopVars>>

\* Mutant: the connection is forgotten but not closed.
CloseConn_NoClose(l, x) ==
    /\ x \in asked \ told
    /\ Receives(l)
    /\ told' = told \cup {x}
    /\ overtaken' = overtaken \cup {y \in {x} : \E m \in Loop : busy[m] = <<"dial", y>>}
    /\ IF x \in localConns THEN Forget(x) ELSE UNCHANGED mapVars
    /\ UNCHANGED <<busy, asked, pc, pipeVars, sock, peer, stopVars>>

\* CLOSE: LoadAndDelete, Close and decrement if it was stored.
CloseConn(l, x) ==
    /\ x \in asked \ told
    /\ Receives(l)
    /\ told' = told \cup {x}
    /\ overtaken' = overtaken \cup {y \in {x} : \E m \in Loop : busy[m] = <<"dial", y>>}
    /\ IF x \in localConns THEN CloseSock(x) /\ Forget(x) ELSE UNCHANGED <<sock, mapVars>>
    /\ UNCHANGED <<busy, asked, pc, pipeVars, peer, stopVars>>

----------------------------------------------------------------------------
(* forwardLocalToControl *)

FwdTop(x) ==
    /\ pc[x] = "top"
    /\ Goto(x, IF Cancelled THEN "ended" ELSE "read")
    /\ UNCHANGED <<msgVars, pipeVars, sock, peer, mapVars, linkVars, stopVars>>

\* Data is read and written to the control stream, which may fail.
FwdData(x) ==
    /\ pc[x] = "read" /\ ~LocalReadFails(x)
    /\ Goto(x, "top") \/ Goto(x, "ended")
    /\ UNCHANGED <<msgVars, pipeVars, sock, peer, mapVars, linkVars, stopVars>>

FwdReadError(x) ==
    /\ pc[x] = "read" /\ LocalReadFails(x)
    /\ Goto(x, "ended")
    /\ UNCHANGED <<msgVars, pipeVars, sock, peer, mapVars, linkVars, stopVars>>

\* The deferred function deletes and decrements whether or not somebody else did,
\* and sends a CLOSE message if the client is connected.
FwdEnd(x) ==
    /\ pc[x] = "ended"
    /\ CloseSock(x) /\ Forget(x)
    /\ Goto(x, "done")
    /\ UNCHANGED <<msgVars, pipeVars, peer, linkVars, stopVars>>

----------------------------------------------------------------------------
(* acceptQUICDataStreams, handleQUICDataStream and handleTCPDataStreamForward *)

\* The stream comes from s.conn or, to an acceptor that waits there since before a
\* reconnect, from an abandoned connection.
AcceptStream(x) ==
    /\ x \notin Announced /\ pc[x] = "none"
    /\ \/ ~Severed /\ UNCHANGED old
       \/ abandoned /\ stop # "returned" /\ old' = old \cup {x}
    /\ Goto(x, "dial")
    /\ UNCHANGED <<msgVars, pipeVars, sock, peer, mapVars, held, abandoned, stopVars>>

\* The header cannot be read or the local service not dialled.
StreamFails(x) ==
    /\ pc[x] = "dial"
    /\ Goto(x, "done") /\ old' = old \ {x}
    /\ UNCHANGED <<msgVars, pipeVars, sock, peer, mapVars, held, abandoned, stopVars>>

\* DialContext succeeds; it fails if the context is done.
StreamDial(x) ==
    /\ pc[x] = "dial" /\ ~Cancelled
    /\ Goto(x, "dialled")
    /\ UNCHANGED <<msgVars, pipeVars, sock, peer, mapVars, linkVars, stopVars>>

StreamStore(x) ==
    /\ pc[x] = "dialled"
    /\ Store(x) /\ Goto(x, "pipe")
    /\ UNCHANGED <<msgVars, pipeVars, peer, linkVars, stopVars>>

\* The pipe's context is cancelled by the first direction that ends.
PipeCancelled(x) == Cancelled \/ in[x] = "ended" \/ out[x] = "ended"

\* Each direction: check the context, Read, Write, again; any failure ends it.
In(x) ==
    /\ pc[x] = "pipe"
    /\ \/ in[x] = "top" /\ in' = [in EXCEPT ![x] = IF PipeCancelled(x) THEN "ended" ELSE "read"]
       \/ in[x] = "read" /\ StreamReadFails(x) /\ in' = [in EXCEPT ![x] = "ended"]
       \/ in[x] = "read" /\ ~StreamReadFails(x) /\ \E l \in {"top", "ended"} :
            in' = [in EXCEPT ![x] = l]
    /\ UNCHANGED <<msgVars, pc, out, data, sock, peer, mapVars, linkVars, stopVars>>

Out(x) ==
    /\ pc[x] = "pipe"
    /\ \/ out[x] = "top" /\ out' = [out EXCEPT ![x] = IF PipeCancelled(x) THEN "ended" ELSE "read"]
       \/ out[x] = "read" /\ LocalReadFails(x) /\ out' = [out EXCEPT ![x] = "ended"]
       \/ out[x] = "read" /\ ~LocalReadFails(x) /\ \E l \in {"top", "ended"} :
            out' = [out EXCEPT ![x] = l]
    /\ UNCHANGED <<msgVars, pc, in, data, sock, peer, mapVars, linkVars, stopVars>>

\* Mutant: the local connection is left to Stop.
StreamEnd_NoClose(x) ==
    /\ pc[x] = "pipe" /\ in[x] = "ended" /\ out[x] = "ended"
    /\ Forget(x) /\ Goto(x, "done")
    /\ data' = [data EXCEPT ![x] = FALSE]
    /\ UNCHANGED <<msgVars, in, out, sock, peer, linkVars, stopVars>>

\* Both directions are done: the deferred functions, which also close the stream.
StreamEnd(x) ==
    /\ pc[x] = "pipe" /\ in[x] = "ended" /\ out[x] = "ended"
    /\ CloseSock(x) /\ Forget(x) /\ Goto(x, "done")
    /\ data' = [data EXCEPT ![x] = FALSE] /\ old' = old \ {x}
    /\ UNCHANGED <<msgVars, in, out, peer, held, abandoned, stopVars>>

----------------------------------------------------------------------------
(* Stop, and the environment *)

StopCancels ==
    /\ stop = "no"
    /\ stop' = "cancelled"
    /\ UNCHANGED <<msgVars, pc, pipeVars, sock, peer, mapVars, linkVars, toVisit>>

\* The connection in s.conn is closed, and no other.
StopSevers ==
    /\ stop = "cancelled"
    /\ stop' = "ranging" /\ toVisit' = Conn
    /\ UNCHANGED <<msgVars, pc, pipeVars, sock, peer, mapVars, linkVars>>

\* streamHandler.Close and then Stop range over localConns: what is stored when one
\* of them gets there is closed, what is stored later is missed.
Visit(x) ==
    /\ stop = "ranging" /\ x \in toVisit
    /\ toVisit' = toVisit \ {x}
    /\ IF x \in localConns THEN CloseSock(x) ELSE UNCHANGED sock
    /\ UNCHANGED <<msgVars, pc, pipeVars, peer, mapVars, linkVars, stop>>

\* wg.Wait
StopReturns ==
    /\ stop = "ranging" /\ toVisit = {}
    /\ held = {} /\ \A l \in Loop : busy[l] = Idle
    /\ \A x \in Conn : pc[x] \in {"none", "done"}
    /\ stop' = "returned"
    /\ UNCHANGED <<msgVars, pc, pipeVars, sock, peer, mapVars, linkVars, toVisit>>

\* connectLoop reconnects while the connection is up (a heartbeat failed, or the loss
\* of an older connection asked for it).  Loops in Read stay with the old stream.
Reconnect ==
    /\ stop = "no"
    /\ \E S \in SUBSET {l \in Loop : busy[l] = Idle} : held' = held \cup S
    /\ abandoned' = TRUE
    /\ old' = old \cup {x \in Conn : pc[x] \in {"dial", "dialled", "pipe"}}
    /\ UNCHANGED <<msgVars, pc, pipeVars, sock, peer, mapVars, stopVars>>

\* The server or the network ends an abandoned connection, and with it the loop,
\* whose place another one takes.
OldEnds(l) ==
    /\ l \in held
    /\ held' = held \ {l}
    /\ UNCHANGED <<msgVars, pc, pipeVars, sock, peer, mapVars, abandoned, old, stopVars>>

LocalCloses(x) ==
    /\ peer[x] /\ sock[x] = "open"
    /\ peer' = [peer EXCEPT ![x] = FALSE]
    /\ UNCHANGED <<msgVars, pc, pipeVars, sock, mapVars, linkVars, stopVars>>

DataStreamEnds(x) ==
    /\ data[x] /\ pc[x] = "pipe"
    /\ data' = [data EXCEPT ![x] = FALSE]
    /\ UNCHANGED <<msgVars, pc, in, out, sock, peer, mapVars, linkVars, stopVars>>

----------------------------------------------------------------------------
ControlLoop(l) ==
    DialLocal(l) \/ DataWrite(l) \/ \E x \in Conn : NewConn(l, x) \/ Data(l, x) \/ CloseConn(l, x)
Fwd(x) == FwdTop(x) \/ FwdData(x) \/ FwdReadError(x) \/ FwdEnd(x)
Stream(x) ==
    \/ AcceptStream(x) \/ StreamFails(x) \/ StreamDial(x) \/ StreamStore(x)
    \/ In(x) \/ Out(x) \/ StreamEnd(x)
Stopping == StopSevers \/ StopReturns \/ \E x \in Conn : Visit(x)

Terminated == stop = "returned" /\ UNCHANGED vars

Next ==
    \/ \E l \in Loop : ControlLoop(l) \/ OldEnds(l)
    \/ \E x \in Conn : Fwd(x) \/ Stream(x) \/ LocalCloses(x) \/ DataStreamEnds(x)
    \/ Reconnect \/ StopCancels \/ Stopping \/ Terminated

Spec == Init /\ [][Next]_vars

\* Goroutines that can run do run; dials and writes finish, and the header of a data
\* stream follows its opening.  A Read is assumed to return only when it must fail, and
\* nobody has to end a connection that was abandoned.
Fairness ==
    /\ \A l \in Loop : WF_vars(DialLocal(l)) /\ WF_vars(DataWrite(l))
    /\ \A x \in Conn :
         /\ WF_vars(FwdTop(x) \/ FwdReadError(x) \/ FwdEnd(x))
         /\ WF_vars(StreamFails(x) \/ StreamDial(x)) /\ WF_vars(StreamStore(x) \/ StreamEnd(x))
         /\ WF_vars(In(x) /\ (in[x] = "read" => StreamReadFails(x)))
         /\ WF_vars(Out(x) /\ (out[x] = "read" => LocalReadFails(x)))
    /\ WF_vars(Stopping)

FairSpec == Spec /\ Fairness

----------------------------------------------------------------------------
(* Properties *)

TypeOK ==
    /\ busy \in [Loop -> {"idle", "dial", "write"} \X (Conn \cup {Nil})]
    /\ asked \subseteq Announced /\ told \subseteq Conn /\ overtaken \subseteq Conn
    /\ pc \in [Conn -> {"none", "top", "read", "ended", "dial", "dialled", "pipe", "done"}]
    /\ in \in [Conn -> {"top", "read", "ended"}] /\ out \in [Conn -> {"top", "read", "ended"}]
    /\ sock \in [Conn -> {"none", "open", "closed"}]
    /\ peer \in [Conn -> BOOLEAN] /\ data \in [Conn -> BOOLEAN]
    /\ localConns \subseteq Conn /\ counted \in [Conn -> -Cardinality(Loop) .. 1]
    /\ held \subseteq Loop /\ abandoned \in BOOLEAN /\ old \subseteq Conn
    /\ stop \in {"no", "cancelled", "ranging", "returned"}
    /\ toVisit \subseteq Conn

\* A stored connection is counted once.  One that is not may have been counted off
\* too often, by the unconditional decrement of its forwarder after a CLOSE message
\* or failed writes, once per control loop; those of data streams are counted exactly.
CountBounded ==
    \A x \in Conn :
        /\ x \in localConns => counted[x] = 1
        /\ x \notin localConns => counted[x] \in -Cardinality(Loop) .. 0
        /\ x \notin localConns \cup asked => counted[x] = 0

\* A CLOSE message of the server ends its local connection, unless another control
\* loop was still dialling it, when the connection lives on unknown to the server.
CloseReaches ==
    \A x \in Announced : (x \in told \ overtaken) ~> (pc[x] \in {"none", "done"} /\ x \notin localConns)

\* A pipe whose data stream has ended is over, or waits for its local service.
HalfClosedWaitsForLocal ==
    \A x \in Conn \ Announced : (pc[x] = "pipe" /\ ~data[x]) ~> (pc[x] = "done" \/ (out[x] = "read" /\ peer[x]))

\* The table of local connections and activeConns agree up to the decrements of
\* concurrent control loops, DATA writes and forwarders.
LocalTable == TypeOK /\ CountBounded

\* A connection whose server side is gone, by a CLOSE message or by the end of its
\* data stream, ends, unless it waits for the local service or was being dialled.
ConnsEnd == CloseReaches /\ HalfClosedWaitsForLocal

\* A Read that only the end of an abandoned connection ends.
Stuck == held # {} \/ \E x \in old : pc[x] = "pipe" /\ in[x] = "read" /\ data[x]

\* Stop leaves no local connection open, also none that was dialled or stored while it
\* ran, and it returns unless a control loop or a data stream of a connection that a
\* reconnect abandoned is blocked in Read: wg.Wait then waits for the server
\* (Stop, quic.go:2592-2618, 2744).
StopIsClean ==
    Cancelled ~> (stop = "returned" \/ Stuck) /\ \A x \in Conn : sock[x] # "open"

=============================================================================
