-------------------------------- MODULE Pipes -------------------------------
(***************************************************************************)
(* The handlers that copy between two streams with buffers of a shared     *)
(* pool: handleExternalQUICConnection and handleExternalHTTP3Connection of *)
(* the server with forwardQUICStream and forwardHTTP3Stream, the client's  *)
(* handleQUICDataStreamForward (quic/quic.go), the forwarders of           *)
(* quic/forwarder.go, and the pool (internal/pool/pool.go).                *)
(*                                                                         *)
(* A pipe has two ends, "a" (the stream the handler was given) and "b"     *)
(* (the one it opens), and a goroutine for each direction, which reads     *)
(* into a buffer and then writes from it.  What a buffer holds is the      *)
(* direction that last read into it, so that a write from a buffer another *)
(* direction has read into since is seen to send the wrong bytes.          *)
(***************************************************************************)
EXTENDS Integers, FiniteSets, FiniteSetsExt

CONSTANTS
    Pipe,       \* the handlers
    Scenario,   \* the kinds the handlers may have, functions from Pipe to Kinds
    Nil         \* no connection, no buffer, nothing read

Kinds == {"quic",        \* a stream of an external QUIC connection
          "http3",       \* a stream of an external HTTP/3 connection
          "local",       \* handleQUICDataStreamForward, all of one connection ID
          "forwarder",   \* RunBidirectionalForward
          "simple",      \* forwardBidirectionalSimple
          "nilpool",     \* forwardBidirectionalSimple without a pool
          "none"}        \* no handler

ASSUME PipesAssumption ==
    IsFiniteSet(Pipe) /\ Nil \notin Pipe \union Nat /\ Scenario \subseteq [Pipe -> Kinds]

Dir == {"ab", "ba"}
End == {"a", "b"}

VARIABLES
    kind,       \* kind[p]
    pc,         \* the handler: "conn", "accept", "start", "load", "dial", "open",
                \* "copy", "put" (its buffers are given back) or "done"
    go,         \* go[p][d]: the goroutine: "off", "read", "write" or "end"
    buf,        \* buf[p][d]: the buffer of a direction
    end,        \* end[p][e]: "open", "fin" (it sends no more) or "dead"
    ctx,        \* ctx[p]: the handler's context is cancelled
    free,       \* buffers in the pool
    made,       \* buffers made so far
    content,    \* content[b]: the direction that last read into b
    wrong,      \* handlers that wrote bytes they had not read
    stopped,    \* "no", "cancelled" or "disconnected": the tunnel or the client ends
    ext,        \* ext[p]: p's external connection: "new", "serving", "closed", "refused"
    active,     \* activeConns
    conn,       \* the entry of localQUICConns, named after the handler that dialled
    uses,       \* uses[p]: the local connection p opens its stream on
    live        \* local connections that are open

pipes == <<go, buf, end, ctx>>
pool == <<free, made, content, wrong>>
outer == <<stopped, ext, active>>
dialling == <<conn, uses, live>>
vars == <<kind, pc, pipes, pool, outer, dialling>>

MaxBuffers == 2 * Cardinality(Pipe)
Buffer == 1 .. MaxBuffers

Src(d) == IF d = "ab" THEN "a" ELSE "b"

\* Where a direction writes: RunBidirectionalForward passes each end both as the
\* reader and as the writer of one direction.
Dst(p, d) ==
    IF kind[p] = "forwarder" THEN Src(d) ELSE IF d = "ab" THEN "b" ELSE "a"

Server == {"quic", "http3"}
Managed == Server \union {"local"}

\* One buffer serves both directions.
OneBuffer == {"http3", "nilpool"}

\* The handlers in which the end of a direction cancels the other.
Cancels == {"quic", "local", "forwarder"}

Cancelled(p) == ctx[p] \/ (kind[p] \in Managed /\ stopped /= "no")

-----------------------------------------------------------------------------
\* The external connection of a server handler.  It has a slot of connLimiter
\* exactly while it is served (Limiter, ServerConns).

NotifyFails(p) ==
    /\ pc[p] = "conn"
    /\ pc' = [pc EXCEPT ![p] = "done"]
    /\ ext' = [ext EXCEPT ![p] = "refused"]
    /\ UNCHANGED <<kind, pipes, pool, stopped, active, dialling>>

Notify(p) ==
    /\ pc[p] = "conn" /\ stopped /= "disconnected"
    /\ pc' = [pc EXCEPT ![p] = "accept"]
    /\ ext' = [ext EXCEPT ![p] = "serving"]
    /\ active' = active + 1
    /\ UNCHANGED <<kind, pipes, pool, stopped, dialling>>

AcceptStream(p) ==
    /\ pc[p] = "accept" /\ ext[p] = "serving" /\ stopped = "no"
    /\ pc' = [pc EXCEPT ![p] = "start"]
    /\ UNCHANGED <<kind, pipes, pool, outer, dialling>>

\* AcceptStream fails, and the deferred CloseWithError takes the streams along;
\* activeConns stays.
ServingEnds(p) ==
    /\ ext[p] = "serving"
    /\ ext' = [ext EXCEPT ![p] = "closed"]
    /\ end' = [end EXCEPT ![p]["a"] = "dead"]
    /\ pc' = [pc EXCEPT ![p] = IF @ = "accept" THEN "done" ELSE @]
    /\ UNCHANGED <<kind, go, buf, ctx, pool, stopped, active, dialling>>

-----------------------------------------------------------------------------
\* Starting

\* The stream or the header cannot be written, or the dial fails.
GiveUp(p) ==
    /\ pc[p] \in {"start", "dial"} /\ kind[p] \in Managed
    /\ pc' = [pc EXCEPT ![p] = "done"]
    /\ UNCHANGED <<kind, pipes, pool, outer, dialling>>

\* Get: sync.Pool hands out a buffer that was put back, or makes one.  That it
\* never makes one while it has one is the case in which buffers are shared.
Get(s) == IF s /= {} THEN Min(s) ELSE made + 1

\* The goroutines look at the context before their first read: the handler may
\* have been cancelled since the stream was opened.  (One that looks before the
\* cancellation and one after it are as two of which one has ended since.)
FirstLook(p) == IF Cancelled(p) THEN "end" ELSE "read"

Start(p) ==
    LET x == Get(free)
        y == IF kind[p] \in OneBuffer THEN x
             ELSE IF x \in free THEN Get(free \ {x}) ELSE made + 2
    IN  /\ \/ pc[p] = "start"
           \/ pc[p] = "open" /\ uses[p] \in live
        /\ buf' = [buf EXCEPT ![p] = [d \in Dir |-> IF d = "ab" THEN x ELSE y]]
        /\ free' = free \ {x, y}
        /\ made' = made + Cardinality({x, y} \ (1 .. made))
        /\ pc' = [pc EXCEPT ![p] = "copy"]
        /\ go' = [go EXCEPT ![p] = [d \in Dir |-> FirstLook(p)]]
        /\ UNCHANGED <<kind, end, ctx, content, wrong, outer, dialling>>

\* handleQUICDataStreamForward: Load, then Dial and Store.
Load(p) ==
    /\ pc[p] = "load"
    /\ uses' = [uses EXCEPT ![p] = conn]
    /\ pc' = [pc EXCEPT ![p] = IF conn = Nil THEN "dial" ELSE "open"]
    /\ UNCHANGED <<kind, pipes, pool, outer, conn, live>>

Dial(p) ==
    /\ pc[p] = "dial" /\ stopped = "no"
    /\ live' = live \union {p}
    /\ conn' = p
    /\ uses' = [uses EXCEPT ![p] = p]
    /\ active' = active + 1
    /\ pc' = [pc EXCEPT ![p] = "open"]
    /\ UNCHANGED <<kind, pipes, pool, stopped, ext>>

\* OpenStreamSync: the context is done or the connection, the stored one
\* included, is gone.
OpenFails(p) ==
    /\ pc[p] = "open"
    /\ Cancelled(p) \/ uses[p] \notin live
    /\ pc' = [pc EXCEPT ![p] = "done"]
    /\ UNCHANGED <<kind, pipes, pool, outer, dialling>>

-----------------------------------------------------------------------------
\* The goroutines.  A goroutine looks at the context only between a write and
\* the next read: a blocked Read does not notice that it is cancelled.

Leave(p, d) ==
    /\ go' = [go EXCEPT ![p][d] = "end"]
    /\ ctx' = [ctx EXCEPT ![p] = @ \/ kind[p] \in Cancels]

ReadData(p, d) ==
    /\ go[p][d] = "read" /\ end[p][Src(d)] = "open"
    /\ content' = [content EXCEPT ![buf[p][d]] = <<p, d>>]
    /\ go' = [go EXCEPT ![p][d] = "write"]
    /\ UNCHANGED <<kind, pc, buf, end, ctx, free, made, wrong, outer, dialling>>

ReadFails(p, d) ==
    /\ go[p][d] = "read" /\ end[p][Src(d)] /= "open"
    /\ Leave(p, d)
    /\ UNCHANGED <<kind, pc, buf, end, pool, outer, dialling>>

\* The peer is gone, or the handler has closed its streams.
WriteFails(p, d) ==
    /\ go[p][d] = "write"
    /\ end[p][Dst(p, d)] = "dead" \/ pc[p] = "done"
    /\ Leave(p, d)
    /\ UNCHANGED <<kind, pc, buf, end, pool, outer, dialling>>

WriteData(p, d) ==
    /\ go[p][d] = "write" /\ end[p][Dst(p, d)] /= "dead" /\ pc[p] /= "done"
    /\ wrong' = IF content[buf[p][d]] = <<p, d>> THEN wrong ELSE wrong \union {p}
    /\ content' = [content EXCEPT ![buf[p][d]] = Nil]
    /\ IF Cancelled(p) THEN Leave(p, d)
       ELSE go' = [go EXCEPT ![p][d] = "read"] /\ ctx' = ctx
    /\ UNCHANGED <<kind, pc, buf, end, free, made, outer, dialling>>

\* Mutant: every handler waits for one direction only.
Ready_First(p) ==
    \E d \in Dir : go[p][d] = "end"

\* The end of a handler.  It waits for both directions, closes the streams and
\* gives the buffers back; forwardHTTP3Stream waits for one, and its deferred
\* calls give the buffer back first and cancel and close after.
Ready(p) ==
    IF kind[p] = "http3" THEN \E d \in Dir : go[p][d] = "end"
    ELSE \A d \in Dir : go[p][d] = "end"

Return(p) ==
    /\ pc[p] = "copy" /\ Ready(p)
    /\ pc' = [pc EXCEPT ![p] = IF kind[p] = "http3" THEN "put" ELSE "done"]
    /\ free' = IF kind[p] = "nilpool" THEN free
               ELSE free \union {buf[p][d] : d \in Dir}
    /\ UNCHANGED <<kind, pipes, made, content, wrong, outer, dialling>>

CloseStreams(p) ==
    /\ pc[p] = "put"
    /\ pc' = [pc EXCEPT ![p] = "done"]
    /\ ctx' = [ctx EXCEPT ![p] = TRUE]
    /\ UNCHANGED <<kind, go, buf, end, pool, outer, dialling>>

-----------------------------------------------------------------------------
\* The outside

Running(p, d) == go[p][d] \in {"read", "write"}

\* A peer sends no more, or its connection is lost; the connections of the
\* managed handlers are lost by ServingEnds, Disconnect and LocalConnEnds.
PeerEnds(p, e, how) ==
    /\ \E d \in Dir : Running(p, d)
    /\ end[p][e] = "open"
    /\ kind[p] \in Managed => how = "fin"
    /\ end' = [end EXCEPT ![p][e] = how]
    /\ UNCHANGED <<kind, pc, go, buf, ctx, pool, outer, dialling>>

\* closeTunnel of the server or Stop of the client: the context is cancelled and
\* then the connection closed, with the streams on it.  There is one connection here:
\* Stop does not close one that a reconnect has abandoned (ClientConns).
Stop ==
    /\ stopped = "no" /\ \E p \in Pipe : kind[p] \in Managed
    /\ stopped' = "cancelled"
    /\ UNCHANGED <<kind, pc, pipes, pool, ext, active, dialling>>

Disconnect ==
    /\ stopped = "cancelled"
    /\ stopped' = "disconnected"
    /\ end' = [p \in Pipe |->
                  CASE kind[p] \in Server -> [end[p] EXCEPT !["b"] = "dead"]
                    [] kind[p] = "local" -> [end[p] EXCEPT !["a"] = "dead"]
                    [] OTHER -> end[p]]
    /\ UNCHANGED <<kind, pc, go, buf, ctx, pool, ext, active, dialling>>

\* A local connection goes and takes its streams with it.
Severed(c) ==
    [p \in Pipe |-> IF uses[p] = c THEN [end[p] EXCEPT !["b"] = "dead"] ELSE end[p]]

LocalConnEnds(c) ==
    /\ c \in live
    /\ live' = live \ {c}
    /\ end' = Severed(c)
    /\ UNCHANGED <<kind, pc, go, buf, ctx, pool, outer, conn, uses>>

\* Mutant: Stop closes the connections in the map.
CloseOnDone_Mapped(c) ==
    /\ c \in live /\ c = conn /\ stopped /= "no"
    /\ live' = live \ {c}
    /\ end' = Severed(c)
    /\ UNCHANGED <<kind, pc, go, buf, ctx, pool, outer, conn, uses>>

\* The goroutine that waits for the client's context.
CloseOnDone(c) ==
    /\ c \in live /\ stopped /= "no"
    /\ live' = live \ {c}
    /\ end' = Severed(c)
    /\ UNCHANGED <<kind, pc, go, buf, ctx, pool, outer, conn, uses>>

-----------------------------------------------------------------------------

FirstStep(k) ==
    CASE k \in Server -> "conn" [] k = "local" -> "load" [] k = "none" -> "done"
      [] OTHER -> "start"

Init ==
    /\ kind \in Scenario
    /\ pc = [p \in Pipe |-> FirstStep(kind[p])]
    /\ go = [p \in Pipe |-> [d \in Dir |-> "off"]]
    /\ buf = [p \in Pipe |-> [d \in Dir |-> Nil]]
    /\ end = [p \in Pipe |-> [e \in End |-> "open"]]
    /\ ctx = [p \in Pipe |-> FALSE]
    /\ free = {} /\ made = 0
    /\ content = [b \in Buffer |-> Nil]
    /\ wrong = {}
    /\ stopped = "no" /\ active = 0
    /\ ext = [p \in Pipe |-> "new"]
    /\ conn = Nil /\ live = {}
    /\ uses = [p \in Pipe |-> Nil]

\* What the goroutine of a handler does by itself.
Handler(p) ==
    \/ NotifyFails(p) \/ Notify(p)
    \/ GiveUp(p) \/ Start(p) \/ Load(p) \/ Dial(p) \/ OpenFails(p)
    \/ Return(p) \/ CloseStreams(p)

Next ==
    \/ \E p \in Pipe :
          \/ Handler(p)
          \/ AcceptStream(p) \/ ServingEnds(p)
          \/ LocalConnEnds(p) \/ CloseOnDone(p)
          \/ \E d \in Dir :
                \/ ReadData(p, d) \/ ReadFails(p, d)
                \/ WriteData(p, d) \/ WriteFails(p, d)
          \/ \E e \in End, how \in {"fin", "dead"} : PeerEnds(p, e, how)
    \/ Stop \/ Disconnect

Spec == Init /\ [][Next]_vars

\* A goroutine that can run does; nobody has to send, to end or to stop.
\* AcceptStream must fail only once the tunnel's context is done.
FairSpec ==
    /\ Spec /\ WF_vars(Disconnect)
    /\ \A p \in Pipe :
          /\ WF_vars(Handler(p)) /\ WF_vars(CloseOnDone(p))
          /\ WF_vars(stopped /= "no" /\ ServingEnds(p))
          /\ \A d \in Dir : WF_vars(ReadFails(p, d) \/ WriteFails(p, d) \/ WriteData(p, d))

-----------------------------------------------------------------------------
\* Properties

\* Types; a buffer is in the pool only after it was made.
TypeOK ==
    /\ pc \in [Pipe -> {"conn", "accept", "start", "load", "dial", "open",
                        "copy", "put", "done"}]
    /\ go \in [Pipe -> [Dir -> {"off", "read", "write", "end"}]]
    /\ buf \in [Pipe -> [Dir -> Buffer \union {Nil}]]
    /\ end \in [Pipe -> [End -> {"open", "fin", "dead"}]]
    /\ free \subseteq 1 .. made /\ made \in 0 .. MaxBuffers
    /\ wrong \subseteq Pipe /\ live \subseteq Pipe

\* An HTTP/3 handler that has given its buffer back, maybe too early.
Early(p) == kind[p] = "http3" /\ pc[p] \in {"put", "done"} /\ buf[p]["ab"] /= Nil

\* Every direction writes the bytes it read, "Use separate buffers for each
\* direction to avoid race condition" (quic.go:1599): they are mixed only in a
\* handler with one buffer, and in others only after an HTTP/3 handler has given
\* its buffer back while a goroutine still reads into it (quic.go:1834).
MixedOnlyByOneBuffer ==
    \A p \in wrong : kind[p] \in OneBuffer \/ \E q \in Pipe : Early(q)

\* A buffer in the pool is nobody's, and no two handlers have the same one, the
\* HTTP/3 handler that runs on excepted (pool.go:40).
PooledIsUnused ==
    \A p \in Pipe, d \in Dir : Running(p, d) /\ ~ Early(p) =>
        /\ buf[p][d] \notin free
        /\ \A q \in Pipe \ {p}, c \in Dir :
              Running(q, c) /\ ~ Early(q) => buf[q][c] /= buf[p][d]

\* Every buffer comes back: when all handlers have returned, the pool has all
\* buffers it gave out (quic.go:1657, 3545).
BuffersReturn ==
    (\A p \in Pipe : pc[p] = "done" /\ kind[p] /= "nilpool") => free = 1 .. made

\* activeConns counts a QUIC connection for ever: it goes down only when NEWCONN
\* cannot be written (quic.go:1536), and never for a local one (quic.go:3463).
ServedStaysCounted ==
    active = Cardinality({p \in Pipe : ext[p] \in {"serving", "closed"}})
             + Cardinality({p \in Pipe : uses[p] = p})

\* A handler whose two ends have both ended returns, and leaves no goroutine
\* behind.
PipesEnd ==
    \A p \in Pipe :
        pc[p] = "copy" /\ (\A e \in End : end[p][e] /= "open") ~>
            pc[p] = "done" /\ \A d \in Dir : ~ Running(p, d)

\* closeTunnel and Stop end every handler of the tunnel or the client, although
\* blocked reads do not notice the context, because the connections are closed
\* under them, every local connection too, also one whose entry a second dial
\* has replaced (quic.go:1519, 2071, 3468).
StopEndsPipes ==
    stopped /= "no" ~>
        /\ live = {}
        /\ \A p \in Pipe : kind[p] \in Managed =>
              pc[p] = "done" /\ \A d \in Dir : ~ Running(p, d)

\* Buffers and counts: a buffer has one user at a time and comes back, no byte
\* reaches the wrong stream, and activeConns follows what was served, the
\* handlers with one buffer and the early Put of HTTP/3 excepted.
BuffersOwned ==
    TypeOK /\ MixedOnlyByOneBuffer /\ PooledIsUnused /\ BuffersReturn /\ ServedStaysCounted

\* A handler ends when its streams do, and all end when the tunnel or client does.
HandlersEnd == PipesEnd /\ StopEndsPipes

=============================================================================
