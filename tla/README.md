# go-tunnel in TLA+

go-tunnel forwards connections from a public server, through one QUIC connection
per client, to services behind the client.  This directory specifies its
concurrent core in TLA+, model-checks it with TLC, and proves part of it with
TLAPS.  `PROJECT.json` lists the runs, the mutants, the hazards and, for every definition, the lines of the source it stands for.

## 1. The system

### Parts, state and operations

| part | state | operations | hard because |
|---|---|---|---|
| `MuxServer` (quic/quic.go): tunnel life cycle | `tunnels`, `tunnelByDomain`, `PortManager.used`, `activeTunnels`, one handler goroutine per QUIC connection | register, session restore, control loop, `closeTunnel`, health check, `Stop` | maps without a common lock; `closeTunnel` has three kinds of caller and is not idempotent |
| external listeners (quic/quic.go) | `externalListener`, the bound socket, the port | `startExternal…Listener`, `closeTunnel` | a goroutine owns what another one closes |
| external connections (quic/quic.go) | `ExternalConns`, `streamActivity`, `activeConns`, `connLimiter` | accept, forward, CLOSE, idle sweep, `closeTunnel` | four parties close and count one connection |
| circuit breaker (internal/circuit) | state, three atomic counters, a mutex | `Allow`, `RecordSuccess`, `RecordFailure`, `Reset`, `ForceOpen` | lock-free reads next to locked transitions |
| limiters (internal/limiter) | atomic counters | `Acquire`, `Release`, composites | compare-and-swap loops, rollback |
| `MuxClient` (quic/quic.go): connection loop | connection, control stream, `reconnectCh`, retry counts | connect, 0-RTT restore, reconnect, heartbeat, `Stop` | goroutines of an old connection meet the new one |
| client connections (quic/quic.go) | `localConns`, `localQUICConns`, `activeConns` | NEWCONN, DATA, CLOSE, data streams, `Stop` | two control loops, late stores |
| control stream and headers (quic/quic.go, protocol.go) | bytes in flight | build and parse messages | one `Read` is taken for one message |
| copying between streams (quic/quic.go, forwarder.go, internal/pool) | buffers, their owners | `Get`, copy loops, `Put` | a buffer with two readers, or given back early |
| multiplexing (forward/mux.go) | `connections`, `activeConns`, frames | add, remove, incoming frame, close, `ForwardHTTP` | removal by ID, one connection for many requests |
| protocol tunnel (tunnel.go, forward/, cmd/proxy) | a listener, handlers, file descriptors | `Start`, accept, `HandlePair`, `Stop` | raw descriptor numbers, a pause nobody ends |
| refactored server pieces (quic/tunnel_registry.go, conn_manager.go, stream_handler.go, protocol_router.go) | the same maps again | | built or not, never called |
| support (internal/connmgr, connpool, shutdown, health) | permits, callbacks | | used by the server facade or by nothing |
| wiring (server/, tcp, http2, http3, tls, config) | | | |

How they interact: a client's QUIC connection is accepted by `acceptLoop`, passes the
circuit breaker in `handleConnection`, and its control stream registers a tunnel.
Registration allocates a port, stores the tunnel under its ID (and domain), acks, and
starts the listener goroutine.  The listener hands external connections to handler
goroutines, which take a slot of the connection limiter, store the connection in the
tunnel and forward its bytes through the control stream or a data stream.  A tunnel is
torn down by `closeTunnel`, called by its control loop, by the health check and by
`Stop`, which cancels the tunnel's context and closes listener, connection and external
connections; every goroutine of the tunnel must then notice.  The client dials, registers or restores,
and starts a heartbeat and a control loop per connection; whoever sees the connection fail puts a
token into `reconnectCh`, and `connectLoop` dials again.  NEWCONN and CLOSE messages and data streams
make it open and close connections to the local service.  Beside all this, `tunnel.go` is a plain
forwarding proxy: an accept loop, a dial and two copying goroutines per connection.

### What makes it correct

* a port is in use exactly while one tunnel holds it; none leaks;
* the two maps lead to live tunnels only, and live tunnels stay reachable;
* `closeTunnel`, by whomever and however often, ends every goroutine of the tunnel;
* connection count and limiter slots return to zero;
* the breaker always leaves half-open, and misses no threshold;
* a limiter admits as many as it says, and gives everything back after a refusal;
* a client notices the loss of its connection, reconnects, and can be stopped at any moment;
* both ends of the control stream agree on the open connections, as long as every read is of one message;
* every byte copied goes to the peer it was read for; a pooled buffer has one owner;
* closing anything, in any order, ends its goroutines and closes its sockets, as far as §3 says.

## 2. Modules

`X.tla` is a component, `MCX.tla` and the `.cfg` files instantiate it for TLC.  Theorems are in the
`…Proofs` modules: `MuxServerProofs`, `ExternalProofs` (`ServerConns` and `TunnelListener`),
`AdmissionProofs` (`Limiter` and `Breaker`), `ClientProofs` (`ClientConns` and `MuxClient`),
`ForwardProofs` (`Pipes` and `ProtoTunnel`), `CodecProofs`, `MuxProofs` and `WireProofs`.  Four of them
extend two components that are checked apart from each other; the second one's names are therefore its
own (`BreakerSpec`, `ClientSpec`, `ListenerSpec`, `TunnelSpec`, and so on; `place` is its program counter).

| module | models |
|---|---|
| `MuxServer` | the tunnel life cycle: one action per access to shared state |
| `TunnelListener` | listener goroutines, sockets and ports against `closeTunnel` |
| `ServerConns` | the external connections of one tunnel |
| `Breaker` | the circuit breaker, callers running concurrently inside it |
| `Limiter` | `ConnectionLimiter`, `GoroutineLimiter`, `CompositeLimiter` |
| `Semaphore` | what the limiters promise: an abstract counting semaphore |
| `MuxClient` | the client's connection loop, retries, heartbeat and control loops, `Stop` |
| `ClientConns` | the client's local connections against messages, data streams and `Stop` |
| `Codec` | the byte formats, as operators: control messages, session header, mux frames |
| `Wire` | client and server composed over one control stream of bytes |
| `Mux` | `MuxConnManager`, `ForwardBidirectionalMux` and `ForwardHTTP` over `Codec`'s frames |
| `Pipes` | the handlers that copy between two streams with pooled buffers, on both ends |
| `ProtoTunnel` | the protocol tunnel, its forwarders and the process that runs it |

Throughout, a step is one access to state shared between goroutines; adjacent accesses
are one step only where no other goroutine can tell.  Definitions called `X_Something`
in front of `X` are mutants: `X` with a plausible bug.  They are used by nothing else.

**MuxServer.**  A session is a QUIC connection, the `handleConnection` goroutine that
serves it and the `Tunnel` it may create.  `pc[s]` is the place of the handler: waiting
for the first message (`hello`), allocating, storing, storing the domain, in the control
loop (`loop`, `read`), in `closeTunnel`, or done.  `progress[c][t]` is the last statement
that caller `c` has executed of `closeTunnel(t)`; callers are the sessions' control loops,
the health check and `Stop`.  `HealthVisit`/`HealthTimeout` and `StopVisit` are the two
`Range` loops: what is loaded may be gone by the time it is closed.  A session restore of
a known ID rebinds `conn` (`Rebind`); of an unknown one it builds a tunnel as a registration
does, with a port and a listener if it is TCP or QUIC, but checks neither token nor limit and
stores no domain.  Abstracted: message contents, tokens, which reads fail (any may), the
age of `LastActive` (the health check may find any tunnel too old).

**TunnelListener.**  `Listen`, `StoreListener`, `Top`, `Accept`, `CloseOwn`, `Clear` and
`Unbind` are the goroutine's statements, for the TCP and the two QUIC listeners at once:
closing a TCP listener unbinds the port, closing a QUIC one leaves the UDP socket to the
goroutine's deferred `Close`; only QUIC's `Accept` watches the context.  Each of several
closers may run `closeTunnel` on every tunnel once.  `Foreign` are ports that another
program may have bound.

**ServerConns.**  A `tcp` connection is forwarded by `forwardExternalToControl`, and by
`forwardBidirectional` as well once the client opens a data stream for it (one per
connection); a `domain` connection by `forwardBidirectional` alone.  `counted[x]` is what
`x` has contributed to `activeConns`.  Refusals before a slot is taken are one action
(`RefuseDomain`).  Deletions and decrements next to each other are one step; `Load` and
`Delete` in the idle sweep are two.

**Breaker.**  `want[r]` is what a caller waiting for the mutex is going to do: leave one
of the states `from` for `to` (the double check), then go on as `next`.  `Lock` stores the
new state, `ResetCounters` clears the counters and unlocks, so lock-free callers see the
state between.  A caller that got through is `working`, or `probing` if half-open; it ends
with `Finish` (Execute) or `Abandon` (the paths of `MuxServer.handleConnection` that
record nothing, after which that goroutine is gone).  Time is `expired`, which `Elapse` sets
and a failure clears.

**Limiter.**  `at[g]` is the limiter of the composite a caller is at, `seen[g]` the value
it loaded, `upto[g]` the last limiter it has to give back.  `Semaphore` has only the set
`holders`, which grows only while it stays within every maximum; the refinement mapping takes the
callers between a successful `Acquire` and the start of `Release`.

**MuxClient.**  Connections are numbered as they are dialled.  `loop` is the place of `connectLoop`,
`mode` and `attempt` that of the retrier's `Do` inside it, `token` the content of `reconnectCh` (with
the connection whose loss put it there, which the code does not know).  The heartbeat and control
loops are counted by what they do, since none knows which connection it was started for: `CtlTop`
reads whatever the control stream is by then.  `Lose` ends a connection at any moment.  The
acknowledgement may fail, refuse or accept.

**ClientConns.**  `busy[l]` is the message control loop `l` is handling; two loops, since `MuxClient`
shows that a reconnect may leave two.  A connection is opened by NEWCONN (`DialLocal`; these are the
`Announced` ones) and read by `forwardLocalToControl` (`Fwd…`), or opened by a data stream and piped both ways
(`In`, `Out`, `StreamEnd`).  `counted[x]` is what `x` has contributed to `activeConns`.  `Reconnect` replaces
`s.conn` and closes nothing: loops in `Read` stay with the stream they read (`held`), the data streams of
the connection stay with it (`old`), and only `OldEnds` and `DataStreamEnds`, the server or the network, end them.

**Codec, Wire.**  Bytes are numbers below 256, strings are sequences of them.  A decoder answers a
record, `Err`, or `Panic` where the code indexes past what it read or slices to a negative length.  A stream
is the sequence of the writes not read yet, of which a `Read` takes any number of bytes (`InFlight`, `AfterRead`,
`EndsInside`); `Wire` and `Mux` both read that way.  `Wire` keeps the writes in flight
each way; a `Read` takes any number of the bytes, up to `MaxCuts` times not exactly one write.  The
server's `StreamType`, `Store`, `Ack` and `ServerRead`, and the client's `ReadAck` and `ClientRead`,
parse what was read with `Codec`'s operators; `said` and `acted` are what was written about a
connection and what a reader did because of it.  `split` are the directions in which a read has ended inside
a message, `shifted` is set by the next read there, which begins with the rest of it.

**Mux.**  `use` is which of the three users has the shared connection.  `AddConnection` stores over whatever the
ID has (`replaced`); `Forget` is the `LoadAndDelete` and decrement that three callers share.  `HandleIncoming` takes
the bytes of one frame, which its caller has to find.  The pair and `ForwardHTTP` read the shared connection themselves: the peer appends the
bytes of its frames to `inbox` (`PeerSends`), and `Read(n)` takes any number of them, which `Got(n)` decodes as one
message; `cut` and `shifted` are as in `Wire`, `crashed` is a panic of `Decode`.  `took` is what the last read made the pair write or close,
`result` what a request returned, and `late` records that two requests waited at once or one gave up.

**Pipes.**  A handler has two ends and a goroutine per direction, which reads into `buf[p][d]` and
then writes from it; `content[b]` is the direction that last read into buffer `b`.  The kinds differ in
the number of buffers, in when they give them back, and in what ends them, as the code's handlers do.
The "local" kind shares one entry of `localQUICConns` (`Load`, `Dial`).  The client has one connection here:
what a reconnect does to the streams of an older one is in `ClientConns`.

**ProtoTunnel.**  Descriptors have numbers and the kernel reuses them: `raw[c][d]` is what the
goroutine remembers, `owner[f]` who has `f` now, `stray` the goroutines that moved bytes from or to
somebody else's.  `SpliceAgain` pauses for ever.  `Exit` ends the process after `Stop`.

## 3. Runs

| run | bounds | shows |
|---|---|---|
| `server_lifecycle` | 2 sessions of one client (register with or without a port, or restore), 1 port, 1 domain, both other closers | port pool, both maps and counter survive every interleaving, but for what the properties name |
| `server_liveness` | 2 sessions, registrations, tunnel limit 1 | abandoned tunnels are reaped; closed ones end |
| `listener` | 1 TCP and 1 QUIC tunnel, 1 port, 2 closers | nobody is left in `Accept`; a socket on a free port is on its way out; `closeTunnel` ends the goroutine with no connection arriving |
| `conns` | 1 TCP, 1 domain connection, 1 slot | map, counter and slots agree up to the named errors; `closeTunnel` ends all forwarders |
| `breaker` | 3 callers, thresholds 2, 1 request | no missed or overlapping transition; half-open is left |
| `limiter` | 3 callers, maxima 2 then 1 | exact counters, refinement, lock-freedom |
| `client` | 3 connections, 1 retry, 0-RTT enabled | a loss is noticed and replaced, the client is never deaf, connecting ends, `Stop` hangs only on a stranded loop |
| `client_conns` | 1 connection of a NEWCONN, 1 of a data stream, 2 control loops, any number of reconnects | counter errors are bounded; a CLOSE ends its connection; `Stop` leaves no local connection open, and returns unless something blocks in a `Read` of a connection that a reconnect abandoned |
| `wire` | 2 connections, 3 requests, 1 extra message, 1 read that cuts or joins | registration is exact; nobody acts on what was not said before a read begins with the rest of a cut message; while reads are of whole messages both ends agree and nobody crashes; data streams and headers arrive |
| `mux` | 2 connections over 2 IDs, 1 data frame each way; a pair or 2 requests, 2 frames of the peer, reads of any length | counter exact but for connections stored over, removals have a reason, CLOSE is sent, frames exact; a request returns, and a pair copies, the whole message as long as no read has cut a frame, and its beginning in the read that cuts the first; `Decode` panics only after that; `Close` and the end of a pair end their goroutines |
| `pipes` | 2 handlers that share a pool or a connection | bytes are mixed only where one buffer has two readers; buffers return; everything ends |
| `tunnel` | 2 handlers or 1 and a pair, 2 descriptors | bytes go astray only through a goroutine left behind; `Stop` makes every handler close |

Related invariants are checked together, as a conjunction of named parts that has a name of its own:

| checked as | parts |
|---|---|
| `ServerConns!ExternalTable` | `TypeOK`, `CountBounded`, `DeadIsForgotten` |
| `MuxClient!ReconnectIffLost` | `ClientTypeOK`, `NeverDeaf`, `TokenIsOfLost` |
| `MuxClient!Reconnects` | `LostIsNoticed`, `RoundsEnd` |
| `ClientConns!LocalTable` | `TypeOK`, `CountBounded` |
| `ClientConns!ConnsEnd` | `CloseReaches`, `HalfClosedWaitsForLocal` |
| `Wire!Registration` | `TypeOK`, `RegistersWhatWasSent`, `ConnectedKnowsTunnel` |
| `Wire!ControlStream` | `UnsplitActsOnSent`, `WholeReadsAgree`, `CrashOnlyOnSplit` |
| `Wire!DataStreams` | `StreamReachesItsConn`, `HeaderDecodes` |
| `Mux!MuxTable` | `TypeOK`, `CountMatches`, `ClosedForAReason`, `SilentOnlyByReset` |
| `Mux!MuxReads` | `OwnResponse`, `PairCopies`, and that `Decode` panics only on what follows a cut |
| `Mux!MuxEnds` | `CloseDrains`, `PairEnds` |
| `Pipes!BuffersOwned` | `TypeOK`, `MixedOnlyByOneBuffer`, `PooledIsUnused`, `BuffersReturn`, `ServedStaysCounted` |
| `Pipes!HandlersEnd` | `PipesEnd`, `StopEndsPipes` |
| `ProtoTunnel!DescriptorsOwned` | `TunnelTypeOK`, `StrayOnlyAfterClose` |
| `ProtoTunnel!TunnelHandlersEnd` | `HandlersClose`, `LeftBehindOnlyBySplice`, `PairEnds`, `DeadlineEndsBuffered` |

The type invariants of `MuxServer`, `TunnelListener`, `Breaker` and `Limiter` are proved and not run.

The bounds let the interesting cases happen.  Two sessions are needed for one ID to be registered
twice and for a restore; two closers for a double close; one port so that it runs out and is reused
at once; a composite whose second limiter is the smaller so that it refuses and the first is rolled
back; SuccessThreshold = MaxRequests + 1, the largest with which half-open can be left.  With three
connections a stale token can make the client give up the second, and the third shows what becomes
of its readers.  One cut is enough to join two messages, to split one, and to leave its rest at the head of the
next read; the payload of `wire` is itself a NEWCONN message, so that this rest may be taken for one.  An ID of
300 bytes makes a length need its high byte; the mux payload holds `:`, digits and a
newline, and is the text of a frame with a negative length, which a read that begins there makes `Decode` panic on.
`Uses` chooses the users of `Mux` for a run and `PairTypes` what the peer of a pair sends (a NEWCONN, which a pair ignores, is
left out of the run and not of the proofs); `MaxFrames` bounds the data written and what a manager is
given, `MaxSent` what the peer of a pair or of requests sends: two frames are joined or the first is cut.  Two descriptors are just one handler's, so the second gets the numbers of the first, and
cannot dial before.  Symmetry of sessions is used in safety runs only.  Deadlock checking is off where
a run may end: every session, tunnel or connection is used once, and a caller of the breaker may be gone.

### Where the code falls short

Met while modelling.  A property that says the opposite fails at once, so none of these has a run; each
model contains the behaviour, and a passing property, named in brackets, says how far the damage goes.

Server:

* a second `closeTunnel` releases by number a port that a newer tunnel may hold, quic.go:2089
  [`PortLostOnlyByDoubleClose`], and counts the tunnel off again [`CountSkewedOnlyByDoubleClose`];
* closing a client's old tunnel deletes the map entry and the domain of its new one, quic.go:2094-2097
  [`UnmappedOnlyBySameId`, `UnroutedOnlyBySameDomain`];
* a restored connection is closed by the deferred close of its handler, quic.go:849 and 1188; after a
  restore `closeTunnel` closes the new connection while the control loop is blocked on the old one,
  hence `server_liveness` has no restores;
* the tunnel limit is checked before, and counted after, the tunnel is built (quic.go:971), and a
  restore does not check it; a tunnel stored after `Stop`'s `Range` has passed stays registered (quic.go:682);
* a QUIC tunnel's port is reassigned while its UDP socket is bound; the next tunnel cannot listen and
  stays registered, quic.go:1457 and 2089 [`FreePortIsLeft`];
* `handleTCPConnection` never releases its slot, quic.go:842 [`SlotsLostOnlyByDomain`];
* `forwardExternalToControl` decrements `activeConns` without looking [`CountBounded`]; external QUIC and
  HTTP/3 connections, and the client's local QUIC connections, are never counted off [`ServedStaysCounted`];
* `forwardHTTP3Stream` has one buffer for two directions and gives it back when the first ends,
  quic.go:1824 [`MixedOnlyByOneBuffer`, `PooledIsUnused`];
* half-open is left for certain only if SuccessThreshold <= MaxRequests + 1, which the defaults (3 and 1,
  circuit.go) do not satisfy; a request that ends without a result (most error paths of
  `handleConnection`) uses up half-open quota for good [`HalfOpenResolves`].

Client and control stream:

* both loops of a lost connection put a token into `reconnectCh`; the second makes the client give up a
  healthy connection without closing it, and `Stop` then waits for the loop that reads it
  [`TokenIsOfLost`, `ClientStopIsClean`];
* with unlimited retries the 0-RTT attempt never returns an error, and the fallback is never tried
  [`RoundsEnd` is about bounded ones];
* `Stop` closes only `s.conn` (quic.go:2599-2603), and a reconnect (2744) does not close the one before: control
  loops and data streams of it go on, and `wg.Wait` waits for them until the server ends them
  [`StopIsClean`, with `Stuck` for exactly these];
* external data is sent in the text frames of `MuxEncoder` (quic.go:1941), which the client's control
  loop (3081) takes for an unknown message type and drops.  The payload goes into the frame as it came from outside: if a read
  cuts the frame and the rest begins with the byte of a message type, the rest is acted on as that
  message [`FirstCutHarmless`: not before such a rest is read];
* a read is taken for one message: messages joined in a read are lost but the first, and
  `readRegisterAck` and `handleNewConn` index past one that was cut [`CrashOnlyOnSplit`, `WholeReadsAgree`];
* the server's `handleDataStream` does not read the AddrType byte of the header that `Encode` writes
  (quic.go:1314), so that the two agree on legacy headers only [`HeaderDecodes`];
* a config update sent between the registration and its acknowledgement makes the registration fail
  [`ConnectedKnowsTunnel`];
* a CLOSE that another control loop handles during the dial misses its connection [`CloseReaches`];
* an entry of `localQUICConns` is never deleted, and a second dial replaces it (quic.go:3437) [`StopEndsPipes`].

Libraries and protocol tunnel:

* `RunBidirectionalForward` and `StreamForwarder` pass each stream both as reader and as writer of one
  direction, which echoes it (forwarder.go:193); without a pool both directions share a buffer;
* `AddConnection` stores over an ID in use (mux.go:828-831): the connection there stays counted for good, and
  neither `RemoveConnection` nor `Close` closes it, so that its forwarder waits for its own end [`CountMatches`, `CloseDrains`];
* the readers of mux.go take one `Read` for one frame (733, 985): frames joined in a read are lost but the first; of a
  text frame that was cut the decoder takes the payload there is (531-534), so that `ForwardHTTP` returns the beginning of a
  response, or nothing, as success; the rest may be taken for a frame of its own, and one with a
  negative length makes `Decode` panic (527-533) [`MuxReads`];
* a mux forwarder that ends removes a newer connection of its ID [`ClosedForAReason`]; `IsClosedErr` does
  not look into `os.SyscallError`, so that a reset is not reported by a CLOSE [`SilentOnlyByReset`];
  `ForwardHTTP` never clears its read deadline, and a late response fails the next request [`OwnResponse`];
* `spliceForward` pauses on EAGAIN and nobody resumes it; a goroutine left behind by its handler goes on
  with descriptor numbers that may be another connection's; `getFd` answers 0 for a closed connection
  [`LeftBehindOnlyBySplice`, `StrayOnlyAfterClose`].  According to splice(2) one descriptor has to be a pipe;
  the model allows both outcomes of the call;
* `Tunnel.Stop`, "waits for all active connections to complete" (tunnel.go:401), waits for the accept loop
  only [`HandlersClose`]; the connection deadline does not reach splice [`DeadlineEndsBuffered`];
* not modelled: `shutdown.Shutdown` without a handler returns with its mutex locked (shutdown.go:239), and
  callbacks sorted by priority are started all at once.

### Fairness

Only what the Go scheduler and runtime give: a goroutine whose next step needs nobody else takes it
(weak fairness), and a mutex starves nobody (strong fairness of `Breaker!Lock`; Go's mutex has a
starvation mode).  `MuxServer` also has the health check's `Range` come back to every ID, and
find too old a tunnel whose handler has returned, since nothing updates its `LastActive` any more.
`MuxClient` has strong fairness of `HbEnds`: a `select` with a tick and a done context both ready
chooses at random, so that it does not take the tick for ever.  Its dials and acknowledgements end one way or the other.
A `Read` or `Accept` has to return only when its connection was closed, was reset or has ended: in `ClientConns`
not when only `s.conn` was closed and it reads an older one, in `ProtoTunnel` not when only the connection written to has
ended.  A reader of `Mux` need not get what was sent over a connection that then broke; nothing runs after a panic.
`Breaker` assumes that requests keep coming and end.  Nothing is assumed of clients, of the
network, of connections or data arriving, or of anyone calling `closeTunnel`.

## 4. Proofs

All for arbitrary constants (finite sets where a cardinality is involved).  Every component has a theorem
`…InductiveInvariant`, that its specification keeps an inductive invariant `…IInv`, with one lemma per part
and one case per action; the properties follow from it.  Each such invariant holds on the instance of its
run as well.

* `MuxServerProofs`: `IInv` is the checked invariants and, needed to make them inductive,
  `HandlerInv` (what a handler at a given place has: a request, a port or none yet) and `CloserInv`
  (a caller of `closeTunnel` holds a tunnel that exists; a control loop closes its own; the health
  check calls it on a tunnel it has loaded from the map, hence on none it has finished with).  From it: `TypeCorrect`, `NoPortLeaks`,
  `PortsLostOnlyByDoubleClose`, `MappedTunnelsAreLive`, `LiveTunnelsAreMapped`, `RoutesAreLive`,
  `RoutesLostOnlyBySameDomain`, `CountIsExact` and the action property `CloseOncePerCaller`.  The count is
  followed step by step (`CountStep`): the live tunnels are finitely many, which is part of `IInv` and no
  assumption, and a closer's progress never goes back (`ProgressGrows`).
* `ExternalProofs`, `ServerConns`: `Safe(x)` speaks of one connection, so that a step is shown to preserve it for the
  connection it is about and to leave the others alone (`OwnStep`, `OthersSame`).  `Floor(x)` is how far the
  unconditional decrements may have taken the count, by where the sweep and the forwarder are; it makes
  `CountBounded` inductive and gives `TableIsSound`.  `SlotsInv` counts the handlers that hold a slot and the
  domain connections that lost one, and gives `SlotsAreAccounted`.
* `ExternalProofs`, `TunnelListener`: `ListenerGoroutineInv` ties the goroutine's place to its listener, socket and
  the stored pointer; the conjunct that carries `NobodyLeftInAccept` is that a listener which is
  still stored after a `closeTunnel` has looked is not being accepted on, because `StoreListener` is
  followed by the check of the context that `closeTunnel` cancelled first.  `ListenerPortInv` is
  `MuxServer`'s port property again, and gives `FreePortsAreLeft`.
* `ClientProofs`, `ClientConns`: again one connection at a time.  `Pending(x)` is the number of decrements still to
  come, by writers that have loaded `x` and by its forwarder; with what was already taken off it never exceeds the number of control loops
  (a `CLOSE` message is handled by a loop that is not writing), hence `LocalTableIsSound`.  `Tabled(x)`, that
  what is stored or open has a forwarder, and `AllReturned` give `StopLeavesNothing`.
* `ClientProofs`, `MuxClient`: `MuxClientWatched` is `NeverDeaf` from the moment the goroutines are started, before
  `connectLoop` waits, and adds that `connected` is true while it waits, without which a `heartbeatLoop` could
  end; `MuxClientDialled` says that streams and tokens are of connections that exist.  From them `ReconnectsIffLost`.
  `MuxClientStopped`, that a connection which is up after `Stop` has closed `s.conn` was dialled later and is closed in
  the next step of `connectLoop`, gives `MuxClientStopLeavesNothing`, the safety half of `ClientStopIsClean`.
* `ForwardProofs`, `Pipes`: `Owned` and `Accounted` say where each buffer is, `MadeFew` that two are made at most for
  every handler that started to copy, so that there are never more than `MaxBuffers`; `Intact`, that a direction
  between its read and its write has its bytes in its buffer, carries `MixedOnlyByOneBuffer`.  `StartFacts`
  describes the two calls of `Get`, from the minimum of a set of naturals (`MinIsMember`).  From them `BuffersAreOwned`.
* `ForwardProofs`, `ProtoTunnel`: `Agree(owner, fd)` says that the table of descriptors and the ends of the connections
  are inverse to each other, whatever numbers were freed and given out again; `Stages` which ends are open, by where
  the handler is; `RawIsOwn` that a goroutine remembers its own connection's descriptors as long as its handler has not
  closed.  Together they are inductive and give `DescriptorsAreOwned`; the lemmas `TakeAgrees` and
  `FreedAgrees` are the two ways in which the kernel changes the table.
* `AdmissionProofs`, `Limiter`: `CallerInv` (indices in range, `seen` positive before a decrement) and
  `Accounting`; from them `TypeCorrect`, `CountersAreExact` and the refinement `LimiterImplementsSemaphore`.
* `AdmissionProofs`, `Breaker`: `BreakerThresholdInv`, that whoever brought a counter to its threshold is waiting for
  the lock or inside the transition, makes `NoMissedTransition` inductive (`NoTransitionMissed`, `TransitionsAreExclusive`).
* `CodecProofs`: what is encoded is decoded to itself, for every value and not only for those of the runs: `BinaryRoundTrip`
  and `TextRoundTrip` for the two mux formats, and, for a message followed by anything or cut anywhere,
  `BinaryCutRefused`, `RegistrationExact`, `RestoreExact`, `AckExact`, `HeaderExact`, `StreamHeaderExact` and
  `LegacyHeaderExact`.  `At(p, o, b)`, that the bytes `b` stand behind offset `o` of `p`, is passed from field to field of a format, with one
  lemma for each kind of field.  The text format needs induction over data: numbers are written and read
  back digit by digit; and `TextReads`, by which the first bytes of a text message, followed by others or not, are decoded to
  it, to a message with a beginning of its payload, or refused, and never panic.  A theorem with an operator as parameter cannot be used here, so the
  induction is over the set of numbers that satisfy a formula (`Induction`, from the well-foundedness of `<`), and the
  recursive functions satisfy their equations by `RecursionSolved`.
* `MuxProofs`: `Table`, `Reasons` and `Tells` strengthen the parts of `MuxTable` (an idle handle has no forwarder, one that was
  stored over is in no entry, an ended forwarder had a reason, a local side that was reset is remembered), and give
  `TableIsKept`; `CountAdds` has the two cases of an ID in use and not.  `Frames` says that each
  frame is the text of a message both formats can carry; with `CodecProofs` that gives `FramesAreExact`.
  `Arrivals`, that until a read ends inside a frame what is in flight is whole frames of messages the peer sent, lets `TextReads`
  say what any read of the shared connection is decoded to (`ReadStep`); with `Requests`, that unless one was late or a frame was cut a single request
  waits and what is in flight is its own response, it gives `ReadsAreExact`.
* `WireProofs`: `Requests` (before the handler has read the request nothing else is in flight), `Tunnels` (the tunnel is the
  one asked for) and `Answers` (what a waiting client reads first is the answer to its own request or a config update, which it
  takes for a failure) carry the registration over any cut of the byte stream, hence `RegistrationIsExact`;
  `DataStreamsAreExact` follows from the exactness of the headers.  A second inductive invariant, `CInv`, is proved over the
  first.  Its part `Unsplit` says that until a read ends inside a message, what is in flight is whole messages, and each
  is about a connection that was named; its part `Agreement` that, while every read is of one message, wherever the two
  sides differ over a connection a `NEWCONN` or a `CLOSE` on its way settles it (`Settled`), the `NEWCONN` ahead of the
  `CLOSE` and in flight only once.  Without the order a `CLOSE` could overtake its `NEWCONN` and leave the client with a connection
  that the server has ended.  It gives `ControlStreamIsExact`.

Assumptions are those named `…Assumption` in the modules: ranges of ports and thresholds, types of the
constants, finiteness of the handlers and control loops, distinctness of `Nil` and `None`.  A mux ID with its data fits the
64 KiB buffer of `EncodeNewConn`.  For the formats: a string is
shorter than 65536 bytes, its length field having two; connection IDs are shorter than 256 bytes and all of one length
(`generateID`: the 16 hexadecimal digits of 8 bytes or of the time), mux IDs hold no colon, a client ID is not empty and a protocol is one of the five.
TLC evaluates them in every run.

Only model-checked:

* everything about liveness, which is out of the prover's reach;
* `Wire!FirstCutHarmless` between the read that ends inside a message and the next one: that the beginning of a
  message is refused by every parser, or taken for that message.  Before such a read it is proved (`UnsplitActsOnSent`), and after
  the next one nothing of the kind holds: the rest of the message is read as a message of its own.

## 5. Not modelled, and what could follow

Not modelled, and why:

* statistics and metrics, which nothing reads back; logging;
* TLS and ACME configuration, command line and configuration files, and the adapters over third-party
  protocol libraries: wiring and I/O;
* `TunnelRegistry` and `ProtocolRouter`, which `MuxServer` builds and never calls, `ConnManager`,
  `AntiReplay`, `RateLimiter`, `MemoryLimiter`, `ConnPool` and `connmgr`, which no program reaches: they have
  defects of their own, but no behaviour of the system depends on them;
* `shutdown` and `health`, behind the server facade: one mutex each;
* datagrams: they measure the round-trip time, and `MuxServer` lets the health check find any tunnel too old;
* the macOS and Windows forwarders: the Linux loop with other system calls.

Next, in this order:

1. `MuxServer` and `TunnelListener` composed: a tunnel replaced under its ID keeps its listener.
2. The server facade with `shutdown` and `health`.
