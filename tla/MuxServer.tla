------------------------------ MODULE MuxServer ------------------------------
(****************************************************************************)
(* Tunnel life cycle of the multiplexing server (quic/quic.go): register,   *)
(* session restore, the control loop, the health check, Stop, and the       *)
(* closeTunnel that the last three may all run on the same tunnel at once.  *)
(*                                                                          *)
(* A session is one QUIC connection and the goroutine handleConnection that *)
(* serves it.  A session creates at most one Tunnel object, so the session  *)
(* also names that object (and its connection).                             *)
(*                                                                          *)
(* A step is one access to state shared between goroutines.  Two adjacent   *)
(* accesses are one step only where no other goroutine can tell: a counter  *)
(* update next to a map update, a decision next to the cancel it leads to.  *)
(****************************************************************************)
EXTENDS Integers, FiniteSets

CONSTANTS
    Session,        \* QUIC connections that reach the server
    Id,             \* tunnel IDs chosen by the clients
    Domain,         \* domains a client may ask to be routed to it
    PortStart,      \* PortRangeStart
    PortEnd,        \* PortRangeEnd
    MaxTunnels,     \* MuxServerConfig.MaxTunnels
    Request,        \* control messages a client may open a session with
    HealthChecker,  \* the healthCheck goroutine, as a caller of closeTunnel
    Stopper,        \* the goroutine in Stop, as a caller of closeTunnel
    Nil             \* no session, no request, no domain

Protocol == {"TCP", "QUIC", "HTTP3", "HTTP2"}  \* HTTP is served as HTTP2
Port     == PortStart .. PortEnd
NoPort   == 0
Closer   == Session \cup {HealthChecker, Stopper}

RequestType == [kind : {"register", "restore"}, id : Id,
                proto : Protocol, domain : Domain \cup {Nil}]

ASSUME ConstantsAssumption ==
    /\ PortStart \in Nat \ {0} /\ PortEnd \in Nat
    /\ MaxTunnels \in Nat
    /\ Nil \notin Session \cup Domain /\ Nil \notin RequestType
    /\ HealthChecker \notin Session \cup {Nil}
    /\ Stopper \notin Session \cup {Nil, HealthChecker}
    /\ Request \subseteq RequestType

VARIABLES
    pc,             \* pc[s]: where session s's handler is
    req,            \* req[s]: the request whose Tunnel the handler builds
    port,           \* port[t]: Tunnel.Port
    conn,           \* conn[t]: the session Tunnel.Conn and ControlStream belong to
    reading,        \* reading[t]: the session whose stream t's control loop reads
    open,           \* open[s]: s's QUIC connection is not closed
    tunnels,        \* MuxServer.tunnels: id -> tunnel
    tunnelByDomain, \* MuxServer.tunnelByDomain: domain -> tunnel
    used,           \* PortManager.used
    activeTunnels,  \* MuxServer.activeTunnels
    progress,       \* progress[c][t]: how far c is in closeTunnel(t)
    health,         \* the tunnel healthCheck's Range just loaded
    stop,           \* where Stop is
    toVisit         \* IDs that the Range in Stop has still to visit

handlerVars == <<pc, req, port, conn, reading>>
tableVars   == <<tunnels, tunnelByDomain, used, activeTunnels>>
rangeVars   == <<health, stop, toVisit>>
vars == <<handlerVars, tableVars, rangeVars, open, progress>>

(****************************************************************************)
(* Progress of one closeTunnel(t) call: the last statement executed.        *)
(****************************************************************************)
Outside       == 0  \* never called
Canceled      == 1  \* tunnel.cancel()
Disconnected  == 2  \* external listener shut, tunnel.Conn closed
PortReleased  == 3  \* portManager.Release
DomainRemoved == 4  \* tunnelByDomain.Delete
Closed        == 5  \* tunnels.Delete, activeTunnels.Add(-1), return

PCs == {"idle", "hello", "rebind", "alloc", "store", "domain",
        "loop", "read", "close", "exit", "done"}

Init ==
    /\ pc = [s \in Session |-> "idle"]
    /\ req = [s \in Session |-> Nil]
    /\ port = [s \in Session |-> NoPort]
    /\ conn = [s \in Session |-> s]
    /\ reading = [s \in Session |-> Nil]
    /\ open = [s \in Session |-> FALSE]
    /\ tunnels = [i \in Id |-> Nil]
    /\ tunnelByDomain = [d \in Domain |-> Nil]
    /\ used = {}
    /\ activeTunnels = 0
    /\ progress = [c \in Closer |-> [t \in Session |-> Outside]]
    /\ health = Nil
    /\ stop = "running"
    /\ toVisit = {}

----------------------------------------------------------------------------
(* State predicates *)

\* s.ctx is cancelled by the first statement of Stop.
ServerDone == stop # "running"

\* tunnel.ctx is derived from s.ctx.
Cancelled(t) == ServerDone \/ \E c \in Closer : progress[c][t] >= Canceled

\* c is inside a call of closeTunnel.
Busy(c) == \E t \in Session : progress[c][t] \in Canceled .. DomainRemoved

\* The Tunnel object t has been built and stored.
Exists(t) == req[t] # Nil /\ pc[t] \notin {"rebind", "alloc", "store"}

\* Its registration is over: acked, in or past the control loop.
Registered(t) == Exists(t) /\ pc[t] # "domain"

\* Which protocols get a port: handleSessionRestore has no HTTP/3 case.
NeedsPort(r) ==
    \/ r.proto \in {"TCP", "QUIC"}
    \/ r.proto = "HTTP3" /\ r.kind = "register"

Goto(s, l) == pc' = [pc EXCEPT ![s] = l]

----------------------------------------------------------------------------
(* handleConnection, handleControlStream, handleSessionRestore *)

\* acceptLoop hands a new connection to a handler.
Accept(s) ==
    /\ pc[s] = "idle" /\ ~ServerDone
    /\ Goto(s, "hello")
    /\ open' = [open EXCEPT ![s] = TRUE]
    /\ UNCHANGED <<req, port, conn, reading, tableVars,
                   progress, rangeVars>>

\* Every early return before a request is served: circuit breaker, ALPN, no
\* stream, a stream that is not the control stream, an unreadable or unexpected
\* message, a bad payload, a bad token.
Refuse(s) ==
    /\ pc[s] = "hello"
    /\ Goto(s, "exit")
    /\ UNCHANGED <<req, port, conn, reading, open, tableVars,
                   progress, rangeVars>>

\* A register message: parsed, authenticated, then the tunnel limit is checked
\* against a counter that is only incremented by StoreTunnel.
ReadRegister(s, r) ==
    /\ pc[s] = "hello" /\ open[s] /\ r.kind = "register"
    /\ IF activeTunnels >= MaxTunnels
       THEN Goto(s, "exit") /\ UNCHANGED req
       ELSE Goto(s, "alloc") /\ req' = [req EXCEPT ![s] = r]
    /\ UNCHANGED <<port, conn, reading, open, tableVars,
                   progress, rangeVars>>

\* A session restore message: the tunnel is looked up (and kept in reading[s]
\* until Rebind); an unknown one is registered, with no authentication, no
\* limit check and no domain.
ReadRestore(s, r) ==
    /\ pc[s] = "hello" /\ open[s] /\ r.kind = "restore"
    /\ IF tunnels[r.id] # Nil
       THEN /\ Goto(s, "rebind")
            /\ reading' = [reading EXCEPT ![s] = tunnels[r.id]]
            /\ UNCHANGED req
       ELSE /\ Goto(s, "alloc")
            /\ req' = [req EXCEPT ![s] = [kind |-> "restore", id |-> r.id,
                                          proto |-> r.proto, domain |-> Nil]]
            /\ UNCHANGED reading
    /\ UNCHANGED <<port, conn, open, tableVars, progress, rangeVars>>

\* The tunnel that was found gets this session's connection and stream, the
\* client gets a success ack, and the handler returns.  (Two unsynchronised
\* writes, one step: a reader that sees only the first acts as one that ran just
\* before both.)
Rebind(s) ==
    /\ pc[s] = "rebind"
    /\ conn' = [conn EXCEPT ![reading[s]] = s]
    /\ reading' = [reading EXCEPT ![s] = Nil]
    /\ Goto(s, "exit")
    /\ UNCHANGED <<req, port, open, tableVars, progress, rangeVars>>

\* PortManager.Allocate: the lowest free port.
LowestFree(p) == p \in Port \ used /\ \A q \in Port \ used : p <= q

\* Mutant: Allocate returns a free port and does not mark it.
AllocatePort_Unmarked(s) ==
    /\ pc[s] = "alloc" /\ NeedsPort(req[s])
    /\ \E p \in Port : LowestFree(p) /\ port' = [port EXCEPT ![s] = p]
    /\ Goto(s, "store")
    /\ UNCHANGED <<req, used, conn, reading, open, tunnels, tunnelByDomain,
                   activeTunnels, progress, rangeVars>>

\* The handler takes a port, or sends an error ack when none is free.
AllocatePort(s) ==
    /\ pc[s] = "alloc"
    /\ \/ /\ ~NeedsPort(req[s])
          /\ Goto(s, "store")
          /\ UNCHANGED <<req, port, used>>
       \/ /\ NeedsPort(req[s])
          /\ \E p \in Port :
               /\ LowestFree(p)
               /\ port' = [port EXCEPT ![s] = p]
               /\ used' = used \cup {p}
          /\ Goto(s, "store")
          /\ UNCHANGED req
       \/ /\ NeedsPort(req[s]) /\ Port \subseteq used  \* ErrNoAvailablePort
          /\ Goto(s, "exit")
          /\ req' = [req EXCEPT ![s] = Nil]
          /\ UNCHANGED <<port, used>>
    /\ UNCHANGED <<conn, reading, open, tunnels, tunnelByDomain,
                   activeTunnels, progress, rangeVars>>

\* The Tunnel is built, stored under its ID (replacing any other) and counted.
\* One built by a session restore has no domain and no LastActive.
StoreTunnel(s) ==
    /\ pc[s] = "store"
    /\ tunnels' = [tunnels EXCEPT ![req[s].id] = s]
    /\ activeTunnels' = activeTunnels + 1
    /\ Goto(s, "domain")
    /\ UNCHANGED <<req, port, conn, reading, open, tunnelByDomain,
                   used, progress, rangeVars>>

\* Mutant: only a tunnel without a port gets its domain mapping.
StoreDomain_WebOnly(s) ==
    /\ pc[s] = "domain"
    /\ tunnelByDomain' = [d \in Domain |->
                            IF d = req[s].domain /\ port[s] = NoPort
                            THEN s ELSE tunnelByDomain[d]]
    /\ Goto(s, "loop")
    /\ UNCHANGED <<req, port, conn, reading, open, tunnels, used,
                   activeTunnels, progress, rangeVars>>

\* The domain mapping (replacing any other tunnel of that domain); then the
\* success ack is sent and the listener goroutine started (TunnelListener).
StoreDomain(s) ==
    /\ pc[s] = "domain"
    /\ tunnelByDomain' = [d \in Domain |->
                            IF d = req[s].domain THEN s ELSE tunnelByDomain[d]]
    /\ Goto(s, "loop")
    /\ UNCHANGED <<req, port, conn, reading, open, tunnels, used,
                   activeTunnels, progress, rangeVars>>

\* The deferred stream.Close and conn.CloseWithError of the handler.
Exit(s) ==
    /\ pc[s] = "exit"
    /\ open' = [open EXCEPT ![s] = FALSE]
    /\ Goto(s, "done")
    /\ UNCHANGED <<req, port, conn, reading, tableVars,
                   progress, rangeVars>>

----------------------------------------------------------------------------
(* controlLoop *)

\* The context check, then Read on whatever ControlStream is at that moment.
LoopTop(t) ==
    /\ pc[t] = "loop"
    /\ IF Cancelled(t)
       THEN Goto(t, "exit") /\ UNCHANGED reading
       ELSE Goto(t, "read") /\ reading' = [reading EXCEPT ![t] = conn[t]]
    /\ UNCHANGED <<req, port, conn, open, tableVars, progress,
                   rangeVars>>

\* Read returns a message and it is handled.  A heartbeat ack that cannot be
\* written makes the loop return: the handler exits and the tunnel is not closed.
ReadMessage(t) ==
    /\ pc[t] = "read" /\ open[reading[t]]
    /\ reading' = [reading EXCEPT ![t] = Nil]
    /\ Goto(t, "loop") \/ Goto(t, "exit")
    /\ UNCHANGED <<req, port, conn, open, tableVars, progress, rangeVars>>

\* Read fails: return if the context is done, otherwise call closeTunnel.
ReadError(t) ==
    /\ pc[t] = "read" /\ ~open[reading[t]]
    /\ reading' = [reading EXCEPT ![t] = Nil]
    /\ IF Cancelled(t)
       THEN Goto(t, "exit") /\ UNCHANGED progress
       ELSE /\ Goto(t, "close")
            /\ progress' = [progress EXCEPT ![t][t] = Canceled]
    /\ UNCHANGED <<req, port, conn, open, tableVars, rangeVars>>

\* closeTunnel has returned to the control loop, which returns.
LoopClosed(t) ==
    /\ pc[t] = "close" /\ progress[t][t] = Closed
    /\ Goto(t, "exit")
    /\ UNCHANGED <<req, port, conn, reading, open, tableVars,
                   progress, rangeVars>>

----------------------------------------------------------------------------
(* closeTunnel(t), run by c; the call itself has cancelled the context *)

Step(c, t, from) ==
    /\ progress[c][t] = from
    /\ progress' = [progress EXCEPT ![c][t] = from + 1]

\* Mutant: the connection is left open.
Disconnect_Open(c, t) ==
    /\ Step(c, t, Canceled)
    /\ UNCHANGED <<handlerVars, tableVars, rangeVars, open>>

\* Mutant: the map entry goes first.
Disconnect_Unmap(c, t) ==
    /\ Step(c, t, Canceled)
    /\ open' = [open EXCEPT ![conn[t]] = FALSE]
    /\ tunnels' = [tunnels EXCEPT ![req[t].id] = Nil]
    /\ UNCHANGED <<handlerVars, rangeVars, tunnelByDomain, used, activeTunnels>>

\* The external listener is shut (see TunnelListener), the connection closed.
Disconnect(c, t) ==
    /\ Step(c, t, Canceled)
    /\ open' = [open EXCEPT ![conn[t]] = FALSE]
    /\ UNCHANGED <<handlerVars, tableVars, rangeVars>>

\* Mutant: a tunnel that was replaced in the map does not release its port.
ReleasePort_IfMapped(c, t) ==
    /\ Step(c, t, Disconnected)
    /\ used' = IF tunnels[req[t].id] = t THEN used \ {port[t]} ELSE used
    /\ UNCHANGED <<handlerVars, rangeVars, open, tunnels,
                   tunnelByDomain, activeTunnels>>

\* PortManager.Release: whichever tunnel the port belongs to by now.
ReleasePort(c, t) ==
    /\ Step(c, t, Disconnected)
    /\ used' = used \ {port[t]}
    /\ UNCHANGED <<handlerVars, rangeVars, open, tunnels,
                   tunnelByDomain, activeTunnels>>

\* Mutant: the domain mapping stays.
RemoveDomain_Not(c, t) ==
    /\ Step(c, t, PortReleased)
    /\ UNCHANGED <<handlerVars, tableVars, rangeVars, open>>

\* Deleted by key: whichever tunnel the domain maps to by now.
RemoveDomain(c, t) ==
    /\ Step(c, t, PortReleased)
    /\ tunnelByDomain' = [d \in Domain |->
                            IF d = req[t].domain THEN Nil ELSE tunnelByDomain[d]]
    /\ UNCHANGED <<handlerVars, rangeVars, open, tunnels,
                   used, activeTunnels>>

\* Mutant: the tunnel stays in the map.
Unmap_Not(c, t) ==
    /\ Step(c, t, DomainRemoved)
    /\ activeTunnels' = activeTunnels - 1
    /\ UNCHANGED <<handlerVars, rangeVars, open, tunnels, tunnelByDomain, used>>

\* Mutant: a tunnel that was replaced in the map is not discounted.
Unmap_IfMapped(c, t) ==
    /\ Step(c, t, DomainRemoved)
    /\ tunnels' = [tunnels EXCEPT ![req[t].id] = Nil]
    /\ activeTunnels' = IF tunnels[req[t].id] = t THEN activeTunnels - 1 ELSE activeTunnels
    /\ UNCHANGED <<handlerVars, rangeVars, open, tunnelByDomain, used>>

\* Deleted by key: whichever tunnel is stored under the ID by now.
Unmap(c, t) ==
    /\ Step(c, t, DomainRemoved)
    /\ tunnels' = [tunnels EXCEPT ![req[t].id] = Nil]
    /\ activeTunnels' = activeTunnels - 1
    /\ UNCHANGED <<handlerVars, rangeVars, open, tunnelByDomain, used>>

closeTunnel(c, t) ==
    Disconnect(c, t) \/ ReleasePort(c, t) \/ RemoveDomain(c, t) \/ Unmap(c, t)

(* healthCheck and Stop: both Range over the sync.Map tunnels.  A visitor gets *)
(* what is stored under an ID at the moment of the visit; visiting an ID       *)
(* before anything is stored under it is not visiting it.                      *)

\* Mutant: the health check does not wait for its closeTunnel to return.
HealthVisit_Async(i) ==
    /\ stop # "returned" /\ health = Nil
    /\ tunnels[i] # Nil
    /\ health' = tunnels[i]
    /\ UNCHANGED <<handlerVars, tableVars, open, progress, stop, toVisit>>

\* A Range under way when the context is cancelled still runs to its end.
HealthVisit(i) ==
    /\ stop # "returned" /\ health = Nil /\ ~Busy(HealthChecker)
    /\ tunnels[i] # Nil
    /\ health' = tunnels[i]
    /\ UNCHANGED <<handlerVars, tableVars, open, progress, stop, toVisit>>

\* LastActive is recent: the Range goes on.
HealthPass ==
    /\ health # Nil
    /\ health' = Nil
    /\ UNCHANGED <<handlerVars, tableVars, open, progress, stop, toVisit>>

\* Mutant: a timeout is only logged.
HealthTimeout_Logged ==
    /\ health # Nil
    /\ health' = Nil
    /\ UNCHANGED <<handlerVars, tableVars, open, progress, stop, toVisit>>

\* LastActive is more than TunnelTimeout ago: closeTunnel.  TunnelTimeout is far
\* longer than a registration takes, so a tunnel still being registered times
\* out only if a session restore built it, with LastActive = 0.
HealthTimeout ==
    /\ health # Nil
    /\ Registered(health) \/ req[health].kind = "restore"
    /\ progress' = [progress EXCEPT ![HealthChecker][health] = Canceled]
    /\ health' = Nil
    /\ UNCHANGED <<handlerVars, tableVars, open, stop, toVisit>>

\* Stop cancels the context, closes the listeners and starts its Range.  If closing
\* the QUIC listener also closes accepted connections, PeerCloses covers it.
StopServer ==
    /\ stop = "running"
    /\ stop' = "ranging"
    /\ toVisit' = Id
    /\ UNCHANGED <<handlerVars, tableVars, open, progress, health>>

StopVisit(i) ==
    /\ i \in toVisit /\ ~Busy(Stopper)
    /\ toVisit' = toVisit \ {i}
    /\ progress' = IF tunnels[i] # Nil
                   THEN [progress EXCEPT ![Stopper][tunnels[i]] = Canceled]
                   ELSE progress
    /\ UNCHANGED <<handlerVars, tableVars, open, health, stop>>

StopRanged ==
    /\ stop = "ranging" /\ toVisit = {} /\ ~Busy(Stopper)
    /\ stop' = "waiting"
    /\ UNCHANGED <<handlerVars, tableVars, open, progress, health, toVisit>>

\* wg.Wait returns once every handler, every listener and healthCheck is done.
StopReturn ==
    /\ stop = "waiting"
    /\ \A s \in Session : pc[s] \in {"idle", "done"}
    /\ health = Nil /\ ~Busy(HealthChecker)
    /\ stop' = "returned"
    /\ UNCHANGED <<handlerVars, tableVars, open, progress, health, toVisit>>

----------------------------------------------------------------------------
(* The environment *)

\* The client closes its connection, or QUIC's idle timeout does.
PeerCloses(s) ==
    /\ open[s]
    /\ open' = [open EXCEPT ![s] = FALSE]
    /\ UNCHANGED <<handlerVars, tableVars, rangeVars, progress>>

----------------------------------------------------------------------------
Handler(s) ==
    \/ Accept(s) \/ Refuse(s) \/ \E r \in Request : ReadRegister(s, r) \/ ReadRestore(s, r)
    \/ Rebind(s) \/ AllocatePort(s) \/ StoreTunnel(s) \/ StoreDomain(s) \/ Exit(s)

ControlLoop(t) ==
    LoopTop(t) \/ ReadMessage(t) \/ ReadError(t) \/ LoopClosed(t)

Health == (\E i \in Id : HealthVisit(i)) \/ HealthPass \/ HealthTimeout

Stop == StopServer \/ (\E i \in Id : StopVisit(i)) \/ StopRanged \/ StopReturn

Next ==
    \/ \E s \in Session :
         Handler(s) \/ ControlLoop(s) \/ PeerCloses(s)
    \/ \E c \in Closer, t \in Session : closeTunnel(c, t)
    \/ Health \/ Stop

Spec == Init /\ [][Next]_vars

----------------------------------------------------------------------------
(* Properties *)

TypeOK ==
    /\ pc \in [Session -> PCs]
    /\ req \in [Session -> RequestType \cup {Nil}]
    /\ port \in [Session -> Port \cup {NoPort}]
    /\ conn \in [Session -> Session]
    /\ reading \in [Session -> Session \cup {Nil}]
    /\ open \in [Session -> BOOLEAN]
    /\ tunnels \in [Id -> Session \cup {Nil}]
    /\ tunnelByDomain \in [Domain -> Session \cup {Nil}]
    /\ used \in SUBSET Port
    /\ activeTunnels \in Int
    /\ progress \in [Closer -> [Session -> Outside .. Closed]]
    /\ health \in Session \cup {Nil}
    /\ stop \in {"running", "ranging", "waiting", "returned"}
    /\ toVisit \in SUBSET Id

\* c's call of closeTunnel(t) has executed Release, resp. has returned.
HasReleased(c, t) == progress[c][t] >= PortReleased
HasClosed(c, t)   == progress[c][t] = Closed

\* t owns its port: allocated to it, released by no closeTunnel(t).
HoldsPort(t) == port[t] # NoPort /\ \A c \in Closer : ~HasReleased(c, t)

\* Two callers of closeTunnel have both released port p for one tunnel.
DoublyReleased(p) ==
    \E t \in Session : port[t] = p /\
        \E c, e \in Closer : c # e /\ HasReleased(c, t) /\ HasReleased(e, t)

\* No port leaks: whatever the order in which registrations, failures and
\* closeTunnel calls interleave, a port PortManager has marked used belongs to a
\* tunnel (or a registration under way) that has not released it.
NoPortLeak == \A p \in used : \E t \in Session : HoldsPort(t) /\ port[t] = p

\* closeTunnel is not idempotent and Release is by number, so a second
\* closeTunnel of a tunnel can free a port that a newer tunnel owns.  That is the
\* only way: a tunnel's port is unmarked, or owned by two tunnels, only after
\* two closeTunnel calls have released that port for one tunnel.
PortLostOnlyByDoubleClose ==
    \A t \in Session : HoldsPort(t) =>
        \/ DoublyReleased(port[t])
        \/ /\ port[t] \in used
           /\ \A u \in Session \ {t} : HoldsPort(u) => port[u] # port[t]

\* What is stored under an ID is a tunnel of that ID that no closeTunnel has
\* finished with: healthCheck, Stop and session restore never find a dead one.
MappedIsLive ==
    \A i \in Id : tunnels[i] # Nil =>
        /\ Exists(tunnels[i]) /\ req[tunnels[i]].id = i
        /\ \A c \in Closer : ~HasClosed(c, tunnels[i])

\* A tunnel that no closeTunnel has finished with is missing from the map only
\* if another session registered the same ID (Store and Delete are by key).
UnmappedOnlyBySameId ==
    \A t \in Session : Exists(t) =>
        \/ tunnels[req[t].id] = t
        \/ \E c \in Closer : HasClosed(c, t)
        \/ \E u \in Session \ {t} : Exists(u) /\ req[u].id = req[t].id

\* While the server runs, a domain is routed to a tunnel of that domain whose
\* closeTunnel has not removed the route: TCP+TLS connections are never sent to
\* a tunnel that is already closed.
RouteIsLive ==
    \A d \in Domain : tunnelByDomain[d] # Nil /\ ~ServerDone =>
        /\ Exists(tunnelByDomain[d]) /\ req[tunnelByDomain[d]].domain = d
        /\ \A c \in Closer : progress[c][tunnelByDomain[d]] < DomainRemoved

\* Store and Delete in tunnelByDomain are by key too: a registered tunnel that
\* nobody closes loses its domain only to another tunnel of the same domain, one
\* that has taken the route over or one whose closeTunnel has deleted it.
UnroutedOnlyBySameDomain ==
    \A t \in Session : Registered(t) /\ ~Cancelled(t) /\ req[t].domain # Nil =>
        \/ tunnelByDomain[req[t].domain] = t
        \/ \E u \in Session \ {t} :
             /\ Exists(u) /\ req[u].domain = req[t].domain
             /\ \/ tunnelByDomain[req[t].domain] = u
                \/ \E c \in Closer : progress[c][u] >= DomainRemoved

\* activeTunnels is the number of tunnels stored and not closed as long as no
\* tunnel was closed twice; a double close is the only thing that skews it.
CountSkewedOnlyByDoubleClose ==
    \/ \E t \in Session : \E c, e \in Closer : c # e /\ HasClosed(c, t) /\ HasClosed(e, t)
    \/ activeTunnels = Cardinality({t \in Session :
                          Exists(t) /\ \A c \in Closer : ~HasClosed(c, t)})

\* No goroutine runs closeTunnel twice on the same tunnel: a closeTunnel that is
\* over is never started again by the same caller.
NoReclose == [][\A c \in Closer, t \in Session : progress'[c][t] >= progress[c][t]]_progress

\* Fairness: goroutines that can run do run; Range keeps coming back to every ID;
\* and a tunnel whose handler has returned gets no more messages, so its
\* LastActive falls behind.  Nothing is assumed of the clients or the network.
Fairness ==
    /\ \A s \in Session :
         WF_vars(Rebind(s) \/ AllocatePort(s) \/ StoreTunnel(s) \/ StoreDomain(s)
                 \/ Exit(s) \/ LoopTop(s) \/ ReadError(s) \/ LoopClosed(s))
    /\ \A c \in Closer : WF_vars(\E t \in Session : closeTunnel(c, t))
    /\ WF_vars(HealthPass \/ HealthTimeout)
    /\ \A i \in Id : SF_vars(HealthVisit(i))
    /\ SF_vars(HealthTimeout /\ pc[health] = "done")

FairSpec == Spec /\ Fairness

\* When the control loop gives up without closing its tunnel (a heartbeat ack
\* could not be written), the health check removes the tunnel from the map.
AbandonedIsReaped ==
    \A t \in Session : pc[t] = "done" /\ Exists(t)
                       ~> (Exists(t) => tunnels[req[t].id] # t) \/ ServerDone

\* Closing a tunnel, whoever does it, ends the goroutine that serves it.
ClosedLoopEnds ==
    \A t \in Session : (\E c \in Closer : progress[c][t] >= Disconnected) ~> pc[t] = "done"

=============================================================================
