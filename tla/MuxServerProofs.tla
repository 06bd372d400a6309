--------------------------- MODULE MuxServerProofs ---------------------------
(****************************************************************************)
(* Theorems about MuxServer, for any number of sessions, IDs, domains and   *)
(* ports.  The inductive invariant IInv adds to the checked invariants what *)
(* the handlers and the callers of closeTunnel know about their own state.  *)
(****************************************************************************)
EXTENDS MuxServer, FiniteSetTheorems, TLAPS

\* What a handler knows: req is a request from the time one is accepted for
\* registration, a port is taken by AllocatePort and not before, a session that
\* rebinds has found a tunnel, and a restored tunnel has no domain.
HandlerInv ==
    \A s \in Session :
        /\ pc[s] \in {"idle", "hello", "rebind"} => req[s] = Nil
        /\ pc[s] \in {"alloc", "store", "domain", "loop", "read", "close"} => req[s] # Nil
        /\ pc[s] \in {"idle", "hello", "rebind", "alloc"} => port[s] = NoPort
        /\ pc[s] = "rebind" => reading[s] \in Session
        /\ req[s] # Nil /\ req[s].kind = "restore" => req[s].domain = Nil

\* What the callers of closeTunnel know: it is called on tunnels that exist; a
\* control loop calls it on its own tunnel, from "read"; healthCheck calls it on
\* a registered or a restored tunnel, not on the one it has just loaded; Stop
\* calls it only once the context is cancelled.
CloserInv ==
    /\ \A c \in Closer, t \in Session : progress[c][t] # Outside => Exists(t)
    /\ \A c, t \in Session : progress[c][t] # Outside =>
         c = t /\ pc[t] \in {"close", "exit", "done"}
    /\ \A t \in Session : progress[HealthChecker][t] # Outside =>
         Registered(t) \/ req[t].kind = "restore"
    /\ stop = "running" => toVisit = {} /\ \A t \in Session : progress[Stopper][t] = Outside
    /\ health # Nil =>
         /\ Exists(health) /\ progress[HealthChecker][health] = Outside
         /\ ~Busy(HealthChecker)

\* The tunnels activeTunnels should count: stored, and no closeTunnel has finished
\* with them.  There are finitely many, however many sessions may ever come.
LiveTunnels == {t \in Session : Exists(t) /\ \A c \in Closer : ~HasClosed(c, t)}

IInv ==
    /\ TypeOK /\ HandlerInv /\ CloserInv
    /\ NoPortLeak /\ PortLostOnlyByDoubleClose
    /\ MappedIsLive /\ UnmappedOnlyBySameId
    /\ RouteIsLive /\ UnroutedOnlyBySameDomain
    /\ IsFiniteSet(LiveTunnels) /\ CountSkewedOnlyByDoubleClose

\* Setting one entry of progress, by a call of closeTunnel or by one of its steps.
LEMMA ProgressType ==
    ASSUME TypeOK, NEW c \in Closer, NEW t \in Session
    PROVE  [progress EXCEPT ![c][t] = Canceled] \in [Closer -> [Session -> Outside .. Closed]]
  BY DEF TypeOK, Canceled, Outside, Closed

LEMMA StepType ==
    ASSUME TypeOK, NEW c \in Closer, NEW t \in Session,
           NEW from \in {Canceled, Disconnected, PortReleased, DomainRemoved}, Step(c, t, from)
    PROVE  progress' \in [Closer -> [Session -> Outside .. Closed]]
  BY DEF TypeOK, Step, Outside, Canceled, Disconnected, PortReleased, DomainRemoved, Closed

LEMMA TypeInit == Init => TypeOK
  BY ConstantsAssumption
  DEF Init, TypeOK, PCs, Port, NoPort, Closer, Outside, Closed

\* Type correctness is inductive with HandlerInv (a rebinding handler has found a
\* tunnel) and CloserInv (what healthCheck has loaded is a tunnel).
LEMMA TypeStep == TypeOK /\ HandlerInv /\ CloserInv /\ [Next]_vars => TypeOK'
  <1> SUFFICES ASSUME TypeOK, HandlerInv, CloserInv, [Next]_vars PROVE TypeOK'
    OBVIOUS
  <1> USE DEF TypeOK, PCs, handlerVars, tableVars, rangeVars
  <1>1. ASSUME NEW s \in Session, Accept(s) PROVE TypeOK'
    BY <1>1 DEF Accept, Goto
  <1>2. ASSUME NEW s \in Session, Refuse(s) PROVE TypeOK'
    BY <1>2 DEF Refuse, Goto
  <1>3. ASSUME NEW s \in Session, NEW r \in Request, ReadRegister(s, r) PROVE TypeOK'
    BY <1>3, ConstantsAssumption DEF ReadRegister, Goto
  <1>4. ASSUME NEW s \in Session, NEW r \in Request, ReadRestore(s, r) PROVE TypeOK'
    <2>1. [kind |-> "restore", id |-> r.id, proto |-> r.proto, domain |-> Nil] \in RequestType
      BY ConstantsAssumption DEF RequestType
    <2>2. r.id \in Id
      BY ConstantsAssumption DEF RequestType
    <2>3. CASE tunnels[r.id] # Nil
      BY <1>4, <2>2, <2>3 DEF ReadRestore, Goto
    <2>4. CASE tunnels[r.id] = Nil
      <3>1. req' \in [Session -> RequestType \cup {Nil}]
        BY <1>4, <2>1, <2>4 DEF ReadRestore
      <3>2. pc' \in [Session -> PCs] /\ UNCHANGED reading
        BY <1>4, <2>4 DEF ReadRestore, Goto
      <3> QED
        BY <1>4, <3>1, <3>2 DEF ReadRestore
    <2> QED
      BY <2>3, <2>4
  <1>5. ASSUME NEW s \in Session, Rebind(s) PROVE TypeOK'
    BY <1>5 DEF Rebind, Goto, HandlerInv
  <1>6. ASSUME NEW s \in Session, AllocatePort(s) PROVE TypeOK'
    BY <1>6 DEF AllocatePort, Goto
  <1>7. ASSUME NEW s \in Session, StoreTunnel(s) PROVE TypeOK'
    <2>1. tunnels' \in [Id -> Session \cup {Nil}]
      BY <1>7 DEF StoreTunnel
    <2>2. activeTunnels' \in Int
      BY <1>7 DEF StoreTunnel
    <2> QED
      BY <1>7, <2>1, <2>2 DEF StoreTunnel, Goto
  <1>8. ASSUME NEW s \in Session, StoreDomain(s) PROVE TypeOK'
    BY <1>8 DEF StoreDomain, Goto
  <1>9. ASSUME NEW s \in Session, Exit(s) PROVE TypeOK'
    BY <1>9 DEF Exit, Goto
  <1>10. ASSUME NEW t \in Session, LoopTop(t) PROVE TypeOK'
    BY <1>10 DEF LoopTop, Goto
  <1>11. ASSUME NEW t \in Session, ReadMessage(t) PROVE TypeOK'
    BY <1>11 DEF ReadMessage, Goto
  <1>12. ASSUME NEW t \in Session, ReadError(t) PROVE TypeOK'
    <2>1. [progress EXCEPT ![t][t] = Canceled] \in [Closer -> [Session -> Outside .. Closed]]
      BY ProgressType DEF Closer
    <2> QED
      BY <1>12, <2>1 DEF ReadError, Goto
  <1>13. ASSUME NEW t \in Session, LoopClosed(t) PROVE TypeOK'
    BY <1>13 DEF LoopClosed, Goto
  <1>14. ASSUME NEW s \in Session, PeerCloses(s) PROVE TypeOK'
    BY <1>14 DEF PeerCloses
  <1>15. ASSUME NEW c \in Closer, NEW t \in Session, closeTunnel(c, t) PROVE TypeOK'
    <2>1. CASE Disconnect(c, t)
      BY <2>1, StepType DEF Disconnect
    <2>2. CASE ReleasePort(c, t)
      BY <2>2, StepType DEF ReleasePort
    <2>3. CASE RemoveDomain(c, t)
      BY <2>3, StepType DEF RemoveDomain
    <2>4. CASE Unmap(c, t)
      <3>1. tunnels' \in [Id -> Session \cup {Nil}]
        BY <2>4 DEF Unmap
      <3>2. activeTunnels' \in Int
        BY <2>4 DEF Unmap
      <3> QED
        BY <2>4, <3>1, <3>2, StepType DEF Unmap
    <2> QED
      BY <1>15, <2>1, <2>2, <2>3, <2>4 DEF closeTunnel
  <1>16. ASSUME NEW i \in Id, HealthVisit(i) PROVE TypeOK'
    BY <1>16 DEF HealthVisit
  <1>17. CASE HealthPass
    BY <1>17 DEF HealthPass
  <1>18. CASE HealthTimeout
    BY <1>18, ProgressType DEF HealthTimeout, Closer
  <1>19. CASE StopServer
    BY <1>19 DEF StopServer
  <1>20. ASSUME NEW i \in Id, StopVisit(i) PROVE TypeOK'
    BY <1>20, ProgressType DEF StopVisit, Closer
  <1>21. CASE StopRanged
    BY <1>21 DEF StopRanged
  <1>22. CASE StopReturn
    BY <1>22 DEF StopReturn
  <1>23. CASE UNCHANGED vars
    BY <1>23 DEF vars
  <1> QED
    BY <1>1, <1>2, <1>3, <1>4, <1>5, <1>6, <1>7, <1>8, <1>9, <1>10, <1>11, <1>12,
       <1>13, <1>14, <1>15, <1>16, <1>17, <1>18, <1>19, <1>20, <1>21, <1>22, <1>23
    DEF Next, Handler, ControlLoop, Health, Stop

\* The handler's own knowledge is kept by its own steps; nobody else writes pc,
\* req, port or reading of a session.
LEMMA HandlerStep == TypeOK /\ HandlerInv /\ CloserInv /\ [Next]_vars => HandlerInv'
  <1> SUFFICES ASSUME TypeOK, HandlerInv, CloserInv, [Next]_vars PROVE HandlerInv'
    OBVIOUS
  <1> USE DEF TypeOK, HandlerInv, handlerVars, tableVars, rangeVars
  <1>1. ASSUME NEW s \in Session, Accept(s) \/ Refuse(s) PROVE HandlerInv'
    BY <1>1 DEF Accept, Refuse, Goto
  <1>2. ASSUME NEW s \in Session, NEW r \in Request, ReadRegister(s, r) PROVE HandlerInv'
    <2>1. r # Nil /\ r.kind # "restore"
      BY <1>2, ConstantsAssumption DEF ReadRegister
    <2> QED
      BY <1>2, <2>1 DEF ReadRegister, Goto
  <1>3. ASSUME NEW s \in Session, NEW r \in Request, ReadRestore(s, r) PROVE HandlerInv'
    <2> DEFINE q == [kind |-> "restore", id |-> r.id, proto |-> r.proto, domain |-> Nil]
    <2>1. q # Nil /\ q.domain = Nil
      BY ConstantsAssumption DEF RequestType
    <2>2. tunnels[r.id] # Nil => tunnels[r.id] \in Session
      BY ConstantsAssumption DEF RequestType
    <2> HIDE DEF q
    <2>3. IF tunnels[r.id] # Nil
          THEN /\ Goto(s, "rebind") /\ req' = req
               /\ reading' = [reading EXCEPT ![s] = tunnels[r.id]]
          ELSE /\ Goto(s, "alloc") /\ reading' = reading
               /\ req' = [req EXCEPT ![s] = q]
      BY <1>3 DEF ReadRestore, q
    <2> QED
      BY <1>3, <2>1, <2>2, <2>3 DEF ReadRestore, Goto
  <1>4. ASSUME NEW s \in Session, Rebind(s) PROVE HandlerInv'
    BY <1>4 DEF Rebind, Goto
  <1>5. ASSUME NEW s \in Session, AllocatePort(s) PROVE HandlerInv'
    BY <1>5 DEF AllocatePort, Goto
  <1>6. ASSUME NEW s \in Session, StoreTunnel(s) \/ StoreDomain(s) \/ Exit(s) PROVE HandlerInv'
    BY <1>6 DEF StoreTunnel, StoreDomain, Exit, Goto
  <1>7. ASSUME NEW t \in Session, ControlLoop(t) PROVE HandlerInv'
    BY <1>7 DEF ControlLoop, LoopTop, ReadMessage, ReadError, LoopClosed, Goto
  <1>8. ASSUME UNCHANGED handlerVars PROVE HandlerInv'
    BY <1>8
  <1>9. ASSUME NEW s \in Session, PeerCloses(s) PROVE HandlerInv'
    BY <1>8, <1>9 DEF PeerCloses
  <1>10. ASSUME NEW c \in Closer, NEW t \in Session, closeTunnel(c, t) PROVE HandlerInv'
    BY <1>8, <1>10 DEF closeTunnel, Disconnect, ReleasePort, RemoveDomain, Unmap
  <1>11. CASE Health \/ Stop
    BY <1>8, <1>11 DEF Health, Stop, HealthVisit, HealthPass, HealthTimeout,
                       StopServer, StopVisit, StopRanged, StopReturn
  <1>12. CASE UNCHANGED vars
    BY <1>8, <1>12 DEF vars
  <1> QED
    BY <1>1, <1>2, <1>3, <1>4, <1>5, <1>6, <1>7, <1>9, <1>10, <1>11, <1>12 DEF Next, Handler

\* A tunnel never stops existing, nor does it change its request or its port.
LEMMA TunnelsStay ==
    ASSUME TypeOK, HandlerInv, [Next]_vars, NEW t \in Session, Exists(t)
    PROVE  /\ Exists(t)' /\ req'[t] = req[t] /\ port'[t] = port[t]
           /\ Registered(t) => Registered(t)'
  <1> USE DEF TypeOK, HandlerInv, Exists, Registered, handlerVars, tableVars, rangeVars
  <1>1. CASE \E s \in Session : Accept(s) \/ Refuse(s)
    BY <1>1 DEF Accept, Refuse, Goto
  <1>2. CASE \E s \in Session, r \in Request : ReadRegister(s, r) \/ ReadRestore(s, r)
    BY <1>2 DEF ReadRegister, ReadRestore, Goto
  <1>3. CASE \E s \in Session : Rebind(s) \/ AllocatePort(s) \/ StoreTunnel(s)
    BY <1>3 DEF Rebind, AllocatePort, StoreTunnel, Goto
  <1>4. CASE \E s \in Session : StoreDomain(s) \/ Exit(s)
    BY <1>4 DEF StoreDomain, Exit, Goto
  <1>5. CASE \E s \in Session : ControlLoop(s)
    BY <1>5 DEF ControlLoop, LoopTop, ReadMessage, ReadError, LoopClosed, Goto
  <1>6. CASE UNCHANGED handlerVars
    BY <1>6
  <1>7. CASE \E s \in Session : PeerCloses(s)
    BY <1>6, <1>7 DEF PeerCloses
  <1>8. CASE \E c \in Closer, u \in Session : closeTunnel(c, u)
    BY <1>6, <1>8 DEF closeTunnel, Disconnect, ReleasePort, RemoveDomain, Unmap
  <1>9. CASE Health \/ Stop
    BY <1>6, <1>9 DEF Health, Stop, HealthVisit, HealthPass, HealthTimeout,
                      StopServer, StopVisit, StopRanged, StopReturn
  <1>10. CASE UNCHANGED vars
    BY <1>6, <1>10 DEF vars
  <1> QED
    BY <1>1, <1>2, <1>3, <1>4, <1>5, <1>7, <1>8, <1>9, <1>10 DEF Next, Handler

\* Tunnels come into existence by StoreTunnel.
LEMMA NewTunnel ==
    ASSUME TypeOK, HandlerInv, [Next]_vars, NEW t \in Session, ~Exists(t), Exists(t)'
    PROVE  StoreTunnel(t)
  <1> USE DEF TypeOK, HandlerInv, Exists, handlerVars, tableVars, rangeVars
  <1>1. CASE \E s \in Session : Accept(s) \/ Refuse(s)
    BY <1>1 DEF Accept, Refuse, Goto
  <1>2. CASE \E s \in Session, r \in Request : ReadRegister(s, r) \/ ReadRestore(s, r)
    BY <1>2 DEF ReadRegister, ReadRestore, Goto
  <1>3. CASE \E s \in Session : Rebind(s) \/ AllocatePort(s) \/ StoreTunnel(s)
    BY <1>3 DEF Rebind, AllocatePort, StoreTunnel, Goto
  <1>4. CASE \E s \in Session : StoreDomain(s) \/ Exit(s)
    BY <1>4 DEF StoreDomain, Exit, Goto
  <1>5. CASE \E s \in Session : ControlLoop(s)
    BY <1>5 DEF ControlLoop, LoopTop, ReadMessage, ReadError, LoopClosed, Goto
  <1>6. CASE UNCHANGED handlerVars
    BY <1>6
  <1>7. CASE \E s \in Session : PeerCloses(s)
    BY <1>6, <1>7 DEF PeerCloses
  <1>8. CASE \E c \in Closer, u \in Session : closeTunnel(c, u)
    BY <1>6, <1>8 DEF closeTunnel, Disconnect, ReleasePort, RemoveDomain, Unmap
  <1>9. CASE Health \/ Stop
    BY <1>6, <1>9 DEF Health, Stop, HealthVisit, HealthPass, HealthTimeout,
                      StopServer, StopVisit, StopRanged, StopReturn
  <1>10. CASE UNCHANGED vars
    BY <1>6, <1>10 DEF vars
  <1> QED
    BY <1>1, <1>2, <1>3, <1>4, <1>5, <1>7, <1>8, <1>9, <1>10 DEF Next, Handler

\* What the callers of closeTunnel know is kept: a call is entered only on a tunnel
\* found in the map, or by the tunnel's own control loop.
LEMMA CloserStep ==
    TypeOK /\ HandlerInv /\ CloserInv /\ MappedIsLive /\ [Next]_vars => CloserInv'
  <1> SUFFICES ASSUME TypeOK, HandlerInv, CloserInv, MappedIsLive, [Next]_vars PROVE CloserInv'
    OBVIOUS
  <1>1. \A t \in Session : Exists(t) =>
          /\ Exists(t)' /\ req'[t] = req[t]
          /\ Registered(t) => Registered(t)'
    BY TunnelsStay
  <1> USE DEF TypeOK, handlerVars, tableVars, rangeVars
  \* Steps that leave the calls, healthCheck and Stop alone and move a handler.
  <1>2. ASSUME UNCHANGED <<progress, rangeVars>>,
               \A t \in Session : pc[t] \in {"close", "exit", "done"} =>
                                  pc'[t] \in {"close", "exit", "done"}
        PROVE  CloserInv'
    BY <1>1, <1>2 DEF CloserInv, Busy, Closer
  <1>3. ASSUME NEW s \in Session, Handler(s) PROVE CloserInv'
    <2>1. UNCHANGED <<progress, rangeVars>>
      BY <1>3 DEF Handler, Accept, Refuse, ReadRegister, ReadRestore, Rebind, AllocatePort,
                  StoreTunnel, StoreDomain, Exit
    <2>2. \A t \in Session : pc[t] \in {"close", "exit", "done"} =>
                             pc'[t] \in {"close", "exit", "done"}
      BY <1>3 DEF Handler, Accept, Refuse, ReadRegister, ReadRestore, Rebind, AllocatePort,
                  StoreTunnel, StoreDomain, Exit, Goto
    <2> QED
      BY <1>2, <2>1, <2>2
  <1>4. ASSUME NEW t \in Session, LoopTop(t) \/ ReadMessage(t) \/ LoopClosed(t)
        PROVE  CloserInv'
    BY <1>2, <1>4 DEF LoopTop, ReadMessage, LoopClosed, Goto
  <1>5. ASSUME NEW t \in Session, ReadError(t) PROVE CloserInv'
    <2>1. CASE Cancelled(t)
      BY <1>2, <1>5, <2>1 DEF ReadError, Goto
    <2>2. CASE ~Cancelled(t)
      <3>1. Exists(t)
        BY <1>5 DEF ReadError, HandlerInv, Exists
      <3>2. /\ \A c \in Closer, u \in Session : <<c, u>> # <<t, t>> =>
                  progress'[c][u] = progress[c][u]
            /\ pc' = [pc EXCEPT ![t] = "close"]
            /\ UNCHANGED <<health, stop, toVisit>>
        BY <1>5, <2>2 DEF ReadError, Goto, Closer
      <3>3. t # HealthChecker /\ t # Stopper
        BY ConstantsAssumption
      <3>4. pc[t] = "read"
        BY <1>5 DEF ReadError
      <3>5. \A u \in Session : /\ progress'[HealthChecker][u] = progress[HealthChecker][u]
                               /\ progress'[Stopper][u] = progress[Stopper][u]
        BY <3>2, <3>3 DEF Closer
      <3>6. \A c \in Closer, u \in Session : progress'[c][u] # Outside => Exists(u)'
        BY <1>1, <3>1, <3>2 DEF CloserInv
      <3>7. \A c, u \in Session : progress'[c][u] # Outside =>
               c = u /\ pc'[u] \in {"close", "exit", "done"}
        BY <3>2, <3>4 DEF CloserInv, Closer
      <3> QED
        BY <1>1, <3>2, <3>5, <3>6, <3>7 DEF CloserInv, Busy, Closer
    <2> QED
      BY <2>1, <2>2
  <1>6. ASSUME NEW s \in Session, PeerCloses(s) PROVE CloserInv'
    BY <1>2, <1>6 DEF PeerCloses
  <1>7. ASSUME NEW c \in Closer, NEW t \in Session, closeTunnel(c, t) PROVE CloserInv'
    <2>1. PICK from \in Canceled .. DomainRemoved : Step(c, t, from)
      BY <1>7 DEF closeTunnel, Disconnect, ReleasePort, RemoveDomain, Unmap,
                  Canceled, Disconnected, PortReleased, DomainRemoved
    <2>2. UNCHANGED <<handlerVars, rangeVars>>
      BY <1>7 DEF closeTunnel, Disconnect, ReleasePort, RemoveDomain, Unmap
    <2>3. /\ progress[c][t] # Outside /\ progress[c][t] \in Canceled .. DomainRemoved
          /\ \A e \in Closer, u \in Session : <<e, u>> # <<c, t>> =>
               progress'[e][u] = progress[e][u]
      BY <2>1 DEF Step, Canceled, DomainRemoved, Outside
    <2>4. \A e \in Closer, u \in Session : progress'[e][u] # Outside => progress[e][u] # Outside
      BY <2>3
    <2>5. Busy(c)
      BY <2>3 DEF Busy
    <2>6. health # Nil => \A u \in Session :
            progress'[HealthChecker][u] = progress[HealthChecker][u]
      BY <2>3, <2>5 DEF CloserInv, Closer
    <2> QED
      BY <1>1, <2>2, <2>4, <2>6 DEF CloserInv, Closer, Busy
  <1>8. ASSUME NEW i \in Id, HealthVisit(i) PROVE CloserInv'
    <2>1. UNCHANGED <<handlerVars, progress, stop, toVisit>> /\ health' = tunnels[i]
      BY <1>8 DEF HealthVisit
    <2>2. health' \in Session /\ Exists(health') /\ ~Busy(HealthChecker)
      BY <1>8, ConstantsAssumption DEF HealthVisit, MappedIsLive
    <2>3. progress[HealthChecker][health'] = Outside
      BY <1>8, <2>2 DEF HealthVisit, MappedIsLive, HasClosed, Busy, Closer,
                        Outside, Canceled, DomainRemoved, Closed
    <2> QED
      BY <1>1, <2>1, <2>2, <2>3, ConstantsAssumption DEF CloserInv, Busy, Exists, Registered
  <1>9. CASE HealthPass
    BY <1>9 DEF HealthPass, CloserInv, Busy, Exists, Registered
  <1>10. CASE HealthTimeout
    <2>1. health \in Session /\ Exists(health)
      BY <1>10 DEF HealthTimeout, CloserInv
    <2>2. /\ \A c \in Closer, u \in Session : <<c, u>> # <<HealthChecker, health>> =>
               progress'[c][u] = progress[c][u]
          /\ health' = Nil /\ UNCHANGED <<handlerVars, stop, toVisit>>
      BY <1>10 DEF HealthTimeout
    <2>3. Registered(health) \/ req[health].kind = "restore"
      BY <1>10 DEF HealthTimeout
    <2>4. \A c \in Closer, u \in Session : progress'[c][u] # Outside => Exists(u)'
      BY <1>1, <2>1, <2>2 DEF CloserInv
    <2>5. \A c, u \in Session : progress'[c][u] = progress[c][u]
      BY <2>2, ConstantsAssumption DEF Closer
    <2>6. \A u \in Session : progress'[Stopper][u] = progress[Stopper][u]
      BY <2>2, ConstantsAssumption DEF Closer
    <2>7. \A u \in Session : progress'[HealthChecker][u] # Outside =>
            Registered(u) \/ req[u].kind = "restore"
      <3> SUFFICES ASSUME NEW u \in Session, progress'[HealthChecker][u] # Outside
                   PROVE  Registered(u) \/ req[u].kind = "restore"
        OBVIOUS
      <3>1. CASE u = health
        BY <2>3, <3>1
      <3>2. CASE u # health
        <4>1. progress'[HealthChecker][u] = progress[HealthChecker][u]
          BY <2>2, <3>2 DEF Closer
        <4> QED
          BY <4>1 DEF CloserInv
      <3> QED
        BY <3>1, <3>2
    <2>8. \A u \in Session : progress'[HealthChecker][u] # Outside =>
            Registered(u)' \/ req'[u].kind = "restore"
      BY <2>2, <2>7 DEF Registered, Exists
    <2>9. \A c, u \in Session : progress'[c][u] # Outside =>
            c = u /\ pc'[u] \in {"close", "exit", "done"}
      BY <2>2, <2>5 DEF CloserInv
    <2>10. stop' = "running" => toVisit' = {} /\ \A u \in Session : progress'[Stopper][u] = Outside
      BY <2>2, <2>6 DEF CloserInv
    <2> QED
      BY <2>2, <2>4, <2>8, <2>9, <2>10 DEF CloserInv
  <1>11. CASE StopServer
    BY <1>11 DEF StopServer, CloserInv, Busy, Exists, Registered
  <1>12. ASSUME NEW i \in Id, StopVisit(i) PROVE CloserInv'
    <2>1. UNCHANGED <<handlerVars, health, stop>> /\ stop # "running"
      BY <1>12 DEF StopVisit, CloserInv
    <2>2. CASE tunnels[i] = Nil
      BY <1>12, <2>1, <2>2 DEF StopVisit, CloserInv, Busy, Exists, Registered
    <2>3. CASE tunnels[i] # Nil
      <3>1. tunnels[i] \in Session /\ Exists(tunnels[i])
        BY <2>3 DEF MappedIsLive
      <3>2. \A c \in Closer, u \in Session : <<c, u>> # <<Stopper, tunnels[i]>> =>
               progress'[c][u] = progress[c][u]
        BY <1>12, <2>3 DEF StopVisit
      <3>3. \A u \in Session : progress'[HealthChecker][u] = progress[HealthChecker][u]
        BY <3>2, ConstantsAssumption DEF Closer
      <3>4. \A c, u \in Session : progress'[c][u] = progress[c][u]
        BY <3>2, ConstantsAssumption DEF Closer
      <3>5. \A c \in Closer, u \in Session : progress'[c][u] # Outside => Exists(u)'
        BY <1>1, <3>1, <3>2 DEF CloserInv
      <3> QED
        BY <1>1, <2>1, <3>3, <3>4, <3>5 DEF CloserInv, Busy, Closer
    <2> QED
      BY <2>2, <2>3
  <1>13. CASE StopRanged \/ StopReturn
    BY <1>13 DEF StopRanged, StopReturn, CloserInv, Busy, Exists, Registered
  <1>14. CASE UNCHANGED vars
    BY <1>2, <1>14 DEF vars
  <1> QED
    BY <1>3, <1>4, <1>5, <1>6, <1>7, <1>8, <1>9, <1>10, <1>11, <1>12, <1>13, <1>14
    DEF Next, ControlLoop, Health, Stop

\* A caller enters closeTunnel(t) only if it never called it before; all other
\* changes of progress are the steps of closeTunnel.
Entries ==
    \A c \in Closer, t \in Session :
        \/ progress'[c][t] = progress[c][t]
        \/ progress[c][t] = Outside /\ progress'[c][t] = Canceled

LEMMA EnteredOnce ==
    ASSUME TypeOK, HandlerInv, CloserInv, MappedIsLive, [Next]_vars
    PROVE  (\E c \in Closer, t \in Session : closeTunnel(c, t)) \/ Entries
  <1> USE DEF TypeOK, handlerVars, tableVars, rangeVars
  <1>1. ASSUME progress' = progress PROVE Entries
    BY <1>1 DEF Entries
  <1>2. ASSUME NEW s \in Session, Handler(s) \/ PeerCloses(s) PROVE Entries
    BY <1>1, <1>2 DEF Handler, Accept, Refuse, ReadRegister, ReadRestore, Rebind,
                AllocatePort, StoreTunnel, StoreDomain, Exit, PeerCloses
  <1>3. ASSUME NEW t \in Session, LoopTop(t) \/ ReadMessage(t) \/ LoopClosed(t)
        PROVE  Entries
    BY <1>1, <1>3 DEF LoopTop, ReadMessage, LoopClosed
  <1>4. ASSUME NEW t \in Session, ReadError(t) PROVE Entries
    <2>1. pc[t] = "read" /\ progress[t][t] = Outside
      BY <1>4 DEF ReadError, CloserInv
    <2>2. progress' = progress \/ progress' = [progress EXCEPT ![t][t] = Canceled]
      BY <1>4 DEF ReadError
    <2> QED
      BY <2>1, <2>2 DEF Entries
  <1>5. CASE HealthTimeout
    <2>1. health \in Session /\ progress[HealthChecker][health] = Outside
      BY <1>5 DEF HealthTimeout, CloserInv
    <2>2. progress' = [progress EXCEPT ![HealthChecker][health] = Canceled]
      BY <1>5 DEF HealthTimeout
    <2> QED
      BY <2>1, <2>2 DEF Entries
  <1>6. ASSUME NEW i \in Id, StopVisit(i) PROVE Entries
    <2>1. CASE tunnels[i] = Nil
      BY <1>1, <1>6, <2>1 DEF StopVisit
    <2>2. CASE tunnels[i] # Nil
      <3>1. tunnels[i] \in Session /\ progress' = [progress EXCEPT ![Stopper][tunnels[i]] = Canceled]
        BY <1>6, <2>2 DEF StopVisit
      <3>2. progress[Stopper][tunnels[i]] = Outside
        BY <1>6, <2>2, <3>1 DEF StopVisit, MappedIsLive, HasClosed, Busy, Closer,
                                Outside, Canceled, DomainRemoved, Closed
      <3> QED
        BY <3>1, <3>2 DEF Entries
    <2> QED
      BY <2>1, <2>2
  <1>7. CASE (\E i \in Id : HealthVisit(i)) \/ HealthPass \/ StopServer \/ StopRanged \/ StopReturn
    BY <1>1, <1>7 DEF HealthVisit, HealthPass, StopServer, StopRanged, StopReturn
  <1>8. CASE UNCHANGED vars
    BY <1>1, <1>8 DEF vars
  <1> QED
    BY <1>2, <1>3, <1>4, <1>5, <1>6, <1>7, <1>8 DEF Next, ControlLoop, Health, Stop

\* What one step of closeTunnel does to progress.
LEMMA CloseStep ==
    ASSUME TypeOK, NEW c \in Closer, NEW t \in Session, closeTunnel(c, t)
    PROVE  /\ progress[c][t] \in Canceled .. DomainRemoved
           /\ progress'[c][t] = progress[c][t] + 1
           /\ \A e \in Closer, u \in Session : <<e, u>> # <<c, t>> =>
                progress'[e][u] = progress[e][u]
           /\ UNCHANGED handlerVars
  BY DEF closeTunnel, Disconnect, ReleasePort, RemoveDomain, Unmap, Step, TypeOK,
         Canceled, Disconnected, PortReleased, DomainRemoved

\* The maps are written by StoreTunnel and Unmap only.
LEMMA TunnelsFrame ==
    ASSUME [Next]_vars
    PROVE  \/ \E s \in Session : StoreTunnel(s)
           \/ \E c \in Closer, t \in Session : Unmap(c, t)
           \/ tunnels' = tunnels
  BY DEF Next, Handler, Accept, Refuse, ReadRegister, ReadRestore, Rebind, AllocatePort,
         StoreDomain, Exit, ControlLoop, LoopTop, ReadMessage, ReadError, LoopClosed,
         PeerCloses, closeTunnel, Disconnect, ReleasePort, RemoveDomain,
         Health, HealthVisit, HealthPass, HealthTimeout, Stop, StopServer, StopVisit,
         StopRanged, StopReturn, vars, tableVars

\* Completed calls of closeTunnel stay so, and Unmap completes one.
LEMMA ClosedFrame ==
    ASSUME TypeOK, HandlerInv, CloserInv, MappedIsLive, [Next]_vars,
           NEW c \in Closer, NEW t \in Session
    PROVE  /\ HasClosed(c, t) => HasClosed(c, t)'
           /\ HasReleased(c, t) => HasReleased(c, t)'
           /\ HasClosed(c, t)' => HasClosed(c, t) \/ Unmap(c, t)
           /\ HasReleased(c, t)' => HasReleased(c, t) \/ ReleasePort(c, t)
  <1> USE DEF TypeOK, HasClosed, HasReleased, Outside, Canceled, Disconnected, PortReleased,
              DomainRemoved, Closed
  <1>1. CASE Entries
    BY <1>1 DEF Entries
  <1>2. ASSUME NEW e \in Closer, NEW u \in Session, closeTunnel(e, u), <<e, u>> # <<c, t>>
        PROVE  progress'[c][t] = progress[c][t]
    BY <1>2, CloseStep
  <1>3. CASE closeTunnel(c, t)
    <2>1. progress'[c][t] = progress[c][t] + 1 /\ progress[c][t] \in Canceled .. DomainRemoved
      BY <1>3, CloseStep
    <2>2. /\ progress[c][t] = DomainRemoved => Unmap(c, t)
          /\ progress[c][t] = Disconnected => ReleasePort(c, t)
      BY <1>3 DEF closeTunnel, Disconnect, ReleasePort, RemoveDomain, Unmap, Step
    <2> QED
      BY <2>1, <2>2
  <1> QED
    BY <1>1, <1>2, <1>3, EnteredOnce

\* Only tunnels that exist and that no closeTunnel has finished with are mapped.
LEMMA MappedStep ==
    TypeOK /\ HandlerInv /\ CloserInv /\ MappedIsLive /\ [Next]_vars => MappedIsLive'
  <1> SUFFICES ASSUME TypeOK, HandlerInv, CloserInv, MappedIsLive, [Next]_vars
               PROVE  MappedIsLive'
    OBVIOUS
  <1>0. tunnels' \in [Id -> Session \cup {Nil}]
    BY TypeStep DEF TypeOK
  <1> SUFFICES ASSUME NEW i \in Id, NEW t \in Session, tunnels'[i] = t
               PROVE  Exists(t)' /\ req'[t].id = i /\ \A c \in Closer : ~HasClosed(c, t)'
    BY <1>0 DEF MappedIsLive, Exists, HasClosed
  <1> DEFINE Goal == Exists(t)' /\ req'[t].id = i /\ \A c \in Closer : ~HasClosed(c, t)'
  <1>1. ASSUME tunnels[i] = t, \A c \in Closer : ~Unmap(c, t) PROVE Goal
    <2>1. Exists(t) /\ req[t].id = i /\ \A c \in Closer : ~HasClosed(c, t)
      BY <1>1, ConstantsAssumption DEF MappedIsLive
    <2>2. Exists(t)' /\ req'[t] = req[t]
      BY <2>1, TunnelsStay
    <2>3. \A c \in Closer : ~HasClosed(c, t)'
      BY <1>1, <2>1, ClosedFrame
    <2> QED
      BY <2>1, <2>2, <2>3
  <1>2. ASSUME NEW s \in Session, StoreTunnel(s) PROVE Goal
    <2>1. progress' = progress /\ req' = req /\ pc[s] = "store" /\ pc'[s] = "domain"
      BY <1>2 DEF StoreTunnel, Goto, TypeOK
    <2>2. CASE i = req[s].id
      <3>1. t = s
        BY <1>2, <2>2 DEF StoreTunnel, TypeOK
      <3>2. Exists(t)'
        BY <2>1, <3>1 DEF Exists, HandlerInv
      <3>3. \A c \in Closer : progress[c][t] = Outside
        BY <2>1, <3>1 DEF CloserInv, Exists
      <3>4. \A c \in Closer : ~HasClosed(c, t)'
        BY <2>1, <3>3 DEF HasClosed, Closed, Outside
      <3> QED
        BY <2>1, <2>2, <3>1, <3>2, <3>4
    <2>3. CASE i # req[s].id
      <3>1. tunnels[i] = t
        BY <1>2, <2>3 DEF StoreTunnel, TypeOK
      <3>2. \A c \in Closer : ~Unmap(c, t)
        BY <2>1 DEF Unmap, Step, TypeOK, DomainRemoved
      <3> QED
        BY <1>1, <3>1, <3>2
    <2> QED
      BY <2>2, <2>3
  <1>3. ASSUME NEW c \in Closer, NEW u \in Session, Unmap(c, u) PROVE Goal
    <2>1. tunnels' = [tunnels EXCEPT ![req[u].id] = Nil]
      BY <1>3 DEF Unmap
    <2>2. tunnels[i] = t /\ i # req[u].id
      BY <2>1, ConstantsAssumption DEF TypeOK
    <2>3. t # u
      BY <2>2, ConstantsAssumption DEF MappedIsLive
    <2>4. \A e \in Closer : ~Unmap(e, t)
      BY <1>3, <2>3 DEF Unmap, Step, TypeOK, DomainRemoved
    <2> QED
      BY <1>1, <2>2, <2>4
  <1>4. ASSUME tunnels' = tunnels PROVE Goal
    <2>1. req[t].id = i
      BY <1>4, ConstantsAssumption DEF MappedIsLive
    <2>2. \A c \in Closer : ~Unmap(c, t)
      BY <1>4, <2>1, ConstantsAssumption DEF Unmap, TypeOK
    <2> QED
      BY <1>1, <1>4, <2>2
  <1> QED
    BY <1>2, <1>3, <1>4, TunnelsFrame

\* A live tunnel leaves the map only through another tunnel of its ID.
LEMMA UnmappedStep ==
    TypeOK /\ HandlerInv /\ CloserInv /\ MappedIsLive /\ UnmappedOnlyBySameId /\ [Next]_vars
    => UnmappedOnlyBySameId'
  <1> SUFFICES ASSUME TypeOK, HandlerInv, CloserInv, MappedIsLive, UnmappedOnlyBySameId,
                      [Next]_vars, NEW t \in Session, Exists(t)'
               PROVE  \/ tunnels'[req'[t].id] = t
                      \/ \E c \in Closer : HasClosed(c, t)'
                      \/ \E u \in Session \ {t} : Exists(u)' /\ req'[u].id = req'[t].id
    BY DEF UnmappedOnlyBySameId
  <1> DEFINE Goal == \/ tunnels'[req'[t].id] = t
                     \/ \E c \in Closer : HasClosed(c, t)'
                     \/ \E u \in Session \ {t} : Exists(u)' /\ req'[u].id = req'[t].id
  <1>1. ASSUME Exists(t), tunnels[req[t].id] # t PROVE Goal
    <2>1. req'[t] = req[t]
      BY <1>1, TunnelsStay
    <2>2. CASE \E c \in Closer : HasClosed(c, t)
      BY <2>2, ClosedFrame
    <2>3. ASSUME NEW u \in Session \ {t}, Exists(u), req[u].id = req[t].id PROVE Goal
      BY <2>1, <2>3, TunnelsStay
    <2> QED
      BY <1>1, <2>2, <2>3 DEF UnmappedOnlyBySameId
  <1>2. ASSUME Exists(t), tunnels[req[t].id] = t PROVE Goal
    <2>1. req'[t] = req[t]
      BY <1>2, TunnelsStay
    <2>2. req[t] \in RequestType
      BY <1>2 DEF Exists, TypeOK
    <2>3. req[t].id \in Id
      BY <2>2 DEF RequestType
    <2>4. CASE tunnels' = tunnels
      BY <1>2, <2>1, <2>4
    <2>5. ASSUME NEW s \in Session, StoreTunnel(s) PROVE Goal
      <3>1. req' = req /\ pc[s] = "store" /\ pc'[s] = "domain" /\ Exists(s)'
        BY <2>5 DEF StoreTunnel, Goto, TypeOK, Exists, HandlerInv
      <3>2. s # t
        BY <1>2, <3>1 DEF Exists
      <3>3. CASE req[s].id = req[t].id
        BY <3>1, <3>2, <3>3
      <3>4. CASE req[s].id # req[t].id
        BY <1>2, <2>1, <2>3, <2>5, <3>4 DEF StoreTunnel, TypeOK
      <3> QED
        BY <3>3, <3>4
    <2>6. ASSUME NEW c \in Closer, NEW u \in Session, Unmap(c, u) PROVE Goal
      <3>1. CASE u = t
        <4>1. HasClosed(c, t)'
          BY <2>6, <3>1 DEF Unmap, Step, HasClosed, TypeOK, DomainRemoved, Closed
        <4> QED
          BY <4>1
      <3>2. CASE u # t /\ req[u].id = req[t].id
        <4>1. Exists(u)
          BY <2>6 DEF Unmap, Step, CloserInv, DomainRemoved, Outside
        <4>2. Exists(u)' /\ req'[u] = req[u]
          BY <4>1, TunnelsStay
        <4> QED
          BY <2>1, <3>2, <4>2
      <3>3. CASE req[u].id # req[t].id
        BY <1>2, <2>1, <2>3, <2>6, <3>3 DEF Unmap, TypeOK
      <3> QED
        BY <3>1, <3>2, <3>3
    <2> QED
      BY <2>4, <2>5, <2>6, TunnelsFrame
  <1>3. ASSUME ~Exists(t) PROVE Goal
    <2>1. StoreTunnel(t)
      BY <1>3, NewTunnel
    <2>2. req[t] \in RequestType /\ req' = req
      BY <2>1 DEF StoreTunnel, HandlerInv, TypeOK
    <2>3. req[t].id \in Id
      BY <2>2 DEF RequestType
    <2> QED
      BY <2>1, <2>2, <2>3 DEF StoreTunnel, TypeOK
  <1> QED
    BY <1>1, <1>2, <1>3

\* tunnelByDomain is written by StoreDomain and RemoveDomain only.
LEMMA RoutesFrame ==
    ASSUME [Next]_vars
    PROVE  \/ \E s \in Session : StoreDomain(s)
           \/ \E c \in Closer, t \in Session : RemoveDomain(c, t)
           \/ tunnelByDomain' = tunnelByDomain
  BY DEF Next, Handler, Accept, Refuse, ReadRegister, ReadRestore, Rebind, AllocatePort,
         StoreTunnel, Exit, ControlLoop, LoopTop, ReadMessage, ReadError, LoopClosed,
         PeerCloses, closeTunnel, Disconnect, ReleasePort, Unmap,
         Health, HealthVisit, HealthPass, HealthTimeout, Stop, StopServer, StopVisit,
         StopRanged, StopReturn, vars, tableVars

\* The context of the server stays cancelled.
LEMMA DoneStays == ASSUME [Next]_vars, ServerDone PROVE ServerDone'
  BY DEF ServerDone, Next, Handler, Accept, Refuse, ReadRegister, ReadRestore, Rebind,
         AllocatePort, StoreTunnel, StoreDomain, Exit, ControlLoop, LoopTop, ReadMessage,
         ReadError, LoopClosed, PeerCloses, closeTunnel, Disconnect, ReleasePort,
         RemoveDomain, Unmap, Health, HealthVisit, HealthPass, HealthTimeout, Stop,
         StopServer, StopVisit, StopRanged, StopReturn, vars, rangeVars

\* A tunnel whose route closeTunnel has not removed keeps that status, except by
\* RemoveDomain.
LEMMA RoutedFrame ==
    ASSUME TypeOK, HandlerInv, CloserInv, MappedIsLive, [Next]_vars,
           NEW c \in Closer, NEW t \in Session,
           progress[c][t] < DomainRemoved, ~RemoveDomain(c, t)
    PROVE  progress'[c][t] < DomainRemoved
  <1> USE DEF TypeOK, Outside, Canceled, Disconnected, PortReleased, DomainRemoved, Closed
  <1>1. CASE Entries
    BY <1>1 DEF Entries
  <1>2. ASSUME NEW e \in Closer, NEW u \in Session, closeTunnel(e, u), <<e, u>> # <<c, t>>
        PROVE  progress'[c][t] = progress[c][t]
    BY <1>2, CloseStep
  <1>3. CASE closeTunnel(c, t)
    <2>1. progress'[c][t] = progress[c][t] + 1 /\ progress[c][t] \in Canceled .. DomainRemoved
      BY <1>3, CloseStep
    <2>2. progress[c][t] = PortReleased => RemoveDomain(c, t)
      BY <1>3 DEF closeTunnel, Disconnect, ReleasePort, RemoveDomain, Unmap, Step
    <2> QED
      BY <2>1, <2>2
  <1> QED
    BY <1>1, <1>2, <1>3, EnteredOnce

\* Routes lead to live tunnels.  The delicate step is StoreDomain, which runs after
\* the tunnel could already be found in the map: its control loop has not started,
\* Stop has not begun, and the health check closes an unregistered tunnel only if
\* it was restored, in which case it has no domain to route.
LEMMA RouteStep ==
    TypeOK /\ HandlerInv /\ CloserInv /\ MappedIsLive /\ RouteIsLive /\ [Next]_vars
    => RouteIsLive'
  <1> SUFFICES ASSUME TypeOK, HandlerInv, CloserInv, MappedIsLive, RouteIsLive, [Next]_vars
               PROVE  RouteIsLive'
    OBVIOUS
  <1>0. tunnelByDomain' \in [Domain -> Session \cup {Nil}]
    BY TypeStep DEF TypeOK
  <1> SUFFICES ASSUME NEW d \in Domain, NEW t \in Session, tunnelByDomain'[d] = t, ~ServerDone'
               PROVE  /\ Exists(t)' /\ req'[t].domain = d
                      /\ \A c \in Closer : progress'[c][t] < DomainRemoved
    BY <1>0 DEF RouteIsLive, Exists, ServerDone
  <1> DEFINE Goal == /\ Exists(t)' /\ req'[t].domain = d
                     /\ \A c \in Closer : progress'[c][t] < DomainRemoved
  <1>1. ~ServerDone
    BY DoneStays
  <1>2. ASSUME tunnelByDomain[d] = t, \A c \in Closer : ~RemoveDomain(c, t) PROVE Goal
    <2>1. Exists(t) /\ req[t].domain = d /\ \A c \in Closer : progress[c][t] < DomainRemoved
      BY <1>1, <1>2, ConstantsAssumption DEF RouteIsLive
    <2>2. Exists(t)' /\ req'[t] = req[t]
      BY <2>1, TunnelsStay
    <2>3. \A c \in Closer : progress'[c][t] < DomainRemoved
      BY <1>2, <2>1, RoutedFrame
    <2> QED
      BY <2>1, <2>2, <2>3
  <1>3. ASSUME NEW s \in Session, StoreDomain(s) PROVE Goal
    <2>1. /\ progress' = progress /\ req' = req /\ pc[s] = "domain" /\ pc'[s] = "loop"
          /\ tunnelByDomain' = [e \in Domain |->
                                  IF e = req[s].domain THEN s ELSE tunnelByDomain[e]]
      BY <1>3 DEF StoreDomain, Goto, TypeOK
    <2>2. CASE d = req[s].domain
      <3>1. t = s
        BY <2>1, <2>2
      <3>2. Exists(t)' /\ Exists(t) /\ ~Registered(t) /\ req[t] # Nil
        BY <2>1, <3>1 DEF Exists, Registered, HandlerInv
      <3>3. req[t].kind # "restore"
        BY <2>2, <3>1, <3>2, ConstantsAssumption DEF HandlerInv
      <3>4. \A c \in Session : progress[c][t] = Outside
        BY <2>1, <3>1 DEF CloserInv
      <3>5. progress[HealthChecker][t] = Outside /\ progress[Stopper][t] = Outside
        BY <1>1, <3>2, <3>3 DEF CloserInv, ServerDone
      <3>6. \A c \in Closer : progress[c][t] = Outside
        BY <3>4, <3>5 DEF Closer
      <3>7. \A c \in Closer : progress'[c][t] < DomainRemoved
        BY <2>1, <3>6 DEF Outside, DomainRemoved
      <3> QED
        BY <2>1, <2>2, <3>1, <3>2, <3>7
    <2>3. CASE d # req[s].domain
      <3>1. tunnelByDomain[d] = t
        BY <2>1, <2>3
      <3>2. \A c \in Closer : ~RemoveDomain(c, t)
        BY <2>1 DEF RemoveDomain, Step, TypeOK, PortReleased
      <3> QED
        BY <1>2, <3>1, <3>2
    <2> QED
      BY <2>2, <2>3
  <1>4. ASSUME NEW c \in Closer, NEW u \in Session, RemoveDomain(c, u) PROVE Goal
    <2>1. tunnelByDomain' = [e \in Domain |->
                               IF e = req[u].domain THEN Nil ELSE tunnelByDomain[e]]
      BY <1>4 DEF RemoveDomain
    <2>2. tunnelByDomain[d] = t /\ d # req[u].domain
      BY <2>1, ConstantsAssumption
    <2>3. t # u
      BY <1>1, <2>2, ConstantsAssumption DEF RouteIsLive
    <2>4. \A e \in Closer : ~RemoveDomain(e, t)
      BY <1>4, <2>3 DEF RemoveDomain, Step, TypeOK, PortReleased
    <2> QED
      BY <1>2, <2>2, <2>4
  <1>5. ASSUME tunnelByDomain' = tunnelByDomain PROVE Goal
    <2>1. req[t].domain = d
      BY <1>1, <1>5, ConstantsAssumption DEF RouteIsLive
    <2>2. \A c \in Closer : ~RemoveDomain(c, t)
      BY <1>5, <2>1, ConstantsAssumption DEF RemoveDomain, TypeOK
    <2> QED
      BY <1>2, <1>5, <2>2
  <1> QED
    BY <1>3, <1>4, <1>5, RoutesFrame

\* A closeTunnel never goes back, so a context once cancelled stays so.
LEMMA ProgressGrows ==
    ASSUME TypeOK, HandlerInv, CloserInv, MappedIsLive, [Next]_vars,
           NEW c \in Closer, NEW t \in Session
    PROVE  /\ progress[c][t] \in Int /\ progress'[c][t] \in Int
           /\ progress'[c][t] >= progress[c][t]
  <1>a. TypeOK'
    BY TypeStep
  <1>0. progress' \in [Closer -> [Session -> Outside .. Closed]]
    BY <1>a DEF TypeOK
  <1> USE DEF TypeOK, Outside, Canceled, DomainRemoved, Closed
  <1>1. CASE Entries
    BY <1>1 DEF Entries
  <1>2. ASSUME NEW e \in Closer, NEW u \in Session, closeTunnel(e, u), <<e, u>> # <<c, t>>
        PROVE  progress'[c][t] = progress[c][t]
    BY <1>2, CloseStep
  <1>3. CASE closeTunnel(c, t)
    BY <1>3, CloseStep
  <1>4. progress[c][t] \in 0 .. 5 /\ progress'[c][t] \in 0 .. 5
    BY <1>0
  <1>5. progress'[c][t] >= progress[c][t]
    BY <1>1, <1>2, <1>3, <1>4, EnteredOnce
  <1> QED
    BY <1>4, <1>5

LEMMA CancelledStays ==
    ASSUME TypeOK, HandlerInv, CloserInv, MappedIsLive, [Next]_vars,
           NEW t \in Session, Cancelled(t)
    PROVE  Cancelled(t)'
  <1>1. CASE ServerDone
    BY <1>1, DoneStays DEF Cancelled
  <1>2. ASSUME NEW c \in Closer, progress[c][t] >= Canceled PROVE Cancelled(t)'
    <2>1. progress'[c][t] >= Canceled
      BY <1>2, ProgressGrows DEF Canceled
    <2> QED
      BY <2>1 DEF Cancelled
  <1> QED
    BY <1>1, <1>2 DEF Cancelled

\* A registration ends with StoreDomain.
LEMMA NewlyRegistered ==
    ASSUME TypeOK, HandlerInv, [Next]_vars, NEW t \in Session, ~Registered(t), Registered(t)'
    PROVE  StoreDomain(t)
  <1>1. Exists(t)
    <2> SUFFICES ASSUME ~Exists(t) PROVE FALSE
      OBVIOUS
    <2>1. StoreTunnel(t)
      BY NewTunnel DEF Registered
    <2> QED
      BY <2>1 DEF StoreTunnel, Goto, Registered, TypeOK
  <1>2. pc[t] = "domain" /\ pc'[t] # "domain"
    BY <1>1 DEF Registered
  <1> USE <1>2 DEF TypeOK, handlerVars, tableVars, rangeVars
  <1>3. CASE \E s \in Session : Accept(s) \/ Refuse(s)
    BY <1>3 DEF Accept, Refuse, Goto
  <1>4. CASE \E s \in Session, r \in Request : ReadRegister(s, r) \/ ReadRestore(s, r)
    BY <1>4 DEF ReadRegister, ReadRestore, Goto
  <1>5. CASE \E s \in Session : Rebind(s) \/ AllocatePort(s) \/ StoreTunnel(s)
    BY <1>5 DEF Rebind, AllocatePort, StoreTunnel, Goto
  <1>6. CASE \E s \in Session : StoreDomain(s) \/ Exit(s)
    BY <1>6 DEF StoreDomain, Exit, Goto
  <1>7. CASE \E s \in Session : ControlLoop(s)
    BY <1>7 DEF ControlLoop, LoopTop, ReadMessage, ReadError, LoopClosed, Goto
  <1>8. CASE \E s \in Session : PeerCloses(s)
    BY <1>8 DEF PeerCloses
  <1>9. CASE \E c \in Closer, u \in Session : closeTunnel(c, u)
    BY <1>9, CloseStep
  <1>10. CASE Health \/ Stop
    BY <1>10 DEF Health, Stop, HealthVisit, HealthPass, HealthTimeout,
                 StopServer, StopVisit, StopRanged, StopReturn
  <1>11. CASE UNCHANGED vars
    BY <1>11 DEF vars
  <1> QED
    BY <1>3, <1>4, <1>5, <1>6, <1>7, <1>8, <1>9, <1>10, <1>11 DEF Next, Handler

\* A tunnel nobody closes loses its route only to a tunnel of the same domain: one
\* whose StoreDomain replaces it, or one whose RemoveDomain deletes it by key.
LEMMA UnroutedStep ==
    TypeOK /\ HandlerInv /\ CloserInv /\ MappedIsLive /\ UnroutedOnlyBySameDomain /\ [Next]_vars
    => UnroutedOnlyBySameDomain'
  <1> SUFFICES ASSUME TypeOK, HandlerInv, CloserInv, MappedIsLive, UnroutedOnlyBySameDomain,
                      [Next]_vars, NEW t \in Session, Registered(t)', ~Cancelled(t)',
                      NEW d, d = req'[t].domain, d # Nil
               PROVE  \/ tunnelByDomain'[d] = t
                      \/ \E u \in Session \ {t} :
                           /\ Exists(u)' /\ req'[u].domain = d
                           /\ \/ tunnelByDomain'[d] = u
                              \/ \E c \in Closer : progress'[c][u] >= DomainRemoved
    BY DEF UnroutedOnlyBySameDomain
  <1> DEFINE Goal == \/ tunnelByDomain'[d] = t
                     \/ \E u \in Session \ {t} :
                          /\ Exists(u)' /\ req'[u].domain = d
                          /\ \/ tunnelByDomain'[d] = u
                             \/ \E c \in Closer : progress'[c][u] >= DomainRemoved
  <1>1. ~Cancelled(t)
    BY CancelledStays
  <1>2. CASE ~Registered(t)
    <2>1. StoreDomain(t)
      BY <1>2, NewlyRegistered
    <2>2. req' = req /\ req[t] \in RequestType
      BY <2>1 DEF StoreDomain, HandlerInv, TypeOK
    <2>3. d \in Domain /\ d = req[t].domain
      BY <2>2 DEF RequestType
    <2> QED
      BY <2>1, <2>3 DEF StoreDomain
  <1>3. CASE Registered(t)
    <2>1. Exists(t) /\ req'[t] = req[t] /\ req[t] \in RequestType
      BY <1>3, TunnelsStay DEF Registered, Exists, TypeOK
    <2>2. d \in Domain /\ d = req[t].domain
      BY <2>1 DEF RequestType
    <2>3. ASSUME NEW u \in Session \ {t}, Exists(u), req[u].domain = d,
                 NEW c \in Closer, progress[c][u] >= DomainRemoved
          PROVE  Goal
      <3>1. progress'[c][u] >= DomainRemoved
        BY <2>3, ProgressGrows DEF DomainRemoved
      <3>2. Exists(u)' /\ req'[u].domain = d
        BY <2>3, TunnelsStay
      <3> QED
        BY <3>1, <3>2
    <2>4. ASSUME NEW u \in Session \ {t}, Exists(u), req[u].domain = d, tunnelByDomain'[d] = u
          PROVE  Goal
      <3>1. Exists(u)' /\ req'[u].domain = d
        BY <2>4, TunnelsStay
      <3> QED
        BY <2>4, <3>1
    <2>5. CASE tunnelByDomain'[d] = tunnelByDomain[d]
      <3>1. CASE tunnelByDomain[d] = t
        BY <2>5, <3>1
      <3>2. CASE tunnelByDomain[d] # t
        BY <1>1, <1>3, <2>2, <2>3, <2>4, <2>5, <3>2 DEF UnroutedOnlyBySameDomain
      <3> QED
        BY <3>1, <3>2
    <2>6. ASSUME NEW s \in Session, StoreDomain(s) PROVE Goal
      <3>1. CASE req[s].domain = d
        <4>1. tunnelByDomain'[d] = s
          BY <2>2, <2>6, <3>1 DEF StoreDomain
        <4>2. Exists(s)
          BY <2>6 DEF StoreDomain, Exists, HandlerInv
        <4> QED
          BY <2>4, <3>1, <4>1, <4>2
      <3>2. CASE req[s].domain # d
        <4>1. tunnelByDomain'[d] = tunnelByDomain[d]
          BY <2>2, <2>6, <3>2 DEF StoreDomain
        <4> QED
          BY <2>5, <4>1
      <3> QED
        BY <3>1, <3>2
    <2>7. ASSUME NEW c \in Closer, NEW u \in Session, RemoveDomain(c, u) PROVE Goal
      <3>1. progress[c][u] = PortReleased
        BY <2>7 DEF RemoveDomain, Step
      <3>2. u # t
        BY <1>1, <3>1 DEF Cancelled, PortReleased, Canceled
      <3>3. CASE req[u].domain = d
        <4>1. Exists(u)
          BY <3>1 DEF CloserInv, PortReleased, Outside
        <4>2. progress'[c][u] >= DomainRemoved
          BY <2>7 DEF RemoveDomain, Step, TypeOK, PortReleased, DomainRemoved
        <4>3. Exists(u)' /\ req'[u].domain = d
          BY <3>3, <4>1, TunnelsStay
        <4> QED
          BY <3>2, <4>2, <4>3
      <3>4. CASE req[u].domain # d
        <4>1. tunnelByDomain'[d] = tunnelByDomain[d]
          BY <2>2, <2>7, <3>4 DEF RemoveDomain
        <4> QED
          BY <2>5, <4>1
      <3> QED
        BY <3>3, <3>4
    <2>8. CASE tunnelByDomain' = tunnelByDomain
      BY <2>5, <2>8
    <2> QED
      BY <2>6, <2>7, <2>8, RoutesFrame
  <1> QED
    BY <1>2, <1>3

\* activeTunnels is written by StoreTunnel and Unmap only.
LEMMA CountFrame ==
    ASSUME [Next]_vars
    PROVE  \/ \E s \in Session : StoreTunnel(s)
           \/ \E c \in Closer, t \in Session : Unmap(c, t)
           \/ activeTunnels' = activeTunnels
  BY DEF Next, Handler, Accept, Refuse, ReadRegister, ReadRestore, Rebind, AllocatePort,
         StoreDomain, Exit, ControlLoop, LoopTop, ReadMessage, ReadError, LoopClosed,
         PeerCloses, closeTunnel, Disconnect, ReleasePort, RemoveDomain,
         Health, HealthVisit, HealthPass, HealthTimeout, Stop, StopServer, StopVisit,
         StopRanged, StopReturn, vars, tableVars

\* The live tunnels change by one at a time: StoreTunnel adds its own, Unmap removes
\* its own (if a first closeTunnel has not done so before).
LEMMA LiveFrame ==
    ASSUME TypeOK, HandlerInv, CloserInv, MappedIsLive, [Next]_vars
    PROVE  /\ \A s \in Session : StoreTunnel(s) =>
                s \notin LiveTunnels /\ LiveTunnels' = LiveTunnels \cup {s}
           /\ \A c \in Closer, t \in Session : Unmap(c, t) =>
                HasClosed(c, t)' /\ ~HasClosed(c, t) /\ LiveTunnels' = LiveTunnels \ {t}
           /\ \/ \E s \in Session : StoreTunnel(s)
              \/ \E c \in Closer, t \in Session : Unmap(c, t)
              \/ LiveTunnels' = LiveTunnels
  <1>1. \A t \in Session : Exists(t)' => Exists(t) \/ StoreTunnel(t)
    BY NewTunnel
  <1>2. \A t \in Session : Exists(t) => Exists(t)'
    BY TunnelsStay
  <1>3. ASSUME NEW s \in Session, StoreTunnel(s)
        PROVE  s \notin LiveTunnels /\ LiveTunnels' = LiveTunnels \cup {s}
    <2>1. progress' = progress /\ pc[s] = "store" /\ pc' = [pc EXCEPT ![s] = "domain"] /\ req' = req
      BY <1>3 DEF StoreTunnel, Goto
    <2>2. ~Exists(s) /\ Exists(s)'
      BY <2>1 DEF Exists, HandlerInv, TypeOK
    <2>3. \A c \in Closer : progress[c][s] = Outside
      BY <2>2 DEF CloserInv
    <2>4. \A c \in Closer : ~HasClosed(c, s)'
      BY <2>1, <2>3 DEF HasClosed, Outside, Closed
    <2>5. \A t \in Session : StoreTunnel(t) => t = s
      BY <2>1 DEF StoreTunnel, Goto, TypeOK
    <2> QED
      BY <1>1, <1>2, <2>1, <2>2, <2>4, <2>5 DEF LiveTunnels, HasClosed
  <1>4. ASSUME NEW c \in Closer, NEW t \in Session, Unmap(c, t)
        PROVE  HasClosed(c, t)' /\ ~HasClosed(c, t) /\ LiveTunnels' = LiveTunnels \ {t}
    <2>1. HasClosed(c, t)' /\ ~HasClosed(c, t)
      BY <1>4 DEF Unmap, Step, HasClosed, TypeOK, DomainRemoved, Closed
    <2>2. \A e \in Closer, u \in Session : u # t => (HasClosed(e, u)' <=> HasClosed(e, u))
      BY <1>4 DEF Unmap, Step, HasClosed, TypeOK
    <2>3. \A u \in Session : Exists(u)' <=> Exists(u)
      BY <1>4 DEF Unmap, Exists, handlerVars
    <2> QED
      BY <2>1, <2>2, <2>3 DEF LiveTunnels
  <1>5. ASSUME ~\E s \in Session : StoreTunnel(s), ~\E c \in Closer, t \in Session : Unmap(c, t)
        PROVE  LiveTunnels' = LiveTunnels
    <2>1. \A c \in Closer, t \in Session : HasClosed(c, t)' <=> HasClosed(c, t)
      BY <1>5, ClosedFrame
    <2> QED
      BY <1>1, <1>2, <1>5, <2>1 DEF LiveTunnels
  <1> QED
    BY <1>3, <1>4, <1>5

\* The counter follows the live tunnels, one at a time, as long as no tunnel has been
\* closed twice; the Unmap that would make it drift is a second one.
LEMMA CountStep ==
    /\ TypeOK /\ HandlerInv /\ CloserInv /\ MappedIsLive
    /\ IsFiniteSet(LiveTunnels) /\ CountSkewedOnlyByDoubleClose /\ [Next]_vars
    => IsFiniteSet(LiveTunnels)' /\ CountSkewedOnlyByDoubleClose'
  <1> SUFFICES ASSUME TypeOK, HandlerInv, CloserInv, MappedIsLive, IsFiniteSet(LiveTunnels),
                      CountSkewedOnlyByDoubleClose, [Next]_vars
               PROVE  IsFiniteSet(LiveTunnels') /\ CountSkewedOnlyByDoubleClose'
    OBVIOUS
  <1> DEFINE Twice == \E t \in Session : \E c, e \in Closer :
                        c # e /\ HasClosed(c, t) /\ HasClosed(e, t)
  <1>0. CountSkewedOnlyByDoubleClose <=> Twice \/ activeTunnels = Cardinality(LiveTunnels)
    BY DEF CountSkewedOnlyByDoubleClose, LiveTunnels
  <1>a. CountSkewedOnlyByDoubleClose' <=> Twice' \/ activeTunnels' = Cardinality(LiveTunnels')
    BY DEF CountSkewedOnlyByDoubleClose, LiveTunnels
  <1>b. Twice => Twice'
    BY ClosedFrame
  <1> HIDE DEF Twice
  <1>c. Cardinality(LiveTunnels) \in Nat /\ activeTunnels \in Int
    BY FS_CardinalityType DEF TypeOK
  <1>1. ASSUME NEW s \in Session, StoreTunnel(s)
        PROVE  IsFiniteSet(LiveTunnels') /\ CountSkewedOnlyByDoubleClose'
    <2>1. s \notin LiveTunnels /\ LiveTunnels' = LiveTunnels \cup {s}
      BY <1>1, LiveFrame
    <2>2. IsFiniteSet(LiveTunnels') /\ Cardinality(LiveTunnels') = Cardinality(LiveTunnels) + 1
      BY <2>1, FS_AddElement
    <2>3. activeTunnels' = activeTunnels + 1
      BY <1>1 DEF StoreTunnel
    <2> QED
      BY <1>0, <1>a, <1>b, <1>c, <2>2, <2>3
  <1>2. ASSUME NEW c \in Closer, NEW t \in Session, Unmap(c, t)
        PROVE  IsFiniteSet(LiveTunnels') /\ CountSkewedOnlyByDoubleClose'
    <2>1. HasClosed(c, t)' /\ ~HasClosed(c, t) /\ LiveTunnels' = LiveTunnels \ {t}
      BY <1>2, LiveFrame
    <2>2. /\ IsFiniteSet(LiveTunnels')
          /\ t \in LiveTunnels => Cardinality(LiveTunnels') = Cardinality(LiveTunnels) - 1
      BY <2>1, FS_RemoveElement
    <2>3. activeTunnels' = activeTunnels - 1
      BY <1>2 DEF Unmap
    <2>4. Exists(t)
      BY <1>2 DEF Unmap, Step, CloserInv, DomainRemoved, Outside
    <2>5. CASE t \in LiveTunnels
      BY <1>0, <1>a, <1>b, <1>c, <2>2, <2>3, <2>5
    <2>6. CASE t \notin LiveTunnels
      <3>1. PICK e \in Closer : HasClosed(e, t)
        BY <2>4, <2>6 DEF LiveTunnels
      <3>2. HasClosed(e, t)' /\ e # c
        BY <2>1, <3>1, ClosedFrame
      <3>3. Twice'
        BY <2>1, <3>2 DEF Twice
      <3> QED
        BY <1>a, <2>2, <3>3
    <2> QED
      BY <2>5, <2>6
  <1>3. ASSUME activeTunnels' = activeTunnels, LiveTunnels' = LiveTunnels
        PROVE  IsFiniteSet(LiveTunnels') /\ CountSkewedOnlyByDoubleClose'
    BY <1>0, <1>a, <1>b, <1>3
  <1> QED
    BY <1>1, <1>2, <1>3, CountFrame, LiveFrame

\* Ports are given by AllocatePort, which takes one that is not marked used, and
\* unmarked by ReleasePort; nothing else touches them.
LEMMA PortsFrame ==
    ASSUME TypeOK, HandlerInv, [Next]_vars
    PROVE  \/ \E s \in Session, p \in Port \ used :
                /\ pc[s] = "alloc" /\ progress' = progress
                /\ port' = [port EXCEPT ![s] = p] /\ used' = used \cup {p}
           \/ \E c \in Closer, t \in Session : ReleasePort(c, t)
           \/ port' = port /\ used' = used
  <1> USE DEF handlerVars, tableVars, rangeVars
  <1>1. ASSUME NEW s \in Session, AllocatePort(s)
        PROVE  \/ \E p \in Port \ used :
                    /\ pc[s] = "alloc" /\ progress' = progress
                    /\ port' = [port EXCEPT ![s] = p] /\ used' = used \cup {p}
               \/ port' = port /\ used' = used
    BY <1>1 DEF AllocatePort, LowestFree
  <1>2. CASE ~\E s \in Session : AllocatePort(s)
    BY <1>2 DEF Next, Handler, Accept, Refuse, ReadRegister, ReadRestore, Rebind, StoreTunnel,
         StoreDomain, Exit, ControlLoop, LoopTop, ReadMessage, ReadError, LoopClosed,
         PeerCloses, closeTunnel, Disconnect, RemoveDomain, Unmap,
         Health, HealthVisit, HealthPass, HealthTimeout, Stop, StopServer, StopVisit,
         StopRanged, StopReturn, vars
  <1> QED
    BY <1>1, <1>2

\* A session that is about to allocate has no port and no closeTunnel running on it.
LEMMA Allocating ==
    ASSUME TypeOK, HandlerInv, CloserInv, NEW s \in Session, pc[s] = "alloc"
    PROVE  port[s] = NoPort /\ \A c \in Closer : ~HasReleased(c, s)
  <1>1. ~Exists(s)
    BY DEF Exists
  <1>2. \A c \in Closer : progress[c][s] = Outside
    BY <1>1 DEF CloserInv
  <1> QED
    BY <1>2 DEF HandlerInv, HasReleased, Outside, PortReleased

\* A port released twice stays a port released twice.
LEMMA DoublyReleasedStays ==
    ASSUME TypeOK, HandlerInv, CloserInv, MappedIsLive, [Next]_vars, NEW p, DoublyReleased(p)
    PROVE  DoublyReleased(p)'
  <1>1. PICK t \in Session, c \in Closer, e \in Closer :
          port[t] = p /\ c # e /\ HasReleased(c, t) /\ HasReleased(e, t)
    BY DEF DoublyReleased
  <1>2. Exists(t)
    BY <1>1 DEF HasReleased, CloserInv, PortReleased, Outside
  <1>3. port'[t] = p
    BY <1>1, <1>2, TunnelsStay
  <1>4. HasReleased(c, t)' /\ HasReleased(e, t)'
    BY <1>1, ClosedFrame
  <1> QED
    BY <1>1, <1>3, <1>4 DEF DoublyReleased

\* Only one entry of progress moves in a ReleasePort step.
LEMMA ReleaseEffect ==
    ASSUME TypeOK, NEW c \in Closer, NEW t \in Session, ReleasePort(c, t)
    PROVE  /\ port' = port /\ used' = used \ {port[t]}
           /\ ~HasReleased(c, t) /\ HasReleased(c, t)'
           /\ \A e \in Closer, u \in Session : <<e, u>> # <<c, t>> =>
                (HasReleased(e, u)' <=> HasReleased(e, u))
  BY DEF ReleasePort, Step, HasReleased, TypeOK, handlerVars, Disconnected, PortReleased

\* Every used port is held.
LEMMA LeakStep ==
    TypeOK /\ HandlerInv /\ CloserInv /\ MappedIsLive /\ NoPortLeak /\ [Next]_vars
    => NoPortLeak'
  <1> SUFFICES ASSUME TypeOK, HandlerInv, CloserInv, MappedIsLive, NoPortLeak, [Next]_vars,
                      NEW p \in used'
               PROVE  \E t \in Session : HoldsPort(t)' /\ port'[t] = p
    BY DEF NoPortLeak
  <1>1. CASE \E s \in Session, q \in Port \ used :
               /\ pc[s] = "alloc" /\ progress' = progress
               /\ port' = [port EXCEPT ![s] = q] /\ used' = used \cup {q}
    <2>1. PICK s \in Session, q \in Port \ used :
               /\ pc[s] = "alloc" /\ progress' = progress
               /\ port' = [port EXCEPT ![s] = q] /\ used' = used \cup {q}
      BY <1>1
    <2>2. CASE p = q
      <3>1. port'[s] = p /\ p # NoPort
        BY <2>1, <2>2, ConstantsAssumption DEF TypeOK, Port, NoPort
      <3>2. \A c \in Closer : ~HasReleased(c, s)'
        BY <2>1, Allocating DEF HasReleased
      <3> QED
        BY <3>1, <3>2 DEF HoldsPort
    <2>3. CASE p # q
      <3>1. PICK t \in Session : HoldsPort(t) /\ port[t] = p
        BY <2>1, <2>3 DEF NoPortLeak
      <3>2. t # s
        BY <2>1, <3>1, Allocating DEF HoldsPort
      <3> QED
        BY <2>1, <3>1, <3>2 DEF HoldsPort, HasReleased, TypeOK
    <2> QED
      BY <2>2, <2>3
  <1>2. ASSUME NEW c \in Closer, NEW t \in Session, ReleasePort(c, t)
        PROVE  \E u \in Session : HoldsPort(u)' /\ port'[u] = p
    <2>1. p \in used /\ p # port[t]
      BY <1>2, ReleaseEffect
    <2>2. PICK u \in Session : HoldsPort(u) /\ port[u] = p
      BY <2>1 DEF NoPortLeak
    <2>3. HoldsPort(u)'
      BY <1>2, <2>1, <2>2, ReleaseEffect DEF HoldsPort
    <2> QED
      BY <1>2, <2>2, <2>3, ReleaseEffect
  <1>3. ASSUME port' = port, used' = used,
               ~\E c \in Closer, t \in Session : ReleasePort(c, t)
        PROVE  \E u \in Session : HoldsPort(u)' /\ port'[u] = p
    <2>1. PICK u \in Session : HoldsPort(u) /\ port[u] = p
      BY <1>3 DEF NoPortLeak
    <2>2. HoldsPort(u)'
      BY <1>3, <2>1, ClosedFrame DEF HoldsPort
    <2> QED
      BY <1>3, <2>1, <2>2
  <1> QED
    BY <1>1, <1>2, <1>3, PortsFrame

\* A port is lost by its holder only to a second release.  When AllocatePort hands
\* out a port somebody still holds, that holder had already lost it; when
\* ReleasePort takes a port from a tunnel other than its own, its own tunnel no
\* longer held it, so this is the second release for that tunnel.
LEMMA PortLostStep ==
    TypeOK /\ HandlerInv /\ CloserInv /\ MappedIsLive /\ PortLostOnlyByDoubleClose /\ [Next]_vars
    => PortLostOnlyByDoubleClose'
  <1> SUFFICES ASSUME TypeOK, HandlerInv, CloserInv, MappedIsLive, PortLostOnlyByDoubleClose,
                      [Next]_vars, NEW v \in Session, HoldsPort(v)', NEW n, n = port'[v],
                      ~DoublyReleased(n)'
               PROVE  n \in used' /\ \A u \in Session \ {v} : HoldsPort(u)' => port'[u] # n
    BY DEF PortLostOnlyByDoubleClose, DoublyReleased, HasReleased
  <1> DEFINE Goal == n \in used' /\ \A u \in Session \ {v} : HoldsPort(u)' => port'[u] # n
  <1>0. ~DoublyReleased(n)
    BY DoublyReleasedStays
  <1>a. ASSUME NEW u \in Session, HoldsPort(u), port[u] = n
        PROVE  n \in used /\ \A w \in Session \ {u} : HoldsPort(w) => port[w] # n
    BY <1>0, <1>a DEF PortLostOnlyByDoubleClose
  <1>1. CASE \E s \in Session, q \in Port \ used :
               /\ pc[s] = "alloc" /\ progress' = progress
               /\ port' = [port EXCEPT ![s] = q] /\ used' = used \cup {q}
    <2>1. PICK s \in Session, q \in Port \ used :
               /\ pc[s] = "alloc" /\ progress' = progress
               /\ port' = [port EXCEPT ![s] = q] /\ used' = used \cup {q}
      BY <1>1
    <2>2. \A u \in Session \ {s} : port'[u] = port[u] /\ (HoldsPort(u)' => HoldsPort(u))
      BY <2>1 DEF HoldsPort, HasReleased, TypeOK
    <2>3. port'[s] = q
      BY <2>1 DEF TypeOK
    <2>4. CASE v = s
      <3>1. n = q
        BY <2>3, <2>4
      <3>2. ASSUME NEW u \in Session \ {v}, HoldsPort(u)', port'[u] = n PROVE FALSE
        BY <1>a, <2>2, <2>4, <3>1, <3>2
      <3> QED
        BY <2>1, <3>1, <3>2
    <2>5. CASE v # s
      <3>1. HoldsPort(v) /\ port[v] = n
        BY <2>2, <2>5
      <3>2. n \in used /\ \A w \in Session \ {v} : HoldsPort(w) => port[w] # n
        BY <1>a, <3>1
      <3> QED
        BY <2>1, <2>2, <2>3, <3>2
    <2> QED
      BY <2>4, <2>5
  <1>2. ASSUME NEW c \in Closer, NEW t \in Session, ReleasePort(c, t) PROVE Goal
    <2>1. /\ port' = port /\ used' = used \ {port[t]}
          /\ \A u \in Session : HoldsPort(u)' => HoldsPort(u)
          /\ ~HasReleased(c, t) /\ HasReleased(c, t)'
      BY <1>2, ReleaseEffect DEF HoldsPort
    <2>2. v # t
      BY <2>1 DEF HoldsPort
    <2>3. n \in used /\ \A w \in Session \ {v} : HoldsPort(w) => port[w] # n
      BY <1>a, <2>1
    <2>4. ASSUME port[t] = n PROVE FALSE
      <3>1. ~HoldsPort(t)
        BY <2>2, <2>3, <2>4
      <3>2. n # NoPort
        BY <2>1 DEF HoldsPort
      <3>3. PICK e \in Closer : HasReleased(e, t)
        BY <2>4, <3>1, <3>2 DEF HoldsPort
      <3>4. e # c /\ HasReleased(e, t)'
        BY <1>2, <2>1, <3>3, ReleaseEffect
      <3> QED
        BY <2>1, <2>4, <3>4 DEF DoublyReleased
    <2> QED
      BY <2>1, <2>3, <2>4
  <1>3. ASSUME port' = port, used' = used,
               ~\E c \in Closer, t \in Session : ReleasePort(c, t)
        PROVE  Goal
    <2>1. \A u \in Session : HoldsPort(u)' => HoldsPort(u)
      BY <1>3, ClosedFrame DEF HoldsPort
    <2> QED
      BY <1>3, <1>a, <2>1
  <1> QED
    BY <1>1, <1>2, <1>3, PortsFrame

----------------------------------------------------------------------------
LEMMA InvInit == Init => IInv
  <1> SUFFICES ASSUME Init PROVE IInv
    OBVIOUS
  <1> USE ConstantsAssumption DEF Init
  <1>1. TypeOK
    BY TypeInit
  <1>2. HandlerInv
    BY DEF HandlerInv
  <1>3. \A c \in Closer, t \in Session : progress[c][t] = Outside
    OBVIOUS
  <1>4. CloserInv
    BY <1>3 DEF CloserInv, Closer
  <1>5. NoPortLeak /\ PortLostOnlyByDoubleClose
    BY DEF NoPortLeak, PortLostOnlyByDoubleClose, HoldsPort
  <1>6. MappedIsLive /\ UnmappedOnlyBySameId /\ RouteIsLive /\ UnroutedOnlyBySameDomain
    BY DEF MappedIsLive, UnmappedOnlyBySameId, RouteIsLive, UnroutedOnlyBySameDomain,
           Registered, Exists
  <1>7. LiveTunnels = {}
    BY DEF LiveTunnels, Exists
  <1>8. IsFiniteSet(LiveTunnels) /\ CountSkewedOnlyByDoubleClose
    BY <1>7, FS_EmptySet DEF CountSkewedOnlyByDoubleClose, LiveTunnels
  <1> QED
    BY <1>1, <1>2, <1>4, <1>5, <1>6, <1>8 DEF IInv

LEMMA InvStep == IInv /\ [Next]_vars => IInv'
  BY TypeStep, HandlerStep, CloserStep, MappedStep, UnmappedStep, RouteStep, UnroutedStep,
     CountStep, LeakStep, PortLostStep DEF IInv

\* IInv holds in every reachable state, whatever the number of clients, IDs,
\* domains and ports: the basis of the theorems below.
THEOREM InductiveInvariant == Spec => []IInv
  BY InvInit, InvStep, PTL DEF Spec

\* Every variable keeps its type: no handler acts on a tunnel or request that is
\* not there.
THEOREM TypeCorrect == Spec => []TypeOK
  BY InductiveInvariant, PTL DEF IInv

\* The port pool never leaks: a port marked used by PortManager.Allocate is always
\* held by a tunnel or registration that has not released it.
THEOREM NoPortLeaks == Spec => []NoPortLeak
  BY InductiveInvariant, PTL DEF IInv

\* A tunnel loses its port, or shares it, only after two callers of closeTunnel
\* have released that port number for one tunnel.
THEOREM PortsLostOnlyByDoubleClose == Spec => []PortLostOnlyByDoubleClose
  BY InductiveInvariant, PTL DEF IInv

\* healthCheck, Stop and handleSessionRestore never find in the map a tunnel that a
\* closeTunnel has finished with, or one stored under another ID.
THEOREM MappedTunnelsAreLive == Spec => []MappedIsLive
  BY InductiveInvariant, PTL DEF IInv

\* A tunnel that nobody has closed disappears from the map only when two sessions
\* register the same ID.
THEOREM LiveTunnelsAreMapped == Spec => []UnmappedOnlyBySameId
  BY InductiveInvariant, PTL DEF IInv

\* Until Stop, domain routing leads to tunnels whose route has not been removed.
THEOREM RoutesAreLive == Spec => []RouteIsLive
  BY InductiveInvariant, PTL DEF IInv

\* A registered tunnel that nobody closes loses its domain only to another tunnel of
\* that domain, although tunnelByDomain is written and deleted by key.
THEOREM RoutesLostOnlyBySameDomain == Spec => []UnroutedOnlyBySameDomain
  BY InductiveInvariant, PTL DEF IInv

\* activeTunnels, which the tunnel limit is checked against, counts exactly the live
\* tunnels until some tunnel is closed by two callers.
THEOREM CountIsExact == Spec => []CountSkewedOnlyByDoubleClose
  BY InductiveInvariant, PTL DEF IInv

\* No goroutine runs closeTunnel twice on one tunnel.
THEOREM CloseOncePerCaller == Spec => NoReclose
  <1> DEFINE Forward == \A c \in Closer, t \in Session : progress'[c][t] >= progress[c][t]
  <1>1. IInv /\ [Next]_vars => [Forward]_progress
    BY ProgressGrows DEF IInv
  <1> QED
    BY <1>1, InductiveInvariant, PTL DEF Spec, NoReclose
=============================================================================
