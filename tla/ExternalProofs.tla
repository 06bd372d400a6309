--------------------------- MODULE ExternalProofs ----------------------------
(****************************************************************************)
(* Theorems about the server's external side.  ServerConns, for any external *)
(* connections and any limit: the table of connections, and the slots of the *)
(* limiter.  TunnelListener, for any tunnels, ports and callers of closeTunnel. *)
(****************************************************************************)
EXTENDS ServerConns, TunnelListener, FiniteSetTheorems, TLAPS

----------------------------------------------------------------------------
(* ServerConns *)

\* Before it is stored a connection is known to nobody but its handler.
Fresh(x) ==
    /\ pipe[x] = "none" /\ sock[x] /\ counted[x] = 0
    /\ x \notin ExternalConns /\ x \notin streamActivity /\ sweep # x

\* A tcp connection is served by forwardExternalToControl; a domain connection by
\* its forwardBidirectional, during which, and only then, its handler waits.
RightHandler(x) ==
    /\ pc[x] \in {"idle", "acquired", "opened"} => Fresh(x)
    /\ Kind[x] = "tcp" => pc[x] \notin {"opened", "pipe"}
    /\ Kind[x] = "domain" =>
         /\ pc[x] \notin {"top", "read", "close", "forget", "release"}
         /\ pc[x] = "pipe" <=> pipe[x] \in {"start", "running", "forget"}

\* Only a forwarder that runs is in streamActivity, and the sweep only closes the
\* connection of one that has started.
Swept(x) ==
    /\ x \in streamActivity => pipe[x] \in {"running", "forget"}
    /\ sweep = x => pipe[x] \in {"running", "forget", "done"}

\* A stored connection has a forwarder that will forget it.
Stored(x) ==
    x \in ExternalConns =>
        /\ pc[x] \in {"top", "read", "close", "forget", "pipe"} /\ pipe[x] # "done"
        /\ ~sock[x] => pc[x] = "forget" \/ pipe[x] = "forget" \/ sweep = x

\* The unconditional decrements x may already have suffered: one by the sweep and,
\* for a tcp connection, one by the deferred function of its forwarder.
Floor(x) == (IF sweep = x THEN 0 ELSE -1)
            + (IF Kind[x] = "tcp" /\ pc[x] \in {"release", "done"} THEN -1 ELSE 0)

\* A stored connection is counted once; one that is not, at most zero times and no
\* less than the decrements allow.  (The sweep closes a connection only once: it
\* leaves streamActivity with it, and nobody stores it again.)
Counted(x) ==
    /\ x \in ExternalConns => counted[x] = 1
    /\ x \notin ExternalConns => counted[x] <= 0 /\ counted[x] >= Floor(x)

Safe(x) == RightHandler(x) /\ Swept(x) /\ Stored(x) /\ Counted(x)

ConnInv == \A x \in Conn : Safe(x)

\* Connections whose handler holds a slot, and domain connections that were
\* forwarded, whose slots are never given back.
Holding == {x \in Conn : pc[x] \notin {"idle", "done"}}
Lost    == {x \in Conn : Kind[x] = "domain" /\ pipe[x] = "done"}

SlotsInv ==
    /\ IsFiniteSet(Holding) /\ IsFiniteSet(Lost)
    /\ slots = Cardinality(Holding) + Cardinality(Lost)

IInv == TypeOK /\ ConnInv /\ SlotsInv

----------------------------------------------------------------------------
\* The steps about connection x, and those that only move data, end a stream or
\* advance closeTunnel.
About(x) ==
    \/ RefuseDomain(x) \/ Acquire(x) \/ OpenStream(x) \/ Store(x)
    \/ Fwd(x) \/ DataStream(x) \/ Pipe(x)
    \/ CloseConn(x) \/ SweepIdle(x) \/ Visit(x) \/ (SweepForget /\ sweep = x)

Quiet ==
    \/ \E x \in Conn : In(x) \/ Out(x) \/ PeerCloses(x) \/ StreamEnds(x)
    \/ Cancel \/ Disconnect \/ Ranged \/ UNCHANGED vars

LEMMA StepKinds == ASSUME TypeOK, [Next]_vars PROVE Quiet \/ \E x \in Conn : About(x)
  <1>1. CASE SweepForget
    <2>1. sweep \in Conn
      BY <1>1 DEF SweepForget, TypeOK
    <2>2. About(sweep)
      BY <1>1 DEF About
    <2> QED
      BY <2>1, <2>2
  <1>2. CASE ~SweepForget
    BY <1>2 DEF Next, Quiet, About
  <1> QED
    BY <1>1, <1>2

\* Nothing happens to connection y.
Same(y) ==
    /\ pc'[y] = pc[y] /\ pipe'[y] = pipe[y] /\ sock'[y] = sock[y] /\ counted'[y] = counted[y]
    /\ y \in ExternalConns' <=> y \in ExternalConns
    /\ y \in streamActivity' <=> y \in streamActivity
    /\ sweep' = y <=> sweep = y

LEMMA SameIsSafe == ASSUME NEW y \in Conn, Safe(y), Same(y) PROVE Safe(y)'
  BY DEF Same, Safe, RightHandler, Fresh, Swept, Stored, Counted, Floor

LEMMA OthersSame ==
    ASSUME TypeOK, NEW x \in Conn, NEW y \in Conn, x # y, About(x)
    PROVE  Same(y)
  <1> USE DEF TypeOK, Same, Goto, CloseSock, fwdVars, mapVars, tearVars
  <1>1. CASE RefuseDomain(x) \/ Acquire(x) \/ OpenStream(x)
    BY <1>1 DEF RefuseDomain, Acquire, OpenStream
  <1>2. CASE Store(x)
    BY <1>2 DEF Store
  <1>3. CASE Fwd(x)
    BY <1>3 DEF Fwd, FwdTop, FwdData, FwdReadError, FwdClose, FwdForget, FwdRelease, Forget
  <1>4. CASE DataStream(x) \/ Pipe(x)
    BY <1>4 DEF DataStream, Pipe, PipeStart, PipeClose, PipeForget, LoadAndForget
  <1>5. CASE CloseConn(x)
    BY <1>5 DEF CloseConn, LoadAndForget
  <1>6. CASE SweepIdle(x)
    BY <1>6, ConnAssumption DEF SweepIdle
  <1>7. CASE Visit(x)
    BY <1>7 DEF Visit, LoadAndForget
  <1>8. CASE SweepForget /\ sweep = x
    BY <1>8, ConnAssumption DEF SweepForget, Forget
  <1> QED
    BY <1>1, <1>2, <1>3, <1>4, <1>5, <1>6, <1>7, <1>8 DEF About

\* What the actions do to the connection they are about.
LEMMA OwnStep ==
    ASSUME TypeOK, NEW x \in Conn, Safe(x), About(x)
    PROVE  Safe(x)'
  <1> USE ConnAssumption
      DEF TypeOK, Safe, Goto, CloseSock, fwdVars, mapVars, tearVars,
          RightHandler, Fresh, Swept, Stored, Counted, Floor
  <1>1. CASE RefuseDomain(x)
    BY <1>1 DEF RefuseDomain
  <1>2. CASE Acquire(x)
    BY <1>2 DEF Acquire
  <1>3. CASE OpenStream(x)
    BY <1>3 DEF OpenStream
  <1>4. CASE Store(x)
    BY <1>4 DEF Store
  <1>5. CASE FwdTop(x)
    BY <1>5 DEF FwdTop
  <1>6. CASE FwdData(x) \/ FwdReadError(x)
    BY <1>6 DEF FwdData, FwdReadError
  <1>7. CASE FwdClose(x)
    BY <1>7 DEF FwdClose
  <1>8. CASE FwdForget(x)
    BY <1>8 DEF FwdForget, Forget
  <1>9. CASE FwdRelease(x)
    BY <1>9 DEF FwdRelease
  <1>10. CASE DataStream(x)
    BY <1>10 DEF DataStream
  <1>11. CASE PipeStart(x)
    BY <1>11 DEF PipeStart
  <1>12. CASE PipeClose(x)
    BY <1>12 DEF PipeClose
  <1>13. CASE PipeForget(x)
    BY <1>13 DEF PipeForget, LoadAndForget
  <1>14. CASE CloseConn(x)
    BY <1>14 DEF CloseConn, LoadAndForget
  <1>15. CASE SweepIdle(x)
    BY <1>15 DEF SweepIdle
  <1>16. CASE Visit(x)
    BY <1>16 DEF Visit, LoadAndForget
  <1>17. CASE SweepForget /\ sweep = x
    BY <1>17 DEF SweepForget, Forget
  <1> QED
    BY <1>1, <1>2, <1>3, <1>4, <1>5, <1>6, <1>7, <1>8, <1>9, <1>10, <1>11, <1>12, <1>13,
       <1>14, <1>15, <1>16, <1>17 DEF About, Fwd, Pipe

LEMMA QuietSame == ASSUME NEW y \in Conn, Quiet PROVE Same(y)
  BY DEF Quiet, In, Out, PeerCloses, StreamEnds, Cancel, Disconnect, Ranged, vars,
         Same, fwdVars, mapVars, tearVars

LEMMA ConnStep == TypeOK /\ ConnInv /\ [Next]_vars => ConnInv'
  <1> SUFFICES ASSUME TypeOK, ConnInv, [Next]_vars, NEW y \in Conn PROVE Safe(y)'
    BY DEF ConnInv
  <1>0. Safe(y)
    BY DEF ConnInv
  <1>1. ASSUME NEW x \in Conn, About(x) PROVE Safe(y)'
    <2>1. CASE x = y
      BY <1>0, <1>1, <2>1, OwnStep
    <2>2. CASE x # y
      BY <1>0, <1>1, <2>2, OthersSame, SameIsSafe
    <2> QED
      BY <2>1, <2>2
  <1>2. CASE Quiet
    <2>1. Same(y)
      BY <1>2, QuietSame
    <2> QED
      BY <1>0, <2>1, SameIsSafe
  <1> QED
    BY <1>1, <1>2, StepKinds

----------------------------------------------------------------------------
\* What a step does to the slots: a handler takes one as it leaves "idle", gives one
\* back as it reaches "done", keeps it, or leaves it behind in a domain pipe.
LEMMA SlotSteps ==
    ASSUME TypeOK, ConnInv, [Next]_vars
    PROVE  \/ /\ slots' = slots /\ Holding' = Holding /\ Lost' = Lost
           \/ \E x \in Conn :
                /\ slots < MaxConns /\ slots' = slots + 1 /\ Lost' = Lost
                /\ x \notin Holding /\ Holding' = Holding \cup {x}
           \/ \E x \in Conn :
                /\ slots' = slots - 1 /\ Lost' = Lost
                /\ x \in Holding /\ Holding' = Holding \ {x}
           \/ \E x \in Conn :
                /\ slots' = slots
                /\ x \in Holding /\ Holding' = Holding \ {x}
                /\ x \notin Lost /\ Lost' = Lost \cup {x}
  <1> DEFINE Kept == slots' = slots /\ Holding' = Holding /\ Lost' = Lost
             Taken(x) == /\ slots < MaxConns /\ slots' = slots + 1 /\ Lost' = Lost
                         /\ x \notin Holding /\ Holding' = Holding \cup {x}
             Given(x) == /\ slots' = slots - 1 /\ Lost' = Lost
                         /\ x \in Holding /\ Holding' = Holding \ {x}
             Left(x) == /\ slots' = slots
                        /\ x \in Holding /\ Holding' = Holding \ {x}
                        /\ x \notin Lost /\ Lost' = Lost \cup {x}
  <1> SUFFICES Kept \/ \E x \in Conn : Taken(x) \/ Given(x) \/ Left(x)
    OBVIOUS
  <1> USE ConnAssumption
      DEF TypeOK, Goto, CloseSock, fwdVars, mapVars, tearVars, Holding, Lost
  <1>1. ASSUME NEW x \in Conn, RefuseDomain(x) PROVE Kept
    BY <1>1 DEF RefuseDomain
  <1>2. ASSUME NEW x \in Conn, Acquire(x) PROVE Kept \/ Taken(x)
    BY <1>2 DEF Acquire
  <1>3. ASSUME NEW x \in Conn, OpenStream(x) PROVE Kept \/ Given(x)
    BY <1>3 DEF OpenStream
  <1>4. ASSUME NEW x \in Conn, Store(x) PROVE Kept
    <2>1. pipe[x] = "none"
      BY <1>4 DEF Store, ConnInv, Safe, RightHandler, Fresh
    <2> QED
      BY <1>4, <2>1 DEF Store
  <1>5. ASSUME NEW x \in Conn, FwdTop(x) \/ FwdData(x) \/ FwdReadError(x) \/ FwdClose(x)
                               \/ FwdForget(x)
        PROVE  Kept
    BY <1>5 DEF FwdTop, FwdData, FwdReadError, FwdClose, FwdForget
  <1>6. ASSUME NEW x \in Conn, FwdRelease(x) PROVE Given(x)
    BY <1>6 DEF FwdRelease
  <1>7. ASSUME NEW x \in Conn, DataStream(x) \/ PipeStart(x) \/ PipeClose(x) PROVE Kept
    BY <1>7 DEF DataStream, PipeStart, PipeClose
  <1>8. ASSUME NEW x \in Conn, PipeForget(x) PROVE Kept \/ Left(x)
    <2>1. CASE Kind[x] = "tcp"
      BY <1>8, <2>1 DEF PipeForget
    <2>2. CASE Kind[x] = "domain"
      <3>1. pc[x] = "pipe"
        BY <1>8, <2>2 DEF PipeForget, ConnInv, Safe, RightHandler
      <3> QED
        BY <1>8, <2>2, <3>1 DEF PipeForget
    <2> QED
      BY <2>1, <2>2
  <1>9. ASSUME NEW x \in Conn, CloseConn(x) \/ SweepIdle(x) \/ Visit(x) \/ In(x) \/ Out(x)
                               \/ PeerCloses(x) \/ StreamEnds(x)
        PROVE  Kept
    BY <1>9 DEF CloseConn, SweepIdle, Visit, In, Out, PeerCloses, StreamEnds
  <1>10. CASE SweepForget \/ Cancel \/ Disconnect \/ Ranged \/ UNCHANGED vars
    BY <1>10 DEF SweepForget, Cancel, Disconnect, Ranged, vars
  <1> HIDE DEF Kept, Taken, Given, Left
  <1> QED
    BY <1>1, <1>2, <1>3, <1>4, <1>5, <1>6, <1>7, <1>8, <1>9, <1>10 DEF Next, Fwd, Pipe

\* The account of the slots, and that the counter stays between 0 and the limit.
LEMMA SlotsStep ==
    TypeOK /\ ConnInv /\ SlotsInv /\ [Next]_vars => SlotsInv' /\ slots' \in 0 .. MaxConns
  <1> SUFFICES ASSUME TypeOK, ConnInv, SlotsInv, [Next]_vars
               PROVE  SlotsInv' /\ slots' \in 0 .. MaxConns
    OBVIOUS
  <1>1. /\ Cardinality(Holding) \in Nat /\ Cardinality(Lost) \in Nat
        /\ MaxConns \in Nat /\ slots \in 0 .. MaxConns
    BY ConnAssumption, FS_CardinalityType DEF SlotsInv, TypeOK
  <1> USE <1>1 DEF SlotsInv
  <1>2. CASE slots' = slots /\ Holding' = Holding /\ Lost' = Lost
    BY <1>2
  <1>3. ASSUME NEW x \in Conn, slots < MaxConns, slots' = slots + 1, Lost' = Lost,
               x \notin Holding, Holding' = Holding \cup {x}
        PROVE  SlotsInv' /\ slots' \in 0 .. MaxConns
    <2>1. IsFiniteSet(Holding') /\ Cardinality(Holding') = Cardinality(Holding) + 1
      BY <1>3, FS_AddElement
    <2> QED
      BY <1>3, <2>1
  <1>4. ASSUME NEW x \in Conn, slots' = slots - 1, Lost' = Lost,
               x \in Holding, Holding' = Holding \ {x}
        PROVE  SlotsInv' /\ slots' \in 0 .. MaxConns
    <2>1. IsFiniteSet(Holding') /\ Cardinality(Holding') = Cardinality(Holding) - 1
      BY <1>4, FS_RemoveElement
    <2>2. Cardinality(Holding') \in Nat
      BY <2>1, FS_CardinalityType
    <2> QED
      BY <1>4, <2>1, <2>2
  <1>5. ASSUME NEW x \in Conn, slots' = slots, x \in Holding, Holding' = Holding \ {x},
               x \notin Lost, Lost' = Lost \cup {x}
        PROVE  SlotsInv' /\ slots' \in 0 .. MaxConns
    <2>1. IsFiniteSet(Holding') /\ Cardinality(Holding') = Cardinality(Holding) - 1
      BY <1>5, FS_RemoveElement
    <2>2. IsFiniteSet(Lost') /\ Cardinality(Lost') = Cardinality(Lost) + 1
      BY <1>5, FS_AddElement
    <2> QED
      BY <1>5, <2>1, <2>2
  <1> QED
    BY <1>2, <1>3, <1>4, <1>5, SlotSteps

LEMMA TypeStep == IInv /\ [Next]_vars => TypeOK'
  <1> SUFFICES ASSUME TypeOK, slots' \in 0 .. MaxConns, [Next]_vars PROVE TypeOK'
    BY SlotsStep DEF IInv
  <1> USE DEF TypeOK, Goto, CloseSock, fwdVars, netVars, mapVars, tearVars
  <1>1. ASSUME NEW x \in Conn, RefuseDomain(x) \/ Acquire(x) \/ OpenStream(x) PROVE TypeOK'
    BY <1>1 DEF RefuseDomain, Acquire, OpenStream
  <1>2. ASSUME NEW x \in Conn, Store(x) PROVE TypeOK'
    BY <1>2 DEF Store
  <1>3. ASSUME NEW x \in Conn, FwdTop(x) \/ FwdData(x) \/ FwdReadError(x) \/ FwdClose(x)
        PROVE  TypeOK'
    BY <1>3 DEF FwdTop, FwdData, FwdReadError, FwdClose
  <1>4. ASSUME NEW x \in Conn, FwdForget(x) \/ FwdRelease(x) PROVE TypeOK'
    BY <1>4 DEF FwdForget, FwdRelease, Forget
  <1>5. ASSUME NEW x \in Conn, DataStream(x) \/ PipeStart(x) \/ PipeClose(x) PROVE TypeOK'
    BY <1>5 DEF DataStream, PipeStart, PipeClose
  <1>6. ASSUME NEW x \in Conn, PipeForget(x) PROVE TypeOK'
    BY <1>6 DEF PipeForget, LoadAndForget
  <1>7. ASSUME NEW x \in Conn, In(x) \/ Out(x) PROVE TypeOK'
    <2>1. CASE In(x)
      BY <2>1 DEF In
    <2>2. CASE Out(x)
      BY <2>2 DEF Out
    <2> QED
      BY <1>7, <2>1, <2>2
  <1>8. ASSUME NEW x \in Conn, CloseConn(x) \/ SweepIdle(x) PROVE TypeOK'
    <2>1. CASE CloseConn(x)
      BY <2>1 DEF CloseConn, LoadAndForget
    <2>2. CASE SweepIdle(x)
      BY <2>2 DEF SweepIdle
    <2> QED
      BY <1>8, <2>1, <2>2
  <1>9. ASSUME NEW x \in Conn, Visit(x) PROVE TypeOK'
    BY <1>9 DEF Visit, LoadAndForget
  <1>10. ASSUME NEW x \in Conn, PeerCloses(x) \/ StreamEnds(x) PROVE TypeOK'
    BY <1>10 DEF PeerCloses, StreamEnds
  <1>11. CASE SweepForget
    BY <1>11 DEF SweepForget, Forget
  <1>12. CASE Cancel \/ Disconnect \/ Ranged
    BY <1>12 DEF Cancel, Disconnect, Ranged
  <1>13. CASE UNCHANGED vars
    BY <1>13 DEF vars
  <1> QED
    BY <1>1, <1>2, <1>3, <1>4, <1>5, <1>6, <1>7, <1>8, <1>9, <1>10, <1>11, <1>12, <1>13
    DEF Next, Fwd, Pipe

LEMMA InvInit == Init => IInv
  <1> SUFFICES ASSUME Init PROVE IInv
    OBVIOUS
  <1> USE ConnAssumption DEF Init
  <1>1. TypeOK
    BY DEF TypeOK
  <1>2. ConnInv
    BY DEF ConnInv, Safe, RightHandler, Fresh, Swept, Stored, Counted, Floor
  <1>3. Holding = {} /\ Lost = {}
    BY DEF Holding, Lost
  <1>4. SlotsInv
    BY <1>3, FS_EmptySet DEF SlotsInv
  <1> QED
    BY <1>1, <1>2, <1>4 DEF IInv

----------------------------------------------------------------------------
\* IInv holds in every reachable state, for any connections and any limit.
THEOREM InductiveInvariant == Spec => []IInv
  <1>1. IInv /\ [Next]_vars => IInv'
    BY TypeStep, ConnStep, SlotsStep DEF IInv
  <1> QED
    BY <1>1, InvInit, PTL DEF Spec

\* Whichever of its forwarders, the client's CLOSE, closeTunnel and the idle sweep
\* removes a connection, and in whatever order: ExternalConns keeps no dead
\* connection that nobody is about to delete, and activeConns is off by at most the
\* two unconditional decrements of a connection.
THEOREM TableIsSound == Spec => []ExternalTable
  <1>1. IInv => CountBounded
    <2> SUFFICES ASSUME IInv, NEW x \in Conn
                 PROVE  /\ counted[x] <= IF x \in ExternalConns THEN 1 ELSE 0
                        /\ counted[x] >= IF Kind[x] = "tcp" THEN -2 ELSE -1
      BY DEF CountBounded
    <2> QED
      BY ConnAssumption DEF IInv, TypeOK, ConnInv, Safe, Counted, Floor
  <1>2. IInv => DeadIsForgotten
    BY DEF IInv, TypeOK, ConnInv, Safe, Stored, DeadIsForgotten
  <1>3. IInv => ExternalTable
    BY <1>1, <1>2 DEF IInv, ExternalTable
  <1> QED
    BY <1>3, InductiveInvariant, PTL

\* connLimiter's counter is exactly the handlers that run plus the domain connections
\* that were forwarded: no other early return, error or race loses a slot, and none
\* gives one back twice.
THEOREM SlotsAreAccounted == Spec => []SlotsLostOnlyByDomain
  <1>1. IInv => SlotsLostOnlyByDomain
    BY DEF IInv, SlotsInv, Holding, Lost, SlotsLostOnlyByDomain
  <1> QED
    BY <1>1, InductiveInvariant, PTL

----------------------------------------------------------------------------
(* TunnelListener *)

\* What the goroutine's position says of its listener, and what closeTunnel can
\* rely on: a listener that is open past StoreListener is one that closeTunnel
\* finds, and one stored after closeTunnel looked is never accepted on.
ListenerGoroutineInv ==
    \A t \in Tunnel :
        /\ t \in bound => place[t] \in {"bound", "top", "accept", "shut", "clear", "unbind"}
        /\ t \in bound /\ Net[t] = "tcp" => t \in listening
        /\ t \in listening => place[t] \in {"bound", "top", "accept", "shut"}
        /\ t \in listening /\ place[t] \in {"top", "accept", "shut"} => t \in stored
        /\ t \in stored => place[t] \in {"top", "accept", "shut", "clear"}
        /\ \A c \in Closer : t \in stored /\ progress[c][t] >= Shut => place[t] # "accept"

\* closeTunnel is called on tunnels that are registered, and these have a port.
ListenerCloserInv ==
    \A t \in Tunnel :
        /\ place[t] # "none" => port[t] \in Port
        /\ \A c \in Closer : progress[c][t] # Outside => place[t] # "none"

\* t's port was allocated to it and no closeTunnel(t) has released it.
ListenerHoldsPort(t) == place[t] # "none" /\ \A c \in Closer : ~HasReleased(c, t)

\* The port of a tunnel is marked, and is no other tunnel's, until a second
\* closeTunnel releases that port for one tunnel.
ListenerPortInv ==
    \A t \in Tunnel : ListenerHoldsPort(t) =>
        \/ DoublyReleased(port[t])
        \/ /\ port[t] \in used
           /\ \A u \in Tunnel \ {t} : ListenerHoldsPort(u) => port[u] # port[t]

ListenerIInv == Ports /\ ListenerTypeOK /\ ListenerGoroutineInv /\ ListenerCloserInv /\ ListenerPortInv

USE DEF Outside, Canceled, Shut, Released

LEMMA ListenerInitIInv == ListenerInit => ListenerIInv
  <1> SUFFICES ASSUME Ports, ListenerInit PROVE ListenerIInv
    BY ListenerAssumption
  <1>1. ListenerTypeOK
    <2>1. place \in [Tunnel -> PCs]
      BY DEF ListenerInit, PCs
    <2>2. port \in [Tunnel -> Port \cup {NoPort}]
      BY DEF ListenerInit
    <2>3. progress \in [Closer -> [Tunnel -> Outside .. Released]]
      BY DEF ListenerInit
    <2> QED
      BY <2>1, <2>2, <2>3 DEF ListenerInit, ListenerTypeOK
  <1>2. ListenerGoroutineInv
    BY DEF ListenerInit, ListenerGoroutineInv
  <1>3. ListenerCloserInv
    BY DEF ListenerInit, ListenerCloserInv
  <1>4. ListenerPortInv
    BY DEF ListenerInit, ListenerPortInv, ListenerHoldsPort
  <1> QED
    BY <1>1, <1>2, <1>3, <1>4 DEF ListenerIInv

\* One step of closeTunnel moves one entry of progress by one.
LEMMA ListenerStepType ==
    ASSUME ListenerTypeOK, NEW c \in Closer, NEW t \in Tunnel, NEW from \in 0 .. 2, Step(c, t, from)
    PROVE  /\ progress' \in [Closer -> [Tunnel -> Outside .. Released]]
           /\ progress'[c][t] = from + 1
           /\ \A e \in Closer, u \in Tunnel : e # c \/ u # t => progress'[e][u] = progress[e][u]
  BY DEF ListenerTypeOK, Step

LEMMA ListenerTypeStep == ListenerIInv /\ [ListenerNext]_listenerVars => ListenerTypeOK'
  <1> SUFFICES ASSUME ListenerIInv, [ListenerNext]_listenerVars PROVE ListenerTypeOK'
    OBVIOUS
  <1> USE DEF ListenerIInv
  <1>1. CASE \E t \in Tunnel : Register(t) \/ Run(t) \/ Accept(t)
    <2>1. PICK t \in Tunnel : Register(t) \/ Run(t) \/ Accept(t)
      BY <1>1
    <2>2. CASE Register(t)
      BY <2>2 DEF ListenerTypeOK, Register, ListenerGoto, sockVars, PCs
    <2>3. CASE Start(t) \/ StoreListener(t) \/ Top(t) \/ AcceptError(t) \/ Accept(t)
        \/ Clear(t)
      BY <2>3
      DEF ListenerTypeOK, Start, StoreListener, Top, AcceptError, Accept, Clear, ListenerGoto,
          sockVars, PCs
    <2>4. CASE Listen(t)
      BY <2>4 DEF ListenerTypeOK, Listen, ListenerGoto, PCs
    <2>5. CASE CloseOwn(t)
      BY <2>5 DEF ListenerTypeOK, CloseOwn, CloseListener, ListenerGoto, PCs
    <2>6. CASE Unbind(t)
      BY <2>6 DEF ListenerTypeOK, ListenerGoroutineInv, Unbind, ListenerGoto, PCs
    <2> QED
      BY <2>1, <2>2, <2>3, <2>4, <2>5, <2>6 DEF Run
  <1>2. CASE \E c \in Closer, t \in Tunnel : CancelTunnel(c, t) \/ ShutListener(c,
      t) \/ Release(c, t)
    <2>1. PICK c \in Closer, t \in Tunnel : CancelTunnel(c, t) \/ ShutListener(c,
        t) \/ Release(c, t)
      BY <1>2
    <2>2. CASE CancelTunnel(c, t)
      BY <2>2, ListenerStepType DEF ListenerTypeOK, CancelTunnel, sockVars
    <2>3. CASE ShutListener(c, t)
      BY <2>3, ListenerStepType DEF ListenerTypeOK, ShutListener, CloseListener, sockVars
    <2>4. CASE Release(c, t)
      BY <2>4, ListenerStepType DEF ListenerTypeOK, Release, sockVars
    <2> QED
      BY <2>1, <2>2, <2>3, <2>4
  <1>3. CASE StopServer
    BY <1>3 DEF ListenerTypeOK, StopServer, sockVars
  <1>4. CASE UNCHANGED listenerVars
    BY <1>4 DEF ListenerTypeOK, listenerVars, sockVars
  <1> QED
    BY <1>1, <1>2, <1>3, <1>4 DEF ListenerNext

LEMMA ListenerGoroutineStep == ListenerIInv /\ [ListenerNext]_listenerVars => ListenerGoroutineInv'
  <1> SUFFICES ASSUME ListenerIInv, [ListenerNext]_listenerVars PROVE ListenerGoroutineInv'
    OBVIOUS
  <1> USE DEF ListenerIInv
  <1>1. CASE \E t \in Tunnel : Register(t) \/ Run(t) \/ Accept(t)
    <2>1. PICK t \in Tunnel : Register(t) \/ Run(t) \/ Accept(t)
      BY <1>1
    <2>2. CASE Register(t) \/ Start(t)
      BY <2>2 DEF ListenerTypeOK, ListenerGoroutineInv, Register, Start, ListenerGoto, sockVars
    <2>3. CASE Listen(t)
      BY <2>3 DEF ListenerTypeOK, ListenerGoroutineInv, Listen, ListenerGoto
    <2>4. CASE StoreListener(t)
      BY <2>4 DEF ListenerTypeOK, ListenerGoroutineInv, StoreListener, ListenerGoto
    <2>5. CASE Top(t)
      BY <2>5 DEF ListenerTypeOK, ListenerGoroutineInv, Top, TunnelCancelled, ListenerGoto, sockVars
    <2>6. CASE AcceptError(t) \/ Accept(t)
      BY <2>6 DEF ListenerTypeOK, ListenerGoroutineInv, AcceptError, Accept, ListenerGoto, sockVars
    <2>7. CASE CloseOwn(t)
      BY <2>7 DEF ListenerTypeOK, ListenerGoroutineInv, CloseOwn, CloseListener, ListenerGoto
    <2>8. CASE Clear(t)
      BY <2>8 DEF Ports, ListenerTypeOK, ListenerGoroutineInv, Clear, ListenerGoto
    <2>9. CASE Unbind(t)
      BY <2>9 DEF ListenerTypeOK, ListenerGoroutineInv, Unbind, ListenerGoto
    <2> QED
      BY <2>1, <2>2, <2>3, <2>4, <2>5, <2>6, <2>7, <2>8, <2>9 DEF Run
  <1>2. CASE \E c \in Closer, t \in Tunnel : CancelTunnel(c, t) \/ ShutListener(c,
      t) \/ Release(c, t)
    <2>1. PICK c \in Closer, t \in Tunnel : CancelTunnel(c, t) \/ ShutListener(c,
        t) \/ Release(c, t)
      BY <1>2
    <2>2. CASE CancelTunnel(c, t)
      BY <2>2, ListenerStepType DEF ListenerTypeOK, ListenerGoroutineInv, CancelTunnel, sockVars
    <2>3. CASE ShutListener(c, t)
      BY <2>3, ListenerStepType
      DEF ListenerTypeOK, ListenerGoroutineInv, ShutListener, CloseListener, sockVars
    <2>4. CASE Release(c, t)
      BY <2>4, ListenerStepType DEF ListenerTypeOK, ListenerGoroutineInv, Release, Step, sockVars
    <2> QED
      BY <2>1, <2>2, <2>3, <2>4
  <1>3. CASE StopServer
    BY <1>3 DEF ListenerGoroutineInv, StopServer, sockVars
  <1>4. CASE UNCHANGED listenerVars
    BY <1>4 DEF ListenerGoroutineInv, listenerVars, sockVars
  <1> QED
    BY <1>1, <1>2, <1>3, <1>4 DEF ListenerNext

\* Steps of the goroutines after Register change neither ports nor progress.
LEMMA ListenerRunKeepsPorts ==
    ASSUME ListenerTypeOK, NEW t \in Tunnel, Run(t) \/ Accept(t)
    PROVE  /\ UNCHANGED <<port, used, progress>>
           /\ place[t] # "none"
           /\ \A u \in Tunnel : place'[u] = "none" <=> place[u] = "none"
  BY DEF ListenerTypeOK, Run, Start, Listen, StoreListener, Top, AcceptError, Accept,
      CloseOwn, Clear,
         Unbind, ListenerGoto

LEMMA ListenerCloserStep == ListenerIInv /\ [ListenerNext]_listenerVars => ListenerCloserInv'
  <1> SUFFICES ASSUME ListenerIInv, [ListenerNext]_listenerVars PROVE ListenerCloserInv'
    OBVIOUS
  <1> USE DEF ListenerIInv
  <1>1. CASE \E t \in Tunnel : Register(t)
    BY <1>1 DEF ListenerTypeOK, ListenerCloserInv, Register, ListenerGoto
  <1>2. CASE \E t \in Tunnel : Run(t) \/ Accept(t)
    BY <1>2, ListenerRunKeepsPorts DEF ListenerCloserInv
  <1>3. CASE \E c \in Closer, t \in Tunnel : CancelTunnel(c, t) \/ ShutListener(c,
      t) \/ Release(c, t)
    <2>1. PICK c \in Closer, t \in Tunnel : CancelTunnel(c, t) \/ ShutListener(c,
        t) \/ Release(c, t)
      BY <1>3
    <2>2. CASE CancelTunnel(c, t)
      BY <2>2, ListenerStepType DEF ListenerCloserInv, CancelTunnel
    <2>3. CASE ShutListener(c, t)
      BY <2>3, ListenerStepType DEF ListenerCloserInv, ShutListener, Step
    <2>4. CASE Release(c, t)
      BY <2>4, ListenerStepType DEF ListenerCloserInv, Release, Step
    <2> QED
      BY <2>1, <2>2, <2>3, <2>4
  <1>4. CASE StopServer
    BY <1>4 DEF ListenerCloserInv, StopServer
  <1>5. CASE UNCHANGED listenerVars
    BY <1>5 DEF ListenerCloserInv, listenerVars
  <1> QED
    BY <1>1, <1>2, <1>3, <1>4, <1>5 DEF ListenerNext

\* A step that keeps ports, marks, releases and who is registered keeps PortInv.
LEMMA ListenerPortInvFrame ==
    ASSUME ListenerPortInv, UNCHANGED <<port, used>>,
           \A u \in Tunnel : place'[u] = "none" <=> place[u] = "none",
           \A c \in Closer, u \in Tunnel : HasReleased(c, u)' <=> HasReleased(c, u)
    PROVE  ListenerPortInv'
  <1>1. \A u \in Tunnel : ListenerHoldsPort(u)' <=> ListenerHoldsPort(u)
    BY DEF ListenerHoldsPort
  <1>2. \A p : DoublyReleased(p)' <=> DoublyReleased(p)
    BY DEF DoublyReleased
  <1> QED
    BY <1>1, <1>2 DEF ListenerPortInv

LEMMA ListenerPortStep == ListenerIInv /\ [ListenerNext]_listenerVars => ListenerPortInv'
  <1> SUFFICES ASSUME ListenerIInv, [ListenerNext]_listenerVars PROVE ListenerPortInv'
    OBVIOUS
  <1> USE DEF ListenerIInv
  <1>1. CASE \E t \in Tunnel : Register(t)
    <2>1. PICK t \in Tunnel : Register(t)
      BY <1>1
    <2>2. PICK p \in Port \ used : port' = [port EXCEPT ![t] = p] /\ used' = used \cup {p}
      BY <2>1 DEF Register
    <2>3. /\ port'[t] = p /\ \A u \in Tunnel \ {t} : port'[u] = port[u]
          /\ \A u \in Tunnel \ {t} : ListenerHoldsPort(u)' <=> ListenerHoldsPort(u)
      BY <2>1, <2>2 DEF ListenerTypeOK, Register, ListenerGoto, ListenerHoldsPort, HasReleased
    <2>4. \A c \in Closer : progress[c][t] = Outside
      BY <2>1 DEF ListenerCloserInv, Register
    <2>5. \A q : DoublyReleased(q) => DoublyReleased(q)'
      <3>1. SUFFICES ASSUME NEW q, DoublyReleased(q) PROVE DoublyReleased(q)'
        OBVIOUS
      <3>2. PICK u \in Tunnel : port[u] = q /\
                \E c, e \in Closer : c # e /\ HasReleased(c, u) /\ HasReleased(e, u)
        BY <3>1 DEF DoublyReleased
      <3>3. u # t
        BY <3>2, <2>4 DEF HasReleased
      <3> QED
        BY <3>2, <3>3, <2>1, <2>3 DEF DoublyReleased, HasReleased, Register
    <2>6. SUFFICES ASSUME NEW u \in Tunnel, ListenerHoldsPort(u)', ~DoublyReleased(port[u])'
                   PROVE  /\ port'[u] \in used'
                          /\ \A w \in Tunnel \ {u} : ListenerHoldsPort(w)' => port'[w] # port'[u]
      BY DEF ListenerPortInv
    <2>7. CASE u = t
      <3>1. \A w \in Tunnel \ {t} : ListenerHoldsPort(w) => port[w] # p
        BY <2>2, <2>3, <2>5, <2>6, <2>7 DEF ListenerPortInv
      <3> QED
        BY <2>2, <2>3, <2>7, <3>1
    <2>8. CASE u # t
      BY <2>2, <2>3, <2>5, <2>6, <2>8 DEF ListenerPortInv
    <2> QED
      BY <2>7, <2>8
  <1>2. CASE \E t \in Tunnel : Run(t) \/ Accept(t)
    BY <1>2, ListenerRunKeepsPorts, ListenerPortInvFrame DEF HasReleased
  <1>3. CASE \E c \in Closer, t \in Tunnel : CancelTunnel(c, t) \/ ShutListener(c, t)
    <2>1. PICK c \in Closer, t \in Tunnel : CancelTunnel(c, t) \/ ShutListener(c, t)
      BY <1>3
    <2>2. \A e \in Closer, u \in Tunnel : HasReleased(e, u)' <=> HasReleased(e, u)
      <3>1. CASE CancelTunnel(c, t)
        BY <3>1, ListenerStepType DEF CancelTunnel, HasReleased, Step
      <3>2. CASE ShutListener(c, t)
        BY <3>2, ListenerStepType DEF ShutListener, HasReleased, Step
      <3> QED
        BY <2>1, <3>1, <3>2
    <2> QED
      BY <2>1, <2>2, ListenerPortInvFrame DEF CancelTunnel, ShutListener
  <1>4. CASE \E c \in Closer, t \in Tunnel : Release(c, t)
    <2>1. PICK c \in Closer, t \in Tunnel : Release(c, t)
      BY <1>4
    <2>2. /\ UNCHANGED <<place, port>> /\ used' = used \ {port[t]}
          /\ HasReleased(c, t)'
          /\ \A e \in Closer, u \in Tunnel : HasReleased(e, u) => HasReleased(e, u)'
      <3>1. Step(c, t, 2) /\ ListenerTypeOK
        BY <2>1 DEF Release
      <3>2. progress'[c][t] = 2 + 1
        BY <3>1, ListenerStepType
      <3>3. \A e \in Closer, u \in Tunnel : e # c \/ u # t => progress'[e][u] = progress[e][u]
        BY <3>1, ListenerStepType
      <3> QED
        BY <2>1, <3>2, <3>3 DEF Release, HasReleased
    <2>3. \A u \in Tunnel : ListenerHoldsPort(u)' => ListenerHoldsPort(u) /\ u # t
      BY <2>2 DEF ListenerHoldsPort
    <2>4. \A q : DoublyReleased(q) => DoublyReleased(q)'
      BY <2>2 DEF DoublyReleased
    <2>5. ~ListenerHoldsPort(t) => DoublyReleased(port[t])'
      <3>1. SUFFICES ASSUME NEW e \in Closer, HasReleased(e, t) PROVE DoublyReleased(port[t])'
        BY <2>1, ListenerStepType DEF Release, Step, ListenerHoldsPort, ListenerCloserInv
      <3>2. e # c
        BY <2>1, <3>1 DEF Release, Step, HasReleased
      <3> QED
        BY <2>2, <3>1, <3>2 DEF DoublyReleased
    <2> QED
      BY <2>2, <2>3, <2>4, <2>5 DEF ListenerPortInv
  <1>5. CASE StopServer
    BY <1>5, ListenerPortInvFrame DEF StopServer, HasReleased
  <1>6. CASE UNCHANGED listenerVars
    BY <1>6, ListenerPortInvFrame DEF listenerVars, HasReleased
  <1> QED
    BY <1>1, <1>2, <1>3, <1>4, <1>5, <1>6 DEF ListenerNext

\* The inductive invariant holds in every reachable state.
THEOREM ListenerInductiveInvariant == ListenerSpec => []ListenerIInv
  <1>1. ListenerIInv /\ [ListenerNext]_listenerVars => ListenerIInv'
    BY ListenerTypeStep, ListenerGoroutineStep, ListenerCloserStep, ListenerPortStep
    DEF ListenerIInv, Ports
  <1> QED
    BY ListenerInitIInv, <1>1, PTL DEF ListenerSpec

\* Type correctness of the listener goroutines and of their sockets; in particular
\* an open listener has a bound socket.
THEOREM ListenerTypeCorrect == ListenerSpec => []ListenerTypeOK
  <1>1. ListenerIInv => ListenerTypeOK
    BY DEF ListenerIInv
  <1> QED
    BY ListenerInductiveInvariant, <1>1, PTL

LEMMA ListenerShutLeaving == ListenerIInv => ShutIsLeaving
  BY DEF ListenerIInv, ListenerTypeOK, ListenerGoroutineInv, ShutIsLeaving, AcceptFails

\* startExternalListener and its QUIC counterparts are never left blocked in Accept
\* on an open listener by any closeTunnel, wherever its calls interleave with Listen
\* and with the store of the listener.
THEOREM NobodyLeftInAccept == ListenerSpec => []ShutIsLeaving
  BY ListenerInductiveInvariant, ListenerShutLeaving, PTL

\* A socket on a port that PortManager takes for free is being given up, unless
\* closeTunnel ran twice on one tunnel.
THEOREM FreePortsAreLeft == ListenerSpec => []FreePortIsLeft
  <1>1. ListenerIInv => FreePortIsLeft
    <2> SUFFICES ASSUME ListenerIInv, NEW t \in bound, port[t] \notin used,
        ~DoublyReleased(port[t])
                 PROVE  /\ \E c \in Closer : HasReleased(c, t)
                        /\ place[t] = "accept" => AcceptFails(t)
      BY DEF FreePortIsLeft
    <2>1. t \in Tunnel /\ place[t] # "none"
      BY DEF ListenerIInv, ListenerTypeOK, ListenerGoroutineInv
    <2>2. PICK c \in Closer : HasReleased(c, t)
      BY <2>1 DEF ListenerIInv, ListenerPortInv, ListenerHoldsPort
    <2>3. progress[c][t] >= Shut
      BY <2>2 DEF HasReleased
    <2> QED
      BY <2>1, <2>2, <2>3, ListenerShutLeaving DEF ShutIsLeaving
  <1> QED
    BY ListenerInductiveInvariant, <1>1, PTL
=============================================================================
