---------------------------- MODULE ClientProofs -----------------------------
(****************************************************************************)
(* Theorems about the client.  ClientConns, for any connections and any finite *)
(* number of control loops: the table of local connections and what Stop leaves. *)
(* MuxClient, for any bound on the connections dialled, any number of tries, *)
(* with and without 0-RTT.                                                   *)
(****************************************************************************)
EXTENDS ClientConns, MuxClient, FiniteSetTheorems, TLAPS

----------------------------------------------------------------------------
(* ClientConns *)

\* The control loops that dial connection x, and those that loaded it from
\* localConns and have still to write to it.
Dialling(x) == {l \in Loop : busy[l] = <<"dial", x>>}
Writers(x)  == {l \in Loop : busy[l] = <<"write", x>>}

\* The forwarder of a connection it has a socket for.
Forwarding(x) == pc[x] \in {"top", "read", "ended", "pipe"}

\* The first message with its ID settles what kind of connection x is: one that
\* was asked for is dialled by one control loop, another one never has writers.
OneKind(x) ==
    /\ Dialling(x) # {} => x \in asked /\ pc[x] = "none"
    /\ \A l, m \in Dialling(x) : l = m
    /\ IF x \in asked
       THEN pc[x] \in {"none", "top", "read", "ended", "done"}
       ELSE pc[x] \in {"none", "dial", "dialled", "pipe", "done"} /\ Writers(x) = {}

\* A connection that is not dialled yet is in no table; one that is stored, or
\* open, has a forwarder to end it.
Tabled(x) ==
    /\ pc[x] \in {"none", "dial", "dialled"} =>
         x \notin localConns /\ Writers(x) = {} /\ counted[x] = 0
    /\ x \in localConns \/ sock[x] = "open" => Forwarding(x)
    /\ pc[x] = "pipe" => x \in localConns

\* The decrements of x that are still to come: one by each writer, and one by the
\* deferred function of forwardLocalToControl.  None is made by a loop that is
\* idle, so that they never exceed the loops by more than has been paid.
Pending(x) == Cardinality(Writers(x)) + (IF pc[x] \in {"top", "read", "ended"} THEN 1 ELSE 0)

Counted(x) ==
    /\ x \in localConns => counted[x] = 1
    /\ x \notin localConns =>
         counted[x] <= 0 /\ Pending(x) - counted[x] <= Cardinality(Loop)
    /\ x \notin localConns \cup asked => counted[x] = 0

Safe(x) == OneKind(x) /\ Tabled(x) /\ Counted(x)

\* After wg.Wait nobody is left.
AllReturned ==
    stop = "returned" =>
        /\ held = {} /\ \A l \in Loop : busy[l] = Idle
        /\ \A x \in Conn : pc[x] \in {"none", "done"}

\* A loop that is not idle handles a message about some connection.
BusyWith == \A l \in Loop : busy[l] = Idle \/ busy[l] \in {"dial", "write"} \X Conn

IInv == TypeOK /\ BusyWith /\ AllReturned /\ \A x \in Conn : Safe(x)

----------------------------------------------------------------------------
\* The steps about connection x, and those that change no table.
About(x) ==
    \/ \E l \in Loop :
         \/ NewConn(l, x) \/ Data(l, x) \/ CloseConn(l, x)
         \/ (DialLocal(l) \/ DataWrite(l)) /\ busy[l][2] = x
    \/ Fwd(x) \/ Visit(x)
    \/ AcceptStream(x) \/ StreamFails(x) \/ StreamDial(x) \/ StreamStore(x) \/ StreamEnd(x)

Quiet ==
    \/ \E x \in Conn : In(x) \/ Out(x) \/ LocalCloses(x) \/ DataStreamEnds(x)
    \/ Reconnect \/ \E l \in Loop : OldEnds(l)
    \/ StopCancels \/ StopSevers \/ StopReturns \/ UNCHANGED vars

\* A loop that is about to dial or to write is about to do so for a connection.
LEMMA BusyConn ==
    ASSUME BusyWith, NEW l \in Loop, busy[l][1] \in {"dial", "write"}
    PROVE  /\ busy[l][2] \in Conn
           /\ busy[l] = <<busy[l][1], busy[l][2]>>
  <1>1. busy[l] # Idle
    BY DEF Idle
  <1>2. busy[l] \in {"dial", "write"} \X Conn
    BY <1>1 DEF BusyWith
  <1> QED
    BY <1>2

LEMMA StepKinds == ASSUME BusyWith, [Next]_vars PROVE Quiet \/ \E x \in Conn : About(x)
  <1>1. ASSUME NEW l \in Loop, DialLocal(l) \/ DataWrite(l) PROVE \E x \in Conn : About(x)
    <2>1. busy[l][1] \in {"dial", "write"}
      BY <1>1 DEF DialLocal, DataWrite
    <2>2. busy[l][2] \in Conn
      BY <2>1, BusyConn
    <2>3. About(busy[l][2])
      BY <1>1 DEF About
    <2> QED
      BY <2>2, <2>3
  <1>2. ASSUME NEW l \in Loop, ControlLoop(l), ~DialLocal(l), ~DataWrite(l)
        PROVE  \E x \in Conn : About(x)
    BY <1>2 DEF ControlLoop, About
  <1> QED
    BY <1>1, <1>2 DEF Next, Stream, Stopping, Terminated, Quiet, About

\* What a change of one loop means for the sets of loops that handle a message.
LEMMA BusySets ==
    ASSUME TypeOK, NEW l \in Loop, NEW b, busy' = [busy EXCEPT ![l] = b], NEW y \in Conn
    PROVE  /\ Dialling(y)' = IF b = <<"dial", y>> THEN Dialling(y) \cup {l} ELSE Dialling(y) \ {l}
           /\ Writers(y)' = IF b = <<"write", y>> THEN Writers(y) \cup {l} ELSE Writers(y) \ {l}
  <1>1. \A m \in Loop : busy'[m] = IF m = l THEN b ELSE busy[m]
    BY DEF TypeOK
  <1>2. Dialling(y)' = IF b = <<"dial", y>> THEN Dialling(y) \cup {l} ELSE Dialling(y) \ {l}
    BY <1>1 DEF Dialling
  <1>3. Writers(y)' = IF b = <<"write", y>> THEN Writers(y) \cup {l} ELSE Writers(y) \ {l}
    BY <1>1 DEF Writers
  <1> QED
    BY <1>2, <1>3

LEMMA BusyEnds ==
    ASSUME TypeOK, NEW l \in Loop, busy' = [busy EXCEPT ![l] = Idle], NEW y \in Conn
    PROVE  Dialling(y)' = Dialling(y) \ {l} /\ Writers(y)' = Writers(y) \ {l}
  <1>1. Idle # <<"dial", y>> /\ Idle # <<"write", y>>
    BY DEF Idle
  <1> QED
    BY <1>1, BusySets

\* Writers are some of the loops; one that writes is not idle.
LEMMA WritersCount ==
    ASSUME NEW x \in Conn
    PROVE  /\ Cardinality(Loop) \in Nat
           /\ Cardinality(Writers(x)) \in Nat /\ Cardinality(Writers(x)) <= Cardinality(Loop)
           /\ \A l \in Loop \ Writers(x) : Cardinality(Writers(x)) < Cardinality(Loop)
           /\ \A l \in Writers(x) : Cardinality(Writers(x) \ {l}) = Cardinality(Writers(x)) - 1
           /\ Writers(x) = {} => Cardinality(Writers(x)) = 0
  <1>1. IsFiniteSet(Loop) /\ Writers(x) \in SUBSET Loop
    BY ClientConnsAssumption DEF Writers
  <1>2. IsFiniteSet(Writers(x)) /\ Cardinality(Writers(x)) <= Cardinality(Loop)
    BY <1>1, FS_Subset
  <1>3. Cardinality(Loop) \in Nat /\ Cardinality(Writers(x)) \in Nat
    BY <1>1, <1>2, FS_CardinalityType
  <1>4. ASSUME NEW l \in Loop \ Writers(x)
        PROVE  Cardinality(Writers(x)) < Cardinality(Loop)
    <2>1. Cardinality(Loop) # Cardinality(Writers(x))
      BY <1>1, <1>4, FS_Subset
    <2> QED
      BY <1>2, <1>3, <2>1
  <1>5. ASSUME NEW l \in Writers(x)
        PROVE  Cardinality(Writers(x) \ {l}) = Cardinality(Writers(x)) - 1
    BY <1>2, <1>5, FS_RemoveElement
  <1> QED
    BY <1>2, <1>3, <1>4, <1>5, FS_EmptySet

\* Nothing happens to connection y, except that its socket may be closed.
Same(y) ==
    /\ pc'[y] = pc[y] /\ counted'[y] = counted[y]
    /\ sock'[y] = sock[y] \/ sock'[y] = "closed"
    /\ y \in localConns' <=> y \in localConns
    /\ y \in asked' <=> y \in asked
    /\ Dialling(y)' = Dialling(y) /\ Writers(y)' = Writers(y)

LEMMA SameIsSafe == ASSUME NEW y \in Conn, Safe(y), Same(y) PROVE Safe(y)'
  <1>1. OneKind(y)'
    BY DEF Same, Safe, OneKind
  <1>2. Tabled(y)'
    BY DEF Same, Safe, Tabled, Forwarding
  <1>3. Pending(y)' = Pending(y)
    BY DEF Same, Pending
  <1>4. Counted(y)'
    BY <1>3 DEF Same, Safe, Counted
  <1> QED
    BY <1>1, <1>2, <1>4 DEF Safe

\* With the messages in hand unchanged, so are the sets of loops.
LEMMA BusySame ==
    ASSUME busy' = busy, NEW y \in Conn
    PROVE  Dialling(y)' = Dialling(y) /\ Writers(y)' = Writers(y)
  BY DEF Dialling, Writers

LEMMA OthersSame ==
    ASSUME TypeOK, BusyWith, NEW x \in Conn, NEW y \in Conn, x # y, About(x)
    PROVE  Same(y)
  <1>1. ASSUME NEW l \in Loop, NewConn(l, x) \/ Data(l, x) PROVE Same(y)
    <2>1. PICK w \in {"dial", "write"} : busy' = [busy EXCEPT ![l] = <<w, x>>]
      BY <1>1 DEF NewConn, Data
    <2>2. busy[l] = Idle
      BY <1>1 DEF NewConn, Data, Receives
    <2>3. Dialling(y)' = Dialling(y) /\ Writers(y)' = Writers(y)
      BY <2>1, <2>2, BusySets DEF Dialling, Writers, Idle
    <2> QED
      BY <1>1, <2>3 DEF NewConn, Data, Same, mapVars
  <1>2. ASSUME NEW l \in Loop, DialLocal(l) \/ DataWrite(l), busy[l][2] = x PROVE Same(y)
    <2>1. busy' = [busy EXCEPT ![l] = Idle]
      BY <1>2 DEF DialLocal, DataWrite
    <2>2. Dialling(y)' = Dialling(y) /\ Writers(y)' = Writers(y)
      BY <1>2, <2>1, BusySets DEF Dialling, Writers, Idle
    <2> QED
      BY <1>2, <2>2
      DEF DialLocal, DataWrite, Store, Forget, Goto, CloseSock, Same, TypeOK, mapVars
  <1>3. ASSUME NEW l \in Loop, CloseConn(l, x) PROVE Same(y)
    BY <1>3, BusySame DEF CloseConn, Forget, CloseSock, Same, TypeOK, mapVars
  <1>4. CASE Fwd(x)
    BY <1>4, BusySame DEF Fwd, FwdTop, FwdData, FwdReadError, FwdEnd, Goto, Forget, CloseSock,
                          Same, TypeOK, msgVars, mapVars
  <1>5. CASE Visit(x)
    BY <1>5, BusySame DEF Visit, CloseSock, Same, TypeOK, msgVars, mapVars
  <1>6. CASE AcceptStream(x) \/ StreamFails(x) \/ StreamDial(x)
    BY <1>6, BusySame DEF AcceptStream, StreamFails, StreamDial, Goto, Same, TypeOK, msgVars, mapVars
  <1>7. CASE StreamStore(x) \/ StreamEnd(x)
    BY <1>7, BusySame DEF StreamStore, StreamEnd, Store, Goto, Forget, CloseSock, Same, TypeOK, msgVars
  <1> QED
    BY <1>1, <1>2, <1>3, <1>4, <1>5, <1>6, <1>7 DEF About

\* What the control loops do to the connection a message is about.
LEMMA NewConnStep ==
    ASSUME TypeOK, NEW x \in Conn, Safe(x), NEW l \in Loop, NewConn(l, x) PROVE Safe(x)'
  <1>1. busy[l] = Idle /\ busy' = [busy EXCEPT ![l] = <<"dial", x>>] /\ x \notin asked
    BY DEF NewConn, Receives
  <1>2. Dialling(x) = {} /\ Writers(x) = {}
    BY <1>1 DEF Safe, OneKind
  <1>3. Dialling(x)' = {l} /\ Writers(x)' = {}
    <2>1. <<"dial", x>> # <<"write", x>>
      OBVIOUS
    <2> QED
      BY <1>1, <1>2, <2>1, BusySets
  <1>4. OneKind(x)'
    BY <1>2, <1>3 DEF NewConn, OneKind
  <1>5. Tabled(x)'
    BY <1>2, <1>3 DEF NewConn, Safe, Tabled, Forwarding, mapVars
  <1>6. Counted(x)'
    BY <1>2, <1>3 DEF NewConn, Safe, Counted, Pending, mapVars
  <1> QED
    BY <1>4, <1>5, <1>6 DEF Safe

LEMMA DialLocalStep ==
    ASSUME TypeOK, BusyWith, NEW x \in Conn, Safe(x),
           NEW l \in Loop, DialLocal(l), busy[l][2] = x
    PROVE  Safe(x)'
  <1>1. busy[l] = <<"dial", x>> /\ busy' = [busy EXCEPT ![l] = Idle]
    BY BusyConn DEF DialLocal
  <1>2. Dialling(x) = {l} /\ x \in asked /\ pc[x] = "none"
    BY <1>1 DEF Safe, OneKind, Dialling
  <1>3. x \notin localConns /\ Writers(x) = {} /\ counted[x] = 0
    BY <1>2 DEF Safe, Tabled
  <1>4. Dialling(x)' = {} /\ Writers(x)' = {}
    <2>1. Dialling(x)' = Dialling(x) \ {l} /\ Writers(x)' = Writers(x) \ {l}
      BY <1>1, BusyEnds
    <2> QED
      BY <1>2, <1>3, <2>1
  <1>5. Cardinality(Writers(x)') = 0 /\ Cardinality(Writers(x)) = 0 /\ Cardinality(Loop) \in Nat
    BY <1>3, <1>4, FS_EmptySet, WritersCount
  <1>6. CASE UNCHANGED <<pc, sock, mapVars>>
    BY <1>2, <1>3, <1>4, <1>5, <1>6
    DEF DialLocal, Safe, OneKind, Tabled, Counted, Pending, Forwarding, mapVars
  <1>7. CASE Store(x) /\ Goto(x, "top")
    BY <1>2, <1>3, <1>4, <1>5, <1>7
    DEF DialLocal, Store, Goto, TypeOK, Safe, OneKind, Tabled, Counted, Pending, Forwarding
  <1> QED
    BY <1>6, <1>7 DEF DialLocal

LEMMA DataStep ==
    ASSUME TypeOK, NEW x \in Conn, Safe(x), NEW l \in Loop, Data(l, x) PROVE Safe(x)'
  <1>1. busy[l] = Idle /\ busy' = [busy EXCEPT ![l] = <<"write", x>>] /\ x \in asked
        /\ x \in localConns
    BY DEF Data, Receives
  <1>2. Dialling(x)' = Dialling(x)
    BY <1>1, BusySets DEF Dialling, Idle
  <1> QED
    BY <1>1, <1>2 DEF Data, Safe, OneKind, Tabled, Counted, Forwarding, mapVars

\* A failing write counts off a connection that is stored, or one of the decrements
\* still to come.
LEMMA DataWriteStep ==
    ASSUME TypeOK, BusyWith, NEW x \in Conn, Safe(x),
           NEW l \in Loop, DataWrite(l), busy[l][2] = x
    PROVE  Safe(x)'
  <1>1. busy[l] = <<"write", x>> /\ busy' = [busy EXCEPT ![l] = Idle]
    BY BusyConn DEF DataWrite
  <1>2. l \in Writers(x) /\ x \in asked
    BY <1>1 DEF Safe, OneKind, Writers
  <1>3. Dialling(x)' = Dialling(x) /\ Writers(x)' = Writers(x) \ {l}
    <2>1. Dialling(x)' = Dialling(x) \ {l} /\ Writers(x)' = Writers(x) \ {l}
      BY <1>1, BusyEnds
    <2> QED
      BY <1>1, <2>1 DEF Dialling
  <1>4. /\ Cardinality(Writers(x)') = Cardinality(Writers(x)) - 1
        /\ Cardinality(Writers(x)) \in Nat /\ Cardinality(Loop) \in Nat
        /\ Cardinality(Writers(x)) <= Cardinality(Loop)
    BY <1>2, <1>3, WritersCount
  <1>5. OneKind(x)' /\ UNCHANGED <<pc, asked>>
    BY <1>2, <1>3 DEF DataWrite, Safe, OneKind
  <1>6. CASE UNCHANGED <<sock, mapVars>>
    BY <1>2, <1>3, <1>4, <1>5, <1>6
    DEF TypeOK, Safe, Tabled, Counted, Pending, Forwarding, mapVars
  <1>7. CASE CloseSock(x) /\ Forget(x)
    <2>1. Tabled(x)'
      BY <1>2, <1>3, <1>5, <1>7 DEF CloseSock, Forget, TypeOK, Safe, OneKind, Tabled
    <2>2. x \notin localConns' /\ counted'[x] = counted[x] - 1 /\ counted[x] \in Int
      BY <1>7 DEF Forget, TypeOK
    <2>3. Pending(x)' = Pending(x) - 1
      BY <1>4, <1>5 DEF Pending
    <2>4. Pending(x) \in Nat /\ Pending(x) <= Cardinality(Loop) + 1
      BY <1>4 DEF Pending
    <2>5. counted[x] <= 1 /\ (x \notin localConns => Pending(x) - counted[x] <= Cardinality(Loop))
      BY <2>2 DEF Safe, Counted
    <2>6. Counted(x)'
      BY <1>2, <1>4, <1>5, <2>2, <2>3, <2>4, <2>5 DEF Safe, Counted
    <2> QED
      BY <1>5, <2>1, <2>6 DEF Safe
  <1> QED
    BY <1>1, <1>6, <1>7 DEF DataWrite

\* A CLOSE message is handled by a loop that is not writing.
LEMMA CloseConnStep ==
    ASSUME TypeOK, NEW x \in Conn, Safe(x), NEW l \in Loop, CloseConn(l, x) PROVE Safe(x)'
  <1>1. Dialling(x)' = Dialling(x) /\ Writers(x)' = Writers(x)
    BY BusySame DEF CloseConn
  <1>2. l \in Loop \ Writers(x)
    BY DEF CloseConn, Receives, Writers, Idle
  <1>3. /\ Cardinality(Writers(x)) \in Nat /\ Cardinality(Loop) \in Nat
        /\ Cardinality(Writers(x)) < Cardinality(Loop)
    BY <1>2, WritersCount
  <1>4. OneKind(x)' /\ UNCHANGED <<pc, asked>> /\ x \in asked
    BY <1>1 DEF CloseConn, Safe, OneKind
  <1>5. Pending(x)' = Pending(x) /\ Pending(x) \in Nat /\ Pending(x) <= Cardinality(Loop)
    BY <1>1, <1>3, <1>4 DEF Pending
  <1>6. CASE x \in localConns
    <2>1. counted'[x] = 0 /\ x \notin localConns' /\ sock'[x] = "closed"
      BY <1>6 DEF CloseConn, CloseSock, Forget, TypeOK, Safe, Counted
    <2>2. Tabled(x)'
      BY <1>1, <1>4, <1>6, <2>1 DEF Safe, OneKind, Tabled
    <2>3. Counted(x)'
      BY <1>4, <1>5, <2>1 DEF Counted
    <2> QED
      BY <1>4, <2>2, <2>3 DEF Safe
  <1>7. CASE x \notin localConns
    <2>1. Tabled(x)'
      BY <1>1, <1>4, <1>7 DEF CloseConn, Safe, Tabled, Forwarding, mapVars
    <2>2. Counted(x)'
      BY <1>4, <1>5, <1>7 DEF CloseConn, Safe, Counted, mapVars
    <2> QED
      BY <1>4, <2>1, <2>2 DEF Safe
  <1> QED
    BY <1>6, <1>7

\* The deferred function of forwardLocalToControl counts off as well.
LEMMA FwdEndStep ==
    ASSUME TypeOK, NEW x \in Conn, Safe(x), FwdEnd(x) PROVE Safe(x)'
  <1>1. Dialling(x)' = Dialling(x) /\ Writers(x)' = Writers(x)
    BY BusySame DEF FwdEnd, msgVars
  <1>2. /\ Cardinality(Writers(x)) \in Nat /\ Cardinality(Loop) \in Nat
        /\ Cardinality(Writers(x)) <= Cardinality(Loop)
    BY WritersCount
  <1>3. pc[x] = "ended" /\ pc'[x] = "done" /\ sock'[x] = "closed" /\ x \notin localConns'
        /\ counted'[x] = counted[x] - 1 /\ counted[x] \in Int /\ asked' = asked
    BY DEF FwdEnd, Goto, CloseSock, Forget, TypeOK, msgVars
  <1>4. Pending(x)' = Cardinality(Writers(x)) /\ Pending(x) = Cardinality(Writers(x)) + 1
    BY <1>1, <1>2, <1>3 DEF Pending
  <1>5. OneKind(x)' /\ x \in asked
    BY <1>1, <1>3 DEF Safe, OneKind
  <1>6. Tabled(x)'
    BY <1>3 DEF Tabled
  <1>7. Counted(x)'
    BY <1>2, <1>3, <1>4, <1>5 DEF Safe, Counted
  <1> QED
    BY <1>5, <1>6, <1>7 DEF Safe

\* Forwarders of either kind.
LEMMA ForwarderStep ==
    ASSUME TypeOK, NEW x \in Conn, Safe(x),
           \/ FwdTop(x) \/ FwdData(x) \/ FwdReadError(x) \/ Visit(x)
           \/ AcceptStream(x) \/ StreamFails(x) \/ StreamDial(x)
           \/ StreamStore(x) \/ StreamEnd(x)
    PROVE  Safe(x)'
  <1>1. Dialling(x)' = Dialling(x) /\ Writers(x)' = Writers(x) /\ asked' = asked
    BY BusySame DEF FwdTop, FwdData, FwdReadError, Visit, AcceptStream, StreamFails, StreamDial,
                    StreamStore, StreamEnd, msgVars
  <1>2. Cardinality(Writers(x)) \in Nat /\ Cardinality(Loop) \in Nat
        /\ Cardinality(Writers(x)) <= Cardinality(Loop)
        /\ (Writers(x) = {} => Cardinality(Writers(x)) = 0)
    BY WritersCount
  <1> USE DEF TypeOK, Safe, OneKind, Tabled, Counted, Pending, Forwarding, Goto, CloseSock,
              Store, Forget, mapVars
  <1>3. CASE FwdTop(x)
    BY <1>1, <1>2, <1>3 DEF FwdTop
  <1>4. CASE FwdData(x) \/ FwdReadError(x)
    BY <1>1, <1>2, <1>4 DEF FwdData, FwdReadError
  <1>5. CASE Visit(x)
    BY <1>1, <1>2, <1>5 DEF Visit
  <1>6. CASE AcceptStream(x)
    BY <1>1, <1>2, <1>6 DEF AcceptStream
  <1>7. CASE StreamFails(x)
    BY <1>1, <1>2, <1>7 DEF StreamFails
  <1>8. CASE StreamDial(x)
    BY <1>1, <1>2, <1>8 DEF StreamDial
  <1>9. CASE StreamStore(x)
    BY <1>1, <1>2, <1>9 DEF StreamStore
  <1>10. CASE StreamEnd(x)
    BY <1>1, <1>2, <1>10 DEF StreamEnd
  <1> QED
    BY <1>3, <1>4, <1>5, <1>6, <1>7, <1>8, <1>9, <1>10

LEMMA OwnStep ==
    ASSUME TypeOK, BusyWith, NEW x \in Conn, Safe(x), About(x)
    PROVE  Safe(x)'
  BY NewConnStep, DialLocalStep, DataStep, DataWriteStep, CloseConnStep, FwdEndStep, ForwarderStep
  DEF About, Fwd

LEMMA QuietSame == ASSUME Quiet, NEW y \in Conn PROVE Same(y)
  <1>1. UNCHANGED <<msgVars, pc, sock, mapVars>>
    BY DEF Quiet, In, Out, LocalCloses, DataStreamEnds, Reconnect, OldEnds, StopCancels, StopSevers,
           StopReturns, vars
  <1> QED
    BY <1>1, BusySame DEF Same, msgVars, mapVars

LEMMA SafeStep == IInv /\ [Next]_vars => \A x \in Conn : Safe(x)'
  <1> SUFFICES ASSUME IInv, [Next]_vars, NEW y \in Conn PROVE Safe(y)'
    OBVIOUS
  <1>1. Quiet \/ \E x \in Conn : About(x)
    BY StepKinds DEF IInv
  <1>2. CASE Quiet
    BY <1>2, QuietSame, SameIsSafe DEF IInv
  <1>3. ASSUME NEW x \in Conn, About(x) PROVE Safe(y)'
    <2>1. CASE x = y
      BY <1>3, <2>1, OwnStep DEF IInv
    <2>2. CASE x # y
      BY <1>3, <2>2, OthersSame, SameIsSafe DEF IInv
    <2> QED
      BY <2>1, <2>2
  <1> QED
    BY <1>1, <1>2, <1>3

\* Every loop is idle or handles a message about a connection.
LEMMA BusyStep ==
    IInv /\ [Next]_vars =>
        BusyWith' /\ busy' \in [Loop -> {"idle", "dial", "write"} \X (Conn \cup {Nil})]
  <1> SUFFICES ASSUME IInv, [Next]_vars
               PROVE  BusyWith' /\ busy' \in [Loop -> {"idle", "dial", "write"} \X (Conn \cup {Nil})]
    OBVIOUS
  <1>1. Idle \in {"idle", "dial", "write"} \X (Conn \cup {Nil})
    BY DEF Idle
  <1>2. ASSUME NEW l \in Loop, NEW x \in Conn, NEW w \in {"dial", "write"},
               busy' = [busy EXCEPT ![l] = <<w, x>>]
        PROVE  BusyWith' /\ busy' \in [Loop -> {"idle", "dial", "write"} \X (Conn \cup {Nil})]
    BY <1>2 DEF IInv, TypeOK, BusyWith
  <1>3. ASSUME NEW l \in Loop, busy' = [busy EXCEPT ![l] = Idle]
        PROVE  BusyWith' /\ busy' \in [Loop -> {"idle", "dial", "write"} \X (Conn \cup {Nil})]
    BY <1>1, <1>3 DEF IInv, TypeOK, BusyWith
  <1>4. CASE busy' = busy
    BY <1>4 DEF IInv, TypeOK, BusyWith
  <1>5. ASSUME NEW l \in Loop, ControlLoop(l)
        PROVE  \/ busy' = busy \/ busy' = [busy EXCEPT ![l] = Idle]
               \/ \E x \in Conn : \E w \in {"dial", "write"} : busy' = [busy EXCEPT ![l] = <<w, x>>]
    BY <1>5 DEF ControlLoop, DialLocal, DataWrite, NewConn, Data, CloseConn
  <1>6. ASSUME NEW x \in Conn, Fwd(x) \/ Stream(x) \/ Visit(x) \/ Quiet
        PROVE  busy' = busy
    BY <1>6 DEF Fwd, FwdTop, FwdData, FwdReadError, FwdEnd, Visit, Stream, AcceptStream,
                StreamFails, StreamDial, StreamStore, StreamEnd, In, Out, Quiet, LocalCloses,
                DataStreamEnds, Reconnect, OldEnds, StopCancels, StopSevers, StopReturns, vars, msgVars
  <1>7. CASE \/ UNCHANGED vars \/ StopCancels \/ StopSevers \/ StopReturns
             \/ Reconnect \/ \E l \in Loop : OldEnds(l)
    BY <1>4, <1>7 DEF StopCancels, StopSevers, StopReturns, Reconnect, OldEnds, vars, msgVars
  <1> QED
    BY <1>2, <1>3, <1>4, <1>5, <1>6, <1>7 DEF Next, Stopping, Terminated, Quiet

\* After wg.Wait no loop takes a message and no stream is accepted: the connection in
\* s.conn is closed, and nobody waits on another one.
LEMMA ReturnedStep == IInv /\ [Next]_vars => AllReturned'
  <1> SUFFICES ASSUME IInv, [Next]_vars, stop' = "returned"
               PROVE  /\ held' = {} /\ \A l \in Loop : busy'[l] = Idle
                      /\ \A x \in Conn : pc'[x] \in {"none", "done"}
    BY DEF AllReturned
  <1>1. CASE StopReturns
    BY <1>1 DEF StopReturns, msgVars, linkVars
  <1>2. CASE UNCHANGED vars
    BY <1>2 DEF vars, msgVars, linkVars, stopVars, IInv, AllReturned
  <1>3. CASE stop = "returned"
    <2> USE <1>3
    <2>1. /\ held = {} /\ \A l \in Loop : busy[l] = Idle
          /\ \A x \in Conn : pc[x] \in {"none", "done"}
      BY DEF IInv, AllReturned
    <2>2. \A l \in Loop : ~ControlLoop(l) /\ ~OldEnds(l)
      BY <2>1 DEF ControlLoop, DialLocal, DataWrite, NewConn, Data, CloseConn, Receives, Severed,
                  Idle, OldEnds
    <2>3. \A x \in Conn : ~Fwd(x) /\ ~Stream(x)
      BY <2>1 DEF Fwd, FwdTop, FwdData, FwdReadError, FwdEnd, Stream, AcceptStream, StreamFails,
                  StreamDial, StreamStore, In, Out, StreamEnd, Severed
    <2>4. busy' = busy /\ pc' = pc /\ held' = held
      BY <2>2, <2>3 DEF Next, LocalCloses, DataStreamEnds, Reconnect, StopCancels, Stopping,
                        StopSevers, StopReturns, Visit, Terminated, vars, msgVars, linkVars
    <2> QED
      BY <2>1, <2>4
  <1>4. CASE ~StopReturns /\ ~(UNCHANGED vars) /\ stop # "returned"
    BY <1>4
    DEF Next, ControlLoop, DialLocal, DataWrite, NewConn, Data, CloseConn,
        Fwd, FwdTop, FwdData, FwdReadError, FwdEnd, Stream, AcceptStream, StreamFails,
        StreamDial, StreamStore, In, Out, StreamEnd, LocalCloses, DataStreamEnds,
        Reconnect, OldEnds, StopCancels, Stopping, StopSevers, Visit, Terminated, stopVars
  <1> QED
    BY <1>1, <1>2, <1>3, <1>4

\* Types are preserved; that no count falls below -Cardinality(Loop) follows from
\* SafeStep.
LEMMA TypeStep == IInv /\ [Next]_vars => TypeOK'
  <1> SUFFICES ASSUME IInv, [Next]_vars PROVE TypeOK'
    OBVIOUS
  <1>1. busy' \in [Loop -> {"idle", "dial", "write"} \X (Conn \cup {Nil})]
    BY BusyStep
  <1>2. TypeOK
    BY DEF IInv
  <1> DEFINE Rest ==
        /\ asked \subseteq Announced /\ told \subseteq Conn /\ overtaken \subseteq Conn
        /\ pc \in [Conn -> {"none", "top", "read", "ended", "dial", "dialled", "pipe", "done"}]
        /\ in \in [Conn -> {"top", "read", "ended"}] /\ out \in [Conn -> {"top", "read", "ended"}]
        /\ sock \in [Conn -> {"none", "open", "closed"}]
        /\ peer \in [Conn -> BOOLEAN] /\ data \in [Conn -> BOOLEAN]
        /\ localConns \subseteq Conn /\ counted \in [Conn -> Int]
        /\ held \subseteq Loop /\ abandoned \in BOOLEAN /\ old \subseteq Conn
        /\ stop \in {"no", "cancelled", "ranging", "returned"}
        /\ toVisit \subseteq Conn
  <1>3. Cardinality(Loop) \in Nat
    BY ClientConnsAssumption, FS_CardinalityType
  <1>4. Rest
    BY <1>2, <1>3 DEF TypeOK
  <1>5. Rest'
    <2> USE <1>4 DEF Goto, CloseSock, Store, Forget, Receives, msgVars, pipeVars, mapVars, linkVars,
                     stopVars
    <2>1. ASSUME NEW l \in Loop, NEW x \in Conn, NewConn(l, x) \/ Data(l, x) PROVE Rest'
      BY <2>1 DEF NewConn, Data
    <2>2. ASSUME NEW l \in Loop, NEW x \in Conn, CloseConn(l, x) PROVE Rest'
      BY <2>2 DEF CloseConn
    <2>3. ASSUME NEW l \in Loop, DialLocal(l) PROVE Rest'
      <3>1. busy[l][2] \in Conn
        BY <2>3, BusyConn DEF DialLocal, IInv
      <3> QED
        BY <2>3, <3>1 DEF DialLocal
    <2>4. ASSUME NEW l \in Loop, DataWrite(l) PROVE Rest'
      <3>1. busy[l][2] \in Conn
        BY <2>4, BusyConn DEF DataWrite, IInv
      <3> QED
        BY <2>4, <3>1 DEF DataWrite
    <2>5. ASSUME NEW x \in Conn, Fwd(x) PROVE Rest'
      BY <2>5 DEF Fwd, FwdTop, FwdData, FwdReadError, FwdEnd
    <2>6. ASSUME NEW x \in Conn, AcceptStream(x) \/ StreamFails(x) \/ StreamDial(x) PROVE Rest'
      BY <2>6 DEF AcceptStream, StreamFails, StreamDial
    <2>7. ASSUME NEW x \in Conn, StreamStore(x) \/ StreamEnd(x) PROVE Rest'
      <3>1. CASE StreamStore(x)
        BY <3>1 DEF StreamStore
      <3>2. CASE StreamEnd(x)
        <4>1. data' \in [Conn -> BOOLEAN]
          BY <3>2 DEF StreamEnd
        <4> QED
          BY <3>2, <4>1 DEF StreamEnd
      <3> QED
        BY <2>7, <3>1, <3>2
    <2>8. ASSUME NEW x \in Conn, In(x) \/ Out(x) PROVE Rest'
      BY <2>8 DEF In, Out
    <2>9. ASSUME NEW x \in Conn, LocalCloses(x) \/ DataStreamEnds(x) \/ Visit(x) PROVE Rest'
      BY <2>9 DEF LocalCloses, DataStreamEnds, Visit
    <2>10. CASE StopCancels \/ StopSevers \/ StopReturns \/ UNCHANGED vars
      BY <2>10 DEF StopCancels, StopSevers, StopReturns, vars
    <2>11. ASSUME Reconnect \/ \E l \in Loop : OldEnds(l) PROVE Rest'
      BY <2>11 DEF Reconnect, OldEnds
    <2> HIDE DEF Rest
    <2> QED
      BY <2>1, <2>2, <2>3, <2>4, <2>5, <2>6, <2>7, <2>8, <2>9, <2>10, <2>11
      DEF Next, ControlLoop, Stream, Stopping, Terminated
  <1>6. counted' \in [Conn -> -Cardinality(Loop) .. 1]
    <2>1. ASSUME NEW x \in Conn PROVE counted'[x] \in -Cardinality(Loop) .. 1
      <3>1. Counted(x)' /\ counted'[x] \in Int
        BY <1>5, SafeStep DEF Safe
      <3>2. Pending(x)' \in Nat
        <4>1. Writers(x)' \in SUBSET Loop
          BY DEF Writers
        <4>2. Cardinality(Writers(x)') \in Nat
          BY <4>1, ClientConnsAssumption, FS_Subset, FS_CardinalityType
        <4> QED
          BY <4>2 DEF Pending
      <3> QED
        BY <1>3, <3>1, <3>2 DEF Counted
    <2> QED
      BY <1>5, <2>1
  <1> QED
    BY <1>1, <1>5, <1>6 DEF TypeOK

LEMMA InvInit == Init => IInv
  <1> SUFFICES ASSUME Init PROVE IInv
    OBVIOUS
  <1>1. Cardinality(Loop) \in Nat
    BY ClientConnsAssumption, FS_CardinalityType
  <1>2. TypeOK
    <2>1. abandoned \in BOOLEAN
      BY Zenon DEF Init
    <2> QED
      BY <1>1, <2>1 DEF Init, TypeOK, Idle
  <1>3. BusyWith /\ AllReturned
    BY DEF Init, BusyWith, AllReturned
  <1>4. ASSUME NEW x \in Conn PROVE Safe(x)
    <2>1. Dialling(x) = {} /\ Writers(x) = {}
      BY DEF Init, Dialling, Writers, Idle
    <2>2. Pending(x) = 0
      BY <2>1, FS_EmptySet DEF Init, Pending
    <2> QED
      BY <1>1, <2>1, <2>2 DEF Init, Safe, OneKind, Tabled, Counted, Forwarding
  <1> QED
    BY <1>2, <1>3, <1>4 DEF IInv

----------------------------------------------------------------------------
\* The invariant of the local connections, through reconnects and Stop.
THEOREM InductiveInvariant == Spec => []IInv
  <1>1. IInv /\ [Next]_vars => IInv'
    BY SafeStep, BusyStep, ReturnedStep, TypeStep DEF IInv
  <1> QED
    BY <1>1, InvInit, PTL DEF Spec

\* localConns and activeConns agree (handleNewConn, handleData, forwardLocalToControl):
\* the unconditional decrements take a connection below zero at most once per control
\* loop, and never one of a data stream.
THEOREM LocalTableIsSound == Spec => []LocalTable
  <1>1. IInv => LocalTable
    <2> SUFFICES ASSUME IInv, NEW x \in Conn, x \notin localConns
                 PROVE  counted[x] \in -Cardinality(Loop) .. 0
      BY DEF IInv, Safe, Counted, LocalTable, CountBounded
    <2>1. counted[x] \in -Cardinality(Loop) .. 1 /\ counted[x] <= 0
      BY DEF IInv, TypeOK, Safe, Counted
    <2>2. Cardinality(Loop) \in Nat
      BY ClientConnsAssumption, FS_CardinalityType
    <2> QED
      BY <2>1, <2>2
  <1> QED
    BY <1>1, InductiveInvariant, PTL

\* When Stop has returned nothing is left of the local connections: none is open and
\* none is stored, also none that was dialled or stored while Stop ran.
NothingLeft == stop = "returned" => localConns = {} /\ \A x \in Conn : sock[x] # "open"

\* The safety half of StopIsClean: whoever stores a connection after Stop's Range has
\* passed is waited for, and closes and forgets it (Stop, quic.go:2592).
THEOREM StopLeavesNothing == Spec => []NothingLeft
  <1>1. IInv => NothingLeft
    BY DEF IInv, TypeOK, AllReturned, Safe, Tabled, Forwarding, NothingLeft
  <1> QED
    BY <1>1, InductiveInvariant, PTL

----------------------------------------------------------------------------
(* MuxClient *)

\* Connections are used only after they were dialled; from DialSucceeds until the
\* loop gives it up, s.conn is the connection being set up, and s.controlStream is
\* a stream of it once opened.  The goroutines start after that.
MuxClientDialled ==
    /\ conn <= dials /\ control <= dials /\ token <= dials
    /\ \A c \in Dial : c > dials => link[c] # "up" /\ readers[c] = 0
    /\ loop \in {"open", "ack", "store", "wait"} => conn # 0
    /\ loop \in {"ack", "store", "wait"} => control = conn
    /\ control = 0 => ctl = 0 /\ \A c \in Dial : readers[c] = 0

\* From the moment its goroutines are started, before connectLoop waits for them,
\* somebody watches the connection and somebody sends heartbeats; no heartbeatLoop
\* ends, for connected is true while connectLoop waits.
MuxClientWatched ==
    /\ loop \in {"store", "wait"} /\ ~ContextDone =>
         /\ token # 0 \/ ctl > 0 \/ readers[conn] > 0
         /\ hb + hbSend > 0
    /\ loop = "wait" /\ ~ContextDone => connected

\* Once Stop has closed s.conn, one that is up was dialled later and is about to be
\* closed by OpenControl.  After wg.Wait nobody is left.
MuxClientStopped ==
    /\ stopAt \in {"wait", "returned"} /\ Up(conn) => loop = "open"
    /\ stopAt = "returned" =>
         /\ loop = "done" /\ hb = 0 /\ hbSend = 0 /\ ctl = 0
         /\ \A c \in Dial : readers[c] = 0

MuxClientIInv == Limits /\ ClientTypeOK /\ MuxClientDialled /\ MuxClientWatched
    /\ TokenIsOfLost /\ MuxClientStopped

----------------------------------------------------------------------------
\* Connections are numbered from 1, so that 0 stands for nil only.
LEMMA MuxClientDialFacts ==
    Limits => MaxDials \in Nat \ {0} /\ Dial = 1..MaxDials /\ 0 \notin Dial
BY DEF Limits, Dial

\* Types are preserved: a retrier never counts beyond MaxReconnectTries, and no
\* count of goroutines is taken below zero.
LEMMA MuxClientTypeStep == MuxClientIInv /\ [ClientNext]_clientVars => ClientTypeOK'
<1> SUFFICES ASSUME MuxClientIInv, [ClientNext]_clientVars PROVE ClientTypeOK'
  OBVIOUS
<1> USE MuxClientDialFacts DEF Limits, MuxClientIInv, ClientTypeOK
<1>1. CASE LoopTop
  BY <1>1 DEF LoopTop, ReturnDo, connVars, goVars
<1>2. CASE Backoff
  BY <1>2
  DEF Backoff, Retry, Fallback, RoundFailed, NoMoreAttempts, ReturnDo, connVars,
      goVars
<1>3. CASE DialFails
  BY <1>3 DEF DialFails, retryVars, connVars, goVars
<1>4. CASE DialSucceeds
  BY <1>4 DEF DialSucceeds, retryVars, goVars
<1>5. CASE OpenControl
  BY <1>5 DEF OpenControl, retryVars, goVars
<1>6. CASE AckFails \/ AckRefuses \/ AckAccepts
  <2>1. CASE AckFails
    BY <2>1 DEF AckFails, retryVars, connVars, goVars
  <2>2. CASE AckRefuses
    BY <2>2 DEF AckRefuses, connVars, goVars
  <2>3. CASE AckAccepts
    BY <2>3 DEF AckAccepts, ReturnDo, connVars
  <2> QED
    BY <1>6, <2>1, <2>2, <2>3
<1>7. CASE StoreConnected \/ WaitEnds
  <2>1. CASE StoreConnected
    BY <2>1 DEF StoreConnected, connVars, goVars
  <2>2. CASE WaitEnds
    <3>1. connected' \in BOOLEAN
      BY <2>2 DEF WaitEnds
    <3>2. token' \in {token, 0} /\ loop' \in {"done", "top"}
      BY <2>2 DEF WaitEnds
    <3>3. UNCHANGED <<retryVars, connVars, goVars, stopAt>>
      BY <2>2 DEF WaitEnds
    <3> QED
      BY <3>1, <3>2, <3>3 DEF retryVars, connVars, goVars
  <2> QED
    BY <1>7, <2>1, <2>2
<1>8. CASE Heartbeat
  <2>1. CASE HbEnds \/ HbTick
    <3>1. hb' \in Nat /\ hbSend' \in Nat
      BY <2>1 DEF HbEnds, HbTick
    <3>2. UNCHANGED <<loop, retryVars, connVars, connected, token, ctl, readers, stopAt>>
      BY <2>1 DEF HbEnds, HbTick
    <3> QED
      BY <3>1, <3>2 DEF retryVars, connVars
  <2>2. CASE HbSend
    BY <2>2 DEF HbSend, triggerReconnect, retryVars, connVars
  <2> QED
    BY <1>8, <2>1, <2>2 DEF Heartbeat
<1>9. CASE CtlTop
  BY <1>9 DEF CtlTop, MuxClientDialled, retryVars, connVars
<1>10. ASSUME NEW c \in Dial, CtlMessage(c) \/ CtlReadFails(c) PROVE ClientTypeOK'
  <2>1. CASE CtlMessage(c)
    BY <2>1 DEF CtlMessage, retryVars, connVars
  <2>2. CASE CtlReadFails(c)
    BY <2>2 DEF CtlReadFails, triggerReconnect, retryVars, connVars
  <2> QED
    BY <1>10, <2>1, <2>2
<1>11. ASSUME NEW c \in Dial, Lose(c) PROVE ClientTypeOK'
  BY <1>11 DEF Lose, retryVars, goVars
<1>12. CASE ClientStopCancels \/ StopCloses \/ ClientStopReturns
  BY <1>12 DEF ClientStopCancels, StopCloses, ClientStopReturns, Up, retryVars, connVars, goVars
<1>13. CASE UNCHANGED clientVars
  BY <1>13 DEF clientVars, retryVars, connVars, goVars
<1> QED
  BY <1>1, <1>2, <1>3, <1>4, <1>5, <1>6, <1>7, <1>8, <1>9, <1>10, <1>11, <1>12, <1>13
  DEF ClientNext, ConnectLoop, Connect, ControlLoops, ClientTerminated

\* No goroutine touches a connection or a stream before there is one.
LEMMA MuxClientDialledStep == MuxClientIInv /\ [ClientNext]_clientVars => MuxClientDialled'
<1> SUFFICES ASSUME MuxClientIInv, [ClientNext]_clientVars PROVE MuxClientDialled'
  OBVIOUS
<1> USE MuxClientDialFacts DEF Limits, MuxClientIInv, ClientTypeOK, MuxClientDialled
<1>1. CASE LoopTop
  BY <1>1 DEF LoopTop, ReturnDo, connVars, goVars
<1>2. CASE Backoff
  BY <1>2 DEF Backoff, Retry, Fallback, RoundFailed, ReturnDo, connVars, goVars
<1>3. CASE DialFails
  BY <1>3 DEF DialFails, retryVars, connVars, goVars
<1>4. CASE DialSucceeds
  BY <1>4 DEF DialSucceeds, retryVars, goVars
<1>5. CASE OpenControl
  BY <1>5 DEF OpenControl, Up, retryVars, goVars
<1>6. CASE AckFails \/ AckRefuses \/ AckAccepts
  BY <1>6
  DEF AckFails, AckRefuses, AckAccepts, Up, ReturnDo, retryVars, connVars, goVars
<1>7. CASE StoreConnected \/ WaitEnds
  BY <1>7 DEF StoreConnected, WaitEnds, retryVars, connVars, goVars
<1>8. CASE Heartbeat
  BY <1>8 DEF Heartbeat, HbEnds, HbTick, HbSend, triggerReconnect, retryVars, connVars
<1>9. CASE CtlTop
  BY <1>9 DEF CtlTop, retryVars, connVars
<1>10. ASSUME NEW c \in Dial, CtlMessage(c) \/ CtlReadFails(c) PROVE MuxClientDialled'
  <2>1. CASE CtlMessage(c)
    BY <2>1 DEF CtlMessage, retryVars, connVars
  <2>2. CASE CtlReadFails(c)
    BY <2>2 DEF CtlReadFails, triggerReconnect, retryVars, connVars
  <2> QED
    BY <1>10, <2>1, <2>2
<1>11. ASSUME NEW c \in Dial, Lose(c) PROVE MuxClientDialled'
  BY <1>11 DEF Lose, Up, retryVars, goVars
<1>12. CASE ClientStopCancels \/ StopCloses \/ ClientStopReturns
  BY <1>12 DEF ClientStopCancels, StopCloses, ClientStopReturns, Up, retryVars, connVars, goVars
<1>13. CASE UNCHANGED clientVars
  BY <1>13 DEF clientVars, retryVars, connVars, goVars
<1> QED
  BY <1>1, <1>2, <1>3, <1>4, <1>5, <1>6, <1>7, <1>8, <1>9, <1>10, <1>11, <1>12, <1>13
  DEF ClientNext, ConnectLoop, Connect, ControlLoops, ClientTerminated

\* Whoever stops watching the current connection leaves a token, or leaves the
\* watching to another goroutine; a heartbeatLoop ends only when connectLoop does not
\* wait.
LEMMA MuxClientWatchedStep == MuxClientIInv /\ [ClientNext]_clientVars => MuxClientWatched'
<1> SUFFICES ASSUME MuxClientIInv, [ClientNext]_clientVars PROVE MuxClientWatched'
  OBVIOUS
<1> USE MuxClientDialFacts
DEF Limits, MuxClientIInv, ClientTypeOK, MuxClientDialled, MuxClientWatched, ContextDone
<1>1. CASE LoopTop
  BY <1>1 DEF LoopTop, ReturnDo, connVars, goVars
<1>2. CASE Backoff
  BY <1>2 DEF Backoff, Retry, Fallback, RoundFailed, ReturnDo, connVars, goVars
<1>3. CASE DialFails \/ DialSucceeds \/ OpenControl
  BY <1>3 DEF DialFails, DialSucceeds, OpenControl
<1>4. CASE AckFails \/ AckRefuses
  BY <1>4 DEF AckFails, AckRefuses
<1>5. CASE AckAccepts
  BY <1>5 DEF AckAccepts, ReturnDo, connVars
<1>6. CASE StoreConnected
  BY <1>6 DEF StoreConnected, connVars, goVars
<1>7. CASE WaitEnds
  BY <1>7 DEF WaitEnds, retryVars, connVars, goVars
<1>8. CASE HbEnds
  BY <1>8 DEF HbEnds, retryVars, connVars
<1>9. CASE HbTick
  BY <1>9 DEF HbTick, retryVars, connVars
<1>10. CASE HbSend
  BY <1>10 DEF HbSend, triggerReconnect, retryVars, connVars
<1>11. CASE CtlTop
  BY <1>11 DEF CtlTop, retryVars, connVars
<1>12. ASSUME NEW c \in Dial, CtlMessage(c) PROVE MuxClientWatched'
  BY <1>12 DEF CtlMessage, retryVars, connVars
<1>13. ASSUME NEW c \in Dial, CtlReadFails(c) PROVE MuxClientWatched'
  BY <1>13 DEF CtlReadFails, triggerReconnect, retryVars, connVars
<1>14. ASSUME NEW c \in Dial, Lose(c) PROVE MuxClientWatched'
  BY <1>14 DEF Lose, retryVars, goVars
<1>15. CASE ClientStopCancels \/ StopCloses \/ ClientStopReturns
  BY <1>15 DEF ClientStopCancels, StopCloses, ClientStopReturns, retryVars, connVars, goVars
<1>16. CASE UNCHANGED clientVars
  BY <1>16 DEF clientVars, retryVars, connVars, goVars
<1> QED
  BY <1>1, <1>2, <1>3, <1>4, <1>5, <1>6, <1>7, <1>8, <1>9, <1>10, <1>11, <1>12, <1>13,
     <1>14, <1>15, <1>16
  DEF ClientNext, ConnectLoop, Connect, Heartbeat, ControlLoops, ClientTerminated

\* A connection that went down stays down: only a fresh number comes up.
LEMMA MuxClientLostStaysLost ==
    ASSUME MuxClientIInv, [ClientNext]_clientVars, NEW c \in Dial, c <= dials, ~Up(c)
    PROVE  ~Up(c)'
<1> USE MuxClientDialFacts DEF Limits, MuxClientIInv, ClientTypeOK, MuxClientDialled, Up
<1>1. CASE DialSucceeds
  BY <1>1 DEF DialSucceeds
<1>2. CASE OpenControl
  BY <1>2 DEF OpenControl
<1>3. ASSUME NEW d \in Dial, Lose(d) PROVE ~Up(c)'
  BY <1>3 DEF Lose
<1>4. CASE StopCloses
  BY <1>4 DEF StopCloses
<1>5. CASE UNCHANGED link
  BY <1>5
<1>6. LoopTop \/ Backoff \/ DialFails \/ WaitEnds \/ StoreConnected => UNCHANGED link
  BY DEF LoopTop, Backoff, DialFails, WaitEnds, StoreConnected, connVars
<1>7. AckFails \/ AckRefuses \/ AckAccepts \/ Heartbeat => UNCHANGED link
  BY DEF AckFails, AckRefuses, AckAccepts, Heartbeat, HbEnds, HbTick, HbSend,
      connVars
<1>8. ControlLoops \/ ClientStopCancels \/ ClientStopReturns \/ UNCHANGED clientVars => UNCHANGED link
  BY DEF ControlLoops, CtlTop, CtlMessage, CtlReadFails, ClientStopCancels, ClientStopReturns,
      clientVars, connVars
<1> QED
  BY <1>1, <1>2, <1>3, <1>4, <1>5, <1>6, <1>7, <1>8 DEF ClientNext, ConnectLoop, Connect, ClientTerminated

\* A token is left by whoever found a connection lost.
LEMMA MuxClientTokenStep == MuxClientIInv /\ [ClientNext]_clientVars => TokenIsOfLost'
<1> SUFFICES ASSUME MuxClientIInv, [ClientNext]_clientVars, token' # 0 PROVE link'[token'] # "up"
  BY DEF TokenIsOfLost, Up
<1> USE MuxClientDialFacts DEF Limits, MuxClientIInv, ClientTypeOK, MuxClientDialled
<1>1. CASE token' = token
  <2>1. PICK c \in Dial : c = token
    BY <1>1
  <2>2. c <= dials /\ ~Up(c)
    BY <1>1, <2>1 DEF TokenIsOfLost
  <2>3. ~Up(c)'
    BY <2>2, MuxClientLostStaysLost
  <2> QED
    BY <1>1, <2>1, <2>3 DEF Up
<1>2. CASE HbSend
  BY <1>1, <1>2 DEF HbSend, triggerReconnect, Up, connVars
<1>3. ASSUME NEW c \in Dial, CtlReadFails(c) PROVE link'[token'] # "up"
  BY <1>1, <1>3 DEF CtlReadFails, triggerReconnect, Up, connVars
<1>4. CASE WaitEnds
  BY <1>1, <1>4 DEF WaitEnds
<1>5. LoopTop \/ Backoff \/ Connect => UNCHANGED token
  BY DEF LoopTop, Backoff, Connect, DialFails, DialSucceeds, OpenControl, AckFails,
      AckRefuses,
         AckAccepts, StoreConnected
<1>6. HbEnds \/ HbTick \/ CtlTop \/ (\E c \in Dial : CtlMessage(c)
    \/ Lose(c)) => UNCHANGED token
  BY DEF HbEnds, HbTick, CtlTop, CtlMessage, Lose
<1>7. ClientStopCancels \/ StopCloses \/ ClientStopReturns \/ UNCHANGED clientVars => UNCHANGED token
  BY DEF ClientStopCancels, StopCloses, ClientStopReturns, clientVars
<1> QED
  BY <1>1, <1>2, <1>3, <1>4, <1>5, <1>6, <1>7
  DEF ClientNext, ConnectLoop, Heartbeat, ControlLoops, ClientTerminated

\* A connection that is dialled while Stop runs is closed before anybody uses it.
LEMMA MuxClientStoppedStep == MuxClientIInv /\ [ClientNext]_clientVars => MuxClientStopped'
<1> SUFFICES ASSUME MuxClientIInv, [ClientNext]_clientVars PROVE MuxClientStopped'
  OBVIOUS
<1> USE MuxClientDialFacts
DEF Limits, MuxClientIInv, ClientTypeOK, MuxClientDialled, MuxClientStopped, ContextDone, Up
<1>1. CASE LoopTop
  BY <1>1 DEF LoopTop, ReturnDo, connVars, goVars
<1>2. CASE Backoff
  BY <1>2 DEF Backoff, ReturnDo, Retry, Fallback, RoundFailed, connVars, goVars
<1>3. CASE DialFails
  BY <1>3 DEF DialFails, connVars, goVars
<1>4. CASE DialSucceeds
  BY <1>4 DEF DialSucceeds, goVars
<1>5. CASE OpenControl
  BY <1>5 DEF OpenControl, goVars
<1>6. CASE AckFails \/ AckRefuses
  BY <1>6 DEF AckFails, AckRefuses, connVars, goVars
<1>7. CASE AckAccepts
  BY <1>7 DEF AckAccepts, connVars
<1>8. CASE StoreConnected \/ WaitEnds
  BY <1>8 DEF StoreConnected, WaitEnds, connVars, goVars
<1>9. CASE Heartbeat
  BY <1>9 DEF Heartbeat, HbEnds, HbTick, HbSend, connVars
<1>10. CASE CtlTop
  BY <1>10 DEF CtlTop, connVars
<1>11. ASSUME NEW c \in Dial, CtlMessage(c) \/ CtlReadFails(c) PROVE MuxClientStopped'
  BY <1>11 DEF CtlMessage, CtlReadFails, connVars
<1>12. ASSUME NEW c \in Dial, Lose(c) PROVE MuxClientStopped'
  BY <1>12 DEF Lose, goVars
<1>13. CASE ClientStopCancels
  BY <1>13 DEF ClientStopCancels, connVars, goVars
<1>14. CASE StopCloses
  BY <1>14 DEF StopCloses, goVars
<1>15. CASE ClientStopReturns
  BY <1>15 DEF ClientStopReturns, connVars, goVars
<1>16. CASE UNCHANGED clientVars
  BY <1>16 DEF clientVars, connVars, goVars
<1> QED
  BY <1>1, <1>2, <1>3, <1>4, <1>5, <1>6, <1>7, <1>8, <1>9, <1>10, <1>11, <1>12, <1>13,
     <1>14, <1>15, <1>16
  DEF ClientNext, ConnectLoop, Connect, ControlLoops, ClientTerminated

----------------------------------------------------------------------------
\* The invariant of the client holds in every reachable state of connectLoop, its
\* goroutines and Stop.
THEOREM MuxClientInductiveInvariant == ClientSpec => []MuxClientIInv
<1>1. ClientInit => MuxClientIInv
  <2> SUFFICES ASSUME Limits, ClientInit PROVE MuxClientIInv
    BY ClientAssumption
  <2>1. ClientTypeOK
    <3>1. known \in BOOLEAN /\ connected \in BOOLEAN
      BY DEF ClientInit
    <3>2. attempt \in 0..MaxReconnectTries /\ tries \in 0..MaxReconnectTries
      BY DEF Limits, ClientInit
    <3>3. link \in [Dial -> {"none", "up", "down"}] /\ readers \in [Dial -> Nat]
      BY DEF ClientInit
    <3> QED
      BY <3>1, <3>2, <3>3, MuxClientDialFacts DEF ClientInit, ClientTypeOK
  <2>2. MuxClientDialled
    BY MuxClientDialFacts DEF ClientInit, MuxClientDialled
  <2>3. MuxClientWatched /\ TokenIsOfLost /\ MuxClientStopped
    BY DEF ClientInit, MuxClientWatched, TokenIsOfLost, MuxClientStopped
  <2> QED
    BY <2>1, <2>2, <2>3 DEF MuxClientIInv
<1>2. MuxClientIInv /\ [ClientNext]_clientVars => MuxClientIInv'
  BY MuxClientTypeStep, MuxClientDialledStep, MuxClientWatchedStep, MuxClientTokenStep,
      MuxClientStoppedStep DEF MuxClientIInv, Limits
<1> QED
  BY <1>1, <1>2, PTL DEF ClientSpec

\* A reconnect is asked for when a connection was lost and only then (connectLoop,
\* controlLoop, triggerReconnect): for any number of reconnects, however many stale
\* goroutines they leave behind.
THEOREM ReconnectsIffLost == ClientSpec => []ReconnectIffLost
<1>1. MuxClientIInv => ReconnectIffLost
  BY DEF MuxClientIInv, MuxClientWatched, ReconnectIffLost, NeverDeaf
<1> QED
  BY <1>1, MuxClientInductiveInvariant, PTL

\* When Stop has returned, connectLoop and the goroutines of every connect have ended
\* and s.conn is closed.
MuxClientNothingLeft ==
    stopAt = "returned" =>
        /\ loop = "done" /\ hb = 0 /\ hbSend = 0 /\ ctl = 0
        /\ \A c \in Dial : readers[c] = 0
        /\ ~Up(conn)

\* The safety half of ClientStopIsClean: Stop closes s.conn before it waits, and a connection
\* that connectLoop stores after that is closed by connectLoop itself (Stop,
\* quic.go:2592).
THEOREM MuxClientStopLeavesNothing == ClientSpec => []MuxClientNothingLeft
<1>1. MuxClientIInv => MuxClientNothingLeft
  BY DEF MuxClientIInv, MuxClientStopped, MuxClientNothingLeft
<1> QED
  BY <1>1, MuxClientInductiveInvariant, PTL
=============================================================================
