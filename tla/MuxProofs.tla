----------------------------- MODULE MuxProofs -----------------------------
(***************************************************************************)
(* Theorems about Mux, for any connections, IDs and payloads the formats   *)
(* can carry and any number of frames.                                     *)
(***************************************************************************)
EXTENDS Mux, CodecProofs, FiniteSetTheorems

Stored == {id \in ID : entry[id] # None}

\* How many frames the peer sends at most.
Limit == IF use = "manager" THEN MaxFrames ELSE MaxSent

\* The table: an idle handle has no forwarder, a handle that was stored over is stored no
\* more, and the counter counts both.
Table ==
    /\ TypeOK
    /\ IsFiniteSet(Stored) /\ IsFiniteSet(replaced) /\ CountMatches
    /\ \A h \in replaced : h \in Handle /\ local[h] # "idle" /\ \A id \in ID : entry[id] # h
    /\ \A h \in Handle : local[h] = "idle" <=> fwd[h] = "off"
    /\ use = "pair" => fwd[PairHandle] # "off"
    /\ reader # "off" => use = "pair"

\* A forwarder that has ended had a reason.
Reasons ==
    /\ \A h \in Handle : Ended(h) => h \in why
    /\ ClosedForAReason

Tells ==
    /\ \A h \in Handle : local[h] = "reset" => h \in resets
    /\ SilentOnlyByReset

\* Messages that both formats carry.
Sendable == {m \in TextMessage : BinaryEncode(m) # Err}

\* Every frame on the shared connection is the text of one of them.
Frames ==
    /\ wrote \in Seq(Sendable) /\ out \in Seq(String) /\ Len(out) = Len(wrote)
    /\ \A i \in 1 .. Len(wrote) : out[i] = TextEncode(wrote[i])

\* What is in flight: up to the first cut, frames the peer has sent.
Arrivals ==
    /\ told \subseteq Incoming /\ inbox \in Pipe
    /\ cut \in BOOLEAN /\ shifted \in BOOLEAN /\ crashed \in BOOLEAN
    /\ (shifted => cut) /\ (crashed => shifted)
    /\ ~ cut => \A i \in 1 .. Len(inbox) : \E m \in told : inbox[i] = TextEncode(m)
    /\ PairCopies

\* As long as no request was late and no response cut, one waits at a time, for the
\* answer the peer has still to give or for the one in flight.
Answer(id) == \E m \in told : m.type = "RESPONSE" /\ m.id = id /\ inbox = <<TextEncode(m)>>

Requests ==
    /\ pending \subseteq ID /\ result = [id \in ID |-> result[id]] /\ late \in BOOLEAN
    /\ \A id \in ID : req[id] = "wait" => use = "http"
    /\ OwnResponse
    /\ use = "http" /\ ~ late /\ ~ cut =>
         /\ \A q, r \in ID : req[q] = "wait" /\ req[r] = "wait" => q = r
         /\ \A r \in pending : req[r] = "wait" /\ inbox = <<>>
         /\ inbox = <<>> \/ \E r \in ID : req[r] = "wait" /\ Answer(r)

IInv == Table /\ Reasons /\ Tells /\ Frames /\ Arrivals /\ Requests

-----------------------------------------------------------------------------
\* Messages

LEMMA Sends ==
    ASSUME NEW t \in {"DATA", "REQUEST", "RESPONSE", "NEWCONN", "CLOSE"}, NEW id \in ID,
           NEW d \in Data \union {<<>>}, t = "CLOSE" => d = <<>>
    PROVE  [type |-> t, id |-> id, data |-> d] \in Sendable
  <1> DEFINE m == [type |-> t, id |-> id, data |-> d]
  <1>0. id \in Seq(Byte) /\ ~ Contains(id, Colon) /\ Len(id) + Len(d) + 10 <= 65536
    BY MuxAssumption
  <1>2. d \in String /\ Len(d) \in Nat
    <2>1. CASE d \in Data
      BY <2>1, MuxAssumption, BytesAreString
    <2>2. CASE d = <<>>
      BY <2>2, EmptyString, SMT
    <2> QED
      BY <2>1, <2>2
  <1>1. id \in String /\ NoColon(id) /\ Len(id) \in Nat /\ ~ (Len(id) > 65535)
    <2>1. id \in String /\ Len(id) \in Nat
      BY <1>0, BytesAreString
    <2>2. NoColon(id)
      BY <1>0, <2>1, SMT DEF Contains, NoColon, String
    <2> QED
      BY <1>0, <1>2, <2>1, <2>2
  <1>4. ~ (Len(d) - 1 > 2147483647)
    BY <1>0, <1>1, <1>2
  <1>3. m.type = t /\ m.id = id /\ m.data = d /\ m \in Message
    BY <1>1, <1>2 DEF Message, TypeCode
  <1>6. m \in TextMessage
    BY <1>1, <1>3 DEF TextMessage
  <1>5. BinaryEncode(m) # Err
    <2>1. BinaryEncode(m) = Ok([bytes |-> <<TypeCode[m.type]>> \o Str16(m.id)
                                             \o PutUint32(Len(m.data)) \o m.data])
      BY <1>1, <1>2, <1>3, <1>4, SMT DEF BinaryEncode
    <2>2. BinaryEncode(m).res = "ok"
      BY <2>1, OkBytes, Zenon
    <2> QED
      BY <2>2 DEF Err
  <1> QED
    BY <1>5, <1>6 DEF Sendable

\* What arrives is what was sent.
LEMMA Arrives ==
    ASSUME NEW m \in Sendable
    PROVE  LET d == TextDecode(TextEncode(m))
           IN  d.res = "ok" /\ d.type = m.type /\ d.id = m.id /\ d.data = m.data
  <1>1. m \in TextMessage /\ m \in Message
    BY DEF Sendable, TextMessage
  <1> QED
    BY <1>1, TextRoundTrip, OkFields

LEMMA IncomingSends ==
    ASSUME NEW m \in Incoming
    PROVE  m \in Sendable /\ m.id \in ID /\ m.type \in {"DATA", "RESPONSE", "NEWCONN", "CLOSE"}
  <1>1. m = [type |-> m.type, id |-> m.id, data |-> m.data] /\ m.id \in ID
    BY DEF Incoming
  <1>2. /\ m.type \in {"DATA", "RESPONSE", "NEWCONN", "CLOSE"}
        /\ m.data \in Data \union {<<>>} /\ (m.type = "CLOSE" => m.data = <<>>)
    BY DEF Incoming
  <1>3. [type |-> m.type, id |-> m.id, data |-> m.data] \in Sendable
    BY <1>1, <1>2, Sends
  <1> QED
    BY <1>1, <1>2, <1>3

-----------------------------------------------------------------------------
\* Frames on the shared connection

\* A step writes one sendable message or none.
LEMMA WritesStep ==
    ASSUME Table, [Next]_vars
    PROVE  \/ \E m \in Sendable : Write(m)
           \/ UNCHANGED <<out, wrote>>
  <1> USE DEF Table, TypeOK
  <1>1. ASSUME NEW h \in Handle, NEW d \in Data, FwdData(h, d)
        PROVE  (\E m \in Sendable : Write(m)) \/ UNCHANGED <<out, wrote>>
    <2>1. [type |-> "DATA", id |-> owner[h], data |-> d] \in Sendable
      BY Sends
    <2> QED
      BY <1>1, <2>1 DEF FwdData
  <1>2. ASSUME NEW h \in Handle, FwdClosed(h)
        PROVE  (\E m \in Sendable : Write(m)) \/ UNCHANGED <<out, wrote>>
    <2>1. [type |-> "CLOSE", id |-> owner[h], data |-> <<>>] \in Sendable
      BY Sends
    <2> QED
      BY <1>2, <2>1 DEF FwdClosed
  <1>3. ASSUME NEW id \in ID, NEW d \in Data, ForwardHTTP(id, d)
        PROVE  (\E m \in Sendable : Write(m)) \/ UNCHANGED <<out, wrote>>
    <2>1. [type |-> "REQUEST", id |-> id, data |-> d] \in Sendable
      BY Sends
    <2> QED
      BY <1>3, <2>1 DEF ForwardHTTP
  <1>4. ASSUME NEW h \in Handle, \/ FwdTop(h) \/ FwdReset(h) \/ FwdCleanup(h)
                                 \/ \E id \in ID : AddConnection(h, id)
                                 \/ \E how \in {"eof", "reset"} : LocalEnds(h, how)
        PROVE  UNCHANGED <<out, wrote>>
    BY <1>4 DEF FwdTop, FwdReset, FwdCleanup, AddConnection, LocalEnds, wire
  <1>5. ASSUME NEW id \in ID, \/ RemoveConnection(id) \/ CloseVisit(id) \/ ResponseFails(id)
                              \/ \E n \in 1 .. InFlight(inbox) : ReadResponse(id, n)
        PROVE  UNCHANGED <<out, wrote>>
    BY <1>5 DEF RemoveConnection, CloseVisit, ResponseFails, ReadResponse, wire
  <1>6. ASSUME NEW m \in Incoming, HandleIncoming(m) \/ PeerSends(m)
        PROVE  UNCHANGED <<out, wrote>>
    BY <1>6 DEF HandleIncoming, PeerSends
  <1>8. ASSUME NEW n \in 1 .. InFlight(inbox), PairMessage(PairHandle, n)
        PROVE  UNCHANGED <<out, wrote>>
    BY <1>8 DEF PairMessage, wire
  <1>7. CASE CloseManager \/ MuxBreaks \/ Pair \/ UNCHANGED vars
    BY <1>7 DEF CloseManager, MuxBreaks, Pair, PairReturns, PairTop, PairMuxFails, vars, wire
  <1> QED
    BY <1>1, <1>2, <1>3, <1>4, <1>5, <1>6, <1>7, <1>8 DEF Next, Steps, Goroutine

LEMMA FramesStep == ASSUME Table, Frames, [Next]_vars PROVE Frames'
  <1>1. CASE UNCHANGED <<out, wrote>>
    BY <1>1 DEF Frames
  <1>2. ASSUME NEW m \in Sendable, Write(m) PROVE Frames'
    <2>1. m \in TextMessage
      BY DEF Sendable
    <2>2. TextEncode(m) \in String
      <3>1. m.type \in DOMAIN TextOf /\ m.id \in String /\ Trailer(m) \in String
        BY <2>1, TextShape
      <3>2. TextOf[m.type] \in String /\ <<Colon>> \in String /\ <<Newline>> \in String
        BY <3>1, TextTypes, ColonString DEF Newline, String
      <3> DEFINE T == TextOf[m.type]
                 C == <<Colon>>
                 N == <<Newline>>
      <3> HIDE DEF T, C, N
      <3>3. T \in String /\ C \in String /\ N \in String
        BY <3>2 DEF T, C, N
      <3>4. T \o C \in String /\ T \o C \o m.id \in String /\ T \o C \o m.id \o Trailer(m) \in String
        BY <3>1, <3>3, ConcatType
      <3>5. (T \o C \o m.id \o Trailer(m)) \o N \in String
        BY <3>3, <3>4, ConcatType
      <3> QED
        BY <2>1, <3>5, TextShape DEF T, C, N
    <2> DEFINE e == TextEncode(m)
    <2>3. out' = Append(out, e) /\ wrote' = Append(wrote, m) /\ e \in String
      BY <1>2, <2>2 DEF Write
    <2> HIDE DEF e
    <2>4. /\ wrote' \in Seq(Sendable) /\ Len(wrote') = Len(wrote) + 1 /\ Len(wrote) \in Nat
          /\ \A i \in 1 .. Len(wrote) : wrote'[i] = wrote[i]
          /\ wrote'[Len(wrote) + 1] = m
      BY <2>3, AppendProperties, LenProperties DEF Frames
    <2>5. /\ out' \in Seq(String) /\ Len(out') = Len(out) + 1
          /\ \A i \in 1 .. Len(out) : out'[i] = out[i]
          /\ out'[Len(out) + 1] = e
      BY <2>3, AppendProperties DEF Frames
    <2>6. Len(out) = Len(wrote) /\ \A i \in 1 .. Len(wrote) : out[i] = TextEncode(wrote[i])
      BY DEF Frames
    <2>7. ASSUME NEW i \in 1 .. Len(wrote) + 1 PROVE out'[i] = TextEncode(wrote'[i])
      <3>1. CASE i \in 1 .. Len(wrote)
        BY <2>4, <2>5, <2>6, <3>1
      <3>2. CASE i = Len(wrote) + 1
        BY <2>4, <2>5, <2>6, <3>2 DEF e
      <3> QED
        BY <2>4, <3>1, <3>2
    <2> QED
      BY <2>4, <2>5, <2>6, <2>7 DEF Frames
  <1> QED
    BY <1>1, <1>2, WritesStep

LEMMA FramesImplied == Frames => FramesExact
  <1> SUFFICES ASSUME Frames, NEW i \in DOMAIN wrote
               PROVE  LET b == BinaryEncode(wrote[i]).bytes
                      IN  /\ TextDecode(out[i]) = Ok(wrote[i])
                          /\ BinaryDecode(b) = Ok(wrote[i])
                          /\ \A k \in 0 .. Len(b) - 1 : BinaryDecode(SubSeq(b, 1, k)) = Err
    BY DEF FramesExact
  <1> DEFINE m == wrote[i]
  <1>1. m \in Sendable /\ out[i] = TextEncode(m)
    BY DEF Frames
  <1> HIDE DEF m
  <1>2. m \in TextMessage /\ m \in Message /\ BinaryEncode(m) # Err
    BY <1>1 DEF Sendable, TextMessage
  <1>3. TextDecode(out[i]) = Ok(m)
    BY <1>1, <1>2, TextRoundTrip
  <1>4. BinaryDecode(BinaryEncode(m).bytes) = Ok(m)
    BY <1>2, BinaryRoundTrip
  <1>5. \A k \in 0 .. Len(BinaryEncode(m).bytes) - 1 :
            BinaryDecode(SubSeq(BinaryEncode(m).bytes, 1, k)) = Err
    BY <1>2, BinaryCutRefused
  <1> QED
    BY <1>3, <1>4, <1>5 DEF m

-----------------------------------------------------------------------------
\* The table

LEMMA HandleFacts == Handle # {} /\ None \notin Handle /\ PairHandle \in Handle
  BY MuxAssumption DEF PairHandle

\* Forget takes what is stored under id out of the table and closes it.
LEMMA ForgetStored ==
    ASSUME Table, NEW id \in ID, entry[id] # None, Forget(id)
    PROVE  /\ entry' = [entry EXCEPT ![id] = None] /\ active' = active - 1
           /\ local' = [local EXCEPT ![entry[id]] = "closed"]
           /\ entry[id] \in Handle /\ owner[entry[id]] = id
           /\ local[entry[id]] # "idle" /\ fwd[entry[id]] \notin {"off", "done"}
  BY HandleFacts DEF Forget, Table, TypeOK

\* The count follows the map.
LEMMA Counted ==
    ASSUME Table
    PROVE  /\ IsFiniteSet(Stored) /\ IsFiniteSet(replaced)
           /\ Cardinality(Stored) \in Nat /\ Cardinality(replaced) \in Nat
           /\ active = Cardinality(Stored) + Cardinality(replaced)
  <1>1. IsFiniteSet(Stored) /\ IsFiniteSet(replaced) /\ CountMatches
    BY DEF Table
  <1> QED
    BY <1>1, FS_CardinalityType DEF CountMatches, Stored

LEMMA Counts ==
    ASSUME Stored' \in SUBSET ID, IsFiniteSet(Stored'), IsFiniteSet(replaced'),
           active' = Cardinality(Stored') + Cardinality(replaced')
    PROVE  IsFiniteSet(Stored)' /\ IsFiniteSet(replaced)' /\ CountMatches'
  BY DEF CountMatches, Stored

LEMMA OneMore ==
    ASSUME NEW a \in Nat, NEW b \in Nat
    PROVE  (a + b) + 1 = (a + 1) + b /\ (a + b) + 1 = a + (b + 1)
  OBVIOUS

LEMMA CountAdds ==
    ASSUME Table, NEW id \in ID, NEW h \in Handle, entry' = [entry EXCEPT ![id] = h],
           replaced' = replaced \union ({entry[id]} \ {None}), active' = active + 1
    PROVE  IsFiniteSet(Stored)' /\ IsFiniteSet(replaced)' /\ CountMatches'
  <1>1. CASE entry[id] = None
    <2>1. Stored' = Stored \union {id} /\ id \notin Stored /\ replaced' = replaced
      BY <1>1, HandleFacts DEF Stored, Table, TypeOK
    <2>0. /\ IsFiniteSet(Stored) /\ IsFiniteSet(replaced)
          /\ Cardinality(Stored) \in Nat /\ Cardinality(replaced) \in Nat
          /\ active = Cardinality(Stored) + Cardinality(replaced) /\ Stored \subseteq ID
      BY Counted DEF Stored
    <2>2. IsFiniteSet(Stored') /\ Cardinality(Stored') = Cardinality(Stored) + 1
      BY <2>0, <2>1, FS_AddElement
    <2>3. active' = Cardinality(Stored') + Cardinality(replaced') /\ Stored' \subseteq ID
      <3>1. Cardinality(replaced') = Cardinality(replaced)
        BY <2>1
      <3>2. active' = (Cardinality(Stored) + Cardinality(replaced)) + 1
        BY <2>0
      <3>3. active' = Cardinality(Stored') + Cardinality(replaced')
        BY <2>0, <2>2, <3>1, <3>2, OneMore
      <3> QED
        BY <2>0, <2>1, <3>3
    <2> QED
      BY <2>0, <2>1, <2>2, <2>3, Counts
  <1>2. CASE entry[id] # None
    <2>1. Stored' = Stored /\ entry[id] \notin replaced /\ replaced' = replaced \union {entry[id]}
      BY <1>2, HandleFacts DEF Stored, Table, TypeOK
    <2>0. /\ IsFiniteSet(Stored) /\ IsFiniteSet(replaced)
          /\ Cardinality(Stored) \in Nat /\ Cardinality(replaced) \in Nat
          /\ active = Cardinality(Stored) + Cardinality(replaced) /\ Stored \subseteq ID
      BY Counted DEF Stored
    <2> DEFINE R == replaced \union {entry[id]}
    <2>2. IsFiniteSet(R) /\ Cardinality(R) = Cardinality(replaced) + 1
      BY <2>0, <2>1, FS_AddElement
    <2>3. replaced' = R
      BY <2>1
    <2> HIDE DEF R
    <2>4. active' = Cardinality(Stored') + Cardinality(replaced')
      <3>1. Cardinality(Stored') = Cardinality(Stored)
        BY <2>1
      <3>2. active' = (Cardinality(Stored) + Cardinality(replaced)) + 1
        BY <2>0
      <3>3. Cardinality(replaced') = Cardinality(replaced) + 1
        BY <2>2, <2>3
      <3> QED
        BY <2>0, <3>1, <3>2, <3>3, OneMore
    <2> QED
      BY <2>0, <2>1, <2>2, <2>3, <2>4, Counts
  <1> QED
    BY <1>1, <1>2

LEMMA CountForgets ==
    ASSUME Table, NEW id \in ID, entry[id] # None, UNCHANGED replaced,
           entry' = [entry EXCEPT ![id] = None], active' = active - 1
    PROVE  IsFiniteSet(Stored)' /\ IsFiniteSet(replaced)' /\ CountMatches'
  <1>1. Stored' = Stored \ {id} /\ id \in Stored
    BY DEF Stored, Table, TypeOK
  <1>2. IsFiniteSet(Stored') /\ Cardinality(Stored') = Cardinality(Stored) - 1
    BY <1>1, Counted, FS_RemoveElement
  <1> QED
    BY <1>2, Counted DEF CountMatches, Stored

\* What a step may do to the table, whichever action it is.
LEMMA TableKept ==
    ASSUME Table, UNCHANGED <<use, entry, replaced, active, owner, local, fwd>>,
           received' \in 0 .. Limit, reader' \in {"off", "top", "read", "done"},
           reader' # "off" => reader # "off",
           req' \in [ID -> {"idle", "wait", "ok", "failed"}]
    PROVE  Table'
  <1>1. Stored' = Stored
    BY DEF Stored
  <1> QED
    BY <1>1, HandleFacts DEF Table, TypeOK, CountMatches, Stored, Limit

\* A forwarder moves on, its connection ends: nothing enters or leaves the map.
LEMMA TableMoves ==
    ASSUME Table, UNCHANGED <<use, entry, replaced, active, owner, req>>,
           received' \in 0 .. Limit, reader' \in {"off", "top", "read", "done"},
           reader' # "off" => reader # "off",
           NEW h \in Handle,
           \/ /\ UNCHANGED local
              /\ \E to \in {"top", "read", "end"} : fwd' = [fwd EXCEPT ![h] = to]
              /\ fwd[h] # "off" /\ fwd[h] # "done"
           \/ /\ UNCHANGED fwd
              /\ \E to \in {"eof", "reset", "closed"} : local' = [local EXCEPT ![h] = to]
              /\ local[h] # "idle"
    PROVE  Table'
  <1>1. Stored' = Stored
    BY DEF Stored
  <1> QED
    BY <1>1, HandleFacts DEF Table, TypeOK, CountMatches, Stored, Limit

LEMMA TableStep == ASSUME Table, [Next]_vars PROVE Table'
  <1> USE DEF wire, reads, table, pair, http
  <1>0. /\ received \in 0 .. Limit /\ reader \in {"off", "top", "read", "done"}
        /\ req \in [ID -> {"idle", "wait", "ok", "failed"}] /\ MaxFrames \in Nat /\ MaxSent \in Nat
    BY MuxAssumption DEF Table, TypeOK, Limit
  <1>1. ASSUME NEW h \in Handle, NEW id \in ID, AddConnection(h, id) PROVE Table'
    <2>1. IsFiniteSet(Stored)' /\ IsFiniteSet(replaced)' /\ CountMatches'
      BY <1>1, CountAdds DEF AddConnection
    <2>2. /\ h \notin replaced /\ \A i \in ID : entry[i] # h
          /\ \A i, j \in ID : entry[i] # None /\ entry[i] = entry[j] => i = j
      BY <1>1, HandleFacts DEF AddConnection, Table, TypeOK
    <2>3. TypeOK'
      BY <1>1, <2>2, HandleFacts DEF AddConnection, Table, TypeOK
    <2>4. (\A g \in replaced : g \in Handle /\ local[g] # "idle" /\ \A i \in ID : entry[i] # g)'
      <3>1. ASSUME NEW g \in replaced'
            PROVE  g \in Handle /\ local'[g] # "idle" /\ \A i \in ID : entry'[i] # g
        <4>1. CASE g \in replaced
          BY <1>1, <2>2, <4>1 DEF AddConnection, Table, TypeOK
        <4>2. CASE g = entry[id] /\ g # None
          BY <1>1, <2>2, <4>2, HandleFacts DEF AddConnection, Table, TypeOK
        <4> QED
          BY <1>1, <3>1, <4>1, <4>2 DEF AddConnection
      <3> QED
        BY <3>1
    <2> QED
      BY <1>1, <2>1, <2>3, <2>4, HandleFacts DEF AddConnection, Table, TypeOK
  <1>2. ASSUME NEW h \in Handle, FwdTop(h) PROVE Table'
    BY <1>0, <1>2, TableMoves DEF FwdTop, Table, TypeOK
  <1>3. ASSUME NEW h \in Handle, FwdClosed(h) \/ FwdReset(h) PROVE Table'
    BY <1>0, <1>3, TableMoves DEF FwdClosed, FwdReset, Table, TypeOK
  <1>4. ASSUME NEW h \in Handle, NEW d \in Data, FwdData(h, d) PROVE Table'
    BY <1>0, <1>4, TableMoves DEF FwdData, Table, TypeOK
  <1>5. ASSUME NEW h \in Handle, NEW how \in {"eof", "reset"}, LocalEnds(h, how) PROVE Table'
    BY <1>0, <1>5, TableMoves DEF LocalEnds, Table, TypeOK
  \* The entry a forwarder leaves is gone from the map.
  <1>6. ASSUME NEW id \in ID, Forget(id), UNCHANGED <<use, replaced, owner, reader, req>>,
               received' \in 0 .. Limit,
               \/ UNCHANGED fwd
               \/ \E h \in Handle : fwd[h] = "end" /\ owner[h] = id /\ fwd' = [fwd EXCEPT ![h] = "done"]
        PROVE  Table'
    <2>1. CASE entry[id] = None
      <3>1. UNCHANGED <<entry, active, local>>
        BY <1>6, <2>1 DEF Forget
      <3>2. Stored' = Stored
        BY <3>1 DEF Stored
      <3>3. TypeOK'
        BY <1>6, <2>1, <3>1 DEF Table, TypeOK, Limit
      <3> QED
        BY <1>6, <3>1, <3>2, <3>3, HandleFacts DEF Table, TypeOK, CountMatches, Stored, Limit
    <2>2. CASE entry[id] # None
      <3>1. /\ entry' = [entry EXCEPT ![id] = None] /\ active' = active - 1
            /\ local' = [local EXCEPT ![entry[id]] = "closed"]
            /\ entry[id] \in Handle /\ owner[entry[id]] = id
            /\ local[entry[id]] # "idle" /\ fwd[entry[id]] \notin {"off", "done"}
        BY <1>6, <2>2, ForgetStored
      <3>2. IsFiniteSet(Stored)' /\ IsFiniteSet(replaced)' /\ CountMatches'
        BY <1>6, <2>2, <3>1, CountForgets
      <3>3. TypeOK'
        BY <1>6, <3>1 DEF Table, TypeOK, Limit
      <3> QED
        BY <1>6, <3>1, <3>2, <3>3, HandleFacts DEF Table, TypeOK
    <2> QED
      BY <2>1, <2>2
  <1>7. ASSUME NEW h \in Handle, FwdCleanup(h) PROVE Table'
    <2>1. owner[h] \in ID
      BY DEF Table, TypeOK
    <2> QED
      BY <1>0, <1>6, <1>7, <2>1 DEF FwdCleanup
  <1>8. ASSUME NEW id \in ID, RemoveConnection(id) PROVE Table'
    BY <1>0, <1>6, <1>8 DEF RemoveConnection
  <1>9. ASSUME NEW m \in Incoming, HandleIncoming(m) PROVE Table'
    <2> DEFINE d == TextDecode(TextEncode(m))
    <2>1. d.id = m.id /\ m.id \in ID
      BY IncomingSends, Arrives
    <2>2. received' \in 0 .. Limit /\ UNCHANGED <<use, replaced, owner, fwd, reader, req>>
      BY <1>0, <1>9 DEF HandleIncoming, Limit
    <2>3. Forget(d.id) \/ UNCHANGED <<entry, active, local>>
      BY <1>9 DEF HandleIncoming
    <2> HIDE DEF d
    <2>4. CASE Forget(d.id)
      BY <1>6, <2>1, <2>2, <2>4
    <2>5. CASE UNCHANGED <<entry, active, local>>
      BY <1>0, <2>2, <2>5, TableKept
    <2> QED
      BY <2>3, <2>4, <2>5
  <1>10. ASSUME NEW id \in ID, CloseVisit(id) PROVE Table'
    <2>1. CASE entry[id] = None
      BY <1>0, <1>10, <2>1, TableKept DEF CloseVisit
    <2>2. CASE entry[id] # None
      <3>1. entry[id] \in Handle /\ local[entry[id]] # "idle"
        BY <2>2, HandleFacts DEF Table, TypeOK
      <3>2. /\ UNCHANGED <<use, entry, replaced, active, owner, received, req, reader, fwd>>
            /\ local' = [local EXCEPT ![entry[id]] = "closed"]
        BY <1>10, <2>2 DEF CloseVisit
      <3> QED
        BY <1>0, <3>1, <3>2, TableMoves
    <2> QED
      BY <2>1, <2>2
  <1>11. ASSUME NEW n \in 1 .. InFlight(inbox), PairMessage(PairHandle, n) PROVE Table'
    <2>1. /\ UNCHANGED <<use, entry, replaced, active, owner, fwd, req, received>>
          /\ reader' \in {"off", "top", "read", "done"} /\ reader # "off"
      BY <1>0, <1>11 DEF PairMessage
    <2>2. local' = local \/ local' = [local EXCEPT ![PairHandle] = "closed"]
      BY <1>11 DEF PairMessage
    <2>3. CASE local' = local
      BY <1>0, <2>1, <2>3, TableKept
    <2>4. CASE local' = [local EXCEPT ![PairHandle] = "closed"] /\ local' # local
      <3>1. local[PairHandle] # "idle"
        BY <1>11, HandleFacts DEF PairMessage, Table
      <3> QED
        BY <1>0, <2>1, <2>4, <3>1, HandleFacts, TableMoves
    <2> QED
      BY <2>2, <2>3, <2>4
  <1>12. ASSUME NEW id \in ID, ResponseFails(id) \/ (\E d \in Data : ForwardHTTP(id, d))
                               \/ \E n \in 1 .. InFlight(inbox) : ReadResponse(id, n)
         PROVE  Table'
    <2>1. /\ UNCHANGED <<use, entry, replaced, active, owner, local, fwd, received, reader>>
          /\ \E to \in {"wait", "ok", "failed"} : req' = [req EXCEPT ![id] = to]
      BY <1>12 DEF ResponseFails, ForwardHTTP, ReadResponse
    <2>2. req' \in [ID -> {"idle", "wait", "ok", "failed"}]
      BY <1>0, <2>1
    <2> QED
      BY <1>0, <2>1, <2>2, TableKept
  <1>13. CASE CloseManager \/ MuxBreaks \/ UNCHANGED vars
    BY <1>0, <1>13, TableKept DEF CloseManager, MuxBreaks, vars
  <1>15. ASSUME NEW m \in Incoming, PeerSends(m) PROVE Table'
    <2>0. use # "manager" /\ received < MaxSent /\ received' = received + 1
      BY <1>15 DEF PeerSends
    <2>1. received' \in 0 .. Limit
      BY <1>0, <2>0, MuxAssumption DEF Limit
    <2> QED
      BY <1>0, <1>15, <2>1, TableKept DEF PeerSends
  <1>14. CASE Pair
    BY <1>0, <1>14, TableKept DEF Pair, PairReturns, PairTop, PairMuxFails
  <1> QED
    BY <1>1, <1>2, <1>3, <1>4, <1>5, <1>7, <1>8, <1>9, <1>10, <1>11, <1>12, <1>13, <1>14, <1>15
    DEF Next, Steps, Goroutine

-----------------------------------------------------------------------------
\* Why a connection was closed, and whether the peer was told

\* A handle once added keeps its ID, and a forwarder that has ended stays so.
LEMMA HandlesStay ==
    ASSUME Table, [Next]_vars, NEW h \in Handle, local[h] # "idle"
    PROVE  /\ owner'[h] = owner[h]
           /\ fwd[h] = "done" => fwd'[h] = "done"
           /\ fwd[h] = "end" => fwd'[h] \in {"end", "done"}
           /\ cancelled => cancelled'
           /\ mux' => mux
           /\ resets \subseteq resets' /\ why \subseteq why'
  <1> USE DEF Table, TypeOK, wire, reads, table, pair, http
  <1>1. ASSUME NEW g \in Handle, NEW id \in ID, AddConnection(g, id)
        PROVE  owner'[h] = owner[h] /\ fwd'[h] = fwd[h] /\ UNCHANGED <<cancelled, mux, resets, why>>
    BY <1>1 DEF AddConnection
  <1>2. ASSUME NEW g \in Handle, FwdTop(g) \/ FwdClosed(g) \/ FwdReset(g) \/ FwdCleanup(g)
                                 \/ \E d \in Data : FwdData(g, d)
        PROVE  /\ owner'[h] = owner[h] /\ UNCHANGED <<cancelled, mux, resets>>
               /\ fwd[h] = "done" => fwd'[h] = "done"
               /\ fwd[h] = "end" => fwd'[h] \in {"end", "done"} /\ why \subseteq why'
               /\ why \subseteq why'
    BY <1>2 DEF FwdTop, FwdClosed, FwdReset, FwdCleanup, FwdData
  <1>3. ASSUME NEW g \in Handle, NEW how \in {"eof", "reset"}, LocalEnds(g, how)
        PROVE  UNCHANGED <<owner, fwd, cancelled, mux, why>> /\ resets \subseteq resets'
    BY <1>3 DEF LocalEnds
  <1>4. ASSUME NEW id \in ID, RemoveConnection(id) \/ CloseVisit(id) \/ ResponseFails(id)
                              \/ (\E d \in Data : ForwardHTTP(id, d))
                              \/ \E n \in 1 .. InFlight(inbox) : ReadResponse(id, n)
        PROVE  UNCHANGED <<owner, fwd, cancelled, mux, resets>> /\ why \subseteq why'
    BY <1>4 DEF RemoveConnection, CloseVisit, ResponseFails, ForwardHTTP, ReadResponse
  <1>5. ASSUME NEW m \in Incoming, HandleIncoming(m) \/ PeerSends(m)
        PROVE  UNCHANGED <<owner, fwd, cancelled, mux, resets>> /\ why \subseteq why'
    BY <1>5 DEF HandleIncoming, PeerSends
  <1>7. ASSUME NEW n \in 1 .. InFlight(inbox), PairMessage(PairHandle, n)
        PROVE  UNCHANGED <<owner, fwd, cancelled, mux, resets, why>>
    BY <1>7 DEF PairMessage
  <1>6. CASE CloseManager \/ MuxBreaks \/ Pair \/ UNCHANGED vars
    BY <1>6 DEF CloseManager, MuxBreaks, Pair, PairReturns, PairTop, PairMuxFails, vars
  <1> QED
    BY <1>1, <1>2, <1>3, <1>4, <1>5, <1>6, <1>7 DEF Next, Steps, Goroutine

\* A forwarder ends for a reason: its handle is in why, and the peer has been
\* told unless the shared connection or the handle's own has failed.
LEMMA ForwarderEnds ==
    ASSUME Table, Tells, Frames, [Next]_vars, NEW h \in Handle, ~ Ended(h), Ended(h)'
    PROVE  /\ h \in why'
           /\ mux' /\ ~ cancelled' => \/ h \in resets'
                                      \/ \E i \in DOMAIN wrote' : wrote'[i].type = "CLOSE"
                                                                  /\ wrote'[i].id = owner'[h]
  <1> USE DEF Table, TypeOK, Ended, wire, reads, table, pair, http
  <1>1. ASSUME NEW g \in Handle, FwdTop(g) \/ FwdReset(g) \/ \E d \in Data : FwdData(g, d)
        PROVE  /\ h \in why' /\ (mux' /\ ~ cancelled' => h \in resets')
    <2>1. CASE FwdTop(g)
      BY <2>1 DEF FwdTop
    <2>2. CASE FwdReset(g)
      BY <2>2 DEF FwdReset, Tells
    <2>3. ASSUME NEW d \in Data, FwdData(g, d) PROVE h \in why' /\ ~ mux'
      BY <2>3 DEF FwdData
    <2> QED
      BY <1>1, <2>1, <2>2, <2>3
  <1>2. ASSUME NEW g \in Handle, FwdClosed(g)
        PROVE  /\ h \in why'
               /\ mux' => \E i \in DOMAIN wrote' : wrote'[i].type = "CLOSE" /\ wrote'[i].id = owner'[h]
    <2>1. g = h /\ h \in why' /\ owner' = owner /\ mux' = mux
      BY <1>2 DEF FwdClosed
    <2> DEFINE m == [type |-> "CLOSE", id |-> owner[h], data |-> <<>>]
    <2>2. mux => wrote' = Append(wrote, m)
      BY <1>2, <2>1 DEF FwdClosed, Write
    <2>3. m \in Sendable /\ wrote \in Seq(Sendable) /\ m.type = "CLOSE" /\ m.id = owner[h]
      BY Sends DEF Frames
    <2> HIDE DEF m
    <2>4. mux => Len(wrote) + 1 \in DOMAIN wrote' /\ wrote'[Len(wrote) + 1] = m
      BY <2>2, <2>3
    <2> QED
      BY <2>1, <2>3, <2>4
  <1>3. ASSUME NEW g \in Handle, FwdCleanup(g) PROVE FALSE
    BY <1>3 DEF FwdCleanup
  <1>4. ASSUME NEW g \in Handle, \/ \E id \in ID : AddConnection(g, id)
                                 \/ \E how \in {"eof", "reset"} : LocalEnds(g, how)
        PROVE  FALSE
    BY <1>4 DEF AddConnection, LocalEnds
  <1>5. ASSUME NEW id \in ID, RemoveConnection(id) \/ CloseVisit(id) \/ ResponseFails(id)
                              \/ (\E d \in Data : ForwardHTTP(id, d))
                              \/ \E n \in 1 .. InFlight(inbox) : ReadResponse(id, n)
        PROVE  FALSE
    BY <1>5 DEF RemoveConnection, CloseVisit, ResponseFails, ForwardHTTP, ReadResponse
  <1>6. ASSUME NEW m \in Incoming, HandleIncoming(m) \/ PeerSends(m) PROVE FALSE
    BY <1>6 DEF HandleIncoming, PeerSends
  <1>8. ASSUME NEW n \in 1 .. InFlight(inbox), PairMessage(PairHandle, n) PROVE FALSE
    BY <1>8 DEF PairMessage
  <1>7. CASE CloseManager \/ MuxBreaks \/ Pair \/ UNCHANGED vars
    BY <1>7 DEF CloseManager, MuxBreaks, Pair, PairReturns, PairTop, PairMuxFails, vars
  <1> QED
    BY <1>1, <1>2, <1>3, <1>4, <1>5, <1>6, <1>7, <1>8 DEF Next, Steps, Goroutine

\* What was written stays written.
LEMMA WroteStays ==
    ASSUME Table, Frames, [Next]_vars, NEW i \in DOMAIN wrote
    PROVE  i \in DOMAIN wrote' /\ wrote'[i] = wrote[i]
  <1>1. CASE UNCHANGED <<out, wrote>>
    BY <1>1
  <1>2. ASSUME NEW m \in Sendable, Write(m) PROVE i \in DOMAIN wrote' /\ wrote'[i] = wrote[i]
    <2>1. wrote' = Append(wrote, m) /\ wrote \in Seq(Sendable)
      BY <1>2 DEF Write, Frames
    <2> QED
      BY <2>1
  <1> QED
    BY <1>1, <1>2, WritesStep

LEMMA TellsStep == ASSUME Table, Tells, Frames, [Next]_vars PROVE Tells'
  <1>1. ASSUME NEW h \in Handle, local'[h] = "reset" PROVE h \in resets'
    <2>1. CASE local[h] = "reset"
      <3>1. local[h] # "idle" /\ h \in resets
        BY <2>1 DEF Tells
      <3> QED
        BY <3>1, HandlesStay
    <2>2. CASE local[h] # "reset"
      <3> USE DEF Table, TypeOK, wire, reads, table, pair, http
      <3>1. ASSUME NEW g \in Handle, NEW how \in {"eof", "reset"}, LocalEnds(g, how)
            PROVE  h \in resets'
        BY <1>1, <2>2, <3>1 DEF LocalEnds
      <3>2. ASSUME NEW g \in Handle, FwdCleanup(g) \/ \E id \in ID : AddConnection(g, id) PROVE FALSE
        BY <1>1, <2>2, <3>2, HandleFacts DEF FwdCleanup, Forget, AddConnection
      <3>3. ASSUME NEW g \in Handle, FwdTop(g) \/ FwdClosed(g) \/ FwdReset(g) \/ \E d \in Data : FwdData(g, d)
            PROVE  FALSE
        BY <1>1, <2>2, <3>3 DEF FwdTop, FwdClosed, FwdReset, FwdData
      <3>4. ASSUME NEW id \in ID, RemoveConnection(id) \/ CloseVisit(id) PROVE FALSE
        BY <1>1, <2>2, <3>4, HandleFacts DEF RemoveConnection, CloseVisit, Forget
      <3>5. ASSUME NEW id \in ID, ResponseFails(id) \/ (\E d \in Data : ForwardHTTP(id, d))
                                  \/ \E n \in 1 .. InFlight(inbox) : ReadResponse(id, n)
            PROVE  FALSE
        BY <1>1, <2>2, <3>5 DEF ResponseFails, ForwardHTTP, ReadResponse
      <3>6. ASSUME NEW m \in Incoming, HandleIncoming(m) PROVE FALSE
        <4> DEFINE d == TextDecode(TextEncode(m))
        <4>1. d.id = m.id /\ m.id \in ID
          BY IncomingSends, Arrives
        <4>2. Forget(d.id) \/ UNCHANGED local
          BY <3>6 DEF HandleIncoming
        <4> HIDE DEF d
        <4> QED
          BY <1>1, <2>2, <4>1, <4>2, HandleFacts DEF Forget
      <3>9. ASSUME NEW m \in Incoming, PeerSends(m) PROVE FALSE
        BY <1>1, <2>2, <3>9 DEF PeerSends
      <3>7. ASSUME NEW n \in 1 .. InFlight(inbox), PairMessage(PairHandle, n) PROVE FALSE
        <4>1. local' = local \/ local' = [local EXCEPT ![PairHandle] = "closed"]
          BY <3>7 DEF PairMessage
        <4> QED
          BY <1>1, <2>2, <4>1
      <3>8. CASE CloseManager \/ MuxBreaks \/ Pair \/ UNCHANGED vars
        BY <1>1, <2>2, <3>8 DEF CloseManager, MuxBreaks, Pair, PairReturns, PairTop, PairMuxFails, vars
      <3> QED
        BY <3>1, <3>2, <3>3, <3>4, <3>5, <3>6, <3>7, <3>8, <3>9 DEF Next, Steps, Goroutine
    <2> QED
      BY <2>1, <2>2
  <1>2. ASSUME NEW h \in Handle, Ended(h)', mux', ~ cancelled'
        PROVE  \/ h \in resets'
               \/ \E i \in DOMAIN wrote' : wrote'[i].type = "CLOSE" /\ wrote'[i].id = owner'[h]
    <2>1. CASE Ended(h)
      <3>1. local[h] # "idle"
        BY <2>1 DEF Ended, Table
      <3>2. mux /\ ~ cancelled /\ owner'[h] = owner[h] /\ resets \subseteq resets'
        BY <1>2, <3>1, HandlesStay
      <3>3. h \in resets \/ \E i \in DOMAIN wrote : wrote[i].type = "CLOSE" /\ wrote[i].id = owner[h]
        BY <2>1, <3>2 DEF Tells, SilentOnlyByReset
      <3> QED
        BY <3>2, <3>3, WroteStays
    <2>2. CASE ~ Ended(h)
      BY <1>2, <2>2, ForwarderEnds
    <2> QED
      BY <2>1, <2>2
  <1> QED
    BY <1>1, <1>2 DEF Tells, SilentOnlyByReset, Ended

LEMMA UseStays == ASSUME [Next]_vars PROVE use' = use
  BY DEF Next, Steps, Goroutine, Pair, FwdTop, FwdClosed, FwdReset, FwdCleanup, AddConnection, FwdData,
         LocalEnds, RemoveConnection, CloseVisit, ResponseFails, ForwardHTTP, ReadResponse,
         HandleIncoming, PeerSends, PairMessage, CloseManager, MuxBreaks, PairReturns, PairTop,
         PairMuxFails, vars

\* A connection of the manager that a step closes is in why, or the forwarder of an
\* earlier connection with its ID closes it and is done.
LEMMA ClosesForAReason ==
    ASSUME Table, Reasons, [Next]_vars, use = "manager", NEW h \in Handle,
           local[h] # "closed", local'[h] = "closed", h \notin why'
    PROVE  \E g \in Handle \ {h} : owner'[g] = owner'[h] /\ fwd'[g] = "done"
  <1> USE DEF Table, TypeOK, wire, reads, table, pair, http
  <1>1. ASSUME NEW g \in Handle, FwdCleanup(g)
        PROVE  owner'[g] = owner'[h] /\ fwd'[g] = "done" /\ g # h
    <2>1. Forget(owner[g]) /\ owner' = owner /\ fwd' = [fwd EXCEPT ![g] = "done"] /\ fwd[g] = "end"
      BY <1>1 DEF FwdCleanup
    <2>2. g \in why' /\ why' = why
      BY <1>1, <2>1 DEF FwdCleanup, Reasons, Ended
    <2>3. owner[g] \in ID /\ h = entry[owner[g]] /\ entry[owner[g]] # None
      BY <2>1, HandleFacts DEF Forget
    <2> QED
      BY <2>1, <2>2, <2>3
  <1>2. ASSUME NEW id \in ID, RemoveConnection(id) \/ CloseVisit(id) PROVE FALSE
    BY <1>2, HandleFacts DEF RemoveConnection, CloseVisit, Forget
  <1>3. ASSUME NEW m \in Incoming, HandleIncoming(m) PROVE FALSE
    <2> DEFINE d == TextDecode(TextEncode(m))
    <2>1. d.id = m.id /\ m.id \in ID
      BY IncomingSends, Arrives
    <2>2. \/ Forget(d.id) /\ why' = why \union ({entry[d.id]} \ {None})
          \/ UNCHANGED local
      BY <1>3 DEF HandleIncoming
    <2> HIDE DEF d
    <2> QED
      BY <2>1, <2>2, HandleFacts DEF Forget
  <1>4. ASSUME NEW n \in 1 .. InFlight(inbox), PairMessage(PairHandle, n) PROVE FALSE
    BY <1>4 DEF PairMessage
  <1>9. ASSUME NEW m \in Incoming, PeerSends(m) PROVE FALSE
    BY <1>9 DEF PeerSends
  <1>5. ASSUME NEW g \in Handle, FwdTop(g) \/ FwdClosed(g) \/ FwdReset(g) \/ \E d \in Data : FwdData(g, d)
        PROVE  FALSE
    BY <1>5 DEF FwdTop, FwdClosed, FwdReset, FwdData
  <1>6. ASSUME NEW g \in Handle, \/ \E id \in ID : AddConnection(g, id)
                                 \/ \E how \in {"eof", "reset"} : LocalEnds(g, how)
        PROVE  FALSE
    BY <1>6 DEF AddConnection, LocalEnds
  <1>7. ASSUME NEW id \in ID, ResponseFails(id) \/ (\E d \in Data : ForwardHTTP(id, d))
                              \/ \E n \in 1 .. InFlight(inbox) : ReadResponse(id, n)
        PROVE  FALSE
    BY <1>7 DEF ResponseFails, ForwardHTTP, ReadResponse
  <1>8. CASE CloseManager \/ MuxBreaks \/ Pair \/ UNCHANGED vars
    BY <1>8 DEF CloseManager, MuxBreaks, Pair, PairReturns, PairTop, PairMuxFails, vars
  <1> QED
    BY <1>1, <1>2, <1>3, <1>4, <1>5, <1>6, <1>7, <1>8, <1>9 DEF Next, Steps, Goroutine

LEMMA ReasonsStep == ASSUME Table, Reasons, Tells, Frames, [Next]_vars PROVE Reasons'
  <1>1. ASSUME NEW h \in Handle, Ended(h)' PROVE h \in why'
    <2>1. CASE Ended(h)
      <3>1. local[h] # "idle" /\ h \in why
        BY <2>1 DEF Ended, Table, Reasons
      <3> QED
        BY <3>1, HandlesStay
    <2>2. CASE ~ Ended(h)
      BY <1>1, <2>2, ForwarderEnds
    <2> QED
      BY <2>1, <2>2
  <1>2. ASSUME use' = "manager", NEW h \in Handle, local'[h] = "closed", h \notin why'
        PROVE  \E g \in Handle \ {h} : owner'[g] = owner'[h] /\ fwd'[g] = "done"
    <2>1. use = "manager"
      BY <1>2, UseStays
    <2>2. CASE local[h] = "closed"
      <3>1. owner'[h] = owner[h] /\ why \subseteq why'
        BY <2>2, HandlesStay
      <3>2. PICK g \in Handle \ {h} : owner[g] = owner[h] /\ fwd[g] = "done"
        BY <1>2, <2>1, <2>2, <3>1 DEF Reasons, ClosedForAReason
      <3>3. local[g] # "idle"
        BY <3>2 DEF Table
      <3> QED
        BY <3>1, <3>2, <3>3, HandlesStay
    <2>3. CASE local[h] # "closed"
      BY <1>2, <2>1, <2>3, ClosesForAReason
    <2> QED
      BY <2>2, <2>3
  <1> QED
    BY <1>1, <1>2 DEF Reasons, ClosedForAReason, Ended

-----------------------------------------------------------------------------
\* What one Read of the shared connection returns

LEMMA Encoded ==
    ASSUME NEW m \in Incoming
    PROVE  m \in TextMessage /\ TextEncode(m) \in Chunk /\ (m.type \in Sized => m.data # <<>>)
  <1>1. m \in TextMessage /\ m.id \in ID /\ m.type \in {"DATA", "RESPONSE", "NEWCONN", "CLOSE"}
    BY IncomingSends DEF Sendable
  <1>2. m.id \in Seq(Byte) /\ m.data \in Seq(Byte) /\ (m.type \in Sized => m.data # <<>>)
    <2>1. m.data \in Data \/ (m.data = <<>> /\ m.type = "CLOSE")
      BY DEF Incoming
    <2>2. m.id \in Seq(Byte) /\ <<>> \in Seq(Byte)
      BY <1>1, MuxAssumption
    <2>3. CASE m.data \in Data
      BY <2>2, <2>3, MuxAssumption
    <2>4. CASE m.data = <<>> /\ m.type = "CLOSE"
      BY <2>2, <2>4 DEF Sized
    <2> QED
      BY <2>1, <2>3, <2>4
  <1> DEFINE T == TextOf[m.type]
             C == <<Colon>>
             N == <<Newline>>
             w == writeInt[Len(m.data)]
  <1>3. T \in Seq(Byte) /\ C \in Chunk /\ N \in Chunk /\ C \in Seq(Byte) /\ N \in Seq(Byte)
    <2>1. /\ TextOf["DATA"] \in Seq(Byte) /\ TextOf["RESPONSE"] \in Seq(Byte)
          /\ TextOf["NEWCONN"] \in Seq(Byte) /\ TextOf["CLOSE"] \in Seq(Byte)
      BY DEF TextOf, Byte
    <2>2. T \in Seq(Byte)
      BY <1>1, <2>1
    <2>3. C \in Seq(Byte) /\ N \in Seq(Byte) /\ C # <<>> /\ N # <<>>
      BY DEF Byte, Colon, Newline
    <2> QED
      BY <2>2, <2>3 DEF Chunk
  <1>4. w \in Seq(Byte)
    <2>1. Len(m.data) \in Nat
      BY <1>2, BytesAreString
    <2> QED
      BY <2>1, DigitBytes
  <1>5. TextEncode(m) = (T \o C \o m.id \o Trailer(m)) \o N
    BY <1>1, TextShape
  <1>6. Trailer(m) \in Seq(Byte)
    <2> HIDE DEF C, w
    <2>1. C \o m.data \in Seq(Byte) /\ C \o w \in Seq(Byte)
      BY <1>2, <1>3, <1>4, BytesJoined
    <2>2. C \o w \o C \in Seq(Byte)
      BY <1>3, <2>1, BytesJoined
    <2>3. C \o w \o C \o m.data \in Seq(Byte)
      BY <1>2, <2>2, BytesJoined
    <2>4. Trailer(m) \in {C \o m.data, <<>>, C \o w \o C \o m.data}
      BY DEF Trailer, C, w
    <2>5. <<>> \in Seq(Byte)
      OBVIOUS
    <2> QED
      BY <2>1, <2>3, <2>4, <2>5
  <1> HIDE DEF T, C, N
  <1>7. T \o C \in Seq(Byte)
    BY <1>3, BytesJoined
  <1>8. T \o C \o m.id \in Seq(Byte)
    BY <1>2, <1>7, BytesJoined
  <1>9. T \o C \o m.id \o Trailer(m) \in Seq(Byte)
    BY <1>6, <1>8, BytesJoined
  <1> DEFINE h == T \o C \o m.id \o Trailer(m)
  <1>10. h \o N \in Seq(Byte) /\ h \o N # <<>>
    <2> HIDE DEF h
    <2>1. h \in Seq(Byte)
      BY <1>9 DEF h
    <2>2. N # <<>>
      BY DEF N
    <2> QED
      BY <1>3, <2>1, <2>2
  <1> QED
    BY <1>1, <1>2, <1>5, <1>10 DEF Chunk

\* Up to the first cut a Read begins with a frame the peer sent.  It is refused or has the
\* type of that frame and the beginning of its payload, and is that message when the Read
\* does not end inside a frame.
LEMMA FirstFrame ==
    ASSUME Arrivals, ~ cut, NEW n \in 1 .. InFlight(inbox)
    PROVE  LET t == Got(n)
           IN  /\ inbox # <<>> /\ t # Panic
               /\ \E m \in told :
                    /\ inbox[1] = TextEncode(m)
                    /\ t.res = "ok" => t.type = m.type
                    /\ t.res = "ok" /\ m.type \in Sized =>
                         IsPrefix(t.data, m.data) /\ (t.data = <<>> \/ t.id = m.id)
                    /\ t.res = "ok" /\ m.type = "CLOSE" =>
                         t.data = m.data /\ IsPrefix(t.data, m.data)
                    /\ ~ EndsInside(inbox, n) /\ m.type \in Sized =>
                         t.res = "ok" /\ t.id = m.id /\ t.data = m.data
  <1> DEFINE F == FlattenSeq(inbox)
             d == SubSeq(F, 1, n)
             t == Got(n)
  <1>1. inbox \in Pipe /\ told \subseteq Incoming
    BY DEF Arrivals
  <1>2. inbox # <<>>
    <2> SUFFICES ASSUME inbox = <<>> PROVE FALSE
      OBVIOUS
    <2>1. PICK f : Joins(f, inbox, Byte)
      BY <1>1, PipeFacts
    <2>2. Sizes(f, inbox)
      BY <1>1, <2>1, JoinSizes
    <2>3. Len(inbox) = 0
      OBVIOUS
    <2>4. F = f[0] /\ Len(f[0]) = 0
      BY <2>2, <2>3 DEF Sizes
    <2>5. InFlight(inbox) = 0
      BY <2>4 DEF InFlight
    <2> QED
      BY <2>5
  <1>3. /\ F \in String /\ Len(F) = InFlight(inbox) /\ InFlight(inbox) \in Nat
        /\ At(F, 0, inbox[1]) /\ Len(inbox[1]) <= InFlight(inbox)
    BY <1>1, <1>2, FirstWrite
  <1>4. 1 \in 1 .. Len(inbox) /\ inbox[1] \in Chunk
    BY <1>1, <1>2, PipeFacts
  <1>5. PICK m \in told : inbox[1] = TextEncode(m)
    BY <1>4 DEF Arrivals
  <1>6. m \in TextMessage /\ (m.type \in Sized => m.data # <<>>)
    BY <1>1, <1>5, Encoded
  <1> HIDE DEF F
  <1>7. d \in String /\ Len(d) = n /\ d # <<>> /\ \A i \in 1 .. n : d[i] = F[i]
    <2>1. n \in Nat /\ 1 <= n /\ n <= Len(F)
      BY <1>3
    <2>2. d \in Seq(Nat) /\ Len(d) = n /\ \A i \in 1 .. n : d[i] = F[i]
      BY <1>3, <2>1 DEF String
    <2> QED
      BY <2>1, <2>2 DEF String
  <1> HIDE DEF d
  <1>8. Reads(d, TextEncode(m), 0)
    <2> DEFINE e == TextEncode(m)
    <2>0. e = inbox[1] /\ e \in String
      BY <1>4, <1>5, WriteFacts
    <2> HIDE DEF e
    <2>1. Len(e) \in Nat /\ \A i \in 1 .. Len(e) : F[0 + i] = e[i]
      BY <1>3, <2>0, LenIsNat DEF At
    <2>2. ASSUME NEW i \in 1 .. Len(d), i + 0 <= Len(e) PROVE d[i] = e[i + 0]
      BY <1>7, <2>1, <2>2
    <2> QED
      BY <2>2 DEF Reads, e
  <1>9. t = TextDecode(d)
    BY DEF Got, F, d
  <1>10. /\ t = Err \/ (t.res = "ok" /\ t.type = m.type)
         /\ t.res = "ok" /\ m.type \in Sized =>
              IsPrefix(t.data, m.data) /\ (t.data = <<>> \/ t.id = m.id)
         /\ t.res = "ok" /\ m.type = "CLOSE" => t.data = <<>>
         /\ m.type \in Sized /\ Len(d) >= Len(TextEncode(m)) =>
              t.res = "ok" /\ t.id = m.id /\ t.data = m.data
    BY <1>6, <1>7, <1>8, <1>9, TextReads
  <1> HIDE DEF t
  <1>11. t # Panic
    <2>1. Err.res = "err" /\ Panic.res = "panic"
      BY DEF Err, Panic
    <2> QED
      BY <1>10, <2>1
  <1>12. ASSUME t.res = "ok", m.type = "CLOSE" PROVE t.data = m.data /\ IsPrefix(t.data, m.data)
    <2>1. m.data = <<>> /\ t.data = <<>>
      BY <1>6, <1>10, <1>12 DEF TextMessage
    <2>2. IsPrefix(<<>>, <<>>)
      BY EmptyString, PrefixIs
    <2> QED
      BY <2>1, <2>2
  <1>13. ASSUME ~ EndsInside(inbox, n), m.type \in Sized
         PROVE  t.res = "ok" /\ t.id = m.id /\ t.data = m.data
    <2>1. Len(inbox[1]) <= n
      BY <1>1, <1>2, <1>13, ReadsUnsplit
    <2>2. Len(d) >= Len(TextEncode(m))
      <3>1. Len(inbox[1]) \in Nat
        BY <1>4, WriteFacts
      <3> QED
        BY <1>5, <1>7, <2>1, <3>1
    <2> QED
      BY <1>10, <1>13, <2>2
  <1>14. t.res = "ok" => t.type = m.type
    <2>1. Err.res = "err"
      BY DEF Err
    <2> QED
      BY <1>10, <2>1
  <1> QED
    BY <1>2, <1>5, <1>10, <1>11, <1>12, <1>13, <1>14 DEF t

\* A Read keeps what is said of the frames in flight.
LEMMA ReadStep ==
    ASSUME Arrivals, NEW n \in 1 .. InFlight(inbox), Read(n, Got(n))
    PROVE  /\ told' = told /\ inbox' \in Pipe
           /\ cut' \in BOOLEAN /\ shifted' \in BOOLEAN /\ crashed' \in BOOLEAN
           /\ (cut => cut') /\ (shifted => shifted') /\ (cut => shifted')
           /\ (shifted' => cut') /\ (crashed' => shifted')
           /\ ~ cut' => ~ cut /\ ~ EndsInside(inbox, n)
           /\ ~ cut' => \A i \in 1 .. Len(inbox') : \E m \in told' : inbox'[i] = TextEncode(m)
  <1>1. /\ told' = told /\ inbox' = AfterRead(inbox, n)
        /\ cut' = (cut \/ EndsInside(inbox, n)) /\ shifted' = (shifted \/ cut)
        /\ crashed' = (Got(n) = Panic)
    BY DEF Read
  <1>2. /\ inbox \in Pipe /\ cut \in BOOLEAN /\ shifted \in BOOLEAN /\ (shifted => cut)
        /\ ~ cut => \A i \in 1 .. Len(inbox) : \E m \in told : inbox[i] = TextEncode(m)
    BY DEF Arrivals
  <1>3. inbox' \in Pipe
    <2>1. n \in Nat
      OBVIOUS
    <2> QED
      BY <1>1, <1>2, <2>1, AfterReadType
  <1>4. cut' \in BOOLEAN /\ shifted' \in BOOLEAN /\ crashed' \in BOOLEAN
    BY <1>1, <1>2, Zenon DEF EndsInside
  <1>5. /\ (cut => cut') /\ (shifted => shifted') /\ (cut => shifted') /\ (shifted' => cut')
        /\ ~ cut' => ~ cut /\ ~ EndsInside(inbox, n)
    BY <1>1, <1>2, Zenon
  <1>6. crashed' => shifted'
    <2>1. ASSUME crashed' PROVE cut
      <3>1. Got(n) = Panic
        BY <1>1, <2>1
      <3> QED
        BY <3>1, FirstFrame
    <2> QED
      BY <1>5, <2>1
  <1>7. ASSUME ~ cut', NEW i \in 1 .. Len(inbox') PROVE \E m \in told' : inbox'[i] = TextEncode(m)
    <2>1. ~ cut /\ ~ EndsInside(inbox, n)
      BY <1>5, <1>7
    <2>2. inbox # <<>>
      BY <2>1, FirstFrame
    <2>3. PICK k \in 1 .. Len(inbox) : Drops(inbox', inbox, k)
      BY <1>1, <1>2, <2>1, <2>2, ReadsUnsplit
    <2>4. inbox'[i] = inbox[k + i] /\ Len(inbox') = Len(inbox) - k
      BY <2>3 DEF Drops
    <2>5. Len(inbox) \in Nat
      BY <1>2, PipeFacts
    <2>6. k + i \in 1 .. Len(inbox)
      BY <2>4, <2>5
    <2> QED
      BY <1>1, <1>2, <2>1, <2>4, <2>6
  <1> QED
    BY <1>1, <1>3, <1>4, <1>5, <1>6, <1>7

LEMMA ArrivalsStep == ASSUME Table, Arrivals, [Next]_vars PROVE Arrivals'
  <1> USE DEF wire, reads, table, pair, http
  <1>1. ASSUME UNCHANGED <<inbox, told, cut, shifted, crashed, took>> PROVE Arrivals'
    BY <1>1 DEF Arrivals, PairCopies
  <1>2. ASSUME NEW h \in Handle, \/ FwdTop(h) \/ FwdClosed(h) \/ FwdReset(h) \/ FwdCleanup(h)
                                 \/ \E id \in ID : AddConnection(h, id)
                                 \/ \E d \in Data : FwdData(h, d)
                                 \/ \E how \in {"eof", "reset"} : LocalEnds(h, how)
        PROVE  UNCHANGED <<inbox, told, cut, shifted, crashed, took>>
    BY <1>2 DEF FwdTop, FwdClosed, FwdReset, FwdCleanup, AddConnection, FwdData, LocalEnds
  <1>3. ASSUME NEW id \in ID, RemoveConnection(id) \/ CloseVisit(id) \/ ResponseFails(id)
                              \/ \E d \in Data : ForwardHTTP(id, d)
        PROVE  UNCHANGED <<inbox, told, cut, shifted, crashed, took>>
    BY <1>3 DEF RemoveConnection, CloseVisit, ResponseFails, ForwardHTTP
  <1>4. ASSUME NEW m \in Incoming, HandleIncoming(m)
        PROVE  UNCHANGED <<inbox, told, cut, shifted, crashed, took>>
    BY <1>4 DEF HandleIncoming
  <1>5. CASE CloseManager \/ MuxBreaks \/ Pair \/ UNCHANGED vars
    BY <1>1, <1>5 DEF CloseManager, MuxBreaks, Pair, PairReturns, PairTop, PairMuxFails, vars
  <1>6. ASSUME NEW m \in Incoming, PeerSends(m) PROVE Arrivals'
    <2>1. /\ inbox' = Append(inbox, TextEncode(m)) /\ told' = told \union {m}
          /\ UNCHANGED <<cut, shifted, crashed, took>>
      BY <1>6 DEF PeerSends
    <2>2. inbox \in Pipe /\ TextEncode(m) \in Chunk
      BY Encoded DEF Arrivals
    <2>3. inbox' \in Pipe
      BY <2>1, <2>2, Appended
    <2>4. ASSUME ~ cut, NEW i \in 1 .. Len(inbox') PROVE \E u \in told' : inbox'[i] = TextEncode(u)
      <3>1. /\ Len(inbox') = Len(inbox) + 1 /\ Len(inbox) \in Nat
            /\ \A j \in 1 .. Len(inbox) : inbox'[j] = inbox[j]
            /\ inbox'[Len(inbox) + 1] = TextEncode(m)
        BY <2>1, <2>2, PipeAppend
      <3>2. CASE i \in 1 .. Len(inbox)
        BY <2>1, <2>4, <3>1, <3>2 DEF Arrivals
      <3>3. CASE i = Len(inbox) + 1
        BY <2>1, <3>1, <3>3
      <3> QED
        BY <3>1, <3>2, <3>3
    <2>5. PairCopies'
      BY <2>1 DEF Arrivals, PairCopies
    <2> QED
      BY <2>1, <2>3, <2>4, <2>5 DEF Arrivals
  <1>7. ASSUME NEW id \in ID, NEW n \in 1 .. InFlight(inbox), ReadResponse(id, n) PROVE Arrivals'
    <2>1. Read(n, Got(n)) /\ took' = took
      BY <1>7 DEF ReadResponse
    <2>2. told' = told /\ (cut => cut') /\ (shifted => shifted')
      BY <2>1, ReadStep
    <2>3. PairCopies'
      BY <2>1, <2>2 DEF Arrivals, PairCopies
    <2>4. told' \subseteq Incoming
      BY <2>2 DEF Arrivals
    <2> QED
      BY <2>1, <2>3, <2>4, ReadStep DEF Arrivals
  <1>8. ASSUME NEW n \in 1 .. InFlight(inbox), PairMessage(PairHandle, n) PROVE Arrivals'
    <2> DEFINE t == Got(n)
    <2>1. /\ Read(n, Got(n))
          /\ \/ took' = {}
             \/ /\ took' = {[type |-> t.type, data |-> t.data]} /\ t.res = "ok"
                /\ t.type \in {"DATA", "RESPONSE", "CLOSE"}
      BY <1>8 DEF PairMessage
    <2>2. /\ told' = told /\ (cut => cut') /\ (shifted => shifted') /\ (cut => shifted')
          /\ ~ cut' => ~ cut /\ ~ EndsInside(inbox, n)
      BY <2>1, ReadStep
    <2>3. ASSUME NEW f \in took'
          PROVE  /\ ~ cut' => \E m \in told' : m.type = f.type /\ m.data = f.data
                 /\ ~ shifted' => \E m \in told' : m.type = f.type /\ IsPrefix(f.data, m.data)
      <3>1. /\ f = [type |-> t.type, data |-> t.data] /\ t.res = "ok"
            /\ t.type \in {"DATA", "RESPONSE", "CLOSE"}
        BY <2>1, <2>3
      <3> HIDE DEF t
      <3>2. f.type = t.type /\ f.data = t.data
        BY <3>1
      <3>3. ASSUME ~ cut
            PROVE  \E m \in told : /\ m.type = t.type /\ IsPrefix(t.data, m.data)
                                   /\ ~ EndsInside(inbox, n) => t.data = m.data
        <4>1. PICK m \in told :
                  /\ t.res = "ok" => t.type = m.type
                  /\ t.res = "ok" /\ m.type \in Sized => IsPrefix(t.data, m.data)
                  /\ t.res = "ok" /\ m.type = "CLOSE" =>
                       t.data = m.data /\ IsPrefix(t.data, m.data)
                  /\ ~ EndsInside(inbox, n) /\ m.type \in Sized => t.data = m.data
          BY <3>3, FirstFrame DEF t
        <4>2. m.type = t.type /\ (m.type \in Sized \/ m.type = "CLOSE")
          BY <3>1, <4>1 DEF Sized
        <4> QED
          BY <3>1, <4>1, <4>2
      <3> QED
        BY <2>2, <3>2, <3>3
    <2>4. PairCopies'
      BY <2>3 DEF PairCopies
    <2>5. told' \subseteq Incoming
      BY <2>2 DEF Arrivals
    <2> QED
      BY <2>1, <2>4, <2>5, ReadStep DEF Arrivals
  <1> QED
    BY <1>1, <1>2, <1>3, <1>4, <1>5, <1>6, <1>7, <1>8 DEF Next, Steps, Goroutine

-----------------------------------------------------------------------------
\* Requests

\* More may be said and more may be cut.
LEMMA ResponsesKept ==
    ASSUME OwnResponse, UNCHANGED <<req, result>>, told \subseteq told', mux' => mux,
           cut => cut', shifted => shifted', late => late'
    PROVE  OwnResponse'
  BY DEF OwnResponse

LEMMA RequestsStep == ASSUME Table, Arrivals, Requests, [Next]_vars PROVE Requests'
  <1> USE DEF wire, reads, table, pair, http
  <1>0. req \in [ID -> {"idle", "wait", "ok", "failed"}]
    BY DEF Table, TypeOK
  <1>1. ASSUME UNCHANGED <<use, req, result, pending, late, inbox, told, cut, shifted>>, mux' => mux
        PROVE  Requests'
    BY <1>1, ResponsesKept DEF Requests, Answer
  <1>2. ASSUME NEW h \in Handle, \/ FwdTop(h) \/ FwdClosed(h) \/ FwdReset(h) \/ FwdCleanup(h)
                                 \/ \E id \in ID : AddConnection(h, id)
                                 \/ \E d \in Data : FwdData(h, d)
                                 \/ \E how \in {"eof", "reset"} : LocalEnds(h, how)
        PROVE  UNCHANGED <<use, req, result, pending, late, inbox, told, cut, shifted, mux>>
    BY <1>2 DEF FwdTop, FwdClosed, FwdReset, FwdCleanup, AddConnection, FwdData, LocalEnds
  <1>3. ASSUME NEW id \in ID, RemoveConnection(id) \/ CloseVisit(id)
        PROVE  UNCHANGED <<use, req, result, pending, late, inbox, told, cut, shifted, mux>>
    BY <1>3 DEF RemoveConnection, CloseVisit
  <1>4. ASSUME NEW m \in Incoming, HandleIncoming(m)
        PROVE  UNCHANGED <<use, req, result, pending, late, inbox, told, cut, shifted, mux>>
    BY <1>4 DEF HandleIncoming
  <1>5. CASE CloseManager \/ MuxBreaks \/ Pair \/ UNCHANGED vars
    BY <1>1, <1>5 DEF CloseManager, MuxBreaks, Pair, PairReturns, PairTop, PairMuxFails, vars
  <1>6. ASSUME NEW id \in ID, NEW d \in Data, ForwardHTTP(id, d) PROVE Requests'
    <2>1. /\ req' = [req EXCEPT ![id] = IF mux THEN "wait" ELSE "failed"]
          /\ pending' = IF mux THEN pending \union {id} ELSE pending
          /\ late' = (late \/ \E r \in ID : req[r] = "wait")
          /\ UNCHANGED <<use, result, mux, inbox, told, cut, shifted>> /\ use = "http"
      BY <1>6 DEF ForwardHTTP
    <2>2. late' \in BOOLEAN /\ (late => late')
      BY <2>1, Zenon DEF Requests
    <2>3. ASSUME ~ late' PROVE ~ late /\ \A r \in ID : req[r] # "wait"
      BY <2>1, <2>3
    <2>4. ASSUME ~ late', ~ cut'
          PROVE  /\ \A q, r \in ID : req'[q] = "wait" /\ req'[r] = "wait" => q = r
                 /\ \A r \in pending' : req'[r] = "wait" /\ inbox' = <<>>
                 /\ inbox' = <<>>
      <3>1. pending = {} /\ inbox = <<>>
        BY <2>1, <2>3, <2>4 DEF Requests
      <3> QED
        BY <1>0, <2>1, <2>3, <2>4, <3>1
    <2>5. OwnResponse'
      <3>1. \A r \in ID : req'[r] = "failed" /\ mux => req[r] = "failed"
        BY <1>0, <2>1
      <3> QED
        BY <2>1, <2>2, <3>1 DEF Requests, OwnResponse
    <2>6. pending' \subseteq ID /\ result' = [i \in ID |-> result'[i]] /\ use' = "http"
      BY <2>1 DEF Requests
    <2> QED
      BY <2>2, <2>4, <2>5, <2>6 DEF Requests
  <1>7. ASSUME NEW id \in ID, NEW n \in 1 .. InFlight(inbox), ReadResponse(id, n) PROVE Requests'
    <2> DEFINE t == Got(n)
               own == t.res = "ok" /\ t.type = "RESPONSE" /\ t.id = id
    <2>1. /\ req[id] = "wait" /\ Read(n, Got(n))
          /\ req' = [req EXCEPT ![id] = IF own THEN "ok" ELSE "failed"]
          /\ result' = [result EXCEPT ![id] = IF own THEN t.data ELSE @]
          /\ UNCHANGED <<use, pending, late, mux>>
      BY <1>7 DEF ReadResponse
    <2>2. /\ told' = told /\ (cut => cut') /\ (shifted => shifted') /\ (cut => shifted')
          /\ (~ cut' => ~ cut /\ ~ EndsInside(inbox, n))
      BY <2>1, ReadStep
    <2>3. inbox' = AfterRead(inbox, n) /\ use = "http" /\ use' = "http" /\ late \in BOOLEAN
      BY <2>1 DEF Read, Requests
    <2>4. result = [i \in ID |-> result[i]] /\ OwnResponse /\ pending \subseteq ID
      BY DEF Requests
    <2> HIDE DEF t, own
    \* What it returns.
    <2>5. ASSUME own, ~ cut
          PROVE  /\ t.data = <<>> \/ \E m \in told : /\ m.type = "RESPONSE" /\ m.id = id
                                                     /\ IsPrefix(t.data, m.data)
                 /\ ~ cut' => \E m \in told : m.type = "RESPONSE" /\ m.id = id /\ m.data = t.data
      <3>1. PICK m \in told :
               /\ t.res = "ok" => t.type = m.type
               /\ t.res = "ok" /\ m.type \in Sized =>
                    IsPrefix(t.data, m.data) /\ (t.data = <<>> \/ t.id = m.id)
               /\ ~ EndsInside(inbox, n) /\ m.type \in Sized =>
                    t.res = "ok" /\ t.id = m.id /\ t.data = m.data
        BY <2>5, FirstFrame DEF t
      <3>2. m.type = "RESPONSE" /\ m.type \in Sized /\ t.res = "ok" /\ t.id = id
        BY <2>5, <3>1 DEF own, Sized
      <3> QED
        BY <2>2, <3>1, <3>2
    \* Its own response is in flight, alone.
    <2>6. ASSUME ~ late, ~ cut' PROVE own /\ inbox' = <<>> /\ pending = {}
      <3>1. ~ cut /\ ~ EndsInside(inbox, n) /\ inbox # <<>>
        BY <2>2, <2>6, FirstFrame
      <3>2. PICK r \in ID : req[r] = "wait" /\ Answer(r)
        BY <2>3, <2>6, <3>1 DEF Requests
      <3>3. r = id /\ pending = {}
        BY <2>1, <2>3, <2>6, <3>1, <3>2 DEF Requests
      <3>4. PICK a \in told : a.type = "RESPONSE" /\ a.id = id /\ inbox = <<TextEncode(a)>>
        BY <3>2, <3>3 DEF Answer
      <3>5. a \in Incoming /\ TextEncode(a) \in Chunk /\ a \in TextMessage
        BY <3>4, Encoded DEF Arrivals
      <3> DEFINE e == TextEncode(a)
      <3>6. /\ inbox = <<e>> /\ e \in Chunk /\ inbox[1] = e
            /\ inbox \in Pipe /\ InFlight(inbox) = Len(e) /\ AfterRead(inbox, Len(e)) = <<>>
            /\ Len(e) \in Nat
        BY <3>4, <3>5, OneWrite, WriteFacts
      <3>7. PICK m \in told :
               /\ inbox[1] = TextEncode(m)
               /\ t.res = "ok" => t.type = m.type
               /\ ~ EndsInside(inbox, n) /\ m.type \in Sized =>
                    t.res = "ok" /\ t.id = m.id /\ t.data = m.data
        BY <3>1, FirstFrame DEF t
      <3>8. m.type = "RESPONSE" /\ m.id = id
        <4>1. m \in TextMessage /\ TextEncode(m) = TextEncode(a)
          BY <3>4, <3>6, <3>7, Encoded DEF Arrivals
        <4>2. m \in Message /\ a \in Message
          BY <3>5, <4>1 DEF TextMessage
        <4>3. Ok(m) = Ok(a)
          BY <3>5, <4>1, TextRoundTrip
        <4>4. /\ Ok(m).type = m.type /\ Ok(m).id = m.id /\ Ok(a).type = a.type /\ Ok(a).id = a.id
          BY <4>2, OkFields
        <4> QED
          BY <3>4, <4>3, <4>4
      <3>9. own
        BY <3>1, <3>7, <3>8 DEF own, Sized
      <3> HIDE DEF e
      <3>10. Len(inbox[1]) <= n
        BY <3>1, <3>6, ReadsUnsplit
      <3>11. n = Len(e)
        BY <3>6, <3>10
      <3> QED
        BY <2>3, <3>3, <3>6, <3>9, <3>11
    <2>7. OwnResponse'
      <3>1. ASSUME NEW r \in ID
            PROVE  LET mine == {m \in told : m.type = "RESPONSE" /\ m.id = r}
                   IN  /\ result'[r] # None /\ ~ cut' => \E m \in mine : m.data = result'[r]
                       /\ result'[r] # None /\ ~ shifted' =>
                            result'[r] = <<>> \/ \E m \in mine : IsPrefix(result'[r], m.data)
                       /\ req'[r] = "failed" /\ mux => late \/ cut'
        <4>1. CASE r # id
          <5>1. req'[r] = req[r] /\ result'[r] = result[r]
            BY <1>0, <2>1, <2>4, <4>1
          <5> QED
            BY <2>2, <2>4, <5>1 DEF OwnResponse
        <4>2. CASE r = id /\ own
          <5>1. req'[r] = "ok" /\ result'[r] = t.data
            BY <1>0, <2>1, <2>4, <4>2
          <5>2. ~ cut' => ~ cut
            BY <2>2
          <5>3. ~ shifted' => ~ cut
            BY <2>2
          <5> QED
            BY <2>5, <4>2, <5>1, <5>2, <5>3
        <4>3. CASE r = id /\ ~ own
          <5>1. result'[r] = result[r]
            BY <2>1, <2>4, <4>3
          <5>2. late \/ cut'
            BY <2>6, <4>3
          <5> QED
            BY <2>2, <2>4, <5>1, <5>2 DEF OwnResponse
        <4> QED
          BY <4>1, <4>2, <4>3
      <3> QED
        BY <2>1, <2>2, <3>1 DEF OwnResponse
    <2>8. ASSUME ~ late', ~ cut'
          PROVE  /\ \A q, r \in ID : req'[q] = "wait" /\ req'[r] = "wait" => q = r
                 /\ \A r \in pending' : req'[r] = "wait" /\ inbox' = <<>>
                 /\ inbox' = <<>>
      <3>1. ~ late /\ inbox' = <<>> /\ pending' = {} /\ ~ cut
        BY <2>1, <2>2, <2>6, <2>8
      <3>2. \A q, r \in ID : req[q] = "wait" /\ req[r] = "wait" => q = r
        BY <2>3, <3>1 DEF Requests
      <3> QED
        BY <1>0, <2>1, <3>1, <3>2
    <2>9. result' = [i \in ID |-> result'[i]]
      BY <2>1, <2>4
    <2> QED
      BY <2>1, <2>3, <2>4, <2>7, <2>8, <2>9 DEF Requests
  <1>8. ASSUME NEW id \in ID, ResponseFails(id) PROVE Requests'
    BY <1>0, <1>8 DEF ResponseFails, Requests, OwnResponse
  <1>9. ASSUME NEW n \in 1 .. InFlight(inbox), PairMessage(PairHandle, n) PROVE Requests'
    <2>1. Read(n, Got(n)) /\ UNCHANGED <<use, req, result, pending, late, mux>> /\ use = "pair"
      BY <1>9 DEF PairMessage, Table
    <2>2. told' = told /\ (cut => cut') /\ (shifted => shifted')
      BY <2>1, ReadStep
    <2>3. OwnResponse'
      BY <2>1, <2>2, ResponsesKept DEF Requests
    <2> QED
      BY <2>1, <2>3 DEF Requests
  <1>10. ASSUME NEW m \in Incoming, PeerSends(m) PROVE Requests'
    <2>1. /\ inbox' = Append(inbox, TextEncode(m)) /\ told' = told \union {m} /\ pending' = pending \ {m.id}
          /\ UNCHANGED <<use, req, result, late, mux, cut, shifted>>
          /\ use = "http" => m.type = "RESPONSE" /\ m.id \in pending
      BY <1>10 DEF PeerSends
    <2>2. OwnResponse'
      BY <2>1, ResponsesKept DEF Requests
    <2>3. ASSUME use = "http", ~ late, ~ cut
          PROVE  /\ \A q, r \in ID : req[q] = "wait" /\ req[r] = "wait" => q = r
                 /\ pending' = {} /\ \E r \in ID : req[r] = "wait" /\ Answer(r)'
      <3>1. /\ inbox = <<>> /\ req[m.id] = "wait" /\ m.id \in ID
            /\ \A q, r \in ID : req[q] = "wait" /\ req[r] = "wait" => q = r
            /\ \A r \in pending : r \in ID /\ req[r] = "wait"
        BY <2>1, <2>3 DEF Requests
      <3>2. pending' = {}
        BY <2>1, <3>1
      <3>3. inbox' = <<TextEncode(m)>>
        <4>1. inbox \in Pipe /\ TextEncode(m) \in Chunk
          BY Encoded DEF Arrivals
        <4> QED
          BY <2>1, <3>1, <4>1, Appended
      <3>4. Answer(m.id)'
        BY <2>1, <2>3, <3>3 DEF Answer
      <3> QED
        BY <3>1, <3>2, <3>4
    <2>4. pending' \subseteq ID
      BY <2>1 DEF Requests
    <2> QED
      BY <2>1, <2>2, <2>3, <2>4 DEF Requests
  <1> QED
    BY <1>1, <1>2, <1>3, <1>4, <1>5, <1>6, <1>7, <1>8, <1>9, <1>10 DEF Next, Steps, Goroutine

-----------------------------------------------------------------------------
\* The invariant

LEMMA InvInit == ASSUME Init PROVE IInv
  <1> USE HandleFacts DEF Init
  <1>1. (CHOOSE id \in ID : TRUE) \in ID
    BY MuxAssumption
  <1>2. TypeOK
    BY <1>1, MuxAssumption DEF TypeOK
  <1>3. Stored = {}
    BY DEF Stored
  <1>4. Table
    <2>1. /\ IsFiniteSet(Stored) /\ Cardinality(Stored) = 0
          /\ IsFiniteSet(replaced) /\ Cardinality(replaced) = 0
      BY <1>3, FS_EmptySet
    <2>2. CountMatches
      BY <2>1 DEF CountMatches, Stored
    <2> QED
      BY <1>2, <2>1, <2>2 DEF Table
  <1>5. Reasons /\ Tells
    BY DEF Reasons, Tells, ClosedForAReason, SilentOnlyByReset, Ended
  <1>6. Frames
    BY DEF Frames
  <1>7. Requests
    BY DEF Requests, OwnResponse
  <1>8. Arrivals
    <2>1. inbox \in Pipe
      BY DEF Pipe
    <2> QED
      <3>1. told \subseteq Incoming /\ PairCopies /\ Len(inbox) = 0
        BY DEF PairCopies
      <3>2. cut = FALSE /\ shifted = FALSE /\ crashed = FALSE
        OBVIOUS
      <3>3. /\ cut \in BOOLEAN /\ shifted \in BOOLEAN /\ crashed \in BOOLEAN
            /\ (shifted => cut) /\ (crashed => shifted)
        BY <3>2, Zenon
      <3>4. \A i \in 1 .. Len(inbox) : \E m \in told : inbox[i] = TextEncode(m)
        BY <3>1
      <3> QED
        BY <2>1, <3>1, <3>3, <3>4, Zenon DEF Arrivals
  <1> QED
    BY <1>4, <1>5, <1>6, <1>7, <1>8 DEF IInv

\* The invariant that the theorems below rest on, preserved by every step of the
\* manager, the pair and the HTTP forwarder (mux.go:520-1005).
THEOREM InductiveInvariant == Spec => []IInv
  <1>1. Init => IInv
    BY InvInit
  <1>2. IInv /\ [Next]_vars => IInv'
    BY TableStep, ReasonsStep, TellsStep, FramesStep, ArrivalsStep, RequestsStep DEF IInv
  <1> QED
    BY <1>1, <1>2, PTL DEF Spec

\* activeConns counts the map and the connections stored over, whoever removes what, a
\* connection is closed for a reason of its own or by an earlier user of its ID, and the
\* peer is told of every end but a reset (mux.go:828-927), for any number of connections
\* and IDs, in use or not when they are added.
THEOREM TableIsKept == Spec => []MuxTable
  <1>1. IInv => MuxTable
    BY DEF IInv, Table, Reasons, Tells, MuxTable
  <1> QED
    BY <1>1, InductiveInvariant, PTL

\* Every frame written decodes to its message in both formats, and a binary frame cut
\* anywhere is refused (mux.go:213, 492), whatever the payloads.
THEOREM FramesAreExact == Spec => []FramesExact
  <1>1. IInv => FramesExact
    BY FramesImplied DEF IInv
  <1> QED
    BY <1>1, InductiveInvariant, PTL

\* Wherever the Reads of the shared connection end, a request returns the response to it
\* and a pair hands over what the peer said as long as no frame is cut, the beginning of
\* it in the Read that cuts the first frame, and Decode panics only after that
\* (mux.go:527-534, 733-763, 963-1005).
THEOREM ReadsAreExact == Spec => []MuxReads
  <1>1. IInv => MuxReads
    BY DEF IInv, Arrivals, Requests, MuxReads
  <1> QED
    BY <1>1, InductiveInvariant, PTL

=============================================================================
