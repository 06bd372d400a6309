---------------------------- MODULE ForwardProofs ----------------------------
(****************************************************************************)
(* Theorems about the components that copy bytes between two connections.   *)
(* Pipes, for any finite set of handlers of any kinds: who has which buffer of *)
(* the pool, and what is in it.  ProtoTunnel, for any set of handlers of any *)
(* modes and any limit of descriptors: who has which descriptor, and which  *)
(* goroutines may move the bytes of a connection that is not theirs.          *)
(****************************************************************************)
EXTENDS Pipes, ProtoTunnel, FiniteSetTheorems, TLAPS

-----------------------------------------------------------------------------
(* Pipes *)

\* The types TypeOK leaves out.
Shape ==
    /\ kind \in [Pipe -> Kinds] /\ ctx \in [Pipe -> BOOLEAN]
    /\ content \in [Buffer -> (Pipe \X Dir) \union {Nil}]
    /\ ext \in [Pipe -> {"new", "serving", "closed", "refused"}] /\ active \in Nat
    /\ conn \in Pipe \union {Nil} /\ uses \in [Pipe -> Pipe \union {Nil}]

\* A handler that has not started copying has neither buffers nor goroutines, has
\* counted nothing and dialled nothing.
Before(p) ==
    /\ pc[p] \in {"conn", "accept", "start", "load", "dial", "open"} =>
         \A d \in Dir : buf[p][d] = Nil /\ go[p][d] = "off"
    /\ pc[p] = "conn" => ext[p] = "new"
    /\ pc[p] \in {"load", "dial"} => uses[p] = Nil /\ conn # p

\* A goroutine runs only while its handler copies, or for an HTTP/3 handler that
\* has given its buffer back; the directions of the other handlers have a buffer
\* each.
Copying(p) ==
    /\ pc[p] \in {"copy", "put"} => \A d \in Dir : buf[p][d] # Nil
    /\ pc[p] = "put" => kind[p] = "http3"
    /\ \A d \in Dir : Running(p, d) => pc[p] = "copy" \/ Early(p)
    /\ kind[p] \notin OneBuffer /\ buf[p]["ab"] # Nil => buf[p]["ab"] # buf[p]["ba"]
    /\ \A d \in Dir : buf[p][d] # Nil => buf[p][d] \in 1 .. made

\* The buffers of a handler that copies are not in the pool, and its alone.
Owned ==
    \A p \in Pipe : pc[p] = "copy" => \A d \in Dir :
        /\ buf[p][d] \notin free
        /\ \A q \in Pipe \ {p} : pc[q] = "copy" => \A c \in Dir : buf[q][c] # buf[p][d]

\* No buffer is lost: it is in the pool, with a handler that copies, or was made
\* for a handler without a pool.
Kept(b) ==
    b \in free \/ \E p \in Pipe, d \in Dir :
                    buf[p][d] = b /\ (pc[p] = "copy" \/ kind[p] = "nilpool")
Accounted == \A b \in 1 .. made : Kept(b)

\* Every handler that has begun to copy has had two buffers made at most.
Begun == {p \in Pipe : buf[p]["ab"] # Nil}
MadeFew == made <= 2 * Cardinality(Begun)

\* While nobody has given a buffer back early, a direction that has read and not yet
\* written finds its bytes in its buffer.
Intact ==
    (\A q \in Pipe : ~ Early(q)) =>
        \A p \in Pipe, d \in Dir :
            kind[p] \notin OneBuffer /\ go[p][d] = "write" => content[buf[p][d]] = <<p, d>>

IInv ==
    /\ TypeOK /\ Shape /\ \A p \in Pipe : Before(p) /\ Copying(p)
    /\ Owned /\ Accounted /\ MadeFew
    /\ Intact /\ MixedOnlyByOneBuffer /\ ServedStaysCounted

-----------------------------------------------------------------------------
\* A set of natural numbers that is not empty has a minimum.
LEMMA MinIsMember == ASSUME NEW S \in SUBSET Nat, S # {} PROVE Min(S) \in S
  <1> DEFINE R == {ss \in Nat \X Nat : ss[1] < ss[2]}
  <1>1. IsWellFoundedOn(R, Nat)
    BY NatLessThanWellFounded DEF OpToRel
  <1>2. \A x, y \in S : <<y, x>> \in R <=> y < x
    OBVIOUS
  <1> HIDE DEF R
  <1>3. \E x \in S : \A y \in S : ~ (<<y, x>> \in R)
    BY <1>1, WFMin
  <1>4. \E x \in S : \A y \in S : x <= y
    <2>1. PICK x \in S : \A y \in S : ~ (<<y, x>> \in R)
      BY <1>3
    <2>2. \A y \in S : ~ (y < x)
      BY <1>2, <2>1
    <2>3. \A y \in S : x <= y
      BY <2>2
    <2> QED
      BY <2>3
  <1> QED
    BY <1>4 DEF Min

\* Get hands out a buffer of the pool, or the next one to be made.
LEMMA GetFacts ==
    ASSUME NEW S \in SUBSET Nat
    PROVE  IF S = {} THEN Get(S) = made + 1 ELSE Get(S) \in S
  BY MinIsMember DEF Get

\* The two calls of Get, one after the other: the buffers of a handler that starts
\* are its own, and the pool makes exactly those it did not have.
LEMMA StartFacts ==
    ASSUME TypeOK, NEW p \in Pipe, Start(p)
    PROVE  \E x, y \in free \union {made + 1, made + 2} :
             /\ buf' = [buf EXCEPT ![p] = [d \in Dir |-> IF d = "ab" THEN x ELSE y]]
             /\ kind[p] \notin OneBuffer => x # y
             /\ free' = free \ {x, y}
             /\ made' \in made .. made + 2
             /\ 1 .. made' = (1 .. made) \union {x, y}
  <1> DEFINE x == Get(free)
             y == IF kind[p] \in OneBuffer THEN x
                  ELSE IF x \in free THEN Get(free \ {x}) ELSE made + 2
  <1>1. made \in Nat /\ free \in SUBSET (1 .. made) /\ free \in SUBSET Nat
    BY DEF TypeOK
  <1>2. x \in free \/ x = made + 1
    BY <1>1, GetFacts
  <1>3. \A f : f \in free => f \in Nat /\ 1 <= f /\ f <= made
    BY <1>1
  <1>4. /\ buf' = [buf EXCEPT ![p] = [d \in Dir |-> IF d = "ab" THEN x ELSE y]]
        /\ free' = free \ {x, y}
        /\ made' = made + Cardinality({x, y} \ (1 .. made))
    BY DEF Start
  <1>5. \/ x \in free /\ y \in free
        \/ x \in free /\ y = made + 1
        \/ x = made + 1 /\ y = made + 1
        \/ x = made + 1 /\ y = made + 2
    <2>1. CASE kind[p] \in OneBuffer
      BY <1>2, <2>1
    <2>2. CASE kind[p] \notin OneBuffer /\ x \in free
      <3>1. free \ {x} \in SUBSET Nat
        BY <1>1
      <3>2. Get(free \ {x}) = made + 1 \/ Get(free \ {x}) \in free \ {x}
        BY <3>1, GetFacts
      <3> QED
        BY <2>2, <3>2
    <2>3. CASE kind[p] \notin OneBuffer /\ x \notin free
      BY <1>2, <2>3
    <2> QED
      BY <2>1, <2>2, <2>3
  <1>6. kind[p] \notin OneBuffer => x # y
    <2>1. CASE kind[p] \notin OneBuffer /\ x \in free
      <3>1. free \ {x} \in SUBSET Nat
        BY <1>1
      <3>2. Get(free \ {x}) = made + 1 \/ Get(free \ {x}) \in free \ {x}
        BY <3>1, GetFacts
      <3>3. y = Get(free \ {x})
        BY <2>1
      <3>4. x \in Nat /\ x <= made
        BY <1>3, <2>1
      <3> QED
        BY <1>1, <3>2, <3>3, <3>4
    <2>2. CASE kind[p] \notin OneBuffer /\ x \notin free
      BY <1>1, <1>2, <2>2
    <2> QED
      BY <2>1, <2>2
  <1> HIDE DEF x, y
  <1>7. /\ made' \in made .. made + 2
        /\ 1 .. made' = (1 .. made) \union {x, y}
    <2>1. CASE x \in free /\ y \in free
      <3>1. {x, y} \ (1 .. made) = {}
        BY <1>1, <2>1
      <3>2. made' = made
        BY <1>1, <1>4, <3>1, FS_EmptySet
      <3> QED
        BY <1>1, <2>1, <3>2
    <2>2. CASE (x \in free \/ x = made + 1) /\ y = made + 1
      <3>0. x \in Nat /\ (x \in 1 .. made \/ x = made + 1)
        BY <1>1, <1>3, <2>2
      <3>1. {x, y} \ (1 .. made) = {made + 1}
        BY <1>1, <2>2, <3>0
      <3>2. made' = made + 1
        BY <1>1, <1>4, <3>1, FS_Singleton
      <3>3. 1 .. made + 1 = (1 .. made) \union {made + 1}
        BY <1>1
      <3> QED
        BY <1>1, <2>2, <3>0, <3>2, <3>3
    <2>3. CASE x = made + 1 /\ y = made + 2
      <3>1. {x, y} \ (1 .. made) = {made + 1} \union {made + 2}
        BY <1>1, <2>3
      <3>2. IsFiniteSet({made + 1}) /\ Cardinality({made + 1}) = 1
        BY FS_Singleton
      <3>3. made + 2 \notin {made + 1}
        BY <1>1
      <3>4. Cardinality({made + 1} \union {made + 2}) = 2
        BY <3>2, <3>3, FS_AddElement
      <3>5. made' = made + 2
        BY <1>4, <3>1, <3>4
      <3>6. 1 .. made + 2 = (1 .. made) \union {made + 1, made + 2}
        BY <1>1
      <3> QED
        BY <1>1, <2>3, <3>5, <3>6
    <2> QED
      BY <1>5, <2>1, <2>2, <2>3
  <1>8. x \in free \union {made + 1, made + 2} /\ y \in free \union {made + 1, made + 2}
    BY <1>5
  <1> QED
    BY <1>4, <1>6, <1>7, <1>8

-----------------------------------------------------------------------------
\* The steps a handler takes before it copies, and those that end a stream or a
\* connection, or stop everything.
Prelude(p) ==
    \/ NotifyFails(p) \/ Notify(p) \/ AcceptStream(p) \/ ServingEnds(p)
    \/ GiveUp(p) \/ Load(p) \/ Dial(p) \/ OpenFails(p)

Outside ==
    \/ \E p \in Pipe :
         \/ LocalConnEnds(p) \/ CloseOnDone(p)
         \/ \E e \in End, how \in {"fin", "dead"} : PeerEnds(p, e, how)
    \/ Stop \/ Disconnect \/ UNCHANGED vars

Copies(p, d) ==
    ReadData(p, d) \/ WriteData(p, d) \/ ReadFails(p, d) \/ WriteFails(p, d)

LEMMA StepKinds ==
    ASSUME [Next]_vars
    PROVE  \/ Outside
           \/ \E p \in Pipe :
                Prelude(p) \/ Start(p) \/ Return(p) \/ CloseStreams(p)
                \/ \E d \in Dir : Copies(p, d)
  BY DEF Next, Handler, Outside, Prelude, Copies

NotYet == {"conn", "accept", "start", "load", "dial", "open"}

LEMMA PreludeFacts ==
    ASSUME TypeOK, NEW p \in Pipe, Prelude(p)
    PROVE  /\ UNCHANGED <<kind, go, buf, ctx, pool>>
           /\ \E s \in NotYet \union {"done", pc[p]} : pc' = [pc EXCEPT ![p] = s]
           /\ pc'[p] # pc[p] => pc[p] \in NotYet /\ pc'[p] \in NotYet \union {"done"}
  <1> USE DEF TypeOK, NotYet, pipes
  <1>1. CASE NotifyFails(p)
    BY <1>1 DEF NotifyFails
  <1>2. CASE Notify(p)
    BY <1>2 DEF Notify
  <1>3. CASE AcceptStream(p)
    BY <1>3 DEF AcceptStream
  <1>4. CASE ServingEnds(p)
    BY <1>4 DEF ServingEnds
  <1>5. CASE GiveUp(p)
    BY <1>5 DEF GiveUp
  <1>6. CASE Load(p)
    BY <1>6 DEF Load
  <1>7. CASE Dial(p)
    BY <1>7 DEF Dial
  <1>8. CASE OpenFails(p)
    BY <1>8 DEF OpenFails
  <1> QED
    BY <1>1, <1>2, <1>3, <1>4, <1>5, <1>6, <1>7, <1>8 DEF Prelude

LEMMA OutsideFacts ==
    ASSUME Outside
    PROVE  UNCHANGED <<kind, pc, go, buf, ctx, pool, ext, active, conn, uses>>
  BY DEF Outside, LocalConnEnds, CloseOnDone, PeerEnds, Stop, Disconnect, vars, pipes, outer, dialling

\* A goroutine changes its own state and content only, and runs before the step.
LEMMA CopiesFacts ==
    ASSUME TypeOK, NEW p \in Pipe, NEW d \in Dir, Copies(p, d)
    PROVE  /\ UNCHANGED <<kind, pc, buf, free, made, ext, active, conn, uses>>
           /\ Running(p, d)
           /\ \E s \in {"read", "write", "end"} : go' = [go EXCEPT ![p][d] = s]
  <1> USE DEF TypeOK, outer, dialling, pool, Running, Leave
  <1>1. CASE ReadData(p, d)
    BY <1>1 DEF ReadData
  <1>2. CASE WriteData(p, d)
    BY <1>2 DEF WriteData
  <1>3. CASE ReadFails(p, d)
    BY <1>3 DEF ReadFails
  <1>4. CASE WriteFails(p, d)
    BY <1>4 DEF WriteFails
  <1> QED
    BY <1>1, <1>2, <1>3, <1>4 DEF Copies

-----------------------------------------------------------------------------
\* A handler starts to copy once, so that it has two buffers made at most.
LEMMA MadeFewStep ==
    ASSUME IInv, [Next]_vars
    PROVE  MadeFew' /\ made' \in Nat /\ made' <= MaxBuffers
  <1>1. made \in Nat /\ IsFiniteSet(Pipe) /\ TypeOK
    BY PipesAssumption DEF IInv, TypeOK
  <1>2. /\ IsFiniteSet(Begun) /\ Cardinality(Begun) \in Nat
        /\ Cardinality(Pipe) \in Nat
    <2>1. Begun \in SUBSET Pipe
      BY DEF Begun
    <2> QED
      BY <1>1, <2>1, FS_Subset, FS_CardinalityType
  <1>3. ASSUME MadeFew', IsFiniteSet(Begun'), made' \in Nat PROVE made' <= MaxBuffers
    <2>1. Begun' \in SUBSET Pipe
      BY DEF Begun
    <2>2. Cardinality(Begun') <= Cardinality(Pipe) /\ Cardinality(Begun') \in Nat
      BY <1>1, <2>1, FS_Subset, FS_CardinalityType
    <2> QED
      BY <1>2, <1>3, <2>2 DEF MadeFew, MaxBuffers
  <1>4. CASE UNCHANGED <<buf, made>>
    <2>1. Begun' = Begun
      BY <1>4 DEF Begun
    <2> QED
      BY <1>1, <1>2, <1>3, <1>4, <2>1 DEF IInv, MadeFew
  <1>5. ASSUME NEW p \in Pipe, Start(p) PROVE MadeFew' /\ made' \in Nat /\ made' <= MaxBuffers
    <2>1. PICK x, y \in free \union {made + 1, made + 2} :
             /\ buf' = [buf EXCEPT ![p] = [d \in Dir |-> IF d = "ab" THEN x ELSE y]]
             /\ made' \in made .. made + 2
      BY <1>1, <1>5, StartFacts
    <2>2. x \in Nat
      BY <1>1, <2>1 DEF TypeOK
    <2>3. p \notin Begun
      BY <1>5 DEF Start, IInv, Before, Begun, Dir
    <2>4. buf'[p]["ab"] = x /\ \A q \in Pipe \ {p} : buf'[q] = buf[q]
      BY <1>1, <2>1 DEF TypeOK, Dir
    <2>5. Begun' = Begun \union {p}
      BY <2>2, <2>4, PipesAssumption DEF Begun
    <2>6. Cardinality(Begun') = Cardinality(Begun) + 1 /\ IsFiniteSet(Begun')
      BY <1>2, <2>3, <2>5, FS_AddElement
    <2>7. MadeFew' /\ made' \in Nat
      BY <1>1, <1>2, <2>1, <2>6 DEF IInv, MadeFew
    <2> QED
      BY <1>3, <2>6, <2>7
  <1>6. ASSUME NEW p \in Pipe, Prelude(p) PROVE UNCHANGED <<buf, made>>
    BY <1>1, <1>6, PreludeFacts DEF pool
  <1>7. ASSUME NEW p \in Pipe, Return(p) \/ CloseStreams(p) PROVE UNCHANGED <<buf, made>>
    BY <1>7 DEF Return, CloseStreams, pipes, pool
  <1>8. ASSUME NEW p \in Pipe, NEW d \in Dir, Copies(p, d) PROVE UNCHANGED <<buf, made>>
    BY <1>1, <1>8, CopiesFacts
  <1>9. CASE Outside
    BY <1>4, <1>9, OutsideFacts DEF pool
  <1> QED
    BY <1>4, <1>5, <1>6, <1>7, <1>8, <1>9, StepKinds

\* Types are preserved: no more buffers are made than Buffer has.
LEMMA TypeStep == IInv /\ [Next]_vars => TypeOK' /\ Shape'
  <1> SUFFICES ASSUME IInv, [Next]_vars PROVE TypeOK' /\ Shape'
    OBVIOUS
  <1>1. TypeOK /\ Shape
    BY DEF IInv
  <1>2. made' \in Nat /\ made' <= MaxBuffers
    BY MadeFewStep
  <1> USE DEF TypeOK, Shape
  <1>3. CASE Outside
    <2>1. UNCHANGED <<kind, pc, go, buf, ctx, pool, ext, active, conn, uses>>
      BY <1>3, OutsideFacts
    <2>2. end' \in [Pipe -> [End -> {"open", "fin", "dead"}]] /\ live' \subseteq Pipe
      <3>1. CASE Stop \/ UNCHANGED vars
        BY <1>1, <3>1 DEF Stop, vars, pipes, dialling
      <3>2. CASE Disconnect
        BY <1>1, <3>2 DEF Disconnect, dialling, End
      <3>3. ASSUME NEW p \in Pipe, LocalConnEnds(p) \/ CloseOnDone(p)
            PROVE  end' \in [Pipe -> [End -> {"open", "fin", "dead"}]] /\ live' \subseteq Pipe
        <4>1. end' = Severed(p) /\ live' = live \ {p}
          BY <3>3 DEF LocalConnEnds, CloseOnDone
        <4>2. Severed(p) \in [Pipe -> [End -> {"open", "fin", "dead"}]]
          BY <1>1 DEF Severed, End
        <4> QED
          BY <1>1, <4>1, <4>2
      <3>4. ASSUME NEW p \in Pipe, NEW e \in End, NEW how \in {"fin", "dead"}, PeerEnds(p, e, how)
            PROVE  end' \in [Pipe -> [End -> {"open", "fin", "dead"}]] /\ live' \subseteq Pipe
        BY <1>1, <3>4 DEF PeerEnds, dialling
      <3> QED
        BY <1>3, <3>1, <3>2, <3>3, <3>4 DEF Outside
    <2> QED
      BY <1>1, <2>1, <2>2 DEF pool
  <1>4. ASSUME NEW p \in Pipe, Prelude(p) PROVE TypeOK' /\ Shape'
    <2>1. PICK s \in NotYet \union {"done", pc[p]} : pc' = [pc EXCEPT ![p] = s]
      BY <1>1, <1>4, PreludeFacts
    <2>2. UNCHANGED <<kind, go, buf, ctx, pool>>
      BY <1>1, <1>4, PreludeFacts
    <2>3. pc' \in [Pipe -> {"conn", "accept", "start", "load", "dial", "open", "copy", "put", "done"}]
      BY <1>1, <2>1 DEF NotYet
    <2>4. end' \in [Pipe -> [End -> {"open", "fin", "dead"}]] /\ live' \subseteq Pipe
      <3>1. CASE ServingEnds(p)
        BY <1>1, <3>1 DEF ServingEnds, dialling, End
      <3>2. CASE ~ ServingEnds(p)
        <4>1. end' = end
          BY <1>4, <3>2 DEF Prelude, NotifyFails, Notify, AcceptStream, GiveUp, Load,
                            Dial, OpenFails, pipes
        <4>2. live' = live \/ live' = live \union {p}
          BY <1>4, <3>2 DEF Prelude, NotifyFails, Notify, AcceptStream, GiveUp, Load,
                            Dial, OpenFails, dialling
        <4> QED
          BY <1>1, <4>1, <4>2
      <3> QED
        BY <3>1, <3>2
    <2>5. ext' \in [Pipe -> {"new", "serving", "closed", "refused"}] /\ active' \in Nat
      <3>1. ext' = ext \/ \E s1 \in {"refused", "serving", "closed"} : ext' = [ext EXCEPT ![p] = s1]
        BY <1>4 DEF Prelude, NotifyFails, Notify, AcceptStream, ServingEnds, GiveUp, Load,
                    Dial, OpenFails, outer
      <3>2. active' = active \/ active' = active + 1
        BY <1>4 DEF Prelude, NotifyFails, Notify, AcceptStream, ServingEnds, GiveUp, Load,
                    Dial, OpenFails, outer
      <3>3. ext' \in [Pipe -> {"new", "serving", "closed", "refused"}]
        BY <1>1, <3>1
      <3> QED
        BY <1>1, <3>2, <3>3
    <2>6. conn' \in Pipe \union {Nil} /\ uses' \in [Pipe -> Pipe \union {Nil}]
      BY <1>1, <1>4 DEF Prelude, NotifyFails, Notify, AcceptStream, ServingEnds, GiveUp, Load,
                        Dial, OpenFails, dialling
    <2> QED
      BY <1>1, <2>2, <2>3, <2>4, <2>5, <2>6 DEF pool
  <1>5. ASSUME NEW p \in Pipe, Start(p) PROVE TypeOK' /\ Shape'
    <2>1. PICK x, y \in free \union {made + 1, made + 2} :
             /\ buf' = [buf EXCEPT ![p] = [d \in Dir |-> IF d = "ab" THEN x ELSE y]]
             /\ free' = free \ {x, y}
             /\ made' \in made .. made + 2
             /\ 1 .. made' = (1 .. made) \union {x, y}
      BY <1>1, <1>5, StartFacts
    <2>2. x \in Buffer /\ y \in Buffer
      <3>1. x \in 1 .. made' /\ y \in 1 .. made' /\ MaxBuffers \in Nat
        BY <2>1, PipesAssumption, FS_CardinalityType DEF MaxBuffers
      <3> QED
        BY <1>2, <3>1 DEF Buffer
    <2>3. buf' \in [Pipe -> [Dir -> Buffer \union {Nil}]]
      BY <1>1, <2>1, <2>2
    <2>4. free' \subseteq 1 .. made' /\ made' \in 0 .. MaxBuffers
      <3>1. MaxBuffers \in Nat
        BY PipesAssumption, FS_CardinalityType DEF MaxBuffers
      <3> QED
        BY <1>1, <1>2, <2>1, <3>1
    <2>5. go' \in [Pipe -> [Dir -> {"off", "read", "write", "end"}]]
          /\ pc' = [pc EXCEPT ![p] = "copy"]
          /\ UNCHANGED <<kind, end, ctx, content, wrong, outer, dialling>>
      BY <1>1, <1>5 DEF Start, FirstLook
    <2> QED
      BY <1>1, <2>3, <2>4, <2>5 DEF outer, dialling
  <1>6. ASSUME NEW p \in Pipe, Return(p) PROVE TypeOK' /\ Shape'
    <2>1. ASSUME NEW d \in Dir PROVE buf[p][d] \in 1 .. made
      BY <1>1, <1>6 DEF Return, IInv, Copying
    <2>2. free' \subseteq 1 .. made
      BY <1>1, <1>6, <2>1 DEF Return
    <2>3. pc' \in [Pipe -> {"copy", "put", "done"} \union NotYet]
      BY <1>1, <1>6 DEF Return, NotYet
    <2>4. UNCHANGED <<kind, pipes, made, content, wrong, outer, dialling>>
      BY <1>6 DEF Return
    <2> QED
      BY <1>1, <2>2, <2>3, <2>4 DEF NotYet, pipes, outer, dialling
  <1>7. ASSUME NEW p \in Pipe, CloseStreams(p) PROVE TypeOK' /\ Shape'
    <2>1. ctx' \in [Pipe -> BOOLEAN]
      BY <1>1, <1>7 DEF CloseStreams
    <2> QED
      BY <1>1, <1>7, <2>1 DEF CloseStreams, pool, outer, dialling
  <1>8. ASSUME NEW p \in Pipe, NEW d \in Dir, Copies(p, d) PROVE TypeOK' /\ Shape'
    <2>1. UNCHANGED <<kind, pc, buf, free, made, ext, active, conn, uses>>
          /\ go' \in [Pipe -> [Dir -> {"off", "read", "write", "end"}]]
      <3>1. PICK s \in {"read", "write", "end"} : go' = [go EXCEPT ![p][d] = s]
        BY <1>1, <1>8, CopiesFacts
      <3> QED
        BY <1>1, <1>8, <3>1, CopiesFacts
    <2>2. ctx' \in [Pipe -> BOOLEAN]
      BY <1>1, <1>8 DEF Copies, ReadData, WriteData, ReadFails, WriteFails, Leave
    <2>3. content' \in [Buffer -> (Pipe \X Dir) \union {Nil}] /\ wrong' \subseteq Pipe
      <3>1. CASE ReadData(p, d)
        BY <1>1, <3>1 DEF ReadData
      <3>2. CASE WriteData(p, d)
        BY <1>1, <3>2 DEF WriteData
      <3>3. CASE ReadFails(p, d) \/ WriteFails(p, d)
        BY <1>1, <3>3 DEF ReadFails, WriteFails, pool
      <3> QED
        BY <1>8, <3>1, <3>2, <3>3 DEF Copies
    <2>4. end' = end /\ live' = live
      BY <1>8 DEF Copies, ReadData, WriteData, ReadFails, WriteFails, dialling
    <2> QED
      BY <1>1, <2>1, <2>2, <2>3, <2>4
  <1> QED
    BY <1>3, <1>4, <1>5, <1>6, <1>7, <1>8, StepKinds

\* A handler goes through its phases in order.
LEMMA BeforeStep ==
    ASSUME IInv, [Next]_vars, NEW q \in Pipe
    PROVE  Before(q)'
  <1>1. TypeOK /\ Shape /\ Before(q)
    BY DEF IInv
  <1>2. CASE Outside
    BY <1>1, <1>2, OutsideFacts DEF Before
  <1>3. ASSUME NEW p \in Pipe, Prelude(p) PROVE Before(q)'
    <2>1. UNCHANGED <<go, buf>>
      BY <1>1, <1>3, PreludeFacts
    <2> USE DEF TypeOK, Shape, Before
    <2>2. CASE NotifyFails(p)
      BY <1>1, <2>1, <2>2 DEF NotifyFails, dialling
    <2>3. CASE Notify(p)
      BY <1>1, <2>1, <2>3 DEF Notify, dialling
    <2>4. CASE AcceptStream(p)
      BY <1>1, <2>1, <2>4 DEF AcceptStream, outer, dialling
    <2>5. CASE ServingEnds(p)
      BY <1>1, <2>1, <2>5 DEF ServingEnds, dialling
    <2>6. CASE GiveUp(p)
      BY <1>1, <2>1, <2>6 DEF GiveUp, outer, dialling
    <2>7. CASE Load(p)
      BY <1>1, <2>1, <2>7, PipesAssumption DEF Load, outer
    <2>8. CASE Dial(p)
      BY <1>1, <2>1, <2>8 DEF Dial
    <2>9. CASE OpenFails(p)
      BY <1>1, <2>1, <2>9 DEF OpenFails, outer, dialling
    <2> QED
      BY <1>3, <2>2, <2>3, <2>4, <2>5, <2>6, <2>7, <2>8, <2>9 DEF Prelude
  <1>4. ASSUME NEW p \in Pipe, Start(p) PROVE Before(q)'
    BY <1>1, <1>4 DEF Start, TypeOK, Before, outer, dialling
  <1>5. ASSUME NEW p \in Pipe, Return(p) PROVE Before(q)'
    BY <1>1, <1>5 DEF Return, TypeOK, Before, pipes, outer, dialling
  <1>6. ASSUME NEW p \in Pipe, CloseStreams(p) PROVE Before(q)'
    BY <1>1, <1>6 DEF CloseStreams, TypeOK, Before, outer, dialling
  <1>7. ASSUME NEW p \in Pipe, NEW d \in Dir, Copies(p, d) PROVE Before(q)'
    <2>1. PICK s \in {"read", "write", "end"} : go' = [go EXCEPT ![p][d] = s]
      BY <1>1, <1>7, CopiesFacts
    <2>2. Running(p, d) /\ UNCHANGED <<pc, buf, ext, conn, uses>>
      BY <1>1, <1>7, CopiesFacts
    <2> QED
      BY <1>1, <2>1, <2>2 DEF TypeOK, Before, Running
  <1> QED
    BY <1>2, <1>3, <1>4, <1>5, <1>6, <1>7, StepKinds

\* Nothing Copying speaks of changes for a handler that does not act.
LEMMA CopyingFrame ==
    ASSUME IInv, NEW q \in Pipe, made' \in Nat, made <= made',
           kind' = kind, pc'[q] = pc[q], buf'[q] = buf[q], go'[q] = go[q]
    PROVE  Copying(q)'
  <1>1. made \in Nat /\ Copying(q)
    BY DEF IInv, TypeOK
  <1> QED
    BY <1>1 DEF Copying, Running, Early

LEMMA CopyingStep ==
    ASSUME IInv, [Next]_vars, NEW q \in Pipe
    PROVE  Copying(q)'
  <1>1. TypeOK /\ Shape /\ Copying(q) /\ Before(q) /\ made \in Nat
    BY DEF IInv, TypeOK
  <1>2. CASE Outside
    BY <1>1, <1>2, OutsideFacts, CopyingFrame DEF pool
  <1>3. ASSUME NEW p \in Pipe, Prelude(p) PROVE Copying(q)'
    <2>1. UNCHANGED <<kind, go, buf, made>>
      BY <1>1, <1>3, PreludeFacts DEF pool
    <2>2. p # q => pc'[q] = pc[q]
      BY <1>1, <1>3, PreludeFacts DEF TypeOK
    <2>3. p = q => pc'[q] = pc[q] \/ (pc[q] \in NotYet /\ pc'[q] \in NotYet \union {"done"})
      BY <1>1, <1>3, PreludeFacts
    <2>4. CASE pc'[q] = pc[q]
      BY <1>1, <2>1, <2>4, CopyingFrame
    <2>5. CASE pc[q] \in NotYet /\ pc'[q] \in NotYet \union {"done"}
      BY <1>1, <2>1, <2>5, PipesAssumption DEF Before, Copying, Running, NotYet, Dir
    <2> QED
      BY <2>2, <2>3, <2>4, <2>5
  <1>4. ASSUME NEW p \in Pipe, Start(p) PROVE Copying(q)'
    <2>1. PICK x, y \in free \union {made + 1, made + 2} :
             /\ buf' = [buf EXCEPT ![p] = [d \in Dir |-> IF d = "ab" THEN x ELSE y]]
             /\ kind[p] \notin OneBuffer => x # y
             /\ made' \in made .. made + 2
             /\ 1 .. made' = (1 .. made) \union {x, y}
      BY <1>1, <1>4, StartFacts
    <2>2. kind' = kind /\ pc' = [pc EXCEPT ![p] = "copy"]
          /\ go' = [go EXCEPT ![p] = [d \in Dir |-> FirstLook(p)]]
      BY <1>4 DEF Start
    <2>3. CASE p # q
      <3>1. pc'[q] = pc[q] /\ buf'[q] = buf[q] /\ go'[q] = go[q]
        BY <1>1, <2>1, <2>2, <2>3 DEF TypeOK
      <3> QED
        BY <1>1, <2>1, <2>2, <3>1, CopyingFrame
    <2>4. CASE p = q
      <3>1. pc'[q] = "copy" /\ buf'[q]["ab"] = x /\ buf'[q]["ba"] = y
        BY <1>1, <2>1, <2>2, <2>4 DEF TypeOK, Dir
      <3>2. x \in 1 .. made' /\ y \in 1 .. made' /\ x # Nil /\ y # Nil
        <4>1. x \in 1 .. made' /\ y \in 1 .. made'
          BY <2>1
        <4>2. x \in Nat /\ y \in Nat
          BY <4>1
        <4> QED
          BY <4>1, <4>2, PipesAssumption
      <3> QED
        BY <2>1, <2>2, <2>4, <3>1, <3>2 DEF Copying, Running, Dir
    <2> QED
      BY <2>3, <2>4
  <1>5. ASSUME NEW p \in Pipe, Return(p) PROVE Copying(q)'
    <2>1. UNCHANGED <<kind, go, buf, made>>
      BY <1>5 DEF Return, pipes
    <2>2. pc[p] = "copy" /\ pc' = [pc EXCEPT ![p] = IF kind[p] = "http3" THEN "put" ELSE "done"]
      BY <1>5 DEF Return
    <2>3. CASE p # q
      <3>1. pc'[q] = pc[q]
        BY <1>1, <2>2, <2>3 DEF TypeOK
      <3> QED
        BY <1>1, <2>1, <3>1, CopyingFrame
    <2>4. CASE p = q /\ kind[q] = "http3"
      BY <1>1, <2>1, <2>2, <2>4 DEF TypeOK, Copying, Running, Early, Dir
    <2>5. CASE p = q /\ kind[q] # "http3"
      <3>1. \A d \in Dir : go[q][d] = "end"
        BY <1>5, <2>5 DEF Return, Ready
      <3> QED
        BY <1>1, <2>1, <2>2, <2>5, <3>1 DEF TypeOK, Copying, Running, Dir
    <2> QED
      BY <2>3, <2>4, <2>5
  <1>6. ASSUME NEW p \in Pipe, CloseStreams(p) PROVE Copying(q)'
    <2>1. UNCHANGED <<kind, go, buf, made>> /\ pc[p] = "put" /\ pc' = [pc EXCEPT ![p] = "done"]
      BY <1>6 DEF CloseStreams, pool
    <2>2. CASE p # q
      <3>1. pc'[q] = pc[q]
        BY <1>1, <2>1, <2>2 DEF TypeOK
      <3> QED
        BY <1>1, <2>1, <3>1, CopyingFrame
    <2>3. CASE p = q
      BY <1>1, <2>1, <2>3 DEF TypeOK, Copying, Running, Early, Dir
    <2> QED
      BY <2>2, <2>3
  <1>7. ASSUME NEW p \in Pipe, NEW d \in Dir, Copies(p, d) PROVE Copying(q)'
    <2>1. PICK s \in {"read", "write", "end"} : go' = [go EXCEPT ![p][d] = s]
      BY <1>1, <1>7, CopiesFacts
    <2>2. Running(p, d) /\ UNCHANGED <<kind, pc, buf, made>>
      BY <1>1, <1>7, CopiesFacts
    <2>3. \A c \in Dir : Running(q, c)' => Running(q, c)
      BY <1>1, <2>1, <2>2 DEF TypeOK, Running
    <2> QED
      BY <1>1, <2>2, <2>3 DEF Copying, Early
  <1> QED
    BY <1>2, <1>3, <1>4, <1>5, <1>6, <1>7, StepKinds

\* Every handler that is Early stays so.
LEMMA EarlyStays ==
    ASSUME IInv, [Next]_vars, NEW q \in Pipe, Early(q)
    PROVE  Early(q)'
  <1>1. TypeOK /\ Before(q)
    BY DEF IInv
  <1> USE DEF TypeOK, Early
  <1>2. CASE Outside
    BY <1>2, OutsideFacts
  <1>3. ASSUME NEW p \in Pipe, Prelude(p) PROVE Early(q)'
    BY <1>1, <1>3, PreludeFacts DEF NotYet
  <1>4. ASSUME NEW p \in Pipe, Start(p) PROVE Early(q)'
    BY <1>1, <1>4 DEF Start
  <1>5. ASSUME NEW p \in Pipe, Return(p) \/ CloseStreams(p) PROVE Early(q)'
    BY <1>1, <1>5 DEF Return, CloseStreams, pipes
  <1>6. ASSUME NEW p \in Pipe, NEW d \in Dir, Copies(p, d) PROVE Early(q)'
    BY <1>1, <1>6, CopiesFacts
  <1> QED
    BY <1>2, <1>3, <1>4, <1>5, <1>6, StepKinds

-----------------------------------------------------------------------------
\* Who copies is not changed by the steps of the prelude, of a goroutine or from
\* outside, nor are the buffers.
LEMMA BuffersFrame ==
    ASSUME IInv, Outside \/ \E p \in Pipe : Prelude(p) \/ CloseStreams(p) \/ \E d \in Dir : Copies(p, d)
    PROVE  /\ UNCHANGED <<kind, buf, free, made>>
           /\ \A q \in Pipe : pc'[q] = "copy" <=> pc[q] = "copy"
  <1>1. TypeOK
    BY DEF IInv
  <1>2. CASE Outside
    BY <1>2, OutsideFacts DEF pool
  <1>3. ASSUME NEW p \in Pipe, Prelude(p)
        PROVE  /\ UNCHANGED <<kind, buf, free, made>>
               /\ \A q \in Pipe : pc'[q] = "copy" <=> pc[q] = "copy"
    <2>1. UNCHANGED <<kind, buf, free, made>>
      BY <1>1, <1>3, PreludeFacts DEF pool
    <2>2. PICK s : pc' = [pc EXCEPT ![p] = s]
      BY <1>1, <1>3, PreludeFacts
    <2>3. pc'[p] = "copy" <=> pc[p] = "copy"
      BY <1>1, <1>3, PreludeFacts DEF NotYet
    <2> QED
      BY <1>1, <2>1, <2>2, <2>3 DEF TypeOK
  <1>4. ASSUME NEW p \in Pipe, CloseStreams(p)
        PROVE  /\ UNCHANGED <<kind, buf, free, made>>
               /\ \A q \in Pipe : pc'[q] = "copy" <=> pc[q] = "copy"
    BY <1>1, <1>4 DEF CloseStreams, TypeOK, pool
  <1>5. ASSUME NEW p \in Pipe, NEW d \in Dir, Copies(p, d)
        PROVE  /\ UNCHANGED <<kind, buf, free, made>>
               /\ \A q \in Pipe : pc'[q] = "copy" <=> pc[q] = "copy"
    BY <1>1, <1>5, CopiesFacts
  <1> QED
    BY <1>2, <1>3, <1>4, <1>5

\* What Start and Return do to the owners of buffers.
LEMMA StartEffect ==
    ASSUME IInv, NEW p \in Pipe, Start(p)
    PROVE  \E x, y \in free \union {made + 1, made + 2} :
             /\ buf'[p]["ab"] = x /\ buf'[p]["ba"] = y
             /\ free' = free \ {x, y}
             /\ 1 .. made' = (1 .. made) \union {x, y}
             /\ pc'[p] = "copy" /\ pc[p] # "copy" /\ buf[p]["ab"] = Nil /\ buf[p]["ba"] = Nil
             /\ kind' = kind
             /\ \A q \in Pipe \ {p} : pc'[q] = pc[q] /\ buf'[q] = buf[q]
  <1>1. TypeOK
    BY DEF IInv
  <1>2. PICK x, y \in free \union {made + 1, made + 2} :
             /\ buf' = [buf EXCEPT ![p] = [d \in Dir |-> IF d = "ab" THEN x ELSE y]]
             /\ free' = free \ {x, y}
             /\ 1 .. made' = (1 .. made) \union {x, y}
    BY <1>1, StartFacts
  <1>3. /\ pc' = [pc EXCEPT ![p] = "copy"] /\ pc[p] \in {"start", "open"} /\ kind' = kind
    BY DEF Start
  <1>4. buf[p]["ab"] = Nil /\ buf[p]["ba"] = Nil
    BY <1>3 DEF IInv, Before, Dir
  <1>5. buf'[p]["ab"] = x /\ buf'[p]["ba"] = y
    BY <1>1, <1>2 DEF TypeOK, Dir
  <1>6. \A q \in Pipe \ {p} : pc'[q] = pc[q] /\ buf'[q] = buf[q]
    BY <1>1, <1>2, <1>3 DEF TypeOK
  <1>7. pc'[p] = "copy"
    BY <1>1, <1>3 DEF TypeOK
  <1> QED
    BY <1>2, <1>3, <1>4, <1>5, <1>6, <1>7

LEMMA ReturnEffect ==
    ASSUME IInv, NEW p \in Pipe, Return(p)
    PROVE  /\ UNCHANGED <<kind, buf, made>>
           /\ free' = IF kind[p] = "nilpool" THEN free ELSE free \union {buf[p][d] : d \in Dir}
           /\ pc[p] = "copy" /\ pc'[p] # "copy"
           /\ \A q \in Pipe \ {p} : pc'[q] = pc[q]
  BY DEF IInv, TypeOK, Return, pipes

LEMMA OwnedStep == IInv /\ [Next]_vars => Owned'
  <1> SUFFICES ASSUME IInv, [Next]_vars PROVE Owned'
    OBVIOUS
  <1>1. Owned /\ TypeOK /\ made \in Nat
    BY DEF IInv, TypeOK
  <1>2. \A q \in Pipe : pc[q] = "copy" => \A d \in Dir : buf[q][d] \in 1 .. made
    BY DEF IInv, Copying
  <1>3. CASE Outside \/ \E p \in Pipe : Prelude(p) \/ CloseStreams(p) \/ \E d \in Dir : Copies(p, d)
    BY <1>1, <1>3, BuffersFrame DEF Owned
  <1>4. ASSUME NEW p \in Pipe, Start(p) PROVE Owned'
    <2>1. PICK x, y \in free \union {made + 1, made + 2} :
             /\ buf'[p]["ab"] = x /\ buf'[p]["ba"] = y
             /\ free' = free \ {x, y}
             /\ pc'[p] = "copy"
             /\ \A q \in Pipe \ {p} : pc'[q] = pc[q] /\ buf'[q] = buf[q]
      BY <1>4, StartEffect
    <2>2. \A q \in Pipe \ {p} : pc[q] = "copy" => \A d \in Dir :
            buf[q][d] # x /\ buf[q][d] # y /\ buf[q][d] \notin free
      BY <1>1, <1>2, <2>1 DEF Owned
    <2>3. \A d \in Dir : buf'[p][d] \in {x, y}
      BY <2>1 DEF Dir
    <2> QED
      BY <1>1, <2>1, <2>2, <2>3 DEF Owned
  <1>5. ASSUME NEW p \in Pipe, Return(p) PROVE Owned'
    BY <1>1, <1>5, ReturnEffect DEF Owned
  <1> QED
    BY <1>3, <1>4, <1>5, StepKinds

LEMMA AccountedStep == IInv /\ [Next]_vars => Accounted'
  <1> SUFFICES ASSUME IInv, [Next]_vars, NEW b, b \in 1 .. made' PROVE Kept(b)'
    BY DEF Accounted
  <1>1. TypeOK /\ Accounted
    BY DEF IInv
  <1>2. CASE Outside \/ \E p \in Pipe : Prelude(p) \/ CloseStreams(p) \/ \E d \in Dir : Copies(p, d)
    <2>1. Kept(b)
      BY <1>1, <1>2, BuffersFrame DEF Accounted
    <2> QED
      BY <1>2, <2>1, BuffersFrame DEF Kept
  <1>3. ASSUME NEW p \in Pipe, Start(p) PROVE Kept(b)'
    <2>1. PICK x, y \in free \union {made + 1, made + 2} :
             /\ buf'[p]["ab"] = x /\ buf'[p]["ba"] = y
             /\ free' = free \ {x, y}
             /\ 1 .. made' = (1 .. made) \union {x, y}
             /\ pc'[p] = "copy" /\ pc[p] # "copy" /\ buf[p]["ab"] = Nil /\ buf[p]["ba"] = Nil
             /\ kind' = kind
             /\ \A q \in Pipe \ {p} : pc'[q] = pc[q] /\ buf'[q] = buf[q]
      BY <1>3, StartEffect
    <2>2. CASE b \in {x, y}
      BY <2>1, <2>2 DEF Kept, Dir
    <2>3. CASE b \notin {x, y}
      <3>1. b \in 1 .. made /\ b # Nil
        BY <2>1, <2>3, PipesAssumption
      <3>2. Kept(b)
        BY <1>1, <3>1 DEF Accounted
      <3> QED
        BY <2>1, <2>3, <3>1, <3>2 DEF Kept, Dir
    <2> QED
      BY <2>2, <2>3
  <1>4. ASSUME NEW p \in Pipe, Return(p) PROVE Kept(b)'
    <2>1. Kept(b)
      BY <1>1, <1>4, ReturnEffect DEF Accounted
    <2>2. /\ UNCHANGED <<kind, buf, made>>
          /\ free' = IF kind[p] = "nilpool" THEN free ELSE free \union {buf[p][d] : d \in Dir}
          /\ \A q \in Pipe \ {p} : pc'[q] = pc[q]
      BY <1>4, ReturnEffect
    <2>3. CASE b \in free
      BY <2>2, <2>3 DEF Kept
    <2>4. ASSUME NEW q \in Pipe, NEW d \in Dir, buf[q][d] = b,
                 pc[q] = "copy" \/ kind[q] = "nilpool"
          PROVE  Kept(b)'
      <3>1. CASE q = p /\ kind[p] # "nilpool"
        BY <2>2, <2>4, <3>1 DEF Kept
      <3>2. CASE q # p \/ kind[p] = "nilpool"
        BY <2>2, <2>4, <3>2 DEF Kept
      <3> QED
        BY <3>1, <3>2
    <2> QED
      BY <2>1, <2>3, <2>4 DEF Kept
  <1> QED
    BY <1>2, <1>3, <1>4, StepKinds

-----------------------------------------------------------------------------
\* While no buffer was given back early, no other goroutine that runs has the buffer
\* of a direction with a buffer of its own.
LEMMA Disjoint ==
    ASSUME IInv, \A r \in Pipe : ~ Early(r),
           NEW p \in Pipe, NEW d \in Dir, Running(p, d), kind[p] \notin OneBuffer,
           NEW q \in Pipe, NEW c \in Dir, Running(q, c), <<p, d>> # <<q, c>>
    PROVE  buf[p][d] # buf[q][c]
  <1>1. pc[p] = "copy" /\ pc[q] = "copy"
    BY DEF IInv, Copying
  <1>2. CASE p # q
    BY <1>1, <1>2 DEF IInv, Owned
  <1>3. CASE p = q
    <2>1. c # d
      BY <1>3
    <2>2. buf[p]["ab"] # buf[p]["ba"]
      BY <1>1 DEF IInv, Copying, Dir
    <2> QED
      BY <1>3, <2>1, <2>2 DEF Dir
  <1> QED
    BY <1>2, <1>3

\* A goroutine that runs has a buffer.
LEMMA RunningHasBuffer ==
    ASSUME IInv, NEW p \in Pipe, NEW d \in Dir, Running(p, d), \A r \in Pipe : ~ Early(r)
    PROVE  buf[p][d] \in Buffer
  <1>1. pc[p] = "copy"
    BY DEF IInv, Copying
  <1>2. buf[p][d] # Nil
    BY <1>1 DEF IInv, Copying
  <1> QED
    BY <1>2 DEF IInv, TypeOK

LEMMA IntactStep == IInv /\ [Next]_vars => Intact'
  <1> SUFFICES ASSUME IInv, [Next]_vars, \A q \in Pipe : ~ Early(q)',
                      NEW p \in Pipe, NEW d \in Dir,
                      kind'[p] \notin OneBuffer, go'[p][d] = "write"
               PROVE  content'[buf'[p][d]] = <<p, d>>
    BY DEF Intact
  <1>1. TypeOK /\ Shape /\ \A q \in Pipe : ~ Early(q)
    BY EarlyStays DEF IInv
  <1>2. ASSUME UNCHANGED <<kind, go, buf, content>> PROVE content'[buf'[p][d]] = <<p, d>>
    BY <1>1, <1>2 DEF IInv, Intact
  <1>3. CASE Outside
    BY <1>2, <1>3, OutsideFacts DEF pool
  <1>4. ASSUME NEW q \in Pipe, Prelude(q) PROVE content'[buf'[p][d]] = <<p, d>>
    BY <1>1, <1>2, <1>4, PreludeFacts DEF pool
  <1>5. ASSUME NEW q \in Pipe, Return(q) \/ CloseStreams(q)
        PROVE  content'[buf'[p][d]] = <<p, d>>
    BY <1>2, <1>5 DEF Return, CloseStreams, pipes, pool
  <1>6. ASSUME NEW q \in Pipe, Start(q) PROVE content'[buf'[p][d]] = <<p, d>>
    <2>1. UNCHANGED <<kind, content>> /\ go' = [go EXCEPT ![q] = [c \in Dir |-> FirstLook(q)]]
      BY <1>6 DEF Start
    <2>2. p # q
      BY <1>1, <2>1 DEF TypeOK, FirstLook
    <2>3. buf'[p] = buf[p] /\ go'[p] = go[p]
      BY <1>1, <1>6, <2>2 DEF Start, TypeOK
    <2> QED
      BY <1>1, <2>1, <2>3 DEF IInv, Intact
  <1>7. ASSUME NEW q \in Pipe, NEW c \in Dir, ReadFails(q, c) \/ WriteFails(q, c)
        PROVE  content'[buf'[p][d]] = <<p, d>>
    <2>1. UNCHANGED <<kind, buf, content>> /\ go' = [go EXCEPT ![q][c] = "end"]
      BY <1>7 DEF ReadFails, WriteFails, Leave, pool
    <2>2. go[p][d] = "write"
      BY <1>1, <2>1 DEF TypeOK
    <2> QED
      BY <1>1, <2>1, <2>2 DEF IInv, Intact
  <1>8. ASSUME NEW q \in Pipe, NEW c \in Dir, ReadData(q, c)
        PROVE  content'[buf'[p][d]] = <<p, d>>
    <2>1. UNCHANGED <<kind, buf>> /\ go' = [go EXCEPT ![q][c] = "write"]
          /\ content' = [content EXCEPT ![buf[q][c]] = <<q, c>>] /\ Running(q, c)
      BY <1>8 DEF ReadData, Running
    <2>2. buf[q][c] \in Buffer
      BY <1>1, <2>1, RunningHasBuffer
    <2>3. CASE p = q /\ d = c
      BY <1>1, <2>1, <2>2, <2>3 DEF Shape
    <2>4. CASE ~(p = q /\ d = c)
      <3>1. go[p][d] = "write"
        BY <1>1, <2>1, <2>4 DEF TypeOK
      <3>2. content[buf[p][d]] = <<p, d>>
        BY <1>1, <2>1, <3>1 DEF IInv, Intact
      <3>3. Running(p, d) /\ <<p, d>> # <<q, c>>
        BY <2>4, <3>1 DEF Running
      <3>4. buf[p][d] # buf[q][c] /\ buf[p][d] \in Buffer
        BY <1>1, <2>1, <3>3, Disjoint, RunningHasBuffer
      <3> QED
        BY <1>1, <2>1, <3>2, <3>4 DEF Shape
    <2> QED
      BY <2>3, <2>4
  <1>9. ASSUME NEW q \in Pipe, NEW c \in Dir, WriteData(q, c)
        PROVE  content'[buf'[p][d]] = <<p, d>>
    <2>1. UNCHANGED <<kind, buf>> /\ content' = [content EXCEPT ![buf[q][c]] = Nil] /\ Running(q, c)
      BY <1>9 DEF WriteData, Running
    <2>2. \E s \in {"read", "end"} : go' = [go EXCEPT ![q][c] = s]
      BY <1>9 DEF WriteData, Leave
    <2>3. ~(p = q /\ d = c) /\ go[p][d] = "write"
      BY <1>1, <2>2 DEF TypeOK
    <2>4. content[buf[p][d]] = <<p, d>>
      BY <1>1, <2>1, <2>3 DEF IInv, Intact
    <2>5. Running(p, d) /\ <<p, d>> # <<q, c>>
      BY <2>3 DEF Running
    <2>6. buf[p][d] # buf[q][c] /\ buf[p][d] \in Buffer
      BY <1>1, <2>1, <2>5, Disjoint, RunningHasBuffer
    <2> QED
      BY <1>1, <2>1, <2>4, <2>6 DEF Shape
  <1> QED
    BY <1>3, <1>4, <1>5, <1>6, <1>7, <1>8, <1>9, StepKinds DEF Copies

\* Only a write can send what another direction read.
LEMMA MixedStep == IInv /\ [Next]_vars => MixedOnlyByOneBuffer'
  <1> SUFFICES ASSUME IInv, [Next]_vars, NEW p \in wrong',
                      \A q \in Pipe : ~ Early(q)'
               PROVE  kind'[p] \in OneBuffer
    BY DEF MixedOnlyByOneBuffer
  <1>1. TypeOK /\ \A q \in Pipe : ~ Early(q)
    BY EarlyStays DEF IInv
  <1>2. ASSUME kind' = kind, wrong' = wrong PROVE kind'[p] \in OneBuffer
    BY <1>1, <1>2 DEF IInv, MixedOnlyByOneBuffer
  <1>3. CASE Outside
    BY <1>2, <1>3, OutsideFacts DEF pool
  <1>4. ASSUME NEW q \in Pipe, Prelude(q) \/ Start(q) \/ Return(q) \/ CloseStreams(q)
        PROVE  kind'[p] \in OneBuffer
    BY <1>1, <1>2, <1>4, PreludeFacts DEF Start, Return, CloseStreams, pool
  <1>5. ASSUME NEW q \in Pipe, NEW c \in Dir, ReadData(q, c) \/ ReadFails(q, c) \/ WriteFails(q, c)
        PROVE  kind'[p] \in OneBuffer
    BY <1>2, <1>5 DEF ReadData, ReadFails, WriteFails, pool
  <1>6. ASSUME NEW q \in Pipe, NEW c \in Dir, WriteData(q, c) PROVE kind'[p] \in OneBuffer
    <2>1. kind' = kind /\ go[q][c] = "write"
          /\ wrong' = IF content[buf[q][c]] = <<q, c>> THEN wrong ELSE wrong \union {q}
      BY <1>6 DEF WriteData
    <2>2. CASE kind[q] \in OneBuffer
      BY <1>1, <2>1, <2>2 DEF IInv, MixedOnlyByOneBuffer
    <2>3. CASE kind[q] \notin OneBuffer
      <3>1. content[buf[q][c]] = <<q, c>>
        BY <1>1, <2>1, <2>3 DEF IInv, Intact
      <3> QED
        BY <1>2, <2>1, <3>1
    <2> QED
      BY <2>2, <2>3
  <1> QED
    BY <1>3, <1>4, <1>5, <1>6, StepKinds DEF Copies

-----------------------------------------------------------------------------
\* The connections activeConns has been raised for.
Served  == {p \in Pipe : ext[p] \in {"serving", "closed"}}
Dialled == {p \in Pipe : uses[p] = p}

LEMMA ServedFinite ==
    /\ IsFiniteSet(Served) /\ IsFiniteSet(Dialled)
    /\ Cardinality(Served) \in Nat /\ Cardinality(Dialled) \in Nat
  <1>1. IsFiniteSet(Pipe) /\ Served \in SUBSET Pipe /\ Dialled \in SUBSET Pipe
    BY PipesAssumption DEF Served, Dialled
  <1> QED
    BY <1>1, FS_Subset, FS_CardinalityType

\* It is raised once for each: an external connection is new before Notify, and a
\* handler has no local connection of its own before Dial.
LEMMA ServedStep == IInv /\ [Next]_vars => ServedStaysCounted'
  <1> SUFFICES ASSUME IInv, [Next]_vars
               PROVE  active' = Cardinality(Served') + Cardinality(Dialled')
    BY DEF ServedStaysCounted, Served, Dialled
  <1>1. TypeOK /\ Shape /\ active = Cardinality(Served) + Cardinality(Dialled)
    BY DEF IInv, ServedStaysCounted, Served, Dialled
  <1>2. ASSUME active' = active, Served' = Served, Dialled' = Dialled
        PROVE  active' = Cardinality(Served') + Cardinality(Dialled')
    BY <1>1, <1>2
  <1>3. ASSUME UNCHANGED <<ext, active, uses>>
        PROVE  active' = Cardinality(Served') + Cardinality(Dialled')
    BY <1>2, <1>3 DEF Served, Dialled
  <1>4. CASE Outside
    BY <1>3, <1>4, OutsideFacts
  <1>5. ASSUME NEW p \in Pipe, Start(p) \/ Return(p) \/ CloseStreams(p)
        PROVE  UNCHANGED <<ext, active, uses>>
    BY <1>5 DEF Start, Return, CloseStreams, outer, dialling
  <1>6. ASSUME NEW p \in Pipe, NEW d \in Dir, Copies(p, d) PROVE UNCHANGED <<ext, active, uses>>
    BY <1>1, <1>6, CopiesFacts
  <1>7. ASSUME NEW p \in Pipe, AcceptStream(p) \/ GiveUp(p) \/ OpenFails(p)
        PROVE  UNCHANGED <<ext, active, uses>>
    BY <1>7 DEF AcceptStream, GiveUp, OpenFails, outer, dialling
  <1>8. ASSUME NEW p \in Pipe, NotifyFails(p) \/ ServingEnds(p)
        PROVE  active' = Cardinality(Served') + Cardinality(Dialled')
    <2>1. UNCHANGED <<active, uses>>
      BY <1>8 DEF NotifyFails, ServingEnds, dialling
    <2>2. Served' = Served
      <3>1. CASE NotifyFails(p)
        <4>1. ext[p] = "new"
          BY <3>1 DEF NotifyFails, IInv, Before
        <4> QED
          BY <1>1, <3>1, <4>1 DEF NotifyFails, Shape, Served
      <3>2. CASE ServingEnds(p)
        BY <1>1, <3>2 DEF ServingEnds, Shape, Served
      <3> QED
        BY <1>8, <3>1, <3>2
    <2>3. Dialled' = Dialled
      BY <2>1 DEF Dialled
    <2> QED
      BY <1>2, <2>1, <2>2, <2>3
  <1>9. ASSUME NEW p \in Pipe, Notify(p)
        PROVE  active' = Cardinality(Served') + Cardinality(Dialled')
    <2>1. ext[p] = "new"
      BY <1>9 DEF Notify, IInv, Before
    <2>2. Served' = Served \union {p} /\ p \notin Served
      BY <1>1, <1>9, <2>1 DEF Notify, Shape, Served
    <2>3. Dialled' = Dialled
      BY <1>9 DEF Notify, dialling, Dialled
    <2>4. Cardinality(Served') = Cardinality(Served) + 1
      BY <2>2, ServedFinite, FS_AddElement
    <2>5. active' = active + 1
      BY <1>9 DEF Notify
    <2> QED
      BY <1>1, <2>3, <2>4, <2>5, ServedFinite
  <1>10. ASSUME NEW p \in Pipe, Load(p)
         PROVE  active' = Cardinality(Served') + Cardinality(Dialled')
    <2>1. uses[p] = Nil /\ conn # p /\ p # Nil
      BY <1>10, PipesAssumption DEF Load, IInv, Before
    <2>2. Dialled' = Dialled
      BY <1>1, <1>10, <2>1 DEF Load, Shape, Dialled
    <2>3. UNCHANGED <<ext, active>>
      BY <1>10 DEF Load, outer
    <2> QED
      BY <1>2, <2>2, <2>3 DEF Served
  <1>11. ASSUME NEW p \in Pipe, Dial(p)
         PROVE  active' = Cardinality(Served') + Cardinality(Dialled')
    <2>1. uses[p] = Nil /\ p # Nil
      BY <1>11, PipesAssumption DEF Dial, IInv, Before
    <2>2. Dialled' = Dialled \union {p} /\ p \notin Dialled
      BY <1>1, <1>11, <2>1 DEF Dial, Shape, Dialled
    <2>3. ext' = ext /\ active' = active + 1
      BY <1>11 DEF Dial
    <2>4. Cardinality(Dialled') = Cardinality(Dialled) + 1
      BY <2>2, ServedFinite, FS_AddElement
    <2>5. Served' = Served
      BY <2>3 DEF Served
    <2> QED
      BY <1>1, <2>3, <2>4, <2>5, ServedFinite
  <1> QED
    BY <1>3, <1>4, <1>5, <1>6, <1>7, <1>8, <1>9, <1>10, <1>11, StepKinds DEF Prelude

LEMMA InvInit == Init => IInv
  <1> SUFFICES ASSUME Init PROVE IInv
    OBVIOUS
  <1>1. IsFiniteSet(Pipe) /\ Cardinality(Pipe) \in Nat /\ MaxBuffers \in Nat
    BY PipesAssumption, FS_CardinalityType DEF MaxBuffers
  <1>2. TypeOK
    BY <1>1 DEF Init, TypeOK, FirstStep
  <1>3. Shape
    <2>1. kind \in [Pipe -> Kinds]
      BY PipesAssumption DEF Init
    <2>2. ctx \in [Pipe -> BOOLEAN]
      BY DEF Init
    <2> QED
      BY <2>1, <2>2 DEF Init, Shape
  <1>4. ASSUME NEW p \in Pipe PROVE Before(p) /\ Copying(p)
    <2>1. Before(p)
      BY PipesAssumption DEF Init, Before
    <2>2. Copying(p)
      BY DEF Init, Copying, FirstStep, Running, Dir
    <2> QED
      BY <2>1, <2>2
  <1>5. Owned /\ Accounted
    BY DEF Init, Owned, Accounted, FirstStep
  <1>6. MadeFew
    <2>1. Begun = {}
      BY DEF Init, Begun, Dir
    <2> QED
      BY <2>1, FS_EmptySet DEF Init, MadeFew
  <1>7. Intact /\ MixedOnlyByOneBuffer
    BY DEF Init, Intact, MixedOnlyByOneBuffer
  <1>8. ServedStaysCounted
    <2>1. Served = {} /\ Dialled = {}
      BY PipesAssumption DEF Init, Served, Dialled
    <2>2. active = Cardinality(Served) + Cardinality(Dialled)
      BY <2>1, FS_EmptySet DEF Init
    <2> QED
      BY <2>2 DEF ServedStaysCounted, Served, Dialled
  <1> QED
    BY <1>2, <1>3, <1>4, <1>5, <1>6, <1>7, <1>8 DEF IInv

-----------------------------------------------------------------------------
\* The invariant of the pool and of the handlers that copy with its buffers.
THEOREM InductiveInvariant == Spec => []IInv
  <1>1. IInv /\ [Next]_vars => IInv'
    BY TypeStep, BeforeStep, CopyingStep, OwnedStep, AccountedStep, MadeFewStep, IntactStep,
       MixedStep, ServedStep
    DEF IInv
  <1> QED
    BY <1>1, InvInit, PTL DEF Spec

\* A buffer has one user at a time and comes back, no byte reaches the wrong stream,
\* and activeConns follows what was served (forwardQUICStream,
\* handleQUICDataStreamForward, pool.Get and Put), the exceptions of BuffersOwned
\* aside, for any number of handlers of any kinds.
THEOREM BuffersAreOwned == Spec => []BuffersOwned
  <1>1. IInv => PooledIsUnused
    <2> SUFFICES ASSUME IInv, NEW p \in Pipe, NEW d \in Dir, Running(p, d), ~ Early(p)
                 PROVE  /\ buf[p][d] \notin free
                        /\ \A q \in Pipe \ {p}, c \in Dir :
                              Running(q, c) /\ ~ Early(q) => buf[q][c] # buf[p][d]
      BY DEF PooledIsUnused
    <2>1. \A q \in Pipe, c \in Dir : Running(q, c) /\ ~ Early(q) => pc[q] = "copy"
      BY DEF IInv, Copying
    <2> QED
      BY <2>1 DEF IInv, Owned
  <1>2. IInv => BuffersReturn
    <2> SUFFICES ASSUME IInv, \A p \in Pipe : pc[p] = "done" /\ kind[p] # "nilpool"
                 PROVE  free = 1 .. made
      BY DEF BuffersReturn
    <2>1. \A b \in 1 .. made : b \in free
      BY DEF IInv, Accounted, Kept
    <2> QED
      BY <2>1 DEF IInv, TypeOK
  <1>3. IInv => BuffersOwned
    BY <1>1, <1>2 DEF IInv, BuffersOwned
  <1> QED
    BY <1>3, InductiveInvariant, PTL

-----------------------------------------------------------------------------
(* ProtoTunnel *)

\* The types TypeOK leaves out.
TunnelShape == mode \in [Conn -> Mode] /\ stray \subseteq Conn \X Way

\* The ends t have their descriptors and the descriptors o their owners: an open end
\* owns its descriptor, and an owned descriptor is open.
Agree(o, t) ==
    /\ t \in [Conn -> [Side -> Fd \union {None}]]
    /\ o \in [Fd \union {Stdin} -> (Conn \X Side) \union {None, Process}]
    /\ \A f \in Fd : o[f] \in (Conn \X Side) \union {None}
    /\ \A c \in Conn, e \in Side : t[c][e] # None => o[t[c][e]] = <<c, e>>
    /\ \A f \in Fd, c \in Conn, e \in Side : o[f] = <<c, e>> => t[c][e] = f

\* Which ends are open, and whether there are goroutines, by where the handler is.
Stages(c) ==
    /\ place[c] \in {"idle", "done"} => \A e \in Side : fd[c][e] = None
    /\ place[c] = "copy" => \A e \in Side : fd[c][e] # None
    /\ place[c] \in {"idle", "dial"} => \A d \in Way : fwd[c][d] = "off"
    /\ place[c] = "dial" => fd[c]["src"] # None /\ fd[c]["dst"] = None

\* While the connections are open, a splicing goroutine has their descriptors.
RawIsOwn ==
    \A c \in Conn, d \in Way :
        place[c] = "copy" /\ mode[c].how = "splice" /\ fwd[c][d] = "loop" =>
            raw[c][d] = <<fd[c][From(d)], fd[c][To(d)]>>

TunnelIInv ==
    /\ Descriptors /\ TunnelTypeOK /\ TunnelShape /\ Agree(owner, fd) /\ \A c \in Conn : Stages(c)
    /\ RawIsOwn /\ StrayOnlyAfterClose

-----------------------------------------------------------------------------
LEMMA KnownDescriptors == ASSUME TunnelIInv PROVE Descriptors
  BY DEF TunnelIInv

\* A set of natural numbers that is not empty has a minimum.
LEMMA LeastFd == ASSUME NEW S, S \subseteq Nat, S # {} PROVE Min(S) \in S
  <1> DEFINE R == {ss \in Nat \X Nat : ss[1] < ss[2]}
  <1>1. IsWellFoundedOn(R, Nat)
    BY NatLessThanWellFounded DEF OpToRel
  <1>2. \A x, y \in S : <<y, x>> \in R <=> y < x
    OBVIOUS
  <1> HIDE DEF R
  <1>3. PICK x \in S : \A y \in S : ~ (<<y, x>> \in R)
    BY <1>1, WFMin
  <1>4. \A y \in S : ~ (y < x)
    BY <1>2, <1>3
  <1>5. \A y \in S : x <= y
    BY <1>4
  <1> QED
    BY <1>5 DEF Min

\* The kernel gives out a descriptor that is free.
LEMMA FreeFdIsFd ==
    ASSUME Descriptors
    PROVE  FreeFd \subseteq Fd /\ FreeFd \subseteq Nat /\ \A f \in FreeFd : owner[f] = None
  BY DEF Descriptors, FreeFd, Fd

LEMMA SrcDst == \A d \in Way : From(d) \in Side /\ To(d) \in Side
  BY DEF Way, Side, From, To

\* A free descriptor given to an end that has none disturbs nobody else's.
LEMMA TakeAgrees ==
    ASSUME Descriptors, NEW o, NEW t, Agree(o, t), NEW c \in Conn, NEW e \in Side,
           NEW f \in Fd, o[f] = None, t[c][e] = None
    PROVE  Agree([o EXCEPT ![f] = <<c, e>>], [t EXCEPT ![c][e] = f])
  <1> DEFINE p == [o EXCEPT ![f] = <<c, e>>]
             u == [t EXCEPT ![c][e] = f]
  <1>1. (\A g \in Fd : g # None) /\ \A k \in Conn, x \in Side : <<k, x>> # None
    BY DEF Descriptors, Fd
  <1>2. /\ u \in [Conn -> [Side -> Fd \union {None}]]
        /\ p \in [Fd \union {Stdin} -> (Conn \X Side) \union {None, Process}]
        /\ \A g \in Fd : p[g] = IF g = f THEN <<c, e>> ELSE o[g]
        /\ \A k \in Conn, x \in Side : u[k][x] = IF k = c /\ x = e THEN f ELSE t[k][x]
    BY DEF Agree
  <1> HIDE DEF p, u
  <1>3. \A k \in Conn, x \in Side : u[k][x] # None => p[u[k][x]] = <<k, x>>
    <2> SUFFICES ASSUME NEW k \in Conn, NEW x \in Side, u[k][x] # None
                 PROVE  p[u[k][x]] = <<k, x>>
      OBVIOUS
    <2>1. CASE k = c /\ x = e
      BY <1>2, <2>1
    <2>2. CASE ~ (k = c /\ x = e)
      <3>1. t[k][x] \in Fd /\ o[t[k][x]] = <<k, x>>
        BY <1>2, <2>2 DEF Agree
      <3> QED
        BY <1>1, <1>2, <2>2, <3>1
    <2> QED
      BY <2>1, <2>2
  <1>4. ASSUME NEW g \in Fd, NEW k \in Conn, NEW x \in Side, p[g] = <<k, x>>
        PROVE  u[k][x] = g
    <2>1. CASE g = f
      BY <1>2, <1>4, <2>1
    <2>2. CASE g # f
      <3>1. t[k][x] = g
        BY <1>2, <1>4, <2>2 DEF Agree
      <3> QED
        BY <1>1, <1>2, <3>1
    <2> QED
      BY <2>1, <2>2
  <1> QED
    BY <1>2, <1>3, <1>4 DEF Agree, p, u

\* A handler that closes its connections gives back its own descriptors, and only
\* those.
LEMMA FreedAgrees ==
    ASSUME Descriptors, Agree(owner, fd), NEW c \in Conn
    PROVE  Agree(Freed(c), [fd EXCEPT ![c] = [e \in Side |-> None]])
  <1> DEFINE u == [fd EXCEPT ![c] = [e \in Side |-> None]]
             mine == {fd[c][e] : e \in Side}
  <1>1. /\ u \in [Conn -> [Side -> Fd \union {None}]]
        /\ \A k \in Conn, x \in Side : u[k][x] = IF k = c THEN None ELSE fd[k][x]
    BY DEF Agree
  <1>2. /\ Freed(c) \in [Fd \union {Stdin} -> (Conn \X Side) \union {None, Process}]
        /\ \A g \in Fd : Freed(c)[g] = IF g \in mine THEN None ELSE owner[g]
    BY DEF Freed, Agree
  <1> HIDE DEF u
  <1>3. ASSUME NEW k \in Conn, NEW x \in Side, u[k][x] # None
        PROVE  Freed(c)[u[k][x]] = <<k, x>>
    <2>1. k # c /\ u[k][x] = fd[k][x] /\ fd[k][x] \in Fd
      BY <1>1, <1>3 DEF Agree
    <2>2. owner[fd[k][x]] = <<k, x>>
      BY <1>3, <2>1 DEF Agree
    <2>3. fd[k][x] \notin mine
      BY <1>3, <2>1, <2>2 DEF Agree
    <2> QED
      BY <1>2, <2>1, <2>2, <2>3
  <1>4. ASSUME NEW g \in Fd, NEW k \in Conn, NEW x \in Side, Freed(c)[g] = <<k, x>>
        PROVE  u[k][x] = g
    <2>1. g \notin mine /\ owner[g] = <<k, x>>
      BY <1>2, <1>4 DEF Descriptors
    <2>2. fd[k][x] = g
      BY <2>1 DEF Agree
    <2> QED
      BY <1>1, <2>1, <2>2
  <1> QED
    BY <1>1, <1>2, <1>3, <1>4 DEF Agree, u

\* What TypeOK says of owners follows from Agree and from where the handlers are.
LEMMA OwnersServe ==
    ASSUME Descriptors, NEW o, NEW t, NEW p, Agree(o, t),
           \A c \in Conn, e \in Side : p[c] = "done" => t[c][e] = None
    PROVE  \A f \in Fd : o[f] # None =>
             LET c == o[f][1] IN t[c][o[f][2]] = f /\ p[c] # "done"
  <1> SUFFICES ASSUME NEW f \in Fd, o[f] # None
               PROVE  LET c == o[f][1] IN t[c][o[f][2]] = f /\ p[c] # "done"
    OBVIOUS
  <1>1. PICK c \in Conn, e \in Side : o[f] = <<c, e>>
    BY DEF Agree
  <1>2. t[c][e] = f /\ f # None
    BY <1>1 DEF Descriptors, Agree, Fd
  <1> QED
    BY <1>1, <1>2

\* TypeOK without its last conjunct, which OwnersServe gives.
TunnelTypes ==
    /\ run \in {"new", "running", "stopping", "stopped", "exited"} /\ loop \in BOOLEAN
    /\ place \in [Conn -> {"idle", "dial", "copy", "done"}]
    /\ fwd \in [Conn -> [Way -> {"off", "getFd", "loop", "paused", "ended"}]]
    /\ raw \in [Conn -> [Way -> (Fd \union {Stdin, None}) \X (Fd \union {Stdin, None})]]

LEMMA TunnelTypesSuffice ==
    ASSUME Descriptors, TunnelTypes', Agree(owner', fd'), (\A c \in Conn : Stages(c))' PROVE TunnelTypeOK'
  <1>1. \A c \in Conn, e \in Side : place'[c] = "done" => fd'[c][e] = None
    BY DEF Stages
  <1>2. \A f \in Fd : owner'[f] # None =>
             LET c == owner'[f][1] IN fd'[c][owner'[f][2]] = f /\ place'[c] # "done"
    BY <1>1, OwnersServe
  <1> QED
    BY <1>2 DEF TunnelTypes, TunnelTypeOK

\* Without handlers there are no descriptors and no goroutines.
LEMMA TunnelNothingFacts ==
    ASSUME Descriptors
    PROVE  /\ Agree(Nothing.owner, Nothing.fd)
           /\ \A c \in Conn : /\ Nothing.pc[c] = "idle" /\ \A e \in Side : Nothing.fd[c][e] = None
                              /\ \A d \in Way : Nothing.fwd[c][d] = "off"
           /\ Nothing.pc \in [Conn -> {"idle", "dial", "copy", "done"}]
           /\ Nothing.fwd \in [Conn -> [Way -> {"off", "getFd", "loop", "paused", "ended"}]]
           /\ Nothing.raw \in [Conn -> [Way -> (Fd \union {Stdin, None}) \X (Fd \union {Stdin, None})]]
  <1>1. /\ Nothing.fd \in [Conn -> [Side -> Fd \union {None}]]
        /\ \A c \in Conn, e \in Side : Nothing.fd[c][e] = None
    BY DEF Nothing
  <1>2. /\ Nothing.owner \in [Fd \union {Stdin} -> (Conn \X Side) \union {None, Process}]
        /\ \A f \in Fd : Nothing.owner[f] = None
    BY DEF Descriptors, Nothing, Fd, Stdin
  <1>3. Agree(Nothing.owner, Nothing.fd)
    <2>1. \A c \in Conn, e \in Side : <<c, e>> # None
      BY DEF Descriptors
    <2> QED
      BY <1>1, <1>2, <2>1 DEF Agree
  <1> QED
    BY <1>1, <1>3 DEF Nothing

-----------------------------------------------------------------------------
LEMMA TunnelInitIInv == TunnelInit => TunnelIInv
  <1> SUFFICES ASSUME Descriptors, TunnelInit PROVE TunnelIInv
    BY TunnelAssumption
  <1>1. /\ mode \in [Conn -> Mode] /\ stray = {} /\ run = "new" /\ loop = FALSE
        /\ place = Nothing.pc /\ fd = Nothing.fd /\ owner = Nothing.owner
        /\ fwd = Nothing.fwd /\ raw = Nothing.raw
    BY DEF Descriptors, TunnelInit
  <1>2. Agree(owner, fd)
    BY <1>1, TunnelNothingFacts
  <1>3. \A c \in Conn : Stages(c)
    BY <1>1, TunnelNothingFacts DEF Stages
  <1>4. TunnelShape /\ RawIsOwn /\ StrayOnlyAfterClose
    BY <1>1, TunnelNothingFacts DEF TunnelShape, RawIsOwn, StrayOnlyAfterClose
  <1>5. \A f \in Fd : owner[f] # None =>
             LET c == owner[f][1] IN fd[c][owner[f][2]] = f /\ place[c] # "done"
    BY <1>1, <1>2, TunnelNothingFacts, OwnersServe
  <1>6. TunnelTypeOK
    BY <1>1, <1>5, TunnelNothingFacts DEF TunnelTypeOK
  <1> QED
    BY <1>2, <1>3, <1>4, <1>6 DEF TunnelIInv

\* Steps that touch neither handlers nor goroutines.
LEMMA TunnelQuietKeepsIInv ==
    ASSUME TunnelIInv, UNCHANGED <<mode, handlers, copying, stray>>,
           run' \in {"new", "running", "stopping", "stopped", "exited"}, loop' \in BOOLEAN
    PROVE  TunnelIInv'
  <1> USE DEF handlers, copying
  <1>1. TunnelTypeOK' /\ TunnelShape'
    BY DEF TunnelIInv, TunnelTypeOK, TunnelShape
  <1>2. Agree(owner, fd)'
    BY DEF TunnelIInv, Agree
  <1>3. (\A c \in Conn : Stages(c))' /\ RawIsOwn' /\ StrayOnlyAfterClose'
    BY DEF TunnelIInv, Stages, RawIsOwn, StrayOnlyAfterClose
  <1> QED
    BY <1>1, <1>2, <1>3 DEF TunnelIInv

\* Goroutines begin where there are connections to copy between.
LEMMA BeginFacts ==
    ASSUME TunnelIInv, NEW c \in Conn
    PROVE  /\ Begin(c) \in [Conn -> [Way -> {"off", "getFd", "loop", "paused", "ended"}]]
           /\ \A k \in Conn \ {c} : Begin(c)[k] = fwd[k]
           /\ mode[c].how = "splice" => \A d \in Way : Begin(c)[c][d] # "loop"
  BY DEF TunnelIInv, TunnelTypeOK, Begin

LEMMA TunnelAcceptKeepsIInv == ASSUME TunnelIInv, NEW c \in Conn, Accept(c) PROVE TunnelIInv'
  <1> DEFINE f == Min(FreeFd)
  <1>1. f \in Fd /\ owner[f] = None /\ f # None
    BY FreeFdIsFd, LeastFd, KnownDescriptors DEF Descriptors, Accept, Fd
  <1>2. fd[c]["src"] = None /\ place[c] = "idle" /\ \A d \in Way : fwd[c][d] = "off"
    BY DEF TunnelIInv, Stages, Side, Accept
  <1>3. Agree(owner', fd')
    BY <1>1, <1>2, TakeAgrees, KnownDescriptors DEF TunnelIInv, Accept, Side
  <1>4. TunnelTypes' /\ TunnelShape'
    BY DEF TunnelIInv, TunnelTypeOK, TunnelTypes, TunnelShape, Accept, copying
  <1>5. ASSUME NEW k \in Conn PROVE Stages(k)'
    <2>1. CASE k = c
      <3>1. place'[c] = "dial" /\ fd'[c]["src"] # None /\ fd'[c]["dst"] = fd[c]["dst"]
        BY <1>1 DEF TunnelIInv, TunnelTypeOK, Agree, Accept, Side
      <3>2. fd[c]["dst"] = None /\ fwd' = fwd
        BY <1>2 DEF TunnelIInv, Stages, Accept, copying, Side
      <3> QED
        BY <1>2, <2>1, <3>1, <3>2 DEF Stages
    <2>2. CASE k # c
      BY <2>2 DEF TunnelIInv, TunnelTypeOK, Agree, Stages, Accept, copying
    <2> QED
      BY <2>1, <2>2
  <1>6. RawIsOwn'
    BY <1>2, SrcDst DEF TunnelIInv, TunnelTypeOK, Agree, RawIsOwn, Accept, copying
  <1>7. StrayOnlyAfterClose'
    BY <1>2 DEF TunnelIInv, TunnelTypeOK, TunnelShape, StrayOnlyAfterClose, Accept
  <1>8. Agree(owner, fd)' /\ TunnelTypeOK'
    BY <1>3, <1>4, <1>5, TunnelTypesSuffice, KnownDescriptors DEF Agree
  <1> QED
    BY <1>4, <1>5, <1>6, <1>7, <1>8 DEF TunnelIInv

LEMMA TunnelDialKeepsIInv == ASSUME TunnelIInv, NEW c \in Conn, DialTarget(c) PROVE TunnelIInv'
  <1> DEFINE f == Min(FreeFd)
  <1>1. f \in Fd /\ owner[f] = None /\ f # None
    BY FreeFdIsFd, LeastFd, KnownDescriptors DEF Descriptors, DialTarget, Fd
  <1>2. fd[c]["dst"] = None /\ place[c] = "dial"
    BY DEF TunnelIInv, Stages, DialTarget
  <1>3. Agree(owner', fd')
    BY <1>1, <1>2, TakeAgrees, KnownDescriptors DEF TunnelIInv, DialTarget, Side
  <1>4. TunnelTypes' /\ TunnelShape'
    BY BeginFacts DEF TunnelIInv, TunnelTypeOK, TunnelTypes, TunnelShape, DialTarget
  <1>5. ASSUME NEW k \in Conn PROVE Stages(k)'
    <2>1. CASE k = c
      <3>1. place'[c] = "copy" /\ fd'[c]["dst"] # None /\ fd'[c]["src"] = fd[c]["src"]
        BY <1>1 DEF TunnelIInv, TunnelTypeOK, Agree, DialTarget, Side
      <3>2. fd[c]["src"] # None
        BY <1>2 DEF TunnelIInv, Stages
      <3> QED
        BY <2>1, <3>1, <3>2 DEF Stages, Side
    <2>2. CASE k # c
      BY <2>2, BeginFacts DEF TunnelIInv, TunnelTypeOK, Agree, Stages, DialTarget
    <2> QED
      BY <2>1, <2>2
  <1>6. RawIsOwn'
    <2> SUFFICES ASSUME NEW k \in Conn, NEW d \in Way,
                        (place[k] = "copy" /\ mode[k].how = "splice" /\ fwd[k][d] = "loop")'
                 PROVE  raw'[k][d] = <<fd'[k][From(d)], fd'[k][To(d)]>>
      BY DEF RawIsOwn
    <2>1. k # c /\ fwd'[k] = fwd[k] /\ mode' = mode /\ raw' = raw
      BY BeginFacts DEF DialTarget
    <2>2. place'[k] = place[k] /\ fd'[k] = fd[k]
      BY <2>1 DEF TunnelIInv, TunnelTypeOK, Agree, DialTarget
    <2> QED
      BY <2>1, <2>2 DEF TunnelIInv, RawIsOwn
  <1>7. StrayOnlyAfterClose'
    BY <1>2 DEF TunnelIInv, TunnelTypeOK, TunnelShape, StrayOnlyAfterClose, DialTarget
  <1>8. Agree(owner, fd)' /\ TunnelTypeOK'
    BY <1>3, <1>4, <1>5, TunnelTypesSuffice, KnownDescriptors DEF Agree
  <1> QED
    BY <1>4, <1>5, <1>6, <1>7, <1>8 DEF TunnelIInv

LEMMA TunnelPairBeginsKeepsIInv == ASSUME TunnelIInv, NEW c \in Conn, PairBegins(c) PROVE TunnelIInv'
  <1> DEFINE f == Min(FreeFd)
             g == Min(FreeFd \ {f})
             o == [owner EXCEPT ![f] = <<c, "src">>]
             t == [fd EXCEPT ![c]["src"] = f]
  <1>1. f \in Fd /\ owner[f] = None /\ f # None /\ g \in Fd /\ owner[g] = None /\ g # None /\ f # g
    <2>1. \E x, y \in FreeFd : x # y
      BY DEF PairBegins
    <2>2. f \in FreeFd
      BY <2>1, FreeFdIsFd, LeastFd, KnownDescriptors
    <2>3. FreeFd \ {f} # {}
      BY <2>1
    <2>4. g \in FreeFd \ {f}
      BY <2>3, FreeFdIsFd, LeastFd, KnownDescriptors
    <2> QED
      BY <2>2, <2>4, FreeFdIsFd, KnownDescriptors DEF Descriptors, Fd
  <1>2. fd[c]["src"] = None /\ fd[c]["dst"] = None /\ place[c] = "idle"
    BY DEF TunnelIInv, Stages, Side, PairBegins
  <1>3. /\ owner' = [owner EXCEPT ![f] = <<c, "src">>, ![g] = <<c, "dst">>]
        /\ fd' = [fd EXCEPT ![c] = [e \in Side |-> IF e = "src" THEN f ELSE g]]
        /\ place' = [place EXCEPT ![c] = "copy"] /\ fwd' = Begin(c)
        /\ UNCHANGED <<mode, run, loop, raw, stray>>
    BY DEF PairBegins
  <1> HIDE DEF f, g
  <1>4. Agree(owner', fd')
    <2>1. Agree(o, t)
      BY <1>1, <1>2, TakeAgrees, KnownDescriptors DEF TunnelIInv, Side
    <2>2. o[g] = None /\ t[c]["dst"] = None
      BY <1>1, <1>2 DEF TunnelIInv, Agree, Side
    <2>3. Agree([o EXCEPT ![g] = <<c, "dst">>], [t EXCEPT ![c]["dst"] = g])
      BY <1>1, <2>1, <2>2, TakeAgrees, KnownDescriptors DEF Side
    <2>4. owner' = [o EXCEPT ![g] = <<c, "dst">>]
      BY <1>1, <1>3 DEF TunnelIInv, Agree
    <2>5. fd' = [t EXCEPT ![c]["dst"] = g]
      BY <1>1, <1>3 DEF TunnelIInv, Agree, Side
    <2> QED
      BY <2>3, <2>4, <2>5
  <1>5. TunnelTypes' /\ TunnelShape'
    BY <1>3, BeginFacts DEF TunnelIInv, TunnelTypeOK, TunnelTypes, TunnelShape
  <1>6. ASSUME NEW k \in Conn PROVE Stages(k)'
    <2>1. CASE k = c
      <3>1. place'[c] = "copy" /\ fd'[c]["dst"] # None /\ fd'[c]["src"] # None
        BY <1>1, <1>3 DEF TunnelIInv, TunnelTypeOK, Agree, Side
      <3> QED
        BY <2>1, <3>1 DEF Stages, Side
    <2>2. CASE k # c
      BY <1>3, <2>2, BeginFacts DEF TunnelIInv, TunnelTypeOK, Agree, Stages
    <2> QED
      BY <2>1, <2>2
  <1>7. RawIsOwn'
    <2> SUFFICES ASSUME NEW k \in Conn, NEW d \in Way,
                        (place[k] = "copy" /\ mode[k].how = "splice" /\ fwd[k][d] = "loop")'
                 PROVE  raw'[k][d] = <<fd'[k][From(d)], fd'[k][To(d)]>>
      BY DEF RawIsOwn
    <2>1. k # c /\ fwd'[k] = fwd[k] /\ mode' = mode /\ raw' = raw
      BY <1>3, BeginFacts
    <2>2. place'[k] = place[k] /\ fd'[k] = fd[k]
      BY <1>3, <2>1 DEF TunnelIInv, TunnelTypeOK, Agree
    <2> QED
      BY <2>1, <2>2 DEF TunnelIInv, RawIsOwn
  <1>8. StrayOnlyAfterClose'
    BY <1>2, <1>3 DEF TunnelIInv, TunnelTypeOK, TunnelShape, StrayOnlyAfterClose
  <1>9. Agree(owner, fd)' /\ TunnelTypeOK'
    BY <1>4, <1>5, <1>6, TunnelTypesSuffice, KnownDescriptors DEF Agree
  <1> QED
    BY <1>5, <1>6, <1>7, <1>8, <1>9 DEF TunnelIInv

\* DialFails and Close leave the same state behind.
LEMMA TunnelCloseKeepsIInv == ASSUME TunnelIInv, NEW c \in Conn, DialFails(c) \/ Close(c) PROVE TunnelIInv'
  <1>1. /\ owner' = Freed(c) /\ fd' = [fd EXCEPT ![c] = [e \in Side |-> None]]
        /\ place' = [place EXCEPT ![c] = "done"]
        /\ UNCHANGED <<mode, run, loop, fwd, raw, stray>>
    BY DEF DialFails, Close, copying
  <1>2. Agree(owner', fd')
    BY <1>1, FreedAgrees, KnownDescriptors DEF TunnelIInv
  <1>3. TunnelTypes' /\ TunnelShape'
    BY <1>1 DEF TunnelIInv, TunnelTypeOK, TunnelTypes, TunnelShape
  <1>4. (\A k \in Conn : Stages(k))'
    BY <1>1 DEF TunnelIInv, TunnelTypeOK, Agree, Stages
  <1>5. RawIsOwn'
    BY <1>1 DEF TunnelIInv, TunnelTypeOK, Agree, RawIsOwn
  <1>6. StrayOnlyAfterClose'
    BY <1>1 DEF TunnelIInv, TunnelTypeOK, TunnelShape, StrayOnlyAfterClose
  <1>7. Agree(owner, fd)' /\ TunnelTypeOK'
    BY <1>2, <1>3, <1>4, TunnelTypesSuffice, KnownDescriptors DEF Agree
  <1> QED
    BY <1>3, <1>4, <1>5, <1>6, <1>7 DEF TunnelIInv

LEMMA TunnelGetFdKeepsIInv == ASSUME TunnelIInv, NEW c \in Conn, NEW d \in Way, GetFd(c, d) PROVE TunnelIInv'
  <1>1. UNCHANGED <<mode, run, loop, place, fd, owner, stray>>
    BY DEF GetFd, handlers
  <1>2. FdOf(c, From(d)) \in Fd \union {Stdin} /\ FdOf(c, To(d)) \in Fd \union {Stdin}
    BY SrcDst DEF TunnelIInv, Agree, FdOf
  <1>3. TunnelTypes' /\ TunnelShape'
    BY <1>1, <1>2 DEF TunnelIInv, TunnelTypeOK, TunnelTypes, TunnelShape, GetFd
  <1>4. (\A k \in Conn : Stages(k))'
    BY <1>1 DEF TunnelIInv, TunnelTypeOK, Stages, GetFd
  <1>5. RawIsOwn'
    <2> SUFFICES ASSUME NEW k \in Conn, NEW x \in Way,
                        (place[k] = "copy" /\ mode[k].how = "splice" /\ fwd[k][x] = "loop")'
                 PROVE  raw'[k][x] = <<fd[k][From(x)], fd[k][To(x)]>>
      BY <1>1 DEF RawIsOwn
    <2>1. CASE k = c /\ x = d
      <3>1. raw'[k][x] = <<FdOf(c, From(d)), FdOf(c, To(d))>>
        BY <2>1 DEF TunnelIInv, TunnelTypeOK, GetFd
      <3>2. fd[c][From(d)] # None /\ fd[c][To(d)] # None
        BY <1>1, <2>1, SrcDst DEF TunnelIInv, Stages
      <3> QED
        BY <2>1, <3>1, <3>2 DEF FdOf
    <2>2. CASE ~ (k = c /\ x = d)
      <3>1. raw'[k][x] = raw[k][x] /\ fwd'[k][x] = fwd[k][x]
        BY <2>2 DEF TunnelIInv, TunnelTypeOK, GetFd
      <3> QED
        BY <1>1, <3>1 DEF TunnelIInv, RawIsOwn
    <2> QED
      BY <2>1, <2>2
  <1>6. StrayOnlyAfterClose'
    BY <1>1 DEF TunnelIInv, StrayOnlyAfterClose
  <1>7. Agree(owner, fd)' /\ TunnelTypeOK'
    BY <1>1, <1>3, <1>4, TunnelTypesSuffice, KnownDescriptors DEF TunnelIInv, Agree
  <1> QED
    BY <1>3, <1>4, <1>5, <1>6, <1>7 DEF TunnelIInv

\* A goroutine that forwards no more.
LEMMA TunnelLeaveKeepsIInv ==
    ASSUME TunnelIInv, NEW c \in Conn, NEW d \in Way, NEW l \in {"paused", "ended"},
           fwd[c][d] = "loop", Quit(c, d, l), UNCHANGED <<mode, run, loop, handlers, stray>>
    PROVE  TunnelIInv'
  <1>1. UNCHANGED <<mode, run, loop, place, fd, owner, stray>>
    BY DEF handlers
  <1>2. TunnelTypes' /\ TunnelShape'
    BY <1>1 DEF TunnelIInv, TunnelTypeOK, TunnelTypes, TunnelShape, Quit
  <1>3. (\A k \in Conn : Stages(k))'
    BY <1>1 DEF TunnelIInv, TunnelTypeOK, Stages, Quit
  <1>4. RawIsOwn'
    BY <1>1 DEF TunnelIInv, TunnelTypeOK, RawIsOwn, Quit
  <1>5. StrayOnlyAfterClose'
    BY <1>1 DEF TunnelIInv, StrayOnlyAfterClose
  <1>6. Agree(owner, fd)' /\ TunnelTypeOK'
    BY <1>1, <1>2, <1>3, TunnelTypesSuffice, KnownDescriptors DEF TunnelIInv, Agree
  <1> QED
    BY <1>2, <1>3, <1>4, <1>5, <1>6 DEF TunnelIInv

\* Bytes move through descriptors of others only once the handler has closed its own.
LEMMA TunnelSpliceMovesKeepsIInv ==
    ASSUME TunnelIInv, NEW c \in Conn, NEW d \in Way, SpliceMoves(c, d) PROVE TunnelIInv'
  <1>1. UNCHANGED <<mode, run, loop, place, fd, owner, fwd, raw>>
    BY DEF SpliceMoves, handlers, copying
  <1>2. HoldsForeign(c, d) => place[c] = "done"
    <2> SUFFICES ASSUME place[c] # "done" PROVE ~ HoldsForeign(c, d)
      OBVIOUS
    <2>1. place[c] = "copy" /\ mode[c].how = "splice" /\ fwd[c][d] = "loop"
      BY DEF TunnelIInv, TunnelTypeOK, Stages, SpliceMoves, Splicing
    <2>2. raw[c][d][1] = fd[c][From(d)] /\ raw[c][d][2] = fd[c][To(d)]
      BY <2>1 DEF TunnelIInv, RawIsOwn
    <2>3. \A e \in Side : owner[fd[c][e]] = <<c, e>>
      BY <2>1 DEF TunnelIInv, Stages, Agree
    <2> QED
      BY <2>2, <2>3, SrcDst DEF HoldsForeign, Foreign
  <1>3. TunnelTypes' /\ TunnelShape'
    BY <1>1 DEF TunnelIInv, TunnelTypeOK, TunnelTypes, TunnelShape, SpliceMoves
  <1>4. (\A k \in Conn : Stages(k))'
    BY <1>1 DEF TunnelIInv, Stages
  <1>5. RawIsOwn'
    BY <1>1 DEF TunnelIInv, RawIsOwn
  <1>6. StrayOnlyAfterClose'
    BY <1>1, <1>2 DEF TunnelIInv, StrayOnlyAfterClose, SpliceMoves
  <1>7. Agree(owner, fd)' /\ TunnelTypeOK'
    BY <1>1, <1>3, <1>4, TunnelTypesSuffice, KnownDescriptors DEF TunnelIInv, Agree
  <1> QED
    BY <1>3, <1>4, <1>5, <1>6, <1>7 DEF TunnelIInv

LEMMA TunnelExitKeepsIInv == ASSUME TunnelIInv, Exit PROVE TunnelIInv'
  <1>1. /\ mode' = mode /\ stray' = {} /\ run' = "exited" /\ loop' = FALSE
        /\ place' = Nothing.pc /\ fd' = Nothing.fd /\ owner' = Nothing.owner
        /\ fwd' = Nothing.fwd /\ raw' = Nothing.raw
    BY DEF Exit
  <1>2. Agree(owner', fd')
    BY <1>1, TunnelNothingFacts, KnownDescriptors
  <1>3. (\A c \in Conn : Stages(c))'
    BY <1>1, TunnelNothingFacts, KnownDescriptors DEF Stages
  <1>4. TunnelTypes' /\ TunnelShape'
    BY <1>1, TunnelNothingFacts, KnownDescriptors DEF TunnelIInv, TunnelTypes, TunnelShape
  <1>5. RawIsOwn' /\ StrayOnlyAfterClose'
    BY <1>1, TunnelNothingFacts, KnownDescriptors DEF RawIsOwn, StrayOnlyAfterClose
  <1>6. Agree(owner, fd)' /\ TunnelTypeOK'
    BY <1>2, <1>3, <1>4, TunnelTypesSuffice, KnownDescriptors DEF Agree
  <1> QED
    BY <1>3, <1>4, <1>5, <1>6 DEF TunnelIInv

LEMMA TunnelNextIInv == TunnelIInv /\ [TunnelNext]_tunnelVars => TunnelIInv'
  <1> SUFFICES ASSUME TunnelIInv, [TunnelNext]_tunnelVars PROVE TunnelIInv'
    OBVIOUS
  <1>1. CASE StartTunnel \/ StartFails \/ AcceptFails \/ StopCloses \/ StopReturns
    BY <1>1, TunnelQuietKeepsIInv
       DEF StartTunnel, StartFails, AcceptFails, StopCloses, StopReturns, TunnelIInv, TunnelTypeOK
  <1>2. CASE Exit
    BY <1>2, TunnelExitKeepsIInv
  <1>3. ASSUME NEW c \in Conn, Accept(c) \/ PairBegins(c) \/ HandleConnection(c) PROVE TunnelIInv'
    BY <1>3, TunnelAcceptKeepsIInv, TunnelPairBeginsKeepsIInv, TunnelDialKeepsIInv, TunnelCloseKeepsIInv DEF HandleConnection
  <1>4. ASSUME NEW c \in Conn, Expires(c) \/ \E e \in Side : PeerCloses(c, e) PROVE TunnelIInv'
    BY <1>4, TunnelQuietKeepsIInv DEF Expires, PeerCloses, TunnelIInv, TunnelTypeOK
  <1>5. ASSUME NEW c \in Conn, NEW d \in Way,
               Goroutine(c, d) \/ SpliceMoves(c, d) \/ SpliceAgain(c, d) \/ SpliceErrs(c, d)
        PROVE  TunnelIInv'
    <2>1. CASE GetFd(c, d)
      BY <2>1, TunnelGetFdKeepsIInv
    <2>2. CASE SpliceMoves(c, d)
      BY <2>2, TunnelSpliceMovesKeepsIInv
    <2>3. CASE SpliceFails(c, d) \/ SpliceAgain(c, d) \/ SpliceErrs(c, d) \/ BufferFails(c, d)
      BY <2>3, TunnelLeaveKeepsIInv DEF SpliceFails, SpliceAgain, SpliceErrs, BufferFails, Splicing
    <2> QED
      BY <1>5, <2>1, <2>2, <2>3 DEF Goroutine
  <1>6. CASE UNCHANGED tunnelVars
    BY <1>6, TunnelQuietKeepsIInv DEF tunnelVars, TunnelIInv, TunnelTypeOK
  <1> QED
    BY <1>1, <1>2, <1>3, <1>4, <1>5, <1>6 DEF TunnelNext

-----------------------------------------------------------------------------
\* The inductive invariant: descriptors and their owners agree, handlers have the ends
\* open that their stage says, and a goroutine whose handler has not returned splices
\* on the descriptors of its own connection.
THEOREM TunnelInductiveInvariant == TunnelSpec => []TunnelIInv
  BY TunnelInitIInv, TunnelNextIInv, PTL DEF TunnelSpec

\* However connections are accepted, dialled, paired and closed, and whatever numbers
\* the kernel gives out again: a descriptor has one owner, whose handler has not
\* returned, and bytes reach a connection of somebody else only through a goroutine
\* whose own handler has (tunnel.go:502, forward_linux.go:92).
THEOREM DescriptorsAreOwned == TunnelSpec => []DescriptorsOwned
  <1>1. TunnelIInv => DescriptorsOwned
    BY DEF TunnelIInv, DescriptorsOwned
  <1> QED
    BY <1>1, TunnelInductiveInvariant, PTL

=============================================================================
