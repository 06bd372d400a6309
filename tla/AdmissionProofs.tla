--------------------------- MODULE AdmissionProofs ---------------------------
(****************************************************************************)
(* Theorems about the two components that decide whether a connection or a   *)
(* request is admitted: Limiter, for any finite set of callers and any number *)
(* of limiters with any maxima (the counters are exact, and the composite of *)
(* compare-and-swap loops implements Semaphore), and Breaker, for any number *)
(* of requests and any thresholds.                                           *)
(****************************************************************************)
EXTENDS Limiter, Breaker, FiniteSetTheorems, TLAPS

----------------------------------------------------------------------------
(* Limiter *)

Holders(i) == {g \in Caller : Holds(g, i)}

\* What a caller knows between its load and its compare-and-swap.
CallerInv ==
    \A g \in Caller :
        /\ pc[g] = "increment" => seen[g] < Max[at[g]]
        /\ pc[g] = "decrement" => seen[g] > 0
        /\ pc[g] \in {"release", "decrement"} => at[g] <= upto[g]

IInv == TypeOK /\ CallerInv /\ Accounting

LEMMA InitIInv == Init => IInv
  <1> SUFFICES ASSUME Init PROVE IInv
    OBVIOUS
  <1>1. TypeOK
    BY LimiterAssumption DEF Init, TypeOK, PCs, Limiter
  <1>2. CallerInv
    BY DEF Init, CallerInv
  <1>3. \A i \in Limiter : {g \in Caller : Holds(g, i)} = {}
    BY DEF Init, Holds
  <1>4. Accounting
    BY <1>3, FS_EmptySet DEF Accounting, Init
  <1> QED
    BY <1>1, <1>2, <1>4 DEF IInv

\* The sets that the counters count are finite.
LEMMA HoldersFinite == \A i : IsFiniteSet(Holders(i)) /\ Cardinality(Holders(i)) \in Nat
  BY LimiterAssumption, FS_Subset, FS_CardinalityType DEF Holders

\* The limiters are numbered without gaps.
LEMMA LimiterFacts ==
    /\ 1 \in Limiter /\ N \in Limiter
    /\ \A i \in Limiter :
          /\ i \in Nat /\ 1 <= i /\ i <= N
          /\ i # N => i + 1 \in Limiter
          /\ i # 1 => i - 1 \in Limiter
          /\ Max[i] \in Nat
  BY LimiterAssumption DEF Limiter

\* The three outcomes of Increment: in, on to the next limiter, or once more.
LEMMA IncrementCases ==
    ASSUME NEW g \in Caller, Increment(g)
    PROVE  /\ pc[g] = "increment" /\ UNCHANGED <<upto, seen>>
           /\ \/ /\ current[at[g]] = seen[g] /\ at[g] = N
                 /\ current' = [current EXCEPT ![at[g]] = seen[g] + 1]
                 /\ pc' = [pc EXCEPT ![g] = "in"] /\ at' = at
              \/ /\ current[at[g]] = seen[g] /\ at[g] # N
                 /\ current' = [current EXCEPT ![at[g]] = seen[g] + 1]
                 /\ pc' = [pc EXCEPT ![g] = "acquire"] /\ at' = [at EXCEPT ![g] = at[g] + 1]
              \/ /\ current[at[g]] # seen[g]
                 /\ pc' = [pc EXCEPT ![g] = "acquire"] /\ UNCHANGED <<at, current>>
  BY DEF Increment, Goto

\* The three outcomes of Decrement: out, on to the next limiter, or once more.
LEMMA DecrementCases ==
    ASSUME NEW g \in Caller, Decrement(g)
    PROVE  /\ pc[g] = "decrement" /\ UNCHANGED <<upto, seen>>
           /\ \/ /\ current[at[g]] = seen[g] /\ at[g] = upto[g]
                 /\ current' = [current EXCEPT ![at[g]] = seen[g] - 1]
                 /\ pc' = [pc EXCEPT ![g] = "out"] /\ at' = at
              \/ /\ current[at[g]] = seen[g] /\ at[g] # upto[g]
                 /\ current' = [current EXCEPT ![at[g]] = seen[g] - 1]
                 /\ pc' = [pc EXCEPT ![g] = "release"] /\ at' = [at EXCEPT ![g] = at[g] + 1]
              \/ /\ current[at[g]] # seen[g]
                 /\ pc' = [pc EXCEPT ![g] = "release"] /\ UNCHANGED <<at, current>>
  BY DEF Decrement, Released, Goto

\* A caller that releases a limiter holds it, so LoadToRelease finds it positive.
LEMMA LoadToReleaseCases ==
    ASSUME IInv, NEW g \in Caller, LoadToRelease(g)
    PROVE  /\ pc[g] = "release" /\ current[at[g]] > 0
           /\ pc' = [pc EXCEPT ![g] = "decrement"]
           /\ seen' = [seen EXCEPT ![g] = current[at[g]]]
           /\ UNCHANGED <<at, upto, current>>
  <1>1. pc[g] = "release" /\ at[g] \in Limiter /\ current[at[g]] \in Nat
    BY DEF IInv, TypeOK, LoadToRelease
  <1>2. at[g] <= at[g] /\ at[g] <= upto[g]
    BY <1>1, LimiterFacts DEF IInv, CallerInv, TypeOK, Limiter
  <1>3. g \in Holders(at[g])
    BY <1>1, <1>2 DEF Holders, Holds
  <1>4. current[at[g]] = Cardinality(Holders(at[g]))
    BY <1>1 DEF IInv, Accounting, Holders
  <1>5. current[at[g]] # 0
    BY <1>3, <1>4, HoldersFinite, FS_EmptySet
  <1>6. current[at[g]] > 0
    BY <1>1, <1>5
  <1> QED
    BY <1>1, <1>6 DEF LoadToRelease, Goto

\* Storing a value within the maximum in one counter.
LEMMA CounterType ==
    ASSUME TypeOK, NEW k \in Limiter, NEW v \in Nat, v <= Max[k],
           current' = [current EXCEPT ![k] = v]
    PROVE  current' \in [Limiter -> Nat] /\ \A i \in Limiter : current'[i] <= Max[i]
  BY LimiterAssumption DEF TypeOK, Limiter

LEMMA TypeStep == IInv /\ [Next]_vars => TypeOK' /\ CallerInv'
  <1> SUFFICES ASSUME IInv, TypeOK, CallerInv, [Next]_vars PROVE TypeOK' /\ CallerInv'
    BY DEF IInv
  <1> USE DEF TypeOK
  <1>a. 1 \in Limiter /\ N \in Limiter /\ 1 <= N
    BY LimiterFacts
  <1>b. \A g \in Caller :
           /\ at[g] \in Limiter /\ upto[g] \in Limiter
           /\ at[g] \in Nat /\ upto[g] \in Nat /\ 1 <= at[g] /\ upto[g] <= N
           /\ seen[g] \in Nat /\ current[at[g]] \in Nat /\ Max[at[g]] \in Nat
           /\ current[at[g]] <= Max[at[g]]
    BY LimiterFacts
  <1>1. ASSUME NEW g \in Caller, Acquire(g) PROVE TypeOK' /\ CallerInv'
    <2>1. TypeOK'
      BY <1>1, <1>a DEF Acquire, Goto, PCs
    <2>2. CallerInv'
      BY <1>1 DEF Acquire, Goto, CallerInv
    <2> QED
      BY <2>1, <2>2
  <1>2. ASSUME NEW g \in Caller, Load(g) PROVE TypeOK' /\ CallerInv'
    <2>1. TypeOK'
      BY <1>2, <1>b DEF Load, Goto, PCs
    <2>2. CallerInv'
      BY <1>2, <1>b DEF Load, Goto, CallerInv
    <2> QED
      BY <2>1, <2>2
  <1>3. ASSUME NEW g \in Caller, Refused(g) PROVE TypeOK' /\ CallerInv'
    <2>1. CASE at[g] = 1
      BY <1>3, <2>1 DEF Refused, Goto, CallerInv, PCs
    <2>2. CASE at[g] # 1
      <3>1. StartRelease(g, at[g] - 1) /\ UNCHANGED <<seen, current>>
        BY <1>3, <2>2 DEF Refused
      <3>2. at[g] - 1 \in Limiter /\ 1 <= at[g] - 1
        BY <1>b, <2>2, LimiterFacts
      <3>3. TypeOK'
        BY <3>1, <3>2, <1>a DEF StartRelease, Goto, PCs
      <3>4. CallerInv'
        BY <3>1, <3>2 DEF StartRelease, Goto, CallerInv
      <3> QED
        BY <3>3, <3>4
    <2> QED
      BY <2>1, <2>2
  <1>4. ASSUME NEW g \in Caller, Increment(g) PROVE TypeOK' /\ CallerInv'
    <2>1. seen[g] + 1 \in Nat /\ seen[g] + 1 <= Max[at[g]]
      <3>1. seen[g] < Max[at[g]]
        BY <1>4, IncrementCases DEF CallerInv
      <3> QED
        BY <3>1, <1>b
    <2>2. at[g] # N => at[g] + 1 \in Limiter
      BY <1>b, LimiterFacts
    <2>3. /\ pc' \in [Caller -> PCs] /\ UNCHANGED <<upto, seen>>
          /\ \A e \in Caller : pc'[e] \in {"increment", "decrement", "release"} =>
                pc'[e] = pc[e] /\ at'[e] = at[e]
      BY <1>4, IncrementCases DEF PCs
    <2>4. at' \in [Caller -> Limiter]
      BY <1>4, <2>2, IncrementCases
    <2>5. current' \in [Limiter -> Nat] /\ \A i \in Limiter : current'[i] <= Max[i]
      <3>1. CASE UNCHANGED current
        BY <3>1
      <3>2. CASE current' = [current EXCEPT ![at[g]] = seen[g] + 1]
        BY <3>2, <1>b, <2>1, CounterType
      <3> QED
        BY <1>4, <3>1, <3>2, IncrementCases
    <2>6. CallerInv'
      BY <2>3 DEF CallerInv
    <2> QED
      BY <2>3, <2>4, <2>5, <2>6
  <1>5. ASSUME NEW g \in Caller, Release(g) PROVE TypeOK' /\ CallerInv'
    <2>1. TypeOK'
      BY <1>5, <1>a DEF Release, StartRelease, Goto, PCs
    <2>2. CallerInv'
      BY <1>5, <1>a DEF Release, StartRelease, Goto, CallerInv
    <2> QED
      BY <2>1, <2>2
  <1>6. ASSUME NEW g \in Caller, LoadToRelease(g) PROVE TypeOK' /\ CallerInv'
    <2>1. TypeOK'
      BY <1>6, <1>b, LoadToReleaseCases DEF PCs
    <2>2. CallerInv'
      BY <1>6, LoadToReleaseCases DEF CallerInv
    <2> QED
      BY <2>1, <2>2
  <1>7. ASSUME NEW g \in Caller, Decrement(g) PROVE TypeOK' /\ CallerInv'
    <2>1. at[g] <= upto[g] /\ seen[g] > 0
      BY <1>7, DecrementCases DEF CallerInv
    <2>2. seen[g] - 1 \in Nat /\ (current[at[g]] = seen[g] => seen[g] - 1 <= Max[at[g]])
      BY <1>b, <2>1
    <2>3. at[g] # upto[g] => at[g] + 1 \in Limiter /\ at[g] + 1 <= upto[g]
      <3>1. at[g] # upto[g] => at[g] # N /\ at[g] + 1 <= upto[g]
        BY <1>a, <1>b, <2>1, LimiterFacts
      <3> QED
        BY <3>1, <1>b, LimiterFacts
    <2>4. pc' \in [Caller -> PCs] /\ UNCHANGED <<upto, seen>>
      BY <1>7, DecrementCases DEF PCs
    <2>5. at' \in [Caller -> Limiter]
      BY <1>7, <2>3, DecrementCases
    <2>6. current' \in [Limiter -> Nat] /\ \A i \in Limiter : current'[i] <= Max[i]
      <3>1. CASE UNCHANGED current
        BY <3>1
      <3>2. CASE current[at[g]] = seen[g] /\ current' = [current EXCEPT ![at[g]] = seen[g] - 1]
        BY <3>2, <1>b, <2>2, CounterType
      <3> QED
        BY <1>7, <3>1, <3>2, DecrementCases
    <2>7. \A e \in Caller : pc'[e] \in {"increment", "decrement", "release"} =>
             \/ pc'[e] = pc[e] /\ at'[e] = at[e]
             \/ e = g /\ pc'[e] = "release" /\ at'[e] <= upto[e]
      BY <1>7, <2>1, <2>3, DecrementCases
    <2>8. CallerInv'
      BY <2>4, <2>7 DEF CallerInv
    <2> QED
      BY <2>4, <2>5, <2>6, <2>8
  <1>8. CASE UNCHANGED vars
    BY <1>8 DEF vars, CallerInv
  <1> QED
    BY <1>1, <1>2, <1>3, <1>4, <1>5, <1>6, <1>7, <1>8 DEF Next, Operation

\* A step that keeps the counters and who holds what keeps the accounts.
LEMMA AccountingFrame ==
    ASSUME Accounting, UNCHANGED current,
           \A g \in Caller, i \in Limiter : Holds(g, i)' <=> Holds(g, i)
    PROVE  Accounting'
  <1>1. \A i \in Limiter : Holders(i)' = Holders(i)
    BY DEF Holders
  <1> QED
    BY <1>1 DEF Accounting, Holders

\* A step of g that adds itself to, or takes itself off, the holders of limiter k.
LEMMA OneMore ==
    ASSUME Accounting, TypeOK, NEW g \in Caller, NEW k \in Limiter,
           current' = [current EXCEPT ![k] = current[k] + 1],
           \A e \in Caller \ {g}, i \in Limiter : Holds(e, i)' <=> Holds(e, i),
           \A i \in Limiter : Holds(g, i)' <=> Holds(g, i) \/ i = k,
           ~Holds(g, k)
    PROVE  Accounting'
  <1>1. \A i \in Limiter \ {k} : Holders(i)' = Holders(i)
    BY DEF Holders
  <1>2. Holders(k)' = Holders(k) \cup {g} /\ g \notin Holders(k)
    BY DEF Holders
  <1>3. Cardinality(Holders(k)') = Cardinality(Holders(k)) + 1
    BY <1>2, HoldersFinite, FS_AddElement
  <1>4. \A i \in Limiter : current'[i] = IF i = k THEN current[k] + 1 ELSE current[i]
    BY DEF TypeOK
  <1>5. \A i \in Limiter : current[i] = Cardinality(Holders(i))
    BY DEF Accounting, Holders
  <1>6. \A i \in Limiter : current'[i] = Cardinality(Holders(i)')
    BY <1>1, <1>3, <1>4, <1>5
  <1> QED
    BY <1>6 DEF Accounting, Holders

LEMMA OneLess ==
    ASSUME Accounting, TypeOK, NEW g \in Caller, NEW k \in Limiter,
           current' = [current EXCEPT ![k] = current[k] - 1],
           \A e \in Caller \ {g}, i \in Limiter : Holds(e, i)' <=> Holds(e, i),
           \A i \in Limiter : Holds(g, i)' <=> Holds(g, i) /\ i # k,
           Holds(g, k)
    PROVE  Accounting'
  <1>1. \A i \in Limiter \ {k} : Holders(i)' = Holders(i)
    BY DEF Holders
  <1>2. Holders(k)' = Holders(k) \ {g} /\ g \in Holders(k)
    BY DEF Holders
  <1>3. Cardinality(Holders(k)') = Cardinality(Holders(k)) - 1
    BY <1>2, HoldersFinite, FS_RemoveElement
  <1>4. \A i \in Limiter : current'[i] = IF i = k THEN current[k] - 1 ELSE current[i]
    BY DEF TypeOK
  <1>5. \A i \in Limiter : current[i] = Cardinality(Holders(i))
    BY DEF Accounting, Holders
  <1>6. \A i \in Limiter : current'[i] = Cardinality(Holders(i)')
    BY <1>1, <1>3, <1>4, <1>5
  <1> QED
    BY <1>6 DEF Accounting, Holders

\* A step of g leaves what the others hold alone.
LEMMA OthersHold ==
    ASSUME TypeOK, NEW g \in Caller, Acquire(g) \/ Release(g) \/ Operation(g)
    PROVE  \A e \in Caller \ {g}, i \in Limiter : Holds(e, i)' <=> Holds(e, i)
  <1>1. \A e \in Caller \ {g} : pc'[e] = pc[e] /\ at'[e] = at[e] /\ upto'[e] = upto[e]
    <2>1. CASE Acquire(g) \/ Release(g) \/ Load(g)
      BY <2>1 DEF TypeOK, Acquire, Release, Load, StartRelease, Goto
    <2>2. CASE Refused(g)
      BY <2>2 DEF TypeOK, Refused, StartRelease, Goto
    <2>3. CASE Increment(g)
      BY <2>3, IncrementCases DEF TypeOK
    <2>4. CASE LoadToRelease(g)
      BY <2>4 DEF TypeOK, LoadToRelease, Released, Goto
    <2>5. CASE Decrement(g)
      BY <2>5, DecrementCases DEF TypeOK
    <2> QED
      BY <2>1, <2>2, <2>3, <2>4, <2>5 DEF Operation
  <1> QED
    BY <1>1 DEF Holds

LEMMA AccountingStep == IInv /\ [Next]_vars => Accounting'
  <1> SUFFICES ASSUME IInv, TypeOK, CallerInv, Accounting, [Next]_vars PROVE Accounting'
    BY DEF IInv
  <1>1. ASSUME NEW g \in Caller, Acquire(g) \/ Load(g) \/ Refused(g) \/ Release(g) PROVE Accounting'
    <2>1. \A i \in Limiter : Holds(g, i)' <=> Holds(g, i)
      <3>1. CASE Acquire(g)
        BY <3>1, LimiterAssumption DEF Acquire, Goto, Holds, TypeOK, Limiter
      <3>2. CASE Load(g)
        BY <3>2 DEF Load, Goto, Holds, TypeOK
      <3>3. CASE Refused(g) /\ at[g] = 1
        BY <3>3, LimiterAssumption DEF Refused, Goto, Holds, TypeOK, Limiter
      <3>4. CASE Refused(g) /\ at[g] # 1
        <4>1. /\ pc[g] = "acquire" /\ pc'[g] = "release"
              /\ at'[g] = 1 /\ upto'[g] = at[g] - 1 /\ at[g] \in Limiter
          BY <3>4 DEF Refused, StartRelease, Goto, TypeOK
        <4> QED
          BY <4>1, LimiterAssumption DEF Holds, Limiter
      <3>5. CASE Release(g)
        <4>1. pc[g] = "in" /\ pc'[g] = "release" /\ at'[g] = 1 /\ upto'[g] = N
          BY <3>5 DEF Release, StartRelease, Goto, TypeOK
        <4> QED
          BY <4>1, LimiterAssumption DEF Holds, Limiter
      <3> QED
        BY <1>1, <3>1, <3>2, <3>3, <3>4, <3>5
    <2>2. UNCHANGED current
      BY <1>1 DEF Acquire, Load, Refused, Release
    <2>3. \A e \in Caller, i \in Limiter : Holds(e, i)' <=> Holds(e, i)
      BY <1>1, <2>1, OthersHold DEF Operation
    <2> QED
      BY <2>2, <2>3, AccountingFrame
  <1>2. ASSUME NEW g \in Caller, Increment(g) PROVE Accounting'
    <2>1. at[g] \in Limiter /\ pc[g] = "increment"
      BY <1>2, IncrementCases DEF TypeOK
    <2>2. \A e \in Caller \ {g}, i \in Limiter : Holds(e, i)' <=> Holds(e, i)
      BY <1>2, OthersHold DEF Operation
    <2>3. CASE current[at[g]] = seen[g]
      <3>1. current' = [current EXCEPT ![at[g]] = current[at[g]] + 1]
        BY <1>2, <2>3, IncrementCases
      <3>2. \/ at[g] = N /\ pc'[g] = "in"
            \/ pc'[g] = "acquire" /\ at'[g] = at[g] + 1
        BY <1>2, <2>3, IncrementCases DEF TypeOK
      <3>3. /\ \A i \in Limiter : Holds(g, i)' <=> Holds(g, i) \/ i = at[g]
            /\ ~Holds(g, at[g])
        BY <2>1, <3>2, LimiterAssumption DEF Holds, Limiter
      <3> QED
        BY <2>1, <2>2, <3>1, <3>3, OneMore
    <2>4. CASE current[at[g]] # seen[g]
      <3>1. pc'[g] = "acquire" /\ at'[g] = at[g] /\ UNCHANGED current
        BY <1>2, <2>4, IncrementCases DEF TypeOK
      <3>2. \A e \in Caller, i \in Limiter : Holds(e, i)' <=> Holds(e, i)
        BY <2>1, <2>2, <3>1 DEF Holds
      <3> QED
        BY <3>1, <3>2, AccountingFrame
    <2> QED
      BY <2>3, <2>4
  <1>3. ASSUME NEW g \in Caller, LoadToRelease(g) PROVE Accounting'
    <2>1. pc[g] = "release" /\ pc'[g] = "decrement" /\ UNCHANGED <<at, upto, current>>
      BY <1>3, LoadToReleaseCases DEF TypeOK
    <2>2. \A e \in Caller, i \in Limiter : Holds(e, i)' <=> Holds(e, i)
      BY <1>3, <2>1, OthersHold DEF Operation, Holds
    <2> QED
      BY <2>1, <2>2, AccountingFrame
  <1>4. ASSUME NEW g \in Caller, Decrement(g) PROVE Accounting'
    <2>1. at[g] \in Limiter /\ upto[g] \in Limiter /\ pc[g] = "decrement" /\ upto'[g] = upto[g]
      BY <1>4, DecrementCases DEF TypeOK
    <2>2. \A e \in Caller \ {g}, i \in Limiter : Holds(e, i)' <=> Holds(e, i)
      BY <1>4, OthersHold DEF Operation
    <2>3. CASE current[at[g]] = seen[g]
      <3>1. current' = [current EXCEPT ![at[g]] = current[at[g]] - 1]
        BY <1>4, <2>3, DecrementCases
      <3>2. \/ at[g] = upto[g] /\ pc'[g] = "out"
            \/ pc'[g] = "release" /\ at'[g] = at[g] + 1
        BY <1>4, <2>3, DecrementCases DEF TypeOK
      <3>3. at[g] <= upto[g]
        BY <2>1 DEF CallerInv
      <3>4. /\ \A i \in Limiter : Holds(g, i)' <=> Holds(g, i) /\ i # at[g]
            /\ Holds(g, at[g])
        BY <2>1, <3>2, <3>3, LimiterAssumption DEF Holds, Limiter
      <3> QED
        BY <2>1, <2>2, <3>1, <3>4, OneLess
    <2>4. CASE current[at[g]] # seen[g]
      <3>1. pc'[g] = "release" /\ at'[g] = at[g] /\ UNCHANGED current
        BY <1>4, <2>4, DecrementCases DEF TypeOK
      <3>2. \A e \in Caller, i \in Limiter : Holds(e, i)' <=> Holds(e, i)
        BY <2>1, <2>2, <3>1 DEF Holds
      <3> QED
        BY <3>1, <3>2, AccountingFrame
    <2> QED
      BY <2>3, <2>4
  <1>5. CASE UNCHANGED vars
    BY <1>5, AccountingFrame DEF vars, Holds
  <1> QED
    BY <1>1, <1>2, <1>3, <1>4, <1>5 DEF Next, Operation

\* The inductive invariant holds in every reachable state.
THEOREM InductiveInvariant == Spec => []IInv
  <1>1. IInv /\ [Next]_vars => IInv'
    BY TypeStep, AccountingStep DEF IInv
  <1> QED
    BY InitIInv, <1>1, PTL DEF Spec

\* No counter ever exceeds its limiter's maximum or drops below zero.
THEOREM TypeCorrect == Spec => []TypeOK
  <1>1. IInv => TypeOK
    BY DEF IInv
  <1> QED
    BY InductiveInvariant, <1>1, PTL

\* The counters are exact, whatever compare-and-swaps fail and wherever a composite
\* acquisition is rolled back.
THEOREM CountersAreExact == Spec => []Accounting
  <1>1. IInv => Accounting
    BY DEF IInv
  <1> QED
    BY InductiveInvariant, <1>1, PTL

\* Callers that are in, who all hold a slot of every limiter.
In == {g \in Caller : pc[g] = "in"}

\* The step that lets g in finds room in every limiter.
LEMMA RoomForOne ==
    ASSUME IInv, NEW g \in Caller, pc[g] = "increment", at[g] = N, current[N] = seen[g],
           NEW i \in Limiter
    PROVE  Cardinality(In) < Max[i]
  <1> USE LimiterAssumption, LimiterFacts DEF IInv, Limiter
  <1>1. IsFiniteSet(Holders(i)) /\ In \subseteq Holders(i) /\ current[i] = Cardinality(Holders(i))
    BY HoldersFinite DEF In, Holders, Holds, Accounting
  <1>2. IsFiniteSet(In) /\ Cardinality(In) \in Nat /\ Cardinality(In) <= Cardinality(Holders(i))
    BY <1>1, FS_Subset, FS_CardinalityType
  <1>3. CASE i = N
    <2>1. seen[g] < Max[i] /\ current[i] = seen[g] /\ seen[g] \in Nat /\ Max[i] \in Nat
      BY <1>3 DEF CallerInv, TypeOK
    <2> QED
      BY <1>1, <1>2, <2>1
  <1>4. CASE i # N
    <2>1. g \in Holders(i) /\ g \notin In
      BY <1>4 DEF Holders, Holds, In
    <2>2. Cardinality(In) # Cardinality(Holders(i))
      BY <1>1, <2>1, FS_Subset
    <2> QED
      BY <1>1, <1>2, <2>2 DEF TypeOK
  <1> QED
    BY <1>3, <1>4

\* ConnectionLimiter, GoroutineLimiter and CompositeLimiter implement Semaphore: no
\* limiter is over-subscribed, and callers are let in and out in single steps.
THEOREM LimiterImplementsSemaphore == Spec => ImplementsSemaphore
  <1>1. Init => Sem!Init
    BY DEF Init, Sem!Init
  <1>2. IInv /\ [Next]_vars => [Sem!Next]_In
    <2> SUFFICES ASSUME IInv, [Next]_vars PROVE Sem!Next \/ UNCHANGED In
      OBVIOUS
    <2> USE DEF IInv, TypeOK
    <2>1. ASSUME NEW g \in Caller, Acquire(g) \/ Load(g) \/ Refused(g) PROVE UNCHANGED In
      BY <2>1 DEF Acquire, Load, Refused, StartRelease, Goto, In
    <2>2. ASSUME NEW g \in Caller, LoadToRelease(g) \/ Decrement(g) PROVE UNCHANGED In
      BY <2>2 DEF LoadToRelease, Decrement, Released, Goto, In
    <2>3. ASSUME NEW g \in Caller, Release(g) PROVE Sem!Release(g)
      BY <2>3 DEF Release, StartRelease, Goto, Sem!Release
    <2>4. ASSUME NEW g \in Caller, Increment(g) PROVE Sem!Acquire(g) \/ UNCHANGED In
      <3>1. CASE current[at[g]] = seen[g] /\ at[g] = N
        <4>1. \A i \in Limiter : Cardinality(In) < Max[i]
          <5>1. pc[g] = "increment" /\ at[g] = N /\ current[N] = seen[g]
            BY <2>4, <3>1 DEF Increment
          <5> HIDE DEF IInv, TypeOK
          <5> QED
            BY <5>1, RoomForOne
        <4>2. g \notin In /\ In' = In \cup {g}
          BY <2>4, <3>1 DEF Increment, Goto, In
        <4>3. Sem!Cardinality(In) = Cardinality(In)
          BY Zenon DEF Sem!Cardinality, Cardinality
        <4> QED
          BY <4>1, <4>2, <4>3 DEF Sem!Acquire, In
      <3>2. CASE ~(current[at[g]] = seen[g] /\ at[g] = N)
        BY <2>4, <3>2 DEF Increment, Goto, In
      <3> QED
        BY <3>1, <3>2
    <2>5. CASE UNCHANGED vars
      BY <2>5 DEF vars, In
    <2> QED
      BY <2>1, <2>2, <2>3, <2>4, <2>5 DEF Next, Operation, Sem!Next
  <1>3. Sem!Spec <=> Sem!Init /\ [][Sem!Next]_In
    BY DEF Sem!Spec, In
  <1> QED
    BY <1>1, <1>2, <1>3, InductiveInvariant, PTL DEF Spec, ImplementsSemaphore

----------------------------------------------------------------------------
(* Breaker *)

\* r holds the lock, or is about to take it to leave state s.
BreakerLeaving(r, s) == place[r] = "reset" \/ (place[r] = "lock" /\ s \in want[r].from)

\* A threshold that has been reached has a caller that will act on it.
BreakerThresholdInv ==
    /\ state = "closed" /\ failures >= FailureThreshold => \E r \in Requester : BreakerLeaving(r,
        "closed")
    /\ state = "half-open" /\ successes >= SuccessThreshold =>
         \E r \in Requester : BreakerLeaving(r, "half-open")

BreakerIInv == Thresholds /\ BreakerTypeOK /\ TransitionsExclude /\ BreakerThresholdInv

LEMMA BreakerInvInit == BreakerInit => BreakerIInv
  BY ThresholdsAssumption DEF Thresholds, BreakerInit, BreakerIInv, BreakerTypeOK, TransitionsExclude, BreakerThresholdInv,
      BreakerPCs, Quiet, State, NoWish

LEMMA BreakerWishType ==
    ASSUME BreakerTypeOK, NEW r \in Requester, NEW from \in SUBSET State, NEW to \in State,
           NEW next \in Quiet, WantLock(r, from, to, next)
    PROVE  /\ want' \in [Requester -> [from : SUBSET State, to : State, next : Quiet]]
           /\ want'[r].from = from /\ want'[r].to = to
           /\ \A q \in Requester \ {r} : want'[q] = want[q]
           /\ place' = [place EXCEPT ![r] = "lock"]
  BY DEF BreakerTypeOK, WantLock, BreakerGoto

LEMMA BreakerTypeStep == BreakerIInv /\ [BreakerNext]_breakerVars => BreakerTypeOK'
  <1> SUFFICES ASSUME BreakerIInv, [BreakerNext]_breakerVars PROVE BreakerTypeOK'
    OBVIOUS
  <1> USE DEF Thresholds, BreakerIInv, BreakerTypeOK, BreakerPCs, Quiet, State, counters
  <1>1. ASSUME NEW r \in Requester, Allow(r) \/ Finish(r) PROVE BreakerTypeOK'
    BY <1>1 DEF Allow, Finish, RecordSuccess, RecordFailure, Abandon, BreakerGoto
  <1>2. ASSUME NEW r \in Requester, CheckTimeout(r) PROVE BreakerTypeOK'
    <2>1. CASE expired
      BY <1>2, <2>1, BreakerWishType DEF CheckTimeout
    <2>2. CASE ~expired
      BY <1>2, <2>2 DEF CheckTimeout, BreakerGoto
    <2> QED
      BY <2>1, <2>2
  <1>3. ASSUME NEW r \in Requester, CountRequest(r) PROVE BreakerTypeOK'
    BY <1>3 DEF CountRequest, BreakerGoto
  <1>4. ASSUME NEW r \in Requester, ResetFailures(r) PROVE BreakerTypeOK'
    BY <1>4 DEF ResetFailures, BreakerGoto
  <1>5. ASSUME NEW r \in Requester, CountSuccess(r) PROVE BreakerTypeOK'
    <2>1. CASE successes' >= SuccessThreshold
      BY <1>5, <2>1, BreakerWishType DEF CountSuccess
    <2>2. CASE ~(successes' >= SuccessThreshold)
      BY <1>5, <2>2 DEF CountSuccess, BreakerGoto
    <2> QED
      BY <2>1, <2>2
  <1>6. ASSUME NEW r \in Requester, CountFailure(r) PROVE BreakerTypeOK'
    <2>1. failures' = failures + 1 \/ failures' = failures
      BY <1>6 DEF CountFailure
    <2>2. failures' \in Nat
      BY <2>1
    <2>3. expired' = FALSE /\ UNCHANGED <<state, successes, requests, mu>>
      BY <1>6 DEF CountFailure
    <2>4. ASSUME WantLock(r, {"closed"}, "open", "idle") \/ WantLock(r, {"half-open"},
        "open", "idle")
          PROVE  place' \in [Requester -> BreakerPCs]
                 /\ want' \in [Requester -> [from : SUBSET State, to : State, next : Quiet]]
      BY <2>4, BreakerWishType
    <2>5. ASSUME BreakerGoto(r, "idle") /\ UNCHANGED want
          PROVE  place' \in [Requester -> BreakerPCs]
                 /\ want' \in [Requester -> [from : SUBSET State, to : State, next : Quiet]]
      BY <2>5 DEF BreakerGoto
    <2>6. place' \in [Requester -> BreakerPCs]
          /\ want' \in [Requester -> [from : SUBSET State, to : State, next : Quiet]]
      BY <1>6, <2>4, <2>5 DEF CountFailure
    <2> QED
      BY <2>2, <2>3, <2>6
  <1>7. ASSUME NEW r \in Requester, Reset(r) \/ ForceOpen(r) PROVE BreakerTypeOK'
    BY <1>7, BreakerWishType DEF Reset, ForceOpen
  <1>8. ASSUME NEW r \in Requester, Lock(r) PROVE BreakerTypeOK'
    BY <1>8 DEF Lock, Satisfied, NoWish, BreakerGoto
  <1>9. ASSUME NEW r \in Requester, ResetCounters(r) PROVE BreakerTypeOK'
    BY <1>9 DEF ResetCounters, Satisfied, NoWish, BreakerGoto
  <1>10. CASE Elapse \/ UNCHANGED breakerVars
    BY <1>10 DEF Elapse, breakerVars
  <1> QED
    BY <1>1, <1>2, <1>3, <1>4, <1>5, <1>6, <1>7, <1>8, <1>9, <1>10
    DEF BreakerNext, Internal

\* A caller between the new state and the reset of the counters holds the lock, so
\* nobody else changes the state.
LEMMA BreakerExcludeStep == BreakerIInv /\ [BreakerNext]_breakerVars => TransitionsExclude'
  <1> SUFFICES ASSUME BreakerIInv, [BreakerNext]_breakerVars PROVE TransitionsExclude'
    OBVIOUS
  <1> USE DEF BreakerIInv, BreakerTypeOK, TransitionsExclude, counters
  \* Steps that take no lock and only move their caller.
  <1>1. ASSUME NEW r \in Requester, NEW l, l # "reset", place' = [place EXCEPT ![r] = l],
               \A q \in Requester \ {r} : want'[q] = want[q], UNCHANGED <<state, mu>>
        PROVE  TransitionsExclude'
    BY <1>1
  <1>2. ASSUME NEW r \in Requester, Allow(r) \/ Finish(r)
        PROVE  TransitionsExclude'
    BY <1>1, <1>2
    DEF Allow, Finish, RecordSuccess, RecordFailure, Abandon, BreakerGoto, State
  <1>3. ASSUME NEW r \in Requester, CheckTimeout(r) \/ CountSuccess(r) \/ CountFailure(r)
                                 \/ Reset(r) \/ ForceOpen(r)
        PROVE  TransitionsExclude'
    <2>1. UNCHANGED <<state, mu>>
      BY <1>3 DEF CheckTimeout, CountSuccess, CountFailure, Reset, ForceOpen
    <2>2. place' = [place EXCEPT ![r] = "lock"] \/ place' = [place EXCEPT ![r] = "idle"]
      BY <1>3
      DEF CheckTimeout, CountSuccess, CountFailure, Reset, ForceOpen, WantLock, BreakerGoto
    <2>3. \A q \in Requester \ {r} : want'[q] = want[q]
      BY <1>3 DEF CheckTimeout, CountSuccess, CountFailure, Reset, ForceOpen, WantLock
    <2> QED
      BY <1>1, <2>1, <2>2, <2>3
  <1>4. ASSUME NEW r \in Requester, CountRequest(r) \/ ResetFailures(r) PROVE TransitionsExclude'
    BY <1>1, <1>4 DEF CountRequest, ResetFailures, BreakerGoto
  <1>5. ASSUME NEW r \in Requester, Lock(r) PROVE TransitionsExclude'
    <2>1. want[r].next # "reset"
      BY DEF Quiet
    <2> QED
      BY <1>5, <2>1 DEF Thresholds, Lock, Satisfied, NoWish, BreakerGoto
  <1>6. ASSUME NEW r \in Requester, ResetCounters(r) PROVE TransitionsExclude'
    <2>1. want[r].next # "reset"
      BY DEF Quiet
    <2> QED
      BY <1>6, <2>1 DEF ResetCounters, Satisfied, NoWish, BreakerGoto
  <1>7. CASE Elapse \/ UNCHANGED breakerVars
    BY <1>7 DEF Elapse, breakerVars
  <1> QED
    BY <1>2, <1>3, <1>4, <1>5, <1>6, <1>7 DEF BreakerNext, Internal

\* The caller whose count reaches a threshold goes for the lock; one that finds the
\* state changed was not needed, and one that changes it resets the counters.
LEMMA BreakerThresholdStep == BreakerIInv /\ [BreakerNext]_breakerVars => BreakerThresholdInv'
  <1> SUFFICES ASSUME BreakerIInv, [BreakerNext]_breakerVars PROVE BreakerThresholdInv'
    OBVIOUS
  <1> USE DEF BreakerIInv, BreakerTypeOK, counters
  \* Steps of a caller that neither has nor wants the lock, and that do not count.
  <1>1. ASSUME NEW r \in Requester, place[r] \notin {"lock", "reset"},
               \A q \in Requester \ {r} : place'[q] = place[q] /\ want'[q] = want[q],
               failures' \in {failures, 0}, UNCHANGED <<state, successes>>
        PROVE  BreakerThresholdInv'
    BY <1>1 DEF Thresholds, BreakerThresholdInv, BreakerLeaving
  <1>2. ASSUME NEW r \in Requester, Allow(r) \/ Finish(r)
        PROVE  BreakerThresholdInv'
    BY <1>1, <1>2 DEF Allow, Finish, RecordSuccess, RecordFailure, Abandon, BreakerGoto
  <1>3. ASSUME NEW r \in Requester,
      CheckTimeout(r) \/ Reset(r) \/ ForceOpen(r) PROVE BreakerThresholdInv'
    BY <1>1, <1>3 DEF CheckTimeout, Reset, ForceOpen, WantLock, BreakerGoto
  <1>4. ASSUME NEW r \in Requester, CountRequest(r) \/ ResetFailures(r) PROVE BreakerThresholdInv'
    BY <1>1, <1>4 DEF CountRequest, ResetFailures, BreakerGoto
  <1>5. ASSUME NEW r \in Requester, CountSuccess(r) PROVE BreakerThresholdInv'
    <2>1. place[r] \notin {"lock", "reset"} /\ UNCHANGED <<state, failures>>
      BY <1>5 DEF CountSuccess
    <2>2. \A q \in Requester \ {r} : place'[q] = place[q] /\ want'[q] = want[q]
      BY <1>5 DEF CountSuccess, WantLock, BreakerGoto
    <2>3. successes' >= SuccessThreshold => BreakerLeaving(r, "half-open")'
      BY <1>5, BreakerWishType DEF CountSuccess, BreakerLeaving, State, Quiet
    <2> QED
      BY <2>1, <2>2, <2>3 DEF BreakerThresholdInv, BreakerLeaving
  <1>6. ASSUME NEW r \in Requester, CountFailure(r) PROVE BreakerThresholdInv'
    <2>1. place[r] \notin {"lock", "reset"} /\ UNCHANGED <<state, successes>>
      BY <1>6 DEF CountFailure
    <2>2. \A q \in Requester \ {r} : place'[q] = place[q] /\ want'[q] = want[q]
      BY <1>6 DEF CountFailure, WantLock, BreakerGoto
    <2>3. failures' = failures \/ (failures' >= FailureThreshold => BreakerLeaving(r, "closed")')
      BY <1>6, BreakerWishType DEF CountFailure, BreakerLeaving, State, Quiet
    <2> QED
      BY <2>1, <2>2, <2>3 DEF BreakerThresholdInv, BreakerLeaving
  <1>7. ASSUME NEW r \in Requester, Lock(r) PROVE BreakerThresholdInv'
    <2>1. CASE state \in want[r].from
      <3>1. place'[r] = "reset"
        BY <1>7, <2>1 DEF Lock, Satisfied, NoWish, BreakerGoto
      <3> QED
        BY <3>1 DEF BreakerThresholdInv, BreakerLeaving
    <2>2. CASE state \notin want[r].from
      BY <1>7, <2>2 DEF Lock, Satisfied, NoWish, BreakerGoto, BreakerThresholdInv, BreakerLeaving
    <2> QED
      BY <2>1, <2>2
  <1>8. ASSUME NEW r \in Requester, ResetCounters(r) PROVE BreakerThresholdInv'
    BY <1>8 DEF Thresholds, ResetCounters, BreakerThresholdInv
  <1>9. CASE Elapse \/ UNCHANGED breakerVars
    BY <1>9 DEF Elapse, breakerVars, BreakerThresholdInv, BreakerLeaving
  <1> QED
    BY <1>2, <1>3, <1>4, <1>5, <1>6, <1>7, <1>8, <1>9 DEF BreakerNext, Internal

LEMMA BreakerInvStep == BreakerIInv /\ [BreakerNext]_breakerVars => BreakerIInv'
  BY BreakerTypeStep, BreakerExcludeStep, BreakerThresholdStep DEF BreakerIInv, Thresholds

\* The inductive invariant, for any number of callers and any thresholds.
THEOREM BreakerInductiveInvariant == BreakerSpec => []BreakerIInv
  BY BreakerInvInit, BreakerInvStep, PTL DEF BreakerSpec

\* Transitions exclude each other: a state stays until its counters are reset.
THEOREM TransitionsAreExclusive == BreakerSpec => []TransitionsExclude
  BY BreakerInductiveInvariant, PTL DEF BreakerIInv

\* No reached threshold is left without its transition once all calls are over.
THEOREM NoTransitionMissed == BreakerSpec => []NoMissedTransition
  <1>1. BreakerIInv => NoMissedTransition
    BY DEF Thresholds, BreakerIInv, BreakerTypeOK, BreakerThresholdInv, BreakerLeaving,
        NoMissedTransition, Quiet
  <1> QED
    BY <1>1, BreakerInductiveInvariant, PTL
=============================================================================
