------------------------------ MODULE Semaphore ------------------------------
(****************************************************************************)
(* What a limiter promises (internal/limiter/limiter.go): "limits the number *)
(* of concurrent connections".  A caller holds a slot of every limiter or of *)
(* none, no limiter has more holders than its maximum, and a slot that was   *)
(* given back can be had again.  An attempt may be refused at any time.      *)
(****************************************************************************)
EXTENDS Integers, FiniteSets

CONSTANTS
    Caller,
    Limiter,
    Max         \* Max[i]: the maximum of limiter i

VARIABLE
    holders     \* the callers that hold a slot

Init == holders = {}

Acquire(g) ==
    /\ g \notin holders
    /\ \A i \in Limiter : Cardinality(holders) < Max[i]
    /\ holders' = holders \cup {g}

Release(g) ==
    /\ g \in holders
    /\ holders' = holders \ {g}

Next == \E g \in Caller : Acquire(g) \/ Release(g)

Spec == Init /\ [][Next]_holders
=============================================================================
