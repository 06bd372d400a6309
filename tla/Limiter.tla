------------------------------- MODULE Limiter -------------------------------
(****************************************************************************)
(* The lock-free limiters (internal/limiter/limiter.go): ConnectionLimiter   *)
(* and GoroutineLimiter, which load a counter and compare-and-swap it until  *)
(* that succeeds, and CompositeLimiter, which acquires several in order and  *)
(* takes back what it has when one of them refuses.  One ConnectionLimiter   *)
(* is a composite of one.                                                    *)
(*                                                                           *)
(* A caller acquires, works, releases, and starts over, as                   *)
(* handleExternalConnection and GoroutineLimiter.Go do.                      *)
(****************************************************************************)
EXTENDS Integers, FiniteSets

CONSTANTS
    Caller,
    N,          \* the limiters of the composite are 1 .. N
    Max         \* Max[i]: the maximum of limiter i

Limiter == 1 .. N

ASSUME LimiterAssumption ==
    /\ IsFiniteSet(Caller)
    /\ N \in Nat \ {0}
    /\ Max \in [Limiter -> Nat]

VARIABLES
    pc,         \* pc[g]: what caller g is about to do
    at,         \* at[g]: the limiter it does it to
    upto,       \* upto[g]: the last limiter it has to release
    seen,       \* seen[g]: the counter value it loaded
    current     \* current[i]: the counter of limiter i

vars == <<pc, at, upto, seen, current>>

PCs == {"out", "acquire", "increment", "in", "release", "decrement"}

Init ==
    /\ pc = [g \in Caller |-> "out"]
    /\ at = [g \in Caller |-> 1]
    /\ upto = [g \in Caller |-> N]
    /\ seen = [g \in Caller |-> 0]
    /\ current = [i \in Limiter |-> 0]

Goto(g, l) == pc' = [pc EXCEPT ![g] = l]

\* g releases the limiters 1 .. last, then it is out.
StartRelease(g, last) ==
    /\ Goto(g, "release")
    /\ at' = [at EXCEPT ![g] = 1]
    /\ upto' = [upto EXCEPT ![g] = last]

----------------------------------------------------------------------------
(* Acquire *)

Acquire(g) ==
    /\ pc[g] = "out"
    /\ Goto(g, "acquire")
    /\ at' = [at EXCEPT ![g] = 1]
    /\ UNCHANGED <<upto, seen, current>>

\* The counter is loaded and is below the maximum.
Load(g) ==
    /\ pc[g] = "acquire" /\ current[at[g]] < Max[at[g]]
    /\ seen' = [seen EXCEPT ![g] = current[at[g]]]
    /\ Goto(g, "increment")
    /\ UNCHANGED <<at, upto, current>>

\* Mutant: the limiter that refused is released with the others.
Refused_ReleasesAll(g) ==
    /\ pc[g] = "acquire" /\ current[at[g]] >= Max[at[g]]
    /\ StartRelease(g, at[g])
    /\ UNCHANGED <<seen, current>>

\* ErrLimitExceeded: the limiters acquired before are released.
Refused(g) ==
    /\ pc[g] = "acquire" /\ current[at[g]] >= Max[at[g]]
    /\ IF at[g] = 1
       THEN Goto(g, "out") /\ UNCHANGED <<at, upto>>
       ELSE StartRelease(g, at[g] - 1)
    /\ UNCHANGED <<seen, current>>

\* Mutant: a plain store.
Increment_NoCompare(g) ==
    /\ pc[g] = "increment"
    /\ current' = [current EXCEPT ![at[g]] = seen[g] + 1]
    /\ IF at[g] = N
       THEN Goto(g, "in") /\ UNCHANGED at
       ELSE Goto(g, "acquire") /\ at' = [at EXCEPT ![g] = @ + 1]
    /\ UNCHANGED <<upto, seen>>

\* Mutant: a failed compare-and-swap is repeated with the old value.
Increment_NoReload(g) ==
    /\ pc[g] = "increment"
    /\ IF current[at[g]] = seen[g]
       THEN /\ current' = [current EXCEPT ![at[g]] = seen[g] + 1]
            /\ IF at[g] = N
               THEN Goto(g, "in") /\ UNCHANGED at
               ELSE Goto(g, "acquire") /\ at' = [at EXCEPT ![g] = @ + 1]
       ELSE UNCHANGED <<pc, at, current>>
    /\ UNCHANGED <<upto, seen>>

\* CompareAndSwap(current, current+1), or back to the load.
Increment(g) ==
    /\ pc[g] = "increment"
    /\ IF current[at[g]] = seen[g]
       THEN /\ current' = [current EXCEPT ![at[g]] = seen[g] + 1]
            /\ IF at[g] = N
               THEN Goto(g, "in") /\ UNCHANGED at
               ELSE Goto(g, "acquire") /\ at' = [at EXCEPT ![g] = @ + 1]
       ELSE Goto(g, "acquire") /\ UNCHANGED <<at, current>>
    /\ UNCHANGED <<upto, seen>>

----------------------------------------------------------------------------
(* Release *)

Release(g) ==
    /\ pc[g] = "in"
    /\ StartRelease(g, N)
    /\ UNCHANGED <<seen, current>>

\* The limiter at[g] is done with: the next one, or out.
Released(g) ==
    IF at[g] = upto[g]
    THEN Goto(g, "out") /\ UNCHANGED at
    ELSE Goto(g, "release") /\ at' = [at EXCEPT ![g] = @ + 1]

\* The counter is loaded; nothing is done to one that is not positive.
LoadToRelease(g) ==
    /\ pc[g] = "release"
    /\ IF current[at[g]] <= 0
       THEN Released(g) /\ UNCHANGED seen
       ELSE /\ seen' = [seen EXCEPT ![g] = current[at[g]]]
            /\ Goto(g, "decrement")
            /\ UNCHANGED at
    /\ UNCHANGED <<upto, current>>

\* CompareAndSwap(current, current-1), or back to the load.
Decrement(g) ==
    /\ pc[g] = "decrement"
    /\ IF current[at[g]] = seen[g]
       THEN /\ current' = [current EXCEPT ![at[g]] = seen[g] - 1]
            /\ Released(g)
       ELSE Goto(g, "release") /\ UNCHANGED <<at, current>>
    /\ UNCHANGED <<upto, seen>>

----------------------------------------------------------------------------
Operation(g) == Load(g) \/ Refused(g) \/ Increment(g) \/ LoadToRelease(g) \/ Decrement(g)

Next == \E g \in Caller : Acquire(g) \/ Release(g) \/ Operation(g)

Spec == Init /\ [][Next]_vars

\* An operation that has begun goes on; whether one begins is up to the caller.
FairSpec == Spec /\ \A g \in Caller : WF_vars(Operation(g))

----------------------------------------------------------------------------
TypeOK ==
    /\ pc \in [Caller -> PCs]
    /\ at \in [Caller -> Limiter] /\ upto \in [Caller -> Limiter]
    /\ seen \in [Caller -> Nat]
    /\ current \in [Limiter -> Nat] /\ \A i \in Limiter : current[i] <= Max[i]

\* g has incremented the counter of i and not decremented it since.
Holds(g, i) ==
    \/ pc[g] = "in"
    \/ pc[g] \in {"acquire", "increment"} /\ i < at[g]
    \/ pc[g] \in {"release", "decrement"} /\ at[g] <= i /\ i <= upto[g]

\* Every counter is the number of callers that hold a slot of it, also in the
\* middle of an acquisition or a rollback: no update is lost and a failed Acquire
\* leaves nothing behind.  In particular Release never finds a counter at 0.
Accounting == \A i \in Limiter : current[i] = Cardinality({g \in Caller : Holds(g, i)})

\* The limiters are never over-subscribed, and a successful Acquire and the end of
\* a Release are single steps to everyone else: Limiter implements Semaphore.
Sem == INSTANCE Semaphore WITH holders <- {g \in Caller : pc[g] = "in"}

ImplementsSemaphore == Sem!Spec

\* Lock-freedom: the retry loops cannot keep the callers busy with each other for
\* ever.  Unless new operations keep beginning, every operation gets to its end.
OperationsFinish ==
    \/ []<>(\A g \in Caller : pc[g] \in {"out", "in"})
    \/ []<><<\E g \in Caller : Acquire(g) \/ Release(g)>>_vars
=============================================================================
