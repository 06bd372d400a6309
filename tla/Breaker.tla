------------------------------- MODULE Breaker -------------------------------
(****************************************************************************)
(* The circuit breaker (internal/circuit/circuit.go) under concurrent        *)
(* callers.  State and counters are atomics read and written without the     *)
(* lock; only a transition takes it, and readers see it half done: the new   *)
(* state is stored before the counters are reset.                            *)
(*                                                                           *)
(* A caller runs Allow, then the request, then RecordSuccess or RecordFailure,*)
(* again and again, as Execute does.  MuxServer.handleConnection calls Allow   *)
(* and returns on most errors without recording anything; a caller that does   *)
(* so is gone, like the goroutine of that connection.                          *)
(****************************************************************************)
EXTENDS Integers

CONSTANTS
    Requester,
    FailureThreshold, SuccessThreshold, MaxRequests,  \* Config
    Free        \* the mutex is not held

\* A legal configuration.
Thresholds ==
    /\ FailureThreshold \in Nat \ {0}
    /\ SuccessThreshold \in Nat \ {0}
    /\ MaxRequests \in Nat \ {0}
    /\ Free \notin Requester

ASSUME ThresholdsAssumption == Thresholds

State == {"closed", "open", "half-open"}

VARIABLES
    place,      \* place[r]: where caller r is
    want,       \* want[r]: the transition r wants the lock for, and what it does next
    state, failures, successes, requests,
    expired,    \* more than Timeout has passed since lastFailureTime
    mu          \* the holder of the mutex, or Free

counters == <<failures, successes, requests>>
breakerVars == <<place, want, state, counters, expired, mu>>

Quiet == {"idle", "working", "probing", "gone"}
BreakerPCs == Quiet \cup {"check", "count", "lock", "reset",
                   "succeeded-closed", "succeeded-half",
                   "failed-closed", "failed-open", "failed-half"}

NoWish == [from |-> {}, to |-> "closed", next |-> "idle"]

BreakerInit ==
    /\ place = [r \in Requester |-> "idle"]
    /\ want = [r \in Requester |-> NoWish]
    /\ state = "closed"
    /\ failures = 0 /\ successes = 0 /\ requests = 0
    /\ expired = TRUE  \* lastFailureTime is 0
    /\ mu = Free

BreakerGoto(r, l) == place' = [place EXCEPT ![r] = l]

\* r will take the lock and, if the state is still one of from, change it to to.
WantLock(r, from, to, next) ==
    /\ BreakerGoto(r, "lock")
    /\ want' = [want EXCEPT ![r] = [from |-> from, to |-> to, next |-> next]]

----------------------------------------------------------------------------
(* Allow *)

\* The state is loaded: a closed breaker lets the request through.
Allow(r) ==
    /\ place[r] = "idle"
    /\ BreakerGoto(r, CASE state = "closed"    -> "working"
                 [] state = "open"      -> "check"
                 [] state = "half-open" -> "count")
    /\ UNCHANGED <<want, state, counters, expired, mu>>

\* StateOpen: ErrCircuitOpen until Timeout has elapsed, then a transition to
\* half-open (by whoever gets the lock first) and the request goes through.
CheckTimeout(r) ==
    /\ place[r] = "check"
    /\ IF expired
       THEN WantLock(r, {"open"}, "half-open", "probing")
       ELSE BreakerGoto(r, "idle") /\ UNCHANGED want
    /\ UNCHANGED <<state, counters, expired, mu>>

\* StateHalfOpen: the counter saturates one above the limit, which is all that
\* Allow compares it with.
CountRequest(r) ==
    /\ place[r] = "count"
    /\ requests' = IF requests > MaxRequests THEN requests ELSE requests + 1
    /\ BreakerGoto(r, IF requests' > MaxRequests THEN "idle" ELSE "probing")
    /\ UNCHANGED <<want, state, failures, successes, expired, mu>>

----------------------------------------------------------------------------
(* RecordSuccess, RecordFailure: the state is loaded, then acted upon *)

RecordSuccess(r) ==
    /\ place[r] \in {"working", "probing"}
    /\ BreakerGoto(r, CASE state = "closed"    -> "succeeded-closed"
                 [] state = "open"      -> "idle"
                 [] state = "half-open" -> "succeeded-half")
    /\ UNCHANGED <<want, state, counters, expired, mu>>

ResetFailures(r) ==
    /\ place[r] = "succeeded-closed"
    /\ failures' = 0
    /\ BreakerGoto(r, "idle")
    /\ UNCHANGED <<want, state, successes, requests, expired, mu>>

\* Mutant: more successes than SuccessThreshold are asked for.
CountSuccess_OffByOne(r) ==
    /\ place[r] = "succeeded-half"
    /\ successes' = successes + 1
    /\ IF successes' > SuccessThreshold
       THEN WantLock(r, {"half-open"}, "closed", "idle")
       ELSE BreakerGoto(r, "idle") /\ UNCHANGED want
    /\ UNCHANGED <<state, failures, requests, expired, mu>>

CountSuccess(r) ==
    /\ place[r] = "succeeded-half"
    /\ successes' = successes + 1
    /\ IF successes' >= SuccessThreshold
       THEN WantLock(r, {"half-open"}, "closed", "idle")
       ELSE BreakerGoto(r, "idle") /\ UNCHANGED want
    /\ UNCHANGED <<state, failures, requests, expired, mu>>

RecordFailure(r) ==
    /\ place[r] \in {"working", "probing"}
    /\ BreakerGoto(r, CASE state = "closed"    -> "failed-closed"
                 [] state = "open"      -> "failed-open"
                 [] state = "half-open" -> "failed-half")
    /\ UNCHANGED <<want, state, counters, expired, mu>>

\* lastFailureTime is stored whatever the state: in StateOpen a late failure
\* postpones the recovery.
CountFailure(r) ==
    /\ \/ /\ place[r] = "failed-closed"
          /\ failures' = failures + 1
          /\ IF failures' >= FailureThreshold
             THEN WantLock(r, {"closed"}, "open", "idle")
             ELSE BreakerGoto(r, "idle") /\ UNCHANGED want
       \/ /\ place[r] = "failed-half"
          /\ WantLock(r, {"half-open"}, "open", "idle")
          /\ UNCHANGED failures
       \/ /\ place[r] = "failed-open"
          /\ BreakerGoto(r, "idle")
          /\ UNCHANGED <<want, failures>>
    /\ expired' = FALSE
    /\ UNCHANGED <<state, successes, requests, mu>>

\* handleConnection and handleControlStream return early.
Abandon(r) ==
    /\ place[r] \in {"working", "probing"}
    /\ BreakerGoto(r, "gone")
    /\ UNCHANGED <<want, state, counters, expired, mu>>

----------------------------------------------------------------------------
(* Reset, ForceOpen, and the transition itself *)

Reset(r) ==
    /\ place[r] = "idle"
    /\ WantLock(r, State \ {"closed"}, "closed", "idle")
    /\ UNCHANGED <<state, counters, expired, mu>>

ForceOpen(r) ==
    /\ place[r] = "idle"
    /\ WantLock(r, State \ {"open"}, "open", "idle")
    /\ UNCHANGED <<state, counters, expired, mu>>

\* r has done what it wanted the lock for.
Satisfied(r) == BreakerGoto(r, want[r].next) /\ want' = [want EXCEPT ![r] = NoWish]

\* Mutant: the state is changed without the lock.
Lock_Unlocked(r) ==
    /\ place[r] = "lock"
    /\ IF state \in want[r].from
       THEN /\ state' = want[r].to
            /\ mu' = r
            /\ BreakerGoto(r, "reset") /\ UNCHANGED want
       ELSE Satisfied(r) /\ UNCHANGED <<state, mu>>
    /\ UNCHANGED <<counters, expired>>

\* mu.Lock, the state is checked again, and transition stores the new one.
Lock(r) ==
    /\ place[r] = "lock" /\ mu = Free
    /\ IF state \in want[r].from
       THEN /\ state' = want[r].to
            /\ mu' = r
            /\ BreakerGoto(r, "reset") /\ UNCHANGED want
       ELSE Satisfied(r) /\ UNCHANGED <<state, mu>>
    /\ UNCHANGED <<counters, expired>>

\* Mutant: transition leaves the request counter alone.
ResetCounters_NotRequests(r) ==
    /\ place[r] = "reset"
    /\ failures' = 0 /\ successes' = 0
    /\ mu' = Free
    /\ Satisfied(r)
    /\ UNCHANGED <<state, requests, expired>>

\* The rest of transition, then mu.Unlock.
ResetCounters(r) ==
    /\ place[r] = "reset"
    /\ failures' = 0 /\ successes' = 0 /\ requests' = 0
    /\ mu' = Free
    /\ Satisfied(r)
    /\ UNCHANGED <<state, expired>>

\* Timeout elapses after the last failure.
Elapse ==
    /\ ~expired
    /\ expired' = TRUE
    /\ UNCHANGED <<place, want, state, counters, mu>>

----------------------------------------------------------------------------
Finish(r) == RecordSuccess(r) \/ RecordFailure(r) \/ Abandon(r)
Internal(r) == CheckTimeout(r) \/ CountRequest(r) \/ ResetFailures(r) \/ CountSuccess(r)
               \/ CountFailure(r) \/ ResetCounters(r)

BreakerNext ==
    \/ \E r \in Requester : Allow(r) \/ Finish(r) \/ Internal(r) \/ Lock(r)
                         \/ Reset(r) \/ ForceOpen(r)
    \/ Elapse

BreakerSpec == BreakerInit /\ [][BreakerNext]_breakerVars

\* Requests keep coming and end, time passes, and Go's mutex starves nobody.
\* Whether a request succeeds is open.
Fairness ==
    /\ \A r \in Requester :
         /\ WF_breakerVars(Allow(r)) /\ WF_breakerVars(Finish(r))
         /\ WF_breakerVars(Internal(r)) /\ SF_breakerVars(Lock(r))
    /\ WF_breakerVars(Elapse)

BreakerFairSpec == BreakerSpec /\ Fairness

----------------------------------------------------------------------------
BreakerTypeOK ==
    /\ place \in [Requester -> BreakerPCs]
    /\ want \in [Requester -> [from : SUBSET State, to : State, next : Quiet]]
    /\ state \in State
    /\ failures \in Nat /\ successes \in Nat /\ requests \in 0 .. MaxRequests + 1
    /\ expired \in BOOLEAN
    /\ mu \in Requester \cup {Free}

\* No transition is missed, although counting and changing the state are separate
\* atomic operations: when nobody is inside the breaker, a closed breaker has
\* fewer failures than FailureThreshold and a half-open one fewer successes than
\* SuccessThreshold.
NoMissedTransition ==
    (\A r \in Requester : place[r] \in Quiet) =>
        /\ state = "closed" => failures < FailureThreshold
        /\ state = "half-open" => successes < SuccessThreshold

\* While a transition is half done, its new state stays: transitions exclude
\* each other although the state is read without the lock.
TransitionsExclude ==
    \A r \in Requester : place[r] = "reset" => mu = r /\ state = want[r].to

\* The breaker tests recovery for a while and then decides: half-open is left, by
\* enough successes or by a failure, as long as every request records its result.
HalfOpenResolves ==
    state = "half-open" ~> state # "half-open" \/ \E r \in Requester : place[r] = "gone"
=============================================================================
