--------------------------- MODULE CircuitBreaker ---------------------------
(***************************************************************************)
(* The local state of one CircuitBreaker (lib/ai/circuit-breaker.ts) and   *)
(* what its methods do to it.  Time is left to the caller: Elapse is what  *)
(* getState does once recoveryTimeoutMs have passed.                       *)
(***************************************************************************)
EXTENDS Naturals

CONSTANT Threshold    \* failureThreshold

ASSUME ThresholdAssumption == Threshold \in Nat \ {0}

CircuitStates == {"CLOSED", "OPEN", "HALF_OPEN"}

Breakers == [state : CircuitStates, failures : 0..Threshold]

NewBreaker == [state |-> "CLOSED", failures |-> 0]

\* transitionTo: OPEN pins the count at the threshold, CLOSED clears it.
TransitionTo(b, next) ==
    [state |-> next,
     failures |-> CASE next = "OPEN"      -> Threshold
                    [] next = "CLOSED"    -> 0
                    [] next = "HALF_OPEN" -> b.failures]

\* getState, when the recovery timeout has passed.
Elapse(b) == IF b.state = "OPEN" THEN TransitionTo(b, "HALF_OPEN") ELSE b

\* The state is looked at when the call returns, not when it was admitted.
OnSuccess(b) == TransitionTo(b, "CLOSED")

Trips(b) == b.state = "HALF_OPEN" \/ b.failures + 1 >= Threshold

OnFailure(b) ==
    IF Trips(b) THEN TransitionTo(b, "OPEN") ELSE [b EXCEPT !.failures = @ + 1]
=============================================================================
