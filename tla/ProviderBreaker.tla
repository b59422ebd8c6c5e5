----------------------------- MODULE ProviderBreaker -----------------------------
(***************************************************************************)
(* The circuit breaker of each provider, shared by every request of the    *)
(* process: cockatiel's, as getProviderCircuitBreaker makes it and         *)
(* runWithRetries uses it.  Whether a failure carries the sampled rate     *)
(* past the threshold is left open.                                        *)
(***************************************************************************)
EXTENDS Naturals

CONSTANTS
    Provider,
    MaxTrips   \* bound on the closed circuits that open in a behaviour; 0 with
               \* CIRCUIT_BREAKER_ENABLED off

VARIABLES
    circuit,   \* [Provider -> {"closed", "open", "due", "half"}]: "due" is open
               \* for halfOpenAfter already, "half" has a test in flight
    trips

breakerVars == <<circuit, trips>>

ASSUME BreakerAssumption == MaxTrips \in Nat

Circuit == {"closed", "open", "due", "half"}
\* The state of the circuit a call was let through in.
Era == {"closed", "half"}

BreakerTypeOK ==
    /\ circuit \in [Provider -> Circuit]
    /\ trips \in 0..MaxTrips

BreakerInit ==
    /\ circuit = [p \in Provider |-> "closed"]
    /\ trips = 0

\* open(): a circuit that is open already stays as it is.
Opened(p) == IF circuit[p] \in {"closed", "half"} THEN [circuit EXCEPT ![p] = "open"] ELSE circuit

\* close(): a test that ends well, or in an error the breaker does not count.
Passed(p, era) ==
    IF era = "half" /\ circuit[p] = "half" THEN [circuit EXCEPT ![p] = "closed"] ELSE circuit

\* A failure the breaker counts: it ends a test, or may carry the rate past the threshold.
countFailure(p, era) ==
    \/ /\ era = "half"
       /\ circuit' = Opened(p)
       /\ UNCHANGED trips
    \/ /\ era = "closed"
       /\ UNCHANGED breakerVars
    \/ /\ era = "closed"
       /\ circuit[p] \in {"closed", "half"}
       /\ trips < MaxTrips
       /\ trips' = trips + 1
       /\ circuit' = Opened(p)

HalfOpenAfter(p) ==
    /\ circuit[p] = "open"
    /\ circuit' = [circuit EXCEPT ![p] = "due"]
    /\ UNCHANGED trips
=================================================================================
