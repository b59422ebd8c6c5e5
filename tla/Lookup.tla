------------------------------- MODULE Lookup -------------------------------
(***************************************************************************)
(* Finding the churches nearest to a CEP, on a cache miss: the address of  *)
(* the CEP, its coordinates, the churches nearest as the crow flies, the   *)
(* routes to them.  Three of the four legs walk a chain of upstream        *)
(* providers (runProviderChain), each call behind the rate limiter, the    *)
(* retries and the provider's circuit breaker (runGuardedAttempt), all     *)
(* within one Deadline.  Other requests share the breakers and the         *)
(* reporter of Redis outages; the buckets are shared with every other      *)
(* process, so whether one has a point left is not known here.             *)
(*                                                                         *)
(* The shared fetch of the cache that runs this is in ResilientCache.      *)
(***************************************************************************)
EXTENDS Naturals, Sequences, FiniteSets, OutageReporter, ProviderBreaker, UpstreamProviders

CONSTANTS
    Request,           \* the lookups under way
    AddressProviders, GeoProviders, RoutingProviders,   \* the chains, in order
    MaxRetries,        \* [Provider -> calls in one attempt sequence]
    RawProvider        \* [Provider -> [Reply -> set of results]]

VARIABLES
    look,     \* [Request -> record]: the walk of the legs and of a chain
    call,     \* [Request -> record]: the attempt sequence at one provider
    budget    \* [Request -> Budget]: what is left of the Deadline

vars == <<look, call, budget, breakerVars, outageVars>>

ProvidersOf(chain) == {chain[i] : i \in 1..Len(chain)}

\* The fields of an address a geocoder can be asked about.
Strategy == {"street", "neighborhood", "city"}
Stage == Strategy \cup {"new", "address", "knn", "routing"}
Budget == {"ample", "scarce", "spent"}   \* scarce: below MIN_ATTEMPT_BUDGET_MS
Answer == {"none", "found", "noSuchCep", "noCoordinates", "noChurch",
           "unavailable", "aborted", "rejected", "system"}

ASSUME LookupAssumption ==
    /\ AddressProviders \in Seq(Provider) /\ AddressProviders # <<>>
    /\ GeoProviders \in Seq(Provider) /\ GeoProviders # <<>>
    /\ RoutingProviders \in Seq(Provider) /\ RoutingProviders # <<>>
    /\ MaxRetries \in [Provider -> Nat]
    /\ Fields \subseteq SUBSET Strategy
    /\ RawProvider \in [Provider -> [Reply -> SUBSET Result]]

\* The three chains, and what each says when all its providers denied.
ResilientAddressProvider == [providers |-> AddressProviders, allNotFound |-> "noSuchCep"]
ResilientGeoProvider == [providers |-> GeoProviders, allNotFound |-> "noCoordinates"]
ResilientChurchRoutingProvider == [providers |-> RoutingProviders, allNotFound |-> "noChurch"]

Layer(stage) ==
    CASE stage = "address" -> ResilientAddressProvider
      [] stage = "routing" -> ResilientChurchRoutingProvider
      [] OTHER -> ResilientGeoProvider

ChainOf(stage) == Layer(stage).providers

Attempts(p) == IF MaxRetries[p] = 0 THEN 1 ELSE MaxRetries[p]

NewLookup == [stage |-> "new", at |-> 0, denied |-> 0, said |-> {}, plan |-> <<>>, answer |-> "none"]
NoCall == [step |-> "none", tries |-> 0, era |-> "closed"]
Admission == [step |-> "admit", tries |-> 0, era |-> "closed"]

Asked(l) == ChainOf(look[l].stage)[look[l].at]
Spent(l) == budget[l] = "spent"
Awaited(l) == look[l].answer = "none"

TypeOK ==
    /\ \A l \in Request :
          /\ look[l] \in [stage: Stage, at: Nat, denied: Nat, said: SUBSET Provider,
                          plan: Seq(Strategy), answer: Answer]
          /\ call[l] \in [step: {"none", "admit", "wait", "call", "backoff", "knn"},
                          tries: Nat, era: Era]
          /\ call[l].step \in {"admit", "wait", "call", "backoff"} =>
                /\ look[l].at \in 1..Len(ChainOf(look[l].stage))
                /\ look[l].denied < look[l].at
                /\ call[l].tries <= Attempts(Asked(l))
    /\ budget \in [Request -> Budget]
    /\ BreakerTypeOK
    /\ OutageTypeOK

Init ==
    /\ look = [l \in Request |-> NewLookup]
    /\ call = [l \in Request |-> NoCall]
    /\ budget = [l \in Request |-> "ample"]
    /\ BreakerInit
    /\ OutageInit

-----------------------------------------------------------------------------
(* What follows an outcome, up to the next await: a pair of records. *)

Now(r, c) == [look |-> r, call |-> c]
Settled(r, a) == Now([r EXCEPT !.answer = a], NoCall)

\* The next provider of the chain: none is asked once the budget is spent.
Enter(l, r) == IF Spent(l) THEN Settled(r, "aborted") ELSE Now(r, Admission)

\* (mutant) the tally of the chain walked before is kept
WalkKeepsTally(l, r, stage) == Enter(l, [r EXCEPT !.stage = stage, !.at = 1, !.said = {}])

Walk(l, r, stage) ==
    Enter(l, [r EXCEPT !.stage = stage, !.at = 1, !.denied = 0, !.said = {}])

\* geocodeAddress: the next strategy the address allows; none left is a system error.
NextStrategy(l, r) ==
    IF r.plan = <<>>
      THEN Settled(r, "system")
      ELSE Walk(l, [r EXCEPT !.plan = Tail(r.plan)], Head(r.plan))

\* Every provider said the thing does not exist: allNotFoundError, as each leg takes it.
AllNotFound(l, r) ==
    IF r.stage \in {"street", "neighborhood"}
      THEN NextStrategy(l, r)
      ELSE Settled(r, Layer(r.stage).allNotFound)

decideExhausted(l, r) ==
    IF r.denied = Len(ChainOf(r.stage)) THEN AllNotFound(l, r) ELSE Settled(r, "unavailable")

Onwards(l, r) ==
    IF r.at < Len(ChainOf(r.stage))
      THEN Enter(l, [r EXCEPT !.at = @ + 1])
      ELSE decideExhausted(l, r)

noteNotFound(l, r) ==
    Onwards(l, [r EXCEPT !.denied = @ + 1, !.said = @ \cup {ChainOf(r.stage)[r.at]}])
\* (mutant) a provider that failed is counted with those that denied
noteRetryableAsDenial(l, r) == Onwards(l, [r EXCEPT !.denied = @ + 1])
noteRetryable(l, r) == Onwards(l, r)

\* One provider's outcome, other than a value.
interpret(l, r, outcome) ==
    CASE outcome = "notFound" -> noteNotFound(l, r)
      [] outcome = "retryable" -> noteRetryable(l, r)
      [] OTHER -> Settled(r, outcome)

Goes(l, to) ==
    /\ look' = [look EXCEPT ![l] = to.look]
    /\ call' = [call EXCEPT ![l] = to.call]

\* A sequence nobody awaits ends unheard.
Ends(l, outcome) ==
    Goes(l, IF Awaited(l) THEN interpret(l, look[l], outcome) ELSE Now(look[l], NoCall))

-----------------------------------------------------------------------------
(* One provider: admission, attempts, backoff *)

\* (mutant) the guard is gone
alwaysHasBudget(l) == TRUE
hasBudgetForAttempt(l) == budget[l] = "ample"

Tries(l) == call[l].tries
Stays(l, step) == Goes(l, Now(look[l], [call[l] EXCEPT !.step = step]))

\* The caller is answered as soon as the signal fires; its sequence goes on, unheard.
Unheard(l, step) ==
    Goes(l, Now([look[l] EXCEPT !.answer = "aborted"], [call[l] EXCEPT !.step = step]))

\* attemptOnce: without the budget for it the provider is not called.
attemptOnce(l, era) ==
    IF hasBudgetForAttempt(l)
      THEN /\ Goes(l, Now(look[l], [step |-> "call", tries |-> Tries(l) + 1, era |-> era]))
           /\ circuit' = IF era = "half" THEN [circuit EXCEPT ![Asked(l)] = "half"] ELSE circuit
      ELSE /\ Ends(l, "aborted")
           \* an error the breaker does not count ends a test well
           /\ circuit' = IF era = "half" THEN [circuit EXCEPT ![Asked(l)] = "closed"] ELSE circuit

\* One round of the retry policy: the breaker, then the attempt.
execute(l) ==
    LET c == circuit[Asked(l)] IN
    /\ \/ c = "closed" /\ attemptOnce(l, "closed")
       \/ c = "due" /\ attemptOnce(l, "half")
       \/ /\ c = "half"
          /\ IF Awaited(l) /\ Spent(l) THEN Unheard(l, "wait") ELSE Stays(l, "wait")
          /\ UNCHANGED circuit
       \/ /\ c = "open"
          /\ Ends(l, IF Spent(l) THEN "aborted" ELSE "retryable")
          /\ UNCHANGED circuit
    /\ UNCHANGED trips

\* Redis has a point for this call, or cannot say: the call is let through.
Admitted(l) ==
    /\ call[l].step = "admit"
    /\ succeeded \/ failed
    /\ execute(l)
    /\ UNCHANGED budget

\* The bucket is empty: ProviderRateLimitError.
Refused(l) ==
    /\ call[l].step = "admit"
    /\ Ends(l, "retryable")
    /\ UNCHANGED <<budget, breakerVars, outageVars>>

-----------------------------------------------------------------------------
(* What a call in flight comes to *)

\* The strategies the fields of the address allow, the most precise first.
geocodeAddress(l, r, a) ==
    LET allowed(f) == IF f \in a.fields THEN <<f>> ELSE <<>>
    IN  NextStrategy(l, [r EXCEPT !.plan = allowed("street") \o allowed("neighborhood") \o allowed("city")])

\* Coordinates: out of range they are rejected, with the budget spent nothing is asked.
HasCoordinates(l, r) ==
    {Settled(r, "rejected"),
     IF Spent(l) THEN Settled(r, "aborted")
     ELSE Now([r EXCEPT !.stage = "knn"], [NoCall EXCEPT !.step = "knn"])}

HasAddress(l, r, a) ==
    IF a.coordinates THEN HasCoordinates(l, r) ELSE {geocodeAddress(l, r, a)}

\* Ranked by route, some church is within the ceiling or none is.
rankByDistance(r, matrix) ==
    {Settled(r, "noChurch")} \cup (IF matrix.reachable THEN {Settled(r, "found")} ELSE {})

\* What the provider's decorator hands the chain, whatever the reply.
Results(l) == withinCepRange(UNION {RawProvider[Asked(l)][reply] : reply \in Reply})

ValueOf(l, r, value) ==
    CASE value.kind = "address" -> HasAddress(l, r, value)
      [] value.kind = "matrix" -> rankByDistance(r, value)
      [] OTHER -> HasCoordinates(l, r)

Answers(l) ==
    /\ call[l].step = "call"
    /\ \E value \in Results(l) \ {Null} : \E to \in ValueOf(l, look[l], value) : Goes(l, to)
    /\ circuit' = Passed(Asked(l), call[l].era)
    /\ UNCHANGED <<budget, trips, outageVars>>

\* No breaker counts a denial as a failure: it ends a test well.
Denies(l) ==
    /\ call[l].step = "call"
    /\ Null \in Results(l)
    /\ Ends(l, "notFound")
    /\ circuit' = Passed(Asked(l), call[l].era)
    /\ UNCHANGED <<budget, trips, outageVars>>

\* (mutant) the attempt's own deadline is taken for the request's
classifyAnyTimeout(l) == "aborted"

\* A spent budget outranks whatever the attempt threw; its own timeout is a failure of
\* the provider's.
classifyFailure(l) == IF Spent(l) THEN "aborted" ELSE "retryable"

AfterFailure(l) ==
    IF classifyFailure(l) = "retryable" /\ Tries(l) < Attempts(Asked(l))
      THEN Stays(l, "backoff")
      ELSE Ends(l, classifyFailure(l))

\* An error, a 429, or the attempt's own timeout.
Fails(l) ==
    /\ call[l].step = "call"
    /\ AfterFailure(l)
    /\ countFailure(Asked(l), call[l].era)
    /\ UNCHANGED <<budget, outageVars>>

BackoffEnds(l) ==
    /\ call[l].step = "backoff"
    /\ execute(l)
    /\ UNCHANGED <<budget, outageVars>>

Testing(p) == \E m \in Request : call[m].step = "call" /\ call[m].era = "half" /\ Asked(m) = p

\* The test another request made has ended.
TestSeen(l) ==
    /\ call[l].step = "wait"
    /\ ~Testing(Asked(l))
    /\ IF Spent(l) /\ circuit[Asked(l)] = "closed"
         THEN Ends(l, "aborted") /\ UNCHANGED breakerVars
         ELSE execute(l)
    /\ UNCHANGED <<budget, outageVars>>
-----------------------------------------------------------------------------
(* The legs *)

\* computeNearestChurches, with no coordinates known.
Begin(l) ==
    /\ look[l].stage = "new"
    /\ Awaited(l)
    /\ Goes(l, Walk(l, look[l], "address"))
    /\ UNCHANGED <<budget, breakerVars, outageVars>>

\* The nearest churches are read, under a statement_timeout of what is left.
Located(l) ==
    /\ call[l].step = "knn"
    /\ \/ Goes(l, Walk(l, look[l], "routing"))       \* some are within reach
       \/ Goes(l, Settled(look[l], "noChurch"))      \* there are none, or none in reach
       \/ Goes(l, Settled(look[l], "system"))        \* the query failed or timed out
    /\ UNCHANGED <<budget, breakerVars, outageVars>>

\* (mutant) the sequence is awaited to its end, whatever the signal says
settleLast(l) == UNCHANGED <<look, call, circuit>>

\* abortRace: the signal answers a caller that awaits an attempt sequence.  The
\* call in flight is aborted with it; a backoff or a wait goes on.
settleFirst(l) ==
    CASE call[l].step = "call" ->
           /\ Ends(l, "aborted")
           /\ circuit' = Passed(Asked(l), call[l].era)
      [] call[l].step \in {"backoff", "wait"} /\ Awaited(l) ->
           /\ Unheard(l, call[l].step)
           /\ UNCHANGED circuit
      [] OTHER -> UNCHANGED <<look, call, circuit>>

\* Time passes, or the client goes away.
RunsLow(l) ==
    /\ budget[l] = "ample"
    /\ Awaited(l)
    /\ budget' = [budget EXCEPT ![l] = "scarce"]
    /\ UNCHANGED <<look, call, breakerVars, outageVars>>

RunsOut(l) ==
    /\ ~Spent(l)
    /\ Awaited(l)
    /\ budget' = [budget EXCEPT ![l] = "spent"]
    /\ settleFirst(l)
    /\ UNCHANGED <<trips, outageVars>>
-----------------------------------------------------------------------------
Step(l) ==
    \/ Begin(l) \/ Admitted(l) \/ Refused(l) \/ Answers(l) \/ Denies(l) \/ Fails(l)
    \/ BackoffEnds(l) \/ TestSeen(l) \/ Located(l) \/ RunsLow(l) \/ RunsOut(l)

BreakerTimer ==
    /\ \E p \in Provider : HalfOpenAfter(p)
    /\ UNCHANGED <<look, call, budget, outageVars>>

Next == (\E l \in Request : Step(l)) \/ BreakerTimer

\* The timers of the process and the bounds its connections are given: a command to
\* Redis (commandTimeout) and a query (statement_timeout) come to an end, a provider's
\* answer need not.
Timers(l) ==
    /\ WF_vars(Begin(l))
    /\ WF_vars(Admitted(l) \/ Refused(l))
    /\ WF_vars(BackoffEnds(l))
    /\ WF_vars(TestSeen(l))
    /\ WF_vars(Located(l))
    /\ WF_vars(RunsOut(l))

Spec == Init /\ [][Next]_vars /\ \A l \in Request : Timers(l)
-----------------------------------------------------------------------------
\* What the cache keeps for long (negativeTtlForChurchLookup): the CEP has no place.
NegativeTtl(a) ==
    CASE a \in {"noSuchCep", "noCoordinates"} -> "long"
      [] a = "noChurch" -> "short"
      [] OTHER -> "none"

\* A CEP is recorded for long as having no place only when every provider of the
\* chain that decided was reached by this very lookup and said so: a refusal of the
\* rate limiter, an open circuit, a timeout or an earlier strategy's denial never
\* counts towards it (provider-chain.ts decideExhausted, church-lookup-cache-policy.ts).
LongNegativesAreUnanimous ==
    \A l \in Request :
        NegativeTtl(look[l].answer) = "long" =>
            look[l].said = ProvidersOf(ChainOf(look[l].stage))

\* A lookup is given up as out of time only if its own budget was short: a provider's
\* slowness, or another request's, is never told as this client's timeout
\* (deadline-retry.ts classifyFailure).
AbortedMeansShortBudget ==
    \A l \in Request : look[l].answer = "aborted" => budget[l] # "ample"

CallsStarted(l) == call'[l].step = "call" /\ (call[l].step # "call" \/ call'[l].tries # call[l].tries)

\* Once a lookup is answered or its budget spent, nothing it left behind (a backoff
\* that ends, a wait for another request's test) reaches a provider
\* (deadline-retry.ts settleFirst, attemptOnce).
TheUnheardAskNobody ==
    [][\A l \in Request : CallsStarted(l) => Awaited(l) /\ ~Spent(l)]_vars

\* Every request let through without the shared limit is told once: on a line of its
\* own, in the count of a later line, or in the count still kept, however requests
\* that failed and requests that succeeded take turns (outage-reporter.ts).
EveryBypassIsToldOnce == failOpen = told + suppressed

\* Every lookup is answered although no provider ever answers: the timers are enough,
\* in the wait for another request's test as anywhere else (abortRace, Deadline).
LookupsAreAnswered == \A l \in Request : <>(look[l].answer # "none")
=============================================================================
