--------------------------- MODULE ResilientCache ---------------------------
(***************************************************************************)
(* The single cache layer of the nearest-church lookup: callers of several  *)
(* pods, one Redis, and on each pod the table of shared fetches behind a    *)
(* bulkhead and a circuit breaker.                                          *)
(*                                                                         *)
(* A caller asks once, so a fetch is named by the caller that starts it.    *)
(***************************************************************************)
EXTENDS Naturals, FiniteSets

CONSTANTS
    Caller,      \* calls of getOrFetch
    Pod,         \* processes: each has its own pendingFetches and policies
    Key,         \* cache keys (CEP and routing profile)
    MaxPending,  \* slots of the bulkhead of a pod
    Nobody       \* no pending fetch, no pod, no key

ASSUME CacheAssumption ==
    /\ MaxPending \in Nat \ {0}
    /\ Nobody \notin Caller \cup Pod \cup Key

VARIABLES
    caller,      \* what each call is doing
    flight,      \* the fetch each caller may have started
    pending,     \* pendingFetches of each pod
    redis,       \* the envelope stored under each key
    late,        \* SET commands on their way to Redis
    breaker      \* the circuit of each pod

vars == <<caller, flight, pending, redis, late, breaker>>

-----------------------------------------------------------------------------
(* Answers *)

\* What stays true of the key: a value, or a failure with mode NOT_FOUND or
\* PERMANENT.
Deterministic == {"ok", "notfound", "permanent"}

\* What the fetcher can come back with.
Reply == Deterministic \cup {"retryable", "aborted"}

\* What a caller can be told: the policies add their refusals.
Answer == Reply \cup {"limit", "circuit"}

\* isRetryable: neither NOT_FOUND nor PERMANENT.
isRetryable(a) == a \notin {"notfound", "permanent"}

isErr(a) == a # "ok"

countsAsBreakerFailure(a) == isErr(a) /\ isRetryable(a)

\* Mutant: every failure is remembered.
CacheAll(a) == a \in Answer

\* The envelopes cacheAndReturn writes.
Cacheable(a) == ~isErr(a) \/ ~isRetryable(a)

-----------------------------------------------------------------------------
(* State *)

\* What is left of the fetch's own deadline; scarce: below MIN_ATTEMPT_BUDGET_MS.
Budget == {"ample", "scarce", "spent"}

NewCaller == [phase |-> "new", pod |-> Nobody, key |-> Nobody, on |-> Nobody,
              expired |-> FALSE, answer |-> "none"]

NoFlight == [phase |-> "none", budget |-> "ample", probe |-> FALSE,
             said |-> "none", sent |-> FALSE, answer |-> "none"]

TypeOK ==
    /\ caller \in [Caller -> [phase : {"new", "reading", "missed", "waiting", "done"},
                              pod : Pod \cup {Nobody}, key : Key \cup {Nobody},
                              on : Caller \cup {Nobody}, expired : BOOLEAN,
                              answer : Answer \cup {"none"}]]
    /\ \A c \in Caller : caller[c].phase = "done" <=> caller[c].answer # "none"
    /\ flight \in [Caller -> [phase : {"none", "queued", "running", "writing", "settled", "gone"},
                              budget : Budget, probe : BOOLEAN,
                              said : Reply \cup {"none"}, sent : BOOLEAN,
                              answer : Answer \cup {"none"}]]
    /\ pending \in [Pod -> [Key -> Caller \cup {Nobody}]]
    /\ redis \in [Key -> Answer \cup {"none"}]
    /\ late \subseteq Key \X Answer
    /\ breaker \in [Pod -> {"closed", "open", "halfopen"}]

Init ==
    /\ caller = [c \in Caller |-> NewCaller]
    /\ flight = [c \in Caller |-> NoFlight]
    /\ pending = [p \in Pod |-> [k \in Key |-> Nobody]]
    /\ redis = [k \in Key |-> "none"]
    /\ late = {}
    \* Calls before these may have left the circuit open.
    /\ breaker \in [Pod -> {"closed", "open"}]

\* A fetch runs on the pod and for the key of the caller that started it.
PodOf(f) == caller[f].pod
KeyOf(f) == caller[f].key

\* executeFetch has begun and has not settled: a slot of the bulkhead.
Executing(f) == flight[f].phase \in {"running", "writing"}

\* Registered and not settled.
InFlight(f) == Executing(f) \/ flight[f].phase = "queued"

Probing(p) == \E f \in Caller : Executing(f) /\ flight[f].probe /\ PodOf(f) = p

\* Mutant: one slot too many.
FullTooLate(p) == Cardinality({f \in Caller : Executing(f) /\ PodOf(f) = p}) > MaxPending

Full(p) == Cardinality({f \in Caller : Executing(f) /\ PodOf(f) = p}) >= MaxPending

-----------------------------------------------------------------------------
(* A caller *)

Told(c, a) == [c EXCEPT !.phase = "done", !.answer = a]

\* raceCaller: wait on fetch f, unless the budget is spent (aborted), or f has
\* settled and only awaits deregistration (its answer).
raceCaller(c, f, fl) ==
    LET joined == [c EXCEPT !.on = f]
    IN  IF c.expired THEN Told(joined, "aborted")
        ELSE IF fl[f].phase = "settled" THEN Told(joined, fl[f].answer)
        ELSE [joined EXCEPT !.phase = "waiting"]

\* getOrFetch and tryJoinPendingFetch: a spent budget is refused, a fetch in
\* the table is joined, otherwise Redis is asked.
getOrFetch(c, p, k, spent) ==
    LET arrived == [caller[c] EXCEPT !.pod = p, !.key = k, !.expired = spent]
        f == pending[p][k]
    IN  /\ caller[c].phase = "new"
        /\ caller' = [caller EXCEPT ![c] =
               IF spent THEN Told(arrived, "aborted")
               ELSE IF f # Nobody THEN raceCaller(arrived, f, flight)
               ELSE [arrived EXCEPT !.phase = "reading"]]
        /\ UNCHANGED <<flight, pending, redis, late, breaker>>

\* readHit finds an envelope.
ReadHit(c) ==
    /\ caller[c].phase = "reading"
    /\ redis[caller[c].key] # "none"
    /\ caller' = [caller EXCEPT ![c] = Told(@, redis[caller[c].key])]
    /\ UNCHANGED <<flight, pending, redis, late, breaker>>

\* readRaw finds nothing, fails, reads what does not parse, or runs out of
\* REDIS_OP_BUDGET_MS: all four are a miss.
ReadMiss(c) ==
    /\ caller[c].phase = "reading"
    /\ caller' = [caller EXCEPT ![c].phase = "missed"]
    /\ UNCHANGED <<flight, pending, redis, late, breaker>>

\* The caller's budget ends or its client leaves.  A read in progress is given
\* up as a miss (its deadline is derived from this one), a wait ends.
CallerExpires(c) ==
    /\ caller[c].phase \in {"reading", "waiting"}
    /\ caller' = [caller EXCEPT ![c] =
           LET out == [@ EXCEPT !.expired = TRUE]
           IN  IF @.phase = "waiting" THEN Told(out, "aborted")
               ELSE [out EXCEPT !.phase = "missed"]]
    /\ UNCHANGED <<flight, pending, redis, late, breaker>>

-----------------------------------------------------------------------------
(* Starting a fetch *)

Refused(f, a) == [flight EXCEPT ![f].phase = "settled", ![f].answer = a]

\* The policies' verdict on fetch f of pod p: the breaker outermost, the
\* bulkhead inside.  flight' and breaker' are the outcome.
Limiter(f, p, probe) ==
    \/ /\ Full(p)
       /\ flight' = Refused(f, "limit")
       \* cockatiel: an error its filter does not handle ends a probe well.
       /\ breaker' = [breaker EXCEPT ![p] = IF probe THEN "closed" ELSE @]
    \/ /\ ~Full(p)
       /\ flight' = [flight EXCEPT ![f].phase = "running", ![f].probe = probe]
       /\ breaker' = [breaker EXCEPT ![p] = IF probe THEN "halfopen" ELSE @]

guardedFetch(f, p) ==
    \/ breaker[p] = "closed" /\ Limiter(f, p, FALSE)
    \* halfOpenAfterMs has not passed: CircuitOpenError.
    \/ breaker[p] = "open" /\ flight' = Refused(f, "circuit") /\ UNCHANGED breaker
    \* It has: this call is the probe.
    \/ breaker[p] = "open" /\ Limiter(f, p, TRUE)
    \* A call that finds a probe under way awaits its end.
    \/ /\ breaker[p] = "halfopen"
       /\ flight' = [flight EXCEPT ![f].phase = "queued"]
       /\ UNCHANGED breaker

\* startFetch re-reads the table after the await of Redis.
JoinStarted(c) ==
    LET f == pending[caller[c].pod][caller[c].key]
    IN  /\ caller[c].phase = "missed"
        /\ f # Nobody
        /\ caller' = [caller EXCEPT ![c] = raceCaller(@, f, flight)]
        /\ UNCHANGED <<flight, pending, redis, late, breaker>>

\* Mutant: the table is not looked at again.
startFetchUnchecked(c) ==
    LET p == caller[c].pod
        k == caller[c].key
    IN  /\ caller[c].phase = "missed"
        /\ guardedFetch(c, p)
        /\ pending' = [pending EXCEPT ![p][k] = c]
        /\ caller' = [caller EXCEPT ![c] = raceCaller(@, c, flight')]
        /\ UNCHANGED <<redis, late>>

\* Nothing registered: this caller's fetch is, under a deadline of its own.
startFetch(c) ==
    LET p == caller[c].pod
        k == caller[c].key
    IN  /\ caller[c].phase = "missed"
        /\ pending[p][k] = Nobody
        /\ guardedFetch(c, p)
        /\ pending' = [pending EXCEPT ![p][k] = c]
        /\ caller' = [caller EXCEPT ![c] = raceCaller(@, c, flight')]
        /\ UNCHANGED <<redis, late>>

\* The probe has ended; its waiters are put through the policies again.
Requeued(f) ==
    /\ flight[f].phase = "queued"
    /\ ~Probing(PodOf(f))
    /\ breaker[PodOf(f)] # "halfopen"

-----------------------------------------------------------------------------
(* The fetch *)

\* Mutant: only the caller that started the fetch is told.
AnnounceToStarter(f, a) ==
    caller' = [caller EXCEPT ![f] = IF @.phase = "waiting" THEN Told(@, a) ELSE @]

\* Everyone still waiting on f is told.
Announce(f, a) ==
    caller' = [c \in Caller |->
        IF caller[c].phase = "waiting" /\ caller[c].on = f THEN Told(caller[c], a)
        ELSE caller[c]]

\* The breaker hears how an executed fetch ended.  When a counted failure
\* trips a closed circuit is the sampling window's business.
Judge(f, a) ==
    LET p == PodOf(f)
    IN  IF flight[f].probe
        THEN breaker' = [breaker EXCEPT ![p] =
                 IF countsAsBreakerFailure(a) THEN "open" ELSE "closed"]
        ELSE \/ UNCHANGED breaker
             \/ countsAsBreakerFailure(a) /\ breaker' = [breaker EXCEPT ![p] = "open"]

Settle(f, a) ==
    /\ flight' = [flight EXCEPT ![f].phase = "settled", ![f].answer = a]
    /\ Announce(f, a)
    /\ Judge(f, a)

Requeue(f) ==
    /\ Requeued(f)
    /\ guardedFetch(f, PodOf(f))
    /\ IF flight'[f].phase = "settled" THEN Announce(f, flight'[f].answer)
       ELSE UNCHANGED caller
    /\ UNCHANGED <<pending, redis, late>>

\* The clock nears FETCH_TIMEOUT, then passes it; the timer that tells may fire a
\* little later.
FlightClock(f) ==
    /\ flight[f].phase \in {"queued", "running"}
    /\ flight[f].budget # "spent"
    /\ flight' = [flight EXCEPT ![f].budget = IF @ = "ample" THEN "scarce" ELSE "spent"]
    /\ UNCHANGED <<caller, pending, redis, late, breaker>>

\* Mutant: the fetch lives on the budget of the caller that started it.
FlightTimesOutWithStarter(f) ==
    /\ flight[f].phase = "running"
    /\ flight[f].budget = "spent" \/ caller[f].expired
    /\ Settle(f, "aborted")
    /\ UNCHANGED <<pending, redis, late>>

\* executeFetch: the deadline's signal wins the race.  The upstream call may
\* run on; nobody listens to it.
FlightTimesOut(f) ==
    /\ flight[f].phase = "running"
    /\ flight[f].budget = "spent"
    /\ Settle(f, "aborted")
    /\ UNCHANGED <<pending, redis, late>>

\* Mutant: an answer that lands after the clock ran out is thrown away.
executeFetchInTime(f, a) ==
    /\ flight[f].phase = "running"
    /\ a = "aborted" => flight[f].budget # "ample"
    /\ IF Cacheable(a) /\ flight[f].budget # "spent"
       THEN /\ flight' = [flight EXCEPT ![f].phase = "writing", ![f].said = a,
                                        ![f].sent = TRUE]
            /\ late' = late \cup {<<KeyOf(f), a>>}
            /\ UNCHANGED <<caller, breaker>>
       ELSE /\ flight' = [flight EXCEPT ![f].phase = "settled", ![f].said = a,
                                        ![f].answer = IF flight[f].budget = "spent" THEN "aborted" ELSE a]
            /\ Announce(f, flight'[f].answer)
            /\ Judge(f, flight'[f].answer)
            /\ UNCHANGED late
    /\ UNCHANGED <<pending, redis>>

\* executeFetch: the fetcher's answer wins, though the clock may have run out
\* while it landed.  It is ABORTED as soon as the deadline leaves too little for
\* another attempt (attemptOnce), not only once it has passed.  cacheAndReturn sends the envelope or, for a failure not
\* worth keeping, settles at once.
executeFetch(f, a) ==
    /\ flight[f].phase = "running"
    /\ a = "aborted" => flight[f].budget # "ample"
    /\ IF Cacheable(a)
       THEN /\ flight' = [flight EXCEPT ![f].phase = "writing", ![f].said = a,
                                        ![f].sent = TRUE]
            /\ late' = late \cup {<<KeyOf(f), a>>}
            /\ UNCHANGED <<caller, breaker>>
       ELSE /\ flight' = [flight EXCEPT ![f].phase = "settled", ![f].said = a,
                                        ![f].answer = a]
            /\ Announce(f, a)
            /\ Judge(f, a)
            /\ UNCHANGED late
    /\ UNCHANGED <<pending, redis>>

\* Mutant: settles before the answer is taken over.
setResultEmpty(f) ==
    /\ flight[f].phase = "writing"
    /\ Settle(f, flight[f].answer)
    /\ UNCHANGED <<pending, redis, late>>

\* setResult is over: the SET was answered, failed, or was waited for as long
\* as REDIS_OP_BUDGET_MS allows and is still on its way.
setResult(f) ==
    /\ flight[f].phase = "writing"
    /\ Settle(f, flight[f].said)
    /\ UNCHANGED <<pending, redis, late>>

\* Mutant: deregistered in a then, so never after a failure.
DeregisterAnswered(f) ==
    /\ flight[f].phase = "settled"
    /\ ~isErr(flight[f].answer)
    /\ flight' = [flight EXCEPT ![f].phase = "gone"]
    /\ pending' = [pending EXCEPT ![PodOf(f)][KeyOf(f)] = Nobody]
    /\ UNCHANGED <<caller, redis, late, breaker>>

\* The finally of startFetch, some microtasks after the fetch settled.
Deregister(f) ==
    /\ flight[f].phase = "settled"
    /\ flight' = [flight EXCEPT ![f].phase = "gone"]
    /\ pending' = [pending EXCEPT ![PodOf(f)][KeyOf(f)] = Nobody]
    /\ UNCHANGED <<caller, redis, late, breaker>>

-----------------------------------------------------------------------------
(* Redis *)

\* A SET is executed, whether or not its fetch still waits for it.
SetLands(k, a) ==
    /\ <<k, a>> \in late
    /\ redis' = [redis EXCEPT ![k] = a]
    /\ late' = late \ {<<k, a>>}
    /\ UNCHANGED <<caller, flight, pending, breaker>>

SetLost(k, a) ==
    /\ <<k, a>> \in late
    /\ late' = late \ {<<k, a>>}
    /\ UNCHANGED <<caller, flight, pending, redis, breaker>>

\* The TTL of an entry ends.
EntryExpires(k) ==
    /\ redis[k] # "none"
    /\ redis' = [redis EXCEPT ![k] = "none"]
    /\ UNCHANGED <<caller, flight, pending, late, breaker>>

-----------------------------------------------------------------------------
CallerStep(c) ==
    \/ \E p \in Pod, k \in Key, spent \in BOOLEAN : getOrFetch(c, p, k, spent)
    \/ ReadHit(c)
    \/ ReadMiss(c)
    \/ CallerExpires(c)
    \/ JoinStarted(c)
    \/ startFetch(c)

FlightStep(f) ==
    \/ Requeue(f)
    \/ FlightClock(f)
    \/ FlightTimesOut(f)
    \/ \E a \in Reply : executeFetch(f, a)
    \/ setResult(f)
    \/ Deregister(f)

RedisStep ==
    \E k \in Key :
        \/ \E a \in Answer : SetLands(k, a) \/ SetLost(k, a)
        \/ EntryExpires(k)

Next ==
    \/ \E c \in Caller : CallerStep(c) \/ FlightStep(c)
    \/ RedisStep

Spec == Init /\ [][Next]_vars

\* Timers fire and microtasks run.  Neither the upstream nor Redis need ever
\* answer, and a caller without a budget never gives up.
Fairness ==
    \A c \in Caller :
        /\ WF_vars(ReadMiss(c))
        /\ WF_vars(JoinStarted(c) \/ startFetch(c))
        /\ WF_vars(Requeue(c))
        /\ WF_vars(FlightClock(c))
        /\ WF_vars(FlightTimesOut(c))
        /\ WF_vars(setResult(c))
        /\ WF_vars(Deregister(c))

FairSpec == Spec /\ Fairness

-----------------------------------------------------------------------------
(* Properties *)

\* No upstream is asked twice at once: a pod never has two unsettled fetches
\* for one key, in whatever order reads of Redis, starts and departures
\* interleave (resilient-cache.ts:263-266).
SingleFlight ==
    \A f, g \in Caller :
        f # g /\ InFlight(f) /\ InFlight(g) /\ PodOf(f) = PodOf(g) => KeyOf(f) # KeyOf(g)

\* One caller's budget is its own: who is told that time ran out either spent
\* its own budget or waited on a fetch whose own deadline, whoever started it, had
\* too little left for another attempt (resilient-cache.ts:92-98).
LeavingHurtsNobody ==
    \A c \in Caller :
        caller[c].answer = "aborted" =>
            caller[c].expired \/ (caller[c].on # Nobody /\ flight[caller[c].on].budget # "ample")

\* Redis holds, and is sent, only what some fetch learned of that very key
\* and what stays true of it: an outage is never pinned to a key
\* (cache-failure-policy.ts:35-52).
OnlyFactsAreStored ==
    \A k \in Key, a \in Answer :
        redis[k] = a \/ <<k, a>> \in late =>
            /\ a \in Deterministic
            /\ \E f \in Caller : flight[f].said = a /\ KeyOf(f) = k

\* Finished work is kept: a fact that the upstream got to say is sent to Redis
\* even if every caller has left or the clock ran out as it landed, and
\* everyone who waited to the end hears it (resilient-cache.ts:375-378).
PaidWorkIsKept ==
    \A f \in Caller :
        flight[f].said \in Deterministic =>
            /\ flight[f].sent
            /\ flight[f].answer \in {flight[f].said, "none"}

\* The bulkhead counts shared fetches: a pod never executes more than
\* MaxPending of them, half-open re-admissions included
\* (resilient-cache.ts:293-297).
SlotsAreBounded ==
    \A p \in Pod :
        Cardinality({f \in Caller : Executing(f) /\ PodOf(f) = p}) <= MaxPending

\* Everyone is answered, even a caller with no budget behind an upstream and a
\* Redis that hang, or behind a half-open circuit (resilient-cache.ts:351-358).
EveryoneIsAnswered ==
    \A c \in Caller : caller[c].phase # "new" ~> caller[c].phase = "done"

\* No fetch pins its entry of pendingFetches for ever.
PendingDrains ==
    \A f \in Caller : InFlight(f) ~> \A p \in Pod, k \in Key : pending[p][k] # f
================================================================================
