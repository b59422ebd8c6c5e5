------------------------------ MODULE LookupProofs ------------------------------
(***************************************************************************)
(* The lookup's safety, for any number of requests, any chains and any      *)
(* providers.  The inductive invariant LookInv says of one request what its *)
(* records have to do with each other and with what is left of its budget:  *)
(* above all that the tally of denials accounts for every provider passed,  *)
(* and that a sequence nobody awaits has no budget.                         *)
(***************************************************************************)
EXTENDS Lookup, ChurchRegistry, FiniteSetTheorems, TLAPS

LookRec == [stage: Stage, at: Nat, denied: Nat, said: SUBSET Provider,
            plan: Seq(Strategy), answer: Answer]
CallRec == [step: {"none", "admit", "wait", "call", "backoff", "knn"}, tries: Nat, era: Era]

\* If the first n providers of the chain all denied, `said' names them.
Tallied(r, n) == r.denied = n => r.said = {ChainOf(r.stage)[i] : i \in 1..n}

Walking(r, c) ==
    /\ r.at \in 1..Len(ChainOf(r.stage))
    /\ r.denied < r.at
    /\ Tallied(r, r.at - 1)
    /\ c.tries <= Attempts(ChainOf(r.stage)[r.at])
    /\ c.step # "call" => c.tries < Attempts(ChainOf(r.stage)[r.at])

Unanimous(r) == NegativeTtl(r.answer) = "long" => r.said = ProvidersOf(ChainOf(r.stage))

\* One request: its walk, its sequence, and what is left of its budget.
Sound(r, c, b) ==
    /\ r \in LookRec
    /\ c \in CallRec
    /\ c.step \in {"admit", "wait", "call", "backoff"} => Walking(r, c)
    /\ c.step \in {"admit", "call", "knn"} => r.answer = "none"
    /\ (c.step \in {"wait", "backoff"} /\ r.answer # "none") => b = "spent"
    /\ r.answer = "aborted" => b # "ample"
    /\ Unanimous(r)

\* Where an outcome leads: a pair of sound records, and no call by itself.
Lands(to, b) == Sound(to.look, to.call, b) /\ to.call.step # "call"

LookInv ==
    /\ look \in [Request -> LookRec]
    /\ call \in [Request -> CallRec]
    /\ budget \in [Request -> Budget]
    /\ \A l \in Request : Sound(look[l], call[l], budget[l])

\* Between episodes nothing is kept from the log.
ToldInv ==
    /\ OutageTypeOK
    /\ EveryBypassIsToldOnce
    /\ ~episode => suppressed = 0

IInv == LookInv /\ BreakerTypeOK /\ ToldInv

-----------------------------------------------------------------------------
(* What the continuations of a lookup lead to *)

LEMMA ChainsAreNotEmpty ==
    ASSUME NEW stage
    PROVE  /\ ChainOf(stage) \in Seq(Provider)
           /\ Len(ChainOf(stage)) \in Nat \ {0}
  BY LookupAssumption DEF ChainOf, Layer, ResilientAddressProvider, ResilientGeoProvider,
     ResilientChurchRoutingProvider

LEMMA AttemptsArePositive ==
    ASSUME NEW stage, NEW i \in 1..Len(ChainOf(stage))
    PROVE  Attempts(ChainOf(stage)[i]) \in Nat \ {0}
  <1>1. ChainOf(stage)[i] \in Provider
    BY ChainsAreNotEmpty
  <1> QED BY <1>1, LookupAssumption DEF Attempts

\* An answer that is not a long negative needs no tally.
LEMMA SettledIsSound ==
    ASSUME NEW r \in LookRec, NEW a \in Answer, NEW b,
           a = "aborted" => b # "ample",
           NegativeTtl(a) = "long" => r.said = ProvidersOf(ChainOf(r.stage))
    PROVE  Lands(Settled(r, a), b)
  <1> DEFINE s == [r EXCEPT !.answer = a]
  <1>1. s \in LookRec /\ s.answer = a /\ s.stage = r.stage /\ s.said = r.said
    BY DEF LookRec
  <1>2. NoCall \in CallRec /\ NoCall.step = "none"
    BY DEF NoCall, CallRec, Era
  <1>3. Settled(r, a).look = s /\ Settled(r, a).call = NoCall
    BY DEF Settled, Now
  <1> HIDE DEF s
  <1> QED BY <1>1, <1>2, <1>3 DEF Lands, Sound, Unanimous

LEMMA EnterIsSound ==
    ASSUME NEW l \in Request, NEW r \in LookRec, r.answer = "none",
           r.at \in 1..Len(ChainOf(r.stage)), r.denied < r.at, Tallied(r, r.at - 1)
    PROVE  Lands(Enter(l, r), budget[l])
  <1>1. CASE Spent(l)
    <2>1. Enter(l, r) = Settled(r, "aborted")
      BY <1>1 DEF Enter
    <2>2. Lands(Settled(r, "aborted"), budget[l])
      BY <1>1, SettledIsSound DEF Spent, Answer, NegativeTtl
    <2> QED BY <2>1, <2>2
  <1>2. CASE ~Spent(l)
    <2>1. Enter(l, r).look = r /\ Enter(l, r).call = Admission
      BY <1>2 DEF Enter, Now
    <2>2. Admission \in CallRec /\ Admission.step = "admit" /\ Admission.tries = 0
      BY DEF Admission, CallRec, Era
    <2>3. Attempts(ChainOf(r.stage)[r.at]) \in Nat \ {0}
      BY AttemptsArePositive
    <2>4. Walking(r, Admission)
      BY <2>2, <2>3 DEF Walking
    <2>5. Unanimous(r)
      BY DEF Unanimous, NegativeTtl
    <2> QED BY <2>1, <2>2, <2>4, <2>5 DEF Lands, Sound
  <1> QED BY <1>1, <1>2

LEMMA WalkIsSound ==
    ASSUME NEW l \in Request, NEW r \in LookRec, r.answer = "none", NEW stage \in Stage
    PROVE  Lands(Walk(l, r, stage), budget[l])
  <1> DEFINE s == [r EXCEPT !.stage = stage, !.at = 1, !.denied = 0, !.said = {}]
  <1>1. s \in LookRec /\ s.answer = "none" /\ s.stage = stage /\ s.at = 1 /\ s.denied = 0 /\ s.said = {}
    BY DEF LookRec
  <1>2. Walk(l, r, stage) = Enter(l, s)
    BY DEF Walk
  <1> HIDE DEF s
  <1>3. s.at \in 1..Len(ChainOf(s.stage))
    BY <1>1, ChainsAreNotEmpty
  <1>4. Tallied(s, s.at - 1)
    BY <1>1 DEF Tallied
  <1> QED BY <1>1, <1>2, <1>3, <1>4, EnterIsSound

LEMMA NextStrategyIsSound ==
    ASSUME NEW l \in Request, NEW r \in LookRec, r.answer = "none"
    PROVE  Lands(NextStrategy(l, r), budget[l])
  <1>1. CASE r.plan = <<>>
    BY <1>1, SettledIsSound DEF NextStrategy, Answer, NegativeTtl
  <1>2. CASE r.plan # <<>>
    <2> DEFINE s == [r EXCEPT !.plan = Tail(r.plan)]
    <2>1. r.plan \in Seq(Strategy)
      BY DEF LookRec
    <2>2. Head(r.plan) \in Stage /\ Tail(r.plan) \in Seq(Strategy)
      BY <1>2, <2>1 DEF Stage
    <2>3. s \in LookRec /\ s.answer = "none"
      BY <2>2 DEF LookRec
    <2>4. NextStrategy(l, r) = Walk(l, s, Head(r.plan))
      BY <1>2 DEF NextStrategy
    <2> HIDE DEF s
    <2> QED BY <2>2, <2>3, <2>4, WalkIsSound
  <1> QED BY <1>1, <1>2

\* The provider at `at' is counted: the tally now covers it.
LEMMA OnwardsIsSound ==
    ASSUME NEW l \in Request, NEW r \in LookRec, r.answer = "none",
           r.at \in 1..Len(ChainOf(r.stage)), r.denied <= r.at, Tallied(r, r.at)
    PROVE  Lands(Onwards(l, r), budget[l])
  <1> DEFINE n == Len(ChainOf(r.stage))
  <1>1. n \in Nat \ {0} /\ r.at \in Nat /\ r.denied \in Nat
    BY ChainsAreNotEmpty DEF LookRec
  <1>2. CASE r.at < n
    <2> DEFINE s == [r EXCEPT !.at = r.at + 1]
    <2>1. s \in LookRec /\ s.answer = "none" /\ s.stage = r.stage /\ s.at = r.at + 1
          /\ s.denied = r.denied /\ s.said = r.said
      BY DEF LookRec
    <2>2. Onwards(l, r) = Enter(l, s)
      BY <1>2 DEF Onwards
    <2> HIDE DEF s
    <2>3. s.at \in 1..Len(ChainOf(s.stage)) /\ s.denied < s.at
      BY <1>1, <1>2, <2>1
    <2>4. s.at - 1 = r.at
      BY <1>1, <2>1
    <2>5. Tallied(s, s.at - 1)
      BY <2>1, <2>4 DEF Tallied
    <2> QED BY <2>1, <2>2, <2>3, <2>5, EnterIsSound
  <1>3. CASE ~(r.at < n)
    <2>1. r.at = n
      BY <1>1, <1>3
    <2>2. Onwards(l, r) = decideExhausted(l, r)
      BY <1>3 DEF Onwards
    <2>3. CASE r.denied # n
      <3>1. Onwards(l, r) = Settled(r, "unavailable")
        BY <2>2, <2>3 DEF decideExhausted
      <3> QED BY <3>1, SettledIsSound DEF Answer, NegativeTtl
    <2>4. CASE r.denied = n
      <3>1. r.said = ProvidersOf(ChainOf(r.stage))
        BY <2>1, <2>4 DEF Tallied, ProvidersOf
      <3>2. Layer(r.stage).allNotFound \in {"noSuchCep", "noCoordinates", "noChurch"}
        BY DEF Layer, ResilientAddressProvider, ResilientGeoProvider, ResilientChurchRoutingProvider
      <3>3. CASE r.stage \in {"street", "neighborhood"}
        <4>1. Onwards(l, r) = NextStrategy(l, r)
          BY <2>2, <2>4, <3>3 DEF decideExhausted, AllNotFound
        <4> QED BY <4>1, NextStrategyIsSound
      <3>4. CASE r.stage \notin {"street", "neighborhood"}
        <4>1. Onwards(l, r) = Settled(r, Layer(r.stage).allNotFound)
          BY <2>2, <2>4, <3>4 DEF decideExhausted, AllNotFound
        <4> QED BY <3>1, <3>2, <4>1, SettledIsSound DEF Answer
      <3> QED BY <3>3, <3>4
    <2> QED BY <2>3, <2>4
  <1> QED BY <1>2, <1>3

\* One provider's outcome, for a request that awaits it.
LEMMA InterpretIsSound ==
    ASSUME NEW l \in Request, NEW r \in LookRec, NEW c, r.answer = "none", Walking(r, c),
           NEW outcome \in {"notFound", "retryable"}
    PROVE  Lands(interpret(l, r, outcome), budget[l])
  <1>1. r.at \in Nat /\ r.denied \in Nat /\ r.said \in SUBSET Provider
    BY DEF LookRec
  <1>2. ChainOf(r.stage)[r.at] \in Provider
    BY ChainsAreNotEmpty DEF Walking
  <1>3. CASE outcome = "notFound"
    <2> DEFINE names == r.said \cup {ChainOf(r.stage)[r.at]}
               count == r.denied + 1
               s == [r EXCEPT !.denied = count, !.said = names]
    <2>0. names \in SUBSET Provider /\ count \in Nat
      BY <1>1, <1>2
    <2>1. /\ s \in LookRec /\ s.answer = "none" /\ s.stage = r.stage /\ s.at = r.at
          /\ s.denied = count /\ s.said = names
      <3> HIDE DEF names, count
      <3> QED BY <2>0 DEF LookRec
    <2>2. interpret(l, r, outcome) = Onwards(l, s)
      <3>1. interpret(l, r, outcome) = noteNotFound(l, r)
        BY <1>3 DEF interpret
      <3> QED BY <3>1 DEF noteNotFound
    <2> HIDE DEF s
    <2>3. s.at \in 1..Len(ChainOf(s.stage)) /\ s.denied <= s.at
      BY <1>1, <2>1 DEF Walking
    <2>4. ASSUME s.denied = s.at PROVE s.said = {ChainOf(s.stage)[i] : i \in 1..s.at}
      <3>1. r.denied = r.at - 1
        BY <1>1, <2>1, <2>4
      <3>2. r.said = {ChainOf(r.stage)[i] : i \in 1..(r.at - 1)}
        BY <3>1 DEF Walking, Tallied
      <3>3. 1..r.at = 1..(r.at - 1) \cup {r.at}
        BY <1>1 DEF Walking
      <3> QED BY <2>1, <3>2, <3>3
    <2> QED BY <2>1, <2>2, <2>3, <2>4, OnwardsIsSound DEF Tallied
  <1>4. CASE outcome = "retryable"
    <2>1. interpret(l, r, outcome) = Onwards(l, r)
      BY <1>4 DEF interpret, noteRetryable
    <2>2. r.denied <= r.at /\ r.denied # r.at
      BY <1>1 DEF Walking
    <2>3. r.at \in 1..Len(ChainOf(r.stage)) /\ Tallied(r, r.at)
      BY <2>2 DEF Walking, Tallied
    <2> QED BY <2>1, <2>2, <2>3, OnwardsIsSound
  <1> QED BY <1>3, <1>4

-----------------------------------------------------------------------------
(* One request moves *)

LEMMA OneMoves ==
    ASSUME LookInv, NEW l \in Request, NEW to, Goes(l, to), budget' = budget,
           Sound(to.look, to.call, budget[l])
    PROVE  LookInv'
  <1>1. to.look \in LookRec /\ to.call \in CallRec
    BY DEF Sound
  <1>2. look' \in [Request -> LookRec] /\ call' \in [Request -> CallRec]
    BY <1>1 DEF LookInv, Goes
  <1>3. ASSUME NEW m \in Request PROVE Sound(look'[m], call'[m], budget[m])
    <2>1. CASE m = l
      BY <2>1 DEF LookInv, Goes
    <2>2. CASE m # l
      <3>1. look'[m] = look[m] /\ call'[m] = call[m]
        BY <2>2 DEF LookInv, Goes
      <3> QED BY <3>1 DEF LookInv
    <2> QED BY <2>1, <2>2
  <1> QED BY <1>2, <1>3 DEF LookInv

\* Nobody else's call changes.
LEMMA OneCalls ==
    ASSUME LookInv, NEW l \in Request, NEW to, Goes(l, to),
           to.call.step = "call" => to.call.tries = call[l].tries /\ call[l].step = "call"
    PROVE  \A m \in Request : ~CallsStarted(m)
  <1> SUFFICES ASSUME NEW m \in Request PROVE ~CallsStarted(m)
    OBVIOUS
  <1>1. CASE m = l
    BY <1>1 DEF LookInv, Goes, CallsStarted
  <1>2. CASE m # l
    BY <1>2 DEF LookInv, Goes, CallsStarted
  <1> QED BY <1>1, <1>2

Ending(l, outcome) == IF Awaited(l) THEN interpret(l, look[l], outcome) ELSE Now(look[l], NoCall)

LEMMA EndsGoes == \A l, outcome : Ends(l, outcome) <=> Goes(l, Ending(l, outcome))
  BY DEF Ends, Ending

\* A sequence left behind ends unheard.
LEMMA UnheardEndIsSound ==
    ASSUME NEW r, NEW c, NEW b, NEW d \in {b, "scarce", "spent"}, Sound(r, c, b)
    PROVE  Lands(Now(r, NoCall), d)
  <1>1. NoCall \in CallRec /\ NoCall.step = "none"
    BY DEF NoCall, CallRec, Era
  <1>2. Now(r, NoCall).look = r /\ Now(r, NoCall).call = NoCall
    BY DEF Now
  <1> QED BY <1>1, <1>2 DEF Lands, Sound

\* The budget was short, or becomes so.
LEMMA AbortIsSound ==
    ASSUME LookInv, NEW l \in Request, NEW b \in {budget[l], "spent"}, b # "ample"
    PROVE  Lands(Ending(l, "aborted"), b)
  <1>1. look[l] \in LookRec /\ Sound(look[l], call[l], budget[l])
    BY DEF LookInv
  <1>2. CASE Awaited(l)
    <2>1. Ending(l, "aborted") = Settled(look[l], "aborted")
      BY <1>2 DEF Ending, interpret
    <2> QED BY <1>1, <2>1, SettledIsSound DEF Answer, NegativeTtl
  <1>3. CASE ~Awaited(l)
    <2>1. Ending(l, "aborted") = Now(look[l], NoCall)
      BY <1>3 DEF Ending
    <2> QED BY <1>1, <2>1, UnheardEndIsSound
  <1> QED BY <1>2, <1>3

LEMMA EndingIsSound ==
    ASSUME LookInv, NEW l \in Request, call[l].step \in {"admit", "wait", "call", "backoff"},
           NEW outcome \in {"notFound", "retryable", "aborted"},
           outcome = "aborted" => budget[l] # "ample"
    PROVE  Lands(Ending(l, outcome), budget[l])
  <1>1. look[l] \in LookRec /\ Sound(look[l], call[l], budget[l])
    BY DEF LookInv
  <1>2. CASE outcome = "aborted"
    BY <1>2, AbortIsSound
  <1>3. CASE outcome # "aborted" /\ Awaited(l)
    <2>1. Ending(l, outcome) = interpret(l, look[l], outcome)
      BY <1>3 DEF Ending
    <2>2. look[l].answer = "none" /\ Walking(look[l], call[l])
      BY <1>1, <1>3 DEF Awaited, Sound
    <2> QED BY <1>1, <1>3, <2>1, <2>2, InterpretIsSound
  <1>4. CASE outcome # "aborted" /\ ~Awaited(l)
    <2>1. Ending(l, outcome) = Now(look[l], NoCall)
      BY <1>4 DEF Ending
    <2> QED BY <1>1, <2>1, UnheardEndIsSound
  <1> QED BY <1>2, <1>3, <1>4

\* Who starts a call awaits its answer and has a budget.
Asks == \A m \in Request : CallsStarted(m) => Awaited(m) /\ ~Spent(m)

LEMMA LandingKeeps ==
    ASSUME LookInv, NEW l \in Request, NEW to, Goes(l, to), budget' = budget, Lands(to, budget[l])
    PROVE  LookInv' /\ Asks
  BY OneMoves, OneCalls DEF Lands, Asks

LEMMA EndKeeps ==
    ASSUME LookInv, NEW l \in Request, call[l].step \in {"admit", "wait", "call", "backoff"},
           NEW outcome \in {"notFound", "retryable", "aborted"},
           outcome = "aborted" => budget[l] # "ample",
           Ends(l, outcome), budget' = budget
    PROVE  LookInv' /\ Asks
  <1>1. Goes(l, Ending(l, outcome))
    BY EndsGoes
  <1>2. Lands(Ending(l, outcome), budget[l])
    BY EndingIsSound
  <1> QED BY <1>1, <1>2, LandingKeeps

\* A sequence that pauses goes on later.
LEMMA PauseIsSound ==
    ASSUME NEW r \in LookRec, NEW c \in CallRec, Walking(r, c),
           c.tries < Attempts(ChainOf(r.stage)[r.at]),
           NEW step \in {"wait", "backoff"}, NEW b, r.answer # "none" => b = "spent",
           r.answer = "aborted" => b # "ample", Unanimous(r)
    PROVE  Lands(Now(r, [c EXCEPT !.step = step]), b)
  <1> DEFINE d == [c EXCEPT !.step = step]
  <1>1. d \in CallRec /\ d.step = step /\ d.tries = c.tries
    BY DEF CallRec
  <1>2. Now(r, d).look = r /\ Now(r, d).call = d
    BY DEF Now
  <1> HIDE DEF d
  <1>3. Walking(r, d)
    BY <1>1 DEF Walking
  <1>4. Sound(r, d, b) /\ d.step # "call"
    BY <1>1, <1>3 DEF Sound
  <1>5. Lands(Now(r, d), b)
    BY <1>2, <1>4 DEF Lands
  <1> QED BY <1>5, Zenon DEF d

LEMMA StayKeeps ==
    ASSUME LookInv, NEW l \in Request, call[l].step \in {"admit", "wait", "call", "backoff"},
           Tries(l) < Attempts(Asked(l)), Awaited(l) \/ Spent(l),
           NEW step \in {"wait", "backoff"}, Stays(l, step), budget' = budget
    PROVE  LookInv' /\ Asks
  <1>1. Sound(look[l], call[l], budget[l])
    BY DEF LookInv
  <1>2. Walking(look[l], call[l]) /\ Unanimous(look[l]) /\ look[l] \in LookRec /\ call[l] \in CallRec
        /\ (look[l].answer = "aborted" => budget[l] # "ample")
    BY <1>1 DEF Sound
  <1>3. look[l].answer # "none" => budget[l] = "spent"
    BY DEF Awaited, Spent
  <1>4. Lands(Now(look[l], [call[l] EXCEPT !.step = step]), budget[l])
    BY <1>2, <1>3, PauseIsSound DEF Tries, Asked
  <1> QED BY <1>4, LandingKeeps DEF Stays

\* The signal answers a caller whose sequence pauses.
LEMMA UnheardIsSound ==
    ASSUME NEW r \in LookRec, NEW c \in CallRec, Walking(r, c),
           c.tries < Attempts(ChainOf(r.stage)[r.at]),
           NEW step \in {"wait", "backoff"}
    PROVE  Lands(Now([r EXCEPT !.answer = "aborted"], [c EXCEPT !.step = step]), "spent")
  <1> DEFINE s == [r EXCEPT !.answer = "aborted"]
  <1>1. s \in LookRec /\ s.answer = "aborted" /\ s.stage = r.stage /\ s.at = r.at
        /\ s.denied = r.denied /\ s.said = r.said
    BY DEF LookRec, Answer
  <1> HIDE DEF s
  <1>2. Walking(s, c)
    BY <1>1 DEF Walking, Tallied
  <1>3. Unanimous(s)
    BY <1>1 DEF Unanimous, NegativeTtl
  <1>4. c.tries < Attempts(ChainOf(s.stage)[s.at])
    BY <1>1
  <1>5. Lands(Now(s, [c EXCEPT !.step = step]), "spent")
    <2>1. \A b : b = "spent" => Lands(Now(s, [c EXCEPT !.step = step]), b)
      <3> SUFFICES ASSUME NEW b, b = "spent" PROVE Lands(Now(s, [c EXCEPT !.step = step]), b)
        OBVIOUS
      <3>1. b # "ample"
        OBVIOUS
      <3> QED BY <1>1, <1>2, <1>3, <1>4, <3>1, PauseIsSound
    <2> QED BY <2>1
  <1> QED BY <1>5, Zenon DEF s

LEMMA AttemptKeeps ==
    ASSUME LookInv, NEW l \in Request, call[l].step \in {"admit", "wait", "backoff"},
           NEW era \in Era, attemptOnce(l, era), budget' = budget
    PROVE  LookInv' /\ Asks
  <1>1. /\ Sound(look[l], call[l], budget[l])
        /\ look[l] \in LookRec /\ call[l] \in CallRec
    BY DEF LookInv
  <1>2. CASE ~hasBudgetForAttempt(l)
    <2>1. Ends(l, "aborted") /\ budget[l] # "ample"
      BY <1>2 DEF attemptOnce, hasBudgetForAttempt
    <2> QED BY <2>1, EndKeeps
  <1>3. CASE hasBudgetForAttempt(l)
    <2> DEFINE n == Tries(l) + 1
               c == [step |-> "call", tries |-> n, era |-> era]
    <2>1. budget[l] = "ample" /\ Goes(l, Now(look[l], c))
      BY <1>3 DEF hasBudgetForAttempt, attemptOnce
    <2>2. look[l].answer = "none"
      BY <1>1, <2>1 DEF Sound
    <2>3. /\ Walking(look[l], call[l]) /\ call[l].tries \in Nat
          /\ Attempts(ChainOf(look[l].stage)[look[l].at]) \in Nat
      BY <1>1, AttemptsArePositive DEF Sound, Walking, CallRec
    <2>4. n \in Nat /\ n <= Attempts(ChainOf(look[l].stage)[look[l].at])
      BY <2>3 DEF Walking, Tries
    <2>5. c \in CallRec /\ c.step = "call" /\ c.tries = n
      <3> HIDE DEF n
      <3> QED BY <2>4 DEF CallRec
    <2> HIDE DEF c, n
    <2>6. Walking(look[l], c)
      BY <2>3, <2>4, <2>5 DEF Walking
    <2>7. Now(look[l], c).look = look[l] /\ Now(look[l], c).call = c
      BY DEF Now
    <2>8. Sound(look[l], c, budget[l])
      BY <1>1, <2>2, <2>5, <2>6 DEF Sound
    <2>9. LookInv'
      BY <2>1, <2>7, <2>8, OneMoves
    <2>10. \A m \in Request : m # l => ~CallsStarted(m)
      BY <2>1, <2>7 DEF LookInv, Goes, CallsStarted
    <2> QED BY <2>1, <2>2, <2>9, <2>10 DEF Asks, Awaited, Spent
  <1> QED BY <1>2, <1>3

\* One round of the retry policy.
LEMMA ExecuteKeeps ==
    ASSUME LookInv, NEW l \in Request, call[l].step \in {"admit", "wait", "backoff"},
           execute(l), budget' = budget
    PROVE  LookInv' /\ Asks
  <1>1. Sound(look[l], call[l], budget[l]) /\ look[l] \in LookRec /\ call[l] \in CallRec
    BY DEF LookInv
  <1>2. Walking(look[l], call[l]) /\ Tries(l) < Attempts(Asked(l))
    BY <1>1 DEF Sound, Walking, Tries, Asked
  <1>3. Awaited(l) \/ Spent(l)
    BY <1>1 DEF Sound, Awaited, Spent
  <1>4. CASE attemptOnce(l, "closed") \/ attemptOnce(l, "half")
    BY <1>4, AttemptKeeps DEF Era
  <1>5. CASE Awaited(l) /\ Spent(l) /\ Unheard(l, "wait")
    <2>1. Lands(Now([look[l] EXCEPT !.answer = "aborted"], [call[l] EXCEPT !.step = "wait"]), "spent")
      BY <1>1, <1>2, UnheardIsSound DEF Tries, Asked
    <2> QED BY <1>5, <2>1, LandingKeeps DEF Unheard, Spent
  <1>6. CASE Stays(l, "wait")
    BY <1>2, <1>3, <1>6, StayKeeps
  <1>7. CASE Ends(l, IF Spent(l) THEN "aborted" ELSE "retryable")
    <2>1. CASE Spent(l)
      BY <1>7, <2>1, EndKeeps DEF Spent
    <2>2. CASE ~Spent(l)
      BY <1>7, <2>2, EndKeeps
    <2> QED BY <2>1, <2>2
  <1> QED BY <1>4, <1>5, <1>6, <1>7 DEF execute

-----------------------------------------------------------------------------
(* Every action *)

LEMMA AdmissionKeeps ==
    ASSUME LookInv, NEW l \in Request, Admitted(l) \/ Refused(l) PROVE LookInv' /\ Asks
  <1>1. CASE Admitted(l)
    BY <1>1, ExecuteKeeps DEF Admitted
  <1>2. CASE Refused(l)
    BY <1>2, EndKeeps DEF Refused
  <1> QED BY <1>1, <1>2

LEMMA PausesKeep ==
    ASSUME LookInv, NEW l \in Request, BackoffEnds(l) \/ TestSeen(l) PROVE LookInv' /\ Asks
  <1>1. CASE BackoffEnds(l)
    BY <1>1, ExecuteKeeps DEF BackoffEnds
  <1>2. CASE TestSeen(l)
    <2>1. CASE Spent(l) /\ Ends(l, "aborted")
      BY <1>2, <2>1, EndKeeps DEF TestSeen, Spent
    <2>2. CASE execute(l)
      BY <1>2, <2>2, ExecuteKeeps DEF TestSeen
    <2> QED BY <1>2, <2>1, <2>2 DEF TestSeen
  <1> QED BY <1>1, <1>2

LEMMA CoordinatesAreSound ==
    ASSUME NEW l \in Request, NEW r \in LookRec, r.answer = "none", NEW to \in HasCoordinates(l, r)
    PROVE  Lands(to, budget[l])
  <1>1. CASE to = Settled(r, "rejected")
    BY <1>1, SettledIsSound DEF Answer, NegativeTtl
  <1>2. CASE Spent(l) /\ to = Settled(r, "aborted")
    BY <1>2, SettledIsSound DEF Spent, Answer, NegativeTtl
  <1>3. CASE to = Now([r EXCEPT !.stage = "knn"], [NoCall EXCEPT !.step = "knn"])
    <2> DEFINE s == [r EXCEPT !.stage = "knn"]
               c == [NoCall EXCEPT !.step = "knn"]
    <2>1. s \in LookRec /\ s.answer = "none"
      BY DEF LookRec, Stage
    <2>2. c \in CallRec /\ c.step = "knn"
      BY DEF NoCall, CallRec, Era
    <2>3. to.look = s /\ to.call = c
      BY <1>3 DEF Now
    <2> HIDE DEF s, c
    <2>4. Unanimous(s)
      BY <2>1 DEF Unanimous, NegativeTtl
    <2> QED BY <2>1, <2>2, <2>3, <2>4 DEF Lands, Sound
  <1> QED BY <1>1, <1>2, <1>3 DEF HasCoordinates

LEMMA AddressIsSound ==
    ASSUME NEW l \in Request, NEW r \in LookRec, r.answer = "none", NEW a,
           NEW to \in HasAddress(l, r, a)
    PROVE  Lands(to, budget[l])
  <1>1. CASE to \in HasCoordinates(l, r)
    BY <1>1, CoordinatesAreSound
  <1>2. CASE to = geocodeAddress(l, r, a)
    <2> DEFINE allowed(f) == IF f \in a.fields THEN <<f>> ELSE <<>>
               plan == allowed("street") \o allowed("neighborhood") \o allowed("city")
               s == [r EXCEPT !.plan = plan]
    <2>1. /\ allowed("street") \in Seq(Strategy) /\ allowed("neighborhood") \in Seq(Strategy)
          /\ allowed("city") \in Seq(Strategy)
      <3>1. ASSUME NEW f \in Strategy PROVE <<f>> \in Seq(Strategy)
        OBVIOUS
      <3>2. ASSUME NEW f \in Strategy PROVE allowed(f) \in Seq(Strategy)
        <4>1. CASE f \in a.fields
          BY <3>1, <4>1
        <4>2. CASE f \notin a.fields
          BY <4>2
        <4> QED BY <4>1, <4>2
      <3> HIDE DEF allowed
      <3> QED BY <3>2 DEF Strategy
    <2>2. plan \in Seq(Strategy)
      <3> HIDE DEF allowed
      <3> QED BY <2>1
    <2>3. s \in LookRec /\ s.answer = "none"
      <3> HIDE DEF plan
      <3> QED BY <2>2 DEF LookRec
    <2>4. to = NextStrategy(l, s)
      BY <1>2 DEF geocodeAddress
    <2> HIDE DEF s
    <2> QED BY <2>3, <2>4, NextStrategyIsSound
  <1> QED BY <1>1, <1>2 DEF HasAddress

LEMMA ValueIsSound ==
    ASSUME NEW l \in Request, NEW r \in LookRec, r.answer = "none", NEW value,
           NEW to \in ValueOf(l, r, value)
    PROVE  Lands(to, budget[l])
  <1>1. CASE to \in HasAddress(l, r, value)
    BY <1>1, AddressIsSound
  <1>2. CASE to \in rankByDistance(r, value)
    <2>1. to \in {Settled(r, "noChurch"), Settled(r, "found")}
      BY <1>2 DEF rankByDistance
    <2> QED BY <2>1, SettledIsSound DEF Answer, NegativeTtl
  <1>3. CASE to \in HasCoordinates(l, r)
    BY <1>3, CoordinatesAreSound
  <1> QED BY <1>1, <1>2, <1>3 DEF ValueOf
\* A call in flight comes to a value, a denial or a failure.
LEMMA CallsKeep ==
    ASSUME LookInv, NEW l \in Request, Answers(l) \/ Denies(l) \/ Fails(l) PROVE LookInv' /\ Asks
  <1>1. call[l].step = "call"
    BY DEF Answers, Denies, Fails
  <1>2. Sound(look[l], call[l], budget[l]) /\ look[l] \in LookRec
    BY DEF LookInv
  <1>3. look[l].answer = "none" /\ Awaited(l)
    BY <1>1, <1>2 DEF Sound, Awaited
  <1>4. CASE Answers(l)
    <2>1. PICK value \in Results(l) \ {Null} : \E to \in ValueOf(l, look[l], value) : Goes(l, to)
      BY <1>4 DEF Answers
    <2>2. PICK to \in ValueOf(l, look[l], value) : Goes(l, to)
      BY <2>1
    <2>3. Lands(to, budget[l])
      BY <1>2, <1>3, ValueIsSound
    <2> QED BY <1>4, <2>2, <2>3, LandingKeeps DEF Answers
  <1>5. CASE Denies(l)
    BY <1>1, <1>5, EndKeeps DEF Denies
  <1>6. CASE Fails(l)
    <2>1. AfterFailure(l) /\ budget' = budget
      BY <1>6 DEF Fails
    <2>2. CASE Tries(l) < Attempts(Asked(l)) /\ Stays(l, "backoff")
      BY <1>1, <1>3, <2>1, <2>2, StayKeeps
    <2>3. CASE Ends(l, classifyFailure(l))
      <3>1. CASE Spent(l)
        BY <1>1, <2>1, <2>3, <3>1, EndKeeps DEF classifyFailure, Spent
      <3>2. CASE ~Spent(l)
        BY <1>1, <2>1, <2>3, <3>2, EndKeeps DEF classifyFailure
      <3> QED BY <3>1, <3>2
    <2> QED BY <2>1, <2>2, <2>3 DEF AfterFailure
  <1> QED BY <1>4, <1>5, <1>6

LEMMA LegsKeep ==
    ASSUME LookInv, NEW l \in Request, Begin(l) \/ Located(l) PROVE LookInv' /\ Asks
  <1>1. Sound(look[l], call[l], budget[l]) /\ look[l] \in LookRec
    BY DEF LookInv
  <1>2. look[l].answer = "none"
    BY <1>1 DEF Begin, Located, Sound, Awaited
  <1>3. budget' = budget
    BY DEF Begin, Located
  <1>4. CASE \E stage \in {"address", "routing"} : Goes(l, Walk(l, look[l], stage))
    <2>1. PICK stage \in {"address", "routing"} : Goes(l, Walk(l, look[l], stage))
      BY <1>4
    <2>2. Lands(Walk(l, look[l], stage), budget[l])
      BY <1>1, <1>2, WalkIsSound DEF Stage
    <2> QED BY <1>3, <2>1, <2>2, LandingKeeps
  <1>5. CASE \E a \in {"noChurch", "system"} : Goes(l, Settled(look[l], a))
    <2>1. PICK a \in {"noChurch", "system"} : Goes(l, Settled(look[l], a))
      BY <1>5
    <2>2. Lands(Settled(look[l], a), budget[l])
      BY <1>1, SettledIsSound DEF Answer, NegativeTtl
    <2> QED BY <1>3, <2>1, <2>2, LandingKeeps
  <1> QED BY <1>4, <1>5 DEF Begin, Located

\* Less budget is as good for a sound request whose sequence is not in flight.
LEMMA BudgetShrinks ==
    ASSUME NEW r, NEW c, NEW b, NEW d \in {"scarce", "spent"}, Sound(r, c, b),
           r.answer = "none" \/ b = d
    PROVE  Sound(r, c, d)
  BY DEF Sound

\* One request moves, and its budget with it.
LEMMA OneMovesOn ==
    ASSUME LookInv, NEW l \in Request, NEW to, NEW b \in Budget,
           Goes(l, to), budget' = [budget EXCEPT ![l] = b], Sound(to.look, to.call, b)
    PROVE  LookInv'
  <1>1. to.look \in LookRec /\ to.call \in CallRec
    BY DEF Sound
  <1>2. /\ look' \in [Request -> LookRec] /\ call' \in [Request -> CallRec]
        /\ budget' \in [Request -> Budget]
    BY <1>1 DEF LookInv, Goes
  <1>3. ASSUME NEW m \in Request PROVE Sound(look'[m], call'[m], budget'[m])
    <2>1. CASE m = l
      BY <2>1 DEF LookInv, Goes
    <2>2. CASE m # l
      <3>1. look'[m] = look[m] /\ call'[m] = call[m] /\ budget'[m] = budget[m]
        BY <2>2 DEF LookInv, Goes
      <3> QED BY <3>1 DEF LookInv
    <2> QED BY <2>1, <2>2
  <1> QED BY <1>2, <1>3 DEF LookInv

\* Nothing of a request moves but its budget.
LEMMA OnlyTheBudget ==
    ASSUME LookInv, NEW l \in Request, NEW b \in {"scarce", "spent"}, Awaited(l),
           UNCHANGED <<look, call>>, budget' = [budget EXCEPT ![l] = b]
    PROVE  LookInv' /\ Asks
  <1>1. Sound(look[l], call[l], b)
    <2>1. Sound(look[l], call[l], budget[l])
      BY DEF LookInv
    <2> QED BY <2>1, BudgetShrinks DEF Awaited
  <1>2. budget' \in [Request -> Budget]
    BY DEF LookInv, Budget
  <1>3. ASSUME NEW m \in Request PROVE Sound(look[m], call[m], budget'[m])
    <2>1. CASE m = l
      BY <1>1, <2>1 DEF LookInv
    <2>2. CASE m # l
      BY <2>2 DEF LookInv
    <2> QED BY <2>1, <2>2
  <1> QED BY <1>2, <1>3 DEF LookInv, Asks, CallsStarted

LEMMA TimeKeeps ==
    ASSUME LookInv, NEW l \in Request, RunsLow(l) \/ RunsOut(l) PROVE LookInv' /\ Asks
  <1>1. CASE RunsLow(l)
    BY <1>1, OnlyTheBudget DEF RunsLow
  <1>2. CASE RunsOut(l)
    <2>1. Awaited(l) /\ budget' = [budget EXCEPT ![l] = "spent"] /\ settleFirst(l)
      BY <1>2 DEF RunsOut
    <2>2. Sound(look[l], call[l], budget[l]) /\ look[l] \in LookRec /\ call[l] \in CallRec
      BY DEF LookInv
    <2>3. CASE call[l].step = "call" /\ Ends(l, "aborted")
      <3>1. Goes(l, Ending(l, "aborted"))
        BY <2>3, EndsGoes
      <3>2. Lands(Ending(l, "aborted"), "spent")
        BY AbortIsSound
      <3> QED BY <2>1, <3>1, <3>2, OneMovesOn, OneCalls DEF Lands, Asks, Budget
    <2>4. CASE call[l].step \in {"backoff", "wait"} /\ Unheard(l, call[l].step)
      <3> DEFINE to == Now([look[l] EXCEPT !.answer = "aborted"], [call[l] EXCEPT !.step = call[l].step])
      <3>1. Walking(look[l], call[l]) /\ Tries(l) < Attempts(Asked(l))
        BY <2>2, <2>4 DEF Sound, Walking, Tries, Asked
      <3>2. Lands(to, "spent")
        BY <2>2, <2>4, <3>1, UnheardIsSound DEF Tries, Asked
      <3>3. Goes(l, to)
        BY <2>4 DEF Unheard
      <3> HIDE DEF to
      <3> QED BY <2>1, <3>2, <3>3, OneMovesOn, OneCalls DEF Lands, Asks, Budget
    <2>5. CASE UNCHANGED <<look, call>>
      BY <2>1, <2>5, OnlyTheBudget
    <2> QED BY <2>1, <2>3, <2>4, <2>5 DEF settleFirst
  <1> QED BY <1>1, <1>2

LEMMA LookKeeps ==
    ASSUME LookInv, [Next]_vars PROVE LookInv' /\ (UNCHANGED vars \/ Asks)
  <1>1. ASSUME NEW l \in Request, Step(l) PROVE LookInv' /\ Asks
    BY <1>1, AdmissionKeeps, PausesKeep, CallsKeep, LegsKeep, TimeKeeps DEF Step
  <1>2. CASE BreakerTimer \/ UNCHANGED vars
    <2>1. look' = look /\ call' = call /\ budget' = budget
      BY <1>2 DEF BreakerTimer, vars
    <2>2. LookInv'
      BY <2>1 DEF LookInv
    <2>3. Asks
      BY <2>1 DEF Asks, CallsStarted
    <2> QED BY <2>2, <2>3
  <1> QED BY <1>1, <1>2 DEF Next

-----------------------------------------------------------------------------
(* The circuits and the outages *)

LEMMA CircuitKeeps ==
    ASSUME BreakerTypeOK, [Next]_vars PROVE BreakerTypeOK'
  <1> USE DEF BreakerTypeOK, Circuit
  <1>1. ASSUME NEW l \in Request, attemptOnce(l, "closed") \/ attemptOnce(l, "half")
        PROVE  circuit' \in [Provider -> Circuit]
    BY <1>1 DEF attemptOnce
  <1>2. ASSUME NEW l \in Request, execute(l) PROVE BreakerTypeOK'
    BY <1>1, <1>2 DEF execute
  <1>3. ASSUME NEW p, NEW era PROVE Passed(p, era) \in [Provider -> Circuit]
    BY DEF Passed
  <1>4. ASSUME NEW p, NEW era, countFailure(p, era) PROVE BreakerTypeOK'
    BY <1>4, BreakerAssumption DEF countFailure, Opened, breakerVars
  <1>5. ASSUME NEW l \in Request, Begin(l) \/ Refused(l) \/ Located(l) \/ RunsLow(l) PROVE BreakerTypeOK'
    BY <1>5 DEF Begin, Refused, Located, RunsLow, breakerVars
  <1>6. ASSUME NEW l \in Request, Admitted(l) \/ BackoffEnds(l) \/ TestSeen(l) PROVE BreakerTypeOK'
    BY <1>2, <1>6 DEF Admitted, BackoffEnds, TestSeen, breakerVars
  <1>7. ASSUME NEW l \in Request, Answers(l) \/ Denies(l) \/ Fails(l) PROVE BreakerTypeOK'
    BY <1>3, <1>4, <1>7 DEF Answers, Denies, Fails
  <1>8. ASSUME NEW l \in Request, RunsOut(l) PROVE BreakerTypeOK'
    BY <1>3, <1>8 DEF RunsOut, settleFirst
  <1>9. CASE BreakerTimer
    BY <1>9 DEF BreakerTimer, HalfOpenAfter
  <1>10. CASE UNCHANGED vars
    BY <1>10 DEF vars, breakerVars
  <1> QED BY <1>5, <1>6, <1>7, <1>8, <1>9, <1>10 DEF Next, Step

LEMMA ToldKeeps ==
    ASSUME ToldInv, [Next]_vars PROVE ToldInv'
  <1> DEFINE Counts == /\ suppressed \in 0..MaxFailOpen /\ failOpen \in 0..MaxFailOpen
                       /\ told \in 0..MaxFailOpen /\ failOpen = told + suppressed
  <1>1. Counts /\ episode \in BOOLEAN /\ (episode \/ suppressed = 0)
    BY DEF ToldInv, OutageTypeOK, EveryBypassIsToldOnce
  <1>2. SUFFICES Counts' /\ episode' \in BOOLEAN /\ (episode' \/ suppressed' = 0)
    BY DEF ToldInv, OutageTypeOK, EveryBypassIsToldOnce
  <1>3. CASE failed
    <2>1. CASE startEpisode
      <3>1. suppressed = 0
        BY <1>1, <2>1, Zenon DEF startEpisode
      <3>2. Counts'
        BY <1>1, <1>3, <2>1, <3>1, OutageAssumption DEF failed, startEpisode
      <3> QED BY <2>1, <3>2, Zenon DEF startEpisode
    <2>2. CASE warnStillDegraded \/ suppress
      <3>1. Counts'
        BY <1>1, <1>3, <2>2, OutageAssumption DEF failed, warnStillDegraded, suppress
      <3>2. episode /\ episode' = episode
        BY <2>2, Zenon DEF warnStillDegraded, suppress
      <3> QED BY <1>1, <3>1, <3>2, Zenon
    <2> QED BY <1>3, <2>1, <2>2 DEF failed
  <1>4. CASE succeeded
    <2>1. Counts' /\ suppressed' = 0
      BY <1>1, <1>4, OutageAssumption DEF succeeded
    <2> QED BY <1>4, <2>1, Zenon DEF succeeded
  <1>5. CASE UNCHANGED outageVars
    <2>1. Counts'
      BY <1>1, <1>5 DEF outageVars
    <2> QED BY <1>1, <1>5, <2>1, Zenon DEF outageVars
  <1> QED BY <1>3, <1>4, <1>5 DEF Next, Step, Begin, Admitted, Refused, Answers, Denies, Fails,
         BackoffEnds, TestSeen, Located, RunsLow, RunsOut, BreakerTimer, vars

-----------------------------------------------------------------------------
(* The theorems *)

LEMMA Initially == Init => IInv
  <1> SUFFICES ASSUME Init PROVE IInv
    OBVIOUS
  <1>1. NewLookup \in LookRec /\ NewLookup.answer = "none"
    BY DEF NewLookup, LookRec, Stage, Answer
  <1>2. NoCall \in CallRec /\ NoCall.step = "none"
    BY DEF NoCall, CallRec, Era
  <1>3. Sound(NewLookup, NoCall, "ample")
    BY <1>1, <1>2 DEF Sound, Unanimous, NegativeTtl
  <1>4. LookInv
    BY <1>1, <1>2, <1>3 DEF Init, LookInv, Budget
  <1>5. BreakerTypeOK
    BY BreakerAssumption DEF Init, BreakerInit, BreakerTypeOK, Circuit
  <1>6. ToldInv
    <2>1. /\ suppressed \in 0..MaxFailOpen /\ failOpen \in 0..MaxFailOpen
          /\ told \in 0..MaxFailOpen /\ failOpen = told + suppressed /\ suppressed = 0
      BY OutageAssumption DEF Init, OutageInit
    <2>2. episode \in BOOLEAN
      BY Zenon DEF Init, OutageInit
    <2> QED BY <2>1, <2>2, Zenon DEF ToldInv, OutageTypeOK, EveryBypassIsToldOnce
  <1> QED BY <1>4, <1>5, <1>6 DEF IInv

LEMMA Always == Spec => [](IInv) /\ [][Next]_vars
  <1>1. Spec => Init /\ [][Next]_vars
    BY DEF Spec
  <1>2. IInv /\ [Next]_vars => IInv'
    BY LookKeeps, CircuitKeeps, ToldKeeps DEF IInv
  <1> QED BY <1>1, <1>2, Initially, PTL

\* The records of the walk, of the sequence, of the circuits and of the outages have
\* their types, and a sequence under way is at a provider of its chain, with fewer
\* denials than providers passed and no more tries than the provider allows.
THEOREM WalksAreTyped == Spec => []TypeOK
  <1>1. IInv => TypeOK
    <2> SUFFICES ASSUME IInv PROVE TypeOK
      OBVIOUS
    <2>1. ASSUME NEW l \in Request
          PROVE  /\ look[l] \in LookRec /\ call[l] \in CallRec
                 /\ call[l].step \in {"admit", "wait", "call", "backoff"} =>
                       /\ look[l].at \in 1..Len(ChainOf(look[l].stage))
                       /\ look[l].denied < look[l].at
                       /\ call[l].tries <= Attempts(Asked(l))
      BY DEF IInv, LookInv, Sound, Walking, Asked
    <2> QED BY <2>1 DEF IInv, LookInv, ToldInv, TypeOK, LookRec, CallRec
  <1> QED BY <1>1, Always, PTL

\* The cache keeps "this CEP has no place" for long only when every provider of the
\* chain that decided was reached by this lookup and said so, however its requests,
\* refusals, open circuits and strategies took turns (provider-chain.ts).
THEOREM NegativesAreUnanimous == Spec => []LongNegativesAreUnanimous
  <1>1. IInv => LongNegativesAreUnanimous
    BY DEF IInv, LookInv, Sound, Unanimous, LongNegativesAreUnanimous
  <1> QED BY <1>1, Always, PTL

\* Only a request whose own budget ran short is told it ran out of time
\* (deadline-retry.ts).
THEOREM AbortsAreOwn == Spec => []AbortedMeansShortBudget
  <1>1. IInv => AbortedMeansShortBudget
    BY DEF IInv, LookInv, Sound, AbortedMeansShortBudget
  <1> QED BY <1>1, Always, PTL

\* No bypass of the limiter is lost from the log, or told twice (outage-reporter.ts).
THEOREM BypassesAreTold == Spec => []EveryBypassIsToldOnce
  <1>1. IInv => EveryBypassIsToldOnce
    BY DEF IInv, ToldInv
  <1> QED BY <1>1, Always, PTL

\* What a lookup left behind reaches no provider any more: who starts a call awaits
\* its answer and has a budget (deadline-retry.ts settleFirst, attemptOnce).
THEOREM LeftoversAskNobody == Spec => TheUnheardAskNobody
  <1>1. IInv /\ [Next]_vars => [\A l \in Request : CallsStarted(l) => Awaited(l) /\ ~Spent(l)]_vars
    BY LookKeeps DEF IInv, Asks
  <1> QED BY <1>1, Always, PTL DEF TheUnheardAskNobody

-----------------------------------------------------------------------------
(* The registry: what it promises, for every table a statement may see and *)
(* any number of churches.                                                 *)

\* Being a twin is mutual.
LEMMA TwinsAreMutual ==
    ASSUME NEW c, NEW d PROVE Twin(c, d) <=> Twin(d, c)
  BY DEF Twin, SameName, SamePlace

\* Only a request that said "created" leaves a table other than the one its last
\* statement saw, and that statement met no twin in it (create-church.service.ts).
LEMMA CreatedMeansNoTwin ==
    ASSUME NEW seen, NEW d, NEW fails, CreateChurch(seen, d, fails) = "created"
    PROVE  findByParams(seen.createChurch, d) = {}
  <1>1. CreateChurch(seen, d, fails) \in {"NoAddressError", findDuplicate(seen, d, fails),
                                          mapError("failed"), createChurch(seen.createChurch, d)}
    BY DEF CreateChurch
  <1>2. mapError("failed") = "DatabaseQueryError" /\ mapError("P2010") = "DatabaseQueryError"
    BY DEF mapError, Mapped
  <1>3. findDuplicate(seen, d, fails) # "created"
    BY <1>2 DEF findDuplicate
  <1>4. createChurch(seen.createChurch, d) = "created"
    BY <1>1, <1>2, <1>3
  <1> QED BY <1>4, <1>2 DEF createChurch

\* No creation makes two churches share a name or a place, however stale the tables its
\* checks read and whatever fails (prisma-churches.repository.ts createChurch).
THEOREM CreationKeepsApart ==
    ASSUME NEW seen, NEW d, NEW id, NEW fails, NoTwins(seen.createChurch)
    PROVE  NoTwins(Left(seen, d, id, fails))
  <1>1. CASE CreateChurch(seen, d, fails) # "created"
    BY <1>1 DEF Left
  <1>2. CASE CreateChurch(seen, d, fails) = "created"
    <2> DEFINE new == [publicId |-> id, name |-> d.name, at |-> d.at]
    <2>1. Left(seen, d, id, fails) = seen.createChurch \cup {new}
      BY <1>2 DEF Left, insertChurch
    <2>2. \A c \in seen.createChurch : ~Twin(c, new)
      BY <1>2, CreatedMeansNoTwin DEF findByParams, Twin, SameName, SamePlace
    <2>3. \A c \in seen.createChurch : ~Twin(new, c)
      BY <2>2, TwinsAreMutual
    <2> HIDE DEF new
    <2> QED BY <2>1, <2>2, <2>3 DEF NoTwins
  <1> QED BY <1>1, <1>2

\* Nor does a deletion (prisma-churches.repository.ts deleteChurchByPublicId).
THEOREM DeletionKeepsApart ==
    ASSUME NEW table, NEW id, NoTwins(table)
    PROVE  NoTwins(DeleteChurch(table, id).table)
  BY DEF NoTwins, DeleteChurch, deleteChurchByPublicId

\* A church that stood while the request ran is never duplicated, and a conflict is
\* answered only to a request that read one (create-church.service.ts findDuplicate).
THEOREM ConflictsAreTrue ==
    ASSUME NEW seen, NEW d, NEW fails
    PROVE  ConflictIsTrue(seen, d, fails)
  <1>1. ASSUME NEW c \in seen.createChurch, Twin(c, d)
        PROVE  CreateChurch(seen, d, fails) # "created"
    BY <1>1, CreatedMeansNoTwin DEF findByParams
  <1>2. ASSUME CreateChurch(seen, d, fails) = "ChurchAlreadyExistsError"
        PROVE  \E c \in seen.findByName \cup seen.findByParams : Twin(c, d)
    <2>1. mapError("failed") = "DatabaseQueryError" /\ mapError("P2010") = "DatabaseQueryError"
      BY DEF mapError, Mapped
    <2>2. findDuplicate(seen, d, fails) = "ChurchAlreadyExistsError"
      BY <1>2, <2>1 DEF CreateChurch, createChurch
    <2>3. findByName(seen.findByName, d.name) # {} \/ findByParams(seen.findByParams, d) # {}
      BY <2>1, <2>2 DEF findDuplicate
    <2> QED BY <2>3 DEF findByName, findByParams, Twin
  <1> QED BY <1>1, <1>2 DEF ConflictIsTrue

\* Whoever loses the race for a name or a place is told of a failure of the database:
\* the raw INSERT's code has no mapping (churches-prisma-error-mapping.ts).
THEOREM LostRacesAreFailures ==
    ASSUME NEW seen, NEW d \in Data PROVE LostRaceIsAFailure(seen, d)
  <1> SUFFICES ASSUME d.address = "given",
                      findByParams(seen.findByName \cup seen.findByParams, d) = {},
                      findByParams(seen.createChurch, d) # {}
               PROVE  CreateChurch(seen, d, {}) = "DatabaseQueryError"
    BY DEF LostRaceIsAFailure
  <1>1. findByName(seen.findByName, d.name) = {} /\ findByParams(seen.findByParams, d) = {}
    BY DEF findByName, findByParams, Twin
  <1>2. findDuplicate(seen, d, {}) = "none"
    BY <1>1 DEF findDuplicate
  <1>3. createChurch(seen.createChurch, d) = "DatabaseQueryError"
    BY DEF createChurch, mapError, Mapped
  <1> QED BY <1>2, <1>3 DEF CreateChurch

\* Asked for at least as many rows as there are, a search keeps them all.
LEMMA AllAreKept ==
    ASSUME NEW table, IsFiniteSet(table), NEW distance, NEW n \in Nat, Cardinality(table) <= n
    PROVE  Nearest(table, distance, n) = {table}
  <1>1. Cardinality(table) \in Nat
    BY FS_CardinalityType
  <1>2. ~(Cardinality(table) < n) => n = Cardinality(table)
    BY <1>1
  <1>3. ASSUME NEW kept \in Nearest(table, distance, n) PROVE kept = table
    <2>1. kept \subseteq table /\ Cardinality(kept) = Cardinality(table)
      BY <1>2 DEF Nearest
    <2> QED BY <2>1, FS_Subset
  <1>4. table \in Nearest(table, distance, n)
    BY <1>2 DEF Nearest
  <1> QED BY <1>3, <1>4

\* As long as every church is a candidate, the two-phase search answers as one exact
\* search would, whatever the index's order makes of the distances (KNN_SQL).
THEOREM SmallRegistriesAreSearchedExactly ==
    ASSUME NEW table, IsFiniteSet(table), NEW user \in Point, NEW limit \in Nat
    PROVE  SearchIsExact(table, user, limit)
  <1>1. knnCandidates(limit) \in Nat
    BY RegistryAssumption DEF knnCandidates
  <1>2. SUFFICES ASSUME Cardinality(table) <= knnCandidates(limit)
                 PROVE  findNearest(table, user, limit) = Nearest(table, exactDistance[user], limit)
    BY DEF SearchIsExact
  <1>3. Nearest(table, indexDistance[user], knnCandidates(limit)) = {table}
    BY <1>1, <1>2, AllAreKept
  <1> QED BY <1>3 DEF findNearest

\* However little is left, even nothing, the statement is bounded: 0 would lift the bound
\* (prisma-churches.repository.ts toStatementTimeout).
THEOREM TheStatementIsBounded ==
    ASSUME NEW left \in Int, NEW scale \in Nat \ {0}
    PROVE  toStatementTimeout(left, scale) >= 1
  <1>1. left \div scale \in Int
    OBVIOUS
  <1> QED BY <1>1 DEF toStatementTimeout
================================================================================
