------------------------ MODULE ResilientCacheProofs ------------------------
(***************************************************************************)
(* The safety of ResilientCache for any number of callers, pods and keys.   *)
(***************************************************************************)
EXTENDS ResilientCache, FiniteSetTheorems, TLAPS

-----------------------------------------------------------------------------
(* The inductive invariant *)

\* The records TypeOK admits.
CallerRec == [phase : {"new", "reading", "missed", "waiting", "done"},
              pod : Pod \cup {Nobody}, key : Key \cup {Nobody},
              on : Caller \cup {Nobody}, expired : BOOLEAN,
              answer : Answer \cup {"none"}]

FlightRec == [phase : {"none", "queued", "running", "writing", "settled", "gone"},
              budget : Budget, probe : BOOLEAN,
              said : Reply \cup {"none"}, sent : BOOLEAN,
              answer : Answer \cup {"none"}]

Circuits == [Pod -> {"closed", "open", "halfopen"}]

\* What the record of caller c may be beside the fetches fl: before its read
\* is over it has started nothing; once arrived it has a place; the time it was
\* told is up is its own or its fetch's, too short for another attempt.
CallerFits(c, rec, fl) ==
    /\ rec \in CallerRec
    /\ rec.phase = "done" <=> rec.answer # "none"
    /\ rec.phase \in {"new", "reading", "missed"} => fl[c] = NoFlight
    /\ rec.phase # "new" => rec.pod \in Pod /\ rec.key \in Key
    /\ rec.phase = "waiting" => rec.on \in Caller
    /\ rec.answer = "aborted" =>
           rec.expired \/ (rec.on # Nobody /\ fl[rec.on].budget # "ample")

\* What a fetch has learned and told, phase by phase.
FlightFits(rec) ==
    /\ rec \in FlightRec
    /\ rec.phase \in {"none", "queued", "running"} =>
           rec.said = "none" /\ rec.answer = "none"
    /\ rec.phase = "writing" => rec.said \in Deterministic /\ rec.answer = "none"
    /\ rec.phase = "settled" => rec.answer # "none"
    /\ rec.answer = "aborted" => rec.budget # "ample"
    /\ rec.said \in Deterministic => rec.sent /\ rec.answer \in {rec.said, "none"}

\* In the table from the start to the deregistration.
Listed(rec) == rec.phase \in {"queued", "running", "writing", "settled"}

Registered ==
    \A f \in Caller : Listed(flight[f]) => pending[PodOf(f)][KeyOf(f)] = f

IInv ==
    /\ caller \in [Caller -> CallerRec]
    /\ flight \in [Caller -> FlightRec]
    /\ pending \in [Pod -> [Key -> Caller \cup {Nobody}]]
    /\ redis \in [Key -> Answer \cup {"none"}]
    /\ late \subseteq Key \X Answer
    /\ breaker \in Circuits
    /\ \A c \in Caller : CallerFits(c, caller[c], flight)
    /\ \A f \in Caller : FlightFits(flight[f])
    /\ Registered
    /\ OnlyFactsAreStored

\* The invariant contains what it is for.
LEMMA IInvSuffices ==
    IInv => TypeOK /\ SingleFlight /\ LeavingHurtsNobody /\ PaidWorkIsKept
  <1> SUFFICES ASSUME IInv PROVE TypeOK /\ SingleFlight /\ LeavingHurtsNobody /\ PaidWorkIsKept
    OBVIOUS
  <1> USE DEF IInv, CallerFits, FlightFits
  <1>1. TypeOK
    BY DEF TypeOK, CallerRec, FlightRec, Circuits
  <1>2. SingleFlight
    BY DEF Registered, SingleFlight, InFlight, Executing, Listed
  <1>3. LeavingHurtsNobody
    BY DEF LeavingHurtsNobody
  <1>4. PaidWorkIsKept
    BY DEF PaidWorkIsKept
  <1> QED
    BY <1>1, <1>2, <1>3, <1>4

\* It holds when the process starts.
LEMMA InitInv == Init => IInv
  <1> SUFFICES ASSUME Init PROVE IInv
    OBVIOUS
  <1> USE CacheAssumption DEF Init, NewCaller, NoFlight, Answer, Reply, Deterministic
  <1>1. /\ caller \in [Caller -> CallerRec]
        /\ flight \in [Caller -> FlightRec]
        /\ breaker \in Circuits
    BY DEF CallerRec, FlightRec, Budget, Circuits
  <1>2. \A c \in Caller : CallerFits(c, caller[c], flight) /\ FlightFits(flight[c])
    BY <1>1 DEF CallerFits, FlightFits, CallerRec, FlightRec
  <1>3. Registered /\ OnlyFactsAreStored
    BY DEF Registered, Listed, OnlyFactsAreStored
  <1> QED
    BY <1>1, <1>2, <1>3 DEF IInv

-----------------------------------------------------------------------------
(* How the steps change the state *)

\* A step that changes one caller and no fetch.
LEMMA CallerMoves ==
    ASSUME IInv, NEW c \in Caller, NEW rec,
           caller' = [caller EXCEPT ![c] = rec],
           CallerFits(c, rec, flight),
           flight[c] = NoFlight
               \/ (rec.pod = caller[c].pod /\ rec.key = caller[c].key),
           UNCHANGED <<flight, pending, redis, late, breaker>>
    PROVE  IInv'
  <1> USE DEF IInv
  <1>1. caller' \in [Caller -> CallerRec]
    BY DEF CallerFits
  <1>2. \A d \in Caller : CallerFits(d, caller'[d], flight)
    BY DEF CallerFits
  <1>3. \A d \in Caller : flight[d] = NoFlight
            \/ (caller'[d].pod = caller[d].pod /\ caller'[d].key = caller[d].key)
    OBVIOUS
  <1>4. Registered'
    BY <1>3 DEF Registered, Listed, NoFlight, PodOf, KeyOf
  <1>5. OnlyFactsAreStored'
    BY <1>3 DEF OnlyFactsAreStored, NoFlight, KeyOf, Deterministic
  <1>6. (\A d \in Caller : CallerFits(d, caller[d], flight))'
    BY <1>2 DEF CallerFits
  <1> QED
    BY <1>1, <1>4, <1>5, <1>6 DEF FlightFits

\* What callers may hear when a fetch changes: some who wait are told.
Hear(fl) ==
    /\ caller' \in [Caller -> CallerRec]
    /\ \A c \in Caller :
           \/ caller'[c] = caller[c]
           \/ /\ caller[c].phase = "waiting"
              /\ \E a \in Answer :
                     /\ caller'[c] = Told(caller[c], a)
                     /\ a = "aborted" => fl[caller[c].on].budget # "ample"

\* Where a fact that is sent comes from.
SentBy(f, said) ==
    \A x \in late' \ late : x = <<KeyOf(f), said>> /\ said \in Deterministic

\* A step that changes one registered fetch, and tells some of its waiters.
LEMMA FlightMoves ==
    ASSUME IInv, NEW f \in Caller, NEW rec,
           flight' = [flight EXCEPT ![f] = rec],
           Listed(flight[f]), FlightFits(rec), Listed(rec),
           flight[f].budget # "ample" => rec.budget # "ample",
           flight[f].said \in Deterministic => rec.said = flight[f].said,
           Hear(flight'),
           SentBy(f, rec.said), late' \subseteq Key \X Answer,
           breaker' \in Circuits,
           UNCHANGED <<pending, redis>>
    PROVE  IInv'
  <1> USE DEF IInv
  <1>0. flight[f] # NoFlight
    BY DEF Listed, NoFlight
  <1>1. /\ flight' \in [Caller -> FlightRec]
        /\ \A g \in Caller : FlightFits(flight'[g])
    BY DEF FlightFits
  <1>2. \A g \in Caller : flight[g].budget # "ample" => flight'[g].budget # "ample"
    OBVIOUS
  <1>3. \A g \in Caller : flight[g] = NoFlight => flight'[g] = NoFlight
    BY <1>0
  <1>4. \A c \in Caller : /\ caller'[c].pod = caller[c].pod
                          /\ caller'[c].key = caller[c].key
                          /\ caller'[c].on = caller[c].on
    <2> SUFFICES ASSUME NEW c \in Caller
                 PROVE  /\ caller'[c].pod = caller[c].pod
                        /\ caller'[c].key = caller[c].key
                        /\ caller'[c].on = caller[c].on
      OBVIOUS
    <2>1. caller[c] \in CallerRec
      OBVIOUS
    <2>2. \A a : LET r == Told(caller[c], a)
                 IN  r.pod = caller[c].pod /\ r.key = caller[c].key /\ r.on = caller[c].on
      BY <2>1 DEF Told, CallerRec
    <2> QED
      BY <2>2 DEF Hear
  <1>5. \A c \in Caller : CallerFits(c, caller'[c], flight')
    <2> SUFFICES ASSUME NEW c \in Caller PROVE CallerFits(c, caller'[c], flight')
      OBVIOUS
    <2>1. CASE caller'[c] = caller[c]
      BY <1>1, <1>2, <1>3, <2>1, CacheAssumption DEF CallerFits, CallerRec
    <2>2. CASE caller[c].phase = "waiting" /\ caller'[c] # caller[c]
      <3>1. PICK a \in Answer : /\ caller'[c] = Told(caller[c], a)
                                /\ a = "aborted" => flight'[caller[c].on].budget # "ample"
        BY <2>2 DEF Hear
      <3>2. a # "none"
        BY DEF Answer, Reply, Deterministic
      <3>3. /\ caller[c].pod \in Pod /\ caller[c].key \in Key
            /\ caller[c].on \in Caller /\ caller[c] \in CallerRec
        BY <2>2 DEF CallerFits
      <3>4. /\ caller'[c].phase = "done" /\ caller'[c].answer = a
            /\ caller'[c] \in CallerRec
        BY <3>1, <3>3 DEF Told, CallerRec
      <3> QED
        BY <1>4, <3>1, <3>2, <3>3, <3>4, CacheAssumption DEF CallerFits
    <2> QED
      BY <2>1, <2>2 DEF Hear
  <1>6. Registered'
    BY <1>4 DEF Registered, PodOf, KeyOf
  <1>7. OnlyFactsAreStored'
    <2> SUFFICES ASSUME NEW k \in Key, NEW a \in Answer,
                        redis'[k] = a \/ <<k, a>> \in late'
                 PROVE  /\ a \in Deterministic
                        /\ \E g \in Caller : flight'[g].said = a /\ caller'[g].key = k
      BY DEF OnlyFactsAreStored, KeyOf
    <2>1. CASE redis[k] = a \/ <<k, a>> \in late
      <3>1. a \in Deterministic
        BY <2>1 DEF OnlyFactsAreStored
      <3>2. PICK g \in Caller : flight[g].said = a /\ caller[g].key = k
        BY <2>1 DEF OnlyFactsAreStored, KeyOf
      <3>3. flight'[g].said = a
        BY <3>1, <3>2
      <3> QED
        BY <1>4, <3>1, <3>2, <3>3
    <2>2. CASE <<k, a>> \in late' \ late
      <3>1. k = caller[f].key /\ a = rec.said /\ a \in Deterministic
        BY <2>2 DEF SentBy, KeyOf
      <3>2. flight'[f].said = a
        BY <3>1
      <3> QED
        BY <1>4, <3>1, <3>2
    <2> QED
      BY <2>1, <2>2
  <1>8. (\A c \in Caller : CallerFits(c, caller[c], flight))'
    BY <1>5 DEF CallerFits
  <1> QED
    BY <1>1, <1>6, <1>7, <1>8 DEF Hear, FlightFits

\* Whoever races a caller against fetch f leaves a record that fits.
LEMMA RaceFits ==
    ASSUME NEW c \in Caller, NEW f \in Caller, NEW rec \in CallerRec,
           NEW fl \in [Caller -> FlightRec], FlightFits(fl[f]),
           rec.pod \in Pod, rec.key \in Key, rec.answer = "none"
    PROVE  /\ CallerFits(c, raceCaller(rec, f, fl), fl)
           /\ raceCaller(rec, f, fl).pod = rec.pod
           /\ raceCaller(rec, f, fl).key = rec.key
  <1> DEFINE joined == [rec EXCEPT !.on = f]
  <1>1. /\ joined \in CallerRec
        /\ joined.pod = rec.pod /\ joined.key = rec.key /\ joined.on = f
        /\ joined.expired = rec.expired /\ joined.answer = "none"
    BY DEF CallerRec
  <1>2. CASE rec.expired
    <2>1. raceCaller(rec, f, fl) = Told(joined, "aborted")
      BY <1>2 DEF raceCaller
    <2>2. /\ Told(joined, "aborted") \in CallerRec
          /\ Told(joined, "aborted").phase = "done"
          /\ Told(joined, "aborted").answer = "aborted"
          /\ Told(joined, "aborted").pod = rec.pod
          /\ Told(joined, "aborted").key = rec.key
          /\ Told(joined, "aborted").expired = rec.expired
      BY <1>1 DEF Told, CallerRec, Answer, Reply
    <2> QED
      BY <1>2, <2>1, <2>2 DEF CallerFits
  <1>3. CASE ~rec.expired /\ fl[f].phase = "settled"
    <2> DEFINE a == fl[f].answer
    <2>1. raceCaller(rec, f, fl) = Told(joined, a)
      BY <1>3 DEF raceCaller
    <2>2. a \in Answer /\ a # "none" /\ (a = "aborted" => fl[f].budget # "ample")
      BY <1>3 DEF FlightFits, FlightRec
    <2>3. /\ Told(joined, a) \in CallerRec
          /\ Told(joined, a).phase = "done" /\ Told(joined, a).answer = a
          /\ Told(joined, a).pod = rec.pod /\ Told(joined, a).key = rec.key
          /\ Told(joined, a).on = f
      BY <1>1, <2>2 DEF Told, CallerRec
    <2> QED
      BY <2>1, <2>2, <2>3, CacheAssumption DEF CallerFits
  <1>4. CASE ~rec.expired /\ fl[f].phase # "settled"
    <2> DEFINE w == [joined EXCEPT !.phase = "waiting"]
    <2>1. raceCaller(rec, f, fl) = w
      BY <1>4 DEF raceCaller
    <2>2. /\ w \in CallerRec /\ w.phase = "waiting" /\ w.answer = "none"
          /\ w.pod = rec.pod /\ w.key = rec.key /\ w.on = f
      BY <1>1 DEF CallerRec
    <2> QED
      BY <2>1, <2>2 DEF CallerFits
  <1> QED
    BY <1>2, <1>3, <1>4

\* What the policies may make of fetch f: refused, running or queued, none of
\* it an ABORTED.
Verdict(f, rec) ==
    /\ rec \in FlightRec
    /\ FlightFits(rec) /\ Listed(rec)
    /\ rec.said = "none" /\ rec.answer # "aborted"
    /\ rec.budget = flight[f].budget

\* The policies do to one fetch what Verdict says, and keep the circuit a
\* circuit (resilient-cache.ts:147-178).
LEMMA PoliciesDecide ==
    ASSUME IInv, NEW f \in Caller, NEW p \in Pod,
           flight[f].phase \in {"none", "queued"}, guardedFetch(f, p)
    PROVE  /\ breaker' \in Circuits
           /\ \E rec : flight' = [flight EXCEPT ![f] = rec] /\ Verdict(f, rec)
  <1> DEFINE Decided == \E rec : flight' = [flight EXCEPT ![f] = rec] /\ Verdict(f, rec)
  <1>1. /\ flight[f] \in FlightRec
        /\ flight[f].said = "none" /\ flight[f].answer = "none"
        /\ flight \in [Caller -> FlightRec]
    BY DEF IInv, FlightFits
  <1>2. ASSUME NEW a \in {"limit", "circuit"}, flight' = Refused(f, a)
        PROVE  Decided
    <2> DEFINE rec == [flight[f] EXCEPT !.phase = "settled", !.answer = a]
    <2>1. flight' = [flight EXCEPT ![f] = rec]
      BY <1>1, <1>2 DEF Refused, FlightRec
    <2>2. Verdict(f, rec)
      BY <1>1 DEF Verdict, FlightRec, FlightFits, Listed, Answer, Deterministic
    <2> HIDE DEF rec
    <2> QED
      BY <2>1, <2>2
  <1>3. ASSUME NEW probe \in BOOLEAN,
               flight' = [flight EXCEPT ![f].phase = "running", ![f].probe = probe]
        PROVE  Decided
    <2> DEFINE rec == [flight[f] EXCEPT !.phase = "running", !.probe = probe]
    <2>1. flight' = [flight EXCEPT ![f] = rec]
      BY <1>1, <1>3 DEF FlightRec
    <2>2. Verdict(f, rec)
      BY <1>1 DEF Verdict, FlightRec, FlightFits, Listed, Deterministic
    <2> HIDE DEF rec
    <2> QED
      BY <2>1, <2>2
  <1>4. ASSUME flight' = [flight EXCEPT ![f].phase = "queued"]
        PROVE  Decided
    <2> DEFINE rec == [flight[f] EXCEPT !.phase = "queued"]
    <2>1. flight' = [flight EXCEPT ![f] = rec]
      BY <1>1, <1>4 DEF FlightRec
    <2>2. Verdict(f, rec)
      BY <1>1 DEF Verdict, FlightRec, FlightFits, Listed, Deterministic
    <2> HIDE DEF rec
    <2> QED
      BY <2>1, <2>2
  <1> HIDE DEF Decided
  <1>5. ASSUME NEW probe \in BOOLEAN, Limiter(f, p, probe)
        PROVE  breaker' \in Circuits /\ Decided
    <2>1. breaker' \in Circuits
      BY <1>5 DEF Limiter, IInv, Circuits
    <2>2. Decided
      BY <1>2, <1>3, <1>5 DEF Limiter
    <2> QED
      BY <2>1, <2>2
  <1>6. breaker' \in Circuits /\ Decided
    <2>1. CASE \E probe \in BOOLEAN : Limiter(f, p, probe)
      BY <1>5, <2>1
    <2>2. CASE flight' = Refused(f, "circuit") /\ UNCHANGED breaker
      BY <1>2, <2>2 DEF IInv
    <2>3. CASE flight' = [flight EXCEPT ![f].phase = "queued"] /\ UNCHANGED breaker
      BY <1>4, <2>3 DEF IInv
    <2> QED
      BY <2>1, <2>2, <2>3 DEF guardedFetch
  <1> QED
    BY <1>6 DEF Decided

-----------------------------------------------------------------------------
(* The steps of a caller *)

\* A caller arrives.
LEMMA getOrFetchInv ==
    ASSUME IInv, NEW c \in Caller, NEW p \in Pod, NEW k \in Key,
           NEW spent \in BOOLEAN, getOrFetch(c, p, k, spent)
    PROVE  IInv'
  <1> DEFINE arrived == [caller[c] EXCEPT !.pod = p, !.key = k, !.expired = spent]
             f == pending[p][k]
             rec == IF spent THEN Told(arrived, "aborted")
                    ELSE IF f # Nobody THEN raceCaller(arrived, f, flight)
                    ELSE [arrived EXCEPT !.phase = "reading"]
  <1>1. /\ caller[c].phase = "new" /\ caller' = [caller EXCEPT ![c] = rec]
        /\ UNCHANGED <<flight, pending, redis, late, breaker>>
    BY DEF getOrFetch
  <1>2. /\ caller[c] \in CallerRec /\ caller[c].answer = "none" /\ flight[c] = NoFlight
        /\ f \in Caller \cup {Nobody}
    BY <1>1 DEF IInv, CallerFits
  <1>3. /\ arrived \in CallerRec /\ arrived.pod = p /\ arrived.key = k
        /\ arrived.expired = spent /\ arrived.answer = "none"
    BY <1>2 DEF CallerRec
  <1>4. CallerFits(c, rec, flight)
    <2>1. CASE spent
      <3>1. /\ Told(arrived, "aborted") \in CallerRec
            /\ Told(arrived, "aborted").phase = "done"
            /\ Told(arrived, "aborted").answer = "aborted"
            /\ Told(arrived, "aborted").expired
            /\ Told(arrived, "aborted").pod = p /\ Told(arrived, "aborted").key = k
        BY <1>3, <2>1 DEF Told, CallerRec, Answer, Reply
      <3>2. CallerFits(c, Told(arrived, "aborted"), flight)
        BY <3>1 DEF CallerFits
      <3> QED
        BY <2>1, <3>2
    <2>2. CASE ~spent /\ f # Nobody
      <3>1. CallerFits(c, raceCaller(arrived, f, flight), flight)
        <4> HIDE DEF arrived, f
        <4> QED
          BY <1>2, <1>3, <2>2, RaceFits DEF IInv
      <3> QED
        BY <2>2, <3>1
    <2>3. CASE ~spent /\ f = Nobody
      <3> DEFINE r == [arrived EXCEPT !.phase = "reading"]
      <3>1. /\ r \in CallerRec /\ r.phase = "reading" /\ r.answer = "none"
            /\ r.pod = p /\ r.key = k
        BY <1>3 DEF CallerRec
      <3>2. CallerFits(c, r, flight)
        BY <1>2, <3>1 DEF CallerFits
      <3> QED
        BY <2>3, <3>2
    <2> QED
      BY <2>1, <2>2, <2>3
  <1> HIDE DEF rec
  <1> QED
    BY <1>1, <1>2, <1>4, CallerMoves

\* A caller that is told something it may be told.
LEMMA TellFits ==
    ASSUME IInv, NEW c \in Caller, NEW a \in Answer, caller[c].phase # "new",
           a = "aborted" => caller[c].expired
    PROVE  /\ CallerFits(c, Told(caller[c], a), flight)
           /\ Told(caller[c], a).pod = caller[c].pod
           /\ Told(caller[c], a).key = caller[c].key
  <1>1. caller[c] \in CallerRec /\ caller[c].pod \in Pod /\ caller[c].key \in Key
    BY DEF IInv, CallerFits
  <1>2. a # "none"
    BY DEF Answer, Reply, Deterministic
  <1>3. /\ Told(caller[c], a) \in CallerRec
        /\ Told(caller[c], a).phase = "done" /\ Told(caller[c], a).answer = a
        /\ Told(caller[c], a).pod = caller[c].pod
        /\ Told(caller[c], a).key = caller[c].key
        /\ Told(caller[c], a).expired = caller[c].expired
    BY <1>1 DEF Told, CallerRec
  <1> QED
    BY <1>1, <1>2, <1>3 DEF CallerFits

\* A hit tells the caller a fact, a miss moves it on.
LEMMA ReadInv ==
    ASSUME IInv, NEW c \in Caller, ReadHit(c) \/ ReadMiss(c)
    PROVE  IInv'
  <1>1. CASE ReadHit(c)
    <2> DEFINE a == redis[caller[c].key]
    <2>1. caller[c].phase = "reading" /\ a # "none"
      BY <1>1 DEF ReadHit
    <2>2. caller[c].key \in Key /\ a \in Answer
      BY <2>1 DEF IInv, CallerFits
    <2>3. a # "aborted"
      BY <2>2 DEF IInv, OnlyFactsAreStored, Deterministic
    <2>4. /\ caller' = [caller EXCEPT ![c] = Told(caller[c], a)]
          /\ UNCHANGED <<flight, pending, redis, late, breaker>>
      BY <1>1 DEF ReadHit
    <2> HIDE DEF a
    <2>5. /\ CallerFits(c, Told(caller[c], a), flight)
          /\ Told(caller[c], a).pod = caller[c].pod
          /\ Told(caller[c], a).key = caller[c].key
      BY <2>1, <2>2, <2>3, TellFits
    <2> QED
      BY <2>4, <2>5, CallerMoves
  <1>2. CASE ReadMiss(c)
    <2> DEFINE rec == [caller[c] EXCEPT !.phase = "missed"]
    <2>1. /\ caller[c].phase = "reading" /\ caller' = [caller EXCEPT ![c] = rec]
          /\ UNCHANGED <<flight, pending, redis, late, breaker>>
      BY <1>2 DEF ReadMiss, IInv
    <2>2. CallerFits(c, rec, flight) /\ rec.pod = caller[c].pod /\ rec.key = caller[c].key
      BY <2>1 DEF IInv, CallerFits, CallerRec
    <2> QED
      BY <2>1, <2>2, CallerMoves
  <1> QED
    BY <1>1, <1>2

\* A budget that ends turns a wait into an ABORTED of the caller's own, and a
\* read into a miss.
LEMMA CallerExpiresInv ==
    ASSUME IInv, NEW c \in Caller, CallerExpires(c)
    PROVE  IInv'
  <1> DEFINE out == [caller[c] EXCEPT !.expired = TRUE]
             rec == IF caller[c].phase = "waiting" THEN Told(out, "aborted")
                    ELSE [out EXCEPT !.phase = "missed"]
  <1>1. /\ caller[c].phase \in {"reading", "waiting"}
        /\ caller' = [caller EXCEPT ![c] = rec]
        /\ UNCHANGED <<flight, pending, redis, late, breaker>>
    BY DEF CallerExpires, IInv
  <1>2. /\ caller[c] \in CallerRec /\ caller[c].answer = "none"
        /\ caller[c].pod \in Pod /\ caller[c].key \in Key
        /\ caller[c].phase = "reading" => flight[c] = NoFlight
    BY <1>1 DEF IInv, CallerFits
  <1>3. /\ out \in CallerRec /\ out.expired /\ out.answer = "none"
        /\ out.pod = caller[c].pod /\ out.key = caller[c].key
    BY <1>2 DEF CallerRec
  <1>4. /\ CallerFits(c, rec, flight)
        /\ rec.pod = caller[c].pod /\ rec.key = caller[c].key
    <2>1. CASE caller[c].phase = "waiting"
      <3>1. /\ rec \in CallerRec /\ rec.phase = "done" /\ rec.answer = "aborted"
            /\ rec.expired /\ rec.pod = caller[c].pod /\ rec.key = caller[c].key
        BY <1>3, <2>1 DEF Told, CallerRec, Answer, Reply
      <3> HIDE DEF rec
      <3> QED
        BY <1>2, <3>1 DEF CallerFits
    <2>2. CASE caller[c].phase = "reading"
      <3>1. /\ rec \in CallerRec /\ rec.phase = "missed" /\ rec.answer = "none"
            /\ rec.pod = caller[c].pod /\ rec.key = caller[c].key
        BY <1>3, <2>2 DEF CallerRec
      <3> HIDE DEF rec
      <3> QED
        BY <1>2, <2>2, <3>1 DEF CallerFits
    <2> QED
      BY <1>1, <2>1, <2>2
  <1> HIDE DEF rec
  <1> QED
    BY <1>1, <1>4, CallerMoves

\* After its read a caller joins the fetch that was started meanwhile.
LEMMA JoinStartedInv ==
    ASSUME IInv, NEW c \in Caller, JoinStarted(c)
    PROVE  IInv'
  <1> DEFINE f == pending[caller[c].pod][caller[c].key]
             rec == raceCaller(caller[c], f, flight)
  <1>1. /\ caller[c].phase = "missed" /\ f # Nobody
        /\ caller' = [caller EXCEPT ![c] = rec]
        /\ UNCHANGED <<flight, pending, redis, late, breaker>>
    BY DEF JoinStarted, IInv
  <1>2. /\ caller[c] \in CallerRec /\ caller[c].answer = "none"
        /\ caller[c].pod \in Pod /\ caller[c].key \in Key
    BY <1>1 DEF IInv, CallerFits
  <1>3. f \in Caller
    BY <1>1, <1>2 DEF IInv
  <1> HIDE DEF f
  <1>4. /\ CallerFits(c, rec, flight)
        /\ rec.pod = caller[c].pod /\ rec.key = caller[c].key
    BY <1>2, <1>3, RaceFits DEF IInv
  <1> HIDE DEF rec
  <1> QED
    BY <1>1, <1>4, CallerMoves

\* A caller that finds the table empty puts its own fetch there, and races it
\* (resilient-cache.ts:258-288).
LEMMA startFetchInv ==
    ASSUME IInv, NEW c \in Caller, startFetch(c)
    PROVE  IInv'
  <1> DEFINE p == caller[c].pod
             k == caller[c].key
  <1>1. /\ caller[c].phase = "missed" /\ pending[p][k] = Nobody
        /\ guardedFetch(c, p)
        /\ pending' = [pending EXCEPT ![p][k] = c]
        /\ caller' = [caller EXCEPT ![c] = raceCaller(caller[c], c, flight')]
        /\ UNCHANGED <<redis, late>>
    BY DEF startFetch, IInv
  <1>2. /\ caller \in [Caller -> CallerRec] /\ flight \in [Caller -> FlightRec]
        /\ caller[c].answer = "none"
        /\ p \in Pod /\ k \in Key /\ flight[c] = NoFlight
    BY <1>1 DEF IInv, CallerFits
  <1>3. flight[c].phase = "none"
    BY <1>2 DEF NoFlight
  <1> HIDE DEF p
  <1>4. breaker' \in Circuits
    BY <1>1, <1>2, <1>3, PoliciesDecide
  <1>5. PICK rec : flight' = [flight EXCEPT ![c] = rec] /\ Verdict(c, rec)
    BY <1>1, <1>2, <1>3, PoliciesDecide
  <1> USE DEF p
  <1>6. /\ flight' \in [Caller -> FlightRec]
        /\ \A f \in Caller : FlightFits(flight'[f])
    BY <1>2, <1>5 DEF Verdict, IInv
  <1>7. /\ CallerFits(c, raceCaller(caller[c], c, flight'), flight')
        /\ raceCaller(caller[c], c, flight').pod = p
        /\ raceCaller(caller[c], c, flight').key = k
    BY <1>2, <1>6, RaceFits
  <1>8. /\ caller' \in [Caller -> CallerRec]
        /\ \A d \in Caller : caller'[d].pod = caller[d].pod /\ caller'[d].key = caller[d].key
        /\ CallerFits(c, caller'[c], flight')
        /\ \A d \in Caller \ {c} : caller'[d] = caller[d] /\ flight'[d] = flight[d]
    BY <1>1, <1>2, <1>5, <1>7 DEF CallerFits
  <1>9. \A d \in Caller : CallerFits(d, caller'[d], flight')
    <2> SUFFICES ASSUME NEW d \in Caller \ {c} PROVE CallerFits(d, caller'[d], flight')
      BY <1>8
    <2>1. \A f \in Caller : flight[f].budget # "ample" => flight'[f].budget # "ample"
      BY <1>2, <1>5 DEF Verdict
    <2>2. CallerFits(d, caller[d], flight)
      BY DEF IInv
    <2> QED
      BY <1>2, <1>8, <2>1, <2>2, CacheAssumption DEF CallerFits, CallerRec
  <1>10. /\ pending' \in [Pod -> [Key -> Caller \cup {Nobody}]]
         /\ pending'[p][k] = c
         /\ \A q \in Pod, l \in Key :
                pending[q][l] # Nobody => pending'[q][l] = pending[q][l]
    BY <1>1, <1>2 DEF IInv
  <1>11. Registered'
    <2> SUFFICES ASSUME NEW f \in Caller, Listed(flight'[f])
                 PROVE  pending'[caller[f].pod][caller[f].key] = f
      BY <1>8 DEF Registered, PodOf, KeyOf
    <2>1. CASE f = c
      BY <1>10, <2>1
    <2>2. CASE f # c
      <3>1. Listed(flight[f]) /\ pending[caller[f].pod][caller[f].key] = f
        BY <1>8, <2>2 DEF IInv, Registered, PodOf, KeyOf
      <3>2. caller[f].pod \in Pod /\ caller[f].key \in Key
        BY <3>1 DEF IInv, CallerFits, Listed, NoFlight
      <3>3. pending[caller[f].pod][caller[f].key] # Nobody
        BY <3>1, CacheAssumption
      <3> QED
        BY <1>10, <3>1, <3>2, <3>3
    <2> QED
      BY <2>1, <2>2
  <1>12. OnlyFactsAreStored'
    <2>1. \A f \in Caller : flight[f].said \in Deterministic => flight'[f].said = flight[f].said
      BY <1>2, <1>5 DEF NoFlight, Deterministic
    <2> QED
      BY <1>1, <1>8, <2>1 DEF IInv, OnlyFactsAreStored, KeyOf
  <1>13. redis' \in [Key -> Answer \cup {"none"}] /\ late' \subseteq Key \X Answer
    BY <1>1 DEF IInv
  <1>14. (\A d \in Caller : CallerFits(d, caller[d], flight) /\ FlightFits(flight[d]))'
    BY <1>6, <1>9 DEF CallerFits, FlightFits
  <1> QED
    BY <1>4, <1>6, <1>8, <1>10, <1>11, <1>12, <1>13, <1>14 DEF IInv

-----------------------------------------------------------------------------
(* The steps of a fetch *)

\* Those who wait on a fetch may hear how it ended.
LEMMA AnnounceIsHeard ==
    ASSUME IInv, NEW f \in Caller, NEW a \in Answer, NEW fl,
           a = "aborted" => fl[f].budget # "ample", Announce(f, a)
    PROVE  Hear(fl)
  <1> DEFINE after == [c \in Caller |->
          IF caller[c].phase = "waiting" /\ caller[c].on = f THEN Told(caller[c], a)
          ELSE caller[c]]
  <1>1. caller' = after
    BY Zenon DEF Announce
  <1>2. ASSUME NEW c \in Caller
        PROVE  caller[c] \in CallerRec /\ Told(caller[c], a) \in CallerRec
    <2>1. caller[c] \in CallerRec
      BY DEF IInv
    <2> QED
      BY <2>1 DEF Told, CallerRec
  <1>3. after \in [Caller -> CallerRec]
    BY <1>2
  <1>4. ASSUME NEW c \in Caller
        PROVE  \/ after[c] = caller[c]
               \/ /\ caller[c].phase = "waiting" /\ caller[c].on = f
                  /\ after[c] = Told(caller[c], a)
    OBVIOUS
  <1> HIDE DEF after
  <1> QED
    BY <1>1, <1>3, <1>4 DEF Hear

\* Nobody hears anything of a fetch that goes on.
LEMMA SilenceIsHeard ==
    ASSUME IInv, NEW fl, UNCHANGED caller
    PROVE  Hear(fl)
  BY DEF Hear, IInv

\* A fetch that ends with an answer it may end with.
LEMMA SettleInv ==
    ASSUME IInv, NEW f \in Caller, NEW a \in Answer, Executing(f),
           a = "aborted" => flight[f].budget # "ample",
           flight[f].said \in Deterministic => a = flight[f].said,
           Settle(f, a), UNCHANGED <<pending, redis, late>>
    PROVE  IInv'
  <1> DEFINE rec == [flight[f] EXCEPT !.phase = "settled", !.answer = a]
  <1>1. flight[f] \in FlightRec /\ FlightFits(flight[f])
    BY DEF IInv
  <1>2. flight' = [flight EXCEPT ![f] = rec]
    BY <1>1 DEF Settle, IInv, FlightRec
  <1>3. /\ rec \in FlightRec /\ rec.phase = "settled" /\ rec.answer = a
        /\ rec.said = flight[f].said /\ rec.sent = flight[f].sent
        /\ rec.budget = flight[f].budget
    BY <1>1 DEF FlightRec
  <1> HIDE DEF rec
  <1>4. FlightFits(rec) /\ Listed(rec) /\ Listed(flight[f])
    BY <1>1, <1>3 DEF FlightFits, Listed, Executing, Answer, Reply, Deterministic
  <1>5. flight'[f] = rec
    BY <1>2 DEF IInv
  <1>6. Hear(flight')
    BY <1>3, <1>5, AnnounceIsHeard DEF Settle
  <1>7. breaker' \in Circuits
    BY DEF Settle, Judge, IInv, Circuits
  <1>8. SentBy(f, rec.said) /\ late' \subseteq Key \X Answer
    BY DEF SentBy, IInv
  <1> QED
    BY <1>2, <1>3, <1>4, <1>6, <1>7, <1>8, FlightMoves

\* The fetch's own clock ends it.
LEMMA FlightTimesOutInv ==
    ASSUME IInv, NEW f \in Caller, FlightTimesOut(f)
    PROVE  IInv'
  <1>1. /\ flight[f].phase = "running" /\ flight[f].budget # "ample"
        /\ Settle(f, "aborted") /\ UNCHANGED <<pending, redis, late>>
    BY DEF FlightTimesOut
  <1>2. flight[f].said \notin Deterministic
    BY <1>1 DEF IInv, FlightFits, Deterministic
  <1>3. "aborted" \in Answer
    BY DEF Answer, Reply
  <1> QED
    BY <1>1, <1>2, <1>3, SettleInv DEF Executing

\* The wait for the SET is over and what was said is told.
LEMMA setResultInv ==
    ASSUME IInv, NEW f \in Caller, setResult(f)
    PROVE  IInv'
  <1> DEFINE a == flight[f].said
  <1>1. /\ flight[f].phase = "writing" /\ Settle(f, a)
        /\ UNCHANGED <<pending, redis, late>>
    BY DEF setResult
  <1>2. a \in Deterministic
    BY <1>1 DEF IInv, FlightFits
  <1>3. a \in Answer /\ a # "aborted"
    BY <1>2 DEF Answer, Reply, Deterministic
  <1> QED
    BY <1>1, <1>3, SettleInv DEF Executing

\* The fetcher answers: a fact goes to Redis, anything else ends the fetch.
LEMMA executeFetchInv ==
    ASSUME IInv, NEW f \in Caller, NEW a \in Reply, executeFetch(f, a)
    PROVE  IInv'
  <1>1. /\ flight[f].phase = "running" /\ UNCHANGED <<pending, redis>>
        /\ a = "aborted" => flight[f].budget # "ample"
        /\ flight[f] \in FlightRec /\ FlightFits(flight[f])
        /\ flight[f].said = "none" /\ flight[f].answer = "none"
        /\ a \in Answer /\ a # "none"
    BY DEF executeFetch, IInv, FlightFits, Answer, Reply, Deterministic
  <1>2. KeyOf(f) \in Key
    BY <1>1 DEF IInv, CallerFits, NoFlight, KeyOf
  <1>3. Cacheable(a) <=> a \in Deterministic
    BY DEF Cacheable, isErr, isRetryable, Reply, Deterministic
  <1>4. CASE Cacheable(a)
    <2> DEFINE rec == [flight[f] EXCEPT !.phase = "writing", !.said = a, !.sent = TRUE]
    <2>1. /\ flight' = [flight EXCEPT ![f] = rec]
          /\ late' = late \cup {<<KeyOf(f), a>>} /\ UNCHANGED <<caller, breaker>>
      BY <1>1, <1>4 DEF executeFetch, IInv, FlightRec
    <2>2. /\ rec \in FlightRec /\ rec.phase = "writing" /\ rec.answer = "none"
          /\ rec.said = a /\ rec.sent /\ rec.budget = flight[f].budget
      BY <1>1 DEF FlightRec
    <2> HIDE DEF rec
    <2>3. FlightFits(rec) /\ Listed(rec) /\ Listed(flight[f])
      BY <1>1, <1>3, <1>4, <2>2 DEF FlightFits, Listed
    <2>4. Hear(flight')
      BY <2>1, SilenceIsHeard
    <2>5. SentBy(f, rec.said) /\ late' \subseteq Key \X Answer
      BY <1>1, <1>2, <1>3, <1>4, <2>1, <2>2 DEF SentBy, IInv
    <2>6. breaker' \in Circuits
      BY <2>1 DEF IInv
    <2> QED
      BY <1>1, <2>1, <2>2, <2>3, <2>4, <2>5, <2>6, FlightMoves DEF Deterministic
  <1>5. CASE ~Cacheable(a)
    <2> DEFINE rec == [flight[f] EXCEPT !.phase = "settled", !.said = a, !.answer = a]
    <2>1. /\ flight' = [flight EXCEPT ![f] = rec]
          /\ Announce(f, a) /\ Judge(f, a) /\ UNCHANGED late
      BY <1>1, <1>5 DEF executeFetch, IInv, FlightRec
    <2>2. /\ rec \in FlightRec /\ rec.phase = "settled" /\ rec.answer = a
          /\ rec.said = a /\ rec.budget = flight[f].budget
      BY <1>1 DEF FlightRec
    <2> HIDE DEF rec
    <2>3. FlightFits(rec) /\ Listed(rec) /\ Listed(flight[f])
      BY <1>1, <1>3, <1>5, <2>2 DEF FlightFits, Listed
    <2>4. flight'[f] = rec
      BY <2>1 DEF IInv
    <2>5. Hear(flight')
      BY <1>1, <2>1, <2>2, <2>4, AnnounceIsHeard
    <2>6. SentBy(f, rec.said) /\ late' \subseteq Key \X Answer
      BY <2>1 DEF SentBy, IInv
    <2>7. breaker' \in Circuits
      BY <2>1 DEF Judge, IInv, Circuits
    <2> QED
      BY <1>1, <2>1, <2>2, <2>3, <2>5, <2>6, <2>7, FlightMoves DEF Deterministic
  <1> QED
    BY <1>4, <1>5

\* A waiter of the half-open circuit is put through the policies again.
LEMMA RequeueInv ==
    ASSUME IInv, NEW f \in Caller, Requeue(f)
    PROVE  IInv'
  <1> DEFINE p == PodOf(f)
  <1>1. /\ flight[f].phase = "queued" /\ guardedFetch(f, p)
        /\ UNCHANGED <<pending, redis, late>>
        /\ IF flight'[f].phase = "settled" THEN Announce(f, flight'[f].answer)
           ELSE UNCHANGED caller
    BY DEF Requeue, Requeued
  <1>2. p \in Pod
    BY <1>1 DEF IInv, CallerFits, NoFlight, PodOf
  <1>3. flight[f].said = "none"
    BY <1>1 DEF IInv, FlightFits
  <1> HIDE DEF p
  <1>4. breaker' \in Circuits
    BY <1>1, <1>2, PoliciesDecide
  <1>5. PICK rec : flight' = [flight EXCEPT ![f] = rec] /\ Verdict(f, rec)
    BY <1>1, <1>2, PoliciesDecide
  <1>6. flight'[f] = rec
    BY <1>5 DEF IInv
  <1>7. Hear(flight')
    <2>1. CASE rec.phase = "settled"
      <3>1. rec.answer \in Answer /\ rec.answer # "aborted"
        BY <1>5, <2>1 DEF Verdict, FlightFits, FlightRec
      <3> QED
        BY <1>1, <1>6, <2>1, <3>1, AnnounceIsHeard
    <2>2. CASE rec.phase # "settled"
      BY <1>1, <1>6, <2>2, SilenceIsHeard
    <2> QED
      BY <2>1, <2>2
  <1>8. /\ SentBy(f, rec.said) /\ late' \subseteq Key \X Answer
        /\ Listed(flight[f])
    BY <1>1 DEF SentBy, Listed, IInv
  <1> QED
    BY <1>1, <1>3, <1>4, <1>5, <1>7, <1>8, FlightMoves DEF Verdict, Deterministic

\* The clock passes the deadline of a fetch.
LEMMA FlightClockInv ==
    ASSUME IInv, NEW f \in Caller, FlightClock(f)
    PROVE  IInv'
  <1> DEFINE rec == [flight[f] EXCEPT !.budget = IF @ = "ample" THEN "scarce" ELSE "spent"]
  <1>1. /\ flight[f].phase \in {"queued", "running"}
        /\ flight[f] \in FlightRec /\ FlightFits(flight[f])
        /\ flight' = [flight EXCEPT ![f] = rec]
        /\ UNCHANGED <<caller, pending, redis, late, breaker>>
    BY DEF FlightClock, IInv
  <1>2. /\ rec \in FlightRec /\ rec.budget # "ample" /\ rec.phase = flight[f].phase
        /\ rec.said = flight[f].said /\ rec.answer = flight[f].answer
        /\ rec.sent = flight[f].sent
    BY <1>1 DEF FlightRec, Budget
  <1> HIDE DEF rec
  <1>3. FlightFits(rec) /\ Listed(rec) /\ Listed(flight[f])
    BY <1>1, <1>2 DEF FlightFits, Listed
  <1>4. /\ Hear(flight') /\ SentBy(f, rec.said) /\ late' \subseteq Key \X Answer
        /\ breaker' \in Circuits
    BY <1>1, SilenceIsHeard DEF SentBy, IInv
  <1> QED
    BY <1>1, <1>2, <1>3, <1>4, FlightMoves

\* The finally takes the fetch, and no other, out of the table.
LEMMA DeregisterInv ==
    ASSUME IInv, NEW f \in Caller, Deregister(f)
    PROVE  IInv'
  <1> DEFINE rec == [flight[f] EXCEPT !.phase = "gone"]
  <1>1. /\ flight[f].phase = "settled" /\ flight' = [flight EXCEPT ![f] = rec]
        /\ flight[f] \in FlightRec /\ FlightFits(flight[f])
        /\ pending' = [pending EXCEPT ![PodOf(f)][KeyOf(f)] = Nobody]
        /\ UNCHANGED <<caller, redis, late, breaker>>
    BY DEF Deregister, IInv
  <1>2. /\ rec \in FlightRec /\ rec.phase = "gone" /\ rec.budget = flight[f].budget
        /\ rec.said = flight[f].said /\ rec.answer = flight[f].answer
        /\ rec.sent = flight[f].sent
    BY <1>1 DEF FlightRec
  <1> HIDE DEF rec
  <1>3. FlightFits(rec) /\ flight[f] # NoFlight
    BY <1>1, <1>2 DEF FlightFits, NoFlight
  <1>4. /\ flight' \in [Caller -> FlightRec]
        /\ \A g \in Caller : FlightFits(flight'[g])
        /\ \A g \in Caller : /\ flight[g].budget # "ample" => flight'[g].budget # "ample"
                             /\ flight[g] = NoFlight => flight'[g] = NoFlight
                             /\ flight'[g].said = flight[g].said
        /\ \A g \in Caller : Listed(flight'[g]) => g # f /\ Listed(flight[g])
    BY <1>1, <1>2, <1>3 DEF IInv, Listed
  <1>5. \A c \in Caller : CallerFits(c, caller[c], flight')
    BY <1>4, CacheAssumption DEF IInv, CallerFits, CallerRec
  <1>6. pending' \in [Pod -> [Key -> Caller \cup {Nobody}]]
    BY <1>1 DEF IInv
  <1>7. Registered'
    <2> SUFFICES ASSUME NEW g \in Caller, Listed(flight'[g])
                 PROVE  pending'[caller[g].pod][caller[g].key] = g
      BY <1>1 DEF Registered, PodOf, KeyOf
    <2>1. /\ g # f /\ Listed(flight[g]) /\ Listed(flight[f])
          /\ pending[caller[g].pod][caller[g].key] = g
          /\ pending[caller[f].pod][caller[f].key] = f
      BY <1>1, <1>4 DEF IInv, Registered, Listed, PodOf, KeyOf
    <2>2. /\ caller[g].pod \in Pod /\ caller[g].key \in Key
          /\ caller[f].pod \in Pod /\ caller[f].key \in Key
      BY <2>1 DEF IInv, CallerFits, Listed, NoFlight
    <2> QED
      BY <1>1, <2>1, <2>2 DEF IInv, PodOf, KeyOf
  <1>8. OnlyFactsAreStored'
    BY <1>1, <1>4 DEF IInv, OnlyFactsAreStored, KeyOf
  <1>9. (\A c \in Caller : CallerFits(c, caller[c], flight) /\ FlightFits(flight[c]))'
    BY <1>1, <1>4, <1>5 DEF CallerFits, FlightFits
  <1> QED
    BY <1>1, <1>4, <1>6, <1>7, <1>8, <1>9 DEF IInv

\* Redis moves facts or forgets them.
LEMMA RedisInv ==
    ASSUME IInv, RedisStep
    PROVE  IInv'
  <1>1. UNCHANGED <<caller, flight, pending, breaker>>
    BY DEF RedisStep, SetLands, SetLost, EntryExpires
  <1>2. /\ redis' \in [Key -> Answer \cup {"none"}]
        /\ late' \subseteq Key \X Answer
    BY DEF IInv, RedisStep, SetLands, SetLost, EntryExpires
  <1>3. \A k \in Key, a \in Answer :
            redis'[k] = a \/ <<k, a>> \in late' => redis[k] = a \/ <<k, a>> \in late
    BY DEF IInv, RedisStep, SetLands, SetLost, EntryExpires, Answer, Reply, Deterministic
  <1>4. OnlyFactsAreStored' /\ Registered'
    BY <1>1, <1>3 DEF IInv, OnlyFactsAreStored, KeyOf, PodOf, Registered
  <1>5. (\A c \in Caller : CallerFits(c, caller[c], flight) /\ FlightFits(flight[c]))'
    BY <1>1 DEF IInv, CallerFits, FlightFits
  <1> QED
    BY <1>1, <1>2, <1>4, <1>5 DEF IInv

\* Every step keeps the invariant.
LEMMA NextInv == IInv /\ [Next]_vars => IInv'
  <1> SUFFICES ASSUME IInv, [Next]_vars PROVE IInv'
    OBVIOUS
  <1>1. ASSUME NEW c \in Caller, CallerStep(c) PROVE IInv'
    <2>1. ASSUME NEW p \in Pod, NEW k \in Key, NEW spent \in BOOLEAN,
                 getOrFetch(c, p, k, spent)
          PROVE  IInv'
      BY <2>1, getOrFetchInv
    <2> QED
      BY <1>1, <2>1, ReadInv, CallerExpiresInv, JoinStartedInv, startFetchInv DEF CallerStep
  <1>2. ASSUME NEW f \in Caller, FlightStep(f) PROVE IInv'
    <2>1. ASSUME NEW a \in Reply, executeFetch(f, a) PROVE IInv'
      BY <2>1, executeFetchInv
    <2> QED
      BY <1>2, <2>1, RequeueInv, FlightClockInv, FlightTimesOutInv, setResultInv,
         DeregisterInv DEF FlightStep
  <1>3. CASE UNCHANGED vars
    <2>1. (\A c \in Caller : CallerFits(c, caller[c], flight) /\ FlightFits(flight[c]))'
      BY <1>3 DEF vars, IInv, CallerFits, FlightFits
    <2> QED
      BY <1>3, <2>1 DEF vars, IInv, Registered, OnlyFactsAreStored, PodOf, KeyOf
  <1> QED
    BY <1>1, <1>2, <1>3, RedisInv DEF Next

-----------------------------------------------------------------------------
(* The bulkhead *)

Slots(p) == {f \in Caller : Executing(f) /\ PodOf(f) = p}

\* Finitely many fetches execute, and no more than there are slots.
SlotInv ==
    \A p \in Pod : IsFiniteSet(Slots(p)) /\ Cardinality(Slots(p)) <= MaxPending

\* Executing fetches are not lost sight of when callers move.
LEMMA FewerSlots ==
    ASSUME SlotInv, \A p \in Pod : Slots(p)' \subseteq Slots(p)
    PROVE  SlotInv'
  <1> SUFFICES ASSUME NEW p \in Pod
               PROVE  IsFiniteSet(Slots(p)') /\ Cardinality(Slots(p)') <= MaxPending
    BY DEF SlotInv
  <1>1. IsFiniteSet(Slots(p)) /\ Cardinality(Slots(p)) <= MaxPending
    BY DEF SlotInv
  <1>2. Slots(p)' \subseteq Slots(p)
    OBVIOUS
  <1>3. /\ IsFiniteSet(Slots(p)') /\ Cardinality(Slots(p)') <= Cardinality(Slots(p))
        /\ Cardinality(Slots(p)) \in Nat /\ Cardinality(Slots(p)') \in Nat
    BY <1>1, <1>2, FS_Subset, FS_CardinalityType
  <1> QED
    BY <1>1, <1>3, CacheAssumption

\* A fetch takes a slot only where the bulkhead has one.
LEMMA OneMoreSlot ==
    ASSUME SlotInv, NEW q \in Pod, NEW f \in Caller, ~Full(q),
           Slots(q)' \subseteq Slots(q) \cup {f},
           \A p \in Pod \ {q} : Slots(p)' \subseteq Slots(p)
    PROVE  SlotInv'
  <1> SUFFICES ASSUME NEW p \in Pod
               PROVE  IsFiniteSet(Slots(p)') /\ Cardinality(Slots(p)') <= MaxPending
    BY DEF SlotInv
  <1>1. /\ IsFiniteSet(Slots(p)) /\ Cardinality(Slots(p)) <= MaxPending
        /\ Cardinality(Slots(p)) \in Nat
    BY FS_CardinalityType DEF SlotInv
  <1>2. CASE p # q
    <2>1. Slots(p)' \subseteq Slots(p)
      BY <1>2
    <2>2. /\ IsFiniteSet(Slots(p)') /\ Cardinality(Slots(p)') <= Cardinality(Slots(p))
          /\ Cardinality(Slots(p)') \in Nat
      BY <1>1, <2>1, FS_Subset, FS_CardinalityType
    <2> QED
      BY <1>1, <2>2, CacheAssumption
  <1>3. CASE p = q
    <2> DEFINE S == Slots(p) \cup {f}
    <2>1. Cardinality(Slots(p)) < MaxPending
      BY <1>1, <1>3, CacheAssumption DEF Full, Slots
    <2>2. /\ IsFiniteSet(S) /\ Cardinality(S) \in Nat
          /\ Cardinality(S) <= Cardinality(Slots(p)) + 1
      <3>1. /\ IsFiniteSet(S)
            /\ Cardinality(S) = IF f \in Slots(p) THEN Cardinality(Slots(p))
                                ELSE Cardinality(Slots(p)) + 1
        BY <1>1, FS_AddElement
      <3> QED
        BY <1>1, <3>1, FS_CardinalityType
    <2>3. Slots(p)' \subseteq S
      BY <1>3
    <2>4. /\ IsFiniteSet(Slots(p)') /\ Cardinality(Slots(p)') <= Cardinality(S)
          /\ Cardinality(Slots(p)') \in Nat
      <3> HIDE DEF S
      <3> QED
        BY <2>2, <2>3, FS_Subset, FS_CardinalityType
    <2> HIDE DEF S
    <2> QED
      BY <1>1, <2>1, <2>2, <2>4, CacheAssumption
  <1> QED
    BY <1>2, <1>3

\* A caller that has arrived stays on its pod, and so does its fetch.
LEMMA CallersStay ==
    ASSUME IInv, [Next]_vars
    PROVE  \A c \in Caller : caller[c].phase # "new" => caller'[c].pod = caller[c].pod
  <1> SUFFICES ASSUME NEW c \in Caller, caller[c].phase # "new"
               PROVE  caller'[c].pod = caller[c].pod
    OBVIOUS
  <1>1. caller \in [Caller -> CallerRec] /\ caller[c] \in CallerRec
    BY DEF IInv
  <1>2. ASSUME NEW r \in CallerRec
        PROVE  /\ \A a : Told(r, a).pod = r.pod
               /\ [r EXCEPT !.expired = TRUE].pod = r.pod
               /\ [r EXCEPT !.expired = TRUE] \in CallerRec
    BY DEF Told, raceCaller, CallerRec
  <1>3. ASSUME NEW g \in Caller, NEW a, Announce(g, a)
        PROVE  caller'[c].pod = caller[c].pod
    BY <1>1, <1>2, <1>3 DEF Announce
  <1>4. ASSUME NEW d \in Caller, CallerStep(d)
        PROVE  caller'[c].pod = caller[c].pod
    <2>1. CASE d # c
      <3>1. CASE ReadHit(d) \/ ReadMiss(d) \/ CallerExpires(d)
        BY <1>1, <2>1, <3>1 DEF ReadHit, ReadMiss, CallerExpires
      <3>2. CASE JoinStarted(d) \/ startFetch(d)
        BY <1>1, <2>1, <3>2 DEF JoinStarted, startFetch
      <3>3. CASE \E p \in Pod, k \in Key, spent \in BOOLEAN : getOrFetch(d, p, k, spent)
        BY <1>1, <2>1, <3>3 DEF getOrFetch
      <3> QED
        BY <1>4, <3>1, <3>2, <3>3 DEF CallerStep
    <2>2. CASE d = c
      <3>1. CASE ReadHit(c) \/ ReadMiss(c)
        <4>1. CASE ReadHit(c)
          <5>1. caller'[c] = Told(caller[c], redis[caller[c].key])
            BY <1>1, <4>1 DEF ReadHit
          <5>2. ASSUME NEW a PROVE Told(caller[c], a).pod = caller[c].pod
            BY <1>1, <1>2
          <5> QED
            BY <5>1, <5>2
        <4>2. CASE ReadMiss(c)
          <5>1. caller'[c] = [caller[c] EXCEPT !.phase = "missed"]
            BY <1>1, <4>2 DEF ReadMiss
          <5> QED
            BY <1>1, <5>1 DEF CallerRec
        <4> QED
          BY <3>1, <4>1, <4>2
      <3>2. CASE CallerExpires(c)
        <4> DEFINE out == [caller[c] EXCEPT !.expired = TRUE]
        <4>1. out \in CallerRec /\ out.pod = caller[c].pod
          BY <1>1, <1>2
        <4>2. caller'[c] = IF caller[c].phase = "waiting" THEN Told(out, "aborted")
                           ELSE [out EXCEPT !.phase = "missed"]
          BY <1>1, <3>2 DEF CallerExpires
        <4> HIDE DEF out
        <4>3. Told(out, "aborted").pod = out.pod /\ [out EXCEPT !.phase = "missed"].pod = out.pod
          BY <4>1 DEF Told, CallerRec
        <4> QED
          BY <4>1, <4>2, <4>3
      <3>3. CASE JoinStarted(c) \/ startFetch(c)
        <4>1. \/ caller'[c] = raceCaller(caller[c], pending[caller[c].pod][caller[c].key], flight)
              \/ caller'[c] = raceCaller(caller[c], c, flight')
          BY <1>1, <3>3 DEF JoinStarted, startFetch
        <4>2. \A g : /\ raceCaller(caller[c], g, flight).pod = caller[c].pod
                     /\ raceCaller(caller[c], g, flight').pod = caller[c].pod
          BY <1>1 DEF raceCaller, Told, CallerRec
        <4> QED
          BY <4>1, <4>2
      <3> QED
        BY <1>4, <2>2, <3>1, <3>2, <3>3 DEF CallerStep, getOrFetch
    <2> QED
      BY <2>1, <2>2
  <1>5. ASSUME NEW g \in Caller, FlightStep(g)
        PROVE  caller'[c].pod = caller[c].pod
    BY <1>3, <1>5 DEF FlightStep, Requeue, FlightClock, FlightTimesOut, executeFetch,
       setResult, Deregister, Settle
  <1> QED
    BY <1>4, <1>5 DEF Next, RedisStep, SetLands, SetLost, EntryExpires, vars

\* A fetch begins to execute only when the policies admit it, with a slot free.
LEMMA Admission ==
    ASSUME IInv, [Next]_vars, NEW f \in Caller, Executing(f)', ~Executing(f)
    PROVE  /\ caller[f].phase # "new" /\ ~Full(PodOf(f))
           /\ \A g \in Caller \ {f} : flight'[g] = flight[g]
  <1>0. flight \in [Caller -> FlightRec]
    BY DEF IInv
  <1>1. ASSUME NEW p \in Pod, guardedFetch(f, p)
        PROVE  ~Full(p) /\ \A g \in Caller \ {f} : flight'[g] = flight[g]
    <2>1. ASSUME NEW a, flight' = Refused(f, a) PROVE FALSE
      BY <1>0, <2>1 DEF Refused, Executing, FlightRec
    <2>2. ASSUME flight' = [flight EXCEPT ![f].phase = "queued"] PROVE FALSE
      BY <1>0, <2>2 DEF Executing, FlightRec
    <2>3. PICK probe \in BOOLEAN : Limiter(f, p, probe)
      BY <1>1, <2>1, <2>2 DEF guardedFetch
    <2>4. /\ ~Full(p)
          /\ flight' = [flight EXCEPT ![f].phase = "running", ![f].probe = probe]
      BY <2>1, <2>3 DEF Limiter
    <2> QED
      BY <1>0, <2>4
  <1>2. ASSUME NEW g \in Caller, NEW p \in Pod, g # f, guardedFetch(g, p)
        PROVE  FALSE
    <2>1. flight'[f] = flight[f]
      BY <1>0, <1>2 DEF guardedFetch, Limiter, Refused
    <2> QED
      BY <2>1 DEF Executing
  <1>3. ASSUME NEW c \in Caller, CallerStep(c)
        PROVE  /\ caller[f].phase # "new" /\ ~Full(PodOf(f))
               /\ \A g \in Caller \ {f} : flight'[g] = flight[g]
    <2>1. startFetch(c)
      BY <1>3 DEF CallerStep, getOrFetch, ReadHit, ReadMiss, CallerExpires, JoinStarted,
         Executing
    <2>2. /\ caller[c].phase = "missed" /\ guardedFetch(c, PodOf(c)) /\ PodOf(c) \in Pod
      BY <2>1 DEF startFetch, PodOf, IInv, CallerFits
    <2> QED
      BY <1>1, <1>2, <2>2
  <1>4. ASSUME NEW h \in Caller, FlightStep(h)
        PROVE  /\ caller[f].phase # "new" /\ ~Full(PodOf(f))
               /\ \A g \in Caller \ {f} : flight'[g] = flight[g]
    <2>1. Requeue(h)
      <3>1. ASSUME FlightClock(h) PROVE FALSE
        BY <1>0, <3>1 DEF FlightClock, Executing, FlightRec
      <3>2. ASSUME FlightTimesOut(h) \/ setResult(h) PROVE FALSE
        BY <1>0, <3>2 DEF FlightTimesOut, setResult, Settle, Executing, FlightRec
      <3>3. ASSUME NEW a \in Reply, executeFetch(h, a) PROVE FALSE
        BY <1>0, <3>3 DEF executeFetch, Executing, FlightRec
      <3>4. ASSUME Deregister(h) PROVE FALSE
        BY <1>0, <3>4 DEF Deregister, Executing, FlightRec
      <3> QED
        BY <1>4, <3>1, <3>2, <3>3, <3>4 DEF FlightStep
    <2>2. /\ flight[h].phase = "queued" /\ guardedFetch(h, PodOf(h))
      BY <2>1 DEF Requeue, Requeued
    <2>3. caller[h].phase # "new" /\ PodOf(h) \in Pod
      BY <2>2 DEF IInv, CallerFits, NoFlight, PodOf
    <2> QED
      BY <1>1, <1>2, <2>2, <2>3
  <1> QED
    BY <1>3, <1>4 DEF Next, RedisStep, SetLands, SetLost, EntryExpires, vars, Executing

\* Every step keeps the count.
LEMMA SlotStep == IInv /\ SlotInv /\ [Next]_vars => SlotInv'
  <1> SUFFICES ASSUME IInv, SlotInv, [Next]_vars PROVE SlotInv'
    OBVIOUS
  <1>1. \A f \in Caller : Executing(f) => PodOf(f)' = PodOf(f)
    BY CallersStay DEF IInv, CallerFits, NoFlight, Executing, PodOf
  <1>2. CASE \A f \in Caller : Executing(f)' => Executing(f)
    <2>1. \A p \in Pod : Slots(p)' \subseteq Slots(p)
      BY <1>1, <1>2 DEF Slots
    <2> QED
      BY <2>1, FewerSlots
  <1>3. ASSUME NEW f \in Caller, Executing(f)', ~Executing(f)
        PROVE  SlotInv'
    <2>1. /\ caller[f].phase # "new" /\ ~Full(PodOf(f))
          /\ \A g \in Caller \ {f} : flight'[g] = flight[g]
      BY <1>3, Admission
    <2>2. PICK q \in Pod : q = PodOf(f) /\ q = PodOf(f)'
      BY <2>1, CallersStay DEF PodOf, IInv, CallerFits
    <2>3. \A g \in Caller \ {f} : Executing(g)' => Executing(g)
      BY <2>1 DEF Executing
    <2>4. /\ Slots(q)' \subseteq Slots(q) \cup {f}
          /\ \A p \in Pod \ {q} : Slots(p)' \subseteq Slots(p)
      BY <1>1, <2>2, <2>3 DEF Slots
    <2> QED
      BY <2>1, <2>2, <2>4, OneMoreSlot
  <1> QED
    BY <1>2, <1>3

-----------------------------------------------------------------------------
(* The theorems *)

\* The invariant holds in every state the cache reaches.
THEOREM SpecInv == Spec => []IInv
  BY InitInv, NextInv, PTL DEF Spec

\* Every state of the cache has the shape the code's types promise.
THEOREM TypeCorrect == Spec => []TypeOK
  BY SpecInv, IInvSuffices, PTL

\* No upstream is asked twice at once for one key of one pod, whatever the
\* numbers of callers, pods and keys (resilient-cache.ts:263-266).
THEOREM SingleFlightHolds == Spec => []SingleFlight
  BY SpecInv, IInvSuffices, PTL

\* Who is told that time ran out spent its own budget or waited on a fetch that
\* spent the fetch's (resilient-cache.ts:92-98).
THEOREM LeavingIsHarmless == Spec => []LeavingHurtsNobody
  BY SpecInv, IInvSuffices, PTL

\* An outage never becomes an entry of Redis, and an entry is a fact some fetch
\* learned of that key (cache-failure-policy.ts:35-52).
THEOREM FactsOnly == Spec => []OnlyFactsAreStored
  <1>1. IInv => OnlyFactsAreStored
    BY DEF IInv
  <1> QED
    BY <1>1, SpecInv, PTL

\* A fact the upstream got to say is sent to Redis and told to whoever waited
\* (resilient-cache.ts:375-378).
THEOREM WorkIsKept == Spec => []PaidWorkIsKept
  BY SpecInv, IInvSuffices, PTL

\* A pod never executes more shared fetches than its bulkhead has slots
\* (resilient-cache.ts:293-297).
THEOREM BulkheadHolds == Spec => []SlotsAreBounded
  <1>1. Init => SlotInv
    <2> SUFFICES ASSUME Init, NEW p \in Pod
                 PROVE  IsFiniteSet(Slots(p)) /\ Cardinality(Slots(p)) <= MaxPending
      BY DEF SlotInv
    <2>1. Slots(p) = {}
      BY DEF Slots, Init, NoFlight, Executing
    <2> QED
      BY <2>1, FS_EmptySet, CacheAssumption
  <1>2. SlotInv => SlotsAreBounded
    BY DEF SlotInv, SlotsAreBounded, Slots
  <1> QED
    BY <1>1, <1>2, SpecInv, SlotStep, PTL DEF Spec

================================================================================
