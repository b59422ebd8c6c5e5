---------------------------- MODULE AnalyticsProofs ----------------------------
(***************************************************************************)
(* Analytics, for any browsers, households and requests.  The inductive    *)
(* invariant AnalyticsInv follows every id from the browser it was minted  *)
(* for: cookies, requests and rows never take it to another one.           *)
(***************************************************************************)
EXTENDS Analytics, FiniteSetTheorems, TLAPS

-----------------------------------------------------------------------------
(* The inductive invariant *)

\* What a request has in hand at each of its steps.
InStep(q) ==
    /\ q.step = "idle" => q = Idle
    /\ q.step # "idle" => q.browser \in Browser /\ q.op # "none"
    /\ q.step = "visitor" => q.op \in {"start", "track", "identify"}
    /\ q.step = "session" => q.op \in {"start", "track"}
    /\ q.step = "event" => q.op = "track"
    /\ q.step = "link" => q.op = "identify"
    /\ q.step = "erase" => q.op \in {"revoke", "erase"}
    /\ q.op \in {"start", "track", "identify"} => q.vid # None
    /\ q.op \in {"start", "track"} => q.sid # None
    /\ q.count => q.op = "start"

\* A revocation gives up the visitor it was sent for, a start the session it leaves.
GivesUp(q) ==
    /\ q.op = "revoke" => q.gives = q.vid
    /\ q.op = "start" => q.gives \in Session \cup {None} /\ q.gives # q.sid
    /\ q.op \notin {"revoke", "start"} => q.gives = None

HandsInStep == \A r \in Request : InStep(hand[r]) /\ GivesUp(hand[r])

\* Cookies and requests carry the ids of their own browser.
JarsAtHome ==
    \A b \in Browser :
       /\ jar[b].vid # None => home[jar[b].vid] = b
       /\ jar[b].sid # None => home[jar[b].sid] = b

HandsAtHome == \A r \in Request : \A i \in Carried(hand[r]) : home[i] = hand[r].browser

UsersAtHome == \A r \in Request : hand[r].user # None => hand[r].user \in Household[hand[r].browser]

\* A visit is of a visitor of the same browser.
RowsAtHome ==
    /\ \A v \in Visitor : HasVisitor(v) => home[v] # None
    /\ \A s \in Session : HasSession(s) =>
          home[s] # None /\ home[s] = home[sessions[s].visitor]
    /\ \A s \in Session : sessions[s].user # None => HasSession(s)

\* A request that met no other is alone with the id it gives up.
AloneMeansAlone ==
    \A r, y \in Request :
       r # y /\ hand[r].alone /\ hand[r].gives # None => hand[r].gives \notin Carried(hand[y])

\* Nothing brings back the row such a request erased.
ErasedMeansErased ==
    \A r \in Request :
       At(r, "revoke", "answer") /\ hand[r].ok /\ hand[r].alone /\ hand[r].gives # None
          => ~HasVisitor(hand[r].gives)

\* An id given up is nowhere, and will not be minted again.
RetiredAreGone ==
    \A i \in retired :
       /\ home[i] # None
       /\ \A b \in Browser : jar[b].vid # i /\ jar[b].sid # i
       /\ \A r \in Request : i \notin Carried(hand[r])
       /\ i \in Visitor => ~HasVisitor(i)

IdentityInv ==
    /\ TypeOK /\ HandsInStep /\ JarsAtHome /\ HandsAtHome /\ UsersAtHome /\ RowsAtHome /\ AttributedAtHome
    /\ AloneMeansAlone /\ ErasedMeansErased /\ RetiredAreGone

\* The sessions run under v, and those of them whose visit is still to be counted.
RanOf(v) == {s \in Session : <<v, s>> \in ran}
Pending(r) == hand[r].step = "visitor" /\ hand[r].count
PendingOf(v) == {s \in Session : \E r \in Request : Pending(r) /\ hand[r].vid = v /\ hand[r].sid = s}

\* A row that is created counts one, whoever creates it.
Due(v) == IF visitors[v].count = 0 THEN 1 ELSE visitors[v].count

CountInv ==
    /\ \A v \in Visitor, s \in Session : <<v, s>> \in ran => home[v] # None /\ home[s] # None
    /\ \A r \in Request : Pending(r) => <<hand[r].vid, hand[r].sid>> \in ran
    /\ \A r, y \in Request : r # y /\ Pending(r) /\ Pending(y) => hand[r].sid # hand[y].sid
    /\ \A v \in Visitor : IsFiniteSet(RanOf(v))
    /\ \A v \in Visitor : home[v] # None => Due(v) + Cardinality(PendingOf(v)) <= Cardinality(RanOf(v))

AnalyticsInv == IdentityInv /\ CountInv

-----------------------------------------------------------------------------
(* What the helpers of a request keep *)

\* A slot without a request is in its type and carries no id.
LEMMA IdleHand == Idle \in Hand /\ InStep(Idle) /\ GivesUp(Idle) /\ Carried(Idle) = {}
                  /\ Idle.step = "idle" /\ Idle.user = None /\ Idle.gives = None /\ Idle.count = FALSE
BY DEF Idle, Hand, Op, Step, InStep, GivesUp, Carried

\* h is what is left of q after a step of its own: the same ids, and no new user.
Follows(h, q) ==
    \/ h = Idle
    \/ /\ h.browser = q.browser /\ h.vid = q.vid /\ h.sid = q.sid
       /\ h.gives = q.gives /\ h.alone = q.alone
       /\ h.user \in {q.user, None}

\* A request that goes on to its next statement keeps what it knows.
LEMMA Stepping ==
    ASSUME NEW q \in Hand, NEW step \in Step
    PROVE  /\ [q EXCEPT !.step = step] \in Hand
           /\ Follows([q EXCEPT !.step = step], q)
           /\ GivesUp(q) => GivesUp([q EXCEPT !.step = step])
           /\ [q EXCEPT !.step = step].step = step
           /\ [q EXCEPT !.step = step].op = q.op
           /\ [q EXCEPT !.step = step].count = q.count
           /\ [q EXCEPT !.step = step].user = q.user
BY DEF Hand, Follows, GivesUp

\* What Done leaves of a request.
Left(q, fine) ==
    IF q.op = "identify" \/ (q.op = "erase" /\ ~fine) THEN Idle
    ELSE [q EXCEPT !.step = "answer", !.ok = fine, !.user = None, !.count = FALSE]

\* A request that is over leaves its answer, or nothing.
LEMMA Leaving ==
    ASSUME NEW q \in Hand, NEW fine \in BOOLEAN, q.step # "idle", InStep(q), GivesUp(q)
    PROVE  /\ Left(q, fine) \in Hand
           /\ Follows(Left(q, fine), q)
           /\ InStep(Left(q, fine)) /\ GivesUp(Left(q, fine))
           /\ Left(q, fine).step \in {"idle", "answer"}
           /\ Left(q, fine).step = "answer" => Left(q, fine).op = q.op /\ Left(q, fine).ok = fine
<1>1. CASE q.op = "identify" \/ (q.op = "erase" /\ ~fine)
  BY <1>1, IdleHand DEF Left, Follows
<1>2. CASE ~(q.op = "identify" \/ (q.op = "erase" /\ ~fine))
  <2> DEFINE h == [q EXCEPT !.step = "answer", !.ok = fine, !.user = None, !.count = FALSE]
  <2>0. Left(q, fine) = h
    BY <1>2 DEF Left
  <2>1. h \in Hand
    BY DEF Hand, Step
  <2>2. /\ h.step = "answer" /\ h.ok = fine /\ h.user = None /\ h.count = FALSE /\ h.op = q.op
        /\ h.browser = q.browser /\ h.vid = q.vid /\ h.sid = q.sid /\ h.gives = q.gives /\ h.alone = q.alone
    BY DEF Hand
  <2> HIDE DEF h
  <2> QED BY <2>0, <2>1, <2>2 DEF InStep, GivesUp, Follows
<1> QED BY <1>1, <1>2

\* One request moves on, the rest stand still: no id gets into other hands.
LEMMA HandMoves ==
    ASSUME IdentityInv, NEW r \in Request, NEW h \in Hand, InStep(h), GivesUp(h), Follows(h, hand[r]),
           hand' = [hand EXCEPT ![r] = h], home' = home
    PROVE  /\ hand' \in [Request -> Hand] /\ HandsInStep' /\ HandsAtHome' /\ UsersAtHome' /\ AloneMeansAlone'
           /\ \A y \in Request : Carried(hand'[y]) \subseteq Carried(hand[y])
<1>0. hand \in [Request -> Hand]
  BY DEF IdentityInv, TypeOK
<1>1. hand' \in [Request -> Hand] /\ hand'[r] = h /\ \A y \in Request : y # r => hand'[y] = hand[y]
  BY <1>0
<1>2. \A y \in Request : Carried(hand'[y]) \subseteq Carried(hand[y])
  BY <1>1, IdleHand DEF Follows, Carried
<1>3. HandsInStep'
  BY <1>1 DEF IdentityInv, HandsInStep
<1>4. HandsAtHome'
  BY <1>1, <1>2, IdleHand DEF IdentityInv, HandsAtHome, Follows
<1>5. UsersAtHome'
  BY <1>1, IdleHand DEF IdentityInv, UsersAtHome, Follows
<1>6. AloneMeansAlone'
  BY <1>1, <1>2, IdleHand DEF IdentityInv, AloneMeansAlone, Follows
<1> QED BY <1>1, <1>2, <1>3, <1>4, <1>5, <1>6

\* Meeting a request, or none: only the mark changes.
LEMMA Meeting ==
    ASSUME NEW q \in Hand, NEW a \in BOOLEAN, q = Idle => a, NEW h, h = [q EXCEPT !.alone = a]
    PROVE  /\ h \in Hand /\ Carried(h) = Carried(q) /\ h.alone = a
           /\ h.op = q.op /\ h.step = q.step /\ h.browser = q.browser /\ h.vid = q.vid /\ h.sid = q.sid
           /\ h.user = q.user /\ h.count = q.count /\ h.gives = q.gives /\ h.ok = q.ok
           /\ InStep(q) => InStep(h)
           /\ GivesUp(q) => GivesUp(h)
<1>1. /\ h \in Hand /\ h.alone = a
      /\ h.op = q.op /\ h.step = q.step /\ h.browser = q.browser /\ h.vid = q.vid /\ h.sid = q.sid
      /\ h.user = q.user /\ h.count = q.count /\ h.gives = q.gives /\ h.ok = q.ok
  BY DEF Hand
<1>2. q = Idle => h = Idle
  <2>1. [Idle EXCEPT !.alone = TRUE] = Idle
    <3>1. \A x \in Hand : [x EXCEPT !.alone = x.alone] = x
      BY DEF Hand
    <3>2. Idle \in Hand /\ Idle.alone = TRUE
      BY IdleHand DEF Idle
    <3> QED BY <3>1, <3>2
  <2>2. ASSUME q = Idle PROVE h = Idle
    <3>1. a = TRUE
      BY <2>2
    <3>2. h = [Idle EXCEPT !.alone = TRUE]
      BY <2>2, <3>1
    <3> QED BY <2>1, <3>2
  <2> QED BY <2>2
<1>3. Carried(h) = Carried(q)
  BY <1>1 DEF Carried
<1>4. InStep(q) => InStep(h)
  BY <1>1, <1>2 DEF InStep
<1>5. GivesUp(q) => GivesUp(h)
  BY <1>1 DEF GivesUp
<1> QED BY <1>1, <1>3, <1>4, <1>5

\* A request sent: only marks of the others change, and only to "not alone".
LEMMA Sent ==
    ASSUME TypeOK, HandsInStep, NEW r \in Request, NEW q \in Hand, q.step # "idle", InStep(q), GivesUp(q), Send(r, q)
    PROVE  /\ hand' \in [Request -> Hand]
           /\ HandsInStep'
           /\ hand[r] = Idle
           /\ \A y \in Request :
                 /\ InStep(hand'[y]) /\ GivesUp(hand'[y])
                 /\ LET h == IF y = r THEN q ELSE hand[y] IN
                    /\ Carried(hand'[y]) = Carried(h)
                    /\ hand'[y].op = h.op /\ hand'[y].step = h.step /\ hand'[y].browser = h.browser
                    /\ hand'[y].vid = h.vid /\ hand'[y].sid = h.sid /\ hand'[y].user = h.user
                    /\ hand'[y].count = h.count /\ hand'[y].gives = h.gives /\ hand'[y].ok = h.ok
           /\ hand'[r].alone => \A y \in Request : q.gives \notin Carried(hand[y])
           /\ \A y \in Request : y # r /\ hand'[y].alone => hand[y].alone /\ hand[y].gives \notin Carried(q)
<1>0. hand \in [Request -> Hand] /\ hand[r] = Idle
  BY DEF TypeOK, Send
<1> DEFINE a(y) == IF y = r THEN \A x \in Request : q.gives \notin Carried(hand[x])
                   ELSE hand[y].alone /\ hand[y].gives \notin Carried(q)
           h(y) == IF y = r THEN q ELSE hand[y]
<1>1. ASSUME NEW y \in Request
      PROVE  hand'[y] = [h(y) EXCEPT !.alone = a(y)] /\ a(y) \in BOOLEAN /\ h(y) \in Hand
  <2>1. CASE y = r BY <2>1 DEF Send
  <2>2. CASE y # r
    <3>1. hand'[y] = [hand[y] EXCEPT !.alone = hand[y].alone /\ hand[y].gives \notin Carried(q)]
      BY <2>2 DEF Send
    <3>2. hand[y].alone \in BOOLEAN
      BY <1>0 DEF Hand
    <3> QED BY <1>0, <2>2, <3>1, <3>2
  <2> QED BY <2>1, <2>2
<1>2. ASSUME NEW y \in Request, h(y) = Idle PROVE a(y)
  <2>1. y # r
    BY <1>2, IdleHand
  <2>2. None \notin Carried(q) /\ Idle.alone = TRUE
    BY DEF Carried, Idle
  <2> QED BY <1>2, <2>1, <2>2, IdleHand
<1>3. ASSUME NEW y \in Request PROVE InStep(h(y)) /\ GivesUp(h(y))
  BY DEF HandsInStep
<1> HIDE DEF a, h
<1>4. ASSUME NEW y \in Request
      PROVE  /\ hand'[y] \in Hand /\ InStep(hand'[y]) /\ GivesUp(hand'[y]) /\ hand'[y].alone = a(y)
             /\ Carried(hand'[y]) = Carried(h(y))
             /\ hand'[y].op = h(y).op /\ hand'[y].step = h(y).step /\ hand'[y].browser = h(y).browser
             /\ hand'[y].vid = h(y).vid /\ hand'[y].sid = h(y).sid /\ hand'[y].user = h(y).user
             /\ hand'[y].count = h(y).count /\ hand'[y].gives = h(y).gives /\ hand'[y].ok = h(y).ok
  <2>1. (hand'[y] = [h(y) EXCEPT !.alone = a(y)]) /\ a(y) \in BOOLEAN /\ h(y) \in Hand /\ (h(y) = Idle => a(y))
    BY <1>1, <1>2
  <2> QED BY <1>3, <2>1, Meeting
<1>5. hand' = [x \in Request |-> hand'[x]]
  BY DEF Send
<1>6. hand' \in [Request -> Hand]
  BY <1>4, <1>5
<1>7. HandsInStep'
  BY <1>4 DEF HandsInStep
<1>8. /\ hand'[r].alone => \A y \in Request : q.gives \notin Carried(hand[y])
      /\ \A y \in Request : y # r /\ hand'[y].alone => hand[y].alone /\ hand[y].gives \notin Carried(q)
  BY <1>4 DEF a
<1> QED BY <1>0, <1>4, <1>6, <1>7, <1>8 DEF h

\* Its ids are its browser's, and old ids keep their home.
LEMMA HandSends ==
    ASSUME IdentityInv, NEW r \in Request, NEW q \in Hand, q.step # "idle", InStep(q), GivesUp(q), Send(r, q),
           \A i \in Id : home[i] # None => home'[i] = home[i],
           \A i \in Carried(q) : home'[i] = q.browser,
           q.user # None => q.user \in Household[q.browser]
    PROVE  HandsAtHome' /\ UsersAtHome' /\ AloneMeansAlone'
<1>1. TypeOK /\ HandsInStep /\ hand \in [Request -> Hand]
  BY DEF IdentityInv, TypeOK
<1>2. /\ \A y \in Request : y # r => Carried(hand'[y]) = Carried(hand[y]) /\ hand'[y].browser = hand[y].browser
                                     /\ hand'[y].user = hand[y].user /\ hand'[y].gives = hand[y].gives
      /\ Carried(hand'[r]) = Carried(q) /\ hand'[r].browser = q.browser
      /\ hand'[r].user = q.user /\ hand'[r].gives = q.gives
  BY <1>1, Sent
<1>3. HandsAtHome'
  <2>1. \A y \in Request : Carried(hand[y]) \subseteq Id
    BY <1>1 DEF Carried, Hand, Id
  <2>2. ASSUME NEW y \in Request, y # r, NEW i \in Carried(hand'[y]) PROVE home'[i] = hand'[y].browser
    <3>1. i \in Carried(hand[y]) /\ i \in Id /\ home[i] = hand[y].browser
      BY <1>2, <2>1, <2>2 DEF IdentityInv, HandsAtHome
    <3>2. hand[y].step # "idle"
      BY <3>1, <1>1, IdleHand DEF HandsInStep, InStep
    <3>3. home[i] # None
      BY <3>1, <3>2, <1>1, HouseholdAssumption DEF HandsInStep, InStep
    <3> QED BY <1>2, <2>2, <3>1, <3>3
  <2> QED BY <1>2, <2>2 DEF HandsAtHome
<1>4. UsersAtHome'
  BY <1>2 DEF IdentityInv, UsersAtHome
<1>5. AloneMeansAlone'
  <2> SUFFICES ASSUME NEW x \in Request, NEW y \in Request, x # y, hand'[x].alone, hand'[x].gives # None
               PROVE  hand'[x].gives \notin Carried(hand'[y])
    BY DEF AloneMeansAlone
  <2>1. /\ hand'[r].alone => \A z \in Request : q.gives \notin Carried(hand[z])
        /\ \A z \in Request : z # r /\ hand'[z].alone => hand[z].alone /\ hand[z].gives \notin Carried(q)
    BY <1>1, Sent
  <2>2. CASE x = r
    BY <1>2, <2>1, <2>2
  <2>3. CASE x # r /\ y = r
    BY <1>2, <2>1, <2>3
  <2>4. CASE x # r /\ y # r
    BY <1>2, <2>1, <2>4 DEF IdentityInv, AloneMeansAlone
  <2> QED BY <2>2, <2>3, <2>4
<1> QED BY <1>3, <1>4, <1>5

-----------------------------------------------------------------------------
(* Identities: the requests that are sent *)

\* A request takes its ids from the cookies of its browser.
LEMMA FromFields ==
    ASSUME TypeOK, NEW b \in Browser, NEW op \in Op, NEW step \in Step, NEW u \in Account \cup {None},
           NEW q, q = From(b, op, step, u)
    PROVE  /\ q \in Hand /\ q.op = op /\ q.step = step /\ q.browser = b /\ q.vid = jar[b].vid
           /\ q.sid = jar[b].sid /\ q.user = u /\ ~q.count /\ q.gives = None
<1>1. jar[b].vid \in Visitor \cup {None} /\ jar[b].sid \in Session \cup {None}
  BY DEF TypeOK, Jar
<1> QED BY <1>1 DEF From, Idle, Hand

\* A request sent in keeping with its browser's identity.
Proper(q) ==
    /\ q \in Hand /\ q.step # "idle" /\ InStep(q) /\ GivesUp(q)
    /\ q.step = "answer" => q.gives = None
    /\ q.user # None => q.user \in Household[q.browser]
    /\ Carried(q) \cap retired = {}

\* A request that is sent with ids of its own browser, none of them retired.
LEMMA SendStep ==
    ASSUME IdentityInv, NEW r \in Request, NEW q, Proper(q), Send(r, q),
           home' \in [Id -> Browser \cup {None}],
           \A i \in Id : home[i] # None => home'[i] = home[i],
           \A i \in Carried(q) : home'[i] = q.browser,
           ran' \subseteq Visitor \X Session,
           UNCHANGED <<tables, jar, retired>>
    PROVE  IdentityInv'
<1>1. TypeOK /\ HandsInStep /\ q \in Hand
  BY DEF IdentityInv, Proper
<1>2. hand' \in [Request -> Hand] /\ HandsInStep'
  BY <1>1, Sent DEF Proper
<1>3. HandsAtHome' /\ UsersAtHome' /\ AloneMeansAlone'
  BY HandSends DEF Proper
<1>4. \A y \in Request :
         LET h == IF y = r THEN q ELSE hand[y] IN
         /\ Carried(hand'[y]) = Carried(h)
         /\ hand'[y].op = h.op /\ hand'[y].step = h.step /\ hand'[y].gives = h.gives /\ hand'[y].ok = h.ok
         /\ y # r /\ hand'[y].alone => hand[y].alone
  BY <1>1, Sent DEF Proper
<1>5. TypeOK'
  <2>1. sent' \in 0..MaxSent
    BY <1>1, BoundAssumption DEF Send, TypeOK
  <2> QED BY <1>1, <1>2, <2>1 DEF TypeOK, StoreTypeOK, tables
<1>6. JarsAtHome'
  <2> SUFFICES ASSUME NEW b \in Browser
               PROVE  /\ jar[b].vid # None => home'[jar[b].vid] = b
                      /\ jar[b].sid # None => home'[jar[b].sid] = b
    BY DEF JarsAtHome
  <2>1. jar[b].vid \in Visitor \cup {None} /\ jar[b].sid \in Session \cup {None}
    BY <1>1 DEF TypeOK, Jar
  <2>2. /\ jar[b].vid # None => home[jar[b].vid] = b
        /\ jar[b].sid # None => home[jar[b].sid] = b
    BY DEF IdentityInv, JarsAtHome
  <2> QED BY <2>1, <2>2, HouseholdAssumption DEF Id
<1>7. RowsAtHome' /\ AttributedAtHome'
  <2>1. UNCHANGED <<visitors, sessions>>
    BY DEF tables
  <2>2. \A v \in Visitor : HasVisitor(v) => home'[v] # None
    BY DEF IdentityInv, RowsAtHome, Id
  <2>3. \A s \in Session : HasSession(s) => home'[s] = home[s] /\ home'[s] # None /\ home'[s] = home'[sessions[s].visitor]
    <3> SUFFICES ASSUME NEW s \in Session, HasSession(s)
                 PROVE  home'[s] = home[s] /\ home'[s] # None /\ home'[s] = home'[sessions[s].visitor]
      OBVIOUS
    <3>1. sessions[s].visitor \in Visitor
      BY <1>1 DEF TypeOK, StoreTypeOK, SessionRow, HasSession
    <3>2. home[s] # None /\ home[s] = home[sessions[s].visitor]
      BY DEF IdentityInv, RowsAtHome
    <3> QED BY <3>1, <3>2 DEF Id
  <2>4. \A s \in Session : sessions[s].user # None => HasSession(s)
    BY DEF IdentityInv, RowsAtHome
  <2> QED BY <2>1, <2>2, <2>3, <2>4 DEF IdentityInv, RowsAtHome, AttributedAtHome, HasVisitor, HasSession
<1>8. ErasedMeansErased'
  <2> SUFFICES ASSUME NEW y \in Request, hand'[y].op = "revoke", hand'[y].step = "answer",
                      hand'[y].ok, hand'[y].alone, hand'[y].gives # None
               PROVE  ~(visitors'[hand'[y].gives].count > 0)
    BY DEF ErasedMeansErased, At, HasVisitor
  <2>1. y # r
    BY <1>4 DEF Proper
  <2>2. /\ hand[y].op = "revoke" /\ hand[y].step = "answer" /\ hand[y].gives = hand'[y].gives
        /\ hand[y].ok /\ hand[y].alone
    BY <1>4, <2>1
  <2>3. ~(visitors[hand[y].gives].count > 0)
    BY <2>2 DEF At, HasVisitor, IdentityInv, ErasedMeansErased
  <2> QED BY <2>2, <2>3 DEF tables
<1>9. RetiredAreGone'
  <2> SUFFICES ASSUME NEW i \in retired
               PROVE  /\ home'[i] # None
                      /\ \A b \in Browser : jar[b].vid # i /\ jar[b].sid # i
                      /\ \A y \in Request : i \notin Carried(hand'[y])
                      /\ i \in Visitor => ~HasVisitor(i)
    BY DEF RetiredAreGone, HasVisitor, tables
  <2>1. i \in Id
    BY <1>1 DEF TypeOK
  <2>2. \A y \in Request : i \notin Carried(hand'[y])
    BY <1>4 DEF Proper, IdentityInv, RetiredAreGone
  <2> QED BY <2>1, <2>2 DEF IdentityInv, RetiredAreGone
<1> QED BY <1>2, <1>3, <1>5, <1>6, <1>7, <1>8, <1>9 DEF IdentityInv

\* The ids of a start: the cookies', or ids nobody was given.
LEMMA Resolved ==
    ASSUME IdentityInv, NEW b \in Browser, NEW rotate \in BOOLEAN, NEW id \in resolveIdentity(b, rotate)
    PROVE  /\ id.vid \in Visitor /\ id.sid \in Session
           /\ IF jar[b].vid = None THEN home[id.vid] = None ELSE id.vid = jar[b].vid /\ home[id.vid] = b
           /\ IF jar[b].sid = None \/ rotate THEN home[id.sid] = None
                                             ELSE id.sid = jar[b].sid /\ home[id.sid] = b
<1>1. jar[b].vid \in Visitor \cup {None} /\ jar[b].sid \in Session \cup {None}
  BY DEF IdentityInv, TypeOK, Jar
<1>2. /\ jar[b].vid # None => home[jar[b].vid] = b
      /\ jar[b].sid # None => home[jar[b].sid] = b
  BY DEF IdentityInv, JarsAtHome
<1>3. /\ id.vid \in (IF jar[b].vid = None THEN Fresh(Visitor) ELSE {jar[b].vid})
      /\ id.sid \in (IF jar[b].sid = None \/ rotate THEN Fresh(Session) ELSE {jar[b].sid})
  BY DEF resolveIdentity
<1>4. \A ids, i : i \in Fresh(ids) => i \in ids /\ home[i] = None
  BY DEF Fresh
<1> QED BY <1>1, <1>2, <1>3, <1>4

\* What a start sends.
StartHand(b, rotate, u, id) ==
    [From(b, "start", "visitor", u) EXCEPT
       !.vid = id.vid, !.sid = id.sid, !.count = countNewSession(b, rotate),
       !.gives = IF rotate THEN jar[b].sid ELSE None]

\* What a start carries: ids of its browser, or fresh ones.
LEMMA StartFields ==
    ASSUME IdentityInv, NEW b \in Browser, NEW rotate \in BOOLEAN, NEW u \in Household[b] \cup {None},
           NEW id \in resolveIdentity(b, rotate), NEW q,
           q = StartHand(b, rotate, u, id)
    PROVE  /\ Proper(q)
           /\ q.op = "start" /\ q.step = "visitor" /\ q.browser = b /\ q.vid = id.vid /\ q.sid = id.sid
           /\ (q.count <=> countNewSession(b, rotate))
           /\ Carried(q) \subseteq {id.vid, id.sid, jar[b].sid} \ {None}
<1>0. TypeOK
  BY DEF IdentityInv
<1>1. jar[b].vid \in Visitor \cup {None} /\ jar[b].sid \in Session \cup {None}
  BY DEF IdentityInv, TypeOK, Jar
<1>2. u \in Account \cup {None} /\ "start" \in Op /\ "visitor" \in Step
  BY HouseholdAssumption DEF Op, Step
<1>3. id.vid \in Visitor /\ id.sid \in Session
  BY Resolved
<1>4. countNewSession(b, rotate) \in BOOLEAN
  BY DEF countNewSession
<1> DEFINE gives == IF rotate THEN jar[b].sid ELSE None
<1>5. gives \in Session \cup {None} /\ gives \in Id \cup {None} /\ gives \in {jar[b].sid, None}
  BY <1>1 DEF Id
<1>6. gives # id.sid
  <2>1. None \notin Session
    BY StoreAssumption
  <2>2. rotate /\ jar[b].sid # None => home[jar[b].sid] = b /\ home[id.sid] = None
    BY Resolved DEF IdentityInv, JarsAtHome
  <2> QED BY <1>3, <2>1, <2>2, HouseholdAssumption
<1> HIDE DEF gives
<1>7. /\ q \in Hand /\ q.op = "start" /\ q.step = "visitor" /\ q.browser = b /\ q.vid = id.vid /\ q.sid = id.sid
      /\ (q.count <=> countNewSession(b, rotate)) /\ q.gives = gives /\ q.user = u
  <2> DEFINE f == From(b, "start", "visitor", u)
  <2>0. f = From(b, "start", "visitor", u)
    OBVIOUS
  <2>2. q = [f EXCEPT !.vid = id.vid, !.sid = id.sid, !.count = countNewSession(b, rotate), !.gives = gives]
    BY DEF gives, StartHand
  <2> HIDE DEF f
  <2>1. f \in Hand /\ f.op = "start" /\ f.step = "visitor" /\ f.browser = b /\ f.user = u
    BY <1>0, <1>2, <2>0, FromFields
  <2> QED BY <1>3, <1>4, <1>5, <2>1, <2>2 DEF Hand
<1>8. InStep(q) /\ GivesUp(q)
  BY <1>3, <1>5, <1>6, <1>7, StoreAssumption DEF InStep, GivesUp
<1>9. Carried(q) \subseteq {id.vid, id.sid, jar[b].sid} \ {None}
  BY <1>5, <1>7 DEF Carried
<1>10. Carried(q) \cap retired = {}
  <2>1. id.vid \notin retired /\ id.sid \notin retired /\ jar[b].sid \notin retired
    BY Resolved DEF IdentityInv, RetiredAreGone
  <2> QED BY <1>9, <2>1
<1> QED BY <1>2, <1>7, <1>8, <1>9, <1>10 DEF Proper

\* What a start does to the homes.
LEMMA StartHomes ==
    ASSUME IdentityInv, NEW b \in Browser, NEW rotate \in BOOLEAN, NEW id \in resolveIdentity(b, rotate),
           home' = [i \in Id |-> IF i \in {id.vid, id.sid} THEN b ELSE home[i]]
    PROVE  /\ home' \in [Id -> Browser \cup {None}]
           /\ \A i \in Id : home[i] # None => home'[i] = home[i]
           /\ \A i \in {id.vid, id.sid, jar[b].sid} \ {None} : home'[i] = b
           /\ home'[id.vid] = b
           /\ \A i \in Id : i \notin {id.vid, id.sid} => home'[i] = home[i]
<1>1. id.vid \in Id /\ id.sid \in Id /\ home[id.vid] \in {b, None} /\ home[id.sid] \in {b, None}
  BY Resolved DEF Id
<1>2. jar[b].sid # None => jar[b].sid \in Id /\ home[jar[b].sid] = b
  BY DEF IdentityInv, JarsAtHome, TypeOK, Jar, Id
<1>3. home \in [Id -> Browser \cup {None}]
  BY DEF IdentityInv, TypeOK
<1> QED BY <1>1, <1>2, <1>3

\* A start gives out ids nobody had, or those of its own browser.
LEMMA IdentityStart ==
    ASSUME IdentityInv, NEW r \in Request, Start(r)
    PROVE  IdentityInv'
<1>0. PICK b \in Browser, rotate \in BOOLEAN : \E u \in Household[b] \cup {None} :
         /\ jar[b].consent
         /\ \E id \in resolveIdentity(b, rotate) :
               /\ Send(r, StartHand(b, rotate, u, id))
               /\ home' = [i \in Id |-> IF i \in {id.vid, id.sid} THEN b ELSE home[i]]
         /\ UNCHANGED <<tables, jar, retired>>
  BY DEF Start, startSession, StartHand
<1>1. PICK u \in Household[b] \cup {None} :
         /\ \E id \in resolveIdentity(b, rotate) :
               /\ Send(r, StartHand(b, rotate, u, id))
               /\ home' = [i \in Id |-> IF i \in {id.vid, id.sid} THEN b ELSE home[i]]
         /\ UNCHANGED <<tables, jar, retired>>
  BY <1>0
<1>2. PICK id \in resolveIdentity(b, rotate) :
         /\ Send(r, StartHand(b, rotate, u, id))
         /\ home' = [i \in Id |-> IF i \in {id.vid, id.sid} THEN b ELSE home[i]]
  BY <1>1
<1> DEFINE q == StartHand(b, rotate, u, id)
<1>3. /\ Proper(q) /\ q.browser = b /\ q.vid = id.vid /\ q.sid = id.sid
      /\ Carried(q) \subseteq {id.vid, id.sid, jar[b].sid} \ {None}
  <2>1. q = StartHand(b, rotate, u, id)
    OBVIOUS
  <2> HIDE DEF q
  <2> QED BY <1>1, <2>1, StartFields
<1>4. Send(r, q) /\ UNCHANGED <<tables, jar, retired>>
  BY <1>1, <1>2
<1> HIDE DEF q
<1>5. /\ home' \in [Id -> Browser \cup {None}]
      /\ \A i \in Id : home[i] # None => home'[i] = home[i]
      /\ \A i \in Carried(q) : home'[i] = q.browser
  BY <1>2, <1>3, StartHomes
<1>6. ran' \subseteq Visitor \X Session
  <2>1. hand'[r].vid = id.vid /\ hand'[r].sid = id.sid
    BY <1>3, <1>4, Sent DEF IdentityInv, Proper
  <2>2. id.vid \in Visitor /\ id.sid \in Session
    BY Resolved
  <2> QED BY <2>1, <2>2 DEF Start, IdentityInv, TypeOK
<1> QED BY <1>3, <1>4, <1>5, <1>6, SendStep

\* A request that carries the cookies and mints nothing.
LEMMA CookieSend ==
    ASSUME IdentityInv, NEW r \in Request, NEW b \in Browser, NEW q \in Hand, q.browser = b,
           q.vid = jar[b].vid, q.sid = jar[b].sid, q.gives \in {jar[b].vid, None},
           q.user \in Household[b] \cup {None}, q.step # "idle", InStep(q), GivesUp(q),
           q.step = "answer" => q.gives = None,
           Send(r, q), UNCHANGED <<tables, jar, home, retired, ran>>
    PROVE  IdentityInv'
<1>1. Carried(q) \subseteq {jar[b].vid, jar[b].sid} \ {None}
  BY DEF Carried
<1>2. \A i \in Carried(q) : home[i] = b
  BY <1>1 DEF IdentityInv, JarsAtHome
<1>3. Carried(q) \cap retired = {}
  BY <1>1 DEF IdentityInv, RetiredAreGone
<1>4. Proper(q)
  BY <1>3 DEF Proper
<1>5. home' \in [Id -> Browser \cup {None}] /\ ran' \subseteq Visitor \X Session
  BY DEF IdentityInv, TypeOK
<1> QED BY <1>2, <1>4, <1>5, SendStep

\* The other requests carry the cookies of their browser and give out no id.
LEMMA IdentitySends ==
    ASSUME IdentityInv, NEW r \in Request,
           trackEvent(r) \/ identifyVisitor(r) \/ revokeConsent(r) \/ eraseMyData(r), UNCHANGED ran
    PROVE  IdentityInv'
<1>0. TypeOK /\ \A b \in Browser : Household[b] \subseteq Account
  BY HouseholdAssumption DEF IdentityInv
<1>1. CASE trackEvent(r)
  <2>1. PICK b \in Browser, u \in Account \cup {None} :
           /\ u \in Household[b] \cup {None}
           /\ jar[b].vid # None /\ jar[b].sid # None
           /\ Send(r, From(b, "track", "visitor", u))
           /\ UNCHANGED <<tables, jar, home, retired>>
    BY <1>0, <1>1 DEF trackEvent
  <2> DEFINE q == From(b, "track", "visitor", u)
  <2>2. q = From(b, "track", "visitor", u) /\ "track" \in Op /\ "visitor" \in Step
    BY DEF Op, Step
  <2>3. Send(r, q)
    BY <2>1
  <2> HIDE DEF q
  <2>5. /\ q \in Hand /\ q.op = "track" /\ q.step = "visitor" /\ q.browser = b /\ q.vid = jar[b].vid
        /\ q.sid = jar[b].sid /\ q.user = u /\ ~q.count /\ q.gives = None
    BY <1>0, <2>2, FromFields
  <2>4. InStep(q) /\ GivesUp(q)
    BY <2>1, <2>5 DEF InStep, GivesUp
  <2> QED BY <2>1, <2>3, <2>4, <2>5, CookieSend
<1>2. CASE identifyVisitor(r)
  <2>1. PICK b \in Browser, u \in Account :
           /\ u \in Household[b]
           /\ jar[b].vid # None
           /\ Send(r, From(b, "identify", "visitor", u))
           /\ UNCHANGED <<tables, jar, home, retired>>
    BY <1>0, <1>2 DEF identifyVisitor
  <2> DEFINE q == From(b, "identify", "visitor", u)
  <2>2. q = From(b, "identify", "visitor", u) /\ "identify" \in Op /\ "visitor" \in Step
    BY DEF Op, Step
  <2>3. Send(r, q)
    BY <2>1
  <2> HIDE DEF q
  <2>5. /\ q \in Hand /\ q.op = "identify" /\ q.step = "visitor" /\ q.browser = b /\ q.vid = jar[b].vid
        /\ q.sid = jar[b].sid /\ q.user = u /\ ~q.count /\ q.gives = None
    BY <1>0, <2>2, FromFields
  <2>4. InStep(q) /\ GivesUp(q)
    BY <2>1, <2>5 DEF InStep, GivesUp
  <2> QED BY <2>1, <2>3, <2>4, <2>5, CookieSend
<1>3. CASE revokeConsent(r)
  <2>1. PICK b \in Browser :
           /\ Send(r, [From(b, "revoke", IF jar[b].vid = None THEN "answer" ELSE "erase", None)
                         EXCEPT !.gives = jar[b].vid])
           /\ UNCHANGED <<tables, jar, home, retired>>
    BY <1>3 DEF revokeConsent
  <2> DEFINE step == IF jar[b].vid = None THEN "answer" ELSE "erase"
             f == From(b, "revoke", step, None)
             q == [f EXCEPT !.gives = jar[b].vid]
  <2>2. step \in Step /\ step \in {"answer", "erase"} /\ (step = "answer" <=> jar[b].vid = None)
    BY DEF Step
  <2>3. Send(r, q)
    BY <2>1
  <2>8. f = From(b, "revoke", step, None) /\ q = [f EXCEPT !.gives = jar[b].vid]
    OBVIOUS
  <2> HIDE DEF step, f, q
  <2>4. /\ f \in Hand /\ f.op = "revoke" /\ f.step = step /\ f.browser = b /\ f.vid = jar[b].vid
        /\ f.sid = jar[b].sid /\ f.user = None /\ ~f.count
    BY <1>0, <2>2, <2>8, FromFields DEF Op
  <2>5. jar[b].vid \in Id \cup {None}
    BY <1>0 DEF TypeOK, Jar, Id
  <2>6. /\ q \in Hand /\ q.op = "revoke" /\ q.step = step /\ q.browser = b /\ q.vid = jar[b].vid
        /\ q.sid = jar[b].sid /\ q.user = None /\ ~q.count /\ q.gives = jar[b].vid
    BY <2>4, <2>5, <2>8 DEF Hand
  <2>7. InStep(q) /\ GivesUp(q)
    BY <2>2, <2>6 DEF InStep, GivesUp
  <2> QED BY <2>1, <2>2, <2>3, <2>6, <2>7, CookieSend
<1>4. CASE eraseMyData(r)
  <2>1. PICK b \in Browser, u \in Account :
           /\ u \in Household[b]
           /\ Send(r, From(b, "erase", "erase", u))
           /\ UNCHANGED <<tables, jar, home, retired>>
    BY <1>0, <1>4 DEF eraseMyData
  <2> DEFINE q == From(b, "erase", "erase", u)
  <2>2. q = From(b, "erase", "erase", u) /\ "erase" \in Op /\ "erase" \in Step
    BY DEF Op, Step
  <2>3. Send(r, q)
    BY <2>1
  <2> HIDE DEF q
  <2>5. /\ q \in Hand /\ q.op = "erase" /\ q.step = "erase" /\ q.browser = b /\ q.vid = jar[b].vid
        /\ q.sid = jar[b].sid /\ q.user = u /\ ~q.count /\ q.gives = None
    BY <1>0, <2>2, FromFields
  <2>4. InStep(q) /\ GivesUp(q)
    BY <1>0, <2>1, <2>5, StoreAssumption DEF InStep, GivesUp
  <2> QED BY <2>1, <2>3, <2>4, <2>5, CookieSend
<1> QED BY <1>1, <1>2, <1>3, <1>4

-----------------------------------------------------------------------------
(* Identities: the statements a request runs *)

\* A statement that creates no row but of its own visitor, and moves no row to another browser.
LEMMA StatementStep ==
    ASSUME IdentityInv, NEW r \in Request, NEW h \in Hand, InStep(h), GivesUp(h), Follows(h, hand[r]),
           hand' = [hand EXCEPT ![r] = h], UNCHANGED <<jar, home, sent, retired, ran>>,
           StoreTypeOK', RowsAtHome', AttributedAtHome',
           \A v \in Visitor : HasVisitor(v)' => HasVisitor(v) \/ v \in Carried(hand[r]),
           h.op = "revoke" /\ h.step = "answer" /\ h.ok /\ h.gives # None => ~(visitors'[h.gives].count > 0)
    PROVE  IdentityInv'
<1>0. hand \in [Request -> Hand] /\ hand'[r] = h /\ \A y \in Request : y # r => hand'[y] = hand[y]
  BY DEF IdentityInv, TypeOK
<1>1. /\ hand' \in [Request -> Hand] /\ HandsInStep' /\ HandsAtHome' /\ UsersAtHome' /\ AloneMeansAlone'
      /\ \A y \in Request : Carried(hand'[y]) \subseteq Carried(hand[y])
  BY HandMoves
<1>2. TypeOK'
  BY <1>1 DEF IdentityInv, TypeOK
<1>3. JarsAtHome'
  BY DEF IdentityInv, JarsAtHome
<1>4. ErasedMeansErased'
  <2> SUFFICES ASSUME NEW y \in Request, y # r, hand[y].op = "revoke", hand[y].step = "answer",
                      hand[y].ok, hand[y].alone, hand[y].gives # None
               PROVE  ~(visitors'[hand[y].gives].count > 0)
    BY <1>0 DEF ErasedMeansErased, At, HasVisitor
  <2>1. hand[y].gives \in Visitor
    BY <1>0 DEF Hand, IdentityInv, HandsInStep, GivesUp
  <2>2. ~(visitors[hand[y].gives].count > 0)
    BY DEF IdentityInv, ErasedMeansErased, At, HasVisitor
  <2>3. hand[y].gives \notin Carried(hand[r])
    BY DEF IdentityInv, AloneMeansAlone
  <2> QED BY <2>1, <2>2, <2>3 DEF HasVisitor
<1>5. RetiredAreGone'
  BY <1>1 DEF IdentityInv, RetiredAreGone
<1> QED BY <1>1, <1>2, <1>3, <1>4, <1>5 DEF IdentityInv

\* The ids of a request that is under way.
LEMMA InHand ==
    ASSUME IdentityInv, NEW r \in Request, hand[r].step # "idle"
    PROVE  /\ hand[r] \in Hand /\ InStep(hand[r]) /\ GivesUp(hand[r]) /\ hand[r].browser \in Browser
           /\ hand[r].vid # None => hand[r].vid \in Visitor /\ home[hand[r].vid] = hand[r].browser
           /\ hand[r].sid # None => hand[r].sid \in Session /\ home[hand[r].sid] = hand[r].browser
           /\ hand[r].user \in Account \cup {None}
           /\ hand[r].user # None => hand[r].user \in Household[hand[r].browser]
<1>1. hand[r] \in Hand /\ InStep(hand[r]) /\ GivesUp(hand[r])
  BY DEF IdentityInv, TypeOK, HandsInStep
<1>2. hand[r].vid \in Visitor \cup {None} /\ hand[r].sid \in Session \cup {None} /\ hand[r].user \in Account \cup {None}
  BY <1>1 DEF Hand
<1>3. \A i \in {hand[r].vid, hand[r].sid} \ {None} : home[i] = hand[r].browser
  BY DEF IdentityInv, HandsAtHome, Carried
<1> QED BY <1>1, <1>2, <1>3 DEF InStep, IdentityInv, UsersAtHome

\* The two ways a request goes on.
LEMMA Goes ==
    ASSUME IdentityInv, NEW r \in Request, hand[r].step # "idle", NEW step \in Step, Go(r, step),
           InStep([hand[r] EXCEPT !.step = step]), step # "answer"
    PROVE  \E h \in Hand : /\ InStep(h) /\ GivesUp(h) /\ Follows(h, hand[r]) /\ hand' = [hand EXCEPT ![r] = h]
                           /\ ~(h.op = "revoke" /\ h.step = "answer")
<1>1. hand[r] \in Hand /\ GivesUp(hand[r])
  BY InHand
<1> DEFINE h == [hand[r] EXCEPT !.step = step]
<1>2. h \in Hand /\ Follows(h, hand[r]) /\ GivesUp(h) /\ h.step = step
  BY <1>1, Stepping
<1>3. hand' = [hand EXCEPT ![r] = h]
  BY DEF Go
<1> QED BY <1>2, <1>3

\* The last statement of a request, or one that fails.
LEMMA IsDone ==
    ASSUME IdentityInv, NEW r \in Request, hand[r].step # "idle", NEW fine \in BOOLEAN, Done(r, fine)
    PROVE  \E h \in Hand : /\ InStep(h) /\ GivesUp(h) /\ Follows(h, hand[r]) /\ hand' = [hand EXCEPT ![r] = h]
                           /\ h.step \in {"idle", "answer"}
                           /\ h.step = "answer" => h.op = hand[r].op /\ (h.ok <=> fine)
<1>1. hand[r] \in Hand /\ InStep(hand[r]) /\ GivesUp(hand[r])
  BY InHand
<1>2. hand' = [hand EXCEPT ![r] = Left(hand[r], fine)]
  BY DEF Done, Left
<1> QED BY <1>1, <1>2, Leaving

\* The visitor row that a request writes is of its own browser.
LEMMA IdentityUpsertVisitor ==
    ASSUME IdentityInv, NEW r \in Request, UpsertVisitor(r), UNCHANGED ran
    PROVE  IdentityInv'
<1> DEFINE q == hand[r]
           v == q.vid
           step == IF q.op = "identify" THEN "link" ELSE "session"
<1>0. q.step = "visitor" /\ upsertVisitor(v, q.user, q.count) /\ Go(r, step) /\ UNCHANGED <<jar, home, sent, retired>>
  BY DEF UpsertVisitor
<1>1. /\ q \in Hand /\ InStep(q) /\ q.browser \in Browser
      /\ v \in Visitor /\ home[v] = q.browser /\ q.user \in Account \cup {None}
  BY <1>0, InHand DEF InStep
<1>2. InStep([q EXCEPT !.step = step])
  <2> DEFINE g == [q EXCEPT !.step = step]
  <2>1. /\ g.step = step /\ g.op = q.op /\ g.browser = q.browser /\ g.vid = q.vid /\ g.sid = q.sid
        /\ (g.count <=> q.count)
    BY <1>1 DEF Hand
  <2>2. step \in {"link", "session"} /\ (step = "link" <=> q.op = "identify")
    OBVIOUS
  <2> HIDE DEF g, step
  <2> QED BY <1>0, <1>1, <2>1, <2>2 DEF InStep
<1>3. PICK h \in Hand : /\ InStep(h) /\ GivesUp(h) /\ Follows(h, q) /\ hand' = [hand EXCEPT ![r] = h]
                        /\ ~(h.op = "revoke" /\ h.step = "answer")
  BY <1>0, <1>2, Goes DEF Step
<1>4. StoreTypeOK'
  <2>1. visitors[v] \in VisitorRow
    BY <1>1 DEF IdentityInv, TypeOK, StoreTypeOK
  <2>2. [user  |-> IF q.user = None THEN visitors[v].user ELSE q.user,
         count |-> IF HasVisitor(v) /\ ~q.count THEN visitors[v].count ELSE visitors[v].count + 1] \in VisitorRow
    BY <1>1, <2>1 DEF VisitorRow
  <2> QED BY <1>0, <2>2 DEF upsertVisitor, IdentityInv, TypeOK, StoreTypeOK
<1>5. \A x \in Visitor : x # v => visitors'[x] = visitors[x]
  BY <1>0 DEF upsertVisitor, IdentityInv, TypeOK, StoreTypeOK
<1>6. v \in Carried(q)
  BY <1>1, StoreAssumption DEF Carried
<1>7. RowsAtHome' /\ AttributedAtHome'
  <2>1. \A x \in Visitor : HasVisitor(x)' => home[x] # None
    BY <1>1, <1>5, HouseholdAssumption DEF IdentityInv, RowsAtHome, HasVisitor
  <2> QED BY <1>0, <2>1 DEF upsertVisitor, IdentityInv, RowsAtHome, AttributedAtHome, HasSession
<1>8. \A x \in Visitor : HasVisitor(x)' => HasVisitor(x) \/ x \in Carried(hand[r])
  BY <1>5, <1>6 DEF HasVisitor
<1> HIDE DEF v, step
<1> QED BY <1>0, <1>3, <1>4, <1>7, <1>8, StatementStep

\* And so is the session row, with the user it is attributed to.
LEMMA IdentityUpsertSession ==
    ASSUME IdentityInv, NEW r \in Request, UpsertSession(r), UNCHANGED ran
    PROVE  IdentityInv'
<1> DEFINE q == hand[r]
<1>0. q.step = "session" /\ upsertSession(q.sid, q.vid, q.user) /\ UNCHANGED <<jar, home, sent, retired>>
  BY DEF UpsertSession
<1>1. /\ q \in Hand /\ InStep(q) /\ q.browser \in Browser
      /\ q.vid \in Visitor /\ home[q.vid] = q.browser
      /\ q.sid \in Session /\ home[q.sid] = q.browser
      /\ q.user \in Account \cup {None} /\ (q.user # None => q.user \in Household[q.browser])
  BY <1>0, InHand DEF InStep
<1>2. PICK h \in Hand : /\ InStep(h) /\ GivesUp(h) /\ Follows(h, q) /\ hand' = [hand EXCEPT ![r] = h]
                        /\ ~(h.op = "revoke" /\ h.step = "answer")
  <2>1. CASE q.op = "track" /\ Go(r, "event")
    <3>1. InStep([q EXCEPT !.step = "event"])
      <4> DEFINE g == [q EXCEPT !.step = "event"]
      <4>1. /\ g.step = "event" /\ g.op = q.op /\ g.browser = q.browser /\ g.vid = q.vid /\ g.sid = q.sid
            /\ (g.count <=> q.count)
        BY <1>1 DEF Hand
      <4> HIDE DEF g
      <4> QED BY <1>0, <1>1, <2>1, <4>1 DEF InStep
    <3> QED BY <1>0, <2>1, <3>1, Goes DEF Step
  <2>2. CASE q.op # "track" /\ Done(r, TRUE)
    BY <1>0, <1>1, <2>2, IsDone DEF InStep
  <2> QED BY <2>1, <2>2 DEF UpsertSession
<1>3. \A x \in Session : x # q.sid => sessions'[x] = sessions[x]
  BY <1>0 DEF upsertSession, IdentityInv, TypeOK, StoreTypeOK
<1>4. sessions'[q.sid] = [visitor |-> q.vid, user |-> q.user] /\ UNCHANGED <<visitors, events>>
  BY <1>0, <1>1 DEF upsertSession, IdentityInv, TypeOK, StoreTypeOK
<1>5. StoreTypeOK'
  <2>1. [visitor |-> q.vid, user |-> q.user] \in SessionRow
    BY <1>1 DEF SessionRow
  <2> QED BY <1>0, <1>4, <2>1 DEF upsertSession, IdentityInv, TypeOK, StoreTypeOK
<1>6. RowsAtHome'
  <2>1. \A s \in Session : HasSession(s)' => home[s] # None /\ home[s] = home[sessions'[s].visitor]
    BY <1>1, <1>3, <1>4, HouseholdAssumption DEF IdentityInv, RowsAtHome, HasSession
  <2>2. \A s \in Session : sessions'[s].user # None => HasSession(s)'
    BY <1>1, <1>3, <1>4, StoreAssumption DEF IdentityInv, RowsAtHome, HasSession
  <2> QED BY <1>0, <1>4, <2>1, <2>2 DEF IdentityInv, RowsAtHome, HasVisitor
<1>7. AttributedAtHome'
  BY <1>0, <1>1, <1>3, <1>4 DEF IdentityInv, AttributedAtHome
<1>8. \A x \in Visitor : HasVisitor(x)' => HasVisitor(x) \/ x \in Carried(hand[r])
  BY <1>4 DEF HasVisitor
<1> QED BY <1>0, <1>2, <1>5, <1>6, <1>7, <1>8, StatementStep

\* An event is written for a session of the request.
LEMMA IdentityCreateEvent ==
    ASSUME IdentityInv, NEW r \in Request, CreateEvent(r), UNCHANGED ran
    PROVE  IdentityInv'
<1> DEFINE q == hand[r]
<1>0. /\ q.step = "event" /\ UNCHANGED <<jar, home, sent, retired>>
      /\ events' = events \cup {q.sid} /\ UNCHANGED <<visitors, sessions>>
  BY DEF CreateEvent, createEvent
<1>1. q \in Hand /\ InStep(q) /\ q.op = "track" /\ q.sid \in Session
  BY <1>0, InHand DEF InStep
<1>2. PICK h \in Hand : /\ InStep(h) /\ GivesUp(h) /\ Follows(h, q) /\ hand' = [hand EXCEPT ![r] = h]
                        /\ ~(h.op = "revoke" /\ h.step = "answer")
  <2>1. CASE Go(r, "visitor")
    <3>1. InStep([q EXCEPT !.step = "visitor"])
      <4> DEFINE g == [q EXCEPT !.step = "visitor"]
      <4>1. /\ g.step = "visitor" /\ g.op = q.op /\ g.browser = q.browser /\ g.vid = q.vid /\ g.sid = q.sid
            /\ (g.count <=> q.count)
        BY <1>1 DEF Hand
      <4> HIDE DEF g
      <4> QED BY <1>0, <1>1, <4>1 DEF InStep
    <3> QED BY <1>0, <2>1, <3>1, Goes DEF Step
  <2>2. CASE Done(r, TRUE)
    BY <1>0, <1>1, <2>2, IsDone
  <2> QED BY <2>1, <2>2 DEF CreateEvent
<1>3. StoreTypeOK'
  BY <1>0, <1>1 DEF IdentityInv, TypeOK, StoreTypeOK
<1>4. RowsAtHome' /\ AttributedAtHome'
  BY <1>0 DEF IdentityInv, RowsAtHome, AttributedAtHome, HasVisitor, HasSession
<1>5. \A x \in Visitor : HasVisitor(x)' => HasVisitor(x) \/ x \in Carried(hand[r])
  BY <1>0 DEF HasVisitor
<1> QED BY <1>0, <1>2, <1>3, <1>4, <1>5, StatementStep

\* A login links the sessions of its own browser and no others.
LEMMA IdentityLinkSessions ==
    ASSUME IdentityInv, NEW r \in Request, LinkSessions(r), UNCHANGED ran
    PROVE  IdentityInv'
<1> DEFINE q == hand[r]
<1>0. /\ q.step = "link" /\ Done(r, TRUE) /\ UNCHANGED <<jar, home, sent, retired, visitors, events>>
  BY DEF LinkSessions, linkSessionsToUser
<1>1. /\ q \in Hand /\ InStep(q) /\ q.op = "identify" /\ q.browser \in Browser
      /\ q.vid \in Visitor /\ home[q.vid] = q.browser
      /\ q.sid # None => q.sid \in Session /\ home[q.sid] = q.browser
      /\ q.user \in Account \cup {None} /\ (q.user # None => q.user \in Household[q.browser])
  BY <1>0, InHand DEF InStep
<1>2. PICK h \in Hand : /\ InStep(h) /\ GivesUp(h) /\ Follows(h, q) /\ hand' = [hand EXCEPT ![r] = h]
                        /\ ~(h.op = "revoke" /\ h.step = "answer")
  BY <1>0, <1>1, IsDone
<1>3. PICK backfill \in BOOLEAN : linkSessionsToUser(q.vid, q.sid, q.user, backfill)
  BY DEF LinkSessions
<1> DEFINE claimed == sessionsToClaim(q.vid, q.sid, backfill)
<1>4. \A t \in claimed : t \in Session /\ HasSession(t) /\ home[t] = q.browser
  BY <1>1, StoreAssumption DEF sessionsToClaim, HasSession, IdentityInv, RowsAtHome
<1>5. sessions' = [t \in Session |-> IF t \in claimed THEN [sessions[t] EXCEPT !.user = q.user] ELSE sessions[t]]
  BY <1>3 DEF linkSessionsToUser
<1> HIDE DEF claimed
<1>6. \A t \in Session :
         /\ sessions[t] \in SessionRow /\ sessions'[t] \in SessionRow
         /\ sessions'[t].visitor = sessions[t].visitor
         /\ IF t \in claimed THEN sessions'[t].user = q.user ELSE sessions'[t].user = sessions[t].user
  BY <1>1, <1>5 DEF IdentityInv, TypeOK, StoreTypeOK, SessionRow
<1>7. StoreTypeOK'
  BY <1>0, <1>5, <1>6 DEF IdentityInv, TypeOK, StoreTypeOK
<1>8. RowsAtHome'
  <2>1. \A s \in Session : HasSession(s)' => home[s] # None /\ home[s] = home[sessions'[s].visitor]
    BY <1>6 DEF IdentityInv, RowsAtHome, HasSession
  <2>2. \A s \in Session : sessions'[s].user # None => HasSession(s)'
    BY <1>4, <1>6 DEF IdentityInv, RowsAtHome, HasSession
  <2> QED BY <1>0, <2>1, <2>2 DEF IdentityInv, RowsAtHome, HasVisitor
<1>9. AttributedAtHome'
  BY <1>0, <1>1, <1>4, <1>6 DEF IdentityInv, AttributedAtHome
<1>10. \A x \in Visitor : HasVisitor(x)' => HasVisitor(x) \/ x \in Carried(hand[r])
  BY <1>0 DEF HasVisitor
<1> QED BY <1>0, <1>2, <1>7, <1>8, <1>9, <1>10, StatementStep

\* The cascade leaves nothing of those who go, and what it leaves is as it was.
LEMMA Cascades ==
    ASSUME IdentityInv, home' = home, NEW gone, Cascade(gone)
    PROVE  /\ StoreTypeOK' /\ RowsAtHome' /\ AttributedAtHome'
           /\ \A v \in Visitor : visitors'[v] = IF v \in gone THEN NoVisitor ELSE visitors[v]
<1>0. StoreTypeOK
  BY DEF IdentityInv, TypeOK
<1>1. NoVisitor \in VisitorRow /\ NoSession \in SessionRow /\ ~(NoVisitor.count > 0)
      /\ NoSession.visitor = None /\ NoSession.user = None
  BY DEF NoVisitor, NoSession, VisitorRow, SessionRow
<1>2. \A v \in Visitor : visitors'[v] = IF v \in gone THEN NoVisitor ELSE visitors[v]
  BY DEF Cascade
<1>3. \A s \in Session : sessions'[s] = IF sessions[s].visitor \in gone THEN NoSession ELSE sessions[s]
  BY DEF Cascade
<1>4. StoreTypeOK'
  BY <1>0, <1>1 DEF Cascade, StoreTypeOK
<1>5. RowsAtHome'
  <2>1. \A v \in Visitor : HasVisitor(v)' => home[v] # None
    BY <1>1, <1>2 DEF HasVisitor, IdentityInv, RowsAtHome
  <2>2. \A s \in Session : HasSession(s)' => home[s] # None /\ home[s] = home[sessions'[s].visitor]
    BY <1>1, <1>3 DEF HasSession, IdentityInv, RowsAtHome
  <2>3. \A s \in Session : sessions'[s].user # None => HasSession(s)'
    BY <1>1, <1>3 DEF HasSession, IdentityInv, RowsAtHome
  <2> QED BY <2>1, <2>2, <2>3 DEF RowsAtHome
<1>6. AttributedAtHome'
  BY <1>1, <1>3 DEF IdentityInv, AttributedAtHome
<1> QED BY <1>2, <1>4, <1>5, <1>6

\* An erasure takes away what it names, and its answer says so.
LEMMA IdentityErase ==
    ASSUME IdentityInv, NEW r \in Request, Erase(r), UNCHANGED ran
    PROVE  IdentityInv'
<1> DEFINE q == hand[r]
<1>0. q.step = "erase" /\ Done(r, TRUE) /\ UNCHANGED <<jar, home, sent, retired>>
  BY DEF Erase
<1>1. q \in Hand /\ InStep(q) /\ GivesUp(q)
  BY <1>0, InHand
<1>2. PICK h \in Hand : /\ InStep(h) /\ GivesUp(h) /\ Follows(h, q) /\ hand' = [hand EXCEPT ![r] = h]
                        /\ h.step = "answer" => h.op = q.op
  BY <1>0, IsDone
<1>3. PICK gone : Cascade(gone) /\ (q.op = "revoke" => gone = {q.vid})
  BY DEF Erase, deleteVisitorData, deleteDataForUser
<1>4. /\ StoreTypeOK' /\ RowsAtHome' /\ AttributedAtHome'
      /\ \A v \in Visitor : visitors'[v] = IF v \in gone THEN NoVisitor ELSE visitors[v]
  BY <1>0, <1>3, Cascades
<1>5. \A v \in Visitor : HasVisitor(v)' => HasVisitor(v) \/ v \in Carried(hand[r])
  BY <1>4 DEF HasVisitor, NoVisitor
<1>6. h.op = "revoke" /\ h.step = "answer" /\ h.ok /\ h.gives # None => ~(visitors'[h.gives].count > 0)
  <2> SUFFICES ASSUME h.op = "revoke", h.step = "answer", h.gives # None
               PROVE  ~(visitors'[h.gives].count > 0)
    OBVIOUS
  <2>1. h.gives = q.vid /\ gone = {q.vid} /\ q.vid \in Visitor
    BY <1>1, <1>2, <1>3, IdleHand DEF Follows, GivesUp, Hand
  <2> QED BY <1>4, <2>1 DEF NoVisitor
<1> QED BY <1>0, <1>2, <1>4, <1>5, <1>6, StatementStep

\* A statement that fails leaves the tables as they are.
LEMMA IdentityStatementFails ==
    ASSUME IdentityInv, NEW r \in Request, StatementFails(r), UNCHANGED ran
    PROVE  IdentityInv'
<1>0. hand[r].step # "idle" /\ Done(r, FALSE) /\ UNCHANGED <<tables, jar, home, sent, retired>>
  BY DEF StatementFails
<1>1. PICK h \in Hand : /\ InStep(h) /\ GivesUp(h) /\ Follows(h, hand[r]) /\ hand' = [hand EXCEPT ![r] = h]
                        /\ h.step = "answer" => ~h.ok
  BY <1>0, IsDone
<1>2. StoreTypeOK' /\ RowsAtHome' /\ AttributedAtHome'
  BY <1>0 DEF tables, IdentityInv, TypeOK, StoreTypeOK, RowsAtHome, AttributedAtHome, HasVisitor, HasSession
<1>3. \A v \in Visitor : HasVisitor(v)' => HasVisitor(v) \/ v \in Carried(hand[r])
  BY <1>0 DEF tables, HasVisitor
<1> QED BY <1>0, <1>1, <1>2, <1>3, StatementStep

-----------------------------------------------------------------------------
(* Identities: the answers, and what a browser does by itself *)

\* The cookies after an answer: the browser keeps to ids of its own.
LEMMA AnswerCookies ==
    ASSUME IdentityInv, NEW r \in Request, hand[r].step = "answer", NEW j, j = cookies(hand[r], jar[hand[r].browser])
    PROVE  /\ j \in Jar
           /\ j.vid \in {hand[r].vid, jar[hand[r].browser].vid, None}
           /\ j.sid \in {hand[r].sid, jar[hand[r].browser].sid, None}
           /\ hand[r].op = "start" => j.sid = hand[r].sid
           /\ hand[r].op = "revoke" => j.vid = None /\ j.sid = None
<1> DEFINE q == hand[r]
           old == jar[q.browser]
<1>1. q \in Hand /\ q.browser \in Browser /\ q.vid \in Visitor \cup {None} /\ q.sid \in Session \cup {None}
  BY InHand DEF Hand
<1>2. old \in Jar
  BY <1>1 DEF IdentityInv, TypeOK
<1>3. j = CASE q.op = "start" -> [old EXCEPT !.vid = q.vid, !.sid = q.sid]
            [] q.op = "track" -> [old EXCEPT !.sid = q.sid]
            [] q.op = "revoke" -> Cleared(old)
            [] q.op = "erase" -> IF q.ok THEN Cleared(old) ELSE old
            [] OTHER -> old
  BY DEF cookies
<1> HIDE DEF q, old
<1>4. Cleared(old) \in Jar /\ Cleared(old).vid = None /\ Cleared(old).sid = None
  BY <1>2 DEF Cleared, Jar
<1>5. CASE q.op = "start"
  BY <1>1, <1>2, <1>3, <1>5 DEF q, old, Jar
<1>6. CASE q.op = "track"
  BY <1>1, <1>2, <1>3, <1>6 DEF q, old, Jar
<1>7. CASE q.op = "revoke"
  BY <1>3, <1>4, <1>7 DEF q
<1>8. CASE q.op = "erase"
  BY <1>2, <1>3, <1>4, <1>8 DEF q, old
<1>9. CASE q.op \notin {"start", "track", "revoke", "erase"}
  BY <1>2, <1>3, <1>9 DEF q, old
<1> QED BY <1>5, <1>6, <1>7, <1>8, <1>9

\* An answer changes the cookies of its own browser only, and retires what it gave up.
LEMMA IdentityDelivered ==
    ASSUME IdentityInv, NEW r \in Request, Delivered(r), UNCHANGED ran
    PROVE  IdentityInv'
<1> DEFINE q == hand[r]
           b == q.browser
           j == cookies(q, jar[b])
<1>0. /\ q.step = "answer" /\ jar' = [jar EXCEPT ![b] = j]
      /\ retired' = IF q.gives # None /\ q.alone /\ (q.op = "revoke" => q.ok) THEN retired \cup {q.gives} ELSE retired
      /\ hand' = [hand EXCEPT ![r] = Idle] /\ UNCHANGED <<tables, home, sent>>
  BY DEF Delivered
<1>1. /\ q \in Hand /\ InStep(q) /\ GivesUp(q) /\ b \in Browser
      /\ q.vid # None => q.vid \in Visitor /\ home[q.vid] = b
      /\ q.sid # None => q.sid \in Session /\ home[q.sid] = b
  BY <1>0, InHand
<1>2. /\ j \in Jar /\ j.vid \in {q.vid, jar[b].vid, None} /\ j.sid \in {q.sid, jar[b].sid, None}
      /\ q.op = "start" => j.sid = q.sid
      /\ q.op = "revoke" => j.vid = None /\ j.sid = None
  BY <1>0, AnswerCookies
<1> HIDE DEF j
<1>3. jar \in [Browser -> Jar] /\ hand \in [Request -> Hand]
  BY DEF IdentityInv, TypeOK
<1>4. jar'[b] = j /\ \A x \in Browser : x # b => jar'[x] = jar[x]
  BY <1>0, <1>1, <1>3
<1>5. hand'[r] = Idle /\ \A y \in Request : y # r => hand'[y] = hand[y]
  BY <1>0, <1>3
<1>6. /\ hand' \in [Request -> Hand] /\ HandsInStep' /\ HandsAtHome' /\ UsersAtHome' /\ AloneMeansAlone'
      /\ \A y \in Request : Carried(hand'[y]) \subseteq Carried(hand[y])
  BY <1>0, IdleHand, HandMoves DEF Follows
<1>7. q.gives \in Id \cup {None}
  BY <1>1 DEF Hand
<1>8. TypeOK'
  BY <1>0, <1>1, <1>2, <1>3, <1>6, <1>7 DEF IdentityInv, TypeOK, StoreTypeOK, tables
<1>9. JarsAtHome'
  BY <1>0, <1>1, <1>2, <1>4 DEF IdentityInv, JarsAtHome
<1>10. RowsAtHome' /\ AttributedAtHome'
  BY <1>0 DEF tables, IdentityInv, RowsAtHome, AttributedAtHome, HasVisitor, HasSession
<1>11. ErasedMeansErased'
  BY <1>0, <1>5, IdleHand DEF tables, IdentityInv, ErasedMeansErased, At, HasVisitor
<1>12. RetiredAreGone'
  <2> SUFFICES ASSUME NEW i \in retired'
               PROVE  /\ home[i] # None
                      /\ \A x \in Browser : jar'[x].vid # i /\ jar'[x].sid # i
                      /\ \A y \in Request : i \notin Carried(hand'[y])
                      /\ i \in Visitor => ~HasVisitor(i)
    BY <1>0 DEF RetiredAreGone, HasVisitor, tables
  <2>1. CASE i \in retired
    <3>1. /\ home[i] # None /\ (i \in Visitor => ~HasVisitor(i)) /\ i \notin Carried(q)
          /\ \A x \in Browser : jar[x].vid # i /\ jar[x].sid # i
          /\ \A y \in Request : i \notin Carried(hand[y])
      BY <2>1 DEF IdentityInv, RetiredAreGone
    <3>2. i # None
      BY <2>1, StoreAssumption DEF IdentityInv, TypeOK, Id
    <3>3. i # q.vid /\ i # q.sid
      BY <3>1, <3>2 DEF Carried
    <3>4. \A x \in Browser : jar'[x].vid # i /\ jar'[x].sid # i
      BY <1>2, <1>4, <3>1, <3>2, <3>3
    <3> QED BY <1>6, <3>1, <3>4
  <2>2. CASE i \notin retired
    <3>1. i = q.gives /\ q.gives # None /\ q.alone /\ (q.op = "revoke" => q.ok)
      BY <1>0, <2>2
    <3>2. home[i] = b /\ home[i] # None
      BY <1>1, <3>1, HouseholdAssumption DEF IdentityInv, HandsAtHome, Carried
    <3>3. \A y \in Request : i \notin Carried(hand'[y])
      BY <1>5, <3>1, IdleHand DEF IdentityInv, AloneMeansAlone
    <3>4. \A x \in Browser : x # b => jar'[x].vid # i /\ jar'[x].sid # i
      BY <1>4, <3>1, <3>2 DEF IdentityInv, JarsAtHome
    <3>5. CASE q.op = "revoke"
      <4>1. ~HasVisitor(i)
        BY <1>0, <3>1, <3>5 DEF IdentityInv, ErasedMeansErased, At
      <4> QED BY <1>2, <1>4, <3>1, <3>2, <3>3, <3>4, <3>5, <4>1
    <3>6. CASE q.op = "start"
      <4>1. i \in Session /\ i # q.sid /\ i \notin Visitor
        BY <1>1, <3>1, <3>6, StoreAssumption DEF GivesUp
      <4>2. j.vid \in Visitor \cup {None} /\ i # None
        BY <1>2, <3>1 DEF Jar
      <4>3. j.vid # i
        BY <4>1, <4>2
      <4> QED BY <1>2, <1>4, <3>1, <3>2, <3>3, <3>4, <3>6, <4>1, <4>3
    <3> QED BY <1>1, <3>1, <3>5, <3>6 DEF GivesUp
  <2> QED BY <2>1, <2>2
<1> QED BY <1>6, <1>8, <1>9, <1>10, <1>11, <1>12 DEF IdentityInv

\* An answer that is lost retires nothing.
LEMMA IdentityLost ==
    ASSUME IdentityInv, NEW r \in Request, Lost(r), UNCHANGED ran
    PROVE  IdentityInv'
<1>0. hand' = [hand EXCEPT ![r] = Idle] /\ UNCHANGED <<tables, jar, home, sent, retired>>
  BY DEF Lost
<1>1. StoreTypeOK' /\ RowsAtHome' /\ AttributedAtHome'
  BY <1>0 DEF tables, IdentityInv, TypeOK, StoreTypeOK, RowsAtHome, AttributedAtHome, HasVisitor, HasSession
<1>2. \A v \in Visitor : HasVisitor(v)' => HasVisitor(v) \/ v \in Carried(hand[r])
  BY <1>0 DEF tables, HasVisitor
<1> QED BY <1>0, <1>1, <1>2, IdleHand, StatementStep DEF Follows

\* What a browser does alone gives it no id.
LEMMA IdentityBrowser ==
    ASSUME IdentityInv, NEW b \in Browser, Consent(b) \/ SessionEnds(b)
    PROVE  IdentityInv'
<1>1. UNCHANGED <<tables, hand, home, sent, retired, ran>> /\ jar \in [Browser -> Jar]
  BY DEF Consent, SessionEnds, IdentityInv, TypeOK
<1>2. /\ jar' \in [Browser -> Jar]
      /\ \A x \in Browser : jar'[x].vid = jar[x].vid /\ jar'[x].sid \in {jar[x].sid, None}
  <2>1. \A j \in Jar : /\ [j EXCEPT !.consent = TRUE] \in Jar
                        /\ [j EXCEPT !.consent = TRUE].vid = j.vid
                        /\ [j EXCEPT !.consent = TRUE].sid = j.sid
    BY DEF Jar
  <2>2. \A j \in Jar : /\ [j EXCEPT !.sid = None] \in Jar
                        /\ [j EXCEPT !.sid = None].vid = j.vid
                        /\ [j EXCEPT !.sid = None].sid = None
    BY DEF Jar
  <2>3. CASE Consent(b)
    <3>1. jar' = [jar EXCEPT ![b] = [jar[b] EXCEPT !.consent = TRUE]]
      BY <2>3 DEF Consent
    <3> QED BY <1>1, <2>1, <3>1
  <2>4. CASE SessionEnds(b)
    <3>1. jar' = [jar EXCEPT ![b] = [jar[b] EXCEPT !.sid = None]]
      BY <2>4 DEF SessionEnds
    <3> QED BY <1>1, <2>2, <3>1
  <2> QED BY <2>3, <2>4
<1>3. TypeOK'
  BY <1>1, <1>2 DEF IdentityInv, TypeOK, StoreTypeOK, tables
<1>4. JarsAtHome'
  BY <1>1, <1>2 DEF IdentityInv, JarsAtHome
<1>5. HandsInStep' /\ HandsAtHome' /\ UsersAtHome' /\ AloneMeansAlone' /\ ErasedMeansErased'
  BY <1>1 DEF IdentityInv, HandsInStep, HandsAtHome, UsersAtHome, AloneMeansAlone, ErasedMeansErased, At, HasVisitor, tables
<1>6. RowsAtHome' /\ AttributedAtHome'
  BY <1>1 DEF tables, IdentityInv, RowsAtHome, AttributedAtHome, HasVisitor, HasSession
<1>7. RetiredAreGone'
  <2>1. None \notin retired
    BY StoreAssumption DEF IdentityInv, TypeOK, Id
  <2> QED BY <1>1, <1>2, <2>1 DEF IdentityInv, RetiredAreGone, HasVisitor, tables
<1> QED BY <1>3, <1>4, <1>5, <1>6, <1>7 DEF IdentityInv

\* At the start nobody has an id.
LEMMA IdentityInit == Init => IdentityInv
<1> SUFFICES ASSUME Init PROVE IdentityInv
  OBVIOUS
<1>0. /\ visitors = [v \in Visitor |-> NoVisitor] /\ sessions = [s \in Session |-> NoSession] /\ events = {}
      /\ jar = [b \in Browser |-> [vid |-> None, sid |-> None, consent |-> FALSE]]
      /\ hand = [r \in Request |-> Idle] /\ sent = 0 /\ retired = {} /\ ran = {}
      /\ home = [i \in Id |-> None]
  BY DEF Init, StoreInit
<1>1. NoVisitor \in VisitorRow /\ NoVisitor.count = 0 /\ NoSession \in SessionRow
      /\ NoSession.visitor = None /\ NoSession.user = None
  BY DEF NoVisitor, VisitorRow, NoSession, SessionRow
<1>2. \A b \in Browser : jar[b].vid = None /\ jar[b].sid = None
  BY <1>0
<1>3. jar \in [Browser -> Jar]
  BY <1>0 DEF Jar
<1>4. TypeOK
  <2>1. sent \in 0..MaxSent
    BY <1>0, BoundAssumption
  <2> QED BY <1>0, <1>1, <1>3, <2>1, IdleHand DEF TypeOK, StoreTypeOK
<1>5. \A v \in Visitor : ~HasVisitor(v)
  BY <1>0, <1>1 DEF HasVisitor
<1>6. \A s \in Session : ~HasSession(s) /\ sessions[s].user = None
  BY <1>0, <1>1 DEF HasSession
<1>7. \A r \in Request : hand[r] = Idle
  BY <1>0
<1>8. JarsAtHome
  BY <1>2 DEF JarsAtHome
<1>9. RowsAtHome /\ AttributedAtHome
  BY <1>5, <1>6 DEF RowsAtHome, AttributedAtHome
<1>10. HandsInStep /\ HandsAtHome /\ UsersAtHome /\ AloneMeansAlone
  BY <1>7, IdleHand DEF HandsInStep, HandsAtHome, UsersAtHome, AloneMeansAlone
<1>11. ErasedMeansErased
  BY <1>7, IdleHand DEF ErasedMeansErased
<1>12. RetiredAreGone
  BY <1>0 DEF RetiredAreGone
<1> QED BY <1>4, <1>8, <1>9, <1>10, <1>11, <1>12 DEF IdentityInv

\* A step of nothing.
LEMMA IdentityStutter ==
    ASSUME IdentityInv, UNCHANGED vars
    PROVE  IdentityInv'
<1>1. UNCHANGED <<tables, visitors, sessions, events, jar, hand, home, sent, retired, ran>>
  BY DEF vars, tables
<1>2. TypeOK' /\ RetiredAreGone'
  BY <1>1 DEF IdentityInv, TypeOK, StoreTypeOK, RetiredAreGone, HasVisitor
<1>3. JarsAtHome' /\ HandsInStep' /\ HandsAtHome' /\ UsersAtHome' /\ AloneMeansAlone'
  BY <1>1 DEF IdentityInv, JarsAtHome, HandsInStep, HandsAtHome, UsersAtHome, AloneMeansAlone
<1>4. RowsAtHome' /\ AttributedAtHome' /\ ErasedMeansErased'
  BY <1>1 DEF IdentityInv, RowsAtHome, AttributedAtHome, ErasedMeansErased, At, HasVisitor, HasSession
<1> QED BY <1>2, <1>3, <1>4 DEF IdentityInv

\* Every step keeps the ids at home, and what is given up given up.
LEMMA IdentityStep == IdentityInv /\ [Next]_vars => IdentityInv'
<1> SUFFICES ASSUME IdentityInv, [Next]_vars PROVE IdentityInv'
  OBVIOUS
<1>1. ASSUME NEW b \in Browser, Consent(b) \/ SessionEnds(b) PROVE IdentityInv'
  BY <1>1, IdentityBrowser
<1>2. ASSUME NEW r \in Request, Start(r) PROVE IdentityInv'
  BY <1>2, IdentityStart
<1>3. ASSUME NEW r \in Request, Handle(r), UNCHANGED ran PROVE IdentityInv'
  <2>1. CASE trackEvent(r) \/ identifyVisitor(r) \/ revokeConsent(r) \/ eraseMyData(r)
    BY <1>3, <2>1, IdentitySends
  <2>2. CASE UpsertVisitor(r)
    BY <1>3, <2>2, IdentityUpsertVisitor
  <2>3. CASE UpsertSession(r)
    BY <1>3, <2>3, IdentityUpsertSession
  <2>4. CASE CreateEvent(r)
    BY <1>3, <2>4, IdentityCreateEvent
  <2>5. CASE LinkSessions(r)
    BY <1>3, <2>5, IdentityLinkSessions
  <2>6. CASE Erase(r)
    BY <1>3, <2>6, IdentityErase
  <2>7. CASE StatementFails(r)
    BY <1>3, <2>7, IdentityStatementFails
  <2>8. CASE Delivered(r)
    BY <1>3, <2>8, IdentityDelivered
  <2>9. CASE Lost(r)
    BY <1>3, <2>9, IdentityLost
  <2> QED BY <1>3, <2>1, <2>2, <2>3, <2>4, <2>5, <2>6, <2>7, <2>8, <2>9 DEF Handle
<1>4. CASE UNCHANGED vars
  BY <1>4, IdentityStutter
<1> QED BY <1>1, <1>2, <1>3, <1>4 DEF Next

\* So they stay throughout.
LEMMA IdentityHolds == Spec => []IdentityInv
BY IdentityInit, IdentityStep, PTL DEF Spec

\* Every row, cookie and request stays in its shape, whatever overlaps or is lost.
THEOREM AnalyticsTyped == Spec => []TypeOK
<1>1. IdentityInv => TypeOK
  BY DEF IdentityInv
<1> QED BY <1>1, IdentityHolds, PTL

\* POST /consent/revoke: once answered, having met no other request of the visitor,
\* no row is ever stored under that visitor again and no browser presents it.
THEOREM RevocationIsFinal == Spec => []RevokedStaysErased
<1>1. IdentityInv => RevokedStaysErased
  BY DEF IdentityInv, RetiredAreGone, RevokedStaysErased
<1> QED BY <1>1, IdentityHolds, PTL

\* POST /session with rotate: once answered, having met no other request of the
\* session, no browser is in that session any more.
THEOREM RotationIsFinal == Spec => []RotatedStaysOut
<1>1. IdentityInv => RotatedStaysOut
  BY DEF IdentityInv, RetiredAreGone, RotatedStaysOut
<1> QED BY <1>1, IdentityHolds, PTL

\* upsertSession and linkSessionsToUser give a visit only to a user of its browser.
THEOREM VisitsStayAtHome == Spec => []AttributedAtHome
<1>1. IdentityInv => AttributedAtHome
  BY DEF IdentityInv
<1> QED BY <1>1, IdentityHolds, PTL

-----------------------------------------------------------------------------
(* Counting visits *)

\* The visits due to a row are at least one, and at least those it counts.
LEMMA DueIsPositive ==
    ASSUME TypeOK, NEW v \in Visitor
    PROVE  Due(v) \in Nat /\ Due(v) >= 1 /\ Due(v) >= visitors[v].count /\ visitors[v].count \in Nat
<1>1. visitors[v].count \in Nat
  BY DEF TypeOK, StoreTypeOK, VisitorRow
<1> QED BY <1>1 DEF Due

\* A visit still to be counted ran under its visitor's id.
LEMMA PendingRan ==
    ASSUME CountInv, NEW v \in Visitor
    PROVE  /\ PendingOf(v) \subseteq RanOf(v)
           /\ IsFiniteSet(RanOf(v)) /\ IsFiniteSet(PendingOf(v))
           /\ Cardinality(RanOf(v)) \in Nat /\ Cardinality(PendingOf(v)) \in Nat
<1>1. PendingOf(v) \subseteq RanOf(v) /\ IsFiniteSet(RanOf(v))
  BY DEF CountInv, PendingOf, RanOf
<1> QED BY <1>1, FS_Subset, FS_CardinalityType

\* Without a start: a row's count rises only as a pending visit is counted.
LEMMA CountSettles ==
    ASSUME TypeOK, TypeOK', CountInv, UNCHANGED <<home, ran>>,
           \A y \in Request : Pending(y)' =>
              Pending(y) /\ hand'[y].vid = hand[y].vid /\ hand'[y].sid = hand[y].sid,
           \A v \in Visitor :
              \/ Due(v)' <= Due(v)
              \/ /\ Due(v)' = Due(v) + 1
                 /\ \E r \in Request : Pending(r) /\ ~Pending(r)' /\ hand[r].vid = v /\ hand[r].sid \in Session
    PROVE  CountInv'
<1>1. \A v \in Visitor : RanOf(v)' = RanOf(v)
  BY DEF RanOf
<1>2. ASSUME NEW v \in Visitor, home[v] # None
      PROVE  Due(v)' + Cardinality(PendingOf(v)') <= Cardinality(RanOf(v)')
  <2> DEFINE P == PendingOf(v)
             Q == PendingOf(v)'
             n == Cardinality(RanOf(v))
  <2>1. Due(v) + Cardinality(P) <= n
    BY <1>2 DEF CountInv
  <2>2. Q \subseteq P
    BY DEF PendingOf
  <2>3. IsFiniteSet(P) /\ n \in Nat /\ Cardinality(P) \in Nat /\ Due(v) \in Nat
    BY PendingRan, DueIsPositive
  <2>4. Due(v)' \in Nat
    <3>1. visitors'[v].count \in Nat
      BY DEF TypeOK, StoreTypeOK, VisitorRow
    <3> QED BY <3>1 DEF Due
  <2> HIDE DEF P, Q, n
  <2>5. IsFiniteSet(Q) /\ Cardinality(Q) \in Nat /\ Cardinality(Q) <= Cardinality(P)
    BY <2>2, <2>3, FS_Subset, FS_CardinalityType
  <2>6. CASE Due(v)' <= Due(v)
    <3>1. Due(v)' + Cardinality(Q) <= n
      BY <2>1, <2>3, <2>4, <2>5, <2>6
    <3> QED BY <1>1, <3>1 DEF Q, n
  <2>7. CASE ~(Due(v)' <= Due(v))
    <3>1. PICK r \in Request : Pending(r) /\ ~Pending(r)' /\ hand[r].vid = v /\ hand[r].sid \in Session
      BY <2>7
    <3>2. Due(v)' = Due(v) + 1
      BY <2>7
    <3> DEFINE s == hand[r].sid
    <3>3. s \in P
      BY <3>1 DEF P, PendingOf
    <3>4. s \notin Q
      <4> SUFFICES ASSUME NEW y \in Request, Pending(y)', hand'[y].sid = s PROVE FALSE
        BY DEF Q, PendingOf
      <4>1. Pending(y) /\ hand[y].sid = s /\ y # r
        BY <3>1
      <4> QED BY <3>1, <4>1 DEF CountInv
    <3> HIDE DEF s
    <3>5. Cardinality(P \ {s}) = Cardinality(P) - 1 /\ IsFiniteSet(P \ {s})
      BY <2>3, <3>3, FS_RemoveElement
    <3>6. Q \subseteq P \ {s}
      BY <2>2, <3>4
    <3>7. Cardinality(Q) <= Cardinality(P \ {s})
      BY <3>5, <3>6, FS_Subset
    <3>8. Due(v)' + Cardinality(Q) <= n
      BY <2>1, <2>3, <2>4, <2>5, <3>2, <3>5, <3>7
    <3> QED BY <1>1, <3>8 DEF Q, n
  <2> QED BY <2>6, <2>7
<1>3. /\ \A v \in Visitor, s \in Session : <<v, s>> \in ran' => home'[v] # None /\ home'[s] # None
      /\ \A r \in Request : Pending(r)' => <<hand'[r].vid, hand'[r].sid>> \in ran'
      /\ \A r, y \in Request : r # y /\ Pending(r)' /\ Pending(y)' => hand'[r].sid # hand'[y].sid
  BY DEF CountInv
<1>4. \A v \in Visitor : IsFiniteSet(RanOf(v)')
  BY <1>1 DEF CountInv
<1> QED BY <1>2, <1>3, <1>4 DEF CountInv

\* A request sent is in the hand as it was sent, but for the mark.
LEMMA SentAsIs ==
    ASSUME TypeOK, NEW r \in Request, NEW q \in Hand, Send(r, q), NEW y \in Request
    PROVE  /\ y = r => hand'[y].step = q.step /\ (hand'[y].count <=> q.count)
                       /\ hand'[y].vid = q.vid /\ hand'[y].sid = q.sid
           /\ y # r => hand'[y].step = hand[y].step /\ (hand'[y].count <=> hand[y].count)
                       /\ hand'[y].vid = hand[y].vid /\ hand'[y].sid = hand[y].sid
<1>1. \A h \in Hand : \A a \in BOOLEAN :
         /\ [h EXCEPT !.alone = a].step = h.step /\ ([h EXCEPT !.alone = a].count <=> h.count)
         /\ [h EXCEPT !.alone = a].vid = h.vid /\ [h EXCEPT !.alone = a].sid = h.sid
  BY DEF Hand
<1>2. hand[y] \in Hand /\ hand[y].alone \in BOOLEAN
  BY DEF TypeOK, Hand
<1>3. CASE y = r
  <2> DEFINE a == \A x \in Request : q.gives \notin Carried(hand[x])
  <2>1. hand'[y] = [q EXCEPT !.alone = a] /\ a \in BOOLEAN
    BY <1>3 DEF Send
  <2> HIDE DEF a
  <2> QED BY <1>1, <1>3, <2>1
<1>4. CASE y # r
  <2> DEFINE a == hand[y].alone /\ hand[y].gives \notin Carried(q)
  <2>1. hand'[y] = [hand[y] EXCEPT !.alone = a] /\ a \in BOOLEAN
    BY <1>4 DEF Send
  <2> HIDE DEF a
  <2> QED BY <1>1, <1>2, <1>4, <2>1
<1> QED BY <1>3, <1>4

\* Only POST /session counts a visit.
LEMMA OthersCountNone ==
    ASSUME TypeOK, NEW r \in Request, trackEvent(r) \/ identifyVisitor(r) \/ revokeConsent(r) \/ eraseMyData(r)
    PROVE  \E q \in Hand : ~q.count /\ Send(r, q) /\ UNCHANGED <<tables, home>>
<1>0. /\ \A b \in Browser : Household[b] \subseteq Account
      /\ {"track", "identify", "revoke", "erase"} \subseteq Op /\ {"visitor", "erase", "answer"} \subseteq Step
  BY HouseholdAssumption DEF Op, Step
<1>1. ASSUME NEW b \in Browser, NEW op \in Op, NEW step \in Step, NEW u \in Account \cup {None}
      PROVE  From(b, op, step, u) \in Hand /\ ~From(b, op, step, u).count
  BY <1>1, FromFields
<1>2. CASE trackEvent(r)
  <2>1. PICK b \in Browser, u \in Account \cup {None} :
           Send(r, From(b, "track", "visitor", u)) /\ UNCHANGED <<tables, home>>
    BY <1>0, <1>2 DEF trackEvent
  <2> QED BY <1>0, <1>1, <2>1
<1>3. CASE identifyVisitor(r)
  <2>1. PICK b \in Browser, u \in Account \cup {None} :
           Send(r, From(b, "identify", "visitor", u)) /\ UNCHANGED <<tables, home>>
    BY <1>0, <1>3 DEF identifyVisitor
  <2> QED BY <1>0, <1>1, <2>1
<1>4. CASE revokeConsent(r)
  <2>1. PICK b \in Browser, step \in {"erase", "answer"} :
           Send(r, [From(b, "revoke", step, None) EXCEPT !.gives = jar[b].vid]) /\ UNCHANGED <<tables, home>>
    BY <1>4 DEF revokeConsent
  <2>2. jar[b].vid \in Id \cup {None}
    BY DEF TypeOK, Jar, Id
  <2>3. From(b, "revoke", step, None) \in Hand /\ ~From(b, "revoke", step, None).count
    BY <1>0, <1>1
  <2>4. \A f \in Hand, i \in Id \cup {None} : [f EXCEPT !.gives = i] \in Hand /\ ([f EXCEPT !.gives = i].count <=> f.count)
    BY DEF Hand
  <2> QED BY <2>1, <2>2, <2>3, <2>4
<1>5. CASE eraseMyData(r)
  <2>1. PICK b \in Browser, u \in Account \cup {None} :
           Send(r, From(b, "erase", "erase", u)) /\ UNCHANGED <<tables, home>>
    BY <1>0, <1>5 DEF eraseMyData
  <2> QED BY <1>0, <1>1, <2>1
<1> QED BY <1>2, <1>3, <1>4, <1>5

\* A start adds a session to its visitor's, and a pending visit only if that session is new.
LEMMA StartCounts ==
    ASSUME IdentityInv, CountInv, NEW r \in Request, NEW q \in Hand, Send(r, q),
           q.vid \in Visitor, q.sid \in Session, q.step = "visitor",
           ran' = ran \cup {<<q.vid, q.sid>>}, UNCHANGED tables,
           \A i \in Id : home[i] # None => home'[i] = home[i],
           home'[q.vid] # None, home'[q.sid] # None,
           \A i \in Id : i \notin {q.vid, q.sid} => home'[i] = home[i],
           q.count => home[q.vid] # None /\ home[q.sid] = None,
           TypeOK'
    PROVE  CountInv'
<1> DEFINE v == q.vid
           s == q.sid
<1>0. TypeOK /\ v \in Visitor /\ s \in Session /\ v \in Id /\ s \in Id
  BY DEF IdentityInv, Id
<1>1. \A y \in Request :
         /\ y = r => (Pending(y)' <=> q.count) /\ hand'[y].vid = v /\ hand'[y].sid = s
         /\ y # r => (Pending(y)' <=> Pending(y)) /\ hand'[y].vid = hand[y].vid /\ hand'[y].sid = hand[y].sid
  BY <1>0, SentAsIs DEF Pending
<1>2. ~Pending(r)
  BY IdleHand DEF Send, Pending
<1>3. \A y \in Request : Pending(y) => home[hand[y].sid] # None
  <2> SUFFICES ASSUME NEW y \in Request, Pending(y) PROVE home[hand[y].sid] # None
    OBVIOUS
  <2>1. hand[y].step = "visitor" /\ hand[y].count
    BY DEF Pending
  <2>2. InStep(hand[y]) /\ hand[y].browser \in Browser /\ (hand[y].sid # None => home[hand[y].sid] = hand[y].browser)
    BY <2>1, InHand
  <2> QED BY <2>1, <2>2, HouseholdAssumption DEF InStep
<1>4. \A x \in Visitor : Due(x)' = Due(x)
  BY DEF Due, tables
<1>5. \A x \in Visitor : RanOf(x)' = IF x = v THEN RanOf(x) \cup {s} ELSE RanOf(x)
  BY <1>0 DEF RanOf
<1>6. \A x \in Visitor, t \in Session : <<x, t>> \in ran' => home'[x] # None /\ home'[t] # None
  <2> SUFFICES ASSUME NEW x \in Visitor, NEW t \in Session, <<x, t>> \in ran'
               PROVE  home'[x] # None /\ home'[t] # None
    OBVIOUS
  <2>1. CASE <<x, t>> \in ran
    BY <2>1 DEF CountInv, Id
  <2>2. CASE x = v /\ t = s
    BY <2>2
  <2> QED BY <2>1, <2>2
<1>7. \A y \in Request : Pending(y)' => <<hand'[y].vid, hand'[y].sid>> \in ran'
  BY <1>1 DEF CountInv
<1>8. \A x, y \in Request : x # y /\ Pending(x)' /\ Pending(y)' => hand'[x].sid # hand'[y].sid
  BY <1>1, <1>3 DEF CountInv
<1>9. \A x \in Visitor : IsFiniteSet(RanOf(x)')
  <2>1. \A x \in Visitor : IsFiniteSet(RanOf(x)) /\ IsFiniteSet(RanOf(x) \cup {s})
    BY PendingRan, FS_AddElement
  <2> QED BY <1>5, <2>1
<1>10. ASSUME NEW x \in Visitor, home'[x] # None
       PROVE  Due(x)' + Cardinality(PendingOf(x)') <= Cardinality(RanOf(x)')
  <2> DEFINE P == PendingOf(x)
             Q == PendingOf(x)'
             R == RanOf(x)
             T == RanOf(x)'
  <2>1. /\ P \subseteq R /\ IsFiniteSet(R) /\ IsFiniteSet(P) /\ Cardinality(R) \in Nat /\ Cardinality(P) \in Nat
        /\ Due(x) \in Nat
    BY <1>0, PendingRan, DueIsPositive
  <2>2. home[x] # None => Due(x) + Cardinality(P) <= Cardinality(R)
    BY DEF CountInv
  <2>3. x # v \/ ~q.count => Q = P
    BY <1>1, <1>2 DEF PendingOf
  <2>4. x = v /\ q.count => Q = P \cup {s}
    BY <1>0, <1>1, <1>2 DEF PendingOf
  <2>5. T = IF x = v THEN R \cup {s} ELSE R
    BY <1>5
  <2>6. home[s] = None => s \notin R
    BY <1>0 DEF CountInv, RanOf
  <2>7. home[x] = None => R = {} /\ Due(x) = 1
    <3> HAVE home[x] = None
    <3>1. R = {}
      BY DEF CountInv, RanOf
    <3>2. ~(visitors[x].count > 0)
      BY DEF IdentityInv, RowsAtHome, HasVisitor
    <3>3. visitors[x].count = 0
      BY <1>0, <3>2, DueIsPositive
    <3> QED BY <3>1, <3>3 DEF Due
  <2>8. x # v => home[x] # None
    BY <1>0, <1>10, StoreAssumption DEF Id
  <2>12. q.count => home[v] # None /\ home[s] = None
    OBVIOUS
  <2> HIDE DEF P, Q, R, T, s, v
  <2>9. /\ IsFiniteSet(R \cup {s}) /\ Cardinality(R \cup {s}) \in Nat
        /\ Cardinality(R \cup {s}) = IF s \in R THEN Cardinality(R) ELSE Cardinality(R) + 1
    BY <2>1, FS_AddElement, FS_CardinalityType
  <2>10. Cardinality(P \cup {s}) \in Nat /\ Cardinality(P \cup {s}) <= Cardinality(P) + 1
    <3>1. Cardinality(P \cup {s}) = IF s \in P THEN Cardinality(P) ELSE Cardinality(P) + 1
      BY <2>1, FS_AddElement
    <3> QED BY <2>1, <3>1
  <2>11. Due(x) + Cardinality(Q) <= Cardinality(T)
    <3>1. CASE x # v
      BY <2>2, <2>3, <2>5, <2>8, <3>1
    <3>2. CASE x = v /\ q.count
      <4>1. home[x] # None /\ s \notin R
        BY <2>6, <2>12, <3>2
      <4>2. Q = P \cup {s} /\ T = R \cup {s}
        BY <2>4, <2>5, <3>2
      <4>3. Due(x) + Cardinality(P) <= Cardinality(R) /\ Cardinality(R \cup {s}) = Cardinality(R) + 1
        BY <2>2, <2>9, <4>1
      <4> QED BY <2>1, <2>10, <4>2, <4>3
    <3>3. CASE x = v /\ ~q.count /\ home[x] # None
      BY <2>1, <2>2, <2>3, <2>5, <2>9, <3>3
    <3>4. CASE x = v /\ ~q.count /\ home[x] = None
      <4>1. R = {} /\ P = {} /\ Due(x) = 1
        BY <2>1, <2>7, <3>4
      <4>2. Cardinality(P) = 0 /\ Cardinality(R) = 0 /\ s \notin R
        BY <4>1, FS_EmptySet
      <4>3. Q = P /\ T = R \cup {s}
        BY <2>3, <2>5, <3>4
      <4>4. Cardinality(R \cup {s}) = 1
        BY <2>9, <4>2
      <4> QED BY <4>1, <4>2, <4>3, <4>4
    <3> QED BY <3>1, <3>2, <3>3, <3>4
  <2> QED BY <1>4, <2>11 DEF Q, T
<1> QED BY <1>6, <1>7, <1>8, <1>9, <1>10 DEF CountInv

\* A start that will count a visit brings a session of its own for it.
LEMMA CountStart ==
    ASSUME IdentityInv, CountInv, NEW r \in Request, Start(r)
    PROVE  CountInv'
<1>0. PICK b \in Browser, rotate \in BOOLEAN : \E u \in Household[b] \cup {None} :
         /\ jar[b].consent
         /\ \E id \in resolveIdentity(b, rotate) :
               /\ Send(r, StartHand(b, rotate, u, id))
               /\ home' = [i \in Id |-> IF i \in {id.vid, id.sid} THEN b ELSE home[i]]
         /\ UNCHANGED <<tables, jar, retired>>
  BY DEF Start, startSession, StartHand
<1>1. PICK u \in Household[b] \cup {None} :
         /\ \E id \in resolveIdentity(b, rotate) :
               /\ Send(r, StartHand(b, rotate, u, id))
               /\ home' = [i \in Id |-> IF i \in {id.vid, id.sid} THEN b ELSE home[i]]
         /\ UNCHANGED <<tables, jar, retired>>
  BY <1>0
<1>2. PICK id \in resolveIdentity(b, rotate) :
         /\ Send(r, StartHand(b, rotate, u, id))
         /\ home' = [i \in Id |-> IF i \in {id.vid, id.sid} THEN b ELSE home[i]]
  BY <1>1
<1> DEFINE q == StartHand(b, rotate, u, id)
<1>3. /\ q \in Hand /\ q.step = "visitor" /\ q.vid = id.vid /\ q.sid = id.sid
      /\ (q.count <=> countNewSession(b, rotate))
  <2>1. q = StartHand(b, rotate, u, id)
    OBVIOUS
  <2> HIDE DEF q
  <2> QED BY <1>1, <2>1, StartFields DEF Proper
<1>4. Send(r, q)
  BY <1>2
<1> HIDE DEF q
<1>5. /\ id.vid \in Visitor /\ id.sid \in Session
      /\ jar[b].vid # None => home[id.vid] = b
      /\ jar[b].sid = None \/ rotate => home[id.sid] = None
  BY Resolved
<1>6. q.count => home[q.vid] # None /\ home[q.sid] = None
  BY <1>3, <1>5, HouseholdAssumption DEF countNewSession
<1>7. /\ \A i \in Id : home[i] # None => home'[i] = home[i]
      /\ \A i \in Id : i \notin {q.vid, q.sid} => home'[i] = home[i]
      /\ home'[q.vid] # None /\ home'[q.sid] # None
  <2>1. id.sid # None
    BY <1>5, StoreAssumption
  <2> QED BY <1>2, <1>3, <2>1, StartHomes, HouseholdAssumption
<1>8. TypeOK /\ TypeOK'
  BY IdentityStart DEF IdentityInv
<1>9. ran' = ran \cup {<<q.vid, q.sid>>}
  <2>1. hand'[r].vid = q.vid /\ hand'[r].sid = q.sid
    BY <1>3, <1>4, <1>8, SentAsIs
  <2> QED BY <2>1 DEF Start
<1>10. UNCHANGED tables
  BY <1>1
<1> QED BY <1>3, <1>4, <1>5, <1>6, <1>7, <1>8, <1>9, <1>10, StartCounts

\* A statement or an answer of one request: the others stand still.
LEMMA OneMoves ==
    ASSUME IdentityInv, IdentityInv', CountInv, NEW r \in Request, NEW h,
           hand' = [hand EXCEPT ![r] = h], h.step # "visitor" \/ ~h.count, UNCHANGED <<home, ran>>,
           \A v \in Visitor : \/ Due(v)' <= Due(v)
                              \/ Due(v)' = Due(v) + 1 /\ Pending(r) /\ hand[r].vid = v
    PROVE  CountInv'
<1>0. TypeOK /\ TypeOK' /\ hand \in [Request -> Hand]
  BY DEF IdentityInv, TypeOK
<1>1. hand'[r] = h /\ \A y \in Request : y # r => hand'[y] = hand[y]
  BY <1>0
<1>2. ~Pending(r)'
  BY <1>1 DEF Pending
<1>3. \A y \in Request : Pending(y)' => Pending(y) /\ hand'[y].vid = hand[y].vid /\ hand'[y].sid = hand[y].sid
  BY <1>1, <1>2 DEF Pending
<1>4. Pending(r) => hand[r].sid \in Session
  <2>1. Pending(r) => hand[r].step = "visitor" /\ hand[r].count
    BY DEF Pending
  <2> QED BY <2>1, InHand DEF InStep
<1>5. \A v \in Visitor :
         \/ Due(v)' <= Due(v)
         \/ /\ Due(v)' = Due(v) + 1
            /\ \E y \in Request : Pending(y) /\ ~Pending(y)' /\ hand[y].vid = v /\ hand[y].sid \in Session
  BY <1>2, <1>4
<1> QED BY <1>0, <1>3, <1>5, CountSettles

\* Counting a visit uses up the session that earned it.
LEMMA CountUpsertVisitor ==
    ASSUME IdentityInv, IdentityInv', CountInv, NEW r \in Request, UpsertVisitor(r), UNCHANGED ran
    PROVE  CountInv'
<1> DEFINE q == hand[r]
           step == IF q.op = "identify" THEN "link" ELSE "session"
           h == [q EXCEPT !.step = step]
<1>0. q.step = "visitor" /\ upsertVisitor(q.vid, q.user, q.count) /\ hand' = [hand EXCEPT ![r] = h] /\ home' = home
  BY DEF UpsertVisitor, Go
<1>1. q \in Hand /\ q.vid \in Visitor
  BY <1>0, InHand DEF InStep
<1>2. h.step # "visitor"
  BY <1>1 DEF Hand
<1>3. TypeOK
  BY DEF IdentityInv
<1>4. \A v \in Visitor : \/ Due(v)' <= Due(v)
                         \/ Due(v)' = Due(v) + 1 /\ Pending(r) /\ hand[r].vid = v
  <2> SUFFICES ASSUME NEW v \in Visitor
               PROVE  \/ Due(v)' <= Due(v)
                      \/ Due(v)' = Due(v) + 1 /\ Pending(r) /\ hand[r].vid = v
    OBVIOUS
  <2>1. visitors[v].count \in Nat /\ visitors \in [Visitor -> VisitorRow] /\ Due(v) \in Nat
    BY <1>3, DueIsPositive DEF TypeOK, StoreTypeOK
  <2>2. CASE v # q.vid
    <3>1. visitors'[v] = visitors[v]
      BY <1>0, <2>1, <2>2 DEF upsertVisitor
    <3>2. Due(v)' = Due(v)
      BY <3>1 DEF Due
    <3> QED BY <2>1, <3>2
  <2>3. CASE v = q.vid
    <3>1. visitors'[v].count = IF HasVisitor(v) /\ ~q.count THEN visitors[v].count ELSE visitors[v].count + 1
      BY <1>0, <2>1, <2>3 DEF upsertVisitor
    <3>2. CASE visitors[v].count = 0
      BY <3>1, <3>2 DEF Due, HasVisitor
    <3>3. CASE visitors[v].count # 0 /\ ~q.count
      BY <2>1, <3>1, <3>3 DEF Due, HasVisitor
    <3>4. CASE visitors[v].count # 0 /\ q.count
      <4>1. Due(v)' = Due(v) + 1
        BY <2>1, <3>1, <3>4 DEF Due
      <4> QED BY <1>0, <2>3, <3>4, <4>1 DEF Pending
    <3> QED BY <3>2, <3>3, <3>4
  <2> QED BY <2>2, <2>3
<1> HIDE DEF h, step
<1> QED BY <1>0, <1>2, <1>4, OneMoves

\* What Done leaves is past its visit.
LEMMA DoneIsPast ==
    ASSUME IdentityInv, NEW r \in Request, hand[r].step # "idle", NEW fine \in BOOLEAN
    PROVE  Left(hand[r], fine).step # "visitor"
BY InHand, Leaving

\* Every other statement leaves the counts alone, or deletes them.
LEMMA CountStatement ==
    ASSUME IdentityInv, IdentityInv', CountInv, NEW r \in Request,
           UpsertSession(r) \/ CreateEvent(r) \/ LinkSessions(r) \/ Erase(r) \/ StatementFails(r), UNCHANGED ran
    PROVE  CountInv'
<1>0. TypeOK /\ hand[r].step # "idle" /\ home' = home
  BY DEF IdentityInv, UpsertSession, CreateEvent, LinkSessions, Erase, StatementFails
<1>1. hand[r] \in Hand /\ InStep(hand[r])
  BY <1>0, InHand
<1>2. \A v \in Visitor : Due(v)' <= Due(v)
  <2>1. CASE UNCHANGED visitors
    BY <1>0, <2>1, DueIsPositive DEF Due
  <2>2. CASE Erase(r)
    <3>1. \A v \in Visitor : visitors'[v] = NoVisitor \/ visitors'[v] = visitors[v]
      BY <2>2 DEF Erase, deleteVisitorData, deleteDataForUser, Cascade
    <3>2. NoVisitor.count = 0
      BY DEF NoVisitor
    <3> QED BY <1>0, <3>1, <3>2, DueIsPositive DEF Due
  <2>3. UNCHANGED visitors \/ Erase(r)
    BY DEF UpsertSession, upsertSession, CreateEvent, createEvent, LinkSessions, linkSessionsToUser, StatementFails, tables
  <2> QED BY <2>1, <2>2, <2>3
<1>3. \E h : hand' = [hand EXCEPT ![r] = h] /\ (h.step # "visitor" \/ ~h.count)
  <2>1. \A fine \in BOOLEAN : Done(r, fine) =>
           hand' = [hand EXCEPT ![r] = Left(hand[r], fine)] /\ Left(hand[r], fine).step # "visitor"
    BY <1>0, DoneIsPast DEF Done, Left
  <2>2. \A step \in Step : Go(r, step) =>
           /\ hand' = [hand EXCEPT ![r] = [hand[r] EXCEPT !.step = step]]
           /\ [hand[r] EXCEPT !.step = step].step = step
           /\ [hand[r] EXCEPT !.step = step].count <=> hand[r].count
    BY <1>1 DEF Go, Hand
  <2>3. CASE Done(r, TRUE) \/ Done(r, FALSE)
    BY <2>1, <2>3
  <2>4. CASE Go(r, "event")
    BY <2>2, <2>4 DEF Step
  <2>5. CASE CreateEvent(r) /\ Go(r, "visitor")
    <3>1. ~hand[r].count
      BY <1>1, <2>5 DEF CreateEvent, InStep
    <3> QED BY <2>2, <2>5, <3>1 DEF Step
  <2>6. Done(r, TRUE) \/ Done(r, FALSE) \/ Go(r, "event") \/ (CreateEvent(r) /\ Go(r, "visitor"))
    BY DEF UpsertSession, CreateEvent, LinkSessions, Erase, StatementFails
  <2> QED BY <2>3, <2>4, <2>5, <2>6
<1> QED BY <1>0, <1>2, <1>3, OneMoves

\* Answering earns and counts nothing.
LEMMA CountAnswer ==
    ASSUME IdentityInv, IdentityInv', CountInv, NEW r \in Request, Delivered(r) \/ Lost(r), UNCHANGED ran
    PROVE  CountInv'
<1>0. TypeOK /\ hand' = [hand EXCEPT ![r] = Idle] /\ UNCHANGED <<visitors, home>>
  BY DEF IdentityInv, Delivered, Lost, tables
<1>1. \A v \in Visitor : Due(v)' <= Due(v)
  BY <1>0, DueIsPositive DEF Due
<1> QED BY <1>0, <1>1, IdleHand, OneMoves

\* Requests that count no visit, and what browsers do by themselves.
LEMMA CountSends ==
    ASSUME IdentityInv, IdentityInv', CountInv, NEW r \in Request,
           trackEvent(r) \/ identifyVisitor(r) \/ revokeConsent(r) \/ eraseMyData(r), UNCHANGED ran
    PROVE  CountInv'
<1>0. TypeOK /\ TypeOK'
  BY DEF IdentityInv
<1>1. PICK q \in Hand : ~q.count /\ Send(r, q) /\ UNCHANGED <<tables, home>>
  BY <1>0, OthersCountNone
<1>2. \A y \in Request : Pending(y)' => Pending(y) /\ hand'[y].vid = hand[y].vid /\ hand'[y].sid = hand[y].sid
  BY <1>0, <1>1, SentAsIs DEF Pending
<1>3. \A v \in Visitor : Due(v)' <= Due(v)
  BY <1>0, <1>1, DueIsPositive DEF Due, tables
<1> QED BY <1>0, <1>1, <1>2, <1>3, CountSettles

\* Nor does a step that touches neither rows, requests nor sessions that ran.
LEMMA CountUnmoved ==
    ASSUME IdentityInv, IdentityInv', CountInv, UNCHANGED <<tables, hand, home, ran>>
    PROVE  CountInv'
<1>0. TypeOK /\ TypeOK'
  BY DEF IdentityInv
<1>1. \A v \in Visitor : Due(v)' <= Due(v)
  BY <1>0, DueIsPositive DEF Due, tables
<1>2. \A y \in Request : Pending(y)' => Pending(y) /\ hand'[y].vid = hand[y].vid /\ hand'[y].sid = hand[y].sid
  BY DEF Pending
<1> QED BY <1>0, <1>1, <1>2, CountSettles

\* At the start nothing is counted.
LEMMA CountInit == Init => CountInv
<1> SUFFICES ASSUME Init PROVE CountInv
  OBVIOUS
<1>0. ran = {} /\ (\A r \in Request : ~Pending(r)) /\ \A i \in Id : home[i] = None
  BY IdleHand DEF Init, Pending
<1>1. \A v \in Visitor : RanOf(v) = {} /\ home[v] = None
  BY <1>0 DEF RanOf, Id
<1>2. \A v \in Visitor : IsFiniteSet(RanOf(v))
  BY <1>1, FS_EmptySet
<1> QED BY <1>0, <1>1, <1>2 DEF CountInv

\* Every step keeps the counted visits within those that were earned.
LEMMA CountStep == IdentityInv /\ IdentityInv' /\ CountInv /\ [Next]_vars => CountInv'
<1> SUFFICES ASSUME IdentityInv, IdentityInv', CountInv, [Next]_vars PROVE CountInv'
  OBVIOUS
<1>1. ASSUME NEW b \in Browser, Consent(b) \/ SessionEnds(b) PROVE CountInv'
  <2>1. UNCHANGED <<tables, hand, home, ran>>
    BY <1>1 DEF Consent, SessionEnds
  <2> QED BY <2>1, CountUnmoved
<1>2. ASSUME NEW r \in Request, Start(r) PROVE CountInv'
  BY <1>2, CountStart
<1>3. ASSUME NEW r \in Request, Handle(r), UNCHANGED ran PROVE CountInv'
  <2>1. CASE trackEvent(r) \/ identifyVisitor(r) \/ revokeConsent(r) \/ eraseMyData(r)
    BY <1>3, <2>1, CountSends
  <2>2. CASE UpsertVisitor(r)
    BY <1>3, <2>2, CountUpsertVisitor
  <2>3. CASE UpsertSession(r) \/ CreateEvent(r) \/ LinkSessions(r) \/ Erase(r) \/ StatementFails(r)
    BY <1>3, <2>3, CountStatement
  <2>4. CASE Delivered(r) \/ Lost(r)
    BY <1>3, <2>4, CountAnswer
  <2> QED BY <1>3, <2>1, <2>2, <2>3, <2>4 DEF Handle
<1>4. CASE UNCHANGED vars
  <2>1. UNCHANGED <<tables, hand, home, ran>>
    BY <1>4 DEF vars
  <2> QED BY <2>1, CountUnmoved
<1> QED BY <1>1, <1>2, <1>3, <1>4 DEF Next

\* upsertVisitor counts: whatever fails, is lost or overlaps, no visitor's sessionCount
\* is above the sessions POST /session ran under the visitor's id.
THEOREM CountsAreEarned == Spec => []VisitsAreNotOvercounted
<1>1. AnalyticsInv => VisitsAreNotOvercounted
  <2> SUFFICES ASSUME AnalyticsInv, NEW v \in Visitor PROVE visitors[v].count <= Cardinality(RanOf(v))
    BY DEF VisitsAreNotOvercounted, RanOf
  <2>1. TypeOK /\ CountInv
    BY DEF AnalyticsInv, IdentityInv
  <2>2. /\ Due(v) \in Nat /\ Due(v) >= visitors[v].count /\ visitors[v].count \in Nat
        /\ Cardinality(RanOf(v)) \in Nat /\ Cardinality(PendingOf(v)) \in Nat
    BY <2>1, DueIsPositive, PendingRan
  <2>3. CASE home[v] # None
    <3>1. Due(v) + Cardinality(PendingOf(v)) <= Cardinality(RanOf(v))
      BY <2>1, <2>3 DEF CountInv
    <3> QED BY <2>2, <3>1
  <2>4. CASE home[v] = None
    <3>1. ~(visitors[v].count > 0)
      BY <2>4 DEF AnalyticsInv, IdentityInv, RowsAtHome, HasVisitor
    <3> QED BY <2>2, <3>1
  <2> QED BY <2>3, <2>4
<1>2. Init => AnalyticsInv
  BY IdentityInit, CountInit DEF AnalyticsInv
<1>3. AnalyticsInv /\ [Next]_vars => AnalyticsInv'
  BY IdentityStep, CountStep DEF AnalyticsInv
<1> QED BY <1>1, <1>2, <1>3, PTL DEF Spec
================================================================================
