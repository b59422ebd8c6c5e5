--------------------------- MODULE AnalyticsRequests ---------------------------
(***************************************************************************)
(* The ingestion routes of /analytics.  A request carries the cookies its  *)
(* browser had when it was sent; each statement the handler awaits is a    *)
(* step; the response sets or clears cookies when it reaches the browser.  *)
(* A request the route discards (no consent, no identity) changes nothing  *)
(* and is left out.                                                        *)
(***************************************************************************)
EXTENDS AnalyticsStore

CONSTANTS
    Browser,
    Household,\* [Browser -> SUBSET Account]: the people who use a browser
    Request,  \* requests between a browser and the API at a time
    MaxSent   \* bound on the requests of a behaviour

ASSUME HouseholdAssumption ==
    /\ Household \in [Browser -> SUBSET Account]
    /\ None \notin Browser

ASSUME BoundAssumption == MaxSent \in Nat

VARIABLES
    jar,       \* [Browser -> Jar]: its cookies
    hand,      \* [Request -> Hand]
    home,      \* [Id -> Browser]: whom resolveIdentity minted an id for
    sent,      \* requests so far, up to MaxSent
    retired    \* ids a browser gave up in a request that met no other (not the program's)

Id == Visitor \cup Session

Jar == [vid: Visitor \cup {None}, sid: Session \cup {None}, consent: BOOLEAN]
Op == {"start", "track", "identify", "revoke", "erase"}
Step == {"idle", "visitor", "session", "event", "link", "erase", "answer"}

\* gives is the id the browser gives up with this request, alone that no other
\* request carried it meanwhile, ok that the request's writes succeeded.
Hand == [op: Op \cup {"none"}, step: Step, browser: Browser \cup {None},
         vid: Visitor \cup {None}, sid: Session \cup {None}, user: Account \cup {None},
         count: BOOLEAN, gives: Id \cup {None}, alone: BOOLEAN, ok: BOOLEAN]
Idle == [op |-> "none", step |-> "idle", browser |-> None, vid |-> None, sid |-> None,
         user |-> None, count |-> FALSE, gives |-> None, alone |-> TRUE, ok |-> TRUE]

At(r, op, step) == hand[r].op = op /\ hand[r].step = step
Carried(q) == {q.vid, q.sid, q.gives} \ {None}

\* r sends q, with the identity plugin's reading of the cookies.
Send(r, q) ==
    /\ hand[r] = Idle
    /\ sent < MaxSent
    /\ sent' = sent + 1
    /\ hand' = [x \in Request |->
          IF x = r
          THEN [q EXCEPT !.alone = \A y \in Request : q.gives \notin Carried(hand[y])]
          ELSE [hand[x] EXCEPT !.alone = @ /\ hand[x].gives \notin Carried(q)]]

Go(r, step) == hand' = [hand EXCEPT ![r].step = step]

\* The writes are done: what only they needed is forgotten, and an answer that
\* changes no cookie is not waited for.
Done(r, fine) ==
    hand' = [hand EXCEPT ![r] =
               IF @.op = "identify" \/ (@.op = "erase" /\ ~fine) THEN Idle
               ELSE [@ EXCEPT !.step = "answer", !.ok = fine, !.user = None, !.count = FALSE]]

\* Whoever is logged in, the page sends that person's JWT, or none.
From(b, op, step, u) ==
    [Idle EXCEPT !.op = op, !.step = step, !.browser = b, !.vid = jar[b].vid,
                 !.sid = jar[b].sid, !.user = u]

-----------------------------------------------------------------------------
(* POST /session *)

\* Random ids are as good as the next ones.
Fresh(ids) == {i \in ids : home[i] = None /\ \A j \in ids : home[j] = None => i <= j}

\* Mutant: a rotation is answered with the session it was to leave.
resolveWithoutRotation(b, rotate) ==
    [vid: IF jar[b].vid = None THEN Fresh(Visitor) ELSE {jar[b].vid},
     sid: IF jar[b].sid = None THEN Fresh(Session) ELSE {jar[b].sid}]

\* The ids the visit runs under: the cookies', or new ones.
resolveIdentity(b, rotate) ==
    [vid: IF jar[b].vid = None THEN Fresh(Visitor) ELSE {jar[b].vid},
     sid: IF jar[b].sid = None \/ rotate THEN Fresh(Session) ELSE {jar[b].sid}]

\* Mutant: every start counts.
countEvery(b, rotate) == TRUE

\* A returning visitor in a new session.
countNewSession(b, rotate) == jar[b].vid # None /\ (jar[b].sid = None \/ rotate)

startSession(r) ==
    \E b \in Browser, rotate \in BOOLEAN : \E u \in Household[b] \cup {None} :
       /\ jar[b].consent
       /\ \E id \in resolveIdentity(b, rotate) :
             /\ Send(r, [From(b, "start", "visitor", u) EXCEPT
                           !.vid = id.vid, !.sid = id.sid,
                           !.count = countNewSession(b, rotate),
                           !.gives = IF rotate THEN jar[b].sid ELSE None])
             /\ home' = [i \in Id |-> IF i \in {id.vid, id.sid} THEN b ELSE home[i]]
       /\ UNCHANGED <<tables, jar, retired>>

-----------------------------------------------------------------------------
(* POST /events and POST /identify *)

trackEvent(r) ==
    \E b \in Browser : \E u \in Household[b] \cup {None} :
       /\ jar[b].consent /\ jar[b].vid # None /\ jar[b].sid # None
       /\ Send(r, From(b, "track", "visitor", u))
       /\ UNCHANGED <<tables, jar, home, retired>>

identifyVisitor(r) ==
    \E b \in Browser : \E u \in Household[b] :
       /\ jar[b].consent /\ jar[b].vid # None
       /\ Send(r, From(b, "identify", "visitor", u))
       /\ UNCHANGED <<tables, jar, home, retired>>

UpsertVisitor(r) ==
    /\ hand[r].step = "visitor"
    /\ upsertVisitor(hand[r].vid, hand[r].user, hand[r].count)
    /\ Go(r, IF hand[r].op = "identify" THEN "link" ELSE "session")
    /\ UNCHANGED <<jar, home, sent, retired>>

UpsertSession(r) ==
    /\ hand[r].step = "session"
    /\ upsertSession(hand[r].sid, hand[r].vid, hand[r].user)
    /\ IF hand[r].op = "track" THEN Go(r, "event") ELSE Done(r, TRUE)
    /\ UNCHANGED <<jar, home, sent, retired>>

\* The batch's next event starts over with the visitor.
CreateEvent(r) ==
    /\ hand[r].step = "event"
    /\ createEvent(hand[r].sid)
    /\ Go(r, "visitor") \/ Done(r, TRUE)
    /\ UNCHANGED <<jar, home, sent, retired>>

\* ANALYTICS_BACKFILL_IDENTITY is the deployment's, and a deployment may change it.
LinkSessions(r) ==
    /\ hand[r].step = "link"
    /\ \E backfill \in BOOLEAN :
          linkSessionsToUser(hand[r].vid, hand[r].sid, hand[r].user, backfill)
    /\ Done(r, TRUE)
    /\ UNCHANGED <<jar, home, sent, retired>>

-----------------------------------------------------------------------------
(* POST /consent/revoke and DELETE /me *)

revokeConsent(r) ==
    \E b \in Browser :
       /\ Send(r, [From(b, "revoke", IF jar[b].vid = None THEN "answer" ELSE "erase", None)
                     EXCEPT !.gives = jar[b].vid])
       /\ UNCHANGED <<tables, jar, home, retired>>

eraseMyData(r) ==
    \E b \in Browser : \E u \in Household[b] :
       /\ Send(r, From(b, "erase", "erase", u))
       /\ UNCHANGED <<tables, jar, home, retired>>

Erase(r) ==
    /\ hand[r].step = "erase"
    /\ IF hand[r].op = "revoke" THEN deleteVisitorData(hand[r].vid)
                                ELSE deleteDataForUser(hand[r].user)
    /\ Done(r, TRUE)
    /\ UNCHANGED <<jar, home, sent, retired>>

-----------------------------------------------------------------------------
(* Answers *)

\* A statement fails, a foreign key's refusal included: the handler stops there.
StatementFails(r) ==
    /\ hand[r].step \notin {"idle", "answer"}
    /\ Done(r, FALSE)
    /\ UNCHANGED <<tables, jar, home, sent, retired>>

Cleared(j) == [j EXCEPT !.vid = None, !.sid = None, !.consent = FALSE]

\* Mutant: consent is withdrawn, the identity stays.
cookiesKept(q, j) ==
    CASE q.op = "start" -> [j EXCEPT !.vid = q.vid, !.sid = q.sid]
      [] q.op = "track" -> [j EXCEPT !.sid = q.sid]
      [] q.op = "revoke" -> [j EXCEPT !.consent = FALSE]
      [] q.op = "erase" -> IF q.ok THEN Cleared(j) ELSE j
      [] OTHER -> j

\* What the response does to the cookies.  Those of a start, of a track and of a
\* revocation were put on the reply before the first statement.
cookies(q, j) ==
    CASE q.op = "start" -> [j EXCEPT !.vid = q.vid, !.sid = q.sid]
      [] q.op = "track" -> [j EXCEPT !.sid = q.sid]
      [] q.op = "revoke" -> Cleared(j)
      [] q.op = "erase" -> IF q.ok THEN Cleared(j) ELSE j
      [] OTHER -> j

Delivered(r) ==
    /\ hand[r].step = "answer"
    /\ jar' = [jar EXCEPT ![hand[r].browser] = cookies(hand[r], @)]
    /\ retired' = IF hand[r].gives # None /\ hand[r].alone
                        /\ (hand[r].op = "revoke" => hand[r].ok)
                  THEN retired \cup {hand[r].gives} ELSE retired
    /\ hand' = [hand EXCEPT ![r] = Idle]
    /\ UNCHANGED <<tables, home, sent>>

\* The browser never sees the response.
Lost(r) ==
    /\ hand[r].step = "answer"
    /\ hand' = [hand EXCEPT ![r] = Idle]
    /\ UNCHANGED <<tables, jar, home, sent, retired>>
================================================================================
