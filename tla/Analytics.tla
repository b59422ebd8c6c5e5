------------------------------- MODULE Analytics -------------------------------
(***************************************************************************)
(* Browsers, the people who use them and the analytics API: any few        *)
(* requests run beside each other and answer in any order.                 *)
(***************************************************************************)
EXTENDS AnalyticsRequests

VARIABLES
    ran        \* the pairs of visitor and session some POST /session ran under
               \* (not the program's)

vars == <<tables, jar, hand, home, sent, retired, ran>>

TypeOK ==
    /\ StoreTypeOK
    /\ jar \in [Browser -> Jar]
    /\ hand \in [Request -> Hand]
    /\ sent \in 0..MaxSent
    /\ retired \subseteq Id
    /\ home \in [Id -> Browser \cup {None}]
    /\ ran \subseteq Visitor \X Session

Init ==
    /\ StoreInit
    /\ jar = [b \in Browser |-> [vid |-> None, sid |-> None, consent |-> FALSE]]
    /\ hand = [r \in Request |-> Idle]
    /\ sent = 0
    /\ retired = {}
    /\ home = [i \in Id |-> None]
    /\ ran = {}

\* The banner writes the consent cookie.
Consent(b) ==
    /\ ~jar[b].consent
    /\ jar' = [jar EXCEPT ![b].consent = TRUE]
    /\ UNCHANGED <<tables, hand, home, sent, retired, ran>>

\* The session cookie's window ends.
SessionEnds(b) ==
    /\ jar[b].sid # None
    /\ jar' = [jar EXCEPT ![b].sid = None]
    /\ UNCHANGED <<tables, hand, home, sent, retired, ran>>

Start(r) ==
    /\ startSession(r)
    /\ ran' = ran \cup {<<hand'[r].vid, hand'[r].sid>>}

Handle(r) ==
    \/ trackEvent(r) \/ identifyVisitor(r) \/ revokeConsent(r) \/ eraseMyData(r)
    \/ UpsertVisitor(r) \/ UpsertSession(r) \/ CreateEvent(r) \/ LinkSessions(r)
    \/ Erase(r) \/ StatementFails(r) \/ Delivered(r) \/ Lost(r)

Next ==
    \/ \E b \in Browser : Consent(b) \/ SessionEnds(b)
    \/ \E r \in Request : Start(r)
    \/ \E r \in Request : Handle(r) /\ UNCHANGED ran

Spec == Init /\ [][Next]_vars

-----------------------------------------------------------------------------

\* A visitor who withdrew consent, while nothing else of theirs was under way, is
\* gone for good: no row under that id ever again, whatever other browsers and
\* later consents do, and no browser presents it.
RevokedStaysErased ==
    \A v \in retired \cap Visitor : ~HasVisitor(v) /\ \A b \in Browser : jar[b].vid # v

\* The logout hook of POST /session: once a rotation is answered that met no
\* other request of the session, nobody browses inside that session any more.
RotatedStaysOut ==
    \A s \in retired \cap Session : \A b \in Browser : jar[b].sid # s

\* A visit is attributed only to somebody who uses its browser, with
\* backfill or without, for a browser that lost its session too.
AttributedAtHome ==
    \A s \in Session : sessions[s].user # None => sessions[s].user \in Household[home[s]]

\* sessionCount answers how often a visitor comes back: whatever fails, is lost or
\* overlaps, it never exceeds the sessions POST /session ran under the visitor's id.
VisitsAreNotOvercounted ==
    \A v \in Visitor : visitors[v].count <= Cardinality({s \in Session : <<v, s>> \in ran})

-----------------------------------------------------------------------------
(* What the program is said to do, and does not *)

\* EraseAnalyticsDataUseCase: the authenticated erasure "reaches every browser the
\* account was ever linked to".
ErasureReachesEveryVisit ==
    [][\A r \in Request : Erase(r) /\ hand[r].op = "erase"
          => \A s \in Session : sessions'[s].user # hand[r].user]_vars
================================================================================
