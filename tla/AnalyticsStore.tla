---------------------------- MODULE AnalyticsStore ----------------------------
(***************************************************************************)
(* The analytics tables behind PrismaAnalyticsRepository: a row for a      *)
(* browser, rows for its visits, and their events.  Each operator is one   *)
(* statement; a foreign key refuses a row without its parent and cascades  *)
(* the deletion of one.  Attribution, device and timestamps are left out.  *)
(***************************************************************************)
EXTENDS Naturals, FiniteSets

CONSTANTS
    Visitor,  \* visitor ids, minted once each
    Session,  \* session ids, likewise
    Account,  \* users who may log in
    None

ASSUME StoreAssumption ==
    /\ None \notin Visitor \cup Session \cup Account
    /\ Visitor \cup Session \subseteq Nat
    /\ Visitor \cap Session = {}

VARIABLES
    visitors,  \* [Visitor -> VisitorRow]
    sessions,  \* [Session -> SessionRow]
    events     \* the sessions that have an event row

tables == <<visitors, sessions, events>>

VisitorRow == [user: Account \cup {None}, count: Nat]
NoVisitor == [user |-> None, count |-> 0]
SessionRow == [visitor: Visitor \cup {None}, user: Account \cup {None}]
NoSession == [visitor |-> None, user |-> None]

HasVisitor(v) == visitors[v].count > 0
HasSession(s) == sessions[s].visitor # None

StoreTypeOK ==
    /\ visitors \in [Visitor -> VisitorRow]
    /\ sessions \in [Session -> SessionRow]
    /\ events \subseteq Session

StoreInit ==
    /\ visitors = [v \in Visitor |-> NoVisitor]
    /\ sessions = [s \in Session |-> NoSession]
    /\ events = {}

\* The user link is written only when one is given; a created row counts one.
upsertVisitor(v, u, countNew) ==
    /\ visitors' = [visitors EXCEPT ![v] =
          [user  |-> IF u = None THEN @.user ELSE u,
           count |-> IF HasVisitor(v) /\ ~countNew THEN @.count ELSE @.count + 1]]
    /\ UNCHANGED <<sessions, events>>

\* Visitor and user are overwritten; the user with nobody as well.
upsertSession(s, v, u) ==
    /\ HasVisitor(v)
    /\ sessions' = [sessions EXCEPT ![s] = [visitor |-> v, user |-> u]]
    /\ UNCHANGED <<visitors, events>>

\* Mutant: the row is given its visitor's id.
createEventOfVisitor(s) ==
    /\ HasSession(s)
    /\ events' = events \cup {sessions[s].visitor}
    /\ UNCHANGED <<visitors, sessions>>

createEvent(s) ==
    /\ HasSession(s)
    /\ events' = events \cup {s}
    /\ UNCHANGED <<visitors, sessions>>

\* Mutant: an absent session matches broadly.
sessionsToClaimBroadly(v, s, backfill) ==
    IF backfill THEN {t \in Session : sessions[t].visitor = v /\ sessions[t].user = None}
    ELSE {t \in Session : HasSession(t) /\ s \in {t, None}}

\* The sessions an identify call claims.
sessionsToClaim(v, s, backfill) ==
    IF backfill THEN {t \in Session : sessions[t].visitor = v /\ sessions[t].user = None}
    ELSE {t \in Session : HasSession(t) /\ t = s}

linkSessionsToUser(v, s, u, backfill) ==
    /\ sessions' = [t \in Session |->
          IF t \in sessionsToClaim(v, s, backfill)
          THEN [sessions[t] EXCEPT !.user = u] ELSE sessions[t]]
    /\ UNCHANGED <<visitors, events>>

\* ON DELETE CASCADE, down to the events.
Cascade(gone) ==
    /\ visitors' = [v \in Visitor |-> IF v \in gone THEN NoVisitor ELSE visitors[v]]
    /\ sessions' = [s \in Session |-> IF sessions[s].visitor \in gone THEN NoSession ELSE sessions[s]]
    /\ events' = {s \in events : sessions[s].visitor \notin gone}

deleteVisitorData(v) == Cascade({v})

deleteDataForUser(u) == Cascade({v \in Visitor : visitors[v].user = u})
================================================================================
