------------------------------- MODULE Accounts -------------------------------
(***************************************************************************)
(* The API's accounts as a whole: users, logins, reset links and forms,    *)
(* with every request of a small pool running beside the others.           *)
(***************************************************************************)
EXTENDS PasswordReset

vars == <<row, born, audit, req, jwt, mailed, forms, notified, spent>>

TypeOK ==
    /\ UsersTypeOK
    /\ req \in [Request -> Req]
    /\ jwt \subseteq User
    /\ mailed \subseteq Token
    /\ forms \subseteq Email
    /\ notified \in [Email -> Nat]
    /\ spent \subseteq Token

Init ==
    /\ UsersInit
    /\ req = [r \in Request |-> Idle]
    /\ jwt = {}
    /\ mailed = {}
    /\ forms = {}
    /\ notified = [e \in Email |-> 0]
    /\ spent = {}

Clock(u) == TokenExpires(u) /\ UNCHANGED <<req, jwt, resetVars>>

Next ==
    \/ \E r \in Request : UserNext(r) /\ UNCHANGED resetVars
    \/ \E r \in Request : ResetNext(r)
    \/ \E u \in User : Clock(u)

Spec == Init /\ [][Next]_vars

-----------------------------------------------------------------------------
(* Identities *)

\* Whatever two registrations and profile updates read before they write, no two
\* accounts end with one address.
IdentitiesAreDistinct ==
    \A u, v \in User : Exists(u) /\ row[u].email = row[v].email => u = v

-----------------------------------------------------------------------------
(* Reset links *)

\* What a table stores and what the outbox will mail are committed together: a
\* token in a row was mailed, and an address has a form row exactly when one
\* notification about it was registered, never two.
CommittedTogether ==
    /\ \A u \in User : row[u].token # None => row[u].token \in mailed
    /\ \A e \in Email : notified[e] = IF e \in forms THEN 1 ELSE 0

\* A link is of use once.  Two resets with one token may both succeed, for the
\* write is by publicId (reset-password.service.ts); but then they overlapped: a
\* reset that came after another was answered success for the token is refused.
\* A token in its row is therefore unspent, and a reset that was accepted and
\* has yet to write came before any other was answered.
SpentTokensAreDead ==
    /\ \A u \in User : row[u].token \notin spent
    /\ \A r \in Request : At(r, "reset", "write") => ~req[r].late

\* The write of a reset, and the clean-up of an expired token, clear whatever
\* token the row has by then, a newer one too.  What is left to rely on: a link
\* stays good until a newer one is asked for, the account is deleted, it is used,
\* or a reset clears it that came before the link was mailed.
LiveLink(u) == row[u].token # None /\ ~row[u].expired

MayClear(r, u) ==
    \/ At(r, "forgot", "write") /\ req[r].user = u
    \/ At(r, "delete", "write") /\ req[r].user = u
    \/ At(r, "reset", "write") /\ req[r].token = row[u].token
    \/ req[r].op = "reset" /\ req[r].user = u /\ row[u].token \notin req[r].known

LiveLinkSurvives ==
    [][\A u \in User : LiveLink(u) /\ row'[u].token # row[u].token
          => \E r \in Request : MayClear(r, u)]_vars

================================================================================
