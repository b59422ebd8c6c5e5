---------------------------- MODULE PasswordReset ----------------------------
(***************************************************************************)
(* POST /auth/forgot-password and PATCH /auth/reset-password, and the form *)
(* submission, which registers its notification the same way: the use case *)
(* runs inside TransactionalUseCaseDecorator, so what it writes and the    *)
(* outbox event commit together or not at all.  PostgreSQL holds the       *)
(* written row until the commit, so the transaction's writes are one step; *)
(* its read is an earlier one (READ COMMITTED).                            *)
(***************************************************************************)
EXTENDS UserRequests

VARIABLES
    mailed,    \* tokens some PASSWORD_RESET_REQUESTED event carries
    forms,     \* the addresses forms_submission has a row for
    notified,  \* [Email -> Nat]: FORM_SUBMISSION_CREATED events about the address
    spent      \* tokens some reset was answered success for (not the program's)

resetVars == <<mailed, forms, notified, spent>>

-----------------------------------------------------------------------------
(* Asking for a link *)

forgotPassword(r) ==
    /\ \E e \in Email : Arrive(r, [Idle EXCEPT !.op = "forgot", !.step = "find", !.email = e])
    /\ UNCHANGED <<userVars, resetVars>>

\* An unknown address is answered like any other.
FindForgetful(r) ==
    /\ At(r, "forgot", "find")
    /\ \/ findBy(req[r].email) = {} /\ Answer(r)
       \/ \E u \in findBy(req[r].email) : GoWith(r, u, "write")
    /\ UNCHANGED <<userVars, resetVars>>

\* Mutant: the event is registered outside the transaction, where it may fail.
ForgotUntransacted(r) ==
    /\ At(r, "forgot", "write")
    /\ \E t \in Token \ mailed :
          /\ updatePassword(req[r].user, t)
          /\ mailed' \in {mailed, mailed \cup {t}}
    /\ Answer(r)
    /\ UNCHANGED <<jwt, forms, notified, spent>>

\* The transaction commits a new token and the event that carries it; a row
\* gone by now rolls it back.
ForgotPassword(r) ==
    /\ At(r, "forgot", "write")
    /\ \E t \in Token \ mailed :
          /\ updatePassword(req[r].user, t)
          /\ mailed' = IF Exists(req[r].user) THEN mailed \cup {t} ELSE mailed
    /\ Answer(r)
    /\ UNCHANGED <<jwt, forms, notified, spent>>

-----------------------------------------------------------------------------
(* Using it *)

\* Someone follows a link that was mailed once.
resetPassword(r) ==
    /\ \E t \in mailed :
          Arrive(r, [Idle EXCEPT !.op = "reset", !.step = "find", !.token = t,
                                 !.late = t \in spent, !.known = mailed])
    /\ UNCHANGED <<userVars, resetVars>>

\* The token's account, and whether the token has run out: one runs out on the
\* way to being discarded, the other to being used.
FindReset(r) ==
    /\ At(r, "reset", "find")
    /\ \/ findByToken(req[r].token) = {} /\ Answer(r)
       \/ \E u \in findByToken(req[r].token) :
             GoWith(r, u, IF row[u].expired THEN "discard" ELSE "write")
    /\ UNCHANGED <<userVars, resetVars>>

\* discardExpiredToken: by publicId, whatever token the row has by now.
discardExpiredToken(r) ==
    /\ At(r, "reset", "discard")
    /\ updatePassword(req[r].user, None)
    /\ Answer(r)
    /\ UNCHANGED <<jwt, resetVars>>

\* Mutant: the password is written, the token kept.
ResetWithoutClearing(r) ==
    /\ At(r, "reset", "write")
    /\ spent' = IF Exists(req[r].user) THEN spent \cup {req[r].token} ELSE spent
    /\ Answer(r)
    /\ UNCHANGED <<userVars, mailed, forms, notified>>

\* After the hash: the password is written and the row's token cleared, by
\* publicId, whatever token the row has by now.
ResetPassword(r) ==
    /\ At(r, "reset", "write")
    /\ updatePassword(req[r].user, None)
    /\ spent' = IF Exists(req[r].user) THEN spent \cup {req[r].token} ELSE spent
    /\ Answer(r)
    /\ UNCHANGED <<jwt, mailed, forms, notified>>

-----------------------------------------------------------------------------
(* The contact form *)

formSubmission(r) ==
    /\ \E e \in Email : Arrive(r, [Idle EXCEPT !.op = "submit", !.step = "find", !.email = e])
    /\ UNCHANGED <<userVars, resetVars>>

FindForm(r) ==
    /\ At(r, "submit", "find")
    /\ IF req[r].email \in forms THEN Answer(r) ELSE Go(r, "write")
    /\ UNCHANGED <<userVars, resetVars>>

\* The unique address stops the second of two (P2002), and its event with it.
SubmitForm(r) ==
    /\ At(r, "submit", "write")
    /\ forms' = forms \cup {req[r].email}
    /\ notified' = IF req[r].email \in forms THEN notified
                   ELSE [notified EXCEPT ![req[r].email] = @ + 1]
    /\ Answer(r)
    /\ UNCHANGED <<userVars, mailed, spent>>

-----------------------------------------------------------------------------

\* An error inside the transaction undoes it before it is the answer.
Rollback(r) ==
    /\ req[r].op \in Transactional
    /\ Answer(r)
    /\ UNCHANGED <<userVars, resetVars>>

ResetNext(r) ==
    \/ forgotPassword(r) \/ FindForgetful(r) \/ ForgotPassword(r)
    \/ resetPassword(r) \/ FindReset(r) \/ discardExpiredToken(r) \/ ResetPassword(r)
    \/ formSubmission(r) \/ FindForm(r) \/ SubmitForm(r)
    \/ Rollback(r)
================================================================================
