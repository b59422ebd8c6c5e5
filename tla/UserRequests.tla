----------------------------- MODULE UserRequests -----------------------------
(***************************************************************************)
(* The handlers of /users and of POST /auth/sessions, one step for each    *)
(* statement they await.  A statement may fail: the handler answers an     *)
(* error and does nothing more (only the audit's failure is ignored).      *)
(***************************************************************************)
EXTENDS UsersStore

CONSTANTS Request   \* requests the API has in hand at a time

VARIABLES
    req,      \* [Request -> Req]
    jwt       \* the users a token was signed for: verifyJwt asks for no more

userVars == <<usersVars, jwt>>

Op == {"register", "update", "delete", "login", "forgot", "reset", "submit"}

\* The use cases TransactionalUseCaseDecorator wraps.
Transactional == {"forgot", "submit"}

\* What a handler holds while it waits.  late and known are not the program's:
\* whether the presented reset token had been spent before the request came, and
\* the tokens mailed by then.
Req == [op: Op \cup {"none"}, step: {"idle", "find", "conflict", "discard", "write"},
        user: User \cup {None}, email: Email \cup {None}, token: Token \cup {None},
        ids: SUBSET User, late: BOOLEAN, known: SUBSET Token]
Idle == [op |-> "none", step |-> "idle", user |-> None, email |-> None, token |-> None,
         ids |-> {}, late |-> FALSE, known |-> {}]

At(r, op, step) == req[r].op = op /\ req[r].step = step

Arrive(r, q) == req[r].step = "idle" /\ req' = [req EXCEPT ![r] = q]
Go(r, step) == req' = [req EXCEPT ![r].step = step]
GoWith(r, u, step) == req' = [req EXCEPT ![r].step = step, ![r].user = u]
\* Mutant: the request is left behind, neither idle nor in hand.
AnswerOnly(r) == req' = [req EXCEPT ![r].step = "answered"]

Answer(r) == req' = [req EXCEPT ![r] = Idle]

-----------------------------------------------------------------------------
(* Registration *)

\* Anyone may register; an administrator's account takes an administrator's token.
register(r) ==
    /\ \E e \in Email, ids \in {User \ Admin, Admin} :
          /\ ids = Admin => jwt \cap Admin # {}
          /\ Arrive(r, [Idle EXCEPT !.op = "register", !.step = "find", !.email = e, !.ids = ids])
    /\ UNCHANGED userVars

\* findExistingUser, before the password is hashed.
findExistingUser(r) ==
    /\ At(r, "register", "find")
    /\ IF findBy(req[r].email) # {} THEN Answer(r) ELSE Go(r, "write")
    /\ UNCHANGED userVars

RegisterUser(r) ==
    /\ At(r, "register", "write")
    /\ create(req[r].email, req[r].ids)
    /\ Answer(r)
    /\ UNCHANGED jwt

-----------------------------------------------------------------------------
(* Profile *)

\* PATCH /users/me and PATCH /users/:publicId share one controller.  It takes
\* the account from the token, never from the path: an administrator who names
\* another account updates their own.
updateUser(r) ==
    /\ \E c \in jwt, e \in Email :
          Arrive(r, [Idle EXCEPT !.op = "update", !.step = "find", !.user = c, !.email = e])
    /\ UNCHANGED userVars

FindUpdated(r) ==
    /\ At(r, "update", "find")
    /\ IF Exists(req[r].user) THEN Go(r, "conflict") ELSE Answer(r)
    /\ UNCHANGED userVars

findUniquenessConflict(r) ==
    /\ At(r, "update", "conflict")
    /\ IF findBy(req[r].email) \subseteq {req[r].user} THEN Go(r, "write") ELSE Answer(r)
    /\ UNCHANGED userVars

UpdateUser(r) ==
    /\ At(r, "update", "write")
    /\ update(req[r].user, req[r].email)
    /\ Answer(r)
    /\ UNCHANGED jwt

\* The routes that name an account ask for ADMIN; the others are about one's own.
verifyUserRole(c, n) == c \in Admin \/ n = c

\* DELETE /users/me takes the token's account, DELETE /users/:publicId the path's.
deleteUser(r) ==
    /\ \E c \in jwt, n \in User :
          /\ verifyUserRole(c, n)
          /\ Arrive(r, [Idle EXCEPT !.op = "delete", !.step = "find", !.user = n])
    /\ UNCHANGED userVars

FindDeleted(r) ==
    /\ At(r, "delete", "find")
    /\ IF Exists(req[r].user) THEN Go(r, "write") ELSE Answer(r)
    /\ UNCHANGED userVars

DeleteUser(r) ==
    /\ At(r, "delete", "write")
    /\ delete(req[r].user)
    /\ Answer(r)
    /\ UNCHANGED jwt

-----------------------------------------------------------------------------
(* Login *)

authenticateUser(r) ==
    /\ \E e \in Email : Arrive(r, [Idle EXCEPT !.op = "login", !.step = "find", !.email = e])
    /\ UNCHANGED userVars

\* An unknown login leaves an audit row that refers to nobody.
findByLogin(r) ==
    /\ At(r, "login", "find")
    /\ \/ findBy(req[r].email) = {} /\ Answer(r)
       \/ \E u \in findBy(req[r].email) : GoWith(r, u, "write")
    /\ UNCHANGED userVars

\* After the comparison both outcomes are audited; the audit may fail, and a
\* right password is let in all the same.
AuditLogin(r) ==
    /\ At(r, "login", "write")
    /\ createAudit(req[r].user) \/ UNCHANGED usersVars
    /\ UNCHANGED jwt \/ jwt' = jwt \cup {req[r].user}
    /\ Answer(r)

-----------------------------------------------------------------------------

\* A statement the handler waits for fails, and its error is the answer.
StatementFails(r) ==
    /\ req[r].step # "idle"
    /\ ~At(r, "login", "write")
    /\ req[r].op \notin Transactional
    /\ Answer(r)
    /\ UNCHANGED userVars

UserNext(r) ==
    \/ register(r) \/ findExistingUser(r) \/ RegisterUser(r)
    \/ updateUser(r) \/ FindUpdated(r) \/ findUniquenessConflict(r) \/ UpdateUser(r)
    \/ deleteUser(r) \/ FindDeleted(r) \/ DeleteUser(r)
    \/ authenticateUser(r) \/ findByLogin(r) \/ AuditLogin(r)
    \/ StatementFails(r)
================================================================================
