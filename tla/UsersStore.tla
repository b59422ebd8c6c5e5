------------------------------ MODULE UsersStore ------------------------------
(***************************************************************************)
(* The users table behind PrismaUsersRepository, and the                   *)
(* authentication_audit rows that refer to it.  Every statement is one     *)
(* step of PostgreSQL, which alone enforces the unique columns.  Email     *)
(* stands for the columns a user is found by and may not share (email,     *)
(* username, cpf); name, password hash and timestamps tell nothing apart   *)
(* here and are left out.                                                  *)
(***************************************************************************)
EXTENDS Naturals, FiniteSets

CONSTANTS
    User,     \* public ids: each is given to at most one account
    Admin,    \* the public ids of accounts with role ADMIN
    Email,
    Token,    \* reset tokens; the table keeps a hash, injective here
    None

ASSUME UsersAssumption ==
    /\ Admin \subseteq User
    /\ None \notin Email \cup Token

VARIABLES
    row,      \* [User -> Row]: Nobody is an id no account has (yet, or any more)
    born,     \* the public ids given so far
    audit     \* the users some authentication_audit row refers to

usersVars == <<row, born, audit>>

Row == [email: Email \cup {None}, token: Token \cup {None}, expired: BOOLEAN]
Nobody == [email |-> None, token |-> None, expired |-> FALSE]

Exists(u) == row[u].email # None

UsersTypeOK ==
    /\ row \in [User -> Row]
    /\ born \subseteq User
    /\ audit \subseteq User

\* prisma/seed.ts: the administrators' accounts, one address each.
UsersInit ==
    /\ row \in [User -> Row]
    /\ \A u \in User : row[u].token = None /\ ~row[u].expired
    /\ {u \in User : Exists(u)} = Admin
    /\ \A u, v \in Admin : row[u].email = row[v].email => u = v
    /\ born = Admin
    /\ audit = {}

-----------------------------------------------------------------------------
(* Reads *)

\* findBy a unique column: whoever has it.
findBy(e) == {u \in User : Exists(u) /\ row[u].email = e}

\* Mutant: the condition is left undefined, and any account with a token matches.
findByUndefined(t) == {u \in User : row[u].token # None}

findByToken(t) == {u \in User : row[u].token = t}

-----------------------------------------------------------------------------
(* Writes *)

\* The unique index refuses a value another row has (P2002).
Taken(e, u) == \E v \in User \ {u} : row[v].email = e

\* Mutant: no unique index.
createAnyway(e, ids) ==
    \E u \in ids \ born :
        /\ row' = [row EXCEPT ![u] = [Nobody EXCEPT !.email = e]]
        /\ born' = born \cup {u}
        /\ UNCHANGED audit

create(e, ids) ==
    IF findBy(e) = {}
    THEN \E u \in ids \ born :
            /\ row' = [row EXCEPT ![u] = [Nobody EXCEPT !.email = e]]
            /\ born' = born \cup {u}
            /\ UNCHANGED audit
    ELSE UNCHANGED usersVars

\* applyUpdate with profile fields: nothing for a row that is gone (P2025) or
\* an address that is taken (P2002).
update(u, e) ==
    /\ row' = IF Exists(u) /\ ~Taken(e, u) THEN [row EXCEPT ![u].email = e] ELSE row
    /\ UNCHANGED <<born, audit>>

\* applyUpdate with a reset token, or with None to clear it.
updatePassword(u, t) ==
    /\ row' = IF Exists(u)
              THEN [row EXCEPT ![u].token = t, ![u].expired = FALSE] ELSE row
    /\ UNCHANGED <<born, audit>>

\* An audit row refers to users without ON DELETE: it keeps its user in place.
delete(u) ==
    /\ row' = IF u \in audit THEN row ELSE [row EXCEPT ![u] = Nobody]
    /\ UNCHANGED <<born, audit>>

\* The insert is refused when the user is gone by now.
createAudit(u) ==
    /\ audit' = IF Exists(u) THEN audit \cup {u} ELSE audit
    /\ UNCHANGED <<row, born>>

\* tokenExpiresAt passes.
TokenExpires(u) ==
    /\ row[u].token # None
    /\ ~row[u].expired
    /\ row' = [row EXCEPT ![u].expired = TRUE]
    /\ UNCHANGED <<born, audit>>
================================================================================
