---------------------------- MODULE AccountsProofs ----------------------------
(***************************************************************************)
(* The accounts' safety, for any users, addresses, tokens and any number   *)
(* of requests in hand.  What makes the invariants inductive is what a     *)
(* reset in hand knows of the row it will write (Linked): the token it     *)
(* presented is in that row or in none, and any other token there is newer *)
(* than the request.                                                       *)
(***************************************************************************)
EXTENDS Accounts, TLAPS

\* A request that names an account, or brings an address, names one there is in the
\* constants.
Named(q) ==
    /\ q.op = "submit" => q.email \in Email
    /\ q.op \in {"update", "delete"} => q.user \in User
    /\ q.op \in {"login", "forgot", "reset"} /\ q.step # "find" => q.user \in User

\* A reset in hand, the rows, the tokens mailed and the tokens spent.
Linked(q, rows, out, used) ==
    q.op = "reset" =>
        /\ q.token \in q.known
        /\ q.known \subseteq out
        /\ q.late => q.token \in used
        /\ q.step \in {"discard", "write"} =>
              /\ \A v \in User : rows[v].token = q.token => v = q.user
              /\ rows[q.user].token \in q.known => rows[q.user].token = q.token
        /\ q.step = "discard" /\ rows[q.user].token = q.token => rows[q.user].expired
        /\ q.step = "write" => ~q.late

RowsInv(rows, out, used) ==
    /\ rows \in [User -> Row]
    /\ used \subseteq out
    /\ out \subseteq Token
    /\ \A u \in User : rows[u].token \in out \cup {None} /\ rows[u].token \notin used
    /\ \A u, v \in User : rows[u].token = rows[v].token => u = v \/ rows[u].token = None

Unborn == \A u \in User \ born : row[u] = Nobody

IInv ==
    /\ TypeOK
    /\ IdentitiesAreDistinct
    /\ Unborn
    /\ RowsInv(row, mailed, spent)
    /\ \A e \in Email : notified[e] = IF e \in forms THEN 1 ELSE 0
    /\ \A r \in Request : Named(req[r]) /\ Linked(req[r], row, mailed, spent)

USE UsersAssumption

-----------------------------------------------------------------------------
(* What the statements do to the rows *)

\* No row has a token it did not have, and none is good again.
Fewer(rows, new) ==
    \A v \in User :
        \/ new[v].token = None
        \/ new[v].token = rows[v].token /\ (rows[v].expired => new[v].expired)

\* Identities and births, apart from tokens.
StoreInv == UsersTypeOK /\ IdentitiesAreDistinct /\ Unborn

LEMMA CreateKeeps ==
    ASSUME StoreInv, NEW e \in Email \cup {None}, NEW ids \in SUBSET User, create(e, ids)
    PROVE  StoreInv' /\ Fewer(row, row')
  <1> USE DEF StoreInv, UsersTypeOK
  <1>1. CASE findBy(e) # {}
    <2>1. UNCHANGED usersVars
      BY <1>1 DEF create
    <2> QED BY <2>1 DEF usersVars, IdentitiesAreDistinct, Exists, Unborn, Fewer
  <1>2. CASE findBy(e) = {}
    <2> DEFINE new == [Nobody EXCEPT !.email = e]
    <2>1. new \in Row /\ new.email = e /\ new.token = None
      BY DEF Nobody, Row
    <2>2. PICK u \in ids \ born : /\ row' = [row EXCEPT ![u] = new]
                                  /\ born' = born \cup {u}
                                  /\ UNCHANGED audit
      BY <1>2 DEF create
    <2> HIDE DEF new
    <2>3. row'[u] = new /\ \A v \in User \ {u} : row'[v] = row[v]
      BY <2>2
    <2>4. UsersTypeOK'
      BY <2>1, <2>2
    <2>5. \A v \in User : Exists(v) => row[v].email # e
      BY <1>2 DEF findBy
    <2>6. IdentitiesAreDistinct'
      BY <2>1, <2>3, <2>5 DEF IdentitiesAreDistinct, Exists
    <2>7. Unborn'
      BY <2>2, <2>3 DEF Unborn
    <2>8. Fewer(row, row')
      BY <2>1, <2>3 DEF Fewer
    <2> QED BY <2>4, <2>6, <2>7, <2>8
  <1> QED BY <1>1, <1>2

LEMMA UpdateKeeps ==
    ASSUME StoreInv, NEW u \in User, NEW e \in Email \cup {None}, update(u, e)
    PROVE  StoreInv' /\ Fewer(row, row')
  <1> USE DEF StoreInv, UsersTypeOK
  <1>1. CASE ~(Exists(u) /\ ~Taken(e, u))
    <2>1. UNCHANGED usersVars
      BY <1>1 DEF update, usersVars
    <2> QED BY <2>1 DEF usersVars, IdentitiesAreDistinct, Exists, Unborn, Fewer
  <1>2. CASE Exists(u) /\ ~Taken(e, u)
    <2> DEFINE new == [row[u] EXCEPT !.email = e]
    <2>1. new \in Row /\ new.email = e /\ new.token = row[u].token /\ new.expired = row[u].expired
      BY DEF Row
    <2>2. row' = [row EXCEPT ![u] = new] /\ born' = born /\ audit' = audit
      BY <1>2 DEF update
    <2> HIDE DEF new
    <2>3. row'[u] = new /\ \A v \in User \ {u} : row'[v] = row[v]
      BY <2>2
    <2>4. UsersTypeOK'
      BY <2>1, <2>2
    <2>5. IdentitiesAreDistinct'
      BY <1>2, <2>1, <2>3 DEF IdentitiesAreDistinct, Exists, Taken
    <2>6. u \in born
      BY <1>2 DEF Unborn, Exists, Nobody
    <2>7. Unborn'
      BY <2>2, <2>3, <2>6 DEF Unborn
    <2>8. Fewer(row, row')
      BY <2>1, <2>3 DEF Fewer
    <2> QED BY <2>4, <2>5, <2>7, <2>8
  <1> QED BY <1>1, <1>2

\* A token is written to a row there is, or cleared.
LEMMA PasswordKeeps ==
    ASSUME StoreInv, NEW u \in User, NEW t \in Token \cup {None}, updatePassword(u, t)
    PROVE  /\ StoreInv'
           /\ \A v \in User \ {u} : row'[v] = row[v]
           /\ ~Exists(u) => row' = row
           /\ Exists(u) => row'[u].token = t /\ row'[u].expired = FALSE
  <1> USE DEF StoreInv, UsersTypeOK
  <1>1. CASE ~Exists(u)
    <2>1. UNCHANGED usersVars
      BY <1>1 DEF updatePassword, usersVars
    <2> QED BY <1>1, <2>1 DEF usersVars, IdentitiesAreDistinct, Exists, Unborn
  <1>2. CASE Exists(u)
    <2> DEFINE new == [row[u] EXCEPT !.token = t, !.expired = FALSE]
    <2>1. new \in Row /\ new.email = row[u].email /\ new.token = t /\ new.expired = FALSE
      BY DEF Row
    <2>2. row' = [row EXCEPT ![u] = new] /\ born' = born /\ audit' = audit
      BY <1>2 DEF updatePassword
    <2> HIDE DEF new
    <2>3. row'[u] = new /\ \A v \in User \ {u} : row'[v] = row[v]
      BY <2>2
    <2>4. UsersTypeOK'
      BY <2>1, <2>2
    <2>5. IdentitiesAreDistinct'
      BY <2>1, <2>3 DEF IdentitiesAreDistinct, Exists
    <2>6. u \in born
      BY <1>2 DEF Unborn, Exists, Nobody
    <2>7. Unborn'
      BY <2>2, <2>3, <2>6 DEF Unborn
    <2> QED BY <1>2, <2>1, <2>3, <2>4, <2>5, <2>7
  <1> QED BY <1>1, <1>2

LEMMA DeleteKeeps ==
    ASSUME StoreInv, NEW u \in User, delete(u)
    PROVE  StoreInv' /\ Fewer(row, row') /\ \A v \in User \ {u} : row'[v] = row[v]
  <1> USE DEF StoreInv, UsersTypeOK
  <1>1. Nobody \in Row /\ Nobody.token = None /\ Nobody.email = None
    BY DEF Nobody, Row
  <1>2. row'[u] \in {row[u], Nobody} /\ \A v \in User \ {u} : row'[v] = row[v]
    BY DEF delete
  <1>3. UsersTypeOK'
    BY <1>1 DEF delete
  <1>4. IdentitiesAreDistinct'
    BY <1>1, <1>2 DEF IdentitiesAreDistinct, Exists
  <1>5. Unborn'
    BY <1>2 DEF Unborn, delete
  <1>6. Fewer(row, row')
    BY <1>1, <1>2 DEF Fewer
  <1> QED BY <1>2, <1>3, <1>4, <1>5, <1>6

LEMMA AuditKeeps ==
    ASSUME StoreInv, NEW u \in User, createAudit(u) \/ UNCHANGED usersVars
    PROVE  StoreInv' /\ row' = row
  BY DEF StoreInv, UsersTypeOK, createAudit, usersVars, IdentitiesAreDistinct, Exists, Unborn

LEMMA ExpiryKeeps ==
    ASSUME StoreInv, NEW u \in User, TokenExpires(u)
    PROVE  StoreInv' /\ Fewer(row, row') /\ \A v \in User : row'[v].token = row[v].token
  <1> USE DEF StoreInv, UsersTypeOK
  <1> DEFINE new == [row[u] EXCEPT !.expired = TRUE]
  <1>1. new \in Row /\ new.email = row[u].email /\ new.token = row[u].token /\ new.expired = TRUE
    BY DEF Row
  <1>2. row' = [row EXCEPT ![u] = new] /\ born' = born /\ audit' = audit
    BY DEF TokenExpires
  <1>3. u \in born
    BY DEF TokenExpires, Unborn, Nobody
  <1> HIDE DEF new
  <1>4. row'[u] = new /\ \A v \in User \ {u} : row'[v] = row[v]
    BY <1>2
  <1>5. UsersTypeOK'
    BY <1>1, <1>2
  <1>6. IdentitiesAreDistinct'
    BY <1>1, <1>4 DEF IdentitiesAreDistinct, Exists
  <1>7. Unborn'
    BY <1>2, <1>3, <1>4 DEF Unborn
  <1>8. \A v \in User : row'[v].token = row[v].token
    BY <1>1, <1>4
  <1>9. Fewer(row, row')
    BY <1>1, <1>4 DEF Fewer
  <1> QED BY <1>5, <1>6, <1>7, <1>8, <1>9
-----------------------------------------------------------------------------
(* What they do to the tokens *)

LEMMA TokensKeep ==
    ASSUME NEW rows, NEW new \in [User -> Row], NEW out, NEW used, RowsInv(rows, out, used),
           Fewer(rows, new)
    PROVE  RowsInv(new, out, used)
  BY DEF RowsInv, Fewer

LEMMA LinksKeep ==
    ASSUME NEW rows, NEW new, NEW out, NEW used, NEW q, RowsInv(rows, out, used),
           Fewer(rows, new), Named(q), Linked(q, rows, out, used)
    PROVE  Linked(q, new, out, used)
  <1> SUFFICES ASSUME q.op = "reset" PROVE Linked(q, new, out, used)
    BY DEF Linked
  <1>1. None \notin q.known
    BY DEF Linked, RowsInv
  <1>2. /\ q.token \in q.known /\ q.known \subseteq out /\ (q.late => q.token \in used)
        /\ (q.step = "write" => ~q.late)
    BY DEF Linked
  <1>3. ASSUME q.step \in {"discard", "write"}
        PROVE  /\ \A v \in User : new[v].token = q.token => v = q.user
               /\ new[q.user].token \in q.known => new[q.user].token = q.token
    BY <1>1, <1>3 DEF Linked, Fewer, Named
  <1>4. ASSUME q.step = "discard", new[q.user].token = q.token PROVE new[q.user].expired
    <2>1. q.user \in User /\ new[q.user].token # None
      BY <1>1, <1>2, <1>4 DEF Named
    <2>2. new[q.user].token = rows[q.user].token /\ (rows[q.user].expired => new[q.user].expired)
      BY <2>1 DEF Fewer
    <2>3. rows[q.user].expired
      BY <1>4, <2>2 DEF Linked
    <2> QED BY <2>2, <2>3
  <1> QED BY <1>2, <1>3, <1>4 DEF Linked

\* A new token takes the place of what its row had: no request knows it.
LEMMA NewTokenKeeps ==
    ASSUME NEW rows, NEW new \in [User -> Row], NEW out, NEW used, RowsInv(rows, out, used),
           NEW u \in User, NEW t \in Token \ out, new[u].token = t,
           \A v \in User \ {u} : new[v] = rows[v]
    PROVE  /\ RowsInv(new, out \cup {t}, used)
           /\ \A q : Named(q) /\ Linked(q, rows, out, used) => Linked(q, new, out \cup {t}, used)
  <1>1. RowsInv(new, out \cup {t}, used)
    BY DEF RowsInv
  <1>2. ASSUME NEW q, Named(q), Linked(q, rows, out, used), q.op = "reset"
        PROVE  Linked(q, new, out \cup {t}, used)
    <2>1. q.token \in q.known /\ q.known \subseteq out /\ t \notin q.known
      BY <1>2 DEF Linked
    <2>2. \A v \in User : new[v].token \in q.known => new[v] = rows[v]
      BY <2>1
    <2> QED BY <1>2, <2>1, <2>2 DEF Linked, Named
  <1>3. ASSUME NEW q, q.op # "reset" PROVE Linked(q, new, out \cup {t}, used)
    BY <1>3 DEF Linked
  <1> QED BY <1>1, <1>2, <1>3

-----------------------------------------------------------------------------
(* A step of one request *)

Rest == /\ jwt \subseteq User
        /\ forms \subseteq Email
        /\ notified \in [Email -> Nat]
        /\ \A e \in Email : notified[e] = IF e \in forms THEN 1 ELSE 0

LEMMA Parts ==
    IInv <=> /\ StoreInv /\ Rest /\ RowsInv(row, mailed, spent)
             /\ req \in [Request -> Req]
             /\ \A r \in Request : Named(req[r]) /\ Linked(req[r], row, mailed, spent)
  BY DEF IInv, TypeOK, StoreInv, Rest, RowsInv, UsersTypeOK

LEMMA PartsLater ==
    ASSUME StoreInv', Rest', RowsInv(row', mailed', spent'), req' \in [Request -> Req],
           \A r \in Request : Named(req'[r]) /\ Linked(req'[r], row', mailed', spent')
    PROVE  IInv'
  BY DEF IInv, TypeOK, StoreInv, Rest, RowsInv, UsersTypeOK, Named, Linked

LEMMA IdleIsHarmless ==
    /\ Idle \in Req
    /\ Named(Idle)
    /\ \A rows, out, used : Linked(Idle, rows, out, used)
  BY DEF Idle, Req, Op, Named, Linked

\* The request goes on; every other is as good as it was.
LEMMA Moves ==
    ASSUME IInv, NEW r \in Request, NEW q \in Req, req' = [req EXCEPT ![r] = q],
           Named(q), Linked(q, row', mailed', spent'),
           \A m \in Request : Linked(req[m], row', mailed', spent'),
           StoreInv', Rest', RowsInv(row', mailed', spent')
    PROVE  IInv'
  <1>1. req \in [Request -> Req] /\ \A m \in Request : Named(req[m])
    BY DEF IInv, TypeOK
  <1>2. req' \in [Request -> Req]
    BY <1>1
  <1>3. \A m \in Request : Named(req'[m]) /\ Linked(req'[m], row', mailed', spent')
    BY <1>1
  <1> QED BY <1>2, <1>3, PartsLater

\* Nothing is written.
LEMMA MovesQuietly ==
    ASSUME IInv, NEW r \in Request, NEW q \in Req, req' = [req EXCEPT ![r] = q],
           Named(q), Linked(q, row, mailed, spent), UNCHANGED <<userVars, resetVars>>
    PROVE  IInv'
  <1>1. row' = row /\ mailed' = mailed /\ spent' = spent
    BY DEF userVars, usersVars, resetVars
  <1>2. StoreInv' /\ Rest'
    BY Parts DEF userVars, usersVars, resetVars, StoreInv, UsersTypeOK, IdentitiesAreDistinct,
       Exists, Unborn, Rest
  <1>3. RowsInv(row', mailed', spent') /\ \A m \in Request : Linked(req[m], row', mailed', spent')
    BY <1>1, Parts
  <1>4. Linked(q, row', mailed', spent')
    BY <1>1
  <1> QED BY <1>2, <1>3, <1>4, Moves

LEMMA Answered ==
    ASSUME IInv, NEW r \in Request, Answer(r), UNCHANGED <<userVars, resetVars>>
    PROVE  IInv'
  BY IdleIsHarmless, MovesQuietly DEF Answer

\* The rows are written, and the request answered: no row has a new token.
LEMMA WritesAndAnswers ==
    ASSUME IInv, NEW r \in Request, Answer(r), StoreInv', Fewer(row, row'), Rest',
           UNCHANGED <<mailed, spent>>
    PROVE  IInv'
  <1>1. row' \in [User -> Row]
    BY DEF StoreInv, UsersTypeOK
  <1>2. RowsInv(row, mailed, spent) /\ \A m \in Request : Named(req[m]) /\ Linked(req[m], row, mailed, spent)
    BY Parts
  <1>3. RowsInv(row', mailed, spent)
    BY <1>1, <1>2, TokensKeep
  <1>4. \A m \in Request : Linked(req[m], row', mailed, spent)
    BY <1>2, LinksKeep
  <1>5. RowsInv(row', mailed', spent') /\ \A m \in Request : Linked(req[m], row', mailed', spent')
    BY <1>3, <1>4
  <1>6. Idle \in Req /\ Named(Idle) /\ Linked(Idle, row', mailed', spent')
    BY IdleIsHarmless
  <1> QED BY <1>5, <1>6, Moves DEF Answer
-----------------------------------------------------------------------------
(* The requests of /users and of POST /auth/sessions *)

\* A request that is no reset goes on with what it holds.
LEMMA GoesOn ==
    ASSUME IInv, NEW r \in Request, req[r].op # "reset",
           NEW step \in {"find", "conflict", "discard", "write"},
           req[r].op \in {"register", "update", "delete", "submit"},
           Go(r, step), UNCHANGED <<userVars, resetVars>>
    PROVE  IInv'
  <1> DEFINE q == [req[r] EXCEPT !.step = step]
  <1>1. req[r] \in Req /\ Named(req[r])
    BY DEF IInv, TypeOK
  <1>2. q \in Req /\ q.op = req[r].op /\ q.user = req[r].user /\ q.email = req[r].email
    BY <1>1 DEF Req
  <1>3. req' = [req EXCEPT ![r] = q]
    BY DEF Go
  <1> HIDE DEF q
  <1>4. Named(q) /\ Linked(q, row, mailed, spent)
    BY <1>1, <1>2 DEF Named, Linked
  <1> QED BY <1>2, <1>3, <1>4, MovesQuietly

\* A login or a request for a link has found its account.
LEMMA Finds ==
    ASSUME IInv, NEW r \in Request, req[r].op \in {"login", "forgot"}, NEW u \in User,
           GoWith(r, u, "write"), UNCHANGED <<userVars, resetVars>>
    PROVE  IInv'
  <1> DEFINE q == [req[r] EXCEPT !.step = "write", !.user = u]
  <1>1. req[r] \in Req
    BY DEF IInv, TypeOK
  <1>2. q \in Req /\ q.op = req[r].op /\ q.user = u
    BY <1>1 DEF Req
  <1>3. req' = [req EXCEPT ![r] = q]
    BY DEF GoWith
  <1> HIDE DEF q
  <1>4. Named(q) /\ Linked(q, row, mailed, spent)
    BY <1>2 DEF Named, Linked
  <1> QED BY <1>2, <1>3, <1>4, MovesQuietly

\* A request comes in that is no reset.
LEMMA Comes ==
    ASSUME IInv, NEW r \in Request, NEW q \in Req, q.op # "reset", q.step = "find",
           q.op \in {"update", "delete"} => q.user \in User,
           q.op = "submit" => q.email \in Email,
           Arrive(r, q), UNCHANGED <<userVars, resetVars>>
    PROVE  IInv'
  <1>1. Named(q) /\ Linked(q, row, mailed, spent)
    BY DEF Named, Linked
  <1> QED BY <1>1, MovesQuietly DEF Arrive

LEMMA UserArrivals ==
    ASSUME IInv, NEW r \in Request, UNCHANGED resetVars,
           register(r) \/ updateUser(r) \/ deleteUser(r) \/ authenticateUser(r)
    PROVE  IInv'
  <1>1. CASE register(r)
    <2>1. PICK e \in Email, ids \in {User \ Admin, Admin} :
             Arrive(r, [Idle EXCEPT !.op = "register", !.step = "find", !.email = e, !.ids = ids])
      BY <1>1 DEF register
    <2> DEFINE q == [Idle EXCEPT !.op = "register", !.step = "find", !.email = e, !.ids = ids]
    <2>2. q \in Req /\ q.op = "register" /\ q.step = "find"
      BY DEF Idle, Req, Op
    <2>3. UNCHANGED userVars
      BY <1>1 DEF register
    <2> HIDE DEF q
    <2>4. Arrive(r, q)
      BY <2>1 DEF q
    <2> QED BY <2>2, <2>3, <2>4, Comes
  <1>2. CASE updateUser(r)
    <2>1. PICK c \in jwt, e \in Email :
             Arrive(r, [Idle EXCEPT !.op = "update", !.step = "find", !.user = c, !.email = e])
      BY <1>2 DEF updateUser
    <2> DEFINE q == [Idle EXCEPT !.op = "update", !.step = "find", !.user = c, !.email = e]
    <2>2. c \in User
      BY Parts DEF Rest
    <2>3. q \in Req /\ q.op = "update" /\ q.step = "find" /\ q.user = c
      BY <2>2 DEF Idle, Req, Op
    <2>4. UNCHANGED userVars
      BY <1>2 DEF updateUser
    <2> HIDE DEF q
    <2>5. Arrive(r, q)
      BY <2>1 DEF q
    <2> QED BY <2>2, <2>3, <2>4, <2>5, Comes
  <1>3. CASE deleteUser(r)
    <2>1. PICK n \in User : Arrive(r, [Idle EXCEPT !.op = "delete", !.step = "find", !.user = n])
      BY <1>3 DEF deleteUser
    <2> DEFINE q == [Idle EXCEPT !.op = "delete", !.step = "find", !.user = n]
    <2>2. q \in Req /\ q.op = "delete" /\ q.step = "find" /\ q.user = n
      BY DEF Idle, Req, Op
    <2>3. UNCHANGED userVars
      BY <1>3 DEF deleteUser
    <2> HIDE DEF q
    <2>4. Arrive(r, q)
      BY <2>1 DEF q
    <2> QED BY <2>2, <2>3, <2>4, Comes
  <1>4. CASE authenticateUser(r)
    <2>1. PICK e \in Email : Arrive(r, [Idle EXCEPT !.op = "login", !.step = "find", !.email = e])
      BY <1>4 DEF authenticateUser
    <2> DEFINE q == [Idle EXCEPT !.op = "login", !.step = "find", !.email = e]
    <2>2. q \in Req /\ q.op = "login" /\ q.step = "find"
      BY DEF Idle, Req, Op
    <2>3. UNCHANGED userVars
      BY <1>4 DEF authenticateUser
    <2> HIDE DEF q
    <2>4. Arrive(r, q)
      BY <2>1 DEF q
    <2> QED BY <2>2, <2>3, <2>4, Comes
  <1> QED BY <1>1, <1>2, <1>3, <1>4

LEMMA UserFinds ==
    ASSUME IInv, NEW r \in Request, UNCHANGED resetVars,
           findExistingUser(r) \/ FindUpdated(r) \/ findUniquenessConflict(r) \/ FindDeleted(r)
               \/ findByLogin(r) \/ StatementFails(r)
    PROVE  IInv'
  <1>1. UNCHANGED <<userVars, resetVars>>
    BY DEF findExistingUser, FindUpdated, findUniquenessConflict, FindDeleted, findByLogin, StatementFails
  <1>2. CASE Answer(r)
    BY <1>1, <1>2, Answered
  <1>3. CASE req[r].op \in {"register", "update", "delete"} /\ (Go(r, "write") \/ Go(r, "conflict"))
    BY <1>1, <1>3, GoesOn
  <1>4. CASE req[r].op = "login" /\ \E u \in User : GoWith(r, u, "write")
    BY <1>1, <1>4, Finds
  <1> QED BY <1>2, <1>3, <1>4 DEF findExistingUser, FindUpdated, findUniquenessConflict, FindDeleted,
         findByLogin, StatementFails, At, findBy

\* What is not in the users' table stays.
LEMMA RestStays == ASSUME Rest, UNCHANGED <<jwt, forms, notified>> PROVE Rest'
  BY DEF Rest

LEMMA UserWrites ==
    ASSUME IInv, NEW r \in Request, UNCHANGED resetVars,
           RegisterUser(r) \/ UpdateUser(r) \/ DeleteUser(r) \/ AuditLogin(r)
    PROVE  IInv'
  <1>1. StoreInv /\ Rest /\ Named(req[r]) /\ req[r] \in Req
    BY Parts
  <1>2. UNCHANGED <<mailed, forms, notified, spent>>
    BY DEF resetVars
  <1>3. CASE RegisterUser(r)
    <2>1. create(req[r].email, req[r].ids) /\ Answer(r) /\ jwt' = jwt
      BY <1>3 DEF RegisterUser
    <2>2. req[r].email \in Email \cup {None} /\ req[r].ids \in SUBSET User
      BY <1>1 DEF Req
    <2>3. StoreInv' /\ Fewer(row, row')
      BY <1>1, <2>1, <2>2, CreateKeeps
    <2> QED BY <1>1, <1>2, <2>1, <2>3, RestStays, WritesAndAnswers
  <1>4. CASE UpdateUser(r)
    <2>1. update(req[r].user, req[r].email) /\ Answer(r) /\ jwt' = jwt
      BY <1>4 DEF UpdateUser
    <2>2. req[r].email \in Email \cup {None} /\ req[r].user \in User
      BY <1>1, <1>4 DEF UpdateUser, At, Named, Req
    <2>3. StoreInv' /\ Fewer(row, row')
      BY <1>1, <2>1, <2>2, UpdateKeeps
    <2> QED BY <1>1, <1>2, <2>1, <2>3, RestStays, WritesAndAnswers
  <1>5. CASE DeleteUser(r)
    <2>1. delete(req[r].user) /\ Answer(r) /\ jwt' = jwt
      BY <1>5 DEF DeleteUser
    <2>2. req[r].user \in User
      BY <1>1, <1>5 DEF DeleteUser, At, Named
    <2>3. StoreInv' /\ Fewer(row, row')
      BY <1>1, <2>1, <2>2, DeleteKeeps
    <2> QED BY <1>1, <1>2, <2>1, <2>3, RestStays, WritesAndAnswers
  <1>6. CASE AuditLogin(r)
    <2>1. /\ createAudit(req[r].user) \/ UNCHANGED usersVars
          /\ jwt' \in {jwt, jwt \cup {req[r].user}}
          /\ Answer(r)
      BY <1>6 DEF AuditLogin
    <2>2. req[r].user \in User
      BY <1>1, <1>6 DEF AuditLogin, At, Named
    <2>3. StoreInv' /\ row' = row
      BY <1>1, <2>1, <2>2, AuditKeeps
    <2>4. Fewer(row, row')
      BY <2>3 DEF Fewer
    <2>5. Rest'
      BY <1>1, <1>2, <2>1, <2>2 DEF Rest
    <2> QED BY <1>2, <2>1, <2>3, <2>4, <2>5, WritesAndAnswers
  <1> QED BY <1>3, <1>4, <1>5, <1>6
-----------------------------------------------------------------------------
(* The requests that go with the outbox *)

LEMMA ResetArrivals ==
    ASSUME IInv, NEW r \in Request, forgotPassword(r) \/ formSubmission(r) \/ resetPassword(r)
    PROVE  IInv'
  <1>1. UNCHANGED <<userVars, resetVars>>
    BY DEF forgotPassword, formSubmission, resetPassword
  <1>2. CASE forgotPassword(r) \/ formSubmission(r)
    <2>1. PICK e \in Email, op \in {"forgot", "submit"} :
             Arrive(r, [Idle EXCEPT !.op = op, !.step = "find", !.email = e])
      BY <1>2 DEF forgotPassword, formSubmission
    <2> DEFINE q == [Idle EXCEPT !.op = op, !.step = "find", !.email = e]
    <2>2. q \in Req /\ q.op = op /\ q.step = "find" /\ q.email = e
      BY DEF Idle, Req, Op
    <2> HIDE DEF q
    <2>3. Arrive(r, q)
      BY <2>1 DEF q
    <2> QED BY <1>1, <2>2, <2>3, Comes
  <1>3. CASE resetPassword(r)
    <2>1. PICK t \in mailed :
             Arrive(r, [Idle EXCEPT !.op = "reset", !.step = "find", !.token = t,
                                    !.late = t \in spent, !.known = mailed])
      BY <1>3 DEF resetPassword
    <2> DEFINE late == t \in spent
               q == [Idle EXCEPT !.op = "reset", !.step = "find", !.token = t,
                                 !.late = late, !.known = mailed]
    <2>2. mailed \subseteq Token /\ t \in Token /\ late \in BOOLEAN
      BY Parts DEF RowsInv
    <2>3. q \in Req /\ q.op = "reset" /\ q.step = "find" /\ q.token = t /\ q.known = mailed
          /\ (q.late => t \in spent)
      <3>1. late => t \in spent
        OBVIOUS
      <3> HIDE DEF late
      <3> QED BY <2>2, <3>1 DEF Idle, Req, Op
    <2>4. req' = [req EXCEPT ![r] = q]
      BY <2>1 DEF Arrive
    <2> HIDE DEF q
    <2>5. Named(q) /\ Linked(q, row, mailed, spent)
      BY <2>3 DEF Named, Linked
    <2> QED BY <1>1, <2>3, <2>4, <2>5, MovesQuietly
  <1> QED BY <1>2, <1>3

\* A reset has found the account its token is in: the token is not spent.
LEMMA ResetFinds ==
    ASSUME IInv, NEW r \in Request, FindReset(r) PROVE IInv'
  <1>1. /\ req[r] \in Req /\ req[r].op = "reset" /\ Linked(req[r], row, mailed, spent)
        /\ RowsInv(row, mailed, spent) /\ UNCHANGED <<userVars, resetVars>>
    BY Parts DEF FindReset, At
  <1>2. CASE Answer(r)
    BY <1>1, <1>2, Answered
  <1>3. CASE \E u \in findByToken(req[r].token) :
                GoWith(r, u, IF row[u].expired THEN "discard" ELSE "write")
    <2>1. PICK u \in User : /\ row[u].token = req[r].token
                            /\ GoWith(r, u, IF row[u].expired THEN "discard" ELSE "write")
      BY <1>3 DEF findByToken
    <2> DEFINE step == IF row[u].expired THEN "discard" ELSE "write"
               q == [req[r] EXCEPT !.step = step, !.user = u]
    <2>2. step \in {"discard", "write"} /\ (step = "discard" => row[u].expired)
      OBVIOUS
    <2> HIDE DEF step
    <2>3. /\ q \in Req /\ q.op = "reset" /\ q.step = step /\ q.user = u /\ q.token = req[r].token
          /\ q.known = req[r].known /\ q.late = req[r].late
      BY <1>1, <2>2 DEF Req
    <2>4. req' = [req EXCEPT ![r] = q]
      BY <2>1 DEF GoWith, step
    <2> HIDE DEF q
    <2>5. /\ q.token \in q.known /\ q.known \subseteq mailed /\ (q.late => q.token \in spent)
      BY <1>1, <2>3 DEF Linked
    <2>6. q.token \notin spent /\ q.token # None
      BY <1>1, <2>1, <2>3, <2>5 DEF RowsInv
    <2>7. \A v \in User : row[v].token = q.token => v = u
      BY <1>1, <2>1, <2>3, <2>6 DEF RowsInv
    <2>8. Named(q) /\ Linked(q, row, mailed, spent)
      BY <2>1, <2>2, <2>3, <2>5, <2>6, <2>7 DEF Named, Linked
    <2> QED BY <1>1, <2>3, <2>4, <2>8, MovesQuietly
  <1> QED BY <1>2, <1>3 DEF FindReset

LEMMA OutboxFinds ==
    ASSUME IInv, NEW r \in Request, FindForgetful(r) \/ FindForm(r) \/ Rollback(r) PROVE IInv'
  <1>1. UNCHANGED <<userVars, resetVars>>
    BY DEF FindForgetful, FindForm, Rollback
  <1>2. CASE Answer(r)
    BY <1>1, <1>2, Answered
  <1>3. CASE FindForm(r) /\ Go(r, "write")
    BY <1>1, <1>3, GoesOn DEF FindForm, At
  <1>4. CASE FindForgetful(r) /\ \E u \in User : GoWith(r, u, "write")
    BY <1>1, <1>4, Finds DEF FindForgetful, At
  <1> QED BY <1>2, <1>3, <1>4 DEF FindForgetful, FindForm, Rollback, findBy

LEMMA ForgotKeeps ==
    ASSUME IInv, NEW r \in Request, ForgotPassword(r) PROVE IInv'
  <1>1. /\ StoreInv /\ Rest /\ RowsInv(row, mailed, spent) /\ req[r].user \in User
        /\ \A m \in Request : Named(req[m]) /\ Linked(req[m], row, mailed, spent)
    BY Parts DEF ForgotPassword, At, Named
  <1>2. /\ Answer(r) /\ UNCHANGED <<jwt, forms, notified>> /\ spent' = spent
    BY DEF ForgotPassword
  <1>3. Rest'
    BY <1>1, <1>2, RestStays
  <1> DEFINE u == req[r].user
  <1>4. PICK t \in Token \ mailed : /\ updatePassword(u, t)
                                    /\ mailed' = IF Exists(u) THEN mailed \cup {t} ELSE mailed
    BY DEF ForgotPassword
  <1>5. /\ StoreInv' /\ \A v \in User \ {u} : row'[v] = row[v]
        /\ (~Exists(u) => row' = row) /\ (Exists(u) => row'[u].token = t)
    BY <1>1, <1>4, PasswordKeeps
  <1>6. CASE ~Exists(u)
    <2>1. mailed' = mailed /\ row' = row
      BY <1>4, <1>5, <1>6
    <2>2. Fewer(row, row')
      BY <2>1 DEF Fewer
    <2> QED BY <1>2, <1>3, <1>5, <2>1, <2>2, WritesAndAnswers
  <1>7. CASE Exists(u)
    <2>1. mailed' = mailed \cup {t} /\ row' \in [User -> Row]
      BY <1>4, <1>5, <1>7 DEF StoreInv, UsersTypeOK
    <2>2. /\ RowsInv(row', mailed \cup {t}, spent)
          /\ \A q : Named(q) /\ Linked(q, row, mailed, spent) => Linked(q, row', mailed \cup {t}, spent)
      BY <1>1, <1>5, <1>7, <2>1, NewTokenKeeps
    <2>3. RowsInv(row', mailed', spent') /\ \A m \in Request : Linked(req[m], row', mailed', spent')
      BY <1>1, <1>2, <2>1, <2>2
    <2>4. Idle \in Req /\ Named(Idle) /\ Linked(Idle, row', mailed', spent')
      BY IdleIsHarmless
    <2> QED BY <1>2, <1>3, <1>5, <2>3, <2>4, Moves DEF Answer
  <1> QED BY <1>6, <1>7

LEMMA DiscardKeeps ==
    ASSUME IInv, NEW r \in Request, discardExpiredToken(r) PROVE IInv'
  <1>1. StoreInv /\ Rest /\ req[r].user \in User
    BY Parts DEF discardExpiredToken, At, Named
  <1>2. Answer(r) /\ UNCHANGED <<jwt, forms, notified, mailed, spent>> /\ updatePassword(req[r].user, None)
    BY DEF discardExpiredToken, resetVars
  <1>3. /\ StoreInv' /\ \A v \in User \ {req[r].user} : row'[v] = row[v]
        /\ row' = row \/ row'[req[r].user].token = None
    BY <1>1, <1>2, PasswordKeeps
  <1>4. Fewer(row, row')
    BY <1>3 DEF Fewer
  <1> QED BY <1>1, <1>2, <1>3, <1>4, RestStays, WritesAndAnswers

\* The token is spent, and in no row any more.
LEMMA ResetKeeps ==
    ASSUME IInv, NEW r \in Request, ResetPassword(r) PROVE IInv'
  <1>1. /\ StoreInv /\ Rest /\ RowsInv(row, mailed, spent) /\ req[r].user \in User
        /\ req[r].op = "reset" /\ req[r].step = "write"
        /\ \A m \in Request : Named(req[m]) /\ Linked(req[m], row, mailed, spent)
    BY Parts DEF ResetPassword, At, Named
  <1> DEFINE u == req[r].user
             t == req[r].token
  <1>2. /\ Answer(r) /\ UNCHANGED <<jwt, forms, notified>> /\ mailed' = mailed
        /\ updatePassword(u, None)
        /\ spent' = IF Exists(u) THEN spent \cup {t} ELSE spent
    BY DEF ResetPassword
  <1>3. Rest'
    BY <1>1, <1>2, RestStays
  <1>4. /\ StoreInv' /\ \A v \in User \ {u} : row'[v] = row[v]
        /\ (~Exists(u) => row' = row) /\ (Exists(u) => row'[u].token = None)
    BY <1>1, <1>2, PasswordKeeps
  <1>5. Fewer(row, row')
    BY <1>4 DEF Fewer
  <1>6. CASE ~Exists(u)
    BY <1>2, <1>3, <1>4, <1>5, <1>6, WritesAndAnswers
  <1>7. CASE Exists(u)
    <2>1. t \in mailed /\ \A v \in User : row[v].token = t => v = u
      BY <1>1 DEF Linked
    <2>2. row' \in [User -> Row]
      BY <1>4 DEF StoreInv, UsersTypeOK
    <2>3. RowsInv(row', mailed, spent)
      BY <1>1, <1>5, <2>2, TokensKeep
    <2>4. t # None
      BY <1>1, <2>1 DEF RowsInv
    <2>5. \A v \in User : row'[v].token # t
      BY <1>4, <1>7, <2>1, <2>4
    <2>6. RowsInv(row', mailed', spent')
      BY <1>2, <1>7, <2>1, <2>3, <2>5 DEF RowsInv
    <2>7. ASSUME NEW m \in Request PROVE Linked(req[m], row', mailed', spent')
      <3>1. Linked(req[m], row', mailed, spent)
        BY <1>1, <1>5, LinksKeep
      <3> QED BY <1>2, <3>1 DEF Linked
    <2>8. Idle \in Req /\ Named(Idle) /\ Linked(Idle, row', mailed', spent')
      BY IdleIsHarmless
    <2> QED BY <1>2, <1>3, <1>4, <2>6, <2>7, <2>8, Moves DEF Answer
  <1> QED BY <1>6, <1>7

\* One row, and one notification about it.
LEMMA SubmitKeeps ==
    ASSUME IInv, NEW r \in Request, SubmitForm(r) PROVE IInv'
  <1>1. /\ StoreInv /\ Rest /\ req[r].email \in Email /\ Answer(r)
        /\ UNCHANGED userVars /\ UNCHANGED <<mailed, spent>>
    BY Parts DEF SubmitForm, At, Named
  <1>2. StoreInv' /\ row' = row
    BY <1>1 DEF userVars, usersVars, StoreInv, UsersTypeOK, IdentitiesAreDistinct, Exists, Unborn
  <1>3. Fewer(row, row')
    BY <1>2 DEF Fewer
  <1>4. Rest'
    <2>1. CASE req[r].email \in forms
      BY <1>1, <2>1 DEF SubmitForm, Rest, userVars
    <2>2. CASE req[r].email \notin forms
      <3>1. notified' = [notified EXCEPT ![req[r].email] = notified[req[r].email] + 1]
        BY <2>2 DEF SubmitForm
      <3>2. forms' = forms \cup {req[r].email} /\ jwt' = jwt
        BY DEF SubmitForm, userVars
      <3> QED BY <1>1, <2>2, <3>1, <3>2 DEF Rest
    <2> QED BY <2>1, <2>2
  <1> QED BY <1>1, <1>2, <1>3, <1>4, WritesAndAnswers
-----------------------------------------------------------------------------
(* The theorems *)

LEMMA Initially == Init => IInv
  <1> SUFFICES ASSUME Init PROVE IInv
    OBVIOUS
  <1>1. StoreInv
    <2>1. UsersTypeOK
      BY DEF Init, UsersInit, UsersTypeOK
    <2>2. \A u \in User : Exists(u) <=> u \in Admin
      BY DEF Init, UsersInit
    <2>3. IdentitiesAreDistinct
      <3> SUFFICES ASSUME NEW u \in User, NEW v \in User, Exists(u), row[u].email = row[v].email
                   PROVE  u = v
        BY DEF IdentitiesAreDistinct
      <3>1. Exists(v)
        BY DEF Exists
      <3> QED BY <2>2, <3>1 DEF Init, UsersInit
    <2>4. Unborn
      <3> SUFFICES ASSUME NEW u \in User \ born PROVE row[u] = Nobody
        BY DEF Unborn
      <3>1. row[u].email = None
        BY <2>2 DEF Init, UsersInit, Exists
      <3>2. row[u] \in Row /\ row[u].token = None /\ ~row[u].expired
        BY DEF Init, UsersInit
      <3> QED BY <3>1, <3>2 DEF Row, Nobody
    <2> QED BY <2>1, <2>3, <2>4 DEF StoreInv
  <1>2. RowsInv(row, mailed, spent)
    BY DEF Init, UsersInit, RowsInv
  <1>3. Rest
    BY DEF Init, Rest
  <1>4. req \in [Request -> Req] /\ \A r \in Request : Named(req[r]) /\ Linked(req[r], row, mailed, spent)
    BY IdleIsHarmless DEF Init
  <1> QED BY <1>1, <1>2, <1>3, <1>4, Parts

LEMMA ClockKeeps ==
    ASSUME IInv, NEW u \in User, Clock(u) PROVE IInv'
  <1>1. TokenExpires(u) /\ UNCHANGED <<req, jwt, mailed, forms, notified, spent>>
    BY DEF Clock, resetVars
  <1>2. /\ StoreInv /\ Rest /\ RowsInv(row, mailed, spent) /\ req \in [Request -> Req]
        /\ \A r \in Request : Named(req[r]) /\ Linked(req[r], row, mailed, spent)
    BY Parts
  <1>3. StoreInv' /\ Fewer(row, row')
    BY <1>1, <1>2, ExpiryKeeps
  <1>4. row' \in [User -> Row]
    BY <1>3 DEF StoreInv, UsersTypeOK
  <1>5. RowsInv(row', mailed, spent)
    BY <1>2, <1>3, <1>4, TokensKeep
  <1>6. \A r \in Request : Linked(req[r], row', mailed, spent)
    BY <1>2, <1>3, LinksKeep
  <1>7. RowsInv(row', mailed', spent') /\ req' \in [Request -> Req]
    BY <1>1, <1>2, <1>5
  <1>8. \A r \in Request : Named(req'[r]) /\ Linked(req'[r], row', mailed', spent')
    BY <1>1, <1>2, <1>6
  <1>9. Rest'
    BY <1>1, <1>2, RestStays
  <1> QED BY <1>3, <1>7, <1>8, <1>9, PartsLater

LEMMA StutterKeeps == ASSUME IInv, UNCHANGED vars PROVE IInv'
  BY DEF vars, IInv, TypeOK, UsersTypeOK, IdentitiesAreDistinct, Exists, Unborn

LEMMA Inductive == IInv /\ [Next]_vars => IInv'
  <1> SUFFICES ASSUME IInv, [Next]_vars PROVE IInv'
    OBVIOUS
  <1>1. ASSUME NEW r \in Request, UserNext(r), UNCHANGED resetVars PROVE IInv'
    BY <1>1, UserArrivals, UserFinds, UserWrites DEF UserNext
  <1>2. ASSUME NEW r \in Request, ResetNext(r) PROVE IInv'
    BY <1>2, ResetArrivals, ResetFinds, OutboxFinds, ForgotKeeps, DiscardKeeps, ResetKeeps, SubmitKeeps
       DEF ResetNext
  <1>3. ASSUME NEW u \in User, Clock(u) PROVE IInv'
    BY <1>3, ClockKeeps
  <1>4. CASE UNCHANGED vars
    BY <1>4, StutterKeeps
  <1> QED BY <1>1, <1>2, <1>3, <1>4 DEF Next

LEMMA Always == Spec => []IInv
  BY Initially, Inductive, PTL DEF Spec

\* Rows, requests, tokens and notifications have their types.
THEOREM AccountsAreTyped == Spec => []TypeOK
  <1>1. IInv => TypeOK
    BY DEF IInv
  <1> QED BY <1>1, Always, PTL

\* No two accounts share an address, whatever the registrations and updates that
\* wrote them had read before (register-user.service.ts, update-user.service.ts).
THEOREM IdentitiesStayDistinct == Spec => []IdentitiesAreDistinct
  <1>1. IInv => IdentitiesAreDistinct
    BY DEF IInv
  <1> QED BY <1>1, Always, PTL

\* A token in a row was mailed, and a form has one notification: what the decorator's
\* transaction writes is there as a whole (transactional-use-case.decorator.ts).
THEOREM CommitsAreWhole == Spec => []CommittedTogether
  <1>1. IInv => CommittedTogether
    <2> SUFFICES ASSUME IInv PROVE CommittedTogether
      OBVIOUS
    <2>1. \A u \in User : row[u].token # None => row[u].token \in mailed
      BY DEF IInv, RowsInv
    <2> QED BY <2>1 DEF IInv, CommittedTogether
  <1> QED BY <1>1, Always, PTL

\* A reset that came after another was answered success for the same token is
\* refused (reset-password.service.ts).
THEOREM LinksAreOfUseOnce == Spec => []SpentTokensAreDead
  <1>1. IInv => SpentTokensAreDead
    BY DEF IInv, RowsInv, Linked, At, SpentTokensAreDead
  <1> QED BY <1>1, Always, PTL

-----------------------------------------------------------------------------
(* What may clear a live link *)

LEMMA FewWritesClear ==
    ASSUME StoreInv, NEW u \in User, LiveLink(u),
           \/ \E e \in Email \cup {None}, ids \in SUBSET User : create(e, ids)
           \/ \E v \in User, e \in Email \cup {None} : update(v, e)
           \/ \E v \in User : TokenExpires(v)
           \/ row' = row
    PROVE  row'[u].token = row[u].token
  <1>1. ASSUME NEW e, NEW ids \in SUBSET User, create(e, ids) PROVE row'[u].token = row[u].token
    <2>1. u \in born
      BY DEF StoreInv, Unborn, LiveLink, Nobody
    <2>2. row'[u] = row[u]
      BY <1>1, <2>1 DEF create, usersVars, StoreInv, UsersTypeOK
    <2> QED BY <2>2
  <1>2. ASSUME NEW v \in User, NEW e, update(v, e) PROVE row'[u].token = row[u].token
    BY <1>2 DEF update, StoreInv, UsersTypeOK, Row
  <1>3. ASSUME NEW v \in User, TokenExpires(v) PROVE row'[u].token = row[u].token
    BY <1>3, ExpiryKeeps
  <1> QED BY <1>1, <1>2, <1>3

LEMMA ClearsAreAsked ==
    ASSUME IInv, [Next]_vars, NEW u \in User, LiveLink(u), row'[u].token # row[u].token
    PROVE  \E r \in Request : MayClear(r, u)
  <1>1. /\ StoreInv /\ \A r \in Request : req[r] \in Req /\ Named(req[r]) /\ Linked(req[r], row, mailed, spent)
    BY Parts
  <1>2. ASSUME NEW r \in Request, DeleteUser(r) PROVE MayClear(r, u)
    <2>1. At(r, "delete", "write") /\ delete(req[r].user)
      BY <1>2 DEF DeleteUser
    <2>2. req[r].user \in User
      BY <1>1, <2>1 DEF At, Named
    <2>3. req[r].user = u
      BY <1>1, <2>1, <2>2, DeleteKeeps
    <2> QED BY <2>1, <2>3 DEF MayClear
  <1>3. ASSUME NEW r \in Request, ForgotPassword(r) PROVE MayClear(r, u)
    <2>1. At(r, "forgot", "write") /\ \E t \in Token : updatePassword(req[r].user, t)
      BY <1>3 DEF ForgotPassword
    <2>2. req[r].user \in User
      BY <1>1, <2>1 DEF At, Named
    <2>3. req[r].user = u
      BY <1>1, <2>1, <2>2, PasswordKeeps
    <2> QED BY <2>1, <2>3 DEF MayClear
  <1>4. ASSUME NEW r \in Request, discardExpiredToken(r) \/ ResetPassword(r) PROVE MayClear(r, u)
    <2>1. req[r].op = "reset" /\ req[r].step \in {"discard", "write"} /\ updatePassword(req[r].user, None)
      BY <1>4 DEF discardExpiredToken, ResetPassword, At
    <2>2. req[r].user \in User
      BY <1>1, <2>1 DEF Named
    <2>3. req[r].user = u
      BY <1>1, <2>1, <2>2, PasswordKeeps
    <2>4. row[u].token \in req[r].known => row[u].token = req[r].token
      BY <1>1, <2>1, <2>3 DEF Linked
    <2>5. req[r].step = "discard" => row[u].token # req[r].token
      BY <1>1, <2>1, <2>3 DEF Linked, LiveLink
    <2>6. CASE row[u].token \in req[r].known
      BY <2>1, <2>4, <2>5, <2>6 DEF MayClear, At
    <2>7. CASE row[u].token \notin req[r].known
      BY <2>1, <2>3, <2>7 DEF MayClear
    <2> QED BY <2>6, <2>7
  <1>5. ASSUME NEW r \in Request, RegisterUser(r) \/ UpdateUser(r) PROVE FALSE
    <2>1. req[r].email \in Email \cup {None} /\ req[r].ids \in SUBSET User
      BY <1>1 DEF Req
    <2>2. CASE RegisterUser(r)
      BY <1>1, <2>1, <2>2, FewWritesClear DEF RegisterUser
    <2>3. CASE UpdateUser(r)
      <3>1. req[r].user \in User
        BY <1>1, <2>3 DEF UpdateUser, At, Named
      <3> QED BY <1>1, <2>1, <2>3, <3>1, FewWritesClear DEF UpdateUser
    <2> QED BY <1>5, <2>2, <2>3
  <1>6. ASSUME NEW v \in User, Clock(v) PROVE FALSE
    BY <1>1, <1>6, FewWritesClear DEF Clock
  <1>7. ASSUME NEW r \in Request, AuditLogin(r) PROVE row' = row
    BY <1>7 DEF AuditLogin, createAudit, usersVars
  <1>8. row' # row
    OBVIOUS
  <1>9. ASSUME UNCHANGED usersVars PROVE FALSE
    BY <1>8, <1>9 DEF usersVars
  <1>10. ASSUME NEW r \in Request, UserNext(r) PROVE MayClear(r, u)
    BY <1>2, <1>5, <1>7, <1>8, <1>9, <1>10 DEF UserNext, register, findExistingUser, updateUser, FindUpdated,
       findUniquenessConflict, deleteUser, FindDeleted, authenticateUser, findByLogin, StatementFails, userVars
  <1>11. ASSUME NEW r \in Request, ResetNext(r) PROVE MayClear(r, u)
    BY <1>3, <1>4, <1>9, <1>11 DEF ResetNext, forgotPassword, FindForgetful, resetPassword, FindReset,
       formSubmission, FindForm, SubmitForm, Rollback, userVars
  <1>12. CASE UNCHANGED vars
    BY <1>8, <1>12 DEF vars
  <1> QED BY <1>6, <1>10, <1>11, <1>12 DEF Next

\* A link that was mailed stays good until a newer one is asked for, its account is
\* deleted, it is used, or a reset clears it that came before the link was mailed
\* (reset-password.service.ts writes by publicId).
THEOREM LiveLinksLast == Spec => LiveLinkSurvives
  <1>1. IInv /\ [Next]_vars => [\A u \in User : LiveLink(u) /\ row'[u].token # row[u].token
                                  => \E r \in Request : MayClear(r, u)]_vars
    BY ClearsAreAsked
  <1> QED BY <1>1, Always, PTL DEF Spec, LiveLinkSurvives
===============================================================================
