------------------------------ MODULE OutboxTable ------------------------------
(***************************************************************************)
(* PrismaOutboxRepository statement by statement, with the instants and the *)
(* order of rows that OutboxStore abstracts from: an operation is the set   *)
(* of its outcomes, what it says and the rows it leaves.                    *)
(***************************************************************************)
EXTENDS RowLists

\* The instants are numbers; a column that may be null is a set of at most one.
Null == {}
At(column) == CHOOSE t \in column : TRUE
Until(column, t) == \E c \in column : c <= t

Outcome(said, rows) == [said |-> said, rows |-> rows]
ok(v) == <<"ok", v>>
err == <<"err">>

Listed(rows, list) == Outcome(ok(list), rows)
Found(rows, id) == {r \in rows : r.publicId = id}

\* UPDATE of some rows, each to what the function `to' says.
Updated(rows, hit, to) == (rows \ hit) \cup {to[r] : r \in hit}

create(rows, id, status, expiresAt, now) ==
    LET new == [publicId |-> id, status |-> status, attempts |-> 0, occurredAt |-> now,
                sendingAt |-> Null, expiresAt |-> expiresAt, pendingRecipients |-> <<>>]
    IN  {Outcome(ok(new), rows \cup {new})}

OccurredAt(rows) == [r \in rows |-> r.occurredAt]
LatestFirst(rows) == [r \in rows |-> -r.occurredAt]
SendingAt(rows) == [r \in rows |-> At(r.sendingAt)]
ExpiresAt(rows) == [r \in rows |-> At(r.expiresAt)]

findPending(rows, limit) ==
    LET pending == {r \in rows : r.status = "PENDING"}
    IN  {Listed(rows, list) : list \in OrderBy(pending, OccurredAt(pending), limit)}

findStuck(rows, stuckBefore, limit) ==
    LET stuck == {r \in rows : r.status = "SENDING" /\ Until(r.sendingAt, stuckBefore)}
    IN  {Listed(rows, list) : list \in OrderBy(stuck, SendingAt(stuck), limit)}

findFailed(rows, limit) ==
    LET failed == {r \in rows : r.status = "FAILED"}
    IN  {Listed(rows, list) : list \in OrderBy(failed, LatestFirst(failed), limit)}

findByPublicId(rows, id) == {Outcome(ok(Found(rows, id)), rows)}

\* updateMany: whether it hit exactly one row.
retryFailed(rows, id) ==
    LET hit == {r \in Found(rows, id) : r.status = "FAILED"}
        again == [r \in hit |-> [r EXCEPT !.status = "PENDING", !.sendingAt = Null, !.attempts = 0]]
    IN  {Outcome(ok(Cardinality(hit) = 1), Updated(rows, hit, again))}

Sending(r, now) == [r EXCEPT !.status = "SENDING", !.sendingAt = {now}, !.attempts = @ + 1]

\* stuckBefore is Null for a sweep of pending events.
claim(rows, id, fromStatus, stuckBefore, now) ==
    LET hit == {r \in Found(rows, id) :
                   r.status = fromStatus /\ \A t \in stuckBefore : Until(r.sendingAt, t)}
        claimed == [r \in hit |-> Sending(r, now)]
    IN  {Outcome(ok(Cardinality(hit) = 1), Updated(rows, hit, claimed))}

\* update: a row that is not there is an error.
update(rows, id, to) ==
    LET hit == Found(rows, id)
    IN  {IF hit = {} THEN Outcome(err, rows) ELSE Outcome(ok("void"), Updated(rows, hit, to))}

updateStatus(rows, id, status, now) ==
    update(rows, id, [r \in Found(rows, id) |->
                         IF status = "SENDING" THEN Sending(r, now)
                         ELSE [r EXCEPT !.status = status, !.sendingAt = Null]])

updatePendingRecipients(rows, id, pending) ==
    update(rows, id, [r \in Found(rows, id) |-> [r EXCEPT !.pendingRecipients = pending]])

\* P2025 counts as done.
delete(rows, id) == {Outcome(ok("void"), rows \ Found(rows, id))}

\* A batch is listed, then deleted by id.
DeleteBatch(rows, due, key, batchSize) ==
    {Outcome(ok(Len(batch)), rows \ Rows(batch)) : batch \in OrderBy(due, key, batchSize)}

deleteExpired(rows, now, batchSize) ==
    LET due == {r \in rows : Until(r.expiresAt, now)}
    IN  DeleteBatch(rows, due, ExpiresAt(due), batchSize)

deleteOlderThan(rows, cutoff, batchSize) ==
    DeleteBatch(rows, {r \in rows : r.occurredAt < cutoff}, OccurredAt(rows), batchSize)

deleteFailedOlderThan(rows, cutoff, batchSize) ==
    LET due == {r \in rows : r.status = "FAILED" /\ r.occurredAt < cutoff}
    IN  DeleteBatch(rows, due, OccurredAt(due), batchSize)
================================================================================
