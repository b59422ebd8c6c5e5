----------------------------- MODULE InMemoryOutbox -----------------------------
(***************************************************************************)
(* InMemoryOutboxRepository, the double the unit tests of the pipeline run  *)
(* on: one array in insertion order.  An operation has one outcome, unless  *)
(* a test makes it fail (shouldFailOn), which changes nothing and is left   *)
(* out, as a failing statement is in OutboxTable.                           *)
(***************************************************************************)
EXTENDS OutboxTable

Only(said, items) == [said |-> said, items |-> items]

find(items, id) == {e \in Rows(items) : e.publicId = id}

\* Each entry that is hit becomes what the function `to' says.
Change(items, hit, to) ==
    [i \in DOMAIN items |-> IF items[i] \in hit THEN to[items[i]] ELSE items[i]]

push(items, id, status, expiresAt, now) ==
    LET new == [publicId |-> id, status |-> status, attempts |-> 0, occurredAt |-> now,
                sendingAt |-> Null, expiresAt |-> expiresAt, pendingRecipients |-> <<>>]
    IN  Only(ok(new), Append(items, new))

listPending(items, limit) ==
    LET pending == {e \in Rows(items) : e.status = "PENDING"}
    IN  Only(ok(SortBy(items, pending, OccurredAt(pending), limit)), items)

listStuck(items, stuckBefore, limit) ==
    LET stuck == {e \in Rows(items) : /\ e.status = "SENDING"
                                      /\ e.sendingAt # Null /\ At(e.sendingAt) <= stuckBefore}
    IN  Only(ok(SortBy(items, stuck, SendingAt(stuck), limit)), items)

listFailed(items, limit) ==
    LET failed == {e \in Rows(items) : e.status = "FAILED"}
    IN  Only(ok(SortBy(items, failed, LatestFirst(failed), limit)), items)

findOne(items, id) == Only(ok(find(items, id)), items)

retry(items, id) ==
    LET hit == {e \in find(items, id) : e.status = "FAILED"}
        again == [e \in hit |-> [e EXCEPT !.status = "PENDING", !.sendingAt = Null, !.attempts = 0]]
    IN  Only(ok(hit # {}), Change(items, hit, again))

canClaim(event, fromStatus, stuckBefore) ==
    /\ event.status = fromStatus
    /\ stuckBefore = Null \/ (event.sendingAt # Null /\ At(event.sendingAt) <= At(stuckBefore))

take(items, id, fromStatus, stuckBefore, now) ==
    LET hit == {e \in find(items, id) : canClaim(e, fromStatus, stuckBefore)}
        claimed == [e \in hit |-> Sending(e, now)]
    IN  Only(ok(hit # {}), Change(items, hit, claimed))

setStatus(items, id, status, now) ==
    LET hit == find(items, id)
        to == [e \in hit |-> IF status = "SENDING" THEN Sending(e, now)
                             ELSE [e EXCEPT !.status = status, !.sendingAt = Null]]
    IN  Only(IF hit = {} THEN err ELSE ok("void"), Change(items, hit, to))

setPending(items, id, pending) ==
    LET hit == find(items, id)
        to == [e \in hit |-> [e EXCEPT !.pendingRecipients = pending]]
    IN  Only(IF hit = {} THEN err ELSE ok("void"), Change(items, hit, to))

Without(items, gone) == SelectSeq(items, LAMBDA e : e \notin gone)

remove(items, id) == Only(ok("void"), Without(items, find(items, id)))

removeBatch(items, batch) == Only(ok(Len(batch)), Without(items, Rows(batch)))

removeExpired(items, now, batchSize) ==
    LET due == {e \in Rows(items) : e.expiresAt # Null /\ At(e.expiresAt) <= now}
    IN  removeBatch(items, SortBy(items, due, ExpiresAt(due), batchSize))

removeOlderThan(items, cutoff, batchSize) ==
    LET due == {e \in Rows(items) : e.occurredAt < cutoff}
    IN  removeBatch(items, SortBy(items, due, OccurredAt(due), batchSize))

removeFailedOlderThan(items, cutoff, batchSize) ==
    LET due == {e \in Rows(items) : e.status = "FAILED" /\ e.occurredAt < cutoff}
    IN  removeBatch(items, SortBy(items, due, OccurredAt(due), batchSize))
================================================================================
