------------------------------- MODULE MCOutbox -------------------------------
(* Instances of Outbox for TLC. *)
EXTENDS Outbox, DispatchPlans, TLC

Symmetry == Permutations(Dispatchers) \cup Permutations(Runs) \cup Permutations(Recipients)

\* A decision form whose sender named no place.
PlacelessDecision ==
    [name |-> "text", lastName |-> "text", email |-> "text",
     phone |-> "absent", location |-> "absent", decisaoPorCristo |-> TRUE]

\* Every event is one, and the dispatch takes them as its strategy does.
PlacelessDecisions == {e \in Events : Refused(FormPayload(PlacelessDecision))}

\* A payload the registration writes is refused for one reason only, and what is
\* shown of its optional fields is text or nothing.
ASSUME PlansOfForms ==
    \A r \in Request :
        LET payload == FormPayload(r) IN
        /\ buildDispatch(payload) =
              IF r.decisaoPorCristo /\ r.location # "text"
              THEN [to |-> <<>>, refused |-> "location"]
              ELSE [to |-> <<"submitter", "staff">>, refused |-> "none"]
        /\ shownField(payload, "phone") = r.phone
        /\ shownField(payload, "ipAddress") = "absent"

\* A reset's payload is always built, for the account alone.
ASSUME PlansOfResets == buildDispatch(ResetPayload) = [to |-> <<"account">>, refused |-> "none"]

\* Whatever JSON the row holds, a plan without a submitter's address is refused.
ASSUME PlansNeedAnAddress ==
    \A email, name, lastName, location \in Field, decision \in BOOLEAN :
        LET payload == [type |-> "FormSubmissionCreated", decisaoPorCristo |-> decision,
                        name |-> name, lastName |-> lastName, email |-> email,
                        phone |-> "null", location |-> location, ipAddress |-> "other"]
        IN  ~IsString(email) => buildDispatch(payload).refused = "email"

-----------------------------------------------------------------------------
Table == INSTANCE InMemoryOutbox

\* Arrays of at most two rows, at two instants.
Instant == {1, 2}
Maybe == {{}, {1}, {2}}
TableRow(id) ==
    [publicId: {id}, status: Status, attempts: {1}, occurredAt: Instant,
     sendingAt: Maybe, expiresAt: Maybe, pendingRecipients: {<<>>}]
Items == {<<>>} \cup {<<r>> : r \in TableRow(1)}
         \cup {<<r, q>> : r \in TableRow(1), q \in TableRow(2)}

Allowed(outcome, outcomes) ==
    [said |-> outcome.said, rows |-> Table!Rows(outcome.items)] \in outcomes

\* On every table the unit tests' double does what the database may do: the rows it
\* lists when a batch is too small for all, and those it leaves, are of the outcomes the
\* Prisma repository has.
ASSUME DoubleListsAsTheTable ==
    \A items \in Items, n \in {1, 2}, t \in Instant :
        LET rows == Table!Rows(items) IN
        /\ Allowed(Table!listPending(items, n), Table!findPending(rows, n))
        /\ Allowed(Table!listStuck(items, t, n), Table!findStuck(rows, t, n))
        /\ Allowed(Table!listFailed(items, n), Table!findFailed(rows, n))
        /\ Allowed(Table!removeExpired(items, t, n), Table!deleteExpired(rows, t, n))
        /\ Allowed(Table!removeOlderThan(items, t, n), Table!deleteOlderThan(rows, t, n))
        /\ Allowed(Table!removeFailedOlderThan(items, t, n), Table!deleteFailedOlderThan(rows, t, n))

ASSUME DoubleWritesAsTheTable ==
    \A items \in Items, t \in Instant :
        LET rows == Table!Rows(items) IN
        /\ Allowed(Table!push(items, 3, "PENDING", {t}, t), Table!create(rows, 3, "PENDING", {t}, t))
        /\ Allowed(Table!findOne(items, t), Table!findByPublicId(rows, t))
        /\ Allowed(Table!retry(items, t), Table!retryFailed(rows, t))
        /\ Allowed(Table!remove(items, t), Table!delete(rows, t))
        /\ Allowed(Table!setPending(items, t, <<1>>), Table!updatePendingRecipients(rows, t, <<1>>))
        /\ \A status \in Status :
              /\ Allowed(Table!setStatus(items, t, status, 2), Table!updateStatus(rows, t, status, 2))
              /\ \A stuckBefore \in Maybe :
                    Allowed(Table!take(items, t, status, stuckBefore, 2),
                            Table!claim(rows, t, status, stuckBefore, 2))
================================================================================
