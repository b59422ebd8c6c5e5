------------------------------ MODULE OutboxStore ------------------------------
(***************************************************************************)
(* The two stores the outbox pipeline shares, and the operations on them:  *)
(*   - the outbox_events table in Postgres, one row per event, reached     *)
(*     through PrismaOutboxRepository;                                     *)
(*   - the BullMQ mail queue in Redis, one job per event because the job   *)
(*     id is the event's publicId.                                         *)
(* The payload, the timestamps and the ordering of rows are abstracted: an *)
(* event is a model value, `overdue' and `expired' say on which side of    *)
(* STUCK_SENDING_MS and of expiresAt the row stands.                       *)
(***************************************************************************)
EXTENDS Naturals

CONSTANTS
    Events,        \* publicIds
    Expirable,     \* the events created with an expiresAt (password resets)
    Recipients,    \* the `to' addresses of the batch an event's strategy builds
    MaxDispatch,   \* OUTBOX_CONSTANTS.THRESHOLDS.MAX_DISPATCH_ATTEMPTS
    JobAttempts,   \* WORKER_CONSTANTS.QUEUE.JOB_ATTEMPTS
    MaxFaults      \* bound: infrastructure failures in one behaviour

ASSUME StoreAssumption ==
    /\ Expirable \subseteq Events
    /\ Recipients # {}
    /\ MaxDispatch \in Nat \ {0}
    /\ JobAttempts \in Nat \ {0}
    /\ MaxFaults \in Nat

VARIABLES
    row,      \* [Events -> Row]: the table
    fate,     \* [Events -> Fate]: whether the row was created, and what removed it
    job,      \* [Events -> Job]: the mail queue
    expired,  \* [Events -> BOOLEAN]: expiresAt has passed
    faults    \* how many infrastructure failures happened so far

storeVars == <<row, fate, job, expired, faults>>

(***************************************************************************)
(* `claimNo' stands for sendingAt: the serial number of the row's last     *)
(* claim, so that two claims of one row are told apart as their instants   *)
(* are.  A row is read by the code only under a status test, so the null   *)
(* that PENDING and FAILED write to sendingAt is left out.                 *)
(***************************************************************************)
Status == {"PENDING", "SENDING", "FAILED"}

Row == [status: Status \cup {"NONE"}, attempts: Nat, claimNo: Nat,
        overdue: BOOLEAN, pendingRecipients: SUBSET Recipients]

NoRow == [status |-> "NONE", attempts |-> 0, claimNo |-> 0,
          overdue |-> FALSE, pendingRecipients |-> {}]

\* Mutant: a status no query of the pipeline selects.
StrayRow == [NoRow EXCEPT !.status = "CREATED"]

FreshRow == [NoRow EXCEPT !.status = "PENDING"]

Fate == {"unborn", "open", "delivered", "expired", "purged"}

\* `stalls' is BullMQ's stalled counter, `made' its attemptsMade.
Job == [state: {"absent", "waiting", "active", "completed", "failed"},
        data: SUBSET Recipients, made: Nat, stalls: {0, 1}]

NoJob == [state |-> "absent", data |-> {}, made |-> 0, stalls |-> 0]

StoreTypeOK ==
    /\ row \in [Events -> Row]
    /\ fate \in [Events -> Fate]
    /\ job \in [Events -> Job]
    /\ expired \in [Events -> BOOLEAN]
    /\ faults \in Nat

StoreInit ==
    /\ row = [e \in Events |-> NoRow]
    /\ fate = [e \in Events |-> "unborn"]
    /\ job = [e \in Events |-> NoJob]
    /\ expired = [e \in Events |-> FALSE]
    /\ faults = 0

-----------------------------------------------------------------------------
(* A call to Postgres, Redis or a process either works or uses up a fault. *)

Works == UNCHANGED faults

Fails ==
    /\ faults < MaxFaults
    /\ faults' = faults + 1

-----------------------------------------------------------------------------
(* PrismaOutboxRepository *)

Exists(e) == row[e].status # "NONE"

create(e) ==
    /\ row' = [row EXCEPT ![e] = FreshRow]
    /\ fate' = [fate EXCEPT ![e] = "open"]

\* Mutant: the guard of the recovery forgotten.
ClaimableByStatus(e, snap, stuckBefore) ==
    row[e].status = snap.status

\* The WHERE of claim: fromStatus, and sendingAt <= stuckBefore when it is given.
\* sendingAt is still below a threshold fixed before the snapshot was read
\* exactly when nobody has claimed the row since.
Claimable(e, snap, stuckBefore) ==
    /\ row[e].status = snap.status
    /\ stuckBefore => row[e].claimNo = snap.claimNo

claim(e) ==
    /\ row' = [row EXCEPT ![e] = [@ EXCEPT !.status = "SENDING",
                                          !.attempts = row[e].attempts + 1,
                                          !.claimNo = row[e].claimNo + 1,
                                          !.overdue = FALSE]]
    /\ UNCHANGED fate

\* No status in the WHERE; on a missing row Prisma reports an error and
\* nothing changes.
updateStatus(e, status) ==
    /\ row' = IF Exists(e)
              THEN [row EXCEPT ![e] = [@ EXCEPT !.status = status, !.overdue = FALSE]]
              ELSE row
    /\ UNCHANGED fate

retryFailed(e) ==
    /\ row[e].status = "FAILED"
    /\ row' = [row EXCEPT ![e] = [@ EXCEPT !.status = "PENDING", !.attempts = 0]]
    /\ UNCHANGED fate

\* Mutant: the recipients of the wrong half of the verdict.
updateServedRecipients(e, failed) ==
    row' = [row EXCEPT ![e].pendingRecipients = Recipients \ failed]

updatePendingRecipients(e, failed) ==
    row' = [row EXCEPT ![e] = [@ EXCEPT !.pendingRecipients = failed]]

\* delete, and the deleteMany by id of the batch sweeps: rows already gone are
\* no error.
delete(es, why) ==
    /\ row' = [e \in Events |-> IF e \in es THEN NoRow ELSE row[e]]
    /\ fate' = [e \in Events |-> IF e \in es /\ Exists(e) THEN why ELSE fate[e]]

-----------------------------------------------------------------------------
(* The mail queue *)

\* BullMQ ignores an add whose job id it still holds, in whatever state.
addMailJob(e, data) ==
    job' = IF job[e].state = "absent"
           THEN [job EXCEPT ![e] = [NoJob EXCEPT !.state = "waiting", !.data = data]]
           ELSE job
================================================================================
