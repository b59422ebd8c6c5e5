-------------------------------- MODULE Outbox --------------------------------
(***************************************************************************)
(* The outbox pipeline: dispatch, mail delivery and upkeep around the two  *)
(* stores, with the passing of time.                                       *)
(***************************************************************************)
EXTENDS OutboxUpkeep, MailDelivery, FiniteSets

vars == <<storeVars, dispatchVars, mailVars, upkeepVars>>

TypeOK == StoreTypeOK /\ DispatchTypeOK /\ MailTypeOK /\ UpkeepTypeOK

Init == StoreInit /\ DispatchInit /\ MailInit /\ UpkeepInit

-----------------------------------------------------------------------------
(* Time *)

\* expiresAt passes.
Expire(e) ==
    /\ e \in Expirable
    /\ fate[e] # "unborn"
    /\ ~expired[e]
    /\ expired' = [expired EXCEPT ![e] = TRUE]
    /\ UNCHANGED <<row, fate, job, faults, dispatchVars, mailVars, upkeepVars>>

\* sendingAt becomes older than STUCK_SENDING_MS.
Overstay(e) ==
    /\ row[e].status = "SENDING"
    /\ ~row[e].overdue
    /\ row' = [row EXCEPT ![e].overdue = TRUE]
    /\ UNCHANGED <<fate, job, expired, faults, dispatchVars, mailVars, upkeepVars>>

Time == \E e \in Events : Expire(e) \/ Overstay(e)

Next ==
    \/ DispatchNext /\ UNCHANGED <<mailVars, upkeepVars>>
    \/ MailNext /\ UNCHANGED <<dispatchVars, upkeepVars>>
    \/ UpkeepNext /\ UNCHANGED mailVars
    \/ Time

Spec == Init /\ [][Next]_vars

-----------------------------------------------------------------------------
(* Fairness *)

\* A call in hand is carried on with, a worker takes the jobs of its queue, the
\* scheduler fires its two sweeps again and again, BullMQ's stalled check and
\* the TTLs run by themselves.  Nothing obliges the API to signal, an event to
\* expire, a purge or an operator to come by.
DispatchStep(d, e) ==
    /\ \/ DiscardExpired(d, e)
       \/ markPoisoned(d, e)
       \/ Claim(d, e)
       \/ LoseClaim(d, e)
       \/ Dispatch(d, e)
       \/ RevertDispatch(d, e)
    /\ UNCHANGED <<mailVars, upkeepVars>>

RunStep(r) ==
    /\ \/ \E e \in Events : Start(r, e)
       \/ DiscardExpiredJob(r)
       \/ AcquireKey(r)
       \/ AlreadySent(r)
       \/ GateThrows(r)
       \/ Send(r)
       \/ Persist(r)
       \/ MarkCompleted(r)
       \/ Release(r)
       \/ Cleanup(r)
       \/ FailJob(r)
    /\ UNCHANGED <<dispatchVars, upkeepVars>>

Redis(e) ==
    /\ RequeueStalled(e) \/ revertForRedispatch(e) \/ (~Sending(e) /\ Works /\ KeyExpires(e))
    /\ UNCHANGED <<dispatchVars, upkeepVars>>

Scheduled(sweep) ==
    /\ \/ \E d \in Dispatchers : StartSweep(d, sweep)
       \/ LockExpires(sweep)
    /\ UNCHANGED <<mailVars, upkeepVars>>

Fairness ==
    /\ \A d \in Dispatchers, e \in Events : WF_vars(DispatchStep(d, e))
    /\ \A d \in Dispatchers, e \in Events :
          WF_vars(TakeSignal(d, e) /\ UNCHANGED <<mailVars, upkeepVars>>)
    /\ \A r \in Runs : WF_vars(RunStep(r))
    /\ \A e \in Events : WF_vars(Redis(e)) /\ WF_vars(Overstay(e))
    /\ \A sweep \in Sweep : SF_vars(Scheduled(sweep))

FairSpec == Spec /\ Fairness

-----------------------------------------------------------------------------
(* At least once *)

\* The recipients no SMTP server has accepted the event for.
Owed(e) == {p \in Recipients : sent[e][p] = 0}

\* Whatever fails, crashes, stalls or expires, and however stale the snapshot a
\* dispatcher acts on: a row leaves the table through the mail worker only when
\* every recipient was served, and as expired only when it is; until then it stays.
\* A recipient can therefore be forgotten only by the expiry and by the purges.
OpenIsStored == \A e \in Events : fate[e] = "open" <=> Exists(e)

AtLeastOnce ==
    /\ OpenIsStored
    /\ \A e \in Events :
        /\ fate[e] = "delivered" => Owed(e) = {}
        /\ fate[e] = "expired" => expired[e]

\* The narrowing of a batch (selective retry) never leaves out a recipient who is
\* still owed the message: not in the row, not in a snapshot some dispatcher or
\* queue still carries, not in the job, not in a run; and nothing says that a
\* batch is finished which is not.  This is what makes AtLeastOnce inductive.
OwedInRow == \A e \in Events : Owed(e) \subseteq Batch(row[e])

OwedInSignal == \A e \in Events : Owed(e) \subseteq Batch(signal[e])

OwedInTask ==
    \A d \in Dispatchers, e \in Events : Owed(e) \subseteq Batch(task[d][e].snap)

OwedInJob ==
    \A e \in Events : job[e].state # "absent" => Owed(e) \subseteq job[e].data

OwedInRun ==
    \A r \in Runs :
        /\ run[r].step \in {"gate", "send", "persist"} => Owed(Event(r)) \subseteq run[r].data
        /\ run[r].step \in {"mark", "cleanup"} => Owed(Event(r)) = {}

FinishedIsServed == \A e \in Events : key[e] = "completed" => Owed(e) = {}

NobodyForgotten ==
    /\ OwedInRow
    /\ OwedInSignal
    /\ OwedInTask
    /\ OwedInJob
    /\ OwedInRun
    /\ FinishedIsServed

-----------------------------------------------------------------------------
(* Not more often than the failures explain *)

\* While the row lives, and when it expired, every message a recipient gets beyond
\* the first is paid for by a failure (a crash, a stall, a failed call, a job or a key
\* evicted early): overlapping sweeps, signals, recoveries, stale snapshots and SMTP
\* refusals alone never send twice.  A delivery or a purge takes away the row that
\* remembers who was served, and a failure may then cost all attempts of a job.
DuplicatesNeedFaults ==
    \A e \in Events, p \in Recipients :
        LET each == IF fate[e] \in {"delivered", "purged"} THEN JobAttempts ELSE 1
        IN  sent[e][p] <= each * (1 + faults)

\* BullMQ's lock and the idempotency key are two lines of defence: two executions
\* are inside sendBatch for one event only after both failed, the lock by a stall
\* and the key by running out under the run that wrote it.  The unconditional DEL
\* of sendBatch's catch does not weaken this by itself.
SoleSender ==
    \A r, s \in Runs :
        InBatch(r) /\ InBatch(s) /\ Event(r) = Event(s) => r = s \/ faults >= 2

-----------------------------------------------------------------------------
(* The claim *)

\* MAX_DISPATCH_ATTEMPTS is compared with a snapshot, so a row can be dispatched
\* more often: once for each dispatcher that read it before the last attempt,
\* and once for each redelivery a crash causes; not without limit.  (Triage
\* starts the count anew: the property is for behaviours without it.)
DispatchBudget ==
    \A e \in Events : row[e].attempts <= MaxDispatch + Cardinality(Dispatchers) + faults

\* A row in SENDING belongs to the dispatcher that claimed it, until it has been
\* there for STUCK_SENDING_MS: claim() is "PENDING -> SENDING and stuck SENDING
\* -> SENDING", and nothing else.
ClaimIsExclusive ==
    [][\A e \in Events :
          row'[e].claimNo > row[e].claimNo =>
             row[e].status = "PENDING" \/ (row[e].status = "SENDING" /\ row[e].overdue)]_vars

\* After a final failure the next cycle dispatches the event again: an add that
\* works leaves a job that some worker will run.
RedispatchReachesQueue ==
    [][\A d \in Dispatchers, e \in Events :
          task[d][e].step = "claimed" /\ task'[d][e].step = "none" /\ UNCHANGED faults =>
             job'[e].state \in {"waiting", "active"}]_vars

\* The API registers only events whose mails can be built: a dispatch is put back
\* because the queue did not take it, never because of the event itself.
AcceptedEventsBuild ==
    [][\A d \in Dispatchers, e \in Events :
          task[d][e].step = "claimed" /\ task'[d][e].step = "reverting" => faults' > faults]_vars

-----------------------------------------------------------------------------
(* Refinement and progress *)

Contract == INSTANCE OutboxContract WITH owed <- [e \in Events |-> Owed(e)]

\* The pipeline implements OutboxContract.
KeepsContract == Contract!Spec

\* An event does not stay in the table for ever on its way: whatever fails, the
\* pipeline delivers it, drops it as expired, or gives it up as FAILED.
EventSettles ==
    \A e \in Events :
        row[e].status \in {"PENDING", "SENDING"} ~> row[e].status \in {"NONE", "FAILED"}
================================================================================
