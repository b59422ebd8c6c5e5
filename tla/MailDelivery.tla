----------------------------- MODULE MailDelivery -----------------------------
(***************************************************************************)
(* The mail worker: createMailJobProcessor, its idempotency key in Redis,  *)
(* the selective retry of a partly sent batch, and the 'failed' handler    *)
(* that puts the row back to PENDING; around it, what BullMQ does with a   *)
(* job (attempts, retention of finished jobs, stalled jobs).               *)
(*                                                                         *)
(* A run is one execution of the processor.  Two runs of one job overlap   *)
(* when BullMQ takes the first for stalled while it is still going.        *)
(***************************************************************************)
EXTENDS OutboxStore

CONSTANTS
    Runs,
    NoEvent

ASSUME NoEventAssumption == NoEvent \notin Events

VARIABLES
    run,        \* [Runs -> Run]
    key,        \* [Events -> {"none", "processing", "completed"}]: the idempotency key
    reverting,  \* events whose 'failed' handler has yet to call updateStatus
    sent        \* [Events -> [Recipients -> Nat]]: messages the SMTP server accepted

mailVars == <<run, key, reverting, sent>>

\* `locked': the run still owns BullMQ's lock on the job.
\* `fatal': what is about to be thrown is an UnrecoverableError.
Run == [step: {"idle", "gate", "send", "persist", "mark", "release", "cleanup", "failing"},
        event: Events \cup {NoEvent}, data: SUBSET Recipients,
        locked: BOOLEAN, fatal: BOOLEAN]

IdleRun == [step |-> "idle", event |-> NoEvent, data |-> {},
            locked |-> FALSE, fatal |-> FALSE]

MailTypeOK ==
    /\ run \in [Runs -> Run]
    /\ \A r \in Runs : run[r].step # "idle" => run[r].event \in Events
    /\ key \in [Events -> {"none", "processing", "completed"}]
    /\ reverting \subseteq Events
    /\ sent \in [Events -> [Recipients -> Nat]]

MailInit ==
    /\ run = [r \in Runs |-> IdleRun]
    /\ key = [e \in Events |-> "none"]
    /\ reverting = {}
    /\ sent = [e \in Events |-> [p \in Recipients |-> 0]]

At(r, step) == run[r].step = step
Event(r) == run[r].event
Goto(r, step) == run' = [run EXCEPT ![r].step = step]

-----------------------------------------------------------------------------
(* The gates in front of the batch *)

Start(r, e) ==
    /\ At(r, "idle")
    /\ job[e].state = "waiting"
    /\ job' = [job EXCEPT ![e].state = "active"]
    /\ run' = [run EXCEPT ![r] = [step |-> "gate", event |-> e, data |-> job[e].data,
                                  locked |-> TRUE, fatal |-> FALSE]]
    /\ UNCHANGED <<row, fate, expired, faults, key, reverting, sent>>

\* The processor returns: the job is completed, unless BullMQ gave it away.
Complete(r) ==
    /\ job' = IF run[r].locked THEN [job EXCEPT ![Event(r)].state = "completed"] ELSE job
    /\ run' = [run EXCEPT ![r] = IdleRun]

\* discardIfExpired
DiscardExpiredJob(r) ==
    /\ At(r, "gate")
    /\ expired[Event(r)]
    /\ Works
    /\ delete({Event(r)}, "expired")
    /\ Complete(r)
    /\ UNCHANGED <<expired, key, reverting, sent>>

\* Mutant: SET without NX.
OverwriteKey(r) ==
    /\ At(r, "gate")
    /\ ~expired[Event(r)]
    /\ key' = [key EXCEPT ![Event(r)] = "processing"]
    /\ Goto(r, "send")
    /\ UNCHANGED <<storeVars, reverting, sent>>

\* alreadyHandled: SET NX wins the key.
AcquireKey(r) ==
    /\ At(r, "gate")
    /\ ~expired[Event(r)]
    /\ key[Event(r)] = "none"
    /\ key' = [key EXCEPT ![Event(r)] = "processing"]
    /\ Goto(r, "send")
    /\ UNCHANGED <<storeVars, reverting, sent>>

\* Mutant: any key counts as a finished batch.
AlreadyTaken(r) ==
    /\ At(r, "gate")
    /\ ~expired[Event(r)]
    /\ key[Event(r)] # "none"
    /\ Works
    /\ delete({Event(r)}, "delivered")
    /\ Complete(r)
    /\ UNCHANGED <<expired, key, reverting, sent>>

\* alreadyHandled: the batch was sent, only the row is left to delete.
AlreadySent(r) ==
    /\ At(r, "gate")
    /\ ~expired[Event(r)]
    /\ key[Event(r)] = "completed"
    /\ Works
    /\ delete({Event(r)}, "delivered")
    /\ Complete(r)
    /\ UNCHANGED <<expired, key, reverting, sent>>

\* JobAlreadyProcessingError, or an error of a gate's own call: thrown with the
\* key left as it is, which a SET that times out may yet have written.
GateThrows(r) ==
    LET e == Event(r) IN
    /\ At(r, "gate")
    /\ \/ ~expired[e] /\ key[e] = "processing" /\ Works /\ UNCHANGED key
       \/ Fails /\ UNCHANGED key
       \/ Fails /\ ~expired[e] /\ key[e] = "none" /\ key' = [key EXCEPT ![e] = "processing"]
    /\ Goto(r, "failing")
    /\ UNCHANGED <<row, fate, job, expired, reverting, sent>>

-----------------------------------------------------------------------------
(* sendBatch and the deletion of the row *)

\* dispatchAndEvaluate up to the verdict: the server accepts some of the batch.
\* `perm': every failure was a permanent SMTP error.
Send(r) ==
    LET e == Event(r) IN
    /\ At(r, "send")
    /\ \E accepted \in SUBSET run[r].data, perm \in BOOLEAN :
          LET refused == run[r].data \ accepted IN
          /\ sent' = [sent EXCEPT ![e] =
                         [p \in Recipients |-> IF p \in accepted THEN sent[e][p] + 1 ELSE sent[e][p]]]
          /\ perm => refused # {}
          /\ run' = [run EXCEPT ![r] = [@ EXCEPT !.step = IF refused = {} THEN "mark"
                                                          ELSE IF accepted = {} THEN "release"
                                                          ELSE "persist",
                                                 !.data = refused,
                                                 !.fatal = perm]]
    /\ UNCHANGED <<storeVars, key, reverting>>

\* Mutant: the whole batch is tried again.
RetryAll(r) ==
    /\ At(r, "persist")
    /\ Goto(r, "release")
    /\ UNCHANGED <<storeVars, key, reverting, sent>>

\* persistSelectiveRetry: the database first; the job's data only when that
\* worked (a row that is gone is an error of the update).
Persist(r) ==
    LET e == Event(r) IN
    /\ At(r, "persist")
    /\ \/ /\ Works
          /\ Exists(e)
          /\ updatePendingRecipients(e, run[r].data)
          /\ job' = [job EXCEPT ![e].data = IF job[e].state = "absent" THEN {} ELSE run[r].data]
       \/ /\ Fails
          /\ Exists(e)
          /\ updatePendingRecipients(e, run[r].data)
          /\ UNCHANGED job
       \/ /\ Fails \/ (Works /\ ~Exists(e))
          /\ UNCHANGED <<row, job>>
    /\ Goto(r, "release")
    /\ UNCHANGED <<fate, expired, key, reverting, sent>>

\* The whole batch was accepted: 'completed' is written, or sendBatch's catch runs.
MarkCompleted(r) ==
    /\ At(r, "mark")
    /\ \/ /\ Works
          /\ key' = [key EXCEPT ![Event(r)] = "completed"]
          /\ Goto(r, "cleanup")
       \/ /\ Fails
          /\ UNCHANGED key
          /\ Goto(r, "release")
    /\ UNCHANGED <<row, fate, job, expired, reverting, sent>>

\* sendBatch's catch: DEL whoever wrote the key, then rethrow.  When DEL itself
\* fails its error replaces the first, UnrecoverableError included.
Release(r) ==
    /\ At(r, "release")
    /\ \/ /\ Works
          /\ key' = [key EXCEPT ![Event(r)] = "none"]
          /\ Goto(r, "failing")
       \/ /\ Fails
          /\ UNCHANGED key
          /\ run' = [run EXCEPT ![r].step = "failing", ![r].fatal = FALSE]
    /\ UNCHANGED <<row, fate, job, expired, reverting, sent>>

\* Phase 2: the row goes, the key stays.
Cleanup(r) ==
    /\ At(r, "cleanup")
    /\ \/ /\ Works
          /\ delete({Event(r)}, "delivered")
          /\ Complete(r)
       \/ /\ Fails
          /\ Goto(r, "failing")
          /\ UNCHANGED <<row, fate, job>>
    /\ UNCHANGED <<expired, key, reverting, sent>>

-----------------------------------------------------------------------------
(* A thrown error, and the 'failed' event *)

\* BullMQ retries until the attempts are used up, and keeps a failed job.  A run
\* that lost the job gets "Missing lock", which handleJobFailure ignores.
FailJob(r) ==
    LET e == Event(r)
        final == run[r].fatal \/ job[e].made + 1 >= JobAttempts
    IN
    /\ At(r, "failing")
    /\ run' = [run EXCEPT ![r] = IdleRun]
    /\ IF run[r].locked
       THEN /\ job' = [job EXCEPT ![e].state = IF final THEN "failed" ELSE "waiting",
                                  ![e].made = @ + 1]
            /\ reverting' = IF final THEN reverting \cup {e} ELSE reverting
       ELSE UNCHANGED <<job, reverting>>
    /\ UNCHANGED <<row, fate, expired, faults, key, sent>>

\* revertForRedispatch, the end of handleJobFailure.
revertForRedispatch(e) ==
    /\ e \in reverting
    /\ reverting' = reverting \ {e}
    /\ \/ Works /\ updateStatus(e, "PENDING")
       \/ Fails /\ UNCHANGED <<row, fate>>
    /\ UNCHANGED <<job, expired, run, key, sent>>

-----------------------------------------------------------------------------
(* Stalls, crashes and the passing of time *)

CrashRun(r) ==
    /\ ~At(r, "idle")
    /\ Fails
    /\ run' = [run EXCEPT ![r] = IdleRun]
    /\ UNCHANGED <<row, fate, job, expired, key, reverting, sent>>

\* The run outlives lockDuration without renewing.
StallRun(r) ==
    /\ ~At(r, "idle")
    /\ run[r].locked
    /\ Fails
    /\ run' = [run EXCEPT ![r].locked = FALSE]
    /\ UNCHANGED <<row, fate, job, expired, key, reverting, sent>>

Held(e) == \E r \in Runs : Event(r) = e /\ run[r].locked

\* BullMQ's stalled check: an active job nobody holds goes back to waiting the
\* first time and fails for good the second.
RequeueStalled(e) ==
    /\ job[e].state = "active"
    /\ ~Held(e)
    /\ IF job[e].stalls = 0
       THEN /\ job' = [job EXCEPT ![e].state = "waiting", ![e].stalls = 1]
            /\ UNCHANGED reverting
       ELSE /\ job' = [job EXCEPT ![e].state = "failed"]
            /\ reverting' = reverting \cup {e}
    /\ UNCHANGED <<row, fate, expired, faults, run, key, sent>>

\* Between the SET of the key and the DEL of sendBatch's catch.
InBatch(r) == run[r].step \in {"send", "persist", "mark", "release"}
Sending(e) == \E r \in Runs : Event(r) = e /\ InBatch(r)

\* The key's TTL.  Under a run still at work (IDEMPOTENCY_TTL.PROCESSING_SECONDS
\* is too short), or a day after the batch, it counts as a fault.
KeyExpires(e) ==
    /\ key[e] # "none"
    /\ IF key[e] = "completed" \/ Sending(e) THEN Fails ELSE Works
    /\ key' = [key EXCEPT ![e] = "none"]
    /\ UNCHANGED <<row, fate, job, expired, run, reverting, sent>>

\* REMOVE_ON_COMPLETE and REMOVE_ON_FAIL, by age or by count.
EvictJob(e) ==
    /\ job[e].state \in {"completed", "failed"}
    /\ Fails
    /\ job' = [job EXCEPT ![e] = NoJob]
    /\ UNCHANGED <<row, fate, expired, run, key, reverting, sent>>

MailNext ==
    \/ \E r \in Runs, e \in Events : Start(r, e)
    \/ \E r \in Runs :
          \/ DiscardExpiredJob(r)
          \/ AcquireKey(r)
          \/ AlreadySent(r)
          \/ GateThrows(r)
          \/ Send(r)
          \/ Persist(r)
          \/ MarkCompleted(r)
          \/ Release(r)
          \/ Cleanup(r)
          \/ FailJob(r)
          \/ CrashRun(r)
          \/ StallRun(r)
    \/ \E e \in Events :
          \/ revertForRedispatch(e)
          \/ RequeueStalled(e)
          \/ KeyExpires(e)
          \/ EvictJob(e)
================================================================================
