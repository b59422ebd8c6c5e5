----------------------------- MODULE OutboxUpkeep -----------------------------
(***************************************************************************)
(* What removes or revives rows from outside the pipeline: the scheduled   *)
(* sweeps of OutboxMaintenance and the operator's triage commands.         *)
(*                                                                         *)
(* A sweep selects a batch of ids and deletes the ids in a second          *)
(* statement.  Being expired, or older than the retention window, cannot   *)
(* stop being true between the two, so those sweeps are one step each;     *)
(* being FAILED can, so that one is two.  The age of a row (14 days, 7     *)
(* days) is not tracked: a purge may find any row old enough.              *)
(***************************************************************************)
EXTENDS OutboxDispatch

CONSTANT MaxRetries    \* bound: triage retries in one behaviour

ASSUME RetriesAssumption == MaxRetries \in Nat

VARIABLES
    doomed,    \* ids selected by deleteFailedOlderThan, not deleted yet
    retries    \* [Nat] triage retries so far

upkeepVars == <<doomed, retries>>

UpkeepTypeOK ==
    /\ doomed \subseteq Events
    /\ retries \in Nat

UpkeepInit ==
    /\ doomed = {}
    /\ retries = 0

\* Mutant: the WHERE of the sweep forgotten.
deleteExisting ==
    /\ \E e \in Events : Exists(e)
    /\ delete(Events, "expired")
    /\ UNCHANGED <<job, expired, faults, dispatchVars, upkeepVars>>

deleteExpired ==
    LET batch == {e \in Events : Exists(e) /\ expired[e]} IN
    /\ batch # {}
    /\ delete(batch, "expired")
    /\ UNCHANGED <<job, expired, faults, dispatchVars, upkeepVars>>

deleteOlderThan ==
    /\ \E batch \in SUBSET {e \in Events : Exists(e)} :
          /\ batch # {}
          /\ delete(batch, "purged")
    /\ UNCHANGED <<job, expired, faults, dispatchVars, upkeepVars>>

\* deleteFailedOlderThan, called by purgeFailedEvents and by triage.
SelectFailed ==
    /\ doomed = {}
    /\ \E batch \in SUBSET {e \in Events : row[e].status = "FAILED"} :
          /\ batch # {}
          /\ doomed' = batch
    /\ UNCHANGED <<storeVars, dispatchVars, retries>>

\* The sweep may also die, or its second statement fail, in between.
DeleteSelected ==
    /\ doomed # {}
    /\ doomed' = {}
    /\ \/ Works /\ delete(doomed, "purged")
       \/ Fails /\ UNCHANGED <<row, fate>>
    /\ UNCHANGED <<job, expired, dispatchVars, retries>>

\* retryFailedOutboxEvent up to its await of findByPublicId; Announced and
\* enqueueOutboxDispatch are the rest.  The enqueue of the event's creation,
\* milliseconds after its commit, is over by then.
retryFailedOutboxEvent(e) ==
    /\ retries < MaxRetries
    /\ sender[e] = "none"
    /\ retryFailed(e)
    /\ sender' = [sender EXCEPT ![e] = "triage"]
    /\ retries' = retries + 1
    /\ UNCHANGED <<job, expired, faults, signal, mode, task, lock, doomed>>

UpkeepNext ==
    \/ deleteExpired
    \/ deleteOlderThan
    \/ SelectFailed
    \/ DeleteSelected
    \/ \E e \in Events : retryFailedOutboxEvent(e)
================================================================================
