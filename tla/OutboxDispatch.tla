---------------------------- MODULE OutboxDispatch ----------------------------
(***************************************************************************)
(* How an event gets from the table to the mail queue: OutboxProcessor     *)
(* (processSingleEvent and the two sweeps around it), the outbox-dispatch  *)
(* queue that carries a copy of an event from the API to a worker, and the *)
(* distributed lock of each sweep.                                         *)
(*                                                                         *)
(* A dispatcher is one run of processSingleEvent's callers: a worker slot  *)
(* of the outbox-dispatch queue or a sweep of some pod.  It acts on the    *)
(* snapshot it read, never on the row: that gap is what this module is     *)
(* about.                                                                  *)
(***************************************************************************)
EXTENDS OutboxStore

CONSTANTS
    Dispatchers,
    Free,          \* an unheld lock
    Unbuildable    \* events whose payload their strategy refuses (DispatchPlans)

ASSUME FreeAssumption == Free \notin Dispatchers

ASSUME UnbuildableAssumption == Unbuildable \subseteq Events

VARIABLES
    sender,   \* [Events -> {"none", "create", "triage"}]: who has yet to call enqueueOutboxDispatch
    signal,   \* [Events -> Row]: the snapshot in the outbox-dispatch job; NoRow: no job
    mode,     \* [Dispatchers -> Mode]
    task,     \* [Dispatchers -> [Events -> Task]]: the batch in hand
    lock      \* [Sweep -> Dispatchers \cup {Free}]: lock:outbox-processor, lock:outbox-recovery

dispatchVars == <<sender, signal, mode, task, lock>>

Sweep == {"pending", "stuck"}
Mode == Sweep \cup {"idle", "signal"}
Task == [step: {"none", "held", "claimed", "reverting"}, snap: Row]
NoTask == [step |-> "none", snap |-> NoRow]

DispatchTypeOK ==
    /\ sender \in [Events -> {"none", "create", "triage"}]
    /\ signal \in [Events -> Row]
    /\ mode \in [Dispatchers -> Mode]
    /\ task \in [Dispatchers -> [Events -> Task]]
    /\ lock \in [Sweep -> Dispatchers \cup {Free}]

DispatchInit ==
    /\ sender = [e \in Events |-> "none"]
    /\ signal = [e \in Events |-> NoRow]
    /\ mode = [d \in Dispatchers |-> "idle"]
    /\ task = [d \in Dispatchers |-> [e \in Events |-> NoTask]]
    /\ lock = [k \in Sweep |-> Free]

-----------------------------------------------------------------------------
(* The API side *)

\* The use case's transaction commits the row together with the business data.
Register(e) ==
    /\ fate[e] = "unborn"
    /\ create(e)
    /\ sender' = [sender EXCEPT ![e] = "create"]
    /\ UNCHANGED <<job, expired, faults, signal, mode, task, lock>>

\* After the commit the controller sends the created event; triage reads the
\* row again first, and sends what it then finds (nothing when it is gone).
Announced(e) == IF sender[e] = "create" THEN FreshRow ELSE row[e]

\* enqueueOutboxDispatch: its failure is logged and swallowed, and so is the
\* crash of the process before it runs.  The job id is the publicId, so a job
\* still in the queue keeps its own snapshot.
enqueueOutboxDispatch(e) ==
    /\ sender[e] # "none"
    /\ sender' = [sender EXCEPT ![e] = "none"]
    /\ \/ Works /\ signal' = IF signal[e] = NoRow
                             THEN [signal EXCEPT ![e] = Announced(e)] ELSE signal
       \/ Fails /\ UNCHANGED signal
    /\ UNCHANGED <<row, fate, job, expired, mode, task, lock>>

-----------------------------------------------------------------------------
(* Taking work *)

InHand(d, e) == task[d][e].step # "none"

TakeSignal(d, e) ==
    /\ mode[d] = "idle"
    /\ signal[e] # NoRow
    /\ \A other \in Dispatchers : ~(mode[other] = "signal" /\ InHand(other, e))
    /\ mode' = [mode EXCEPT ![d] = "signal"]
    /\ task' = [task EXCEPT ![d][e] = [step |-> "held", snap |-> signal[e]]]
    /\ UNCHANGED <<storeVars, sender, signal, lock>>

\* Mutant: the recovery leaves out the rows that used up their attempts.
DueWithBudget(sweep) ==
    {e \in Events : IF sweep = "pending" THEN row[e].status = "PENDING"
                    ELSE /\ row[e].status = "SENDING"
                         /\ row[e].overdue
                         /\ row[e].attempts < MaxDispatch}

\* What findPending and findStuck select.
Due(sweep) ==
    {e \in Events : IF sweep = "pending" THEN row[e].status = "PENDING"
                    ELSE row[e].status = "SENDING" /\ row[e].overdue}

\* processPendingEvents and processStuckSendingEvents up to their loop.  A sweep
\* that finds the lock taken or nothing to do returns at once.
StartSweep(d, sweep) ==
    /\ mode[d] = "idle"
    /\ lock[sweep] = Free
    /\ Due(sweep) # {}
    /\ lock' = [lock EXCEPT ![sweep] = d]
    /\ mode' = [mode EXCEPT ![d] = sweep]
    /\ task' = [task EXCEPT ![d] =
                   [e \in Events |-> IF e \in Due(sweep)
                                     THEN [step |-> "held", snap |-> row[e]]
                                     ELSE NoTask]]
    /\ UNCHANGED <<storeVars, sender, signal>>

-----------------------------------------------------------------------------
(* processSingleEvent *)

\* The loop awaits one event before the next.
Next1(d, e) ==
    /\ task[d][e].step = "held"
    /\ \A f \in Events : task[d][f].step \in {"none", "held"}

\* The call returns: a signal's job is removed, and a sweep that has done its
\* last event releases the lock if it is still its own.
EndItem(d, e) ==
    LET last == \A f \in Events \ {e} : ~InHand(d, f)
    IN  /\ task' = [task EXCEPT ![d][e] = NoTask]
        /\ mode' = IF last THEN [mode EXCEPT ![d] = "idle"] ELSE mode
        /\ signal' = IF mode[d] = "signal" THEN [signal EXCEPT ![e] = NoRow] ELSE signal
        /\ lock' = [k \in Sweep |-> IF last /\ lock[k] = d THEN Free ELSE lock[k]]
        /\ UNCHANGED sender

DiscardExpired(d, e) ==
    /\ Next1(d, e)
    /\ expired[e]
    /\ \/ Works /\ delete({e}, "expired")
       \/ Fails /\ UNCHANGED <<row, fate>>
    /\ EndItem(d, e)
    /\ UNCHANGED <<job, expired>>

markPoisoned(d, e) ==
    /\ Next1(d, e)
    /\ ~expired[e]
    /\ task[d][e].snap.attempts >= MaxDispatch
    /\ \/ Works /\ updateStatus(e, "FAILED")
       \/ Fails /\ UNCHANGED <<row, fate>>
    /\ EndItem(d, e)
    /\ UNCHANGED <<job, expired>>

\* Mutant: the poison test forgotten.
MayAlwaysClaim(d, e) ==
    /\ Next1(d, e)
    /\ ~expired[e]

MayClaim(d, e) ==
    /\ Next1(d, e)
    /\ ~expired[e]
    /\ task[d][e].snap.attempts < MaxDispatch

Claim(d, e) ==
    /\ MayClaim(d, e)
    /\ Claimable(e, task[d][e].snap, mode[d] = "stuck")
    /\ Works
    /\ claim(e)
    /\ task' = [task EXCEPT ![d][e].step = "claimed"]
    /\ UNCHANGED <<job, expired, sender, signal, mode, lock>>

\* Contention, or an error of the claim: the event is left to whoever has it.
LoseClaim(d, e) ==
    /\ MayClaim(d, e)
    /\ \/ Works /\ ~Claimable(e, task[d][e].snap, mode[d] = "stuck")
       \/ Fails
    /\ EndItem(d, e)
    /\ UNCHANGED <<row, fate, job, expired>>

\* dispatchToBullMQ's selective retry: the recipients the snapshot says are
\* pending, or the whole batch when it names none of them.
Batch(snap) ==
    LET filtered == Recipients \cap snap.pendingRecipients
    IN  IF filtered = {} THEN Recipients ELSE filtered

\* buildDispatch refuses the same payload every time.  An add that times out may
\* have taken effect all the same.
Dispatch(d, e) ==
    /\ task[d][e].step = "claimed"
    /\ \/ /\ e \notin Unbuildable
          /\ Works
          /\ addMailJob(e, Batch(task[d][e].snap))
          /\ EndItem(d, e)
       \/ /\ IF e \in Unbuildable THEN Works /\ UNCHANGED job
             ELSE Fails /\ (UNCHANGED job \/ addMailJob(e, Batch(task[d][e].snap)))
          /\ task' = [task EXCEPT ![d][e].step = "reverting"]
          /\ UNCHANGED <<sender, signal, mode, lock>>
    /\ UNCHANGED <<row, fate, expired>>

RevertDispatch(d, e) ==
    /\ task[d][e].step = "reverting"
    /\ \/ Works /\ updateStatus(e, "PENDING")
       \/ Fails /\ UNCHANGED <<row, fate>>
    /\ EndItem(d, e)
    /\ UNCHANGED <<job, expired>>

-----------------------------------------------------------------------------
(* Failures of the processes *)

\* The process dies holding its lock, which stays until its TTL.  The stalled
\* outbox-dispatch job is delivered again once, then dropped.
CrashDispatcher(d) ==
    /\ mode[d] # "idle"
    /\ Fails
    /\ mode' = [mode EXCEPT ![d] = "idle"]
    /\ task' = [task EXCEPT ![d] = [e \in Events |-> NoTask]]
    /\ \/ UNCHANGED signal
       \/ /\ mode[d] = "signal"
          /\ signal' = [e \in Events |-> IF InHand(d, e) THEN NoRow ELSE signal[e]]
    /\ UNCHANGED <<row, fate, job, expired, sender, lock>>

\* The TTL runs out, whoever holds the lock: the loops ignore what renew says.
LockExpires(sweep) ==
    /\ lock[sweep] # Free
    /\ lock' = [lock EXCEPT ![sweep] = Free]
    /\ UNCHANGED <<storeVars, sender, signal, mode, task>>

DispatchNext ==
    \/ \E e \in Events : Register(e) \/ enqueueOutboxDispatch(e)
    \/ \E d \in Dispatchers, e \in Events :
          \/ TakeSignal(d, e)
          \/ DiscardExpired(d, e)
          \/ markPoisoned(d, e)
          \/ Claim(d, e)
          \/ LoseClaim(d, e)
          \/ Dispatch(d, e)
          \/ RevertDispatch(d, e)
    \/ \E d \in Dispatchers, sweep \in Sweep : StartSweep(d, sweep)
    \/ \E d \in Dispatchers : CrashDispatcher(d)
    \/ \E sweep \in Sweep : LockExpires(sweep)
================================================================================
