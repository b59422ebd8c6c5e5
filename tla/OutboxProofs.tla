----------------------------- MODULE OutboxProofs -----------------------------
(***************************************************************************)
(* Type correctness of Outbox and the ownership of jobs, for any number of *)
(* events, recipients, dispatchers, mail runs, attempts and faults.        *)
(*                                                                         *)
(* The outbox pipeline delivers at least once: the proof of AtLeastOnce    *)
(* from the inductive invariant AtLeastOnceInv.                            *)
(*                                                                         *)
(* The argument: what every step does to the table is SafeStore; what the  *)
(* dispatchers and the queue of signals carry is Carried; what the mail    *)
(* worker carries is Worked.  Each action keeps the ones it can disturb.   *)
(*                                                                         *)
(* And nobody else sends what one run is sending: the proof of SoleSender  *)
(* counts the failures each of the two defences costs (DefenceInv).        *)
(*                                                                         *)
(* Nor is a message sent again without a failure that explains it: the     *)
(* proof of DuplicatesNeedFaults keeps two accounts for every recipient,   *)
(* one of the messages sent and still to come, one of the messages sent    *)
(* and the attempts left (PaidInv), and shows what each action costs.      *)
(***************************************************************************)
EXTENDS Outbox, TLAPS, FiniteSetTheorems

-----------------------------------------------------------------------------
(* Type correctness: the operations of the stores, then the actions. *)

\* The rows and jobs the operations write have their types.
LEMMA RecordTypes ==
    /\ NoRow \in Row
    /\ FreshRow \in Row
    /\ NoJob \in Job
    /\ NoTask \in Task
    /\ IdleRun \in Run
BY DEF NoRow, FreshRow, Row, Status, NoJob, Job, NoTask, Task, IdleRun, Run

\* Every operation on the table keeps the types of the row and of its fate.
LEMMA StoreOps ==
    ASSUME StoreTypeOK, NEW e \in Events
    PROVE  /\ create(e) => row' \in [Events -> Row] /\ fate' \in [Events -> Fate]
           /\ claim(e) => row' \in [Events -> Row] /\ fate' \in [Events -> Fate]
           /\ retryFailed(e) => row' \in [Events -> Row] /\ fate' \in [Events -> Fate]
           /\ \A s \in Status : updateStatus(e, s) => row' \in [Events -> Row] /\ fate' \in [Events -> Fate]
           /\ \A ps \in SUBSET Recipients : updatePendingRecipients(e, ps) => row' \in [Events -> Row]
           /\ \A ps \in SUBSET Recipients : addMailJob(e, ps) => job' \in [Events -> Job]
<1> USE DEF StoreTypeOK
<1>0. row[e] \in Row /\ row[e].attempts \in Nat /\ row[e].claimNo \in Nat
  BY DEF Row
<1>1. create(e) => row' \in [Events -> Row] /\ fate' \in [Events -> Fate]
  BY RecordTypes DEF create, Fate
<1>2. claim(e) => row' \in [Events -> Row] /\ fate' \in [Events -> Fate]
  <2>0. row[e].attempts + 1 \in Nat /\ row[e].claimNo + 1 \in Nat
    BY <1>0
  <2>1. [row[e] EXCEPT !.status = "SENDING", !.attempts = row[e].attempts + 1,
                       !.claimNo = row[e].claimNo + 1, !.overdue = FALSE] \in Row
    BY <1>0, <2>0 DEF Row, Status
  <2> QED BY <2>1 DEF claim
<1>3. retryFailed(e) => row' \in [Events -> Row] /\ fate' \in [Events -> Fate]
  <2>1. [row[e] EXCEPT !.status = "PENDING", !.attempts = 0] \in Row
    BY <1>0 DEF Row, Status
  <2> QED BY <2>1 DEF retryFailed
<1>4. ASSUME NEW s \in Status, updateStatus(e, s)
      PROVE  row' \in [Events -> Row] /\ fate' \in [Events -> Fate]
  <2>1. [row[e] EXCEPT !.status = s, !.overdue = FALSE] \in Row
    BY <1>0 DEF Row
  <2> QED BY <2>1, <1>4 DEF updateStatus
<1>5. ASSUME NEW ps \in SUBSET Recipients, updatePendingRecipients(e, ps)
      PROVE  row' \in [Events -> Row]
  <2>1. [row[e] EXCEPT !.pendingRecipients = ps] \in Row
    BY <1>0 DEF Row
  <2> QED BY <2>1, <1>5 DEF updatePendingRecipients
<1>6. ASSUME NEW ps \in SUBSET Recipients, addMailJob(e, ps)
      PROVE  job' \in [Events -> Job]
  <2>1. [NoJob EXCEPT !.state = "waiting", !.data = ps] \in Job
    BY DEF Job, NoJob
  <2> QED BY <2>1, <1>6 DEF addMailJob
<1> QED BY <1>1, <1>2, <1>3, <1>4, <1>5, <1>6

\* delete takes rows away and closes the ones that were there.
LEMMA DeleteOp ==
    ASSUME StoreTypeOK, NEW es \in SUBSET Events, NEW why \in Fate, delete(es, why)
    PROVE  row' \in [Events -> Row] /\ fate' \in [Events -> Fate]
BY RecordTypes DEF StoreTypeOK, delete

\* A call that works or fails leaves a count of faults.
LEMMA FaultOps ==
    ASSUME StoreTypeOK
    PROVE  (Works \/ Fails) => faults' \in Nat
BY DEF StoreTypeOK, Works, Fails

\* A batch is a set of recipients.
LEMMA BatchType == \A snap : Batch(snap) \subseteq Recipients
BY DEF Batch

\* The end of an item keeps the types of the dispatcher's state.
LEMMA EndItemType ==
    ASSUME DispatchTypeOK, NEW d \in Dispatchers, NEW e \in Events, EndItem(d, e)
    PROVE  DispatchTypeOK'
BY RecordTypes DEF DispatchTypeOK, EndItem, Mode, Sweep

\* Every action of OutboxDispatch keeps the types.
LEMMA DispatchTypes ==
    ASSUME StoreTypeOK, DispatchTypeOK, DispatchNext
    PROVE  StoreTypeOK' /\ DispatchTypeOK'
<1> USE RecordTypes
<1>1. ASSUME NEW e \in Events, Register(e)
      PROVE  StoreTypeOK' /\ DispatchTypeOK'
  BY <1>1, StoreOps DEF Register, StoreTypeOK, DispatchTypeOK
<1>2. ASSUME NEW e \in Events, enqueueOutboxDispatch(e)
      PROVE  StoreTypeOK' /\ DispatchTypeOK'
  <2>1. Announced(e) \in Row
    BY DEF Announced, StoreTypeOK
  <2> QED BY <1>2, <2>1, FaultOps DEF enqueueOutboxDispatch, StoreTypeOK, DispatchTypeOK
<1>3. ASSUME NEW d \in Dispatchers, NEW e \in Events, TakeSignal(d, e)
      PROVE  StoreTypeOK' /\ DispatchTypeOK'
  <2>1. [step |-> "held", snap |-> signal[e]] \in Task
    BY DEF DispatchTypeOK, Task
  <2> QED BY <1>3, <2>1 DEF TakeSignal, StoreTypeOK, DispatchTypeOK, storeVars, Mode
<1>4. ASSUME NEW d \in Dispatchers, NEW e \in Events, DiscardExpired(d, e)
      PROVE  StoreTypeOK' /\ DispatchTypeOK'
  <2>1. DispatchTypeOK'
    BY <1>4, EndItemType DEF DiscardExpired
  <2>2. delete({e}, "expired") => row' \in [Events -> Row] /\ fate' \in [Events -> Fate]
    BY DeleteOp DEF Fate
  <2> QED BY <1>4, <2>1, <2>2, FaultOps DEF DiscardExpired, StoreTypeOK
<1>5. ASSUME NEW d \in Dispatchers, NEW e \in Events, markPoisoned(d, e)
      PROVE  StoreTypeOK' /\ DispatchTypeOK'
  <2>1. DispatchTypeOK'
    BY <1>5, EndItemType DEF markPoisoned
  <2>2. updateStatus(e, "FAILED") => row' \in [Events -> Row] /\ fate' \in [Events -> Fate]
    BY StoreOps DEF Status
  <2> QED BY <1>5, <2>1, <2>2, FaultOps DEF markPoisoned, StoreTypeOK
<1>6. ASSUME NEW d \in Dispatchers, NEW e \in Events, Claim(d, e)
      PROVE  StoreTypeOK' /\ DispatchTypeOK'
  <2>1. [task[d][e] EXCEPT !.step = "claimed"] \in Task
    BY DEF DispatchTypeOK, Task
  <2> QED BY <1>6, <2>1, StoreOps, FaultOps DEF Claim, StoreTypeOK, DispatchTypeOK
<1>7. ASSUME NEW d \in Dispatchers, NEW e \in Events, LoseClaim(d, e)
      PROVE  StoreTypeOK' /\ DispatchTypeOK'
  <2>1. DispatchTypeOK'
    BY <1>7, EndItemType DEF LoseClaim
  <2> QED BY <1>7, <2>1, FaultOps DEF LoseClaim, StoreTypeOK
<1>8. ASSUME NEW d \in Dispatchers, NEW e \in Events, Dispatch(d, e)
      PROVE  StoreTypeOK' /\ DispatchTypeOK'
  <2>1. addMailJob(e, Batch(task[d][e].snap)) => job' \in [Events -> Job]
    BY StoreOps, BatchType
  <2>2. StoreTypeOK'
    BY <1>8, <2>1, FaultOps DEF Dispatch, StoreTypeOK
  <2>3. CASE EndItem(d, e)
    BY <2>2, <2>3, EndItemType
  <2>4. CASE /\ task' = [task EXCEPT ![d][e].step = "reverting"]
             /\ UNCHANGED <<sender, signal, mode, lock>>
    <3>1. [task[d][e] EXCEPT !.step = "reverting"] \in Task
      BY DEF DispatchTypeOK, Task
    <3> QED BY <2>2, <2>4, <3>1 DEF DispatchTypeOK
  <2> QED BY <1>8, <2>3, <2>4 DEF Dispatch
<1>9. ASSUME NEW d \in Dispatchers, NEW e \in Events, RevertDispatch(d, e)
      PROVE  StoreTypeOK' /\ DispatchTypeOK'
  <2>1. DispatchTypeOK'
    BY <1>9, EndItemType DEF RevertDispatch
  <2>2. updateStatus(e, "PENDING") => row' \in [Events -> Row] /\ fate' \in [Events -> Fate]
    BY StoreOps DEF Status
  <2> QED BY <1>9, <2>1, <2>2, FaultOps DEF RevertDispatch, StoreTypeOK
<1>10. ASSUME NEW d \in Dispatchers, NEW sweep \in Sweep, StartSweep(d, sweep)
       PROVE  StoreTypeOK' /\ DispatchTypeOK'
  <2>1. \A e \in Events : [step |-> "held", snap |-> row[e]] \in Task
    BY DEF StoreTypeOK, Task
  <2> QED BY <1>10, <2>1 DEF StartSweep, StoreTypeOK, DispatchTypeOK, storeVars, Mode
<1>11. ASSUME NEW d \in Dispatchers, CrashDispatcher(d)
       PROVE  StoreTypeOK' /\ DispatchTypeOK'
  BY <1>11, FaultOps DEF CrashDispatcher, StoreTypeOK, DispatchTypeOK, Mode
<1>12. ASSUME NEW sweep \in Sweep, LockExpires(sweep)
       PROVE  StoreTypeOK' /\ DispatchTypeOK'
  BY <1>12 DEF LockExpires, StoreTypeOK, DispatchTypeOK, storeVars
<1> QED BY <1>1, <1>2, <1>3, <1>4, <1>5, <1>6, <1>7, <1>8, <1>9, <1>10, <1>11, <1>12 DEF DispatchNext

\* A run that returns is idle again, and its job still has its type.
LEMMA CompleteType ==
    ASSUME StoreTypeOK, MailTypeOK, NEW r \in Runs, ~At(r, "idle"), Complete(r)
    PROVE  /\ job' \in [Events -> Job]
           /\ run' \in [Runs -> Run]
           /\ \A s \in Runs : run'[s].step # "idle" => run'[s].event \in Events
<1>1. Event(r) \in Events
  BY DEF MailTypeOK, At, Event
<1>2. [job[Event(r)] EXCEPT !.state = "completed"] \in Job
  BY <1>1 DEF StoreTypeOK, Job
<1>3. job' \in [Events -> Job]
  BY <1>1, <1>2 DEF Complete, StoreTypeOK
<1>4. run' = [run EXCEPT ![r] = IdleRun]
  BY DEF Complete
<1>5. \A s \in Runs : run'[s].step # "idle" => run'[s].event \in Events
  BY <1>4 DEF MailTypeOK, IdleRun
<1> QED BY <1>3, <1>4, <1>5, RecordTypes DEF MailTypeOK

\* A run that moves to another step keeps its type and its event.
LEMMA GotoType ==
    ASSUME MailTypeOK, NEW r \in Runs, ~At(r, "idle"),
           NEW step \in {"send", "release", "cleanup", "failing"}, Goto(r, step)
    PROVE  /\ run' \in [Runs -> Run]
           /\ \A s \in Runs : run'[s].step # "idle" => run'[s].event \in Events
<1>1. [run[r] EXCEPT !.step = step] \in Run
  BY DEF MailTypeOK, Run
<1>2. run' = [run EXCEPT ![r] = [run[r] EXCEPT !.step = step]]
  BY DEF Goto, MailTypeOK
<1>3. \A s \in Runs : run'[s].event = run[s].event
  BY <1>2 DEF MailTypeOK, Run
<1>4. \A s \in Runs \ {r} : run'[s] = run[s]
  BY <1>2 DEF MailTypeOK
<1>5. \A s \in Runs : run'[s].step # "idle" => run'[s].event \in Events
  BY <1>3, <1>4 DEF MailTypeOK, At
<1> QED BY <1>1, <1>2, <1>5 DEF MailTypeOK

\* Every action of MailDelivery keeps the types.
LEMMA MailTypes ==
    ASSUME StoreTypeOK, MailTypeOK, MailNext
    PROVE  StoreTypeOK' /\ MailTypeOK'
<1> USE RecordTypes
<1>1. ASSUME NEW r \in Runs, NEW e \in Events, Start(r, e)
      PROVE  StoreTypeOK' /\ MailTypeOK'
  <2>1. [job[e] EXCEPT !.state = "active"] \in Job /\ job[e].data \in SUBSET Recipients
    BY DEF StoreTypeOK, Job
  <2> DEFINE new == [step |-> "gate", event |-> e, data |-> job[e].data,
                     locked |-> TRUE, fatal |-> FALSE]
  <2>2. new \in Run /\ new.event \in Events
    BY <2>1 DEF Run
  <2>3. job' = [job EXCEPT ![e] = [job[e] EXCEPT !.state = "active"]] /\ run' = [run EXCEPT ![r] = new]
    BY <1>1 DEF Start, StoreTypeOK
  <2>4. UNCHANGED <<row, fate, expired, faults, key, reverting, sent>>
    BY <1>1 DEF Start
  <2> HIDE DEF new
  <2>5. StoreTypeOK'
    BY <2>1, <2>3, <2>4 DEF StoreTypeOK
  <2>6. run' \in [Runs -> Run] /\ \A s \in Runs : run'[s].step # "idle" => run'[s].event \in Events
    BY <2>2, <2>3 DEF MailTypeOK
  <2> QED BY <2>4, <2>5, <2>6 DEF MailTypeOK
<1>2. ASSUME NEW r \in Runs, DiscardExpiredJob(r)
      PROVE  StoreTypeOK' /\ MailTypeOK'
  <2>1. ~At(r, "idle") /\ Event(r) \in Events
    BY <1>2 DEF DiscardExpiredJob, At, Event, MailTypeOK
  <2>2. delete({Event(r)}, "expired") => row' \in [Events -> Row] /\ fate' \in [Events -> Fate]
    BY <2>1, DeleteOp DEF Fate
  <2> QED BY <1>2, <2>1, <2>2, CompleteType, FaultOps DEF DiscardExpiredJob, StoreTypeOK, MailTypeOK
<1>3. ASSUME NEW r \in Runs, AcquireKey(r)
      PROVE  StoreTypeOK' /\ MailTypeOK'
  <2>1. ~At(r, "idle")
    BY <1>3 DEF AcquireKey, At
  <2> QED BY <1>3, <2>1, GotoType DEF AcquireKey, storeVars, StoreTypeOK, MailTypeOK
<1>4. ASSUME NEW r \in Runs, AlreadySent(r)
      PROVE  StoreTypeOK' /\ MailTypeOK'
  <2>1. ~At(r, "idle") /\ Event(r) \in Events
    BY <1>4 DEF AlreadySent, At, Event, MailTypeOK
  <2>2. delete({Event(r)}, "delivered") => row' \in [Events -> Row] /\ fate' \in [Events -> Fate]
    BY <2>1, DeleteOp DEF Fate
  <2> QED BY <1>4, <2>1, <2>2, CompleteType, FaultOps DEF AlreadySent, StoreTypeOK, MailTypeOK
<1>5. ASSUME NEW r \in Runs, GateThrows(r)
      PROVE  StoreTypeOK' /\ MailTypeOK'
  <2>1. ~At(r, "idle")
    BY <1>5 DEF GateThrows, At
  <2> QED BY <1>5, <2>1, GotoType, FaultOps DEF GateThrows, StoreTypeOK, MailTypeOK
<1>6. ASSUME NEW r \in Runs, Send(r)
      PROVE  StoreTypeOK' /\ MailTypeOK'
  <2>1. run[r] \in Run /\ Event(r) \in Events
    BY <1>6 DEF Send, At, Event, MailTypeOK
  <2> DEFINE step(a) == IF run[r].data \ a = {} THEN "mark" ELSE IF a = {} THEN "release" ELSE "persist"
             new(a, perm) == [run[r] EXCEPT !.step = step(a), !.data = run[r].data \ a, !.fatal = perm]
             counts(a) == [p \in Recipients |->
                             IF p \in a THEN sent[Event(r)][p] + 1 ELSE sent[Event(r)][p]]
  <2>2. PICK a \in SUBSET run[r].data, perm \in BOOLEAN :
          run' = [run EXCEPT ![r] = new(a, perm)] /\ sent' = [sent EXCEPT ![Event(r)] = counts(a)]
    BY <1>6, <2>1 DEF Send, MailTypeOK
  <2>3. new(a, perm) \in Run /\ new(a, perm).event \in Events
    BY <2>1 DEF Run, Event
  <2>4. counts(a) \in [Recipients -> Nat]
    BY <2>1 DEF MailTypeOK
  <2> HIDE DEF counts, new
  <2>5. sent' \in [Events -> [Recipients -> Nat]]
    BY <2>1, <2>2, <2>4 DEF MailTypeOK
  <2>6. UNCHANGED <<storeVars, key, reverting>>
    BY <1>6 DEF Send
  <2>7. run' \in [Runs -> Run] /\ \A s \in Runs : run'[s].step # "idle" => run'[s].event \in Events
    BY <2>2, <2>3 DEF MailTypeOK
  <2> QED BY <2>5, <2>6, <2>7 DEF storeVars, StoreTypeOK, MailTypeOK
<1>7. ASSUME NEW r \in Runs, Persist(r)
      PROVE  StoreTypeOK' /\ MailTypeOK'
  <2>1. ~At(r, "idle") /\ Event(r) \in Events /\ run[r].data \in SUBSET Recipients
    BY <1>7 DEF Persist, At, Event, MailTypeOK, Run
  <2>2. updatePendingRecipients(Event(r), run[r].data) => row' \in [Events -> Row]
    BY <2>1, StoreOps
  <2>3. ASSUME NEW ps \in SUBSET Recipients PROVE [job[Event(r)] EXCEPT !.data = ps] \in Job
    BY <2>1 DEF StoreTypeOK, Job
  <2> DEFINE kept == IF job[Event(r)].state = "absent" THEN {} ELSE run[r].data
  <2>4. [job EXCEPT ![Event(r)].data = kept] \in [Events -> Job]
    BY <2>1, <2>3 DEF StoreTypeOK
  <2>5. job' \in [Events -> Job]
    BY <1>7, <2>4 DEF Persist, StoreTypeOK
  <2>6. row' \in [Events -> Row] /\ faults' \in Nat
    BY <1>7, <2>2, FaultOps DEF Persist, StoreTypeOK
  <2> QED BY <1>7, <2>1, <2>5, <2>6, GotoType DEF Persist, StoreTypeOK, MailTypeOK
<1>8. ASSUME NEW r \in Runs, MarkCompleted(r)
      PROVE  StoreTypeOK' /\ MailTypeOK'
  <2>1. ~At(r, "idle")
    BY <1>8 DEF MarkCompleted, At
  <2> QED BY <1>8, <2>1, GotoType, FaultOps DEF MarkCompleted, StoreTypeOK, MailTypeOK
<1>9. ASSUME NEW r \in Runs, Release(r)
      PROVE  StoreTypeOK' /\ MailTypeOK'
  <2>1. ~At(r, "idle")
    BY <1>9 DEF Release, At
  <2>2. CASE Goto(r, "failing")
    BY <1>9, <2>1, <2>2, GotoType, FaultOps DEF Release, StoreTypeOK, MailTypeOK
  <2>3. CASE Fails /\ UNCHANGED key /\ run' = [run EXCEPT ![r].step = "failing", ![r].fatal = FALSE]
    <3> DEFINE new == [run[r] EXCEPT !.step = "failing", !.fatal = FALSE]
    <3>1. new \in Run /\ new.event \in Events /\ run' = [run EXCEPT ![r] = new]
      BY <2>1, <2>3 DEF MailTypeOK, Run, At
    <3> HIDE DEF new
    <3> QED BY <1>9, <2>3, <3>1, FaultOps DEF Release, StoreTypeOK, MailTypeOK
  <2> QED BY <1>9, <2>2, <2>3 DEF Release
<1>10. ASSUME NEW r \in Runs, Cleanup(r)
       PROVE  StoreTypeOK' /\ MailTypeOK'
  <2>1. ~At(r, "idle") /\ Event(r) \in Events
    BY <1>10 DEF Cleanup, At, Event, MailTypeOK
  <2>2. delete({Event(r)}, "delivered") => row' \in [Events -> Row] /\ fate' \in [Events -> Fate]
    BY <2>1, DeleteOp DEF Fate
  <2> QED BY <1>10, <2>1, <2>2, CompleteType, GotoType, FaultOps DEF Cleanup, StoreTypeOK, MailTypeOK
<1>11. ASSUME NEW r \in Runs, FailJob(r)
       PROVE  StoreTypeOK' /\ MailTypeOK'
  <2>1. Event(r) \in Events
    BY <1>11 DEF FailJob, At, Event, MailTypeOK
  <2>0. job[Event(r)] \in Job /\ job[Event(r)].made + 1 \in Nat
    BY <2>1 DEF StoreTypeOK, Job
  <2>2. \A s \in {"failed", "waiting"} :
           [job[Event(r)] EXCEPT !.state = s, !.made = job[Event(r)].made + 1] \in Job
    BY <2>0 DEF Job
  <2>3. \A s \in Runs : run'[s].step # "idle" => run'[s].event \in Events
    BY <1>11 DEF FailJob, MailTypeOK, IdleRun
  <2>4. run' \in [Runs -> Run]
    BY <1>11 DEF FailJob, MailTypeOK
  <2> DEFINE final == run[r].fatal \/ job[Event(r)].made + 1 >= JobAttempts
  <2>5. run[r].locked =>
          job' = [job EXCEPT ![Event(r)] =
                    [job[Event(r)] EXCEPT !.state = IF final THEN "failed" ELSE "waiting",
                                          !.made = job[Event(r)].made + 1]]
    BY <1>11, <2>1 DEF FailJob, StoreTypeOK
  <2>6. job' \in [Events -> Job]
    BY <1>11, <2>1, <2>2, <2>5 DEF FailJob, StoreTypeOK
  <2>7. reverting' \subseteq Events
    BY <1>11, <2>1 DEF FailJob, MailTypeOK
  <2> QED BY <1>11, <2>3, <2>4, <2>6, <2>7 DEF FailJob, StoreTypeOK, MailTypeOK
<1>12. ASSUME NEW r \in Runs, CrashRun(r)
       PROVE  StoreTypeOK' /\ MailTypeOK'
  <2>1. \A s \in Runs : run'[s].step # "idle" => run'[s].event \in Events
    BY <1>12 DEF CrashRun, MailTypeOK, IdleRun
  <2> QED BY <1>12, <2>1, FaultOps DEF CrashRun, StoreTypeOK, MailTypeOK
<1>13. ASSUME NEW r \in Runs, StallRun(r)
       PROVE  StoreTypeOK' /\ MailTypeOK'
  <2> DEFINE new == [run[r] EXCEPT !.locked = FALSE]
  <2>1. new \in Run /\ new.event \in Events /\ run' = [run EXCEPT ![r] = new]
    BY <1>13 DEF StallRun, MailTypeOK, Run, At
  <2> HIDE DEF new
  <2> QED BY <1>13, <2>1, FaultOps DEF StallRun, StoreTypeOK, MailTypeOK
<1>14. ASSUME NEW e \in Events, revertForRedispatch(e)
       PROVE  StoreTypeOK' /\ MailTypeOK'
  <2>1. updateStatus(e, "PENDING") => row' \in [Events -> Row] /\ fate' \in [Events -> Fate]
    BY StoreOps DEF Status
  <2> QED BY <1>14, <2>1, FaultOps DEF revertForRedispatch, StoreTypeOK, MailTypeOK
<1>15. ASSUME NEW e \in Events, RequeueStalled(e)
       PROVE  StoreTypeOK' /\ MailTypeOK'
  <2> DEFINE again == [job[e] EXCEPT !.state = "waiting", !.stalls = 1]
             over  == [job[e] EXCEPT !.state = "failed"]
  <2>1. again \in Job /\ over \in Job
    BY DEF StoreTypeOK, Job
  <2>2. \/ job' = [job EXCEPT ![e] = again] /\ reverting' = reverting
        \/ job' = [job EXCEPT ![e] = over] /\ reverting' = reverting \cup {e}
    BY <1>15 DEF RequeueStalled
  <2>3. job \in [Events -> Job] /\ reverting \subseteq Events
    BY DEF StoreTypeOK, MailTypeOK
  <2> HIDE DEF again, over
  <2>4. job' \in [Events -> Job]
    BY <2>1, <2>2, <2>3
  <2>5. reverting' \subseteq Events
    BY <2>2, <2>3
  <2>6. UNCHANGED <<row, fate, expired, faults, run, key, sent>>
    BY <1>15 DEF RequeueStalled
  <2> QED BY <2>4, <2>5, <2>6 DEF StoreTypeOK, MailTypeOK
<1>16. ASSUME NEW e \in Events, KeyExpires(e)
       PROVE  StoreTypeOK' /\ MailTypeOK'
  BY <1>16, FaultOps DEF KeyExpires, StoreTypeOK, MailTypeOK
<1>17. ASSUME NEW e \in Events, EvictJob(e)
       PROVE  StoreTypeOK' /\ MailTypeOK'
  BY <1>17, FaultOps DEF EvictJob, StoreTypeOK, MailTypeOK
<1> QED
  BY <1>1, <1>2, <1>3, <1>4, <1>5, <1>6, <1>7, <1>8, <1>9, <1>10, <1>11, <1>12,
     <1>13, <1>14, <1>15, <1>16, <1>17 DEF MailNext

\* Every action of OutboxUpkeep keeps the types.
LEMMA UpkeepTypes ==
    ASSUME TypeOK, UpkeepNext
    PROVE  StoreTypeOK' /\ DispatchTypeOK' /\ UpkeepTypeOK'
<1> USE RecordTypes DEF TypeOK
<1>1. CASE deleteExpired
  <2>1. PICK es \in SUBSET Events : delete(es, "expired")
    BY <1>1 DEF deleteExpired
  <2>2. row' \in [Events -> Row] /\ fate' \in [Events -> Fate]
    BY <2>1, DeleteOp DEF Fate
  <2> QED BY <1>1, <2>2 DEF deleteExpired, StoreTypeOK, DispatchTypeOK, UpkeepTypeOK, dispatchVars, upkeepVars
<1>2. CASE deleteOlderThan
  <2>1. PICK es \in SUBSET Events : delete(es, "purged")
    BY <1>2 DEF deleteOlderThan
  <2>2. row' \in [Events -> Row] /\ fate' \in [Events -> Fate]
    BY <2>1, DeleteOp DEF Fate
  <2> QED BY <1>2, <2>2 DEF deleteOlderThan, StoreTypeOK, DispatchTypeOK, UpkeepTypeOK, dispatchVars, upkeepVars
<1>3. CASE SelectFailed
  BY <1>3 DEF SelectFailed, StoreTypeOK, DispatchTypeOK, UpkeepTypeOK, storeVars, dispatchVars
<1>4. CASE DeleteSelected
  <2>1. delete(doomed, "purged") => row' \in [Events -> Row] /\ fate' \in [Events -> Fate]
    BY DeleteOp DEF Fate, UpkeepTypeOK
  <2> QED BY <1>4, <2>1, FaultOps DEF DeleteSelected, StoreTypeOK, DispatchTypeOK, UpkeepTypeOK, dispatchVars
<1>5. ASSUME NEW e \in Events, retryFailedOutboxEvent(e)
      PROVE  StoreTypeOK' /\ DispatchTypeOK' /\ UpkeepTypeOK'
  <2>1. row' \in [Events -> Row] /\ fate' \in [Events -> Fate]
    BY <1>5, StoreOps DEF retryFailedOutboxEvent
  <2>2. retries' \in Nat
    BY <1>5 DEF retryFailedOutboxEvent, UpkeepTypeOK
  <2> QED BY <1>5, <2>1, <2>2 DEF retryFailedOutboxEvent, StoreTypeOK, DispatchTypeOK, UpkeepTypeOK
<1> QED BY <1>1, <1>2, <1>3, <1>4, <1>5 DEF UpkeepNext

\* The passing of time keeps the types.
LEMMA TimeTypes ==
    ASSUME TypeOK, Time
    PROVE  TypeOK'
<1> USE DEF TypeOK
<1>1. ASSUME NEW e \in Events, Expire(e)
      PROVE  TypeOK'
  BY <1>1 DEF Expire, StoreTypeOK, DispatchTypeOK, MailTypeOK, UpkeepTypeOK,
              dispatchVars, mailVars, upkeepVars
<1>2. ASSUME NEW e \in Events, Overstay(e)
      PROVE  TypeOK'
  <2>1. [row[e] EXCEPT !.overdue = TRUE] \in Row
    BY DEF StoreTypeOK, Row
  <2>2. row' \in [Events -> Row]
    BY <1>2, <2>1 DEF Overstay, StoreTypeOK
  <2> QED BY <1>2, <2>2 DEF Overstay, StoreTypeOK, DispatchTypeOK, MailTypeOK, UpkeepTypeOK,
                            dispatchVars, mailVars, upkeepVars
<1> QED BY <1>1, <1>2 DEF Time

\* Every step of the pipeline keeps the types.
LEMMA TypeStep == TypeOK /\ [Next]_vars => TypeOK'
<1> SUFFICES ASSUME TypeOK, [Next]_vars PROVE TypeOK'
  OBVIOUS
<1> USE DEF TypeOK
<1>1. CASE DispatchNext /\ UNCHANGED <<mailVars, upkeepVars>>
  <2>1. StoreTypeOK' /\ DispatchTypeOK'
    BY <1>1, DispatchTypes
  <2>2. MailTypeOK' /\ UpkeepTypeOK'
    BY <1>1 DEF MailTypeOK, UpkeepTypeOK, mailVars, upkeepVars
  <2> QED BY <2>1, <2>2
<1>2. CASE MailNext /\ UNCHANGED <<dispatchVars, upkeepVars>>
  <2>1. StoreTypeOK' /\ MailTypeOK'
    BY <1>2, MailTypes
  <2>2. DispatchTypeOK' /\ UpkeepTypeOK'
    BY <1>2 DEF DispatchTypeOK, UpkeepTypeOK, dispatchVars, upkeepVars
  <2> QED BY <2>1, <2>2
<1>3. CASE UpkeepNext /\ UNCHANGED mailVars
  <2>1. MailTypeOK'
    BY <1>3 DEF MailTypeOK, mailVars
  <2> QED BY <1>3, <2>1, UpkeepTypes
<1>4. CASE Time
  BY <1>4, TimeTypes
<1>5. CASE UNCHANGED vars
  BY <1>5 DEF vars, StoreTypeOK, DispatchTypeOK, MailTypeOK, UpkeepTypeOK,
              storeVars, dispatchVars, mailVars, upkeepVars
<1> QED BY <1>1, <1>2, <1>3, <1>4, <1>5 DEF Next

\* The variables of the pipeline keep their types, whatever the number of
\* events, dispatchers and runs.
THEOREM TypeCorrect == Spec => []TypeOK
<1>1. Init => TypeOK
  BY RecordTypes, FreeAssumption
     DEF Init, TypeOK, StoreInit, DispatchInit, MailInit, UpkeepInit,
         StoreTypeOK, DispatchTypeOK, MailTypeOK, UpkeepTypeOK, Fate, Mode, Sweep, IdleRun
<1> QED BY <1>1, TypeStep, PTL DEF Spec

-----------------------------------------------------------------------------
(* The owner of a job *)

\* A run that holds BullMQ's lock works on an active job, and no other run holds
\* that lock: the runs BullMQ gave up can finish but not settle the job.
OneOwnerPerJob ==
    /\ \A r \in Runs : run[r].locked => Event(r) \in Events /\ job[Event(r)].state = "active"
    /\ \A r, s \in Runs : run[r].locked /\ run[s].locked /\ Event(r) = Event(s) => r = s

\* Nobody is given a lock, and no job whose lock is held stops being active.
LEMMA OwnersKept ==
    ASSUME OneOwnerPerJob,
           \A r \in Runs : run'[r].locked => /\ run[r].locked
                                             /\ run'[r].event = run[r].event
                                             /\ job[run[r].event].state = "active" =>
                                                   job'[run[r].event].state = "active"
    PROVE  OneOwnerPerJob'
BY DEF OneOwnerPerJob, Event

\* A run that ends while it holds the lock is the only one that did.
LEMMA OwnerLeaves ==
    ASSUME TypeOK, OneOwnerPerJob, NEW r \in Runs, NEW new \in Job,
           run' = [run EXCEPT ![r] = IdleRun],
           job' = IF run[r].locked THEN [job EXCEPT ![Event(r)] = new] ELSE job
    PROVE  OneOwnerPerJob'
<1>1. run'[r].locked = FALSE /\ \A s \in Runs \ {r} : run'[s] = run[s]
  BY DEF TypeOK, MailTypeOK, IdleRun
<1>2. ASSUME NEW s \in Runs \ {r}, run[s].locked
      PROVE  job'[run[s].event] = job[run[s].event]
  BY <1>2 DEF OneOwnerPerJob, Event, TypeOK, StoreTypeOK
<1> QED BY <1>1, <1>2, OwnersKept

\* No action leaves two owners, or an owner of a job that is not active.
LEMMA OwnerStep ==
    ASSUME TypeOK, OneOwnerPerJob, [Next]_vars
    PROVE  OneOwnerPerJob'
<1>0. /\ run \in [Runs -> Run]
      /\ job \in [Events -> Job]
  BY DEF TypeOK, StoreTypeOK, MailTypeOK
<1>1. ASSUME UNCHANGED <<run, job>> PROVE OneOwnerPerJob'
  BY <1>1 DEF OneOwnerPerJob, Event
<1>2. ASSUME NEW e \in Events, NEW data, addMailJob(e, data), UNCHANGED run PROVE OneOwnerPerJob'
  <2>1. \A f \in Events : job[f].state = "active" => job'[f] = job[f]
    BY <1>0, <1>2 DEF addMailJob
  <2> QED BY <1>2, <2>1, OwnersKept DEF OneOwnerPerJob, Event
<1>3. ASSUME DispatchNext, UNCHANGED <<mailVars, upkeepVars>> PROVE OneOwnerPerJob'
  <2>1. UNCHANGED run
    BY <1>3 DEF mailVars
  <2>2. \/ UNCHANGED job
        \/ \E d \in Dispatchers, e \in Events : addMailJob(e, Batch(task[d][e].snap))
    <3>1. ASSUME NEW e \in Events, Register(e) \/ enqueueOutboxDispatch(e)
          PROVE  UNCHANGED job
      BY <3>1 DEF Register, enqueueOutboxDispatch, storeVars
    <3>2. ASSUME NEW d \in Dispatchers, NEW e \in Events,
                 TakeSignal(d, e) \/ DiscardExpired(d, e) \/ markPoisoned(d, e) \/ Claim(d, e)
                     \/ LoseClaim(d, e) \/ RevertDispatch(d, e)
          PROVE  UNCHANGED job
      BY <3>2 DEF TakeSignal, DiscardExpired, markPoisoned, Claim, LoseClaim, RevertDispatch, storeVars
    <3>3. ASSUME NEW d \in Dispatchers, NEW e \in Events, Dispatch(d, e)
          PROVE  UNCHANGED job \/ addMailJob(e, Batch(task[d][e].snap))
      BY <3>3 DEF Dispatch, storeVars
    <3>4. ASSUME NEW d \in Dispatchers, NEW sweep \in Sweep, StartSweep(d, sweep)
          PROVE  UNCHANGED job
      BY <3>4 DEF StartSweep, storeVars
    <3>5. ASSUME NEW d \in Dispatchers, CrashDispatcher(d) PROVE UNCHANGED job
      BY <3>5 DEF CrashDispatcher, storeVars
    <3>6. ASSUME NEW sweep \in Sweep, LockExpires(sweep) PROVE UNCHANGED job
      BY <3>6 DEF LockExpires, storeVars
    <3> QED BY <1>3, <3>1, <3>2, <3>3, <3>4, <3>5, <3>6 DEF DispatchNext
  <2> QED BY <1>1, <1>2, <2>1, <2>2
<1>4. ASSUME MailNext PROVE OneOwnerPerJob'
  <2>1. ASSUME NEW r \in Runs, NEW e \in Events, Start(r, e) PROVE OneOwnerPerJob'
    <3> DEFINE new == [step |-> "gate", event |-> e, data |-> job[e].data,
                       locked |-> TRUE, fatal |-> FALSE]
    <3>1. run'[r] = new /\ \A s \in Runs \ {r} : run'[s] = run[s]
      BY <1>0, <2>1 DEF Start
    <3>2. job'[e].state = "active" /\ \A f \in Events \ {e} : job'[f] = job[f]
      BY <1>0, <2>1 DEF Start, Job
    <3>3. \A s \in Runs : ~(run[s].locked /\ run[s].event = e)
      BY <2>1 DEF Start, OneOwnerPerJob, Event
    <3> QED BY <3>1, <3>2, <3>3 DEF OneOwnerPerJob, Event
  <2>2. ASSUME NEW r \in Runs, Complete(r), ~At(r, "idle") PROVE OneOwnerPerJob'
    <3>1. Event(r) \in Events
      BY <2>2 DEF At, Event, TypeOK, MailTypeOK
    <3>2. [job[Event(r)] EXCEPT !.state = "completed"] \in Job
      BY <1>0, <3>1 DEF Job
    <3>3. job' = IF run[r].locked
                 THEN [job EXCEPT ![Event(r)] = [job[Event(r)] EXCEPT !.state = "completed"]] ELSE job
      BY <1>0, <2>2, <3>1 DEF Complete
    <3>4. run' = [run EXCEPT ![r] = IdleRun]
      BY <2>2 DEF Complete
    <3> QED BY <3>2, <3>3, <3>4, OwnerLeaves
  <2>3. ASSUME NEW r \in Runs, NEW step, Goto(r, step), UNCHANGED job PROVE OneOwnerPerJob'
    <3>1. \A s \in Runs : run'[s].locked = run[s].locked /\ run'[s].event = run[s].event
      BY <1>0, <2>3 DEF Goto, Run
    <3> QED BY <2>3, <3>1, OwnersKept
  <2>4. ASSUME NEW r \in Runs, DiscardExpiredJob(r) \/ AlreadySent(r) PROVE OneOwnerPerJob'
    BY <2>2, <2>4 DEF DiscardExpiredJob, AlreadySent, At
  <2>5. ASSUME NEW r \in Runs, AcquireKey(r) \/ GateThrows(r) \/ MarkCompleted(r) PROVE OneOwnerPerJob'
    BY <2>3, <2>5 DEF AcquireKey, GateThrows, MarkCompleted, storeVars
  <2>6. ASSUME NEW r \in Runs, Send(r) PROVE OneOwnerPerJob'
    <3>1. \A s \in Runs : run'[s].locked = run[s].locked /\ run'[s].event = run[s].event
      BY <1>0, <2>6 DEF Send, Run
    <3>2. UNCHANGED job
      BY <2>6 DEF Send, storeVars
    <3> QED BY <3>1, <3>2, OwnersKept
  <2>7. ASSUME NEW r \in Runs, Persist(r) PROVE OneOwnerPerJob'
    <3>1. \A s \in Runs : run'[s].locked = run[s].locked /\ run'[s].event = run[s].event
      BY <1>0, <2>7 DEF Persist, Goto, Run
    <3>2. \A f \in Events : job'[f].state = job[f].state
      BY <1>0, <2>7 DEF Persist, Job
    <3> QED BY <3>1, <3>2, OwnersKept DEF OneOwnerPerJob, Event
  <2>8. ASSUME NEW r \in Runs, Release(r) PROVE OneOwnerPerJob'
    <3>1. \A s \in Runs : run'[s].locked = run[s].locked /\ run'[s].event = run[s].event
      BY <1>0, <2>8 DEF Release, Goto, Run
    <3>2. UNCHANGED job
      BY <2>8 DEF Release
    <3> QED BY <3>1, <3>2, OwnersKept
  <2>9. ASSUME NEW r \in Runs, Cleanup(r) PROVE OneOwnerPerJob'
    BY <2>2, <2>3, <2>9 DEF Cleanup, At
  <2>10. ASSUME NEW r \in Runs, FailJob(r) PROVE OneOwnerPerJob'
    <3>1. Event(r) \in Events
      BY <2>10 DEF FailJob, At, Event, TypeOK, MailTypeOK
    <3>2. run' = [run EXCEPT ![r] = IdleRun]
      BY <2>10 DEF FailJob
    <3>3. job'[Event(r)] \in Job
      BY <2>10, <3>1, MailTypes DEF MailNext, TypeOK, StoreTypeOK
    <3>4. job' = IF run[r].locked THEN [job EXCEPT ![Event(r)] = job'[Event(r)]] ELSE job
      BY <1>0, <2>10, <3>1 DEF FailJob
    <3> QED BY <3>2, <3>3, <3>4, OwnerLeaves
  <2>11. ASSUME NEW r \in Runs, CrashRun(r) PROVE OneOwnerPerJob'
    <3>1. \A s \in Runs : run'[s] = run[s] \/ ~run'[s].locked
      BY <1>0, <2>11 DEF CrashRun, IdleRun
    <3> QED BY <2>11, <3>1, OwnersKept DEF CrashRun
  <2>12. ASSUME NEW r \in Runs, StallRun(r) PROVE OneOwnerPerJob'
    <3>1. \A s \in Runs : run'[s] = run[s] \/ ~run'[s].locked
      BY <1>0, <2>12 DEF StallRun, Run
    <3> QED BY <2>12, <3>1, OwnersKept DEF StallRun
  <2>13. ASSUME NEW e \in Events, revertForRedispatch(e) \/ KeyExpires(e) PROVE OneOwnerPerJob'
    BY <1>1, <2>13 DEF revertForRedispatch, KeyExpires
  <2>14. ASSUME NEW e \in Events, RequeueStalled(e) PROVE OneOwnerPerJob'
    <3>1. \A f \in Events \ {e} : job'[f] = job[f]
      BY <1>0, <2>14 DEF RequeueStalled
    <3>2. \A s \in Runs : run[s].locked => run[s].event \in Events \ {e}
      BY <2>14 DEF RequeueStalled, Held, OneOwnerPerJob, Event
    <3> QED BY <2>14, <3>1, <3>2, OwnersKept DEF RequeueStalled
  <2>15. ASSUME NEW e \in Events, EvictJob(e) PROVE OneOwnerPerJob'
    <3>1. \A f \in Events \ {e} : job'[f] = job[f]
      BY <1>0, <2>15 DEF EvictJob
    <3>2. \A s \in Runs : run[s].locked => run[s].event \in Events \ {e}
      BY <2>15 DEF EvictJob, OneOwnerPerJob, Event
    <3> QED BY <2>15, <3>1, <3>2, OwnersKept DEF EvictJob
  <2> QED
    BY <1>4, <2>1, <2>4, <2>5, <2>6, <2>7, <2>8, <2>9, <2>10, <2>11, <2>12, <2>13, <2>14, <2>15
       DEF MailNext
<1>5. ASSUME UpkeepNext, UNCHANGED mailVars PROVE OneOwnerPerJob'
  <2>1. UNCHANGED <<run, job>>
    BY <1>5 DEF UpkeepNext, deleteExpired, deleteOlderThan, SelectFailed, DeleteSelected,
                retryFailedOutboxEvent, storeVars, mailVars
  <2> QED BY <1>1, <2>1
<1>6. ASSUME Time PROVE OneOwnerPerJob'
  BY <1>1, <1>6 DEF Time, Expire, Overstay, mailVars
<1>7. ASSUME UNCHANGED vars PROVE OneOwnerPerJob'
  BY <1>1, <1>7 DEF vars, storeVars, mailVars
<1> QED BY <1>3, <1>4, <1>5, <1>6, <1>7 DEF Next

\* BullMQ's lock makes a job's owner unique, whatever is added, evicted, stalled or
\* requeued around it: two executions of one job overlap, but only one can settle it.
THEOREM OneOwner == Spec => []OneOwnerPerJob
<1>1. Init => OneOwnerPerJob
  BY DEF Init, MailInit, OneOwnerPerJob, IdleRun
<1>2. TypeOK /\ OneOwnerPerJob /\ [Next]_vars => OneOwnerPerJob'
  BY OwnerStep
<1> QED BY <1>1, <1>2, TypeCorrect, PTL DEF Spec

-----------------------------------------------------------------------------
(* At least once *)

\* Only real rows are snapshots.
RealRows == \A e \in Events : ~Exists(e) => row[e] = NoRow
RealSignals == \A e \in Events : signal[e] # NoRow => signal[e].status # "NONE"
RealTasks ==
    \A d \in Dispatchers, e \in Events : InHand(d, e) => task[d][e].snap.status # "NONE"
RealSnapshots == RealRows /\ RealSignals /\ RealTasks

\* The inductive invariant behind AtLeastOnce.
AtLeastOnceInv == TypeOK /\ OneOwnerPerJob /\ RealSnapshots /\ NobodyForgotten /\ AtLeastOnce

\* What every step does to the table: it narrows a row to no fewer than the
\* recipients still owed, and closes an event only for a reason.
SafeStore ==
    /\ RealRows'
    /\ OpenIsStored'
    /\ \A e \in Events :
          /\ \/ row'[e].pendingRecipients = row[e].pendingRecipients
             \/ row'[e].pendingRecipients = {}
             \/ Owed(e) \subseteq row'[e].pendingRecipients
          /\ \/ fate'[e] = fate[e]
             \/ fate'[e] \in {"open", "purged"}
             \/ fate'[e] = "expired" /\ expired[e]
             \/ fate'[e] = "delivered" /\ Owed(e) = {}

\* Rows whose content is kept but for their status and their counters.
LEMMA SafeUpdate ==
    ASSUME TypeOK, RealRows, OpenIsStored, NEW e \in Events, NEW new \in Row,
           row' = [row EXCEPT ![e] = new], UNCHANGED fate,
           Exists(e), new.status # "NONE",
           new.pendingRecipients = row[e].pendingRecipients \/ Owed(e) \subseteq new.pendingRecipients
    PROVE  SafeStore
BY DEF TypeOK, StoreTypeOK, RealRows, OpenIsStored, Exists, SafeStore

\* Every operation on the table is safe where the code calls it.
LEMMA SafeOps ==
    ASSUME TypeOK, RealRows, OpenIsStored, NEW e \in Events
    PROVE  /\ fate[e] = "unborn" /\ create(e) => SafeStore
           /\ Exists(e) /\ claim(e) => SafeStore
           /\ retryFailed(e) => SafeStore
           /\ \A s \in Status : updateStatus(e, s) => SafeStore
           /\ Exists(e) /\ UNCHANGED fate =>
                \A ps \in SUBSET Recipients :
                   updatePendingRecipients(e, ps) /\ Owed(e) \subseteq ps => SafeStore
<1>0. row \in [Events -> Row] /\ row[e] \in Row /\ row[e].attempts \in Nat /\ row[e].claimNo \in Nat
  BY DEF TypeOK, StoreTypeOK, Row
<1>1. ASSUME fate[e] = "unborn", create(e) PROVE SafeStore
  BY <1>0, <1>1 DEF TypeOK, StoreTypeOK, create, SafeStore, RealRows, OpenIsStored, Exists, FreshRow, NoRow
<1>2. ASSUME Exists(e), claim(e) PROVE SafeStore
  <2>0. row[e].attempts + 1 \in Nat /\ row[e].claimNo + 1 \in Nat
    BY <1>0
  <2> DEFINE new == [row[e] EXCEPT !.status = "SENDING", !.attempts = row[e].attempts + 1,
                                   !.claimNo = row[e].claimNo + 1, !.overdue = FALSE]
  <2>1. /\ new \in Row
        /\ new.status # "NONE"
        /\ new.pendingRecipients = row[e].pendingRecipients
    BY <1>0, <2>0 DEF Row, Status
  <2>2. row' = [row EXCEPT ![e] = new] /\ UNCHANGED fate
    BY <1>2 DEF claim
  <2> HIDE DEF new
  <2> QED BY <1>2, <2>1, <2>2, SafeUpdate
<1>3. ASSUME retryFailed(e) PROVE SafeStore
  <2> DEFINE new == [row[e] EXCEPT !.status = "PENDING", !.attempts = 0]
  <2>1. /\ new \in Row
        /\ new.status # "NONE"
        /\ new.pendingRecipients = row[e].pendingRecipients
    BY <1>0 DEF Row, Status
  <2>2. row' = [row EXCEPT ![e] = new] /\ UNCHANGED fate /\ Exists(e)
    BY <1>3 DEF retryFailed, Exists
  <2> HIDE DEF new
  <2> QED BY <2>1, <2>2, SafeUpdate
<1>4. ASSUME NEW s \in Status, updateStatus(e, s) PROVE SafeStore
  <2> DEFINE new == [row[e] EXCEPT !.status = s, !.overdue = FALSE]
  <2>1. /\ new \in Row
        /\ new.status # "NONE"
        /\ new.pendingRecipients = row[e].pendingRecipients
    BY <1>0 DEF Row, Status
  <2>2. CASE Exists(e)
    <3>1. row' = [row EXCEPT ![e] = new] /\ UNCHANGED fate
      BY <1>4, <2>2 DEF updateStatus
    <3> HIDE DEF new
    <3> QED BY <2>1, <2>2, <3>1, SafeUpdate
  <2>3. CASE ~Exists(e)
    BY <1>4, <2>3 DEF updateStatus, SafeStore, RealRows, OpenIsStored, Exists
  <2> QED BY <2>2, <2>3
<1>5. ASSUME Exists(e), UNCHANGED fate, NEW ps \in SUBSET Recipients,
             updatePendingRecipients(e, ps), Owed(e) \subseteq ps
      PROVE  SafeStore
  <2> DEFINE new == [row[e] EXCEPT !.pendingRecipients = ps]
  <2>1. new \in Row /\ new.status # "NONE" /\ new.pendingRecipients = ps
    BY <1>0, <1>5 DEF Row, Exists
  <2>2. row' = [row EXCEPT ![e] = new]
    BY <1>5 DEF updatePendingRecipients
  <2> HIDE DEF new
  <2> QED BY <1>5, <2>1, <2>2, SafeUpdate
<1> QED BY <1>1, <1>2, <1>3, <1>4, <1>5

\* Every deletion is safe that has its reason.
LEMMA SafeDelete ==
    ASSUME TypeOK, RealRows, OpenIsStored, NEW es \in SUBSET Events,
           NEW why \in {"delivered", "expired", "purged"}, delete(es, why),
           why = "delivered" => \A e \in es : Owed(e) = {},
           why = "expired" => \A e \in es : Exists(e) => expired[e]
    PROVE  SafeStore
BY DEF TypeOK, StoreTypeOK, delete, SafeStore, RealRows, OpenIsStored, Exists, NoRow

\* A step that leaves the table alone is safe for it.
LEMMA SafeIdle ==
    ASSUME RealRows, OpenIsStored, UNCHANGED <<row, fate>>
    PROVE  SafeStore
BY DEF SafeStore, RealRows, OpenIsStored, Exists

\* A batch depends on the pending recipients only, and is never smaller than what
\* is owed as long as they are not.
LEMMA BatchCovers ==
    ASSUME NEW snap, NEW owed \in SUBSET Recipients,
           snap.pendingRecipients = {} \/ owed \subseteq snap.pendingRecipients
    PROVE  owed \subseteq Batch(snap)
BY DEF Batch

\* A safe step of the table that leaves nobody newly owed keeps the table's part of
\* the invariant.
LEMMA SafeStep ==
    ASSUME AtLeastOnceInv, SafeStore,
           \A e \in Events : Owed(e)' \subseteq Owed(e),
           \A e \in Events : expired[e] => expired'[e]
    PROVE  RealRows' /\ OwedInRow' /\ AtLeastOnce'
<1>1. RealRows' /\ OpenIsStored'
  BY DEF SafeStore
<1>2. ASSUME NEW e \in Events PROVE Owed(e)' \subseteq Batch(row'[e])
  <2>1. Owed(e) \subseteq Batch(row[e]) /\ Owed(e) \subseteq Recipients
    BY DEF AtLeastOnceInv, NobodyForgotten, OwedInRow, Owed
  <2>2. CASE row'[e].pendingRecipients = row[e].pendingRecipients
    <3>1. Batch(row'[e]) = Batch(row[e])
      BY <2>2 DEF Batch
    <3> QED BY <2>1, <3>1
  <2>3. CASE row'[e].pendingRecipients = {} \/ Owed(e) \subseteq row'[e].pendingRecipients
    <3>1. Owed(e) \subseteq Batch(row'[e])
      BY <2>1, <2>3, BatchCovers
    <3> QED BY <3>1
  <2> QED BY <2>2, <2>3 DEF SafeStore
<1>3. ASSUME NEW e \in Events
      PROVE  /\ fate'[e] = "delivered" => Owed(e)' = {}
             /\ fate'[e] = "expired" => expired'[e]
  <2>1. /\ fate[e] = "delivered" => Owed(e) = {}
        /\ fate[e] = "expired" => expired[e]
    BY DEF AtLeastOnceInv, AtLeastOnce
  <2>2. \/ fate'[e] = fate[e]
        \/ fate'[e] \in {"open", "purged"}
        \/ fate'[e] = "expired" /\ expired[e]
        \/ fate'[e] = "delivered" /\ Owed(e) = {}
    BY DEF SafeStore
  <2>3. Owed(e)' \subseteq Owed(e)
    OBVIOUS
  <2> QED BY <2>1, <2>2, <2>3
<1> QED BY <1>1, <1>2, <1>3 DEF OwedInRow, AtLeastOnce

\* What nobody has touched is still owed.
LEMMA OwedSame ==
    ASSUME UNCHANGED sent
    PROVE  \A e : Owed(e)' = Owed(e)
BY DEF Owed

\* The whole batch covers what is owed.
LEMMA WholeBatch ==
    /\ \A e : Owed(e) \subseteq Batch(NoRow)
    /\ \A e : Owed(e) \subseteq Batch(FreshRow)
BY DEF Owed, Batch, NoRow, FreshRow

\* The snapshots a dispatcher or a queue carries.
Carried == OwedInSignal /\ OwedInTask /\ RealSignals /\ RealTasks

\* Snapshots nobody touches go on carrying everybody who is owed.
LEMMA CarriedSame ==
    ASSUME Carried, UNCHANGED <<signal, task, sent>>
    PROVE  Carried'
BY OwedSame DEF Carried, OwedInSignal, OwedInTask, RealSignals, RealTasks, InHand

\* Dropping snapshots forgets nobody.
LEMMA CarriedDropped ==
    ASSUME Carried, UNCHANGED sent,
           \A e \in Events : signal'[e] \in {signal[e], NoRow},
           \A d \in Dispatchers, e \in Events : task'[d][e] \in {task[d][e], NoTask}
    PROVE  Carried'
<1>1. OwedInSignal'
  BY OwedSame, WholeBatch DEF Carried, OwedInSignal
<1>2. OwedInTask'
  BY OwedSame, WholeBatch DEF Carried, OwedInTask, NoTask
<1>3. RealSignals' /\ RealTasks'
  BY DEF Carried, RealSignals, RealTasks, InHand, NoTask
<1> QED BY <1>1, <1>2, <1>3 DEF Carried

\* The end of an item only drops snapshots.
LEMMA CarriedEnd ==
    ASSUME TypeOK, Carried, UNCHANGED sent,
           NEW d \in Dispatchers, NEW e \in Events, EndItem(d, e)
    PROVE  Carried'
<1>1. \A f \in Events : signal'[f] \in {signal[f], NoRow}
  BY DEF EndItem, TypeOK, DispatchTypeOK
<1>2. \A c \in Dispatchers, f \in Events : task'[c][f] \in {task[c][f], NoTask}
  BY DEF EndItem, TypeOK, DispatchTypeOK
<1> QED BY <1>1, <1>2, CarriedDropped

\* A dispatcher that moves an item on keeps its snapshot.
LEMMA CarriedOn ==
    ASSUME TypeOK, Carried, UNCHANGED <<sent, signal>>,
           NEW d \in Dispatchers, NEW e \in Events, InHand(d, e),
           NEW step \in {"claimed", "reverting"}, task' = [task EXCEPT ![d][e].step = step]
    PROVE  Carried'
<1>1. \A c \in Dispatchers, f \in Events : task'[c][f].snap = task[c][f].snap
  BY DEF TypeOK, DispatchTypeOK, Task
<1>2. \A c \in Dispatchers, f \in Events : task'[c][f].step # "none" => task[c][f].step # "none"
  BY DEF TypeOK, DispatchTypeOK, Task, InHand
<1>3. OwedInSignal' /\ RealSignals'
  BY OwedSame DEF Carried, OwedInSignal, RealSignals
<1>4. OwedInTask' /\ RealTasks'
  BY <1>1, <1>2, OwedSame DEF Carried, OwedInTask, RealTasks, InHand
<1> QED BY <1>3, <1>4 DEF Carried

\* The job a dispatch adds is for everybody who is owed.
LEMMA AddedJobCovers ==
    ASSUME TypeOK, OwedInJob, NEW e \in Events, NEW data \in SUBSET Recipients,
           Owed(e) \subseteq data, UNCHANGED sent, addMailJob(e, data)
    PROVE  OwedInJob'
BY OwedSame DEF TypeOK, StoreTypeOK, OwedInJob, addMailJob, NoJob

\* Jobs nobody touches go on covering what is owed.
LEMMA JobSame ==
    ASSUME OwedInJob, UNCHANGED <<job, sent>>
    PROVE  OwedInJob'
BY OwedSame DEF OwedInJob

\* Every action of OutboxDispatch is safe for the table, and carries on everybody
\* who is owed.
LEMMA DispatchSafe ==
    ASSUME AtLeastOnceInv, DispatchNext, UNCHANGED sent
    PROVE  SafeStore /\ Carried' /\ OwedInJob'
<1> USE DEF AtLeastOnceInv
<1>0. TypeOK /\ RealRows /\ OpenIsStored /\ Carried /\ OwedInJob /\ OwedInRow
  BY DEF RealSnapshots, AtLeastOnce, NobodyForgotten, Carried
<1>1. ASSUME NEW e \in Events, Register(e)
      PROVE  SafeStore /\ Carried' /\ OwedInJob'
  BY <1>0, <1>1, SafeOps, CarriedSame, JobSame DEF Register
<1>2. ASSUME NEW e \in Events, enqueueOutboxDispatch(e)
      PROVE  SafeStore /\ Carried' /\ OwedInJob'
  <2>1. SafeStore /\ OwedInJob'
    BY <1>0, <1>2, SafeIdle, JobSame DEF enqueueOutboxDispatch
  <2>2. Owed(e) \subseteq Batch(Announced(e))
    BY <1>0, WholeBatch DEF Announced, OwedInRow
  <2>3. Announced(e) # NoRow => Announced(e).status # "NONE"
    BY <1>0 DEF Announced, FreshRow, NoRow, RealRows, Exists
  <2>4. /\ \A f \in Events \ {e} : signal'[f] = signal[f]
        /\ signal'[e] = signal[e] \/ signal'[e] = Announced(e)
    <3>1. signal' = signal \/ signal' = [signal EXCEPT ![e] = Announced(e)]
      BY <1>2 DEF enqueueOutboxDispatch
    <3>2. signal \in [Events -> Row]
      BY <1>0 DEF TypeOK, DispatchTypeOK
    <3> QED BY <3>1, <3>2
  <2>5. OwedInSignal' /\ RealSignals'
    BY <1>0, <2>2, <2>3, <2>4, OwedSame DEF Carried, OwedInSignal, RealSignals
  <2>6. OwedInTask' /\ RealTasks'
    BY <1>0, <1>2, OwedSame DEF enqueueOutboxDispatch, Carried, OwedInTask, RealTasks, InHand
  <2> QED BY <2>1, <2>5, <2>6 DEF Carried
<1>3. ASSUME NEW d \in Dispatchers, NEW e \in Events, TakeSignal(d, e)
      PROVE  SafeStore /\ Carried' /\ OwedInJob'
  <2>1. SafeStore /\ OwedInJob'
    BY <1>0, <1>3, SafeIdle, JobSame DEF TakeSignal, storeVars
  <2>2. Owed(e) \subseteq Batch(signal[e]) /\ signal[e].status # "NONE"
    BY <1>0, <1>3 DEF TakeSignal, Carried, OwedInSignal, RealSignals
  <2>3. \A c \in Dispatchers, f \in Events :
           \/ task'[c][f] = task[c][f]
           \/ c = d /\ f = e /\ task'[c][f] = [step |-> "held", snap |-> signal[e]]
    BY <1>0, <1>3 DEF TakeSignal, TypeOK, DispatchTypeOK
  <2>4. OwedInTask' /\ RealTasks'
    BY <1>0, <2>2, <2>3, OwedSame DEF Carried, OwedInTask, RealTasks, InHand
  <2>5. OwedInSignal' /\ RealSignals'
    BY <1>0, <1>3, OwedSame DEF TakeSignal, Carried, OwedInSignal, RealSignals
  <2> QED BY <2>1, <2>4, <2>5 DEF Carried
<1>4. ASSUME NEW d \in Dispatchers, NEW e \in Events, DiscardExpired(d, e)
      PROVE  SafeStore /\ Carried' /\ OwedInJob'
  <2>1. delete({e}, "expired") => SafeStore
    BY <1>0, <1>4, SafeDelete DEF DiscardExpired
  <2> QED BY <1>0, <1>4, <2>1, SafeIdle, CarriedEnd, JobSame DEF DiscardExpired
<1>5. ASSUME NEW d \in Dispatchers, NEW e \in Events, markPoisoned(d, e)
      PROVE  SafeStore /\ Carried' /\ OwedInJob'
  <2>1. updateStatus(e, "FAILED") => SafeStore
    BY <1>0, SafeOps DEF Status
  <2> QED BY <1>0, <1>5, <2>1, SafeIdle, CarriedEnd, JobSame DEF markPoisoned
<1>6. ASSUME NEW d \in Dispatchers, NEW e \in Events, Claim(d, e)
      PROVE  SafeStore /\ Carried' /\ OwedInJob'
  <2>1. InHand(d, e)
    BY <1>6 DEF Claim, MayClaim, Next1, InHand
  <2>2. Exists(e)
    BY <1>0, <1>6, <2>1 DEF Claim, Claimable, Exists, Carried, RealTasks
  <2> QED BY <1>0, <1>6, <2>1, <2>2, SafeOps, CarriedOn, JobSame DEF Claim
<1>7. ASSUME NEW d \in Dispatchers, NEW e \in Events, LoseClaim(d, e)
      PROVE  SafeStore /\ Carried' /\ OwedInJob'
  BY <1>0, <1>7, SafeIdle, CarriedEnd, JobSame DEF LoseClaim
<1>8. ASSUME NEW d \in Dispatchers, NEW e \in Events, Dispatch(d, e)
      PROVE  SafeStore /\ Carried' /\ OwedInJob'
  <2>1. SafeStore
    BY <1>0, <1>8, SafeIdle DEF Dispatch
  <2>2. Owed(e) \subseteq Batch(task[d][e].snap)
    BY <1>0 DEF Carried, OwedInTask
  <2>3. addMailJob(e, Batch(task[d][e].snap)) => OwedInJob'
    BY <1>0, <2>2, AddedJobCovers, BatchType
  <2>4. OwedInJob'
    BY <1>0, <1>8, <2>3, JobSame DEF Dispatch
  <2>5. InHand(d, e)
    BY <1>8 DEF Dispatch, InHand
  <2>6. Carried'
    BY <1>0, <1>8, <2>5, CarriedEnd, CarriedOn DEF Dispatch
  <2> QED BY <2>1, <2>4, <2>6
<1>9. ASSUME NEW d \in Dispatchers, NEW e \in Events, RevertDispatch(d, e)
      PROVE  SafeStore /\ Carried' /\ OwedInJob'
  <2>1. updateStatus(e, "PENDING") => SafeStore
    BY <1>0, SafeOps DEF Status
  <2> QED BY <1>0, <1>9, <2>1, SafeIdle, CarriedEnd, JobSame DEF RevertDispatch
<1>10. ASSUME NEW d \in Dispatchers, NEW sweep \in Sweep, StartSweep(d, sweep)
       PROVE  SafeStore /\ Carried' /\ OwedInJob'
  <2>1. SafeStore /\ OwedInJob'
    BY <1>0, <1>10, SafeIdle, JobSame DEF StartSweep, storeVars
  <2>2. \A c \in Dispatchers, f \in Events :
           \/ task'[c][f] \in {task[c][f], NoTask}
           \/ row[f].status # "NONE" /\ task'[c][f] = [step |-> "held", snap |-> row[f]]
    BY <1>0, <1>10 DEF StartSweep, Due, TypeOK, DispatchTypeOK
  <2>3. ASSUME NEW c \in Dispatchers, NEW f \in Events
        PROVE  /\ Owed(f) \subseteq Batch(task'[c][f].snap)
               /\ task'[c][f].step # "none" => task'[c][f].snap.status # "NONE"
    <3>1. CASE task'[c][f] = task[c][f]
      BY <1>0, <3>1 DEF Carried, OwedInTask, RealTasks, InHand
    <3>2. CASE task'[c][f] = NoTask
      BY <3>2, WholeBatch DEF NoTask
    <3>3. CASE row[f].status # "NONE" /\ task'[c][f] = [step |-> "held", snap |-> row[f]]
      BY <1>0, <3>3 DEF OwedInRow
    <3> QED BY <2>2, <3>1, <3>2, <3>3
  <2>4. OwedInTask' /\ RealTasks'
    BY <1>0, <1>10, <2>3, OwedSame DEF OwedInTask, RealTasks, InHand
  <2>5. OwedInSignal' /\ RealSignals'
    BY <1>0, <1>10, OwedSame DEF StartSweep, Carried, OwedInSignal, RealSignals
  <2> QED BY <2>1, <2>4, <2>5 DEF Carried
<1>11. ASSUME NEW d \in Dispatchers, CrashDispatcher(d)
       PROVE  SafeStore /\ Carried' /\ OwedInJob'
  <2>1. SafeStore /\ OwedInJob'
    BY <1>0, <1>11, SafeIdle, JobSame DEF CrashDispatcher
  <2>2. \A f \in Events : signal'[f] \in {signal[f], NoRow}
    BY <1>0, <1>11 DEF CrashDispatcher, TypeOK, DispatchTypeOK
  <2>3. \A c \in Dispatchers, f \in Events : task'[c][f] \in {task[c][f], NoTask}
    BY <1>0, <1>11 DEF CrashDispatcher, TypeOK, DispatchTypeOK
  <2> QED BY <1>0, <2>1, <2>2, <2>3, CarriedDropped
<1>12. ASSUME NEW sweep \in Sweep, LockExpires(sweep)
       PROVE  SafeStore /\ Carried' /\ OwedInJob'
  BY <1>0, <1>12, SafeIdle, CarriedSame, JobSame DEF LockExpires, storeVars
<1> QED
  BY <1>1, <1>2, <1>3, <1>4, <1>5, <1>6, <1>7, <1>8, <1>9, <1>10, <1>11, <1>12 DEF DispatchNext

\* What the mail worker carries.
Worked == OwedInJob /\ OwedInRun /\ FinishedIsServed

\* One run moves on; the others have what they had.
LEMMA RunChange ==
    ASSUME TypeOK, OwedInRun, UNCHANGED sent, NEW r \in Runs, NEW new,
           run' = [run EXCEPT ![r] = new],
           new.step \in {"gate", "send", "persist"} => Owed(new.event) \subseteq new.data,
           new.step \in {"mark", "cleanup"} => Owed(new.event) = {}
    PROVE  OwedInRun'
<1>1. run'[r] = new /\ \A s \in Runs \ {r} : run'[s] = run[s]
  BY DEF TypeOK, MailTypeOK
<1>2. ASSUME NEW s \in Runs
      PROVE  /\ run'[s].step \in {"gate", "send", "persist"} => Owed(run'[s].event) \subseteq run'[s].data
             /\ run'[s].step \in {"mark", "cleanup"} => Owed(run'[s].event) = {}
  BY <1>1 DEF OwedInRun, Event
<1> QED BY <1>2, OwedSame DEF OwedInRun, Event, Owed

\* Runs nobody touches go on covering what is owed.
LEMMA RunSame ==
    ASSUME OwedInRun, UNCHANGED <<run, sent>>
    PROVE  OwedInRun'
BY DEF OwedInRun, Event, Owed

\* A run that gives up, or has only its failure to report, owes nothing itself.
LEMMA RunGivesUp ==
    ASSUME TypeOK, OwedInRun, UNCHANGED sent, NEW r \in Runs,
           \/ run' = [run EXCEPT ![r] = IdleRun]
           \/ \E step \in {"release", "failing"} : Goto(r, step)
           \/ run' = [run EXCEPT ![r].step = "failing", ![r].fatal = FALSE]
           \/ run' = [run EXCEPT ![r].locked = FALSE]
    PROVE  OwedInRun'
<1>0. run \in [Runs -> Run] /\ run[r] \in Run
  BY DEF TypeOK, MailTypeOK
<1>1. CASE run' = [run EXCEPT ![r] = IdleRun]
  BY <1>1, RunChange DEF IdleRun
<1>2. ASSUME NEW step \in {"release", "failing"}, Goto(r, step) PROVE OwedInRun'
  <2> DEFINE new == [run[r] EXCEPT !.step = step]
  <2>1. run' = [run EXCEPT ![r] = new] /\ new.step = step
    BY <1>0, <1>2 DEF Goto, Run
  <2> HIDE DEF new
  <2> QED BY <2>1, RunChange
<1>3. CASE run' = [run EXCEPT ![r].step = "failing", ![r].fatal = FALSE]
  <2> DEFINE new == [run[r] EXCEPT !.step = "failing", !.fatal = FALSE]
  <2>1. run' = [run EXCEPT ![r] = new] /\ new.step = "failing"
    BY <1>0, <1>3 DEF Run
  <2> HIDE DEF new
  <2> QED BY <2>1, RunChange
<1>4. CASE run' = [run EXCEPT ![r].locked = FALSE]
  <2> DEFINE new == [run[r] EXCEPT !.locked = FALSE]
  <2>1. /\ run' = [run EXCEPT ![r] = new]
        /\ new.step = run[r].step /\ new.event = run[r].event /\ new.data = run[r].data
    BY <1>0, <1>4 DEF Run
  <2> HIDE DEF new
  <2>2. /\ run[r].step \in {"gate", "send", "persist"} => Owed(run[r].event) \subseteq run[r].data
        /\ run[r].step \in {"mark", "cleanup"} => Owed(run[r].event) = {}
    BY DEF OwedInRun, Event
  <2> QED BY <2>1, <2>2, RunChange
<1> QED BY <1>1, <1>2, <1>3, <1>4

\* A job may change in everything but its recipients.
LEMMA JobChange ==
    ASSUME TypeOK, OwedInJob, UNCHANGED sent,
           \A e \in Events :
              \/ job'[e].state = "absent"
              \/ job[e].state # "absent" /\ job'[e].data = job[e].data
    PROVE  OwedInJob'
BY OwedSame DEF OwedInJob

\* A run that returns leaves the other runs and the jobs' recipients alone.
LEMMA CompleteSafe ==
    ASSUME TypeOK, OwedInJob, OwedInRun, UNCHANGED sent, NEW r \in Runs,
           Event(r) \in Events, Complete(r), run[r].locked => job[Event(r)].state = "active"
    PROVE  OwedInJob' /\ OwedInRun'
<1>1. \A e \in Events :
         \/ job'[e].state = "absent"
         \/ job[e].state # "absent" /\ job'[e].data = job[e].data
         \/ job'[e] = job[e]
  BY DEF Complete, TypeOK, StoreTypeOK, Job
<1>2. OwedInJob'
  BY <1>1, OwedSame DEF OwedInJob
<1> QED BY <1>2, RunGivesUp DEF Complete

\* Every action of MailDelivery is safe for the table, forgets nobody, and only
\* takes recipients off what is owed.
LEMMA MailSafe ==
    ASSUME AtLeastOnceInv, MailNext
    PROVE  /\ SafeStore
           /\ Worked'
           /\ \A e \in Events : Owed(e)' \subseteq Owed(e)
<1> USE DEF AtLeastOnceInv
<1>0. /\ TypeOK /\ RealRows /\ OpenIsStored /\ OneOwnerPerJob
      /\ OwedInJob /\ OwedInRun /\ FinishedIsServed
      /\ run \in [Runs -> Run] /\ job \in [Events -> Job]
      /\ key \in [Events -> {"none", "processing", "completed"}]
  BY DEF RealSnapshots, AtLeastOnce, NobodyForgotten, TypeOK, MailTypeOK, StoreTypeOK
<1> DEFINE Safe == /\ SafeStore
                   /\ Worked'
                   /\ \A e \in Events : Owed(e)' \subseteq Owed(e)
<1>a. ASSUME UNCHANGED sent PROVE \A e \in Events : Owed(e)' \subseteq Owed(e)
  BY <1>a, OwedSame
<1>b. ASSUME UNCHANGED sent,
             \A e \in Events : key'[e] = "completed" => key[e] = "completed" \/ Owed(e) = {}
      PROVE  FinishedIsServed'
  BY <1>0, <1>b, OwedSame DEF FinishedIsServed
<1>c. ASSUME NEW r \in Runs, ~At(r, "idle")
      PROVE  Event(r) \in Events /\ run[r].event = Event(r)
  BY <1>c DEF At, Event, TypeOK, MailTypeOK
<1>d. ASSUME NEW r \in Runs
      PROVE  run[r].locked => job[Event(r)].state = "active"
  BY <1>0 DEF OneOwnerPerJob
<1> HIDE DEF AtLeastOnceInv
<1>1. ASSUME NEW r \in Runs, NEW e \in Events, Start(r, e) PROVE Safe
  <2>1. SafeStore
    BY <1>0, <1>1, SafeIdle DEF Start
  <2>2. \A f \in Events : (job[f].state # "absent" /\ job'[f].data = job[f].data) \/ job'[f] = job[f]
    BY <1>0, <1>1 DEF Start, Job
  <2>3. OwedInJob'
    BY <1>0, <1>1, <2>2, OwedSame DEF Start, OwedInJob
  <2> DEFINE new == [step |-> "gate", event |-> e, data |-> job[e].data,
                     locked |-> TRUE, fatal |-> FALSE]
  <2>4. OwedInRun'
    <3>1. Owed(e) \subseteq job[e].data
      BY <1>0, <1>1 DEF Start, OwedInJob
    <3>2. /\ run' = [run EXCEPT ![r] = new] /\ UNCHANGED sent
          /\ new.step = "gate" /\ new.event = e /\ new.data = job[e].data
      BY <1>1 DEF Start
    <3> HIDE DEF new
    <3> QED BY <1>0, <3>1, <3>2, RunChange
  <2>5. FinishedIsServed'
    BY <1>1, <1>b DEF Start
  <2> QED BY <1>1, <1>a, <2>1, <2>3, <2>4, <2>5 DEF Worked, Start
<1>2. ASSUME NEW r \in Runs, DiscardExpiredJob(r) PROVE Safe
  <2>1. ~At(r, "idle")
    BY <1>2 DEF DiscardExpiredJob, At
  <2>2. SafeStore
    BY <1>0, <1>2, <1>c, <2>1, SafeDelete DEF DiscardExpiredJob
  <2>3. OwedInJob' /\ OwedInRun'
    BY <1>0, <1>2, <1>c, <1>d, <2>1, CompleteSafe DEF DiscardExpiredJob
  <2> QED BY <1>2, <1>a, <1>b, <2>2, <2>3 DEF Worked, DiscardExpiredJob
<1>3. ASSUME NEW r \in Runs, AcquireKey(r) PROVE Safe
  <2>1. SafeStore /\ OwedInJob'
    BY <1>0, <1>3, SafeIdle, JobSame DEF AcquireKey, storeVars
  <2>2. FinishedIsServed'
    BY <1>0, <1>3, <1>b DEF AcquireKey
  <2> DEFINE new == [run[r] EXCEPT !.step = "send"]
  <2>3. OwedInRun'
    <3>1. /\ run' = [run EXCEPT ![r] = new] /\ UNCHANGED sent
          /\ new.step = "send" /\ new.event = run[r].event /\ new.data = run[r].data
      BY <1>0, <1>3 DEF AcquireKey, Goto, Run
    <3>2. Owed(run[r].event) \subseteq run[r].data
      BY <1>0, <1>3 DEF AcquireKey, At, Event, OwedInRun
    <3> HIDE DEF new
    <3> QED BY <1>0, <3>1, <3>2, RunChange
  <2> QED BY <1>3, <1>a, <2>1, <2>2, <2>3 DEF Worked, AcquireKey
<1>4. ASSUME NEW r \in Runs, AlreadySent(r) PROVE Safe
  <2>1. ~At(r, "idle")
    BY <1>4 DEF AlreadySent, At
  <2>2. Owed(Event(r)) = {}
    BY <1>0, <1>4, <1>c, <2>1 DEF AlreadySent, FinishedIsServed
  <2>3. SafeStore
    BY <1>0, <1>4, <1>c, <2>1, <2>2, SafeDelete DEF AlreadySent
  <2>4. OwedInJob' /\ OwedInRun'
    BY <1>0, <1>4, <1>c, <1>d, <2>1, CompleteSafe DEF AlreadySent
  <2> QED BY <1>4, <1>a, <1>b, <2>3, <2>4 DEF Worked, AlreadySent
<1>5. ASSUME NEW r \in Runs, GateThrows(r) PROVE Safe
  <2>1. SafeStore /\ OwedInJob'
    BY <1>0, <1>5, SafeIdle, JobSame DEF GateThrows
  <2>2. FinishedIsServed'
    BY <1>0, <1>5, <1>b DEF GateThrows
  <2>3. OwedInRun'
    BY <1>0, <1>5, RunGivesUp DEF GateThrows
  <2> QED BY <1>5, <1>a, <2>1, <2>2, <2>3 DEF Worked, GateThrows
<1>6. ASSUME NEW r \in Runs, Send(r) PROVE Safe
  <2>1. Event(r) \in Events /\ run[r].data \subseteq Recipients
    BY <1>0, <1>6, <1>c DEF Send, At, Run
  <2> DEFINE step(a) == IF run[r].data \ a = {} THEN "mark" ELSE IF a = {} THEN "release" ELSE "persist"
             new(a, perm) == [run[r] EXCEPT !.step = step(a), !.data = run[r].data \ a, !.fatal = perm]
             counts(a) == [p \in Recipients |->
                             IF p \in a THEN sent[Event(r)][p] + 1 ELSE sent[Event(r)][p]]
  <2>2. PICK a \in SUBSET run[r].data, perm \in BOOLEAN :
          run' = [run EXCEPT ![r] = new(a, perm)] /\ sent' = [sent EXCEPT ![Event(r)] = counts(a)]
    BY <1>6 DEF Send
  <2> DEFINE left(f) == {p \in Recipients : sent'[f][p] = 0}
  <2>3. /\ \A f \in Events : left(f) \subseteq Owed(f)
        /\ left(Event(r)) \subseteq Owed(Event(r)) \ a
    <3>0. sent \in [Events -> [Recipients -> Nat]]
      BY <1>0 DEF TypeOK, MailTypeOK
    <3>1. \A f \in Events \ {Event(r)} : sent'[f] = sent[f]
      BY <2>1, <2>2, <3>0
    <3>2. ASSUME NEW p \in Recipients, sent'[Event(r)][p] = 0
          PROVE  sent[Event(r)][p] = 0 /\ p \notin a
      <4>1. sent'[Event(r)][p] = IF p \in a THEN sent[Event(r)][p] + 1 ELSE sent[Event(r)][p]
        BY <2>1, <2>2, <3>0
      <4>2. sent[Event(r)][p] \in Nat
        BY <2>1, <3>0
      <4> HIDE DEF counts, new
      <4> QED BY <3>2, <4>1, <4>2
    <3> QED BY <2>1, <3>1, <3>2 DEF Owed
  <2>4. Owed(Event(r)) \subseteq run[r].data
    BY <1>0, <1>6 DEF Send, At, OwedInRun
  <2>5. /\ new(a, perm).event = Event(r) /\ new(a, perm).data = run[r].data \ a
        /\ new(a, perm).step = "mark" => run[r].data \ a = {}
        /\ new(a, perm).step \in {"mark", "release", "persist"}
    BY <1>0 DEF Run, Event
  <2>6. run'[r] = new(a, perm) /\ \A s \in Runs \ {r} : run'[s] = run[s]
    BY <1>0, <2>2
  <2> HIDE DEF new, counts, left
  <2>7. ASSUME NEW s \in Runs
        PROVE  /\ run'[s].step \in {"gate", "send", "persist"} => left(run'[s].event) \subseteq run'[s].data
               /\ run'[s].step \in {"mark", "cleanup"} => left(run'[s].event) = {}
    <3>1. CASE s = r
      BY <2>3, <2>4, <2>5, <2>6, <3>1
    <3>2. CASE s # r
      <4>1. run[s].step # "idle" => run[s].event \in Events
        BY <1>0 DEF TypeOK, MailTypeOK
      <4>2. run[s].step # "idle" => left(run[s].event) \subseteq Owed(run[s].event)
        BY <2>3, <4>1
      <4>3. /\ run[s].step \in {"gate", "send", "persist"} => Owed(run[s].event) \subseteq run[s].data
            /\ run[s].step \in {"mark", "cleanup"} => Owed(run[s].event) = {}
        BY <1>0 DEF OwedInRun, Event
      <4> QED BY <2>6, <3>2, <4>2, <4>3
    <3> QED BY <3>1, <3>2
  <2>8. OwedInRun' /\ \A f \in Events : Owed(f)' \subseteq Owed(f)
    <3>1. \A f : Owed(f)' = left(f)
      BY DEF Owed, left
    <3>2. \A f \in Events : Owed(f)' \subseteq Owed(f)
      BY <2>3, <3>1
    <3> QED BY <2>7, <3>2 DEF OwedInRun, Event, Owed, left
  <2>9. SafeStore /\ UNCHANGED <<job, key>>
    BY <1>0, <1>6, SafeIdle DEF Send, storeVars
  <2>10. OwedInJob' /\ FinishedIsServed'
    BY <1>0, <2>8, <2>9 DEF OwedInJob, FinishedIsServed
  <2> QED BY <2>8, <2>9, <2>10 DEF Worked
<1>7. ASSUME NEW r \in Runs, Persist(r) PROVE Safe
  <2>1. ~At(r, "idle") /\ run[r].data \in SUBSET Recipients
    BY <1>0, <1>7 DEF Persist, At, Run
  <2>2. Event(r) \in Events /\ Owed(Event(r)) \subseteq run[r].data
    BY <1>0, <1>7, <1>c, <2>1 DEF Persist, At, OwedInRun
  <2>3. Exists(Event(r)) /\ updatePendingRecipients(Event(r), run[r].data) => SafeStore
    BY <1>0, <1>7, <2>1, <2>2, SafeOps DEF Persist
  <2>4. SafeStore
    BY <1>0, <1>7, <2>3, SafeIdle DEF Persist
  <2>5. /\ \A f \in Events \ {Event(r)} : job'[f] = job[f]
        /\ job'[Event(r)].state = job[Event(r)].state
        /\ \/ job'[Event(r)].data = job[Event(r)].data
           \/ job[Event(r)].state = "absent"
           \/ job'[Event(r)].data = run[r].data
    BY <1>0, <1>7, <2>2 DEF Persist, Job
  <2>6. ASSUME NEW f \in Events, job'[f].state # "absent"
        PROVE  Owed(f) \subseteq job'[f].data
    BY <1>0, <2>2, <2>5, <2>6 DEF OwedInJob
  <2>7. OwedInJob'
    BY <1>7, <2>6, OwedSame DEF Persist, OwedInJob
  <2>8. OwedInRun'
    BY <1>0, <1>7, RunGivesUp DEF Persist
  <2> QED BY <1>7, <1>a, <1>b, <2>4, <2>7, <2>8 DEF Worked, Persist
<1>8. ASSUME NEW r \in Runs, MarkCompleted(r) PROVE Safe
  <2>1. SafeStore /\ OwedInJob'
    BY <1>0, <1>8, SafeIdle, JobSame DEF MarkCompleted
  <2>2. Owed(Event(r)) = {}
    BY <1>0, <1>8 DEF MarkCompleted, At, OwedInRun
  <2>3. FinishedIsServed'
    <3>1. \A f \in Events : key'[f] = key[f] \/ f = Event(r)
      BY <1>0, <1>8 DEF MarkCompleted
    <3> QED BY <1>8, <1>b, <2>2, <3>1 DEF MarkCompleted
  <2>4. OwedInRun'
    <3>1. CASE Goto(r, "cleanup")
      <4> DEFINE new == [run[r] EXCEPT !.step = "cleanup"]
      <4>1. run' = [run EXCEPT ![r] = new] /\ new.step = "cleanup" /\ new.event = Event(r)
        BY <1>0, <3>1 DEF Goto, Run, Event
      <4>2. UNCHANGED sent
        BY <1>8 DEF MarkCompleted
      <4> HIDE DEF new
      <4> QED BY <1>0, <2>2, <4>1, <4>2, RunChange
    <3>2. CASE Goto(r, "release")
      BY <1>0, <1>8, <3>2, RunGivesUp DEF MarkCompleted
    <3> QED BY <1>8, <3>1, <3>2 DEF MarkCompleted
  <2> QED BY <1>8, <1>a, <2>1, <2>3, <2>4 DEF Worked, MarkCompleted
<1>9. ASSUME NEW r \in Runs, Release(r) PROVE Safe
  <2>1. SafeStore /\ OwedInJob'
    BY <1>0, <1>9, SafeIdle, JobSame DEF Release
  <2>2. FinishedIsServed'
    BY <1>0, <1>9, <1>b DEF Release
  <2>3. OwedInRun'
    BY <1>0, <1>9, RunGivesUp DEF Release
  <2> QED BY <1>9, <1>a, <2>1, <2>2, <2>3 DEF Worked, Release
<1>10. ASSUME NEW r \in Runs, Cleanup(r) PROVE Safe
  <2>1. ~At(r, "idle") /\ Owed(Event(r)) = {}
    BY <1>0, <1>10 DEF Cleanup, At, OwedInRun
  <2>2. delete({Event(r)}, "delivered") => SafeStore
    BY <1>0, <1>c, <2>1, SafeDelete
  <2>3. SafeStore
    BY <1>0, <1>10, <2>2, SafeIdle DEF Cleanup
  <2>4. OwedInJob' /\ OwedInRun'
    BY <1>0, <1>10, <1>c, <1>d, <2>1, CompleteSafe, RunGivesUp, JobSame DEF Cleanup
  <2> QED BY <1>10, <1>a, <1>b, <2>3, <2>4 DEF Worked, Cleanup
<1>11. ASSUME NEW r \in Runs, FailJob(r) PROVE Safe
  <2>1. SafeStore
    BY <1>0, <1>11, SafeIdle DEF FailJob
  <2>2. ~At(r, "idle")
    BY <1>11 DEF FailJob, At
  <2>3. ASSUME NEW f \in Events
        PROVE  job'[f] = job[f] \/ (job[f].state # "absent" /\ job'[f].data = job[f].data)
    BY <1>0, <1>11, <1>c, <1>d, <2>2 DEF FailJob, Job
  <2>4. OwedInJob'
    BY <1>0, <1>11, <2>3, OwedSame DEF FailJob, OwedInJob
  <2>5. OwedInRun'
    BY <1>0, <1>11, RunGivesUp DEF FailJob
  <2> QED BY <1>11, <1>a, <1>b, <2>1, <2>4, <2>5 DEF Worked, FailJob
<1>12. ASSUME NEW r \in Runs, CrashRun(r) \/ StallRun(r) PROVE Safe
  <2>1. SafeStore /\ OwedInJob' /\ OwedInRun'
    BY <1>0, <1>12, SafeIdle, JobSame, RunGivesUp DEF CrashRun, StallRun
  <2> QED BY <1>12, <1>a, <1>b, <2>1 DEF Worked, CrashRun, StallRun
<1>13. ASSUME NEW e \in Events, revertForRedispatch(e) PROVE Safe
  <2>1. updateStatus(e, "PENDING") => SafeStore
    BY <1>0, SafeOps DEF Status
  <2> QED BY <1>0, <1>13, <1>a, <1>b, <2>1, SafeIdle, JobSame, RunSame DEF Worked, revertForRedispatch
<1>14. ASSUME NEW e \in Events, RequeueStalled(e) PROVE Safe
  <2>1. \A f \in Events : job'[f] = job[f] \/ (job[f].state # "absent" /\ job'[f].data = job[f].data)
    BY <1>0, <1>14 DEF RequeueStalled, Job
  <2>2. OwedInJob'
    BY <1>0, <1>14, <2>1, OwedSame DEF RequeueStalled, OwedInJob
  <2> QED BY <1>0, <1>14, <1>a, <1>b, <2>2, SafeIdle, RunSame DEF Worked, RequeueStalled
<1>15. ASSUME NEW e \in Events, KeyExpires(e) PROVE Safe
  <2>1. FinishedIsServed'
    BY <1>0, <1>15, <1>b DEF KeyExpires
  <2> QED BY <1>0, <1>15, <1>a, <2>1, SafeIdle, JobSame, RunSame DEF Worked, KeyExpires
<1>16. ASSUME NEW e \in Events, EvictJob(e) PROVE Safe
  <2>1. \A f \in Events : job'[f] = job[f] \/ job'[f].state = "absent"
    BY <1>0, <1>16 DEF EvictJob, NoJob
  <2>2. OwedInJob'
    BY <1>0, <1>16, <2>1, OwedSame DEF EvictJob, OwedInJob
  <2> QED BY <1>0, <1>16, <1>a, <1>b, <2>2, SafeIdle, RunSame DEF Worked, EvictJob
<1> QED
  BY <1>1, <1>2, <1>3, <1>4, <1>5, <1>6, <1>7, <1>8, <1>9, <1>10, <1>11, <1>12,
     <1>13, <1>14, <1>15, <1>16 DEF MailNext

\* The scheduled sweeps and the operator's commands are safe for the table.
LEMMA UpkeepSafe ==
    ASSUME AtLeastOnceInv, UpkeepNext
    PROVE  SafeStore
<1>0. TypeOK /\ RealRows /\ OpenIsStored /\ doomed \subseteq Events
  BY DEF AtLeastOnceInv, RealSnapshots, AtLeastOnce, TypeOK, UpkeepTypeOK
<1>1. CASE deleteExpired
  BY <1>0, <1>1, SafeDelete DEF deleteExpired
<1>2. CASE deleteOlderThan
  BY <1>0, <1>2, SafeDelete DEF deleteOlderThan
<1>3. CASE SelectFailed
  BY <1>0, <1>3, SafeIdle DEF SelectFailed, storeVars
<1>4. CASE DeleteSelected
  BY <1>0, <1>4, SafeDelete, SafeIdle DEF DeleteSelected
<1>5. ASSUME NEW e \in Events, retryFailedOutboxEvent(e) PROVE SafeStore
  BY <1>0, <1>5, SafeOps DEF retryFailedOutboxEvent
<1> QED BY <1>1, <1>2, <1>3, <1>4, <1>5 DEF UpkeepNext

\* So is the passing of time.
LEMMA TimeSafe ==
    ASSUME AtLeastOnceInv, Time
    PROVE  SafeStore
<1>0. TypeOK /\ RealRows /\ OpenIsStored /\ row \in [Events -> Row]
  BY DEF AtLeastOnceInv, RealSnapshots, AtLeastOnce, TypeOK, StoreTypeOK
<1>1. ASSUME NEW e \in Events, Expire(e) PROVE SafeStore
  BY <1>0, <1>1, SafeIdle DEF Expire
<1>2. ASSUME NEW e \in Events, Overstay(e) PROVE SafeStore
  <2> DEFINE new == [row[e] EXCEPT !.overdue = TRUE]
  <2>1. /\ row' = [row EXCEPT ![e] = new] /\ UNCHANGED fate /\ Exists(e)
        /\ new \in Row /\ new.status # "NONE" /\ new.pendingRecipients = row[e].pendingRecipients
    BY <1>0, <1>2 DEF Overstay, Exists, Row
  <2> HIDE DEF new
  <2> QED BY <1>0, <2>1, SafeUpdate
<1> QED BY <1>1, <1>2 DEF Time

\* Snapshots nobody touches still carry what is left to be served.
LEMMA CarriedShrinks ==
    ASSUME Carried, UNCHANGED <<signal, task>>, \A e \in Events : Owed(e)' \subseteq Owed(e)
    PROVE  Carried'
<1>1. OwedInSignal'
  BY DEF Carried, OwedInSignal
<1>2. OwedInTask'
  BY DEF Carried, OwedInTask
<1>3. RealSignals' /\ RealTasks'
  BY DEF Carried, RealSignals, RealTasks, InHand
<1> QED BY <1>1, <1>2, <1>3 DEF Carried

\* Nothing a step of the pipeline does un-expires an event.
LEMMA ExpiryIsFinal ==
    ASSUME TypeOK, [Next]_vars
    PROVE  \A e \in Events : expired[e] => expired'[e]
<1>1. CASE DispatchNext
  <2>1. ASSUME NEW e \in Events, Register(e) \/ enqueueOutboxDispatch(e)
        PROVE  UNCHANGED expired
    BY <2>1 DEF Register, enqueueOutboxDispatch, storeVars
  <2>2. ASSUME NEW d \in Dispatchers, NEW e \in Events,
               TakeSignal(d, e) \/ DiscardExpired(d, e) \/ markPoisoned(d, e) \/ Claim(d, e)
        PROVE  UNCHANGED expired
    BY <2>2 DEF TakeSignal, DiscardExpired, markPoisoned, Claim, storeVars
  <2>3. ASSUME NEW d \in Dispatchers, NEW e \in Events,
               LoseClaim(d, e) \/ Dispatch(d, e) \/ RevertDispatch(d, e)
        PROVE  UNCHANGED expired
    BY <2>3 DEF LoseClaim, Dispatch, RevertDispatch, storeVars
  <2>4. ASSUME NEW d \in Dispatchers, NEW sweep \in Sweep, StartSweep(d, sweep)
        PROVE  UNCHANGED expired
    BY <2>4 DEF StartSweep, storeVars
  <2>5. ASSUME NEW d \in Dispatchers, CrashDispatcher(d) PROVE UNCHANGED expired
    BY <2>5 DEF CrashDispatcher, storeVars
  <2>6. ASSUME NEW sweep \in Sweep, LockExpires(sweep) PROVE UNCHANGED expired
    BY <2>6 DEF LockExpires, storeVars
  <2> QED BY <1>1, <2>1, <2>2, <2>3, <2>4, <2>5, <2>6 DEF DispatchNext
<1>2. CASE MailNext
  BY <1>2 DEF MailNext, Start, DiscardExpiredJob, AcquireKey, AlreadySent, GateThrows, Send, Persist,
              MarkCompleted, Release, Cleanup, FailJob, CrashRun, StallRun, revertForRedispatch,
              RequeueStalled, KeyExpires, EvictJob, storeVars
<1>3. CASE UpkeepNext
  BY <1>3 DEF UpkeepNext, deleteExpired, deleteOlderThan, SelectFailed, DeleteSelected,
              retryFailedOutboxEvent, storeVars
<1>4. CASE Time
  BY <1>4 DEF Time, Expire, Overstay, TypeOK, StoreTypeOK
<1>5. CASE UNCHANGED vars
  BY <1>5 DEF vars, storeVars
<1> QED BY <1>1, <1>2, <1>3, <1>4, <1>5 DEF Next

\* Every step keeps the inductive invariant.
LEMMA AtLeastOnceStep ==
    ASSUME AtLeastOnceInv, [Next]_vars
    PROVE  AtLeastOnceInv'
<1>0. TypeOK' /\ OneOwnerPerJob'
  BY TypeStep, OwnerStep DEF AtLeastOnceInv
<1>1. \A e \in Events : expired[e] => expired'[e]
  BY ExpiryIsFinal DEF AtLeastOnceInv
<1>2. Carried /\ Worked
  BY DEF AtLeastOnceInv, RealSnapshots, NobodyForgotten, Carried, Worked
<1> DEFINE Served == \A e \in Events : Owed(e)' \subseteq Owed(e)
<1>3. SafeStore /\ Served /\ Carried' /\ Worked'
  <2>1. ASSUME UNCHANGED sent PROVE Served
    BY <2>1, OwedSame
  <2>2. ASSUME UNCHANGED <<job, run, key, sent>> PROVE Worked'
    BY <1>2, <2>2, OwedSame, JobSame, RunSame DEF Worked, FinishedIsServed
  <2>3. CASE DispatchNext /\ UNCHANGED <<mailVars, upkeepVars>>
    <3>1. UNCHANGED <<run, key, sent>>
      BY <2>3 DEF mailVars
    <3>2. SafeStore /\ Carried' /\ OwedInJob'
      BY <2>3, <3>1, DispatchSafe
    <3>3. OwedInRun' /\ FinishedIsServed'
      BY <1>2, <3>1, OwedSame, RunSame DEF Worked, FinishedIsServed
    <3> QED BY <2>1, <3>1, <3>2, <3>3 DEF Worked
  <2>4. CASE MailNext /\ UNCHANGED <<dispatchVars, upkeepVars>>
    <3>1. SafeStore /\ Worked' /\ Served
      BY <2>4, MailSafe
    <3> QED BY <1>2, <2>4, <3>1, CarriedShrinks DEF dispatchVars
  <2>5. CASE UpkeepNext /\ UNCHANGED mailVars
    <3>1. UNCHANGED <<signal, task, job, run, key, sent>>
      BY <2>5 DEF UpkeepNext, deleteExpired, deleteOlderThan, SelectFailed, DeleteSelected,
                  retryFailedOutboxEvent, storeVars, dispatchVars, mailVars
    <3> QED BY <1>2, <2>1, <2>2, <2>5, <3>1, UpkeepSafe, CarriedSame
  <2>6. CASE Time
    <3>1. UNCHANGED <<signal, task, job, run, key, sent>>
      BY <2>6 DEF Time, Expire, Overstay, dispatchVars, mailVars
    <3> QED BY <1>2, <2>1, <2>2, <2>6, <3>1, TimeSafe, CarriedSame
  <2>7. CASE UNCHANGED vars
    <3>1. UNCHANGED <<row, fate, signal, task, job, run, key, sent>>
      BY <2>7 DEF vars, storeVars, dispatchVars, mailVars
    <3>2. SafeStore
      BY <3>1, SafeIdle DEF AtLeastOnceInv, RealSnapshots, AtLeastOnce
    <3> QED BY <1>2, <2>1, <2>2, <3>1, <3>2, CarriedSame
  <2> QED BY <2>3, <2>4, <2>5, <2>6, <2>7 DEF Next
<1>4. RealRows' /\ OwedInRow' /\ AtLeastOnce'
  BY <1>1, <1>3, SafeStep
<1> QED
  BY <1>0, <1>3, <1>4
     DEF AtLeastOnceInv, RealSnapshots, NobodyForgotten, Carried, Worked

\* It holds at the start.
LEMMA InitHolds ==
    ASSUME Init
    PROVE  AtLeastOnceInv
<1>1. TypeOK
  BY RecordTypes, FreeAssumption
     DEF Init, TypeOK, StoreInit, DispatchInit, MailInit, UpkeepInit,
         StoreTypeOK, DispatchTypeOK, MailTypeOK, UpkeepTypeOK, Fate, Mode, Sweep, IdleRun
<1>2. OneOwnerPerJob
  BY DEF Init, MailInit, OneOwnerPerJob, IdleRun
<1>3. RealSnapshots /\ AtLeastOnce
  BY DEF Init, StoreInit, DispatchInit, RealSnapshots, RealRows, RealSignals, RealTasks,
         AtLeastOnce, OpenIsStored, Exists, NoRow, InHand, NoTask
<1>4. OwedInRow /\ OwedInSignal /\ OwedInTask
  BY WholeBatch DEF Init, StoreInit, DispatchInit, OwedInRow, OwedInSignal, OwedInTask, NoTask
<1>5. OwedInJob /\ OwedInRun /\ FinishedIsServed
  BY DEF Init, StoreInit, MailInit, OwedInJob, OwedInRun, FinishedIsServed, NoJob, IdleRun
<1> QED BY <1>1, <1>2, <1>3, <1>4, <1>5 DEF AtLeastOnceInv, NobodyForgotten

\* The inductive invariant holds throughout.
LEMMA AtLeastOnceInvariant == Spec => []AtLeastOnceInv
<1>1. Init => AtLeastOnceInv
  BY InitHolds
<1>2. AtLeastOnceInv /\ [Next]_vars => AtLeastOnceInv'
  BY AtLeastOnceStep
<1> QED BY <1>1, <1>2, PTL DEF Spec

\* Selective retry never leaves out a recipient who is still owed the message, in
\* whatever row, snapshot, job or run it has narrowed the batch.
THEOREM NobodyIsForgotten == Spec => []NobodyForgotten
<1>1. AtLeastOnceInv => NobodyForgotten
  BY DEF AtLeastOnceInv
<1> QED BY <1>1, AtLeastOnceInvariant, PTL

\* At-least-once delivery: a row leaves the table as delivered only when every
\* recipient was served, as expired only when it is, and otherwise only by a purge.
THEOREM DeliveredAtLeastOnce == Spec => []AtLeastOnce
<1>1. AtLeastOnceInv => AtLeastOnce
  BY DEF AtLeastOnceInv
<1> QED BY <1>1, AtLeastOnceInvariant, PTL

\* Failures are never taken back.
LEMMA FaultsOnlyGrow ==
    ASSUME TypeOK, [Next]_vars
    PROVE  faults' >= faults
<1>0. faults \in Nat
  BY DEF TypeOK, StoreTypeOK
<1>1. (Works \/ Fails \/ UNCHANGED faults) => faults' >= faults
  BY <1>0 DEF Works, Fails
<1>2. ASSUME DispatchNext PROVE Works \/ Fails \/ UNCHANGED faults
  <2>1. ASSUME NEW e \in Events, Register(e) \/ enqueueOutboxDispatch(e)
        PROVE  Works \/ Fails \/ UNCHANGED faults
    BY <2>1 DEF Register, enqueueOutboxDispatch
  <2>2. ASSUME NEW d \in Dispatchers, NEW e \in Events,
               TakeSignal(d, e) \/ DiscardExpired(d, e) \/ markPoisoned(d, e) \/ Claim(d, e)
                   \/ LoseClaim(d, e)
        PROVE  Works \/ Fails \/ UNCHANGED faults
    BY <2>2 DEF TakeSignal, DiscardExpired, markPoisoned, Claim, LoseClaim, storeVars
  <2>3. ASSUME NEW d \in Dispatchers, NEW e \in Events, Dispatch(d, e) \/ RevertDispatch(d, e)
        PROVE  Works \/ Fails \/ UNCHANGED faults
    BY <2>3 DEF Dispatch, RevertDispatch
  <2>4. ASSUME NEW d \in Dispatchers, NEW sweep \in Sweep, StartSweep(d, sweep)
        PROVE  UNCHANGED faults
    BY <2>4 DEF StartSweep, storeVars
  <2>5. ASSUME NEW sweep \in Sweep, LockExpires(sweep) PROVE UNCHANGED faults
    BY <2>5 DEF LockExpires, storeVars
  <2>6. ASSUME NEW d \in Dispatchers, CrashDispatcher(d) PROVE Fails
    BY <2>6 DEF CrashDispatcher
  <2> QED BY <1>2, <2>1, <2>2, <2>3, <2>4, <2>5, <2>6 DEF DispatchNext
<1>3. ASSUME MailNext PROVE Works \/ Fails \/ UNCHANGED faults
  <2>1. ASSUME NEW r \in Runs, NEW e \in Events, Start(r, e) PROVE UNCHANGED faults
    BY <2>1 DEF Start
  <2>2. ASSUME NEW r \in Runs, AcquireKey(r) \/ Send(r) PROVE UNCHANGED faults
    BY <2>2 DEF AcquireKey, Send, storeVars
  <2>7. ASSUME NEW r \in Runs, DiscardExpiredJob(r) \/ AlreadySent(r)
        PROVE  Works \/ Fails \/ UNCHANGED faults
    BY <2>7 DEF DiscardExpiredJob, AlreadySent, Works, Fails, storeVars
  <2>5. ASSUME NEW r \in Runs, GateThrows(r) PROVE Works \/ Fails
    BY <2>5 DEF GateThrows
  <2>6. ASSUME NEW r \in Runs, Persist(r) PROVE Works \/ Fails
    BY <2>6 DEF Persist
  <2>3. ASSUME NEW r \in Runs,
               MarkCompleted(r) \/ Release(r) \/ Cleanup(r) \/ FailJob(r) \/ CrashRun(r) \/ StallRun(r)
        PROVE  Works \/ Fails \/ UNCHANGED faults
    BY <2>3 DEF MarkCompleted, Release, Cleanup, FailJob, CrashRun, StallRun
  <2>4. ASSUME NEW e \in Events,
               revertForRedispatch(e) \/ RequeueStalled(e) \/ KeyExpires(e) \/ EvictJob(e)
        PROVE  Works \/ Fails \/ UNCHANGED faults
    BY <2>4 DEF revertForRedispatch, RequeueStalled, KeyExpires, EvictJob
  <2> QED BY <1>3, <2>1, <2>2, <2>3, <2>4, <2>5, <2>6, <2>7 DEF MailNext
<1>4. ASSUME UpkeepNext PROVE Works \/ Fails \/ UNCHANGED faults
  BY <1>4 DEF UpkeepNext, deleteExpired, deleteOlderThan, SelectFailed, DeleteSelected,
              retryFailedOutboxEvent, storeVars
<1>5. ASSUME Time \/ UNCHANGED vars PROVE UNCHANGED faults
  BY <1>5 DEF Time, Expire, Overstay, vars, storeVars
<1> QED BY <1>1, <1>2, <1>3, <1>4, <1>5 DEF Next

-----------------------------------------------------------------------------
(* Two lines of defence *)

\* BullMQ's lock and the key of the batch in hand: either may have given way.
Stalled == \E r \in Runs : ~At(r, "idle") /\ ~run[r].locked
Lapsed == \E r \in Runs : InBatch(r) /\ key[Event(r)] = "none"

\* Each defence costs a failure, and both together two.  Two executions of one job
\* mean that the lock gave way; the second of them finds no key only if that did too.
DefenceInv ==
    /\ Stalled => faults >= 1
    /\ Lapsed => faults >= 1
    /\ Stalled /\ Lapsed => faults >= 2
    /\ SoleSender

\* A step in which nobody enters a batch, loses a lock or loses a key.
LEMMA DefenceKept ==
    ASSUME DefenceInv, faults \in Nat, faults' \in Nat, faults' >= faults,
           \A r \in Runs : /\ InBatch(r)' => InBatch(r) /\ Event(r)' = Event(r)
                           /\ run'[r].step # "idle" /\ ~run'[r].locked =>
                                 run[r].step # "idle" /\ ~run[r].locked
                           /\ InBatch(r)' /\ key'[Event(r)'] = "none" => key[Event(r)] = "none"
    PROVE  DefenceInv'
<1>1. Stalled' => Stalled
  BY DEF Stalled, At
<1>2. Lapsed' => Lapsed
  BY DEF Lapsed
<1>3. SoleSender' \/ faults' >= 2
  BY DEF DefenceInv, SoleSender
<1>4. SoleSender'
  BY <1>3 DEF SoleSender
<1> QED BY <1>1, <1>2, <1>4 DEF DefenceInv

\* Two executions of one job: BullMQ gave one of them up.
LEMMA TwoRunsMeanAStall ==
    ASSUME TypeOK, OneOwnerPerJob, NEW r \in Runs, NEW s \in Runs, r # s,
           ~At(r, "idle"), ~At(s, "idle"), Event(r) = Event(s)
    PROVE  Stalled
BY DEF OneOwnerPerJob, Stalled

\* The steps of the mail worker that a defence hangs on.
LEMMA MailDefends ==
    ASSUME TypeOK, TypeOK', OneOwnerPerJob, DefenceInv, MailNext
    PROVE  DefenceInv'
<1>0. /\ run \in [Runs -> Run]
      /\ key \in [Events -> {"none", "processing", "completed"}]
      /\ faults \in Nat /\ faults' \in Nat
      /\ \A r \in Runs : ~At(r, "idle") => Event(r) \in Events
  BY DEF TypeOK, StoreTypeOK, MailTypeOK, At, Event
<1>1. \A r \in Runs : InBatch(r) => ~At(r, "idle")
  BY DEF InBatch, At
<1>2. (Works \/ Fails) => faults' >= faults
  BY <1>0 DEF Works, Fails
<1>3. ASSUME NEW r \in Runs, UNCHANGED key, faults' >= faults,
             \/ run' = [run EXCEPT ![r] = IdleRun]
             \/ \E step \in {"cleanup", "failing"} : Goto(r, step)
             \/ InBatch(r) /\ Goto(r, "release")
             \/ run' = [run EXCEPT ![r].step = "failing", ![r].fatal = FALSE],
             ~At(r, "idle")
      PROVE  DefenceInv'
  <2>1. \A s \in Runs \ {r} : run'[s] = run[s]
    BY <1>0, <1>3 DEF Goto
  <2>2. \/ run'[r] = IdleRun
        \/ /\ run'[r].step \in {"cleanup", "failing"} \/ (InBatch(r) /\ run'[r].step = "release")
           /\ run'[r].event = run[r].event /\ run'[r].locked = run[r].locked
    BY <1>0, <1>3 DEF Goto, Run
  <2>3. /\ InBatch(r)' => InBatch(r) /\ Event(r)' = Event(r)
        /\ run'[r].step # "idle" /\ ~run'[r].locked => run[r].step # "idle" /\ ~run[r].locked
    BY <1>3, <2>2 DEF InBatch, Event, IdleRun, At
  <2>4. \A s \in Runs \ {r} : (InBatch(s)' <=> InBatch(s)) /\ Event(s)' = Event(s)
    BY <2>1 DEF InBatch, Event
  <2> QED BY <1>0, <1>3, <2>1, <2>3, <2>4, DefenceKept
<1>4. ASSUME NEW r \in Runs, NEW e \in Events, Start(r, e) PROVE DefenceInv'
  <2>1. /\ run'[r].step = "gate" /\ run'[r].locked
        /\ \A s \in Runs \ {r} : run'[s] = run[s]
        /\ UNCHANGED <<key, faults>>
    BY <1>0, <1>4 DEF Start
  <2>2. \A s \in Runs : /\ InBatch(s)' => InBatch(s) /\ Event(s)' = Event(s)
                        /\ run'[s].step # "idle" /\ ~run'[s].locked =>
                              run[s].step # "idle" /\ ~run[s].locked
    BY <2>1 DEF InBatch, Event
  <2> QED BY <1>0, <2>1, <2>2, DefenceKept
<1>5. ASSUME NEW r \in Runs, DiscardExpiredJob(r) \/ AlreadySent(r) PROVE DefenceInv'
  BY <1>2, <1>3, <1>5 DEF DiscardExpiredJob, AlreadySent, Complete, At
<1>6. ASSUME NEW r \in Runs, AcquireKey(r) PROVE DefenceInv'
  <2> DEFINE e == Event(r)
  <2>1. /\ run'[r].step = "send" /\ run'[r].event = e /\ run'[r].locked = run[r].locked
        /\ \A s \in Runs \ {r} : run'[s] = run[s]
        /\ run[r].step = "gate" /\ key[e] = "none"
        /\ key'[e] = "processing" /\ \A f \in Events \ {e} : key'[f] = key[f]
        /\ UNCHANGED faults
    BY <1>0, <1>6 DEF AcquireKey, Goto, Run, Event, At, storeVars
  <2>2. e \in Events
    BY <1>0, <2>1 DEF At
  <2>3. Stalled' => Stalled
    BY <2>1 DEF Stalled, At
  <2>4. \A s \in Runs \ {r} : InBatch(s)' = InBatch(s) /\ Event(s)' = Event(s)
    BY <2>1 DEF InBatch, Event
  <2>5. Lapsed' => Lapsed
    <3> SUFFICES ASSUME NEW s \in Runs, InBatch(s)', key'[Event(s)'] = "none" PROVE Lapsed
      BY DEF Lapsed
    <3>1. Event(s)' # e
      BY <2>1
    <3>2. s # r
      BY <2>1, <3>1 DEF Event
    <3>3. InBatch(s) /\ Event(s)' = Event(s) /\ Event(s) \in Events
      BY <1>0, <1>1, <2>4, <3>2
    <3> QED BY <2>1, <3>1, <3>3 DEF Lapsed
  <2>6. ASSUME NEW s \in Runs \ {r}, InBatch(s), Event(s) = e PROVE faults >= 2
    <3>1. Stalled
      BY <1>1, <2>1, <2>6, TwoRunsMeanAStall DEF At
    <3>2. Lapsed
      BY <2>1, <2>6 DEF Lapsed
    <3> QED BY <3>1, <3>2 DEF DefenceInv
  <2>7. SoleSender'
    <3>0. ASSUME NEW s \in Runs \ {r}, InBatch(s)', Event(s)' = e PROVE faults' >= 2
      BY <2>1, <2>4, <2>6, <3>0
    <3> SUFFICES ASSUME NEW p \in Runs, NEW q \in Runs, p # q,
                        InBatch(p)', InBatch(q)', Event(p)' = Event(q)'
                 PROVE  faults' >= 2
      BY DEF SoleSender
    <3> HIDE DEF e
    <3>1. CASE p = r
      <4>1. Event(q)' = e
        BY <2>1, <3>1 DEF Event
      <4> QED BY <3>0, <3>1, <4>1
    <3>2. CASE q = r
      <4>1. Event(p)' = e
        BY <2>1, <3>2 DEF Event
      <4> QED BY <3>0, <3>2, <4>1
    <3>3. CASE p # r /\ q # r
      BY <2>1, <2>4, <3>3 DEF DefenceInv, SoleSender
    <3> QED BY <3>1, <3>2, <3>3
  <2> QED BY <2>1, <2>3, <2>5, <2>7 DEF DefenceInv
<1>7. ASSUME NEW r \in Runs, GateThrows(r) PROVE DefenceInv'
  <2>1. /\ run'[r].step = "failing" /\ run'[r].locked = run[r].locked
        /\ \A s \in Runs \ {r} : run'[s] = run[s]
        /\ run[r].step = "gate"
        /\ \A f \in Events : key'[f] = "none" => key[f] = "none"
        /\ faults' >= faults
    BY <1>0, <1>2, <1>7 DEF GateThrows, Goto, Run, At
  <2>2. \A s \in Runs : /\ InBatch(s)' => InBatch(s) /\ Event(s)' = Event(s)
                        /\ run'[s].step # "idle" /\ ~run'[s].locked =>
                              run[s].step # "idle" /\ ~run[s].locked
    BY <2>1 DEF InBatch, Event
  <2>3. \A s \in Runs : InBatch(s)' => Event(s) \in Events
    BY <1>0, <1>1, <2>2
  <2> QED BY <1>0, <2>1, <2>2, <2>3, DefenceKept
<1>8. ASSUME NEW r \in Runs, Send(r) PROVE DefenceInv'
  <2>1. /\ run'[r].step \in {"mark", "release", "persist"}
        /\ run'[r].event = run[r].event /\ run'[r].locked = run[r].locked
        /\ run[r].step = "send"
        /\ \A s \in Runs \ {r} : run'[s] = run[s]
        /\ UNCHANGED <<key, faults>>
    BY <1>0, <1>8 DEF Send, Run, At, storeVars
  <2>2. \A s \in Runs : /\ InBatch(s)' => InBatch(s) /\ Event(s)' = Event(s)
                        /\ run'[s].step # "idle" /\ ~run'[s].locked =>
                              run[s].step # "idle" /\ ~run[s].locked
    BY <2>1 DEF InBatch, Event
  <2> QED BY <1>0, <2>1, <2>2, DefenceKept
<1>9. ASSUME NEW r \in Runs, Persist(r) PROVE DefenceInv'
  BY <1>2, <1>3, <1>9 DEF Persist, InBatch, At
<1>10. ASSUME NEW r \in Runs, MarkCompleted(r) PROVE DefenceInv'
  <2>1. CASE Works /\ key' = [key EXCEPT ![Event(r)] = "completed"] /\ Goto(r, "cleanup")
    <3>1. /\ run'[r].step = "cleanup" /\ run'[r].locked = run[r].locked
          /\ run[r].step = "mark"
          /\ \A s \in Runs \ {r} : run'[s] = run[s]
          /\ \A f \in Events : key'[f] = "none" => key[f] = "none"
      BY <1>0, <1>10, <2>1 DEF MarkCompleted, Goto, Run, At
    <3>2. \A s \in Runs : /\ InBatch(s)' => InBatch(s) /\ Event(s)' = Event(s)
                          /\ run'[s].step # "idle" /\ ~run'[s].locked =>
                                run[s].step # "idle" /\ ~run[s].locked
      BY <3>1 DEF InBatch, Event
    <3>3. \A s \in Runs : InBatch(s)' => Event(s) \in Events
      BY <1>0, <1>1, <3>2
    <3> QED BY <1>0, <1>2, <2>1, <3>1, <3>2, <3>3, DefenceKept
  <2>2. CASE Fails /\ UNCHANGED key /\ Goto(r, "release")
    BY <1>2, <1>3, <1>10, <2>2 DEF MarkCompleted, InBatch, At
  <2> QED BY <1>10, <2>1, <2>2 DEF MarkCompleted
<1>11. ASSUME NEW r \in Runs, Release(r) PROVE DefenceInv'
  <2>1. CASE Works /\ key' = [key EXCEPT ![Event(r)] = "none"] /\ Goto(r, "failing")
    <3> DEFINE e == Event(r)
    <3>1. /\ run'[r].step = "failing" /\ run'[r].locked = run[r].locked
          /\ run[r].step = "release"
          /\ \A s \in Runs \ {r} : run'[s] = run[s]
          /\ \A f \in Events \ {e} : key'[f] = key[f]
          /\ UNCHANGED faults
      BY <1>0, <1>11, <2>1 DEF Release, Goto, Run, At, Works
    <3>2. InBatch(r) /\ ~InBatch(r)'
      BY <3>1 DEF InBatch
    <3>3. \A s \in Runs \ {r} : InBatch(s)' = InBatch(s) /\ Event(s)' = Event(s)
      BY <3>1 DEF InBatch, Event
    <3>4. Stalled' => Stalled
      BY <3>1 DEF Stalled, At
    <3>5. Lapsed' => Lapsed \/ faults >= 2
      <4> SUFFICES ASSUME NEW s \in Runs, InBatch(s)', key'[Event(s)'] = "none"
                   PROVE  Lapsed \/ faults >= 2
        BY DEF Lapsed
      <4>1. s # r /\ InBatch(s) /\ Event(s)' = Event(s) /\ Event(s) \in Events
        BY <1>0, <1>1, <3>2, <3>3
      <4>2. CASE Event(s) = e
        BY <3>2, <4>1, <4>2 DEF DefenceInv, SoleSender
      <4>3. CASE Event(s) # e
        BY <3>1, <4>1, <4>3 DEF Lapsed
      <4> QED BY <4>2, <4>3
    <3>6. SoleSender'
      BY <3>1, <3>2, <3>3 DEF DefenceInv, SoleSender
    <3> QED BY <1>0, <3>1, <3>4, <3>5, <3>6 DEF DefenceInv
  <2>2. CASE Fails /\ UNCHANGED key /\ run' = [run EXCEPT ![r].step = "failing", ![r].fatal = FALSE]
    BY <1>2, <1>3, <1>11, <2>2 DEF Release, At
  <2> QED BY <1>11, <2>1, <2>2 DEF Release
<1>12. ASSUME NEW r \in Runs, Cleanup(r) PROVE DefenceInv'
  <2>1. UNCHANGED key /\ ~At(r, "idle") /\ faults' >= faults
    BY <1>2, <1>12 DEF Cleanup, At
  <2>2. run' = [run EXCEPT ![r] = IdleRun] \/ Goto(r, "failing")
    BY <1>12 DEF Cleanup, Complete
  <2> QED BY <1>3, <2>1, <2>2
<1>13. ASSUME NEW r \in Runs, FailJob(r) PROVE DefenceInv'
  <2>1. UNCHANGED <<key, faults>> /\ ~At(r, "idle") /\ run' = [run EXCEPT ![r] = IdleRun]
    BY <1>13 DEF FailJob, At
  <2>2. faults' >= faults
    BY <1>0, <2>1
  <2> QED BY <1>3, <2>1, <2>2
<1>14. ASSUME NEW r \in Runs, CrashRun(r) PROVE DefenceInv'
  BY <1>2, <1>3, <1>14 DEF CrashRun
<1>15. ASSUME NEW r \in Runs, StallRun(r) PROVE DefenceInv'
  <2>1. /\ \A s \in Runs : run'[s].step = run[s].step /\ run'[s].event = run[s].event
        /\ UNCHANGED key /\ faults' = faults + 1
    BY <1>0, <1>15 DEF StallRun, Fails, Run
  <2>2. \A s \in Runs : InBatch(s)' = InBatch(s) /\ Event(s)' = Event(s)
    BY <2>1 DEF InBatch, Event
  <2>3. Lapsed' = Lapsed /\ (SoleSender => SoleSender')
    BY <1>0, <2>1, <2>2 DEF Lapsed, SoleSender
  <2> QED BY <1>0, <2>1, <2>3 DEF DefenceInv
<1>16. ASSUME UNCHANGED <<run, key>>, faults' >= faults PROVE DefenceInv'
  <2>1. \A s \in Runs : InBatch(s)' = InBatch(s) /\ Event(s)' = Event(s)
    BY <1>16 DEF InBatch, Event
  <2> QED BY <1>0, <1>16, <2>1, DefenceKept
<1>17. ASSUME NEW e \in Events, revertForRedispatch(e) \/ RequeueStalled(e) \/ EvictJob(e)
       PROVE  DefenceInv'
  BY <1>0, <1>2, <1>16, <1>17 DEF revertForRedispatch, RequeueStalled, EvictJob
<1>18. ASSUME NEW e \in Events, KeyExpires(e) PROVE DefenceInv'
  <2>1. /\ UNCHANGED run
        /\ faults' = IF key[e] = "completed" \/ Sending(e) THEN faults + 1 ELSE faults
        /\ \A f \in Events \ {e} : key'[f] = key[f]
    BY <1>0, <1>18 DEF KeyExpires, Fails, Works
  <2>2. \A s \in Runs : InBatch(s)' = InBatch(s) /\ Event(s)' = Event(s)
    BY <2>1 DEF InBatch, Event
  <2>3. Stalled' = Stalled
    BY <2>1 DEF Stalled, At
  <2>4. Lapsed' => Lapsed \/ Sending(e)
    <3> SUFFICES ASSUME NEW s \in Runs, InBatch(s)', key'[Event(s)'] = "none", Event(s) # e
                 PROVE  Lapsed
      BY <2>2 DEF Lapsed, Sending
    <3> QED BY <1>0, <1>1, <2>1, <2>2 DEF Lapsed
  <2>5. SoleSender'
    BY <1>0, <2>1, <2>2 DEF DefenceInv, SoleSender
  <2> QED BY <1>0, <2>1, <2>3, <2>4, <2>5 DEF DefenceInv
<1> QED BY <1>4, <1>5, <1>6, <1>7, <1>8, <1>9, <1>10, <1>11, <1>12, <1>13, <1>14, <1>15,
           <1>17, <1>18 DEF MailNext

\* Every other step leaves runs and keys alone.
LEMMA DefenceStep ==
    ASSUME TypeOK, TypeOK', OneOwnerPerJob, DefenceInv, [Next]_vars
    PROVE  DefenceInv'
<1>1. faults \in Nat /\ faults' \in Nat
  BY DEF TypeOK, StoreTypeOK
<1>2. ASSUME UNCHANGED <<run, key>>, faults' >= faults PROVE DefenceInv'
  <2>1. \A s \in Runs : InBatch(s)' = InBatch(s) /\ Event(s)' = Event(s)
    BY <1>2 DEF InBatch, Event
  <2> QED BY <1>1, <1>2, <2>1, DefenceKept
<1>3. faults' >= faults
  BY <1>1, FaultsOnlyGrow
<1> QED BY <1>2, <1>3, MailDefends
        DEF Next, Time, Expire, Overstay, mailVars, vars

\* Two executions are inside sendBatch for one event only after BullMQ's lock and the
\* idempotency key have both failed (mail-worker.ts sendBatch), whatever else happens.
THEOREM SendersAreSole == Spec => []SoleSender
<1> DEFINE Inv == TypeOK /\ OneOwnerPerJob /\ DefenceInv
<1>1. Init => Inv
  <2> SUFFICES ASSUME Init PROVE Inv
    OBVIOUS
  <2>1. TypeOK /\ OneOwnerPerJob
    BY InitHolds DEF AtLeastOnceInv
  <2>2. \A r \in Runs : run[r] = IdleRun
    BY DEF Init, MailInit
  <2> QED BY <2>1, <2>2 DEF DefenceInv, Stalled, Lapsed, SoleSender, InBatch, At, IdleRun
<1>2. Inv /\ [Next]_vars => Inv'
  BY TypeStep, OwnerStep, DefenceStep
<1>3. Inv => SoleSender
  BY DEF DefenceInv
<1> QED BY <1>1, <1>2, <1>3, PTL DEF Spec

-----------------------------------------------------------------------------
(* What a message costs: the proof of DuplicatesNeedFaults *)

\* r executes the job of e and BullMQ knows.
Owner(rs, r, e) == rs[r].event = e /\ rs[r].locked

\* Whether p may be sent the message of e once more without a further failure, by
\* the execution that owns the job or by one that is yet to be started.
Sendable(rs, j, x, e, p) ==
    \/ \E r \in Runs : Owner(rs, r, e) /\ rs[r].step = "send" /\ p \in rs[r].data
    \/ /\ ~x
       /\ \/ j.state = "absent"
          \/ j.state = "waiting" /\ p \in j.data
          \/ /\ j.state = "active" /\ p \in j.data
             /\ \A r \in Runs : Owner(rs, r, e) => rs[r].step \notin {"persist", "mark", "cleanup"}
          \/ \E r \in Runs : Owner(rs, r, e) /\ rs[r].step \in {"gate", "persist"} /\ p \in rs[r].data

Chance(e, p) == IF Sendable(run, job[e], expired[e], e, p) THEN 1 ELSE 0

\* The attempts the job has left: each is at most one message to p.
TriesLeft(rs, j, e) ==
    IF j.state = "absent" THEN JobAttempts
    ELSE IF j.state \in {"completed", "failed"} THEN 0
    ELSE JobAttempts - j.made - (IF \E r \in Runs : Owner(rs, r, e) /\ rs[r].step \notin {"gate", "send"}
                                 THEN 1 ELSE 0)

Tries(e) == TriesLeft(run, job[e], e)

\* The executions BullMQ gave up that may still send to p, or name p in the job's data.
Loose(e, p, steps) ==
    {r \in Runs : /\ run[r].event = e /\ ~run[r].locked
                  /\ run[r].step \in steps /\ p \in run[r].data}

\* The steps of a batch that is to be sent, or refused and to be written to the job.
Batching == {"gate", "send", "persist"}
Trying == {"gate", "send"}

\* k messages sent or due and one more by each of S are paid for by f failures at n each.
Within(n, k, S, f) == IsFiniteSet(S) /\ k + Cardinality(S) <= n * (1 + f)

\* Nothing in the table tells any more who was served.
Forgotten(e) == fate[e] \in {"delivered", "purged"}

\* The inductive form of DuplicatesNeedFaults: sent messages and messages to come are
\* paid for, one by one as long as the row can be narrowed, by attempts in any case.
MessagesArePaid ==
    \A e \in Events, p \in Recipients :
       /\ ~Forgotten(e) => Within(1, sent[e][p] + Chance(e, p), Loose(e, p, Batching), faults)
       /\ Within(JobAttempts, sent[e][p] + Tries(e), Loose(e, p, Trying), faults)

\* BullMQ starts no job that used up its attempts.
AttemptsLeft ==
    \A e \in Events : job[e].state \in {"waiting", "active"} => job[e].made < JobAttempts

\* Nothing happened yet to an event that is not registered.
UnbornUntouched ==
    \A e \in Events : fate[e] = "unborn" =>
       /\ sender[e] = "none" /\ signal[e] = NoRow /\ job[e].state = "absent"
       /\ \A d \in Dispatchers : task[d][e].step = "none"
       /\ \A r \in Runs : run[r].event # e
       /\ \A p \in Recipients : sent[e][p] = 0

\* A run that is idle holds nothing.
IdleRuns == \A r \in Runs : run[r].step = "idle" => run[r] = IdleRun

\* How a step pays: a message to come may be given up, or be sent, or change hands;
\* a failure buys n of them.
Pays(n, k, l, S, T, f, g) ==
    \/ g >= f /\ T \subseteq S /\ l <= k
    \/ g >= f /\ \E r \in S : T \subseteq S \ {r} /\ l <= k + 1
    \/ g = f + 1 /\ T \subseteq S /\ l <= k + n
    \/ g = f + 1 /\ \E r : T \subseteq S \cup {r} /\ l + 1 <= k + n

\* A budget that covered the state before a step covers the state after it.
LEMMA Paying ==
    ASSUME NEW n \in Nat \ {0}, NEW k \in Nat, NEW l \in Nat, NEW f \in Nat, NEW g \in Nat,
           NEW S, NEW T, Within(n, k, S, f), Pays(n, k, l, S, T, f, g)
    PROVE  Within(n, l, T, g)
<1>0. IsFiniteSet(S) /\ Cardinality(S) \in Nat /\ k + Cardinality(S) <= n * (1 + f)
  BY FS_CardinalityType DEF Within
<1>1. g = f + 1 => n * (1 + g) = n * (1 + f) + n
  OBVIOUS
<1>2. g >= f => n * (1 + g) >= n * (1 + f)
  <2> SUFFICES ASSUME g >= f PROVE n * (1 + g) >= n * (1 + f)
    OBVIOUS
  <2>1. g - f \in Nat /\ n * (g - f) >= 0
    OBVIOUS
  <2>2. n * (1 + g) = n * (1 + f) + n * (g - f)
    OBVIOUS
  <2>3. n * (1 + g) \in Int /\ n * (1 + f) \in Int /\ n * (g - f) \in Int
    BY <2>1
  <2> QED BY <2>1, <2>2, <2>3
<1>3. n * (1 + g) \in Int /\ n * (1 + f) \in Int
  OBVIOUS
<1>4. \A U : U \subseteq S => IsFiniteSet(U) /\ Cardinality(U) \in Nat /\ Cardinality(U) <= Cardinality(S)
  BY <1>0, FS_Subset, FS_CardinalityType
<1>5. CASE g >= f /\ T \subseteq S /\ l <= k
  BY <1>0, <1>2, <1>3, <1>4, <1>5 DEF Within
<1>6. CASE g >= f /\ \E r \in S : T \subseteq S \ {r} /\ l <= k + 1
  <2>1. PICK r \in S : T \subseteq S \ {r} /\ l <= k + 1
    BY <1>6
  <2>2. IsFiniteSet(S \ {r}) /\ Cardinality(S \ {r}) = Cardinality(S) - 1
    BY <1>0, FS_RemoveElement
  <2>3. IsFiniteSet(T) /\ Cardinality(T) \in Nat /\ Cardinality(T) <= Cardinality(S \ {r})
    BY <2>1, <2>2, FS_Subset, FS_CardinalityType
  <2> QED BY <1>0, <1>2, <1>3, <1>6, <2>1, <2>2, <2>3 DEF Within
<1>7. CASE g = f + 1 /\ T \subseteq S /\ l <= k + n
  BY <1>0, <1>1, <1>3, <1>4, <1>7 DEF Within
<1>8. CASE g = f + 1 /\ \E r : T \subseteq S \cup {r} /\ l + 1 <= k + n
  <2>1. PICK r : T \subseteq S \cup {r} /\ l + 1 <= k + n
    BY <1>8
  <2>2. IsFiniteSet(S \cup {r}) /\ Cardinality(S \cup {r}) <= Cardinality(S) + 1 /\ Cardinality(S \cup {r}) \in Nat
    <3>1. /\ IsFiniteSet(S \cup {r})
          /\ Cardinality(S \cup {r}) = IF r \in S THEN Cardinality(S) ELSE Cardinality(S) + 1
      BY <1>0, FS_AddElement
    <3> QED BY <1>0, <3>1
  <2>3. IsFiniteSet(T) /\ Cardinality(T) \in Nat /\ Cardinality(T) <= Cardinality(S \cup {r})
    BY <2>1, <2>2, FS_Subset, FS_CardinalityType
  <2> QED BY <1>0, <1>1, <1>3, <1>8, <2>1, <2>2, <2>3 DEF Within
<1> QED BY <1>5, <1>6, <1>7, <1>8 DEF Pays

-----------------------------------------------------------------------------
(* The job with an owner, and without *)

\* Sendable, for the owner q of the job j, and for a job without owner.
OwnerMaySend(q, j, x, p) ==
    \/ q.step = "send" /\ p \in q.data
    \/ ~x /\ \/ p \in j.data /\ q.step \notin {"persist", "mark", "cleanup"}
             \/ p \in q.data /\ q.step \in {"gate", "persist"}

\* Read for a job with an owner.
LEMMA Owned ==
    ASSUME NEW rs, NEW r \in Runs, NEW e, Owner(rs, r, e), \A s \in Runs : Owner(rs, s, e) => s = r,
           NEW j, j.state = "active"
    PROVE  /\ \A x, p : Sendable(rs, j, x, e, p) <=> OwnerMaySend(rs[r], j, x, p)
           /\ TriesLeft(rs, j, e) =
                 JobAttempts - j.made - (IF rs[r].step \notin {"gate", "send"} THEN 1 ELSE 0)
<1>1. TriesLeft(rs, j, e) =
         JobAttempts - j.made - (IF \E s \in Runs : Owner(rs, s, e) /\ rs[s].step \notin {"gate", "send"}
                                 THEN 1 ELSE 0)
  BY DEF TriesLeft
<1>2. (\E s \in Runs : Owner(rs, s, e) /\ rs[s].step \notin {"gate", "send"}) <=> rs[r].step \notin {"gate", "send"}
  OBVIOUS
<1>3. ASSUME NEW x, NEW p PROVE Sendable(rs, j, x, e, p) <=> OwnerMaySend(rs[r], j, x, p)
  <2>1. (\E s \in Runs : Owner(rs, s, e) /\ rs[s].step = "send" /\ p \in rs[s].data)
          <=> rs[r].step = "send" /\ p \in rs[r].data
    OBVIOUS
  <2>2. (\A s \in Runs : Owner(rs, s, e) => rs[s].step \notin {"persist", "mark", "cleanup"})
          <=> rs[r].step \notin {"persist", "mark", "cleanup"}
    OBVIOUS
  <2>3. (\E s \in Runs : Owner(rs, s, e) /\ rs[s].step \in {"gate", "persist"} /\ p \in rs[s].data)
          <=> rs[r].step \in {"gate", "persist"} /\ p \in rs[r].data
    OBVIOUS
  <2> QED BY <2>1, <2>2, <2>3 DEF Sendable, OwnerMaySend
<1> QED BY <1>1, <1>2, <1>3

JobMaySend(j, x, p) ==
    ~x /\ (j.state = "absent" \/ (j.state \in {"waiting", "active"} /\ p \in j.data))

\* Read for a job without one.
LEMMA Unowned ==
    ASSUME NEW rs, NEW e, \A s \in Runs : ~Owner(rs, s, e), NEW j
    PROVE  /\ \A x, p : Sendable(rs, j, x, e, p) <=> JobMaySend(j, x, p)
           /\ TriesLeft(rs, j, e) = IF j.state = "absent" THEN JobAttempts
                                    ELSE IF j.state \in {"completed", "failed"} THEN 0
                                    ELSE JobAttempts - j.made - 0
BY DEF Sendable, JobMaySend, TriesLeft

\* What an event's messages cost in a step.
Costs(e, p) ==
    /\ ~Forgotten(e)' => Pays(1, sent[e][p] + Chance(e, p), sent'[e][p] + Chance(e, p)',
                              Loose(e, p, Batching), Loose(e, p, Batching)', faults, faults')
    /\ Pays(JobAttempts, sent[e][p] + Tries(e), sent'[e][p] + Tries(e)',
            Loose(e, p, Trying), Loose(e, p, Trying)', faults, faults')

\* Where neither job nor runs are touched, nothing is spent.
LEMMA Elsewhere ==
    ASSUME NEW e \in Events, NEW p \in Recipients, faults' >= faults,
           \A r \in Runs : run[r].event = e \/ run'[r].event = e => run'[r] = run[r],
           job'[e] = job[e], expired[e] => expired'[e], sent'[e][p] = sent[e][p], sent[e][p] \in Nat,
           Tries(e) \in Nat
    PROVE  Costs(e, p)
<1>1. \A r \in Runs : Owner(run', r, e) => Owner(run, r, e) /\ run'[r] = run[r]
  BY DEF Owner
<1>2. \A r \in Runs : Owner(run, r, e) => Owner(run', r, e) /\ run'[r] = run[r]
  BY DEF Owner
<1>3. Sendable(run', job'[e], expired'[e], e, p) => Sendable(run, job[e], expired[e], e, p)
  BY <1>1, <1>2 DEF Sendable
<1>4. Chance(e, p)' <= Chance(e, p)
  BY <1>3 DEF Chance
<1>5. Tries(e)' = Tries(e)
  BY <1>1, <1>2 DEF Tries, TriesLeft
<1>6. \A steps : {r \in Runs : /\ run'[r].event = e /\ ~run'[r].locked /\ run'[r].step \in steps /\ p \in run'[r].data}
                    \subseteq Loose(e, p, steps)
  BY DEF Loose
<1>7. Loose(e, p, Batching)' \subseteq Loose(e, p, Batching) /\ Loose(e, p, Trying)' \subseteq Loose(e, p, Trying)
  BY <1>6 DEF Loose, Batching, Trying
<1>8. Chance(e, p) \in Nat /\ Chance(e, p)' \in Nat
  BY DEF Chance
<1>9. sent'[e][p] + Chance(e, p)' <= sent[e][p] + Chance(e, p) /\ sent'[e][p] + Tries(e)' <= sent[e][p] + Tries(e)
  BY <1>4, <1>5, <1>8
<1> QED BY <1>7, <1>9 DEF Costs, Pays

\* The typed state a cost is counted in.
LEMMA CostTypes ==
    ASSUME TypeOK, AttemptsLeft, NEW e \in Events, NEW p \in Recipients
    PROVE  sent[e][p] \in Nat /\ Chance(e, p) \in {0, 1} /\ Tries(e) \in Nat /\ faults \in Nat /\ job[e] \in Job
<1>1. job[e] \in Job /\ faults \in Nat /\ sent[e][p] \in Nat
  BY DEF TypeOK, StoreTypeOK, MailTypeOK
<1>2. JobAttempts \in Nat \ {0}
  BY StoreAssumption
<1>3. job[e].made \in Nat /\ job[e].state \in {"absent", "waiting", "active", "completed", "failed"}
  BY <1>1 DEF Job
<1>4. job[e].state \in {"waiting", "active"} => job[e].made < JobAttempts
  BY DEF AttemptsLeft
<1>5. Tries(e) \in Nat
  BY <1>2, <1>3, <1>4 DEF Tries, TriesLeft
<1> QED BY <1>1, <1>5 DEF Chance

\* And the state it is counted in after a step.
LEMMA CostTypesNext ==
    ASSUME TypeOK', AttemptsLeft', NEW e \in Events, NEW p \in Recipients
    PROVE  sent'[e][p] \in Nat /\ Chance(e, p)' \in {0, 1} /\ Tries(e)' \in Nat /\ faults' \in Nat /\ job'[e] \in Job
<1>1. job'[e] \in Job /\ faults' \in Nat /\ sent'[e][p] \in Nat
  BY DEF TypeOK, StoreTypeOK, MailTypeOK
<1>2. JobAttempts \in Nat \ {0}
  BY StoreAssumption
<1>3. job'[e].made \in Nat /\ job'[e].state \in {"absent", "waiting", "active", "completed", "failed"}
  BY <1>1 DEF Job
<1>4. job'[e].state \in {"waiting", "active"} => job'[e].made < JobAttempts
  BY DEF AttemptsLeft
<1>5. Tries(e)' \in Nat
  BY <1>2, <1>3, <1>4 DEF Tries, TriesLeft
<1> QED BY <1>1, <1>5 DEF Chance

\* One execution moves, with its own job at most.
Moves(r) ==
    /\ run[r].event \in Events
    /\ run'[r] = IdleRun \/ (run'[r].event = run[r].event /\ run'[r].step # "idle")
    /\ \A s \in Runs \ {r} : run'[s] = run[s]
    /\ \A f \in Events \ {run[r].event} : job'[f] = job[f] /\ sent'[f] = sent[f]
    /\ UNCHANGED expired
    /\ faults' >= faults

\* The other events are not concerned.
LEMMA MovesElsewhere ==
    ASSUME TypeOK, AttemptsLeft, NEW r \in Runs, Moves(r), NEW e \in Events, e # run[r].event, NEW p \in Recipients
    PROVE  Costs(e, p)
<1>1. \A s \in Runs : run[s].event = e \/ run'[s].event = e => run'[s] = run[s]
  <2>1. run'[r].event # e
    BY NoEventAssumption DEF Moves, IdleRun
  <2> QED BY <2>1 DEF Moves
<1>2. sent[e][p] \in Nat /\ Tries(e) \in Nat
  BY CostTypes
<1>3. /\ faults' >= faults /\ job'[e] = job[e] /\ (expired[e] => expired'[e]) /\ sent'[e][p] = sent[e][p]
  BY DEF Moves
<1> QED BY <1>1, <1>2, <1>3, Elsewhere

\* The executions given up, when r moves.
LEMMA LooseMoves ==
    ASSUME NEW r \in Runs, Moves(r), NEW e, e = run[r].event, NEW p
    PROVE  /\ Loose(e, p, Batching)' \subseteq Loose(e, p, Batching) \cup {r}
           /\ Loose(e, p, Trying)' \subseteq Loose(e, p, Trying) \cup {r}
           /\ run'[r].locked \/ run'[r].step \notin Batching \/ p \notin run'[r].data =>
                 Loose(e, p, Batching)' \subseteq Loose(e, p, Batching) \ {r}
           /\ run'[r].locked \/ run'[r].step \notin Trying \/ p \notin run'[r].data =>
                 Loose(e, p, Trying)' \subseteq Loose(e, p, Trying) \ {r}
           /\ ~run[r].locked /\ run[r].step \in Batching /\ p \in run[r].data => r \in Loose(e, p, Batching)
           /\ ~run[r].locked /\ run[r].step \in Trying /\ p \in run[r].data => r \in Loose(e, p, Trying)
<1> DEFINE Joins(s, steps) == run'[s].event = e /\ ~run'[s].locked /\ run'[s].step \in steps /\ p \in run'[s].data
<1>1. ASSUME NEW s \in Runs, s # r, NEW steps, Joins(s, steps) PROVE s \in Loose(e, p, steps)
  BY <1>1 DEF Moves, Loose
<1>2. Loose(e, p, Batching)' = {s \in Runs : Joins(s, Batching)} /\ Loose(e, p, Trying)' = {s \in Runs : Joins(s, Trying)}
  BY DEF Loose, Batching, Trying
<1> QED BY <1>1, <1>2 DEF Loose

\* And they are no more than before when it does not join them.
LEMMA LooseLeft ==
    ASSUME NEW r \in Runs, Moves(r), NEW e, e = run[r].event, NEW p,
           run'[r].locked \/ run'[r].step \notin Batching \cup Trying
    PROVE  Loose(e, p, Batching)' \subseteq Loose(e, p, Batching) /\ Loose(e, p, Trying)' \subseteq Loose(e, p, Trying)
<1> DEFINE Joins(s, steps) == run'[s].event = e /\ ~run'[s].locked /\ run'[s].step \in steps /\ p \in run'[s].data
<1>1. ASSUME NEW s \in Runs, s # r, NEW steps, Joins(s, steps) PROVE s \in Loose(e, p, steps)
  BY <1>1 DEF Moves, Loose
<1>2. Loose(e, p, Batching)' = {s \in Runs : Joins(s, Batching)} /\ Loose(e, p, Trying)' = {s \in Runs : Joins(s, Trying)}
  BY DEF Loose, Batching, Trying
<1>3. ~Joins(r, Batching) /\ ~Joins(r, Trying)
  OBVIOUS
<1> HIDE DEF Joins
<1> QED BY <1>1, <1>2, <1>3

\* And one less when it held p and does no more.
LEMMA LooseSpent ==
    ASSUME NEW r \in Runs, Moves(r), NEW e, e = run[r].event, NEW p, ~run[r].locked, p \in run[r].data
    PROVE  /\ run[r].step \in Batching /\ (p \notin run'[r].data \/ run'[r].step \notin Batching) =>
                 r \in Loose(e, p, Batching) /\ Loose(e, p, Batching)' \subseteq Loose(e, p, Batching) \ {r}
           /\ run[r].step \in Trying /\ (p \notin run'[r].data \/ run'[r].step \notin Trying) =>
                 r \in Loose(e, p, Trying) /\ Loose(e, p, Trying)' \subseteq Loose(e, p, Trying) \ {r}
<1> DEFINE Joins(s, steps) == run'[s].event = e /\ ~run'[s].locked /\ run'[s].step \in steps /\ p \in run'[s].data
<1>1. ASSUME NEW s \in Runs, s # r, NEW steps, Joins(s, steps) PROVE s \in Loose(e, p, steps)
  BY <1>1 DEF Moves, Loose
<1>2. Loose(e, p, Batching)' = {s \in Runs : Joins(s, Batching)} /\ Loose(e, p, Trying)' = {s \in Runs : Joins(s, Trying)}
  BY DEF Loose, Batching, Trying
<1>3. \A steps : p \notin run'[r].data \/ run'[r].step \notin steps => ~Joins(r, steps)
  OBVIOUS
<1>4. \A steps : run[r].step \in steps => r \in Loose(e, p, steps)
  BY DEF Loose
<1> HIDE DEF Joins
<1> QED BY <1>1, <1>2, <1>3, <1>4

-----------------------------------------------------------------------------
(* The steps of an execution *)

\* What the proofs about one execution start from.
CostState == TypeOK /\ AttemptsLeft /\ OneOwnerPerJob

\* The owner of a job moves and still owns it.
LEMMA OwnerGoesOn ==
    ASSUME CostState, NEW r \in Runs, Moves(r), run[r].locked, run'[r].locked, NEW e, e = run[r].event,
           job'[e].state = "active"
    PROVE  /\ \A p : Sendable(run, job[e], expired[e], e, p) <=> OwnerMaySend(run[r], job[e], expired[e], p)
           /\ \A p : Sendable(run', job'[e], expired'[e], e, p) <=> OwnerMaySend(run'[r], job'[e], expired[e], p)
           /\ Tries(e) = JobAttempts - job[e].made - (IF run[r].step \notin {"gate", "send"} THEN 1 ELSE 0)
           /\ Tries(e)' = JobAttempts - job'[e].made - (IF run'[r].step \notin {"gate", "send"} THEN 1 ELSE 0)
<1>1. job[e].state = "active" /\ Owner(run, r, e) /\ \A s \in Runs : Owner(run, s, e) => s = r
  BY DEF CostState, OneOwnerPerJob, Owner, Event
<1>2. Owner(run', r, e) /\ \A s \in Runs : Owner(run', s, e) => s = r
  BY <1>1 DEF Moves, Owner, IdleRun
<1>3. UNCHANGED expired
  BY DEF Moves
<1> QED BY <1>1, <1>2, <1>3, Owned DEF Tries

\* The owner of a job ends, or is taken for stalled.
LEMMA OwnerGivesUp ==
    ASSUME CostState, NEW r \in Runs, Moves(r), run[r].locked, ~run'[r].locked, NEW e, e = run[r].event
    PROVE  /\ \A p : Sendable(run, job[e], expired[e], e, p) <=> OwnerMaySend(run[r], job[e], expired[e], p)
           /\ \A p : Sendable(run', job'[e], expired'[e], e, p) <=> JobMaySend(job'[e], expired[e], p)
           /\ job[e].state = "active"
           /\ Tries(e) = JobAttempts - job[e].made - (IF run[r].step \notin {"gate", "send"} THEN 1 ELSE 0)
           /\ Tries(e)' = IF job'[e].state = "absent" THEN JobAttempts
                          ELSE IF job'[e].state \in {"completed", "failed"} THEN 0
                          ELSE JobAttempts - job'[e].made - 0
<1>1. job[e].state = "active" /\ Owner(run, r, e) /\ \A s \in Runs : Owner(run, s, e) => s = r
  BY DEF CostState, OneOwnerPerJob, Owner, Event
<1>2. \A s \in Runs : ~Owner(run', s, e)
  BY <1>1 DEF Moves, Owner
<1>3. UNCHANGED expired
  BY DEF Moves
<1> QED BY <1>1, <1>2, <1>3, Owned, Unowned DEF Tries

\* An execution that owns nothing moves: the owner, if any, is another.
LEMMA OthersMove ==
    ASSUME NEW r \in Runs, Moves(r), ~run[r].locked, ~run'[r].locked, NEW e, e = run[r].event
    PROVE  /\ job'[e] = job[e] => /\ \A p : Sendable(run', job'[e], expired'[e], e, p)
                                              <=> Sendable(run, job[e], expired[e], e, p)
                                  /\ Tries(e)' = Tries(e)
           /\ job'[e].state = job[e].state /\ job'[e].made = job[e].made => Tries(e)' = Tries(e)
           /\ \A p : job'[e].state = job[e].state /\ p \notin job'[e].data /\ Sendable(run', job'[e], expired'[e], e, p)
                        => Sendable(run, job[e], expired[e], e, p)
<1>1. \A s \in Runs : (Owner(run', s, e) <=> Owner(run, s, e)) /\ (Owner(run, s, e) => run'[s] = run[s])
  BY DEF Moves, Owner
<1>2. UNCHANGED expired
  BY DEF Moves
<1>3. ASSUME job'[e].state = job[e].state, job'[e].made = job[e].made PROVE Tries(e)' = Tries(e)
  BY <1>1, <1>3 DEF Tries, TriesLeft
<1>4. ASSUME job'[e] = job[e], NEW p
      PROVE  Sendable(run', job'[e], expired'[e], e, p) <=> Sendable(run, job[e], expired[e], e, p)
  BY <1>1, <1>2, <1>4 DEF Sendable
<1>5. ASSUME NEW p, job'[e].state = job[e].state, p \notin job'[e].data, Sendable(run', job'[e], expired'[e], e, p)
      PROVE  Sendable(run, job[e], expired[e], e, p)
  BY <1>1, <1>2, <1>5 DEF Sendable
<1> QED BY <1>3, <1>4, <1>5

\* Any other step of an execution that changes neither job nor messages and leaves it
\* with less to send.
LEMMA LooseGoesOn ==
    ASSUME CostState, NEW r \in Runs, Moves(r), ~run[r].locked, ~run'[r].locked, NEW e \in Events, e = run[r].event,
           NEW p \in Recipients, job'[e] = job[e], sent'[e][p] = sent[e][p],
           run'[r].step \in Batching /\ p \in run'[r].data => run[r].step \in Batching /\ p \in run[r].data,
           run'[r].step \in Trying /\ p \in run'[r].data => run[r].step \in Trying /\ p \in run[r].data
    PROVE  Costs(e, p)
<1>1. Tries(e)' = Tries(e) /\ Chance(e, p)' = Chance(e, p)
  BY OthersMove DEF Chance
<1>2. Loose(e, p, Batching)' \subseteq Loose(e, p, Batching) /\ Loose(e, p, Trying)' \subseteq Loose(e, p, Trying)
  <2>1. /\ Loose(e, p, Batching)' \subseteq Loose(e, p, Batching) \cup {r}
        /\ Loose(e, p, Trying)' \subseteq Loose(e, p, Trying) \cup {r}
        /\ run'[r].step \notin Batching \/ p \notin run'[r].data =>
              Loose(e, p, Batching)' \subseteq Loose(e, p, Batching) \ {r}
        /\ run'[r].step \notin Trying \/ p \notin run'[r].data =>
              Loose(e, p, Trying)' \subseteq Loose(e, p, Trying) \ {r}
        /\ run[r].step \in Batching /\ p \in run[r].data => r \in Loose(e, p, Batching)
        /\ run[r].step \in Trying /\ p \in run[r].data => r \in Loose(e, p, Trying)
    BY LooseMoves
  <2> QED BY <2>1
<1>3. sent[e][p] \in Nat /\ Chance(e, p) \in {0, 1} /\ Tries(e) \in Nat /\ faults' >= faults
  BY CostTypes DEF CostState, Moves
<1> QED BY <1>1, <1>2, <1>3 DEF Costs, Pays

\* The owner of a job goes on, without a failure, with no more to send than it had.
LEMMA OwnerCosts ==
    ASSUME CostState, TypeOK', AttemptsLeft', NEW r \in Runs, Moves(r), run[r].locked, run'[r].locked,
           NEW e \in Events, e = run[r].event, job'[e] = job[e], UNCHANGED sent, NEW p \in Recipients,
           OwnerMaySend(run'[r], job[e], expired[e], p) => OwnerMaySend(run[r], job[e], expired[e], p),
           run[r].step \notin {"gate", "send"} => run'[r].step \notin {"gate", "send"}
    PROVE  Costs(e, p)
<1>1. job[e].state = "active" /\ job'[e].state = "active"
  BY DEF CostState, OneOwnerPerJob, Event
<1>2. /\ Sendable(run', job'[e], expired'[e], e, p) => Sendable(run, job[e], expired[e], e, p)
      /\ Tries(e) = JobAttempts - job[e].made - (IF run[r].step \notin {"gate", "send"} THEN 1 ELSE 0)
      /\ Tries(e)' = JobAttempts - job[e].made - (IF run'[r].step \notin {"gate", "send"} THEN 1 ELSE 0)
  BY <1>1, OwnerGoesOn
<1>3. Chance(e, p)' <= Chance(e, p)
  BY <1>2 DEF Chance
<1>4. /\ sent[e][p] \in Nat /\ Chance(e, p) \in {0, 1} /\ Tries(e) \in Nat /\ faults' >= faults
      /\ JobAttempts \in Nat /\ job[e].made \in Nat
  BY CostTypes, StoreAssumption DEF CostState, Moves, Job
<1>5. Tries(e)' <= Tries(e)
  <2>1. CASE run[r].step \notin {"gate", "send"}
    <3>1. Tries(e)' = Tries(e)
      BY <1>2, <2>1
    <3> QED BY <1>4, <3>1
  <2>2. CASE run[r].step \in {"gate", "send"}
    <3>1. Tries(e) = JobAttempts - job[e].made /\ Tries(e)' \in {JobAttempts - job[e].made, JobAttempts - job[e].made - 1}
      BY <1>2, <1>4, <2>2
    <3> QED BY <1>4, <3>1
  <2> QED BY <2>1, <2>2
<1>6. Chance(e, p)' \in {0, 1} /\ Tries(e)' \in Nat
  BY CostTypesNext
<1>7. Loose(e, p, Batching)' \subseteq Loose(e, p, Batching) /\ Loose(e, p, Trying)' \subseteq Loose(e, p, Trying)
  BY LooseLeft
<1> QED BY <1>3, <1>4, <1>5, <1>6, <1>7 DEF Costs, Pays

\* A failure buys the owner one more message to everybody.
LEMMA OwnerFails ==
    ASSUME CostState, TypeOK', AttemptsLeft', NEW r \in Runs, Moves(r), run[r].locked, run'[r].locked,
           NEW e \in Events, e = run[r].event, job'[e] = job[e], UNCHANGED sent, NEW p \in Recipients,
           faults' = faults + 1,
           run[r].step \notin {"gate", "send"} => run'[r].step \notin {"gate", "send"}
    PROVE  Costs(e, p)
<1>1. job[e].state = "active" /\ job'[e].state = "active"
  BY DEF CostState, OneOwnerPerJob, Event
<1>2. /\ Tries(e) = JobAttempts - job[e].made - (IF run[r].step \notin {"gate", "send"} THEN 1 ELSE 0)
      /\ Tries(e)' = JobAttempts - job[e].made - (IF run'[r].step \notin {"gate", "send"} THEN 1 ELSE 0)
  BY <1>1, OwnerGoesOn
<1>4. /\ sent[e][p] \in Nat /\ Chance(e, p) \in {0, 1} /\ Tries(e) \in Nat
      /\ JobAttempts \in Nat /\ job[e].made \in Nat
  BY CostTypes, StoreAssumption DEF CostState, Moves, Job
<1>5. Tries(e)' <= Tries(e) + JobAttempts
  BY <1>2, <1>4
<1>6. Chance(e, p)' \in {0, 1} /\ Tries(e)' \in Nat
  BY CostTypesNext
<1>7. Loose(e, p, Batching)' \subseteq Loose(e, p, Batching) /\ Loose(e, p, Trying)' \subseteq Loose(e, p, Trying)
  BY LooseLeft
<1> QED BY <1>4, <1>5, <1>6, <1>7 DEF Costs, Pays

\* An execution that returns: its job is completed, or not its own.
LEMMA CompleteCosts ==
    ASSUME CostState, TypeOK', AttemptsLeft', NEW r \in Runs, run[r].event \in Events, Complete(r),
           UNCHANGED <<expired, sent>>, faults' >= faults,
           NEW e \in Events, NEW p \in Recipients
    PROVE  Costs(e, p)
<1>0. run \in [Runs -> Run] /\ job \in [Events -> Job]
  BY DEF CostState, TypeOK, StoreTypeOK, MailTypeOK
<1>1. /\ run'[r] = IdleRun /\ \A s \in Runs \ {r} : run'[s] = run[s]
      /\ job' = IF run[r].locked THEN [job EXCEPT ![run[r].event].state = "completed"] ELSE job
  BY <1>0 DEF Complete, Event
<1>2. Moves(r)
  BY <1>0, <1>1 DEF Moves
<1>3. CASE e # run[r].event
  BY <1>2, <1>3, MovesElsewhere DEF CostState
<1>4. CASE e = run[r].event /\ run[r].locked
  <2>1. job'[e].state = "completed"
    BY <1>0, <1>1, <1>4 DEF Job
  <2>2. ~run'[r].locked /\ run'[r].step \notin Batching \cup Trying
    BY <1>1 DEF IdleRun, Batching, Trying
  <2>3. Chance(e, p)' = 0 /\ Tries(e)' = 0
    BY <1>2, <1>4, <2>1, <2>2, OwnerGivesUp DEF Chance, JobMaySend
  <2>4. sent[e][p] \in Nat /\ Chance(e, p) \in {0, 1} /\ Tries(e) \in Nat
    BY CostTypes DEF CostState
  <2>5. Loose(e, p, Batching)' \subseteq Loose(e, p, Batching) /\ Loose(e, p, Trying)' \subseteq Loose(e, p, Trying)
    BY <1>2, <1>4, <2>2, LooseLeft
  <2> QED BY <2>3, <2>4, <2>5 DEF Costs, Pays
<1>5. CASE e = run[r].event /\ ~run[r].locked
  <2>1. ~run'[r].locked /\ run'[r].step \notin Batching \cup Trying /\ UNCHANGED <<job, sent>>
    BY <1>1, <1>5 DEF IdleRun, Batching, Trying
  <2> QED BY <1>2, <1>5, <2>1, LooseGoesOn
<1> QED BY <1>3, <1>4, <1>5

\* A run that only goes to another step.
LEMMA GotoMoves ==
    ASSUME TypeOK, NEW r \in Runs, run[r].step # "idle", NEW step,
           step \in {"gate", "send", "persist", "mark", "release", "cleanup", "failing"},
           Goto(r, step) \/ run' = [run EXCEPT ![r].step = step, ![r].fatal = FALSE],
           UNCHANGED <<expired, sent>>, \A f \in Events \ {run[r].event} : job'[f] = job[f], faults' >= faults
    PROVE  /\ Moves(r) /\ run'[r].step = step
           /\ run'[r].event = run[r].event /\ (run'[r].locked <=> run[r].locked) /\ run'[r].data = run[r].data
<1>1. run \in [Runs -> Run] /\ run[r].event \in Events
  BY DEF TypeOK, MailTypeOK
<1>2. /\ run'[r].step = step /\ run'[r].event = run[r].event /\ (run'[r].locked <=> run[r].locked)
      /\ run'[r].data = run[r].data /\ \A s \in Runs \ {r} : run'[s] = run[s]
  BY <1>1 DEF Goto, Run
<1> QED BY <1>1, <1>2 DEF Moves

\* The gate costs nothing: who passes it may send what it was to send.
LEMMA GateCosts ==
    ASSUME CostState, TypeOK', AttemptsLeft', NEW r \in Runs, AcquireKey(r) \/ GateThrows(r),
           NEW e \in Events, NEW p \in Recipients
    PROVE  Costs(e, p)
<1>0. run[r].step = "gate" /\ UNCHANGED <<job, expired, sent>> /\ faults' >= faults
  BY DEF AcquireKey, GateThrows, At, storeVars, CostState, TypeOK, StoreTypeOK, Works, Fails
<1>1. PICK step \in {"send", "failing"} : Goto(r, step) /\ (step = "send" => ~expired[run[r].event])
  BY DEF AcquireKey, GateThrows, Event
<1>2. /\ Moves(r) /\ run'[r].step = step
      /\ run'[r].event = run[r].event /\ (run'[r].locked <=> run[r].locked) /\ run'[r].data = run[r].data
  BY <1>0, <1>1, GotoMoves DEF CostState
<1>3. CASE e # run[r].event
  BY <1>2, <1>3, MovesElsewhere DEF CostState
<1>4. CASE e = run[r].event /\ run[r].locked
  <2>1. OwnerMaySend(run'[r], job[e], expired[e], p) => OwnerMaySend(run[r], job[e], expired[e], p)
    BY <1>0, <1>1, <1>2, <1>4 DEF OwnerMaySend
  <2> QED BY <1>0, <1>2, <1>4, <2>1, OwnerCosts
<1>5. CASE e = run[r].event /\ ~run[r].locked
  BY <1>0, <1>2, <1>5, LooseGoesOn DEF Batching, Trying
<1> QED BY <1>3, <1>4, <1>5

\* What comes after the batch: a failure of the key's writes is what a resending costs.
LEMMA TailCosts ==
    ASSUME CostState, TypeOK', AttemptsLeft', NEW r \in Runs,
           \/ MarkCompleted(r)
           \/ Release(r)
           \/ run[r].step = "cleanup" /\ Fails /\ Goto(r, "failing") /\ UNCHANGED <<job, expired, sent>>,
           NEW e \in Events, NEW p \in Recipients
    PROVE  Costs(e, p)
<1>0. UNCHANGED <<job, expired, sent>> /\ faults' >= faults
  BY DEF MarkCompleted, Release, CostState, TypeOK, StoreTypeOK, Works, Fails
<1>1. \E step \in {"release", "cleanup", "failing"} :
         /\ run[r].step \in {"mark", "release", "cleanup"}
         /\ Goto(r, step) \/ run' = [run EXCEPT ![r].step = step, ![r].fatal = FALSE]
         /\ \/ run[r].step = "mark" /\ step = "cleanup"
            \/ run[r].step = "release" /\ step = "failing"
            \/ faults' = faults + 1
  BY DEF MarkCompleted, Release, Fails, At
<1>9. PICK step \in {"release", "cleanup", "failing"} :
         /\ run[r].step \in {"mark", "release", "cleanup"}
         /\ Goto(r, step) \/ run' = [run EXCEPT ![r].step = step, ![r].fatal = FALSE]
         /\ \/ run[r].step = "mark" /\ step = "cleanup"
            \/ run[r].step = "release" /\ step = "failing"
            \/ faults' = faults + 1
  BY <1>1
<1>2. /\ Moves(r) /\ run'[r].step = step
      /\ run'[r].event = run[r].event /\ (run'[r].locked <=> run[r].locked) /\ run'[r].data = run[r].data
  BY <1>0, <1>9, GotoMoves DEF CostState
<1>3. CASE e # run[r].event
  BY <1>2, <1>3, MovesElsewhere DEF CostState
<1>4. CASE e = run[r].event /\ run[r].locked /\ faults' = faults + 1
  BY <1>0, <1>2, <1>4, <1>9, OwnerFails
<1>5. CASE e = run[r].event /\ run[r].locked /\ faults' # faults + 1
  <2>1. OwnerMaySend(run'[r], job[e], expired[e], p) => OwnerMaySend(run[r], job[e], expired[e], p)
    BY <1>2, <1>5, <1>9 DEF OwnerMaySend
  <2> QED BY <1>0, <1>2, <1>5, <1>9, <2>1, OwnerCosts
<1>6. CASE e = run[r].event /\ ~run[r].locked
  BY <1>0, <1>2, <1>6, <1>9, LooseGoesOn DEF Batching, Trying
<1> QED BY <1>3, <1>4, <1>5, <1>6

\* What Send does, whoever is accepted.
LEMMA SendMoves ==
    ASSUME TypeOK, NEW r \in Runs, Send(r), NEW e, e = run[r].event
    PROVE  /\ Moves(r) /\ run[r].step = "send" /\ e \in Events
           /\ job' = job /\ expired' = expired /\ faults' = faults
           /\ run'[r].event = e /\ (run'[r].locked <=> run[r].locked)
           /\ \E accepted \in SUBSET run[r].data :
                 /\ run'[r].data = run[r].data \ accepted
                 /\ run'[r].step \in {"mark", "release", "persist"}
                 /\ run'[r].step = "release" => accepted = {}
                 /\ \A p \in Recipients : sent'[e][p] = IF p \in accepted THEN sent[e][p] + 1 ELSE sent[e][p]
<1>0. /\ run \in [Runs -> Run] /\ run[r].step = "send" /\ run[r].event \in Events
      /\ sent \in [Events -> [Recipients -> Nat]]
  BY DEF TypeOK, MailTypeOK, Send, At
<1>1. UNCHANGED storeVars
  BY DEF Send
<1>2. PICK accepted \in SUBSET run[r].data, perm \in BOOLEAN :
         /\ sent' = [sent EXCEPT ![run[r].event] =
                         [p \in Recipients |-> IF p \in accepted THEN sent[run[r].event][p] + 1
                                               ELSE sent[run[r].event][p]]]
         /\ run' = [run EXCEPT ![r] = [@ EXCEPT !.step = IF run[r].data \ accepted = {} THEN "mark"
                                                          ELSE IF accepted = {} THEN "release"
                                                          ELSE "persist",
                                                 !.data = run[r].data \ accepted,
                                                 !.fatal = perm]]
  BY DEF Send, Event
<1>3. /\ run'[r].event = e /\ (run'[r].locked <=> run[r].locked)
      /\ run'[r].data = run[r].data \ accepted
      /\ run'[r].step = IF run[r].data \ accepted = {} THEN "mark" ELSE IF accepted = {} THEN "release" ELSE "persist"
      /\ \A s \in Runs \ {r} : run'[s] = run[s]
  BY <1>0, <1>2 DEF Run
<1>4. /\ \A p \in Recipients : sent'[e][p] = IF p \in accepted THEN sent[e][p] + 1 ELSE sent[e][p]
      /\ \A f \in Events \ {e} : sent'[f] = sent[f]
  BY <1>0, <1>2
<1>5. job' = job /\ expired' = expired /\ faults' = faults /\ faults \in Nat
  BY <1>1 DEF storeVars, TypeOK, StoreTypeOK
<1>6. run'[r].step \in {"mark", "release", "persist"} /\ (run'[r].step = "release" => accepted = {})
  BY <1>3
<1>7. Moves(r)
  BY <1>0, <1>3, <1>4, <1>5, <1>6 DEF Moves
<1> QED BY <1>0, <1>3, <1>4, <1>5, <1>6, <1>7

\* A message that was due is sent; nobody who was refused becomes due twice.
LEMMA SendCosts ==
    ASSUME CostState, TypeOK', AttemptsLeft', NEW r \in Runs, Send(r), NEW e \in Events, NEW p \in Recipients
    PROVE  Costs(e, p)
<1>1. Moves(r)
  BY SendMoves DEF CostState
<1>2. CASE e # run[r].event
  BY <1>1, <1>2, MovesElsewhere DEF CostState
<1>3. CASE e = run[r].event
  <2>1. /\ run[r].step = "send" /\ job' = job /\ expired' = expired /\ faults' = faults
        /\ run'[r].event = e /\ (run'[r].locked <=> run[r].locked)
    BY <1>3, SendMoves DEF CostState
  <2>2. PICK accepted \in SUBSET run[r].data :
                 /\ run'[r].data = run[r].data \ accepted
                 /\ run'[r].step \in {"mark", "release", "persist"}
                 /\ run'[r].step = "release" => accepted = {}
                 /\ sent'[e][p] = IF p \in accepted THEN sent[e][p] + 1 ELSE sent[e][p]
    BY <1>3, SendMoves DEF CostState
  <2>3. /\ sent[e][p] \in Nat /\ Chance(e, p) \in {0, 1} /\ Tries(e) \in Nat /\ faults \in Nat
        /\ JobAttempts \in Nat /\ job[e].made \in Nat
    BY CostTypes, StoreAssumption DEF CostState, Job
  <2>4. Chance(e, p)' \in {0, 1} /\ Tries(e)' \in Nat
    BY CostTypesNext
  <2>5. CASE run[r].locked
    <3>1. job[e].state = "active" /\ job'[e].state = "active"
      BY <1>3, <2>1, <2>5 DEF CostState, OneOwnerPerJob, Event
    <3>2. /\ Sendable(run, job[e], expired[e], e, p) <=> OwnerMaySend(run[r], job[e], expired[e], p)
          /\ Sendable(run', job'[e], expired'[e], e, p) <=> OwnerMaySend(run'[r], job'[e], expired[e], p)
          /\ Tries(e) = JobAttempts - job[e].made - (IF run[r].step \notin {"gate", "send"} THEN 1 ELSE 0)
          /\ Tries(e)' = JobAttempts - job'[e].made - (IF run'[r].step \notin {"gate", "send"} THEN 1 ELSE 0)
      BY <1>1, <1>3, <2>1, <2>5, <3>1, OwnerGoesOn
    <3>3. Tries(e) = JobAttempts - job[e].made /\ Tries(e)' = JobAttempts - job[e].made - 1
      BY <2>1, <2>2, <2>3, <3>2
    <3>4. Tries(e)' + 1 = Tries(e)
      BY <2>3, <3>3
    <3>5. Loose(e, p, Batching)' \subseteq Loose(e, p, Batching) /\ Loose(e, p, Trying)' \subseteq Loose(e, p, Trying)
      BY <1>1, <1>3, <2>1, <2>5, LooseLeft
    <3>6. CASE p \in accepted
      <4>1. Chance(e, p) = 1 /\ Chance(e, p)' = 0
        BY <2>1, <2>2, <3>2, <3>6 DEF Chance, OwnerMaySend
      <4>2. sent'[e][p] = sent[e][p] + 1
        BY <2>2, <3>6
      <4> QED BY <2>1, <2>3, <2>4, <3>4, <3>5, <4>1, <4>2 DEF Costs, Pays
    <3>7. CASE p \notin accepted
      <4>1. OwnerMaySend(run'[r], job'[e], expired[e], p) => OwnerMaySend(run[r], job[e], expired[e], p)
        BY <2>1, <2>2, <3>7 DEF OwnerMaySend
      <4>2. Chance(e, p)' <= Chance(e, p)
        BY <3>2, <4>1 DEF Chance
      <4>3. sent'[e][p] = sent[e][p]
        BY <2>2, <3>7
      <4> QED BY <2>1, <2>3, <2>4, <3>4, <3>5, <4>2, <4>3 DEF Costs, Pays
    <3> QED BY <3>6, <3>7
  <2>6. CASE ~run[r].locked /\ p \in accepted
    <3>1. Tries(e)' = Tries(e) /\ Chance(e, p)' = Chance(e, p)
      BY <1>1, <1>3, <2>1, <2>6, OthersMove DEF Chance
    <3>3. /\ p \notin run'[r].data /\ p \in run[r].data
          /\ run[r].step \in Batching /\ run[r].step \in Trying
      BY <2>1, <2>2, <2>6 DEF Batching, Trying
    <3>4. /\ r \in Loose(e, p, Batching) /\ Loose(e, p, Batching)' \subseteq Loose(e, p, Batching) \ {r}
          /\ r \in Loose(e, p, Trying) /\ Loose(e, p, Trying)' \subseteq Loose(e, p, Trying) \ {r}
      BY <1>1, <1>3, <2>6, <3>3, LooseSpent
    <3>5. sent'[e][p] = sent[e][p] + 1
      BY <2>2, <2>6
    <3>6. /\ sent'[e][p] + Chance(e, p)' <= sent[e][p] + Chance(e, p) + 1
          /\ sent'[e][p] + Tries(e)' <= sent[e][p] + Tries(e) + 1
      BY <2>3, <3>1, <3>5
    <3> QED BY <2>1, <2>3, <3>4, <3>6 DEF Costs, Pays
  <2>7. CASE ~run[r].locked /\ p \notin accepted
    <3>1. job'[e] = job[e] /\ sent'[e][p] = sent[e][p]
      BY <2>1, <2>2, <2>7
    <3>2. run'[r].step \in Batching /\ p \in run'[r].data => run[r].step \in Batching /\ p \in run[r].data
      BY <2>1, <2>2 DEF Batching
    <3>3. run'[r].step \in Trying /\ p \in run'[r].data => run[r].step \in Trying /\ p \in run[r].data
      BY <2>1, <2>2 DEF Trying
    <3> QED BY <1>1, <1>3, <2>1, <2>7, <3>1, <3>2, <3>3, LooseGoesOn
  <2> QED BY <2>5, <2>6, <2>7
<1> QED BY <1>2, <1>3

\* What Persist does to the run and its job.
LEMMA PersistMoves ==
    ASSUME TypeOK, NEW r \in Runs, Persist(r), NEW e, e = run[r].event
    PROVE  /\ Moves(r) /\ run[r].step = "persist" /\ e \in Events
           /\ run'[r].step = "release" /\ run'[r].event = e
           /\ (run'[r].locked <=> run[r].locked) /\ run'[r].data = run[r].data
           /\ sent' = sent /\ expired' = expired /\ fate' = fate
           /\ job'[e].state = job[e].state /\ job'[e].made = job[e].made
           /\ \/ faults' = faults /\ job'[e].data = IF job[e].state = "absent" THEN {} ELSE run[r].data
              \/ faults' = faults + 1 /\ job'[e] = job[e]
              \/ faults' = faults /\ ~Exists(e) /\ job'[e] = job[e]
<1>0. /\ run \in [Runs -> Run] /\ run[r].step = "persist" /\ e \in Events /\ job \in [Events -> Job] /\ faults \in Nat
      /\ UNCHANGED <<fate, expired, sent>> /\ Goto(r, "release")
  BY DEF TypeOK, MailTypeOK, StoreTypeOK, Persist, At
<1>1. \/ /\ faults' = faults
         /\ job' = [job EXCEPT ![e].data = IF job[e].state = "absent" THEN {} ELSE run[r].data]
      \/ faults' = faults + 1 /\ job' = job
      \/ faults' = faults /\ ~Exists(e) /\ job' = job
  BY DEF Persist, Works, Fails, Event
<1>2. /\ job'[e].state = job[e].state /\ job'[e].made = job[e].made
      /\ \A f \in Events \ {run[r].event} : job'[f] = job[f]
      /\ \/ faults' = faults /\ job'[e].data = IF job[e].state = "absent" THEN {} ELSE run[r].data
         \/ faults' = faults + 1 /\ job'[e] = job[e]
         \/ faults' = faults /\ ~Exists(e) /\ job'[e] = job[e]
  <2>1. CASE (faults' = faults + 1 \/ (faults' = faults /\ ~Exists(e))) /\ job' = job
    BY <2>1
  <2>2. CASE faults' = faults /\ job' = [job EXCEPT ![e].data = IF job[e].state = "absent" THEN {} ELSE run[r].data]
    BY <1>0, <2>2 DEF Job
  <2> QED BY <1>1, <2>1, <2>2
<1>3. faults' >= faults
  BY <1>0, <1>1
<1>4. /\ Moves(r) /\ run'[r].step = "release"
      /\ run'[r].event = run[r].event /\ (run'[r].locked <=> run[r].locked) /\ run'[r].data = run[r].data
  BY <1>0, <1>2, <1>3, GotoMoves
<1> QED BY <1>0, <1>2, <1>4

\* A row that is gone was forgotten, or its event has expired.
LEMMA GoneIsSettled ==
    ASSUME TypeOK, AtLeastOnce, UnbornUntouched, NEW r \in Runs, run[r].event \in Events, ~Exists(run[r].event)
    PROVE  Forgotten(run[r].event) \/ expired[run[r].event]
<1>1. fate[run[r].event] \in Fate /\ fate[run[r].event] # "open" /\ fate[run[r].event] # "unborn"
  BY DEF TypeOK, StoreTypeOK, AtLeastOnce, OpenIsStored, UnbornUntouched
<1> QED BY <1>1 DEF Fate, Forgotten, AtLeastOnce

\* The job is narrowed to the refused; where it cannot be, a failure pays, or the row is gone.
LEMMA PersistCosts ==
    ASSUME CostState, AtLeastOnce, UnbornUntouched, TypeOK', AttemptsLeft', NEW r \in Runs, Persist(r),
           NEW e \in Events, NEW p \in Recipients
    PROVE  Costs(e, p)
<1>1. Moves(r)
  BY PersistMoves DEF CostState
<1>2. CASE e # run[r].event
  BY <1>1, <1>2, MovesElsewhere DEF CostState
<1>3. CASE e = run[r].event
  <2>1. /\ run[r].step = "persist" /\ run'[r].step = "release" /\ run'[r].event = e
        /\ (run'[r].locked <=> run[r].locked) /\ run'[r].data = run[r].data
        /\ sent' = sent /\ expired' = expired /\ fate' = fate
        /\ job'[e].state = job[e].state /\ job'[e].made = job[e].made
    BY <1>3, PersistMoves DEF CostState
  <2>2. \/ faults' = faults /\ job'[e].data = IF job[e].state = "absent" THEN {} ELSE run[r].data
        \/ faults' = faults + 1 /\ job'[e] = job[e]
        \/ faults' = faults /\ ~Exists(e) /\ job'[e] = job[e]
    BY <1>3, PersistMoves DEF CostState
  <2>3. /\ sent[e][p] \in Nat /\ Chance(e, p) \in {0, 1} /\ Tries(e) \in Nat /\ faults \in Nat
        /\ JobAttempts \in Nat /\ job[e].made \in Nat /\ faults' >= faults
    BY <1>1, CostTypes, StoreAssumption DEF CostState, Job, Moves
  <2>4. Chance(e, p)' \in {0, 1} /\ Tries(e)' \in Nat /\ sent'[e][p] = sent[e][p]
    BY <2>1, CostTypesNext
  <2>5. CASE run[r].locked /\ faults' = faults + 1
    <3>1. job'[e] = job[e]
      BY <2>2, <2>3, <2>5
    <3> QED BY <1>1, <1>3, <2>1, <2>5, <3>1, OwnerFails
  <2>6. CASE run[r].locked /\ faults' # faults + 1
    <3>1. job[e].state = "active" /\ job'[e].state = "active"
      BY <1>3, <2>1, <2>6 DEF CostState, OneOwnerPerJob, Event
    <3>2. /\ Sendable(run, job[e], expired[e], e, p) <=> OwnerMaySend(run[r], job[e], expired[e], p)
          /\ Sendable(run', job'[e], expired'[e], e, p) <=> OwnerMaySend(run'[r], job'[e], expired[e], p)
          /\ Tries(e) = JobAttempts - job[e].made - (IF run[r].step \notin {"gate", "send"} THEN 1 ELSE 0)
          /\ Tries(e)' = JobAttempts - job'[e].made - (IF run'[r].step \notin {"gate", "send"} THEN 1 ELSE 0)
      BY <1>1, <1>3, <2>1, <2>6, <3>1, OwnerGoesOn
    <3>3. Tries(e)' = Tries(e)
      BY <2>1, <3>2
    <3>4. Loose(e, p, Batching)' \subseteq Loose(e, p, Batching) /\ Loose(e, p, Trying)' \subseteq Loose(e, p, Trying)
      BY <1>1, <1>3, <2>1, <2>6, LooseLeft
    <3>5. ~Forgotten(e)' => Chance(e, p)' <= Chance(e, p)
      <4>1. CASE job'[e].data = run[r].data
        <5>1. OwnerMaySend(run'[r], job'[e], expired[e], p) => OwnerMaySend(run[r], job[e], expired[e], p)
          BY <2>1, <4>1 DEF OwnerMaySend
        <5> QED BY <3>2, <5>1 DEF Chance
      <4>2. CASE ~Exists(e)
        <5>1. Forgotten(e) \/ expired[e]
          BY <1>3, <4>2, GoneIsSettled DEF CostState
        <5>2. Forgotten(e)' <=> Forgotten(e)
          BY <2>1 DEF Forgotten
        <5>3. expired[e] => ~OwnerMaySend(run'[r], job'[e], expired[e], p)
          BY <2>1 DEF OwnerMaySend
        <5>4. expired[e] => Chance(e, p)' = 0
          BY <3>2, <5>3 DEF Chance
        <5> QED BY <2>3, <5>1, <5>2, <5>4
      <4> QED BY <2>2, <2>3, <2>6, <3>1, <4>1, <4>2
    <3> QED BY <2>3, <2>4, <3>3, <3>4, <3>5 DEF Costs, Pays
  <2>7. CASE ~run[r].locked
    <3>1. Tries(e)' = Tries(e)
      BY <1>1, <1>3, <2>1, <2>7, OthersMove
    <3>2. Loose(e, p, Batching)' \subseteq Loose(e, p, Batching) /\ Loose(e, p, Trying)' \subseteq Loose(e, p, Trying)
      <4>1. run'[r].step \notin Batching \cup Trying
        BY <2>1 DEF Batching, Trying
      <4> QED BY <1>1, <1>3, <4>1, LooseLeft
    <3>3. Pays(JobAttempts, sent[e][p] + Tries(e), sent'[e][p] + Tries(e)',
               Loose(e, p, Trying), Loose(e, p, Trying)', faults, faults')
      BY <2>3, <2>4, <3>1, <3>2 DEF Pays
    <3>4. CASE p \in run[r].data
      <4>1. run[r].step \in Batching /\ run'[r].step \notin Batching
        BY <2>1 DEF Batching
      <4>2. r \in Loose(e, p, Batching) /\ Loose(e, p, Batching)' \subseteq Loose(e, p, Batching) \ {r}
        BY <1>1, <1>3, <2>7, <3>4, <4>1, LooseSpent
      <4>3. sent'[e][p] + Chance(e, p)' <= sent[e][p] + Chance(e, p) + 1
        BY <2>3, <2>4
      <4> QED BY <2>3, <3>3, <4>2, <4>3 DEF Costs, Pays
    <3>5. CASE p \notin run[r].data
      <4>1. p \notin job'[e].data \/ job'[e] = job[e]
        BY <2>2, <3>5
      <4>2. Sendable(run', job'[e], expired'[e], e, p) => Sendable(run, job[e], expired[e], e, p)
        BY <1>1, <1>3, <2>1, <2>7, <4>1, OthersMove
      <4>3. Chance(e, p)' <= Chance(e, p)
        BY <4>2 DEF Chance
      <4> QED BY <2>3, <2>4, <3>2, <3>3, <4>3 DEF Costs, Pays
    <3> QED BY <3>4, <3>5
  <2> QED BY <2>5, <2>6, <2>7
<1> QED BY <1>2, <1>3

\* What a run leaves to its job when it throws.
LEMMA FailCosts ==
    ASSUME CostState, TypeOK', AttemptsLeft', NEW r \in Runs, FailJob(r), NEW e \in Events, NEW p \in Recipients
    PROVE  Costs(e, p)
<1>0. /\ run \in [Runs -> Run] /\ run[r].step = "failing" /\ run[r].event \in Events /\ job \in [Events -> Job]
      /\ faults' = faults /\ faults \in Nat /\ sent' = sent /\ expired' = expired /\ run' = [run EXCEPT ![r] = IdleRun]
  BY DEF CostState, TypeOK, MailTypeOK, StoreTypeOK, FailJob, At
<1>1. run'[r] = IdleRun /\ \A s \in Runs \ {r} : run'[s] = run[s]
  BY <1>0
<1>2. \/ run[r].locked /\ \E st \in {"failed", "waiting"} :
            job' = [job EXCEPT ![run[r].event].state = st, ![run[r].event].made = @ + 1]
      \/ ~run[r].locked /\ job' = job
  BY DEF FailJob, Event
<1>3. \A f \in Events \ {run[r].event} : job'[f] = job[f]
  BY <1>0, <1>2
<1>4. Moves(r)
  BY <1>0, <1>1, <1>3 DEF Moves
<1>5. CASE e # run[r].event
  BY <1>4, <1>5, MovesElsewhere DEF CostState
<1>6. CASE e = run[r].event /\ run[r].locked
  <2>1. PICK st \in {"failed", "waiting"} : job' = [job EXCEPT ![e].state = st, ![e].made = @ + 1]
    BY <1>2, <1>6
  <2>2. job'[e].state \in {"failed", "waiting"} /\ job'[e].made = job[e].made + 1 /\ job'[e].data = job[e].data
    BY <1>0, <2>1 DEF Job
  <2>3. ~run'[r].locked /\ run'[r].step \notin Batching \cup Trying
    BY <1>1 DEF IdleRun, Batching, Trying
  <2>4. /\ Sendable(run, job[e], expired[e], e, p) <=> OwnerMaySend(run[r], job[e], expired[e], p)
        /\ Sendable(run', job'[e], expired'[e], e, p) <=> JobMaySend(job'[e], expired[e], p)
        /\ Tries(e) = JobAttempts - job[e].made - (IF run[r].step \notin {"gate", "send"} THEN 1 ELSE 0)
        /\ Tries(e)' = IF job'[e].state = "absent" THEN JobAttempts
                       ELSE IF job'[e].state \in {"completed", "failed"} THEN 0
                       ELSE JobAttempts - job'[e].made - 0
    BY <1>4, <1>6, <2>3, OwnerGivesUp
  <2>5. JobMaySend(job'[e], expired[e], p) => OwnerMaySend(run[r], job[e], expired[e], p)
    BY <1>0, <2>2 DEF JobMaySend, OwnerMaySend
  <2>6. Chance(e, p)' <= Chance(e, p)
    BY <2>4, <2>5 DEF Chance
  <2>7. /\ sent[e][p] \in Nat /\ Chance(e, p) \in {0, 1} /\ Tries(e) \in Nat
        /\ JobAttempts \in Nat /\ job[e].made \in Nat
    BY CostTypes, StoreAssumption DEF CostState, Job
  <2>8. Chance(e, p)' \in {0, 1} /\ Tries(e)' \in Nat
    BY CostTypesNext
  <2>9. Tries(e)' <= Tries(e)
    <3>1. Tries(e) = JobAttempts - job[e].made - 1
      BY <1>0, <2>4, <2>7
    <3>2. CASE job'[e].state = "failed"
      BY <2>4, <2>7, <3>2
    <3>3. CASE job'[e].state = "waiting"
      <4>1. Tries(e)' = JobAttempts - job'[e].made
        BY <2>2, <2>4, <2>7, <3>3
      <4> QED BY <2>2, <2>7, <3>1, <4>1
    <3> QED BY <2>2, <3>2, <3>3
  <2>10. Loose(e, p, Batching)' \subseteq Loose(e, p, Batching) /\ Loose(e, p, Trying)' \subseteq Loose(e, p, Trying)
    BY <1>4, <1>6, <2>3, LooseLeft
  <2> QED BY <1>0, <2>6, <2>7, <2>8, <2>9, <2>10 DEF Costs, Pays
<1>7. CASE e = run[r].event /\ ~run[r].locked
  <2>1. ~run'[r].locked /\ run'[r].step \notin Batching \cup Trying /\ job'[e] = job[e] /\ sent'[e][p] = sent[e][p]
    BY <1>0, <1>1, <1>2, <1>7 DEF IdleRun, Batching, Trying
  <2> QED BY <1>4, <1>7, <2>1, LooseGoesOn
<1> QED BY <1>5, <1>6, <1>7

\* What a crash or a stall of a run costs.
LEMMA LostCosts ==
    ASSUME CostState, TypeOK', AttemptsLeft', NEW r \in Runs, CrashRun(r) \/ StallRun(r),
           NEW e \in Events, NEW p \in Recipients
    PROVE  Costs(e, p)
<1>0. /\ run \in [Runs -> Run] /\ run[r].step # "idle" /\ run[r].event \in Events /\ faults \in Nat
      /\ faults' = faults + 1 /\ sent' = sent /\ expired' = expired /\ job' = job
  BY DEF CostState, TypeOK, MailTypeOK, StoreTypeOK, CrashRun, StallRun, At, Fails
<1>1. /\ \A s \in Runs \ {r} : run'[s] = run[s]
      /\ ~run'[r].locked
      /\ \/ run'[r] = IdleRun
         \/ /\ run'[r].event = run[r].event /\ run'[r].step = run[r].step
            /\ run'[r].data = run[r].data /\ run[r].locked
  <2>1. CASE run' = [run EXCEPT ![r] = IdleRun]
    BY <1>0, <2>1 DEF IdleRun
  <2>2. CASE run' = [run EXCEPT ![r].locked = FALSE] /\ run[r].locked
    BY <1>0, <2>2 DEF Run
  <2> QED BY <2>1, <2>2 DEF CrashRun, StallRun
<1>2. Moves(r)
  BY <1>0, <1>1 DEF Moves
<1>3. CASE e # run[r].event
  BY <1>2, <1>3, MovesElsewhere DEF CostState
<1>4. CASE e = run[r].event /\ run[r].locked
  <2>1. /\ Sendable(run, job[e], expired[e], e, p) <=> OwnerMaySend(run[r], job[e], expired[e], p)
        /\ Sendable(run', job'[e], expired'[e], e, p) <=> JobMaySend(job'[e], expired[e], p)
        /\ job[e].state = "active"
        /\ Tries(e) = JobAttempts - job[e].made - (IF run[r].step \notin {"gate", "send"} THEN 1 ELSE 0)
        /\ Tries(e)' = IF job'[e].state = "absent" THEN JobAttempts
                       ELSE IF job'[e].state \in {"completed", "failed"} THEN 0
                       ELSE JobAttempts - job'[e].made - 0
    BY <1>1, <1>2, <1>4, OwnerGivesUp
  <2>2. /\ sent[e][p] \in Nat /\ Chance(e, p) \in {0, 1} /\ Tries(e) \in Nat
        /\ JobAttempts \in Nat \ {0} /\ job[e].made \in Nat
    BY CostTypes, StoreAssumption DEF CostState, Job
  <2>3. Chance(e, p)' \in {0, 1} /\ Tries(e)' \in Nat /\ sent'[e][p] = sent[e][p]
    BY <1>0, CostTypesNext
  <2>4. Tries(e)' = JobAttempts - job[e].made
    BY <1>0, <2>1, <2>2
  <2>5. Tries(e) = IF run[r].step \in {"gate", "send"} THEN Tries(e)' ELSE Tries(e)' - 1
    BY <2>1, <2>2, <2>4
  <2>6. Tries(e)' <= Tries(e) + JobAttempts
    BY <2>2, <2>3, <2>5
  <2>7. CASE run'[r].step \notin Batching \cup Trying
    <3>1. Loose(e, p, Batching)' \subseteq Loose(e, p, Batching) /\ Loose(e, p, Trying)' \subseteq Loose(e, p, Trying)
      BY <1>2, <1>4, <2>7, LooseLeft
    <3>2. sent'[e][p] + Chance(e, p)' <= sent[e][p] + Chance(e, p) + 1
      BY <2>2, <2>3
    <3>3. sent'[e][p] + Tries(e)' <= sent[e][p] + Tries(e) + JobAttempts
      BY <2>2, <2>3, <2>6
    <3> QED BY <1>0, <3>1, <3>2, <3>3 DEF Costs, Pays
  <2>8. CASE run'[r].step \in Batching \cup Trying
    <3>1. /\ run'[r].step = run[r].step /\ run'[r].data = run[r].data
          /\ run[r].step \in {"gate", "send", "persist"}
      BY <1>1, <2>8 DEF IdleRun, Batching, Trying
    <3>2. Loose(e, p, Batching)' \subseteq Loose(e, p, Batching) \cup {r} /\ Loose(e, p, Trying)' \subseteq Loose(e, p, Trying) \cup {r}
      BY <1>2, <1>4, LooseMoves
    <3>3. Pays(JobAttempts, sent[e][p] + Tries(e), sent'[e][p] + Tries(e)',
               Loose(e, p, Trying), Loose(e, p, Trying)', faults, faults')
      <4>1. CASE run[r].step \in {"gate", "send"}
        <5>1. sent'[e][p] + Tries(e)' + 1 <= sent[e][p] + Tries(e) + JobAttempts
          BY <2>2, <2>3, <2>5, <4>1
        <5> QED BY <1>0, <3>2, <5>1 DEF Pays
      <4>2. CASE run[r].step = "persist"
        <5>1. sent'[e][p] + Tries(e)' <= sent[e][p] + Tries(e) + JobAttempts
          BY <2>2, <2>3, <2>6
        <5>2. Loose(e, p, Trying)' \subseteq Loose(e, p, Trying)
          <6>1. run'[r].step \notin Trying
            BY <3>1, <4>2 DEF Trying
          <6>2. \A s \in Loose(e, p, Trying)' : s # r
            BY <6>1 DEF Loose, Trying
          <6> QED BY <3>2, <6>2
        <5> QED BY <1>0, <5>1, <5>2 DEF Pays
      <4> QED BY <3>1, <4>1, <4>2
    <3>4. Pays(1, sent[e][p] + Chance(e, p), sent'[e][p] + Chance(e, p)',
               Loose(e, p, Batching), Loose(e, p, Batching)', faults, faults')
      <4>1. CASE p \in run[r].data
        <5>1. JobMaySend(job'[e], expired[e], p) => OwnerMaySend(run[r], job[e], expired[e], p)
          BY <2>1, <3>1, <4>1, <1>0 DEF JobMaySend, OwnerMaySend
        <5>2. Chance(e, p)' <= Chance(e, p)
          BY <2>1, <5>1 DEF Chance
        <5>3. sent'[e][p] + Chance(e, p)' + 1 <= sent[e][p] + Chance(e, p) + 1
          BY <2>2, <2>3, <5>2
        <5> QED BY <1>0, <3>2, <5>3 DEF Pays
      <4>2. CASE p \notin run[r].data
        <5>1. \A s \in Loose(e, p, Batching)' : s # r
          BY <3>1, <4>2 DEF Loose, Batching
        <5>2. Loose(e, p, Batching)' \subseteq Loose(e, p, Batching)
          BY <3>2, <5>1
        <5>3. sent'[e][p] + Chance(e, p)' <= sent[e][p] + Chance(e, p) + 1
          BY <2>2, <2>3
        <5> QED BY <1>0, <5>2, <5>3 DEF Pays
      <4> QED BY <4>1, <4>2
    <3> QED BY <3>3, <3>4 DEF Costs
  <2> QED BY <2>7, <2>8
<1>5. CASE e = run[r].event /\ ~run[r].locked
  <2>1. ~run'[r].locked /\ run'[r].step \notin Batching \cup Trying /\ job'[e] = job[e] /\ sent'[e][p] = sent[e][p]
    BY <1>0, <1>1, <1>5 DEF IdleRun, Batching, Trying
  <2> QED BY <1>2, <1>5, <2>1, LooseGoesOn
<1> QED BY <1>3, <1>4, <1>5

\* The ways to return, and a deletion that fails.
LEMMA ReturnCosts ==
    ASSUME CostState, TypeOK', AttemptsLeft', NEW r \in Runs,
           DiscardExpiredJob(r) \/ AlreadySent(r) \/ Cleanup(r), NEW e \in Events, NEW p \in Recipients
    PROVE  Costs(e, p)
<1>1. run[r].step # "idle" /\ run[r].event \in Events /\ UNCHANGED <<expired, sent>> /\ faults \in Nat
  BY DEF DiscardExpiredJob, AlreadySent, Cleanup, At, CostState, TypeOK, StoreTypeOK, MailTypeOK
<1>2. CASE Complete(r) /\ faults' = faults
  BY <1>1, <1>2, CompleteCosts
<1>3. CASE run[r].step = "cleanup" /\ Fails /\ Goto(r, "failing") /\ UNCHANGED <<job, expired, sent>>
  BY <1>3, TailCosts
<1> QED BY <1>1, <1>2, <1>3 DEF DiscardExpiredJob, AlreadySent, Cleanup, Works, At

\* A worker takes a job: it may send what the job could have sent.
LEMMA StartCosts ==
    ASSUME CostState, IdleRuns, TypeOK', AttemptsLeft', NEW r \in Runs, NEW f \in Events, Start(r, f),
           NEW e \in Events, NEW p \in Recipients
    PROVE  Costs(e, p)
<1>0. /\ run \in [Runs -> Run] /\ run[r].step = "idle" /\ job \in [Events -> Job] /\ faults \in Nat
      /\ job[f].state = "waiting" /\ job' = [job EXCEPT ![f].state = "active"]
      /\ run' = [run EXCEPT ![r] = [step |-> "gate", event |-> f, data |-> job[f].data,
                                    locked |-> TRUE, fatal |-> FALSE]]
      /\ UNCHANGED <<expired, sent, faults>>
  BY DEF CostState, TypeOK, MailTypeOK, StoreTypeOK, Start, At
<1>1. /\ run'[r].step = "gate" /\ run'[r].event = f /\ run'[r].data = job[f].data /\ run'[r].locked
      /\ \A s \in Runs \ {r} : run'[s] = run[s]
      /\ job'[f].state = "active" /\ job'[f].made = job[f].made /\ job'[f].data = job[f].data
      /\ \A g \in Events \ {f} : job'[g] = job[g]
  BY <1>0 DEF Job
<1>2. ~run[r].locked
  BY <1>0 DEF IdleRuns, IdleRun
<1>3. /\ sent[e][p] \in Nat /\ Chance(e, p) \in {0, 1} /\ Tries(e) \in Nat
      /\ JobAttempts \in Nat /\ job[e].made \in Nat
  BY CostTypes, StoreAssumption DEF CostState, Job
<1>4. /\ Loose(e, p, Batching)' \subseteq Loose(e, p, Batching)
      /\ Loose(e, p, Trying)' \subseteq Loose(e, p, Trying)
  <2> DEFINE Joins(s, steps) == run'[s].event = e /\ ~run'[s].locked /\ run'[s].step \in steps /\ p \in run'[s].data
  <2>1. ASSUME NEW s \in Runs, NEW steps, Joins(s, steps) PROVE s \in Loose(e, p, steps)
    <3>1. s # r
      BY <1>1, <2>1
    <3> QED BY <1>1, <2>1, <3>1 DEF Loose
  <2>2. Loose(e, p, Batching)' = {s \in Runs : Joins(s, Batching)} /\ Loose(e, p, Trying)' = {s \in Runs : Joins(s, Trying)}
    BY DEF Loose, Batching, Trying
  <2> HIDE DEF Joins
  <2> QED BY <2>1, <2>2
<1>5. CASE e # f
  <2>1. \A s \in Runs : Owner(run', s, e) => Owner(run, s, e) /\ run'[s] = run[s]
    BY <1>1, <1>5 DEF Owner
  <2>2. \A s \in Runs : Owner(run, s, e) => Owner(run', s, e) /\ run'[s] = run[s]
    BY <1>1, <1>2 DEF Owner
  <2>3. Sendable(run', job'[e], expired'[e], e, p) => Sendable(run, job[e], expired[e], e, p)
    BY <1>0, <1>1, <1>5, <2>1, <2>2 DEF Sendable
  <2>4. Tries(e)' = Tries(e)
    BY <1>1, <1>5, <2>1, <2>2 DEF Tries, TriesLeft
  <2>5. Chance(e, p)' <= Chance(e, p) /\ Chance(e, p)' \in {0, 1}
    BY <2>3 DEF Chance
  <2> QED BY <1>0, <1>3, <1>4, <2>4, <2>5 DEF Costs, Pays
<1>6. CASE e = f
  <2>1. \A s \in Runs : ~Owner(run, s, e)
    BY <1>0, <1>6 DEF CostState, OneOwnerPerJob, Owner, Event
  <2>2. Owner(run', r, e) /\ \A s \in Runs : Owner(run', s, e) => s = r
    BY <1>1, <1>6, <2>1 DEF Owner
  <2>3. /\ Sendable(run, job[e], expired[e], e, p) <=> JobMaySend(job[e], expired[e], p)
        /\ Tries(e) = IF job[e].state = "absent" THEN JobAttempts
                      ELSE IF job[e].state \in {"completed", "failed"} THEN 0
                      ELSE JobAttempts - job[e].made - 0
    BY <2>1, Unowned DEF Tries
  <2>4. /\ Sendable(run', job'[e], expired'[e], e, p) <=> OwnerMaySend(run'[r], job'[e], expired[e], p)
        /\ Tries(e)' = JobAttempts - job'[e].made - (IF run'[r].step \notin {"gate", "send"} THEN 1 ELSE 0)
    <3>1. job'[e].state = "active" /\ expired' = expired
      BY <1>0, <1>1, <1>6
    <3>2. /\ \A x, q : Sendable(run', job'[e], x, e, q) <=> OwnerMaySend(run'[r], job'[e], x, q)
          /\ TriesLeft(run', job'[e], e) =
                 JobAttempts - job'[e].made - (IF run'[r].step \notin {"gate", "send"} THEN 1 ELSE 0)
      BY <2>2, <3>1, Owned
    <3> QED BY <3>1, <3>2 DEF Tries
  <2>5. OwnerMaySend(run'[r], job'[e], expired[e], p) => JobMaySend(job[e], expired[e], p)
    BY <1>0, <1>1, <1>6 DEF OwnerMaySend, JobMaySend
  <2>6. Chance(e, p)' <= Chance(e, p) /\ Chance(e, p)' \in {0, 1}
    BY <2>3, <2>4, <2>5 DEF Chance
  <2>7. Tries(e)' = Tries(e)
    BY <1>0, <1>1, <1>3, <1>6, <2>3, <2>4
  <2> QED BY <1>0, <1>3, <1>4, <2>6, <2>7 DEF Costs, Pays
<1> QED BY <1>5, <1>6

\* A job changes hands outside of its executions: BullMQ requeues, fails or evicts it,
\* or a dispatcher adds it.
LEMMA QueueCosts ==
    ASSUME CostState, TypeOK', AttemptsLeft', NEW f \in Events, run' = run, sent' = sent, expired' = expired,
           \A s \in Runs : ~Owner(run, s, f), \A g \in Events \ {f} : job'[g] = job[g], faults' >= faults,
           \/ job'[f] = job[f]
           \/ faults' = faults + 1 /\ job'[f].state = "absent"
           \/ job'[f].state = "failed"
           \/ job[f].state = "absent" /\ job'[f].state = "waiting" /\ job'[f].made = 0
           \/ /\ job[f].state = "active" /\ job'[f].state = "waiting"
              /\ job'[f].made = job[f].made /\ job'[f].data = job[f].data,
           NEW e \in Events, NEW p \in Recipients
    PROVE  Costs(e, p)
<1>1. /\ sent[e][p] \in Nat /\ Chance(e, p) \in {0, 1} /\ Tries(e) \in Nat /\ faults \in Nat
      /\ JobAttempts \in Nat /\ job[e].made \in Nat
  BY CostTypes, StoreAssumption DEF CostState, Job
<1>2. Chance(e, p)' \in {0, 1} /\ Tries(e)' \in Nat /\ job'[e] \in Job
  BY CostTypesNext
<1>3. CASE e # f \/ job'[f] = job[f]
  <2>1. job'[e] = job[e]
    BY <1>3
  <2> QED BY <1>1, <2>1, Elsewhere
<1>4. CASE e = f /\ job'[f] # job[f]
  <2>1. \A s \in Runs : ~Owner(run', s, e)
    BY <1>4
  <2>3. /\ Sendable(run, job[e], expired[e], e, p) <=> JobMaySend(job[e], expired[e], p)
        /\ Tries(e) = IF job[e].state = "absent" THEN JobAttempts
                      ELSE IF job[e].state \in {"completed", "failed"} THEN 0
                      ELSE JobAttempts - job[e].made - 0
    BY <1>4, Unowned DEF Tries
  <2>4. /\ Sendable(run', job'[e], expired'[e], e, p) <=> JobMaySend(job'[e], expired[e], p)
        /\ Tries(e)' = IF job'[e].state = "absent" THEN JobAttempts
                       ELSE IF job'[e].state \in {"completed", "failed"} THEN 0
                       ELSE JobAttempts - job'[e].made - 0
    BY <2>1, Unowned DEF Tries
  <2>5. Loose(e, p, Batching)' = Loose(e, p, Batching) /\ Loose(e, p, Trying)' = Loose(e, p, Trying)
    BY DEF Loose, Batching, Trying
  <2>6. CASE faults' = faults + 1 /\ job'[f].state = "absent"
    <3>1. Tries(e)' = JobAttempts
      BY <1>4, <2>4, <2>6
    <3> QED BY <1>1, <1>2, <2>5, <2>6, <3>1 DEF Costs, Pays
  <2>7. CASE ~(faults' = faults + 1 /\ job'[f].state = "absent")
    <3>1. \/ job'[e].state = "failed"
          \/ job[e].state = "absent" /\ job'[e].state = "waiting" /\ job'[e].made = 0
          \/ /\ job[e].state = "active" /\ job'[e].state = "waiting"
             /\ job'[e].made = job[e].made /\ job'[e].data = job[e].data
      BY <1>4, <2>7
    <3>2. JobMaySend(job'[e], expired[e], p) => JobMaySend(job[e], expired[e], p)
      BY <3>1 DEF JobMaySend
    <3>3. Chance(e, p)' <= Chance(e, p)
      BY <2>3, <2>4, <3>2 DEF Chance
    <3>4. Tries(e)' <= Tries(e)
      BY <1>1, <1>2, <2>3, <2>4, <3>1
    <3> QED BY <1>1, <1>2, <2>5, <3>3, <3>4 DEF Costs, Pays
  <2> QED BY <2>6, <2>7
<1> QED BY <1>3, <1>4

-----------------------------------------------------------------------------
(* The rest of the invariant, and every step *)

\* What an execution that has started may do.
RunAction(r) ==
    \/ DiscardExpiredJob(r) \/ AcquireKey(r) \/ AlreadySent(r) \/ GateThrows(r) \/ Send(r) \/ Persist(r)
    \/ MarkCompleted(r) \/ Release(r) \/ Cleanup(r) \/ FailJob(r) \/ CrashRun(r) \/ StallRun(r)

\* Whatever an execution does, it moves, and a job it leaves to be run has attempts left.
LEMMA RunMoves ==
    ASSUME CostState, NEW r \in Runs, RunAction(r)
    PROVE  /\ Moves(r) /\ run[r].step # "idle"
           /\ job'[run[r].event].state \in {"waiting", "active"} => job'[run[r].event].made < JobAttempts
<1>0. /\ run \in [Runs -> Run] /\ job \in [Events -> Job] /\ faults \in Nat /\ JobAttempts \in Nat
      /\ \A e \in Events : job[e].state \in {"waiting", "active"} => job[e].made < JobAttempts
      /\ \A s \in Runs : run[s].step # "idle" => run[s].event \in Events
      /\ Works \/ Fails \/ UNCHANGED faults => faults' >= faults
  BY StoreAssumption DEF CostState, TypeOK, StoreTypeOK, MailTypeOK, AttemptsLeft, Works, Fails
<1>1. ASSUME UNCHANGED <<expired, sent>>, faults' >= faults, run[r].step # "idle", Complete(r)
      PROVE  Moves(r) /\ (job'[run[r].event].state \in {"waiting", "active"} => job'[run[r].event].made < JobAttempts)
  <2>1. run'[r] = IdleRun /\ \A s \in Runs \ {r} : run'[s] = run[s]
    BY <1>0, <1>1 DEF Complete
  <2>2. job' = job \/ job' = [job EXCEPT ![run[r].event].state = "completed"]
    BY <1>1 DEF Complete, Event
  <2>3. \A f \in Events \ {run[r].event} : job'[f] = job[f]
    BY <1>0, <2>2
  <2>4. job'[run[r].event] = job[run[r].event] \/ job'[run[r].event].state = "completed"
    BY <1>0, <1>1, <2>2 DEF Job
  <2> QED BY <1>0, <1>1, <2>1, <2>3, <2>4 DEF Moves
<1>2. ASSUME UNCHANGED <<job, expired, sent>>, faults' >= faults, run[r].step # "idle",
             NEW step \in {"gate", "send", "persist", "mark", "release", "cleanup", "failing"},
             Goto(r, step) \/ run' = [run EXCEPT ![r].step = step, ![r].fatal = FALSE]
      PROVE  Moves(r) /\ (job'[run[r].event].state \in {"waiting", "active"} => job'[run[r].event].made < JobAttempts)
  <2>1. Moves(r)
    BY <1>2, GotoMoves DEF CostState
  <2> QED BY <1>0, <1>2, <2>1
<1>3. CASE DiscardExpiredJob(r) \/ AlreadySent(r)
  <2>1. UNCHANGED <<expired, sent>> /\ faults' >= faults /\ run[r].step # "idle" /\ Complete(r)
    BY <1>0, <1>3 DEF DiscardExpiredJob, AlreadySent, At
  <2> QED BY <1>1, <2>1
<1>4. CASE Cleanup(r)
  <2>1. UNCHANGED <<expired, sent>> /\ faults' >= faults /\ run[r].step # "idle"
    BY <1>0, <1>4 DEF Cleanup, At
  <2>2. CASE Complete(r)
    BY <1>1, <2>1, <2>2
  <2>3. CASE Goto(r, "failing") /\ UNCHANGED job
    BY <1>2, <2>1, <2>3
  <2> QED BY <1>4, <2>2, <2>3 DEF Cleanup
<1>5. CASE AcquireKey(r) \/ GateThrows(r)
  <2>1. UNCHANGED <<job, expired, sent>> /\ faults' >= faults /\ run[r].step # "idle"
    BY <1>0, <1>5 DEF AcquireKey, GateThrows, At, storeVars
  <2>2. Goto(r, "send") \/ Goto(r, "failing")
    BY <1>5 DEF AcquireKey, GateThrows
  <2> QED BY <1>2, <2>1, <2>2
<1>6. CASE MarkCompleted(r) \/ Release(r)
  <2>1. UNCHANGED <<job, expired, sent>> /\ faults' >= faults /\ run[r].step # "idle"
    BY <1>0, <1>6 DEF MarkCompleted, Release, At
  <2>2. \/ Goto(r, "cleanup") \/ Goto(r, "release") \/ Goto(r, "failing")
        \/ run' = [run EXCEPT ![r].step = "failing", ![r].fatal = FALSE]
    BY <1>6 DEF MarkCompleted, Release
  <2> QED BY <1>2, <2>1, <2>2
<1>7. CASE Send(r)
  <2>1. Moves(r) /\ run[r].step = "send" /\ job' = job
    BY <1>7, SendMoves DEF CostState
  <2>2. run[r].event \in Events
    BY <1>0, <2>1
  <2> QED BY <1>0, <2>1, <2>2
<1>8. CASE Persist(r)
  <2>1. /\ Moves(r) /\ run[r].step = "persist"
        /\ job'[run[r].event].state = job[run[r].event].state /\ job'[run[r].event].made = job[run[r].event].made
    BY <1>8, PersistMoves DEF CostState
  <2>2. run[r].event \in Events
    BY <1>0, <2>1
  <2> QED BY <1>0, <2>1, <2>2
<1>9. CASE FailJob(r)
  <2>1. /\ run[r].step = "failing" /\ run[r].event \in Events
        /\ faults' = faults /\ sent' = sent /\ expired' = expired /\ run' = [run EXCEPT ![r] = IdleRun]
    BY <1>0, <1>9 DEF FailJob, At
  <2>2. \/ \E st \in {"failed", "waiting"} :
              /\ job' = [job EXCEPT ![run[r].event].state = st, ![run[r].event].made = @ + 1]
              /\ st = "waiting" => ~(job[run[r].event].made + 1 >= JobAttempts)
        \/ job' = job
    BY <1>9 DEF FailJob, Event
  <2>3. \A f \in Events \ {run[r].event} : job'[f] = job[f]
    BY <1>0, <2>2
  <2>4. \/ job'[run[r].event] = job[run[r].event]
        \/ job'[run[r].event].state = "failed"
        \/ job'[run[r].event].made = job[run[r].event].made + 1 /\ ~(job[run[r].event].made + 1 >= JobAttempts)
    BY <1>0, <2>1, <2>2 DEF Job
  <2>5. job[run[r].event].made \in Nat
    BY <1>0, <2>1 DEF Job
  <2>6. job'[run[r].event].state \in {"waiting", "active"} => job'[run[r].event].made < JobAttempts
    BY <1>0, <2>1, <2>4, <2>5
  <2>7. Moves(r)
    BY <1>0, <2>1, <2>3 DEF Moves
  <2> QED BY <2>1, <2>6, <2>7
<1>10. CASE CrashRun(r) \/ StallRun(r)
  <2>1. /\ run[r].step # "idle" /\ run[r].event \in Events
        /\ faults' >= faults /\ sent' = sent /\ expired' = expired /\ job' = job
    BY <1>0, <1>10 DEF CrashRun, StallRun, At
  <2>2. \A s \in Runs \ {r} : run'[s] = run[s]
    BY <1>0, <1>10 DEF CrashRun, StallRun
  <2>3. run'[r] = IdleRun \/ (run'[r].event = run[r].event /\ run'[r].step # "idle")
    BY <1>0, <1>10, <2>1 DEF CrashRun, StallRun, Run
  <2> QED BY <1>0, <2>1, <2>2, <2>3 DEF Moves
<1>11. run[r].step # "idle"
  BY DEF RunAction, DiscardExpiredJob, AcquireKey, AlreadySent, GateThrows, Send, Persist, MarkCompleted, Release,
         Cleanup, FailJob, CrashRun, StallRun, At
<1> QED BY <1>3, <1>4, <1>5, <1>6, <1>7, <1>8, <1>9, <1>10, <1>11 DEF RunAction

\* Every step of the mail worker and of its queue is paid for.
LEMMA MailCosts ==
    ASSUME CostState, IdleRuns, AtLeastOnce, UnbornUntouched, TypeOK', AttemptsLeft', MailNext,
           NEW e \in Events, NEW p \in Recipients
    PROVE  Costs(e, p)
<1>0. faults \in Nat /\ job \in [Events -> Job]
  BY DEF CostState, TypeOK, StoreTypeOK
<1>1. ASSUME NEW r \in Runs, NEW f \in Events, Start(r, f) PROVE Costs(e, p)
  BY <1>1, StartCosts
<1>2. ASSUME NEW r \in Runs, DiscardExpiredJob(r) \/ AlreadySent(r) \/ Cleanup(r) PROVE Costs(e, p)
  BY <1>2, ReturnCosts
<1>3. ASSUME NEW r \in Runs, AcquireKey(r) \/ GateThrows(r) PROVE Costs(e, p)
  BY <1>3, GateCosts
<1>4. ASSUME NEW r \in Runs, MarkCompleted(r) \/ Release(r) PROVE Costs(e, p)
  BY <1>4, TailCosts
<1>5. ASSUME NEW r \in Runs, Send(r) PROVE Costs(e, p)
  BY <1>5, SendCosts
<1>6. ASSUME NEW r \in Runs, Persist(r) PROVE Costs(e, p)
  BY <1>6, PersistCosts
<1>7. ASSUME NEW r \in Runs, FailJob(r) PROVE Costs(e, p)
  BY <1>7, FailCosts
<1>8. ASSUME NEW r \in Runs, CrashRun(r) \/ StallRun(r) PROVE Costs(e, p)
  BY <1>8, LostCosts
<1>9. ASSUME NEW f \in Events, revertForRedispatch(f) \/ KeyExpires(f) PROVE Costs(e, p)
  <2>1. run' = run /\ sent' = sent /\ expired' = expired /\ job' = job /\ faults' >= faults
    BY <1>0, <1>9 DEF revertForRedispatch, KeyExpires, Works, Fails
  <2>2. sent[e][p] \in Nat /\ Tries(e) \in Nat
    BY CostTypes DEF CostState
  <2> QED BY <2>1, <2>2, Elsewhere
<1>10. ASSUME NEW f \in Events, RequeueStalled(f) PROVE Costs(e, p)
  <2>1. run' = run /\ sent' = sent /\ expired' = expired /\ faults' >= faults
    BY <1>0, <1>10 DEF RequeueStalled
  <2>2. \A s \in Runs : ~Owner(run, s, f)
    BY <1>10 DEF RequeueStalled, Held, Owner, Event
  <2>3. /\ job[f].state = "active"
        /\ \/ job' = [job EXCEPT ![f].state = "waiting", ![f].stalls = 1]
           \/ job' = [job EXCEPT ![f].state = "failed"]
    BY <1>10 DEF RequeueStalled
  <2>4. /\ \A g \in Events \ {f} : job'[g] = job[g]
        /\ \/ job'[f].state = "failed"
           \/ job'[f].state = "waiting" /\ job'[f].made = job[f].made /\ job'[f].data = job[f].data
    BY <1>0, <2>3 DEF Job
  <2> QED BY <2>1, <2>2, <2>3, <2>4, QueueCosts
<1>11. ASSUME NEW f \in Events, EvictJob(f) PROVE Costs(e, p)
  <2>1. run' = run /\ sent' = sent /\ expired' = expired /\ faults' = faults + 1 /\ faults' >= faults
    BY <1>0, <1>11 DEF EvictJob, Fails
  <2>2. \A s \in Runs : ~Owner(run, s, f)
    BY <1>11 DEF EvictJob, Owner, CostState, OneOwnerPerJob, Event
  <2>3. job' = [job EXCEPT ![f] = NoJob]
    BY <1>11 DEF EvictJob
  <2>4. (\A g \in Events \ {f} : job'[g] = job[g]) /\ job'[f].state = "absent"
    BY <1>0, <2>3 DEF NoJob
  <2> QED BY <2>1, <2>2, <2>4, QueueCosts
<1> QED BY <1>1, <1>2, <1>3, <1>4, <1>5, <1>6, <1>7, <1>8, <1>9, <1>10, <1>11 DEF MailNext

\* What the dispatchers do to the queue: at most, a job is added where there is none.
LEMMA DispatchJobs ==
    ASSUME TypeOK, DispatchNext
    PROVE  \/ job' = job
           \/ \E d \in Dispatchers, f \in Events :
                 /\ expired' = expired
                 /\ task[d][f].step = "claimed" /\ job[f].state = "absent"
                 /\ \A g \in Events \ {f} : job'[g] = job[g]
                 /\ job'[f].state = "waiting" /\ job'[f].made = 0
<1>0. job \in [Events -> Job]
  BY DEF TypeOK, StoreTypeOK
<1>1. ASSUME NEW d \in Dispatchers, NEW f \in Events, Dispatch(d, f)
      PROVE  \/ job' = job
             \/ /\ expired' = expired
                /\ task[d][f].step = "claimed" /\ job[f].state = "absent"
                /\ \A g \in Events \ {f} : job'[g] = job[g]
                /\ job'[f].state = "waiting" /\ job'[f].made = 0
  <2>1. task[d][f].step = "claimed" /\ expired' = expired
    BY <1>1 DEF Dispatch
  <2>2. CASE addMailJob(f, Batch(task[d][f].snap))
    BY <1>0, <2>1, <2>2 DEF addMailJob, NoJob
  <2>3. CASE UNCHANGED job
    BY <2>3
  <2> QED BY <1>1, <2>2, <2>3 DEF Dispatch
<1>2. ASSUME NEW f \in Events, Register(f) \/ enqueueOutboxDispatch(f) PROVE job' = job
  BY <1>2 DEF Register, enqueueOutboxDispatch
<1>3. ASSUME NEW d \in Dispatchers, NEW f \in Events,
             TakeSignal(d, f) \/ DiscardExpired(d, f) \/ markPoisoned(d, f) \/ Claim(d, f)
             \/ LoseClaim(d, f) \/ RevertDispatch(d, f)
      PROVE  job' = job
  BY <1>3 DEF TakeSignal, DiscardExpired, markPoisoned, Claim, LoseClaim, RevertDispatch, storeVars
<1>4. ASSUME NEW d \in Dispatchers, NEW sweep \in Sweep, StartSweep(d, sweep) PROVE job' = job
  BY <1>4 DEF StartSweep, storeVars
<1>5. ASSUME NEW d \in Dispatchers, CrashDispatcher(d) PROVE job' = job
  BY <1>5 DEF CrashDispatcher
<1>6. ASSUME NEW sweep \in Sweep, LockExpires(sweep) PROVE job' = job
  BY <1>6 DEF LockExpires, storeVars
<1> QED BY <1>1, <1>2, <1>3, <1>4, <1>5, <1>6 DEF DispatchNext

\* Outside of the mail worker only a dispatch touches the queue.
LEMMA OtherSteps ==
    ASSUME TypeOK, [Next]_vars, ~(MailNext /\ UNCHANGED <<dispatchVars, upkeepVars>>)
    PROVE  /\ run' = run /\ sent' = sent
           /\ job' = job \/ DispatchNext
  BY DEF Next, UpkeepNext, deleteExpired, deleteOlderThan, SelectFailed, DeleteSelected, retryFailedOutboxEvent,
         Time, Expire, Overstay, storeVars, mailVars, vars

\* Every step is paid for.
LEMMA StepCosts ==
    ASSUME CostState, IdleRuns, AtLeastOnce, UnbornUntouched, TypeOK', AttemptsLeft', [Next]_vars,
           NEW e \in Events, NEW p \in Recipients
    PROVE  Costs(e, p)
<1>1. CASE MailNext /\ UNCHANGED <<dispatchVars, upkeepVars>>
  BY <1>1, MailCosts
<1>2. CASE ~(MailNext /\ UNCHANGED <<dispatchVars, upkeepVars>>)
  <2>1. /\ run' = run /\ sent' = sent
        /\ job' = job \/ DispatchNext
    BY <1>2, OtherSteps DEF CostState
  <2>2. faults' >= faults /\ (expired[e] => expired'[e])
    BY FaultsOnlyGrow, ExpiryIsFinal DEF CostState
  <2>3. sent[e][p] \in Nat /\ Tries(e) \in Nat
    BY CostTypes DEF CostState
  <2>4. CASE job' = job
    BY <2>1, <2>2, <2>3, <2>4, Elsewhere
  <2>5. CASE DispatchNext /\ job' # job
    <3>1. PICK f \in Events :
                 /\ expired' = expired
                 /\ job[f].state = "absent"
                 /\ \A g \in Events \ {f} : job'[g] = job[g]
                 /\ job'[f].state = "waiting" /\ job'[f].made = 0
      BY <2>5, DispatchJobs DEF CostState
    <3>2. \A s \in Runs : ~Owner(run, s, f)
      BY <3>1 DEF Owner, CostState, OneOwnerPerJob, Event
    <3> QED BY <2>1, <2>2, <3>1, <3>2, QueueCosts
  <2> QED BY <2>1, <2>4, <2>5
<1> QED BY <1>1, <1>2

\* A job that waits or runs has an attempt left.
LEMMA AttemptsStep ==
    ASSUME CostState, IdleRuns, [Next]_vars
    PROVE  AttemptsLeft' /\ IdleRuns'
<1>0. /\ job \in [Events -> Job] /\ run \in [Runs -> Run] /\ JobAttempts \in Nat \ {0}
      /\ \A e \in Events : job[e].state \in {"waiting", "active"} => job[e].made < JobAttempts
  BY StoreAssumption DEF CostState, TypeOK, StoreTypeOK, MailTypeOK, AttemptsLeft
<1>1. CASE ~(MailNext /\ UNCHANGED <<dispatchVars, upkeepVars>>)
  <2>1. /\ run' = run
        /\ job' = job \/ DispatchNext
    BY <1>1, OtherSteps DEF CostState
  <2>2. IdleRuns'
    BY <2>1 DEF IdleRuns, IdleRun
  <2>3. CASE job' = job
    BY <2>2, <2>3 DEF AttemptsLeft, CostState
  <2>4. CASE DispatchNext /\ job' # job
    <3>1. PICK f \in Events :
                 /\ job[f].state = "absent"
                 /\ \A g \in Events \ {f} : job'[g] = job[g]
                 /\ job'[f].state = "waiting" /\ job'[f].made = 0
      BY <2>4, DispatchJobs DEF CostState
    <3>2. ASSUME NEW e \in Events, job'[e].state \in {"waiting", "active"} PROVE job'[e].made < JobAttempts
      BY <1>0, <3>1, <3>2
    <3> QED BY <2>2, <3>2 DEF AttemptsLeft
  <2> QED BY <2>1, <2>3, <2>4
<1>2. ASSUME NEW r \in Runs, RunAction(r) PROVE AttemptsLeft' /\ IdleRuns'
  <2>1. /\ Moves(r)
        /\ job'[run[r].event].state \in {"waiting", "active"} => job'[run[r].event].made < JobAttempts
    BY <1>2, RunMoves
  <2>2. ASSUME NEW e \in Events, job'[e].state \in {"waiting", "active"} PROVE job'[e].made < JobAttempts
    BY <1>0, <2>1, <2>2 DEF Moves
  <2>3. ASSUME NEW s \in Runs, run'[s].step = "idle" PROVE run'[s] = IdleRun
    BY <2>1, <2>3 DEF Moves, IdleRuns
  <2> QED BY <2>2, <2>3 DEF AttemptsLeft, IdleRuns, IdleRun
<1>3. ASSUME NEW r \in Runs, NEW f \in Events, Start(r, f) PROVE AttemptsLeft' /\ IdleRuns'
  <2>1. /\ job[f].state = "waiting" /\ job' = [job EXCEPT ![f].state = "active"]
        /\ run' = [run EXCEPT ![r] = [step |-> "gate", event |-> f, data |-> job[f].data,
                                      locked |-> TRUE, fatal |-> FALSE]]
    BY <1>3 DEF Start
  <2>2. job'[f].made = job[f].made /\ \A g \in Events \ {f} : job'[g] = job[g]
    BY <1>0, <2>1 DEF Job
  <2>3. run'[r].step = "gate" /\ \A s \in Runs \ {r} : run'[s] = run[s]
    BY <1>0, <2>1
  <2>4. ASSUME NEW e \in Events, job'[e].state \in {"waiting", "active"} PROVE job'[e].made < JobAttempts
    BY <1>0, <2>1, <2>2, <2>4
  <2>5. ASSUME NEW s \in Runs, run'[s].step = "idle" PROVE run'[s] = IdleRun
    BY <2>3, <2>5 DEF IdleRuns
  <2> QED BY <2>4, <2>5 DEF AttemptsLeft, IdleRuns, IdleRun
<1>4. ASSUME NEW f \in Events, revertForRedispatch(f) \/ RequeueStalled(f) \/ KeyExpires(f) \/ EvictJob(f)
      PROVE  AttemptsLeft' /\ IdleRuns'
  <2>1. run' = run
    BY <1>4 DEF revertForRedispatch, RequeueStalled, KeyExpires, EvictJob
  <2>2. \/ job' = job
        \/ job[f].state = "active" /\ job' = [job EXCEPT ![f].state = "waiting", ![f].stalls = 1]
        \/ job' = [job EXCEPT ![f].state = "failed"]
        \/ job' = [job EXCEPT ![f] = NoJob]
    BY <1>4 DEF revertForRedispatch, RequeueStalled, KeyExpires, EvictJob
  <2>3. /\ \A g \in Events \ {f} : job'[g] = job[g]
        /\ \/ job'[f] = job[f]
           \/ job[f].state = "active" /\ job'[f].made = job[f].made
           \/ job'[f].state \in {"failed", "absent"}
    <3>1. CASE job[f].state = "active" /\ job' = [job EXCEPT ![f].state = "waiting", ![f].stalls = 1]
      BY <1>0, <3>1 DEF Job
    <3>2. CASE job' = [job EXCEPT ![f].state = "failed"]
      BY <1>0, <3>2 DEF Job
    <3>3. CASE job' = [job EXCEPT ![f] = NoJob]
      BY <1>0, <3>3 DEF NoJob
    <3> QED BY <2>2, <3>1, <3>2, <3>3
  <2>4. ASSUME NEW e \in Events, job'[e].state \in {"waiting", "active"} PROVE job'[e].made < JobAttempts
    BY <1>0, <2>3, <2>4
  <2> QED BY <2>1, <2>4 DEF AttemptsLeft, IdleRuns, IdleRun
<1> QED BY <1>1, <1>2, <1>3, <1>4 DEF MailNext, RunAction

\* How a step changes the fates.
FateMoves ==
    \/ UNCHANGED fate
    \/ \E es \in SUBSET Events, why \in {"delivered", "expired", "purged"} : delete(es, why)
    \/ \E e \in Events : fate[e] = "unborn" /\ create(e)

\* No event is unborn again, and none that was delivered or purged is remembered.
LEMMA FatesAreFinal ==
    ASSUME TypeOK, OpenIsStored, FateMoves, NEW e \in Events
    PROVE  /\ fate'[e] = "unborn" => fate[e] = "unborn"
           /\ Forgotten(e) => Forgotten(e)'
<1>0. fate \in [Events -> Fate]
  BY DEF TypeOK, StoreTypeOK
<1>1. CASE UNCHANGED fate
  BY <1>1 DEF Forgotten
<1>2. ASSUME NEW es \in SUBSET Events, NEW why \in {"delivered", "expired", "purged"}, delete(es, why)
      PROVE  fate'[e] = fate[e] \/ (fate[e] = "open" /\ fate'[e] = why)
  BY <1>2 DEF delete, OpenIsStored
<1>3. ASSUME NEW f \in Events, fate[f] = "unborn", create(f)
      PROVE  fate'[e] = fate[e] \/ (fate[e] = "unborn" /\ fate'[e] = "open")
  BY <1>0, <1>3 DEF create
<1> QED BY <1>1, <1>2, <1>3 DEF FateMoves, Forgotten

\* Every step changes the fates so.
LEMMA FateStep ==
    ASSUME TypeOK, [Next]_vars
    PROVE  FateMoves
<1>1. ASSUME NEW e \in Events, create(e), fate[e] = "unborn" PROVE FateMoves
  BY <1>1 DEF FateMoves
<1>2. ASSUME NEW es \in SUBSET Events, NEW why \in {"delivered", "expired", "purged"}, delete(es, why) PROVE FateMoves
  BY <1>2 DEF FateMoves
<1>3. ASSUME UNCHANGED fate PROVE FateMoves
  BY <1>3 DEF FateMoves
<1>4. ASSUME NEW e \in Events, Register(e) \/ enqueueOutboxDispatch(e) PROVE FateMoves
  BY <1>1, <1>3, <1>4 DEF Register, enqueueOutboxDispatch
<1>5. ASSUME NEW d \in Dispatchers, NEW e \in Events, DiscardExpired(d, e) PROVE FateMoves
  BY <1>2, <1>3, <1>5 DEF DiscardExpired
<1>6. ASSUME NEW d \in Dispatchers, NEW e \in Events,
             TakeSignal(d, e) \/ markPoisoned(d, e) \/ Claim(d, e) \/ LoseClaim(d, e) \/ Dispatch(d, e) \/ RevertDispatch(d, e)
      PROVE  UNCHANGED fate
  BY <1>6 DEF TakeSignal, markPoisoned, Claim, claim, LoseClaim, Dispatch, RevertDispatch, updateStatus, storeVars
<1>7. ASSUME NEW d \in Dispatchers, NEW sweep \in Sweep, StartSweep(d, sweep) PROVE UNCHANGED fate
  BY <1>7 DEF StartSweep, storeVars
<1>8. ASSUME NEW d \in Dispatchers, CrashDispatcher(d) PROVE UNCHANGED fate
  BY <1>8 DEF CrashDispatcher
<1>9. ASSUME NEW sweep \in Sweep, LockExpires(sweep) PROVE UNCHANGED fate
  BY <1>9 DEF LockExpires, storeVars
<1>10. CASE DispatchNext
  BY <1>3, <1>4, <1>5, <1>6, <1>7, <1>8, <1>9, <1>10 DEF DispatchNext
<1>11. ASSUME NEW r \in Runs, DiscardExpiredJob(r) \/ AlreadySent(r) \/ Cleanup(r) PROVE FateMoves
  <2>1. run[r].step # "idle" /\ run[r].event \in Events
    BY <1>11 DEF DiscardExpiredJob, AlreadySent, Cleanup, At, TypeOK, MailTypeOK
  <2>2. {run[r].event} \in SUBSET Events
    BY <2>1
  <2>3. delete({run[r].event}, "expired") \/ delete({run[r].event}, "delivered") \/ UNCHANGED fate
    BY <1>11 DEF DiscardExpiredJob, AlreadySent, Cleanup, Event
  <2> QED BY <1>2, <1>3, <2>2, <2>3
<1>12. ASSUME NEW r \in Runs, AcquireKey(r) \/ GateThrows(r) \/ Send(r) \/ Persist(r) \/ MarkCompleted(r) \/ Release(r)
                              \/ FailJob(r) \/ CrashRun(r) \/ StallRun(r)
       PROVE  UNCHANGED fate
  BY <1>12 DEF AcquireKey, GateThrows, Send, Persist, MarkCompleted, Release, FailJob, CrashRun, StallRun, storeVars
<1>13. ASSUME NEW e \in Events, revertForRedispatch(e) \/ RequeueStalled(e) \/ KeyExpires(e) \/ EvictJob(e)
       PROVE  UNCHANGED fate
  BY <1>13 DEF revertForRedispatch, updateStatus, RequeueStalled, KeyExpires, EvictJob
<1>14. ASSUME NEW r \in Runs, NEW e \in Events, Start(r, e) PROVE UNCHANGED fate
  BY <1>14 DEF Start
<1>15. CASE MailNext
  BY <1>3, <1>11, <1>12, <1>13, <1>14, <1>15 DEF MailNext
<1>16. CASE UpkeepNext
  <2>1. CASE deleteExpired
    <3>1. delete({e \in Events : Exists(e) /\ expired[e]}, "expired")
      BY <2>1 DEF deleteExpired
    <3> QED BY <1>2, <3>1
  <2>2. CASE deleteOlderThan
    <3>1. PICK batch \in SUBSET {e \in Events : Exists(e)} : delete(batch, "purged")
      BY <2>2 DEF deleteOlderThan
    <3>2. batch \in SUBSET Events
      OBVIOUS
    <3> QED BY <1>2, <3>1, <3>2
  <2>3. CASE SelectFailed
    BY <1>3, <2>3 DEF SelectFailed, storeVars
  <2>4. CASE DeleteSelected
    <3>1. doomed \in SUBSET Events
      BY DEF TypeOK, UpkeepTypeOK
    <3> QED BY <1>2, <1>3, <2>4, <3>1 DEF DeleteSelected
  <2>5. ASSUME NEW e \in Events, retryFailedOutboxEvent(e) PROVE FateMoves
    BY <1>3, <2>5 DEF retryFailedOutboxEvent, retryFailed
  <2> QED BY <1>16, <2>1, <2>2, <2>3, <2>4, <2>5 DEF UpkeepNext
<1>17. CASE Time \/ UNCHANGED vars
  BY <1>3, <1>17 DEF Time, Expire, Overstay, vars, storeVars
<1> QED BY <1>10, <1>15, <1>16, <1>17 DEF Next

\* What the dispatchers know of an event that is not registered: nothing.
LEMMA UnbornDispatch ==
    ASSUME TypeOK, OpenIsStored, DispatchNext, NEW e \in Events, fate[e] = "unborn", fate'[e] = "unborn",
           sender[e] = "none", signal[e] = NoRow, \A d \in Dispatchers : task[d][e].step = "none"
    PROVE  sender'[e] = "none" /\ signal'[e] = NoRow /\ \A d \in Dispatchers : task'[d][e].step = "none"
<1>0. /\ sender \in [Events -> {"none", "create", "triage"}] /\ signal \in [Events -> Row]
      /\ task \in [Dispatchers -> [Events -> Task]] /\ fate \in [Events -> Fate] /\ ~Exists(e)
      /\ NoTask.step = "none"
  BY DEF TypeOK, DispatchTypeOK, StoreTypeOK, OpenIsStored, NoTask
<1> DEFINE Known == sender'[e] = "none" /\ signal'[e] = NoRow /\ \A d \in Dispatchers : task'[d][e].step = "none"
<1>1. ASSUME NEW d \in Dispatchers, NEW f \in Events, EndItem(d, f) PROVE Known
  <2>1. sender' = sender
    BY <1>1 DEF EndItem
  <2>2. signal' = signal \/ signal' = [signal EXCEPT ![f] = NoRow]
    BY <1>1 DEF EndItem
  <2>3. signal'[e] = NoRow
    BY <1>0, <2>2
  <2>4. task' = [task EXCEPT ![d][f] = NoTask]
    BY <1>1 DEF EndItem
  <2>5. \A c \in Dispatchers : task'[c][e].step = "none"
    BY <1>0, <2>4
  <2> QED BY <2>1, <2>3, <2>5
<1>2. ASSUME NEW d \in Dispatchers, NEW f \in Events \ {e}, NEW t, task' = [task EXCEPT ![d][f] = t],
             UNCHANGED <<sender, signal>>
      PROVE  Known
  BY <1>0, <1>2
<1>3. ASSUME UNCHANGED <<sender, signal, task>> PROVE Known
  BY <1>3
<1>4. ASSUME NEW f \in Events, Register(f) PROVE Known
  <2>1. f # e
    BY <1>0, <1>4 DEF Register, create
  <2> QED BY <1>0, <1>4, <2>1 DEF Register
<1>5. ASSUME NEW f \in Events, enqueueOutboxDispatch(f) PROVE Known
  <2>1. f # e
    BY <1>5 DEF enqueueOutboxDispatch
  <2> QED BY <1>0, <1>5, <2>1 DEF enqueueOutboxDispatch
<1>6. ASSUME NEW d \in Dispatchers, NEW f \in Events, TakeSignal(d, f) PROVE Known
  <2>1. f # e
    BY <1>6 DEF TakeSignal
  <2>2. task' = [task EXCEPT ![d][f] = [step |-> "held", snap |-> signal[f]]] /\ UNCHANGED <<sender, signal>>
    BY <1>6 DEF TakeSignal
  <2> QED BY <1>2, <2>1, <2>2
<1>7. ASSUME NEW d \in Dispatchers, NEW f \in Events,
             DiscardExpired(d, f) \/ markPoisoned(d, f) \/ LoseClaim(d, f) \/ RevertDispatch(d, f)
      PROVE  Known
  BY <1>1, <1>7 DEF DiscardExpired, markPoisoned, LoseClaim, RevertDispatch
<1>8. ASSUME NEW d \in Dispatchers, NEW f \in Events, Claim(d, f) PROVE Known
  <2>1. f # e
    BY <1>8 DEF Claim, MayClaim, Next1
  <2>2. f \in Events \ {e} /\ UNCHANGED <<sender, signal>> /\ task' = [task EXCEPT ![d][f].step = "claimed"]
    BY <1>8, <2>1 DEF Claim
  <2> QED BY <1>0, <2>2
<1>9. ASSUME NEW d \in Dispatchers, NEW f \in Events, Dispatch(d, f) PROVE Known
  <2>1. f \in Events \ {e}
    BY <1>9 DEF Dispatch
  <2>2. CASE EndItem(d, f)
    BY <1>1, <2>2
  <2>3. CASE task' = [task EXCEPT ![d][f].step = "reverting"] /\ UNCHANGED <<sender, signal, mode, lock>>
    BY <1>0, <2>1, <2>3
  <2> QED BY <1>9, <2>2, <2>3 DEF Dispatch
<1>10. ASSUME NEW d \in Dispatchers, NEW sweep \in Sweep, StartSweep(d, sweep) PROVE Known
  <2>1. e \notin Due(sweep)
    BY <1>0 DEF Due, Exists
  <2>2. UNCHANGED <<sender, signal>>
    BY <1>10 DEF StartSweep
  <2>3. task' = [task EXCEPT ![d] = [f \in Events |-> IF f \in Due(sweep)
                                                      THEN [step |-> "held", snap |-> row[f]] ELSE NoTask]]
    BY <1>10 DEF StartSweep
  <2>4. \A c \in Dispatchers : task'[c][e].step = "none"
    BY <1>0, <2>1, <2>3
  <2> QED BY <2>2, <2>4
<1>11. ASSUME NEW d \in Dispatchers, CrashDispatcher(d) PROVE Known
  <2>1. sender' = sender /\ task' = [task EXCEPT ![d] = [f \in Events |-> NoTask]]
    BY <1>11 DEF CrashDispatcher
  <2>2. signal' = signal \/ signal' = [f \in Events |-> IF InHand(d, f) THEN NoRow ELSE signal[f]]
    BY <1>11 DEF CrashDispatcher
  <2>3. signal'[e] = NoRow
    BY <2>2
  <2>4. \A c \in Dispatchers : task'[c][e].step = "none"
    BY <1>0, <2>1
  <2> QED BY <2>1, <2>3, <2>4
<1>12. ASSUME NEW sweep \in Sweep, LockExpires(sweep) PROVE Known
  BY <1>3, <1>12 DEF LockExpires
<1> QED BY <1>4, <1>5, <1>6, <1>7, <1>8, <1>9, <1>10, <1>11, <1>12 DEF DispatchNext

\* Nothing happens to an event that is not registered.
LEMMA UnbornStep ==
    ASSUME CostState, AtLeastOnce, UnbornUntouched, [Next]_vars
    PROVE  UnbornUntouched'
<1> SUFFICES ASSUME NEW e \in Events, fate'[e] = "unborn"
             PROVE  /\ sender'[e] = "none" /\ signal'[e] = NoRow /\ job'[e].state = "absent"
                    /\ \A d \in Dispatchers : task'[d][e].step = "none"
                    /\ \A r \in Runs : run'[r].event # e
                    /\ \A p \in Recipients : sent'[e][p] = 0
  BY DEF UnbornUntouched
<1>0. /\ fate[e] = "unborn" /\ ~Exists(e) /\ job \in [Events -> Job] /\ run \in [Runs -> Run] /\ TypeOK /\ OpenIsStored
      /\ sender \in [Events -> {"none", "create", "triage"}]
  <2>1. TypeOK /\ OpenIsStored
    BY DEF CostState, AtLeastOnce
  <2>2. fate[e] = "unborn"
    BY <2>1, FateStep, FatesAreFinal
  <2> QED BY <2>1, <2>2 DEF OpenIsStored, TypeOK, StoreTypeOK, MailTypeOK, DispatchTypeOK
<1>1. /\ sender[e] = "none" /\ signal[e] = NoRow /\ job[e].state = "absent"
      /\ \A d \in Dispatchers : task[d][e].step = "none"
      /\ \A r \in Runs : run[r].event # e
      /\ \A p \in Recipients : sent[e][p] = 0
  BY <1>0 DEF UnbornUntouched
<1>2. CASE MailNext /\ UNCHANGED <<dispatchVars, upkeepVars>>
  <2>1. UNCHANGED <<sender, signal, task>>
    BY <1>2 DEF dispatchVars
  <2>2. ASSUME NEW r \in Runs, RunAction(r)
        PROVE  job'[e] = job[e] /\ sent'[e] = sent[e] /\ \A s \in Runs : run'[s].event # e
    <3>1. Moves(r)
      BY <2>2, RunMoves
    <3>2. IdleRun.event # e
      BY NoEventAssumption DEF IdleRun
    <3> QED BY <1>1, <3>1, <3>2 DEF Moves
  <2>3. ASSUME NEW r \in Runs, NEW f \in Events, Start(r, f)
        PROVE  job'[e] = job[e] /\ sent'[e] = sent[e] /\ \A s \in Runs : run'[s].event # e
    <3>1. /\ job[f].state = "waiting" /\ job' = [job EXCEPT ![f].state = "active"] /\ sent' = sent
          /\ run' = [run EXCEPT ![r] = [step |-> "gate", event |-> f, data |-> job[f].data,
                                        locked |-> TRUE, fatal |-> FALSE]]
      BY <2>3 DEF Start
    <3>2. f # e
      BY <1>1, <3>1
    <3> QED BY <1>0, <1>1, <3>1, <3>2
  <2>4. ASSUME NEW f \in Events, revertForRedispatch(f) \/ RequeueStalled(f) \/ KeyExpires(f) \/ EvictJob(f)
        PROVE  job'[e] = job[e] /\ sent'[e] = sent[e] /\ \A s \in Runs : run'[s].event # e
    <3>1. run' = run /\ sent' = sent
      BY <2>4 DEF revertForRedispatch, RequeueStalled, KeyExpires, EvictJob
    <3>2. \/ job' = job
          \/ /\ job[f].state # "absent"
             /\ \/ job' = [job EXCEPT ![f].state = "waiting", ![f].stalls = 1]
                \/ job' = [job EXCEPT ![f].state = "failed"]
                \/ job' = [job EXCEPT ![f] = NoJob]
      BY <2>4 DEF revertForRedispatch, RequeueStalled, KeyExpires, EvictJob
    <3>3. job'[e] = job[e]
      BY <1>0, <1>1, <3>2
    <3> QED BY <1>1, <3>1, <3>3
  <2>5. job'[e] = job[e] /\ sent'[e] = sent[e] /\ \A s \in Runs : run'[s].event # e
    BY <1>2, <2>2, <2>3, <2>4 DEF MailNext, RunAction
  <2> QED BY <1>1, <2>1, <2>5
<1>3. CASE ~(MailNext /\ UNCHANGED <<dispatchVars, upkeepVars>>)
  <2>1. run' = run /\ sent' = sent /\ (job' = job \/ DispatchNext)
    BY <1>0, <1>3, OtherSteps
  <2>2. CASE DispatchNext
    <3>1. sender'[e] = "none" /\ signal'[e] = NoRow /\ \A d \in Dispatchers : task'[d][e].step = "none"
      BY <1>0, <1>1, <2>2, UnbornDispatch
    <3>2. job'[e] = job[e]
      BY <1>0, <1>1, <2>2, DispatchJobs
    <3> QED BY <1>1, <2>1, <3>1, <3>2
  <2>3. CASE ~DispatchNext
    <3>1. signal' = signal /\ task' = task
      BY <1>3, <2>3 DEF Next, UpkeepNext, deleteExpired, deleteOlderThan, SelectFailed, DeleteSelected,
                        retryFailedOutboxEvent, Time, Expire, Overstay, dispatchVars, vars
    <3>2. sender'[e] = "none"
      <4>1. ASSUME NEW f \in Events, retryFailedOutboxEvent(f) PROVE sender'[e] = "none"
        <5>1. f # e /\ sender' = [sender EXCEPT ![f] = "triage"]
          BY <1>0, <4>1 DEF retryFailedOutboxEvent, retryFailed, Exists
        <5> QED BY <1>0, <1>1, <5>1
      <4>2. CASE sender' = sender
        BY <1>1, <4>2
      <4> QED BY <1>3, <2>3, <4>1, <4>2
                 DEF Next, UpkeepNext, deleteExpired, deleteOlderThan, SelectFailed, DeleteSelected,
                     Time, Expire, Overstay, dispatchVars, vars
    <3> QED BY <1>1, <2>1, <2>3, <3>1, <3>2
  <2> QED BY <2>2, <2>3
<1> QED BY <1>2, <1>3

\* The inductive invariant behind DuplicatesNeedFaults.
PaidInv == AtLeastOnceInv /\ AttemptsLeft /\ IdleRuns /\ UnbornUntouched /\ MessagesArePaid

\* Every step keeps the budgets.
LEMMA PaidStep ==
    ASSUME PaidInv, [Next]_vars
    PROVE  PaidInv'
<1>1. CostState /\ AtLeastOnce /\ IdleRuns /\ UnbornUntouched /\ AtLeastOnceInv' /\ TypeOK /\ TypeOK'
  BY AtLeastOnceStep DEF PaidInv, AtLeastOnceInv, CostState
<1>2. AttemptsLeft' /\ IdleRuns' /\ UnbornUntouched'
  BY <1>1, AttemptsStep, UnbornStep
<1>3. ASSUME NEW e \in Events, NEW p \in Recipients
      PROVE  /\ ~Forgotten(e)' => Within(1, sent[e][p] + Chance(e, p), Loose(e, p, Batching), faults)'
             /\ Within(JobAttempts, sent[e][p] + Tries(e), Loose(e, p, Trying), faults)'
  <2>1. Costs(e, p)
    BY <1>1, <1>2, StepCosts
  <2>2. /\ sent[e][p] \in Nat /\ Chance(e, p) \in {0, 1} /\ Tries(e) \in Nat /\ faults \in Nat
        /\ JobAttempts \in Nat \ {0}
    BY <1>1, CostTypes, StoreAssumption DEF CostState
  <2>3. sent'[e][p] \in Nat /\ Chance(e, p)' \in {0, 1} /\ Tries(e)' \in Nat /\ faults' \in Nat
    BY <1>1, <1>2, CostTypesNext
  <2>4. Forgotten(e) => Forgotten(e)'
    BY <1>1, FateStep, FatesAreFinal DEF AtLeastOnce
  <2>5. /\ ~Forgotten(e) => Within(1, sent[e][p] + Chance(e, p), Loose(e, p, Batching), faults)
        /\ Within(JobAttempts, sent[e][p] + Tries(e), Loose(e, p, Trying), faults)
    BY DEF PaidInv, MessagesArePaid
  <2>6. ASSUME ~Forgotten(e)'
        PROVE  Within(1, sent'[e][p] + Chance(e, p)', Loose(e, p, Batching)', faults')
    <3> DEFINE k == sent[e][p] + Chance(e, p)
               l == sent'[e][p] + Chance(e, p)'
               S == Loose(e, p, Batching)
               T == Loose(e, p, Batching)'
    <3>1. k \in Nat /\ l \in Nat /\ 1 \in Nat \ {0}
      BY <2>2, <2>3
    <3>2. Within(1, k, S, faults) /\ Pays(1, k, l, S, T, faults, faults')
      BY <2>1, <2>4, <2>5, <2>6 DEF Costs
    <3>3. Within(1, l, T, faults')
      <4> HIDE DEF k, l, S, T
      <4> QED BY <2>2, <2>3, <3>1, <3>2, Paying
    <3> QED BY <3>3
  <2>7. Within(JobAttempts, sent'[e][p] + Tries(e)', Loose(e, p, Trying)', faults')
    <3> DEFINE k == sent[e][p] + Tries(e)
               l == sent'[e][p] + Tries(e)'
               S == Loose(e, p, Trying)
               T == Loose(e, p, Trying)'
    <3>1. k \in Nat /\ l \in Nat
      BY <2>2, <2>3
    <3>2. Within(JobAttempts, k, S, faults) /\ Pays(JobAttempts, k, l, S, T, faults, faults')
      BY <2>1, <2>5 DEF Costs
    <3>3. Within(JobAttempts, l, T, faults')
      <4> HIDE DEF k, l, S, T
      <4> QED BY <2>2, <2>3, <3>1, <3>2, Paying
    <3> QED BY <3>3
  <2> QED BY <2>6, <2>7 DEF Within
<1>4. MessagesArePaid'
  BY <1>3 DEF MessagesArePaid
<1> QED BY <1>1, <1>2, <1>4 DEF PaidInv

\* At the start every message is within them.
LEMMA PaidInit ==
    ASSUME Init
    PROVE  PaidInv
<1>1. AtLeastOnceInv
  BY InitHolds
<1>2. AttemptsLeft /\ IdleRuns /\ UnbornUntouched
  BY NoEventAssumption
     DEF Init, StoreInit, DispatchInit, MailInit, AttemptsLeft, IdleRuns, IdleRun, UnbornUntouched, NoJob, NoTask
<1>3. ASSUME NEW e \in Events, NEW p \in Recipients
      PROVE  /\ ~Forgotten(e) => Within(1, sent[e][p] + Chance(e, p), Loose(e, p, Batching), faults)
             /\ Within(JobAttempts, sent[e][p] + Tries(e), Loose(e, p, Trying), faults)
  <2>1. sent[e][p] = 0 /\ faults = 0 /\ job[e].state = "absent"
    BY DEF Init, MailInit, StoreInit, NoJob
  <2>2. Chance(e, p) \in {0, 1} /\ Tries(e) = JobAttempts /\ JobAttempts \in Nat \ {0}
    BY <2>1, StoreAssumption DEF Chance, Tries, TriesLeft
  <2>3. Loose(e, p, Batching) = {} /\ Loose(e, p, Trying) = {}
    BY NoEventAssumption DEF Init, MailInit, IdleRun, Loose
  <2>4. IsFiniteSet({}) /\ Cardinality({}) = 0
    BY FS_EmptySet
  <2> QED BY <2>1, <2>2, <2>3, <2>4 DEF Within
<1> QED BY <1>1, <1>2, <1>3 DEF PaidInv, MessagesArePaid

\* Every message after the first is paid for by a failure: one for one while the row
\* lives and when it expires, a whole job's attempts for one after a delivery or a purge.
THEOREM DuplicatesArePaid == Spec => []DuplicatesNeedFaults
<1>1. Init => PaidInv
  BY PaidInit
<1>2. PaidInv /\ [Next]_vars => PaidInv'
  BY PaidStep
<1>3. PaidInv => DuplicatesNeedFaults
  <2> SUFFICES ASSUME PaidInv, NEW e \in Events, NEW p \in Recipients
               PROVE  sent[e][p] <= (IF fate[e] \in {"delivered", "purged"} THEN JobAttempts ELSE 1) * (1 + faults)
    BY DEF DuplicatesNeedFaults
  <2>1. /\ sent[e][p] \in Nat /\ Chance(e, p) \in {0, 1} /\ Tries(e) \in Nat /\ faults \in Nat
        /\ JobAttempts \in Nat
    BY CostTypes, StoreAssumption DEF PaidInv, AtLeastOnceInv
  <2>2. /\ ~Forgotten(e) => Within(1, sent[e][p] + Chance(e, p), Loose(e, p, Batching), faults)
        /\ Within(JobAttempts, sent[e][p] + Tries(e), Loose(e, p, Trying), faults)
    BY DEF PaidInv, MessagesArePaid
  <2>3. CASE Forgotten(e)
    <3>1. Cardinality(Loose(e, p, Trying)) \in Nat
      BY <2>2, FS_CardinalityType DEF Within
    <3>2. sent[e][p] + Tries(e) + Cardinality(Loose(e, p, Trying)) <= JobAttempts * (1 + faults)
      BY <2>2 DEF Within
    <3>3. JobAttempts * (1 + faults) \in Nat
      BY <2>1
    <3>4. sent[e][p] <= JobAttempts * (1 + faults)
      BY <2>1, <3>1, <3>2, <3>3
    <3> QED BY <2>3, <3>4 DEF Forgotten
  <2>4. CASE ~Forgotten(e)
    <3>1. Cardinality(Loose(e, p, Batching)) \in Nat
      BY <2>2, <2>4, FS_CardinalityType DEF Within
    <3>2. sent[e][p] + Chance(e, p) + Cardinality(Loose(e, p, Batching)) <= 1 * (1 + faults)
      BY <2>2, <2>4 DEF Within
    <3>3. sent[e][p] <= 1 * (1 + faults)
      BY <2>1, <3>1, <3>2
    <3> QED BY <2>4, <3>3 DEF Forgotten
  <2> QED BY <2>3, <2>4
<1> QED BY <1>1, <1>2, <1>3, PTL DEF Spec
================================================================================
