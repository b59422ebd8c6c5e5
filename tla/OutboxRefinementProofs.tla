------------------------ MODULE OutboxRefinementProofs ------------------------
(***************************************************************************)
(* The pipeline implements OutboxContract, for any number of events,       *)
(* recipients, dispatchers and runs: what the code that registers an event *)
(* may rely on.                                                            *)
(*                                                                         *)
(* The argument: AtLeastOnceInv gives every deletion of a row its reason,  *)
(* so a deletion is a Close of the events whose rows it found; AllBorn     *)
(* says that nothing is carried for an event that was never registered,    *)
(* so a batch the server accepts is a Serve; every other step but Register *)
(* and Expire changes nothing the contract speaks of.                      *)
(*                                                                         *)
(* Then what a dispatcher's snapshot is worth while no operator retries    *)
(* failed rows: ClaimInv says how old it may be, so a claim is exclusive;  *)
(* WithinBudget counts the snapshots that may still raise the attempts.    *)
(***************************************************************************)
EXTENDS OutboxProofs, FiniteSetTheorems

Born(e) == fate[e] # "unborn"

\* Whatever the pipeline carries, it carries for a registered event.
BornSignals ==
    \A e \in Events : sender[e] # "none" \/ signal[e] # NoRow \/ job[e].state # "absent" => Born(e)
BornTasks == \A d \in Dispatchers, e \in Events : InHand(d, e) => Born(e)
BornRuns == \A r \in Runs : ~At(r, "idle") => Born(Event(r))

AllBorn == BornSignals /\ BornTasks /\ BornRuns

RefinementInv == AtLeastOnceInv /\ AllBorn

ContractStep == Contract!Next \/ UNCHANGED Contract!vars

-----------------------------------------------------------------------------
(* Steps seen through the mapping *)

\* Who is owed what changes only with the messages the server accepts.
LEMMA StutterStep ==
    ASSUME UNCHANGED <<sent, fate, expired>>
    PROVE  ContractStep
BY DEF ContractStep, Contract!vars, Owed

\* Operations that touch rows but neither create nor delete one.
LEMMA KeepsFate ==
    ASSUME NEW e \in Events
    PROVE  /\ claim(e) => UNCHANGED fate
           /\ retryFailed(e) => UNCHANGED fate
           /\ \A s \in Status : updateStatus(e, s) => UNCHANGED fate
BY DEF claim, retryFailed, updateStatus

\* A deletion with its reason is a Close.
LEMMA DeleteCloses ==
    ASSUME TypeOK, OpenIsStored, NEW es \in SUBSET Events,
           NEW why \in {"delivered", "expired", "purged"}, delete(es, why),
           why = "delivered" => \A e \in es : Owed(e) = {},
           why = "expired" => \A e \in es : Exists(e) => expired[e],
           UNCHANGED <<sent, expired>>
    PROVE  ContractStep
<1> DEFINE closed == {e \in es : Exists(e)}
<1>1. fate \in [Events -> Fate]
  BY DEF TypeOK, StoreTypeOK
<1>2. \A e \in closed : fate[e] = "open"
  BY DEF OpenIsStored
<1>3. \A e \in closed : Contract!MayClose(e, why)
  BY <1>2 DEF Contract!MayClose
<1>4. fate' = [e \in Events |-> IF e \in closed THEN why ELSE fate[e]]
  BY <1>1 DEF delete
<1>5. UNCHANGED [e \in Events |-> Owed(e)]
  BY DEF Owed
<1> HIDE DEF closed
<1>6. Contract!Close(closed, why)
  BY <1>3, <1>4, <1>5 DEF Contract!Close
<1>7. closed \in SUBSET Events
  BY DEF closed
<1> QED BY <1>6, <1>7 DEF ContractStep, Contract!Next

\* The dispatchers register events and drop expired ones.
LEMMA DispatchRefines ==
    ASSUME RefinementInv, DispatchNext, UNCHANGED <<mailVars, upkeepVars>>
    PROVE  ContractStep
<1>0. TypeOK /\ OpenIsStored /\ UNCHANGED sent
  BY DEF RefinementInv, AtLeastOnceInv, AtLeastOnce, mailVars
<1>1. ASSUME NEW e \in Events, Register(e) PROVE ContractStep
  <2>1. UNCHANGED [f \in Events |-> Owed(f)]
    BY <1>0 DEF Owed
  <2>2. Contract!Register(e)
    BY <1>1, <2>1 DEF Register, create, Contract!Register
  <2> QED BY <2>2 DEF ContractStep, Contract!Next
<1>2. ASSUME NEW e \in Events, enqueueOutboxDispatch(e) PROVE ContractStep
  BY <1>0, <1>2, StutterStep DEF enqueueOutboxDispatch
<1>3. ASSUME NEW d \in Dispatchers, NEW e \in Events, TakeSignal(d, e) PROVE ContractStep
  BY <1>0, <1>3, StutterStep DEF TakeSignal, storeVars
<1>4. ASSUME NEW d \in Dispatchers, NEW e \in Events, DiscardExpired(d, e) PROVE ContractStep
  <2>1. UNCHANGED expired /\ expired[e]
    BY <1>4 DEF DiscardExpired
  <2>2. delete({e}, "expired") => ContractStep
    BY <1>0, <2>1, DeleteCloses
  <2> QED BY <1>0, <1>4, <2>1, <2>2, StutterStep DEF DiscardExpired
<1>5. ASSUME NEW d \in Dispatchers, NEW e \in Events, markPoisoned(d, e) PROVE ContractStep
  BY <1>0, <1>5, StutterStep, KeepsFate DEF markPoisoned, Status
<1>6. ASSUME NEW d \in Dispatchers, NEW e \in Events, Claim(d, e) PROVE ContractStep
  BY <1>0, <1>6, StutterStep, KeepsFate DEF Claim
<1>7. ASSUME NEW d \in Dispatchers, NEW e \in Events, LoseClaim(d, e) \/ Dispatch(d, e)
      PROVE  ContractStep
  BY <1>0, <1>7, StutterStep DEF LoseClaim, Dispatch
<1>8. ASSUME NEW d \in Dispatchers, NEW e \in Events, RevertDispatch(d, e) PROVE ContractStep
  BY <1>0, <1>8, StutterStep, KeepsFate DEF RevertDispatch, Status
<1>9. ASSUME NEW d \in Dispatchers, NEW sweep \in Sweep, StartSweep(d, sweep) PROVE ContractStep
  BY <1>0, <1>9, StutterStep DEF StartSweep, storeVars
<1>10. ASSUME NEW d \in Dispatchers, CrashDispatcher(d) PROVE ContractStep
  BY <1>0, <1>10, StutterStep DEF CrashDispatcher
<1>11. ASSUME NEW sweep \in Sweep, LockExpires(sweep) PROVE ContractStep
  BY <1>0, <1>11, StutterStep DEF LockExpires, storeVars
<1> QED
  BY <1>1, <1>2, <1>3, <1>4, <1>5, <1>6, <1>7, <1>8, <1>9, <1>10, <1>11 DEF DispatchNext

\* The mail worker serves recipients and closes events.
LEMMA MailRefines ==
    ASSUME RefinementInv, MailNext
    PROVE  ContractStep
<1>0. TypeOK /\ OpenIsStored /\ OwedInRun /\ FinishedIsServed
  BY DEF RefinementInv, AtLeastOnceInv, AtLeastOnce, NobodyForgotten
<1>1. sent \in [Events -> [Recipients -> Nat]]
  BY <1>0 DEF TypeOK, MailTypeOK
<1>2. ASSUME NEW r \in Runs, ~At(r, "idle") PROVE Event(r) \in Events
  BY <1>0, <1>2 DEF TypeOK, MailTypeOK, At, Event
<1>3. ASSUME NEW r \in Runs, DiscardExpiredJob(r) PROVE ContractStep
  <2>1. /\ Event(r) \in Events /\ expired[Event(r)]
        /\ delete({Event(r)}, "expired") /\ UNCHANGED <<sent, expired>>
    BY <1>2, <1>3 DEF DiscardExpiredJob, At
  <2> QED BY <1>0, <2>1, DeleteCloses
<1>4. ASSUME NEW r \in Runs, AlreadySent(r) PROVE ContractStep
  <2>1. /\ Event(r) \in Events /\ Owed(Event(r)) = {}
        /\ delete({Event(r)}, "delivered") /\ UNCHANGED <<sent, expired>>
    BY <1>0, <1>2, <1>4 DEF AlreadySent, At, FinishedIsServed
  <2> QED BY <1>0, <2>1, DeleteCloses
<1>5. ASSUME NEW r \in Runs, Cleanup(r) PROVE ContractStep
  <2>1. Event(r) \in Events /\ Owed(Event(r)) = {} /\ UNCHANGED <<sent, expired>>
    BY <1>0, <1>2, <1>5 DEF Cleanup, At, OwedInRun
  <2>2. delete({Event(r)}, "delivered") => ContractStep
    BY <1>0, <2>1, DeleteCloses
  <2> QED BY <1>5, <2>1, <2>2, StutterStep DEF Cleanup
<1>6. ASSUME NEW r \in Runs, Send(r) PROVE ContractStep
  <2>0. PICK e \in Events : e = Event(r)
    BY <1>2, <1>6 DEF Send, At
  <2>1. Born(e) /\ UNCHANGED <<fate, expired>>
    BY <1>6, <2>0 DEF Send, At, RefinementInv, AllBorn, BornRuns, storeVars
  <2> DEFINE Accept(f, some) ==
               [sent EXCEPT ![f] = [p \in Recipients |-> IF p \in some THEN sent[f][p] + 1
                                                                       ELSE sent[f][p]]]
  <2>a. \E accepted \in SUBSET run[r].data : sent' = Accept(Event(r), accepted)
    BY <1>6 DEF Send
  <2>2. PICK accepted \in SUBSET run[r].data : sent' = Accept(e, accepted)
    BY <2>0, <2>a
  <2>3. \A f \in Events : f # e => Owed(f)' = Owed(f)
    BY <1>1, <2>2 DEF Owed
  <2>4. Owed(e)' = Owed(e) \ (accepted \cap Recipients)
    <3>1. \A p \in Recipients : sent'[e][p] = IF p \in accepted THEN sent[e][p] + 1 ELSE sent[e][p]
      BY <1>1, <2>1, <2>2
    <3>2. \A p \in Recipients : sent[e][p] \in Nat
      BY <1>1, <2>1
    <3>3. \A p \in Recipients : sent'[e][p] = 0 <=> sent[e][p] = 0 /\ p \notin accepted
      BY <3>1, <3>2
    <3> QED BY <3>3 DEF Owed
  <2>5. [f \in Events |-> Owed(f)]'
          = [[f \in Events |-> Owed(f)] EXCEPT ![e] = @ \ (accepted \cap Recipients)]
    BY <2>1, <2>3, <2>4
  <2>6. Contract!Serve(e, accepted \cap Recipients)
    BY <2>1, <2>5 DEF Contract!Serve, Born
  <2> QED BY <2>1, <2>6 DEF ContractStep, Contract!Next
<1>7. ASSUME NEW r \in Runs,
             AcquireKey(r) \/ GateThrows(r) \/ Persist(r) \/ MarkCompleted(r) \/ Release(r)
      PROVE  ContractStep
  BY <1>7, StutterStep DEF AcquireKey, GateThrows, Persist, MarkCompleted, Release, storeVars
<1>8. ASSUME NEW r \in Runs, FailJob(r) \/ CrashRun(r) \/ StallRun(r) PROVE ContractStep
  BY <1>8, StutterStep DEF FailJob, CrashRun, StallRun
<1>9. ASSUME NEW r \in Runs, NEW e \in Events, Start(r, e) PROVE ContractStep
  BY <1>9, StutterStep DEF Start
<1>10. ASSUME NEW e \in Events, revertForRedispatch(e) PROVE ContractStep
  BY <1>10, StutterStep, KeepsFate DEF revertForRedispatch, Status
<1>11. ASSUME NEW e \in Events, RequeueStalled(e) \/ KeyExpires(e) \/ EvictJob(e) PROVE ContractStep
  BY <1>11, StutterStep DEF RequeueStalled, KeyExpires, EvictJob
<1> QED
  BY <1>3, <1>4, <1>5, <1>6, <1>7, <1>8, <1>9, <1>10, <1>11 DEF MailNext

\* The sweeps close events, for their age or because they expired.
LEMMA UpkeepRefines ==
    ASSUME RefinementInv, UpkeepNext, UNCHANGED mailVars
    PROVE  ContractStep
<1>0. TypeOK /\ OpenIsStored /\ UNCHANGED sent /\ doomed \subseteq Events
  BY DEF RefinementInv, AtLeastOnceInv, AtLeastOnce, mailVars, TypeOK, UpkeepTypeOK
<1>1. CASE deleteExpired
  BY <1>0, <1>1, DeleteCloses DEF deleteExpired
<1>2. CASE deleteOlderThan
  BY <1>0, <1>2, DeleteCloses DEF deleteOlderThan
<1>3. CASE SelectFailed
  BY <1>0, <1>3, StutterStep DEF SelectFailed, storeVars
<1>4. CASE DeleteSelected
  BY <1>0, <1>4, DeleteCloses, StutterStep DEF DeleteSelected
<1>5. ASSUME NEW e \in Events, retryFailedOutboxEvent(e) PROVE ContractStep
  BY <1>0, <1>5, StutterStep, KeepsFate DEF retryFailedOutboxEvent
<1> QED BY <1>1, <1>2, <1>3, <1>4, <1>5 DEF UpkeepNext

\* Time expires events.
LEMMA TimeRefines ==
    ASSUME RefinementInv, Time
    PROVE  ContractStep
<1>1. ASSUME NEW e \in Events, Expire(e) PROVE ContractStep
  <2>1. UNCHANGED <<sent, fate>>
    BY <1>1 DEF Expire, mailVars
  <2>2. UNCHANGED [f \in Events |-> Owed(f)]
    BY <2>1 DEF Owed
  <2>3. Contract!Expire(e)
    BY <1>1, <2>1, <2>2 DEF Expire, Contract!Expire
  <2> QED BY <2>3 DEF ContractStep, Contract!Next
<1>2. ASSUME NEW e \in Events, Overstay(e) PROVE ContractStep
  BY <1>2, StutterStep DEF Overstay, mailVars
<1> QED BY <1>1, <1>2 DEF Time

\* Every step of the pipeline is a step of the contract or none at all.
LEMMA StepRefines ==
    ASSUME RefinementInv, [Next]_vars
    PROVE  ContractStep
<1>1. CASE UNCHANGED vars
  BY <1>1, StutterStep DEF vars, storeVars, mailVars
<1> QED BY <1>1, DispatchRefines, MailRefines, UpkeepRefines, TimeRefines DEF Next

-----------------------------------------------------------------------------
(* Nothing is carried for an unregistered event *)

\* Once registered, always registered.
LEMMA BornForEver ==
    ASSUME TypeOK, ContractStep
    PROVE  \A e \in Events : Born(e) => Born(e)'
<1>1. fate \in [Events -> Fate]
  BY DEF TypeOK, StoreTypeOK
<1>2. ASSUME NEW e \in Events, Contract!Register(e) PROVE \A f \in Events : Born(f) => Born(f)'
  BY <1>1, <1>2 DEF Contract!Register, Born
<1>3. ASSUME NEW es \in SUBSET Events, NEW why \in {"delivered", "expired", "purged"},
             Contract!Close(es, why)
      PROVE  \A f \in Events : Born(f) => Born(f)'
  BY <1>3 DEF Contract!Close, Born
<1>4. ASSUME UNCHANGED fate PROVE \A f \in Events : Born(f) => Born(f)'
  BY <1>4 DEF Born
<1> QED
  BY <1>2, <1>3, <1>4
     DEF ContractStep, Contract!Next, Contract!Expire, Contract!Serve, Contract!vars

\* What the dispatchers take up comes from a row, a signal or a registration.
LEMMA DispatchBorn ==
    ASSUME RefinementInv, DispatchNext, \A e \in Events : Born(e) => Born(e)'
    PROVE  BornSignals' /\ BornTasks'
<1>0. /\ signal \in [Events -> Row] /\ sender \in [Events -> {"none", "create", "triage"}]
      /\ task \in [Dispatchers -> [Events -> Task]] /\ job \in [Events -> Job]
      /\ fate \in [Events -> Fate]
  BY DEF RefinementInv, AtLeastOnceInv, TypeOK, StoreTypeOK, DispatchTypeOK
<1>1. BornSignals /\ BornTasks
  BY DEF RefinementInv, AllBorn
<1>2. \A e \in Events : Exists(e) => Born(e)
  BY DEF RefinementInv, AtLeastOnceInv, AtLeastOnce, OpenIsStored, Born
<1>3. ASSUME NEW d \in Dispatchers, NEW e \in Events, EndItem(d, e), UNCHANGED job
      PROVE  BornSignals' /\ BornTasks'
  <2>1. \A f \in Events : signal'[f] = signal[f] \/ signal'[f] = NoRow
    BY <1>0, <1>3 DEF EndItem
  <2>2. \A c \in Dispatchers, f \in Events : InHand(c, f)' => InHand(c, f)
    BY <1>0, <1>3 DEF EndItem, InHand, NoTask, Task
  <2> QED BY <1>1, <1>3, <2>1, <2>2 DEF EndItem, BornSignals, BornTasks
<1>4. ASSUME NEW d \in Dispatchers, NEW e \in Events,
             DiscardExpired(d, e) \/ markPoisoned(d, e) \/ LoseClaim(d, e) \/ RevertDispatch(d, e)
      PROVE  BornSignals' /\ BornTasks'
  BY <1>3, <1>4 DEF DiscardExpired, markPoisoned, LoseClaim, RevertDispatch
<1>5. ASSUME NEW e \in Events, Register(e) PROVE BornSignals' /\ BornTasks'
  <2>1. Born(e)'
    BY <1>0, <1>5 DEF Register, create, Born
  <2>2. \A f \in Events : f # e => sender'[f] = sender[f]
    BY <1>0, <1>5 DEF Register
  <2> QED BY <1>1, <1>5, <2>1, <2>2 DEF Register, BornSignals, BornTasks, InHand
<1>6. ASSUME NEW e \in Events, enqueueOutboxDispatch(e) PROVE BornSignals' /\ BornTasks'
  <2>1. Born(e)
    BY <1>1, <1>6 DEF enqueueOutboxDispatch, BornSignals
  <2>2. \A f \in Events : f # e => sender'[f] = sender[f] /\ signal'[f] = signal[f]
    BY <1>0, <1>6 DEF enqueueOutboxDispatch
  <2> QED BY <1>1, <1>6, <2>1, <2>2 DEF enqueueOutboxDispatch, BornSignals, BornTasks, InHand
<1>7. ASSUME NEW d \in Dispatchers, NEW e \in Events, TakeSignal(d, e)
      PROVE  BornSignals' /\ BornTasks'
  <2>1. Born(e)
    BY <1>1, <1>7 DEF TakeSignal, BornSignals
  <2>2. \A c \in Dispatchers, f \in Events : f # e => (InHand(c, f)' => InHand(c, f))
    BY <1>0, <1>7 DEF TakeSignal, InHand
  <2> QED BY <1>1, <1>7, <2>1, <2>2 DEF TakeSignal, BornSignals, BornTasks, storeVars
<1>8. ASSUME NEW d \in Dispatchers, NEW sweep \in Sweep, StartSweep(d, sweep)
      PROVE  BornSignals' /\ BornTasks'
  <2>1. \A e \in Due(sweep) : Born(e)
    BY <1>2 DEF Due, Exists
  <2>2. \A c \in Dispatchers, f \in Events : InHand(c, f)' => InHand(c, f) \/ f \in Due(sweep)
    BY <1>0, <1>8 DEF StartSweep, InHand, NoTask
  <2> QED BY <1>1, <1>8, <2>1, <2>2 DEF StartSweep, BornSignals, BornTasks, storeVars
<1>9. ASSUME NEW d \in Dispatchers, NEW e \in Events, Claim(d, e)
      PROVE  BornSignals' /\ BornTasks'
  <2>1. \A c \in Dispatchers, f \in Events : InHand(c, f)' => InHand(c, f)
    <3>1. task[d][e].step = "held"
      BY <1>9 DEF Claim, MayClaim, Next1
    <3>2. \A c \in Dispatchers, f \in Events :
             task'[c][f].step = task[c][f].step \/ (c = d /\ f = e)
      BY <1>0, <1>9 DEF Claim, Task
    <3> QED BY <3>1, <3>2 DEF InHand
  <2> QED BY <1>1, <1>9, <2>1 DEF Claim, BornSignals, BornTasks
<1>10. ASSUME NEW d \in Dispatchers, NEW e \in Events, Dispatch(d, e)
       PROVE  BornSignals' /\ BornTasks'
  <2>1. InHand(d, e) /\ Born(e)
    BY <1>1, <1>10 DEF Dispatch, InHand, BornTasks
  <2>2. \A f \in Events : f # e => job'[f] = job[f]
    BY <1>0, <1>10 DEF Dispatch, addMailJob
  <2>3. \A f \in Events : signal'[f] = signal[f] \/ signal'[f] = NoRow
    BY <1>0, <1>10 DEF Dispatch, EndItem
  <2>4. UNCHANGED sender
    BY <1>10 DEF Dispatch, EndItem
  <2>5. \A c \in Dispatchers, f \in Events : InHand(c, f)' => InHand(c, f)
    <3>1. \A c \in Dispatchers, f \in Events : task'[c][f] = task[c][f] \/ (c = d /\ f = e)
      BY <1>0, <1>10 DEF Dispatch, EndItem
    <3> QED BY <2>1, <3>1 DEF InHand
  <2> QED BY <1>1, <2>1, <2>2, <2>3, <2>4, <2>5 DEF BornSignals, BornTasks
<1>11. ASSUME NEW d \in Dispatchers, CrashDispatcher(d) PROVE BornSignals' /\ BornTasks'
  <2>1. \A f \in Events : signal'[f] = signal[f] \/ signal'[f] = NoRow
    BY <1>0, <1>11 DEF CrashDispatcher
  <2>2. \A c \in Dispatchers, f \in Events : InHand(c, f)' => InHand(c, f)
    BY <1>0, <1>11 DEF CrashDispatcher, InHand, NoTask
  <2> QED BY <1>1, <1>11, <2>1, <2>2 DEF CrashDispatcher, BornSignals, BornTasks
<1>12. ASSUME NEW sweep \in Sweep, LockExpires(sweep) PROVE BornSignals' /\ BornTasks'
  BY <1>1, <1>12 DEF LockExpires, BornSignals, BornTasks, InHand, storeVars
<1> QED
  BY <1>4, <1>5, <1>6, <1>7, <1>8, <1>9, <1>10, <1>11, <1>12 DEF DispatchNext

\* A step of the mail worker adds no job for an unregistered event, and gives no
\* run another event.
JobsStay == \A e \in Events : job'[e].state # "absent" => job[e].state # "absent" \/ Born(e)
RunsStay == \A r \in Runs : ~At(r, "idle")' => ~At(r, "idle") /\ Event(r)' = Event(r)
OnlySteps(r) == \A s \in Runs : run'[s].event = run[s].event /\ (s # r => run'[s] = run[s])

LEMMA RunStaysWhenItEnds ==
    ASSUME TypeOK, NEW r \in Runs, run' = [run EXCEPT ![r] = IdleRun]
    PROVE  RunsStay
BY DEF TypeOK, MailTypeOK, RunsStay, At, Event, IdleRun

LEMMA RunStaysWhenItSteps ==
    ASSUME NEW r \in Runs, ~At(r, "idle"), OnlySteps(r)
    PROVE  RunsStay
BY DEF OnlySteps, RunsStay, At, Event

LEMMA GotoOnlySteps ==
    ASSUME TypeOK, NEW r \in Runs
    PROVE  \A step : Goto(r, step) => OnlySteps(r)
BY DEF TypeOK, MailTypeOK, Run, Goto, OnlySteps

\* What a run of the mail worker works on comes from a job.
LEMMA MailBorn ==
    ASSUME RefinementInv, MailNext, \A e \in Events : Born(e) => Born(e)',
           UNCHANGED dispatchVars
    PROVE  AllBorn'
<1>0. TypeOK /\ job \in [Events -> Job] /\ run \in [Runs -> Run]
  BY DEF RefinementInv, AtLeastOnceInv, TypeOK, StoreTypeOK, MailTypeOK
<1>1. BornSignals /\ BornTasks /\ BornRuns
  BY DEF RefinementInv, AllBorn
<1>2. BornTasks' /\ UNCHANGED <<sender, signal>>
  BY <1>1 DEF BornTasks, InHand, dispatchVars
<1>3. ASSUME JobsStay, RunsStay PROVE AllBorn'
  <2>1. BornSignals'
    BY <1>1, <1>2, <1>3 DEF BornSignals, JobsStay
  <2>2. \A r \in Runs : ~At(r, "idle") => Event(r) \in Events
    BY <1>0 DEF TypeOK, MailTypeOK, At, Event
  <2>3. ASSUME NEW r \in Runs, ~At(r, "idle")' PROVE Born(Event(r))'
    <3>1. PICK e \in Events : e = Event(r) /\ Born(e) /\ Event(r)' = e
      BY <1>1, <1>3, <2>2, <2>3 DEF BornRuns, RunsStay
    <3> QED BY <3>1 DEF Born
  <2>4. BornRuns'
    BY <2>3 DEF BornRuns
  <2> QED BY <1>2, <2>1, <2>4 DEF AllBorn
<1>4. ASSUME NEW r \in Runs, NEW e \in Events, Start(r, e) PROVE AllBorn'
  <2>1. Born(e)' /\ JobsStay
    BY <1>0, <1>1, <1>4 DEF Start, BornSignals, JobsStay, Job
  <2>2. /\ \A s \in Runs : s # r => run'[s] = run[s]
        /\ run'[r].event = e
        /\ UNCHANGED fate
    BY <1>0, <1>4 DEF Start
  <2>3. ASSUME NEW s \in Runs, ~At(s, "idle")' PROVE Born(Event(s))'
    <3>1. CASE s = r
      BY <2>1, <2>2, <3>1 DEF Born, Event
    <3>2. CASE s # r
      BY <1>1, <2>2, <2>3, <3>2 DEF BornRuns, Born, At, Event
    <3> QED BY <3>1, <3>2
  <2> QED BY <1>1, <1>2, <2>1, <2>3 DEF AllBorn, BornSignals, BornRuns, JobsStay
<1>5. ASSUME UNCHANGED job PROVE JobsStay
  BY <1>5 DEF JobsStay
<1>6. ASSUME NEW r \in Runs, ~At(r, "idle"), Complete(r) PROVE AllBorn'
  <2>1. Born(Event(r))
    BY <1>1, <1>6 DEF BornRuns
  <2>2. JobsStay
    BY <1>0, <1>6, <2>1 DEF Complete, JobsStay, Job
  <2>3. RunsStay
    BY <1>0, <1>6, RunStaysWhenItEnds DEF Complete
  <2> QED BY <1>3, <2>2, <2>3
<1>7. ASSUME NEW r \in Runs, ~At(r, "idle"), UNCHANGED job, OnlySteps(r) PROVE AllBorn'
  BY <1>3, <1>5, <1>7, RunStaysWhenItSteps
<1>8. ASSUME NEW r \in Runs, DiscardExpiredJob(r) \/ AlreadySent(r) PROVE AllBorn'
  <2>1. ~At(r, "idle") /\ Complete(r)
    BY <1>8 DEF DiscardExpiredJob, AlreadySent, At
  <2> QED BY <1>6, <2>1
<1>9. ASSUME NEW r \in Runs, Cleanup(r) PROVE AllBorn'
  <2>1. ~At(r, "idle")
    BY <1>9 DEF Cleanup, At
  <2>2. Complete(r) \/ (UNCHANGED job /\ OnlySteps(r))
    BY <1>0, <1>9, GotoOnlySteps DEF Cleanup
  <2> QED BY <1>6, <1>7, <2>1, <2>2
<1>10. ASSUME NEW r \in Runs, AcquireKey(r) \/ GateThrows(r) \/ MarkCompleted(r) PROVE AllBorn'
  <2>1. ~At(r, "idle") /\ UNCHANGED job
    BY <1>10 DEF AcquireKey, GateThrows, MarkCompleted, At, storeVars
  <2>2. OnlySteps(r)
    BY <1>0, <1>10, GotoOnlySteps DEF AcquireKey, GateThrows, MarkCompleted
  <2> QED BY <1>7, <2>1, <2>2
<1>11. ASSUME NEW r \in Runs, Persist(r) PROVE AllBorn'
  <2>1. ~At(r, "idle") /\ OnlySteps(r)
    BY <1>0, <1>11, GotoOnlySteps DEF Persist, At
  <2>2. Born(Event(r))
    BY <1>1, <2>1 DEF BornRuns
  <2>3. JobsStay
    BY <1>0, <1>11, <2>2 DEF Persist, JobsStay, Job
  <2> QED BY <1>3, <2>1, <2>3, RunStaysWhenItSteps
<1>12. ASSUME NEW r \in Runs, Send(r) PROVE AllBorn'
  <2>1. UNCHANGED job /\ ~At(r, "idle")
    BY <1>12 DEF Send, At, storeVars
  <2>2. PICK accepted \in SUBSET run[r].data, perm \in BOOLEAN :
           LET refused == run[r].data \ accepted IN
           run' = [run EXCEPT ![r] = [@ EXCEPT !.step = IF refused = {} THEN "mark"
                                                        ELSE IF accepted = {} THEN "release"
                                                        ELSE "persist",
                                               !.data = refused,
                                               !.fatal = perm]]
    BY <1>12 DEF Send
  <2>3. OnlySteps(r)
    BY <1>0, <2>2 DEF Run, OnlySteps
  <2> QED BY <1>7, <2>1, <2>3
<1>13. ASSUME NEW r \in Runs, Release(r) PROVE AllBorn'
  <2>1. ~At(r, "idle") /\ UNCHANGED job
    BY <1>13 DEF Release, At
  <2>2. ASSUME run' = [run EXCEPT ![r].step = "failing", ![r].fatal = FALSE] PROVE OnlySteps(r)
    BY <1>0, <2>2 DEF Run, OnlySteps
  <2>3. OnlySteps(r)
    BY <1>0, <1>13, <2>2, GotoOnlySteps DEF Release
  <2> QED BY <1>7, <2>1, <2>3
<1>14. ASSUME NEW r \in Runs, FailJob(r) PROVE AllBorn'
  <2>1. ~At(r, "idle") /\ run' = [run EXCEPT ![r] = IdleRun]
    BY <1>14 DEF FailJob, At
  <2>2. Born(Event(r))
    BY <1>1, <2>1 DEF BornRuns
  <2>3. JobsStay
    BY <1>0, <1>14, <2>2 DEF FailJob, JobsStay, Job
  <2> QED BY <1>0, <1>3, <2>1, <2>3, RunStaysWhenItEnds
<1>15. ASSUME NEW r \in Runs, CrashRun(r) \/ StallRun(r) PROVE AllBorn'
  <2>1. UNCHANGED job /\ ~At(r, "idle")
    BY <1>15 DEF CrashRun, StallRun
  <2>2. CASE CrashRun(r)
    BY <1>0, <1>3, <1>5, <2>1, <2>2, RunStaysWhenItEnds DEF CrashRun
  <2>3. CASE StallRun(r)
    <3>1. OnlySteps(r)
      BY <1>0, <2>3 DEF StallRun, Run, OnlySteps
    <3> QED BY <1>7, <2>1, <3>1
  <2> QED BY <1>15, <2>2, <2>3
<1>16. ASSUME NEW e \in Events,
              revertForRedispatch(e) \/ RequeueStalled(e) \/ KeyExpires(e) \/ EvictJob(e)
       PROVE  AllBorn'
  <2>1. UNCHANGED run
    BY <1>16 DEF revertForRedispatch, RequeueStalled, KeyExpires, EvictJob
  <2>2. RunsStay
    BY <2>1 DEF RunsStay, At, Event
  <2>3. JobsStay
    BY <1>0, <1>16 DEF revertForRedispatch, RequeueStalled, KeyExpires, EvictJob, JobsStay, NoJob, Job
  <2> QED BY <1>3, <2>2, <2>3
<1> QED
  BY <1>4, <1>8, <1>9, <1>10, <1>11, <1>12, <1>13, <1>14, <1>15, <1>16 DEF MailNext

-----------------------------------------------------------------------------
(* The theorem *)

LEMMA RefinementInvStep ==
    ASSUME RefinementInv, [Next]_vars
    PROVE  RefinementInv'
<1>1. AtLeastOnceInv'
  BY AtLeastOnceStep DEF RefinementInv
<1>2. \A e \in Events : Born(e) => Born(e)'
  BY StepRefines, BornForEver DEF RefinementInv, AtLeastOnceInv
<1>3. ASSUME UNCHANGED run, BornSignals', BornTasks' PROVE AllBorn'
  <2>1. \A r \in Runs : ~At(r, "idle") => Event(r) \in Events /\ Born(Event(r))
    BY DEF RefinementInv, AtLeastOnceInv, TypeOK, MailTypeOK, At, Event, AllBorn, BornRuns
  <2>2. ASSUME NEW r \in Runs, ~At(r, "idle")' PROVE Born(Event(r))'
    <3>1. PICK e \in Events : e = Event(r) /\ Born(e) /\ Event(r)' = e
      BY <1>3, <2>1, <2>2 DEF At, Event
    <3> QED BY <1>2, <3>1 DEF Born
  <2> QED BY <1>3, <2>2 DEF AllBorn, BornRuns
<1>4. ASSUME UNCHANGED <<signal, job, task, run>>,
             \A e \in Events : sender'[e] # sender[e] => Exists(e)
      PROVE  AllBorn'
  <2>1. \A e \in Events : Exists(e) => Born(e)
    BY DEF RefinementInv, AtLeastOnceInv, AtLeastOnce, OpenIsStored, Born
  <2>2. BornSignals'
    BY <1>2, <1>4, <2>1 DEF RefinementInv, AllBorn, BornSignals
  <2>3. BornTasks'
    BY <1>2, <1>4 DEF RefinementInv, AllBorn, BornTasks, InHand
  <2> QED BY <1>3, <1>4, <2>2, <2>3
<1>5. AllBorn'
  <2>1. CASE DispatchNext /\ UNCHANGED <<mailVars, upkeepVars>>
    <3>1. UNCHANGED run
      BY <2>1 DEF mailVars
    <3>2. BornSignals' /\ BornTasks'
      BY <1>2, <2>1, DispatchBorn
    <3> QED BY <1>3, <3>1, <3>2
  <2>2. CASE MailNext /\ UNCHANGED <<dispatchVars, upkeepVars>>
    BY <1>2, <2>2, MailBorn
  <2>3. CASE UpkeepNext /\ UNCHANGED mailVars
    <3>1. UNCHANGED <<signal, job, task, run>>
      BY <2>3 DEF UpkeepNext, deleteExpired, deleteOlderThan, SelectFailed, DeleteSelected,
                  retryFailedOutboxEvent, storeVars, dispatchVars, mailVars
    <3>2. ASSUME NEW e \in Events, retryFailedOutboxEvent(e)
          PROVE  \A f \in Events : sender'[f] # sender[f] => Exists(f)
      BY <3>2 DEF retryFailedOutboxEvent, retryFailed, Exists, RefinementInv, AtLeastOnceInv,
                  TypeOK, DispatchTypeOK
    <3>3. UNCHANGED sender \/ \E e \in Events : retryFailedOutboxEvent(e)
      BY <2>3 DEF UpkeepNext, deleteExpired, deleteOlderThan, SelectFailed, DeleteSelected, dispatchVars
    <3>4. \A f \in Events : sender'[f] # sender[f] => Exists(f)
      BY <3>2, <3>3
    <3> QED BY <1>4, <3>1, <3>4
  <2>4. CASE Time \/ UNCHANGED vars
    <3>1. UNCHANGED <<sender, signal, job, task, run>>
      BY <2>4 DEF Time, Expire, Overstay, vars, storeVars, dispatchVars, mailVars
    <3>2. \A f \in Events : sender'[f] # sender[f] => Exists(f)
      BY <3>1
    <3> QED BY <1>4, <3>1, <3>2
  <2> QED BY <2>1, <2>2, <2>3, <2>4 DEF Next
<1> QED BY <1>1, <1>5 DEF RefinementInv

\* The pipeline implements OutboxContract: the use case that committed its business
\* data with an event may forget about it.  The event stays open until everybody it
\* is addressed to was served, until it expired, or until a purge; nothing but the
\* mail server's acceptance makes a recipient served, and nothing reopens an event.
THEOREM PipelineKeepsContract == Spec => KeepsContract
<1>1. Init => RefinementInv
  <2>1. Init => AtLeastOnceInv
    BY InitHolds
  <2>2. Init => AllBorn
    BY DEF Init, StoreInit, DispatchInit, MailInit, AllBorn, BornSignals, BornTasks, BornRuns,
           NoJob, NoTask, InHand, At, IdleRun
  <2> QED BY <2>1, <2>2 DEF RefinementInv
<1>2. RefinementInv /\ [Next]_vars => RefinementInv'
  BY RefinementInvStep
<1>3. Init => Contract!Init
  <2> SUFFICES ASSUME Init PROVE Contract!Init
    OBVIOUS
  <2>1. \A e \in Events : Owed(e) = Recipients
    BY DEF Init, MailInit, Owed
  <2> QED BY <2>1 DEF Init, StoreInit, Contract!Init
<1>4. RefinementInv /\ [Next]_vars => [Contract!Next]_Contract!vars
  BY StepRefines DEF ContractStep
<1> QED BY <1>1, <1>2, <1>3, <1>4, PTL DEF Spec, KeepsContract, Contract!Spec

-----------------------------------------------------------------------------
(* The claim, without triage *)

\* What a snapshot in hand says of its row.  A sweep's comes from Due; a signal's is
\* that of the event's creation.
SnapFits(d, e) ==
    LET snap == task[d][e].snap IN
    /\ mode[d] # "idle"
    /\ snap.status = IF mode[d] = "stuck" THEN "SENDING" ELSE "PENDING"
    /\ mode[d] = "stuck" /\ Exists(e) =>
          /\ row[e].claimNo >= snap.claimNo
          /\ row[e].claimNo = snap.claimNo /\ row[e].status = "SENDING" => row[e].overdue

ClaimInv ==
    /\ retries = 0
    /\ \A e \in Events : sender[e] # "triage" /\ signal[e] \in {NoRow, FreshRow}
    /\ \A e \in Events : sender[e] # "none" => signal[e] = NoRow
    /\ \A d \in Dispatchers, e \in Events : InHand(d, e) => SnapFits(d, e)

\* What a step does to a row other than claim it: it removes it, creates it, or leaves
\* its attempts and its claim as they are, and its status unless it is taken from SENDING.
Unclaimed(e) ==
    \/ row'[e] = NoRow
    \/ ~Born(e) /\ row'[e] = FreshRow
    \/ /\ Exists(e)' => Exists(e)
       /\ row'[e].attempts = row[e].attempts /\ row'[e].claimNo = row[e].claimNo
       /\ row'[e].status = "SENDING" => row[e].status = "SENDING" /\ (row[e].overdue => row'[e].overdue)

\* Each operation of the repository but claim and retryFailed leaves every row unclaimed.
LEMMA UnclaimedOps ==
    ASSUME TypeOK
    PROVE  /\ UNCHANGED row => \A f \in Events : Unclaimed(f)
           /\ \A e \in Events : create(e) /\ fate[e] = "unborn" => \A f \in Events : Unclaimed(f)
           /\ \A e \in Events, status \in {"PENDING", "FAILED"} :
                 updateStatus(e, status) => \A f \in Events : Unclaimed(f)
           /\ \A e \in Events, failed \in SUBSET Recipients :
                 updatePendingRecipients(e, failed) => \A f \in Events : Unclaimed(f)
           /\ \A es, why : delete(es, why) => \A f \in Events : Unclaimed(f)
<1>0. row \in [Events -> Row]
  BY DEF TypeOK, StoreTypeOK
<1>1. ASSUME UNCHANGED row PROVE \A f \in Events : Unclaimed(f)
  BY <1>1 DEF Unclaimed, Exists
<1>2. ASSUME NEW e \in Events, create(e), fate[e] = "unborn" PROVE \A f \in Events : Unclaimed(f)
  BY <1>0, <1>2 DEF create, Unclaimed, Exists, Born
<1>3. ASSUME NEW e \in Events, NEW status \in {"PENDING", "FAILED"}, updateStatus(e, status)
      PROVE  \A f \in Events : Unclaimed(f)
  <2>1. CASE Exists(e)
    <3>1. /\ row'[e].status = status /\ row'[e].attempts = row[e].attempts
          /\ row'[e].claimNo = row[e].claimNo
          /\ \A f \in Events \ {e} : row'[f] = row[f]
      BY <1>0, <1>3, <2>1 DEF updateStatus, Row
    <3> QED BY <2>1, <3>1 DEF Unclaimed, Exists
  <2>2. CASE ~Exists(e)
    BY <1>1, <1>3, <2>2 DEF updateStatus
  <2> QED BY <2>1, <2>2
<1>4. ASSUME NEW e \in Events, NEW failed \in SUBSET Recipients, updatePendingRecipients(e, failed)
      PROVE  \A f \in Events : Unclaimed(f)
  <2>1. /\ row'[e].status = row[e].status /\ row'[e].attempts = row[e].attempts
        /\ row'[e].claimNo = row[e].claimNo /\ row'[e].overdue = row[e].overdue
        /\ \A f \in Events \ {e} : row'[f] = row[f]
    BY <1>0, <1>4 DEF updatePendingRecipients, Row
  <2> QED BY <2>1 DEF Unclaimed, Exists
<1>5. ASSUME NEW es, NEW why, delete(es, why) PROVE \A f \in Events : Unclaimed(f)
  BY <1>5 DEF delete, Unclaimed, Exists
<1> QED BY <1>1, <1>2, <1>3, <1>4, <1>5

\* The guard of the operator's retry is never met.
LEMMA NoTriage ==
    ASSUME MaxRetries = 0, ClaimInv, NEW e \in Events
    PROVE  ~retryFailedOutboxEvent(e)
BY DEF ClaimInv, retryFailedOutboxEvent

\* Without triage a row is claimed by Claim alone.
LEMMA RowSteps ==
    ASSUME MaxRetries = 0, TypeOK, ClaimInv, [Next]_vars, NEW e \in Events
    PROVE  Unclaimed(e) \/ \E d \in Dispatchers : Claim(d, e)
<1>1. ASSUME DispatchNext PROVE Unclaimed(e) \/ \E d \in Dispatchers : Claim(d, e)
  <2>1. ASSUME NEW f \in Events, Register(f) \/ enqueueOutboxDispatch(f) PROVE Unclaimed(e)
    BY <2>1, UnclaimedOps DEF Register, enqueueOutboxDispatch, storeVars
  <2>2. ASSUME NEW d \in Dispatchers, NEW f \in Events,
               TakeSignal(d, f) \/ DiscardExpired(d, f) \/ markPoisoned(d, f) \/ LoseClaim(d, f)
                   \/ Dispatch(d, f) \/ RevertDispatch(d, f)
        PROVE  Unclaimed(e)
    BY <2>2, UnclaimedOps
       DEF TakeSignal, DiscardExpired, markPoisoned, LoseClaim, Dispatch, RevertDispatch, storeVars
  <2>3. ASSUME NEW d \in Dispatchers, NEW f \in Events, Claim(d, f), f # e PROVE Unclaimed(e)
    <3>1. row'[e] = row[e]
      BY <2>3 DEF Claim, claim, TypeOK, StoreTypeOK
    <3> QED BY <3>1 DEF Unclaimed, Exists
  <2>4. ASSUME NEW d \in Dispatchers, NEW sweep \in Sweep, StartSweep(d, sweep) PROVE Unclaimed(e)
    BY <2>4, UnclaimedOps DEF StartSweep, storeVars
  <2>5. ASSUME NEW d \in Dispatchers, CrashDispatcher(d) PROVE Unclaimed(e)
    BY <2>5, UnclaimedOps DEF CrashDispatcher
  <2>6. ASSUME NEW sweep \in Sweep, LockExpires(sweep) PROVE Unclaimed(e)
    BY <2>6, UnclaimedOps DEF LockExpires, storeVars
  <2> QED BY <1>1, <2>1, <2>2, <2>3, <2>4, <2>5, <2>6 DEF DispatchNext
<1>2. ASSUME MailNext PROVE Unclaimed(e)
  <2>1. ASSUME NEW r \in Runs, NEW f \in Events, Start(r, f) PROVE Unclaimed(e)
    BY <2>1, UnclaimedOps DEF Start
  <2>2. ASSUME NEW r \in Runs,
               DiscardExpiredJob(r) \/ AcquireKey(r) \/ AlreadySent(r) \/ GateThrows(r) \/ Send(r)
        PROVE  Unclaimed(e)
    BY <2>2, UnclaimedOps DEF DiscardExpiredJob, AcquireKey, AlreadySent, GateThrows, Send, storeVars
  <2>3. ASSUME NEW r \in Runs, Persist(r) PROVE Unclaimed(e)
    <3>1. Event(r) \in Events /\ run[r].data \in SUBSET Recipients
      BY <2>3 DEF Persist, At, Event, TypeOK, MailTypeOK, Run
    <3> QED BY <2>3, <3>1, UnclaimedOps DEF Persist
  <2>4. ASSUME NEW r \in Runs,
               MarkCompleted(r) \/ Release(r) \/ Cleanup(r) \/ FailJob(r) \/ CrashRun(r) \/ StallRun(r)
        PROVE  Unclaimed(e)
    BY <2>4, UnclaimedOps DEF MarkCompleted, Release, Cleanup, FailJob, CrashRun, StallRun
  <2>5. ASSUME NEW f \in Events,
               revertForRedispatch(f) \/ RequeueStalled(f) \/ KeyExpires(f) \/ EvictJob(f)
        PROVE  Unclaimed(e)
    BY <2>5, UnclaimedOps DEF revertForRedispatch, RequeueStalled, KeyExpires, EvictJob
  <2> QED BY <1>2, <2>1, <2>2, <2>3, <2>4, <2>5 DEF MailNext
<1>3. ASSUME UpkeepNext PROVE Unclaimed(e)
  BY <1>3, UnclaimedOps, NoTriage
     DEF UpkeepNext, deleteExpired, deleteOlderThan, SelectFailed, DeleteSelected, storeVars
<1>4. ASSUME Time \/ UNCHANGED vars PROVE Unclaimed(e)
  <2>1. ASSUME NEW f \in Events, Overstay(f) PROVE Unclaimed(e)
    <3>1. /\ row'[e].status = row[e].status /\ row'[e].attempts = row[e].attempts
          /\ row'[e].claimNo = row[e].claimNo /\ (row[e].overdue => row'[e].overdue)
      BY <2>1 DEF Overstay, TypeOK, StoreTypeOK, Row
    <3> QED BY <3>1 DEF Unclaimed, Exists
  <2> QED BY <1>4, <2>1, UnclaimedOps DEF Time, Expire, vars, storeVars
<1> QED BY <1>1, <1>2, <1>3, <1>4 DEF Next

\* Where a snapshot in hand comes from: the hand it was in, the signal, or the row.
Kept(d, e) ==
    /\ InHand(d, e)
    /\ task'[d][e].snap = task[d][e].snap
    /\ mode'[d] = mode[d]
    /\ task'[d][e].step = "held" => task[d][e].step = "held"

Swept(d, e) ==
    \E sweep \in Sweep : /\ StartSweep(d, sweep)
                         /\ e \in Due(sweep)
                         /\ task'[d][e].snap = row[e]
                         /\ mode'[d] = sweep

\* The end of one item leaves the others of the batch in hand.
LEMMA EndKeeps ==
    ASSUME TypeOK, NEW d \in Dispatchers, NEW e \in Events, EndItem(d, e)
    PROVE  /\ \A c \in Dispatchers, f \in Events : InHand(c, f)' => Kept(c, f)
           /\ \A c \in Dispatchers, f \in Events :
                 InHand(c, f) => (Kept(c, f) /\ InHand(c, f)') \/ (c = d /\ f = e)
           /\ \A f \in Events : signal'[f] = signal[f] \/ (signal'[f] = NoRow /\ f = e)
           /\ mode[d] = "signal" => signal'[e] = NoRow
           /\ UNCHANGED sender
<1>0. /\ task \in [Dispatchers -> [Events -> Task]] /\ mode \in [Dispatchers -> Mode]
      /\ signal \in [Events -> Row]
  BY DEF TypeOK, DispatchTypeOK
<1>1. /\ task'[d][e] = NoTask
      /\ \A c \in Dispatchers, f \in Events : c # d \/ f # e => task'[c][f] = task[c][f]
  BY <1>0 DEF EndItem
<1>2. \A c \in Dispatchers : c # d => mode'[c] = mode[c]
  BY <1>0 DEF EndItem
<1>3. (\E f \in Events \ {e} : InHand(d, f)) => mode' = mode
  BY DEF EndItem
<1>4. ~InHand(d, e)'
  BY <1>1 DEF InHand, NoTask
<1>5. \A c \in Dispatchers, f \in Events : InHand(c, f) /\ (c # d \/ f # e) => Kept(c, f) /\ InHand(c, f)'
  BY <1>1, <1>2, <1>3 DEF Kept, InHand
<1>6. \A c \in Dispatchers, f \in Events : InHand(c, f)' => InHand(c, f) /\ (c # d \/ f # e)
  BY <1>1, <1>4 DEF InHand
<1>7. /\ \A f \in Events : signal'[f] = signal[f] \/ (signal'[f] = NoRow /\ f = e)
      /\ mode[d] = "signal" => signal'[e] = NoRow
      /\ UNCHANGED sender
  BY <1>0 DEF EndItem
<1> QED BY <1>5, <1>6, <1>7

\* A task that moves to its next step stays in hand.
LEMMA StepKeeps ==
    ASSUME TypeOK, NEW d \in Dispatchers, NEW e \in Events, InHand(d, e), UNCHANGED mode,
           NEW step \in {"claimed", "reverting"}, task' = [task EXCEPT ![d][e].step = step]
    PROVE  /\ \A c \in Dispatchers, f \in Events : InHand(c, f)' <=> InHand(c, f)
           /\ \A c \in Dispatchers, f \in Events : InHand(c, f) => Kept(c, f)
           /\ task'[d][e].step # "held"
<1>0. task \in [Dispatchers -> [Events -> Task]]
  BY DEF TypeOK, DispatchTypeOK
<1>1. task'[d][e].step = step /\ task'[d][e].snap = task[d][e].snap
  BY <1>0 DEF Task
<1>2. \A c \in Dispatchers, f \in Events : c # d \/ f # e => task'[c][f] = task[c][f]
  BY <1>0
<1> QED BY <1>1, <1>2 DEF InHand, Kept

\* An item is in hand because it was, or was taken from the signals or by a sweep.
LEMMA TaskSteps ==
    ASSUME TypeOK, ClaimInv, [Next]_vars, NEW d \in Dispatchers, NEW e \in Events, InHand(d, e)'
    PROVE  Kept(d, e) \/ TakeSignal(d, e) \/ Swept(d, e)
<1>0. /\ task \in [Dispatchers -> [Events -> Task]] /\ mode \in [Dispatchers -> Mode]
      /\ \A c \in Dispatchers, f \in Events : InHand(c, f) => mode[c] # "idle"
  BY DEF TypeOK, DispatchTypeOK, ClaimInv, SnapFits
<1>1. ASSUME UNCHANGED <<task, mode>> PROVE Kept(d, e)
  BY <1>1 DEF Kept, InHand
<1>2. ASSUME NEW c \in Dispatchers, NEW f \in Events, TakeSignal(c, f)
      PROVE  Kept(d, e) \/ TakeSignal(d, e)
  <2>1. \A g \in Events : g # f => task'[c][g] = task[c][g]
    BY <1>0, <1>2 DEF TakeSignal
  <2>2. \A b \in Dispatchers : b # c => task'[b] = task[b] /\ mode'[b] = mode[b]
    BY <1>0, <1>2 DEF TakeSignal
  <2>3. mode[c] = "idle"
    BY <1>2 DEF TakeSignal
  <2>4. CASE d # c
    BY <2>2, <2>4 DEF Kept, InHand
  <2>5. CASE d = c /\ e # f
    BY <1>0, <2>1, <2>3, <2>5 DEF InHand
  <2> QED BY <1>2, <2>4, <2>5
<1>3. ASSUME NEW c \in Dispatchers, NEW f \in Events,
             DiscardExpired(c, f) \/ markPoisoned(c, f) \/ LoseClaim(c, f) \/ RevertDispatch(c, f)
      PROVE  Kept(d, e)
  BY <1>3, EndKeeps DEF DiscardExpired, markPoisoned, LoseClaim, RevertDispatch
<1>4. ASSUME NEW c \in Dispatchers, NEW f \in Events, Claim(c, f) \/ Dispatch(c, f) PROVE Kept(d, e)
  <2>1. InHand(c, f)
    BY <1>4 DEF Claim, Dispatch, MayClaim, Next1, InHand
  <2> QED BY <1>4, <2>1, EndKeeps, StepKeeps DEF Claim, Dispatch
<1>5. ASSUME NEW c \in Dispatchers, NEW sweep \in Sweep, StartSweep(c, sweep)
      PROVE  Kept(d, e) \/ Swept(d, e)
  <2>1. CASE d # c
    BY <1>0, <1>5, <2>1 DEF StartSweep, Kept, InHand
  <2>2. CASE d = c
    <3>1. mode'[d] = sweep
      BY <1>0, <1>5, <2>2 DEF StartSweep
    <3>2. task'[d][e] = IF e \in Due(sweep) THEN [step |-> "held", snap |-> row[e]] ELSE NoTask
      BY <1>0, <1>5, <2>2 DEF StartSweep
    <3>3. e \in Due(sweep) /\ task'[d][e].snap = row[e]
      BY <3>2 DEF InHand, NoTask
    <3> QED BY <1>5, <2>2, <3>1, <3>3 DEF Swept
  <2> QED BY <2>1, <2>2
<1>6. ASSUME NEW c \in Dispatchers, CrashDispatcher(c) PROVE Kept(d, e)
  <2>1. d # c
    BY <1>0, <1>6 DEF CrashDispatcher, InHand, NoTask
  <2> QED BY <1>0, <1>6, <2>1 DEF CrashDispatcher, Kept, InHand
<1>7. ASSUME NEW f \in Events, Register(f) \/ enqueueOutboxDispatch(f) PROVE Kept(d, e)
  BY <1>1, <1>7 DEF Register, enqueueOutboxDispatch
<1>8. ASSUME NEW sweep \in Sweep, LockExpires(sweep) PROVE Kept(d, e)
  BY <1>1, <1>8 DEF LockExpires
<1>9. ASSUME DispatchNext PROVE Kept(d, e) \/ TakeSignal(d, e) \/ Swept(d, e)
  BY <1>2, <1>3, <1>4, <1>5, <1>6, <1>7, <1>8, <1>9 DEF DispatchNext
<1>10. ASSUME (MailNext /\ UNCHANGED dispatchVars) \/ UpkeepNext \/ Time \/ UNCHANGED vars PROVE Kept(d, e)
  BY <1>1, <1>10 DEF UpkeepNext, deleteExpired, deleteOlderThan, SelectFailed, DeleteSelected,
         retryFailedOutboxEvent, Time, Expire, Overstay, vars, dispatchVars
<1> QED BY <1>9, <1>10 DEF Next

\* What is still to be announced, and what waits in the queue of signals, is of an
\* event's creation.
LEMMA SignalSteps ==
    ASSUME MaxRetries = 0, RefinementInv, ClaimInv, [Next]_vars
    PROVE  /\ retries' = 0
           /\ \A e \in Events : sender'[e] # "triage" /\ signal'[e] \in {NoRow, FreshRow}
           /\ \A e \in Events : sender'[e] # "none" => signal'[e] = NoRow
<1>0. /\ sender \in [Events -> {"none", "create", "triage"}] /\ signal \in [Events -> Row]
      /\ \A e \in Events : ~Born(e) => signal[e] = NoRow
  BY DEF RefinementInv, AtLeastOnceInv, TypeOK, DispatchTypeOK, AllBorn, BornSignals
<1> DEFINE Goal == /\ \A e \in Events : sender'[e] # "triage" /\ signal'[e] \in {NoRow, FreshRow}
                   /\ \A e \in Events : sender'[e] # "none" => signal'[e] = NoRow
<1>1. ASSUME UNCHANGED <<sender, signal>> PROVE Goal
  BY <1>1 DEF ClaimInv
<1>2. ASSUME UNCHANGED sender, \A e \in Events : signal'[e] \in {signal[e], NoRow} PROVE Goal
  BY <1>2 DEF ClaimInv
<1>3. ASSUME NEW e \in Events, Register(e) PROVE Goal
  <2>1. \A f \in Events : sender'[f] = IF f = e THEN "create" ELSE sender[f]
    BY <1>0, <1>3 DEF Register
  <2>2. signal[e] = NoRow /\ UNCHANGED signal
    BY <1>0, <1>3 DEF Register, Born
  <2> QED BY <2>1, <2>2 DEF ClaimInv
<1>4. ASSUME NEW e \in Events, enqueueOutboxDispatch(e) PROVE Goal
  <2>1. \A f \in Events : sender'[f] = IF f = e THEN "none" ELSE sender[f]
    BY <1>0, <1>4 DEF enqueueOutboxDispatch
  <2>2. Announced(e) = FreshRow
    BY <1>0, <1>4 DEF enqueueOutboxDispatch, Announced, ClaimInv
  <2>3. \A f \in Events : signal'[f] = signal[f] \/ (f = e /\ signal'[f] = FreshRow)
    BY <1>0, <1>4, <2>2 DEF enqueueOutboxDispatch
  <2> QED BY <2>1, <2>3 DEF ClaimInv
<1>5. ASSUME NEW d \in Dispatchers, NEW e \in Events,
             DiscardExpired(d, e) \/ markPoisoned(d, e) \/ LoseClaim(d, e) \/ RevertDispatch(d, e)
                 \/ Dispatch(d, e)
      PROVE  Goal
  <2>1. ASSUME EndItem(d, e) PROVE Goal
    BY <1>2, <2>1, EndKeeps DEF RefinementInv, AtLeastOnceInv
  <2> QED BY <1>1, <1>5, <2>1 DEF DiscardExpired, markPoisoned, LoseClaim, RevertDispatch, Dispatch
<1>6. ASSUME NEW d \in Dispatchers, CrashDispatcher(d) PROVE Goal
  <2>1. \A e \in Events : signal'[e] \in {signal[e], NoRow}
    BY <1>0, <1>6 DEF CrashDispatcher
  <2> QED BY <1>2, <1>6, <2>1 DEF CrashDispatcher
<1>7. ASSUME NEW d \in Dispatchers, NEW e \in Events, TakeSignal(d, e) \/ Claim(d, e) PROVE Goal
  BY <1>1, <1>7 DEF TakeSignal, Claim
<1>8. ASSUME NEW d \in Dispatchers, NEW sweep \in Sweep, StartSweep(d, sweep) \/ LockExpires(sweep)
      PROVE  Goal
  BY <1>1, <1>8 DEF StartSweep, LockExpires
<1>9. ASSUME UpkeepNext PROVE UNCHANGED <<sender, signal, retries>>
  BY <1>9, NoTriage DEF UpkeepNext, deleteExpired, deleteOlderThan, SelectFailed, DeleteSelected,
                        dispatchVars, upkeepVars
<1>10. ASSUME NEW sweep \in Sweep, LockExpires(sweep) PROVE Goal
  BY <1>1, <1>10 DEF LockExpires
<1>11. ASSUME DispatchNext PROVE Goal
  BY <1>3, <1>4, <1>5, <1>6, <1>7, <1>8, <1>10, <1>11 DEF DispatchNext
<1>12. Goal
  BY <1>1, <1>9, <1>11 DEF Next, Time, Expire, Overstay, vars, dispatchVars
<1>13. retries' = 0
  BY <1>9 DEF ClaimInv, Next, Time, Expire, Overstay, vars, upkeepVars
<1> QED BY <1>12, <1>13

\* The snapshots in hand keep fitting their rows, and no signal comes from triage.
LEMMA ClaimInvStep ==
    ASSUME MaxRetries = 0, RefinementInv, ClaimInv, [Next]_vars
    PROVE  ClaimInv'
<1>0. /\ TypeOK /\ TypeOK'
      /\ row \in [Events -> Row] /\ row' \in [Events -> Row]
  BY TypeStep DEF RefinementInv, AtLeastOnceInv, TypeOK, StoreTypeOK
<1>1. ASSUME NEW d \in Dispatchers, NEW e \in Events, InHand(d, e)' PROVE SnapFits(d, e)'
  <2> DEFINE snap == task[d][e].snap
  <2>1. CASE Kept(d, e)
    <3>1. /\ mode'[d] # "idle"
          /\ task'[d][e].snap.status = IF mode'[d] = "stuck" THEN "SENDING" ELSE "PENDING"
      BY <2>1 DEF Kept, ClaimInv, SnapFits
    <3>2. ASSUME mode'[d] = "stuck", Exists(e)'
          PROVE  /\ row'[e].claimNo >= task'[d][e].snap.claimNo
                 /\ row'[e].claimNo = task'[d][e].snap.claimNo /\ row'[e].status = "SENDING" => row'[e].overdue
      <4>1. /\ Exists(e) => /\ row[e].claimNo >= snap.claimNo
                            /\ row[e].claimNo = snap.claimNo /\ row[e].status = "SENDING" => row[e].overdue
            /\ task'[d][e].snap = snap
        BY <2>1, <3>2 DEF Kept, ClaimInv, SnapFits
      <4>2. Born(e)
        BY <2>1 DEF Kept, RefinementInv, AllBorn, BornTasks
      <4>3. CASE Unclaimed(e)
        BY <3>2, <4>1, <4>2, <4>3 DEF Unclaimed, Exists, NoRow
      <4>4. ASSUME NEW c \in Dispatchers, Claim(c, e)
            PROVE  Exists(e) /\ row'[e].claimNo = row[e].claimNo + 1
        <5>1. Exists(e)
          BY <4>4 DEF Claim, MayClaim, Next1, Claimable, Exists, RefinementInv, AtLeastOnceInv,
                      RealSnapshots, RealTasks, InHand
        <5> QED BY <1>0, <4>4, <5>1 DEF Claim, claim, Row
      <4>5. snap.claimNo \in Nat /\ row[e].claimNo \in Nat
        BY <1>0 DEF TypeOK, DispatchTypeOK, Task, Row
      <4> HIDE DEF snap
      <4>6. CASE \E c \in Dispatchers : Claim(c, e)
        <5>1. row'[e].claimNo > snap.claimNo
          BY <4>1, <4>4, <4>5, <4>6
        <5> QED BY <4>1, <4>5, <5>1, <4>4, <4>6
      <4> QED BY <1>0, <4>3, <4>6, RowSteps
    <3> QED BY <3>1, <3>2 DEF SnapFits
  <2>2. CASE TakeSignal(d, e)
    <3>1. mode'[d] = "signal" /\ task'[d][e].snap = signal[e] /\ signal[e] # NoRow
      BY <1>0, <2>2 DEF TakeSignal, TypeOK, DispatchTypeOK
    <3>2. task'[d][e].snap = FreshRow
      BY <3>1 DEF ClaimInv
    <3>3. FreshRow.status = "PENDING"
      BY DEF FreshRow
    <3> QED BY <3>1, <3>2, <3>3 DEF SnapFits
  <2>3. CASE Swept(d, e)
    <3>1. PICK sweep \in Sweep : /\ StartSweep(d, sweep) /\ e \in Due(sweep)
                                 /\ task'[d][e].snap = row[e] /\ mode'[d] = sweep
      BY <2>3 DEF Swept
    <3>2. UNCHANGED row
      BY <3>1 DEF StartSweep, storeVars
    <3>3. row[e].claimNo \in Nat
      BY <1>0 DEF Row
    <3> QED BY <3>1, <3>2, <3>3 DEF SnapFits, Due, Sweep, Exists
  <2> QED BY <1>0, <1>1, <2>1, <2>2, <2>3, TaskSteps
<1> QED BY <1>1, SignalSteps DEF ClaimInv

\* At first nothing is in hand and nothing was retried.
LEMMA ClaimInvInit == Init => RefinementInv /\ ClaimInv
<1> SUFFICES ASSUME Init PROVE RefinementInv /\ ClaimInv
  OBVIOUS
<1>1. AtLeastOnceInv
  BY InitHolds
<1>2. AllBorn
  BY DEF Init, StoreInit, DispatchInit, MailInit, AllBorn, BornSignals, BornTasks, BornRuns,
         NoJob, NoTask, InHand, At, IdleRun
<1>3. ClaimInv
  BY DEF Init, DispatchInit, UpkeepInit, ClaimInv, InHand, NoTask
<1> QED BY <1>1, <1>2, <1>3 DEF RefinementInv

\* A claim takes a row over only when it is PENDING, or SENDING for longer than a send
\* may take (prisma-outbox-event.repository.ts claim), as long as nobody triages.
THEOREM ClaimsAreExclusive == MaxRetries = 0 => (Spec => ClaimIsExclusive)
<1> SUFFICES ASSUME MaxRetries = 0 PROVE Spec => ClaimIsExclusive
  OBVIOUS
<1>1. RefinementInv /\ ClaimInv /\ [Next]_vars => (RefinementInv /\ ClaimInv)'
  BY RefinementInvStep, ClaimInvStep
<1>2. RefinementInv /\ ClaimInv /\ [Next]_vars =>
         [\A e \in Events :
             row'[e].claimNo > row[e].claimNo =>
                row[e].status = "PENDING" \/ (row[e].status = "SENDING" /\ row[e].overdue)]_vars
  <2> SUFFICES ASSUME RefinementInv, ClaimInv, [Next]_vars,
                      NEW e \in Events, row'[e].claimNo > row[e].claimNo
               PROVE  row[e].status = "PENDING" \/ (row[e].status = "SENDING" /\ row[e].overdue)
    OBVIOUS
  <2>1. TypeOK /\ row[e].claimNo \in Nat
    BY DEF RefinementInv, AtLeastOnceInv, TypeOK, StoreTypeOK, Row
  <2>2. ~Unclaimed(e)
    <3>1. ~(0 > row[e].claimNo) /\ ~(row[e].claimNo > row[e].claimNo)
      BY <2>1
    <3> QED BY <3>1 DEF Unclaimed, NoRow, FreshRow
  <2>3. PICK d \in Dispatchers : Claim(d, e)
    BY <2>1, <2>2, RowSteps
  <2>4. InHand(d, e) /\ Claimable(e, task[d][e].snap, mode[d] = "stuck")
    BY <2>3 DEF Claim, MayClaim, Next1, InHand
  <2>5. SnapFits(d, e)
    BY <2>4 DEF ClaimInv
  <2>6. Exists(e)
    BY <2>4 DEF Claimable, Exists, RefinementInv, AtLeastOnceInv, RealSnapshots, RealTasks
  <2>7. row[e].status \in {"PENDING", "SENDING", "FAILED"}
    BY <2>1, <2>6 DEF TypeOK, StoreTypeOK, Row, Status, Exists
  <2> QED BY <2>4, <2>5, <2>6, <2>7 DEF SnapFits, Claimable
<1> QED BY <1>1, <1>2, ClaimInvInit, PTL DEF Spec, ClaimIsExclusive

-----------------------------------------------------------------------------
(* The budget of dispatches, without triage *)

\* Nobody has yet taken up what the event's creation signalled, or will signal.
SignalHeld(e) == \E d \in Dispatchers : mode[d] = "signal" /\ InHand(d, e)
Latent(e) == sender[e] # "none" \/ (signal[e] # NoRow /\ ~SignalHeld(e))

\* Who may still claim the event on the strength of a snapshot from before its last
\* attempt; the signal that waits counts as Free.
EarlyHand(d, e) == task[d][e].step = "held" /\ task[d][e].snap.attempts < MaxDispatch
Early(e) == {d \in Dispatchers : EarlyHand(d, e)} \cup {x \in {Free} : Latent(e)}

\* Every such claim that is made is one that may not be made again, unless a failure
\* puts the signal back.
WithinBudget(e) ==
    \/ row[e].attempts < MaxDispatch
    \/ row[e].attempts + Cardinality(Early(e)) <= MaxDispatch + Cardinality(Dispatchers) + faults

\* A signal that was taken up waits again only after a failure.
LEMMA LatentSteps ==
    ASSUME MaxRetries = 0, RefinementInv, ClaimInv, [Next]_vars, NEW e \in Events, Latent(e)'
    PROVE  Latent(e) \/ faults' > faults \/ ~Born(e)
<1>0. /\ sender \in [Events -> {"none", "create", "triage"}] /\ signal \in [Events -> Row]
      /\ task \in [Dispatchers -> [Events -> Task]] /\ mode \in [Dispatchers -> Mode]
      /\ faults \in Nat /\ TypeOK
      /\ \A d \in Dispatchers, f \in Events : InHand(d, f) => mode[d] # "idle"
  BY DEF RefinementInv, AtLeastOnceInv, TypeOK, StoreTypeOK, DispatchTypeOK, ClaimInv, SnapFits
<1>1. ASSUME sender'[e] = sender[e], signal'[e] = signal[e], SignalHeld(e) => SignalHeld(e)' PROVE Latent(e)
  BY <1>1 DEF Latent
<1>2. ASSUME UNCHANGED <<sender, signal, mode, task>> PROVE Latent(e)
  BY <1>1, <1>2 DEF SignalHeld, InHand
<1>3. ASSUME NEW f \in Events, Register(f) PROVE Latent(e) \/ ~Born(e)
  <2>1. CASE f = e
    BY <1>3, <2>1 DEF Register, Born
  <2>2. CASE f # e
    BY <1>0, <1>1, <1>3, <2>2 DEF Register, SignalHeld, InHand
  <2> QED BY <2>1, <2>2
<1>4. ASSUME NEW f \in Events, enqueueOutboxDispatch(f) PROVE Latent(e)
  <2>1. CASE f = e
    BY <1>4, <2>1 DEF enqueueOutboxDispatch, Latent
  <2>2. CASE f # e
    <3>1. sender'[e] = sender[e] /\ signal'[e] = signal[e]
      BY <1>0, <1>4, <2>2 DEF enqueueOutboxDispatch
    <3> QED BY <1>1, <1>4, <3>1 DEF enqueueOutboxDispatch, SignalHeld, InHand
  <2> QED BY <2>1, <2>2
<1>5. ASSUME NEW d \in Dispatchers, NEW f \in Events, EndItem(d, f) PROVE Latent(e)
  <2>1. CASE signal'[e] = signal[e] /\ signal[e] # NoRow
    <3>1. SignalHeld(e) => SignalHeld(e)'
      <4> SUFFICES ASSUME NEW c \in Dispatchers, mode[c] = "signal", InHand(c, e) PROVE SignalHeld(e)'
        BY DEF SignalHeld
      <4>1. CASE c = d /\ f = e
        BY <1>0, <1>5, <2>1, <4>1, EndKeeps
      <4>2. CASE c # d \/ f # e
        BY <1>0, <1>5, <4>2, EndKeeps DEF SignalHeld, Kept
      <4> QED BY <4>1, <4>2
    <3> QED BY <1>0, <1>1, <1>5, <2>1, <3>1, EndKeeps
  <2>2. CASE signal'[e] = NoRow
    BY <1>0, <1>5, <2>2, EndKeeps DEF Latent
  <2> QED BY <1>0, <1>5, <2>1, <2>2, EndKeeps
<1>6. ASSUME NEW d \in Dispatchers, NEW f \in Events,
             DiscardExpired(d, f) \/ markPoisoned(d, f) \/ LoseClaim(d, f) \/ RevertDispatch(d, f)
      PROVE  Latent(e)
  BY <1>5, <1>6 DEF DiscardExpired, markPoisoned, LoseClaim, RevertDispatch
<1>7. ASSUME NEW d \in Dispatchers, NEW f \in Events, Claim(d, f) \/ Dispatch(d, f) PROVE Latent(e)
  <2>1. InHand(d, f)
    BY <1>7 DEF Claim, Dispatch, MayClaim, Next1, InHand
  <2>2. ASSUME UNCHANGED <<sender, signal, mode>>, NEW step \in {"claimed", "reverting"},
               task' = [task EXCEPT ![d][f].step = step]
        PROVE  Latent(e)
    <3>1. SignalHeld(e) => SignalHeld(e)'
      BY <1>0, <2>1, <2>2, StepKeeps DEF SignalHeld
    <3> QED BY <1>1, <2>2, <3>1
  <2> QED BY <1>5, <1>7, <2>2 DEF Claim, Dispatch
<1>8. ASSUME NEW d \in Dispatchers, NEW f \in Events, TakeSignal(d, f) PROVE Latent(e)
  <2>1. \A c \in Dispatchers \ {d} : task'[c] = task[c] /\ mode'[c] = mode[c]
    BY <1>0, <1>8 DEF TakeSignal
  <2>2. mode[d] = "idle"
    BY <1>8 DEF TakeSignal
  <2>3. SignalHeld(e) => SignalHeld(e)'
    BY <2>1, <2>2 DEF SignalHeld, InHand
  <2> QED BY <1>1, <1>8, <2>3 DEF TakeSignal
<1>9. ASSUME NEW d \in Dispatchers, NEW sweep \in Sweep, StartSweep(d, sweep) PROVE Latent(e)
  <2>1. \A c \in Dispatchers \ {d} : task'[c] = task[c] /\ mode'[c] = mode[c]
    BY <1>0, <1>9 DEF StartSweep
  <2>2. mode[d] = "idle"
    BY <1>9 DEF StartSweep
  <2>3. SignalHeld(e) => SignalHeld(e)'
    BY <2>1, <2>2 DEF SignalHeld, InHand
  <2> QED BY <1>1, <1>9, <2>3 DEF StartSweep
<1>10. ASSUME NEW d \in Dispatchers, CrashDispatcher(d) PROVE faults' > faults
  BY <1>0, <1>10 DEF CrashDispatcher, Fails
<1>11. ASSUME NEW sweep \in Sweep, LockExpires(sweep) PROVE Latent(e)
  BY <1>2, <1>11 DEF LockExpires
<1>12. ASSUME DispatchNext PROVE Latent(e) \/ faults' > faults \/ ~Born(e)
  BY <1>3, <1>4, <1>6, <1>7, <1>8, <1>9, <1>10, <1>11, <1>12 DEF DispatchNext
<1>13. ASSUME UpkeepNext PROVE Latent(e)
  BY <1>2, <1>13, NoTriage DEF UpkeepNext, deleteExpired, deleteOlderThan, SelectFailed,
                               DeleteSelected, dispatchVars
<1> QED BY <1>2, <1>12, <1>13 DEF Next, Time, Expire, Overstay, vars, dispatchVars

\* What the counting rests on.
LEMMA EarlyCounts ==
    ASSUME IsFiniteSet(Dispatchers), NEW e
    PROVE  /\ IsFiniteSet(Early(e)) /\ Cardinality(Early(e)) \in Nat
           /\ Cardinality(Dispatchers) \in Nat
           /\ Cardinality(Early(e)) <= Cardinality(Dispatchers) + 1
           /\ \A more : more \subseteq Early(e) => IsFiniteSet(more) /\ Cardinality(more) <= Cardinality(Early(e))
           /\ \A d \in Early(e) : \A left : left \subseteq Early(e) \ {d} =>
                 Cardinality(left) \in Nat /\ Cardinality(left) <= Cardinality(Early(e)) - 1
           /\ \A x, more : more \subseteq Early(e) \cup {x} =>
                 Cardinality(more) \in Nat /\ Cardinality(more) <= Cardinality(Early(e)) + 1
           /\ \A d \in Early(e) : \A x, other : other \subseteq (Early(e) \ {d}) \cup {x} =>
                 Cardinality(other) \in Nat /\ Cardinality(other) <= Cardinality(Early(e))
<1> DEFINE E == Early(e)
<1>0. /\ IsFiniteSet(Dispatchers \cup {Free}) /\ Cardinality(Dispatchers) \in Nat
      /\ Cardinality(Dispatchers \cup {Free}) = Cardinality(Dispatchers) + 1
  BY FreeAssumption, FS_AddElement, FS_CardinalityType
<1>1. E \subseteq Dispatchers \cup {Free}
  BY DEF Early
<1> HIDE DEF E
<1>2. IsFiniteSet(E) /\ Cardinality(E) \in Nat /\ Cardinality(E) <= Cardinality(Dispatchers) + 1
  BY <1>0, <1>1, FS_Subset, FS_CardinalityType
<1>3. ASSUME NEW x PROVE /\ IsFiniteSet(E \cup {x}) /\ Cardinality(E \cup {x}) \in Nat
                         /\ Cardinality(E \cup {x}) <= Cardinality(E) + 1
  <2>1. IsFiniteSet(E \cup {x})
    BY <1>2, FS_AddElement
  <2>2. Cardinality(E \cup {x}) = IF x \in E THEN Cardinality(E) ELSE Cardinality(E) + 1
    BY <1>2, FS_AddElement
  <2> QED BY <1>2, <2>1, <2>2
<1>4. ASSUME NEW d \in E
      PROVE  /\ IsFiniteSet(E \ {d}) /\ Cardinality(E \ {d}) \in Nat
             /\ Cardinality(E \ {d}) = Cardinality(E) - 1
  BY <1>2, FS_RemoveElement, FS_CardinalityType
<1>5. ASSUME NEW d \in E, NEW x
      PROVE  /\ IsFiniteSet((E \ {d}) \cup {x}) /\ Cardinality((E \ {d}) \cup {x}) \in Nat
             /\ Cardinality((E \ {d}) \cup {x}) <= Cardinality(E)
  <2> DEFINE rest == E \ {d}
  <2>1. IsFiniteSet(rest) /\ Cardinality(rest) \in Nat /\ Cardinality(rest) + 1 = Cardinality(E)
    BY <1>2, <1>4
  <2> HIDE DEF rest
  <2>2. IsFiniteSet(rest \cup {x})
    BY <2>1, FS_AddElement
  <2>3. Cardinality(rest \cup {x}) = IF x \in rest THEN Cardinality(rest) ELSE Cardinality(rest) + 1
    BY <2>1, FS_AddElement
  <2>4. Cardinality(rest \cup {x}) \in Nat /\ Cardinality(rest \cup {x}) <= Cardinality(E)
    BY <1>2, <2>1, <2>3
  <2> QED BY <2>2, <2>4 DEF rest
<1>6. ASSUME NEW big, IsFiniteSet(big), NEW small, small \subseteq big
      PROVE  /\ IsFiniteSet(small) /\ Cardinality(small) \in Nat /\ Cardinality(big) \in Nat
             /\ Cardinality(small) <= Cardinality(big)
  BY <1>6, FS_Subset, FS_CardinalityType
<1>7. \A more : more \subseteq E => IsFiniteSet(more) /\ Cardinality(more) <= Cardinality(E)
  BY <1>2, <1>6
<1>8. \A d \in E : \A left : left \subseteq E \ {d} =>
         Cardinality(left) \in Nat /\ Cardinality(left) <= Cardinality(E) - 1
  BY <1>4, <1>6
<1>9. \A x, more : more \subseteq E \cup {x} =>
         Cardinality(more) \in Nat /\ Cardinality(more) <= Cardinality(E) + 1
  <2> SUFFICES ASSUME NEW x, NEW more, more \subseteq E \cup {x}
               PROVE  Cardinality(more) \in Nat /\ Cardinality(more) <= Cardinality(E) + 1
    OBVIOUS
  <2>1. Cardinality(more) \in Nat /\ Cardinality(more) <= Cardinality(E \cup {x})
    BY <1>3, <1>6
  <2>2. Cardinality(E \cup {x}) \in Nat /\ Cardinality(E \cup {x}) <= Cardinality(E) + 1
    BY <1>3
  <2> QED BY <1>2, <2>1, <2>2
<1>10. \A d \in E : \A x, other : other \subseteq (E \ {d}) \cup {x} =>
          Cardinality(other) \in Nat /\ Cardinality(other) <= Cardinality(E)
  <2> SUFFICES ASSUME NEW d \in E, NEW x, NEW other, other \subseteq (E \ {d}) \cup {x}
               PROVE  Cardinality(other) \in Nat /\ Cardinality(other) <= Cardinality(E)
    OBVIOUS
  <2>1. Cardinality(other) \in Nat /\ Cardinality(other) <= Cardinality((E \ {d}) \cup {x})
    BY <1>5, <1>6
  <2> QED BY <1>2, <1>5, <2>1
<1> QED BY <1>0, <1>2, <1>7, <1>8, <1>9, <1>10 DEF E

\* A claim uses up an early snapshot, and only a failure makes another.
LEMMA BudgetStep ==
    ASSUME MaxRetries = 0, IsFiniteSet(Dispatchers), RefinementInv, ClaimInv, [Next]_vars,
           NEW e \in Events, WithinBudget(e)
    PROVE  WithinBudget(e)'
<1> SUFFICES ASSUME ~(row'[e].attempts < MaxDispatch)
             PROVE  row'[e].attempts + Cardinality(Early(e)') <=
                       MaxDispatch + Cardinality(Dispatchers) + faults'
  BY DEF WithinBudget
<1>0. /\ TypeOK /\ faults \in Nat /\ faults' \in Nat /\ faults' >= faults
      /\ row[e].attempts \in Nat /\ MaxDispatch \in Nat \ {0} /\ row[e] \in Row
      /\ Cardinality(Early(e)) \in Nat /\ Cardinality(Dispatchers) \in Nat
      /\ Cardinality(Early(e)) <= Cardinality(Dispatchers) + 1
      /\ Free \notin Dispatchers
  BY TypeStep, FaultsOnlyGrow, StoreAssumption, FreeAssumption, EarlyCounts
     DEF RefinementInv, AtLeastOnceInv, TypeOK, StoreTypeOK, Row
<1>1. row'[e] # NoRow /\ row'[e] # FreshRow
  BY <1>0 DEF NoRow, FreshRow
<1>2. ASSUME NEW d \in Dispatchers, EarlyHand(d, e)'
      PROVE  EarlyHand(d, e) \/ TakeSignal(d, e)
  <2>1. InHand(d, e)'
    BY <1>2 DEF EarlyHand, InHand
  <2>2. CASE Kept(d, e)
    BY <1>2, <2>2 DEF Kept, EarlyHand
  <2>3. CASE Swept(d, e)
    <3>1. row' = row /\ task'[d][e].snap = row[e]
      BY <2>3 DEF Swept, StartSweep, storeVars
    <3> QED BY <1>2, <3>1 DEF EarlyHand
  <2> QED BY <1>0, <2>1, <2>2, <2>3, TaskSteps
<1>3. ASSUME NEW d \in Dispatchers, Claim(d, e)
      PROVE  row'[e].attempts + Cardinality(Early(e)') <= MaxDispatch + Cardinality(Dispatchers) + faults'
  <2>1. /\ d \in Early(e) /\ Born(e) /\ task'[d][e].step # "held" /\ faults' = faults
        /\ row'[e].attempts = row[e].attempts + 1
    <3>1. InHand(d, e) /\ EarlyHand(d, e)
      BY <1>3 DEF Claim, MayClaim, Next1, InHand, EarlyHand
    <3>2. Born(e)
      BY <3>1 DEF RefinementInv, AllBorn, BornTasks
    <3>3. UNCHANGED mode /\ task' = [task EXCEPT ![d][e].step = "claimed"]
      BY <1>3 DEF Claim
    <3>4. task'[d][e].step # "held"
      BY <1>0, <3>1, <3>3, StepKeeps
    <3>5. row'[e].attempts = row[e].attempts + 1
      BY <1>0, <1>3 DEF Claim, claim, TypeOK, StoreTypeOK, Row
    <3> QED BY <1>3, <3>1, <3>2, <3>4, <3>5 DEF Early, Claim, Works
  <2>2. \A c \in Dispatchers : ~TakeSignal(c, e)
    <3>1. row[e].attempts \in Nat
      BY <1>0 DEF TypeOK, StoreTypeOK, Row
    <3>2. row' # row
      BY <2>1, <3>1
    <3> QED BY <3>2 DEF TakeSignal, storeVars
  <2>3. Early(e)' \subseteq Early(e) \ {d}
    <3> SUFFICES ASSUME NEW x \in Early(e)' PROVE x \in Early(e) /\ x # d
      OBVIOUS
    <3>1. CASE x \in Dispatchers
      BY <1>0, <1>2, <2>1, <2>2, <3>1 DEF Early, EarlyHand
    <3>2. CASE x = Free /\ Latent(e)'
      BY <1>0, <2>1, <3>2, LatentSteps DEF Early
    <3> QED BY <3>1, <3>2 DEF Early
  <2>4. /\ Cardinality(Early(e)') \in Nat
        /\ Cardinality(Early(e)') <= Cardinality(Early(e)) - 1
    BY <2>1, <2>3, EarlyCounts
  <2>5. CASE row[e].attempts < MaxDispatch
    BY <1>0, <2>1, <2>4, <2>5
  <2>6. CASE ~(row[e].attempts < MaxDispatch)
    BY <1>0, <2>1, <2>4, <2>6 DEF WithinBudget
  <2> QED BY <2>5, <2>6
<1>4. ASSUME Unclaimed(e)
      PROVE  row'[e].attempts + Cardinality(Early(e)') <= MaxDispatch + Cardinality(Dispatchers) + faults'
  <2>1. row'[e].attempts = row[e].attempts
    BY <1>1, <1>4 DEF Unclaimed
  <2>2. row[e].attempts + Cardinality(Early(e)) <= MaxDispatch + Cardinality(Dispatchers) + faults
    BY <2>1 DEF WithinBudget
  <2>3. Born(e)
    <3>1. Exists(e)
      BY <1>0, <1>1, <1>4, <2>1 DEF Unclaimed, Exists, RefinementInv, AtLeastOnceInv,
                                    RealSnapshots, RealRows, NoRow
    <3> QED BY <3>1 DEF RefinementInv, AtLeastOnceInv, AtLeastOnce, OpenIsStored, Born
  <2>4. ASSUME NEW d \in Dispatchers, TakeSignal(d, e)
        PROVE  Cardinality(Early(e)') \in Nat /\ Cardinality(Early(e)') <= Cardinality(Early(e))
    <3>1. Latent(e)
      BY <2>4 DEF TakeSignal, Latent, SignalHeld
    <3>2. sender'[e] = "none"
      BY <2>4 DEF TakeSignal, ClaimInv
    <3>3. SignalHeld(e)'
      BY <1>0, <2>4 DEF TakeSignal, SignalHeld, InHand, TypeOK, DispatchTypeOK
    <3>4. ~Latent(e)'
      BY <3>2, <3>3 DEF Latent
    <3>5. \A c \in Dispatchers : TakeSignal(c, e) => c = d
      BY <1>0, <2>4 DEF TakeSignal, TypeOK, DispatchTypeOK
    <3>6. Early(e)' \subseteq (Early(e) \ {Free}) \cup {d}
      BY <1>0, <1>2, <3>4, <3>5 DEF Early
    <3>7. Free \in Early(e)
      BY <3>1 DEF Early
    <3> QED BY <3>6, <3>7, EarlyCounts
  <2>5. CASE \A d \in Dispatchers : ~TakeSignal(d, e)
    <3>1. CASE faults' > faults
      <4>1. Early(e)' \subseteq Early(e) \cup {Free}
        BY <1>2, <2>5 DEF Early
      <4>2. Cardinality(Early(e)') \in Nat /\ Cardinality(Early(e)') <= Cardinality(Early(e)) + 1
        BY <4>1, EarlyCounts
      <4> QED BY <1>0, <2>1, <2>2, <3>1, <4>2
    <3>2. CASE ~(faults' > faults)
      <4>1. Early(e)' \subseteq Early(e)
        BY <1>2, <2>3, <2>5, <3>2, LatentSteps DEF Early
      <4>2. Cardinality(Early(e)') \in Nat /\ Cardinality(Early(e)') <= Cardinality(Early(e))
        BY <4>1, EarlyCounts, FS_CardinalityType
      <4> QED BY <1>0, <2>1, <2>2, <4>2
    <3> QED BY <3>1, <3>2
  <2> QED BY <1>0, <2>1, <2>2, <2>4, <2>5
<1> QED BY <1>0, <1>3, <1>4, RowSteps

\* However many sweeps, recoveries, signals and crashes there are, an event is dispatched
\* MAX_DISPATCH_ATTEMPTS times, and then once more for each dispatcher that had read it
\* before and for each failure (outbox-processor.ts processSingleEvent).
THEOREM DispatchesAreBounded ==
    MaxRetries = 0 /\ IsFiniteSet(Dispatchers) => (Spec => []DispatchBudget)
<1> SUFFICES ASSUME MaxRetries = 0, IsFiniteSet(Dispatchers) PROVE Spec => []DispatchBudget
  OBVIOUS
<1> DEFINE Inv == RefinementInv /\ ClaimInv /\ \A e \in Events : WithinBudget(e)
<1>1. Init => Inv
  BY ClaimInvInit, StoreAssumption DEF Init, StoreInit, NoRow, WithinBudget
<1>2. Inv /\ [Next]_vars => Inv'
  <2>1. ASSUME Inv, [Next]_vars, NEW e \in Events PROVE WithinBudget(e)'
    BY <2>1, BudgetStep
  <2> QED BY <2>1, RefinementInvStep, ClaimInvStep
<1>3. Inv => DispatchBudget
  <2> SUFFICES ASSUME RefinementInv, NEW e \in Events, WithinBudget(e)
               PROVE  row[e].attempts <= MaxDispatch + Cardinality(Dispatchers) + faults
    BY DEF DispatchBudget
  <2>1. /\ row[e].attempts \in Nat /\ faults \in Nat /\ MaxDispatch \in Nat
        /\ Cardinality(Early(e)) \in Nat /\ Cardinality(Dispatchers) \in Nat
    BY EarlyCounts, StoreAssumption DEF RefinementInv, AtLeastOnceInv, TypeOK, StoreTypeOK, Row
  <2> QED BY <2>1 DEF WithinBudget
<1> QED BY <1>1, <1>2, <1>3, PTL DEF Spec
================================================================================
