------------------------------ MODULE Maintenance ------------------------------
(***************************************************************************)
(* The maintenance jobs: BullMQ's scheduler gives every tick one job, a    *)
(* worker (concurrency 1) runs its phases in order, and each phase works   *)
(* through the rows due in its tables, batch after batch, under the lock   *)
(* of withDistributedLock.  A row is a unit of work here: what becomes of  *)
(* the outbox's rows is in the outbox modules.                             *)
(***************************************************************************)
EXTENDS Naturals, Sequences, FiniteSets, DistributedLock

CONSTANTS
    Schedule,    \* the schedules of MAINTENANCE_SCHEDULES an instance has
    Broken,      \* tables whose statements fail for ever
    BatchSize,
    MaxBatches,  \* RETENTION.MAX_BATCHES_PER_RUN
    MaxDue,      \* bound on the rows that become due in a behaviour
    MaxFaults    \* bound on crashes, stray failures and locks that run out

VARIABLES
    waiting,   \* the schedules with a job in the queue
    pod,       \* [Holder -> Pod]
    todo,      \* [Table -> Nat]: rows past their time
    due,       \* rows that became due so far
    faults

vars == <<lockVars, waiting, pod, todo, due, faults>>

\* A phase: its lock, and the tables it works through in order.
fiveMinSweepPhases == <<[key |-> "expiry-sweep", tables |-> <<"expired">>],
                        [key |-> "processor", tables |-> <<"pending">>]>>
midnightScanPhases == <<[key |-> "recovery", tables |-> <<"stuck">>],
                        [key |-> "processor", tables |-> <<"pending">>]>>
retentionPurgePhases == <<[key |-> "retention", tables |-> <<"old">>]>>
analyticsRetentionPhases == <<[key |-> "analytics-retention",
                               tables |-> <<"events", "sessions", "visitors">>]>>
failedJobsCleanupPhases == <<[key |-> "failed-purge", tables |-> <<"failed">>]>>

PhasesFor ==
    [five_min_sweep |-> fiveMinSweepPhases, midnight_scan |-> midnightScanPhases,
     retention_purge |-> retentionPurgePhases,
     analytics_retention |-> analyticsRetentionPhases,
     failed_jobs_cleanup |-> failedJobsCleanupPhases]

\* The deletions go on until the table is drained; the two dispatch sweeps fetch once.
Fetched == {"pending", "stuck"}
Analytic == {"events", "sessions", "visitors"}

Tables(ph) == {ph.tables[i] : i \in 1..Len(ph.tables)}
Table == UNION {UNION {Tables(PhasesFor[j][i]) : i \in 1..Len(PhasesFor[j])} : j \in Schedule}

ASSUME MaintenanceAssumption ==
    /\ Schedule \subseteq DOMAIN PhasesFor
    /\ Key = UNION {{PhasesFor[j][i].key : i \in 1..Len(PhasesFor[j])} : j \in Schedule}
    /\ BatchSize \in Nat \ {0}
    /\ MaxBatches \in Nat \ {0}
    /\ MaxDue \in Nat
    /\ MaxFaults \in Nat

Pod == [step: {"idle", "acquire", "work", "release"}, job: Schedule \cup {"none"},
        phase: 0..2, table: 0..3, batches: 0..MaxBatches, left: 0..BatchSize]
NoJob == [step |-> "idle", job |-> "none", phase |-> 0, table |-> 0, batches |-> 0, left |-> 0]

Phase(p) == PhasesFor[pod[p].job][pod[p].phase]
Current(p) == Phase(p).tables[pod[p].table]
Working(p, k) == pod[p].step \in {"work", "release"} /\ Phase(p).key = k
Least(m, n) == IF m <= n THEN m ELSE n

TypeOK ==
    /\ LockTypeOK
    /\ waiting \subseteq Schedule
    /\ pod \in [Holder -> Pod]
    /\ todo \in [Table -> Nat]
    /\ due \in 0..MaxDue
    /\ faults \in 0..MaxFaults

Init ==
    /\ LockInit
    /\ waiting = {}
    /\ pod = [p \in Holder |-> NoJob]
    /\ todo = [t \in Table |-> 0]
    /\ due = 0
    /\ faults = 0

Fault == faults < MaxFaults /\ faults' = faults + 1

-----------------------------------------------------------------------------
(* The queue *)

\* The scheduler emits a tick's job, one for all pods.
Tick(j) ==
    /\ waiting' = waiting \cup {j}
    /\ UNCHANGED <<lockVars, pod, todo, due, faults>>

\* The pod turns to a phase of a job.
Turn(j, i) == [NoJob EXCEPT !.step = "acquire", !.job = j, !.phase = i]

Take(p, j) ==
    /\ pod[p] = NoJob
    /\ j \in waiting
    /\ waiting' = waiting \ {j}
    /\ pod' = [pod EXCEPT ![p] = Turn(j, 1)]
    /\ UNCHANGED <<lockVars, todo, due, faults>>

\* A row's time comes.  (Those of a broken table are never counted down.)
Due(t) ==
    /\ due < MaxDue
    /\ t \notin Broken
    /\ due' = due + 1
    /\ todo' = [todo EXCEPT ![t] = @ + 1]
    /\ UNCHANGED <<lockVars, waiting, pod, faults>>

-----------------------------------------------------------------------------
(* A phase *)

\* runAllPhases: the next phase whatever became of this one; the job ends as
\* completed, for withDistributedLock lets no error through.
nextPhase(p) ==
    pod' = [pod EXCEPT ![p] =
              IF @.phase < Len(PhasesFor[@.job]) THEN Turn(@.job, @.phase + 1) ELSE NoJob]

\* The first batch of a phase, or of its next table.
Begin(q, i, t) ==
    [q EXCEPT !.step = "work", !.table = i, !.batches = MaxBatches,
              !.left = IF t \in Fetched THEN Least(todo[t], BatchSize) ELSE BatchSize]

Acquire(p) ==
    /\ pod[p].step = "acquire"
    /\ acquire(Phase(p).key, p)
    /\ pod' = [pod EXCEPT ![p] = Begin(@, 1, Phase(p).tables[1])]
    /\ UNCHANGED <<waiting, todo, due, faults>>

\* Somebody else has the key: the phase is skipped.
NotAcquired(p) ==
    /\ pod[p].step = "acquire"
    /\ lock[Phase(p).key] # Free
    /\ nextPhase(p)
    /\ UNCHANGED <<lockVars, waiting, todo, due, faults>>

\* Redis does not answer, and may have set the key all the same.
AcquireFails(p) ==
    /\ pod[p].step = "acquire"
    /\ Fault
    /\ UNCHANGED lockVars \/ (lock[Phase(p).key] = Free /\ Abandon(Phase(p).key, p))
    /\ nextPhase(p)
    /\ UNCHANGED <<waiting, todo, due>>

-----------------------------------------------------------------------------
(* The work, statement by statement; renew is not looked at *)

\* The next table of the phase, or its end.
nextTable(p) ==
    pod' = [pod EXCEPT ![p] =
              IF @.table < Len(Phase(p).tables)
              THEN Begin(@, @.table + 1, Phase(p).tables[@.table + 1])
              ELSE [@ EXCEPT !.step = "release"]]

\* deleteExpiredInBatches and its likes: until a short batch.  purgeInBatches:
\* until an empty one, or the ceiling.
Deletes(p) ==
    LET t == Current(p)
        n == Least(todo[t], BatchSize)
        more == IF t \in Analytic THEN n > 0 /\ pod[p].batches > 1 ELSE n = BatchSize
    IN /\ pod[p].step = "work" /\ t \notin Fetched \cup Broken
       /\ todo' = [todo EXCEPT ![t] = @ - n]
       /\ IF more THEN pod' = [pod EXCEPT ![p].batches = IF t \in Analytic THEN @ - 1 ELSE @]
                  ELSE nextTable(p)
       /\ UNCHANGED <<lockVars, waiting, due, faults>>

\* Mutant: an event is taken to be due still because it was fetched.
ProcessesBlindly(p) ==
    /\ pod[p].step = "work" /\ Current(p) \in Fetched \ Broken /\ pod[p].left > 0
    /\ todo' = [todo EXCEPT ![Current(p)] = @ - 1]
    /\ pod' = [pod EXCEPT ![p].left = @ - 1]
    /\ UNCHANGED <<lockVars, waiting, due, faults>>

\* processPendingEvents, processStuckSendingEvents: one event of the fetched.
\* Another sweep may have had it first.
Processes(p) ==
    LET t == Current(p)
    IN /\ pod[p].step = "work" /\ t \in Fetched \ Broken /\ pod[p].left > 0
       /\ todo' = [todo EXCEPT ![t] = IF @ > 0 THEN @ - 1 ELSE 0]
       /\ pod' = [pod EXCEPT ![p].left = @ - 1]
       /\ UNCHANGED <<lockVars, waiting, due, faults>>

Processed(p) ==
    /\ pod[p].step = "work" /\ Current(p) \in Fetched /\ pod[p].left = 0
    /\ nextTable(p)
    /\ UNCHANGED <<lockVars, waiting, todo, due, faults>>

\* Mutant: an error leaves without passing by the finally.
FailsWithoutFinally(p) ==
    /\ pod[p].step = "work"
    /\ Current(p) \in Fetched => pod[p].left > 0
    /\ IF Current(p) \in Broken THEN UNCHANGED faults ELSE Fault
    /\ nextPhase(p)
    /\ UNCHANGED <<lockVars, waiting, todo, due>>

\* Mutant: a table's error ends the sweep, the tables after it included.
FailsTheSweep(p) ==
    /\ pod[p].step = "work"
    /\ Current(p) \in Fetched => pod[p].left > 0
    /\ IF Current(p) \in Broken THEN UNCHANGED faults ELSE Fault
    /\ pod' = [pod EXCEPT ![p].step = "release"]
    /\ UNCHANGED <<lockVars, waiting, todo, due>>

\* A statement fails: this table is left, an event of a sweep passed over.
Fails(p) ==
    /\ pod[p].step = "work"
    /\ Current(p) \in Fetched => pod[p].left > 0
    /\ IF Current(p) \in Broken THEN UNCHANGED faults ELSE Fault
    /\ IF Current(p) \in Fetched THEN pod' = [pod EXCEPT ![p].left = @ - 1] ELSE nextTable(p)
    /\ UNCHANGED <<lockVars, waiting, todo, due>>

\* work throws: the catch logs it, the finally releases.
Throws(p) ==
    /\ pod[p].step = "work"
    /\ Fault
    /\ pod' = [pod EXCEPT ![p].step = "release"]
    /\ UNCHANGED <<lockVars, waiting, todo, due>>

Release(p) ==
    /\ pod[p].step = "release"
    /\ \/ (release(Phase(p).key, p) /\ UNCHANGED faults)
       \/ (Strand(Phase(p).key, p) /\ Fault)
    /\ nextPhase(p)
    /\ UNCHANGED <<waiting, todo, due>>

-----------------------------------------------------------------------------
(* What goes wrong around it *)

\* The process dies: BullMQ finds the job stalled and queues it again.
Crash(p) ==
    /\ pod[p].step # "idle"
    /\ Fault
    /\ IF pod[p].step = "acquire" THEN UNCHANGED lockVars ELSE Strand(Phase(p).key, p)
    /\ waiting' = waiting \cup {pod[p].job}
    /\ pod' = [pod EXCEPT ![p] = NoJob]
    /\ UNCHANGED <<todo, due>>

\* A stranded key runs out in time, a working holder's only if a statement takes
\* longer than the lock lives.
KeyExpires(k) ==
    /\ Expires(k)
    /\ IF k \in stranded THEN UNCHANGED faults ELSE Fault
    /\ UNCHANGED <<waiting, pod, todo, due>>

Step(p) ==
    \/ \E j \in Schedule : Take(p, j)
    \/ Acquire(p) \/ NotAcquired(p) \/ AcquireFails(p)
    \/ Deletes(p) \/ Processes(p) \/ Processed(p) \/ Fails(p) \/ Throws(p) \/ Release(p)

Next ==
    \/ \E j \in Schedule : Tick(j)
    \/ \E p \in Holder : Step(p) \/ Crash(p)
    \/ \E k \in Key : KeyExpires(k)
    \/ \E t \in Table : Due(t)

\* Ticks come for ever; a worker goes on with its job; the queue is a list, and each
\* of its jobs comes to its turn; keys have a lifetime.
Fairness ==
    /\ \A j \in Schedule : WF_vars(Tick(j))
    /\ \A p \in Holder : WF_vars(Step(p))
    /\ \A j \in Schedule : SF_vars(\E p \in Holder : Take(p, j))
    /\ \A k \in Key : WF_vars(k \in stranded /\ KeyExpires(k))

Spec == Init /\ [][Next]_vars /\ Fairness

-----------------------------------------------------------------------------

\* Two pods are inside the work of one lock only after the lock of one of them ran
\* out under it: a holder that comes late to its release frees nobody else's.
SoleSweep ==
    \A p, q \in Holder, k \in Key :
        Working(p, k) /\ Working(q, k) => p = q \/ lapsed \cap {p, q} # {}

\* A key outlives its holder's work only by a crash or a DEL that failed, never by
\* an error of the work: the next tick finds it free.
LocksAreFreed ==
    \A k \in Key : lock[k] # Free => Working(lock[k], k) \/ k \in stranded

\* Retention is not transactional: what is left over one night goes another.  A
\* table is drained in the end, with crashes, errors, skipped phases and a ceiling
\* on the batches of a run, and though another table of the same phase, or of the
\* phase before, fails for ever.
BacklogDrains == \A t \in Table \ Broken : todo[t] > 0 ~> todo[t] = 0
================================================================================
