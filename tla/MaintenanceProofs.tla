--------------------------- MODULE MaintenanceProofs ---------------------------
(***************************************************************************)
(* The safety of the maintenance locks, for any number of pods, any        *)
(* schedules and batches, and however often pods crash and locks run out.  *)
(* SoleSweep and LocksAreFreed are inductive only together, and with what  *)
(* a stranded key is: one whose holder no longer works under it, so that   *)
(* its running out takes nothing from anybody.                             *)
(***************************************************************************)
EXTENDS Maintenance, TLAPS

USE LockAssumption, MaintenanceAssumption

PhaseOf(q) == PhasesFor[q.job][q.phase]

\* A pod that has a job is at one of its phases, and at work at one of its tables.
OnJob(q) ==
    q.step # "idle" =>
        /\ q.job \in Schedule
        /\ q.phase \in 1..Len(PhasesFor[q.job])
        /\ q.step = "work" => q.table \in 1..Len(PhaseOf(q).tables)

Works(q, k) == q.step \in {"work", "release"} /\ PhaseOf(q).key = k

\* The locks lk, those that lapsed and those stranded, beside the pods.
LocksInv(lk, lp, st, pods) ==
    /\ \A p \in Holder, k \in Key : Works(pods[p], k) => lk[k] = p \/ p \in lp
    /\ \A k \in st : lk[k] # Free /\ ~Works(pods[lk[k]], k)
    /\ \A k \in Key : lk[k] # Free => Works(pods[lk[k]], k) \/ k \in st

IInv ==
    /\ TypeOK
    /\ \A p \in Holder : OnJob(pod[p])
    /\ LocksInv(lock, lapsed, stranded, pod)

-----------------------------------------------------------------------------
(* The phases *)

LEMMA FivePhaseLists ==
    ASSUME NEW j \in DOMAIN PhasesFor
    PROVE  PhasesFor[j] \in {fiveMinSweepPhases, midnightScanPhases, retentionPurgePhases,
                             analyticsRetentionPhases, failedJobsCleanupPhases}
  BY DEF PhasesFor

LEMMA PhaseShape ==
    ASSUME NEW j \in Schedule
    PROVE  /\ Len(PhasesFor[j]) \in 1..2
           /\ \A i \in 1..Len(PhasesFor[j]) :
                 /\ Len(PhasesFor[j][i].tables) \in 1..3
                 /\ PhasesFor[j][i].key \in Key
                 /\ \A n \in 1..Len(PhasesFor[j][i].tables) : PhasesFor[j][i].tables[n] \in Table
  <1>1. ASSUME NEW s \in {fiveMinSweepPhases, midnightScanPhases, retentionPurgePhases,
                          analyticsRetentionPhases, failedJobsCleanupPhases}
        PROVE  Len(s) \in 1..2 /\ \A i \in 1..Len(s) : Len(s[i].tables) \in 1..3
    <2>1. Len(fiveMinSweepPhases) = 2 /\ \A i \in 1..2 : Len(fiveMinSweepPhases[i].tables) = 1
      BY DEF fiveMinSweepPhases
    <2>2. Len(midnightScanPhases) = 2 /\ \A i \in 1..2 : Len(midnightScanPhases[i].tables) = 1
      BY DEF midnightScanPhases
    <2>3. Len(retentionPurgePhases) = 1 /\ Len(retentionPurgePhases[1].tables) = 1
      BY DEF retentionPurgePhases
    <2>4. Len(analyticsRetentionPhases) = 1 /\ Len(analyticsRetentionPhases[1].tables) = 3
      BY DEF analyticsRetentionPhases
    <2>5. Len(failedJobsCleanupPhases) = 1 /\ Len(failedJobsCleanupPhases[1].tables) = 1
      BY DEF failedJobsCleanupPhases
    <2> QED BY <2>1, <2>2, <2>3, <2>4, <2>5
  <1>2. Len(PhasesFor[j]) \in 1..2 /\ \A i \in 1..Len(PhasesFor[j]) : Len(PhasesFor[j][i].tables) \in 1..3
    BY <1>1, FivePhaseLists
  <1>3. \A i \in 1..Len(PhasesFor[j]) : PhasesFor[j][i].key \in Key
    OBVIOUS
  <1>4. ASSUME NEW i \in 1..Len(PhasesFor[j]), NEW n \in 1..Len(PhasesFor[j][i].tables)
        PROVE  PhasesFor[j][i].tables[n] \in Table
    BY DEF Table, Tables
  <1> QED BY <1>2, <1>3, <1>4

\* Where a pod with a job is.
LEMMA OnPhase ==
    ASSUME NEW q \in Pod, OnJob(q), q.step # "idle"
    PROVE  /\ PhaseOf(q).key \in Key
           /\ Len(PhaseOf(q).tables) \in 1..3
           /\ \A n \in 1..Len(PhaseOf(q).tables) : PhaseOf(q).tables[n] \in Table
  BY PhaseShape DEF OnJob, PhaseOf

-----------------------------------------------------------------------------
(* Where a pod goes next *)

AfterPhase(q) == IF q.phase < Len(PhasesFor[q.job]) THEN Turn(q.job, q.phase + 1) ELSE NoJob

LEMMA TurnIsSound ==
    ASSUME NEW j \in Schedule, NEW i \in 1..Len(PhasesFor[j])
    PROVE  Turn(j, i) \in Pod /\ OnJob(Turn(j, i)) /\ Turn(j, i).step = "acquire"
  <1>1. i \in 0..2 /\ 0 \in 0..3 /\ 0 \in 0..MaxBatches /\ 0 \in 0..BatchSize
    BY PhaseShape
  <1>2. /\ Turn(j, i).step = "acquire" /\ Turn(j, i).job = j /\ Turn(j, i).phase = i
        /\ Turn(j, i) \in Pod
    BY <1>1 DEF Turn, NoJob, Pod
  <1> QED BY <1>2 DEF OnJob

LEMMA NoJobIsSound == NoJob \in Pod /\ OnJob(NoJob) /\ NoJob.step = "idle"
  BY DEF NoJob, Pod, OnJob

LEMMA NextIsSound ==
    ASSUME NEW q \in Pod, OnJob(q), q.step # "idle"
    PROVE  AfterPhase(q) \in Pod /\ OnJob(AfterPhase(q)) /\ AfterPhase(q).step \in {"idle", "acquire"}
  <1>1. q.job \in Schedule /\ q.phase \in 1..Len(PhasesFor[q.job]) /\ Len(PhasesFor[q.job]) \in 1..2
    BY PhaseShape DEF OnJob
  <1>2. CASE q.phase < Len(PhasesFor[q.job])
    <2>1. q.phase + 1 \in 1..Len(PhasesFor[q.job])
      BY <1>1, <1>2
    <2> QED BY <1>1, <1>2, <2>1, TurnIsSound DEF AfterPhase
  <1>3. CASE ~(q.phase < Len(PhasesFor[q.job]))
    BY <1>3, NoJobIsSound DEF AfterPhase
  <1> QED BY <1>2, <1>3

\* The pod starts on a table of its phase.
LEMMA BeginIsSound ==
    ASSUME todo \in [Table -> Nat], NEW q \in Pod, OnJob(q), q.step # "idle",
           NEW i \in 1..Len(PhaseOf(q).tables)
    PROVE  LET b == Begin(q, i, PhaseOf(q).tables[i])
           IN  b \in Pod /\ OnJob(b) /\ b.step = "work" /\ PhaseOf(b) = PhaseOf(q)
  <1> DEFINE t == PhaseOf(q).tables[i]
             left == IF t \in Fetched THEN Least(todo[t], BatchSize) ELSE BatchSize
             b == [q EXCEPT !.step = "work", !.table = i, !.batches = MaxBatches, !.left = left]
  <1>1. t \in Table /\ i \in 0..3
    BY OnPhase
  <1>2. left \in 0..BatchSize /\ MaxBatches \in 0..MaxBatches
    BY <1>1 DEF Least
  <1> HIDE DEF left
  <1>3. /\ b \in Pod /\ b.step = "work" /\ b.job = q.job /\ b.phase = q.phase /\ b.table = i
    BY <1>1, <1>2 DEF Pod
  <1>4. Begin(q, i, t) = b
    BY DEF Begin, left
  <1> HIDE DEF b
  <1>5. PhaseOf(b) = PhaseOf(q)
    BY <1>3 DEF PhaseOf
  <1>6. OnJob(b)
    BY <1>3, <1>5 DEF OnJob
  <1> QED BY <1>3, <1>4, <1>5, <1>6
AfterTable(q) ==
    IF q.table < Len(PhaseOf(q).tables)
    THEN Begin(q, q.table + 1, PhaseOf(q).tables[q.table + 1])
    ELSE [q EXCEPT !.step = "release"]

LEMMA TableIsSound ==
    ASSUME todo \in [Table -> Nat], NEW q \in Pod, OnJob(q), q.step = "work"
    PROVE  LET b == AfterTable(q)
           IN  b \in Pod /\ OnJob(b) /\ b.step \in {"work", "release"} /\ PhaseOf(b) = PhaseOf(q)
  <1>1. q.table \in 1..Len(PhaseOf(q).tables) /\ Len(PhaseOf(q).tables) \in 1..3
    BY OnPhase DEF OnJob
  <1>2. CASE q.table < Len(PhaseOf(q).tables)
    <2>1. q.table + 1 \in 1..Len(PhaseOf(q).tables)
      BY <1>1, <1>2
    <2> QED BY <1>2, <2>1, BeginIsSound DEF AfterTable
  <1>3. CASE ~(q.table < Len(PhaseOf(q).tables))
    <2> DEFINE b == [q EXCEPT !.step = "release"]
    <2>1. b \in Pod /\ b.step = "release" /\ b.job = q.job /\ b.phase = q.phase
      BY DEF Pod
    <2>2. AfterTable(q) = b
      BY <1>3 DEF AfterTable
    <2> HIDE DEF b
    <2>3. PhaseOf(b) = PhaseOf(q)
      BY <2>1 DEF PhaseOf
    <2> QED BY <2>1, <2>2, <2>3 DEF OnJob
  <1> QED BY <1>2, <1>3

-----------------------------------------------------------------------------
(* A step of one pod *)

Rest == /\ waiting \subseteq Schedule
        /\ todo \in [Table -> Nat]
        /\ due \in 0..MaxDue
        /\ faults \in 0..MaxFaults

LEMMA Parts ==
    IInv <=> /\ Rest /\ LockTypeOK /\ LocksInv(lock, lapsed, stranded, pod)
             /\ pod \in [Holder -> Pod] /\ \A p \in Holder : OnJob(pod[p])
  BY DEF IInv, TypeOK, Rest

LEMMA PodMoves ==
    ASSUME IInv, NEW p \in Holder, NEW q \in Pod, OnJob(q), pod' = [pod EXCEPT ![p] = q],
           Rest', LockTypeOK', LocksInv(lock', lapsed', stranded', pod')
    PROVE  IInv'
  <1>1. pod \in [Holder -> Pod] /\ \A m \in Holder : OnJob(pod[m])
    BY Parts
  <1>2. pod' \in [Holder -> Pod] /\ \A m \in Holder : OnJob(pod'[m])
    BY <1>1
  <1> QED BY <1>2 DEF IInv, TypeOK, Rest, OnJob, PhaseOf

\* Whose work a pod is in does not change, nor any lock.
LEMMA SameWork ==
    ASSUME IInv, NEW p \in Holder, NEW q, pod' = [pod EXCEPT ![p] = q],
           \A k \in Key : Works(q, k) <=> Works(pod[p], k), UNCHANGED lockVars
    PROVE  LockTypeOK' /\ LocksInv(lock', lapsed', stranded', pod')
  <1>1. LockTypeOK /\ LocksInv(lock, lapsed, stranded, pod) /\ pod \in [Holder -> Pod]
    BY Parts
  <1>2. LockTypeOK' /\ lock' = lock /\ lapsed' = lapsed /\ stranded' = stranded
    BY <1>1 DEF lockVars, LockTypeOK
  <1>3. \A m \in Holder, k \in Key : Works(pod'[m], k) <=> Works(pod[m], k)
    BY <1>1
  <1> QED BY <1>1, <1>2, <1>3 DEF LocksInv, LockTypeOK

LEMMA StaysInWork ==
    ASSUME IInv, NEW p \in Holder, NEW q \in Pod, OnJob(q), pod' = [pod EXCEPT ![p] = q],
           pod[p].step = "work", q.step \in {"work", "release"}, PhaseOf(q) = PhaseOf(pod[p]),
           UNCHANGED lockVars, Rest'
    PROVE  IInv'
  <1>1. \A k \in Key : Works(q, k) <=> Works(pod[p], k)
    BY DEF Works
  <1> QED BY <1>1, SameWork, PodMoves

LEMMA StaysOutside ==
    ASSUME IInv, NEW p \in Holder, NEW q \in Pod, OnJob(q), pod' = [pod EXCEPT ![p] = q],
           pod[p].step \in {"idle", "acquire"}, q.step \in {"idle", "acquire"},
           UNCHANGED lockVars, Rest'
    PROVE  IInv'
  <1>1. \A k \in Key : Works(q, k) <=> Works(pod[p], k)
    BY DEF Works
  <1> QED BY <1>1, SameWork, PodMoves

LEMMA LockTaken ==
    ASSUME IInv, NEW p \in Holder, NEW q \in Pod, OnJob(q), pod' = [pod EXCEPT ![p] = q],
           pod[p].step = "acquire", NEW key \in Key, acquire(key, p),
           q.step = "work", PhaseOf(q).key = key, Rest'
    PROVE  IInv'
  <1>1. LockTypeOK /\ LocksInv(lock, lapsed, stranded, pod) /\ pod \in [Holder -> Pod]
    BY Parts
  <1>2. /\ lock[key] = Free /\ lock' = [lock EXCEPT ![key] = p]
        /\ lapsed' = lapsed \ {p} /\ stranded' = stranded
    BY DEF acquire
  <1>3. LockTypeOK'
    BY <1>1, <1>2 DEF LockTypeOK
  <1>4. key \notin stranded
    BY <1>1, <1>2 DEF LocksInv
  <1>5. \A k \in Key : ~Works(pod[p], k) /\ (Works(q, k) <=> k = key)
    BY DEF Works
  <1>6. \A m \in Holder \ {p} : pod'[m] = pod[m]
    BY <1>1
  <1>7. pod'[p] = q /\ lock'[key] = p /\ \A k \in Key \ {key} : lock'[k] = lock[k]
    BY <1>1, <1>2 DEF LockTypeOK
  <1>8. ASSUME NEW m \in Holder, NEW k \in Key, Works(pod'[m], k) PROVE lock'[k] = m \/ m \in lapsed'
    BY <1>1, <1>2, <1>5, <1>6, <1>7, <1>8 DEF LocksInv
  <1>9. ASSUME NEW k \in stranded' PROVE lock'[k] # Free /\ ~Works(pod'[lock'[k]], k)
    <2>1. k \in Key /\ k # key /\ lock[k] # Free /\ ~Works(pod[lock[k]], k) /\ lock'[k] = lock[k]
      BY <1>1, <1>2, <1>4, <1>7, <1>9 DEF LocksInv, LockTypeOK
    <2>2. lock[k] \in Holder
      BY <1>1, <2>1 DEF LockTypeOK
    <2> QED BY <1>5, <1>6, <1>7, <2>1, <2>2
  <1>10. ASSUME NEW k \in Key, lock'[k] # Free PROVE Works(pod'[lock'[k]], k) \/ k \in stranded'
    <2>1. CASE k = key
      BY <1>5, <1>7, <2>1
    <2>2. CASE k # key
      <3>1. lock'[k] = lock[k] /\ lock[k] \in Holder
        BY <1>1, <1>7, <1>10, <2>2 DEF LockTypeOK
      <3>2. Works(pod[lock[k]], k) \/ k \in stranded
        BY <1>1, <1>10, <3>1 DEF LocksInv
      <3> QED BY <1>2, <1>5, <1>6, <3>1, <3>2
    <2> QED BY <2>1, <2>2
  <1>11. LocksInv(lock', lapsed', stranded', pod')
    BY <1>8, <1>9, <1>10 DEF LocksInv
  <1> QED BY <1>3, <1>11, PodMoves

\* The pod leaves its work, or never came to it; a key of its own is freed or stranded.
LEMMA LockLeft ==
    ASSUME IInv, NEW p \in Holder, NEW q \in Pod, OnJob(q), pod' = [pod EXCEPT ![p] = q],
           q.step \in {"idle", "acquire"}, NEW key \in Key,
           \A k \in Key : Works(pod[p], k) => k = key,
           \/ Works(pod[p], key) /\ release(key, p)
           \/ Strand(key, p)
           \/ lock[key] = Free /\ Abandon(key, p),
           Rest'
    PROVE  IInv'
  <1>1. LockTypeOK /\ LocksInv(lock, lapsed, stranded, pod) /\ pod \in [Holder -> Pod]
    BY Parts
  <1>2. lapsed' = lapsed /\ \A k \in Key \ {key} : lock'[k] = lock[k] /\ (k \in stranded' <=> k \in stranded)
    BY <1>1 DEF release, Strand, Abandon, LockTypeOK
  <1>3. \/ lock'[key] = Free /\ lock[key] = p /\ Works(pod[p], key) /\ stranded' = stranded
        \/ lock'[key] = lock[key] /\ lock[key] # p /\ stranded' = stranded
        \/ lock'[key] = p /\ lock[key] \in {p, Free} /\ stranded' = stranded \cup {key}
    BY <1>1 DEF release, Strand, Abandon, LockTypeOK
  <1>4. LockTypeOK'
    <2>1. CASE release(key, p)
      BY <1>1, <2>1 DEF release, LockTypeOK
    <2>2. CASE Strand(key, p)
      BY <1>1, <2>2 DEF Strand, LockTypeOK
    <2>3. CASE Abandon(key, p)
      BY <1>1, <2>3 DEF Abandon, LockTypeOK
    <2> QED BY <2>1, <2>2, <2>3
  <1>5. \A k \in Key : ~Works(q, k)
    BY DEF Works
  <1>6. pod'[p] = q /\ \A m \in Holder \ {p} : pod'[m] = pod[m]
    BY <1>1
  <1>7. ASSUME NEW m \in Holder, NEW k \in Key, Works(pod'[m], k) PROVE lock'[k] = m \/ m \in lapsed'
    <2>1. m # p /\ Works(pod[m], k)
      BY <1>5, <1>6, <1>7
    <2>2. lock[k] = m \/ m \in lapsed
      BY <1>1, <2>1 DEF LocksInv
    <2> QED BY <1>2, <1>3, <2>1, <2>2
  <1>8. ASSUME NEW k \in Key, k \in stranded' PROVE lock'[k] # Free /\ ~Works(pod'[lock'[k]], k)
    <2>1. CASE lock'[k] = p
      BY <1>5, <1>6, <2>1
    <2>2. CASE lock'[k] # p
      <3>1. k \in stranded
        BY <1>2, <1>3, <1>8, <2>2
      <3>2. lock[k] # Free /\ ~Works(pod[lock[k]], k) /\ lock[k] \in Holder
        BY <1>1, <3>1 DEF LocksInv, LockTypeOK
      <3> QED BY <1>2, <1>3, <1>6, <2>2, <3>2
    <2> QED BY <2>1, <2>2
  <1>9. ASSUME NEW k \in Key, lock'[k] # Free PROVE Works(pod'[lock'[k]], k) \/ k \in stranded'
    <2>1. CASE k \in stranded'
      BY <2>1
    <2>2. CASE k \notin stranded'
      <3>1. lock[k] = lock'[k] /\ k \notin stranded
        BY <1>2, <1>3, <1>9, <2>2
      <3>2. lock[k] \in Holder /\ Works(pod[lock[k]], k)
        BY <1>1, <1>9, <3>1 DEF LocksInv, LockTypeOK
      <3>3. lock[k] # p
        BY <1>3, <1>9, <2>2, <3>1, <3>2
      <3> QED BY <1>6, <3>1, <3>2, <3>3
    <2> QED BY <2>1, <2>2
  <1>10. stranded' \subseteq Key
    BY <1>4 DEF LockTypeOK
  <1>11. LocksInv(lock', lapsed', stranded', pod')
    BY <1>7, <1>8, <1>9, <1>10 DEF LocksInv
  <1> QED BY <1>4, <1>11, PodMoves
\* A key's time is up: only a stranded one's costs nobody anything.
LEMMA ExpiryKeeps ==
    ASSUME IInv, NEW key \in Key, KeyExpires(key) PROVE IInv'
  <1>1. /\ LockTypeOK /\ LocksInv(lock, lapsed, stranded, pod) /\ pod \in [Holder -> Pod]
        /\ Rest /\ \A p \in Holder : OnJob(pod[p])
    BY Parts
  <1>2. /\ lock[key] # Free /\ lock' = [lock EXCEPT ![key] = Free] /\ stranded' = stranded \ {key}
        /\ lapsed' = IF key \in stranded THEN lapsed ELSE lapsed \cup {lock[key]}
    BY DEF KeyExpires, Expires
  <1>3. UNCHANGED <<waiting, pod, todo, due>> /\ (faults' = faults \/ Fault)
    BY DEF KeyExpires
  <1>4. Rest'
    BY <1>1, <1>3 DEF Rest, Fault
  <1>5. lock[key] \in Holder
    BY <1>1, <1>2 DEF LockTypeOK
  <1>6. LockTypeOK'
    BY <1>1, <1>2, <1>5 DEF LockTypeOK
  <1>7. lock'[key] = Free /\ \A k \in Key \ {key} : lock'[k] = lock[k]
    BY <1>1, <1>2 DEF LockTypeOK
  <1>8. ASSUME NEW m \in Holder, NEW k \in Key, Works(pod[m], k) PROVE lock'[k] = m \/ m \in lapsed'
    <2>1. lock[k] = m \/ m \in lapsed
      BY <1>1, <1>8 DEF LocksInv
    <2>2. lapsed \subseteq lapsed'
      BY <1>2
    <2>3. CASE k = key /\ lock[k] = m
      <3>1. key \notin stranded
        BY <1>1, <1>8, <2>3 DEF LocksInv
      <3> QED BY <1>2, <2>3, <3>1
    <2>4. CASE k # key /\ lock[k] = m
      BY <1>7, <2>4
    <2> QED BY <2>1, <2>2, <2>3, <2>4
  <1>9. ASSUME NEW k \in stranded' PROVE lock'[k] # Free /\ ~Works(pod[lock'[k]], k)
    <2>1. k \in stranded /\ k \in Key /\ k # key
      BY <1>1, <1>2, <1>9 DEF LockTypeOK
    <2> QED BY <1>1, <1>7, <2>1 DEF LocksInv
  <1>10. ASSUME NEW k \in Key, lock'[k] # Free PROVE Works(pod[lock'[k]], k) \/ k \in stranded'
    <2>1. k # key /\ lock'[k] = lock[k]
      BY <1>7, <1>10
    <2> QED BY <1>1, <1>2, <1>10, <2>1 DEF LocksInv
  <1>11. LocksInv(lock', lapsed', stranded', pod')
    BY <1>3, <1>8, <1>9, <1>10 DEF LocksInv
  <1> QED BY <1>1, <1>3, <1>4, <1>6, <1>11 DEF IInv, TypeOK, Rest, OnJob, PhaseOf

-----------------------------------------------------------------------------
(* Every action *)

LEMMA QueueKeeps ==
    ASSUME IInv, (\E j \in Schedule : Tick(j)) \/ (\E t \in Table : Due(t)) PROVE IInv'
  <1>1. UNCHANGED <<lockVars, pod, faults>>
    BY DEF Tick, Due
  <1>2. Rest'
    <2>1. Rest
      BY Parts
    <2>2. CASE \E j \in Schedule : Tick(j)
      BY <2>1, <2>2 DEF Tick, Rest
    <2>3. CASE \E t \in Table : Due(t)
      <3>1. PICK t \in Table : Due(t)
        BY <2>3
      <3>2. due < MaxDue /\ due' = due + 1 /\ todo' = [todo EXCEPT ![t] = todo[t] + 1] /\ waiting' = waiting
        BY <3>1 DEF Due
      <3>3. due' \in 0..MaxDue /\ todo' \in [Table -> Nat]
        BY <2>1, <3>2 DEF Rest
      <3> QED BY <1>1, <2>1, <3>2, <3>3 DEF Rest
    <2> QED BY <2>2, <2>3
  <1>3. pod' = pod /\ lock' = lock /\ lapsed' = lapsed /\ stranded' = stranded
    BY <1>1 DEF lockVars
  <1>4. LockTypeOK' /\ LocksInv(lock', lapsed', stranded', pod')
    BY <1>3, Parts DEF LockTypeOK
  <1>5. pod' \in [Holder -> Pod] /\ \A p \in Holder : OnJob(pod'[p])
    BY <1>3, Parts
  <1> QED BY <1>2, <1>4, <1>5 DEF IInv, TypeOK, Rest, OnJob, PhaseOf

LEMMA TakeKeeps ==
    ASSUME IInv, NEW p \in Holder, NEW j \in Schedule, Take(p, j) PROVE IInv'
  <1>1. pod[p].step = "idle" /\ pod' = [pod EXCEPT ![p] = Turn(j, 1)] /\ UNCHANGED lockVars
    BY NoJobIsSound DEF Take
  <1>2. Rest'
    BY Parts DEF Take, Rest
  <1>3. 1 \in 1..Len(PhasesFor[j])
    BY PhaseShape
  <1>4. Turn(j, 1) \in Pod /\ OnJob(Turn(j, 1)) /\ Turn(j, 1).step = "acquire"
    BY <1>3, TurnIsSound
  <1> QED BY <1>1, <1>2, <1>4, StaysOutside

\* What the phase's own steps have to do with PhaseOf.
LEMMA Here ==
    ASSUME IInv, NEW p \in Holder
    PROVE  /\ pod[p] \in Pod /\ OnJob(pod[p]) /\ todo \in [Table -> Nat]
           /\ Phase(p) = PhaseOf(pod[p])
           /\ nextPhase(p) => pod' = [pod EXCEPT ![p] = AfterPhase(pod[p])]
           /\ nextTable(p) => pod' = [pod EXCEPT ![p] = AfterTable(pod[p])]
  BY Parts DEF Rest, Phase, PhaseOf, nextPhase, nextTable, AfterPhase, AfterTable

LEMMA AcquireKeeps ==
    ASSUME IInv, NEW p \in Holder, Acquire(p) \/ NotAcquired(p) \/ AcquireFails(p) PROVE IInv'
  <1>1. pod[p].step = "acquire"
    BY DEF Acquire, NotAcquired, AcquireFails
  <1>2. PhaseOf(pod[p]).key \in Key /\ Len(PhaseOf(pod[p]).tables) \in 1..3
    BY <1>1, Here, OnPhase
  <1>3. Rest'
    BY Parts DEF Rest, Acquire, NotAcquired, AcquireFails, Fault
  <1>4. CASE Acquire(p)
    <2> DEFINE q == Begin(pod[p], 1, PhaseOf(pod[p]).tables[1])
    <2>1. acquire(PhaseOf(pod[p]).key, p) /\ pod' = [pod EXCEPT ![p] = q]
      BY <1>4, Here DEF Acquire
    <2>2. q \in Pod /\ OnJob(q) /\ q.step = "work" /\ PhaseOf(q) = PhaseOf(pod[p])
      BY <1>1, <1>2, Here, BeginIsSound
    <2> HIDE DEF q
    <2> QED BY <1>1, <1>2, <1>3, <2>1, <2>2, LockTaken
  <1>5. CASE NotAcquired(p) \/ AcquireFails(p)
    <2> DEFINE q == AfterPhase(pod[p])
               key == PhaseOf(pod[p]).key
    <2>1. pod' = [pod EXCEPT ![p] = q]
      BY <1>5, Here DEF NotAcquired, AcquireFails
    <2>2. q \in Pod /\ OnJob(q) /\ q.step \in {"idle", "acquire"}
      BY <1>1, Here, NextIsSound
    <2>3. UNCHANGED lockVars \/ (lock[key] = Free /\ Abandon(key, p))
      BY <1>5, Here DEF NotAcquired, AcquireFails
    <2>4. \A k \in Key : ~Works(pod[p], k)
      BY <1>1 DEF Works
    <2> HIDE DEF q, key
    <2>5. CASE UNCHANGED lockVars
      BY <1>1, <1>3, <2>1, <2>2, <2>5, StaysOutside
    <2>6. CASE lock[key] = Free /\ Abandon(key, p)
      <3>1. key \in Key
        BY <1>2 DEF key
      <3> QED BY <1>3, <2>1, <2>2, <2>4, <2>6, <3>1, LockLeft
    <2> QED BY <2>3, <2>5, <2>6
  <1> QED BY <1>4, <1>5
LEMMA DeletesKeep ==
    ASSUME IInv, NEW p \in Holder, Deletes(p) PROVE IInv'
  <1> DEFINE q == pod[p]
             t == Current(p)
             n == Least(todo[t], BatchSize)
  <1>1. q \in Pod /\ OnJob(q) /\ q.step = "work" /\ todo \in [Table -> Nat] /\ Phase(p) = PhaseOf(q)
    BY Here DEF Deletes
  <1>2. t = PhaseOf(q).tables[q.table] /\ t \in Table
    BY <1>1, OnPhase DEF Current, OnJob
  <1>3. n \in Nat /\ todo[t] - n \in Nat
    BY <1>1, <1>2 DEF Least
  <1>4. todo' = [todo EXCEPT ![t] = todo[t] - n] /\ UNCHANGED <<lockVars, waiting, due, faults>>
    BY DEF Deletes
  <1>5. Rest'
    <2> HIDE DEF n, t
    <2> QED BY <1>3, <1>4, Parts DEF Rest
  <1>6. CASE nextTable(p)
    <2>1. pod' = [pod EXCEPT ![p] = AfterTable(q)]
      BY <1>6, Here
    <2> QED BY <1>1, <1>4, <1>5, <2>1, TableIsSound, StaysInWork
  <1>7. CASE /\ t \in Analytic => pod[p].batches > 1
             /\ pod' = [pod EXCEPT ![p].batches = IF t \in Analytic THEN @ - 1 ELSE @]
    <2> DEFINE left == IF t \in Analytic THEN q.batches - 1 ELSE q.batches
               b == [q EXCEPT !.batches = left]
    <2>1. left \in 0..MaxBatches
      BY <1>1, <1>7 DEF Pod
    <2>2. pod' = [pod EXCEPT ![p] = b]
      BY <1>7
    <2> HIDE DEF left
    <2>3. b \in Pod /\ b.step = "work" /\ b.job = q.job /\ b.phase = q.phase /\ b.table = q.table
      BY <1>1, <2>1 DEF Pod
    <2> HIDE DEF b
    <2>4. PhaseOf(b) = PhaseOf(q) /\ OnJob(b)
      BY <1>1, <2>3 DEF PhaseOf, OnJob
    <2> QED BY <1>1, <1>4, <1>5, <2>2, <2>3, <2>4, StaysInWork
  <1> QED BY <1>6, <1>7 DEF Deletes

\* One event of those fetched is done with.
LEMMA OneLess ==
    ASSUME IInv, NEW p \in Holder, pod[p].step = "work", pod[p].left > 0,
           pod' = [pod EXCEPT ![p].left = @ - 1], UNCHANGED lockVars, Rest'
    PROVE  IInv'
  <1> DEFINE q == pod[p]
             left == q.left - 1
             b == [q EXCEPT !.left = left]
  <1>1. q \in Pod /\ OnJob(q)
    BY Here
  <1>2. left \in 0..BatchSize
    BY <1>1 DEF Pod
  <1>3. pod' = [pod EXCEPT ![p] = b]
    OBVIOUS
  <1> HIDE DEF left
  <1>4. b \in Pod /\ b.step = "work" /\ b.job = q.job /\ b.phase = q.phase /\ b.table = q.table
    BY <1>1, <1>2 DEF Pod
  <1> HIDE DEF b
  <1>5. PhaseOf(b) = PhaseOf(q) /\ OnJob(b)
    BY <1>1, <1>4 DEF PhaseOf, OnJob
  <1> QED BY <1>3, <1>4, <1>5, StaysInWork

LEMMA SweepsKeep ==
    ASSUME IInv, NEW p \in Holder, Processes(p) \/ Processed(p) \/ Fails(p) \/ Throws(p) PROVE IInv'
  <1>1. /\ pod[p] \in Pod /\ OnJob(pod[p]) /\ pod[p].step = "work" /\ todo \in [Table -> Nat]
        /\ Phase(p) = PhaseOf(pod[p])
    BY Here DEF Processes, Processed, Fails, Throws
  <1>2. Current(p) \in Table
    BY <1>1, OnPhase DEF Current, OnJob
  <1>3. UNCHANGED <<lockVars, waiting, due>>
    BY DEF Processes, Processed, Fails, Throws
  <1>4. todo' \in [Table -> Nat]
    <2>1. CASE Processes(p)
      <3> DEFINE rest == IF todo[Current(p)] > 0 THEN todo[Current(p)] - 1 ELSE 0
      <3>1. todo' = [todo EXCEPT ![Current(p)] = rest]
        BY <2>1 DEF Processes
      <3>2. rest \in Nat
        BY <1>1, <1>2
      <3> HIDE DEF rest
      <3> QED BY <1>1, <3>1, <3>2
    <2>2. CASE todo' = todo
      BY <1>1, <2>2
    <2> QED BY <2>1, <2>2 DEF Processed, Fails, Throws
  <1>5. Rest'
    BY <1>3, <1>4, Parts DEF Rest, Processes, Processed, Fails, Throws, Fault
  <1>6. CASE nextTable(p)
    <2>1. pod' = [pod EXCEPT ![p] = AfterTable(pod[p])]
      BY <1>6, Here
    <2> QED BY <1>1, <1>3, <1>5, <2>1, TableIsSound, StaysInWork
  <1>7. CASE pod[p].left > 0 /\ pod' = [pod EXCEPT ![p].left = @ - 1]
    BY <1>1, <1>3, <1>5, <1>7, OneLess
  <1>8. CASE Throws(p)
    <2> DEFINE b == [pod[p] EXCEPT !.step = "release"]
    <2>1. b \in Pod /\ b.step = "release" /\ b.job = pod[p].job /\ b.phase = pod[p].phase
      BY <1>1 DEF Pod
    <2>2. pod' = [pod EXCEPT ![p] = b]
      BY <1>8 DEF Throws
    <2> HIDE DEF b
    <2>3. PhaseOf(b) = PhaseOf(pod[p]) /\ OnJob(b)
      BY <1>1, <2>1 DEF PhaseOf, OnJob
    <2> QED BY <1>1, <1>3, <1>5, <2>1, <2>2, <2>3, StaysInWork
  <1> QED BY <1>6, <1>7, <1>8 DEF Processes, Processed, Fails

LEMMA LeavesKeep ==
    ASSUME IInv, NEW p \in Holder, Release(p) \/ Crash(p) PROVE IInv'
  <1> DEFINE key == PhaseOf(pod[p]).key
  <1>1. /\ pod[p] \in Pod /\ OnJob(pod[p]) /\ pod[p].step # "idle" /\ Phase(p) = PhaseOf(pod[p])
    BY Here DEF Release, Crash
  <1>2. key \in Key /\ pod[p].job \in Schedule
    BY <1>1, OnPhase DEF OnJob
  <1>3. \A k \in Key : Works(pod[p], k) => k = key
    BY DEF Works
  <1>4. Rest'
    BY <1>2, Parts DEF Rest, Release, Crash, Fault
  <1>5. CASE Release(p)
    <2>1. pod' = [pod EXCEPT ![p] = AfterPhase(pod[p])]
      BY <1>5, Here DEF Release
    <2>2. AfterPhase(pod[p]) \in Pod /\ OnJob(AfterPhase(pod[p])) /\ AfterPhase(pod[p]).step \in {"idle", "acquire"}
      BY <1>1, NextIsSound
    <2>3. Works(pod[p], key)
      BY <1>5 DEF Works, Release
    <2>4. release(key, p) \/ Strand(key, p)
      BY <1>1, <1>5 DEF Release
    <2> HIDE DEF key
    <2> QED BY <1>2, <1>3, <1>4, <2>1, <2>2, <2>3, <2>4, LockLeft
  <1>6. CASE Crash(p)
    <2>1. pod' = [pod EXCEPT ![p] = NoJob]
      BY <1>6 DEF Crash
    <2>2. CASE pod[p].step = "acquire"
      <3>1. UNCHANGED lockVars
        BY <1>6, <2>2 DEF Crash
      <3> QED BY <1>4, <2>1, <2>2, <3>1, NoJobIsSound, StaysOutside
    <2>3. CASE pod[p].step # "acquire"
      <3>1. Strand(key, p)
        BY <1>1, <1>6, <2>3 DEF Crash
      <3> HIDE DEF key
      <3> QED BY <1>2, <1>3, <1>4, <2>1, <3>1, NoJobIsSound, LockLeft
    <2> QED BY <2>2, <2>3
  <1> QED BY <1>5, <1>6

-----------------------------------------------------------------------------
(* The theorems *)

LEMMA Initially == Init => IInv
  <1> SUFFICES ASSUME Init PROVE IInv
    OBVIOUS
  <1>1. LockTypeOK /\ \A k \in Key : lock[k] = Free
    BY DEF Init, LockInit, LockTypeOK
  <1>2. pod \in [Holder -> Pod] /\ \A p \in Holder : OnJob(pod[p]) /\ pod[p].step = "idle"
    BY NoJobIsSound DEF Init
  <1>3. Rest
    BY DEF Init, Rest
  <1>4. LocksInv(lock, lapsed, stranded, pod)
    BY <1>1, <1>2 DEF LocksInv, Works, Init, LockInit
  <1> QED BY <1>1, <1>2, <1>3, <1>4, Parts

LEMMA StutterKeeps == ASSUME IInv, UNCHANGED vars PROVE IInv'
  <1>1. /\ pod' = pod /\ lock' = lock /\ lapsed' = lapsed /\ stranded' = stranded
        /\ waiting' = waiting /\ todo' = todo /\ due' = due /\ faults' = faults
    BY DEF vars, lockVars
  <1>2. LockTypeOK' /\ LocksInv(lock', lapsed', stranded', pod') /\ Rest'
    BY <1>1, Parts DEF LockTypeOK, Rest
  <1>3. pod' \in [Holder -> Pod] /\ \A p \in Holder : OnJob(pod'[p])
    BY <1>1, Parts
  <1> QED BY <1>2, <1>3 DEF IInv, TypeOK, Rest, OnJob, PhaseOf

LEMMA Inductive == IInv /\ [Next]_vars => IInv'
  <1> SUFFICES ASSUME IInv, [Next]_vars PROVE IInv'
    OBVIOUS
  <1>1. ASSUME NEW p \in Holder, Step(p) \/ Crash(p) PROVE IInv'
    BY <1>1, TakeKeeps, AcquireKeeps, DeletesKeep, SweepsKeep, LeavesKeep DEF Step
  <1>2. CASE UNCHANGED vars
    BY <1>2, StutterKeeps
  <1> QED BY <1>1, <1>2, QueueKeeps, ExpiryKeeps DEF Next

LEMMA Always == Spec => []IInv
  <1>1. Spec => Init /\ [][Next]_vars
    BY DEF Spec
  <1> QED BY <1>1, Initially, Inductive, PTL

\* Locks, jobs and backlogs have their types: a pod's phase, table, batch count and
\* what is left of its fetch stay within the schedule's bounds.
THEOREM SweepsAreTyped == Spec => []TypeOK
  <1>1. IInv => TypeOK
    BY DEF IInv
  <1> QED BY <1>1, Always, PTL

\* Two pods are in the work of one lock only if the lock of one ran out under it,
\* however pods crash, answers of Redis are lost and releases come late
\* (distributed-lock.ts, with-distributed-lock.ts).
THEOREM SweepsAreSole == Spec => []SoleSweep
  <1>1. IInv => SoleSweep
    <2> SUFFICES ASSUME IInv, NEW p \in Holder, NEW q \in Holder, NEW k \in Key,
                        Working(p, k), Working(q, k)
                 PROVE  p = q \/ lapsed \cap {p, q} # {}
      BY DEF SoleSweep
    <2>1. Works(pod[p], k) /\ Works(pod[q], k)
      BY DEF Works, Working, Phase, PhaseOf
    <2>2. (lock[k] = p \/ p \in lapsed) /\ (lock[k] = q \/ q \in lapsed)
      BY <2>1 DEF IInv, LocksInv
    <2> QED BY <2>2
  <1> QED BY <1>1, Always, PTL

\* A key that is taken is worked under or was stranded by a crash or a DEL that
\* failed, never by an error of the work (with-distributed-lock.ts finally).
THEOREM LocksComeFree == Spec => []LocksAreFreed
  <1>1. IInv => LocksAreFreed
    BY DEF IInv, LocksInv, LocksAreFreed, Works, Working, Phase, PhaseOf
  <1> QED BY <1>1, Always, PTL
================================================================================
