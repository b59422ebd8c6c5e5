---------------------------- MODULE ProcessesProofs ----------------------------
(***************************************************************************)
(* A process of either kind takes itself down in order, for any number of  *)
(* requests.  The inductive invariant TearDownInv ties what is closed to   *)
(* how far the clean-up is: a worker behind the task is closed or given    *)
(* up, a queue ahead of it is open, and the clients outlast both.          *)
(***************************************************************************)
EXTENDS Processes, TLAPS

\* The tasks behind the one that runs have closed their worker, or failed to.
WorkersBehind ==
    \A i \in DOMAIN Tasks, w \in Worker :
       Tasks[i] = <<"worker", w>> /\ task > i => worker[w] = "closed" \/ i \in spoilt

\* A worker is closed only once its job is done.
ClosedAreIdle == \A w \in Worker : worker[w] = "closed" => ~job[w]

\* The queues ahead of the task that runs are open.
QueuesAhead ==
    \A i \in DOMAIN Tasks, w \in Worker :
       Tasks[i] = <<"queue", w>> /\ task <= i => queue[w] = "open"

\* A scrape is never sent to a closed queue.
RegisteredAreOpen == \A q \in registered : queue[q] = "open"

WorkerSide ==
    /\ NoApi
    /\ WorkersBehind /\ ClosedAreIdle /\ QueuesAhead /\ RegisteredAreOpen
    /\ redis = "closed" => task > Len(Tasks)
    /\ exit = "own" => task > Len(Tasks)

\* The API has no queue to count; its connections go after the last request whose client waits.
ApiSide ==
    /\ NoWorker
    /\ registered = {} /\ scrape \notin Queue /\ behind = {}
    /\ task >= 2 => inFlight = {}
    /\ redis = "closed" => task >= 4
    /\ exit = "own" => task >= 4

TearDownInv ==
    /\ TypeOK
    /\ role = "worker" => WorkerSide
    /\ role = "api" => ApiSide

-----------------------------------------------------------------------------

\* The number of the tasks.
LEMMA TaskCount == Len(Tasks) = 8 /\ DOMAIN Tasks = 1..8
BY DEF Tasks

\* The order of the clean-up (worker.ts cleanup).
LEMMA TaskList ==
    /\ Tasks[1][1] = "worker" /\ Tasks[1][2] = "dispatch" /\ Tasks[2][1] = "queue" /\ Tasks[2][2] = "dispatch"
    /\ Tasks[3][1] = "worker" /\ Tasks[3][2] = "mail" /\ Tasks[4][1] = "worker" /\ Tasks[4][2] = "maintenance"
    /\ Tasks[5][1] = "queue" /\ Tasks[5][2] = "mail" /\ Tasks[6][1] = "queue" /\ Tasks[6][2] = "maintenance"
    /\ Tasks[7][1] = "metrics" /\ Tasks[8][1] = "redis"
BY DEF Tasks

\* Whose task is which.
LEMMA TaskOf ==
    ASSUME NEW kind, NEW w, NEW i \in DOMAIN Tasks, Tasks[i] = <<kind, w>>
    PROVE  /\ kind = "worker" =>
                (i = 1 /\ w = "dispatch") \/ (i = 3 /\ w = "mail") \/ (i = 4 /\ w = "maintenance")
           /\ kind = "queue" =>
                (i = 2 /\ w = "dispatch") \/ (i = 5 /\ w = "mail") \/ (i = 6 /\ w = "maintenance")
           /\ kind = "metrics" => i = 7
           /\ kind = "redis" => i = 8
<1>1. i = 1 \/ i = 2 \/ i = 3 \/ i = 4 \/ i = 5 \/ i = 6 \/ i = 7 \/ i = 8
  BY TaskCount
<1>2. Tasks[i][1] = kind /\ Tasks[i][2] = w
  OBVIOUS
<1> QED BY <1>1, <1>2, TaskList, Zenon

\* A task that ends leaves the next one to run, and only its own number among the spoilt.
LEMMA TaskEnding ==
    ASSUME TypeOK, TaskEnds, task \in DOMAIN Tasks
    PROVE  task' = task + 1 /\ task' \in 0..(Len(Tasks) + 1) /\ spoilt' \subseteq DOMAIN Tasks
BY TaskCount DEF TypeOK, TaskEnds

-----------------------------------------------------------------------------
(* Type correctness *)

\* A process starts with every part in its type.
LEMMA TypeInit == Init => TypeOK
<1> SUFFICES ASSUME Init PROVE TypeOK
  OBVIOUS
<1> USE DEF Init, LifeInit, RedisInit
<1>1. /\ role \in {"api", "worker"} /\ boot \in {"scheduling", "loading"}
      /\ worker \in [Worker -> {"none", "on"}] /\ queue \in [Worker -> {"none", "open"}]
      /\ registered \subseteq Queue
  BY QueueAssumption DEF WorkerInit, NoWorker, ApiInit
<1>2. job \in [Worker -> BOOLEAN]
  BY DEF WorkerInit, NoWorker
<1>3. /\ inFlight = {} /\ departed = {} /\ trailing = {} /\ probe = "none"
      /\ pinging \in BOOLEAN /\ degraded \in BOOLEAN /\ limiter \in BOOLEAN
  BY DEF ApiInit, NoApi
<1>4. task \in 0..(Len(Tasks) + 1)
  BY TaskCount
<1> QED BY <1>1, <1>2, <1>3, <1>4 DEF TypeOK, RedisTypeOK

\* Signals, crashes and what Redis does keep the types.
LEMMA TypeLife ==
    ASSUME TypeOK, LifeNext, UNCHANGED <<workerVars, apiVars, role>>
    PROVE  TypeOK'
<1> USE DEF TypeOK, RedisTypeOK, workerVars, apiVars, redisVars, scrapeVars
<1>1. CASE CloseWithGrace BY <1>1, TaskCount DEF CloseWithGrace
<1>2. CASE ForceExit BY <1>2 DEF ForceExit
<1>3. CASE RedisEvent
  <2>1. redis' \in {"down", "connected", "ready", "closed"}
    BY <1>3 DEF RedisEvent, RedisNext, Connect, Ready, Drop, LiveError
  <2>2. outage' \in BOOLEAN
    BY <1>3 DEF RedisEvent, RedisNext, Connect, Ready, Drop, LiveError, onOutage, onRecovery
  <2> QED BY <1>3, <2>1, <2>2 DEF RedisEvent
<1>4. CASE startMetricsServer BY <1>4 DEF startMetricsServer
<1>5. CASE MetricsBound BY <1>5 DEF MetricsBound
<1>6. CASE Scrape BY <1>6 DEF Scrape
<1>7. CASE collectBullMQMetrics BY <1>7 DEF collectBullMQMetrics
<1>8. CASE Counted
  <2>1. scrape' \in {"counting", "process"} /\ counted' \subseteq Queue /\ behind' \subseteq Queue
    BY <1>8 DEF Counted
  <2> QED BY <1>8, <2>1 DEF Counted
<1>9. CASE Scraped BY <1>9 DEF Scraped
<1>10. ASSUME NEW q \in Queue, WalksOn(q) PROVE TypeOK'
  <2>1. behind' \subseteq Queue
    BY <1>10 DEF WalksOn
  <2> QED BY <1>10, <2>1 DEF WalksOn
<1> QED BY <1>1, <1>2, <1>3, <1>4, <1>5, <1>6, <1>7, <1>8, <1>9, <1>10 DEF LifeNext

\* The steps of the worker process keep the types.
LEMMA TypeWorker ==
    ASSUME TypeOK, WorkerNext, UNCHANGED <<apiVars, role>>
    PROVE  TypeOK'
<1> USE DEF TypeOK, RedisTypeOK, workerVars, apiVars, redisVars, scrapeVars, lifeVars
<1>1. CASE startMaintenanceScheduler BY <1>1, TaskCount DEF startMaintenanceScheduler
<1>2. ASSUME NEW w \in Worker, TakesJob(w) PROVE TypeOK'
  BY <1>2 DEF TakesJob
<1>3. ASSUME NEW w \in Worker, EndsJob(w) PROVE TypeOK'
  BY <1>3 DEF EndsJob
<1>4. ASSUME NEW w \in Worker, StopsFetching(w) PROVE TypeOK'
  BY <1>4 DEF StopsFetching
<1>5. ASSUME NEW w \in Worker, CloseWorker(w) PROVE TypeOK'
  <2>1. task' \in 0..(Len(Tasks) + 1) /\ spoilt' \subseteq DOMAIN Tasks
    BY <1>5, TaskEnding DEF CloseWorker, Running
  <2> QED BY <1>5, <2>1 DEF CloseWorker
<1>6. ASSUME NEW w \in Worker, CloseQueue(w) PROVE TypeOK'
  <2>1. task' \in 0..(Len(Tasks) + 1) /\ spoilt' \subseteq DOMAIN Tasks
    BY <1>6, TaskEnding DEF CloseQueue, Running
  <2> QED BY <1>6, <2>1 DEF CloseQueue
<1>7. CASE CloseMetrics
  <2>1. task' \in 0..(Len(Tasks) + 1) /\ spoilt' \subseteq DOMAIN Tasks
    BY <1>7, TaskEnding DEF CloseMetrics, Running
  <2>2. metrics' = "off" /\ UNCHANGED <<boot, crashed, exit, scrapeVars, redis, outage>>
    BY <1>7 DEF CloseMetrics, stopMetricsServer
  <2>3. UNCHANGED <<workerVars, apiVars, role>>
    BY <1>7 DEF CloseMetrics
  <2> QED BY <2>1, <2>2, <2>3
<1>8. CASE CloseRedis
  <2>1. task' \in 0..(Len(Tasks) + 1)
    <3>1. task \in 1..8 /\ task' = task + 1
      BY <1>8, TaskCount DEF CloseRedis, Running
    <3> QED BY <3>1, TaskCount
  <2>2. redis' = "closed" /\ outage' \in BOOLEAN
    BY <1>8 DEF CloseRedis, closeAllRedisConnections, onOutage
  <2>3. UNCHANGED <<boot, spoilt, crashed, exit, metrics, scrapeVars, workerVars, apiVars, role>>
    BY <1>8 DEF CloseRedis
  <2> QED BY <2>1, <2>2, <2>3
<1>9. CASE Leave(Len(Tasks) + 1) /\ UNCHANGED workerVars
  BY <1>9 DEF Leave
<1> QED BY <1>1, <1>2, <1>3, <1>4, <1>5, <1>6, <1>7, <1>8, <1>9 DEF WorkerNext

\* The steps of the API process keep the types.
LEMMA TypeApi ==
    ASSUME TypeOK, ApiNext, UNCHANGED <<workerVars, role>>
    PROVE  TypeOK'
<1> USE DEF TypeOK, RedisTypeOK, workerVars, apiVars, redisVars, scrapeVars, lifeVars
<1>1. CASE httpRateLimitPlugin BY <1>1 DEF httpRateLimitPlugin
<1>2. CASE Listen BY <1>2 DEF Listen
<1>3. ASSUME NEW r \in Request, Accept(r) PROVE TypeOK'
  <2>1. inFlight' \subseteq Request
    BY <1>3 DEF Accept
  <2> QED BY <1>3, <2>1 DEF Accept
<1>4. ASSUME NEW r \in Request, Reply(r) PROVE TypeOK'
  <2>1. inFlight' \subseteq Request /\ departed' \subseteq Request /\ trailing' \subseteq Request
    BY <1>4 DEF Reply
  <2> QED BY <1>4, <2>1 DEF Reply
<1>5. ASSUME NEW r \in Request, Trails(r) PROVE TypeOK'
  BY <1>5 DEF Trails
<1>6. CASE check BY <1>6 DEF check
<1>7. CASE Pinged
  <2>1. pinging' \in BOOLEAN /\ degraded' \in BOOLEAN
    BY <1>7 DEF Pinged
  <2> QED BY <1>7, <2>1 DEF Pinged
<1>8. CASE Drain
  <2>1. task' \in 0..(Len(Tasks) + 1)
    BY <1>8, TaskCount DEF Drain
  <2> QED BY <1>8, <2>1 DEF Drain
<1>9. CASE stop
  <2>1. task' \in 0..(Len(Tasks) + 1)
    BY <1>9, TaskCount DEF stop
  <2>2. probe' = "stopped" /\ degraded' \in BOOLEAN
    BY <1>9 DEF stop
  <2>3. UNCHANGED <<boot, spoilt, crashed, exit, metrics, scrapeVars, redisVars,
                    inFlight, departed, trailing, pinging, limiter, workerVars, role>>
    BY <1>9 DEF stop
  <2> QED BY <2>1, <2>2, <2>3
<1>10. CASE onClose
  <2>1. task' \in 0..(Len(Tasks) + 1)
    BY <1>10, TaskCount DEF onClose
  <2>2. redis' = "closed" /\ outage' \in BOOLEAN
    BY <1>10 DEF onClose, closeAllRedisConnections, onOutage
  <2>3. limiter' \in BOOLEAN
    BY <1>10 DEF onClose
  <2>4. UNCHANGED <<boot, spoilt, crashed, exit, metrics, scrapeVars, inFlight, departed, trailing, probe,
                    pinging, degraded, workerVars, role>>
    BY <1>10 DEF onClose
  <2> QED BY <2>1, <2>2, <2>3, <2>4
<1>11. CASE CloseApiMetrics
  <2>1. task' \in 0..(Len(Tasks) + 1) /\ spoilt' \subseteq DOMAIN Tasks
    BY <1>11, TaskCount DEF CloseApiMetrics
  <2> QED BY <1>11, <2>1 DEF CloseApiMetrics, stopMetricsServer
<1>12. CASE Leave(5) /\ UNCHANGED apiVars BY <1>12 DEF Leave
<1>13. ASSUME NEW r \in Request, HangUp(r) PROVE TypeOK'
  <2>1. inFlight' \subseteq Request /\ departed' \subseteq Request
    BY <1>13 DEF HangUp
  <2> QED BY <1>13, <2>1 DEF HangUp
<1>14. ASSUME NEW r \in Request, getInstance(r) PROVE TypeOK'
  BY <1>14 DEF getInstance
<1>15. ASSUME NEW r \in Request, getOutboxDispatchQueue(r) PROVE TypeOK'
  BY <1>15 DEF getOutboxDispatchQueue
<1> QED BY <1>1, <1>2, <1>3, <1>4, <1>5, <1>6, <1>7, <1>8, <1>9, <1>10, <1>11, <1>12,
          <1>13, <1>14, <1>15 DEF ApiNext

\* Every step of either process keeps the types.
LEMMA TypeStep == TypeOK /\ [Next]_vars => TypeOK'
<1> SUFFICES ASSUME TypeOK, [Next]_vars PROVE TypeOK'
  OBVIOUS
<1>1. CASE UNCHANGED vars
  BY <1>1 DEF vars, lifeVars, scrapeVars, redisVars, workerVars, apiVars, TypeOK, RedisTypeOK
<1>2. CASE Next
  BY <1>2, TypeLife, TypeWorker, TypeApi DEF Next
<1> QED BY <1>1, <1>2

\* Every reachable state of a process is type correct.
THEOREM ProcessesAreTyped == Spec => []TypeOK
BY TypeInit, TypeStep, PTL DEF Spec

-----------------------------------------------------------------------------
(* The clean-up's order *)

\* Before any clean-up everything is open.
LEMMA TearDownInit == Init => TearDownInv
<1> SUFFICES ASSUME Init PROVE TearDownInv
  OBVIOUS
<1> USE DEF Init, LifeInit, RedisInit
<1>1. TypeOK
  BY TypeInit
<1>2. ASSUME role = "worker" PROVE WorkerSide
  <2>1. NoApi /\ ClosedAreIdle /\ RegisteredAreOpen
    BY <1>2 DEF WorkerInit, ClosedAreIdle, RegisteredAreOpen
  <2>2. WorkersBehind
    BY TaskCount DEF WorkersBehind
  <2>3. QueuesAhead
    BY <1>2 DEF WorkerInit, QueuesAhead
  <2> QED BY <2>1, <2>2, <2>3 DEF WorkerSide
<1>3. ASSUME role = "api" PROVE ApiSide
  BY <1>3, QueueAssumption DEF ApiInit, ApiSide, Worker
<1> QED BY <1>1, <1>2, <1>3 DEF TearDownInv

\* What the signals, the Redis clients and the metrics server do to what is torn down.
LEMMA LifeFrame ==
    ASSUME TypeOK, LifeNext
    PROVE  /\ task' = task \/ (task = 0 /\ task' = 1)
           /\ spoilt' = spoilt /\ registered' = registered
           /\ redis' = "closed" => redis = "closed"
           /\ exit' = exit \/ exit' = "forced"
           /\ scrape' \in Queue /\ scrape' # scrape => scrape' \in registered
           /\ behind' \subseteq behind \cup registered \cup ({scrape} \cap Queue)
<1> USE DEF scrapeVars
<1>1. CASE CloseWithGrace BY <1>1 DEF CloseWithGrace, redisVars
<1>2. CASE ForceExit BY <1>2 DEF ForceExit, redisVars
<1>3. CASE RedisEvent BY <1>3 DEF RedisEvent, RedisNext, Connect, Ready, Drop, LiveError
<1>4. CASE startMetricsServer BY <1>4 DEF startMetricsServer, redisVars
<1>5. CASE MetricsBound BY <1>5 DEF MetricsBound, redisVars
<1>6. CASE Scrape BY <1>6, QueueAssumption DEF Scrape, redisVars, Worker
<1>7. CASE collectBullMQMetrics BY <1>7, QueueAssumption DEF collectBullMQMetrics, redisVars, Worker
<1>8. CASE Counted BY <1>8, QueueAssumption DEF Counted, redisVars, Worker
<1>9. CASE Scraped BY <1>9, QueueAssumption DEF Scraped, redisVars, Worker
<1>10. ASSUME NEW q \in Queue, WalksOn(q) PROVE behind' \subseteq behind \cup registered
  BY <1>10 DEF WalksOn
<1>11. CASE \E q \in Queue : WalksOn(q) BY <1>10, <1>11 DEF WalksOn, redisVars
<1> QED BY <1>1, <1>2, <1>3, <1>4, <1>5, <1>6, <1>7, <1>8, <1>9, <1>11 DEF LifeNext

\* A signal or an event of Redis closes nothing that work still needs.
LEMMA LifeStep ==
    ASSUME TearDownInv, Alive, LifeNext, UNCHANGED <<workerVars, apiVars, role>>
    PROVE  TearDownInv'
<1> USE DEF TearDownInv
<1>1. /\ task \in Nat /\ task' \in Nat
      /\ task' = task \/ (task = 0 /\ task' = 1)
      /\ spoilt' = spoilt /\ registered' = registered
      /\ redis' = "closed" => redis = "closed"
      /\ exit' # "own"
  BY LifeFrame, TaskCount DEF TypeOK, Alive
<1>2. TypeOK'
  BY TypeLife
<1>3. ASSUME role = "worker" PROVE WorkerSide'
  <2> USE <1>1, <1>3 DEF WorkerSide, workerVars, apiVars
  <2>1. NoApi' BY DEF NoApi
  <2>2. WorkersBehind' BY TaskCount DEF WorkersBehind
  <2>3. ClosedAreIdle' BY DEF ClosedAreIdle
  <2>4. QueuesAhead' BY TaskCount DEF QueuesAhead
  <2>5. RegisteredAreOpen' BY DEF RegisteredAreOpen
  <2> QED BY <2>1, <2>2, <2>3, <2>4, <2>5, TaskCount
<1>4. ASSUME role = "api" PROVE ApiSide'
  <2>1. scrape' \notin Queue /\ behind' = {}
    BY <1>4, LifeFrame DEF ApiSide
  <2> QED BY <1>1, <1>4, <2>1 DEF ApiSide, NoWorker, workerVars, apiVars
<1> QED BY <1>2, <1>3, <1>4

\* A step of the worker that runs no task.
LEMMA WorkerAtWork ==
    ASSUME TearDownInv, role = "worker", UNCHANGED <<task, spoilt, queue, registered, redis, apiVars>>,
           exit' = "own" => task > Len(Tasks), ClosedAreIdle',
           \A w \in Worker : worker[w] = "closed" => worker'[w] = "closed"
    PROVE  WorkerSide'
<1> USE DEF TearDownInv, WorkerSide
<1>1. NoApi' BY DEF NoApi, apiVars
<1>2. WorkersBehind' BY DEF WorkersBehind
<1>3. QueuesAhead' BY DEF QueuesAhead
<1>4. RegisteredAreOpen' BY DEF RegisteredAreOpen
<1> QED BY <1>1, <1>2, <1>3, <1>4

\* A task that ends; which worker or queue it was about is the rest of the step's business.
LEMMA WorkerTaskEnds ==
    ASSUME TearDownInv, role = "worker", exit = "none", exit' = exit, UNCHANGED apiVars,
           task \in DOMAIN Tasks, task' = task + 1, spoilt \subseteq spoilt',
           \A w \in Worker : worker[w] = "closed" => worker'[w] = "closed",
           \A w \in Worker : Tasks[task] = <<"worker", w>> => worker'[w] = "closed" \/ task \in spoilt',
           \A w \in Worker : Tasks[task] # <<"queue", w>> => queue'[w] = queue[w],
           \A q \in registered' : q \in registered /\ queue'[q] = queue[q],
           redis' = "closed" => redis = "closed" \/ task = Len(Tasks),
           ClosedAreIdle'
    PROVE  WorkerSide'
<1> USE TaskCount DEF TearDownInv, WorkerSide
<1>1. task \in 1..8 /\ task' \in 2..9
  OBVIOUS
<1>2. NoApi' BY DEF NoApi, apiVars
<1>3. WorkersBehind'
  <2> SUFFICES ASSUME NEW i \in DOMAIN Tasks, NEW w \in Worker, Tasks[i] = <<"worker", w>>, task' > i
               PROVE  worker'[w] = "closed" \/ i \in spoilt'
    BY DEF WorkersBehind
  <2>1. CASE i = task BY <2>1
  <2>2. CASE task > i BY <2>2 DEF WorkersBehind
  <2> QED BY <1>1, <2>1, <2>2
<1>4. QueuesAhead'
  <2> SUFFICES ASSUME NEW i \in DOMAIN Tasks, NEW w \in Worker, Tasks[i] = <<"queue", w>>, task' <= i
               PROVE  queue'[w] = "open"
    BY DEF QueuesAhead
  <2>1. i \in 1..8 /\ task < i
    BY <1>1
  <2>2. queue[w] = "open"
    BY <2>1 DEF QueuesAhead
  <2>3. Tasks[task] # <<"queue", w>>
    BY <2>1, <1>1, TaskOf
  <2> QED BY <2>2, <2>3
<1>5. RegisteredAreOpen' BY DEF RegisteredAreOpen
<1>6. (redis' = "closed" => task' > Len(Tasks)) /\ exit' # "own"
  BY <1>1
<1> QED BY <1>2, <1>3, <1>4, <1>5, <1>6

\* The tasks of cleanup close the worker process in their order (worker.ts).
LEMMA WorkerStep ==
    ASSUME TearDownInv, Alive, role = "worker", WorkerNext, UNCHANGED <<apiVars, role>>
    PROVE  WorkerSide'
<1>0. TypeOK /\ WorkerSide /\ exit = "none"
  BY DEF TearDownInv, Alive
<1> USE <1>0 DEF lifeVars, scrapeVars, workerVars, redisVars
<1>1. CASE startMaintenanceScheduler
  BY <1>1, WorkerAtWork DEF startMaintenanceScheduler, WorkerSide, ClosedAreIdle
<1>2. ASSUME NEW w \in Worker, TakesJob(w) PROVE WorkerSide'
  <2>1. ClosedAreIdle'
    BY <1>2 DEF TakesJob, WorkerSide, ClosedAreIdle, TypeOK
  <2> QED BY <1>2, <2>1, WorkerAtWork DEF TakesJob
<1>3. ASSUME NEW w \in Worker, EndsJob(w) PROVE WorkerSide'
  <2>1. ClosedAreIdle'
    BY <1>3 DEF EndsJob, WorkerSide, ClosedAreIdle, TypeOK
  <2> QED BY <1>3, <2>1, WorkerAtWork DEF EndsJob
<1>4. ASSUME NEW w \in Worker, StopsFetching(w) PROVE WorkerSide'
  <2>1. ClosedAreIdle' /\ \A x \in Worker : worker[x] = "closed" => worker'[x] = "closed"
    BY <1>4 DEF StopsFetching, WorkerSide, ClosedAreIdle, TypeOK
  <2> QED BY <1>4, <2>1, WorkerAtWork DEF StopsFetching
<1>5. ASSUME NEW w \in Worker, CloseWorker(w) PROVE WorkerSide'
  <2>1. task \in DOMAIN Tasks /\ Tasks[task] = <<"worker", w>> /\ worker[w] = "closing"
    BY <1>5 DEF CloseWorker, Running
  <2>2. task' = task + 1 /\ spoilt \subseteq spoilt'
    BY <1>5 DEF CloseWorker, TaskEnds
  <2>3. /\ \A x \in Worker : worker[x] = "closed" => worker'[x] = "closed"
        /\ worker'[w] = "closed" \/ task \in spoilt'
    BY <1>5 DEF CloseWorker, TypeOK
  <2>4. ClosedAreIdle'
    BY <1>5 DEF CloseWorker, closes, WorkerSide, ClosedAreIdle, TypeOK
  <2>5. \A x \in Worker : Tasks[task] = <<"worker", x>> => x = w
    BY <2>1
  <2>6. \A x \in Worker : queue'[x] = queue[x]
    BY <1>5 DEF CloseWorker
  <2>7. registered' = registered /\ registered \subseteq Worker /\ redis' = redis /\ exit' = exit
    BY <1>5, QueueAssumption DEF CloseWorker, TypeOK
  <2> QED BY <2>1, <2>2, <2>3, <2>4, <2>5, <2>6, <2>7, WorkerTaskEnds
<1>6. ASSUME NEW w \in Worker, CloseQueue(w) PROVE WorkerSide'
  <2>1. task \in DOMAIN Tasks /\ Tasks[task] = <<"queue", w>>
    BY <1>6 DEF CloseQueue, Running
  <2>2. task' = task + 1 /\ spoilt \subseteq spoilt'
    BY <1>6 DEF CloseQueue, TaskEnds
  <2>3. worker' = worker /\ ClosedAreIdle'
    BY <1>6 DEF CloseQueue, WorkerSide, ClosedAreIdle
  <2>4. \A x \in Worker : Tasks[task] # <<"worker", x>>
    BY <2>1
  <2>5. \A x \in Worker : x # w => queue'[x] = queue[x]
    BY <1>6 DEF CloseQueue, TypeOK
  <2>6. \A q \in registered' : q \in registered /\ queue'[q] = queue[q]
    BY <1>6, <2>5, QueueAssumption DEF CloseQueue, TypeOK
  <2>7. redis' = redis /\ exit' = exit
    BY <1>6 DEF CloseQueue
  <2> QED BY <2>1, <2>2, <2>3, <2>4, <2>5, <2>6, <2>7, WorkerTaskEnds
<1>7. CASE CloseMetrics
  <2>1. task \in DOMAIN Tasks /\ Tasks[task] = <<"metrics", "">>
    BY <1>7 DEF CloseMetrics, Running
  <2>2. task' = task + 1 /\ spoilt \subseteq spoilt'
    BY <1>7 DEF CloseMetrics, TaskEnds
  <2>3. UNCHANGED <<worker, job, queue, registered, redis, exit>> /\ ClosedAreIdle'
    BY <1>7 DEF CloseMetrics, stopMetricsServer, WorkerSide, ClosedAreIdle
  <2>4. \A x \in Worker : Tasks[task] # <<"worker", x>> /\ Tasks[task] # <<"queue", x>>
    <3>1. task = 7 /\ task \in DOMAIN Tasks
      BY <2>1, TaskOf
    <3>2. ASSUME NEW x \in Worker, Tasks[task] = <<"worker", x>> PROVE FALSE
      BY <3>1, <3>2, TaskOf
    <3>3. ASSUME NEW x \in Worker, Tasks[task] = <<"queue", x>> PROVE FALSE
      BY <3>1, <3>3, TaskOf
    <3> QED BY <3>2, <3>3
  <2>5. /\ \A x \in Worker : worker'[x] = worker[x] /\ queue'[x] = queue[x]
        /\ \A q \in registered' : q \in registered /\ queue'[q] = queue[q]
    BY <2>3
  <2> QED BY <2>1, <2>2, <2>3, <2>4, <2>5, WorkerTaskEnds
<1>8. CASE CloseRedis
  <2>1. task \in DOMAIN Tasks /\ Tasks[task] = <<"redis", "">>
    BY <1>8 DEF CloseRedis, Running
  <2>2. task = Len(Tasks) /\ task' = task + 1 /\ spoilt \subseteq spoilt'
    BY <1>8, <2>1, TaskOf, TaskCount DEF CloseRedis
  <2>3. UNCHANGED <<worker, job, queue, registered, exit>> /\ ClosedAreIdle'
    BY <1>8 DEF CloseRedis, WorkerSide, ClosedAreIdle
  <2>4. \A x \in Worker : Tasks[task] # <<"worker", x>> /\ Tasks[task] # <<"queue", x>>
    <3>1. task = 8 /\ task \in DOMAIN Tasks
      BY <2>1, TaskOf
    <3>2. ASSUME NEW x \in Worker, Tasks[task] = <<"worker", x>> PROVE FALSE
      BY <3>1, <3>2, TaskOf
    <3>3. ASSUME NEW x \in Worker, Tasks[task] = <<"queue", x>> PROVE FALSE
      BY <3>1, <3>3, TaskOf
    <3> QED BY <3>2, <3>3
  <2>5. /\ \A x \in Worker : worker'[x] = worker[x] /\ queue'[x] = queue[x]
        /\ \A q \in registered' : q \in registered /\ queue'[q] = queue[q]
    BY <2>3
  <2> QED BY <2>1, <2>2, <2>3, <2>4, <2>5, WorkerTaskEnds
<1>9. CASE Leave(Len(Tasks) + 1) /\ UNCHANGED workerVars
  <2>1. ClosedAreIdle' /\ task > Len(Tasks)
    BY <1>9, TaskCount DEF Leave, WorkerSide, ClosedAreIdle
  <2> QED BY <1>9, <2>1, WorkerAtWork DEF Leave
<1> QED BY <1>1, <1>2, <1>3, <1>4, <1>5, <1>6, <1>7, <1>8, <1>9 DEF WorkerNext

\* The API closes its connections after the last request whose client waits (server.ts).
LEMMA ApiStep ==
    ASSUME TearDownInv, Alive, role = "api", ApiNext, UNCHANGED <<workerVars, role>>
    PROVE  ApiSide'
<1>0. ApiSide /\ exit = "none" /\ task \in Nat
  BY TaskCount DEF TearDownInv, Alive, TypeOK
<1>1. NoWorker'
  BY <1>0 DEF ApiSide, NoWorker, workerVars
<1> USE <1>0, <1>1 DEF ApiSide, lifeVars, scrapeVars, redisVars, apiVars
<1>2. CASE httpRateLimitPlugin BY <1>2 DEF httpRateLimitPlugin
<1>3. CASE Listen BY <1>3 DEF Listen
<1>4. ASSUME NEW r \in Request, Accept(r) PROVE ApiSide'
  BY <1>4 DEF Accept, Serving
<1>5. ASSUME NEW r \in Request, Reply(r) PROVE ApiSide'
  BY <1>5 DEF Reply
<1>6. ASSUME NEW r \in Request, Trails(r) PROVE ApiSide'
  BY <1>6 DEF Trails
<1>7. CASE check BY <1>7 DEF check
<1>8. CASE Pinged BY <1>8 DEF Pinged
<1>9. CASE Drain BY <1>9 DEF Drain
<1>10. CASE stop BY <1>10 DEF stop
<1>11. CASE onClose BY <1>11 DEF onClose, closeAllRedisConnections
<1>12. CASE CloseApiMetrics BY <1>12 DEF CloseApiMetrics, stopMetricsServer
<1>13. CASE Leave(5) /\ UNCHANGED apiVars BY <1>13 DEF Leave
<1>14. ASSUME NEW r \in Request, HangUp(r) PROVE ApiSide'
  BY <1>14 DEF HangUp
<1>15. ASSUME NEW r \in Request, getInstance(r) PROVE ApiSide'
  BY <1>15 DEF getInstance
<1>16. ASSUME NEW r \in Request, getOutboxDispatchQueue(r) PROVE ApiSide'
  BY <1>16 DEF getOutboxDispatchQueue
<1> QED BY <1>2, <1>3, <1>4, <1>5, <1>6, <1>7, <1>8, <1>9, <1>10, <1>11, <1>12, <1>13,
          <1>14, <1>15, <1>16 DEF ApiNext

\* Every step keeps what is closed tied to how far the clean-up is.
LEMMA TearDownStep == TearDownInv /\ [Next]_vars => TearDownInv'
<1> SUFFICES ASSUME TearDownInv, [Next]_vars PROVE TearDownInv'
  OBVIOUS
<1>0. TypeOK'
  BY TypeStep DEF TearDownInv
<1>1. CASE UNCHANGED vars
  BY <1>0, <1>1 DEF vars, lifeVars, scrapeVars, redisVars, workerVars, apiVars, TearDownInv, WorkerSide, ApiSide,
     NoApi, NoWorker, WorkersBehind, ClosedAreIdle, QueuesAhead, RegisteredAreOpen
<1>2. CASE Next
  <2>1. CASE LifeNext /\ UNCHANGED <<workerVars, apiVars>>
    BY <1>2, <2>1, LifeStep DEF Next
  <2>2. CASE role = "worker" /\ WorkerNext /\ UNCHANGED apiVars
    BY <1>0, <1>2, <2>2, WorkerStep DEF Next, TearDownInv
  <2>3. CASE role = "api" /\ ApiNext /\ UNCHANGED workerVars
    BY <1>0, <1>2, <2>3, ApiStep DEF Next, TearDownInv
  <2> QED BY <1>2, <2>1, <2>2, <2>3 DEF Next
<1> QED BY <1>1, <1>2

\* So it holds throughout.
LEMMA TearDownHolds == Spec => []TearDownInv
BY TearDownInit, TearDownStep, PTL DEF Spec

-----------------------------------------------------------------------------
(* What the order is for *)

\* Behind the task that closes it, a worker has no job, unless its close failed.
LEMMA BehindMeansIdle ==
    ASSUME TearDownInv, role = "worker", NEW w \in Worker, job[w], ~GivenUp(w),
           NEW i \in DOMAIN Tasks, Tasks[i] = <<"worker", w>>
    PROVE  task <= i
<1>1. task \in Nat /\ i \in Nat
  BY TaskCount DEF TearDownInv, TypeOK
<1>2. ~(task > i)
  BY DEF TearDownInv, WorkerSide, WorkersBehind, ClosedAreIdle, GivenUp
<1> QED BY <1>1, <1>2

\* Every worker has its task.
LEMMA EveryWorkerIsClosed == \A w \in Worker : \E i \in DOMAIN Tasks : i <= 4 /\ Tasks[i] = <<"worker", w>>
<1>1. 1 \in DOMAIN Tasks /\ Tasks[1] = <<"worker", "dispatch">>
  BY DEF Tasks
<1>2. 3 \in DOMAIN Tasks /\ Tasks[3] = <<"worker", "mail">>
  BY DEF Tasks
<1>3. 4 \in DOMAIN Tasks /\ Tasks[4] = <<"worker", "maintenance">>
  BY DEF Tasks
<1> QED BY <1>1, <1>2, <1>3 DEF Worker

\* Behind its own task no worker has a job in hand: only a forced exit cuts one short.
LEMMA CutInv == TearDownInv => CutOnlyByForce
<1> SUFFICES ASSUME TearDownInv, exit = "own"
             PROVE  (\A w \in Worker : job[w] => GivenUp(w)) /\ inFlight = {}
  BY DEF CutOnlyByForce
<1>1. CASE role = "worker"
  <2>1. ASSUME NEW w \in Worker, job[w], ~GivenUp(w) PROVE FALSE
    <3>1. PICK i \in DOMAIN Tasks : i <= 4 /\ Tasks[i] = <<"worker", w>>
      BY EveryWorkerIsClosed
    <3>2. task <= i /\ task > Len(Tasks)
      BY <1>1, <2>1, <3>1, BehindMeansIdle DEF TearDownInv, WorkerSide
    <3> QED BY <3>1, <3>2, TaskCount DEF TearDownInv, TypeOK
  <2> QED BY <1>1, <2>1 DEF TearDownInv, WorkerSide, NoApi
<1>2. CASE role = "api"
  BY <1>2, TaskCount DEF TearDownInv, ApiSide, NoWorker, TypeOK
<1> QED BY <1>1, <1>2 DEF TearDownInv, TypeOK

\* A clean-up that ends by itself leaves behind a job only of a worker whose close
\* failed, and no request whose client still waits (worker.ts cleanup, server.ts shutdown).
THEOREM OnlyForceCuts == Spec => []CutOnlyByForce
BY TearDownHolds, CutInv, PTL

\* The state's share of WorkFindsItsTools.
ToolsAreThere ==
    /\ \A w \in Worker : job[w] /\ ~GivenUp(w) =>
          redis # "closed" /\ \A q \in Feeds(w) : queue[q] = "open"
    /\ inFlight # {} => redis # "closed"

\* What a job uses is closed by a later task than its worker; what a request uses, once no
\* client waits.
LEMMA ToolsInv == TearDownInv => ToolsAreThere
<1> SUFFICES ASSUME TearDownInv PROVE ToolsAreThere
  OBVIOUS
<1>0. task \in Nat
  BY TaskCount DEF TearDownInv, TypeOK
<1>1. CASE role = "worker"
  <2>1. ASSUME NEW w \in Worker, job[w], ~GivenUp(w)
        PROVE  redis # "closed" /\ \A q \in Feeds(w) : queue[q] = "open"
    <3>1. PICK i \in DOMAIN Tasks : i <= 4 /\ Tasks[i] = <<"worker", w>>
      BY EveryWorkerIsClosed
    <3>2. task <= 4
      BY <1>0, <1>1, <2>1, <3>1, BehindMeansIdle, TaskCount
    <3>3. redis # "closed"
      BY <1>0, <1>1, <3>2, TaskCount DEF TearDownInv, WorkerSide
    <3>4. 5 \in DOMAIN Tasks /\ Tasks[5] = <<"queue", "mail">> /\ "mail" \in Worker
      BY DEF Tasks, Worker
    <3>5. queue["mail"] = "open"
      BY <1>0, <1>1, <3>2, <3>4 DEF TearDownInv, WorkerSide, QueuesAhead
    <3> QED BY <3>3, <3>5 DEF Feeds
  <2> QED BY <1>1, <2>1 DEF ToolsAreThere, TearDownInv, WorkerSide, NoApi
<1>2. CASE role = "api"
  BY <1>0, <1>2 DEF ToolsAreThere, TearDownInv, ApiSide, NoWorker
<1> QED BY <1>1, <1>2 DEF TearDownInv, TypeOK

\* A scrape, and a walk left behind, turn only to a queue the worker process has
\* registered and not closed.
LEMMA ScrapeStep ==
    ASSUME TearDownInv, Next
    PROVE  /\ scrape' \in Queue /\ scrape' # scrape => queue[scrape'] = "open"
           /\ \A q \in behind' \ (behind \cup {scrape}) : queue[q] = "open"
<1>0. \A q \in registered : queue[q] = "open"
  BY DEF TearDownInv, TypeOK, WorkerSide, RegisteredAreOpen, ApiSide
<1>1. CASE LifeNext
  <2>1. /\ scrape' \in Queue /\ scrape' # scrape => scrape' \in registered
        /\ behind' \subseteq behind \cup registered \cup ({scrape} \cap Queue)
    BY <1>1, LifeFrame DEF TearDownInv
  <2> QED BY <1>0, <2>1
<1>2. CASE WorkerNext
  <2>1. scrape' = scrape /\ behind' = behind
    BY <1>2 DEF WorkerNext, startMaintenanceScheduler, TakesJob, EndsJob, StopsFetching, CloseWorker, CloseQueue,
       CloseMetrics, stopMetricsServer, CloseRedis, Leave, lifeVars, scrapeVars
  <2> QED BY <2>1
<1>3. CASE ApiNext
  <2>1. scrape' = scrape /\ behind' = behind
    BY <1>3 DEF ApiNext, httpRateLimitPlugin, Listen, Accept, HangUp, getInstance, getOutboxDispatchQueue, Reply,
       Trails, check, Pinged, Drain, stop, onClose, CloseApiMetrics, stopMetricsServer, Leave, lifeVars, scrapeVars
  <2> QED BY <2>1
<1> QED BY <1>1, <1>2, <1>3 DEF Next

\* A job that a clean-up waits for finds the MailQueue and its clients open until its
\* end, a request whose client waits its Redis clients, and neither a scrape nor the walk
\* one has left behind turns to a closed queue (worker.ts cleanup, app.ts onClose,
\* registerQueue and unregisterQueue).
THEOREM ToolsOutlastWork == Spec => WorkFindsItsTools
<1>1. TearDownInv /\ ToolsAreThere' /\ [Next]_vars =>
         [/\ \A w \in Worker : job'[w] /\ ~GivenUp(w)' =>
                redis' # "closed" /\ \A q \in Feeds(w) : queue'[q] = "open"
          /\ inFlight' # {} => redis' # "closed"
          /\ scrape' \in Queue /\ scrape' # scrape => queue[scrape'] = "open"
          /\ \A q \in behind' \ (behind \cup {scrape}) : queue[q] = "open"]_vars
  <2> SUFFICES ASSUME TearDownInv, ToolsAreThere', Next
               PROVE  /\ \A w \in Worker : job'[w] /\ ~GivenUp(w)' =>
                            redis' # "closed" /\ \A q \in Feeds(w) : queue'[q] = "open"
                      /\ inFlight' # {} => redis' # "closed"
                      /\ scrape' \in Queue /\ scrape' # scrape => queue[scrape'] = "open"
                      /\ \A q \in behind' \ (behind \cup {scrape}) : queue[q] = "open"
    OBVIOUS
  <2>1. \A w \in Worker : job'[w] /\ ~GivenUp(w)' =>
           redis' # "closed" /\ \A q \in Feeds(w) : queue'[q] = "open"
    BY DEF ToolsAreThere
  <2>2. inFlight' # {} => redis' # "closed"
    BY DEF ToolsAreThere
  <2> QED BY <2>1, <2>2, ScrapeStep
<1> QED BY <1>1, TearDownHolds, ToolsInv, PTL DEF Spec, WorkFindsItsTools
================================================================================
