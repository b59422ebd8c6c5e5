----------------------------- MODULE WorkerProcess -----------------------------
(***************************************************************************)
(* worker.ts: three BullMQ workers, the queues they put their jobs in, and *)
(* the order in which a clean-up takes them down.                          *)
(***************************************************************************)
EXTENDS ProcessLife, Sequences

VARIABLES
    worker,   \* [Worker -> {"none", "on", "closing", "closed"}]
    job,      \* [Worker -> BOOLEAN]: it has a job in hand
    queue     \* [Worker -> {"none", "open", "closed"}]: the Queue instance of that name

workerVars == <<worker, job, queue>>

Worker == {"dispatch", "mail", "maintenance"}

\* What bootstrap does up to its first await, which no signal finds half done.
WorkerInit ==
    /\ boot = "scheduling"
    /\ worker = [w \in Worker |-> "on"]
    /\ job = [w \in Worker |-> FALSE]
    /\ queue = [w \in Worker |-> "open"]
    /\ registered = Worker

NoWorker ==
    /\ worker = [w \in Worker |-> "none"]
    /\ job = [w \in Worker |-> FALSE]
    /\ queue = [w \in Worker |-> "none"]

\* The queues a job puts other jobs in.
Feeds(w) == IF w = "mail" THEN {} ELSE {"mail"}

\* The five upserts wait for a connection, and fail on the queue a clean-up has closed meanwhile.
\* crashShutdown reports the failure and the process goes on as it is.
startMaintenanceScheduler ==
    /\ boot = "scheduling"
    /\ boot' \in IF queue["maintenance"] = "open" THEN {"metrics", "failed"} ELSE {"failed"}
    /\ redis \in {"ready", "closed"}
    /\ UNCHANGED <<task, spoilt, crashed, exit, metrics, scrapeVars, redisVars, workerVars>>

TakesJob(w) ==
    /\ worker[w] = "on" /\ ~job[w]
    /\ job' = [job EXCEPT ![w] = TRUE]
    /\ UNCHANGED <<lifeVars, worker, queue>>

EndsJob(w) ==
    /\ job[w]
    /\ job' = [job EXCEPT ![w] = FALSE]
    /\ UNCHANGED <<lifeVars, worker, queue>>

-----------------------------------------------------------------------------
(* cleanup *)

\* (mutant) the MailQueue goes before the worker that still feeds it
TasksQueueFirst ==
    << <<"worker", "dispatch">>, <<"queue", "dispatch">>, <<"worker", "mail">>, <<"queue", "mail">>,
       <<"worker", "maintenance">>, <<"queue", "maintenance">>, <<"metrics", "">>, <<"redis", "">> >>

Tasks ==
    << <<"worker", "dispatch">>, <<"queue", "dispatch">>, <<"worker", "mail">>, <<"worker", "maintenance">>,
       <<"queue", "mail">>, <<"queue", "maintenance">>, <<"metrics", "">>, <<"redis", "">> >>

Running(kind, w) == task \in DOMAIN Tasks /\ Tasks[task] = <<kind, w>>

\* A task that fails is logged, and the loop goes on with the next one.
TaskEnds ==
    /\ task' = task + 1
    /\ spoilt' \in {spoilt, spoilt \cup {task}}

StopsFetching(w) ==
    /\ Running("worker", w) /\ worker[w] = "on"
    /\ worker' = [worker EXCEPT ![w] = "closing"]
    /\ UNCHANGED <<lifeVars, job, queue>>

\* (mutant) the job in hand is not waited for
closesAtOnce(w) == worker[w] = "closing"

\* Worker.close waits for the job in hand.
closes(w) == worker[w] = "closing" /\ ~job[w]

CloseWorker(w) ==
    /\ Running("worker", w) /\ worker[w] = "closing"
    /\ TaskEnds
    /\ task \notin spoilt' => closes(w)
    /\ worker' = [worker EXCEPT ![w] = IF task \in spoilt' THEN @ ELSE "closed"]
    /\ UNCHANGED <<boot, crashed, exit, metrics, scrapeVars, redisVars, job, queue>>

\* No scrape asks a queue that is being closed.
CloseQueue(w) ==
    /\ Running("queue", w)
    /\ TaskEnds
    /\ registered' = registered \ {w}
    /\ queue' = [queue EXCEPT ![w] = "closed"]
    /\ UNCHANGED <<boot, crashed, exit, metrics, scrape, counted, behind, redisVars, worker, job>>

CloseMetrics ==
    /\ Running("metrics", "")
    /\ TaskEnds
    /\ stopMetricsServer
    /\ UNCHANGED <<boot, crashed, exit, workerVars>>

CloseRedis ==
    /\ Running("redis", "")
    /\ task' = task + 1
    /\ closeAllRedisConnections
    /\ UNCHANGED <<boot, spoilt, crashed, exit, metrics, scrapeVars, workerVars>>

WorkerNext ==
    \/ startMaintenanceScheduler
    \/ \E w \in Worker :
          \/ TakesJob(w) \/ EndsJob(w)
          \/ StopsFetching(w) \/ CloseWorker(w) \/ CloseQueue(w)
    \/ CloseMetrics \/ CloseRedis
    \/ Leave(Len(Tasks) + 1) /\ UNCHANGED workerVars
================================================================================
