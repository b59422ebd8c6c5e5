------------------------------ MODULE ProcessLife ------------------------------
(***************************************************************************)
(* What server.ts and worker.ts have in common: close-with-grace, which    *)
(* starts a clean-up at a signal or a crash and ends the process when the  *)
(* clean-up, its 15 seconds or everybody's patience is over; the metrics   *)
(* server.                                                                 *)
(***************************************************************************)
EXTENDS Naturals, RedisConnection

CONSTANT Queue     \* the queues a process may count for a scrape, in the order they are registered

VARIABLES
    boot,        \* how far start() or bootstrap() got
    task,        \* the clean-up task that runs; 0: none was asked for, Done: the last is over
    spoilt,      \* clean-up tasks that failed, and were logged
    crashed,     \* an error, not a signal, started the clean-up
    exit,        \* "none", "own": after the clean-up, "forced": in the middle of it
    metrics,     \* metricsServer: "off", "binding", "on"
    scrape,      \* "none", "counting": a scrape between two queues, "process": one past them, or a queue
    counted,     \* the queues a scrape under way is done with
    registered,  \* the queues a scrape asks for their counts
    behind       \* the queues whose counts are awaited on behalf of scrapes that were answered without

scrapeVars == <<scrape, counted, registered, behind>>
lifeVars == <<boot, task, spoilt, crashed, exit, metrics, scrapeVars, redisVars>>

Alive == exit = "none"

LifeInit ==
    /\ task = 0
    /\ spoilt = {}
    /\ crashed = FALSE
    /\ exit = "none"
    /\ metrics = "off"
    /\ scrape = "none"
    /\ counted = {}
    /\ behind = {}
    /\ RedisInit

(* close-with-grace *)

\* The first signal, or uncaught error, starts the clean-up.
CloseWithGrace ==
    /\ task = 0
    /\ task' = 1
    /\ crashed' \in BOOLEAN
    /\ UNCHANGED <<boot, spoilt, exit, metrics, scrapeVars, redisVars>>

\* The second one, or the 15 seconds, ends the process there and then.
ForceExit ==
    /\ task > 0
    /\ exit' = "forced"
    /\ UNCHANGED <<boot, task, spoilt, crashed, metrics, scrapeVars, redisVars>>

\* A crash is reported to Sentry before the exit; the report has 2 seconds.
Leave(done) ==
    /\ task = done
    /\ exit' = "own"
    /\ UNCHANGED <<boot, task, spoilt, crashed, metrics, scrapeVars, redisVars>>

(* The metrics server: auxiliary, its failure to bind is only logged. *)

startMetricsServer ==
    /\ boot = "metrics"
    /\ boot' = "binding"
    /\ metrics' = "binding"
    /\ UNCHANGED <<task, spoilt, crashed, exit, scrapeVars, redisVars>>

\* A server stopped while it was binding stays off.
MetricsBound ==
    /\ boot = "binding"
    /\ boot' = "up"
    /\ metrics' \in IF metrics = "binding" THEN {"on", "off"} ELSE {"off"}
    /\ UNCHANGED <<task, spoilt, crashed, exit, scrapeVars, redisVars>>

\* (mutant) the variable keeps the closed server
stopMetricsServerKeepsIt ==
    /\ scrape = "none"
    /\ metrics' = "stopped"
    /\ UNCHANGED <<scrapeVars, redisVars>>

\* Its close waits for the scrape it is answering.
stopMetricsServer ==
    /\ scrape = "none"
    /\ metrics' = "off"
    /\ UNCHANGED <<scrapeVars, redisVars>>

(* A scrape of /metrics *)

Scrape ==
    /\ metrics = "on" /\ scrape = "none"
    /\ scrape' = "counting"
    /\ counted' = {}
    /\ UNCHANGED <<boot, task, spoilt, crashed, exit, metrics, registered, behind, redisVars>>

\* collectBullMQMetrics walks the map it registered, as it then is.
collectBullMQMetrics ==
    /\ scrape = "counting"
    /\ \/ \E q \in registered \ counted : scrape' = q
       \/ registered \subseteq counted /\ scrape' = "process"
    /\ UNCHANGED <<boot, task, spoilt, crashed, exit, metrics, counted, registered, behind, redisVars>>

\* The counts arrive; they fail; or 2 seconds pass, and the scrape goes on without,
\* while the walk that awaits them is left to itself.
Counted ==
    /\ scrape \in Queue
    /\ \/ scrape' = "counting" /\ counted' = counted \cup {scrape} /\ UNCHANGED behind
       \/ scrape' = "process" /\ UNCHANGED counted /\ behind' \in {behind, behind \cup {scrape}}
    /\ UNCHANGED <<boot, task, spoilt, crashed, exit, metrics, registered, redisVars>>

\* A walk left behind turns to a queue that is still registered (here even one it has been
\* to), or ends; another one may await the same counts.
WalksOn(q) ==
    /\ q \in behind
    /\ \E others \in {behind, behind \ {q}} :
          behind' \in {others} \cup {others \cup {n} : n \in registered}
    /\ UNCHANGED <<boot, task, spoilt, crashed, exit, metrics, scrape, counted, registered, redisVars>>

Scraped ==
    /\ scrape = "process"
    /\ scrape' = "none"
    /\ UNCHANGED <<boot, task, spoilt, crashed, exit, metrics, counted, registered, behind, redisVars>>

RedisEvent ==
    /\ RedisNext
    /\ UNCHANGED <<boot, task, spoilt, crashed, exit, metrics, scrapeVars>>

LifeNext ==
    \/ CloseWithGrace \/ ForceExit \/ RedisEvent
    \/ startMetricsServer \/ MetricsBound
    \/ Scrape \/ collectBullMQMetrics \/ Counted \/ Scraped \/ \E q \in Queue : WalksOn(q)
================================================================================
