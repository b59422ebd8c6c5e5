------------------------------ MODULE ApiProcess ------------------------------
(***************************************************************************)
(* server.ts and what app.ts closes: the requests in flight, what they     *)
(* leave running behind their answer, the probe of the HTTP rate limiter,  *)
(* and the limiter of the providers.                                       *)
(***************************************************************************)
EXTENDS ProcessLife

CONSTANT Request   \* requests that may be in flight at once

VARIABLES
    inFlight,  \* the requests whose client waits for the answer
    departed,  \* the ones whose client hung up; their handlers go on all the same
    trailing,  \* the requests whose enqueueOutboxDispatch outlives their answer
    probe,     \* the probe's timer: "none", "on", "stopped"
    pinging,   \* a PING of the probe is unanswered
    degraded,  \* the probe's reporter has an episode open
    limiter    \* RedisRateLimiter.instance exists

apiVars == <<inFlight, departed, trailing, probe, pinging, degraded, limiter>>

NoApi ==
    /\ inFlight = {}
    /\ departed = {}
    /\ trailing = {}
    /\ probe = "none"
    /\ pinging = FALSE
    /\ degraded = FALSE
    /\ limiter = FALSE

ApiInit ==
    /\ boot = "loading"
    /\ registered = {}
    /\ NoApi

(* start *)

\* The plugins are loaded: the probe starts with a first check.
httpRateLimitPlugin ==
    /\ boot = "loading"
    /\ boot' = "listening"
    /\ probe' = "on"
    /\ pinging' = TRUE
    /\ UNCHANGED <<task, spoilt, crashed, exit, metrics, scrapeVars, redisVars,
                   inFlight, departed, trailing, degraded, limiter>>

\* An app that cannot listen, or is being closed, is reported as a crash, and
\* the process goes on as it is.
Listen ==
    /\ boot = "listening"
    /\ boot' \in IF task = 0 THEN {"metrics", "failed"} ELSE {"failed"}
    /\ UNCHANGED <<task, spoilt, crashed, exit, metrics, scrapeVars, redisVars, apiVars>>

Serving == boot \in {"metrics", "binding", "up"} /\ task = 0

(* Requests *)

Accept(r) ==
    /\ Serving
    /\ r \notin inFlight \cup departed \cup trailing
    /\ inFlight' = inFlight \cup {r}
    /\ UNCHANGED <<lifeVars, departed, trailing, probe, pinging, degraded, limiter>>

\* The socket is gone before the answer: at most the request's deadline hears of it.
HangUp(r) ==
    /\ r \in inFlight
    /\ inFlight' = inFlight \ {r}
    /\ departed' = departed \cup {r}
    /\ UNCHANGED <<lifeVars, trailing, probe, pinging, degraded, limiter>>

Handled == inFlight \cup departed

\* A lookup reaches its providers; one that outlived the clean-up makes the limiter anew.
getInstance(r) ==
    /\ r \in Handled
    /\ limiter' = TRUE
    /\ UNCHANGED <<lifeVars, inFlight, departed, trailing, probe, pinging, degraded>>

\* The first event of a process needs a queue, and that a client, which is new if the
\* clean-up closed the others already: nobody closes it again.
getOutboxDispatchQueue(r) ==
    /\ r \in Handled
    /\ redis = "closed"
    /\ redis' = "down"
    /\ UNCHANGED <<boot, task, spoilt, crashed, exit, metrics, scrapeVars, outage, apiVars>>

\* The handler ends.  The answer does not wait for the enqueue of the event it registered.
Reply(r) ==
    /\ r \in Handled
    /\ inFlight' = inFlight \ {r}
    /\ departed' = departed \ {r}
    /\ trailing' \in {trailing, trailing \cup {r}}
    /\ UNCHANGED <<lifeVars, probe, pinging, degraded, limiter>>

\* Done, or failed on a closed connection: either way only the log knows.
Trails(r) ==
    /\ r \in trailing
    /\ trailing' = trailing \ {r}
    /\ UNCHANGED <<lifeVars, inFlight, departed, probe, pinging, degraded, limiter>>

(* The probe of the rate limiter's Redis *)

check ==
    /\ probe = "on" /\ ~pinging
    /\ pinging' = TRUE
    /\ UNCHANGED <<lifeVars, inFlight, departed, trailing, probe, degraded, limiter>>

\* An answer closes the episode, an error or 100 ms of silence opens one; a client
\* that is not ready, or was closed by onClose, does not answer.
Pinged ==
    /\ pinging
    /\ pinging' = FALSE
    /\ degraded' \in IF redis = "ready" /\ task < 4 THEN BOOLEAN ELSE {TRUE}
    /\ UNCHANGED <<lifeVars, inFlight, departed, trailing, probe, limiter>>

(* shutdown: app.close, then stopMetricsServer *)

\* Fastify finishes loading, refuses what comes and waits for the connections that are
\* open: for a request whose client is there, not for the handler of one who left.
Drain ==
    /\ task = 1 /\ boot # "loading"
    /\ inFlight = {}
    /\ task' = 2
    /\ UNCHANGED <<boot, spoilt, crashed, exit, metrics, scrapeVars, redisVars, apiVars>>

\* The onClose hooks run from the last registered to the first.
stop ==
    /\ task = 2
    /\ task' = 3
    /\ probe' = "stopped"
    /\ degraded' = FALSE
    /\ UNCHANGED <<boot, spoilt, crashed, exit, metrics, scrapeVars, redisVars,
                   inFlight, departed, trailing, pinging, limiter>>

\* What destroyInstance or the closing of the connections throws is logged.
onClose ==
    /\ task = 3
    /\ task' = 4
    /\ limiter' = FALSE
    /\ closeAllRedisConnections
    /\ UNCHANGED <<boot, spoilt, crashed, exit, metrics, scrapeVars, inFlight, departed, trailing,
                   probe, pinging, degraded>>

CloseApiMetrics ==
    /\ task = 4
    /\ task' = 5
    /\ spoilt' \in {spoilt, spoilt \cup {task}}
    /\ stopMetricsServer
    /\ UNCHANGED <<boot, crashed, exit, apiVars>>

ApiNext ==
    \/ httpRateLimitPlugin \/ Listen
    \/ \E r \in Request :
          \/ Accept(r) \/ HangUp(r) \/ getInstance(r) \/ getOutboxDispatchQueue(r)
          \/ Reply(r) \/ Trails(r)
    \/ check \/ Pinged
    \/ Drain \/ stop \/ onClose \/ CloseApiMetrics
    \/ Leave(5) /\ UNCHANGED apiVars
================================================================================
