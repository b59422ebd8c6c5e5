------------------------------- MODULE Processes -------------------------------
(***************************************************************************)
(* The life of one process of the service, API or worker.                  *)
(***************************************************************************)
EXTENDS WorkerProcess, ApiProcess

ASSUME QueueAssumption == Queue = Worker

VARIABLE role

vars == <<lifeVars, workerVars, apiVars, role>>

TypeOK ==
    /\ role \in {"api", "worker"}
    /\ boot \in {"loading", "listening", "scheduling", "metrics", "binding", "up", "failed"}
    /\ task \in 0..(Len(Tasks) + 1)
    /\ spoilt \subseteq DOMAIN Tasks
    /\ crashed \in BOOLEAN
    /\ exit \in {"none", "own", "forced"}
    /\ metrics \in {"off", "binding", "on"}
    /\ scrape \in {"none", "counting", "process"} \cup Queue
    /\ counted \subseteq Queue
    /\ registered \subseteq Queue
    /\ behind \subseteq Queue
    /\ RedisTypeOK
    /\ worker \in [Worker -> {"none", "on", "closing", "closed"}]
    /\ job \in [Worker -> BOOLEAN]
    /\ queue \in [Worker -> {"none", "open", "closed"}]
    /\ inFlight \subseteq Request
    /\ departed \subseteq Request
    /\ trailing \subseteq Request
    /\ probe \in {"none", "on", "stopped"}
    /\ pinging \in BOOLEAN
    /\ degraded \in BOOLEAN
    /\ limiter \in BOOLEAN

Init ==
    /\ role \in {"api", "worker"}
    /\ LifeInit
    /\ IF role = "worker" THEN WorkerInit /\ NoApi ELSE ApiInit /\ NoWorker

Next ==
    /\ Alive
    /\ UNCHANGED role
    /\ \/ LifeNext /\ UNCHANGED <<workerVars, apiVars>>
       \/ role = "worker" /\ WorkerNext /\ UNCHANGED apiVars
       \/ role = "api" /\ ApiNext /\ UNCHANGED workerVars

Spec == Init /\ [][Next]_vars

-----------------------------------------------------------------------------

\* The task that closes w, and whether it gave up on it.
GivenUp(w) == \E i \in spoilt : Tasks[i] = <<"worker", w>>

\* A job that a clean-up waits for finds the MailQueue and the clients it uses open
\* until its end, a request whose client waits finds its Redis clients open, and no
\* scrape, nor the walk a scrape has left behind, turns to a queue that is closed: what
\* depends on something goes first (worker.ts cleanup, app.ts onClose, registerQueue and
\* unregisterQueue).  The handler of a client who hung up is promised nothing.
WorkFindsItsTools ==
    [][/\ \A w \in Worker : job'[w] /\ ~GivenUp(w)' =>
             redis' # "closed" /\ \A q \in Feeds(w) : queue'[q] = "open"
       /\ inFlight' # {} => redis' # "closed"
       /\ scrape' \in Queue /\ scrape' # scrape => queue[scrape'] = "open"
       /\ \A q \in behind' \ (behind \cup {scrape}) : queue[q] = "open"]_vars

\* Nothing that is waited for is cut in two by a clean-up that ends by itself: it leaves
\* behind a job only of a worker whose close failed, and no request whose client still
\* waits (worker.ts cleanup, server.ts shutdown).  It may leave behind the handler of a
\* client who hung up, and an enqueue that outlives its answer.
CutOnlyByForce ==
    exit = "own" => /\ \A w \in Worker : job[w] => GivenUp(w)
                    /\ inFlight = {}
================================================================================
