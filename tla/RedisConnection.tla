---------------------------- MODULE RedisConnection ----------------------------
(***************************************************************************)
(* The Redis clients of a process, taken as one, and what its outage       *)
(* loggers make of their events.  Which events are written and which are   *)
(* counted for the next line is left out; where an outage begins and ends  *)
(* is not.                                                                 *)
(***************************************************************************)

VARIABLES
    redis,    \* "down", "connected", "ready", "closed": by closeAllRedisConnections
    outage    \* outageStartedAt # null

redisVars == <<redis, outage>>

RedisTypeOK ==
    /\ redis \in {"down", "connected", "ready", "closed"}
    /\ outage \in BOOLEAN

RedisInit ==
    /\ redis = "down"
    /\ outage = FALSE

onOutage == outage' = TRUE
onRecovery == outage' = FALSE

\* A connection is made or refused; a connection counts as a recovery before
\* it is known to be of any use.
Connect ==
    /\ redis = "down"
    /\ \/ redis' = "connected" /\ onRecovery
       \/ redis' = redis /\ onOutage

Ready ==
    /\ redis = "connected"
    /\ redis' = "ready"
    /\ onRecovery

Drop ==
    /\ redis \in {"connected", "ready"}
    /\ redis' = "down"
    /\ onOutage

\* An error of a live connection, which does not close it: one that says the
\* connection is unusable is an outage, any other a line of its own.
LiveError ==
    /\ redis \in {"connected", "ready"}
    /\ onOutage
    /\ UNCHANGED redis

\* Every quit is settled, none is rejected; its close event is an outage too.
closeAllRedisConnections ==
    /\ redis' = "closed"
    /\ onOutage

RedisNext == Connect \/ Ready \/ Drop \/ LiveError
================================================================================
