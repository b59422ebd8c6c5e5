----------------------------- MODULE OutageReporter -----------------------------
(***************************************************************************)
(* The one OutageReporter of the providers' rate limiter: a Redis outage   *)
(* is an episode, whichever provider and whichever request notices it.     *)
(* Time is whether warnIntervalMs went by since the last line.             *)
(***************************************************************************)
EXTENDS Naturals

CONSTANT MaxFailOpen   \* bound on the consumes Redis fails in a behaviour

VARIABLES
    episode,    \* startedAt # null
    suppressed, \* suppressedLogs
    failOpen,   \* requests let through without the shared limit so far
    told        \* those of them the log lines written so far account for

outageVars == <<episode, suppressed, failOpen, told>>

ASSUME OutageAssumption == MaxFailOpen \in Nat

OutageTypeOK ==
    /\ episode \in BOOLEAN
    /\ suppressed \in 0..MaxFailOpen
    /\ failOpen \in 0..MaxFailOpen
    /\ told \in 0..MaxFailOpen

OutageInit ==
    /\ episode = FALSE
    /\ suppressed = 0
    /\ failOpen = 0
    /\ told = 0

startEpisode ==
    /\ ~episode
    /\ episode' = TRUE
    /\ suppressed' = 0
    /\ told' = told + 1

\* (mutant) the counter is not reset with the line
warnStillDegradedKeepsCount ==
    /\ episode
    /\ told' = told + suppressed + 1
    /\ UNCHANGED <<episode, suppressed>>

\* The line names the requests kept from the log since the last one.
warnStillDegraded ==
    /\ episode
    /\ suppressed' = 0
    /\ told' = told + suppressed + 1
    /\ UNCHANGED episode

suppress ==
    /\ episode
    /\ suppressed' = suppressed + 1
    /\ UNCHANGED <<episode, told>>

failed ==
    /\ failOpen < MaxFailOpen
    /\ failOpen' = failOpen + 1
    /\ startEpisode \/ warnStillDegraded \/ suppress

succeeded ==
    /\ episode' = FALSE
    /\ suppressed' = 0
    /\ told' = told + suppressed
    /\ UNCHANGED failOpen
=================================================================================
