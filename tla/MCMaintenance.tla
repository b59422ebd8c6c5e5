----------------------------- MODULE MCMaintenance -----------------------------
(* Instances of Maintenance for TLC. *)
EXTENDS Maintenance, TLC

KeysOf(jobs) == UNION {{PhasesFor[j][i].key : i \in 1..Len(PhasesFor[j])} : j \in jobs}
TwoSchedules == {"five_min_sweep", "analytics_retention"}
TheirKeys == KeysOf(TwoSchedules)
================================================================================
