----------------------------- MODULE MCProcesses -----------------------------
(* An API process with two requests, and a worker process, for TLC. *)
EXTENDS Processes
================================================================================
