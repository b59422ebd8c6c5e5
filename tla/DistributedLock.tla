---------------------------- MODULE DistributedLock ----------------------------
(***************************************************************************)
(* The locks of distributed-lock.ts in Redis: SET NX PX, and two Lua       *)
(* scripts that ask for the owner's token first.  A holder works on one    *)
(* acquisition at a time, so that its name is its token.                   *)
(***************************************************************************)
CONSTANTS
    Key,
    Holder,
    Free

ASSUME LockAssumption == Free \notin Holder

VARIABLES
    lock,      \* [Key -> Holder \cup {Free}]
    lapsed,    \* holders whose lock ran out under them (not the program's)
    stranded   \* keys left behind by a crash or a DEL that failed (not the program's)

lockVars == <<lock, lapsed, stranded>>

LockTypeOK ==
    /\ lock \in [Key -> Holder \cup {Free}]
    /\ lapsed \subseteq Holder
    /\ stranded \subseteq Key

LockInit ==
    /\ lock = [k \in Key |-> Free]
    /\ lapsed = {}
    /\ stranded = {}

\* The key is taken if it is free.
acquire(k, h) ==
    /\ lock[k] = Free
    /\ lock' = [lock EXCEPT ![k] = h]
    /\ lapsed' = lapsed \ {h}
    /\ UNCHANGED stranded

\* Mutant: DEL without asking whose the key is.
releaseAnyones(k, h) ==
    /\ lock' = [lock EXCEPT ![k] = Free]
    /\ UNCHANGED <<lapsed, stranded>>

\* The key is deleted if it is the holder's still.
release(k, h) ==
    /\ lock' = IF lock[k] = h THEN [lock EXCEPT ![k] = Free] ELSE lock
    /\ UNCHANGED <<lapsed, stranded>>

\* The holder dies, or its DEL fails: the key stays until its time is up.
Strand(k, h) ==
    /\ stranded' = IF lock[k] = h THEN stranded \cup {k} ELSE stranded
    /\ UNCHANGED <<lock, lapsed>>

\* The SET is done and its answer lost: a key nobody knows to be theirs.
Abandon(k, h) ==
    /\ lock' = [lock EXCEPT ![k] = h]
    /\ stranded' = stranded \cup {k}
    /\ UNCHANGED lapsed

\* PX: the key's time is up.  (A renewal in time is a step that changes nothing.)
Expires(k) ==
    /\ lock[k] # Free
    /\ lapsed' = IF k \in stranded THEN lapsed ELSE lapsed \cup {lock[k]}
    /\ lock' = [lock EXCEPT ![k] = Free]
    /\ stranded' = stranded \ {k}
================================================================================
