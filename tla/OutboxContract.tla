---------------------------- MODULE OutboxContract ----------------------------
(***************************************************************************)
(* What the pipeline promises the code that registers an event: once the   *)
(* business transaction committed, the event stays open until everybody it *)
(* is addressed to was served, until it expired, or until it is purged for *)
(* its age; and nothing opens it again.                                    *)
(***************************************************************************)
CONSTANTS Events, Recipients

VARIABLES
    owed,     \* [Events -> SUBSET Recipients]: who was not served yet
    fate,     \* [Events -> {"unborn", "open", "delivered", "expired", "purged"}]
    expired   \* [Events -> BOOLEAN]

vars == <<owed, fate, expired>>

Init ==
    /\ owed = [e \in Events |-> Recipients]
    /\ fate = [e \in Events |-> "unborn"]
    /\ expired = [e \in Events |-> FALSE]

Register(e) ==
    /\ fate[e] = "unborn"
    /\ fate' = [fate EXCEPT ![e] = "open"]
    /\ UNCHANGED <<owed, expired>>

\* A message already on its way may still arrive after the event was closed.
Serve(e, some) ==
    /\ fate[e] # "unborn"
    /\ owed' = [owed EXCEPT ![e] = @ \ some]
    /\ UNCHANGED <<fate, expired>>

Expire(e) ==
    /\ fate[e] # "unborn"
    /\ expired' = [expired EXCEPT ![e] = TRUE]
    /\ UNCHANGED <<owed, fate>>

MayClose(e, why) ==
    /\ fate[e] = "open"
    /\ why = "delivered" => owed[e] = {}
    /\ why = "expired" => expired[e]

Close(es, why) ==
    /\ \A e \in es : MayClose(e, why)
    /\ fate' = [e \in Events |-> IF e \in es THEN why ELSE fate[e]]
    /\ UNCHANGED <<owed, expired>>

Next ==
    \/ \E e \in Events : Register(e) \/ Expire(e)
    \/ \E e \in Events, some \in SUBSET Recipients : Serve(e, some)
    \/ \E es \in SUBSET Events, why \in {"delivered", "expired", "purged"} : Close(es, why)

Spec == Init /\ [][Next]_vars
================================================================================
