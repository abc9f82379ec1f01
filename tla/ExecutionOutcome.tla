-------------------------- MODULE ExecutionOutcome --------------------------
(***************************************************************************)
(* What the execution-record machinery promises for every execution, with  *)
(* no workers, callbacks, transactions or tables: an execution is decided  *)
(* at most once, the decision is delivered to the main project at most     *)
(* once and unchanged, and with shared recording it is not forgotten       *)
(* before it was delivered.  ExecutionRecords implements this module.      *)
(***************************************************************************)
CONSTANTS Record, Shared

VARIABLES
    outcome,    \* "none" until the record exists, "open" until it is decided
    delivered   \* what the main project was told, "none" until then

Outcome == {"success", "fail"}
vars == <<outcome, delivered>>

TypeOK ==
    /\ outcome \in [Record -> Outcome \cup {"none", "open", "forgotten"}]
    /\ delivered \in [Record -> Outcome \cup {"none"}]

Init ==
    /\ outcome = [r \in Record |-> "none"]
    /\ delivered = [r \in Record |-> "none"]

Create(r) ==
    /\ outcome[r] = "none"
    /\ outcome' = [outcome EXCEPT ![r] = "open"]
    /\ UNCHANGED delivered

Decide(r, o) ==
    /\ outcome[r] = "open"
    /\ outcome' = [outcome EXCEPT ![r] = o]
    /\ UNCHANGED delivered

Deliver(r) ==
    /\ Shared /\ outcome[r] \in Outcome /\ delivered[r] = "none"
    /\ delivered' = [delivered EXCEPT ![r] = outcome[r]]
    /\ UNCHANGED outcome

\* A callback decides and delivers in one transaction.
DecideAndDeliver(r, o) ==
    /\ Shared /\ outcome[r] = "open" /\ delivered[r] = "none"
    /\ outcome' = [outcome EXCEPT ![r] = o]
    /\ delivered' = [delivered EXCEPT ![r] = o]

Forget(S) ==
    /\ \A r \in S : outcome[r] \in Outcome /\ (Shared => delivered[r] # "none")
    /\ outcome' = [r \in Record |-> IF r \in S THEN "forgotten" ELSE outcome[r]]
    /\ UNCHANGED delivered

Next ==
    \/ \E r \in Record : Create(r) \/ Deliver(r)
    \/ \E r \in Record, o \in Outcome : Decide(r, o) \/ DecideAndDeliver(r, o)
    \/ \E S \in SUBSET Record : Forget(S)

Spec == Init /\ [][Next]_vars
=============================================================================
