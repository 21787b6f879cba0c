----------------------------- MODULE ScanReport -----------------------------
(***************************************************************************)
(* What a core scan promises about its targets, without rules, domains or  *)
(* limits: every target is either missing (and skipped) or settled once    *)
(* and for all, and the report is published when no target is pending.     *)
(* The scan may give up, but only because of what happened to a file: it   *)
(* is missing, or it is not the one that was read.                         *)
(***************************************************************************)
CONSTANT Targets

VARIABLES
    verdict,    \* verdict[t]: pending, missing or settled
    report,     \* running, published or aborted
    intact      \* all the files are there, as they were when they were read

vars == <<verdict, report, intact>>

Init ==
    /\ verdict = [t \in Targets |-> "pending"]
    /\ report = "running"
    /\ intact \in BOOLEAN

\* Files are removed, created and changed.
Outside ==
    /\ report = "running"
    /\ intact' \in BOOLEAN
    /\ UNCHANGED <<verdict, report>>

\* The targets that do not exist are put aside together, before any other
\* target is settled.
Skip(S) ==
    /\ report = "running"
    /\ \A t \in Targets : verdict[t] = "pending"
    /\ S # {} => ~intact
    /\ verdict' = [t \in Targets |-> IF t \in S THEN "missing" ELSE "pending"]
    /\ UNCHANGED <<report, intact>>

Settle(t) ==
    /\ report = "running"
    /\ verdict[t] = "pending"
    /\ verdict' = [verdict EXCEPT ![t] = "settled"]
    /\ UNCHANGED <<report, intact>>

Publish ==
    /\ report = "running"
    /\ \A t \in Targets : verdict[t] # "pending"
    /\ report' = "published"
    /\ UNCHANGED <<verdict, intact>>

Abort ==
    /\ report = "running"
    /\ ~intact
    /\ report' = "aborted"
    /\ UNCHANGED <<verdict, intact>>

Next ==
    \/ Outside \/ Publish \/ Abort
    \/ \E S \in SUBSET Targets : Skip(S)
    \/ \E t \in Targets : Settle(t)

Spec == Init /\ [][Next]_vars
=============================================================================
