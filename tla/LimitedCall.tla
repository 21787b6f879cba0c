---------------------------- MODULE LimitedCall ----------------------------
(***************************************************************************)
(* What Time_limit.set_timeout promises its caller, without timer threads  *)
(* or tokens.  A domain makes the calls 1..NCalls one after the other.     *)
(* Each call ends once: with the value of the computation ("some"), with   *)
(* None ("none"), which is only allowed once its time is over, or with an  *)
(* exception ("exn").  CoreScan uses set_timeout through this contract.    *)
(***************************************************************************)
EXTENDS Integers

CONSTANT NCalls

VARIABLES
    outcome,    \* outcome[c]: what call c has come to
    due         \* due[c]: the time given to call c is over

vars == <<outcome, due>>

Calls == 1..NCalls
Outcomes == {"some", "none", "exn"}

Init ==
    /\ outcome = [c \in Calls |-> "idle"]
    /\ due \in [Calls -> BOOLEAN]

Start(c) ==
    /\ outcome[c] = "idle"
    /\ \A b \in 1..(c - 1) : outcome[b] \in Outcomes
    /\ outcome' = [outcome EXCEPT ![c] = "running"]
    /\ UNCHANGED due

\* A call for which no thread can be created fails before it starts.
Refuse(c) ==
    /\ outcome[c] = "idle"
    /\ \A b \in 1..(c - 1) : outcome[b] \in Outcomes
    /\ outcome' = [outcome EXCEPT ![c] = "exn"]
    /\ UNCHANGED due

\* Time passes for the running call.
Expire(c) ==
    /\ outcome[c] = "running"
    /\ due' = [due EXCEPT ![c] = TRUE]
    /\ UNCHANGED outcome

Finish(c, o) ==
    /\ outcome[c] = "running"
    /\ o = "none" => due[c]
    /\ outcome' = [outcome EXCEPT ![c] = o]
    /\ UNCHANGED due

Next ==
    \E c \in Calls :
        \/ Start(c) \/ Refuse(c) \/ Expire(c)
        \/ \E o \in Outcomes : Finish(c, o)

Spec == Init /\ [][Next]_vars
=============================================================================
