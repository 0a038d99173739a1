------------------------------ MODULE OneShot ------------------------------
(***************************************************************************)
(* What the signer promises about a request, whatever happens inside: at   *)
(* most one outcome is ever decided for it, and every successful answer    *)
(* carries that outcome.                                                   *)
(***************************************************************************)
CONSTANTS Requests, Results, None

VARIABLES
    outcome,  \* the outcome decided for each request, or None
    answers   \* the answers given so far

vars == <<outcome, answers>>

Init ==
    /\ outcome = [r \in Requests |-> None]
    /\ answers = {}

Decide(r, v) ==
    /\ outcome[r] = None
    /\ outcome' = [outcome EXCEPT ![r] = v]
    /\ UNCHANGED answers

Answer(r) ==
    /\ outcome[r] # None
    /\ answers' = answers \cup {[req |-> r, result |-> outcome[r]]}
    /\ UNCHANGED outcome

Next == \E r \in Requests : Answer(r) \/ \E v \in Results : Decide(r, v)

Spec == Init /\ [][Next]_vars
=============================================================================
