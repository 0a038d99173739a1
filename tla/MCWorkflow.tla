----------------------------- MODULE MCWorkflow ----------------------------
(* Workflow, with the reports over it, instantiated for TLC.               *)
EXTENDS Reports, TLC

CONSTANTS p1, p2, h1, h2, i1, i2, t1, t2, j1, j2, q1, q2, q3

MCItemState == [i \in Items |-> IF i = i1 THEN "prepare_collected" ELSE "funded"]
Symm == Permutations(Participants) \cup Permutations(Payloads) \cup Permutations(Txsets)
            \cup Permutations(Jtis) \cup Permutations(ReqIds)
=============================================================================
