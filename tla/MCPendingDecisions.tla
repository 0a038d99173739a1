------------------------ MODULE MCPendingDecisions -------------------------
(* PendingDecisions instantiated for TLC: rows r1 and r2 ask for the same  *)
(* txset when there is only one.                                           *)
EXTENDS PendingDecisions, TLC

CONSTANTS o1, o2, r1, r2, j1, j2, t1

MCTxset == [r \in Rows |-> t1]
MCJtiTxset == [j \in Jtis |-> t1]
Symm == Permutations(Operators) \cup Permutations(Rows) \cup Permutations(Jtis)
=============================================================================
