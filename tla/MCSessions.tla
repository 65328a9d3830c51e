------------------------------ MODULE MCSessions ------------------------------
(* Instances of Sessions for TLC: the runs of one group.                    *)
EXTENDS Sessions, TLC

CONSTANTS r1, r2, r3, f1, j1

OneFolder == [r \in Runs |-> f1]
OneJid == [r \in Runs |-> j1]
EqualRuns == Permutations({r1, r2})
=============================================================================
