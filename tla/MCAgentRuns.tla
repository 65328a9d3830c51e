----------------------------- MODULE MCAgentRuns -----------------------------
(* Instances of AgentRuns for TLC: the runs of one group.                   *)
EXTENDS AgentRuns, TLC

CONSTANTS r1, r2, r3, j1, f1

OneGroupJid == [r \in Runs |-> j1]
OneGroupFolder == [r \in Runs |-> f1]
=============================================================================
