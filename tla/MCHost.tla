-------------------------------- MODULE MCHost --------------------------------
(* An instance of Host for TLC: a task that is always due, a cron of a      *)
(* folder that may be registered, a message in the queue of both, and a     *)
(* message of a second group, whose run may last for ever.                  *)
EXTENDS Host, TLC

CONSTANTS t1, t2, m1, m2, j1, j2, f1, f2, f3

MCType == (t1 :> "interval") @@ (t2 :> "cron")
MCPeriod == (t1 :> 0) @@ (t2 :> 2)
MCJidOf == (t1 :> j1) @@ (t2 :> j1) @@ (m1 :> j1) @@ (m2 :> j2)
MCTaskFolder == (t1 :> f1) @@ (t2 :> f3)
MCGroupJid == (f1 :> j1) @@ (f2 :> j2)
=============================================================================
