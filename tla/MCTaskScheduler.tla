--------------------------- MODULE MCTaskScheduler ---------------------------
(* Instances of TaskScheduler for TLC: an interval of one unit is due again *)
(* at every tick, a cron every two, and the two share a group queue.        *)
EXTENDS TaskScheduler, TLC

CONSTANTS t1, t2, t3, t4, j1, j2

TypeOf == (t1 :> "interval") @@ (t2 :> "cron") @@ (t3 :> "once") @@ (t4 :> "invalid")
PeriodOf == (t1 :> 1) @@ (t2 :> 2) @@ (t3 :> 0) @@ (t4 :> 0)

MCType == [t \in Tasks |-> TypeOf[t]]
MCPeriod == [t \in Tasks |-> PeriodOf[t]]
MCJidOf == [t \in Tasks |-> IF t \in {t3, t4} THEN j2 ELSE j1]
=============================================================================
