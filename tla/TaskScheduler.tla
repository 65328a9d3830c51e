---------------------------- MODULE TaskScheduler ----------------------------
(***************************************************************************)
(* secnano/task_scheduler.py: the loop that polls scheduled_tasks for due  *)
(* rows, the in-memory set _queued_task_ids that keeps a task from being   *)
(* enqueued twice, and _run_task, which books a run in the database.       *)
(*                                                                         *)
(* _enqueue_due_tasks_once never suspends (the enqueue of GroupQueue does  *)
(* not), so a poll is one step; so is everything _run_task does after its  *)
(* runner has returned, up to the finally clause of _run_wrapped.  Between *)
(* a poll and the start of a job the group queue may run other entries,    *)
(* and a job runs for as long as its agent does.                           *)
(*                                                                         *)
(* Time is counted in units in which the clock is read; the rows keep      *)
(* their next_run as a time, or Never for NULL.                            *)
(***************************************************************************)
EXTENDS Naturals

CONSTANTS
  Tasks,        \* ids of scheduled tasks
  Type,         \* schedule_type: once, interval, cron; invalid has no next run
  Period,       \* seconds of an interval, distance of the times of a cron
  JidOf,        \* chat_jid: the group queue its jobs wait in
  Never,        \* next_run is NULL
  Horizon,      \* bound on the clock
  MaxFaults,    \* bound on the database errors
  MaxRestarts   \* bound on the restarts of the host

ASSUME ScheduleAssumption ==
  /\ Type \in [Tasks -> {"once", "interval", "cron", "invalid"}]
  /\ Period \in [Tasks -> Nat]
  /\ \A t \in Tasks : Type[t] = "cron" => Period[t] > 0
  /\ Never \notin Nat
  /\ Horizon \in Nat /\ MaxFaults \in Nat /\ MaxRestarts \in Nat

VARIABLES
  now,        \* the clock
  status,     \* status of the row; absent before it is inserted
  nextRun,    \* next_run
  hasRun,     \* last_run is not NULL
  queuedIds,  \* _queued_task_ids
  waiting,    \* jobs of a task that wait in a group queue
  running,    \* jobs of a task whose runner is awaited
  served,     \* the latest next_run for which a run has been booked
  faults,     \* database errors so far
  restarts    \* restarts of the host so far

row == <<status, nextRun, hasRun>>
jobs == <<queuedIds, waiting, running>>
vars == <<now, row, jobs, served, faults, restarts>>

TypeOK ==
  /\ now \in 1..(Horizon + 1)
  /\ status \in [Tasks -> {"absent", "active", "completed"}]
  /\ nextRun \in [Tasks -> Nat \cup {Never}]
  /\ hasRun \in [Tasks -> BOOLEAN]
  /\ queuedIds \subseteq Tasks
  /\ waiting \in [Tasks -> Nat] /\ running \in [Tasks -> Nat]
  /\ served \in [Tasks -> Nat]
  /\ faults \in 0..MaxFaults /\ restarts \in 0..MaxRestarts

Init ==
  /\ now = 1
  /\ status = [t \in Tasks |-> "absent"]
  /\ nextRun = [t \in Tasks |-> Never]
  /\ hasRun = [t \in Tasks |-> FALSE]
  /\ queuedIds = {}
  /\ waiting = [t \in Tasks |-> 0]
  /\ running = [t \in Tasks |-> 0]
  /\ served = [t \in Tasks |-> 0]
  /\ faults = 0
  /\ restarts = 0

Tick ==
  /\ now <= Horizon
  /\ now' = now + 1
  /\ UNCHANGED <<row, jobs, served, faults, restarts>>

-----------------------------------------------------------------------------
(* Variant: a cron iterator that may return the time it was asked about. *)
CronTimeFrom(p, n) == IF n % p = 0 THEN n ELSE (n + p) - (n % p)

(* croniter(...).get_next: the first time of the schedule after n. *)
CronTime(p, n) == (n + p) - (n % p)

(* _compute_next_run. *)
ComputeNextRun(t, n) ==
  CASE Type[t] = "interval" -> n + Period[t]
    [] Type[t] = "cron" -> CronTime(Period[t], n)
    [] OTHER -> Never

(* schedule_task: an active row, with the next run the schedule gives. *)
ScheduleTask(t) ==
  /\ status[t] = "absent"
  /\ status' = [status EXCEPT ![t] = "active"]
  /\ nextRun' = [nextRun EXCEPT ![t] = ComputeNextRun(t, now)]
  /\ UNCHANGED <<now, hasRun, jobs, served, faults, restarts>>

(* upsert_scheduled_task by another caller: a row with a next run of its   *)
(* own, which is how a task of type once can get one.                      *)
InsertRow(t) ==
  /\ status[t] = "absent"
  /\ status' = [status EXCEPT ![t] = "active"]
  /\ \E n \in 1..Horizon : nextRun' = [nextRun EXCEPT ![t] = n]
  /\ UNCHANGED <<now, hasRun, jobs, served, faults, restarts>>

-----------------------------------------------------------------------------
(* _is_due. *)
Due(t) ==
  status[t] = "active" /\ nextRun[t] # Never /\ nextRun[t] <= now

(* Variant: a poll without the check of _queued_task_ids. *)
DueAgain == {t \in Tasks : Due(t)}

(* The due rows of one poll that are not queued yet. *)
NewlyDue == {t \in Tasks : Due(t) /\ t \notin queuedIds}

(* _enqueue_due_tasks_once. *)
Poll ==
  /\ NewlyDue # {}
  /\ queuedIds' = queuedIds \cup NewlyDue
  /\ waiting' = [t \in Tasks |-> IF t \in NewlyDue THEN waiting[t] + 1 ELSE waiting[t]]
  /\ UNCHANGED <<now, row, running, served, faults, restarts>>

(* The group queue reaches a job: no other job of its JID runs. *)
StartJob(t) ==
  /\ waiting[t] > 0
  /\ \A u \in Tasks : running[u] > 0 => JidOf[u] # JidOf[t]
  /\ waiting' = [waiting EXCEPT ![t] = @ - 1]
  /\ running' = [running EXCEPT ![t] = @ + 1]
  /\ UNCHANGED <<now, row, queuedIds, served, faults, restarts>>

(* Variant: discard on success only, not in a finally clause. *)
DiscardBooked(t, booked) == IF booked THEN queuedIds \ {t} ELSE queuedIds

(* The finally clause of _run_wrapped. *)
Discard(t, booked) == queuedIds \ {t}

JobEnds(t, booked) ==
  /\ running[t] > 0
  /\ running' = [running EXCEPT ![t] = @ - 1]
  /\ queuedIds' = Discard(t, booked)

(* new_status. *)
StatusAfter(t) == IF Type[t] = "once" THEN "completed" ELSE status[t]

(* The runner has returned or raised, and the run is booked: a log entry,  *)
(* next_run and last_run, and for once the status.  The next run is        *)
(* counted from the end of this one.                                       *)
FinishJob(t) ==
  /\ JobEnds(t, TRUE)
  /\ nextRun' = [nextRun EXCEPT ![t] = ComputeNextRun(t, now)]
  /\ hasRun' = [hasRun EXCEPT ![t] = TRUE]
  /\ status' = [status EXCEPT ![t] = StatusAfter(t)]
  /\ served' = [served EXCEPT ![t] = nextRun[t]]
  /\ UNCHANGED <<now, waiting, faults, restarts>>

(* The same, but the database fails: on the log entry or next_run, so that *)
(* the row stays as it was; or, for once, on the status alone.             *)
BookingFails(t) ==
  /\ faults < MaxFaults
  /\ faults' = faults + 1
  /\ JobEnds(t, FALSE)
  /\ \/ UNCHANGED <<row, served>>
     \/ /\ Type[t] = "once"
        /\ nextRun' = [nextRun EXCEPT ![t] = Never]
        /\ hasRun' = [hasRun EXCEPT ![t] = TRUE]
        /\ served' = [served EXCEPT ![t] = nextRun[t]]
        /\ UNCHANGED status
  /\ UNCHANGED <<now, waiting, restarts>>

(* The host is started again: its memory is lost, the rows stay. *)
Restart ==
  /\ restarts < MaxRestarts
  /\ restarts' = restarts + 1
  /\ queuedIds' = {}
  /\ waiting' = [t \in Tasks |-> 0]
  /\ running' = [t \in Tasks |-> 0]
  /\ UNCHANGED <<now, row, served, faults>>

-----------------------------------------------------------------------------

Next ==
  \/ Tick \/ Poll \/ Restart
  \/ \E t \in Tasks :
       ScheduleTask(t) \/ InsertRow(t) \/ StartJob(t) \/ FinishJob(t) \/ BookingFails(t)

Spec == Init /\ [][Next]_vars

(* Time passes, the loop polls every SCHEDULER_POLL_INTERVAL, the group    *)
(* queue reaches every job, and SUBPROCESS_TIMEOUT bounds every run.       *)
Fairness ==
  /\ WF_vars(Tick) /\ WF_vars(Poll)
  /\ \A t \in Tasks : WF_vars(StartJob(t)) /\ WF_vars(FinishJob(t) \/ BookingFails(t))

FairSpec == Spec /\ Fairness

-----------------------------------------------------------------------------
(* Properties.                                                             *)

(* A task has at most one job, waiting or running, and its id is in        *)
(* _queued_task_ids exactly as long: an id that outlived its job would     *)
(* keep the task from ever running again.                                  *)
SingleFlight ==
  \A t \in Tasks : waiting[t] + running[t] = IF t \in queuedIds THEN 1 ELSE 0

(* A job belongs to a row that is still due, however long it waited: no    *)
(* run is started for a task that has completed or been moved on.          *)
JobsAreDue ==
  \A t \in Tasks : waiting[t] + running[t] > 0 => Due(t)

(* A job is for a later time than any run booked for its task: however     *)
(* late a run ends, the times it slept through are not caught up, and no   *)
(* time is booked twice.                                                   *)
JobsAreFresh ==
  \A t \in Tasks : waiting[t] + running[t] > 0 => served[t] < nextRun[t]

(* A due task is run and booked in the end, whatever the database and the  *)
(* host went through.                                                      *)
DueTasksRun ==
  \A t \in Tasks : Due(t) ~> ~ Due(t)

(* schedule_task "Create and persist a new scheduled task": a task with a  *)
(* valid schedule is due some day.  For once, _compute_next_run says "Run  *)
(* once; no next run".                                                     *)
ScheduledTasksRun ==
  \A t \in Tasks :
    (status[t] = "active" /\ Type[t] # "invalid") ~> hasRun[t]
=============================================================================
