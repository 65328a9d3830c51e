-------------------------- MODULE TaskSchedulerProofs --------------------------
(***************************************************************************)
(* Proofs about TaskScheduler, for any tasks, schedules and group queues,  *)
(* and any number of faults and restarts.                                  *)
(***************************************************************************)
EXTENDS TaskScheduler, TLAPS

IInv == TypeOK /\ SingleFlight /\ JobsAreDue

(* Every interval has a length.  (The code takes any, see the README.)     *)
IntervalsArePositive == \A t \in Tasks : Type[t] = "interval" => Period[t] > 0

(* The next run of a row lies after every run that was booked, and nothing *)
(* is booked for a row that does not exist.                                *)
RowsAreFresh ==
  \A t \in Tasks :
    /\ nextRun[t] # Never => served[t] < nextRun[t]
    /\ status[t] = "absent" => served[t] = 0

-----------------------------------------------------------------------------
(* The schedule.                                                           *)

(* The next time of a cron is a time, and later than now.                  *)
LEMMA CronIsLater ==
  ASSUME NEW p \in Nat, p > 0, NEW n \in Nat
  PROVE  CronTime(p, n) \in Nat /\ CronTime(p, n) > n
  <1>1. n % p \in 0..(p - 1)
    OBVIOUS
  <1> HIDE DEF CronTime
  <1>2. CronTime(p, n) = (n + p) - (n % p)
    BY DEF CronTime
  <1>3. ASSUME NEW r \in 0..(p - 1) PROVE (n + p) - r \in Nat /\ (n + p) - r > n
    OBVIOUS
  <1> QED BY <1>1, <1>2, <1>3

(* _compute_next_run gives a time or Never, and a time is not in the past. *)
LEMMA NextRunIsLater ==
  ASSUME NEW t \in Tasks, NEW n \in Nat
  PROVE  /\ ComputeNextRun(t, n) \in Nat \cup {Never}
         /\ ComputeNextRun(t, n) # Never => ComputeNextRun(t, n) >= n
         /\ IntervalsArePositive /\ ComputeNextRun(t, n) # Never => ComputeNextRun(t, n) > n
  <1>1. Period[t] \in Nat
    BY ScheduleAssumption
  <1>2. CASE Type[t] = "interval"
    <2>1. ComputeNextRun(t, n) = n + Period[t]
      BY <1>2 DEF ComputeNextRun
    <2>2. IntervalsArePositive => Period[t] > 0
      BY <1>2 DEF IntervalsArePositive
    <2> QED BY <1>1, <2>1, <2>2
  <1>3. CASE Type[t] = "cron"
    <2>1. ComputeNextRun(t, n) = CronTime(Period[t], n)
      BY <1>3 DEF ComputeNextRun
    <2>2. Period[t] > 0
      BY <1>3, ScheduleAssumption
    <2>3. CronTime(Period[t], n) \in Nat /\ CronTime(Period[t], n) > n
      BY <1>1, <2>2, CronIsLater
    <2> QED BY <2>1, <2>3
  <1>4. CASE Type[t] \notin {"interval", "cron"}
    BY <1>4 DEF ComputeNextRun
  <1> QED BY <1>2, <1>3, <1>4

-----------------------------------------------------------------------------
(* The invariant, action by action.                                        *)

(* A row appears or the clock advances: no job is touched, and no row that *)
(* is due ceases to be.                                                    *)
LEMMA RowsInvariant ==
  ASSUME IInv, Tick \/ \E t \in Tasks : ScheduleTask(t) \/ InsertRow(t)
  PROVE  IInv'
  <1> USE DEF IInv
  <1>1. UNCHANGED <<queuedIds, waiting, running, hasRun, served, faults, restarts>>
    BY DEF Tick, ScheduleTask, InsertRow, jobs, row
  <1>2. CASE Tick
    <2>1. now' = now + 1 /\ now <= Horizon /\ UNCHANGED <<status, nextRun>>
      BY <1>2 DEF Tick, row
    <2>2. TypeOK'
      BY <1>1, <2>1, ScheduleAssumption DEF TypeOK
    <2>3. JobsAreDue'
      <3> SUFFICES ASSUME NEW t \in Tasks, waiting[t] + running[t] > 0 PROVE Due(t)'
        BY <1>1 DEF JobsAreDue
      <3>1. Due(t)
        BY DEF JobsAreDue
      <3>2. nextRun[t] \in Nat /\ now \in Nat
        BY <3>1, ScheduleAssumption DEF Due, TypeOK
      <3> QED BY <2>1, <3>1, <3>2 DEF Due
    <2> QED BY <1>1, <2>2, <2>3 DEF SingleFlight
  <1>3. ASSUME NEW t \in Tasks, ScheduleTask(t) \/ InsertRow(t) PROVE IInv'
    <2>1. PICK n \in Nat \cup {Never} :
            /\ nextRun' = [nextRun EXCEPT ![t] = n]
            /\ status' = [status EXCEPT ![t] = "active"]
            /\ now' = now /\ status[t] = "absent"
      <3>1. now \in Nat
        BY ScheduleAssumption DEF TypeOK
      <3>2. CASE ScheduleTask(t)
        <4>1. ComputeNextRun(t, now) \in Nat \cup {Never}
          BY <3>1, NextRunIsLater
        <4> WITNESS ComputeNextRun(t, now) \in Nat \cup {Never}
        <4> QED BY <3>2 DEF ScheduleTask
      <3>3. CASE InsertRow(t)
        <4>1. PICK n \in 1..Horizon : nextRun' = [nextRun EXCEPT ![t] = n]
          BY <3>3 DEF InsertRow
        <4> WITNESS n \in Nat \cup {Never}
        <4> QED BY <3>3, <4>1 DEF InsertRow
      <3> QED BY <1>3, <3>2, <3>3
    <2>2. TypeOK'
      BY <1>1, <2>1 DEF TypeOK
    <2>3. JobsAreDue'
      BY <1>1, <2>1 DEF JobsAreDue, Due, TypeOK
    <2> QED BY <1>1, <2>2, <2>3 DEF SingleFlight
  <1> QED BY <1>2, <1>3

(* A poll gives one job to each due row that has none.                     *)
LEMMA PollInvariant ==
  ASSUME IInv, Poll
  PROVE  IInv'
  <1> USE DEF IInv
  <1>1. /\ queuedIds' = queuedIds \cup NewlyDue
        /\ waiting' = [t \in Tasks |-> IF t \in NewlyDue THEN waiting[t] + 1 ELSE waiting[t]]
        /\ UNCHANGED <<now, status, nextRun, hasRun, running, served, faults, restarts>>
    BY DEF Poll, row
  <1>2. TypeOK'
    BY <1>1 DEF TypeOK, NewlyDue
  <1>3. SingleFlight'
    <2> SUFFICES ASSUME NEW t \in Tasks
                 PROVE  waiting'[t] + running'[t] = IF t \in queuedIds' THEN 1 ELSE 0
      BY DEF SingleFlight
    <2>1. waiting[t] \in Nat /\ running[t] \in Nat
      BY DEF TypeOK
    <2>2. waiting[t] + running[t] = IF t \in queuedIds THEN 1 ELSE 0
      BY DEF SingleFlight
    <2>3. CASE t \in NewlyDue
      BY <1>1, <2>1, <2>2, <2>3 DEF NewlyDue
    <2>4. CASE t \notin NewlyDue
      BY <1>1, <2>1, <2>2, <2>4
    <2> QED BY <2>3, <2>4
  <1>4. JobsAreDue'
    BY <1>1 DEF JobsAreDue, NewlyDue, Due
  <1> QED BY <1>2, <1>3, <1>4

(* A job moves from the group queue to the runner.                         *)
LEMMA StartInvariant ==
  ASSUME IInv, NEW t \in Tasks, StartJob(t)
  PROVE  IInv'
  <1> USE DEF IInv
  <1>1. /\ waiting[t] > 0
        /\ waiting' = [waiting EXCEPT ![t] = @ - 1]
        /\ running' = [running EXCEPT ![t] = @ + 1]
        /\ UNCHANGED <<now, status, nextRun, hasRun, queuedIds, served, faults, restarts>>
    BY DEF StartJob, row
  <1>2. \A u \in Tasks : waiting[u] \in Nat /\ running[u] \in Nat
    BY DEF TypeOK
  <1>3. TypeOK'
    BY <1>1, <1>2 DEF TypeOK
  <1>4. \A u \in Tasks : waiting'[u] + running'[u] = waiting[u] + running[u]
    BY <1>1, <1>2 DEF TypeOK
  <1> QED BY <1>1, <1>3, <1>4 DEF SingleFlight, JobsAreDue, Due

(* A job ends, booked or not: its id goes with it, and only its own row    *)
(* changes.                                                                *)
LEMMA EndInvariant ==
  ASSUME IInv, NEW t \in Tasks, FinishJob(t) \/ BookingFails(t)
  PROVE  IInv'
  <1> USE DEF IInv
  <1>1. /\ running[t] > 0
        /\ running' = [running EXCEPT ![t] = @ - 1]
        /\ queuedIds' = queuedIds \ {t}
        /\ UNCHANGED <<now, waiting, restarts>>
    BY DEF FinishJob, BookingFails, JobEnds, Discard
  <1>2. now \in Nat /\ waiting \in [Tasks -> Nat] /\ running \in [Tasks -> Nat]
    BY ScheduleAssumption DEF TypeOK
  <1>3. nextRun[t] \in Nat
    BY <1>1, <1>2, ScheduleAssumption DEF JobsAreDue, Due, TypeOK
  <1>4. waiting[t] = 0 /\ running[t] = 1
    BY <1>1, <1>2 DEF SingleFlight
  <1>5. \A u \in Tasks \ {t} : status'[u] = status[u] /\ nextRun'[u] = nextRun[u]
    BY DEF FinishJob, BookingFails, row, TypeOK
  <1>6. TypeOK'
    <2>1. ComputeNextRun(t, now) \in Nat \cup {Never}
      BY <1>2, NextRunIsLater
    <2>2. /\ running' \in [Tasks -> Nat] /\ queuedIds' \subseteq Tasks
          /\ now' \in 1..(Horizon + 1) /\ waiting' \in [Tasks -> Nat] /\ restarts' \in 0..MaxRestarts
      BY <1>1, <1>2, <1>4 DEF TypeOK
    <2>3. CASE FinishJob(t)
      <3>1. StatusAfter(t) \in {"absent", "active", "completed"}
        BY DEF StatusAfter, TypeOK
      <3> QED BY <1>3, <2>1, <2>2, <2>3, <3>1 DEF FinishJob, TypeOK
    <2>4. CASE BookingFails(t)
      <3>1. faults' \in 0..MaxFaults
        BY <2>4, ScheduleAssumption DEF BookingFails, TypeOK
      <3>2. /\ status' = status
            /\ nextRun' \in [Tasks -> Nat \cup {Never}]
            /\ hasRun' \in [Tasks -> BOOLEAN]
            /\ served' \in [Tasks -> Nat]
        BY <1>3, <2>4 DEF BookingFails, row, TypeOK
      <3> QED BY <2>2, <3>1, <3>2 DEF TypeOK
    <2> QED BY <2>3, <2>4
  <1>7. SingleFlight'
    <2> SUFFICES ASSUME NEW u \in Tasks
                 PROVE  waiting'[u] + running'[u] = IF u \in queuedIds' THEN 1 ELSE 0
      BY DEF SingleFlight
    <2>1. CASE u = t
      BY <1>1, <1>2, <1>4, <2>1
    <2>2. CASE u # t
      BY <1>1, <1>2, <2>2 DEF SingleFlight
    <2> QED BY <2>1, <2>2
  <1>8. JobsAreDue'
    <2> SUFFICES ASSUME NEW u \in Tasks, waiting'[u] + running'[u] > 0 PROVE Due(u)'
      BY DEF JobsAreDue
    <2>1. u # t
      BY <1>1, <1>2, <1>4
    <2>2. Due(u)
      BY <1>1, <1>2, <2>1 DEF JobsAreDue
    <2> QED BY <1>1, <1>5, <2>1, <2>2 DEF Due
  <1> QED BY <1>6, <1>7, <1>8

(* The invariant holds in every reachable state.                           *)
THEOREM Invariance == Spec => []IInv
  <1>1. Init => IInv
    BY ScheduleAssumption DEF Init, IInv, TypeOK, SingleFlight, JobsAreDue
  <1>2. IInv /\ [Next]_vars => IInv'
    <2> SUFFICES ASSUME IInv, [Next]_vars PROVE IInv'
      OBVIOUS
    <2>1. CASE Restart
      <3>1. /\ queuedIds' = {}
            /\ waiting' = [t \in Tasks |-> 0] /\ running' = [t \in Tasks |-> 0]
            /\ UNCHANGED <<now, status, nextRun, hasRun, served, faults>>
        BY <2>1 DEF Restart, row
      <3>2. restarts' \in 0..MaxRestarts
        BY <2>1, ScheduleAssumption DEF Restart, IInv, TypeOK
      <3> QED BY <3>1, <3>2 DEF IInv, TypeOK, SingleFlight, JobsAreDue
    <2>2. CASE UNCHANGED vars
      BY <2>2 DEF vars, row, jobs, IInv, TypeOK, SingleFlight, JobsAreDue, Due
    <2> QED BY <2>1, <2>2, RowsInvariant, PollInvariant, StartInvariant, EndInvariant DEF Next
  <1> QED BY <1>1, <1>2, PTL DEF Spec

-----------------------------------------------------------------------------
(* What follows for the scheduler.                                         *)

(* Every variable keeps its type.                                          *)
THEOREM Typing == Spec => []TypeOK
  <1>1. IInv => TypeOK
    BY DEF IInv
  <1> QED BY <1>1, Invariance, PTL

(* A task never has two jobs, and its id is remembered exactly while it    *)
(* has one, through every error of the database.                           *)
THEOREM OneJob == Spec => []SingleFlight
  <1>1. IInv => SingleFlight
    BY DEF IInv
  <1> QED BY <1>1, Invariance, PTL

(* A job that waited for its group is still due when it begins and ends.   *)
THEOREM DueJobs == Spec => []JobsAreDue
  <1>1. IInv => JobsAreDue
    BY DEF IInv
  <1> QED BY <1>1, Invariance, PTL

(* No time of a schedule is booked twice, provided that every interval has *)
(* a length.                                                               *)
THEOREM FreshJobs ==
  ASSUME IntervalsArePositive
  PROVE  Spec => []JobsAreFresh
  <1>1. Init => RowsAreFresh
    BY DEF Init, RowsAreFresh
  <1>2. IInv /\ RowsAreFresh /\ [Next]_vars => RowsAreFresh'
    <2> SUFFICES ASSUME IInv, RowsAreFresh, [Next]_vars PROVE RowsAreFresh'
      OBVIOUS
    <2> USE DEF IInv
    <2>1. CASE Tick \/ Poll \/ Restart \/ UNCHANGED vars \/ \E t \in Tasks : StartJob(t)
      BY <2>1 DEF Tick, Poll, Restart, vars, StartJob, row, RowsAreFresh
    <2>2. ASSUME NEW t \in Tasks, ScheduleTask(t) \/ InsertRow(t) PROVE RowsAreFresh'
      <3>1. now \in Nat /\ now > 0
        BY ScheduleAssumption DEF TypeOK
      <3>2. PICK n \in Nat \cup {Never} :
              /\ n # Never => n > 0
              /\ nextRun' = [nextRun EXCEPT ![t] = n]
              /\ status' = [status EXCEPT ![t] = "active"]
              /\ served' = served /\ status[t] = "absent"
        <4>1. /\ ComputeNextRun(t, now) \in Nat \cup {Never}
              /\ ComputeNextRun(t, now) # Never => ComputeNextRun(t, now) >= now
          BY <3>1, NextRunIsLater
        <4>2. CASE ScheduleTask(t)
          <5>1. ComputeNextRun(t, now) \in Nat \cup {Never}
            BY <4>1
          <5> WITNESS ComputeNextRun(t, now) \in Nat \cup {Never}
          <5> QED BY <3>1, <4>1, <4>2 DEF ScheduleTask
        <4>3. CASE InsertRow(t)
          <5>1. PICK n \in 1..Horizon : nextRun' = [nextRun EXCEPT ![t] = n]
            BY <4>3 DEF InsertRow
          <5>2. n \in Nat /\ n > 0
            BY ScheduleAssumption
          <5>3. status' = [status EXCEPT ![t] = "active"] /\ served' = served /\ status[t] = "absent"
            BY <4>3 DEF InsertRow
          <5> WITNESS n \in Nat \cup {Never}
          <5> QED BY <5>1, <5>2, <5>3
        <4> QED BY <2>2, <4>2, <4>3
      <3>3. served[t] = 0
        BY <3>2 DEF RowsAreFresh
      <3> QED BY <3>2, <3>3 DEF RowsAreFresh, TypeOK
    <2>3. ASSUME NEW t \in Tasks, FinishJob(t) \/ BookingFails(t) PROVE RowsAreFresh'
      <3>0. running[t] > 0
        BY <2>3 DEF FinishJob, BookingFails, JobEnds
      <3>1. /\ running[t] > 0 /\ running[t] \in Nat /\ waiting[t] \in Nat /\ now \in Nat
        BY <3>0, ScheduleAssumption DEF TypeOK
      <3>2. nextRun[t] \in Nat /\ nextRun[t] <= now /\ status[t] = "active"
        BY <3>1, ScheduleAssumption DEF JobsAreDue, Due, TypeOK
      <3>3. /\ ComputeNextRun(t, now) \in Nat \cup {Never}
            /\ ComputeNextRun(t, now) # Never => ComputeNextRun(t, now) > now
        BY <3>1, NextRunIsLater
      <3>4. CASE FinishJob(t)
        <4>1. /\ nextRun' = [nextRun EXCEPT ![t] = ComputeNextRun(t, now)]
              /\ served' = [served EXCEPT ![t] = nextRun[t]]
              /\ status' = [status EXCEPT ![t] = StatusAfter(t)]
          BY <3>4 DEF FinishJob
        <4>2. StatusAfter(t) # "absent"
          BY <3>2 DEF StatusAfter
        <4> QED BY <3>1, <3>2, <3>3, <4>1, <4>2 DEF RowsAreFresh, TypeOK
      <3>5. CASE BookingFails(t)
        BY <3>2, <3>5 DEF BookingFails, row, RowsAreFresh, TypeOK
      <3> QED BY <2>3, <3>4, <3>5
    <2> QED BY <2>1, <2>2, <2>3 DEF Next
  <1>3. IInv /\ RowsAreFresh => JobsAreFresh
    BY DEF IInv, JobsAreDue, Due, RowsAreFresh, JobsAreFresh
  <1> QED BY <1>1, <1>2, <1>3, Invariance, PTL DEF Spec
=============================================================================
