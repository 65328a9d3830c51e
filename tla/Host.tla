--------------------------------- MODULE Host ---------------------------------
(***************************************************************************)
(* The host as main.py wires it: the scheduler loop and the ingress put    *)
(* their runs into the same group queue, keyed by chat JID, while the      *)
(* control plane may give a folder another JID.  A run works in a folder:  *)
(* that of a message is looked up when the message comes (the closure _run *)
(* keeps the group), that of a task is in the task's row, and must be      *)
(* registered when the run begins.                                         *)
(*                                                                         *)
(* The queue is what SerialQueue says of it.  TaskScheduler, which knows   *)
(* of no messages and keeps only how many of its jobs wait, is the         *)
(* abstract specification: ImplementsScheduler.  Clock and rows are its    *)
(* own actions here.                                                       *)
(***************************************************************************)
EXTENDS Naturals, Sequences, FiniteSets, SequencesExt

CONSTANTS
  Tasks, Type, Period, Never, Horizon, MaxFaults, MaxRestarts,  \* as in TaskScheduler
  Messages,    \* inbound messages that ask for a run
  Jids, Folders,
  JidOf,       \* chat_jid of a task or message
  TaskFolder,  \* group_folder of a task
  Groups,      \* the folders registered when the host is first started
  GroupJid,    \* and their JIDs
  Endless,     \* the JIDs whose runs need not come to an end
  MaxMoves,    \* bound on the registrations while the host runs
  None

Entries == Tasks \cup Messages

ASSUME HostAssumption ==
  /\ Type \in [Tasks -> {"once", "interval", "cron", "invalid"}]
  /\ Period \in [Tasks -> Nat] /\ Never \notin Nat
  /\ \A t \in Tasks : Type[t] = "cron" => Period[t] > 0
  /\ IsFiniteSet(Tasks)
  /\ Tasks \cap Messages = {}
  /\ JidOf \in [Entries -> Jids] /\ TaskFolder \in [Tasks -> Folders]
  /\ Groups \subseteq Folders /\ GroupJid \in [Groups -> Jids]
  /\ \A f, g \in Groups : GroupJid[f] = GroupJid[g] => f = g
  /\ Endless \subseteq Jids
  /\ {Horizon, MaxFaults, MaxRestarts, MaxMoves} \subseteq Nat
  /\ None \notin Jids \cup Folders

VARIABLES
  now, status, nextRun, hasRun, queuedIds, served, faults, restarts,  \* as in TaskScheduler
  pending,    \* the queue of a JID, oldest entry first
  executing,  \* the entries that have begun and not ended
  place,      \* the folder an entry is to work in, or None
  came,       \* the messages that have come
  jidOf,      \* registered_groups: the JID of a folder, or None
  moves       \* registrations so far

books == <<now, status, nextRun, hasRun, queuedIds, served, faults>>
vars == <<books, restarts, pending, executing, place, came, jidOf, moves>>

(* How often an entry is in a queue. *)
Count(e, queue) == Cardinality({i \in 1..Len(queue) : queue[i] = e})

Waiting == [t \in Tasks |-> Count(t, pending[JidOf[t]])]
Running == [t \in Tasks |-> IF t \in executing THEN 1 ELSE 0]

S == INSTANCE TaskScheduler WITH waiting <- Waiting, running <- Running

TypeOK ==
  /\ S!TypeOK
  /\ pending \in [Jids -> Seq(Entries)]
  /\ executing \subseteq Entries
  /\ place \in [Entries -> Folders \cup {None}]
  /\ came \subseteq Messages
  /\ jidOf \in [Folders -> Jids \cup {None}]
  /\ moves \in 0..MaxMoves

Init ==
  /\ pending = [j \in Jids |-> <<>>]
  /\ executing = {}
  /\ place = [e \in Entries |-> None]
  /\ came = {}
  /\ jidOf = [f \in Folders |-> IF f \in Groups THEN GroupJid[f] ELSE None]
  /\ moves = 0
  /\ S!Init

-----------------------------------------------------------------------------
(* Clock and rows are the scheduler's own business. *)
Schedule ==
  /\ UNCHANGED <<pending, executing, place, came, jidOf, moves>>
  /\ S!Tick \/ \E t \in Tasks : S!ScheduleTask(t) \/ S!InsertRow(t)

(* upsert_registered_group, by way of Registration. *)
Register(f, j) ==
  /\ moves < MaxMoves
  /\ moves' = moves + 1
  /\ \A g \in Folders \ {f} : jidOf[g] # j
  /\ jidOf' = [jidOf EXCEPT ![f] = j]
  /\ UNCHANGED <<books, restarts, pending, executing, place, came>>

(* Variant: newcomers are put before those who wait. *)
JoinFirst(queue, new) == new \o queue

Join(queue, new) == queue \o new

(* Variant: the scheduler forgets what it has enqueued. *)
AllDue == S!DueAgain

ToEnqueue == S!NewlyDue

(* The orders in which the due tasks of a JID may be enqueued. *)
Orders(j) == SetToSeqs({t \in ToEnqueue : JidOf[t] = j})

(* _enqueue_due_tasks_once: list_scheduled_tasks has no order. *)
Poll ==
  /\ ToEnqueue # {}
  /\ queuedIds' = queuedIds \cup ToEnqueue
  /\ \E order \in [Jids -> UNION {Orders(j) : j \in Jids}] :
       /\ \A j \in Jids : order[j] \in Orders(j)
       /\ pending' = [j \in Jids |-> Join(pending[j], order[j])]
  /\ UNCHANGED <<now, status, nextRun, hasRun, served, faults, restarts,
                 executing, place, came, jidOf, moves>>

(* handle_new_message; a chat without a group gets no run. *)
Arrive(m) ==
  /\ m \notin came
  /\ came' = came \cup {m}
  /\ IF \E f \in Folders : jidOf[f] = JidOf[m]
     THEN /\ place' = [place EXCEPT ![m] = CHOOSE f \in Folders : jidOf[f] = JidOf[m]]
          /\ pending' = [pending EXCEPT ![JidOf[m]] = Join(@, <<m>>)]
     ELSE UNCHANGED <<place, pending>>
  /\ UNCHANGED <<books, restarts, executing, jidOf, moves>>

(* Variant: a coroutine for each run, as without a queue. *)
IdleAlways(j) == TRUE

Idle(j) == \A e \in executing : JidOf[e] # j

(* The folder of a task that begins, if a group has it. *)
Workplace(e) ==
  IF e \in Messages THEN place[e]
  ELSE IF jidOf[TaskFolder[e]] # None THEN TaskFolder[e] ELSE None

Begin(j) ==
  /\ pending[j] # <<>>
  /\ Idle(j)
  /\ executing' = executing \cup {Head(pending[j])}
  /\ pending' = [pending EXCEPT ![j] = Tail(@)]
  /\ place' = [place EXCEPT ![Head(pending[j])] = Workplace(Head(pending[j]))]
  /\ UNCHANGED <<books, restarts, came, jidOf, moves>>

(* Variant: a run that could not begin leaves its task as it is. *)
BookIfWorked(t) ==
  IF place[t] # None THEN S!FinishJob(t) \/ S!BookingFails(t)
  ELSE S!JobEnds(t, TRUE) /\ UNCHANGED <<now, status, nextRun, hasRun, served, faults, restarts>>

(* _run_task books what its runner has done, or that it raised. *)
Book(t) == S!FinishJob(t) \/ S!BookingFails(t)

End(j) ==
  \E e \in executing :
    /\ JidOf[e] = j
    /\ executing' = executing \ {e}
    /\ place' = [place EXCEPT ![e] = None]
    /\ UNCHANGED <<pending, came, jidOf, moves>>
    /\ IF e \in Tasks THEN Book(e) ELSE UNCHANGED <<books, restarts>>

(* The host starts again: only the database is left. *)
Restart ==
  /\ restarts < MaxRestarts
  /\ restarts' = restarts + 1
  /\ queuedIds' = {}
  /\ pending' = [j \in Jids |-> <<>>]
  /\ executing' = {}
  /\ place' = [e \in Entries |-> None]
  /\ UNCHANGED <<now, status, nextRun, hasRun, served, faults, came, jidOf, moves>>

-----------------------------------------------------------------------------

Next ==
  \/ Schedule \/ Poll \/ Restart
  \/ \E f \in Folders, j \in Jids : Register(f, j)
  \/ \E m \in Messages : Arrive(m)
  \/ \E j \in Jids : Begin(j) \/ End(j)

Spec == Init /\ [][Next]_vars

(* As in TaskScheduler; a run of a JID in Endless may last for ever. *)
Fairness ==
  /\ WF_vars(Schedule /\ S!Tick) /\ WF_vars(Poll)
  /\ \A j \in Jids : WF_vars(Begin(j))
  /\ \A j \in Jids \ Endless : WF_vars(End(j))

FairSpec == Spec /\ Fairness

-----------------------------------------------------------------------------
(* Properties.                                                             *)

(* With messages in its queues and folders that change hands, the host     *)
(* still does nothing that TaskScheduler does not allow.                   *)
ImplementsScheduler == S!Spec

(* Every task is queued under the JID its folder is registered with. *)
Aligned == \A t \in Tasks : jidOf[TaskFolder[t]] \in {JidOf[t], None}

(* Two runs never work in one folder, be they of messages or of tasks: the *)
(* queue orders JIDs, so this takes task rows that name a group's own JID  *)
(* and folders that keep theirs.                                           *)
OneRunPerFolder ==
  moves = 0 /\ Aligned =>
    \A d, e \in executing : place[d] = place[e] /\ place[d] # None => d = e

(* A task whose next time lies ahead of its run is served when it is due,  *)
(* whether its folder is registered or not, and whatever else waits.       *)
TasksAreServed ==
  \A t \in Tasks : JidOf[t] \notin Endless /\ (Type[t] = "interval" => Period[t] > 0) =>
    (S!Due(t) ~> ~ S!Due(t))

(* A message that waits begins, or is lost with the host: a task that is   *)
(* due again the moment it ends, as an interval of zero is, cannot keep it *)
(* waiting, nor can the endless run of another chat.                       *)
MessagesBegin ==
  \A m \in Messages : JidOf[m] \notin Endless =>
    (m \in ToSet(pending[JidOf[m]]) ~> m \notin ToSet(pending[JidOf[m]]))
=============================================================================
