----------------------------- MODULE GroupQueue -----------------------------
(***************************************************************************)
(* The per-group queue of secnano/group_queue.py.                          *)
(*                                                                         *)
(* The queue lives on one asyncio loop, so a step of this module is what   *)
(* runs between two suspensions.  queue.put and queue.get never suspend    *)
(* here (the queue is unbounded, and _drain gets only after it saw the     *)
(* queue non-empty), so _enqueue is one step, and so is the end of an      *)
(* entry together with the choice of the next one.  The coroutine of an    *)
(* entry suspends while its agent subprocess is created and while it runs. *)
(*                                                                         *)
(* A _drain task is named after the entry whose _enqueue created it.       *)
(* asyncio resumes ready tasks in FIFO order; here any ready task may be   *)
(* resumed, so nothing below rests on that order.                          *)
(***************************************************************************)
EXTENDS Naturals, Sequences

CONSTANTS
  Groups,      \* the chat JIDs that key _states
  Entries,     \* the coroutines that run agents
  Recovered,   \* those recover_pending_messages starts beside the queue
  GroupOf,     \* the JID each of them is for
  None         \* no process, no current entry

ASSUME EntriesAssumption ==
  /\ GroupOf \in [Entries -> Groups]
  /\ Recovered \subseteq Entries
  /\ None \notin Entries

VARIABLES
  queue,      \* _GroupState.queue
  running,    \* _GroupState.running
  idle,       \* whether _GroupState.idle_event is set
  proc,       \* _GroupState.current_proc, named by the entry that spawned it
  drain,      \* the _drain task an _enqueue created: none, ready, active, ended
  current,    \* the entry a _drain task awaits
  stage,      \* how far the coroutine of an entry has come
  alive,      \* agents that exist as OS processes (returncode is None)
  shut,       \* up, closing (shutdown waits for its grace period), down
  signalled   \* agents that shutdown sent SIGTERM to

vars == <<queue, running, idle, proc, drain, current, stage, alive, shut, signalled>>

Stages == {"new", "queued", "begun", "spawning", "attached", "finished"}

(* The coroutine of the entry has been entered and has not returned. *)
InProgress == {"begun", "spawning", "attached"}

TypeOK ==
  /\ queue \in [Groups -> Seq(Entries)]
  /\ running \in [Groups -> BOOLEAN]
  /\ idle \in [Groups -> BOOLEAN]
  /\ proc \in [Groups -> Entries \cup {None}]
  /\ drain \in [Entries -> {"none", "ready", "active", "ended"}]
  /\ current \in [Entries -> Entries \cup {None}]
  /\ stage \in [Entries -> Stages]
  /\ alive \subseteq Entries
  /\ shut \in {"up", "closing", "down"}
  /\ signalled \subseteq Entries

(* _GroupState: the queue is empty, nothing runs, idle_event is set. *)
Init ==
  /\ queue = [g \in Groups |-> <<>>]
  /\ running = [g \in Groups |-> FALSE]
  /\ idle = [g \in Groups |-> TRUE]
  /\ proc = [g \in Groups |-> None]
  /\ drain = [e \in Entries |-> "none"]
  /\ current = [e \in Entries |-> None]
  /\ stage = [e \in Entries |-> "new"]
  /\ alive = {}
  /\ shut = "up"
  /\ signalled = {}

-----------------------------------------------------------------------------
(* Submission.                                                             *)

(* enqueue_task: put the entry, create a _drain task if none runs now. *)
Enqueue(e) ==
  LET g == GroupOf[e] IN
  /\ e \notin Recovered
  /\ stage[e] = "new"
  /\ stage' = [stage EXCEPT ![e] = "queued"]
  /\ queue' = [queue EXCEPT ![g] = Append(@, e)]
  /\ drain' = [drain EXCEPT ![e] = IF running[g] THEN "none" ELSE "ready"]
  /\ UNCHANGED <<running, idle, proc, current, alive, shut, signalled>>

(* recover_pending_messages: a task of its own, which no queue knows of. *)
Recover(e) ==
  /\ e \in Recovered
  /\ stage[e] = "new"
  /\ stage' = [stage EXCEPT ![e] = "begun"]
  /\ UNCHANGED <<queue, running, idle, proc, drain, current, alive, shut, signalled>>

-----------------------------------------------------------------------------
(* The _drain task.                                                        *)

(* It is resumed for the first time and another one already runs. *)
DrainYields(d) ==
  /\ drain[d] = "ready"
  /\ running[GroupOf[d]]
  /\ drain' = [drain EXCEPT ![d] = "ended"]
  /\ UNCHANGED <<queue, running, idle, proc, current, stage, alive, shut, signalled>>

(* It is resumed for the first time, after the entries have all been run. *)
DrainFindsNothing(d) ==
  LET g == GroupOf[d] IN
  /\ drain[d] = "ready"
  /\ ~ running[g]
  /\ queue[g] = <<>>
  /\ drain' = [drain EXCEPT ![d] = "ended"]
  /\ idle' = [idle EXCEPT ![g] = TRUE]
  /\ UNCHANGED <<queue, running, proc, current, stage, alive, shut, signalled>>

(* Variant: _drain without its check of running. *)
DrainBeginsUnchecked(d) ==
  LET g == GroupOf[d] IN
  /\ drain[d] = "ready"
  /\ queue[g] # <<>>
  /\ drain' = [drain EXCEPT ![d] = "active"]
  /\ running' = [running EXCEPT ![g] = TRUE]
  /\ idle' = [idle EXCEPT ![g] = FALSE]
  /\ current' = [current EXCEPT ![d] = Head(queue[g])]
  /\ stage' = [stage EXCEPT ![Head(queue[g])] = "begun"]
  /\ queue' = [queue EXCEPT ![g] = Tail(@)]
  /\ UNCHANGED <<proc, alive, shut, signalled>>

(* Variant: a LifoQueue in place of the Queue. *)
DrainBeginsWithNewest(d) ==
  LET g == GroupOf[d]
      newest == queue[g][Len(queue[g])] IN
  /\ drain[d] = "ready"
  /\ ~ running[g]
  /\ queue[g] # <<>>
  /\ drain' = [drain EXCEPT ![d] = "active"]
  /\ running' = [running EXCEPT ![g] = TRUE]
  /\ idle' = [idle EXCEPT ![g] = FALSE]
  /\ current' = [current EXCEPT ![d] = newest]
  /\ stage' = [stage EXCEPT ![newest] = "begun"]
  /\ queue' = [queue EXCEPT ![g] = SubSeq(@, 1, Len(@) - 1)]
  /\ UNCHANGED <<proc, alive, shut, signalled>>

(* It claims the group and enters the coroutine of the oldest entry. *)
DrainBegins(d) ==
  LET g == GroupOf[d] IN
  /\ drain[d] = "ready"
  /\ ~ running[g]
  /\ queue[g] # <<>>
  /\ drain' = [drain EXCEPT ![d] = "active"]
  /\ running' = [running EXCEPT ![g] = TRUE]
  /\ idle' = [idle EXCEPT ![g] = FALSE]
  /\ current' = [current EXCEPT ![d] = Head(queue[g])]
  /\ stage' = [stage EXCEPT ![Head(queue[g])] = "begun"]
  /\ queue' = [queue EXCEPT ![g] = Tail(@)]
  /\ UNCHANGED <<proc, alive, shut, signalled>>

-----------------------------------------------------------------------------
(* The coroutine of an entry: process_group_messages or the _run_wrapped   *)
(* of a scheduled task, as far as the queue sees it.                       *)

(* create_subprocess_exec has made the process and is still awaited. *)
Fork(e) ==
  /\ stage[e] = "begun"
  /\ stage' = [stage EXCEPT ![e] = "spawning"]
  /\ alive' = alive \cup {e}
  /\ UNCHANGED <<queue, running, idle, proc, drain, current, shut, signalled>>

Attach(e) ==
  /\ stage[e] = "spawning"
  /\ stage' = [stage EXCEPT ![e] = "attached"]
  /\ proc' = [proc EXCEPT ![GroupOf[e]] = e]
  /\ UNCHANGED <<queue, running, idle, drain, current, alive, shut, signalled>>

(* An agent exits by itself, crashes, or dies of a signal. *)
ChildExit(e) ==
  /\ e \in alive
  /\ alive' = alive \ {e}
  /\ UNCHANGED <<queue, running, idle, proc, drain, current, stage, shut, signalled>>

(* Variant: a finally clause without notify_idle. *)
EntryEndsUnnotified(e) ==
  /\ stage[e] \in {"begun", "attached"}
  /\ alive' = alive \ {e}
  /\ UNCHANGED proc

(* How a coroutine may end: before it spawned (a task of an unknown group, *)
(* with no notify_idle; or a failed spawn, with it), or when its agent is  *)
(* over: gone, or killed on SUBPROCESS_TIMEOUT; then with notify_idle.     *)
EntryEnds(e) ==
  LET notify_idle == [proc EXCEPT ![GroupOf[e]] = None] IN
  /\ stage[e] \in {"begun", "attached"}
  /\ proc' \in IF stage[e] = "attached" THEN {notify_idle} ELSE {proc, notify_idle}
  /\ alive' = alive \ {e}

(* The loop of _drain goes round: the next entry is begun in the same step. *)
EndAndTakeNext(d) ==
  LET g == GroupOf[d] IN
  /\ drain[d] = "active"
  /\ EntryEnds(current[d])
  /\ queue[g] # <<>>
  /\ stage' = [stage EXCEPT ![current[d]] = "finished", ![Head(queue[g])] = "begun"]
  /\ current' = [current EXCEPT ![d] = Head(queue[g])]
  /\ queue' = [queue EXCEPT ![g] = Tail(@)]
  /\ UNCHANGED <<running, idle, drain, shut, signalled>>

(* Variant: an if in place of the while, one entry for each _drain. *)
EndAndStopAtOnce(d) ==
  LET g == GroupOf[d] IN
  /\ drain[d] = "active"
  /\ EntryEnds(current[d])
  /\ stage' = [stage EXCEPT ![current[d]] = "finished"]
  /\ drain' = [drain EXCEPT ![d] = "ended"]
  /\ current' = [current EXCEPT ![d] = None]
  /\ running' = [running EXCEPT ![g] = FALSE]
  /\ idle' = [idle EXCEPT ![g] = TRUE]
  /\ UNCHANGED <<queue, shut, signalled>>

(* The loop of _drain finds the queue empty: running falls, idle_event is set. *)
EndAndStop(d) ==
  LET g == GroupOf[d] IN
  /\ drain[d] = "active"
  /\ EntryEnds(current[d])
  /\ queue[g] = <<>>
  /\ stage' = [stage EXCEPT ![current[d]] = "finished"]
  /\ drain' = [drain EXCEPT ![d] = "ended"]
  /\ current' = [current EXCEPT ![d] = None]
  /\ running' = [running EXCEPT ![g] = FALSE]
  /\ idle' = [idle EXCEPT ![g] = TRUE]
  /\ UNCHANGED <<queue, shut, signalled>>

(* A recovered run ends: no drain waits for it. *)
EndRecovered(e) ==
  /\ e \in Recovered
  /\ EntryEnds(e)
  /\ stage' = [stage EXCEPT ![e] = "finished"]
  /\ UNCHANGED <<queue, running, idle, drain, current, shut, signalled>>

-----------------------------------------------------------------------------
(* shutdown terminates the registered agents that have not exited and      *)
(* waits for their groups' idle events, at most for the grace period.      *)

(* Variant: groups that have entries waiting are taken to be at work still. *)
RegisteredOfDrained == {e \in alive : proc[GroupOf[e]] = e /\ queue[GroupOf[e]] = <<>>}

RegisteredAgents == {e \in alive : proc[GroupOf[e]] = e}

Shutdown ==
  /\ shut = "up"
  /\ shut' = IF RegisteredAgents = {} THEN "down" ELSE "closing"
  /\ signalled' = RegisteredAgents
  /\ UNCHANGED <<queue, running, idle, proc, drain, current, stage, alive>>

(* The grace period can always end the wait. *)
ShutdownReturns ==
  /\ shut = "closing"
  /\ shut' = "down"
  /\ UNCHANGED <<queue, running, idle, proc, drain, current, stage, alive, signalled>>

-----------------------------------------------------------------------------

DrainStep(d) ==
  DrainYields(d) \/ DrainFindsNothing(d) \/ DrainBegins(d)

EndStep(d) ==
  EndAndTakeNext(d) \/ EndAndStop(d)

Next ==
  \/ \E e \in Entries :
       \/ Enqueue(e) \/ Recover(e)
       \/ DrainStep(e) \/ EndStep(e)
       \/ Fork(e) \/ Attach(e) \/ ChildExit(e) \/ EndRecovered(e)
  \/ Shutdown
  \/ ShutdownReturns

Spec == Init /\ [][Next]_vars

(* The loop resumes every ready task, create_subprocess_exec returns, and  *)
(* SUBPROCESS_TIMEOUT bounds every run.  Nobody has to enqueue, no agent   *)
(* has to exit by itself, and shutdown need not be called.                 *)
Fairness ==
  \A e \in Entries :
    WF_vars(DrainStep(e)) /\ WF_vars(Attach(e)) /\ WF_vars(EndStep(e))

FairSpec == Spec /\ Fairness

-----------------------------------------------------------------------------
(* Properties.                                                             *)

Active(g) == {d \in Entries : drain[d] = "active" /\ GroupOf[d] = g}

(* The flag and the event are right: running is set exactly while one      *)
(* _drain of the group is in its loop, never two, and idle_event is its    *)
(* opposite.  Two _enqueue calls before the first _drain is resumed create *)
(* two tasks; the second must not enter the loop.                          *)
OneDrainPerGroup ==
  \A g \in Groups :
    /\ running[g] <=> Active(g) # {}
    /\ \A d1, d2 \in Active(g) : d1 = d2
    /\ idle[g] = ~ running[g]

(* No lost wakeup: while entries wait, some _drain of the group will still *)
(* look at the queue.  _enqueue creates none when running is set, so       *)
(* running must not outlive the last look at the queue.                    *)
NoLostWakeup ==
  \A g \in Groups :
    queue[g] # <<>> =>
      \E d \in Entries : GroupOf[d] = g /\ drain[d] \in {"ready", "active"}

(* Everything the group runs goes through its queue. *)
Undisturbed(g) == \A r \in Recovered : GroupOf[r] # g

(* "Only one agent subprocess runs per group at a time" (module docstring),*)
(* for the agents started through the queue.                               *)
OneQueuedAgentPerGroup ==
  \A e1, e2 \in alive \ Recovered : GroupOf[e1] = GroupOf[e2] => e1 = e2

(* The same sentence for every agent, those of recover_pending_messages    *)
(* included.                                                               *)
OneAgentPerGroup ==
  \A e1, e2 \in alive : GroupOf[e1] = GroupOf[e2] => e1 = e2

(* register_process and notify_idle leave current_proc right: in a group   *)
(* without recovery runs it names the agent of the entry in progress and   *)
(* nothing once that entry has ended, so that shutdown signals the agent   *)
(* that runs; and no agent outlives its entry.                             *)
ProcessIsTracked ==
  /\ \A e \in Entries :
       Undisturbed(GroupOf[e]) => (stage[e] = "attached" <=> proc[GroupOf[e]] = e)
  /\ \A e \in alive : stage[e] \in {"spawning", "attached"}

(* idle_event is set only by a step that leaves the group's queue empty:   *)
(* who waits for it is not woken between two entries.                      *)
IdleOnlyWhenDrained ==
  [][\A g \in Groups : ~ idle[g] /\ idle'[g] => queue'[g] = <<>>]_vars

(* shutdown "Gracefully shut down all group queues": of the groups whose   *)
(* agents all go through the queue, it signals every agent that has        *)
(* attached, also when its group looks idle or has further entries.        *)
ShutdownSignalsAttached ==
  [][shut = "up" /\ shut' # "up" =>
       \A e \in alive :
         Undisturbed(GroupOf[e]) /\ stage[e] = "attached" => e \in signalled']_vars

(* Every entry put into a queue is run to its end, whatever entries of     *)
(* this and other groups do.                                               *)
EveryEntryFinishes ==
  \A e \in Entries : stage[e] = "queued" ~> stage[e] = "finished"

(* The queue implements SerialQueue: in order, one at a time per group,    *)
(* none dropped, none run twice.                                           *)
Serial ==
  INSTANCE SerialQueue WITH
    Entries <- Entries \ Recovered,
    pending <- queue,
    executing <- {e \in Entries \ Recovered : stage[e] \in InProgress},
    finished <- {e \in Entries \ Recovered : stage[e] = "finished"}

ImplementsSerialQueue == Serial!SerialSpec
=============================================================================
