# Verification of secnano

secnano is a Python orchestrator: it takes chat messages and scheduled tasks,
runs one agent subprocess per chat group for them, reads what the agent writes
to its stdout, and sends the replies back. The language model does the work;
the program's own logic is about *who runs when, and what is still true when
something fails*. That is what these TLA+ modules describe, TLC checks on small
instances, and TLAPS proves for all instances where it can.

Paths below are those of the repository (`src/` in front of them).

## 1. Inventory

| Part (code) | State it keeps | Operations | Module |
|---|---|---|---|
| Group queue (`secnano/group_queue.py`) | per JID: queue, `running`, `idle_event`, `current_proc`, folder | `enqueue_task`, `_drain`, `register_process`, `notify_idle`, `shutdown`, `send_message`, `close_stdin` | `GroupQueue`, `SerialQueue`, `GroupQueueProofs`; the two that write files: `AgentRuns` |
| Run orchestration (`secnano/runtime_orchestration.py`, `runtime.py`) | per run: `close_requested`, `typing_cleared` | `process_group_messages`, `handle_scheduled_task`, their `_on_output` | `AgentRuns`, `AgentRunsProofs` |
| Subprocess runner (`secnano/subprocess_runner.py`) | process, pipes, outputs | spawn, `_collect_output`, three timeouts, kill, choice of the final output | `AgentRuns`; the process as the queue sees it: `GroupQueue` |
| Agent (`agent_runner/main.py`) | conversation, `history.json`, input directory | turns, `write_output`, `wait_for_ipc_message`; load, trim and save of the conversation | `AgentRuns`; the conversation: `Sessions`, `SessionsProofs` |
| Task scheduler (`secnano/task_scheduler.py`) | `scheduled_tasks`, `_queued_task_ids` | `schedule_task`, poll, `_run_task`, `_run_wrapped` | `TaskScheduler`, `TaskSchedulerProofs`; with messages in the same queues: `Host`, `HostProofs` |
| Ingress and watcher (`secnano/ingress.py`, `ipc.py`, `sender_allowlist.py`) | directories of JSON files; tables `chats`, `messages` | list, handle, unlink; store, match, enqueue | `Inbound`, `InboundProofs` |
| Web channel (`secnano/channels/web.py`) | `_messages`, `_next_message_id`; the page's `since` | connect and `_seed_history`, `POST /api/send`, `GET /api/messages`, `send_message` | `WebChannel`, `WebChannelProofs` |
| Control plane, registry of groups (`secnano/control_plane.py`, `group_folder.py`, `db.py`, `main.py`; `register_group` in `agent_runner/tools.py`) | `registered_groups`, `chats`, the directories of groups, task files | the agent's `register_group`, `handle_ipc_task`, bootstrap of the main group | `Registration`, `RegistrationProofs` |
| Sessions (`agent_runner/main.py`, `db.py`, `main.py`, `runtime_orchestration.py`) | `history.json`, table `sessions` | the host's look-up and update, the agent's load and save | `Sessions`, `SessionsProofs` |
| Host wiring (`secnano/main.py`) | – | the callbacks that bring the parts together, the order of startup | in the modules they belong to; scheduler, ingress, queue and registry together: `Host` |
| Other tools of the agent, trace store, ops view, logging, configuration, text | – | bodies of tools, read-only views, formatting | not modelled |

How they interact. Everything in the host runs on **one asyncio loop**, so what
lies between two `await`s that really suspend is atomic. The exceptions are the
HTTP threads of the web channel, which share `_messages` under a lock, the agent
processes, which share files and pipes with the host, and the end of the host
process, which may come between any two effects outside its memory.

Messages come from the watcher (files) or from the web channel (a thread
schedules a coroutine on the loop). Ingress stores them and enqueues a run in
the queue of their JID. The scheduler enqueues due tasks into the same queues.
An entry of the queue spawns an agent, and its `_on_output` sends and stores
replies and, at the first block of output, writes the file `_close` that makes
the agent exit. `recover_pending_messages` starts runs at startup **past** the
queue.

What is hard, with its lines, is listed under `hazards` in `PROJECT.json`. In
short: two `_drain` tasks of one group; an entry that arrives while the last one
ends; processes that are spawned but not registered; shutdown in the middle;
answers that come after a two-second silence; one sentinel file for all agents
of a folder; survivors of a crashed host; jobs that wait for several polls;
database errors between a run and its booking; crashes between handling and
unlinking a file; history that is loaded while others write, or is trimmed in the
middle of a turn; a registry in which groups exchange chats and the main group
loses its rights; a bootstrap cut off half-way; polls of a page that overtake one
another.

## 2. The modules

### SerialQueue and GroupQueue

`SerialQueue` is what the queue promises: the entries of a group are executed in
order and one at a time. `GroupQueue` is the code: `Enqueue` is `_enqueue`
(which creates a `_drain` task when `running` is unset), `DrainYields`,
`DrainFindsNothing` and `DrainBegins` are the three ways a `_drain` task goes on
when it is first resumed, `EndAndTakeNext` and `EndAndStop` are the end of an
entry together with the loop's next look at the queue, which no `await`
separates. `Fork` and `Attach` are the two sides of `create_subprocess_exec`: the process
exists before `register_process` is called. `Recover` is a run past the queue;
`Shutdown` is `shutdown`, which signals what `current_proc` names and waits.

asyncio resumes ready tasks in FIFO order; the model resumes any, which allows
more. `queue.get()` inside `_drain` never suspends since the queue was seen to be
non-empty. `enqueue_message_check`, `set_process_messages_fn` and `wait_idle`
have no caller in `src/`, and `snapshot` only reads; they are left out.
Observation, not stated as a property: `_enqueue` leaves the idle event set until
its `_drain` is resumed, so a `wait_idle` in between would return at once.

### AgentRuns

One run and its agent, and the folder through which host and agent talk. `host[r]` follows the coroutine (`Begin`,
`Spawn`, `ReadBlock`, `Silence`, `Eof`, and the failures `SpawnFails`,
`RunTimeout`, `CollectError`), `agent[r]` the process (`Turn`, `WriteError`,
`Crash`, `FindSentinel`, `FindFollowUp`); `unread` is the pipe between them.
`ReadBlock` is all of `_on_output`: the reply, the typing indicator, the
sentinel. `Silence` is readline's two-second timeout, after which
`_collect_output` reads no more while the agent is still waited for.
`UnknownGroup` is a task of a folder no group has. `Restart` is the end and new
start of the host: agents may survive, files stay, `toRecover` is what
`recover_pending_messages` finds.

A block is an answer, a null result or an error; texts are left out. The queue
is what `Admitted` says of it (checked and proved in `GroupQueue`). The branch
for an empty prompt is left out, because `format_messages` never returns one.
The runs of a folder have one JID here; a task row can name the JID of another
group than its folder's, and then two agents can share a folder: that is a
matter of `Host`.

### Sessions

The conversation of a group, across runs. A message is the number of its turn and
its kind (prompt, call of tools, results, reply); that is what trimming and
alternation depend on. `Begin` looks up the session id, `Start` is
`load_session` and the first prompt, `UseTools` and the first half of `EndTurn`
are what the inner loop appends. `load_session` takes a file that is no JSON for no
history, but does not catch the `UnicodeDecodeError` of one torn inside a character (the
text is written with `ensure_ascii=False`): there the agent dies, which is `Dies`, as every
later agent with a session id does until the file is replaced. `Path.write_text` truncates and then writes, so
a save is `EndTurn` (the file is `Torn`) and `Write`; two agents that have the
file open at once (`crossed`) may leave anything, which is `Torn` again.
`Report` writes the blocks with the session id, `ReadBlock` is `save_session`
on the host's side. `GoDeaf` is the two-second silence after which the host reads
no more, `Dies` any death of the agent, `Restart` that of the host, which agents
may survive until they write to their broken pipe. `saved` is a history
variable: every turn of the folder that was ever saved.

### Registration

`WriteTemp` and `Rename` are the agent's `register_group`, `Take` and `Unlink` the
watcher's pass over a listing: an unlink that fails is suppressed, so the file stays where it
is, is passed over (`passed`; `rest` counts the files of the listing behind it) and is handled
again in the next pass. `Check`, `StoreChat`, `StoreRow`, `MakeDirs` the steps of
`handle_ipc_task`, in its order and each a transaction of its own;
`Raises` is an error in any of them. `BootFinds`, `BootInserts`, `BootDirs`,
`BootChat` are `_ensure_main_bootstrap`, `Connect` is the part of the web
channel's `connect` that stores its chat. No other coroutine sees these steps
half done, but the host may die between any two (`Crash`). The table has two
keys, `folder` (of the upsert) and `jid` (a unique index that makes an upsert
raise): `MayUpsert`. Which requests are complete and name a valid folder is the
constant `Acceptable`. `by` is a history variable: the request that wrote a row. Who asks
is the directory of the file, as in the code; that an agent's shell tool might write into
another group's directory is outside the model, and so outside `AuthorityDoesNotSpread`.

### Host

The composition: messages (as ingress enqueues them) and the scheduler's jobs wait
in the same queues, keyed by JID, while folders may be registered with another JID
(`Register`). `Schedule`, the booking in `End` and the due rows in `Poll` are the
operators of `TaskScheduler` itself (`S!...`), and `ImplementsScheduler` says
that the composition refines it, with `waiting` and `running` computed from the
queues. The queue is used as `SerialQueue` describes it; `GroupQueueProofs` shows that
`GroupQueue` implements that. `place` is the folder a run works in: for a
message it is fixed when the message comes, for a task it is looked up when the
run begins. `list_scheduled_tasks` promises no order, so `Poll` enqueues the due
tasks of each JID in any of the `Orders` there are; `Count` is how often an entry
stands in a queue.

### TaskScheduler

`Poll` is `_enqueue_due_tasks_once`, which never suspends; `StartJob` the moment
the queue reaches a job; `FinishJob` and `BookingFails` the end of `_run_task`
with the `finally` of `_run_wrapped`. A row changes only by these, by
`schedule_task` and by `upsert_scheduled_task`. An interval of zero is accepted by
the code and due again at every poll; `Host` has one, `JobsAreFresh` is about
positive ones. Time is a counter to `Horizon`.
The row of a `once` task is written in two statements; `BookingFails` has the
state between them. `served` is a history variable: the latest `next_run` for
which a run has been booked.

### Inbound

The watcher's pass over a directory is a listing and, for every file in the
order of names, the handler and then the unlinking. Nothing in a pass suspends
(the handlers only call sqlite and the queue), so `LoopIsFree` keeps runs from
beginning in between, but the host may die (`Restart`). `Handle` is all of
`handle_new_message` and `handle_chat_metadata`; `HandleFails` has the points
where the database can fail. The file is unlinked whether its handler returned or raised;
if the unlinking itself fails, `suppress(OSError)` hides it, and the file is there for the
next listing, to be handled again (`UnlinkFails`; `kept` counts how often). `BeginRun` builds
the prompt from `RecentRows`, which is `get_messages`: the latest rows by
timestamp, ties in any order. A reply becomes a row as well and competes for the
window. Bridges are outside the repository: `Write` lets them put any
file at any time. The queue is `SerialQueue`'s. Recovery runs are not in
this module: they need a file in an agent's input directory, which a
waiting run does not make.

### WebChannel

Every access to `_messages` is a step, because every one takes the lock.
`StartServer`, `SeedCheck`, `SeedLoad` and `SeedAppend` are `connect`: the server
serves before the history is loaded. `PostMessage` and `Schedule` are one request thread,
`Receive` the coroutine on the loop, `SendReply` and `StoreReply` the two effects
of a reply. The page is modelled from its script in `web.py`: `SendPoll` with the
`since` of the moment, `Answer` on the server, `Render` when the answer arrives,
in any order. After `Restart` ids begin at 1 again while the page keeps its
`since`. The five-second limit on the wait for the server thread is left out.

## 3. Runs

`expect: pass` runs, with the questions they answer:

| Run | Instance | Shows |
|---|---|---|
| `GroupQueue` | two entries in one group; one entry and one recovery run in another | one drain per group, no lost wakeup, one queued agent, `current_proc` names the right process and shutdown signals it, refinement of `SerialQueue`, every entry finishes |
| `AgentRuns` | three runs of one group: a message run, a recovery run and a slow task; failures of the first two; one follow-up; one restart | one agent per folder, no agent outlives its run, no answer lost on success, replies together, typing indicator honest |
| `AgentRuns_live` | a message run and a task run with failures, no restart | every run ends, without the 1800-second timeout |
| `TaskScheduler` | interval, cron and once; two share a queue; one fault; one restart; clock to 4 | single flight, no time of a schedule booked twice, every due task runs and is booked |
| `Inbound` | five inputs of one chat: a message in a file, an older one from the web at any time, a redelivery of the first, a metadata file, a malformed file; window of 2; one fault, of the database or of an unlink; one restart | no file lost, no second run of an input except for a failed unlink, a run sees its message, accepted work is done |
| `Sessions` | two equal runs and an isolated task of one group; four turns with at most one call of tools each, window of four messages; one event that costs a history; one restart | the conversation is kept from run to run, a history that is lost loses its beginning and never its middle, what the model is sent alternates between user and assistant |
| `Registration` | the main group asks to move to another chat and to register a second group under that chat or its old one, the second group asks for itself; requests may be repeated; one error, of a write or of an unlink, two crashes | a JID names one group, authority stays with the main group, startup never fails, groups have directories and chats, every request is answered |
| `Host` | a task of interval 0, a cron task of a folder not yet registered, a message in the queue of both, and one in another queue whose run may last for ever; one registration, one fault, one restart | one run per folder, refinement of `TaskScheduler`, every due task is served, every message begins |
| `WebChannel` | one row of history, one post, one reply, two polls at once, one restart, reloads | no message skipped, none twice, history whole or absent, the page catches up |

`TypeOK` of `GroupQueue`, `TaskScheduler` and `Registration`, and `IdleOnlyWhenDrained`,
`JobsAreDue` and `HandledRequestsAreWhole`, are proved (section 4) and therefore
in no configuration, as are `TypeOK` and `SessionRowMeansHistory` of `Sessions`. In `Host` `TypeOK` describes the
state for the reader; the parts of it that the proofs need are in their invariants.

`expect: violation` runs. Each checks one sentence that the repository says
of itself, and TLC shows how the code departs from it:

| Run | Sentence | What happens |
|---|---|---|
| `AgentRuns_slow` | "Read all … blocks from stdout" (`subprocess_runner.py:59`) | two seconds of silence end the reading for good |
| `TaskScheduler_once` | "Run once; no next run" (`task_scheduler.py:70`) | a `once` task made by `schedule_task` never has a time to run at |
| `Sessions_pairs` | "always preserve pairs (user+assistant)" (`agent_runner/main.py:74`) | the window cuts between a call of a tool and its results |

Further departures, met while modelling and present in the models, that no run is
spent on: a recovery run goes past the queue, so "Only one agent subprocess runs
per group at a time" (`group_queue.py:4`) holds for queued runs and, without
recovery runs, for all (`OneAgent`); `shutdown` does not reach an agent that is
being created or that the next entry spawns; the sentinel of the first block is
found before a follow-up that was written earlier, against `group_queue.py:5`
(`FindSentinel`, `FindFollowUp` in `AgentRuns`); `_poll_directory` is "deleting each after
handling" (`ipc.py:54`), but a failure to delete is suppressed and its message causes
another run (`UnlinkFails` in `Inbound`); a page that is open while the host restarts skips
what was said before its first poll, as long as the new ids are not above its old `since`
(`PageCatchesUp` says that `since` comes down to the new list, not that nothing was
skipped); "Re-enqueue any groups that had
in-progress work at shutdown" (`main.py:408`) misses runs that wait in the queue
(`Restart` in `Inbound`).

**Why the bounds suffice.** Two entries give two `_drain` tasks that race and an
entry that arrives while another ends; a second group shows independence. For
the agent, one message run, one other run of the same group and one survivor are the
smallest cast in which a sentinel, a follow-up or a reply can reach the wrong
agent. The clock of the scheduler passes every time of the interval and cron
schedules more than once. A window of two rows with three messages makes rows fall out of it.
A turn with one call of tools is four messages, the window of `Sessions`, so that
every kind of cut occurs within four turns, and three runs let an agent that
survived, a new one and an isolated one save at once. In `Registration` two
JIDs and two folders are enough for any exchange, and the second crash can hit
the recovery from the first. Two polls are enough for one to overtake the other. One fault and one restart
can fall into every step; each guard of the bounds (`MaxFaults`, `MaxRestarts`,
`MaxFollowUps`, `Horizon`) is a conjunct of the action it limits. `CHECK_DEADLOCK
FALSE` is in every configuration, since each instance has finitely much work and
then rightly stops.

**Fairness.** `GroupQueue`: the loop resumes ready tasks, process creation
returns, and `SUBPROCESS_TIMEOUT` bounds every run. `AgentRuns`: the host reads
what is in the pipe and the agent works on; no timer is assumed, and slow agents
are excluded from `AgentRuns_live`, since what they write is not read (see
`AgentRuns_slow`). `TaskScheduler`: the clock ticks, the loop polls, the queue
reaches jobs (this is `EveryEntryFinishes`), runs end. `Inbound`: the watcher
polls, runs begin and end, and the bound on faults means that a file can be unlinked in the
end; a file that never can be would be handled, and its run repeated, for ever, which no
liveness property denies. The same goes for `Registration`. `Registration`: a host that is started gets through its bootstrap, the handler
goes on, and the watcher, which visits all directories in turn, reaches each (strong
fairness, since crashes and other directories interrupt it). `Host`: as in
`TaskScheduler`, except that runs of a JID in `Endless` need not end. `WebChannel`:
threads and callbacks run; polls are
answered infinitely often if they are sent infinitely often (strong fairness,
since single polls may be lost). Restarts, faults, submissions and reloads are
never assumed to happen. Liveness that holds only while the host stays up
says so (`restarts = MaxRestarts`).

**Conditions inside properties** are facts about the code. `OneAgentPerFolder`,
`RepliesDoNotInterleave` and `SuccessLosesNoAnswer` hold until the first restart
(survivors and recovery runs know nothing of the queue). `NoFileIsLost` holds
without database errors, because `_poll_directory` unlinks in `finally`; failed unlinks do not
matter to it. `OneRunPerUnlink` has no condition: it counts the failed unlinks, since the run
of the first handling may begin before the file is listed again. `HistoryHasNoHoles` holds in
the first life of the host, for a folder in which the runs of one chat work, isolated ones
among them.
`ConversationIsKept` holds for a folder in which one chat has worked and no
isolated task, without restarts, and without the events `Costly` and `GoDeaf`
count: an isolated run overwrites the history of its group, and so does a run
of a host that never learned the first session id. `GroupsHaveDirs` holds without
errors, since a failing `mkdir` leaves the row behind, and without failed unlinks: an older
request that is handled again may demote the main group while a crash has left the
directories of a later one to be made. `OneRunPerFolder` holds
while no folder changes its JID and task rows name the JID of their folder.
`PageShowsEachOnce` holds while polls do not overlap, which `setInterval` does
not ensure.

## 4. Proofs

### GroupQueueProofs

For every set of groups, entries and recovery runs under `EntriesAssumption`:

| Theorem | Statement |
|---|---|
| `Typing` | `Spec => []TypeOK` |
| `OneDrain` | `Spec => []OneDrainPerGroup` |
| `WakeupsAreKept` | `Spec => []NoLostWakeup` |
| `AgentsDoNotOverlap` | `Spec => []OneQueuedAgentPerGroup` |
| `ProcessTracking` | `Spec => []ProcessIsTracked` |
| `IdleEventIsHonest` | `Spec => IdleOnlyWhenDrained` |
| `ShutdownSignals` | `Spec => ShutdownSignalsAttached` |
| `OneAgent` | without recovery runs, `Spec => []OneAgentPerGroup` |
| `Refinement` | `Spec => ImplementsSerialQueue` |

None of the properties is inductive by itself: that two agents of a
group do not overlap rests on every living agent having an entry in progress, that on
every queued entry in progress being the `current` of an active drain, that on
there being one active drain per group. The inductive invariant is the
conjunction of the typing, the agreement of `running`, `idle` and the active
drain, the correspondence between entries (`stage`), queues and drains, and, for
groups without recovery runs, between `proc` and the entry in progress. It is
shown to hold initially and to be kept by each action, one step per action;
the properties follow from it. The refinement maps `queue`, the entries
in progress and the finished ones to `SerialQueue`: `Enqueue` maps to
`Submit`, `DrainBegins` to `Start`, `EndAndTakeNext` to `Handover`, `EndAndStop`
to `Finish`, everything else to a stutter; the invariant gives the guards.

### RegistrationProofs

For every set of folders, JIDs and requests and any number of errors and crashes,
under `RegistrationAssumption`:

| Theorem | Statement |
|---|---|
| `Typing` | `Spec => []TypeOK` |
| `JidsAreUnique` | `Spec => []JidIdentifiesGroup` |
| `AuthorityStays` | `Spec => []AuthorityDoesNotSpread` |
| `BootSucceeds` | `Spec => []BootNeverFails` |
| `ChatsAreStored` | `Spec => []GroupsHaveChats` |
| `WholeRequests` | `Spec => []HandledRequestsAreWhole` |
| `DirsAreMade` | `Spec => []GroupsHaveDirs` |

The bootstrap never meets the unique index for two reasons that the invariant
`TableInv` keeps together: no group is registered before the main group
(`MainComesFirst`, which needs that the handler only writes for the main group), so
without its row the table is empty; and with it, the promoted row keeps its JID,
which uniqueness makes its own. For the directories, `DirsFollow` says what a crash
leaves: a row without directories is the main group's while the host starts, or its
request is still the first file of the main group's agents and no check
will stop it the second time, because the bootstrap has restored `is_main` and the
row it collides with is its own. That the handler is at the first file rests on
`TaskIsListed`, which says where in the directory the handler's file stands, and on
`PassedByFault`: only files that could not be unlinked are passed over.

### TaskSchedulerProofs

For every set of tasks, any schedules, faults and restarts, under
`ScheduleAssumption`:

| Theorem | Statement |
|---|---|
| `Typing` | `Spec => []TypeOK` |
| `OneJob` | `Spec => []SingleFlight` |
| `DueJobs` | `Spec => []JobsAreDue` |
| `FreshJobs` | if every interval is positive, `Spec => []JobsAreFresh` |

`TypeOK`, `SingleFlight` and `JobsAreDue` are inductive together: a row is changed
only by the end of its own job, which by single flight is the only one. For
`FreshJobs` the invariant is about rows (`RowsAreFresh`), and rests on
`NextRunIsLater`, the lemma about `_compute_next_run`.

### AgentRunsProofs

For any runs, chats and folders, any failures and any number of follow-ups and
restarts, under `RunsAssumption`:

| Theorem | Statement |
|---|---|
| `Typing` | `Spec => []TypeOK` |
| `AgentEnds` | `Spec => []AgentEndsWithRun` |
| `TypingIsHonest` | `Spec => []TypingMeansWorking` |
| `RepliesStandTogether` | `Spec => []RepliesDoNotInterleave` |
| `OneAgent` | if `FoldersHaveOneChat`, `Spec => []OneAgentPerFolder` |
| `NoAnswerIsLost` | if `FoldersHaveOneChat`, `Spec => []SuccessLosesNoAnswer` |

`FoldersHaveOneChat` says that all runs of a folder are queued under one JID. The
queue orders JIDs, not folders, so without it two agents may share a folder; it holds
as long as `register_group` has not given a group another JID and no task
row names the chat of another group (`Host` has both).

Three invariants, from the one that needs nothing to the one that needs all.
`IInv` holds in every life of the host: a run that has not spawned has no agent, a run that
is done has none alive, the typing indicator belongs to a run that will take it
back. `FirstLife` holds until the first restart: `QueueIsObeyed` (one run of a JID in
progress) and, resting on it, `ChatIsGrouped`: nothing stands behind the replies of a
run in progress. `Collected` is why a success has read everything, and is about
three places at once: `SentinelReachesAgent` says that the host writes `_close`
where the run's own agent looks, that the file stays there as long as the agent
lives, and that an agent which waits without a sentinel has left something in
the pipe to be read; therefore `readline` never gives up on an agent that
is not slow (`CollectedToTheEnd`). That no other agent takes the sentinel is
`OneAgentPerFolder`, so the third invariant is kept only in states of the first two.

### SessionsProofs

For any runs, folders and chats, any even window, any number of turns, calls of tools,
lapses and restarts, under `SessionsAssumption` and `TornAssumption`:

| Theorem | Statement |
|---|---|
| `Typing` | `Spec => []TypeOK` |
| `HistoriesAlternate` | `Spec => []HistoryAlternates` |
| `RowsMeanHistory` | `Spec => []SessionRowMeansHistory` |
| `ConversationsAreKept` | `Spec => []ConversationIsKept` |
| `HistoriesHaveNoHoles` | `Spec => []HistoryHasNoHoles` |

`HistoryInv` joins the agents' memories to the files: a memory alternates and has an odd
length exactly in a turn, a file that is not torn alternates and has an even length; the
window is even, so a cut takes pairs of messages (`AlternatesTrimmed`). `ToldIsSaved`
orders the chain from the saved turn over the block to the row.
`ConversationIsKept` needs three more facts of a folder of one chat in the first life:
the queue lets one agent work in it (`RunsAreQueued`); an agent in a turn remembers, before
its prompt, the latest of what was saved (`AgentKnows`); and the host listens until
it has the session id (`HostLearns`), so that no later agent starts
without looking. `HistoryHasNoHoles` needs the first two only, with "the latest of some end of
what was saved" instead (`AgentHasEnd`): an agent that starts with nothing has an empty
end, and a turn that is saved makes the end longer (`EndAppended`). The algebra is in `TrimTwice` and `TrimAppended`: to trim, add a turn and
trim again gives the same as to add it to the whole history and trim once.

### WebChannelProofs

For any posts, replies and history, any number of polls under way, reloads and
restarts, under `WebAssumption`:

| Theorem | Statement |
|---|---|
| `Typing` | `Spec => []TypeOK` |
| `NothingIsMissed` | `Spec => []PageMissesNothing` |
| `EachIsShownOnce` | `Spec => []PageShowsEachOnce` |
| `WholeHistory` | `Spec => []HistoryIsWhole` |

That the ids of the list are 1, 2, 3, … is part of `TypeOK` and what the other proofs
rest on. `PollsAreHonest` carries a poll from its `since` to its answer: what lies before
`since` is rendered, and the answer has everything up to its `next_since`, because
both were read under one lock. `PollsDoNotOverlap` is the condition of `PageShowsEachOnce` and
what it gives: the answer begins where the page ends. `HistoryIsWhole` rests on
`HistoryComes`: while `connect` appends, each row is in the list or still
to be appended; and on `StoredIsListed`: a row that is stored meanwhile was in the
list before, so it can not be missing from a history that was loaded too early.

### HostProofs

For any tasks, messages, chats and folders and any number of registrations, faults
and restarts, under `HostAssumption`:

| Theorem | Statement |
|---|---|
| `FoldersAreNotShared` | `Spec => []OneRunPerFolder` |
| `HostImplementsScheduler` | `Spec => ImplementsScheduler` |

`QueuesAreSerial` says that entries wait under their own JID and that one of a JID is
executed; `PlacesAreLawful` says, while no folder has moved, what the folder of a run has to do
with its JID. Together they give `OneRunPerFolder`.

The refinement maps `waiting` to the number of times a task stands in the queue of its JID,
and `running` to whether it is executed; everything else keeps its name. `Poll` maps to the
scheduler's `Poll`, `Begin` and `End` of a task to `StartJob` and to `FinishJob` or
`BookingFails`, `Schedule` and `Restart` to their namesakes; `Register`, `Arrive` and the
runs of messages are stutters. The work is in the lemmas on `Count`: joining queues adds,
taking the head subtracts one, and an order of a set has each member once (`CountJoined`,
`CountBegun`, `CountOrdered`). It follows that what `TaskSchedulerProofs` proves of the
scheduler is true of the host with this `waiting` and `running`. That conclusion is not
stated as a theorem, because tlapm can not cite the theorems of an instantiated module.

### InboundProofs

For every set of inputs and chats, any triggers and window, any number of database
errors, failed unlinks and restarts, under `InputsAssumption`, `RedeliveryAssumption` (two inputs with one id
are one message) and `FreshIdAssumption` (a reply's `uuid4` is the id of no message):

| Theorem | Statement |
|---|---|
| `Typing` | `Spec => []TypeOK` |
| `FilesAreKept` | `Spec => []NoFileIsLost` |
| `RunsAreCounted` | `Spec => []OneRunPerUnlink` |
| `RunsSeeTheirMessage` | `Spec => RunSeesItsMessage` |

A file that was handled and is still there may be handled again, after a crash or a failed
unlink, so the count of begun runs is not inductive by itself. `Accounted` counts the runs
that wait as well: together they are no more than the failed unlinks and one, and that one
only if the input is gone or is the very file whose handler has just returned.
`BeginRun` needs a free loop, when there is no such file; a restart takes that one away, but
empties the queues, so that what remains are the runs that had begun before
(`OneRunPerUnlink`). The lemmas on `Count` say that `Append` adds one occurrence to a queue
and that `Head` and `Tail` take one from it. `HandledIsStored` is the
step between the handler and the unlinking that `NoFileIsLost` needs.

`RunSeesItsMessage` is about a step, the beginning of a run. `RowInv` says that a run waits
only behind its stored message and that every row is that of an input or of a reply,
so that a redelivered message keeps its time (`StoredAsSent`, which needs
the two assumptions on ids). If the message is not in the window, the window is
full of rows that are no older (`WindowOrFull`), by the theorems on cardinalities.

### Only model-checked

Liveness, since fairness and ENABLED are beyond the prover: `EveryEntryFinishes`, `RunsEnd`,
`DueTasksRun`, `TasksAreServed`, `MessagesBegin`, `AcceptedWorkIsDone`, `RequestsAreAnswered`
and `PageCatchesUp`. All other properties of the passing runs are proved.

## 5. Not modelled

The bodies of the agent's tools other than `register_group`; the trace store, the ops
page and logs, which nothing in the host reads back; formatting, escaping and the trigger's regular
expression (which messages trigger is a constant); timestamps as text; the
cancellation of tasks when the interpreter ends (covered by a restart that loses
all memory); log lines and trace events. `delete_session`,
`delete_registered_group`, `enqueue_message_check` and `wait_idle` have no caller.
Requests written in the same millisecond are ordered by a random suffix;
`Registration` takes the calls of an agent to be ordered.

## 6. Plan

1. The pure functions that decide who may cause a run (`sender_allowlist.py`,
   `_matches_group_trigger`), if they are to be more than the constants
   `Permitted` and `Triggering`.
2. Proofs: that a restart keeps a conversation in `Sessions` if no agent survives
   it (`ConversationIsKept` stops at the first restart); the typing of `Host`.
