------------------------------ MODULE AgentRuns ------------------------------
(***************************************************************************)
(* One run of an agent, from the coroutine that starts it to its result:   *)
(* RuntimeOrchestrator.process_group_messages and handle_scheduled_task,   *)
(* run_subprocess_agent with _collect_output, the agent_runner process on  *)
(* the other side of the pipe, and the folder of the group, through which  *)
(* the host closes the agent (the file _close) and hands it follow-ups.    *)
(*                                                                         *)
(* A run enters only when no other queued run of its JID is in progress:   *)
(* that is what GroupQueue guarantees.  The runs in Direct are those that  *)
(* recover_pending_messages creates after a restart, beside the queue.     *)
(*                                                                         *)
(* A block is what one marker-wrapped JSON line says to the host: an       *)
(* answer, a null result (a heartbeat, or a turn without text), an error.  *)
(***************************************************************************)
EXTENDS Naturals, Sequences, FiniteSets

CONSTANTS
  Runs,          \* the runs that may be started
  Jids,          \* chat JIDs
  Folders,       \* group folders
  JidOf,         \* the chat a run posts to and is queued under
  FolderOf,      \* the folder its agent works in
  Messages,      \* the runs of process_group_messages; the others are tasks
  Direct,        \* the runs of recover_pending_messages
  HasChannel,    \* the JIDs that find_channel finds a channel for
  Slow,          \* the runs whose agent may be silent for two seconds
  MayFail,       \* the runs that timeouts, crashes and other failures may hit
  MaxFollowUps,  \* bound on the calls of send_message
  MaxRestarts,   \* bound on the restarts of the host
  None

ASSUME RunsAssumption ==
  /\ JidOf \in [Runs -> Jids] /\ FolderOf \in [Runs -> Folders]
  /\ Direct \subseteq Messages /\ Messages \subseteq Runs
  /\ HasChannel \subseteq Jids /\ Slow \subseteq Runs /\ MayFail \subseteq Runs
  /\ MaxFollowUps \in Nat /\ MaxRestarts \in Nat
  /\ None \notin Folders

VARIABLES
  host,         \* where the coroutine of a run is
  agent,        \* what its agent process does
  unread,       \* the blocks in the pipe
  outputs,      \* the blocks _collect_output has returned or will return
  closeReq,     \* close_requested
  cleared,      \* typing_cleared
  result,       \* the status and text the run ends with
  typing,       \* the typing indicator of a chat
  chat,         \* the replies stored for a chat, by the run that gave them
  groupFolder,  \* _GroupState.group_folder
  sentinel,     \* whether <folder>/input/_close exists
  inbox,        \* the follow-ups in <folder>/input
  sent,         \* the calls of send_message so far
  toRecover,    \* folders whose recovery run has not begun
  restarts      \* how often the host has been started again

vars == <<host, agent, unread, outputs, closeReq, cleared, result, typing, chat,
          groupFolder, sentinel, inbox, sent, toRecover, restarts>>

pipe == <<unread, outputs, closeReq, cleared>>
files == <<sentinel, inbox, sent>>
boot == <<toRecover, restarts>>

Block == {"answer", "null", "error"}

InProgress == {"spawning", "collecting", "draining"}

Alive(r) == agent[r] \in {"thinking", "polling"}

TypeOK ==
  /\ host \in [Runs -> InProgress \cup {"new", "done", "lost"}]
  /\ agent \in [Runs -> {"none", "thinking", "polling", "gone"}]
  /\ unread \in [Runs -> Seq(Block)] /\ outputs \in [Runs -> Seq(Block)]
  /\ closeReq \in [Runs -> BOOLEAN] /\ cleared \in [Runs -> BOOLEAN]
  /\ result \in [Runs -> Block \cup {"none"}]
  /\ typing \in [Jids -> BOOLEAN]
  /\ chat \in [Jids -> Seq(Runs)]
  /\ groupFolder \in [Jids -> Folders \cup {None}]
  /\ sentinel \in [Folders -> BOOLEAN]
  /\ inbox \in [Folders -> 0..MaxFollowUps] /\ sent \in 0..MaxFollowUps
  /\ toRecover \subseteq Folders /\ restarts \in 0..MaxRestarts

Init ==
  /\ host = [r \in Runs |-> "new"]
  /\ agent = [r \in Runs |-> "none"]
  /\ unread = [r \in Runs |-> <<>>]
  /\ outputs = [r \in Runs |-> <<>>]
  /\ closeReq = [r \in Runs |-> FALSE]
  /\ cleared = [r \in Runs |-> FALSE]
  /\ result = [r \in Runs |-> "none"]
  /\ typing = [j \in Jids |-> FALSE]
  /\ chat = [j \in Jids |-> <<>>]
  /\ groupFolder = [j \in Jids |-> None]
  /\ sentinel = [f \in Folders |-> FALSE]
  /\ inbox = [f \in Folders |-> 0]
  /\ sent = 0
  /\ toRecover = {}
  /\ restarts = 0

-----------------------------------------------------------------------------
(* Entering a run.                                                         *)

(* Variant: every run in a task of its own, past the queue. *)
AdmittedUnqueued(r) == r \in Direct => FolderOf[r] \in toRecover

(* The queue lets a run in when its group runs nothing; a recovery run is  *)
(* created for a folder at startup and asks nobody.                        *)
Admitted(r) ==
  IF r \in Direct
  THEN FolderOf[r] \in toRecover
  ELSE \A q \in Runs \ Direct : JidOf[q] = JidOf[r] => host[q] \notin InProgress

Entered(r) == toRecover' = IF r \in Direct THEN toRecover \ {FolderOf[r]} ELSE toRecover

(* The prompt is built and, for messages, the typing indicator set. *)
Begin(r) ==
  /\ host[r] = "new"
  /\ Admitted(r)
  /\ Entered(r)
  /\ host' = [host EXCEPT ![r] = "spawning"]
  /\ typing' = IF r \in Messages /\ JidOf[r] \in HasChannel
               THEN [typing EXCEPT ![JidOf[r]] = TRUE] ELSE typing
  /\ UNCHANGED <<agent, pipe, result, chat, groupFolder, files, restarts>>

(* A task whose folder no registered group has: the coroutine raises       *)
(* before it has touched anything.                                         *)
UnknownGroup(r) ==
  /\ host[r] = "new"
  /\ r \notin Messages
  /\ Admitted(r)
  /\ host' = [host EXCEPT ![r] = "done"]
  /\ result' = [result EXCEPT ![r] = "error"]
  /\ UNCHANGED <<agent, pipe, typing, chat, groupFolder, files, boot>>

(* Variant: register_process called with its arguments in another order. *)
SpawnSwapped(r) ==
  /\ host[r] = "spawning"
  /\ host' = [host EXCEPT ![r] = "collecting"]
  /\ agent' = [agent EXCEPT ![r] = "thinking"]
  /\ groupFolder' = [groupFolder EXCEPT ![JidOf[r]] = JidOf[r]]
  /\ UNCHANGED <<pipe, result, typing, chat, files, boot>>

(* create_subprocess_exec returns, on_process registers the folder, and    *)
(* the input goes down the agent's stdin.                                  *)
Spawn(r) ==
  /\ host[r] = "spawning"
  /\ host' = [host EXCEPT ![r] = "collecting"]
  /\ agent' = [agent EXCEPT ![r] = "thinking"]
  /\ groupFolder' = [groupFolder EXCEPT ![JidOf[r]] = FolderOf[r]]
  /\ UNCHANGED <<pipe, result, typing, chat, files, boot>>

-----------------------------------------------------------------------------
(* Leaving a run.                                                          *)

(* Variant: a finally clause that trusts typing_cleared unconditionally. *)
FinallyLeaksTyping(r) == UNCHANGED typing

(* The finally clause of process_group_messages; a task has none for it. *)
Finally(r) ==
  typing' = IF r \in Messages /\ JidOf[r] \in HasChannel /\ ~ cleared[r]
            THEN [typing EXCEPT ![JidOf[r]] = FALSE] ELSE typing

Ends(r, res) ==
  /\ host' = [host EXCEPT ![r] = "done"]
  /\ result' = [result EXCEPT ![r] = res]
  /\ Finally(r)

(* The process cannot be created, or its stdin breaks because it died. *)
SpawnFails(r) ==
  /\ r \in MayFail
  /\ host[r] = "spawning"
  /\ Ends(r, "error")
  /\ \/ UNCHANGED <<agent, groupFolder>>
     \/ /\ agent' = [agent EXCEPT ![r] = "gone"]
        /\ groupFolder' = [groupFolder EXCEPT ![JidOf[r]] = FolderOf[r]]
  /\ UNCHANGED <<pipe, chat, files, boot>>

(* The last answer or error, else the last block, else an error. *)
IsFinalOutput(outs, res) ==
  \/ /\ res # "null"
     /\ \E i \in 1..Len(outs) :
          outs[i] = res /\ \A k \in (i + 1)..Len(outs) : outs[k] = "null"
  \/ /\ res = "null"
     /\ outs # <<>> /\ \A i \in 1..Len(outs) : outs[i] = "null"
  \/ res = "error" /\ outs = <<>>

(* Both pipes are at their end: the agent is gone and, unless collection   *)
(* stopped before, every block has been read.                              *)
Eof(r) ==
  /\ host[r] \in {"collecting", "draining"}
  /\ agent[r] = "gone"
  /\ host[r] = "collecting" => unread[r] = <<>>
  /\ \E res \in Block : IsFinalOutput(outputs[r], res) /\ Ends(r, res)
  /\ UNCHANGED <<agent, pipe, chat, groupFolder, files, boot>>

(* The next block is an answer with text, the channel takes it, and it is  *)
(* stored.                                                                 *)
Replies(r) ==
  /\ Head(unread[r]) = "answer"
  /\ JidOf[r] \in HasChannel
  /\ chat' = [chat EXCEPT ![JidOf[r]] = Append(@, r)]

(* Variant: the except clauses return without proc.kill(). *)
NoKill(r) == UNCHANGED agent

Kill(r) == agent' = [agent EXCEPT ![r] = "gone"]

(* SUBPROCESS_TIMEOUT since the agent was spawned. *)
RunTimeout(r) ==
  /\ r \in MayFail
  /\ host[r] \in {"collecting", "draining"}
  /\ Kill(r)
  /\ Ends(r, "error")
  /\ UNCHANGED <<pipe, chat, groupFolder, files, boot>>

(* A block is longer than readline's limit, or saving the session fails,   *)
(* which on_output does after the reply has been sent and stored.          *)
CollectError(r) ==
  /\ r \in MayFail
  /\ host[r] = "collecting"
  /\ unread[r] # <<>>
  /\ Kill(r)
  /\ Ends(r, "error")
  /\ UNCHANGED chat \/ Replies(r)
  /\ UNCHANGED <<pipe, groupFolder, files, boot>>

-----------------------------------------------------------------------------
(* Collecting.                                                             *)

(* Variant: the sentinel is requested only by an answer. *)
ClosesOnAnswer(r) == ~ closeReq[r] /\ Head(unread[r]) = "answer"

(* on_output requests the end of the agent with the first block it gets. *)
Closes(r) == ~ closeReq[r]

(* One block is read and on_output handles it: the reply is sent and       *)
(* stored (a failing channel stores nothing), an answer or an error clears *)
(* the typing indicator, the first block writes the close sentinel.        *)
ReadBlock(r) ==
  LET j == JidOf[r]
      b == Head(unread[r])
      told == b # "null" /\ j \in HasChannel
  IN
  /\ host[r] = "collecting"
  /\ unread[r] # <<>>
  /\ unread' = [unread EXCEPT ![r] = Tail(@)]
  /\ outputs' = [outputs EXCEPT ![r] = Append(@, b)]
  /\ Replies(r) \/ UNCHANGED chat
  /\ cleared' = [cleared EXCEPT ![r] = @ \/ told]
  /\ typing' = IF told /\ ~ cleared[r] THEN [typing EXCEPT ![j] = FALSE] ELSE typing
  /\ closeReq' = [closeReq EXCEPT ![r] = @ \/ Closes(r)]
  /\ sentinel' = IF Closes(r) THEN [sentinel EXCEPT ![groupFolder[j]] = TRUE] ELSE sentinel
  /\ UNCHANGED <<host, agent, result, groupFolder, inbox, sent, boot>>

(* Variant: readline gives up on any agent that has nothing to say yet. *)
QuietAny(r) == Alive(r)

(* An agent that is slow, or that polls every half second and finds        *)
(* nothing, lets readline wait for two seconds.                            *)
Quiet(r) ==
  \/ r \in Slow /\ Alive(r)
  \/ agent[r] = "polling" /\ ~ sentinel[FolderOf[r]] /\ inbox[FolderOf[r]] = 0

(* readline times out: _collect_output stops, stderr is still awaited. *)
Silence(r) ==
  /\ host[r] = "collecting"
  /\ unread[r] = <<>>
  /\ Quiet(r)
  /\ host' = [host EXCEPT ![r] = "draining"]
  /\ UNCHANGED <<agent, pipe, result, typing, chat, groupFolder, files, boot>>

-----------------------------------------------------------------------------
(* The agent.  Its pipe is broken when the host that made it is gone.      *)

(* A turn ends: the history is saved, the result and a heartbeat written.  *)
(* An orphan dies of the broken pipe.                                      *)
Turn(r) ==
  /\ agent[r] = "thinking"
  /\ IF host[r] = "lost"
     THEN agent' = [agent EXCEPT ![r] = "gone"] /\ UNCHANGED unread
     ELSE /\ agent' = [agent EXCEPT ![r] = "polling"]
          /\ \E b \in {"answer", "null"} :
               unread' = [unread EXCEPT ![r] = @ \o <<b, "null">>]
  /\ UNCHANGED <<host, outputs, closeReq, cleared, result, typing, chat, groupFolder, files, boot>>

(* write_error: an error block, then exit. *)
WriteError(r) ==
  /\ r \in MayFail
  /\ agent[r] = "thinking"
  /\ host[r] # "lost"
  /\ agent' = [agent EXCEPT ![r] = "gone"]
  /\ unread' = [unread EXCEPT ![r] = Append(@, "error")]
  /\ UNCHANGED <<host, outputs, closeReq, cleared, result, typing, chat, groupFolder, files, boot>>

(* It dies without a word, or its 1800 seconds of polling are over. *)
Crash(r) ==
  /\ r \in MayFail
  /\ Alive(r)
  /\ agent' = [agent EXCEPT ![r] = "gone"]
  /\ UNCHANGED <<host, pipe, result, typing, chat, groupFolder, files, boot>>

(* Polling looks for the sentinel first: it is unlinked, the agent exits. *)
FindSentinel(r) ==
  LET f == FolderOf[r] IN
  /\ agent[r] = "polling"
  /\ sentinel[f]
  /\ sentinel' = [sentinel EXCEPT ![f] = FALSE]
  /\ agent' = [agent EXCEPT ![r] = "gone"]
  /\ UNCHANGED <<host, pipe, result, typing, chat, groupFolder, inbox, sent, boot>>

(* Otherwise it takes a follow-up, which starts another turn. *)
FindFollowUp(r) ==
  LET f == FolderOf[r] IN
  /\ agent[r] = "polling"
  /\ ~ sentinel[f]
  /\ inbox[f] > 0
  /\ inbox' = [inbox EXCEPT ![f] = @ - 1]
  /\ agent' = [agent EXCEPT ![r] = "thinking"]
  /\ UNCHANGED <<host, pipe, result, typing, chat, groupFolder, sentinel, sent, boot>>

-----------------------------------------------------------------------------
(* send_message writes a follow-up for the folder last registered. *)
SendMessage(j) ==
  LET f == groupFolder[j] IN
  /\ sent < MaxFollowUps
  /\ f # None
  /\ inbox' = [inbox EXCEPT ![f] = @ + 1]
  /\ sent' = sent + 1
  /\ UNCHANGED <<host, agent, pipe, result, typing, chat, groupFolder, sentinel, boot>>

InputIsNotEmpty(f) == sentinel[f] \/ inbox[f] > 0

(* The host dies and is started again.  What it had in memory is gone, its *)
(* agents may survive it, the files stay; recover_pending_messages looks   *)
(* for folders with anything in their input directory.                     *)
Restart ==
  /\ restarts < MaxRestarts
  /\ restarts' = restarts + 1
  /\ host' = [r \in Runs |-> IF host[r] \in InProgress THEN "lost" ELSE host[r]]
  /\ \E survivors \in SUBSET {r \in Runs : Alive(r)} :
       agent' = [r \in Runs |-> IF Alive(r) /\ r \notin survivors THEN "gone" ELSE agent[r]]
  /\ typing' = [j \in Jids |-> FALSE]
  /\ groupFolder' = [j \in Jids |-> None]
  /\ toRecover' = {f \in Folders : InputIsNotEmpty(f)}
  /\ UNCHANGED <<pipe, result, chat, files>>

-----------------------------------------------------------------------------

HostStep(r) == Spawn(r) \/ ReadBlock(r) \/ Eof(r)

AgentStep(r) == Turn(r) \/ WriteError(r) \/ FindSentinel(r) \/ FindFollowUp(r)

Trouble(r) == SpawnFails(r) \/ Silence(r) \/ RunTimeout(r) \/ CollectError(r) \/ Crash(r)

Next ==
  \/ \E r \in Runs :
       Begin(r) \/ UnknownGroup(r) \/ HostStep(r) \/ AgentStep(r) \/ Trouble(r)
  \/ \E j \in Jids : SendMessage(j)
  \/ Restart

Spec == Init /\ [][Next]_vars

(* The loop reads what is in the pipe and the agent goes on working.       *)
(* Neither a timeout nor a failure has to happen: what is live below does  *)
(* not lean on the 1800 seconds of SUBPROCESS_TIMEOUT.                     *)
Fairness ==
  \A r \in Runs : WF_vars(HostStep(r)) /\ WF_vars(AgentStep(r))

FairSpec == Spec /\ Fairness

-----------------------------------------------------------------------------
(* Properties.                                                             *)

(* At most one living agent works in a group's folder, reads its input     *)
(* directory and writes its history, as long as the host has not been      *)
(* started again: agents that survive it and recovery runs know nothing of *)
(* the queue.                                                              *)
OneAgentPerFolder ==
  restarts = 0 =>
    \A q, r \in Runs : Alive(q) /\ Alive(r) /\ FolderOf[q] = FolderOf[r] => q = r

(* When a run has ended its agent is gone, whichever of the ways out of    *)
(* run_subprocess_agent it took.                                           *)
AgentEndsWithRun ==
  \A r \in Runs : host[r] = "done" => ~ Alive(r)

(* A run that reports an answer has read every answer its agent gave,      *)
(* provided the agent never keeps silent for two seconds and shares its    *)
(* folder with no survivor of an earlier host, who could take its sentinel *)
(* from under it.                                                          *)
SuccessLosesNoAnswer ==
  restarts = 0 =>
    \A r \in Runs \ Slow : host[r] = "done" /\ result[r] = "answer" =>
      \A i \in 1..Len(unread[r]) : unread[r][i] # "answer"

(* The replies of a run stand together in the chat: a later run of the     *)
(* chat posts only after the earlier one has posted its last.  Again this  *)
(* is the work of the queue, and ends with the first recovery run.         *)
RepliesDoNotInterleave ==
  restarts = 0 =>
    \A j \in Jids : \A i, k, l \in 1..Len(chat[j]) :
      i < k /\ k < l /\ chat[j][i] = chat[j][l] => chat[j][k] = chat[j][i]

(* The typing indicator is on only while some message run of the chat is   *)
(* in progress and has told the chat nothing yet.                          *)
TypingMeansWorking ==
  \A j \in Jids : typing[j] =>
    \E r \in Messages : JidOf[r] = j /\ host[r] \in InProgress /\ ~ cleared[r]

(* Every run that has begun ends, with no timeout: on_output closes the    *)
(* agent, which would poll its folder for half an hour otherwise.          *)
RunsEnd ==
  \A r \in Runs : host[r] \in InProgress ~> host[r] = "done"

(* _collect_output "Read all OUTPUT_START/END marker-wrapped JSON blocks   *)
(* from stdout": once it has returned, no block is left.                   *)
AllBlocksRead ==
  \A r \in Runs : host[r] = "draining" => unread[r] = <<>>
=============================================================================
