------------------------------- MODULE Sessions -------------------------------
(***************************************************************************)
(* The conversation of a group: the file history.json that every agent of  *)
(* the folder loads when it starts and writes when a turn ends, and the    *)
(* row of the table sessions, by which the host tells an agent that there  *)
(* is a history to load.  The row is written by on_output, from the block  *)
(* that follows the first save.                                            *)
(*                                                                         *)
(* An agent holds the conversation in memory and writes all of it over the *)
(* file.  Path.write_text first truncates the file and then writes it, so  *)
(* a save is two steps; a file cut short, or left to two writers at once,  *)
(* is Torn, which load_session reads as no history at all.                 *)
(*                                                                         *)
(* A message is the number of its turn and what it is: the prompt, a call  *)
(* of tools, their results, or what ends the turn, whatever stop_reason.   *)
(***************************************************************************)
EXTENDS Naturals, Sequences

CONSTANTS
  Runs, Folders, Jids,
  FolderOf,      \* the folder a run works in
  JidOf,         \* the chat it is queued under
  Isolated,      \* scheduled tasks whose context_mode is not group
  Window,        \* MAX_HISTORY_MESSAGES
  MaxTurns,      \* bound on the turns of all runs
  MaxCalls,      \* bound on the calls of tools in a turn
  MaxLapses,     \* bound on the events that cost a history, see Costly
  MaxRestarts,   \* bound on the restarts of the host
  Torn           \* a file that is not JSON

ASSUME SessionsAssumption ==
  /\ FolderOf \in [Runs -> Folders] /\ JidOf \in [Runs -> Jids]
  /\ Isolated \subseteq Runs
  /\ Window \in Nat \ {0} /\ Window % 2 = 0
  /\ {MaxTurns, MaxCalls, MaxLapses, MaxRestarts} \subseteq Nat

Kinds == {"prompt", "call", "results", "reply"}
Message == [turn : 1..MaxTurns, kind : Kinds]

ASSUME TornAssumption == Torn \notin Seq(Message)

VARIABLES
  file,      \* history.json of a folder, <<>> while there is none
  tracked,   \* whether the folder has a row in sessions
  host,      \* the coroutine of a run; deaf once _collect_output gave up
  agent,     \* what its agent does
  given,     \* whether a session id waits in the stdin of the agent
  memory,    \* its list messages
  told,      \* a block with a session id waits in the pipe
  crossed,   \* another agent opened the file while this one was saving
  turns,     \* turns begun so far
  saved,     \* the conversation of a folder: every turn saved, in order
  lapses,    \* events that cost a history so far
  restarts

runState == <<host, agent, given, memory, told, crossed>>
vars == <<file, tracked, runState, turns, saved, lapses, restarts>>

Reading == {"reading", "deaf"}

Alive(r) == agent[r] \notin {"none", "gone"}

TypeOK ==
  /\ file \in [Folders -> Seq(Message) \cup {Torn}]
  /\ tracked \in [Folders -> BOOLEAN]
  /\ host \in [Runs -> Reading \cup {"new", "done", "lost"}]
  /\ agent \in [Runs -> {"none", "started", "thinking", "saving", "saved", "polling", "gone"}]
  /\ given \in [Runs -> BOOLEAN] /\ told \in [Runs -> BOOLEAN]
  /\ memory \in [Runs -> Seq(Message)]
  /\ crossed \in [Runs -> BOOLEAN]
  /\ turns \in 0..MaxTurns
  /\ saved \in [Folders -> Seq(Message)]
  /\ lapses \in 0..MaxLapses /\ restarts \in 0..MaxRestarts

Init ==
  /\ file = [f \in Folders |-> <<>>]
  /\ tracked = [f \in Folders |-> FALSE]
  /\ host = [r \in Runs |-> "new"]
  /\ agent = [r \in Runs |-> "none"]
  /\ given = [r \in Runs |-> FALSE]
  /\ memory = [r \in Runs |-> <<>>]
  /\ told = [r \in Runs |-> FALSE]
  /\ crossed = [r \in Runs |-> FALSE]
  /\ turns = 0
  /\ saved = [f \in Folders |-> <<>>]
  /\ lapses = 0
  /\ restarts = 0

-----------------------------------------------------------------------------
(* The host begins a run.                                                  *)

(* Variant: the contexts of group and isolated tasks are mixed up. *)
SessionIdSwapped(r) == r \in Isolated /\ tracked[FolderOf[r]]

(* get_session_id, which an isolated task does not ask. *)
SessionId(r) == r \notin Isolated /\ tracked[FolderOf[r]]

(* Variant: runs are handed out without asking what goes on. *)
AdmittedAtOnce(r) == TRUE

(* The queue admits one run of a JID at a time.  After a restart it knows  *)
(* nothing of the agents that survived; recovery runs, which pass it by,   *)
(* overlap with others in the same way.                                    *)
Admitted(r) ==
  \A q \in Runs : JidOf[q] = JidOf[r] => host[q] \notin Reading

Begin(r) ==
  /\ host[r] = "new"
  /\ Admitted(r)
  /\ host' = [host EXCEPT ![r] = "reading"]
  /\ agent' = [agent EXCEPT ![r] = "started"]
  /\ given' = [given EXCEPT ![r] = SessionId(r)]
  /\ UNCHANGED <<file, tracked, memory, told, crossed, turns, saved, lapses, restarts>>

-----------------------------------------------------------------------------
(* The agent.                                                              *)

(* A file that is no JSON is no history.  One torn inside a character      *)
(* raises a UnicodeDecodeError, which is not caught: the agent dies, see   *)
(* Dies, as does every later one that is given a session id, until the     *)
(* file is written anew.                                                   *)
LoadSession(r) ==
  LET f == FolderOf[r] IN IF given[r] /\ file[f] # Torn THEN file[f] ELSE <<>>

(* A turn begins: its prompt goes behind what the agent remembers. *)
TurnBegins(r, history) ==
  /\ turns < MaxTurns
  /\ turns' = turns + 1
  /\ memory' = [memory EXCEPT ![r] = Append(history, [turn |-> turns + 1, kind |-> "prompt"])]
  /\ agent' = [agent EXCEPT ![r] = "thinking"]
  /\ given' = [given EXCEPT ![r] = FALSE]
  /\ UNCHANGED <<file, tracked, host, told, crossed, saved, lapses, restarts>>

Start(r) == agent[r] = "started" /\ TurnBegins(r, LoadSession(r))

FollowUp(r) == agent[r] = "polling" /\ TurnBegins(r, memory[r])

(* The prompt of the turn an agent is in. *)
IsLastPrompt(messages, p) ==
  /\ messages[p].kind = "prompt"
  /\ \A i \in (p + 1)..Len(messages) : messages[i].kind # "prompt"

ThisTurn(r) ==
  LET p == CHOOSE p \in 1..Len(memory[r]) : IsLastPrompt(memory[r], p)
  IN  SubSeq(memory[r], p, Len(memory[r]))

Says(r, kind) == [turn |-> memory[r][Len(memory[r])].turn, kind |-> kind]

(* stop_reason tool_use: the calls and their results are two messages. *)
UseTools(r) ==
  /\ agent[r] = "thinking"
  /\ Len(ThisTurn(r)) <= 2 * MaxCalls
  /\ memory' = [memory EXCEPT ![r] = Append(Append(@, Says(r, "call")), Says(r, "results"))]
  /\ UNCHANGED <<file, tracked, host, agent, given, told, crossed, turns, saved, lapses, restarts>>

(* Another agent of the folder that has the file open for writing. *)
Writers(r) == {q \in Runs \ {r} : FolderOf[q] = FolderOf[r] /\ agent[q] = "saving"}

(* Any other stop_reason ends the turn; write_text truncates the file. *)
EndTurn(r) ==
  LET f == FolderOf[r] IN
  /\ agent[r] = "thinking"
  /\ memory' = [memory EXCEPT ![r] = Append(@, Says(r, "reply"))]
  /\ agent' = [agent EXCEPT ![r] = "saving"]
  /\ file' = [file EXCEPT ![f] = Torn]
  /\ crossed' = [q \in Runs |-> crossed[q] \/ q \in Writers(r) \/ (q = r /\ Writers(r) # {})]
  /\ UNCHANGED <<tracked, host, given, told, turns, saved, lapses, restarts>>

(* Variant: one message too few is kept. *)
TrimShort(messages) ==
  IF Len(messages) < Window THEN messages
  ELSE SubSeq(messages, (Len(messages) - Window) + 2, Len(messages))

(* messages[-MAX_HISTORY_MESSAGES:]. *)
Trim(messages) ==
  IF Len(messages) <= Window THEN messages
  ELSE SubSeq(messages, (Len(messages) - Window) + 1, Len(messages))

(* The text is written; two writers may leave anything.  Only the file is  *)
(* trimmed, not what the agent remembers.                                  *)
Write(r) ==
  LET f == FolderOf[r] IN
  /\ agent[r] = "saving"
  /\ agent' = [agent EXCEPT ![r] = "saved"]
  /\ \E content \in {Trim(memory[r])} \cup IF crossed[r] THEN {Torn} ELSE {} :
       file' = [file EXCEPT ![f] = content]
  /\ crossed' = [crossed EXCEPT ![r] = FALSE]
  /\ saved' = [saved EXCEPT ![f] = @ \o ThisTurn(r)]
  /\ UNCHANGED <<tracked, host, given, memory, told, turns, lapses, restarts>>

(* What an agent remembers and has yet to read dies with it. *)
Forgets(dead) ==
  /\ memory' = [r \in Runs |-> IF r \in dead THEN <<>> ELSE memory[r]]
  /\ given' = [r \in Runs |-> given[r] /\ r \notin dead]
  /\ crossed' = [r \in Runs |-> crossed[r] /\ r \notin dead]

(* The blocks of the turn; an orphan dies of its broken pipe. *)
Report(r) ==
  /\ agent[r] = "saved"
  /\ agent' = [agent EXCEPT ![r] = IF host[r] = "lost" THEN "gone" ELSE "polling"]
  /\ told' = [told EXCEPT ![r] = host[r] # "lost"]
  /\ Forgets(IF host[r] = "lost" THEN {r} ELSE {})
  /\ UNCHANGED <<file, tracked, host, turns, saved, lapses, restarts>>

(* The sentinel, or half an hour without a follow-up. *)
Exit(r) ==
  /\ agent[r] = "polling"
  /\ agent' = [agent EXCEPT ![r] = "gone"]
  /\ Forgets({r})
  /\ UNCHANGED <<file, tracked, host, told, turns, saved, lapses, restarts>>

-----------------------------------------------------------------------------
(* The host ends it.                                                       *)

(* output.session_id. *)
HasSessionId(r) == told[r]

(* on_output: save_session, unless the task is isolated. *)
ReadBlock(r) ==
  /\ host[r] = "reading"
  /\ HasSessionId(r)
  /\ told' = [told EXCEPT ![r] = FALSE]
  /\ tracked' = [tracked EXCEPT ![FolderOf[r]] = @ \/ r \notin Isolated]
  /\ UNCHANGED <<file, host, agent, given, memory, crossed, turns, saved, lapses, restarts>>

RunEnds(r) ==
  /\ host[r] \in Reading
  /\ agent[r] = "gone"
  /\ host[r] = "reading" => ~ told[r]
  /\ host' = [host EXCEPT ![r] = "done"]
  /\ told' = [told EXCEPT ![r] = FALSE]
  /\ UNCHANGED <<file, tracked, agent, given, memory, crossed, turns, saved, lapses, restarts>>

(* A history is lost by an agent that dies while it saves, and when the    *)
(* host does not learn of the first save of a folder.                      *)
Costly(r) ==
  \/ agent[r] = "saving"
  \/ ~ tracked[FolderOf[r]] /\ (told[r] \/ agent[r] = "saved")

Lapse(cost) ==
  /\ cost => lapses < MaxLapses
  /\ lapses' = IF cost THEN lapses + 1 ELSE lapses

(* Two seconds without a line: the host stops reading what is told it. *)
GoDeaf(r) ==
  /\ host[r] = "reading"
  /\ Alive(r)
  /\ ~ told[r]
  /\ host' = [host EXCEPT ![r] = "deaf"]
  /\ Lapse(~ tracked[FolderOf[r]])
  /\ UNCHANGED <<file, tracked, agent, given, memory, told, crossed, turns, saved, restarts>>

(* The agent dies, of write_error or of itself, be it over a torn history, *)
(* and the host reads what it has told; or the host kills it, and does not *)
(* read on.                                                                *)
Dies(r) ==
  /\ Alive(r)
  /\ agent' = [agent EXCEPT ![r] = "gone"]
  /\ \/ UNCHANGED <<host, told>>
     \/ /\ host[r] \in Reading
        /\ host' = [host EXCEPT ![r] = "done"]
        /\ told' = [told EXCEPT ![r] = FALSE]
  /\ Lapse(Costly(r))
  /\ Forgets({r})
  /\ UNCHANGED <<file, tracked, turns, saved, restarts>>

(* The host dies and starts again; its agents may survive it. *)
Restart ==
  /\ restarts < MaxRestarts
  /\ restarts' = restarts + 1
  /\ host' = [r \in Runs |-> IF host[r] \in Reading THEN "lost" ELSE host[r]]
  /\ \E dead \in SUBSET {r \in Runs : Alive(r)} :
       /\ agent' = [r \in Runs |-> IF r \in dead THEN "gone" ELSE agent[r]]
       /\ Forgets(dead)
  /\ told' = [r \in Runs |-> FALSE]
  /\ UNCHANGED <<file, tracked, turns, saved, lapses>>

-----------------------------------------------------------------------------

Next ==
  \/ \E r \in Runs :
       \/ Begin(r) \/ Start(r) \/ FollowUp(r) \/ UseTools(r) \/ EndTurn(r) \/ Write(r)
       \/ Report(r) \/ Exit(r) \/ ReadBlock(r) \/ RunEnds(r) \/ GoDeaf(r) \/ Dies(r)
  \/ Restart

Spec == Init /\ [][Next]_vars

-----------------------------------------------------------------------------
(* Properties.                                                             *)

(* A folder in which the runs of one chat have worked. *)
OfOneQueue(f) ==
  \A q, r \in {x \in Runs : FolderOf[x] = f /\ host[x] # "new"} : JidOf[q] = JidOf[r]

(* A folder in which one chat has worked, and no isolated task. *)
OfOneChat(f) ==
  \A q, r \in {x \in Runs : FolderOf[x] = f /\ host[x] # "new"} :
    JidOf[q] = JidOf[r] /\ q \notin Isolated

(* The conversation of a group is kept from run to run and from turn to    *)
(* turn, failed turns left out: whenever no agent is saving, history.json  *)
(* is the latest messages of everything ever saved.  This takes a folder   *)
(* of one chat, no restart, and none of the events that cost a history.    *)
ConversationIsKept ==
  \A f \in Folders :
    (OfOneChat(f) /\ lapses = 0 /\ restarts = 0) =>
      file[f] = Trim(saved[f]) \/ \E r \in Runs : FolderOf[r] = f /\ agent[r] = "saving"

Role(m) == IF m.kind \in {"prompt", "results"} THEN "user" ELSE "assistant"

Alternates(messages) ==
  \A i \in 1..Len(messages) : Role(messages[i]) = IF i % 2 = 1 THEN "user" ELSE "assistant"

(* What is sent to the language model begins with the user, alternates,    *)
(* and ends with the user, and every history that can be loaded ends with  *)
(* the assistant: whoever overwrote it, however much was trimmed and       *)
(* wherever an agent died.                                                 *)
HistoryAlternates ==
  /\ \A f \in Folders : file[f] # Torn => Alternates(file[f]) /\ Len(file[f]) % 2 = 0
  /\ \A r \in Runs : agent[r] = "thinking" => Alternates(memory[r]) /\ Len(memory[r]) % 2 = 1

(* A history may lose its beginning and never its middle: as long as the   *)
(* host lives and one chat works in the folder, history.json holds the     *)
(* latest messages of the conversation from some point on, also after an   *)
(* agent was killed while it saved, after a session id that was never      *)
(* read, and after an isolated task wrote over it.                         *)
HistoryHasNoHoles ==
  \A f \in Folders :
    (OfOneQueue(f) /\ restarts = 0 /\ file[f] # Torn) =>
      \E p \in 1..(Len(saved[f]) + 1) : file[f] = Trim(SubSeq(saved[f], p, Len(saved[f])))

(* A row in sessions means that a turn has been saved in the folder and    *)
(* its history.json exists, even where a host or an agent died in between. *)
SessionRowMeansHistory ==
  \A f \in Folders : tracked[f] => file[f] # <<>> /\ saved[f] # <<>>

(* save_session "always preserve pairs (user+assistant)": the results of   *)
(* tools stand behind the call they answer.                                *)
PairsArePreserved ==
  \A f \in Folders : file[f] # Torn =>
    \A i \in 1..Len(file[f]) :
      file[f][i].kind = "results" => i > 1 /\ file[f][i - 1].kind = "call"
=============================================================================
