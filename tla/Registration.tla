----------------------------- MODULE Registration -----------------------------
(***************************************************************************)
(* How groups come to be registered: the agent's tool register_group, the  *)
(* task files the IPC watcher reads, control_plane.handle_ipc_task, the    *)
(* table registered_groups, and _ensure_main_bootstrap, which gives the    *)
(* main group its row at every start.                                      *)
(*                                                                         *)
(* The handler and the bootstrap never suspend, so no other coroutine sees *)
(* them half done, but every write is a transaction of its own and the     *)
(* host may die between two of them: each is a step.  A task file is       *)
(* unlinked when its handler has returned or raised; one that could not be *)
(* is passed over, and handled again after the listing is done.            *)
(*                                                                         *)
(* The files of a directory are handled in the order of their names, which *)
(* begin with the millisecond of their writing; one agent writes to a      *)
(* directory, so the order is that of its calls.                           *)
(***************************************************************************)
EXTENDS Naturals, Sequences, FiniteSets, SequencesExt

CONSTANTS
  Folders, Jids,
  Main,         \* DEFAULT_MAIN_FOLDER
  WebJid,       \* DEFAULT_MAIN_JID, the chat of the web channel
  Requests,     \* the calls of register_group
  Source,       \* the folder of the calling agent: the directory of its file
  Folder, Jid,  \* the folder and the JID it asks for
  Acceptable,   \* complete payload, valid folder that is not reserved
  MaxFaults,    \* bound on the errors of the database and of the file system
  MaxCrashes,   \* bound on the deaths of the host
  NoRow, None

ASSUME RegistrationAssumption ==
  /\ Main \in Folders /\ WebJid \in Jids
  /\ Source \in [Requests -> Folders]
  /\ Folder \in [Requests -> Folders] /\ Jid \in [Requests -> Jids]
  /\ Acceptable \subseteq Requests
  /\ MaxFaults \in Nat /\ MaxCrashes \in Nat
  /\ None \notin Requests
  /\ NoRow \notin [jid : Jids, main : BOOLEAN]

VARIABLES
  group,    \* registered_groups by folder
  chats,    \* the JIDs in chats
  dirs,     \* the folders _ensure_group_dirs has made
  temp,     \* requests whose hidden temporary file is being written
  tasks,    \* the task files of a folder by name
  host,     \* how far the host has started
  task,     \* the request handle_ipc_task works on
  step,     \* what it does next
  passed,   \* the files before it that could not be unlinked in this pass
  rest,     \* the files of the listing behind it
  by,       \* the request that wrote the row of a folder last
  faults, crashes

tables == <<group, chats, by>>
pass == <<passed, rest>>
handler == <<task, step, pass>>
files == <<temp, tasks>>
bounds == <<faults, crashes>>
vars == <<tables, dirs, files, host, handler, bounds>>

Row == [jid : Jids, main : BOOLEAN]

Up == host \in {"up", "connected"}

TypeOK ==
  /\ group \in [Folders -> Row \cup {NoRow}]
  /\ chats \subseteq Jids /\ dirs \subseteq Folders
  /\ temp \subseteq Requests /\ tasks \in [Folders -> Seq(Requests)]
  /\ host \in {"down", "found", "inserted", "dirs", "up", "connected", "failed"}
  /\ task \in Requests \cup {None}
  /\ step \in {"auth", "chat", "row", "dirs", "unlink"}
  /\ passed \in Nat /\ rest \in Nat
  /\ by \in [Folders -> Requests \cup {None}]
  /\ faults \in 0..MaxFaults /\ crashes \in 0..MaxCrashes

Init ==
  /\ group = [f \in Folders |-> NoRow]
  /\ chats = {}
  /\ dirs = {}
  /\ temp = {}
  /\ tasks = [f \in Folders |-> <<>>]
  /\ host = "down"
  /\ task = None
  /\ step = "auth"
  /\ passed = 0
  /\ rest = 0
  /\ by = [f \in Folders |-> None]
  /\ faults = 0
  /\ crashes = 0

-----------------------------------------------------------------------------
(* The table: folder is its primary key, jid is unique.                    *)

(* Variant: a table without the unique index. *)
NoConflict(f, j) == TRUE

(* The upsert of a row for f does not meet j in the row of another folder. *)
MayUpsert(f, j) ==
  \A g \in Folders \ {f} : group[g] # NoRow => group[g].jid # j

Upsert(f, j, main, who) ==
  /\ group' = [group EXCEPT ![f] = [jid |-> j, main |-> main]]
  /\ by' = [by EXCEPT ![f] = who]

-----------------------------------------------------------------------------
(* _ensure_main_bootstrap, and the web channel.                            *)

Registered == {f \in Folders : group[f] # NoRow}

Mains == {f \in Registered : group[f].main}

(* A row of the default folder keeps its JID when it is promoted. *)
BootJid == IF Main \in Registered THEN group[Main].jid ELSE WebJid

(* Variant: the row is inserted, and meets that of a demoted main group. *)
BootMayInsert == Main \notin Registered /\ MayUpsert(Main, BootJid)

BootMayUpsert == MayUpsert(Main, BootJid)

(* There is a main group. *)
BootFinds ==
  /\ host = "down"
  /\ Mains # {}
  /\ host' = "found"
  /\ UNCHANGED <<tables, dirs, files, handler, bounds>>

(* There is none; if the upsert fails, main() ends with the exception. *)
BootInserts ==
  /\ host = "down"
  /\ Mains = {}
  /\ IF BootMayUpsert
     THEN Upsert(Main, BootJid, TRUE, None) /\ host' = "inserted"
     ELSE UNCHANGED <<group, by>> /\ host' = "failed"
  /\ UNCHANGED <<chats, dirs, files, handler, bounds>>

(* Variant: a main group that exists is left as it is. *)
EnsuredIfInserted(f) == IF host = "inserted" THEN {f} ELSE {}

Ensured(f) == {f}

(* _ensure_group_dirs for the main group that was found or inserted. *)
BootDirs ==
  /\ host \in {"found", "inserted"}
  /\ \E f \in Mains : dirs' = dirs \cup Ensured(f)
  /\ host' = IF host = "found" THEN "up" ELSE "dirs"
  /\ UNCHANGED <<tables, files, handler, bounds>>

(* store_chat_metadata for a main group that was inserted. *)
BootChat ==
  /\ host = "dirs"
  /\ \E f \in Mains : chats' = chats \cup {group[f].jid}
  /\ host' = "up"
  /\ UNCHANGED <<group, by, dirs, files, handler, bounds>>

(* Variant: connect leaves the chat to the bootstrap. *)
AnnouncedNone == {}

Announced == {WebJid}

(* LocalWebChannel.connect stores its chat, while the watcher works. *)
Connect ==
  /\ host = "up"
  /\ chats' = chats \cup Announced
  /\ host' = "connected"
  /\ UNCHANGED <<group, by, dirs, files, handler, bounds>>

-----------------------------------------------------------------------------
(* register_group in the agent: a temporary file, renamed when it is whole. *)

Elements(s) == {s[i] : i \in 1..Len(s)}

Written == temp \cup UNION {Elements(tasks[f]) : f \in Folders}

WriteHidden(q) == UNCHANGED tasks

(* An agent works for a registered group, and may call again with the same *)
(* arguments once its call has been handled.                               *)
WriteTemp(q) ==
  /\ q \notin Written
  /\ Source[q] \in Registered
  /\ temp' = temp \cup {q}
  /\ WriteHidden(q)
  /\ UNCHANGED <<tables, dirs, host, handler, bounds>>

(* The rename replaces a file of the same name. *)
Rename(q) ==
  /\ q \in temp
  /\ temp' = temp \ {q}
  /\ tasks' = [tasks EXCEPT ![Source[q]] = IF q \in Elements(@) THEN @ ELSE Append(@, q)]
  /\ UNCHANGED <<tables, dirs, host, handler, bounds>>

-----------------------------------------------------------------------------
(* handle_ipc_task.                                                        *)

(* _poll_directory lists a directory and takes its first file. *)
Take(f) ==
  /\ Up
  /\ task = None
  /\ tasks[f] # <<>>
  /\ task' = Head(tasks[f])
  /\ step' = "auth"
  /\ passed' = 0
  /\ rest' = Len(tasks[f]) - 1
  /\ UNCHANGED <<tables, dirs, files, host, bounds>>

At(s) == task # None /\ step = s

Goes(s) == step' = s /\ UNCHANGED <<task, pass>>

(* Variant: any registered group may register others. *)
AuthorizedMember == Source[task] \in Registered

(* source is not None and source.is_main. *)
Authorized == Source[task] \in Mains

Check ==
  /\ At("auth")
  /\ Goes(IF Authorized /\ task \in Acceptable THEN "chat" ELSE "unlink")
  /\ UNCHANGED <<tables, dirs, files, host, bounds>>

StoreChat ==
  /\ At("chat")
  /\ chats' = chats \cup {Jid[task]}
  /\ Goes("row")
  /\ UNCHANGED <<group, by, dirs, files, host, bounds>>

(* The upsert raises if another folder has the JID. *)
StoreRow ==
  /\ At("row")
  /\ IF MayUpsert(Folder[task], Jid[task])
     THEN Upsert(Folder[task], Jid[task], FALSE, task) /\ Goes("dirs")
     ELSE UNCHANGED <<group, by>> /\ Goes("unlink")
  /\ UNCHANGED <<chats, dirs, files, host, bounds>>

MakeDirs ==
  /\ At("dirs")
  /\ dirs' = dirs \cup {Folder[task]}
  /\ Goes("unlink")
  /\ UNCHANGED <<tables, files, host, bounds>>

(* The database or the file system fails under the handler. *)
Raises ==
  /\ faults < MaxFaults
  /\ task # None /\ step \in {"auth", "chat", "row", "dirs"}
  /\ faults' = faults + 1
  /\ Goes("unlink")
  /\ UNCHANGED <<tables, dirs, files, host, crashes>>

(* Variant: a file whose handler stored nothing is kept for another try. *)
RemainingIfStored ==
  [tasks EXCEPT ![Source[task]] =
    IF by[Folder[task]] = task THEN RemoveAt(@, passed + 1) ELSE @]

(* The files without the one that was handled. *)
Remaining == [tasks EXCEPT ![Source[task]] = RemoveAt(@, passed + 1)]

(* The next file of the listing is taken, behind those that are left. *)
Proceed(left) ==
  /\ step' = "auth"
  /\ \/ /\ rest = 0
        /\ task' = None
        /\ passed' = 0
        /\ UNCHANGED rest
     \/ /\ rest > 0
        /\ task' = tasks'[Source[task]][left + 1]
        /\ passed' = left
        /\ rest' = rest - 1

(* The finally clause of _poll_directory, which suppresses an OSError. *)
Unlink ==
  /\ At("unlink")
  /\ \/ tasks' = Remaining /\ Proceed(passed) /\ UNCHANGED faults
     \/ /\ faults < MaxFaults
        /\ faults' = faults + 1
        /\ UNCHANGED tasks
        /\ Proceed(passed + 1)
  /\ UNCHANGED <<tables, dirs, temp, host, crashes>>

(* The host dies, and with it what it was about to do. *)
Crash ==
  /\ crashes < MaxCrashes
  /\ crashes' = crashes + 1
  /\ host # "failed"
  /\ host' = "down"
  /\ task' = None
  /\ step' = "auth"
  /\ passed' = 0
  /\ rest' = 0
  /\ UNCHANGED <<tables, dirs, files, faults>>

-----------------------------------------------------------------------------

Boot == BootFinds \/ BootInserts \/ BootDirs \/ BootChat

Handle == Check \/ StoreChat \/ StoreRow \/ MakeDirs \/ Raises \/ Unlink

Next ==
  \/ Boot \/ Connect \/ Handle \/ Crash
  \/ \E f \in Folders : Take(f)
  \/ \E q \in Requests : WriteTemp(q) \/ Rename(q)

Spec == Init /\ [][Next]_vars

(* A host that is started gets up, the watcher comes round to every        *)
(* directory and the handler goes on.  Agents need not write, nor finish   *)
(* what they write.                                                        *)
Fairness ==
  /\ WF_vars(Boot) /\ WF_vars(Handle)
  /\ \A f \in Folders : SF_vars(Take(f))

FairSpec == Spec /\ Fairness

-----------------------------------------------------------------------------
(* Properties.                                                             *)

(* A JID names at most one group, so that a message has one group to go to. *)
JidIdentifiesGroup ==
  \A f, g \in Registered : group[f].jid = group[g].jid => f = g

(* "Only host-authorized main groups can complete this request": only the  *)
(* default folder is ever main, and every other row was written for an     *)
(* agent of the main group, whatever a registered group registers.         *)
AuthorityDoesNotSpread ==
  /\ Mains \subseteq {Main}
  /\ \A f \in Registered : by[f] # None => Source[by[f]] = Main
  /\ \A f \in Registered \ {Main} : by[f] # None

(* The bootstrap never runs into the unique index: the main group may have *)
(* moved to another JID and another group may have its old one, and it may *)
(* have lost is_main to a request for its own folder.                      *)
BootNeverFails == host # "failed"

(* A registered group has its directories, once the host is up, unless the *)
(* request that wrote its row comes first among the files of the main      *)
(* group's agents and is not going to be refused: its handler is at work,  *)
(* or a crash cut it off and it will be handled again.  Provided that no   *)
(* handler was cut off by an error, and every file could be unlinked: an   *)
(* older request that is handled again may demote the main group while the *)
(* directories of a later one are still due.                               *)
GroupsHaveDirs ==
  Up /\ faults = 0 =>
    \A f \in Registered \ dirs :
      /\ tasks[Main] # <<>>
      /\ Head(tasks[Main]) = by[f]
      /\ Main \in Mains \/ task = by[f]

(* A registered group has a row in chats, once the web channel is          *)
(* connected: for a bootstrap cut off before its last step the channel     *)
(* makes up.                                                               *)
GroupsHaveChats ==
  host = "connected" => \A f \in Registered : group[f].jid \in chats

(* A file is handled only when the agent has written all of it. *)
HandledRequestsAreWhole == task # None => task \notin temp

(* Every request that is written is handled and its file removed, whether  *)
(* it is refused, fails or meets a crash.                                  *)
RequestsAreAnswered ==
  \A q \in Requests : \A f \in Folders :
    (q \in Elements(tasks[f])) ~> (q \notin Elements(tasks[f]))
=============================================================================
