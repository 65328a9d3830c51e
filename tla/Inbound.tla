------------------------------- MODULE Inbound -------------------------------
(***************************************************************************)
(* The way of an inbound message: secnano/ipc.py takes files from a        *)
(* directory that bridges fill, secnano/ingress.py stores what they say in *)
(* the tables chats and messages and hands a run to the group queue, and   *)
(* the run builds its prompt from the latest rows of its chat.             *)
(*                                                                         *)
(* The watcher, the handlers and the queue share one asyncio loop.  From   *)
(* the listing of the directory to the unlinking of its last file nothing  *)
(* suspends, so no run begins in between; the process may die anywhere,    *)
(* and a file that could not be unlinked is handled again.                 *)
(* The group queue is what SerialQueue says of it.                         *)
(*                                                                         *)
(* Inputs are numbered in the order in which their file names sort.        *)
(***************************************************************************)
EXTENDS Naturals, Sequences, FiniteSets, Functions

CONSTANTS
  Inputs,      \* message files, and the messages of the web channel
  Web,         \* the inputs that come over the web channel, without a file
  Kind,        \* message, metadata, or malformed when it is no JSON object
  IdOf,        \* the id of a message
  JidOf,       \* chat_jid
  TimeOf,      \* timestamp
  Permitted,   \* neither from a bot nor from oneself nor from a barred sender
  Triggering,  \* those whose content matches the trigger of their group
  Jids,        \* chats
  Registered,  \* the chats of registered groups
  Times,       \* timestamps; 0 is before all of them
  Limit,       \* rows of a chat that get_messages returns (50)
  MaxFaults,   \* bound on errors of the database and failures to unlink
  MaxRestarts, \* bound on the restarts of the host
  None

ASSUME InputsAssumption ==
  /\ Inputs \subseteq Nat /\ Web \subseteq Inputs
  /\ Kind \in [Inputs -> {"message", "metadata", "malformed"}]
  /\ DOMAIN IdOf = Inputs
  /\ JidOf \in [Inputs -> Jids] /\ Registered \subseteq Jids
  /\ Times \subseteq Nat \ {0} /\ TimeOf \in [Inputs -> Times]
  /\ Permitted \subseteq Inputs /\ Triggering \subseteq Inputs
  /\ Limit \in Nat \ {0} /\ MaxFaults \in Nat /\ MaxRestarts \in Nat
  /\ None \notin Inputs

(* Two messages with one id are one message, delivered twice. *)
ASSUME RedeliveryAssumption ==
  \A f, g \in Inputs :
    Kind[f] = "message" /\ Kind[g] = "message" /\ IdOf[f] = IdOf[g] =>
      JidOf[f] = JidOf[g] /\ TimeOf[f] = TimeOf[g]

(* The id of a reply is a new uuid4, and no message comes with it. *)
ASSUME FreshIdAssumption ==
  \A f, g \in Inputs : IdOf[f] # <<"reply", g>>

VARIABLES
  status,     \* new, on disk, or gone (unlinked, or taken from the web)
  listing,    \* the rest of the listing that _poll_directory goes through
  handled,    \* whether the handler of its first file has returned
  kept,       \* how often unlinking the file of an input has failed
  rows,       \* the table messages
  lastTime,   \* chats.last_message_time, 0 if the chat has no row
  queue,      \* the runs that wait, by the input that caused them
  executing,  \* the run of a group that has begun
  prompt,     \* the rows that run has been given
  begun,      \* how many runs an input has caused that have begun
  faults,     \* database errors so far
  restarts    \* restarts so far

disk == <<status, listing, handled, kept>>
database == <<rows, lastTime>>
runs == <<queue, executing, prompt, begun>>
vars == <<disk, database, runs, faults, restarts>>

Row(f) == [id |-> IdOf[f], jid |-> JidOf[f], time |-> TimeOf[f]]

(* A reply is stored under a fresh id, with the time of the clock. *)
ReplyRow(f, t) == [id |-> <<"reply", f>>, jid |-> JidOf[f], time |-> t]

Rows == {Row(f) : f \in Inputs} \cup {ReplyRow(f, t) : f \in Inputs, t \in Times}

TypeOK ==
  /\ status \in [Inputs -> {"new", "file", "gone"}]
  /\ listing \in SUBSET Inputs /\ handled \in BOOLEAN
  /\ kept \in [Inputs -> Nat]
  /\ rows \subseteq Rows
  /\ lastTime \in [Jids -> Times \cup {0}]
  /\ queue \in [Jids -> Seq(Inputs)]
  /\ executing \in [Jids -> Inputs \cup {None}]
  /\ prompt \in [Jids -> SUBSET rows]
  /\ begun \in [Inputs -> Nat]
  /\ faults \in Nat /\ restarts \in 0..MaxRestarts

Init ==
  /\ status = [f \in Inputs |-> "new"]
  /\ listing = {}
  /\ handled = FALSE
  /\ kept = [f \in Inputs |-> 0]
  /\ rows = {}
  /\ lastTime = [j \in Jids |-> 0]
  /\ queue = [j \in Jids |-> <<>>]
  /\ executing = [j \in Jids |-> None]
  /\ prompt = [j \in Jids |-> {}]
  /\ begun = [f \in Inputs |-> 0]
  /\ faults = 0
  /\ restarts = 0

MayFail == faults + SumFunction(kept) < MaxFaults

-----------------------------------------------------------------------------
(* What the handlers do.                                                   *)

(* store_chat_metadata: the later of the two times. *)
StoreTime(f) ==
  lastTime' = [lastTime EXCEPT ![JidOf[f]] = IF @ > TimeOf[f] THEN @ ELSE TimeOf[f]]

(* insert_message: INSERT OR IGNORE. *)
InsertMessage(f) ==
  rows' = IF \E r \in rows : r.id = IdOf[f] THEN rows ELSE rows \cup {Row(f)}

CausesRun(f) == JidOf[f] \in Registered /\ f \in Triggering

(* Variant: the run is known by the id of its message. *)
EnqueueId(f) == queue' = [queue EXCEPT ![JidOf[f]] = Append(@, IdOf[f])]

(* A run joins the queue of the group with the chat's JID. *)
EnqueueRun(f) == queue' = [queue EXCEPT ![JidOf[f]] = Append(@, f)]

(* handle_new_message, and handle_chat_metadata for a file of that type;   *)
(* the handler of a malformed file raises before either.                   *)
Handle(f) ==
  CASE Kind[f] = "metadata" -> StoreTime(f) /\ UNCHANGED <<rows, queue>>
    [] Kind[f] = "message" /\ f \in Permitted ->
         /\ StoreTime(f)
         /\ InsertMessage(f)
         /\ IF CausesRun(f) THEN EnqueueRun(f) ELSE UNCHANGED queue
    [] OTHER -> UNCHANGED <<rows, lastTime, queue>>

(* The database fails on a trace event, on the chat, on the message, or on *)
(* the look-up of the group: what was done before stays done.              *)
HandleFails(f) ==
  /\ MayFail
  /\ faults' = faults + 1
  /\ UNCHANGED queue
  /\ \/ UNCHANGED <<rows, lastTime>>
     \/ /\ Kind[f] = "message" /\ f \in Permitted
        /\ StoreTime(f)
        /\ UNCHANGED rows \/ InsertMessage(f)

Handles(f) ==
  \/ Handle(f) /\ UNCHANGED faults
  \/ HandleFails(f)

-----------------------------------------------------------------------------
(* The watcher.                                                            *)

(* Variant: a handler that suspends, say to talk to a database server. *)
LoopIsAlwaysFree == TRUE

(* No other coroutine runs while the watcher works through a listing. *)
LoopIsFree == listing = {}

(* A bridge puts a file into the directory. *)
Write(f) ==
  /\ f \notin Web
  /\ status[f] = "new"
  /\ status' = [status EXCEPT ![f] = "file"]
  /\ UNCHANGED <<listing, handled, kept, database, runs, faults, restarts>>

(* The watcher wakes up and lists the files of the directory. *)
ListFiles ==
  /\ listing = {}
  /\ listing' = {f \in Inputs : status[f] = "file"}
  /\ listing' # {}
  /\ handled' = FALSE
  /\ UNCHANGED <<status, kept, database, runs, faults, restarts>>

(* The files are taken in the order of their names. *)
IsNext(f) == f \in listing /\ \A g \in listing : f <= g

(* The handler of the next file returns or raises. *)
HandleFile ==
  /\ ~ handled
  /\ handled' = TRUE
  /\ \E f \in Inputs : IsNext(f) /\ Handles(f)
  /\ UNCHANGED <<status, listing, kept, executing, prompt, begun, restarts>>

(* Variant: the file is removed first, so that it cannot be taken twice. *)
UnlinkFileFirst ==
  /\ \E f \in Inputs :
       /\ IsNext(f)
       /\ IF handled THEN UNCHANGED status ELSE status' = [status EXCEPT ![f] = "gone"]
       /\ listing' = IF handled THEN listing \ {f} ELSE listing
       /\ handled \/ status[f] = "file"
  /\ handled' = FALSE
  /\ UNCHANGED <<kept, database, runs, faults, restarts>>

(* Variant: no finally clause, a file whose handler raised stays. *)
UnlinkFileOnSuccess ==
  /\ handled
  /\ handled' = FALSE
  /\ \E f \in Inputs :
       /\ IsNext(f)
       /\ status' = IF Kind[f] = "malformed" THEN status ELSE [status EXCEPT ![f] = "gone"]
       /\ listing' = listing \ {f}
  /\ UNCHANGED <<kept, database, runs, faults, restarts>>

(* unlink raises an OSError, which is suppressed: the file stays where it  *)
(* is, and the next listing has it again.                                  *)
UnlinkFails(f) ==
  /\ MayFail
  /\ kept' = [kept EXCEPT ![f] = @ + 1]
  /\ UNCHANGED status

(* finally: the file is unlinked, whatever became of its message. *)
UnlinkFile ==
  /\ handled
  /\ handled' = FALSE
  /\ \E f \in Inputs :
       /\ IsNext(f)
       /\ \/ status' = [status EXCEPT ![f] = "gone"] /\ UNCHANGED kept
          \/ UnlinkFails(f)
       /\ listing' = listing \ {f}
  /\ UNCHANGED <<database, runs, faults, restarts>>

(* The web channel's thread has scheduled handle_new_message on the loop. *)
WebMessage(f) ==
  /\ f \in Web
  /\ status[f] = "new"
  /\ LoopIsFree
  /\ status' = [status EXCEPT ![f] = "gone"]
  /\ Handles(f)
  /\ UNCHANGED <<listing, handled, kept, executing, prompt, begun, restarts>>

-----------------------------------------------------------------------------
(* The runs.                                                               *)

ChatRows(j) == {r \in rows : r.jid = j}

(* Variant: ORDER BY timestamp without DESC. *)
OldestRows(j) ==
  {w \in SUBSET ChatRows(j) :
    /\ Cardinality(w) <= Limit
    /\ w # ChatRows(j) => Cardinality(w) = Limit
    /\ \A r \in w, s \in ChatRows(j) \ w : r.time <= s.time}

(* get_messages: the latest rows, ties broken in any way. *)
RecentRows(j) ==
  {w \in SUBSET ChatRows(j) :
    /\ Cardinality(w) <= Limit
    /\ w # ChatRows(j) => Cardinality(w) = Limit
    /\ \A r \in w, s \in ChatRows(j) \ w : r.time >= s.time}

(* The next run of a group begins and builds its prompt. *)
BeginRun(j) ==
  /\ LoopIsFree
  /\ queue[j] # <<>>
  /\ executing[j] = None
  /\ executing' = [executing EXCEPT ![j] = Head(queue[j])]
  /\ queue' = [queue EXCEPT ![j] = Tail(@)]
  /\ begun' = [begun EXCEPT ![Head(queue[j])] = @ + 1]
  /\ \E w \in RecentRows(j) : prompt' = [prompt EXCEPT ![j] = w]
  /\ UNCHANGED <<disk, database, faults, restarts>>

(* It ends, with a reply that was sent and stored or without one. *)
EndRun(j) ==
  LET f == executing[j] IN
  /\ LoopIsFree
  /\ f # None
  /\ executing' = [executing EXCEPT ![j] = None]
  /\ prompt' = [prompt EXCEPT ![j] = {}]
  /\ \/ UNCHANGED rows
     \/ \E t \in Times : rows' = rows \cup {ReplyRow(f, t)}
  /\ UNCHANGED <<disk, lastTime, queue, begun, faults, restarts>>

(* The host dies and is started again: files and tables survive. *)
Restart ==
  /\ restarts < MaxRestarts
  /\ restarts' = restarts + 1
  /\ listing' = {}
  /\ handled' = FALSE
  /\ queue' = [j \in Jids |-> <<>>]
  /\ executing' = [j \in Jids |-> None]
  /\ prompt' = [j \in Jids |-> {}]
  /\ UNCHANGED <<status, kept, database, begun, faults>>

-----------------------------------------------------------------------------

Next ==
  \/ ListFiles \/ HandleFile \/ UnlinkFile \/ Restart
  \/ \E f \in Inputs : Write(f) \/ WebMessage(f)
  \/ \E j \in Jids : BeginRun(j) \/ EndRun(j)

Spec == Init /\ [][Next]_vars

(* The watcher polls every second, the queue begins what waits, and        *)
(* SUBPROCESS_TIMEOUT bounds a run.  Nobody has to send anything.          *)
Fairness ==
  /\ WF_vars(ListFiles) /\ WF_vars(HandleFile) /\ WF_vars(UnlinkFile)
  /\ \A j \in Jids : WF_vars(BeginRun(j)) /\ WF_vars(EndRun(j))

FairSpec == Spec /\ Fairness

-----------------------------------------------------------------------------
(* Properties.                                                             *)

StoredMessage(f) == \E r \in rows : r.id = IdOf[f]

(* A file leaves the directory only after its message is in the database,  *)
(* wherever the host died in between: no crash loses a message that was    *)
(* delivered.  An error of the database does lose it.                      *)
NoFileIsLost ==
  faults = 0 =>
    \A f \in Inputs :
      status[f] = "gone" /\ Kind[f] = "message" /\ f \in Permitted => StoredMessage(f)

(* A file that was handled and, because the host died before it was        *)
(* unlinked, is handled again causes no second run: the first one cannot   *)
(* have begun, since the loop was not free between the two steps.  Only a  *)
(* file that could not be unlinked does, one for every time: the run of    *)
(* the first handling may begin before the file is listed again.           *)
OneRunPerUnlink ==
  \A f \in Inputs : begun[f] <= kept[f] + (IF status[f] = "gone" THEN 1 ELSE 0)

(* A run sees the message that caused it, unless so many rows of its chat  *)
(* are as late that the window is full without it: a message delivered     *)
(* behind later ones may fall out of it.                                   *)
RunSeesItsMessage ==
  [][\A f \in Inputs : begun'[f] > begun[f] =>
       \/ \E r \in prompt'[JidOf[f]] : r.id = IdOf[f]
       \/ Cardinality({r \in ChatRows(JidOf[f]) : r.id # IdOf[f] /\ r.time >= TimeOf[f]})
            >= Limit]_vars

Waits(f) == \E i \in 1..Len(queue[JidOf[f]]) : queue[JidOf[f]][i] = f

Pending(f) == status[f] = "file" \/ Waits(f) \/ executing[JidOf[f]] = f

(* Once the host does not die any more, every file is taken, every run     *)
(* begins, and it ends, if the file can be unlinked in the end.            *)
AcceptedWorkIsDone ==
  \A f \in Inputs :
    (restarts = MaxRestarts /\ Pending(f)) ~> ~ Pending(f)
=============================================================================
