----------------------------- MODULE WebChannel -----------------------------
(***************************************************************************)
(* The local web channel of secnano/channels/web.py: a list of messages    *)
(* that three parties share, the threads of the HTTP server, the event     *)
(* loop of the host, and connect, which fills the list with the history of *)
(* the chat; and the page, which polls the list every second whether or    *)
(* not its last poll has been answered.                                    *)
(*                                                                         *)
(* Every access to the list takes _messages_lock and is a step.  The loop  *)
(* is busy, and runs no callback, from the look at the list to the end of  *)
(* the history, and from the sending of a reply to its being stored.       *)
(***************************************************************************)
EXTENDS Naturals, Sequences, FiniteSets

CONSTANTS
  Posts,        \* messages that are typed into the page
  Replies,      \* replies of agents
  History,      \* the rows of the chat before the first start
  HistoryLimit, \* rows that history_loader returns at most (100)
  Polls,        \* the polls that may be under way at once
  MaxRestarts   \* bound on the restarts of the host

Rows == {History[i] : i \in 1..Len(History)}

ASSUME WebAssumption ==
  /\ Posts \cap Replies = {}
  /\ History \in Seq(Rows) /\ Rows \cap (Posts \cup Replies) = {}
  /\ HistoryLimit \in Nat \ {0} /\ MaxRestarts \in Nat

VARIABLES
  phase,      \* how far connect has come
  messages,   \* _messages: what is said, its id, and whether it is history
  nextId,     \* _next_message_id
  toSeed,     \* the rows of the history still to be appended
  post,       \* new, listed, scheduled, received by the host, or lost
  callbacks,  \* the coroutines that wait to be run by the loop
  stored,     \* the rows of the chat in the database
  reply,      \* new, listed, stored, or lost
  since,      \* the since of the page
  shown,      \* the ids the page has rendered
  garbled,    \* it has rendered one again, or behind a later one
  polls,      \* what has become of a poll
  overlapped, \* two of its polls have been under way at once
  loadedIn,   \* the life of the host in which the page was loaded
  restarts    \* restarts of the host so far

list == <<messages, nextId>>
server == <<phase, list, toSeed>>
host == <<callbacks, stored>>
sources == <<post, reply>>
page == <<since, shown, garbled, polls, overlapped, loadedIn>>
vars == <<server, host, sources, page, restarts>>

Idle == [at |-> "idle", since |-> 0, ids |-> {}, next |-> 0]

Said == Posts \cup Replies \cup Rows

Message == [what : Said, id : Nat, old : BOOLEAN]

Poll == [at : {"idle", "sent", "answered"}, since : Nat, ids : SUBSET Nat, next : Nat]

TypeOK ==
  /\ phase \in {"off", "serving", "loading", "seeding", "connected", "failed"}
  /\ messages \in Seq(Message)
  /\ \A i \in 1..Len(messages) : messages[i].id = i
  /\ nextId = Len(messages)
  /\ toSeed \in Seq(Said)
  /\ post \in [Posts -> {"new", "listed", "scheduled", "received", "lost"}]
  /\ callbacks \in Seq(Posts) /\ stored \in Seq(Said)
  /\ reply \in [Replies -> {"new", "listed", "stored", "lost"}]
  /\ since \in Nat /\ shown \subseteq Nat /\ garbled \in BOOLEAN
  /\ polls \in [Polls -> Poll]
  /\ overlapped \in BOOLEAN
  /\ loadedIn \in 0..MaxRestarts /\ restarts \in 0..MaxRestarts

Init ==
  /\ phase = "off"
  /\ messages = <<>>
  /\ nextId = 0
  /\ toSeed = <<>>
  /\ post = [p \in Posts |-> "new"]
  /\ callbacks = <<>>
  /\ stored = History
  /\ reply = [r \in Replies |-> "new"]
  /\ since = 0
  /\ shown = {}
  /\ garbled = FALSE
  /\ polls = [p \in Polls |-> Idle]
  /\ overlapped = FALSE
  /\ loadedIn = 0
  /\ restarts = 0

-----------------------------------------------------------------------------
(* The list.                                                               *)

(* Variant: the id is the length before, and the counter is set to it. *)
AppendMessageAtLength(what, old) ==
  /\ nextId' = Len(messages)
  /\ messages' = Append(messages, [what |-> what, id |-> nextId', old |-> old])

(* _append_message. *)
AppendMessage(what, old) ==
  /\ nextId' = nextId + 1
  /\ messages' = Append(messages, [what |-> what, id |-> nextId', old |-> old])

(* The loop is not inside _seed_history or between a reply and its row. *)
LoopIsFree ==
  /\ phase \notin {"loading", "seeding"}
  /\ \A r \in Replies : reply[r] # "listed"

ServerIsUp == phase \notin {"off", "failed"}

-----------------------------------------------------------------------------
(* connect.                                                                *)

(* The thread binds the port, or cannot; from now on requests are served,  *)
(* while connect is suspended until the loop resumes it.                   *)
StartServer ==
  /\ phase = "off"
  /\ phase' \in {"serving", "failed"}
  /\ UNCHANGED <<list, toSeed, host, sources, page, restarts>>

(* _seed_history looks whether anything is in the list already. *)
SeedCheck ==
  /\ phase = "serving"
  /\ LoopIsFree
  /\ phase' = IF messages = <<>> THEN "loading" ELSE "connected"
  /\ UNCHANGED <<list, toSeed, host, sources, page, restarts>>

Latest(rows) ==
  IF Len(rows) <= HistoryLimit THEN rows
  ELSE SubSeq(rows, Len(rows) - HistoryLimit + 1, Len(rows))

(* history_loader, which may raise: then there is no history. *)
SeedLoad ==
  /\ phase = "loading"
  /\ \/ phase' = "seeding" /\ toSeed' = Latest(stored)
     \/ phase' = "connected" /\ UNCHANGED toSeed
  /\ UNCHANGED <<list, host, sources, page, restarts>>

(* Variant: the loop gives way to whoever has written in the meantime. *)
SeedAppendIfAlone ==
  /\ phase = "seeding"
  /\ IF toSeed = <<>> \/ \E i \in 1..Len(messages) : ~ messages[i].old
     THEN phase' = "connected" /\ toSeed' = <<>> /\ UNCHANGED list
     ELSE /\ AppendMessage(Head(toSeed), TRUE)
          /\ toSeed' = Tail(toSeed)
          /\ UNCHANGED phase
  /\ UNCHANGED <<host, sources, page, restarts>>

(* One row is appended; after the last one connect returns. *)
SeedAppend ==
  /\ phase = "seeding"
  /\ IF toSeed = <<>>
     THEN phase' = "connected" /\ UNCHANGED <<list, toSeed>>
     ELSE /\ AppendMessage(Head(toSeed), TRUE)
          /\ toSeed' = Tail(toSeed)
          /\ UNCHANGED phase
  /\ UNCHANGED <<host, sources, page, restarts>>

-----------------------------------------------------------------------------
(* The other writers.                                                      *)

(* POST /api/send: the thread appends the text ... *)
PostMessage(p) ==
  /\ ServerIsUp
  /\ post[p] = "new"
  /\ post' = [post EXCEPT ![p] = "listed"]
  /\ AppendMessage(p, FALSE)
  /\ UNCHANGED <<phase, toSeed, host, reply, page, restarts>>

(* ... and hands the callback to the loop; 202 is sent. *)
Schedule(p) ==
  /\ post[p] = "listed"
  /\ post' = [post EXCEPT ![p] = "scheduled"]
  /\ callbacks' = Append(callbacks, p)
  /\ UNCHANGED <<server, stored, reply, page, restarts>>

Receive ==
  /\ LoopIsFree
  /\ callbacks # <<>>
  /\ callbacks' = Tail(callbacks)
  /\ post' = [post EXCEPT ![Head(callbacks)] = "received"]
  /\ stored' = Append(stored, Head(callbacks))
  /\ UNCHANGED <<server, reply, page, restarts>>

(* send_message, from on_output of a run: no suspension ... *)
SendReply(r) ==
  /\ LoopIsFree
  /\ reply[r] = "new"
  /\ phase # "off"
  /\ reply' = [reply EXCEPT ![r] = "listed"]
  /\ AppendMessage(r, FALSE)
  /\ UNCHANGED <<phase, toSeed, host, post, page, restarts>>

(* ... before store_bot_message. *)
StoreReply(r) ==
  /\ reply[r] = "listed"
  /\ reply' = [reply EXCEPT ![r] = "stored"]
  /\ stored' = Append(stored, r)
  /\ UNCHANGED <<server, callbacks, post, page, restarts>>

-----------------------------------------------------------------------------
(* The page.                                                               *)

(* Every second, and after every POST, the page asks for what is new. *)
SendPoll(p) ==
  /\ ServerIsUp
  /\ polls[p].at = "idle"
  /\ polls' = [polls EXCEPT ![p] = [Idle EXCEPT !.at = "sent", !.since = since]]
  /\ overlapped' = (overlapped \/ \E q \in Polls : polls[q].at # "idle")
  /\ UNCHANGED <<server, host, sources, since, shown, garbled, loadedIn, restarts>>

(* Variant: next_since is read after the lock has been released. *)
AnswerUnlocked(p) ==
  /\ ServerIsUp
  /\ polls[p].at = "sent"
  /\ \E k \in 0..Len(messages) :
       polls' = [polls EXCEPT ![p] =
         [@ EXCEPT !.at = "answered", !.next = nextId,
                   !.ids = {messages[i].id : i \in 1..k} \ (0..polls[p].since)]]
  /\ UNCHANGED <<server, host, sources, since, shown, garbled, overlapped, loadedIn, restarts>>

(* _messages_since, in a thread of the server. *)
Answer(p) ==
  /\ ServerIsUp
  /\ polls[p].at = "sent"
  /\ polls' = [polls EXCEPT ![p] =
       [@ EXCEPT !.at = "answered", !.next = nextId,
                 !.ids = {messages[i].id : i \in 1..Len(messages)} \ (0..polls[p].since)]]
  /\ UNCHANGED <<server, host, sources, since, shown, garbled, overlapped, loadedIn, restarts>>

(* Variant: since is left to the next full reload. *)
RenderOnly(p) ==
  /\ polls[p].at = "answered"
  /\ shown' = shown \cup polls[p].ids
  /\ garbled' = (garbled \/ \E i \in polls[p].ids, k \in shown : i <= k)
  /\ polls' = [polls EXCEPT ![p] = Idle]
  /\ UNCHANGED <<server, host, sources, since, overlapped, loadedIn, restarts>>

(* The page renders what the answer has and takes its next_since. *)
Render(p) ==
  /\ polls[p].at = "answered"
  /\ shown' = shown \cup polls[p].ids
  /\ garbled' = (garbled \/ \E i \in polls[p].ids, k \in shown : i <= k)
  /\ since' = polls[p].next
  /\ polls' = [polls EXCEPT ![p] = Idle]
  /\ UNCHANGED <<server, host, sources, overlapped, loadedIn, restarts>>

(* The request or its answer is lost; poll().catch ignores it. *)
LosePoll(p) ==
  /\ polls[p].at # "idle"
  /\ polls' = [polls EXCEPT ![p] = Idle]
  /\ UNCHANGED <<server, host, sources, since, shown, garbled, overlapped, loadedIn, restarts>>

(* The page is loaded again. *)
Reload ==
  /\ ServerIsUp
  /\ since # 0
  /\ since' = 0
  /\ shown' = {}
  /\ garbled' = FALSE
  /\ polls' = [p \in Polls |-> Idle]
  /\ overlapped' = FALSE
  /\ loadedIn' = restarts
  /\ UNCHANGED <<server, host, sources, restarts>>

(* The host ends and is started again.  The list is gone, and with it what *)
(* had not been stored; the page stays open with the since it has.         *)
Restart ==
  /\ restarts < MaxRestarts
  /\ restarts' = restarts + 1
  /\ phase' = "off"
  /\ messages' = <<>>
  /\ nextId' = 0
  /\ toSeed' = <<>>
  /\ callbacks' = <<>>
  /\ post' = [p \in Posts |-> IF post[p] \in {"listed", "scheduled"} THEN "lost" ELSE post[p]]
  /\ reply' = [r \in Replies |-> IF reply[r] = "listed" THEN "lost" ELSE reply[r]]
  /\ polls' = [p \in Polls |-> IF polls[p].at = "sent" THEN Idle ELSE polls[p]]
  /\ UNCHANGED <<stored, since, shown, garbled, overlapped, loadedIn>>

-----------------------------------------------------------------------------

Next ==
  \/ StartServer \/ SeedCheck \/ SeedLoad \/ SeedAppend
  \/ \E p \in Posts : PostMessage(p) \/ Schedule(p)
  \/ Receive
  \/ \E r \in Replies : SendReply(r) \/ StoreReply(r)
  \/ \E p \in Polls : SendPoll(p) \/ Answer(p) \/ Render(p) \/ LosePoll(p)
  \/ Reload \/ Restart

Spec == Init /\ [][Next]_vars

(* Threads and callbacks are run; the page polls and, of ever so many      *)
(* polls, some are not lost.  Nobody has to write, reload or restart.      *)
Fairness ==
  /\ WF_vars(SeedCheck) /\ WF_vars(SeedLoad) /\ WF_vars(SeedAppend) /\ WF_vars(Receive)
  /\ \A p \in Posts : WF_vars(Schedule(p))
  /\ \A r \in Replies : WF_vars(StoreReply(r))
  /\ WF_vars(\E p \in Polls : SendPoll(p))
  /\ SF_vars(\E p \in Polls : Answer(p))
  /\ SF_vars(\E p \in Polls : Render(p))

FairSpec == Spec /\ Fairness

-----------------------------------------------------------------------------
(* Properties.                                                             *)

(* A page that was loaded in this life of the host has rendered every      *)
(* message up to its since, even if answers overtook one another: no poll  *)
(* can skip one, because items and next_since are read under one lock.     *)
PageMissesNothing ==
  loadedIn = restarts => \A i \in 1..since : i \in shown

(* If its polls never overlapped, it shows every message once, in order,   *)
(* and nothing beyond its since.                                           *)
PageShowsEachOnce ==
  loadedIn = restarts /\ ~ overlapped => ~ garbled /\ shown = 1..since

(* The history of the chat comes whole or not at all: not at all when it   *)
(* could not be loaded or somebody wrote before connect looked, but never  *)
(* in part, whoever writes while it is appended.                           *)
HistoryIsWhole ==
  phase = "connected" /\ Len(stored) <= HistoryLimit =>
    \/ \A i \in 1..Len(stored) : \E k \in 1..Len(messages) : messages[k].what = stored[i]
    \/ \A k \in 1..Len(messages) : ~ messages[k].old

(* Once the host lives on, the page catches up with the list, also a page  *)
(* that was loaded from an earlier host and asks for messages after an id  *)
(* that does not exist yet.                                                *)
PageCatchesUp ==
  restarts = MaxRestarts /\ ServerIsUp ~> since = nextId
=============================================================================
