-------------------------- MODULE WebChannelProofs --------------------------
(***************************************************************************)
(* Proofs about WebChannel, for any posts, replies and history, any number *)
(* of polls under way at once, any reloads and any number of restarts.     *)
(***************************************************************************)
EXTENDS WebChannel, SequenceTheorems, TLAPS

-----------------------------------------------------------------------------
(* The invariants.                                                         *)

(* The page was loaded in this life of the host or an earlier one.  If in  *)
(* this, what a poll asks for begins where the page's knowledge ends or    *)
(* before, and its answer has everything from there to its next_since.     *)
PollsAreHonest ==
  /\ loadedIn <= restarts
  /\ loadedIn = restarts => \A p \in Polls :
       /\ polls[p].at = "sent" => \A i \in 1..polls[p].since : i \in shown
       /\ polls[p].at = "answered" => \A i \in 1..polls[p].next : i \in shown \cup polls[p].ids

(* The page never asks for messages the list does not have yet; a page     *)
(* whose polls do not overlap has one poll at most, which asks for what    *)
(* follows the messages it shows.                                          *)
PollsDoNotOverlap ==
  loadedIn = restarts =>
    /\ since <= nextId
    /\ ~ overlapped =>
         /\ \A p, q \in Polls : polls[p].at # "idle" /\ polls[q].at # "idle" => p = q
         /\ \A p \in Polls :
              /\ polls[p].at = "sent" => polls[p].since = since
              /\ polls[p].at = "answered" =>
                   polls[p].next >= since /\ polls[p].ids = (since + 1)..polls[p].next
    /\ \A p \in Polls : polls[p].at = "answered" => polls[p].next <= nextId

PageInv == PollsAreHonest /\ PollsDoNotOverlap /\ PageMissesNothing /\ PageShowsEachOnce

IsListed(what) == \E k \in 1..Len(messages) : messages[k].what = what

(* Whatever is going to be stored is in the list. *)
StoredIsListed ==
  /\ \A i \in 1..Len(callbacks) : IsListed(callbacks[i])
  /\ \A p \in Posts : post[p] = "listed" => IsListed(p)
  /\ \A r \in Replies : reply[r] = "listed" => IsListed(r)

(* History is only appended by connect, and what it has not appended yet   *)
(* it is about to append.                                                  *)
HistoryComes ==
  /\ phase \notin {"seeding", "connected"} => \A k \in 1..Len(messages) : ~ messages[k].old
  /\ phase = "seeding" /\ Len(stored) <= HistoryLimit =>
       \A i \in 1..Len(stored) :
         IsListed(stored[i]) \/ \E k \in 1..Len(toSeed) : toSeed[k] = stored[i]

HistoryInv == StoredIsListed /\ HistoryComes /\ HistoryIsWhole

-----------------------------------------------------------------------------
(* The list.                                                               *)

(* A message goes to the end of the list, under the next id. *)
LEMMA Appended ==
  ASSUME TypeOK, NEW what \in Said, NEW old \in BOOLEAN, AppendMessage(what, old)
  PROVE  /\ messages' \in Seq(Message)
         /\ \A i \in 1..Len(messages') : messages'[i].id = i
         /\ nextId' = Len(messages')
         /\ nextId \in Nat /\ nextId' = nextId + 1
         /\ \A i \in 1..nextId : messages'[i] = messages[i]
         /\ messages'[nextId'].what = what /\ messages'[nextId'].old = old
  <1> DEFINE m == [what |-> what, id |-> nextId', old |-> old]
  <1>1. messages \in Seq(Message) /\ nextId = Len(messages) /\ nextId \in Nat
    BY DEF TypeOK
  <1>2. nextId' = nextId + 1 /\ messages' = Append(messages, m)
    BY DEF AppendMessage
  <1>3. m \in Message
    BY <1>1, <1>2 DEF Message
  <1>4. /\ Append(messages, m) \in Seq(Message)
        /\ Len(Append(messages, m)) = nextId + 1
        /\ Append(messages, m)[nextId + 1] = m
        /\ \A i \in 1..nextId : Append(messages, m)[i] = messages[i]
    BY <1>1, <1>3, AppendProperties
  <1>5. ASSUME NEW i \in 1..nextId + 1 PROVE messages'[i].id = i
    <2>1. CASE i = nextId + 1
      BY <1>2, <1>4, <2>1
    <2>2. CASE i \in 1..nextId
      BY <1>1, <1>2, <1>4, <2>2 DEF TypeOK
    <2> QED BY <1>1, <2>1, <2>2
  <1> QED BY <1>1, <1>2, <1>4, <1>5

(* What is in the list stays in it, and what is appended is in it. *)
LEMMA ListGrows ==
  ASSUME TypeOK, NEW what \in Said, NEW old \in BOOLEAN, AppendMessage(what, old)
  PROVE  /\ \A m : IsListed(m) => IsListed(m)'
         /\ IsListed(what)'
         /\ ~ old /\ (\A k \in 1..Len(messages) : ~ messages[k].old) =>
              \A k \in 1..Len(messages') : ~ messages'[k].old
  <1>1. /\ nextId = Len(messages) /\ nextId \in Nat
        /\ Len(messages') = nextId + 1
        /\ \A i \in 1..nextId : messages'[i] = messages[i]
        /\ messages'[nextId + 1].what = what /\ messages'[nextId + 1].old = old
    BY Appended DEF TypeOK
  <1>2. ASSUME NEW m, IsListed(m) PROVE IsListed(m)'
    BY <1>1, <1>2 DEF IsListed
  <1>3. IsListed(what)'
    BY <1>1 DEF IsListed
  <1>4. ASSUME ~ old, \A k \in 1..Len(messages) : ~ messages[k].old,
               NEW k \in 1..Len(messages')
        PROVE  ~ messages'[k].old
    <2>1. CASE k = nextId + 1
      BY <1>1, <1>4, <2>1
    <2>2. CASE k \in 1..nextId
      BY <1>1, <1>4, <2>2
    <2> QED BY <1>1, <2>1, <2>2
  <1> QED BY <1>2, <1>3, <1>4

(* The ids in the list are those up to the counter, so the answer to a     *)
(* poll holds everything that is after its since.                          *)
LEMMA AnswerIds ==
  ASSUME TypeOK, NEW s \in Nat
  PROVE  {messages[i].id : i \in 1..Len(messages)} \ (0..s) = (s + 1)..nextId
  <1>1. nextId = Len(messages) /\ nextId \in Nat
    BY DEF TypeOK
  <1>2. \A i \in 1..Len(messages) : messages[i].id = i
    BY DEF TypeOK
  <1>3. {messages[i].id : i \in 1..Len(messages)} = 1..nextId
    BY <1>1, <1>2
  <1> QED BY <1>1, <1>3

(* The history that connect gets is the stored rows when there are not too *)
(* many.                                                                   *)
LEMMA LatestRows ==
  ASSUME NEW rows \in Seq(Said)
  PROVE  /\ Latest(rows) \in Seq(Said)
         /\ Len(rows) <= HistoryLimit => Latest(rows) = rows
  <1>1. Len(rows) \in Nat /\ HistoryLimit \in Nat
    BY WebAssumption
  <1>2. CASE Len(rows) <= HistoryLimit
    BY <1>2 DEF Latest
  <1>3. CASE ~ Len(rows) <= HistoryLimit
    <2>1. /\ Len(rows) - HistoryLimit + 1 \in Int /\ Len(rows) \in Int
          /\ \A i \in Len(rows) - HistoryLimit + 1..Len(rows) : rows[i] \in Said
      BY <1>1, <1>3, ElementOfSeq
    <2>2. SubSeq(rows, Len(rows) - HistoryLimit + 1, Len(rows)) \in Seq(Said)
      BY <2>1, SubSeqProperties
    <2> QED BY <1>3, <2>2 DEF Latest
  <1> QED BY <1>2, <1>3

-----------------------------------------------------------------------------
(* Typing.                                                                 *)

LEMMA InitTyped == Init => TypeOK
  <1> SUFFICES ASSUME Init PROVE TypeOK
    OBVIOUS
  <1>1. /\ <<>> \in Seq(Message) /\ <<>> \in Seq(Said) /\ <<>> \in Seq(Posts)
        /\ Len(<<>>) = 0
    OBVIOUS
  <1>2. messages \in Seq(Message) /\ nextId = Len(messages) /\ toSeed \in Seq(Said)
    BY <1>1 DEF Init
  <1>3. \A i \in 1..Len(messages) : messages[i].id = i
    BY <1>1 DEF Init
  <1>4. callbacks \in Seq(Posts)
    BY <1>1 DEF Init
  <1>5. stored \in Seq(Said)
    <2>1. Rows \subseteq Said
      BY DEF Said
    <2> QED BY <2>1, WebAssumption, SeqMonotonic DEF Init
  <1>6. Idle \in Poll
    BY DEF Idle, Poll
  <1>7. polls \in [Polls -> Poll]
    BY <1>6 DEF Init
  <1>8. loadedIn \in 0..MaxRestarts /\ restarts \in 0..MaxRestarts
    BY WebAssumption DEF Init
  <1> QED BY <1>2, <1>3, <1>4, <1>5, <1>7, <1>8 DEF Init, TypeOK

(* The history that is still to be appended. *)
LEMMA SeedTypes ==
  ASSUME TypeOK, toSeed # <<>>
  PROVE  /\ Head(toSeed) \in Said /\ Tail(toSeed) \in Seq(Said)
         /\ Len(toSeed) \in Nat \ {0} /\ Len(Tail(toSeed)) = Len(toSeed) - 1
         /\ Head(toSeed) = toSeed[1]
         /\ \A i \in 1..Len(Tail(toSeed)) : Tail(toSeed)[i] = toSeed[i + 1]
  BY HeadTailProperties, EmptySeq DEF TypeOK

LEMMA CallbackTypes ==
  ASSUME TypeOK, callbacks # <<>>
  PROVE  /\ Head(callbacks) \in Posts /\ Tail(callbacks) \in Seq(Posts)
         /\ Len(callbacks) \in Nat \ {0} /\ Len(Tail(callbacks)) = Len(callbacks) - 1
         /\ Head(callbacks) = callbacks[1]
         /\ \A i \in 1..Len(Tail(callbacks)) : Tail(callbacks)[i] = callbacks[i + 1]
  BY HeadTailProperties, EmptySeq DEF TypeOK

LEMMA TypesKept == TypeOK /\ [Next]_vars => TypeOK'
  <1> SUFFICES ASSUME TypeOK, [Next]_vars PROVE TypeOK'
    OBVIOUS
  <1> USE DEF server, list, host, sources, page
  <1>1. CASE StartServer
    BY <1>1 DEF TypeOK, StartServer
  <1>2. CASE SeedCheck
    BY <1>2 DEF TypeOK, SeedCheck
  <1>3. CASE SeedLoad
    <2>1. Latest(stored) \in Seq(Said)
      BY LatestRows DEF TypeOK
    <2> QED BY <1>3, <2>1 DEF TypeOK, SeedLoad
  <1>4. CASE SeedAppend
    <2>1. CASE toSeed = <<>>
      BY <1>4, <2>1 DEF TypeOK, SeedAppend
    <2>2. CASE toSeed # <<>>
      BY <1>4, <2>2, SeedTypes, Appended DEF TypeOK, SeedAppend
    <2> QED BY <2>1, <2>2
  <1>5. ASSUME NEW p \in Posts, PostMessage(p) PROVE TypeOK'
    <2>1. p \in Said
      BY DEF Said
    <2> QED BY <1>5, <2>1, Appended DEF TypeOK, PostMessage
  <1>6. ASSUME NEW p \in Posts, Schedule(p) PROVE TypeOK'
    <2>1. Append(callbacks, p) \in Seq(Posts)
      BY AppendProperties DEF TypeOK
    <2> QED BY <1>6, <2>1 DEF TypeOK, Schedule
  <1>7. CASE Receive
    <2>1. Head(callbacks) \in Posts /\ Tail(callbacks) \in Seq(Posts)
      BY <1>7, CallbackTypes DEF Receive
    <2>2. Append(stored, Head(callbacks)) \in Seq(Said)
      BY <2>1, AppendProperties DEF TypeOK, Said
    <2> QED BY <1>7, <2>1, <2>2 DEF TypeOK, Receive
  <1>8. ASSUME NEW r \in Replies, SendReply(r) PROVE TypeOK'
    <2>1. r \in Said
      BY DEF Said
    <2> QED BY <1>8, <2>1, Appended DEF TypeOK, SendReply
  <1>9. ASSUME NEW r \in Replies, StoreReply(r) PROVE TypeOK'
    <2>1. Append(stored, r) \in Seq(Said)
      BY AppendProperties DEF TypeOK, Said
    <2> QED BY <1>9, <2>1 DEF TypeOK, StoreReply
  <1>10. Idle \in Poll
    BY DEF Idle, Poll
  <1>11. ASSUME NEW p \in Polls, SendPoll(p) PROVE TypeOK'
    <2>1. [Idle EXCEPT !.at = "sent", !.since = since] \in Poll
      BY DEF Idle, Poll, TypeOK
    <2> QED BY <1>11, <2>1 DEF TypeOK, SendPoll
  <1>12. ASSUME NEW p \in Polls, Answer(p) PROVE TypeOK'
    <2>1. polls[p] \in Poll /\ nextId \in Nat
      BY DEF TypeOK
    <2>2. {messages[i].id : i \in 1..Len(messages)} \ (0..polls[p].since) \subseteq Nat
      BY <2>1, AnswerIds DEF Poll
    <2>3. polls' \in [Polls -> Poll]
      BY <1>12, <2>1, <2>2 DEF TypeOK, Answer, Poll
    <2> QED BY <1>12, <2>3 DEF TypeOK, Answer
  <1>13. ASSUME NEW p \in Polls, Render(p) PROVE TypeOK'
    <2>1. polls[p].ids \subseteq Nat /\ polls[p].next \in Nat
      BY DEF TypeOK, Poll
    <2>2. polls' \in [Polls -> Poll] /\ shown' \subseteq Nat /\ since' \in Nat
      BY <1>10, <1>13, <2>1 DEF TypeOK, Render
    <2>3. garbled' \in BOOLEAN
      BY <1>13 DEF TypeOK, Render
    <2> QED BY <1>13, <2>2, <2>3 DEF TypeOK, Render
  <1>14. ASSUME NEW p \in Polls, LosePoll(p) PROVE TypeOK'
    BY <1>10, <1>14 DEF TypeOK, LosePoll
  <1>15. CASE Reload
    BY <1>10, <1>15 DEF TypeOK, Reload
  <1>16. CASE Restart
    <2>1. <<>> \in Seq(Message) /\ <<>> \in Seq(Said) /\ <<>> \in Seq(Posts) /\ Len(<<>>) = 0
      OBVIOUS
    <2>2. /\ messages' \in Seq(Message) /\ nextId' = Len(messages')
          /\ toSeed' \in Seq(Said) /\ callbacks' \in Seq(Posts)
      BY <1>16, <2>1 DEF Restart
    <2>3. \A i \in 1..Len(messages') : messages'[i].id = i
      BY <1>16, <2>1 DEF Restart
    <2>4. polls' \in [Polls -> Poll]
      BY <1>10, <1>16 DEF Restart, TypeOK
    <2>5. restarts' \in 0..MaxRestarts
      BY <1>16, WebAssumption DEF Restart, TypeOK
    <2>6. /\ post' \in [Posts -> {"new", "listed", "scheduled", "received", "lost"}]
          /\ reply' \in [Replies -> {"new", "listed", "stored", "lost"}]
      BY <1>16 DEF Restart, TypeOK
    <2> QED BY <1>16, <2>2, <2>3, <2>4, <2>5, <2>6 DEF Restart, TypeOK
  <1>17. CASE UNCHANGED vars
    BY <1>17 DEF vars, TypeOK
  <1> QED
    BY <1>1, <1>2, <1>3, <1>4, <1>5, <1>6, <1>7, <1>8, <1>9, <1>11, <1>12, <1>13, <1>14, <1>15,
       <1>16, <1>17
    DEF Next

(* The ids of the list are 1, 2, 3, ... and the counter is the last. *)
THEOREM Typing == Spec => []TypeOK
  BY InitTyped, TypesKept, PTL DEF Spec

-----------------------------------------------------------------------------
(* The page.                                                               *)

LEMMA InitPage == Init => PageInv
  BY DEF Init, PageInv, PollsAreHonest, PollsDoNotOverlap, PageMissesNothing, PageShowsEachOnce,
         Idle

(* Steps of the server and of the host: the list only grows. *)
LEMMA OthersKeepPage ==
  ASSUME TypeOK, PageInv, UNCHANGED <<page, restarts>>, nextId' >= nextId, nextId' \in Nat
  PROVE  PageInv'
  <1>1. nextId \in Nat /\ since \in Nat /\ \A p \in Polls : polls[p].next \in Nat
    BY DEF TypeOK, Poll
  <1>2. PollsAreHonest' /\ PageMissesNothing' /\ PageShowsEachOnce'
    BY DEF PageInv, PollsAreHonest, PageMissesNothing, PageShowsEachOnce, page
  <1>3. PollsDoNotOverlap'
    BY <1>1 DEF PageInv, PollsDoNotOverlap, page
  <1> QED BY <1>2, <1>3 DEF PageInv

LEMMA PageKept == TypeOK /\ PageInv /\ [Next]_vars => PageInv'
  <1> SUFFICES ASSUME TypeOK, PageInv, [Next]_vars PROVE PageInv'
    OBVIOUS
  <1>1. /\ nextId \in Nat /\ since \in Nat /\ shown \subseteq Nat
        /\ loadedIn \in Nat /\ restarts \in Nat
        /\ \A p \in Polls : /\ polls[p].since \in Nat /\ polls[p].next \in Nat
                            /\ polls[p].ids \subseteq Nat
      BY WebAssumption DEF TypeOK, Poll
  <1>2. CASE StartServer \/ SeedCheck \/ SeedLoad \/ Receive
    BY <1>1, <1>2, OthersKeepPage
    DEF StartServer, SeedCheck, SeedLoad, Receive, server, list
  <1>3. CASE SeedAppend
    BY <1>1, <1>3, OthersKeepPage DEF SeedAppend, AppendMessage, list
  <1>4. ASSUME NEW p \in Posts, PostMessage(p) \/ Schedule(p) PROVE PageInv'
    BY <1>1, <1>4, OthersKeepPage DEF PostMessage, Schedule, AppendMessage, server, list
  <1>5. ASSUME NEW r \in Replies, SendReply(r) \/ StoreReply(r) PROVE PageInv'
    BY <1>1, <1>5, OthersKeepPage DEF SendReply, StoreReply, AppendMessage, server, list
  <1>6. ASSUME NEW p \in Polls, SendPoll(p) PROVE PageInv'
    <2>1. /\ polls' = [polls EXCEPT ![p] = [Idle EXCEPT !.at = "sent", !.since = since]]
          /\ overlapped' = (overlapped \/ \E q \in Polls : polls[q].at # "idle")
          /\ UNCHANGED <<nextId, since, shown, garbled, loadedIn, restarts>>
      BY <1>6 DEF SendPoll, server, list
    <2>2. /\ polls'[p].at = "sent" /\ polls'[p].since = since
          /\ \A q \in Polls \ {p} : polls'[q] = polls[q]
      BY <2>1 DEF TypeOK, Idle
    <2>3. PollsAreHonest'
      BY <1>1, <2>1, <2>2 DEF PageInv, PollsAreHonest, PageMissesNothing
    <2>4. PollsDoNotOverlap'
      BY <1>1, <2>1, <2>2 DEF PageInv, PollsDoNotOverlap
    <2> QED BY <2>1, <2>3, <2>4 DEF PageInv, PageMissesNothing, PageShowsEachOnce
  <1>7. ASSUME NEW p \in Polls, Answer(p) PROVE PageInv'
    <2>1. /\ polls' = [polls EXCEPT ![p] =
               [polls[p] EXCEPT !.at = "answered", !.next = nextId,
                                !.ids = (polls[p].since + 1)..nextId]]
          /\ polls[p].at = "sent"
          /\ UNCHANGED <<nextId, since, shown, garbled, overlapped, loadedIn, restarts>>
      BY <1>1, <1>7, AnswerIds DEF Answer, server, list
    <2>2. /\ polls'[p].at = "answered" /\ polls'[p].next = nextId
          /\ polls'[p].ids = (polls[p].since + 1)..nextId
          /\ \A q \in Polls \ {p} : polls'[q] = polls[q]
      BY <2>1 DEF TypeOK, Poll
    <2>3. PollsAreHonest'
      BY <1>1, <2>1, <2>2 DEF PageInv, PollsAreHonest
    <2>4. PollsDoNotOverlap'
      BY <1>1, <2>1, <2>2 DEF PageInv, PollsDoNotOverlap
    <2> QED BY <2>1, <2>3, <2>4 DEF PageInv, PageMissesNothing, PageShowsEachOnce
  <1>8. ASSUME NEW p \in Polls, Render(p) PROVE PageInv'
    <2>1. /\ polls' = [polls EXCEPT ![p] = Idle]
          /\ polls[p].at = "answered"
          /\ shown' = shown \cup polls[p].ids
          /\ garbled' = (garbled \/ \E i \in polls[p].ids, k \in shown : i <= k)
          /\ since' = polls[p].next
          /\ UNCHANGED <<nextId, overlapped, loadedIn, restarts>>
      BY <1>8 DEF Render, server, list
    <2>2. /\ polls'[p].at = "idle"
          /\ \A q \in Polls \ {p} : polls'[q] = polls[q]
      BY <2>1 DEF TypeOK, Idle
    <2>3. PollsAreHonest' /\ PageMissesNothing'
      BY <1>1, <2>1, <2>2 DEF PageInv, PollsAreHonest, PageMissesNothing
    <2>4. ASSUME loadedIn = restarts, ~ overlapped
          PROVE  ~ garbled' /\ shown' = 1..since'
      <3>1. /\ polls[p].next >= since /\ polls[p].ids = (since + 1)..polls[p].next
            /\ ~ garbled /\ shown = 1..since
        BY <2>1, <2>4 DEF PageInv, PollsDoNotOverlap, PageShowsEachOnce
      <3>2. shown' = 1..polls[p].next
        BY <1>1, <2>1, <3>1
      <3>3. \A i \in polls[p].ids, k \in shown : ~ i <= k
        BY <1>1, <3>1
      <3> QED BY <2>1, <3>1, <3>2, <3>3
    <2>5. PageShowsEachOnce'
      BY <2>1, <2>4 DEF PageShowsEachOnce
    <2>6. PollsDoNotOverlap'
      <3>1. ASSUME loadedIn = restarts, ~ overlapped, NEW q \in Polls
            PROVE  polls'[q].at = "idle"
        BY <2>1, <2>2, <3>1 DEF PageInv, PollsDoNotOverlap
      <3>2. loadedIn = restarts =>
              /\ since' <= nextId'
              /\ \A q \in Polls : polls'[q].at = "answered" => polls'[q].next <= nextId'
        BY <2>1, <2>2 DEF PageInv, PollsDoNotOverlap
      <3> QED BY <2>1, <3>1, <3>2 DEF PollsDoNotOverlap
    <2> QED BY <2>3, <2>5, <2>6 DEF PageInv
  <1>9. ASSUME NEW p \in Polls, LosePoll(p) PROVE PageInv'
    <2>1. /\ polls' = [polls EXCEPT ![p] = Idle]
          /\ UNCHANGED <<nextId, since, shown, garbled, overlapped, loadedIn, restarts>>
      BY <1>9 DEF LosePoll, server, list
    <2>2. /\ polls'[p].at = "idle"
          /\ \A q \in Polls \ {p} : polls'[q] = polls[q]
      BY <2>1 DEF TypeOK, Idle
    <2>3. PollsAreHonest' /\ PollsDoNotOverlap'
      BY <2>1, <2>2 DEF PageInv, PollsAreHonest, PollsDoNotOverlap
    <2> QED BY <2>1, <2>3 DEF PageInv, PageMissesNothing, PageShowsEachOnce
  <1>10. CASE Reload
    <2>1. /\ since' = 0 /\ shown' = {} /\ garbled' = FALSE /\ loadedIn' = restarts
          /\ polls' = [p \in Polls |-> Idle]
          /\ UNCHANGED <<nextId, restarts>>
      BY <1>10 DEF Reload, server, list
    <2>2. \A p \in Polls : polls'[p].at = "idle"
      BY <2>1 DEF Idle
    <2>3. PollsAreHonest' /\ PollsDoNotOverlap'
      BY <1>1, <2>1, <2>2 DEF PollsAreHonest, PollsDoNotOverlap
    <2> QED BY <2>1, <2>3 DEF PageInv, PageMissesNothing, PageShowsEachOnce
  <1>11. CASE Restart
    <2>1. loadedIn' <= restarts' /\ loadedIn' # restarts'
      BY <1>1, <1>11 DEF Restart, PageInv, PollsAreHonest
    <2> QED
      BY <2>1 DEF PageInv, PollsAreHonest, PollsDoNotOverlap, PageMissesNothing, PageShowsEachOnce
  <1>12. CASE UNCHANGED vars
    BY <1>1, <1>12, OthersKeepPage DEF vars, server, list
  <1> QED
    BY <1>2, <1>3, <1>4, <1>5, <1>6, <1>7, <1>8, <1>9, <1>10, <1>11, <1>12 DEF Next

LEMMA AlwaysPage == Spec => [](TypeOK /\ PageInv)
  <1>1. TypeOK /\ PageInv /\ [Next]_vars => (TypeOK /\ PageInv)'
    BY TypesKept, PageKept
  <1> QED BY InitTyped, InitPage, <1>1, PTL DEF Spec

(* However many polls are under way and in whichever order they are        *)
(* answered or lost, the page has rendered everything up to its since.     *)
THEOREM NothingIsMissed == Spec => []PageMissesNothing
  <1>1. PageInv => PageMissesNothing
    BY DEF PageInv
  <1> QED BY <1>1, AlwaysPage, PTL

(* Nothing is rendered twice or out of order by a page whose polls never   *)
(* overlapped.                                                             *)
THEOREM EachIsShownOnce == Spec => []PageShowsEachOnce
  <1>1. PageInv => PageShowsEachOnce
    BY DEF PageInv
  <1> QED BY <1>1, AlwaysPage, PTL

-----------------------------------------------------------------------------
(* The history.                                                            *)

LEMMA InitHistory == Init => HistoryInv
  <1> SUFFICES ASSUME Init PROVE HistoryInv
    OBVIOUS
  <1>1. Len(<<>>) = 0
    OBVIOUS
  <1>2. Len(messages) = 0 /\ Len(callbacks) = 0 /\ phase = "off"
    BY <1>1 DEF Init
  <1> QED BY <1>2 DEF Init, HistoryInv, StoredIsListed, HistoryComes, HistoryIsWhole

(* A message by somebody other than connect, in whatever phase. *)
LEMMA OthersAppend ==
  ASSUME TypeOK, HistoryInv, NEW m \in Posts \cup Replies, AppendMessage(m, FALSE),
         UNCHANGED <<phase, toSeed, callbacks, stored>>,
         \A p \in Posts : post'[p] = "listed" => post[p] = "listed" \/ p = m,
         \A r \in Replies : reply'[r] = "listed" => reply[r] = "listed" \/ r = m
  PROVE  HistoryInv'
  <1>1. /\ \A s : IsListed(s) => IsListed(s)'
        /\ IsListed(m)'
        /\ (\A k \in 1..Len(messages) : ~ messages[k].old) =>
             \A k \in 1..Len(messages') : ~ messages'[k].old
    BY ListGrows DEF Said
  <1>2. StoredIsListed'
    BY <1>1 DEF HistoryInv, StoredIsListed
  <1>3. HistoryComes'
    BY <1>1 DEF HistoryInv, HistoryComes
  <1>4. HistoryIsWhole'
    BY <1>1 DEF HistoryInv, HistoryIsWhole, IsListed
  <1> QED BY <1>2, <1>3, <1>4 DEF HistoryInv

(* What is stored next has been in the list for some time. *)
LEMMA RowStored ==
  ASSUME TypeOK, HistoryInv, UNCHANGED <<phase, messages, toSeed>>, StoredIsListed',
         NEW m \in Said, IsListed(m), stored' = Append(stored, m)
  PROVE  HistoryInv'
  <1>1. stored \in Seq(Said) /\ Len(stored) \in Nat
    BY DEF TypeOK
  <1>2. /\ Len(stored') = Len(stored) + 1
        /\ stored'[Len(stored) + 1] = m
        /\ \A i \in 1..Len(stored) : stored'[i] = stored[i]
    BY <1>1, AppendProperties
  <1>3. \A i \in 1..Len(stored') : i \in 1..Len(stored) \/ i = Len(stored) + 1
    BY <1>1, <1>2
  <1>4. HistoryLimit \in Nat /\ (Len(stored') <= HistoryLimit => Len(stored) <= HistoryLimit)
    BY <1>1, <1>2, WebAssumption
  <1>5. \A s : IsListed(s)' <=> IsListed(s)
    BY DEF IsListed
  <1>6. HistoryComes'
    BY <1>2, <1>3, <1>4, <1>5 DEF HistoryInv, HistoryComes
  <1>7. HistoryIsWhole'
    BY <1>2, <1>3, <1>4 DEF HistoryInv, HistoryIsWhole, IsListed
  <1> QED BY <1>6, <1>7 DEF HistoryInv

LEMMA HistoryKept == TypeOK /\ HistoryInv /\ [Next]_vars => HistoryInv'
  <1> SUFFICES ASSUME TypeOK, HistoryInv, [Next]_vars PROVE HistoryInv'
    OBVIOUS
  <1> USE DEF server, list, host, sources
  <1>1. ASSUME UNCHANGED <<messages, stored, callbacks, toSeed, post, reply>>,
               phase' = phase \/ {phase, phase'} \cap {"seeding", "connected"} = {}
        PROVE  HistoryInv'
    BY <1>1 DEF HistoryInv, StoredIsListed, HistoryComes, HistoryIsWhole, IsListed
  <1>2. CASE StartServer
    BY <1>1, <1>2 DEF StartServer
  <1>3. CASE SeedCheck
    <2>1. CASE messages = <<>>
      BY <1>1, <1>3, <2>1 DEF SeedCheck
    <2>2. CASE messages # <<>>
      BY <1>3, <2>2
      DEF SeedCheck, HistoryInv, StoredIsListed, HistoryComes, HistoryIsWhole, IsListed
    <2> QED BY <2>1, <2>2
  <1>4. CASE SeedLoad
    <2>1. UNCHANGED <<messages, stored, callbacks, post, reply>> /\ phase = "loading"
      BY <1>4 DEF SeedLoad
    <2>2. StoredIsListed'
      BY <2>1 DEF HistoryInv, StoredIsListed, IsListed
    <2>3. CASE phase' = "seeding" /\ toSeed' = Latest(stored)
      <3>1. Len(stored) <= HistoryLimit => toSeed' = stored
        BY <2>3, LatestRows DEF TypeOK
      <3>2. HistoryComes'
        BY <2>1, <2>3, <3>1 DEF HistoryComes
      <3> QED BY <2>2, <2>3, <3>2 DEF HistoryInv, HistoryIsWhole
    <2>4. CASE phase' = "connected" /\ UNCHANGED toSeed
      BY <2>1, <2>2, <2>4 DEF HistoryInv, HistoryComes, HistoryIsWhole
    <2> QED BY <1>4, <2>3, <2>4 DEF SeedLoad
  <1>5. CASE SeedAppend
    <2>1. UNCHANGED <<stored, callbacks, post, reply>> /\ phase = "seeding"
      BY <1>5 DEF SeedAppend
    <2>2. CASE toSeed = <<>>
      <3>1. phase' = "connected" /\ UNCHANGED <<messages, toSeed>>
        BY <1>5, <2>2 DEF SeedAppend
      <3>2. Len(toSeed) = 0
        BY <2>2
      <3>3. Len(stored) <= HistoryLimit => \A i \in 1..Len(stored) : IsListed(stored[i])
        BY <2>1, <3>2 DEF HistoryInv, HistoryComes
      <3>4. StoredIsListed' /\ HistoryComes'
        BY <2>1, <3>1 DEF HistoryInv, StoredIsListed, HistoryComes, IsListed
      <3>5. HistoryIsWhole'
        BY <2>1, <3>1, <3>3 DEF HistoryIsWhole, IsListed
      <3> QED BY <3>4, <3>5 DEF HistoryInv
    <2>3. CASE toSeed # <<>>
      <3>0. PICK h \in Said : h = toSeed[1] /\ h = Head(toSeed)
        BY <2>3, SeedTypes
      <3>1. AppendMessage(h, TRUE) /\ toSeed' = Tail(toSeed) /\ UNCHANGED phase
        BY <1>5, <2>3, <3>0 DEF SeedAppend
      <3>2. /\ \A s : IsListed(s) => IsListed(s)'
            /\ IsListed(h)'
        BY <3>1, ListGrows
      <3>3. StoredIsListed'
        BY <2>1, <3>2 DEF HistoryInv, StoredIsListed
      <3>4. ASSUME NEW m, NEW k \in 1..Len(toSeed), toSeed[k] = m
            PROVE  IsListed(m)' \/ \E l \in 1..Len(toSeed') : toSeed'[l] = m
        <4>1. CASE k = 1
          BY <3>0, <3>2, <3>4, <4>1
        <4>2. CASE k # 1
          <5>1. k - 1 \in 1..Len(toSeed') /\ toSeed'[k - 1] = toSeed[k]
            BY <2>3, <3>1, <3>4, <4>2, SeedTypes
          <5> QED BY <3>4, <5>1
        <4> QED BY <4>1, <4>2
      <3>5. HistoryComes'
        BY <2>1, <3>1, <3>2, <3>4 DEF HistoryInv, HistoryComes
      <3>6. HistoryIsWhole'
        BY <2>1, <3>1 DEF HistoryIsWhole
      <3> QED BY <3>3, <3>5, <3>6 DEF HistoryInv
    <2> QED BY <2>2, <2>3
  <1>6. ASSUME NEW p \in Posts, PostMessage(p) PROVE HistoryInv'
    <2>1. /\ AppendMessage(p, FALSE) /\ UNCHANGED <<phase, toSeed, callbacks, stored, reply>>
          /\ \A q \in Posts : post'[q] = "listed" => post[q] = "listed" \/ q = p
      BY <1>6 DEF PostMessage, TypeOK
    <2> QED BY <2>1, OthersAppend
  <1>7. ASSUME NEW p \in Posts, Schedule(p) PROVE HistoryInv'
    <2>1. /\ UNCHANGED <<phase, messages, toSeed, stored, reply>>
          /\ post[p] = "listed" /\ callbacks' = Append(callbacks, p)
          /\ \A q \in Posts : post'[q] = "listed" => post[q] = "listed"
      BY <1>7 DEF Schedule, TypeOK
    <2>2. IsListed(p)
      BY <2>1 DEF HistoryInv, StoredIsListed
    <2>3. callbacks \in Seq(Posts) /\ Len(callbacks) \in Nat
      BY DEF TypeOK
    <2>4. /\ Len(callbacks') = Len(callbacks) + 1
          /\ callbacks'[Len(callbacks) + 1] = p
          /\ \A i \in 1..Len(callbacks) : callbacks'[i] = callbacks[i]
      BY <2>1, <2>3, AppendProperties
    <2>5. \A i \in 1..Len(callbacks') : i \in 1..Len(callbacks) \/ i = Len(callbacks) + 1
      BY <2>3, <2>4
    <2>6. StoredIsListed'
      BY <2>1, <2>2, <2>4, <2>5 DEF HistoryInv, StoredIsListed, IsListed
    <2> QED BY <2>1, <2>6 DEF HistoryInv, HistoryComes, HistoryIsWhole, IsListed
  <1>8. CASE Receive
    <2>1. /\ UNCHANGED <<phase, messages, toSeed, reply>> /\ callbacks # <<>>
          /\ callbacks' = Tail(callbacks) /\ stored' = Append(stored, Head(callbacks))
          /\ \A q \in Posts : post'[q] = "listed" => post[q] = "listed"
      BY <1>8 DEF Receive, TypeOK
    <2>2. Head(callbacks) \in Said /\ IsListed(Head(callbacks))
      BY <2>1, CallbackTypes DEF HistoryInv, StoredIsListed, Said
    <2>3. ASSUME NEW i \in 1..Len(callbacks') PROVE IsListed(callbacks'[i])
      <3>1. i + 1 \in 1..Len(callbacks) /\ callbacks'[i] = callbacks[i + 1]
        BY <2>1, CallbackTypes
      <3> QED BY <3>1 DEF HistoryInv, StoredIsListed
    <2>4. StoredIsListed'
      BY <2>1, <2>3 DEF HistoryInv, StoredIsListed, IsListed
    <2> QED BY <2>1, <2>2, <2>4, RowStored
  <1>9. ASSUME NEW r \in Replies, SendReply(r) PROVE HistoryInv'
    <2>1. /\ AppendMessage(r, FALSE) /\ UNCHANGED <<phase, toSeed, callbacks, stored, post>>
          /\ \A q \in Replies : reply'[q] = "listed" => reply[q] = "listed" \/ q = r
      BY <1>9 DEF SendReply, TypeOK
    <2> QED BY <2>1, OthersAppend
  <1>10. ASSUME NEW r \in Replies, StoreReply(r) PROVE HistoryInv'
    <2>1. /\ UNCHANGED <<phase, messages, toSeed, callbacks, post>>
          /\ reply[r] = "listed" /\ stored' = Append(stored, r)
          /\ \A q \in Replies : reply'[q] = "listed" => reply[q] = "listed"
      BY <1>10 DEF StoreReply, TypeOK
    <2>2. r \in Said /\ IsListed(r)
      BY <2>1 DEF HistoryInv, StoredIsListed, Said
    <2>3. StoredIsListed'
      BY <2>1 DEF HistoryInv, StoredIsListed, IsListed
    <2> QED BY <2>1, <2>2, <2>3, RowStored
  <1>11. ASSUME NEW p \in Polls, SendPoll(p) \/ Answer(p) \/ Render(p) \/ LosePoll(p)
         PROVE  HistoryInv'
    BY <1>1, <1>11 DEF SendPoll, Answer, Render, LosePoll
  <1>12. CASE Reload
    BY <1>1, <1>12 DEF Reload
  <1>13. CASE Restart
    <2>1. /\ phase' = "off" /\ messages' = <<>> /\ callbacks' = <<>>
          /\ \A p \in Posts : post'[p] # "listed"
          /\ \A r \in Replies : reply'[r] # "listed"
      BY <1>13 DEF Restart, TypeOK
    <2>2. Len(messages') = 0 /\ Len(callbacks') = 0
      BY <2>1
    <2> QED BY <2>1, <2>2 DEF HistoryInv, StoredIsListed, HistoryComes, HistoryIsWhole
  <1>14. CASE UNCHANGED vars
    BY <1>1, <1>14 DEF vars
  <1> QED
    BY <1>2, <1>3, <1>4, <1>5, <1>6, <1>7, <1>8, <1>9, <1>10, <1>11, <1>12, <1>13, <1>14 DEF Next

(* A chat whose rows history_loader can return together has its history in *)
(* the list of a connected channel, or none of it, whoever writes while    *)
(* connect appends it.                                                     *)
THEOREM WholeHistory == Spec => []HistoryIsWhole
  <1>1. TypeOK /\ HistoryInv /\ [Next]_vars => (TypeOK /\ HistoryInv)'
    BY TypesKept, HistoryKept
  <1>2. HistoryInv => HistoryIsWhole
    BY DEF HistoryInv
  <1> QED BY InitTyped, InitHistory, <1>1, <1>2, PTL DEF Spec
=============================================================================
