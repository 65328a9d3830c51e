--------------------------- MODULE AgentRunsProofs ---------------------------
(***************************************************************************)
(* Proofs about AgentRuns, for any runs, chats and folders, any failures,  *)
(* and any number of follow-ups and restarts.                              *)
(***************************************************************************)
EXTENDS AgentRuns, SequenceTheorems, TLAPS

-----------------------------------------------------------------------------
(* What is true however often the host was started.                        *)

(* A run has no agent before it is spawned and none that lives when it has *)
(* ended, and before it begins it has told nobody anything.                *)
AgentFollowsHost ==
  \A r \in Runs :
    /\ host[r] \in {"new", "spawning"} => agent[r] = "none"
    /\ host[r] = "done" => ~ Alive(r)
    /\ host[r] \in {"new", "spawning"} => ~ cleared[r] /\ ~ closeReq[r]

(* The indicator belongs to a chat that can show it, and to a run that     *)
(* will take it back.                                                      *)
TypingIsOwned ==
  /\ \A j \in Jids : typing[j] => j \in HasChannel
  /\ TypingMeansWorking

(* A follow-up that lies in a folder was sent. *)
FollowUpsWereSent == \A f \in Folders : inbox[f] <= sent

IInv == TypeOK /\ FollowUpsWereSent /\ AgentFollowsHost /\ TypingIsOwned

-----------------------------------------------------------------------------
(* What is true of the first life of the host.                             *)

(* The queue lets one run of a chat in at a time, and nothing goes past it. *)
QueueIsObeyed ==
  /\ toRecover = {}
  /\ \A r \in Runs : host[r] # "lost"
  /\ \A r \in Direct : host[r] = "new"
  /\ \A q, r \in Runs :
       host[q] \in InProgress /\ host[r] \in InProgress /\ JidOf[q] = JidOf[r] => q = r

(* The replies in a chat are those of its own runs, and nothing stands     *)
(* behind the replies of a run that is in progress.                        *)
ChatIsGrouped ==
  \A j \in Jids :
    /\ \A i \in 1..Len(chat[j]) :
         JidOf[chat[j][i]] = j /\ host[chat[j][i]] \notin {"new", "spawning"}
    /\ \A i, k \in 1..Len(chat[j]) :
         i < k /\ host[chat[j][i]] \in InProgress => chat[j][k] = chat[j][i]
    /\ \A i, k, l \in 1..Len(chat[j]) :
         i < k /\ k < l /\ chat[j][i] = chat[j][l] => chat[j][k] = chat[j][i]

FirstLife == restarts = 0 => QueueIsObeyed /\ ChatIsGrouped

(* All runs of a folder are queued under one chat.  A folder has one row   *)
(* in registered_groups and the row one JID, but register_group may write  *)
(* another, and a task keeps the chat it was given (see Host).             *)
FoldersHaveOneChat ==
  \A q, r \in Runs : FolderOf[q] = FolderOf[r] => JidOf[q] = JidOf[r]

(* The host of a run that is collected writes the sentinel to the folder   *)
(* its agent looks at; once requested, it is there as long as the agent    *)
(* lives, and until then an agent that waits has left something to read.   *)
SentinelReachesAgent ==
  \A r \in Runs : host[r] = "collecting" =>
    /\ groupFolder[JidOf[r]] = FolderOf[r]
    /\ Alive(r) /\ closeReq[r] => sentinel[FolderOf[r]]
    /\ agent[r] = "polling" /\ ~ closeReq[r] => unread[r] # <<>>

(* So readline never gives up on an agent that is not slow.                *)
CollectedToTheEnd ==
  \A r \in Runs \ Slow :
    /\ host[r] # "draining"
    /\ host[r] = "done" /\ result[r] = "answer" => unread[r] = <<>>

Collected == restarts = 0 => SentinelReachesAgent /\ CollectedToTheEnd

-----------------------------------------------------------------------------
(* Typing.                                                                 *)

(* A run posts to a chat and works in a folder. *)
LEMMA RunTypes ==
  ASSUME NEW r \in Runs
  PROVE  JidOf[r] \in Jids /\ FolderOf[r] \in Folders
  BY RunsAssumption

LEMMA Initially == Init => IInv /\ FirstLife /\ Collected
  <1> SUFFICES ASSUME Init PROVE IInv /\ FirstLife /\ Collected
    OBVIOUS
  <1>1. TypeOK
    <2>1. 0 \in 0..MaxFollowUps /\ 0 \in 0..MaxRestarts
      BY RunsAssumption
    <2>2. <<>> \in Seq(Block) /\ <<>> \in Seq(Runs)
      OBVIOUS
    <2>3. /\ host \in [Runs -> InProgress \cup {"new", "done", "lost"}]
          /\ agent \in [Runs -> {"none", "thinking", "polling", "gone"}]
          /\ closeReq \in [Runs -> BOOLEAN] /\ cleared \in [Runs -> BOOLEAN]
          /\ result \in [Runs -> Block \cup {"none"}]
      BY DEF Init
    <2>4. unread \in [Runs -> Seq(Block)] /\ outputs \in [Runs -> Seq(Block)]
      BY <2>2 DEF Init
    <2>5. chat \in [Jids -> Seq(Runs)]
      BY <2>2 DEF Init
    <2>6. /\ typing \in [Jids -> BOOLEAN]
          /\ groupFolder \in [Jids -> Folders \cup {None}]
          /\ sentinel \in [Folders -> BOOLEAN]
          /\ toRecover \subseteq Folders
      BY DEF Init
    <2>7. /\ inbox \in [Folders -> 0..MaxFollowUps]
          /\ sent \in 0..MaxFollowUps /\ restarts \in 0..MaxRestarts
      BY <2>1 DEF Init
    <2> QED BY <2>3, <2>4, <2>5, <2>6, <2>7 DEF TypeOK
  <1>2. AgentFollowsHost /\ FollowUpsWereSent
    BY DEF Init, AgentFollowsHost, FollowUpsWereSent
  <1>3. TypingIsOwned
    BY DEF Init, TypingIsOwned, TypingMeansWorking
  <1>4. QueueIsObeyed
    BY RunsAssumption DEF Init, QueueIsObeyed, InProgress
  <1>5. ChatIsGrouped
    <2>1. Len(<<>>) = 0
      OBVIOUS
    <2>2. \A j \in Jids : 1..Len(chat[j]) = {}
      BY <2>1 DEF Init
    <2> QED BY <2>2 DEF ChatIsGrouped
  <1>6. SentinelReachesAgent /\ CollectedToTheEnd
    BY DEF Init, SentinelReachesAgent, CollectedToTheEnd
  <1> QED BY <1>1, <1>2, <1>3, <1>4, <1>5, <1>6 DEF IInv, FirstLife, Collected

(* A reply is stored at the end of the chat, or nothing is. *)
LEMMA ChatTypes ==
  ASSUME TypeOK, NEW r \in Runs, Replies(r) \/ UNCHANGED chat
  PROVE  chat' \in [Jids -> Seq(Runs)]
  <1>1. Append(chat[JidOf[r]], r) \in Seq(Runs)
    BY RunTypes, AppendProperties DEF TypeOK
  <1> QED BY <1>1, RunTypes DEF TypeOK, Replies

(* What the blocks in the pipe are. *)
LEMMA HeadTypes ==
  ASSUME NEW s \in Seq(Block), s # <<>>
  PROVE  Head(s) \in Block /\ Tail(s) \in Seq(Block)
  BY HeadTailProperties

LEMMA FinallyTypes ==
  ASSUME TypeOK, NEW r \in Runs, Finally(r)
  PROVE  typing' \in [Jids -> BOOLEAN]
  BY RunTypes DEF TypeOK, Finally

(* A run that ends. *)
LEMMA EndTypes ==
  ASSUME TypeOK, NEW r \in Runs, NEW res \in Block, Ends(r, res)
  PROVE  /\ host' \in [Runs -> InProgress \cup {"new", "done", "lost"}]
         /\ result' \in [Runs -> Block \cup {"none"}]
         /\ typing' \in [Jids -> BOOLEAN]
  BY FinallyTypes DEF TypeOK, Ends

LEMMA TypesKept == TypeOK /\ FollowUpsWereSent /\ [Next]_vars => TypeOK'
  <1> SUFFICES ASSUME TypeOK, FollowUpsWereSent, [Next]_vars PROVE TypeOK'
    OBVIOUS
  <1>1. ASSUME NEW r \in Runs, Begin(r) PROVE TypeOK'
    <2>1. typing' \in [Jids -> BOOLEAN] /\ toRecover' \subseteq Folders
      BY <1>1, RunTypes DEF TypeOK, Begin, Entered
    <2> QED BY <1>1, <2>1 DEF TypeOK, Begin, InProgress, pipe, files
  <1>2. ASSUME NEW r \in Runs, UnknownGroup(r) PROVE TypeOK'
    BY <1>2 DEF TypeOK, UnknownGroup, pipe, files, boot, Block
  <1>3. ASSUME NEW r \in Runs, Spawn(r) PROVE TypeOK'
    <2>1. groupFolder' \in [Jids -> Folders \cup {None}]
      BY <1>3, RunTypes DEF TypeOK, Spawn
    <2> QED BY <1>3, <2>1 DEF TypeOK, Spawn, InProgress, pipe, files, boot
  <1>4. ASSUME NEW r \in Runs, ReadBlock(r) PROVE TypeOK'
    <2> DEFINE b == Head(unread[r])
    <2>1. unread[r] \in Seq(Block) /\ unread[r] # <<>> /\ outputs[r] \in Seq(Block)
      BY <1>4 DEF TypeOK, ReadBlock
    <2>2. b \in Block /\ Tail(unread[r]) \in Seq(Block)
      BY <2>1, HeadTypes
    <2>3. Append(outputs[r], b) \in Seq(Block)
      BY <2>1, <2>2, AppendProperties
    <2>4. unread' \in [Runs -> Seq(Block)] /\ outputs' \in [Runs -> Seq(Block)]
      BY <1>4, <2>2, <2>3 DEF TypeOK, ReadBlock
    <2>5. chat' \in [Jids -> Seq(Runs)]
      BY <1>4, ChatTypes DEF ReadBlock
    <2>6. cleared' \in [Runs -> BOOLEAN] /\ closeReq' \in [Runs -> BOOLEAN]
      BY <1>4 DEF TypeOK, ReadBlock, Closes
    <2>7. typing' \in [Jids -> BOOLEAN] /\ sentinel' \in [Folders -> BOOLEAN]
      BY <1>4, RunTypes DEF TypeOK, ReadBlock
    <2> QED BY <1>4, <2>4, <2>5, <2>6, <2>7 DEF TypeOK, ReadBlock, boot
  <1>5. ASSUME NEW r \in Runs, Eof(r) PROVE TypeOK'
    BY <1>5, EndTypes DEF TypeOK, Eof, pipe, files, boot
  <1>6. ASSUME NEW r \in Runs, Turn(r) PROVE TypeOK'
    <2>1. ASSUME NEW b \in {"answer", "null"}
          PROVE  unread[r] \o <<b, "null">> \in Seq(Block)
      <3>1. <<b, "null">> \in Seq(Block)
        BY DEF Block
      <3>2. unread[r] \in Seq(Block)
        BY DEF TypeOK
      <3> QED BY <3>1, <3>2, ConcatProperties
    <2>2. \/ UNCHANGED unread
          \/ \E b \in {"answer", "null"} :
               unread' = [unread EXCEPT ![r] = unread[r] \o <<b, "null">>]
      BY <1>6 DEF Turn
    <2>3. unread' \in [Runs -> Seq(Block)]
      BY <2>1, <2>2 DEF TypeOK
    <2> QED BY <1>6, <2>3 DEF TypeOK, Turn, files, boot
  <1>7. ASSUME NEW r \in Runs, WriteError(r) PROVE TypeOK'
    <2>1. Append(unread[r], "error") \in Seq(Block)
      BY AppendProperties DEF TypeOK, Block
    <2> QED BY <1>7, <2>1 DEF TypeOK, WriteError, files, boot
  <1>8. ASSUME NEW r \in Runs, FindSentinel(r) PROVE TypeOK'
    BY <1>8, RunTypes DEF TypeOK, FindSentinel, pipe, boot
  <1>9. ASSUME NEW r \in Runs, FindFollowUp(r) PROVE TypeOK'
    <2>1. inbox' \in [Folders -> 0..MaxFollowUps]
      BY <1>9, RunTypes, RunsAssumption DEF TypeOK, FindFollowUp
    <2> QED BY <1>9, <2>1 DEF TypeOK, FindFollowUp, pipe, boot
  <1>10. ASSUME NEW r \in Runs, SpawnFails(r) PROVE TypeOK'
    <2>1. /\ groupFolder' \in [Jids -> Folders \cup {None}]
          /\ agent' \in [Runs -> {"none", "thinking", "polling", "gone"}]
      BY <1>10, RunTypes DEF TypeOK, SpawnFails
    <2>2. "error" \in Block
      BY DEF Block
    <2> QED BY <1>10, <2>1, <2>2, EndTypes DEF TypeOK, SpawnFails, pipe, files, boot
  <1>11. ASSUME NEW r \in Runs, Silence(r) PROVE TypeOK'
    BY <1>11 DEF TypeOK, Silence, InProgress, pipe, files, boot
  <1>12. ASSUME NEW r \in Runs, RunTimeout(r) PROVE TypeOK'
    <2>1. "error" \in Block
      BY DEF Block
    <2> QED BY <1>12, <2>1, EndTypes DEF TypeOK, RunTimeout, Kill, pipe, files, boot
  <1>13. ASSUME NEW r \in Runs, CollectError(r) PROVE TypeOK'
    <2>1. "error" \in Block
      BY DEF Block
    <2> QED BY <1>13, <2>1, EndTypes, ChatTypes DEF TypeOK, CollectError, Kill, pipe, files, boot
  <1>14. ASSUME NEW r \in Runs, Crash(r) PROVE TypeOK'
    BY <1>14 DEF TypeOK, Crash, pipe, files, boot
  <1>15. ASSUME NEW j \in Jids, SendMessage(j) PROVE TypeOK'
    <2>1. /\ groupFolder[j] \in Folders /\ sent < MaxFollowUps
          /\ inbox[groupFolder[j]] <= sent
      BY <1>15 DEF TypeOK, FollowUpsWereSent, SendMessage
    <2>2. inbox' \in [Folders -> 0..MaxFollowUps] /\ sent' \in 0..MaxFollowUps
      BY <1>15, <2>1, RunsAssumption DEF TypeOK, SendMessage
    <2> QED BY <1>15, <2>2 DEF TypeOK, SendMessage, pipe, boot
  <1>16. ASSUME Restart PROVE TypeOK'
    <2>1. restarts' \in 0..MaxRestarts
      BY <1>16, RunsAssumption DEF TypeOK, Restart
    <2>2. agent' \in [Runs -> {"none", "thinking", "polling", "gone"}]
      BY <1>16 DEF TypeOK, Restart
    <2>3. host' \in [Runs -> InProgress \cup {"new", "done", "lost"}]
      BY <1>16 DEF TypeOK, Restart
    <2>4. /\ typing' \in [Jids -> BOOLEAN]
          /\ groupFolder' \in [Jids -> Folders \cup {None}]
          /\ toRecover' \subseteq Folders
      BY <1>16 DEF Restart
    <2> QED BY <1>16, <2>1, <2>2, <2>3, <2>4 DEF TypeOK, Restart, pipe, files
  <1>17. CASE UNCHANGED vars
    BY <1>17 DEF TypeOK, vars
  <1> QED
    BY <1>1, <1>2, <1>3, <1>4, <1>5, <1>6, <1>7, <1>8, <1>9, <1>10, <1>11, <1>12, <1>13,
       <1>14, <1>15, <1>16, <1>17
    DEF Next, HostStep, AgentStep, Trouble

-----------------------------------------------------------------------------
(* The agent ends before its run does.                                     *)

(* Whatever ends a run kills its agent or has found it dead. *)
LEMMA AgentFollows == IInv /\ [Next]_vars => AgentFollowsHost'
  <1> SUFFICES ASSUME IInv, [Next]_vars PROVE AgentFollowsHost'
    OBVIOUS
  <1> USE DEF IInv, Alive
  <1>1. ASSUME NEW r \in Runs, Begin(r) PROVE AgentFollowsHost'
    BY <1>1 DEF AgentFollowsHost, TypeOK, Begin, pipe
  <1>2. ASSUME NEW r \in Runs, UnknownGroup(r) PROVE AgentFollowsHost'
    BY <1>2 DEF AgentFollowsHost, TypeOK, UnknownGroup, pipe
  <1>3. ASSUME NEW r \in Runs, Spawn(r) PROVE AgentFollowsHost'
    BY <1>3 DEF AgentFollowsHost, TypeOK, Spawn, pipe
  <1>4. ASSUME NEW r \in Runs, ReadBlock(r) PROVE AgentFollowsHost'
    BY <1>4 DEF AgentFollowsHost, TypeOK, ReadBlock
  <1>5. ASSUME NEW r \in Runs, Eof(r) PROVE AgentFollowsHost'
    BY <1>5 DEF AgentFollowsHost, TypeOK, Eof, Ends, pipe
  <1>6. ASSUME NEW r \in Runs, Turn(r) PROVE AgentFollowsHost'
    BY <1>6 DEF AgentFollowsHost, TypeOK, Turn
  <1>7. ASSUME NEW r \in Runs, WriteError(r) PROVE AgentFollowsHost'
    BY <1>7 DEF AgentFollowsHost, TypeOK, WriteError
  <1>8. ASSUME NEW r \in Runs, FindSentinel(r) PROVE AgentFollowsHost'
    BY <1>8 DEF AgentFollowsHost, TypeOK, FindSentinel, pipe
  <1>9. ASSUME NEW r \in Runs, FindFollowUp(r) PROVE AgentFollowsHost'
    BY <1>9 DEF AgentFollowsHost, TypeOK, FindFollowUp, pipe
  <1>10. ASSUME NEW r \in Runs, SpawnFails(r) PROVE AgentFollowsHost'
    BY <1>10 DEF AgentFollowsHost, TypeOK, SpawnFails, Ends, pipe
  <1>11. ASSUME NEW r \in Runs, Silence(r) PROVE AgentFollowsHost'
    BY <1>11 DEF AgentFollowsHost, TypeOK, Silence, pipe
  <1>12. ASSUME NEW r \in Runs, RunTimeout(r) PROVE AgentFollowsHost'
    BY <1>12 DEF AgentFollowsHost, TypeOK, RunTimeout, Kill, Ends, pipe
  <1>13. ASSUME NEW r \in Runs, CollectError(r) PROVE AgentFollowsHost'
    BY <1>13 DEF AgentFollowsHost, TypeOK, CollectError, Kill, Ends, pipe
  <1>14. ASSUME NEW r \in Runs, Crash(r) PROVE AgentFollowsHost'
    BY <1>14 DEF AgentFollowsHost, TypeOK, Crash, pipe
  <1>15. ASSUME NEW j \in Jids, SendMessage(j) PROVE AgentFollowsHost'
    BY <1>15 DEF AgentFollowsHost, SendMessage, pipe
  <1>16. ASSUME Restart PROVE AgentFollowsHost'
    BY <1>16 DEF AgentFollowsHost, TypeOK, Restart, InProgress, pipe
  <1>17. CASE UNCHANGED vars
    BY <1>17 DEF AgentFollowsHost, vars
  <1> QED
    BY <1>1, <1>2, <1>3, <1>4, <1>5, <1>6, <1>7, <1>8, <1>9, <1>10, <1>11, <1>12, <1>13,
       <1>14, <1>15, <1>16, <1>17
    DEF Next, HostStep, AgentStep, Trouble

LEMMA FollowUpsSent == IInv /\ [Next]_vars => FollowUpsWereSent'
  <1> SUFFICES ASSUME IInv, [Next]_vars PROVE FollowUpsWereSent'
    OBVIOUS
  <1>1. \/ UNCHANGED <<inbox, sent>>
        \/ \E r \in Runs : FindFollowUp(r)
        \/ \E j \in Jids : SendMessage(j)
    BY DEF Next, HostStep, AgentStep, Trouble, Begin, UnknownGroup, Spawn, ReadBlock, Eof, Turn,
           WriteError, FindSentinel, SpawnFails, Silence, RunTimeout, CollectError, Crash,
           Restart, files, vars
  <1>2. /\ inbox \in [Folders -> 0..MaxFollowUps] /\ sent \in 0..MaxFollowUps
        /\ MaxFollowUps \in Nat /\ FollowUpsWereSent
    BY RunsAssumption DEF IInv, TypeOK
  <1>3. CASE UNCHANGED <<inbox, sent>>
    BY <1>2, <1>3 DEF FollowUpsWereSent
  <1>4. ASSUME NEW r \in Runs, FindFollowUp(r) PROVE FollowUpsWereSent'
    BY <1>2, <1>4 DEF FollowUpsWereSent, FindFollowUp
  <1>5. ASSUME NEW j \in Jids, SendMessage(j) PROVE FollowUpsWereSent'
    BY <1>2, <1>5 DEF FollowUpsWereSent, SendMessage
  <1> QED BY <1>1, <1>3, <1>4, <1>5

-----------------------------------------------------------------------------
(* The typing indicator.                                                   *)

(* A run that ends takes its indicator back. *)
LEMMA EndTakesTypingBack ==
  ASSUME TypeOK, TypingIsOwned, NEW r \in Runs, NEW res, Ends(r, res), UNCHANGED cleared
  PROVE  TypingIsOwned'
  <1>1. ASSUME NEW j \in Jids, typing'[j] PROVE typing[j]
    BY <1>1, RunTypes DEF Ends, Finally, TypeOK
  <1>2. ASSUME NEW j \in Jids, typing'[j]
        PROVE  \E q \in Messages : JidOf[q] = j /\ host'[q] \in InProgress /\ ~ cleared'[q]
    <2>1. PICK q \in Messages : JidOf[q] = j /\ host[q] \in InProgress /\ ~ cleared[q]
      BY <1>1, <1>2 DEF TypingIsOwned, TypingMeansWorking
    <2>2. q # r
      <3>1. SUFFICES ASSUME q = r PROVE FALSE
        OBVIOUS
      <3>2. j \in HasChannel
        BY <1>1, <1>2 DEF TypingIsOwned
      <3>3. ~ typing'[j]
        BY <2>1, <3>1, <3>2, RunTypes DEF Ends, Finally, TypeOK
      <3> QED BY <1>2, <3>3
    <2>3. host'[q] = host[q]
      BY <2>2, RunsAssumption DEF Ends, TypeOK
    <2> QED BY <2>1, <2>3
  <1> QED BY <1>1, <1>2 DEF TypingIsOwned, TypingMeansWorking

(* A step that touches neither the indicator nor what it tells of. *)
LEMMA TypingUntouched ==
  ASSUME TypingIsOwned, UNCHANGED <<typing, cleared>>,
         \A q \in Runs : host[q] \in InProgress => host'[q] \in InProgress
  PROVE  TypingIsOwned'
  BY RunsAssumption DEF TypingIsOwned, TypingMeansWorking

LEMMA TypingKept == IInv /\ [Next]_vars => TypingIsOwned'
  <1> SUFFICES ASSUME IInv, [Next]_vars PROVE TypingIsOwned'
    OBVIOUS
  <1> USE DEF IInv
  <1>1. ASSUME NEW r \in Runs, Begin(r) PROVE TypingIsOwned'
    <2>1. /\ UNCHANGED cleared /\ host'[r] \in InProgress /\ ~ cleared[r]
          /\ \A q \in Runs : host[q] \in InProgress => host'[q] \in InProgress
      BY <1>1 DEF Begin, TypeOK, InProgress, AgentFollowsHost, pipe
    <2>2. CASE UNCHANGED typing
      BY <2>1, <2>2, TypingUntouched
    <2>3. CASE /\ r \in Messages /\ JidOf[r] \in HasChannel
               /\ typing' = [typing EXCEPT ![JidOf[r]] = TRUE]
      <3>1. ASSUME NEW j \in Jids, typing'[j], j # JidOf[r]
            PROVE  typing[j]
        BY <2>3, <3>1 DEF TypeOK
      <3> QED BY <2>1, <2>3, <3>1, RunsAssumption DEF TypingIsOwned, TypingMeansWorking
    <2> QED BY <1>1, <2>2, <2>3 DEF Begin
  <1>2. ASSUME NEW r \in Runs, UnknownGroup(r) PROVE TypingIsOwned'
    BY <1>2, TypingUntouched DEF UnknownGroup, TypeOK, InProgress, pipe
  <1>3. ASSUME NEW r \in Runs, Spawn(r) PROVE TypingIsOwned'
    BY <1>3, TypingUntouched DEF Spawn, TypeOK, InProgress, pipe
  <1>4. ASSUME NEW r \in Runs, ReadBlock(r) PROVE TypingIsOwned'
    <2> DEFINE told == Head(unread[r]) # "null" /\ JidOf[r] \in HasChannel
    <2>1. /\ UNCHANGED host
          /\ cleared' = [cleared EXCEPT ![r] = cleared[r] \/ told]
          /\ typing' = IF told /\ ~ cleared[r] THEN [typing EXCEPT ![JidOf[r]] = FALSE] ELSE typing
      BY <1>4 DEF ReadBlock
    <2>2. ASSUME NEW j \in Jids, typing'[j] PROVE typing[j]
      BY <2>1, <2>2 DEF TypeOK
    <2>3. ASSUME NEW j \in Jids, typing'[j]
          PROVE  \E q \in Messages : JidOf[q] = j /\ host'[q] \in InProgress /\ ~ cleared'[q]
      <3>1. PICK q \in Messages : JidOf[q] = j /\ host[q] \in InProgress /\ ~ cleared[q]
        BY <2>2, <2>3 DEF TypingIsOwned, TypingMeansWorking
      <3>2. q = r => ~ told
        BY <2>1, <2>3, <3>1, RunTypes DEF TypeOK
      <3>3. ~ cleared'[q]
        BY <2>1, <3>1, <3>2, RunsAssumption DEF TypeOK
      <3> QED BY <2>1, <3>1, <3>3
    <2> QED BY <2>2, <2>3 DEF TypingIsOwned, TypingMeansWorking
  <1>5. ASSUME NEW r \in Runs, Eof(r) PROVE TypingIsOwned'
    BY <1>5, EndTakesTypingBack DEF Eof, pipe
  <1>6. ASSUME NEW r \in Runs, AgentStep(r) PROVE TypingIsOwned'
    BY <1>6, TypingUntouched DEF AgentStep, Turn, WriteError, FindSentinel, FindFollowUp, pipe
  <1>7. ASSUME NEW r \in Runs, SpawnFails(r) PROVE TypingIsOwned'
    BY <1>7, EndTakesTypingBack DEF SpawnFails, pipe
  <1>8. ASSUME NEW r \in Runs, Silence(r) PROVE TypingIsOwned'
    BY <1>8, TypingUntouched DEF Silence, TypeOK, InProgress, pipe
  <1>9. ASSUME NEW r \in Runs, RunTimeout(r) PROVE TypingIsOwned'
    BY <1>9, EndTakesTypingBack DEF RunTimeout, pipe
  <1>10. ASSUME NEW r \in Runs, CollectError(r) PROVE TypingIsOwned'
    BY <1>10, EndTakesTypingBack DEF CollectError, pipe
  <1>11. ASSUME NEW r \in Runs, Crash(r) PROVE TypingIsOwned'
    BY <1>11, TypingUntouched DEF Crash, pipe
  <1>12. ASSUME NEW j \in Jids, SendMessage(j) PROVE TypingIsOwned'
    BY <1>12, TypingUntouched DEF SendMessage, pipe
  <1>13. ASSUME Restart PROVE TypingIsOwned'
    BY <1>13 DEF Restart, TypingIsOwned, TypingMeansWorking
  <1>14. CASE UNCHANGED vars
    BY <1>14, TypingUntouched DEF vars
  <1> QED
    BY <1>1, <1>2, <1>3, <1>4, <1>5, <1>6, <1>7, <1>8, <1>9, <1>10, <1>11, <1>12, <1>13, <1>14
    DEF Next, HostStep, Trouble

LEMMA Inductive == IInv /\ [Next]_vars => IInv'
  BY TypesKept, AgentFollows, FollowUpsSent, TypingKept DEF IInv

LEMMA AlwaysIInv == Spec => []IInv
  BY Initially, Inductive, PTL DEF Spec

(* The types of the variables; a file _close is only written for a folder  *)
(* that on_process has registered.                                         *)
THEOREM Typing == Spec => []TypeOK
  <1>1. IInv => TypeOK
    BY DEF IInv
  <1> QED BY <1>1, AlwaysIInv, PTL

(* run_subprocess_agent leaves no agent behind, on none of its ways out:   *)
(* once a run is done, its agent is dead.                                  *)
THEOREM AgentEnds == Spec => []AgentEndsWithRun
  <1>1. IInv => AgentEndsWithRun
    BY DEF IInv, AgentFollowsHost, AgentEndsWithRun
  <1> QED BY <1>1, AlwaysIInv, PTL

(* The typing indicator of a chat means that a message run of the chat is  *)
(* in progress and has told the chat nothing, after any failure and any    *)
(* restart.                                                                *)
THEOREM TypingIsHonest == Spec => []TypingMeansWorking
  <1>1. IInv => TypingMeansWorking
    BY DEF IInv, TypingIsOwned
  <1> QED BY <1>1, AlwaysIInv, PTL

-----------------------------------------------------------------------------
(* The first life of the host.                                             *)

(* As long as the host lives, a run that has been spawned is never new     *)
(* again, and one that is not in progress does not come back.              *)
Onward ==
  \A q \in Runs : host[q] \notin {"new", "spawning"} =>
    /\ host'[q] \notin {"new", "spawning"}
    /\ host'[q] \in InProgress => host[q] \in InProgress

LEMMA NotRestarted == TypeOK /\ restarts' = restarts => ~ Restart
  BY RunsAssumption DEF TypeOK, Restart

(* There is no way back into the first life. *)
LEMMA LivesAreCounted == TypeOK /\ [Next]_vars /\ restarts' = 0 => restarts = 0
  BY RunsAssumption
  DEF TypeOK, Next, HostStep, AgentStep, Trouble, Begin, UnknownGroup, Spawn, ReadBlock, Eof,
      Turn, WriteError, FindSentinel, FindFollowUp, SpawnFails, Silence, RunTimeout,
      CollectError, Crash, SendMessage, Restart, boot, vars

LEMMA HostsAdvance ==
  ASSUME TypeOK, [Next]_vars, restarts' = restarts
  PROVE  Onward
  <1> USE DEF TypeOK, Onward, InProgress
  <1>1. ASSUME NEW r \in Runs, Begin(r) \/ UnknownGroup(r) PROVE Onward
    BY <1>1 DEF Begin, UnknownGroup
  <1>2. ASSUME NEW r \in Runs, HostStep(r) PROVE Onward
    BY <1>2 DEF HostStep, Spawn, ReadBlock, Eof, Ends
  <1>3. ASSUME NEW r \in Runs, AgentStep(r) PROVE Onward
    BY <1>3 DEF AgentStep, Turn, WriteError, FindSentinel, FindFollowUp
  <1>4. ASSUME NEW r \in Runs, Trouble(r) PROVE Onward
    BY <1>4 DEF Trouble, SpawnFails, Silence, RunTimeout, CollectError, Crash, Ends
  <1>5. ASSUME NEW j \in Jids, SendMessage(j) PROVE Onward
    BY <1>5 DEF SendMessage
  <1>6. CASE UNCHANGED vars
    BY <1>6 DEF vars
  <1> QED BY <1>1, <1>2, <1>3, <1>4, <1>5, <1>6, NotRestarted DEF Next

(* A chat gets nothing but the replies of a run that is being collected. *)
LEMMA ChatSteps ==
  ASSUME TypeOK, [Next]_vars
  PROVE  \/ UNCHANGED chat
         \/ \E r \in Runs : host[r] = "collecting" /\ Replies(r)
  BY DEF Next, HostStep, AgentStep, Trouble, Begin, UnknownGroup, Spawn, ReadBlock, Eof, Turn,
         WriteError, FindSentinel, FindFollowUp, SpawnFails, Silence, RunTimeout, CollectError,
         Crash, SendMessage, Restart, vars

(* A run in progress stays so or ends: that lets nobody in. *)
LEMMA RunMoves ==
  ASSUME TypeOK, QueueIsObeyed, UNCHANGED toRecover,
         NEW r \in Runs, host[r] \in InProgress,
         NEW v \in InProgress \cup {"done"}, host' = [host EXCEPT ![r] = v]
  PROVE  QueueIsObeyed'
  <1>1. r \notin Direct /\ v # "lost"
    BY DEF QueueIsObeyed, InProgress
  <1>2. \A q \in Direct : host'[q] = "new"
    BY <1>1, RunsAssumption DEF QueueIsObeyed, TypeOK
  <1>3. \A q \in Runs : host'[q] # "lost" /\ (host'[q] \in InProgress => host[q] \in InProgress)
    BY <1>1 DEF QueueIsObeyed, TypeOK
  <1> QED BY <1>2, <1>3 DEF QueueIsObeyed

LEMMA QueueKept ==
  ASSUME TypeOK, QueueIsObeyed, [Next]_vars, restarts' = restarts
  PROVE  QueueIsObeyed'
  <1> USE DEF TypeOK, QueueIsObeyed, InProgress
  <1>1. ASSUME NEW r \in Runs, Begin(r) PROVE QueueIsObeyed'
    <2>1. r \notin Direct /\ UNCHANGED toRecover
      BY <1>1 DEF Begin, Admitted, Entered
    <2>2. \A q \in Runs : JidOf[q] = JidOf[r] => host[q] \notin InProgress
      BY <1>1, <2>1 DEF Begin, Admitted
    <2>3. host' = [host EXCEPT ![r] = "spawning"]
      BY <1>1 DEF Begin
    <2>4. /\ \A q \in Runs : host'[q] # "lost"
          /\ \A q \in Direct : host'[q] = "new"
      BY <2>1, <2>3, RunsAssumption
    <2>5. ASSUME NEW p \in Runs, NEW q \in Runs,
                 host'[p] \in InProgress, host'[q] \in InProgress, JidOf[p] = JidOf[q]
          PROVE  p = q
      BY <2>2, <2>3, <2>5
    <2> QED BY <2>1, <2>4, <2>5
  <1>2. ASSUME NEW r \in Runs, UnknownGroup(r) PROVE QueueIsObeyed'
    BY <1>2, RunsAssumption DEF UnknownGroup, boot
  <1>3. ASSUME NEW r \in Runs, HostStep(r) PROVE QueueIsObeyed'
    <2>1. CASE Spawn(r)
      BY <2>1, RunMoves DEF Spawn, boot
    <2>2. CASE ReadBlock(r)
      BY <2>2 DEF ReadBlock, boot
    <2>3. CASE Eof(r)
      BY <2>3, RunMoves DEF Eof, Ends, boot
    <2> QED BY <1>3, <2>1, <2>2, <2>3 DEF HostStep
  <1>4. ASSUME NEW r \in Runs, AgentStep(r) PROVE QueueIsObeyed'
    BY <1>4 DEF AgentStep, Turn, WriteError, FindSentinel, FindFollowUp, boot
  <1>5. ASSUME NEW r \in Runs, Trouble(r) PROVE QueueIsObeyed'
    <2>1. CASE SpawnFails(r) \/ RunTimeout(r) \/ CollectError(r)
      BY <2>1, RunMoves DEF SpawnFails, RunTimeout, CollectError, Ends, boot
    <2>2. CASE Silence(r)
      BY <2>2, RunMoves DEF Silence, boot
    <2>3. CASE Crash(r)
      BY <2>3 DEF Crash, boot
    <2> QED BY <1>5, <2>1, <2>2, <2>3 DEF Trouble
  <1>6. ASSUME NEW j \in Jids, SendMessage(j) PROVE QueueIsObeyed'
    BY <1>6 DEF SendMessage, boot
  <1>7. CASE UNCHANGED vars
    BY <1>7 DEF vars
  <1> QED BY <1>1, <1>2, <1>3, <1>4, <1>5, <1>6, <1>7, NotRestarted DEF Next

(* Hosts advance under a chat that stays as it is. *)
LEMMA ChatStays ==
  ASSUME TypeOK, ChatIsGrouped, Onward, UNCHANGED chat
  PROVE  ChatIsGrouped'
  <1>1. \A j \in Jids : \A i \in 1..Len(chat[j]) : chat[j][i] \in Runs
    BY ElementOfSeq DEF TypeOK
  <1> QED BY <1>1 DEF ChatIsGrouped, Onward

(* The run that posts is the one run of its chat in progress, so whatever  *)
(* else stands in the chat belongs to runs that have ended.                *)
LEMMA ChatGrows ==
  ASSUME TypeOK, QueueIsObeyed, ChatIsGrouped, Onward,
         NEW r \in Runs, host[r] = "collecting", Replies(r)
  PROVE  ChatIsGrouped'
  <1> DEFINE J == JidOf[r]
             n == Len(chat[J])
  <1>1. J \in Jids /\ chat[J] \in Seq(Runs) /\ n \in Nat
    BY RunTypes DEF TypeOK
  <1>2. chat' = [chat EXCEPT ![J] = Append(chat[J], r)]
    BY DEF Replies
  <1>3. /\ chat'[J] = Append(chat[J], r)
        /\ \A j \in Jids : j # J => chat'[j] = chat[j]
    BY <1>1, <1>2 DEF TypeOK
  <1>4. /\ Len(chat'[J]) = n + 1
        /\ chat'[J][n + 1] = r
        /\ \A i \in 1..n : chat'[J][i] = chat[J][i]
    BY <1>1, <1>3, AppendProperties
  <1>5. host'[r] \notin {"new", "spawning"}
    BY DEF Onward
  <1>6. \A j \in Jids : \A i \in 1..Len(chat[j]) : chat[j][i] \in Runs
    BY ElementOfSeq DEF TypeOK
  <1>7. \A i \in 1..n : host[chat[J][i]] \in InProgress => chat[J][i] = r
    BY <1>1, <1>6 DEF QueueIsObeyed, ChatIsGrouped, InProgress
  <1>8. \A i \in 1..n : host'[chat[J][i]] \in InProgress => host[chat[J][i]] \in InProgress
    BY <1>1, <1>6 DEF Onward, ChatIsGrouped
  <1>9. ASSUME NEW j \in Jids
        PROVE  /\ \A i \in 1..Len(chat'[j]) :
                    JidOf[chat'[j][i]] = j /\ host'[chat'[j][i]] \notin {"new", "spawning"}
               /\ \A i, k \in 1..Len(chat'[j]) :
                    i < k /\ host'[chat'[j][i]] \in InProgress => chat'[j][k] = chat'[j][i]
               /\ \A i, k, l \in 1..Len(chat'[j]) :
                    i < k /\ k < l /\ chat'[j][i] = chat'[j][l] => chat'[j][k] = chat'[j][i]
    <2>1. CASE j # J
      BY <1>3, <1>6, <2>1 DEF ChatIsGrouped, Onward
    <2>2. CASE j = J
      <3>1. ASSUME NEW i \in 1..n + 1
            PROVE  JidOf[chat'[J][i]] = J /\ host'[chat'[J][i]] \notin {"new", "spawning"}
        <4>1. CASE i = n + 1
          BY <1>4, <1>5, <4>1
        <4>2. CASE i \in 1..n
          BY <1>1, <1>4, <1>6, <4>2 DEF ChatIsGrouped, Onward
        <4> QED BY <1>1, <4>1, <4>2
      <3>2. ASSUME NEW i \in 1..n + 1, NEW k \in 1..n + 1,
                   i < k, host'[chat'[J][i]] \in InProgress
            PROVE  chat'[J][k] = chat'[J][i]
        <4>1. i \in 1..n /\ chat'[J][i] = chat[J][i]
          BY <1>1, <1>4, <3>2
        <4>2. host[chat[J][i]] \in InProgress /\ chat[J][i] = r
          BY <1>7, <1>8, <3>2, <4>1
        <4>3. k \in 1..n => chat[J][k] = chat[J][i]
          BY <1>1, <3>2, <4>1, <4>2 DEF ChatIsGrouped
        <4> QED BY <1>1, <1>4, <4>1, <4>2, <4>3
      <3>3. ASSUME NEW i \in 1..n + 1, NEW k \in 1..n + 1, NEW l \in 1..n + 1,
                   i < k, k < l, chat'[J][i] = chat'[J][l]
            PROVE  chat'[J][k] = chat'[J][i]
        <4>1. /\ i \in 1..n /\ chat'[J][i] = chat[J][i]
              /\ k \in 1..n /\ chat'[J][k] = chat[J][k]
          BY <1>1, <1>4, <3>3
        <4>2. CASE l = n + 1
          <5>1. host[chat[J][i]] \in InProgress
            BY <1>4, <3>3, <4>1, <4>2 DEF InProgress
          <5> QED BY <1>1, <3>3, <4>1, <5>1 DEF ChatIsGrouped
        <4>3. CASE l \in 1..n
          <5>1. chat[J][i] = chat[J][l]
            BY <1>4, <3>3, <4>1, <4>3
          <5>2. chat[J][k] = chat[J][i]
            BY <1>1, <3>3, <4>1, <4>3, <5>1 DEF ChatIsGrouped
          <5> QED BY <4>1, <5>2
        <4> QED BY <1>1, <4>2, <4>3
      <3> QED BY <1>4, <2>2, <3>1, <3>2, <3>3
    <2> QED BY <2>1, <2>2
  <1> QED BY <1>9 DEF ChatIsGrouped

LEMMA FirstLifeKept == IInv /\ FirstLife /\ [Next]_vars => FirstLife'
  <1> SUFFICES ASSUME IInv, FirstLife, [Next]_vars, restarts' = 0
               PROVE  QueueIsObeyed' /\ ChatIsGrouped'
    BY DEF FirstLife
  <1>1. restarts = 0
    BY LivesAreCounted DEF IInv
  <1>2. TypeOK /\ QueueIsObeyed /\ ChatIsGrouped /\ restarts' = restarts
    BY <1>1 DEF IInv, FirstLife
  <1>3. QueueIsObeyed' /\ Onward
    BY <1>2, QueueKept, HostsAdvance
  <1>4. ChatIsGrouped'
    BY <1>2, <1>3, ChatSteps, ChatStays, ChatGrows
  <1> QED BY <1>3, <1>4

LEMMA AlwaysFirstLife == Spec => [](IInv /\ FirstLife)
  <1>1. IInv /\ FirstLife /\ [Next]_vars => (IInv /\ FirstLife)'
    BY Inductive, FirstLifeKept
  <1> QED BY Initially, <1>1, PTL DEF Spec

(* The replies of a run stand together in the chat until the host is       *)
(* started again: on_output of a later run can not come before the last    *)
(* reply of an earlier one.                                                *)
THEOREM RepliesStandTogether == Spec => []RepliesDoNotInterleave
  <1>1. FirstLife => RepliesDoNotInterleave
    BY DEF FirstLife, ChatIsGrouped, RepliesDoNotInterleave
  <1> QED BY <1>1, AlwaysFirstLife, PTL

LEMMA FolderIsOwned ==
  ASSUME FoldersHaveOneChat, AgentFollowsHost, QueueIsObeyed, TypeOK,
         NEW q \in Runs, NEW r \in Runs, Alive(q), Alive(r), FolderOf[q] = FolderOf[r]
  PROVE  q = r
  <1>1. host[q] \in InProgress /\ host[r] \in InProgress
    BY DEF TypeOK, AgentFollowsHost, QueueIsObeyed, Alive
  <1>2. JidOf[q] = JidOf[r]
    BY DEF FoldersHaveOneChat
  <1> QED BY <1>1, <1>2 DEF QueueIsObeyed

(* One agent at most works in a folder until the host is started again,    *)
(* when all runs of the folder are queued under one chat, that is, when no *)
(* group has been moved to another JID and no task names another chat.     *)
THEOREM OneAgent ==
  ASSUME FoldersHaveOneChat
  PROVE  Spec => []OneAgentPerFolder
  <1>1. IInv /\ FirstLife => OneAgentPerFolder
    BY FolderIsOwned DEF IInv, FirstLife, OneAgentPerFolder
  <1> QED BY <1>1, AlwaysFirstLife, PTL

-----------------------------------------------------------------------------
(* What is collected.                                                      *)

(* What a turn writes is not nothing. *)
LEMMA TurnWrites ==
  ASSUME NEW s \in Seq(Block), NEW b \in {"answer", "null"}
  PROVE  s \o <<b, "null">> # <<>>
  <1>1. <<b, "null">> \in Seq(Block) /\ Len(<<b, "null">>) = 2
    BY DEF Block
  <1>2. Len(s \o <<b, "null">>) = Len(s) + 2
    BY <1>1, ConcatProperties
  <1>3. Len(s) \in Nat /\ Len(<<>>) = 0
    OBVIOUS
  <1> QED BY <1>2, <1>3

(* The sentinel is only taken away by the agent of the folder, and the     *)
(* folder a chat is registered with only changed by the next run.          *)
LEMMA SentinelKept ==
  ASSUME FoldersHaveOneChat, IInv, QueueIsObeyed, SentinelReachesAgent,
         [Next]_vars, restarts' = restarts
  PROVE  SentinelReachesAgent'
  <1> USE DEF IInv, TypeOK, SentinelReachesAgent, Alive
  <1>0. ASSUME UNCHANGED <<pipe, sentinel, groupFolder>>,
               \A p \in Runs : host'[p] = "collecting" =>
                 host[p] = "collecting" /\ agent'[p] \in {agent[p], "gone"}
        PROVE  SentinelReachesAgent'
    BY <1>0 DEF pipe
  <1>1. ASSUME NEW r \in Runs, Begin(r) \/ UnknownGroup(r) PROVE SentinelReachesAgent'
    <2>1. UNCHANGED <<pipe, sentinel, groupFolder>>
      BY <1>1 DEF Begin, UnknownGroup, files
    <2>2. \A p \in Runs : host'[p] = "collecting" =>
            host[p] = "collecting" /\ agent'[p] \in {agent[p], "gone"}
      BY <1>1 DEF Begin, UnknownGroup
    <2> QED BY <1>0, <2>1, <2>2
  <1>2. ASSUME NEW r \in Runs, host[r] = "spawning", UNCHANGED <<pipe, files>>,
               NEW h \in {"collecting", "done"}, host' = [host EXCEPT ![r] = h],
               NEW a \in {"thinking", "gone"}, agent' = [agent EXCEPT ![r] = a],
               groupFolder' = [groupFolder EXCEPT ![JidOf[r]] = FolderOf[r]]
        PROVE  SentinelReachesAgent'
    <2>1. ASSUME NEW p \in Runs, host'[p] = "collecting", p # r
          PROVE  groupFolder'[JidOf[p]] = groupFolder[JidOf[p]]
      <3>1. JidOf[p] # JidOf[r]
        BY <1>2, <2>1 DEF QueueIsObeyed, InProgress
      <3> QED BY <1>2, <3>1, RunTypes
    <2>2. groupFolder'[JidOf[r]] = FolderOf[r] /\ ~ closeReq[r]
      BY <1>2, RunTypes DEF AgentFollowsHost
    <2> QED BY <1>2, <2>1, <2>2 DEF pipe, files
  <1>3. ASSUME NEW r \in Runs, Spawn(r) PROVE SentinelReachesAgent'
    BY <1>2, <1>3 DEF Spawn
  <1>4. ASSUME NEW r \in Runs, SpawnFails(r) PROVE SentinelReachesAgent'
    <2>1. CASE UNCHANGED <<agent, groupFolder>>
      BY <1>4, <2>1 DEF SpawnFails, Ends, pipe, files
    <2>2. CASE ~ UNCHANGED <<agent, groupFolder>>
      BY <1>2, <1>4, <2>2 DEF SpawnFails, Ends
    <2> QED BY <2>1, <2>2
  <1>5. ASSUME NEW r \in Runs, ReadBlock(r) PROVE SentinelReachesAgent'
    <2>1. /\ UNCHANGED <<host, agent, groupFolder>>
          /\ closeReq' = [closeReq EXCEPT ![r] = TRUE]
          /\ host[r] = "collecting" /\ groupFolder[JidOf[r]] = FolderOf[r]
          /\ unread' = [unread EXCEPT ![r] = Tail(unread[r])]
      BY <1>5 DEF ReadBlock, Closes
    <2>2. /\ \A f \in Folders : sentinel[f] => sentinel'[f]
          /\ ~ closeReq[r] => sentinel'[FolderOf[r]]
      BY <1>5, <2>1, RunTypes DEF ReadBlock, Closes
    <2> QED BY <2>1, <2>2, RunTypes
  <1>6. ASSUME NEW r \in Runs, Eof(r) PROVE SentinelReachesAgent'
    BY <1>6 DEF Eof, Ends, pipe, files
  <1>7. ASSUME NEW r \in Runs, Turn(r) PROVE SentinelReachesAgent'
    <2>1. \/ agent' = [agent EXCEPT ![r] = "gone"] /\ UNCHANGED unread
          \/ agent' = [agent EXCEPT ![r] = "polling"]
             /\ \E b \in {"answer", "null"} :
                  unread' = [unread EXCEPT ![r] = unread[r] \o <<b, "null">>]
      BY <1>7 DEF Turn
    <2>2. agent'[r] = "polling" => unread'[r] # <<>>
      BY <2>1, TurnWrites
    <2>3. Alive(r) /\ \A p \in Runs \ {r} : agent'[p] = agent[p] /\ unread'[p] = unread[p]
      BY <1>7, <2>1 DEF Turn
    <2> QED BY <1>7, <2>2, <2>3 DEF Turn, files
  <1>8. ASSUME NEW r \in Runs, WriteError(r) PROVE SentinelReachesAgent'
    BY <1>8 DEF WriteError, files
  <1>9. ASSUME NEW r \in Runs, FindSentinel(r) PROVE SentinelReachesAgent'
    <2>1. ASSUME NEW p \in Runs, p # r, Alive(p) PROVE FolderOf[p] # FolderOf[r]
      BY <1>9, <2>1, FolderIsOwned DEF FindSentinel
    <2> QED BY <1>9, <2>1, RunTypes DEF FindSentinel, pipe
  <1>10. ASSUME NEW r \in Runs, FindFollowUp(r) PROVE SentinelReachesAgent'
    BY <1>10 DEF FindFollowUp, pipe
  <1>11. ASSUME NEW r \in Runs, Silence(r) \/ Crash(r) PROVE SentinelReachesAgent'
    BY <1>11 DEF Silence, Crash, pipe, files
  <1>12. ASSUME NEW r \in Runs, RunTimeout(r) \/ CollectError(r) PROVE SentinelReachesAgent'
    <2>1. UNCHANGED <<pipe, sentinel, groupFolder>> /\ Ends(r, "error") /\ Kill(r)
      BY <1>12 DEF RunTimeout, CollectError, files
    <2>2. \A p \in Runs : host'[p] = "collecting" =>
            host[p] = "collecting" /\ agent'[p] \in {agent[p], "gone"}
      BY <2>1 DEF Ends, Kill
    <2> QED BY <1>0, <2>1, <2>2
  <1>13. ASSUME NEW j \in Jids, SendMessage(j) PROVE SentinelReachesAgent'
    BY <1>13 DEF SendMessage, pipe
  <1>14. CASE UNCHANGED vars
    BY <1>14 DEF vars
  <1> QED
    BY <1>1, <1>3, <1>4, <1>5, <1>6, <1>7, <1>8, <1>9, <1>10, <1>11, <1>12, <1>13, <1>14,
       NotRestarted
    DEF Next, HostStep, AgentStep, Trouble

(* An agent that is not slow keeps silent only when it polls and finds     *)
(* nothing; but then it has left something to read, or the sentinel is     *)
(* there.                                                                  *)
LEMMA NoSilence ==
  ASSUME IInv, SentinelReachesAgent, NEW r \in Runs \ Slow
  PROVE  ~ Silence(r)
  BY DEF SentinelReachesAgent, Silence, Quiet, Alive

LEMMA CollectionKept ==
  ASSUME IInv, QueueIsObeyed, SentinelReachesAgent, CollectedToTheEnd,
         [Next]_vars, restarts' = restarts
  PROVE  CollectedToTheEnd'
  <1> USE DEF IInv, TypeOK, CollectedToTheEnd
  <1>1. ASSUME NEW r \in Runs, Begin(r) \/ UnknownGroup(r) \/ Spawn(r) PROVE CollectedToTheEnd'
    BY <1>1 DEF Begin, UnknownGroup, Spawn, pipe
  <1>2. ASSUME NEW r \in Runs, ReadBlock(r) PROVE CollectedToTheEnd'
    BY <1>2 DEF ReadBlock
  <1>3. ASSUME NEW r \in Runs, Eof(r) PROVE CollectedToTheEnd'
    BY <1>3 DEF Eof, Ends, pipe
  <1>4. ASSUME NEW r \in Runs, Turn(r) \/ WriteError(r) PROVE CollectedToTheEnd'
    <2>1. host[r] # "done"
      BY <1>4 DEF AgentFollowsHost, Alive, Turn, WriteError
    <2>2. /\ UNCHANGED <<host, result>>
          /\ \A p \in Runs \ {r} : unread'[p] = unread[p]
      BY <1>4 DEF Turn, WriteError
    <2> QED BY <2>1, <2>2
  <1>5. ASSUME NEW r \in Runs, FindSentinel(r) \/ FindFollowUp(r) \/ Crash(r)
        PROVE  CollectedToTheEnd'
    BY <1>5 DEF FindSentinel, FindFollowUp, Crash, pipe
  <1>6. ASSUME NEW r \in Runs, Silence(r) PROVE CollectedToTheEnd'
    <2>1. r \in Slow
      BY <1>6, NoSilence
    <2> QED BY <1>6, <2>1 DEF Silence, pipe
  <1>7. ASSUME NEW r \in Runs, SpawnFails(r) \/ RunTimeout(r) \/ CollectError(r)
        PROVE  CollectedToTheEnd'
    <2>1. Ends(r, "error") /\ UNCHANGED unread
      BY <1>7 DEF SpawnFails, RunTimeout, CollectError, pipe
    <2> QED BY <2>1 DEF Ends
  <1>8. ASSUME NEW j \in Jids, SendMessage(j) PROVE CollectedToTheEnd'
    BY <1>8 DEF SendMessage, pipe
  <1>9. CASE UNCHANGED vars
    BY <1>9 DEF vars
  <1> QED
    BY <1>1, <1>2, <1>3, <1>4, <1>5, <1>6, <1>7, <1>8, <1>9, NotRestarted
    DEF Next, HostStep, AgentStep, Trouble

(* While the host lives, a run that reports an answer has read every       *)
(* answer its agent gave, when its agent is never silent for two seconds   *)
(* and its folder is queued under one chat: the sentinel of on_output      *)
(* reaches this agent, which leaves nothing behind when it exits.          *)
THEOREM NoAnswerIsLost ==
  ASSUME FoldersHaveOneChat
  PROVE  Spec => []SuccessLosesNoAnswer
  <1> DEFINE Whole == IInv /\ FirstLife /\ Collected
  <1>1. Whole /\ [Next]_vars => Whole'
    <2> SUFFICES ASSUME IInv, FirstLife, Collected, [Next]_vars PROVE Whole'
      OBVIOUS
    <2>1. IInv' /\ FirstLife'
      BY Inductive, FirstLifeKept
    <2>2. restarts' = 0 => restarts = 0
      BY LivesAreCounted DEF IInv
    <2>3. restarts' = 0 => SentinelReachesAgent' /\ CollectedToTheEnd'
      BY <2>2, SentinelKept, CollectionKept DEF FirstLife, Collected
    <2> QED BY <2>1, <2>3 DEF Collected
  <1>2. Whole => SuccessLosesNoAnswer
    <2>1. Len(<<>>) = 0
      OBVIOUS
    <2> QED BY <2>1 DEF Collected, CollectedToTheEnd, SuccessLosesNoAnswer
  <1> HIDE DEF Whole
  <1>3. Init => Whole
    BY Initially DEF Whole
  <1> QED BY <1>1, <1>2, <1>3, PTL DEF Spec
=============================================================================
