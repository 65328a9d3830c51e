--------------------------- MODULE SessionsProofs ---------------------------
(***************************************************************************)
(* Proofs about Sessions, for any runs, folders and chats, any even window *)
(* and any number of turns, calls of tools, deaths and restarts.           *)
(***************************************************************************)
EXTENDS Sessions, SequenceTheorems, TLAPS

-----------------------------------------------------------------------------
(* The invariants.                                                         *)

Even(n) == n % 2 = 0

(* What an agent remembers alternates at all times; in a turn it holds the *)
(* prompt of the turn, and between turns it ends with the assistant.       *)
MemoryIsWhole ==
  \A r \in Runs :
    /\ Alternates(memory[r])
    /\ agent[r] = "thinking" => ~ Even(Len(memory[r]))
    /\ agent[r] \in {"saving", "saved", "polling"} => Even(Len(memory[r])) /\ memory[r] # <<>>
    /\ agent[r] \in {"thinking", "saving"} =>
         \E p \in 1..Len(memory[r]) : IsLastPrompt(memory[r], p)

FilesAlternate ==
  \A f \in Folders : file[f] # Torn => Alternates(file[f]) /\ Even(Len(file[f]))

HistoryInv == TypeOK /\ MemoryIsWhole /\ FilesAlternate

(* Whoever tells of a session has saved one, and what was saved once is    *)
(* never taken for nothing.                                                *)
ToldIsSaved ==
  /\ \A r \in Runs : told[r] \/ agent[r] = "saved" => saved[FolderOf[r]] # <<>>
  /\ \A f \in Folders :
       /\ saved[f] # <<>> => file[f] # <<>>
       /\ tracked[f] => saved[f] # <<>>

(* Before the first restart an agent lives, or has told something, only as *)
(* long as its run goes on, and the queue lets one run of a chat go on.    *)
RunsAreQueued ==
  restarts = 0 =>
    /\ \A r \in Runs : host[r] # "lost"
    /\ \A r \in Runs : Alive(r) \/ told[r] => host[r] \in Reading
    /\ \A q, r \in Runs :
         host[q] \in Reading /\ host[r] \in Reading /\ JidOf[q] = JidOf[r] => q = r

(* The condition of ConversationIsKept. *)
Kept(f) == OfOneChat(f) /\ lapses = 0 /\ restarts = 0

(* What an agent knows of the conversation of such a folder: before it     *)
(* starts, whether there is one, in a turn, the latest of what came before *)
(* the turn, and after it the latest of everything.                        *)
AgentKnows(r) ==
  LET f == FolderOf[r] IN
  /\ ~ crossed[r]
  /\ agent[r] = "started" /\ ~ given[r] => saved[f] = <<>>
  /\ agent[r] \in {"thinking", "saving"} =>
       \A p \in 1..Len(memory[r]) : IsLastPrompt(memory[r], p) =>
         Trim(SubSeq(memory[r], 1, p - 1)) = Trim(saved[f])
  /\ agent[r] \in {"saved", "polling"} => Trim(memory[r]) = Trim(saved[f])

(* What the host knows of it: it listens until there is a row, and if      *)
(* there is none, it is about to be told.                                  *)
HostLearns(f) ==
  /\ \A r \in Runs : FolderOf[r] = f /\ host[r] = "deaf" => tracked[f]
  /\ ~ tracked[f] /\ saved[f] # <<>> =>
       \E r \in Runs : FolderOf[r] = f /\ host[r] = "reading" /\ (agent[r] = "saved" \/ told[r])

FolderIsKept(f) ==
  /\ \A r \in Runs : FolderOf[r] = f => AgentKnows(r)
  /\ HostLearns(f)
  /\ file[f] = Trim(saved[f]) \/ \E r \in Runs : FolderOf[r] = f /\ agent[r] = "saving"

FoldersAreKept == \A f \in Folders : Kept(f) => FolderIsKept(f)

(* The condition of HistoryHasNoHoles. *)
FirstLife(f) == OfOneQueue(f) /\ restarts = 0

(* Messages that pass for an end of a conversation. *)
IsEnd(messages, all) ==
  \E p \in 1..Len(all) + 1 : Trim(messages) = Trim(SubSeq(all, p, Len(all)))

(* What an agent remembers of such a folder, or before its turn did, is an *)
(* end of the conversation, however little of it.                          *)
AgentHasEnd(r) ==
  LET f == FolderOf[r] IN
  /\ ~ crossed[r]
  /\ agent[r] \in {"thinking", "saving"} =>
       \A p \in 1..Len(memory[r]) : IsLastPrompt(memory[r], p) =>
         IsEnd(SubSeq(memory[r], 1, p - 1), saved[f])
  /\ agent[r] \in {"saved", "polling"} => IsEnd(memory[r], saved[f])

FolderHasEnd(f) ==
  /\ \A r \in Runs : FolderOf[r] = f => AgentHasEnd(r)
  /\ file[f] # Torn => file[f] = Trim(file[f]) /\ IsEnd(file[f], saved[f])

FoldersHaveEnds == \A f \in Folders : FirstLife(f) => FolderHasEnd(f)

-----------------------------------------------------------------------------
(* Sequences of messages.                                                  *)

LEMMA Parity ==
  ASSUME NEW n \in Nat
  PROVE  /\ n % 2 \in {0, 1}
         /\ Even(n + 1) <=> ~ Even(n)
         /\ Even(n + 2) <=> Even(n)
         /\ (n + 1) % 2 = 1 <=> Even(n)
  BY DEF Even

LEMMA EvenOffset ==
  ASSUME NEW i \in Nat, NEW m \in Nat, NEW n \in Nat, Even(m), Even(n), n <= m
  PROVE  (i + (m - n)) % 2 = i % 2
  BY DEF Even

(* What save_session keeps: the last Window messages, or all. *)
LEMMA TrimProperties ==
  ASSUME NEW s \in Seq(Message)
  PROVE  /\ Trim(s) \in Seq(Message)
         /\ Len(s) <= Window => Trim(s) = s
         /\ Len(Trim(s)) = IF Len(s) <= Window THEN Len(s) ELSE Window
         /\ \A i \in 1..Len(Trim(s)) : Trim(s)[i] = s[i + (Len(s) - Len(Trim(s)))]
  <1>1. Len(s) \in Nat /\ Window \in Nat \ {0}
    BY SessionsAssumption
  <1>2. CASE Len(s) <= Window
    BY <1>1, <1>2 DEF Trim
  <1>3. CASE Len(s) > Window
    <2> DEFINE m == (Len(s) - Window) + 1
               t == SubSeq(s, m, Len(s))
    <2>1. Trim(s) = t
      BY <1>1, <1>3 DEF Trim
    <2>2. /\ m \in Int /\ Len(s) \in Int /\ m <= Len(s)
          /\ Len(s) - m + 1 = Window
      BY <1>1, <1>3
    <2>3. \A i \in m..Len(s) : s[i] \in Message
      BY <1>1, <1>3, ElementOfSeq
    <2>4. /\ t \in Seq(Message) /\ Len(t) = Window
          /\ \A i \in 1..Window : t[i] = s[m + i - 1]
      BY <2>2, <2>3, SubSeqProperties
    <2>5. \A i \in 1..Window : m + i - 1 = i + (Len(s) - Window)
      BY <1>1
    <2>6. Len(Trim(s)) = Window /\ ~ Len(s) <= Window
      BY <1>1, <1>3, <2>1, <2>4
    <2>7. \A i \in 1..Window : Trim(s)[i] = s[i + (Len(s) - Window)]
      BY <2>1, <2>4, <2>5
    <2> QED BY <2>1, <2>4, <2>6, <2>7
  <1> QED BY <1>1, <1>2, <1>3

LEMMA TrimTwice ==
  ASSUME NEW s \in Seq(Message)
  PROVE  Trim(Trim(s)) = Trim(s)
  BY TrimProperties

(* A turn that is added to two histories with the same end makes two       *)
(* histories with the same end.                                            *)
LEMMA TrimAppended ==
  ASSUME NEW a \in Seq(Message), NEW b \in Seq(Message), NEW t \in Seq(Message),
         Trim(a) = Trim(b)
  PROVE  Trim(a \o t) = Trim(b \o t)
  <1> DEFINE la == Len(a)
             lb == Len(b)
             lt == Len(t)
  <1>1. la \in Nat /\ lb \in Nat /\ lt \in Nat /\ Window \in Nat \ {0}
    BY SessionsAssumption
  <1>2. CASE la < Window \/ lb < Window
    <2>1. la < Window /\ lb < Window
      <3>1. /\ Len(Trim(a)) = IF la <= Window THEN la ELSE Window
            /\ Len(Trim(b)) = IF lb <= Window THEN lb ELSE Window
        BY TrimProperties
      <3> QED BY <1>1, <1>2, <3>1
    <2>2. a = b
      BY <1>1, <2>1, TrimProperties
    <2> QED BY <2>2
  <1>3. CASE la >= Window /\ lb >= Window
    <2>1. Len(Trim(a)) = Window /\ Len(Trim(b)) = Window
      BY <1>1, <1>3, TrimProperties
    <2>2. ASSUME NEW s \in Seq(Message), Len(s) >= Window, Len(Trim(s)) = Window
          PROVE  /\ Trim(s \o t) \in Seq(Message)
                 /\ Len(Trim(s \o t)) = Window
                 /\ \A i \in 1..Window :
                      Trim(s \o t)[i] = IF i + lt <= Window THEN Trim(s)[i + lt]
                                        ELSE t[i + lt - Window]
      <3>1. Len(s) \in Nat
        BY <2>2
      <3>2. PICK u \in Seq(Message) :
              /\ u = s \o t /\ Len(u) = Len(s) + lt
              /\ \A i \in 1..Len(s) + lt : u[i] = IF i <= Len(s) THEN s[i] ELSE t[i - Len(s)]
        <4>1. /\ s \o t \in Seq(Message) /\ Len(s \o t) = Len(s) + Len(t)
              /\ \A i \in 1..Len(s) + Len(t) :
                   (s \o t)[i] = IF i <= Len(s) THEN s[i] ELSE t[i - Len(s)]
          BY ConcatProperties
        <4> QED BY <4>1
      <3>3. /\ Trim(u) \in Seq(Message)
            /\ Len(Trim(u)) = Window
            /\ \A i \in 1..Window : Trim(u)[i] = u[i + ((Len(s) + lt) - Window)]
        <4>1. /\ Trim(u) \in Seq(Message)
              /\ Len(Trim(u)) = IF Len(u) <= Window THEN Len(u) ELSE Window
              /\ \A i \in 1..Len(Trim(u)) : Trim(u)[i] = u[i + (Len(u) - Len(Trim(u)))]
          BY TrimProperties
        <4>2. Len(u) = Len(s) + lt /\ Len(u) >= Window
          BY <1>1, <2>2, <3>1, <3>2
        <4>3. Len(Trim(u)) = Window
          BY <1>1, <3>1, <4>1, <4>2
        <4> QED BY <4>1, <4>2, <4>3
      <3>4. ASSUME NEW i \in 1..Window
            PROVE  Trim(u)[i] = IF i + lt <= Window THEN Trim(s)[i + lt]
                                     ELSE t[i + lt - Window]
        <4>1. Trim(u)[i] = u[i + ((Len(s) + lt) - Window)]
          BY <3>3
        <4>2. CASE i + lt <= Window
          <5>1. /\ i + ((Len(s) + lt) - Window) \in 1..Len(s)
                /\ i + ((Len(s) + lt) - Window) = (i + lt) + (Len(s) - Window)
                /\ i + lt \in 1..Window
            BY <1>1, <2>2, <3>1, <4>2
          <5>2. Trim(u)[i] = s[(i + lt) + (Len(s) - Window)]
            BY <1>1, <3>1, <3>2, <4>1, <5>1
          <5>3. Trim(s)[i + lt] = s[(i + lt) + (Len(s) - Window)]
            BY <2>2, <5>1, TrimProperties
          <5> QED BY <4>2, <5>2, <5>3
        <4>3. CASE i + lt > Window
          <5>1. /\ i + ((Len(s) + lt) - Window) \in 1..Len(s) + lt
                /\ i + ((Len(s) + lt) - Window) > Len(s)
                /\ i + ((Len(s) + lt) - Window) - Len(s) = i + lt - Window
            BY <1>1, <2>2, <3>1, <4>3
          <5>2. Trim(u)[i] = t[i + lt - Window]
            <6>1. PICK k \in 1..Len(s) + lt : k = i + ((Len(s) + lt) - Window)
              BY <5>1
            <6>2. ~ k <= Len(s) /\ k - Len(s) = i + lt - Window
              BY <1>1, <3>1, <5>1, <6>1
            <6>3. u[k] = t[k - Len(s)]
              BY <3>2, <6>2
            <6> QED BY <4>1, <6>1, <6>2, <6>3
          <5> QED BY <1>1, <4>3, <5>2
        <4> QED BY <1>1, <4>2, <4>3
      <3> QED BY <3>2, <3>3, <3>4
    <2>3. \A i \in 1..Window : Trim(a \o t)[i] = Trim(b \o t)[i]
      BY <1>3, <2>1, <2>2
    <2> QED BY <1>3, <2>1, <2>2, <2>3, SeqEqual
  <1> QED BY <1>1, <1>2, <1>3

(* One more message, by whoever is next. *)
LEMMA AlternatesOn ==
  ASSUME NEW s \in Seq(Message), NEW m \in Message, Alternates(s),
         Role(m) = IF Even(Len(s)) THEN "user" ELSE "assistant"
  PROVE  Alternates(Append(s, m))
  <1>1. Len(s) \in Nat
    OBVIOUS
  <1>2. /\ Len(Append(s, m)) = Len(s) + 1
        /\ Append(s, m)[Len(s) + 1] = m
        /\ \A i \in 1..Len(s) : Append(s, m)[i] = s[i]
    BY AppendProperties
  <1>3. Role(m) = IF (Len(s) + 1) % 2 = 1 THEN "user" ELSE "assistant"
    BY <1>1, Parity
  <1>4. \A i \in 1..Len(s) + 1 : i \in 1..Len(s) \/ i = Len(s) + 1
    BY <1>1
  <1> QED BY <1>2, <1>3, <1>4 DEF Alternates

(* The window is even, so what is cut off is whole pairs. *)
LEMMA AlternatesTrimmed ==
  ASSUME NEW s \in Seq(Message), Alternates(s), Even(Len(s))
  PROVE  Alternates(Trim(s)) /\ Even(Len(Trim(s)))
  <1>1. Len(s) \in Nat /\ Window \in Nat /\ Even(Window)
    BY SessionsAssumption DEF Even
  <1>2. CASE Len(s) <= Window
    BY <1>2, TrimProperties
  <1>3. CASE Len(s) > Window
    <2>1. Len(Trim(s)) = Window
      BY <1>1, <1>3, TrimProperties
    <2>2. ASSUME NEW i \in 1..Window
          PROVE  Role(Trim(s)[i]) = IF i % 2 = 1 THEN "user" ELSE "assistant"
      <3>1. /\ i \in Nat /\ i + (Len(s) - Window) \in 1..Len(s)
            /\ (i + (Len(s) - Window)) % 2 = i % 2
        BY <1>1, <1>3, EvenOffset
      <3>2. Trim(s)[i] = s[i + (Len(s) - Window)]
        BY <2>1, TrimProperties
      <3> QED BY <3>1, <3>2 DEF Alternates
    <2> QED BY <1>1, <2>1, <2>2 DEF Alternates
  <1> QED BY <1>1, <1>2, <1>3

-----------------------------------------------------------------------------
(* Turns.                                                                  *)

LEMMA LastPromptIsUnique ==
  ASSUME NEW s \in Seq(Message), NEW p \in 1..Len(s), NEW q \in 1..Len(s),
         IsLastPrompt(s, p), IsLastPrompt(s, q)
  PROVE  p = q
  <1>1. Len(s) \in Nat
    OBVIOUS
  <1>2. ~ p < q /\ ~ q < p
    BY <1>1 DEF IsLastPrompt
  <1> QED BY <1>1, <1>2

LEMMA PromptAdded ==
  ASSUME NEW s \in Seq(Message), NEW m \in Message, m.kind = "prompt",
         NEW p \in 1..Len(Append(s, m))
  PROVE  IsLastPrompt(Append(s, m), p) <=> p = Len(s) + 1
  <1>1. /\ Append(s, m) \in Seq(Message) /\ Len(Append(s, m)) = Len(s) + 1
        /\ Append(s, m)[Len(s) + 1] = m /\ Len(s) \in Nat
    BY AppendProperties
  <1>2. IsLastPrompt(Append(s, m), Len(s) + 1)
    BY <1>1 DEF IsLastPrompt
  <1>3. Len(s) + 1 \in 1..Len(Append(s, m))
    BY <1>1
  <1> QED BY <1>1, <1>2, <1>3, LastPromptIsUnique

LEMMA OtherAdded ==
  ASSUME NEW s \in Seq(Message), NEW m \in Message, m.kind # "prompt",
         NEW p \in 1..Len(Append(s, m))
  PROVE  /\ IsLastPrompt(Append(s, m), p) => p \in 1..Len(s) /\ IsLastPrompt(s, p)
         /\ p \in 1..Len(s) /\ IsLastPrompt(s, p) => IsLastPrompt(Append(s, m), p)
         /\ p \in 1..Len(s) => SubSeq(Append(s, m), 1, p - 1) = SubSeq(s, 1, p - 1)
  <1>1. /\ Append(s, m) \in Seq(Message) /\ Len(Append(s, m)) = Len(s) + 1
        /\ Append(s, m)[Len(s) + 1] = m /\ Len(s) \in Nat
        /\ \A i \in 1..Len(s) : Append(s, m)[i] = s[i]
    BY AppendProperties
  <1>2. IsLastPrompt(Append(s, m), p) => p \in 1..Len(s)
    BY <1>1 DEF IsLastPrompt
  <1>3. p \in 1..Len(s) => (IsLastPrompt(Append(s, m), p) <=> IsLastPrompt(s, p))
    <2>1. ASSUME p \in 1..Len(s), IsLastPrompt(s, p) PROVE IsLastPrompt(Append(s, m), p)
      <3>1. ASSUME NEW i \in (p + 1)..Len(s) + 1 PROVE Append(s, m)[i].kind # "prompt"
        <4>1. i \in 1..Len(s) \/ i = Len(s) + 1
          BY <1>1, <2>1
        <4> QED BY <1>1, <2>1, <4>1 DEF IsLastPrompt
      <3> QED BY <1>1, <2>1, <3>1 DEF IsLastPrompt
    <2>2. ASSUME p \in 1..Len(s), IsLastPrompt(Append(s, m), p) PROVE IsLastPrompt(s, p)
      BY <1>1, <2>2 DEF IsLastPrompt
    <2> QED BY <2>1, <2>2
  <1>4. ASSUME p \in 1..Len(s)
        PROVE  SubSeq(Append(s, m), 1, p - 1) = SubSeq(s, 1, p - 1)
    <2>1. /\ 1 \in Int /\ p - 1 \in Int
          /\ \A i \in 1..p - 1 : s[i] \in Message /\ Append(s, m)[i] \in Message
          /\ \A i \in 1..p - 1 : Append(s, m)[i] = s[i]
      BY <1>1, <1>4, ElementOfSeq
    <2>2. /\ SubSeq(s, 1, p - 1) \in Seq(Message)
          /\ Len(SubSeq(s, 1, p - 1)) = IF 1 <= p - 1 THEN (p - 1) - 1 + 1 ELSE 0
          /\ \A i \in 1..(p - 1) - 1 + 1 : SubSeq(s, 1, p - 1)[i] = s[1 + i - 1]
      BY <2>1, SubSeqProperties
    <2>3. /\ SubSeq(Append(s, m), 1, p - 1) \in Seq(Message)
          /\ Len(SubSeq(Append(s, m), 1, p - 1)) = IF 1 <= p - 1 THEN (p - 1) - 1 + 1 ELSE 0
          /\ \A i \in 1..(p - 1) - 1 + 1 :
               SubSeq(Append(s, m), 1, p - 1)[i] = Append(s, m)[1 + i - 1]
      BY <2>1, SubSeqProperties
    <2>4. /\ Len(SubSeq(Append(s, m), 1, p - 1)) = Len(SubSeq(s, 1, p - 1))
          /\ Len(SubSeq(s, 1, p - 1)) = p - 1
      BY <1>4, <2>2, <2>3
    <2>5. \A i \in 1..p - 1 : SubSeq(Append(s, m), 1, p - 1)[i] = SubSeq(s, 1, p - 1)[i]
      BY <2>1, <2>2, <2>3
    <2> QED BY <2>2, <2>3, <2>4, <2>5, SeqEqual
  <1> QED BY <1>2, <1>3, <1>4

(* What was before the turn and the turn. *)
LEMMA TurnIsTheRest ==
  ASSUME TypeOK, NEW r \in Runs, NEW p \in 1..Len(memory[r]), IsLastPrompt(memory[r], p)
  PROVE  /\ SubSeq(memory[r], 1, p - 1) \in Seq(Message)
         /\ ThisTurn(r) \in Seq(Message) /\ ThisTurn(r) # <<>>
         /\ memory[r] = SubSeq(memory[r], 1, p - 1) \o ThisTurn(r)
  <1> DEFINE s == memory[r]
             n == Len(s)
             a == SubSeq(s, 1, p - 1)
             b == SubSeq(s, p, n)
  <1>1. s \in Seq(Message) /\ n \in Nat
    BY DEF TypeOK
  <1>2. ThisTurn(r) = b
    <2>1. \A q \in 1..n : IsLastPrompt(s, q) => q = p
      BY <1>1, LastPromptIsUnique
    <2>2. (CHOOSE q \in 1..n : IsLastPrompt(s, q)) = p
      BY <2>1
    <2> QED BY <2>2 DEF ThisTurn
  <1>3. /\ 1 \in Int /\ p - 1 \in Int /\ p \in Int /\ n \in Int /\ 1 <= p /\ p <= n
        /\ \A i \in 1..p - 1 : s[i] \in Message
        /\ \A i \in p..n : s[i] \in Message
    BY <1>1, ElementOfSeq
  <1>4. /\ a \in Seq(Message)
        /\ Len(a) = IF 1 <= p - 1 THEN (p - 1) - 1 + 1 ELSE 0
        /\ \A i \in 1..(p - 1) - 1 + 1 : a[i] = s[1 + i - 1]
    BY <1>3, SubSeqProperties
  <1>5. /\ b \in Seq(Message)
        /\ Len(b) = IF p <= n THEN n - p + 1 ELSE 0
        /\ \A i \in 1..n - p + 1 : b[i] = s[p + i - 1]
    BY <1>3, SubSeqProperties
  <1>6. b # <<>>
    <2>1. Len(<<>>) = 0
      OBVIOUS
    <2>2. Len(b) # 0
      BY <1>1, <1>3, <1>5
    <2> QED BY <2>1, <2>2
  <1>7. a \o b = s
    <2>1. 1 \in 1..n + 1 /\ p - 1 \in (1 - 1)..n /\ n \in (p - 1)..n /\ (p - 1) + 1 = p
      BY <1>1
    <2>2. SubSeq(s, 1, p - 1) \o SubSeq(s, (p - 1) + 1, n) = SubSeq(s, 1, n)
      BY <1>1, <2>1, ConcatAdjacentSubSeq
    <2> QED BY <1>1, <2>1, <2>2, SubSeqFull
  <1> QED BY <1>2, <1>4, <1>5, <1>6, <1>7

-----------------------------------------------------------------------------
(* What agents remember and files hold.                                    *)

LEMMA RunTypes ==
  ASSUME NEW r \in Runs
  PROVE  FolderOf[r] \in Folders /\ JidOf[r] \in Jids
  BY SessionsAssumption

LEMMA NothingAlternates ==
  /\ <<>> \in Seq(Message) /\ Len(<<>>) = 0
  /\ Alternates(<<>>) /\ Even(Len(<<>>))
  <1>1. <<>> \in Seq(Message) /\ Len(<<>>) = 0
    OBVIOUS
  <1>2. Alternates(<<>>)
    BY <1>1 DEF Alternates
  <1>3. 0 % 2 = 0
    OBVIOUS
  <1> QED BY <1>1, <1>2, <1>3 DEF Even

LEMMA NotEmptyIfOdd ==
  ASSUME NEW s, ~ Even(Len(s))
  PROVE  s # <<>>
  BY NothingAlternates

(* A message of the turn that an agent is in. *)
LEMMA SaysTypes ==
  ASSUME TypeOK, NEW r \in Runs, memory[r] # <<>>, NEW kind \in Kinds
  PROVE  Says(r, kind) \in Message /\ Says(r, kind).kind = kind
  <1>1. /\ memory[r] \in Seq(Message) /\ Len(memory[r]) \in Nat \ {0}
    BY EmptySeq DEF TypeOK
  <1>2. memory[r][Len(memory[r])] \in Message
    BY <1>1, ElementOfSeq
  <1> QED BY <1>2 DEF Says, Message

(* What an agent finds when it starts ends with the assistant. *)
LEMMA LoadTypes ==
  ASSUME HistoryInv, NEW r \in Runs
  PROVE  /\ LoadSession(r) \in Seq(Message)
         /\ Alternates(LoadSession(r)) /\ Even(Len(LoadSession(r)))
  <1>1. CASE given[r] /\ file[FolderOf[r]] # Torn
    BY <1>1, RunTypes DEF HistoryInv, TypeOK, FilesAlternate, LoadSession
  <1>2. CASE ~ (given[r] /\ file[FolderOf[r]] # Torn)
    BY <1>2, NothingAlternates DEF LoadSession
  <1> QED BY <1>1, <1>2

(* Its prompt opens the turn. *)
LEMMA TurnOpens ==
  ASSUME TypeOK, NEW r \in Runs, NEW history \in Seq(Message),
         Alternates(history), Even(Len(history)), TurnBegins(r, history)
  PROVE  /\ turns' \in 0..MaxTurns
         /\ memory' \in [Runs -> Seq(Message)]
         /\ Alternates(memory'[r]) /\ ~ Even(Len(memory'[r]))
         /\ Len(memory'[r]) = Len(history) + 1 /\ Len(history) \in Nat
         /\ SubSeq(memory'[r], 1, Len(history)) = history
         /\ \A p \in 1..Len(memory'[r]) :
              IsLastPrompt(memory'[r], p) <=> p = Len(history) + 1
  <1> DEFINE m == [turn |-> turns + 1, kind |-> "prompt"]
  <1>1. turns + 1 \in 1..MaxTurns /\ MaxTurns \in Nat
    BY SessionsAssumption DEF TypeOK, TurnBegins
  <1>2. m \in Message /\ m.kind = "prompt" /\ Role(m) = "user"
    BY <1>1 DEF Message, Kinds, Role
  <1>3. Append(history, m) \in Seq(Message) /\ Len(Append(history, m)) = Len(history) + 1
    BY <1>2, AppendProperties
  <1>4. memory' \in [Runs -> Seq(Message)] /\ memory'[r] = Append(history, m)
    BY <1>3 DEF TypeOK, TurnBegins
  <1>5. Alternates(Append(history, m))
    BY <1>2, AlternatesOn
  <1>6. Len(history) \in Nat /\ ~ Even(Len(history) + 1)
    BY Parity
  <1>7. turns' = turns + 1
    BY DEF TurnBegins
  <1>8. SubSeq(Append(history, m), 1, Len(history)) = history
    <2>1. /\ \A i \in 1..Len(history) : Append(history, m)[i] = history[i]
          /\ \A i \in 1..Len(history) : history[i] \in Message
          /\ 1 \in Int /\ Len(history) \in Int
      BY <1>2, <1>6, AppendProperties, ElementOfSeq
    <2> DEFINE t == SubSeq(Append(history, m), 1, Len(history))
    <2>2. /\ t \in Seq(Message)
          /\ Len(t) = IF 1 <= Len(history) THEN Len(history) - 1 + 1 ELSE 0
          /\ \A i \in 1..Len(history) - 1 + 1 : t[i] = Append(history, m)[1 + i - 1]
      BY <2>1, SubSeqProperties
    <2>3. Len(t) = Len(history) /\ \A i \in 1..Len(t) : t[i] = history[i]
      BY <1>6, <2>1, <2>2
    <2> QED BY <2>2, <2>3, SeqEqual
  <1> QED BY <1>1, <1>2, <1>3, <1>4, <1>5, <1>6, <1>7, <1>8, PromptAdded

(* The calls of tools and their results are a pair. *)
LEMMA ToolsAreUsed ==
  ASSUME HistoryInv, NEW r \in Runs, UseTools(r)
  PROVE  /\ memory' \in [Runs -> Seq(Message)]
         /\ Alternates(memory'[r]) /\ ~ Even(Len(memory'[r]))
         /\ Len(memory'[r]) = Len(memory[r]) + 2 /\ Len(memory[r]) \in Nat
         /\ \A p \in 1..Len(memory[r]) :
              IsLastPrompt(memory[r], p) => IsLastPrompt(memory'[r], p)
         /\ \A p \in 1..Len(memory'[r]) : IsLastPrompt(memory'[r], p) =>
              /\ p \in 1..Len(memory[r]) /\ IsLastPrompt(memory[r], p)
              /\ SubSeq(memory'[r], 1, p - 1) = SubSeq(memory[r], 1, p - 1)
  <1>1. PICK s \in Seq(Message) : s = memory[r]
    BY DEF HistoryInv, TypeOK
  <1>2. Alternates(s) /\ ~ Even(Len(s)) /\ s # <<>> /\ Len(s) \in Nat
    BY <1>1, NotEmptyIfOdd DEF HistoryInv, MemoryIsWhole, UseTools
  <1>3. PICK c \in Message : c = Says(r, "call") /\ c.kind = "call"
    BY <1>1, <1>2, SaysTypes DEF HistoryInv, Kinds
  <1>4. PICK d \in Message : d = Says(r, "results") /\ d.kind = "results"
    BY <1>1, <1>2, SaysTypes DEF HistoryInv, Kinds
  <1>5. PICK t \in Seq(Message) : t = Append(s, c) /\ Len(t) = Len(s) + 1
    BY AppendProperties
  <1>6. Alternates(t) /\ Even(Len(t))
    <2>1. Role(c) = "assistant"
      BY <1>3 DEF Role
    <2>2. Alternates(Append(s, c))
      BY <1>2, <2>1, AlternatesOn
    <2> QED BY <1>2, <1>5, <2>2, Parity
  <1>7. PICK u \in Seq(Message) : u = Append(t, d) /\ Len(u) = Len(t) + 1
    BY AppendProperties
  <1>8. Alternates(u) /\ ~ Even(Len(u))
    <2>1. Role(d) = "user" /\ Len(t) \in Nat
      BY <1>4 DEF Role
    <2>2. Alternates(Append(t, d))
      BY <1>6, <2>1, AlternatesOn
    <2> QED BY <1>6, <1>7, <2>1, <2>2, Parity
  <1>9. memory' \in [Runs -> Seq(Message)] /\ memory'[r] = u
    BY <1>1, <1>3, <1>4, <1>5, <1>7 DEF UseTools, HistoryInv, TypeOK
  <1>10. ASSUME NEW p \in 1..Len(u), IsLastPrompt(u, p)
         PROVE  /\ p \in 1..Len(s) /\ IsLastPrompt(s, p)
                /\ SubSeq(u, 1, p - 1) = SubSeq(s, 1, p - 1)
    <2>1. p \in 1..Len(t) /\ IsLastPrompt(t, p) /\ SubSeq(u, 1, p - 1) = SubSeq(t, 1, p - 1)
      BY <1>4, <1>7, <1>10, OtherAdded
    <2> QED BY <1>3, <1>5, <2>1, OtherAdded
  <1>11. ASSUME NEW p \in 1..Len(s), IsLastPrompt(s, p) PROVE IsLastPrompt(u, p)
    <2>1. p \in 1..Len(t) /\ p \in 1..Len(u)
      BY <1>2, <1>5, <1>7
    <2>2. IsLastPrompt(t, p)
      BY <1>3, <1>5, <1>11, <2>1, OtherAdded
    <2> QED BY <1>4, <1>7, <2>1, <2>2, OtherAdded
  <1> QED BY <1>1, <1>2, <1>5, <1>7, <1>8, <1>9, <1>10, <1>11

(* The last message of the turn completes the history. *)
LEMMA TurnEnds ==
  ASSUME HistoryInv, NEW r \in Runs, EndTurn(r)
  PROVE  /\ memory' \in [Runs -> Seq(Message)]
         /\ Alternates(memory'[r]) /\ Even(Len(memory'[r])) /\ memory'[r] # <<>>
         /\ Len(memory'[r]) = Len(memory[r]) + 1 /\ Len(memory[r]) \in Nat
         /\ \A p \in 1..Len(memory[r]) :
              IsLastPrompt(memory[r], p) => IsLastPrompt(memory'[r], p)
         /\ \A p \in 1..Len(memory'[r]) : IsLastPrompt(memory'[r], p) =>
              /\ p \in 1..Len(memory[r]) /\ IsLastPrompt(memory[r], p)
              /\ SubSeq(memory'[r], 1, p - 1) = SubSeq(memory[r], 1, p - 1)
  <1>1. PICK s \in Seq(Message) : s = memory[r]
    BY DEF HistoryInv, TypeOK
  <1>2. Alternates(s) /\ ~ Even(Len(s)) /\ s # <<>> /\ Len(s) \in Nat
    BY <1>1, NotEmptyIfOdd DEF HistoryInv, MemoryIsWhole, EndTurn
  <1>3. PICK d \in Message : d = Says(r, "reply") /\ d.kind = "reply"
    BY <1>1, <1>2, SaysTypes DEF HistoryInv, Kinds
  <1>4. PICK u \in Seq(Message) : u = Append(s, d) /\ Len(u) = Len(s) + 1
    BY AppendProperties
  <1>5. Alternates(u) /\ Even(Len(u))
    <2>1. Role(d) = "assistant"
      BY <1>3 DEF Role
    <2>2. Alternates(Append(s, d))
      BY <1>2, <2>1, AlternatesOn
    <2> QED BY <1>2, <1>4, <2>2, Parity
  <1>6. memory' \in [Runs -> Seq(Message)] /\ memory'[r] = u
    BY <1>1, <1>3, <1>4 DEF EndTurn, HistoryInv, TypeOK
  <1>7. u # <<>>
    BY <1>2, <1>4, NothingAlternates
  <1>8. ASSUME NEW p \in 1..Len(u), IsLastPrompt(u, p)
        PROVE  /\ p \in 1..Len(s) /\ IsLastPrompt(s, p)
               /\ SubSeq(u, 1, p - 1) = SubSeq(s, 1, p - 1)
    BY <1>3, <1>4, <1>8, OtherAdded
  <1>9. ASSUME NEW p \in 1..Len(s), IsLastPrompt(s, p) PROVE IsLastPrompt(u, p)
    <2>1. p \in 1..Len(u)
      BY <1>2, <1>4
    <2> QED BY <1>3, <1>4, <1>9, <2>1, OtherAdded
  <1> QED BY <1>1, <1>2, <1>4, <1>5, <1>6, <1>7, <1>8, <1>9

(* What the dead remembered is gone, the others go on as they were. *)
LEMMA ForgetsWell ==
  ASSUME HistoryInv, NEW dead, Forgets(dead),
         \A r \in Runs : r \in dead => agent'[r] = "gone",
         \A r \in Runs \ dead : agent'[r] = agent[r] \/ (agent[r] = "saved" /\ agent'[r] = "polling")
  PROVE  /\ memory' \in [Runs -> Seq(Message)]
         /\ given' \in [Runs -> BOOLEAN] /\ crossed' \in [Runs -> BOOLEAN]
         /\ MemoryIsWhole'
  <1>1. memory' \in [Runs -> Seq(Message)]
    BY NothingAlternates DEF HistoryInv, TypeOK, Forgets
  <1>2. given' \in [Runs -> BOOLEAN] /\ crossed' \in [Runs -> BOOLEAN]
    BY DEF HistoryInv, TypeOK, Forgets
  <1>3. ASSUME NEW r \in Runs, r \in dead PROVE memory'[r] = <<>> /\ agent'[r] = "gone"
    BY <1>3 DEF Forgets
  <1>4. ASSUME NEW r \in Runs \ dead PROVE memory'[r] = memory[r]
    BY DEF Forgets
  <1>5. MemoryIsWhole'
    BY <1>3, <1>4, NothingAlternates DEF HistoryInv, MemoryIsWhole
  <1> QED BY <1>1, <1>2, <1>5

(* A save begins with an empty file and ends with the trimmed history. *)
LEMMA Saves ==
  ASSUME HistoryInv, NEW r \in Runs, Write(r)
  PROVE  /\ Trim(memory[r]) \in Seq(Message) /\ Trim(memory[r]) # <<>>
         /\ Alternates(Trim(memory[r])) /\ Even(Len(Trim(memory[r])))
         /\ ThisTurn(r) \in Seq(Message) /\ ThisTurn(r) # <<>>
  <1>1. /\ memory[r] \in Seq(Message) /\ memory[r] # <<>>
        /\ Alternates(memory[r]) /\ Even(Len(memory[r]))
        /\ \E p \in 1..Len(memory[r]) : IsLastPrompt(memory[r], p)
    BY DEF HistoryInv, TypeOK, MemoryIsWhole, Write
  <1>2. Trim(memory[r]) # <<>>
    <2>1. Len(memory[r]) \in Nat \ {0} /\ Window \in Nat \ {0}
      BY <1>1, EmptySeq, SessionsAssumption
    <2>2. Len(Trim(memory[r])) # 0
      BY <1>1, <2>1, TrimProperties
    <2> QED BY <2>2, NothingAlternates
  <1>3. ThisTurn(r) \in Seq(Message) /\ ThisTurn(r) # <<>>
    BY <1>1, TurnIsTheRest DEF HistoryInv
  <1> QED BY <1>1, <1>2, <1>3, TrimProperties, AlternatesTrimmed

LEMMA TypesKept == HistoryInv /\ [Next]_vars => TypeOK'
  <1> SUFFICES ASSUME HistoryInv, [Next]_vars PROVE TypeOK'
    OBVIOUS
  <1>0. TypeOK /\ lapses \in Nat /\ MaxLapses \in Nat
    BY SessionsAssumption DEF HistoryInv, TypeOK
  <1>1. ASSUME NEW r \in Runs, Begin(r) PROVE TypeOK'
    BY <1>0, <1>1, RunTypes DEF TypeOK, Begin, SessionId, Reading
  <1>2. ASSUME NEW r \in Runs, Start(r) \/ FollowUp(r) PROVE TypeOK'
    <2>1. PICK history \in Seq(Message) :
            /\ Alternates(history) /\ Even(Len(history)) /\ TurnBegins(r, history)
      BY <1>0, <1>2, LoadTypes DEF Start, FollowUp, HistoryInv, TypeOK, MemoryIsWhole
    <2>2. turns' \in 0..MaxTurns /\ memory' \in [Runs -> Seq(Message)]
      BY <1>0, <2>1, TurnOpens
    <2> QED BY <1>0, <2>1, <2>2 DEF TypeOK, TurnBegins
  <1>3. ASSUME NEW r \in Runs, UseTools(r) PROVE TypeOK'
    BY <1>0, <1>3, ToolsAreUsed DEF TypeOK, UseTools
  <1>4. ASSUME NEW r \in Runs, EndTurn(r) PROVE TypeOK'
    <2>1. /\ file' \in [Folders -> Seq(Message) \cup {Torn}]
          /\ crossed' \in [Runs -> BOOLEAN]
          /\ agent' \in [Runs -> {"none", "started", "thinking", "saving", "saved", "polling", "gone"}]
      BY <1>0, <1>4 DEF TypeOK, EndTurn
    <2> QED BY <1>0, <1>4, <2>1, TurnEnds DEF TypeOK, EndTurn
  <1>5. ASSUME NEW r \in Runs, Write(r) PROVE TypeOK'
    <2>1. file' \in [Folders -> Seq(Message) \cup {Torn}]
      <3>1. PICK content \in {Trim(memory[r]), Torn} :
              file' = [file EXCEPT ![FolderOf[r]] = content]
        BY <1>5 DEF Write
      <3> QED BY <1>0, <1>5, <3>1, Saves DEF TypeOK
    <2>2. saved[FolderOf[r]] \o ThisTurn(r) \in Seq(Message)
      BY <1>0, <1>5, Saves, RunTypes, ConcatProperties DEF TypeOK
    <2>3. saved' \in [Folders -> Seq(Message)]
      BY <1>0, <1>5, <2>2 DEF TypeOK, Write
    <2> QED BY <1>0, <1>5, <2>1, <2>3 DEF TypeOK, Write
  <1>6. ASSUME NEW r \in Runs, Report(r) PROVE TypeOK'
    <2> DEFINE dead == IF host[r] = "lost" THEN {r} ELSE {}
    <2>1. Forgets(dead)
      BY <1>6 DEF Report
    <2>2. /\ \A q \in Runs : q \in dead => agent'[q] = "gone"
          /\ \A q \in Runs \ dead :
               agent'[q] = agent[q] \/ (agent[q] = "saved" /\ agent'[q] = "polling")
      BY <1>0, <1>6 DEF TypeOK, Report
    <2>3. /\ memory' \in [Runs -> Seq(Message)]
          /\ given' \in [Runs -> BOOLEAN] /\ crossed' \in [Runs -> BOOLEAN]
      BY <2>1, <2>2, ForgetsWell
    <2>4. agent' \in [Runs -> {"none", "started", "thinking", "saving", "saved", "polling", "gone"}]
      BY <1>0, <1>6 DEF TypeOK, Report
    <2> QED BY <1>0, <1>6, <2>3, <2>4 DEF TypeOK, Report
  <1>7. ASSUME NEW r \in Runs, Exit(r) PROVE TypeOK'
    <2>1. \A q \in Runs : q \in {r} => agent'[q] = "gone"
      BY <1>0, <1>7 DEF TypeOK, Exit
    <2>2. \A q \in Runs \ {r} : agent'[q] = agent[q]
      BY <1>0, <1>7 DEF TypeOK, Exit
    <2> QED BY <1>0, <1>7, <2>1, <2>2, ForgetsWell DEF TypeOK, Exit
  <1>8. ASSUME NEW r \in Runs, ReadBlock(r) PROVE TypeOK'
    BY <1>0, <1>8, RunTypes DEF TypeOK, ReadBlock
  <1>9. ASSUME NEW r \in Runs, RunEnds(r) PROVE TypeOK'
    BY <1>0, <1>9 DEF TypeOK, RunEnds
  <1>10. ASSUME NEW r \in Runs, GoDeaf(r) PROVE TypeOK'
    BY <1>0, <1>10 DEF TypeOK, GoDeaf, Lapse, Reading
  <1>11. ASSUME NEW r \in Runs, Dies(r) PROVE TypeOK'
    <2>1. \A q \in Runs : q \in {r} => agent'[q] = "gone"
      BY <1>0, <1>11 DEF TypeOK, Dies
    <2>2. \A q \in Runs \ {r} : agent'[q] = agent[q]
      BY <1>0, <1>11 DEF TypeOK, Dies
    <2>3. /\ host' \in [Runs -> Reading \cup {"new", "done", "lost"}]
          /\ told' \in [Runs -> BOOLEAN]
      BY <1>0, <1>11 DEF TypeOK, Dies
    <2>4. lapses' \in 0..MaxLapses
      <3>1. \E cost \in BOOLEAN : Lapse(cost)
        BY <1>0, <1>11 DEF TypeOK, Dies, Costly
      <3> QED BY <1>0, <3>1 DEF TypeOK, Lapse
    <2> QED BY <1>0, <1>11, <2>1, <2>2, <2>3, <2>4, ForgetsWell DEF TypeOK, Dies
  <1>12. CASE Restart
    <2>1. PICK dead \in SUBSET {r \in Runs : Alive(r)} :
            /\ agent' = [r \in Runs |-> IF r \in dead THEN "gone" ELSE agent[r]]
            /\ Forgets(dead)
      BY <1>12 DEF Restart
    <2>2. /\ \A q \in Runs : q \in dead => agent'[q] = "gone"
          /\ \A q \in Runs \ dead : agent'[q] = agent[q]
      BY <1>0, <2>1 DEF TypeOK
    <2>3. restarts' \in 0..MaxRestarts
      BY <1>0, <1>12, SessionsAssumption DEF TypeOK, Restart
    <2>4. /\ agent' \in [Runs -> {"none", "started", "thinking", "saving", "saved", "polling", "gone"}]
          /\ host' \in [Runs -> Reading \cup {"new", "done", "lost"}]
          /\ told' \in [Runs -> BOOLEAN]
      BY <1>0, <1>12, <2>1 DEF TypeOK, Restart
    <2> QED BY <1>0, <1>12, <2>1, <2>2, <2>3, <2>4, ForgetsWell DEF TypeOK, Restart
  <1>13. CASE UNCHANGED vars
    BY <1>0, <1>13 DEF TypeOK, vars, runState
  <1> QED
    BY <1>1, <1>2, <1>3, <1>4, <1>5, <1>6, <1>7, <1>8, <1>9, <1>10, <1>11, <1>12, <1>13 DEF Next

LEMMA MemoryKept == HistoryInv /\ [Next]_vars => MemoryIsWhole'
  <1> SUFFICES ASSUME HistoryInv, [Next]_vars PROVE MemoryIsWhole'
    OBVIOUS
  <1>0. TypeOK /\ MemoryIsWhole
    BY DEF HistoryInv
  <1>1. ASSUME UNCHANGED memory, NEW r \in Runs, NEW a, agent' = [agent EXCEPT ![r] = a],
               a = "started" \/ (agent[r] = "saving" /\ a = "saved")
        PROVE  MemoryIsWhole'
    BY <1>0, <1>1 DEF TypeOK, MemoryIsWhole
  <1>2. ASSUME NEW r \in Runs, Start(r) \/ FollowUp(r) PROVE MemoryIsWhole'
    <2>1. PICK history \in Seq(Message) :
            /\ Alternates(history) /\ Even(Len(history)) /\ TurnBegins(r, history)
      BY <1>0, <1>2, LoadTypes DEF Start, FollowUp, TypeOK, MemoryIsWhole
    <2>2. /\ Alternates(memory'[r]) /\ ~ Even(Len(memory'[r]))
          /\ \E p \in 1..Len(memory'[r]) : IsLastPrompt(memory'[r], p)
      BY <1>0, <2>1, TurnOpens
    <2>3. /\ agent'[r] = "thinking"
          /\ \A q \in Runs \ {r} : agent'[q] = agent[q] /\ memory'[q] = memory[q]
      BY <1>0, <2>1 DEF TypeOK, TurnBegins
    <2> QED BY <1>0, <2>2, <2>3 DEF MemoryIsWhole
  <1>3. ASSUME NEW r \in Runs, UseTools(r) PROVE MemoryIsWhole'
    <2>0. PICK p \in 1..Len(memory[r]) : IsLastPrompt(memory[r], p)
      BY <1>0, <1>3 DEF MemoryIsWhole, UseTools
    <2>1. /\ Alternates(memory'[r]) /\ ~ Even(Len(memory'[r]))
          /\ p \in 1..Len(memory'[r]) /\ IsLastPrompt(memory'[r], p)
      BY <1>3, <2>0, ToolsAreUsed
    <2>2. /\ agent'[r] = "thinking"
          /\ \A q \in Runs \ {r} : agent'[q] = agent[q] /\ memory'[q] = memory[q]
      BY <1>0, <1>3 DEF TypeOK, UseTools
    <2> QED BY <1>0, <2>1, <2>2 DEF MemoryIsWhole
  <1>4. ASSUME NEW r \in Runs, EndTurn(r) PROVE MemoryIsWhole'
    <2>0. PICK p \in 1..Len(memory[r]) : IsLastPrompt(memory[r], p)
      BY <1>0, <1>4 DEF MemoryIsWhole, EndTurn
    <2>1. /\ Alternates(memory'[r]) /\ Even(Len(memory'[r])) /\ memory'[r] # <<>>
          /\ p \in 1..Len(memory'[r]) /\ IsLastPrompt(memory'[r], p)
      BY <1>4, <2>0, TurnEnds
    <2>2. /\ agent'[r] = "saving"
          /\ \A q \in Runs \ {r} : agent'[q] = agent[q] /\ memory'[q] = memory[q]
      BY <1>0, <1>4 DEF TypeOK, EndTurn
    <2> QED BY <1>0, <2>1, <2>2 DEF MemoryIsWhole
  <1>5. ASSUME NEW r \in Runs, Begin(r) \/ Write(r) PROVE MemoryIsWhole'
    BY <1>1, <1>5 DEF Begin, Write
  <1>6. ASSUME NEW r \in Runs, Report(r) PROVE MemoryIsWhole'
    <2> DEFINE dead == IF host[r] = "lost" THEN {r} ELSE {}
    <2>1. Forgets(dead)
      BY <1>6 DEF Report
    <2>2. /\ \A q \in Runs : q \in dead => agent'[q] = "gone"
          /\ \A q \in Runs \ dead :
               agent'[q] = agent[q] \/ (agent[q] = "saved" /\ agent'[q] = "polling")
      BY <1>0, <1>6 DEF TypeOK, Report
    <2> QED BY <2>1, <2>2, ForgetsWell
  <1>7. ASSUME NEW r \in Runs, Exit(r) \/ Dies(r) PROVE MemoryIsWhole'
    <2>1. \A q \in Runs : q \in {r} => agent'[q] = "gone"
      BY <1>0, <1>7 DEF TypeOK, Exit, Dies
    <2>2. \A q \in Runs \ {r} : agent'[q] = agent[q]
      BY <1>0, <1>7 DEF TypeOK, Exit, Dies
    <2> QED BY <1>7, <2>1, <2>2, ForgetsWell DEF Exit, Dies
  <1>8. ASSUME UNCHANGED <<agent, memory>> PROVE MemoryIsWhole'
    BY <1>0, <1>8 DEF MemoryIsWhole
  <1>9. ASSUME NEW r \in Runs, ReadBlock(r) \/ RunEnds(r) \/ GoDeaf(r) PROVE MemoryIsWhole'
    BY <1>8, <1>9 DEF ReadBlock, RunEnds, GoDeaf
  <1>10. CASE Restart
    <2>1. PICK dead \in SUBSET {r \in Runs : Alive(r)} :
            /\ agent' = [r \in Runs |-> IF r \in dead THEN "gone" ELSE agent[r]]
            /\ Forgets(dead)
      BY <1>10 DEF Restart
    <2> QED BY <2>1, ForgetsWell
  <1>11. CASE UNCHANGED vars
    BY <1>8, <1>11 DEF vars, runState
  <1> QED BY <1>2, <1>3, <1>4, <1>5, <1>6, <1>7, <1>9, <1>10, <1>11 DEF Next

LEMMA FilesKept == HistoryInv /\ [Next]_vars => FilesAlternate'
  <1> SUFFICES ASSUME HistoryInv, [Next]_vars PROVE FilesAlternate'
    OBVIOUS
  <1>0. TypeOK /\ FilesAlternate
    BY DEF HistoryInv
  <1>1. \/ UNCHANGED file
        \/ \E r \in Runs : EndTurn(r) \/ Write(r)
    BY DEF Next, Begin, Start, FollowUp, TurnBegins, UseTools, Report, Exit, ReadBlock, RunEnds,
           GoDeaf, Dies, Restart, vars
  <1>2. CASE UNCHANGED file
    BY <1>0, <1>2 DEF FilesAlternate
  <1>3. ASSUME NEW r \in Runs, EndTurn(r) PROVE FilesAlternate'
    BY <1>0, <1>3 DEF TypeOK, FilesAlternate, EndTurn
  <1>4. ASSUME NEW r \in Runs, Write(r) PROVE FilesAlternate'
    <2>1. PICK content \in {Trim(memory[r]), Torn} :
            file' = [file EXCEPT ![FolderOf[r]] = content]
      BY <1>4 DEF Write
    <2> QED BY <1>0, <1>4, <2>1, Saves DEF TypeOK, FilesAlternate
  <1> QED BY <1>1, <1>2, <1>3, <1>4

LEMMA InitHistory == Init => HistoryInv
  <1> SUFFICES ASSUME Init PROVE HistoryInv
    OBVIOUS
  <1>1. 0 \in 0..MaxTurns /\ 0 \in 0..MaxLapses /\ 0 \in 0..MaxRestarts
    BY SessionsAssumption
  <1>2. file \in [Folders -> Seq(Message) \cup {Torn}] /\ saved \in [Folders -> Seq(Message)]
    BY NothingAlternates DEF Init
  <1>3. memory \in [Runs -> Seq(Message)]
    BY NothingAlternates DEF Init
  <1>4. TypeOK
    BY <1>1, <1>2, <1>3 DEF Init, TypeOK
  <1>5. MemoryIsWhole
    BY NothingAlternates DEF Init, MemoryIsWhole
  <1>6. FilesAlternate
    BY NothingAlternates DEF Init, FilesAlternate
  <1> QED BY <1>4, <1>5, <1>6 DEF HistoryInv

LEMMA HistoryKept == HistoryInv /\ [Next]_vars => HistoryInv'
  BY TypesKept, MemoryKept, FilesKept DEF HistoryInv

LEMMA AlwaysHistory == Spec => []HistoryInv
  BY InitHistory, HistoryKept, PTL DEF Spec

(* The types of the variables; a turn is never without its prompt.         *)
THEOREM Typing == Spec => []TypeOK
  <1>1. HistoryInv => TypeOK
    BY DEF HistoryInv
  <1> QED BY <1>1, AlwaysHistory, PTL

(* What goes to the language model alternates between user and assistant,  *)
(* whichever agents wrote over each other's history, died, or were given   *)
(* one that had been cut to the window.                                    *)
THEOREM HistoriesAlternate == Spec => []HistoryAlternates
  <1>1. ASSUME HistoryInv, NEW r \in Runs, agent[r] = "thinking"
        PROVE  Alternates(memory[r]) /\ Len(memory[r]) % 2 = 1
    <2>1. Alternates(memory[r]) /\ ~ Even(Len(memory[r])) /\ Len(memory[r]) \in Nat
      BY <1>1 DEF HistoryInv, TypeOK, MemoryIsWhole
    <2> QED BY <2>1, Parity DEF Even
  <1>2. HistoryInv => HistoryAlternates
    BY <1>1 DEF HistoryInv, FilesAlternate, HistoryAlternates, Even
  <1> QED BY <1>2, AlwaysHistory, PTL

-----------------------------------------------------------------------------
(* The rows of the table sessions.                                         *)

LEMMA TornIsSomething == Torn # <<>>
  BY NothingAlternates, TornAssumption

LEMMA ToldKept == HistoryInv /\ ToldIsSaved /\ [Next]_vars => ToldIsSaved'
  <1> SUFFICES ASSUME HistoryInv, ToldIsSaved, [Next]_vars PROVE ToldIsSaved'
    OBVIOUS
  <1>0. TypeOK
    BY DEF HistoryInv
  <1>1. ASSUME UNCHANGED <<file, tracked, saved>>,
               \A r \in Runs : told'[r] \/ agent'[r] = "saved" => told[r] \/ agent[r] = "saved"
        PROVE  ToldIsSaved'
    BY <1>1 DEF ToldIsSaved
  <1>2. ASSUME NEW r \in Runs, Begin(r) \/ Start(r) \/ FollowUp(r) PROVE ToldIsSaved'
    BY <1>0, <1>1, <1>2 DEF TypeOK, Begin, Start, FollowUp, TurnBegins
  <1>3. ASSUME NEW r \in Runs, UseTools(r) \/ Report(r) \/ Exit(r) PROVE ToldIsSaved'
    BY <1>0, <1>1, <1>3 DEF TypeOK, UseTools, Report, Exit
  <1>4. ASSUME NEW r \in Runs, RunEnds(r) \/ GoDeaf(r) \/ Dies(r) PROVE ToldIsSaved'
    BY <1>0, <1>1, <1>4 DEF TypeOK, RunEnds, GoDeaf, Dies
  <1>5. ASSUME NEW r \in Runs, EndTurn(r) PROVE ToldIsSaved'
    <2>1. /\ file' = [file EXCEPT ![FolderOf[r]] = Torn]
          /\ agent' = [agent EXCEPT ![r] = "saving"] /\ UNCHANGED <<tracked, told, saved>>
      BY <1>5 DEF EndTurn
    <2> QED BY <1>0, <2>1, TornIsSomething DEF TypeOK, ToldIsSaved
  <1>6. ASSUME NEW r \in Runs, Write(r) PROVE ToldIsSaved'
    <2>1. PICK content \in {Trim(memory[r]), Torn} :
            file' = [file EXCEPT ![FolderOf[r]] = content]
      BY <1>6 DEF Write
    <2>2. content # <<>>
      BY <1>6, <2>1, Saves, TornIsSomething
    <2>3. saved[FolderOf[r]] \o ThisTurn(r) # <<>>
      BY <1>0, <1>6, Saves, RunTypes, ConcatEqualIffEmpty DEF TypeOK
    <2>4. /\ saved' = [saved EXCEPT ![FolderOf[r]] = saved[FolderOf[r]] \o ThisTurn(r)]
          /\ agent' = [agent EXCEPT ![r] = "saved"] /\ UNCHANGED <<tracked, told>>
      BY <1>6 DEF Write
    <2> QED BY <1>0, <2>1, <2>2, <2>3, <2>4, RunTypes DEF TypeOK, ToldIsSaved
  <1>7. ASSUME NEW r \in Runs, ReadBlock(r) PROVE ToldIsSaved'
    <2>1. saved[FolderOf[r]] # <<>>
      BY <1>7 DEF ToldIsSaved, ReadBlock, HasSessionId
    <2> QED BY <1>0, <1>7, <2>1, RunTypes DEF TypeOK, ToldIsSaved, ReadBlock
  <1>8. CASE Restart
    <2>1. \A r \in Runs : agent'[r] \in {agent[r], "gone"} /\ ~ told'[r]
      BY <1>0, <1>8 DEF TypeOK, Restart
    <2> QED BY <1>1, <1>8, <2>1 DEF Restart
  <1>9. CASE UNCHANGED vars
    BY <1>1, <1>9 DEF vars, runState
  <1> QED BY <1>2, <1>3, <1>4, <1>5, <1>6, <1>7, <1>8, <1>9 DEF Next

(* A folder has a row in sessions only when a turn was saved in it and     *)
(* history.json exists, whenever an agent or the host died.                *)
THEOREM RowsMeanHistory == Spec => []SessionRowMeansHistory
  <1>1. Init => ToldIsSaved
    BY DEF Init, ToldIsSaved
  <1>2. HistoryInv /\ ToldIsSaved /\ [Next]_vars => (HistoryInv /\ ToldIsSaved)'
    BY HistoryKept, ToldKept
  <1>3. ToldIsSaved => SessionRowMeansHistory
    BY DEF ToldIsSaved, SessionRowMeansHistory
  <1> QED BY <1>1, <1>2, <1>3, InitHistory, PTL DEF Spec

-----------------------------------------------------------------------------
(* The first life of the host.                                             *)

LEMMA LivesAreCounted == TypeOK /\ [Next]_vars /\ restarts' = 0 => restarts = 0 /\ ~ Restart
  <1> SUFFICES ASSUME TypeOK, [Next]_vars, restarts' = 0 PROVE restarts = 0 /\ ~ Restart
    OBVIOUS
  <1>1. ~ Restart
    BY SessionsAssumption DEF TypeOK, Restart
  <1> QED
    BY <1>1 DEF Next, Begin, Start, FollowUp, TurnBegins, UseTools, EndTurn, Write, Report, Exit,
                ReadBlock, RunEnds, GoDeaf, Dies, vars

LEMMA QueueKept == TypeOK /\ RunsAreQueued /\ [Next]_vars => RunsAreQueued'
  <1> SUFFICES ASSUME TypeOK, RunsAreQueued, [Next]_vars, restarts' = 0
               PROVE  /\ \A r \in Runs : host'[r] # "lost"
                      /\ \A r \in Runs : Alive(r)' \/ told'[r] => host'[r] \in Reading
                      /\ \A q, r \in Runs :
                           /\ host'[q] \in Reading /\ host'[r] \in Reading
                           /\ JidOf[q] = JidOf[r]
                           => q = r
    BY DEF RunsAreQueued
  <1>0. restarts = 0 /\ ~ Restart
    BY LivesAreCounted
  <1>1. /\ \A r \in Runs : host[r] # "lost"
        /\ \A r \in Runs : Alive(r) \/ told[r] => host[r] \in Reading
        /\ \A q, r \in Runs :
             host[q] \in Reading /\ host[r] \in Reading /\ JidOf[q] = JidOf[r] => q = r
    BY <1>0 DEF RunsAreQueued
  <1> DEFINE Goal == /\ \A r \in Runs : host'[r] # "lost"
                     /\ \A r \in Runs : Alive(r)' \/ told'[r] => host'[r] \in Reading
                     /\ \A q, r \in Runs :
                          /\ host'[q] \in Reading /\ host'[r] \in Reading
                          /\ JidOf[q] = JidOf[r]
                          => q = r
  <1>2. ASSUME UNCHANGED host,
               \A r \in Runs : Alive(r)' \/ told'[r] => Alive(r) \/ told[r]
        PROVE  Goal
    BY <1>1, <1>2
  <1>3. ASSUME NEW r \in Runs, Begin(r) PROVE Goal
    <2>1. /\ host' = [host EXCEPT ![r] = "reading"] /\ UNCHANGED told
          /\ \A q \in Runs : JidOf[q] = JidOf[r] => host[q] \notin Reading
          /\ \A q \in Runs \ {r} : agent'[q] = agent[q]
      BY <1>3 DEF Begin, Admitted, TypeOK
    <2> QED BY <1>1, <2>1 DEF TypeOK, Reading, Alive
  <1>4. ASSUME NEW r \in Runs, Start(r) \/ FollowUp(r) \/ UseTools(r) PROVE Goal
    BY <1>2, <1>4 DEF Start, FollowUp, TurnBegins, UseTools, TypeOK, Alive
  <1>5. ASSUME NEW r \in Runs, EndTurn(r) \/ Write(r) \/ Report(r) PROVE Goal
    BY <1>2, <1>5 DEF EndTurn, Write, Report, TypeOK, Alive
  <1>6. ASSUME NEW r \in Runs, Exit(r) \/ ReadBlock(r) PROVE Goal
    BY <1>2, <1>6 DEF Exit, ReadBlock, TypeOK, Alive
  <1>7. ASSUME NEW r \in Runs, NEW h \in {"deaf", "done"}, host' = [host EXCEPT ![r] = h],
               host[r] \in Reading, h = "done" => ~ Alive(r)' /\ ~ told'[r],
               \A q \in Runs \ {r} : Alive(q)' \/ told'[q] => Alive(q) \/ told[q]
        PROVE  Goal
    BY <1>1, <1>7 DEF TypeOK, Reading
  <1>8. ASSUME NEW r \in Runs, RunEnds(r) \/ GoDeaf(r) PROVE Goal
    BY <1>7, <1>8 DEF RunEnds, GoDeaf, TypeOK, Alive
  <1>9. ASSUME NEW r \in Runs, Dies(r) PROVE Goal
    <2>1. \A q \in Runs : Alive(q)' => Alive(q) /\ q # r
      BY <1>9 DEF Dies, TypeOK, Alive
    <2>2. CASE UNCHANGED <<host, told>>
      BY <1>2, <2>1, <2>2
    <2>3. CASE ~ UNCHANGED <<host, told>>
      <3>1. /\ host' = [host EXCEPT ![r] = "done"] /\ host[r] \in Reading
            /\ told' = [told EXCEPT ![r] = FALSE]
        BY <1>9, <2>3 DEF Dies
      <3> QED BY <1>7, <2>1, <3>1 DEF TypeOK
    <2> QED BY <2>2, <2>3
  <1>10. CASE UNCHANGED vars
    BY <1>2, <1>10 DEF vars, runState, Alive
  <1> QED BY <1>0, <1>3, <1>4, <1>5, <1>6, <1>8, <1>9, <1>10 DEF Next

(* In a folder of one chat one agent lives at a time. *)
LEMMA OneAgent ==
  ASSUME TypeOK, RunsAreQueued, NEW f \in Folders, FirstLife(f), NEW q \in Runs, NEW r \in Runs,
         FolderOf[q] = f, FolderOf[r] = f, Alive(q) \/ told[q], Alive(r) \/ told[r]
  PROVE  q = r /\ host[r] \in Reading
  BY DEF RunsAreQueued, FirstLife, OfOneQueue, Reading

LEMMA KeptIsFirstLife ==
  ASSUME NEW f \in Folders, Kept(f)
  PROVE  FirstLife(f)
  BY DEF Kept, FirstLife, OfOneChat, OfOneQueue

-----------------------------------------------------------------------------
(* The conversation.                                                       *)

RunStep(r) ==
  \/ Begin(r) \/ Start(r) \/ FollowUp(r) \/ UseTools(r) \/ EndTurn(r) \/ Write(r)
  \/ Report(r) \/ Exit(r) \/ ReadBlock(r) \/ RunEnds(r) \/ GoDeaf(r) \/ Dies(r)

(* The conditions are lost once and for all. *)
LEMMA FirstLifeBefore ==
  ASSUME TypeOK, [Next]_vars, NEW f \in Folders, FirstLife(f)'
  PROVE  FirstLife(f)
  <1>1. restarts = 0 /\ ~ Restart
    BY LivesAreCounted DEF FirstLife
  <1>2. \A r \in Runs : host[r] # "new" => host'[r] # "new"
    BY <1>1 DEF TypeOK, Next, Begin, Start, FollowUp, TurnBegins, UseTools, EndTurn, Write, Report,
                Exit, ReadBlock, RunEnds, GoDeaf, Dies, vars, runState
  <1> QED BY <1>1, <1>2 DEF FirstLife, OfOneQueue

LEMMA KeptBefore ==
  ASSUME TypeOK, [Next]_vars, NEW f \in Folders, Kept(f)'
  PROVE  Kept(f)
  <1>1. restarts = 0 /\ ~ Restart
    BY LivesAreCounted DEF Kept
  <1>2. \A r \in Runs : host[r] # "new" => host'[r] # "new"
    BY <1>1 DEF TypeOK, Next, Begin, Start, FollowUp, TurnBegins, UseTools, EndTurn, Write, Report,
                Exit, ReadBlock, RunEnds, GoDeaf, Dies, vars, runState
  <1>3. lapses = 0
    <2>1. lapses \in Nat /\ lapses' = 0
      BY SessionsAssumption DEF TypeOK, Kept
    <2>2. ASSUME NEW r \in Runs, GoDeaf(r) \/ Dies(r) PROVE lapses' \in {lapses, lapses + 1}
      BY <2>2 DEF GoDeaf, Dies, Lapse
    <2>3. ASSUME NEW r \in Runs,
                 \/ Begin(r) \/ Start(r) \/ FollowUp(r) \/ UseTools(r) \/ EndTurn(r)
                 \/ Write(r) \/ Report(r) \/ Exit(r) \/ ReadBlock(r) \/ RunEnds(r)
          PROVE  lapses' = lapses
      BY <2>3 DEF Begin, Start, FollowUp, TurnBegins, UseTools, EndTurn, Write, Report, Exit,
                  ReadBlock, RunEnds
    <2>4. UNCHANGED vars => lapses' = lapses
      BY DEF vars
    <2> QED BY <1>1, <2>1, <2>2, <2>3, <2>4 DEF Next
  <1>4. OfOneChat(f)
    BY <1>2 DEF Kept, OfOneChat
  <1> QED BY <1>1, <1>3, <1>4 DEF Kept

(* What is said of a folder depends on the folder and its runs only. *)
LEMMA FolderUntouched ==
  ASSUME NEW f \in Folders, FolderIsKept(f),
         file'[f] = file[f], saved'[f] = saved[f], tracked'[f] = tracked[f],
         \A q \in Runs : FolderOf[q] = f =>
           /\ host'[q] = host[q] /\ agent'[q] = agent[q] /\ given'[q] = given[q]
           /\ memory'[q] = memory[q] /\ told'[q] = told[q] /\ crossed'[q] = crossed[q]
  PROVE  FolderIsKept(f)'
  BY DEF FolderIsKept, AgentKnows, HostLearns

(* Whatever dies, the other runs forget nothing. *)
LEMMA ForgetsNotOthers ==
  ASSUME TypeOK, NEW dead \in SUBSET Runs, Forgets(dead), NEW q \in Runs, q \notin dead
  PROVE  memory'[q] = memory[q] /\ given'[q] = given[q] /\ crossed'[q] = crossed[q]
  <1>1. memory'[q] = memory[q]
    BY DEF Forgets
  <1>2. given'[q] = (given[q] /\ q \notin dead) /\ given[q] \in BOOLEAN
    BY DEF Forgets, TypeOK
  <1>3. crossed'[q] = (crossed[q] /\ q \notin dead) /\ crossed[q] \in BOOLEAN
    BY DEF Forgets, TypeOK
  <1> QED BY <1>1, <1>2, <1>3

(* A step of a run leaves the other folders and their runs alone. *)
LEMMA OtherFolders ==
  ASSUME TypeOK, NEW f \in Folders, NEW r \in Runs, FolderOf[r] # f, RunStep(r)
  PROVE  /\ file'[f] = file[f] /\ saved'[f] = saved[f] /\ tracked'[f] = tracked[f]
         /\ \A q \in Runs : FolderOf[q] = f =>
              /\ host'[q] = host[q] /\ agent'[q] = agent[q] /\ given'[q] = given[q]
              /\ memory'[q] = memory[q] /\ told'[q] = told[q] /\ crossed'[q] = crossed[q]
  <1>1. file'[f] = file[f] /\ saved'[f] = saved[f] /\ tracked'[f] = tracked[f]
    BY DEF TypeOK, RunStep, Begin, Start, FollowUp, TurnBegins, UseTools, EndTurn, Write, Report,
           Exit, ReadBlock, RunEnds, GoDeaf, Dies
  <1>2. ASSUME NEW q \in Runs, q # r
        PROVE  /\ host'[q] = host[q] /\ agent'[q] = agent[q] /\ told'[q] = told[q]
               /\ memory'[q] = memory[q]
    BY <1>2 DEF TypeOK, RunStep, Begin, Start, FollowUp, TurnBegins, UseTools, EndTurn, Write,
                Report, Exit, ReadBlock, RunEnds, GoDeaf, Dies, Forgets
  <1>3. ASSUME NEW q \in Runs, FolderOf[q] = f
        PROVE  given'[q] = given[q] /\ crossed'[q] = crossed[q]
    <2>1. q # r /\ q \notin Writers(r)
      BY <1>3 DEF Writers
    <2>2. CASE Begin(r) \/ Start(r) \/ FollowUp(r) \/ UseTools(r) \/ Write(r)
      BY <2>1, <2>2 DEF TypeOK, Begin, Start, FollowUp, TurnBegins, UseTools, Write
    <2>3. CASE EndTurn(r)
      BY <2>1, <2>3 DEF TypeOK, EndTurn
    <2>4. CASE Report(r) \/ Exit(r) \/ Dies(r)
      <3>1. PICK dead \in {{}, {r}} : Forgets(dead)
        BY <2>4 DEF Report, Exit, Dies
      <3> QED BY <2>1, <3>1, ForgetsNotOthers
    <2>5. CASE ReadBlock(r) \/ RunEnds(r) \/ GoDeaf(r)
      BY <2>5 DEF ReadBlock, RunEnds, GoDeaf
    <2> QED BY <2>2, <2>3, <2>4, <2>5 DEF RunStep
  <1> QED BY <1>1, <1>2, <1>3

(* The steps of the agent of the folder, which is alone in it. *)
LEMMA AgentKeeps ==
  ASSUME HistoryInv, RunsAreQueued, NEW f \in Folders, Kept(f), FolderIsKept(f),
         NEW r \in Runs, FolderOf[r] = f, Alive(r),
         Start(r) \/ FollowUp(r) \/ UseTools(r) \/ EndTurn(r) \/ Write(r)
  PROVE  FolderIsKept(f)'
  <1>0. TypeOK
    BY DEF HistoryInv
  <1>1. \A q \in Runs : FolderOf[q] = f /\ q # r => agent[q] \in {"none", "gone"} /\ ~ told[q]
    BY <1>0, KeptIsFirstLife, OneAgent DEF Alive
  <1>2. /\ \A q \in Runs : FolderOf[q] = f => ~ crossed[q]
        /\ AgentKnows(r) /\ HostLearns(f)
    BY DEF FolderIsKept, AgentKnows
  <1>3. agent[r] # "saving" => file[f] = Trim(saved[f])
    BY <1>1 DEF FolderIsKept
  <1>4. /\ saved[f] \in Seq(Message) /\ memory[r] \in Seq(Message)
        /\ Trim(saved[f]) \in Seq(Message) /\ Trim(saved[f]) # Torn
    BY <1>0, TrimProperties, TornAssumption DEF TypeOK
  <1>5. ASSUME UNCHANGED <<host, told, tracked, saved>>, agent[r] # "saved",
               \A q \in Runs \ {r} : agent'[q] = agent[q]
        PROVE  HostLearns(f)'
    BY <1>2, <1>5 DEF HostLearns
  <1>6. ASSUME \A q \in Runs : FolderOf[q] = f => ~ crossed'[q],
               \A q \in Runs \ {r} : agent'[q] = agent[q], AgentKnows(r)'
        PROVE  \A q \in Runs : FolderOf[q] = f => AgentKnows(q)'
    <2>1. ASSUME NEW q \in Runs, FolderOf[q] = f, q # r PROVE AgentKnows(q)'
      <3>1. agent'[q] \in {"none", "gone"} /\ ~ crossed'[q]
        BY <1>1, <1>6, <2>1
      <3> QED BY <3>1 DEF AgentKnows
    <2> QED BY <1>6, <2>1
  <1>7. CASE Start(r) \/ FollowUp(r)
    <2>1. PICK history \in Seq(Message) :
            /\ Trim(history) = Trim(saved[f]) /\ TurnBegins(r, history)
            /\ Alternates(history) /\ Even(Len(history))
      <3>1. CASE Start(r)
        <4>1. agent[r] = "started" /\ TurnBegins(r, LoadSession(r))
          BY <3>1 DEF Start
        <4>2. CASE given[r]
          <5>1. LoadSession(r) = Trim(saved[f])
            BY <1>3, <1>4, <4>1, <4>2 DEF LoadSession
          <5> QED BY <1>4, <4>1, <5>1, LoadTypes, TrimTwice
        <4>3. CASE ~ given[r]
          <5>1. LoadSession(r) = saved[f]
            BY <1>2, <4>1, <4>3 DEF LoadSession, AgentKnows
          <5> QED BY <4>1, <5>1, LoadTypes
        <4> QED BY <4>2, <4>3
      <3>2. CASE FollowUp(r)
        <4>1. Trim(memory[r]) = Trim(saved[f])
          BY <1>2, <3>2 DEF FollowUp, AgentKnows
        <4>2. Alternates(memory[r]) /\ Even(Len(memory[r]))
          BY <3>2 DEF FollowUp, HistoryInv, MemoryIsWhole
        <4> QED BY <1>4, <3>2, <4>1, <4>2 DEF FollowUp
      <3> QED BY <1>7, <3>1, <3>2
    <2>2. /\ SubSeq(memory'[r], 1, Len(history)) = history /\ Len(history) \in Nat
          /\ \A p \in 1..Len(memory'[r]) :
               IsLastPrompt(memory'[r], p) => p = Len(history) + 1
      BY <1>0, <2>1, TurnOpens
    <2>3. /\ agent'[r] = "thinking" /\ \A q \in Runs \ {r} : agent'[q] = agent[q]
          /\ UNCHANGED <<file, tracked, host, told, crossed, saved>>
          /\ agent[r] \in {"started", "polling"}
      BY <1>0, <1>7, <2>1 DEF TurnBegins, TypeOK, Start, FollowUp
    <2>4. ASSUME NEW p \in 1..Len(memory'[r]), IsLastPrompt(memory'[r], p)
          PROVE  Trim(SubSeq(memory'[r], 1, p - 1)) = Trim(saved[f])
      <3>1. p - 1 = Len(history)
        BY <2>2, <2>4
      <3> QED BY <2>1, <2>2, <3>1
    <2>5. AgentKnows(r)'
      BY <1>2, <2>3, <2>4 DEF AgentKnows
    <2> QED BY <1>2, <1>3, <1>5, <1>6, <2>3, <2>5 DEF FolderIsKept
  <1>8. CASE UseTools(r)
    <2>1. \A p \in 1..Len(memory'[r]) : IsLastPrompt(memory'[r], p) =>
            /\ p \in 1..Len(memory[r]) /\ IsLastPrompt(memory[r], p)
            /\ SubSeq(memory'[r], 1, p - 1) = SubSeq(memory[r], 1, p - 1)
      BY <1>8, ToolsAreUsed
    <2>2. /\ UNCHANGED <<agent, file, tracked, host, told, crossed, saved>>
          /\ agent[r] = "thinking"
      BY <1>8 DEF UseTools
    <2>3. AgentKnows(r)'
      BY <1>2, <2>1, <2>2 DEF AgentKnows
    <2> QED BY <1>2, <1>3, <1>5, <1>6, <2>2, <2>3 DEF FolderIsKept
  <1>9. CASE EndTurn(r)
    <2>1. \A p \in 1..Len(memory'[r]) : IsLastPrompt(memory'[r], p) =>
            /\ p \in 1..Len(memory[r]) /\ IsLastPrompt(memory[r], p)
            /\ SubSeq(memory'[r], 1, p - 1) = SubSeq(memory[r], 1, p - 1)
      BY <1>9, TurnEnds
    <2>2. /\ agent'[r] = "saving" /\ \A q \in Runs \ {r} : agent'[q] = agent[q]
          /\ UNCHANGED <<tracked, host, told, saved>> /\ agent[r] = "thinking"
      BY <1>0, <1>9 DEF EndTurn, TypeOK
    <2>3. Writers(r) = {}
      BY <1>1 DEF Writers
    <2>4. \A q \in Runs : FolderOf[q] = f => ~ crossed'[q]
      BY <1>2, <1>9, <2>3 DEF EndTurn
    <2>5. AgentKnows(r)'
      BY <1>2, <2>1, <2>2, <2>4 DEF AgentKnows
    <2> QED BY <1>5, <1>6, <2>2, <2>4, <2>5 DEF FolderIsKept
  <1>10. CASE Write(r)
    <2>1. /\ agent' = [agent EXCEPT ![r] = "saved"] /\ agent[r] = "saving"
          /\ file' = [file EXCEPT ![f] = Trim(memory[r])]
          /\ crossed' = [crossed EXCEPT ![r] = FALSE]
          /\ saved' = [saved EXCEPT ![f] = saved[f] \o ThisTurn(r)]
          /\ UNCHANGED <<tracked, host, memory, told>>
      BY <1>2, <1>10 DEF Write
    <2>2. PICK p \in 1..Len(memory[r]) : IsLastPrompt(memory[r], p)
      BY <2>1 DEF HistoryInv, MemoryIsWhole
    <2>3. Trim(SubSeq(memory[r], 1, p - 1)) = Trim(saved[f])
      BY <1>2, <2>1, <2>2 DEF AgentKnows
    <2>4. /\ SubSeq(memory[r], 1, p - 1) \in Seq(Message) /\ ThisTurn(r) \in Seq(Message)
          /\ memory[r] = SubSeq(memory[r], 1, p - 1) \o ThisTurn(r)
      BY <1>0, <2>2, TurnIsTheRest
    <2>5. Trim(memory[r]) = Trim(saved[f] \o ThisTurn(r))
      <3>1. PICK before \in Seq(Message) : before = SubSeq(memory[r], 1, p - 1)
        BY <2>4
      <3>2. PICK turn \in Seq(Message) : turn = ThisTurn(r)
        BY <2>4
      <3>3. Trim(before) = Trim(saved[f]) /\ memory[r] = before \o turn
        BY <2>3, <2>4, <3>1, <3>2
      <3>4. Trim(before \o turn) = Trim(saved[f] \o turn)
        BY <1>4, <3>3, TrimAppended
      <3> QED BY <3>2, <3>3, <3>4
    <2>6. file'[f] = Trim(memory[r]) /\ saved'[f] = saved[f] \o ThisTurn(r)
      BY <1>0, <2>1 DEF TypeOK
    <2>7. agent'[r] = "saved" /\ \A q \in Runs \ {r} : agent'[q] = agent[q]
      BY <1>0, <2>1 DEF TypeOK
    <2>8. \A q \in Runs : FolderOf[q] = f => ~ crossed'[q]
      BY <1>0, <1>2, <2>1 DEF TypeOK
    <2>9. AgentKnows(r)'
      BY <2>1, <2>5, <2>6, <2>7, <2>8 DEF AgentKnows
    <2>10. ~ tracked[f] => host[r] = "reading"
      BY <1>0, <1>2, KeptIsFirstLife, OneAgent DEF HostLearns, Reading
    <2>11. HostLearns(f)'
      BY <1>2, <2>1, <2>7, <2>10 DEF HostLearns
    <2> QED BY <1>6, <2>5, <2>6, <2>7, <2>8, <2>9, <2>11 DEF FolderIsKept
  <1> QED BY <1>7, <1>8, <1>9, <1>10

(* The steps of the host, and the end of an agent. *)
LEMMA HostKeeps ==
  ASSUME HistoryInv, RunsAreQueued, NEW f \in Folders, Kept(f), Kept(f)', FolderIsKept(f),
         NEW r \in Runs, FolderOf[r] = f,
         Begin(r) \/ Report(r) \/ Exit(r) \/ ReadBlock(r) \/ RunEnds(r) \/ GoDeaf(r) \/ Dies(r)
  PROVE  FolderIsKept(f)'
  <1>0. TypeOK /\ restarts = 0 /\ lapses = 0 /\ lapses' = 0
    BY DEF HistoryInv, Kept
  <1>1. /\ \A q \in Runs : FolderOf[q] = f => AgentKnows(q) /\ ~ crossed[q]
        /\ HostLearns(f)
        /\ file[f] = Trim(saved[f]) \/ \E q \in Runs : FolderOf[q] = f /\ agent[q] = "saving"
    BY DEF FolderIsKept, AgentKnows
  <1>2. UNCHANGED <<file, saved>>
    BY DEF Begin, Report, Exit, ReadBlock, RunEnds, GoDeaf, Dies
  <1>3. \A q \in Runs \ {r} :
          /\ host'[q] = host[q] /\ agent'[q] = agent[q] /\ given'[q] = given[q]
          /\ memory'[q] = memory[q] /\ told'[q] = told[q] /\ crossed'[q] = crossed[q]
    <2>1. ASSUME NEW q \in Runs \ {r}
          PROVE  host'[q] = host[q] /\ agent'[q] = agent[q] /\ told'[q] = told[q]
      BY <1>0, <2>1 DEF TypeOK, Begin, Report, Exit, ReadBlock, RunEnds, GoDeaf, Dies
    <2>2. ASSUME NEW q \in Runs \ {r}
          PROVE  given'[q] = given[q] /\ memory'[q] = memory[q] /\ crossed'[q] = crossed[q]
      <3>1. CASE Begin(r) \/ ReadBlock(r) \/ RunEnds(r) \/ GoDeaf(r)
        BY <1>0, <2>2, <3>1 DEF TypeOK, Begin, ReadBlock, RunEnds, GoDeaf
      <3>2. CASE Report(r) \/ Exit(r) \/ Dies(r)
        <4>1. PICK dead \in {{}, {r}} : Forgets(dead)
          BY <3>2 DEF Report, Exit, Dies
        <4> QED BY <1>0, <2>2, <4>1, ForgetsNotOthers
      <3> QED BY <3>1, <3>2
    <2> QED BY <2>1, <2>2
  <1>4. ASSUME AgentKnows(r)', HostLearns(f)', agent[r] = "saving" => agent'[r] = "saving"
        PROVE  FolderIsKept(f)'
    <2>1. \A q \in Runs : FolderOf[q] = f /\ q # r => AgentKnows(q)'
      BY <1>1, <1>2, <1>3 DEF AgentKnows
    <2>2. file'[f] = Trim(saved'[f]) \/ \E q \in Runs : FolderOf[q] = f /\ agent'[q] = "saving"
      BY <1>1, <1>2, <1>3, <1>4
    <2> QED BY <1>4, <2>1, <2>2 DEF FolderIsKept
  <1>5. CASE Begin(r)
    <2>1. /\ host[r] = "new" /\ host'[r] = "reading" /\ agent'[r] = "started"
          /\ given'[r] = SessionId(r)
          /\ UNCHANGED <<tracked, told, crossed>>
          /\ \A q \in Runs : JidOf[q] = JidOf[r] => host[q] \notin Reading
      BY <1>0, <1>5 DEF TypeOK, Begin, Admitted
    <2>2. ~ Alive(r)
      BY <1>0, <2>1 DEF RunsAreQueued, Reading
    <2>3. ASSUME NEW q \in Runs, FolderOf[q] = f, host[q] = "reading" PROVE FALSE
      <3>1. host'[q] # "new" /\ host'[r] # "new"
        BY <1>3, <2>1, <2>3
      <3>2. JidOf[q] = JidOf[r]
        BY <2>3, <3>1 DEF Kept, OfOneChat
      <3> QED BY <2>1, <2>3, <3>2 DEF Reading
    <2>4. ~ tracked[f] => saved[f] = <<>>
      BY <1>1, <2>3 DEF HostLearns
    <2>5. r \notin Isolated
      BY <2>1 DEF Kept, OfOneChat
    <2>6. AgentKnows(r)'
      BY <1>1, <1>2, <2>1, <2>4, <2>5 DEF AgentKnows, SessionId
    <2>7. HostLearns(f)'
      BY <1>1, <1>2, <1>3, <2>1, <2>4 DEF HostLearns
    <2> QED BY <1>4, <2>2, <2>6, <2>7 DEF Alive
  <1>6. CASE Report(r)
    <2>1. host[r] # "lost" /\ agent[r] = "saved"
      BY <1>0, <1>6 DEF Report, RunsAreQueued
    <2>2. /\ agent'[r] = "polling" /\ told'[r] /\ memory'[r] = memory[r]
          /\ crossed'[r] = crossed[r] /\ UNCHANGED <<tracked, host>>
      BY <1>0, <1>6, <2>1 DEF TypeOK, Report, Forgets
    <2>3. AgentKnows(r)'
      BY <1>1, <1>2, <2>1, <2>2 DEF AgentKnows
    <2>4. HostLearns(f)'
      BY <1>1, <1>2, <1>3, <2>2 DEF HostLearns
    <2> QED BY <1>4, <2>1, <2>3, <2>4
  <1>7. CASE Exit(r)
    <2>1. /\ agent[r] = "polling" /\ agent'[r] = "gone" /\ ~ crossed'[r]
          /\ UNCHANGED <<tracked, host, told>>
      BY <1>0, <1>7 DEF TypeOK, Exit, Forgets
    <2>2. AgentKnows(r)'
      BY <2>1 DEF AgentKnows
    <2>3. HostLearns(f)'
      BY <1>1, <1>2, <1>3, <2>1 DEF HostLearns
    <2> QED BY <1>4, <2>1, <2>2, <2>3
  <1>8. CASE ReadBlock(r)
    <2>1. r \notin Isolated
      BY <1>8 DEF ReadBlock, Kept, OfOneChat
    <2>2. tracked'[f] /\ UNCHANGED <<host, agent, given, memory, crossed>>
      BY <1>0, <1>8, <2>1 DEF TypeOK, ReadBlock
    <2>3. AgentKnows(r)'
      BY <1>1, <1>2, <2>2 DEF AgentKnows
    <2>4. HostLearns(f)'
      BY <2>2 DEF HostLearns
    <2> QED BY <1>4, <2>2, <2>3, <2>4
  <1>9. CASE RunEnds(r)
    <2>1. /\ host'[r] = "done" /\ agent[r] = "gone" /\ (host[r] = "reading" => ~ told[r])
          /\ UNCHANGED <<tracked, agent, given, memory, crossed>>
      BY <1>0, <1>9 DEF TypeOK, RunEnds
    <2>2. AgentKnows(r)'
      BY <1>1, <1>2, <2>1 DEF AgentKnows
    <2>3. HostLearns(f)'
      BY <1>1, <1>2, <1>3, <2>1 DEF HostLearns
    <2> QED BY <1>4, <2>1, <2>2, <2>3
  <1>10. CASE GoDeaf(r)
    <2>1. tracked[f]
      BY <1>0, <1>10 DEF GoDeaf, Lapse
    <2>2. UNCHANGED <<tracked, agent, given, memory, told, crossed>>
      BY <1>10 DEF GoDeaf
    <2>3. AgentKnows(r)'
      BY <1>1, <1>2, <2>2 DEF AgentKnows
    <2>4. HostLearns(f)'
      BY <2>1, <2>2 DEF HostLearns
    <2> QED BY <1>4, <2>2, <2>3, <2>4
  <1>11. CASE Dies(r)
    <2>1. ~ Costly(r)
      BY <1>0, <1>11 DEF Dies, Lapse
    <2>2. /\ agent'[r] = "gone" /\ ~ crossed'[r] /\ UNCHANGED tracked
          /\ host'[r] \in {host[r], "done"}
      BY <1>0, <1>11 DEF TypeOK, Dies, Forgets
    <2>3. AgentKnows(r)'
      BY <2>2 DEF AgentKnows
    <2>4. HostLearns(f)'
      BY <1>1, <1>2, <1>3, <2>1, <2>2 DEF HostLearns, Costly
    <2> QED BY <1>4, <2>1, <2>3, <2>4 DEF Costly
  <1> QED BY <1>5, <1>6, <1>7, <1>8, <1>9, <1>10, <1>11

LEMMA ConversationStep ==
  HistoryInv /\ RunsAreQueued /\ FoldersAreKept /\ [Next]_vars => FoldersAreKept'
  <1> SUFFICES ASSUME HistoryInv, RunsAreQueued, FoldersAreKept, [Next]_vars,
                      NEW f \in Folders, Kept(f)'
               PROVE  FolderIsKept(f)'
    BY DEF FoldersAreKept
  <1>1. TypeOK /\ Kept(f) /\ FolderIsKept(f)
    BY KeptBefore DEF HistoryInv, FoldersAreKept
  <1>2. \/ \E r \in Runs : RunStep(r)
        \/ UNCHANGED vars
    BY <1>1, LivesAreCounted DEF Next, RunStep, Kept
  <1>3. ASSUME NEW r \in Runs, RunStep(r), FolderOf[r] = f PROVE FolderIsKept(f)'
    <2>1. Start(r) \/ FollowUp(r) \/ UseTools(r) \/ EndTurn(r) \/ Write(r) => Alive(r)
      BY DEF Start, FollowUp, UseTools, EndTurn, Write, Alive
    <2> QED BY <1>1, <1>3, <2>1, AgentKeeps, HostKeeps DEF RunStep
  <1>4. CASE UNCHANGED vars
    BY <1>1, <1>4, FolderUntouched DEF vars, runState
  <1>5. ASSUME NEW r \in Runs, RunStep(r), FolderOf[r] # f PROVE FolderIsKept(f)'
    BY <1>1, <1>5, OtherFolders, FolderUntouched
  <1> QED BY <1>2, <1>3, <1>4, <1>5

(* In a folder of one chat, as long as the host lives and nothing costs a  *)
(* history, history.json holds the latest messages of every turn that was  *)
(* ever saved, however the runs, their tools and their failures interleave *)
(* with those of other folders.                                            *)
THEOREM ConversationsAreKept == Spec => []ConversationIsKept
  <1> DEFINE Whole == HistoryInv /\ RunsAreQueued /\ FoldersAreKept
  <1>1. Init => RunsAreQueued /\ FoldersAreKept
    <2>1. ASSUME Init PROVE RunsAreQueued
      BY <2>1 DEF Init, RunsAreQueued, Reading, Alive
    <2>2. ASSUME Init, NEW f \in Folders PROVE FolderIsKept(f)
      <3>1. Trim(<<>>) = <<>>
        BY SessionsAssumption DEF Trim
      <3>2. file[f] = Trim(saved[f])
        BY <2>2, <3>1 DEF Init
      <3> QED BY <2>2, <3>2 DEF Init, FolderIsKept, AgentKnows, HostLearns
    <2> QED BY <2>1, <2>2 DEF FoldersAreKept
  <1>2. Whole /\ [Next]_vars => Whole'
    BY HistoryKept, QueueKept, ConversationStep DEF HistoryInv
  <1>3. Whole => ConversationIsKept
    BY DEF FoldersAreKept, FolderIsKept, Kept, ConversationIsKept
  <1>4. Init => Whole
    BY <1>1, InitHistory
  <1> QED BY <1>2, <1>3, <1>4, PTL DEF Spec

-----------------------------------------------------------------------------
(* Histories without holes.                                                *)

LEMMA NothingIsAnEnd ==
  ASSUME NEW all \in Seq(Message)
  PROVE  IsEnd(<<>>, all)
  <1>1. Len(all) + 1 \in 1..Len(all) + 1 /\ Len(all) \in Nat
    OBVIOUS
  <1>2. SubSeq(all, Len(all) + 1, Len(all)) = <<>>
    BY <1>1, SubSeqEmpty
  <1> QED BY <1>1, <1>2 DEF IsEnd

(* An end of a conversation is trimmed to an end of it. *)
LEMMA EndTrimmed ==
  ASSUME NEW messages \in Seq(Message), NEW all, IsEnd(messages, all)
  PROVE  IsEnd(Trim(messages), all)
  BY TrimTwice DEF IsEnd

(* A turn that is added to an end and to all makes an end. *)
LEMMA EndAppended ==
  ASSUME NEW messages \in Seq(Message), NEW all \in Seq(Message), NEW turn \in Seq(Message),
         IsEnd(messages, all)
  PROVE  IsEnd(messages \o turn, all \o turn)
  <1>1. PICK p \in 1..Len(all) + 1 : Trim(messages) = Trim(SubSeq(all, p, Len(all)))
    BY DEF IsEnd
  <1> DEFINE n == Len(all)
             whole == all \o turn
             before == SubSeq(all, p, n)
             after == SubSeq(whole, p, Len(whole))
  <1>2. /\ n \in Nat /\ p \in Nat \ {0} /\ p <= n + 1 /\ Len(turn) \in Nat
        /\ whole \in Seq(Message) /\ Len(whole) = n + Len(turn)
        /\ \A i \in 1..n + Len(turn) : whole[i] = IF i <= n THEN all[i] ELSE turn[i - n]
    BY ConcatProperties
  <1>3. /\ before \in Seq(Message) /\ Len(before) = (n - p) + 1
        /\ \A i \in 1..(n - p) + 1 : before[i] = all[(p + i) - 1]
    <2>1. p \in Int /\ n \in Int /\ \A i \in p..n : all[i] \in Message
      BY <1>2, ElementOfSeq
    <2>2. /\ before \in Seq(Message)
          /\ Len(before) = IF p <= n THEN n - p + 1 ELSE 0
          /\ \A i \in 1..n - p + 1 : before[i] = all[p + i - 1]
      BY <2>1, SubSeqProperties
    <2> QED BY <1>2, <2>2
  <1>4. /\ after \in Seq(Message) /\ Len(after) = ((n + Len(turn)) - p) + 1
        /\ \A i \in 1..((n + Len(turn)) - p) + 1 : after[i] = whole[(p + i) - 1]
    <2>1. /\ p \in Int /\ Len(whole) \in Int
          /\ \A i \in p..Len(whole) : whole[i] \in Message
      BY <1>2, ElementOfSeq
    <2>2. /\ after \in Seq(Message)
          /\ Len(after) = IF p <= Len(whole) THEN Len(whole) - p + 1 ELSE 0
          /\ \A i \in 1..Len(whole) - p + 1 : after[i] = whole[p + i - 1]
      BY <2>1, SubSeqProperties
    <2> QED BY <1>2, <2>2
  <1>5. after = before \o turn
    <2>1. /\ before \o turn \in Seq(Message)
          /\ Len(before \o turn) = Len(before) + Len(turn)
          /\ \A i \in 1..Len(before) + Len(turn) :
               (before \o turn)[i] = IF i <= Len(before) THEN before[i] ELSE turn[i - Len(before)]
      BY <1>3, ConcatProperties
    <2>2. Len(after) = Len(before) + Len(turn)
      BY <1>2, <1>3, <1>4
    <2>3. ASSUME NEW i \in 1..Len(before) + Len(turn)
          PROVE  after[i] = (before \o turn)[i]
      <3>1. after[i] = whole[(p + i) - 1]
        BY <1>2, <1>3, <1>4
      <3>2. CASE i <= Len(before)
        <4>1. i \in 1..(n - p) + 1 /\ (p + i) - 1 \in 1..n + Len(turn) /\ (p + i) - 1 <= n
          BY <1>2, <1>3, <3>2
        <4>2. whole[(p + i) - 1] = all[(p + i) - 1] /\ before[i] = all[(p + i) - 1]
          BY <1>2, <1>3, <4>1
        <4> QED BY <2>1, <3>1, <3>2, <4>2
      <3>3. CASE ~ i <= Len(before)
        <4>1. /\ (p + i) - 1 \in 1..n + Len(turn) /\ ~ (p + i) - 1 <= n
              /\ ((p + i) - 1) - n = i - Len(before)
          BY <1>2, <1>3, <3>3
        <4>2. whole[(p + i) - 1] = turn[((p + i) - 1) - n]
          BY <1>2, <4>1
        <4> QED BY <2>1, <3>1, <3>3, <4>1, <4>2
      <3> QED BY <3>2, <3>3
    <2> QED BY <1>4, <2>1, <2>2, <2>3, SeqEqual
  <1>6. Trim(messages \o turn) = Trim(after)
    <2>1. PICK part \in Seq(Message) : part = before
      BY <1>3
    <2>2. Trim(messages) = Trim(part) /\ after = part \o turn
      BY <1>1, <1>5, <2>1
    <2>3. Trim(messages \o turn) = Trim(part \o turn)
      BY <2>2, TrimAppended
    <2> QED BY <2>2, <2>3
  <1>7. p \in 1..Len(whole) + 1
    BY <1>2
  <1> QED BY <1>6, <1>7 DEF IsEnd

(* The steps of the agent of the folder, which is alone in it. *)
LEMMA AgentKeepsEnd ==
  ASSUME HistoryInv, RunsAreQueued, NEW f \in Folders, FirstLife(f), FolderHasEnd(f),
         NEW r \in Runs, FolderOf[r] = f, Alive(r),
         Start(r) \/ FollowUp(r) \/ UseTools(r) \/ EndTurn(r) \/ Write(r)
  PROVE  FolderHasEnd(f)'
  <1>0. TypeOK
    BY DEF HistoryInv
  <1>1. \A q \in Runs : FolderOf[q] = f /\ q # r => agent[q] \in {"none", "gone"}
    BY <1>0, OneAgent DEF Alive
  <1>2. /\ \A q \in Runs : FolderOf[q] = f => ~ crossed[q]
        /\ AgentHasEnd(r)
        /\ file[f] # Torn => file[f] = Trim(file[f]) /\ IsEnd(file[f], saved[f])
    BY DEF FolderHasEnd, AgentHasEnd
  <1>3. saved[f] \in Seq(Message) /\ memory[r] \in Seq(Message)
    BY <1>0 DEF TypeOK
  <1>4. ASSUME \A q \in Runs : FolderOf[q] = f => ~ crossed'[q],
               \A q \in Runs \ {r} : agent'[q] = agent[q], AgentHasEnd(r)'
        PROVE  \A q \in Runs : FolderOf[q] = f => AgentHasEnd(q)'
    <2>1. ASSUME NEW q \in Runs, FolderOf[q] = f, q # r PROVE AgentHasEnd(q)'
      <3>1. agent'[q] \in {"none", "gone"} /\ ~ crossed'[q]
        BY <1>1, <1>4, <2>1
      <3> QED BY <3>1 DEF AgentHasEnd
    <2> QED BY <1>4, <2>1
  <1>5. CASE Start(r) \/ FollowUp(r)
    <2>1. PICK history \in Seq(Message) :
            /\ IsEnd(history, saved[f]) /\ TurnBegins(r, history)
            /\ Alternates(history) /\ Even(Len(history))
      <3>1. CASE Start(r)
        <4>1. IsEnd(LoadSession(r), saved[f])
          BY <1>2, <1>3, NothingIsAnEnd DEF LoadSession
        <4> QED BY <3>1, <4>1, LoadTypes DEF Start
      <3>2. CASE FollowUp(r)
        <4>1. IsEnd(memory[r], saved[f])
          BY <1>2, <3>2 DEF FollowUp, AgentHasEnd
        <4>2. Alternates(memory[r]) /\ Even(Len(memory[r]))
          BY <3>2 DEF FollowUp, HistoryInv, MemoryIsWhole
        <4> QED BY <1>3, <3>2, <4>1, <4>2 DEF FollowUp
      <3> QED BY <1>5, <3>1, <3>2
    <2>2. /\ SubSeq(memory'[r], 1, Len(history)) = history /\ Len(history) \in Nat
          /\ \A p \in 1..Len(memory'[r]) :
               IsLastPrompt(memory'[r], p) => p = Len(history) + 1
      BY <1>0, <2>1, TurnOpens
    <2>3. /\ agent'[r] = "thinking" /\ \A q \in Runs \ {r} : agent'[q] = agent[q]
          /\ UNCHANGED <<file, crossed, saved>>
      BY <1>0, <2>1 DEF TurnBegins, TypeOK
    <2>4. ASSUME NEW p \in 1..Len(memory'[r]), IsLastPrompt(memory'[r], p)
          PROVE  IsEnd(SubSeq(memory'[r], 1, p - 1), saved[f])
      <3>1. p - 1 = Len(history)
        BY <2>2, <2>4
      <3> QED BY <2>1, <2>2, <3>1
    <2>5. AgentHasEnd(r)'
      BY <1>2, <2>3, <2>4 DEF AgentHasEnd
    <2> QED BY <1>2, <1>4, <2>3, <2>5 DEF FolderHasEnd
  <1>6. CASE UseTools(r)
    <2>1. \A p \in 1..Len(memory'[r]) : IsLastPrompt(memory'[r], p) =>
            /\ p \in 1..Len(memory[r]) /\ IsLastPrompt(memory[r], p)
            /\ SubSeq(memory'[r], 1, p - 1) = SubSeq(memory[r], 1, p - 1)
      BY <1>6, ToolsAreUsed
    <2>2. UNCHANGED <<agent, file, crossed, saved>> /\ agent[r] = "thinking"
      BY <1>6 DEF UseTools
    <2>3. AgentHasEnd(r)'
      BY <1>2, <2>1, <2>2 DEF AgentHasEnd
    <2> QED BY <1>2, <1>4, <2>2, <2>3 DEF FolderHasEnd
  <1>7. CASE EndTurn(r)
    <2>1. \A p \in 1..Len(memory'[r]) : IsLastPrompt(memory'[r], p) =>
            /\ p \in 1..Len(memory[r]) /\ IsLastPrompt(memory[r], p)
            /\ SubSeq(memory'[r], 1, p - 1) = SubSeq(memory[r], 1, p - 1)
      BY <1>7, TurnEnds
    <2>2. /\ agent'[r] = "saving" /\ \A q \in Runs \ {r} : agent'[q] = agent[q]
          /\ UNCHANGED saved /\ agent[r] = "thinking" /\ file'[f] = Torn
      BY <1>0, <1>7 DEF EndTurn, TypeOK
    <2>3. Writers(r) = {}
      BY <1>1 DEF Writers
    <2>4. \A q \in Runs : FolderOf[q] = f => ~ crossed'[q]
      BY <1>2, <1>7, <2>3 DEF EndTurn
    <2>5. AgentHasEnd(r)'
      BY <1>2, <2>1, <2>2, <2>4 DEF AgentHasEnd
    <2> QED BY <1>4, <2>2, <2>4, <2>5 DEF FolderHasEnd
  <1>8. CASE Write(r)
    <2>1. /\ agent' = [agent EXCEPT ![r] = "saved"] /\ agent[r] = "saving"
          /\ file' = [file EXCEPT ![f] = Trim(memory[r])]
          /\ crossed' = [crossed EXCEPT ![r] = FALSE]
          /\ saved' = [saved EXCEPT ![f] = saved[f] \o ThisTurn(r)]
          /\ UNCHANGED memory
      BY <1>2, <1>8 DEF Write
    <2>2. PICK p \in 1..Len(memory[r]) : IsLastPrompt(memory[r], p)
      BY <2>1 DEF HistoryInv, MemoryIsWhole
    <2>3. IsEnd(SubSeq(memory[r], 1, p - 1), saved[f])
      BY <1>2, <2>1, <2>2 DEF AgentHasEnd
    <2>4. /\ SubSeq(memory[r], 1, p - 1) \in Seq(Message) /\ ThisTurn(r) \in Seq(Message)
          /\ memory[r] = SubSeq(memory[r], 1, p - 1) \o ThisTurn(r)
      BY <1>0, <2>2, TurnIsTheRest
    <2>5. IsEnd(memory[r], saved[f] \o ThisTurn(r))
      <3>1. PICK before \in Seq(Message) : before = SubSeq(memory[r], 1, p - 1)
        BY <2>4
      <3>2. PICK turn \in Seq(Message) : turn = ThisTurn(r)
        BY <2>4
      <3>3. IsEnd(before, saved[f]) /\ memory[r] = before \o turn
        BY <2>3, <2>4, <3>1, <3>2
      <3>4. IsEnd(before \o turn, saved[f] \o turn)
        BY <1>3, <3>3, EndAppended
      <3> QED BY <3>2, <3>3, <3>4
    <2>6. file'[f] = Trim(memory[r]) /\ saved'[f] = saved[f] \o ThisTurn(r)
      BY <1>0, <2>1 DEF TypeOK
    <2>7. agent'[r] = "saved" /\ \A q \in Runs \ {r} : agent'[q] = agent[q]
      BY <1>0, <2>1 DEF TypeOK
    <2>8. \A q \in Runs : FolderOf[q] = f => ~ crossed'[q]
      BY <1>0, <1>2, <2>1 DEF TypeOK
    <2>9. AgentHasEnd(r)'
      BY <2>1, <2>5, <2>6, <2>7, <2>8 DEF AgentHasEnd
    <2>10. IsEnd(Trim(memory[r]), saved[f] \o ThisTurn(r)) /\ Trim(Trim(memory[r])) = Trim(memory[r])
      BY <1>3, <2>5, EndTrimmed, TrimTwice
    <2> QED BY <1>4, <2>6, <2>7, <2>8, <2>9, <2>10 DEF FolderHasEnd
  <1> QED BY <1>5, <1>6, <1>7, <1>8

(* The other steps leave the file, and what is remembered or forgotten.    *)
LEMMA HostKeepsEnd ==
  ASSUME HistoryInv, NEW f \in Folders, FolderHasEnd(f), NEW r \in Runs, FolderOf[r] = f,
         Begin(r) \/ Report(r) \/ Exit(r) \/ ReadBlock(r) \/ RunEnds(r) \/ GoDeaf(r) \/ Dies(r)
  PROVE  FolderHasEnd(f)'
  <1>0. TypeOK
    BY DEF HistoryInv
  <1>1. UNCHANGED <<file, saved>>
    BY DEF Begin, Report, Exit, ReadBlock, RunEnds, GoDeaf, Dies
  <1>2. ASSUME NEW q \in Runs, FolderOf[q] = f
        PROVE  /\ ~ crossed'[q]
               /\ \/ agent'[q] \in {"started", "gone"}
                  \/ agent'[q] = agent[q] /\ memory'[q] = memory[q]
                  \/ agent[q] = "saved" /\ agent'[q] = "polling" /\ memory'[q] = memory[q]
    <2>1. ~ crossed[q] /\ crossed[q] \in BOOLEAN
      BY <1>0, <1>2 DEF FolderHasEnd, AgentHasEnd, TypeOK
    <2>2. CASE Begin(r) \/ ReadBlock(r) \/ RunEnds(r) \/ GoDeaf(r)
      BY <1>0, <2>1, <2>2 DEF TypeOK, Begin, ReadBlock, RunEnds, GoDeaf
    <2>3. CASE Exit(r) \/ Dies(r)
      <3>1. Forgets({r}) /\ agent' = [agent EXCEPT ![r] = "gone"]
        BY <2>3 DEF Exit, Dies
      <3> QED BY <1>0, <2>1, <3>1 DEF Forgets, TypeOK
    <2>4. CASE Report(r)
      <3>1. PICK dead \in SUBSET Runs :
              /\ Forgets(dead) /\ agent[r] = "saved"
              /\ agent' = [agent EXCEPT ![r] = IF dead = {} THEN "polling" ELSE "gone"]
              /\ dead \in {{}, {r}}
        BY <2>4 DEF Report
      <3> QED BY <1>0, <2>1, <3>1 DEF Forgets, TypeOK
    <2> QED BY <2>2, <2>3, <2>4
  <1>3. ASSUME NEW q \in Runs, FolderOf[q] = f PROVE AgentHasEnd(q)'
    <2>1. AgentHasEnd(q)
      BY <1>3 DEF FolderHasEnd
    <2> QED BY <1>1, <1>2, <1>3, <2>1 DEF AgentHasEnd
  <1> QED BY <1>1, <1>3 DEF FolderHasEnd

LEMMA EndsStep ==
  HistoryInv /\ RunsAreQueued /\ FoldersHaveEnds /\ [Next]_vars => FoldersHaveEnds'
  <1> SUFFICES ASSUME HistoryInv, RunsAreQueued, FoldersHaveEnds, [Next]_vars,
                      NEW f \in Folders, FirstLife(f)'
               PROVE  FolderHasEnd(f)'
    BY DEF FoldersHaveEnds
  <1>1. TypeOK /\ FirstLife(f) /\ FolderHasEnd(f)
    BY FirstLifeBefore DEF HistoryInv, FoldersHaveEnds
  <1>2. \/ \E r \in Runs : RunStep(r)
        \/ UNCHANGED vars
    BY <1>1, LivesAreCounted DEF Next, RunStep, FirstLife
  <1>3. ASSUME NEW r \in Runs, RunStep(r), FolderOf[r] = f PROVE FolderHasEnd(f)'
    <2>1. Start(r) \/ FollowUp(r) \/ UseTools(r) \/ EndTurn(r) \/ Write(r) => Alive(r)
      BY DEF Start, FollowUp, UseTools, EndTurn, Write, Alive
    <2> QED BY <1>1, <1>3, <2>1, AgentKeepsEnd, HostKeepsEnd DEF RunStep
  <1>4. ASSUME NEW r \in Runs, RunStep(r), FolderOf[r] # f PROVE FolderHasEnd(f)'
    BY <1>1, <1>4, OtherFolders DEF FolderHasEnd, AgentHasEnd
  <1>5. CASE UNCHANGED vars
    BY <1>1, <1>5 DEF vars, runState, FolderHasEnd, AgentHasEnd
  <1> QED BY <1>2, <1>3, <1>4, <1>5

(* As long as the host lives, the history of a folder in which one chat    *)
(* works holds the latest messages of an unbroken end of its conversation: *)
(* agents that die, deaf hosts and isolated tasks cost the beginning only. *)
THEOREM HistoriesHaveNoHoles == Spec => []HistoryHasNoHoles
  <1> DEFINE Whole == HistoryInv /\ RunsAreQueued /\ FoldersHaveEnds
  <1>1. ASSUME Init PROVE RunsAreQueued /\ FoldersHaveEnds
    <2>1. RunsAreQueued
      BY <1>1 DEF Init, RunsAreQueued, Reading, Alive
    <2>2. <<>> \in Seq(Message) /\ Trim(<<>>) = <<>> /\ IsEnd(<<>>, <<>>)
      <3>1. <<>> \in Seq(Message)
        OBVIOUS
      <3>2. Trim(<<>>) = <<>>
        BY SessionsAssumption DEF Trim
      <3> QED BY <3>1, <3>2, NothingIsAnEnd
    <2>3. ASSUME NEW f \in Folders PROVE FolderHasEnd(f)
      BY <1>1, <2>2 DEF Init, FolderHasEnd, AgentHasEnd
    <2> QED BY <2>1, <2>3 DEF FoldersHaveEnds
  <1>2. Whole /\ [Next]_vars => Whole'
    BY HistoryKept, QueueKept, EndsStep DEF HistoryInv
  <1>3. ASSUME Whole PROVE HistoryHasNoHoles
    <2>1. ASSUME NEW f \in Folders, OfOneQueue(f), restarts = 0, file[f] # Torn
          PROVE  \E p \in 1..Len(saved[f]) + 1 : file[f] = Trim(SubSeq(saved[f], p, Len(saved[f])))
      <3>1. file[f] = Trim(file[f]) /\ IsEnd(file[f], saved[f])
        BY <1>3, <2>1 DEF FoldersHaveEnds, FirstLife, FolderHasEnd
      <3> QED BY <3>1 DEF IsEnd
    <2> QED BY <2>1 DEF HistoryHasNoHoles
  <1>4. Init => Whole
    BY <1>1, InitHistory
  <1> QED BY <1>2, <1>3, <1>4, PTL DEF Spec
=============================================================================
