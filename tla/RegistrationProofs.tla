-------------------------- MODULE RegistrationProofs --------------------------
(***************************************************************************)
(* Proofs about Registration, for any folders, JIDs and requests, and any  *)
(* number of faults and crashes.                                           *)
(***************************************************************************)
EXTENDS Registration, SequenceTheorems, TLAPS

(* No group is registered before the main group. *)
MainComesFirst == Registered # {} => Main \in Registered

(* The chat of a group is stored; that of the web channel may still be due. *)
ChatsBeforeRows == \A f \in Registered : group[f].jid \in chats \cup {WebJid}

TableInv ==
  /\ JidIdentifiesGroup
  /\ MainComesFirst
  /\ AuthorityDoesNotSpread
  /\ ChatsBeforeRows

(* A directory holds whole files, of the agents of its folder. *)
FilesAreOwn ==
  \A f \in Folders : \A q \in Elements(tasks[f]) : Source[q] = f /\ q \notin temp

(* The handler works on the file behind those it has passed, and the rest  *)
(* of the listing is behind that one.                                      *)
TaskIsListed ==
  task # None =>
    /\ passed + 1 + rest <= Len(tasks[Source[task]])
    /\ tasks[Source[task]][passed + 1] = task

(* Only a file that could not be unlinked is passed. *)
PassedByFault == faults = 0 => passed = 0

(* It changes the tables for an agent of the main group only. *)
HandlerIsAuthorized ==
  task # None /\ step \in {"chat", "row", "dirs"} =>
    Source[task] = Main /\ Main \in Registered

(* The chat of a row is stored before the row. *)
ChatBeforeRow == task # None /\ step = "row" => Jid[task] \in chats

ConnectedHasWeb == host = "connected" => WebJid \in chats

IInv ==
  /\ TypeOK
  /\ TableInv
  /\ FilesAreOwn
  /\ TaskIsListed
  /\ PassedByFault
  /\ HandlerIsAuthorized
  /\ ChatBeforeRow
  /\ ConnectedHasWeb
  /\ BootNeverFails

-----------------------------------------------------------------------------
(* Sequences.                                                              *)

(* A sequence that is not empty begins with one of its elements, and its   *)
(* tail has no others.                                                     *)
LEMMA ElementsOfTail ==
  ASSUME NEW S, NEW q \in Seq(S), q # <<>>
  PROVE  /\ Head(q) \in S /\ Tail(q) \in Seq(S)
         /\ Head(q) \in Elements(q)
         /\ Elements(Tail(q)) \subseteq Elements(q)
  <1>1. /\ Head(q) \in S /\ Tail(q) \in Seq(S)
        /\ Len(q) \in Nat /\ Len(q) > 0
        /\ Head(q) = q[1]
        /\ Len(Tail(q)) = Len(q) - 1
        /\ \A i \in 1..Len(Tail(q)) : i + 1 \in 1..Len(q) /\ Tail(q)[i] = q[i + 1]
    BY HeadTailProperties, EmptySeq, LenProperties, ElementOfSeq
  <1> QED BY <1>1 DEF Elements

(* Appending adds one element and keeps the others where they are.         *)
LEMMA ElementsOfAppend ==
  ASSUME NEW S, NEW q \in Seq(S), NEW x \in S
  PROVE  /\ Append(q, x) \in Seq(S)
         /\ Append(q, x) # <<>>
         /\ Elements(Append(q, x)) = Elements(q) \cup {x}
         /\ q # <<>> => Head(Append(q, x)) = Head(q)
         /\ Len(q) \in Nat /\ Len(Append(q, x)) = Len(q) + 1
         /\ \A i \in 1..Len(q) : Append(q, x)[i] = q[i]
  <1>1. /\ Append(q, x) \in Seq(S)
        /\ Append(q, x) # <<>>
        /\ Len(q) \in Nat
        /\ Len(Append(q, x)) = Len(q) + 1
        /\ \A i \in 1..Len(q) : Append(q, x)[i] = q[i]
        /\ Append(q, x)[Len(q) + 1] = x
    BY AppendProperties, LenProperties
  <1>2. Elements(Append(q, x)) = Elements(q) \cup {x}
    BY <1>1 DEF Elements
  <1>3. q # <<>> => Head(Append(q, x)) = Head(q)
    BY <1>1, EmptySeq
  <1> QED BY <1>1, <1>2, <1>3

(* Removing one element brings those behind it one place forward. *)
LEMMA ElementsOfRemoveAt ==
  ASSUME NEW S, NEW q \in Seq(S), NEW n \in 1..Len(q)
  PROVE  /\ RemoveAt(q, n) \in Seq(S)
         /\ Len(q) \in Nat /\ Len(RemoveAt(q, n)) = Len(q) - 1
         /\ \A i \in 1..(Len(q) - 1) :
              RemoveAt(q, n)[i] = IF i < n THEN q[i] ELSE q[i + 1]
         /\ Elements(RemoveAt(q, n)) \subseteq Elements(q)
  <1> DEFINE a == SubSeq(q, 1, n - 1)
             b == SubSeq(q, n + 1, Len(q))
  <1>1. Len(q) \in Nat /\ n \in Nat /\ \A i \in 1..Len(q) : q[i] \in S
    BY LenProperties, ElementOfSeq
  <1>2. a \in Seq(S) /\ Len(a) = n - 1 /\ \A i \in 1..(n - 1) : a[i] = q[i]
    <2>1. \A i \in 1..(n - 1) : q[i] \in S
      BY <1>1
    <2>2. /\ a \in Seq(S)
          /\ Len(a) = IF 1 <= n - 1 THEN n - 1 - 1 + 1 ELSE 0
          /\ \A i \in 1..(n - 1 - 1 + 1) : a[i] = q[1 + i - 1]
      BY <1>1, <2>1, SubSeqProperties
    <2> HIDE DEF a
    <2> QED BY <1>1, <2>2
  <1>3. b \in Seq(S) /\ Len(b) = Len(q) - n /\ \A i \in 1..(Len(q) - n) : b[i] = q[n + i]
    <2>1. \A i \in (n + 1)..Len(q) : q[i] \in S
      BY <1>1
    <2>2. /\ b \in Seq(S)
          /\ Len(b) = IF n + 1 <= Len(q) THEN Len(q) - (n + 1) + 1 ELSE 0
          /\ \A i \in 1..(Len(q) - (n + 1) + 1) : b[i] = q[(n + 1) + i - 1]
      BY <1>1, <2>1, SubSeqProperties
    <2> HIDE DEF b
    <2> QED BY <1>1, <2>2
  <1>4. RemoveAt(q, n) = a \o b
    BY DEF RemoveAt
  <1> HIDE DEF a, b
  <1>5. /\ a \o b \in Seq(S)
        /\ Len(a \o b) = Len(q) - 1
        /\ \A i \in 1..(Len(q) - 1) : (a \o b)[i] = IF i < n THEN q[i] ELSE q[i + 1]
    <2>1. /\ a \o b \in Seq(S)
          /\ Len(a \o b) = Len(a) + Len(b)
          /\ \A i \in 1..(Len(a) + Len(b)) :
               (a \o b)[i] = IF i <= Len(a) THEN a[i] ELSE b[i - Len(a)]
      BY <1>2, <1>3, ConcatProperties
    <2> SUFFICES ASSUME NEW i \in 1..(Len(q) - 1)
                 PROVE  (a \o b)[i] = IF i < n THEN q[i] ELSE q[i + 1]
      BY <1>1, <1>2, <1>3, <2>1
    <2>2. CASE i < n
      BY <1>1, <1>2, <1>3, <2>1, <2>2
    <2>3. CASE ~ (i < n)
      <3>1. PICK k \in 1..(Len(q) - n) : k = i - (n - 1) /\ n + k = i + 1
        BY <1>1, <2>3
      <3>2. (a \o b)[i] = b[k]
        BY <1>1, <1>2, <1>3, <2>1, <2>3, <3>1
      <3>3. b[k] = q[i + 1]
        BY <1>3, <3>1
      <3> QED BY <2>3, <3>2, <3>3
    <2> QED BY <2>2, <2>3
  <1>6. Elements(a \o b) \subseteq Elements(q)
    <2> SUFFICES ASSUME NEW i \in 1..(Len(q) - 1)
                 PROVE  (a \o b)[i] \in Elements(q)
      BY <1>5 DEF Elements
    <2>1. i \in 1..Len(q) /\ i + 1 \in 1..Len(q)
      BY <1>1
    <2> QED BY <1>5, <2>1 DEF Elements
  <1> QED BY <1>1, <1>4, <1>5, <1>6

-----------------------------------------------------------------------------
(* The tables.                                                             *)

(* A step that writes no row keeps what the table of groups says, and      *)
(* chats only grows.                                                       *)
LEMMA RowsKept ==
  ASSUME TableInv, UNCHANGED <<group, by>>, chats \subseteq chats'
  PROVE  TableInv' /\ Registered' = Registered /\ Mains' = Mains
  BY DEF TableInv, JidIdentifiesGroup, MainComesFirst, AuthorityDoesNotSpread,
     ChatsBeforeRows, Registered, Mains

(* An upsert that does not raise keeps them, if its chat is stored and its *)
(* author may write it.                                                    *)
LEMMA RowWritten ==
  ASSUME TypeOK, TableInv, NEW f \in Folders, NEW j \in Jids,
         NEW main \in BOOLEAN, NEW who \in Requests \cup {None},
         Upsert(f, j, main, who), MayUpsert(f, j), chats' = chats,
         j \in chats \cup {WebJid},
         main => f = Main,
         who # None => Source[who] = Main,
         f # Main => who # None /\ Main \in Registered
  PROVE  /\ TableInv'
         /\ group' \in [Folders -> Row \cup {NoRow}]
         /\ by' \in [Folders -> Requests \cup {None}]
         /\ Registered' = Registered \cup {f}
  <1> DEFINE row == [jid |-> j, main |-> main]
  <1>1. row \in Row /\ row # NoRow /\ row.jid = j /\ row.main = main
    BY RegistrationAssumption DEF Row
  <1>2. group' = [group EXCEPT ![f] = row] /\ by' = [by EXCEPT ![f] = who]
    BY DEF Upsert
  <1> HIDE DEF row
  <1>3. /\ group' \in [Folders -> Row \cup {NoRow}]
        /\ by' \in [Folders -> Requests \cup {None}]
    BY <1>1, <1>2 DEF TypeOK
  <1>4. Registered' = Registered \cup {f}
    BY <1>1, <1>2 DEF TypeOK, Registered
  <1>5. /\ group'[f] = row /\ by'[f] = who
        /\ \A g \in Folders \ {f} : group'[g] = group[g] /\ by'[g] = by[g]
    BY <1>2 DEF TypeOK
  <1>6. JidIdentifiesGroup'
    <2> SUFFICES ASSUME NEW g \in Registered', NEW h \in Registered', group'[g].jid = group'[h].jid
                 PROVE  g = h
      BY DEF JidIdentifiesGroup
    <2>1. CASE g # f /\ h # f
      BY <1>4, <1>5, <2>1 DEF TableInv, JidIdentifiesGroup, Registered
    <2>2. CASE g = f \/ h = f
      BY <1>1, <1>4, <1>5, <2>2 DEF MayUpsert, Registered
    <2> QED BY <2>1, <2>2
  <1>7. MainComesFirst'
    BY <1>4, RegistrationAssumption DEF TableInv, MainComesFirst
  <1>8. AuthorityDoesNotSpread'
    <2>1. Mains' \subseteq {Main}
      BY <1>1, <1>4, <1>5 DEF TableInv, AuthorityDoesNotSpread, Mains, Registered
    <2>2. \A g \in Registered' : by'[g] # None => Source[by'[g]] = Main
      BY <1>4, <1>5 DEF TableInv, AuthorityDoesNotSpread, Registered
    <2>3. \A g \in Registered' \ {Main} : by'[g] # None
      BY <1>4, <1>5 DEF TableInv, AuthorityDoesNotSpread, Registered
    <2> QED BY <2>1, <2>2, <2>3 DEF AuthorityDoesNotSpread
  <1>9. ChatsBeforeRows'
    BY <1>1, <1>4, <1>5 DEF TableInv, ChatsBeforeRows, Registered
  <1> QED BY <1>3, <1>4, <1>6, <1>7, <1>8, <1>9 DEF TableInv

-----------------------------------------------------------------------------
(* The invariant, action by action.                                        *)

(* No row, no file, no task: the first state.                              *)
LEMMA InitInvariant == Init => IInv
  <1> SUFFICES ASSUME Init PROVE IInv
    OBVIOUS
  <1>1. TypeOK
    BY RegistrationAssumption, EmptySeq DEF Init, TypeOK
  <1>2. TableInv
    BY DEF Init, TableInv, JidIdentifiesGroup, MainComesFirst, AuthorityDoesNotSpread,
       ChatsBeforeRows, Registered, Mains
  <1>3. FilesAreOwn
    BY EmptySeq DEF Init, FilesAreOwn, Elements
  <1> QED BY <1>1, <1>2, <1>3 DEF Init, IInv, TaskIsListed, PassedByFault, HandlerIsAuthorized,
       ChatBeforeRow, ConnectedHasWeb, BootNeverFails

(* The bootstrap: only BootInserts writes a row, and its upsert never      *)
(* raises, since a main group that moved keeps its JID and without one no  *)
(* other group exists.                                                     *)
LEMMA BootInvariant ==
  ASSUME IInv, Boot \/ Connect
  PROVE  IInv'
  <1> USE DEF IInv
  <1>1. CASE BootInserts
    <2>1. BootMayUpsert /\ BootJid \in Jids /\ BootJid \in chats \cup {WebJid}
      <3>1. CASE Main \in Registered
        BY <3>1, RegistrationAssumption DEF BootMayUpsert, MayUpsert, BootJid, TableInv,
           JidIdentifiesGroup, ChatsBeforeRows, Registered, TypeOK, Row
      <3>2. CASE Main \notin Registered
        BY <3>2, RegistrationAssumption DEF BootMayUpsert, MayUpsert, BootJid, TableInv,
           MainComesFirst, Registered
      <3> QED BY <3>1, <3>2
    <2>2. Upsert(Main, BootJid, TRUE, None) /\ host' = "inserted" /\ chats' = chats
      BY <1>1, <2>1 DEF BootInserts
    <2>3. /\ TableInv'
          /\ group' \in [Folders -> Row \cup {NoRow}]
          /\ by' \in [Folders -> Requests \cup {None}]
          /\ Registered' = Registered \cup {Main}
      BY <2>1, <2>2, RowWritten, RegistrationAssumption DEF BootMayUpsert
    <2>4. UNCHANGED <<dirs, files, handler, bounds>>
      BY <1>1 DEF BootInserts
    <2> QED BY <2>2, <2>3, <2>4 DEF files, handler, pass, bounds, TypeOK, FilesAreOwn, TaskIsListed, PassedByFault,
         HandlerIsAuthorized, ChatBeforeRow, ConnectedHasWeb, BootNeverFails
  <1>2. CASE BootFinds \/ BootDirs \/ BootChat \/ Connect
    <2>1. UNCHANGED <<group, by, files, handler, bounds>> /\ chats \subseteq chats'
      BY <1>2 DEF BootFinds, BootDirs, BootChat, Connect, tables
    <2>2. TableInv' /\ Registered' = Registered
      BY <2>1, RowsKept
    <2>3. dirs' \subseteq Folders /\ chats' \subseteq Jids
      BY <1>2, RegistrationAssumption DEF BootFinds, BootDirs, BootChat, Connect, tables, TypeOK,
         Ensured, Announced, Mains, Registered, Row
    <2>4. host' \in {"found", "up", "dirs", "connected"} /\ ConnectedHasWeb'
      BY <1>2 DEF BootFinds, BootDirs, BootChat, Connect, ConnectedHasWeb, Announced
    <2> QED BY <2>1, <2>2, <2>3, <2>4 DEF files, handler, pass, bounds, TypeOK, FilesAreOwn, TaskIsListed, PassedByFault,
         HandlerIsAuthorized, ChatBeforeRow, BootNeverFails
  <1> QED BY <1>1, <1>2 DEF Boot

(* An agent's steps: a file appears at the end of its directory, whole.    *)
LEMMA WriteInvariant ==
  ASSUME IInv, NEW q \in Requests, WriteTemp(q) \/ Rename(q)
  PROVE  IInv'
  <1> USE DEF IInv
  <1>1. UNCHANGED <<group, chats, by, dirs, host, task, step, passed, rest, faults, crashes>>
    BY DEF WriteTemp, Rename, tables, handler, pass, bounds
  <1>2. TableInv' /\ Registered' = Registered
    BY <1>1, RowsKept
  <1>3. CASE WriteTemp(q)
    <2>1. /\ tasks' = tasks /\ temp' = temp \cup {q}
          /\ \A f \in Folders : q \notin Elements(tasks[f])
      BY <1>3 DEF WriteTemp, WriteHidden, Written
    <2> QED BY <1>1, <1>2, <2>1 DEF TypeOK, FilesAreOwn, TaskIsListed, PassedByFault,
         HandlerIsAuthorized, ChatBeforeRow, ConnectedHasWeb, BootNeverFails
  <1>4. CASE Rename(q)
    <2> DEFINE f == Source[q]
    <2>1. f \in Folders /\ tasks[f] \in Seq(Requests)
      BY RegistrationAssumption DEF TypeOK
    <2>2. /\ q \in temp /\ temp' = temp \ {q}
          /\ tasks' = [tasks EXCEPT ![f] = Append(@, q)]
      <3>1. q \in temp
        BY <1>4 DEF Rename
      <3>2. q \notin Elements(tasks[f])
        BY <2>1, <3>1 DEF FilesAreOwn
      <3> QED BY <1>4, <3>1, <3>2 DEF Rename
    <2>3. /\ Append(tasks[f], q) \in Seq(Requests)
          /\ Append(tasks[f], q) # <<>>
          /\ Elements(Append(tasks[f], q)) = Elements(tasks[f]) \cup {q}
          /\ Len(tasks[f]) \in Nat /\ Len(Append(tasks[f], q)) = Len(tasks[f]) + 1
          /\ \A i \in 1..Len(tasks[f]) : Append(tasks[f], q)[i] = tasks[f][i]
      BY <2>1, ElementsOfAppend
    <2>4. /\ tasks'[f] = Append(tasks[f], q)
          /\ \A g \in Folders \ {f} : tasks'[g] = tasks[g]
          /\ tasks' \in [Folders -> Seq(Requests)]
      BY <2>1, <2>2, <2>3 DEF TypeOK
    <2> HIDE DEF f
    <2>5. FilesAreOwn'
      <3> SUFFICES ASSUME NEW g \in Folders, NEW p \in Elements(tasks'[g])
                   PROVE  Source[p] = g /\ p \notin temp'
        BY DEF FilesAreOwn, Elements
      <3>1. CASE g # f
        BY <2>2, <2>4, <3>1 DEF FilesAreOwn
      <3>2. CASE g = f /\ p # q
        BY <2>1, <2>2, <2>3, <2>4, <3>2 DEF FilesAreOwn
      <3>3. CASE g = f /\ p = q
        BY <2>2, <3>3 DEF f
      <3> QED BY <3>1, <3>2, <3>3
    <2>6. TaskIsListed'
      <3> SUFFICES ASSUME task # None
                   PROVE  /\ passed + 1 + rest <= Len(tasks'[Source[task]])
                          /\ tasks'[Source[task]][passed + 1] = task
        BY <1>1 DEF TaskIsListed
      <3>1. Source[task] \in Folders /\ passed \in Nat /\ rest \in Nat
        BY RegistrationAssumption DEF TypeOK
      <3>2. /\ passed + 1 + rest <= Len(tasks[Source[task]])
            /\ tasks[Source[task]][passed + 1] = task
        BY DEF TaskIsListed
      <3>3. CASE Source[task] = f
        BY <2>3, <2>4, <3>1, <3>2, <3>3
      <3>4. CASE Source[task] # f
        BY <2>4, <3>1, <3>2, <3>4
      <3> QED BY <3>3, <3>4
    <2>7. TypeOK'
      BY <1>1, <2>2, <2>4 DEF TypeOK
    <2> QED BY <1>1, <1>2, <2>5, <2>6, <2>7 DEF HandlerIsAuthorized, ChatBeforeRow,
         ConnectedHasWeb, BootNeverFails, PassedByFault
  <1> QED BY <1>3, <1>4

(* The handler takes the first file of a directory, and forgets it when    *)
(* the host dies.                                                          *)
LEMMA TakeInvariant ==
  ASSUME IInv, (\E f \in Folders : Take(f)) \/ Crash
  PROVE  IInv'
  <1> USE DEF IInv
  <1>1. UNCHANGED <<group, chats, by, dirs, temp, tasks>>
    BY DEF Take, Crash, tables, files
  <1>2. TableInv' /\ Registered' = Registered
    BY <1>1, RowsKept
  <1>3. ASSUME NEW f \in Folders, Take(f) PROVE IInv'
    <2>1. /\ tasks[f] # <<>> /\ task' = Head(tasks[f]) /\ step' = "auth"
          /\ passed' = 0 /\ rest' = Len(tasks[f]) - 1
          /\ UNCHANGED <<host, faults, crashes>>
      BY <1>3 DEF Take, bounds
    <2>2. /\ Head(tasks[f]) \in Requests /\ Head(tasks[f]) \in Elements(tasks[f])
          /\ Head(tasks[f]) = tasks[f][1]
          /\ Len(tasks[f]) - 1 \in Nat
      <3>1. tasks[f] \in Seq(Requests)
        BY DEF TypeOK
      <3> QED BY <2>1, <3>1, ElementsOfTail, HeadTailProperties, EmptySeq, LenProperties
    <2>3. Source[task'] = f
      BY <2>1, <2>2 DEF FilesAreOwn
    <2>4. TaskIsListed' /\ PassedByFault'
      BY <1>1, <2>1, <2>2, <2>3 DEF TaskIsListed, PassedByFault
    <2>5. TypeOK'
      BY <1>1, <2>1, <2>2 DEF TypeOK
    <2> QED BY <1>1, <1>2, <2>1, <2>4, <2>5 DEF FilesAreOwn,
         HandlerIsAuthorized, ChatBeforeRow, ConnectedHasWeb, BootNeverFails
  <1>4. CASE Crash
    <2>1. /\ task' = None /\ step' = "auth" /\ host' = "down" /\ faults' = faults
          /\ passed' = 0 /\ rest' = 0
      BY <1>4 DEF Crash
    <2>2. crashes' \in 0..MaxCrashes
      BY <1>4, RegistrationAssumption DEF Crash, TypeOK
    <2> QED BY <1>1, <1>2, <2>1, <2>2 DEF TypeOK, FilesAreOwn, TaskIsListed, PassedByFault,
         HandlerIsAuthorized, ChatBeforeRow, ConnectedHasWeb, BootNeverFails
  <1> QED BY <1>3, <1>4

(* The handler writes for the main group only, a chat before its row.      *)
LEMMA HandlerInvariant ==
  ASSUME IInv, Check \/ StoreChat \/ StoreRow \/ MakeDirs \/ Raises
  PROVE  IInv'
  <1> USE DEF IInv
  <1>1. /\ task \in Requests /\ task' = task
        /\ UNCHANGED <<temp, tasks, passed, rest, host, crashes>>
        /\ faults' = faults \/ (faults' = faults + 1 /\ faults < MaxFaults)
    BY DEF Check, StoreChat, StoreRow, MakeDirs, Raises, At, Goes, pass, files, bounds, TypeOK
  <1>2. /\ Folder[task] \in Folders /\ Jid[task] \in Jids /\ Source[task] \in Folders
    BY <1>1, RegistrationAssumption
  <1>3. FilesAreOwn' /\ TaskIsListed' /\ PassedByFault' /\ BootNeverFails'
    <2>1. FilesAreOwn' /\ TaskIsListed' /\ BootNeverFails'
      BY <1>1 DEF FilesAreOwn, TaskIsListed, BootNeverFails
    <2>2. faults \in Nat
      BY RegistrationAssumption DEF TypeOK
    <2>3. PassedByFault'
      BY <1>1, <2>2 DEF PassedByFault
    <2> QED BY <2>1, <2>3
  <1>4. CASE StoreRow /\ MayUpsert(Folder[task], Jid[task])
    <2>1. /\ Upsert(Folder[task], Jid[task], FALSE, task) /\ step' = "dirs"
          /\ UNCHANGED <<chats, dirs, faults>>
          /\ task # None /\ step = "row"
      BY <1>4 DEF StoreRow, Goes, bounds, At
    <2>2. Source[task] = Main /\ Main \in Registered /\ Jid[task] \in chats
      BY <2>1 DEF HandlerIsAuthorized, ChatBeforeRow
    <2>3. /\ TableInv'
          /\ group' \in [Folders -> Row \cup {NoRow}]
          /\ by' \in [Folders -> Requests \cup {None}]
          /\ Registered' = Registered \cup {Folder[task]}
      BY <1>1, <1>2, <1>4, <2>1, <2>2, RowWritten
    <2> QED BY <1>1, <1>3, <2>1, <2>2, <2>3 DEF TypeOK, HandlerIsAuthorized, ChatBeforeRow,
         ConnectedHasWeb
  <1>5. CASE ~ (StoreRow /\ MayUpsert(Folder[task], Jid[task]))
    <2>1. UNCHANGED <<group, by>> /\ chats \subseteq chats' /\ chats' \subseteq Jids
      BY <1>2, <1>5 DEF Check, StoreChat, StoreRow, MakeDirs, Raises, tables, TypeOK
    <2>2. TableInv' /\ Registered' = Registered /\ Mains' = Mains
      BY <2>1, RowsKept
    <2>3. dirs' \subseteq Folders /\ faults' \in 0..MaxFaults
      <3>1. dirs' \subseteq dirs \cup {Folder[task]}
        BY DEF Check, StoreChat, StoreRow, MakeDirs, Raises
      <3>2. faults' = faults \/ (faults < MaxFaults /\ faults' = faults + 1)
        BY DEF Check, StoreChat, StoreRow, MakeDirs, Raises, bounds
      <3> QED BY <1>2, <3>1, <3>2, RegistrationAssumption DEF TypeOK
    <2>4. step' \in {"chat", "row", "dirs", "unlink"}
      BY <1>5 DEF Check, StoreChat, StoreRow, MakeDirs, Raises, Goes
    <2>5. HandlerIsAuthorized'
      <3>1. CASE Check
        <4>1. step' = "unlink" \/ (step' = "chat" /\ Authorized)
          BY <3>1 DEF Check, Goes
        <4>2. Authorized => Source[task] = Main /\ Main \in Registered
          BY DEF Authorized, TableInv, AuthorityDoesNotSpread, Mains
        <4> QED BY <1>1, <2>2, <4>1, <4>2 DEF HandlerIsAuthorized
      <3>2. CASE ~ Check
        <4>1. step' = "unlink" \/ step \in {"chat", "row", "dirs"}
          BY <3>2 DEF StoreChat, StoreRow, MakeDirs, Raises, Goes, At
        <4> QED BY <1>1, <2>2, <4>1 DEF HandlerIsAuthorized
      <3> QED BY <3>1, <3>2
    <2>6. ChatBeforeRow'
      <3>1. step' = "row" => StoreChat
        BY <1>5 DEF Check, StoreChat, StoreRow, MakeDirs, Raises, Goes
      <3>2. StoreChat => Jid[task] \in chats'
        BY DEF StoreChat
      <3> QED BY <1>1, <3>1, <3>2 DEF ChatBeforeRow
    <2>7. ConnectedHasWeb'
      BY <1>1, <2>1 DEF ConnectedHasWeb
    <2> QED BY <1>1, <1>3, <2>1, <2>2, <2>3, <2>4, <2>5, <2>6, <2>7 DEF TypeOK
  <1> QED BY <1>4, <1>5

(* The file that was handled goes and those behind it move up, or it stays *)
(* and is passed; the next one of the listing is in the same directory.    *)
LEMMA UnlinkInvariant ==
  ASSUME IInv, Unlink
  PROVE  IInv' /\ (task' # None => Source[task'] = Source[task])
  <1> USE DEF IInv
  <1> DEFINE f == Source[task]
  <1>1. task # None /\ task \in Requests /\ passed \in Nat /\ rest \in Nat /\ faults \in Nat
    BY RegistrationAssumption DEF Unlink, At, TypeOK
  <1>2. /\ f \in Folders /\ tasks[f] \in Seq(Requests)
        /\ Len(tasks[f]) \in Nat /\ passed + 1 + rest <= Len(tasks[f])
        /\ passed + 1 \in 1..Len(tasks[f])
    <2>1. f \in Folders /\ tasks[f] \in Seq(Requests)
      BY <1>1, RegistrationAssumption DEF TypeOK
    <2>2. Len(tasks[f]) \in Nat /\ passed + 1 + rest <= Len(tasks[f])
      BY <1>1, <2>1, LenProperties DEF TaskIsListed
    <2> QED BY <1>1, <2>1, <2>2
  <1>3. UNCHANGED <<group, chats, by, dirs, temp, host, crashes>>
    BY DEF Unlink, tables
  <1>4. PICK n \in Nat :
          /\ Proceed(n)
          /\ \/ /\ n = passed /\ faults' = faults
                /\ tasks' = [tasks EXCEPT ![f] = RemoveAt(@, passed + 1)]
             \/ n = passed + 1 /\ faults' = faults + 1 /\ faults < MaxFaults /\ tasks' = tasks
    <2>1. passed + 1 \in Nat
      BY <1>1
    <2> QED BY <1>1, <2>1 DEF Unlink, Remaining
  <1> HIDE DEF f
  <1>5. /\ RemoveAt(tasks[f], passed + 1) \in Seq(Requests)
        /\ Len(RemoveAt(tasks[f], passed + 1)) = Len(tasks[f]) - 1
        /\ Elements(RemoveAt(tasks[f], passed + 1)) \subseteq Elements(tasks[f])
    BY <1>2, ElementsOfRemoveAt
  <1>6. /\ tasks' \in [Folders -> Seq(Requests)]
        /\ \A g \in Folders : Elements(tasks'[g]) \subseteq Elements(tasks[g])
        /\ n + rest <= Len(tasks'[f])
    <2>1. CASE tasks' = tasks /\ n = passed + 1
      BY <1>1, <1>2, <2>1 DEF TypeOK
    <2>2. CASE tasks' = [tasks EXCEPT ![f] = RemoveAt(@, passed + 1)] /\ n = passed
      <3>1. tasks \in [Folders -> Seq(Requests)]
        BY DEF TypeOK
      <3>2. /\ tasks' \in [Folders -> Seq(Requests)]
            /\ tasks'[f] = RemoveAt(tasks[f], passed + 1)
            /\ \A g \in Folders \ {f} : tasks'[g] = tasks[g]
        BY <1>2, <1>5, <2>2, <3>1
      <3> QED BY <1>1, <1>2, <1>5, <2>2, <3>2
    <2> QED BY <1>4, <2>1, <2>2
  <1>7. step' = "auth"
    BY <1>4 DEF Proceed
  <1>8. /\ task' \in Requests \cup {None} /\ passed' \in Nat /\ rest' \in Nat
        /\ TaskIsListed'
        /\ passed' = 0 \/ passed' = n
        /\ task' # None => Source[task'] = f
    <2>1. CASE rest = 0
      BY <1>1, <1>4, <2>1 DEF Proceed, TaskIsListed
    <2>2. CASE rest > 0
      <3>1. task' = tasks'[f][n + 1] /\ passed' = n /\ rest' = rest - 1
        BY <1>4, <2>2 DEF Proceed, f
      <3>2. tasks'[f] \in Seq(Requests) /\ n + 1 \in 1..Len(tasks'[f])
        <4>1. tasks'[f] \in Seq(Requests)
          BY <1>2, <1>6
        <4>2. Len(tasks'[f]) \in Nat
          BY <4>1, LenProperties
        <4> QED BY <1>1, <1>6, <2>2, <4>1, <4>2
      <3>3. task' \in Requests /\ task' \in Elements(tasks'[f])
        BY <3>1, <3>2, ElementOfSeq DEF Elements
      <3>4. Source[task'] = f
        BY <1>2, <1>6, <3>3 DEF FilesAreOwn
      <3>5. Len(tasks'[f]) \in Nat
        BY <3>2, LenProperties
      <3> QED BY <1>1, <1>6, <2>2, <3>1, <3>3, <3>4, <3>5 DEF TaskIsListed
    <2> QED BY <1>1, <2>1, <2>2
  <1>9. faults' \in 0..MaxFaults /\ PassedByFault'
    BY <1>1, <1>4, <1>8, RegistrationAssumption DEF TypeOK, PassedByFault
  <1>10. TableInv' /\ Registered' = Registered
    BY <1>3, RowsKept
  <1>11. TypeOK'
    BY <1>3, <1>6, <1>7, <1>8, <1>9 DEF TypeOK
  <1>12. FilesAreOwn'
    BY <1>3, <1>6 DEF FilesAreOwn
  <1> QED BY <1>3, <1>7, <1>8, <1>9, <1>10, <1>11, <1>12 DEF HandlerIsAuthorized,
       ChatBeforeRow, ConnectedHasWeb, BootNeverFails, f

(* The invariant holds in every reachable state.                           *)
THEOREM Invariance == Spec => []IInv
  <1>1. Init => IInv
    BY InitInvariant
  <1>2. IInv /\ [Next]_vars => IInv'
    <2> SUFFICES ASSUME IInv, [Next]_vars PROVE IInv'
      OBVIOUS
    <2>1. CASE Boot \/ Connect
      BY <2>1, BootInvariant
    <2>2. CASE Handle
      BY <2>2, HandlerInvariant, UnlinkInvariant DEF Handle
    <2>3. CASE Crash \/ \E f \in Folders : Take(f)
      BY <2>3, TakeInvariant
    <2>4. ASSUME NEW q \in Requests, WriteTemp(q) \/ Rename(q) PROVE IInv'
      BY <2>4, WriteInvariant
    <2>5. CASE UNCHANGED vars
      BY <2>5, RowsKept DEF vars, tables, files, handler, pass, bounds, IInv, TypeOK, FilesAreOwn,
         TaskIsListed, PassedByFault, HandlerIsAuthorized, ChatBeforeRow, ConnectedHasWeb, BootNeverFails
    <2> QED BY <2>1, <2>2, <2>3, <2>4, <2>5 DEF Next
  <1> QED BY <1>1, <1>2, PTL DEF Spec

-----------------------------------------------------------------------------
(* What follows for the tables and the files.                              *)

(* Every variable keeps its type.                                          *)
THEOREM Typing == Spec => []TypeOK
  <1>1. IInv => TypeOK
    BY DEF IInv
  <1> QED BY <1>1, Invariance, PTL

(* A JID names at most one group: no upsert brings it into two rows.       *)
THEOREM JidsAreUnique == Spec => []JidIdentifiesGroup
  <1>1. IInv => JidIdentifiesGroup
    BY DEF IInv, TableInv
  <1> QED BY <1>1, Invariance, PTL

(* Only the default folder is main, and only its agents register others.   *)
THEOREM AuthorityStays == Spec => []AuthorityDoesNotSpread
  <1>1. IInv => AuthorityDoesNotSpread
    BY DEF IInv, TableInv
  <1> QED BY <1>1, Invariance, PTL

(* Whatever was registered and whenever the host died, it starts again.    *)
THEOREM BootSucceeds == Spec => []BootNeverFails
  <1>1. IInv => BootNeverFails
    BY DEF IInv
  <1> QED BY <1>1, Invariance, PTL

(* Once the web channel is connected every registered group has its chat.  *)
THEOREM ChatsAreStored == Spec => []GroupsHaveChats
  <1>1. IInv => GroupsHaveChats
    BY DEF IInv, TableInv, ChatsBeforeRows, ConnectedHasWeb, GroupsHaveChats
  <1> QED BY <1>1, Invariance, PTL

(* The handler never works on a file that is still being written.          *)
THEOREM WholeRequests == Spec => []HandledRequestsAreWhole
  <1>1. IInv => HandledRequestsAreWhole
    <2> SUFFICES ASSUME IInv, task # None PROVE task \notin temp
      BY DEF HandledRequestsAreWhole
    <2> DEFINE f == Source[task]
    <2>1. /\ f \in Folders /\ tasks[f] \in Seq(Requests) /\ tasks[f][passed + 1] = task
          /\ passed \in Nat /\ rest \in Nat /\ passed + 1 + rest <= Len(tasks[f])
      BY RegistrationAssumption DEF IInv, TypeOK, TaskIsListed
    <2>2. task \in Elements(tasks[f])
      <3>1. Len(tasks[f]) \in Nat
        BY <2>1, LenProperties
      <3>2. passed + 1 \in 1..Len(tasks[f])
        BY <2>1, <3>1
      <3> QED BY <2>1, <3>2 DEF Elements
    <2> QED BY <2>1, <2>2 DEF IInv, FilesAreOwn
  <1> QED BY <1>1, Invariance, PTL

-----------------------------------------------------------------------------
(* Directories.  A row without them is that of the main group while the    *)
(* host starts, or its request is still first among the files of the main  *)
(* group's agents and will get that far again.                             *)

HandlerNeedsHost == ~ Up => task = None

OnlyAcceptable == task # None /\ step \in {"chat", "row", "dirs"} => task \in Acceptable

BootMakesDirs(f) == f = Main /\ host \in {"down", "found", "inserted"}

(* The first file of the main group's directory has written the row of f   *)
(* as it is, and its handler can get past every check.                     *)
RequestMakesDirs(f) ==
  LET q == Head(tasks[Main]) IN
  /\ tasks[Main] # <<>>
  /\ q \in Acceptable
  /\ Folder[q] = f /\ Jid[q] = group[f].jid /\ by[f] = q
  /\ task = q => step # "unlink"
  /\ Main \in Mains \/ host = "down" \/ (task = q /\ step \in {"chat", "row", "dirs"})

DirsFollow ==
  faults = 0 => \A f \in Registered \ dirs : BootMakesDirs(f) \/ RequestMakesDirs(f)

DInv == IInv /\ HandlerNeedsHost /\ OnlyAcceptable /\ DirsFollow

(* The first file of the main group's directory is from one of its agents. *)
LEMMA MainFile ==
  ASSUME IInv, tasks[Main] # <<>>
  PROVE  Head(tasks[Main]) \in Requests /\ Source[Head(tasks[Main])] = Main
  BY ElementsOfTail, RegistrationAssumption DEF IInv, TypeOK, FilesAreOwn

(* While nothing has failed, the handler is at the first file.             *)
LEMMA FirstFile ==
  ASSUME IInv, task # None, faults = 0
  PROVE  /\ tasks[Source[task]] # <<>> /\ Head(tasks[Source[task]]) = task
         /\ passed = 0 /\ Source[task] \in Folders
  <1> DEFINE q == tasks[Source[task]]
  <1>1. q \in Seq(Requests) /\ Source[task] \in Folders /\ rest \in Nat
    BY RegistrationAssumption DEF IInv, TypeOK
  <1>2. passed = 0
    BY DEF IInv, PassedByFault
  <1>3. 1 + rest <= Len(q) /\ q[1] = task
    BY <1>2, <1>1 DEF IInv, TaskIsListed
  <1> HIDE DEF q
  <1>4. q # <<>> /\ Head(q) = q[1]
    <2>1. Len(q) \in Nat /\ Len(q) > 0
      BY <1>1, <1>3, LenProperties
    <2>2. q # <<>>
      BY <2>1, EmptySeq
    <2> QED BY <1>1, <2>2, HeadTailProperties
  <1> QED BY <1>1, <1>2, <1>3, <1>4 DEF q

(* The bootstrap makes the directories of the main group itself, and gives *)
(* the group back its authority.                                           *)
LEMMA BootDirsFollow ==
  ASSUME DInv, IInv', Boot \/ Connect, faults = 0, NEW f \in Registered' \ dirs'
  PROVE  BootMakesDirs(f)' \/ RequestMakesDirs(f)'
  <1> USE DEF DInv
  <1>1. UNCHANGED <<tasks, task, step>> /\ dirs \subseteq dirs'
    BY DEF Boot, BootFinds, BootInserts, BootDirs, BootChat, Connect, files, handler
  <1>2. Mains \subseteq {Main}
    BY DEF IInv, TableInv, AuthorityDoesNotSpread
  <1>3. CASE BootInserts
    <2>1. Upsert(Main, BootJid, TRUE, None) /\ host' = "inserted"
      BY <1>3 DEF IInv, BootNeverFails, BootInserts
    <2>2. CASE f = Main
      BY <2>1, <2>2 DEF BootMakesDirs
    <2>3. CASE f # Main
      <3>1. /\ group'[f] = group[f] /\ by'[f] = by[f] /\ Main \in Mains'
            /\ f \in Registered \ dirs
        <4>1. /\ group' = [group EXCEPT ![Main] = [jid |-> BootJid, main |-> TRUE]]
              /\ by' = [by EXCEPT ![Main] = None]
          BY <2>1 DEF Upsert
        <4>2. group'[f] = group[f] /\ by'[f] = by[f] /\ f \in Registered \ dirs
          BY <1>1, <2>3, <4>1 DEF Registered, IInv, TypeOK
        <4>3. group'[Main] = [jid |-> BootJid, main |-> TRUE]
          BY <4>1, RegistrationAssumption DEF IInv, TypeOK
        <4>4. Main \in Registered'
          BY <4>2 DEF IInv, TableInv, MainComesFirst, Registered
        <4> QED BY <4>2, <4>3, <4>4 DEF Mains
      <3>2. RequestMakesDirs(f)
        BY <2>3, <3>1 DEF DirsFollow, BootMakesDirs
      <3> QED BY <1>1, <3>1, <3>2 DEF RequestMakesDirs
    <2> QED BY <2>2, <2>3
  <1>4. CASE BootFinds \/ BootDirs \/ BootChat \/ Connect
    <2>1. UNCHANGED <<group, by>> /\ Registered' = Registered /\ Mains' = Mains
      BY <1>4 DEF BootFinds, BootDirs, BootChat, Connect, tables, Registered, Mains
    <2>2. f \in Registered \ dirs
      BY <1>1, <2>1
    <2>3. CASE BootMakesDirs(f)
      <3>1. BootFinds
        BY <1>2, <1>4, <2>3 DEF BootMakesDirs, BootDirs, BootChat, Connect, Ensured
      <3> QED BY <2>3, <3>1 DEF BootFinds, BootMakesDirs
    <2>4. CASE RequestMakesDirs(f)
      <3>1. host = "down" => Main \in Mains
        BY <1>2, <1>4 DEF BootFinds, BootDirs, BootChat, Connect
      <3> QED BY <1>1, <2>1, <2>4, <3>1 DEF RequestMakesDirs
    <2> QED BY <2>2, <2>3, <2>4 DEF DirsFollow
  <1> QED BY <1>3, <1>4 DEF Boot

(* The handler gets as far with the first file of the main group as it did *)
(* when it wrote the row, or its own step is that of the file.             *)
LEMMA HandlerDirsFollow ==
  ASSUME DInv, Check \/ StoreChat \/ StoreRow \/ MakeDirs, faults = 0,
         NEW f \in Registered' \ dirs'
  PROVE  RequestMakesDirs(f)'
  <1> USE DEF DInv
  <1>1. /\ task \in Requests /\ task # None /\ task' = task
        /\ UNCHANGED <<tasks, host>> /\ dirs \subseteq dirs'
    BY DEF Check, StoreChat, StoreRow, MakeDirs, At, Goes, files, IInv, TypeOK
  <1>2. Up /\ host # "down"
    BY <1>1 DEF HandlerNeedsHost, Up
  <1>3. ~ BootMakesDirs(f)
    BY <1>2 DEF BootMakesDirs, Up
  <1>4. CASE Check \/ StoreChat
    <2>1. f \in Registered \ dirs /\ Mains' = Mains /\ group' = group /\ by' = by
      BY <1>1, <1>4 DEF Check, StoreChat, tables, Registered, Mains
    <2>2. RequestMakesDirs(f)
      BY <1>3, <2>1 DEF DirsFollow
    <2>3. CASE StoreChat
      BY <1>1, <1>2, <2>1, <2>2, <2>3 DEF StoreChat, Goes, At, RequestMakesDirs
    <2>4. CASE Check
      <3>1. Main \in Mains
        BY <1>2, <2>2, <2>4 DEF RequestMakesDirs, Check, At
      <3>2. task = Head(tasks[Main]) => step' = "chat"
        BY <2>2, <2>4, <3>1, MainFile DEF RequestMakesDirs, Check, Goes, Authorized
      <3> QED BY <1>1, <2>1, <2>2, <3>1, <3>2 DEF RequestMakesDirs
    <2> QED BY <1>4, <2>3, <2>4
  <1>5. CASE StoreRow \/ MakeDirs
    <2>1. step \in {"row", "dirs"}
      BY <1>5 DEF StoreRow, MakeDirs, At
    <2>2. /\ task \in Acceptable
          /\ tasks[Main] # <<>> /\ Head(tasks[Main]) = task
      BY <1>1, <2>1, FirstFile DEF OnlyAcceptable, IInv, HandlerIsAuthorized
    <2>3. f \in Registered \ dirs => f = Folder[task] /\ group[f].jid = Jid[task]
      BY <1>3, <2>2 DEF DirsFollow, RequestMakesDirs
    <2>4. Folder[task] \in Folders
      BY <1>1, RegistrationAssumption
    <2>5. CASE MakeDirs
      BY <2>3, <2>5 DEF MakeDirs, tables, Registered
    <2>6. CASE StoreRow /\ ~ MayUpsert(Folder[task], Jid[task])
      <3>1. f \in Registered \ dirs
        BY <1>1, <2>6 DEF StoreRow, Registered
      <3>2. MayUpsert(f, group[f].jid)
        BY <3>1 DEF MayUpsert, IInv, TableInv, JidIdentifiesGroup, Registered
      <3> QED BY <2>3, <2>6, <3>1, <3>2
    <2>7. CASE StoreRow /\ MayUpsert(Folder[task], Jid[task])
      <3>1. /\ group' = [group EXCEPT ![Folder[task]] = [jid |-> Jid[task], main |-> FALSE]]
            /\ by' = [by EXCEPT ![Folder[task]] = task]
            /\ step' = "dirs" /\ dirs' = dirs
        BY <2>7 DEF StoreRow, Upsert, Goes
      <3>2. f = Folder[task]
        BY <2>3, <2>4, <3>1 DEF Registered, IInv, TypeOK
      <3>3. group'[f].jid = Jid[task] /\ by'[f] = task
        BY <2>4, <3>1, <3>2 DEF IInv, TypeOK
      <3> QED BY <1>1, <2>2, <3>1, <3>2, <3>3 DEF RequestMakesDirs
    <2> QED BY <1>5, <2>5, <2>6, <2>7
  <1> QED BY <1>4, <1>5

(* Other steps leave the first file of the main group where it is, as long *)
(* as its row lacks directories.                                           *)
LEMMA OtherDirsFollow ==
  ASSUME DInv,
         \/ Unlink \/ Crash \/ UNCHANGED vars
         \/ \E g \in Folders : Take(g)
         \/ \E p \in Requests : WriteTemp(p) \/ Rename(p),
         faults = 0, NEW f \in Registered' \ dirs'
  PROVE  BootMakesDirs(f)' \/ RequestMakesDirs(f)'
  <1> USE DEF DInv
  <1>1. UNCHANGED <<group, by, dirs>> /\ Registered' = Registered /\ Mains' = Mains
    BY DEF Unlink, Crash, vars, Take, WriteTemp, Rename, tables, Registered, Mains
  <1>2. BootMakesDirs(f) \/ RequestMakesDirs(f)
    BY <1>1 DEF DirsFollow
  <1>3. host' = host \/ host' = "down"
    BY DEF Unlink, Crash, vars, Take, WriteTemp, Rename
  <1>4. CASE BootMakesDirs(f)
    BY <1>3, <1>4 DEF BootMakesDirs
  <1>5. CASE RequestMakesDirs(f) /\ Unlink
    <2>1. /\ Main \in Mains \/ host = "down"
          /\ task # None /\ step' = "auth" /\ UNCHANGED <<host, by>>
      BY <1>5 DEF RequestMakesDirs, Unlink, At, Proceed, tables
    <2>2. Source[task] # Main
      BY <1>5, <2>1, FirstFile DEF RequestMakesDirs, Unlink, At
    <2>3. tasks'[Main] = tasks[Main]
      BY <1>5, <2>2, RegistrationAssumption DEF Unlink, Remaining, IInv, TypeOK
    <2>4. tasks[Main] # <<>>
      BY <1>5 DEF RequestMakesDirs
    <2>5. task' # Head(tasks[Main])
      <3>1. task' # None => Source[task'] # Main
        BY <2>2, <1>5, UnlinkInvariant
      <3> QED BY <2>4, <3>1, MainFile, RegistrationAssumption
    <2> QED BY <1>1, <1>5, <2>1, <2>3, <2>4, <2>5 DEF RequestMakesDirs
  <1>6. CASE RequestMakesDirs(f) /\ Crash
    <2>1. host' = "down" /\ task' = None /\ step' = "auth" /\ tasks' = tasks
      BY <1>6 DEF Crash, files
    <2> QED BY <1>1, <1>6, <2>1 DEF RequestMakesDirs
  <1>7. ASSUME RequestMakesDirs(f), NEW g \in Folders, Take(g) PROVE RequestMakesDirs(f)'
    <2>1. task = None /\ Up /\ step' = "auth" /\ tasks' = tasks /\ host' = host
      BY <1>7 DEF Take, files
    <2>2. Main \in Mains
      BY <1>7, <2>1, MainFile, RegistrationAssumption DEF RequestMakesDirs, Up
    <2> QED BY <1>1, <1>7, <2>1, <2>2 DEF RequestMakesDirs
  <1>8. ASSUME RequestMakesDirs(f), NEW p \in Requests, WriteTemp(p) \/ Rename(p)
        PROVE  RequestMakesDirs(f)'
    <2>1. UNCHANGED <<task, step, host>>
      BY <1>8 DEF WriteTemp, Rename, handler
    <2>2. tasks[Main] \in Seq(Requests) /\ tasks[Main] # <<>>
      BY <1>8, RegistrationAssumption DEF RequestMakesDirs, IInv, TypeOK
    <2>3. tasks'[Main] = tasks[Main] \/ tasks'[Main] = Append(tasks[Main], p)
      BY <1>8, RegistrationAssumption DEF WriteTemp, WriteHidden, Rename, IInv, TypeOK
    <2>4. tasks'[Main] # <<>> /\ Head(tasks'[Main]) = Head(tasks[Main])
      BY <2>2, <2>3, ElementsOfAppend
    <2> QED BY <1>1, <1>8, <2>1, <2>4 DEF RequestMakesDirs
  <1>9. CASE RequestMakesDirs(f) /\ UNCHANGED vars
    BY <1>1, <1>9 DEF RequestMakesDirs, vars, files, handler
  <1> QED BY <1>2, <1>4, <1>5, <1>6, <1>7, <1>8, <1>9

(* A registered group has its directories, if nothing has failed, unless   *)
(* the request that wrote its row is the first of the main group and will  *)
(* not be refused, however often the host died.                            *)
THEOREM DirsAreMade == Spec => []GroupsHaveDirs
  <1>1. Init => HandlerNeedsHost /\ OnlyAcceptable /\ DirsFollow
    BY DEF Init, HandlerNeedsHost, OnlyAcceptable, DirsFollow, Registered
  <1>2. DInv /\ IInv' /\ [Next]_vars => DInv'
    <2> SUFFICES ASSUME DInv, IInv', [Next]_vars
                 PROVE  HandlerNeedsHost' /\ OnlyAcceptable' /\ DirsFollow'
      BY DEF DInv
    <2> USE DEF DInv
    <2>1. HandlerNeedsHost'
      <3>1. CASE Unlink
        BY <3>1 DEF HandlerNeedsHost, Up, Unlink, At
      <3>2. CASE ~ Unlink
        BY <3>2 DEF HandlerNeedsHost, Up, Next, vars, Boot, BootFinds, BootInserts, BootDirs,
           BootChat, Connect, Handle, Check, StoreChat, StoreRow, MakeDirs, Raises, Crash, Take,
           WriteTemp, Rename, handler, At, Goes
      <3> QED BY <3>1, <3>2
    <2>2. OnlyAcceptable'
      <3>1. CASE Unlink
        BY <3>1 DEF OnlyAcceptable, Unlink, Proceed
      <3>2. CASE ~ Unlink
        BY <3>2 DEF OnlyAcceptable, Next, vars, Boot, BootFinds, BootInserts, BootDirs, BootChat,
           Connect, Handle, Check, StoreChat, StoreRow, MakeDirs, Raises, Crash, Take,
           WriteTemp, Rename, handler, At, Goes
      <3> QED BY <3>1, <3>2
    <2>3. DirsFollow'
      <3> SUFFICES ASSUME faults' = 0, NEW f \in Registered' \ dirs'
                   PROVE  BootMakesDirs(f)' \/ RequestMakesDirs(f)'
        BY DEF DirsFollow
      <3>1. faults = 0 /\ ~ Raises
        <4>1. faults \in Nat
          BY RegistrationAssumption DEF IInv, TypeOK
        <4>2. faults' = faults \/ faults' = faults + 1
          BY DEF Next, vars, Boot, BootFinds, BootInserts, BootDirs, BootChat, Connect, Handle,
             Check, StoreChat, StoreRow, MakeDirs, Raises, Unlink, Crash, Take, WriteTemp,
             Rename, bounds
        <4>3. Raises => faults' = faults + 1
          BY DEF Raises
        <4> QED BY <4>1, <4>2, <4>3
      <3> QED BY <3>1, BootDirsFollow, HandlerDirsFollow, OtherDirsFollow DEF Next, Handle
    <2> QED BY <2>1, <2>2, <2>3
  <1>3. DInv => GroupsHaveDirs
    <2> SUFFICES ASSUME DInv, Up, faults = 0, NEW f \in Registered \ dirs
                 PROVE  /\ tasks[Main] # <<>>
                        /\ Head(tasks[Main]) = by[f]
                        /\ Main \in Mains \/ task = by[f]
      BY DEF GroupsHaveDirs
    <2>1. RequestMakesDirs(f)
      BY DEF DInv, DirsFollow, BootMakesDirs, Up
    <2> QED BY <2>1 DEF RequestMakesDirs, Up
  <1> QED BY <1>1, <1>2, <1>3, Invariance, PTL DEF Spec, DInv
=============================================================================
