---------------------------- MODULE InboundProofs ----------------------------
(***************************************************************************)
(* Proofs about Inbound, for any inputs, chats and triggers, any size of   *)
(* the window and any number of database errors and restarts.              *)
(***************************************************************************)
EXTENDS Inbound, SequenceTheorems, FiniteSetTheorems, TLAPS

(* A listing names files, unless they have been handled and unlinked. *)
ListedAreFiles == \A f \in listing : status[f] = "file"

(* A queue holds runs of its own chat. *)
QueueInv ==
  \A j \in Jids : \A i \in 1..Len(queue[j]) : JidOf[queue[j][i]] = j

Count(e, q) == Cardinality({i \in 1..Len(q) : q[i] = e})

(* How often the run of an input waits. *)
Waiting(f) == Count(f, queue[JidOf[f]])

(* The runs that an input has caused: one for every time that unlinking    *)
(* its file failed, and one when the file has gone or has been handled and *)
(* is about to go.                                                         *)
Accounted ==
  \A f \in Inputs :
    Waiting(f) + begun[f] <=
      kept[f] + (IF status[f] = "gone" \/ (handled /\ IsNext(f)) THEN 1 ELSE 0)

(* The message of a file that was handled is stored before the file goes. *)
HandledIsStored ==
  faults = 0 /\ handled =>
    \A f \in Inputs :
      IsNext(f) /\ Kind[f] = "message" /\ f \in Permitted => StoredMessage(f)

IInv ==
  /\ TypeOK
  /\ ListedAreFiles
  /\ QueueInv
  /\ Accounted
  /\ OneRunPerUnlink
  /\ HandledIsStored
  /\ NoFileIsLost

-----------------------------------------------------------------------------
(* How often an input is in a queue.                                       *)

LEMMA CountIsFinite ==
  ASSUME NEW q \in Seq(Inputs), NEW e
  PROVE  /\ IsFiniteSet({i \in 1..Len(q) : q[i] = e})
         /\ Count(e, q) \in Nat
  <1>1. Len(q) \in Nat
    OBVIOUS
  <1>2. IsFiniteSet(1..Len(q))
    BY <1>1, FS_Interval
  <1>3. IsFiniteSet({i \in 1..Len(q) : q[i] = e})
    BY <1>2, FS_Subset
  <1> QED BY <1>3, FS_CardinalityType DEF Count

LEMMA CountNothing ==
  ASSUME NEW e
  PROVE  Count(e, <<>>) = 0
  <1>1. {i \in 1..Len(<<>>) : <<>>[i] = e} = {}
    OBVIOUS
  <1> QED BY <1>1, FS_EmptySet DEF Count

(* What is appended is in the queue once more. *)
LEMMA CountAppended ==
  ASSUME NEW q \in Seq(Inputs), NEW d \in Inputs, NEW e
  PROVE  Count(e, Append(q, d)) = Count(e, q) + (IF e = d THEN 1 ELSE 0)
  <1> DEFINE n == Len(q)
             P == {i \in 1..n : q[i] = e}
             R == {i \in 1..Len(Append(q, d)) : Append(q, d)[i] = e}
  <1>1. /\ n \in Nat /\ Len(Append(q, d)) = n + 1
        /\ \A i \in 1..n : Append(q, d)[i] = q[i]
        /\ Append(q, d)[n + 1] = d
    BY AppendProperties, LenProperties
  <1>2. n + 1 \notin P
    BY <1>1
  <1>3. IsFiniteSet(P) /\ Cardinality(P) \in Nat
    BY CountIsFinite DEF Count
  <1>4. CASE e = d
    <2>1. R = P \cup {n + 1}
      BY <1>1, <1>4
    <2>2. Cardinality(P \cup {n + 1}) = Cardinality(P) + 1
      <3> HIDE DEF P, n
      <3> QED BY <1>2, <1>3, FS_AddElement
    <2> QED BY <1>4, <2>1, <2>2 DEF Count
  <1>5. CASE e # d
    <2>1. R = P
      BY <1>1, <1>5
    <2> HIDE DEF P, R, n
    <2>2. Cardinality(R) = Cardinality(P) + 0
      BY <1>3, <2>1
    <2> QED BY <1>5, <2>2 DEF Count, P, R, n
  <1> QED BY <1>4, <1>5

(* What begins leaves the queue once. *)
LEMMA CountBegun ==
  ASSUME NEW q \in Seq(Inputs), q # <<>>, NEW e
  PROVE  Count(e, q) = Count(e, Tail(q)) + (IF e = Head(q) THEN 1 ELSE 0)
  <1> DEFINE t == Tail(q)
             Q == {i \in 1..Len(q) : q[i] = e}
             T == {i \in 1..Len(t) : t[i] = e}
             S == {i \in 2..Len(q) : q[i] = e}
             f == [i \in T |-> i + 1]
  <1>1. /\ t \in Seq(Inputs) /\ Len(q) \in Nat \ {0} /\ Len(t) = Len(q) - 1
        /\ \A i \in 1..Len(t) : t[i] = q[i + 1]
        /\ Head(q) = q[1]
    BY HeadTailProperties, EmptySeq, LenProperties
  <1>2. f \in Bijection(T, S)
    <2>1. \A i \in T : i + 1 \in S
      BY <1>1
    <2>2. \A k \in S : k - 1 \in T /\ (k - 1) + 1 = k
      BY <1>1
    <2>3. \A i, k \in T : i + 1 = k + 1 => i = k
      OBVIOUS
    <2> HIDE DEF T, S
    <2>4. f \in Injection(T, S)
      BY <2>1, <2>3 DEF Injection, IsInjective
    <2>5. f \in Surjection(T, S)
      BY <2>1, <2>2 DEF Surjection
    <2> QED BY <2>4, <2>5 DEF Bijection
  <1>3. IsFiniteSet(T) /\ Cardinality(T) \in Nat
    BY <1>1, CountIsFinite DEF Count
  <1>4. IsFiniteSet(S) /\ Cardinality(S) = Cardinality(T)
    <2> HIDE DEF T, S, f
    <2>1. ExistsBijection(T, S)
      BY <1>2 DEF ExistsBijection
    <2> QED BY <1>3, <2>1, FS_Bijection
  <1>5. CASE e = Head(q)
    <2>1. Q = S \cup {1} /\ 1 \notin S
      BY <1>1, <1>5
    <2>2. Cardinality(S \cup {1}) = Cardinality(S) + 1
      <3> HIDE DEF S
      <3> QED BY <1>4, <2>1, FS_AddElement
    <2> HIDE DEF Q, S, T
    <2>3. Cardinality(Q) = Cardinality(T) + 1
      BY <1>4, <2>1, <2>2
    <2> QED BY <1>5, <2>3 DEF Count, Q, T
  <1>6. CASE e # Head(q)
    <2>1. Q = S
      BY <1>1, <1>6
    <2> HIDE DEF Q, S, T
    <2>2. Cardinality(Q) = Cardinality(T) + 0
      BY <1>3, <1>4, <2>1
    <2> QED BY <1>6, <2>2 DEF Count, Q, T
  <1> QED BY <1>5, <1>6

-----------------------------------------------------------------------------
(* The queues.                                                             *)

(* Two files cannot both be the next one. *)
LEMMA NextIsUnique ==
  ASSUME listing \subseteq Inputs, NEW f \in Inputs, NEW g \in Inputs,
         IsNext(f), IsNext(g)
  PROVE  f = g
  BY InputsAssumption DEF IsNext

LEMMA WaitingIsNat ==
  ASSUME TypeOK, NEW f \in Inputs
  PROVE  Waiting(f) \in Nat
  <1>1. queue[JidOf[f]] \in Seq(Inputs)
    BY InputsAssumption DEF TypeOK
  <1> QED BY <1>1, CountIsFinite DEF Waiting

(* A run joins its queue at the end. *)
LEMMA RunJoins ==
  ASSUME TypeOK, QueueInv, NEW f \in Inputs, EnqueueRun(f)
  PROVE  /\ queue' \in [Jids -> Seq(Inputs)]
         /\ QueueInv'
         /\ \A g \in Inputs : Waits(g)' => g = f \/ Waits(g)
         /\ \A g \in Inputs : Waiting(g)' = Waiting(g) + (IF g = f THEN 1 ELSE 0)
  <1> DEFINE q == queue[JidOf[f]]
             a == Append(q, f)
  <1>1. JidOf[f] \in Jids /\ q \in Seq(Inputs)
    BY InputsAssumption DEF TypeOK
  <1>2. /\ a \in Seq(Inputs)
        /\ Len(q) \in Nat /\ Len(a) = Len(q) + 1
        /\ \A i \in 1..Len(q) : a[i] = q[i]
        /\ a[Len(q) + 1] = f
    BY <1>1, AppendProperties, LenProperties
  <1>3. \A g \in Inputs : Count(g, a) = Count(g, q) + (IF g = f THEN 1 ELSE 0)
    BY <1>1, CountAppended
  <1> HIDE DEF a
  <1>4. queue' = [queue EXCEPT ![JidOf[f]] = a]
    BY DEF EnqueueRun, a
  <1>5. queue' \in [Jids -> Seq(Inputs)] /\ queue'[JidOf[f]] = a
        /\ \A j \in Jids \ {JidOf[f]} : queue'[j] = queue[j]
    BY <1>1, <1>2, <1>4 DEF TypeOK
  <1>6. \A i \in 1..Len(a) :
          \/ i = Len(q) + 1 /\ a[i] = f
          \/ i \in 1..Len(q) /\ a[i] = q[i]
    BY <1>2
  <1>7. \A i \in 1..Len(q) : JidOf[q[i]] = JidOf[f]
    BY <1>1 DEF QueueInv
  <1>8. \A i \in 1..Len(a) : JidOf[a[i]] = JidOf[f]
    BY <1>6, <1>7
  <1>9. QueueInv'
    BY <1>5, <1>8 DEF QueueInv
  <1>10. ASSUME NEW g \in Inputs, Waits(g)', g # f
         PROVE  Waits(g)
    <2>1. JidOf[g] \in Jids
      BY InputsAssumption
    <2>2. CASE JidOf[g] = JidOf[f]
      BY <2>2, <1>5, <1>6, <1>10 DEF Waits
    <2>3. CASE JidOf[g] # JidOf[f]
      BY <2>1, <2>3, <1>5, <1>10 DEF Waits
    <2> QED BY <2>2, <2>3
  <1>11. ASSUME NEW g \in Inputs
         PROVE  Waiting(g)' = Waiting(g) + (IF g = f THEN 1 ELSE 0)
    <2>1. JidOf[g] \in Jids
      BY InputsAssumption
    <2>2. CASE JidOf[g] = JidOf[f]
      BY <2>2, <1>3, <1>5 DEF Waiting
    <2>3. CASE JidOf[g] # JidOf[f]
      <3>1. Waiting(g)' = Waiting(g) /\ g # f
        BY <2>1, <2>3, <1>5 DEF Waiting
      <3> QED BY <3>1, WaitingIsNat
    <2> QED BY <2>2, <2>3
  <1> QED BY <1>5, <1>9, <1>10, <1>11

(* The first run of a queue leaves it. *)
LEMMA RunLeaves ==
  ASSUME TypeOK, QueueInv, NEW j \in Jids, queue[j] # <<>>,
         NEW f, f = Head(queue[j]),
         queue' = [queue EXCEPT ![j] = Tail(@)]
  PROVE  /\ f \in Inputs /\ JidOf[f] = j /\ Waits(f)
         /\ queue' \in [Jids -> Seq(Inputs)]
         /\ QueueInv'
         /\ \A g \in Inputs : Waits(g)' => Waits(g)
         /\ \A g \in Inputs : Waiting(g) = Waiting(g)' + (IF g = f THEN 1 ELSE 0)
         /\ \A g \in Inputs : Waiting(g)' \in Nat
  <1> DEFINE q == queue[j]
             t == Tail(q)
  <1>1. q \in Seq(Inputs)
    BY DEF TypeOK
  <1>2. /\ f \in Inputs /\ t \in Seq(Inputs)
        /\ Len(q) \in Nat /\ Len(q) > 0 /\ Len(t) = Len(q) - 1
        /\ \A i \in 1..Len(t) : i + 1 \in 1..Len(q) /\ t[i] = q[i + 1]
        /\ f = q[1]
    BY <1>1, HeadTailProperties, EmptySeq, LenProperties
  <1>3. \A g \in Inputs : Count(g, q) = Count(g, t) + (IF g = f THEN 1 ELSE 0)
    BY <1>1, CountBegun
  <1> HIDE DEF t
  <1>4. queue' = [queue EXCEPT ![j] = t]
    BY DEF t
  <1>5. queue' \in [Jids -> Seq(Inputs)] /\ queue'[j] = t
        /\ \A k \in Jids \ {j} : queue'[k] = queue[k]
    BY <1>2, <1>4 DEF TypeOK
  <1>6. \A i \in 1..Len(q) : JidOf[q[i]] = j
    BY DEF QueueInv
  <1>7. 1 \in 1..Len(q) /\ JidOf[f] = j /\ Waits(f)
    BY <1>2, <1>6 DEF Waits
  <1>8. \A i \in 1..Len(t) : JidOf[t[i]] = j
    BY <1>2, <1>6
  <1>9. QueueInv'
    BY <1>5, <1>8 DEF QueueInv
  <1>10. ASSUME NEW g \in Inputs, Waits(g)'
         PROVE  Waits(g)
    <2>1. JidOf[g] \in Jids
      BY InputsAssumption
    <2>2. CASE JidOf[g] = j
      BY <2>2, <1>2, <1>5, <1>10 DEF Waits
    <2>3. CASE JidOf[g] # j
      BY <2>1, <2>3, <1>5, <1>10 DEF Waits
    <2> QED BY <2>2, <2>3
  <1>11. ASSUME NEW g \in Inputs
         PROVE  /\ Waiting(g) = Waiting(g)' + (IF g = f THEN 1 ELSE 0)
                /\ Waiting(g)' \in Nat
    <2>1. JidOf[g] \in Jids
      BY InputsAssumption
    <2>2. CASE JidOf[g] = j
      <3>1. Waiting(g)' = Count(g, t) /\ Waiting(g) = Count(g, q)
        BY <2>2, <1>5 DEF Waiting
      <3>2. Count(g, t) \in Nat
        BY <1>2, CountIsFinite
      <3> QED BY <3>1, <3>2, <1>3
    <2>3. CASE JidOf[g] # j
      <3>1. Waiting(g)' = Waiting(g) /\ g # f
        BY <2>1, <2>3, <1>5, <1>7 DEF Waiting
      <3> QED BY <3>1, WaitingIsNat
    <2> QED BY <2>2, <2>3
  <1> QED BY <1>2, <1>5, <1>7, <1>9, <1>10, <1>11

-----------------------------------------------------------------------------
(* The handlers.                                                           *)

(* What a handler does, whether it returns or raises: it loses no row, and *)
(* if no error of the database came in between, the message is stored.     *)
LEMMA HandlerStores ==
  ASSUME TypeOK, NEW f \in Inputs, Handles(f)
  PROVE  /\ rows \subseteq rows' /\ rows' \subseteq Rows
         /\ lastTime' \in [Jids -> Times \cup {0}]
         /\ faults' \in Nat
         /\ faults' = 0 => faults = 0
         /\ faults' = 0 /\ Kind[f] = "message" /\ f \in Permitted => StoredMessage(f)'
         /\ queue' = queue \/ EnqueueRun(f)
  <1>1. /\ JidOf[f] \in Jids /\ TimeOf[f] \in Times
        /\ faults \in Nat
        /\ rows \subseteq Rows
    BY InputsAssumption DEF TypeOK
  <1>0. Row(f) \in Rows
    BY DEF Rows
  <1>2. StoreTime(f) => lastTime' \in [Jids -> Times \cup {0}]
    BY <1>1 DEF StoreTime, TypeOK
  <1>3. InsertMessage(f) =>
          rows \subseteq rows' /\ rows' \subseteq Rows /\ StoredMessage(f)'
    BY <1>0, <1>1 DEF InsertMessage, StoredMessage, Row
  <1>4. lastTime \in [Jids -> Times \cup {0}]
    BY DEF TypeOK
  <1>5. CASE Handle(f) /\ UNCHANGED faults
    <2>1. CASE Kind[f] = "metadata"
      BY <1>1, <1>2, <1>5, <2>1 DEF Handle
    <2>2. CASE Kind[f] = "message" /\ f \in Permitted
      BY <1>1, <1>2, <1>3, <1>5, <2>2 DEF Handle
    <2>3. CASE Kind[f] # "metadata" /\ ~ (Kind[f] = "message" /\ f \in Permitted)
      BY <1>1, <1>4, <1>5, <2>3 DEF Handle
    <2> QED BY <2>1, <2>2, <2>3
  <1>6. CASE HandleFails(f)
    <2>1. faults' \in Nat /\ faults' # 0 /\ queue' = queue
      BY <1>1, <1>6 DEF HandleFails
    <2>2. /\ rows \subseteq rows' /\ rows' \subseteq Rows
          /\ lastTime' \in [Jids -> Times \cup {0}]
      BY <1>1, <1>2, <1>3, <1>4, <1>6 DEF HandleFails
    <2> QED BY <2>1, <2>2
  <1> QED BY <1>5, <1>6 DEF Handles

(* What was stored stays stored. *)
LEMMA StoredStays ==
  ASSUME rows \subseteq rows', NEW f \in Inputs, StoredMessage(f)
  PROVE  StoredMessage(f)'
  BY DEF StoredMessage

(* The effects of a handler on the queues: its run joins one, or nothing   *)
(* does.                                                                   *)
LEMMA HandlerEnqueues ==
  ASSUME TypeOK, QueueInv, NEW f \in Inputs, queue' = queue \/ EnqueueRun(f)
  PROVE  /\ queue' \in [Jids -> Seq(Inputs)]
         /\ QueueInv'
         /\ \A g \in Inputs : Waits(g)' => g = f \/ Waits(g)
         /\ \A g \in Inputs : /\ Waiting(g)' \in Nat
                              /\ Waiting(g)' <= Waiting(g) + (IF g = f THEN 1 ELSE 0)
  <1>1. CASE queue' = queue
    <2>1. /\ queue' \in [Jids -> Seq(Inputs)]
          /\ QueueInv'
          /\ \A g \in Inputs : Waits(g)' => Waits(g)
      BY <1>1 DEF TypeOK, QueueInv, Waits
    <2>2. \A g \in Inputs : Waiting(g)' = Waiting(g)
      BY <1>1 DEF Waiting
    <2>3. \A g \in Inputs : Waiting(g) \in Nat
      BY WaitingIsNat
    <2> QED BY <2>1, <2>2, <2>3
  <1>2. CASE EnqueueRun(f)
    <2>1. \A g \in Inputs : Waiting(g) \in Nat
      BY WaitingIsNat
    <2> QED BY <1>2, <2>1, RunJoins
  <1> QED BY <1>1, <1>2

-----------------------------------------------------------------------------
(* The invariant.                                                          *)

LEMMA Initially == Init => IInv
  <1> SUFFICES ASSUME Init PROVE IInv
    OBVIOUS
  <1>1. <<>> \in Seq(Inputs) /\ Len(<<>>) = 0
    OBVIOUS
  <1>2. TypeOK
    <2>1. /\ status \in [Inputs -> {"new", "file", "gone"}]
          /\ listing \in SUBSET Inputs /\ handled \in BOOLEAN
          /\ rows \subseteq Rows
          /\ kept \in [Inputs -> Nat]
      BY DEF Init
    <2>2. /\ lastTime \in [Jids -> Times \cup {0}]
          /\ executing \in [Jids -> Inputs \cup {None}]
          /\ prompt \in [Jids -> SUBSET rows]
      BY DEF Init
    <2>3. queue \in [Jids -> Seq(Inputs)]
      BY <1>1 DEF Init
    <2>4. begun \in [Inputs -> Nat]
      BY DEF Init
    <2>5. faults \in Nat /\ restarts \in 0..MaxRestarts
      BY InputsAssumption DEF Init
    <2> QED BY <2>1, <2>2, <2>3, <2>4, <2>5 DEF TypeOK
  <1>3. \A j \in Jids : 1..Len(queue[j]) = {}
    BY <1>1 DEF Init
  <1>4. \A f \in Inputs : Waiting(f) = 0
    BY CountNothing, InputsAssumption DEF Init, Waiting
  <1>5. QueueInv
    BY <1>3 DEF QueueInv
  <1>6. Accounted /\ OneRunPerUnlink
    BY <1>4 DEF Init, Accounted, OneRunPerUnlink
  <1>7. ListedAreFiles /\ HandledIsStored /\ NoFileIsLost
    BY DEF Init, ListedAreFiles, HandledIsStored, NoFileIsLost
  <1> QED BY <1>2, <1>5, <1>6, <1>7 DEF IInv

(* A new file, and a listing of all files: nothing waits for either.       *)
LEMMA FilesAppear ==
  ASSUME IInv, \/ \E f \in Inputs : Write(f)
               \/ ListFiles
  PROVE  IInv'
  <1>1. /\ UNCHANGED <<kept, rows, lastTime, queue, executing, prompt, begun, faults, restarts>>
        /\ \A f \in Inputs : Waiting(f)' = Waiting(f) /\ StoredMessage(f)' = StoredMessage(f)
    BY DEF Write, ListFiles, database, runs, Waiting, StoredMessage
  <1>2. \A f \in Inputs : (status[f] = "gone") = (status'[f] = "gone")
    BY DEF Write, ListFiles, IInv, TypeOK
  <1>3. \/ listing' = listing /\ handled' = handled
        \/ listing = {} /\ handled' = FALSE
    BY DEF Write, ListFiles
  <1>4. TypeOK'
    BY <1>1 DEF IInv, TypeOK, Write, ListFiles
  <1>5. ListedAreFiles'
    BY DEF IInv, ListedAreFiles, TypeOK, Write, ListFiles
  <1>6. QueueInv'
    BY <1>1 DEF IInv, QueueInv
  <1>7. Accounted' /\ OneRunPerUnlink'
    BY <1>1, <1>2, <1>3 DEF IInv, Accounted, OneRunPerUnlink, IsNext
  <1>8. HandledIsStored' /\ NoFileIsLost'
    BY <1>1, <1>2, <1>3 DEF IInv, HandledIsStored, NoFileIsLost, IsNext
  <1> QED BY <1>4, <1>5, <1>6, <1>7, <1>8 DEF IInv

(* The handler of the next file returns or raises: the file has caused at  *)
(* most as many runs as unlinking it has failed, or it would be gone.      *)
LEMMA FileIsHandled ==
  ASSUME IInv, HandleFile
  PROVE  IInv'
  <1>1. PICK f \in Inputs : IsNext(f) /\ Handles(f)
    BY DEF HandleFile
  <1>2. /\ ~ handled /\ handled'
        /\ UNCHANGED <<status, listing, kept, executing, prompt, begun, restarts>>
        /\ \A g \in Inputs : IsNext(g)' = IsNext(g)
    BY DEF HandleFile, IsNext
  <1>3. status[f] = "file" /\ Waiting(f) + begun[f] <= kept[f]
    <2>1. status[f] = "file" /\ kept[f] \in Nat
      BY <1>1 DEF IInv, TypeOK, ListedAreFiles, IsNext
    <2>2. Waiting(f) + begun[f] <= kept[f] + 0
      BY <1>2, <2>1 DEF IInv, Accounted
    <2> QED BY <2>1, <2>2
  <1>4. /\ rows \subseteq rows' /\ rows' \subseteq Rows
        /\ lastTime' \in [Jids -> Times \cup {0}]
        /\ faults' \in Nat
        /\ faults' = 0 => faults = 0
        /\ faults' = 0 /\ Kind[f] = "message" /\ f \in Permitted => StoredMessage(f)'
        /\ queue' = queue \/ EnqueueRun(f)
    BY <1>1, HandlerStores DEF IInv
  <1>5. /\ queue' \in [Jids -> Seq(Inputs)]
        /\ QueueInv'
        /\ \A g \in Inputs : /\ Waiting(g)' \in Nat
                             /\ Waiting(g)' <= Waiting(g) + (IF g = f THEN 1 ELSE 0)
    BY <1>4, HandlerEnqueues DEF IInv
  <1>6. TypeOK'
    BY <1>2, <1>4, <1>5 DEF IInv, TypeOK
  <1>7. Accounted'
    <2> SUFFICES ASSUME NEW g \in Inputs
                 PROVE  Waiting(g)' + begun[g] <=
                          kept[g] + (IF status[g] = "gone" \/ IsNext(g) THEN 1 ELSE 0)
      BY <1>2 DEF Accounted
    <2>0. /\ kept[g] \in Nat /\ begun[g] \in Nat /\ Waiting(g) \in Nat
          /\ Waiting(g)' \in Nat
      BY <1>5, WaitingIsNat DEF IInv, TypeOK
    <2>1. CASE g = f
      BY <1>1, <1>3, <1>5, <2>0, <2>1
    <2>2. CASE g # f
      <3>1. Waiting(g) + begun[g] <= kept[g] + (IF status[g] = "gone" THEN 1 ELSE 0)
        BY <1>2 DEF IInv, Accounted
      <3>2. Waiting(g)' <= Waiting(g)
        BY <1>5, <2>0, <2>2
      <3> QED BY <2>0, <3>1, <3>2
    <2> QED BY <2>1, <2>2
  <1>8. ListedAreFiles' /\ OneRunPerUnlink'
    BY <1>2 DEF IInv, ListedAreFiles, OneRunPerUnlink
  <1>9. HandledIsStored'
    BY <1>1, <1>2, <1>4, NextIsUnique DEF IInv, TypeOK, HandledIsStored
  <1>10. NoFileIsLost'
    BY <1>2, <1>4, StoredStays DEF IInv, NoFileIsLost
  <1> QED BY <1>5, <1>6, <1>7, <1>8, <1>9, <1>10 DEF IInv

(* Its file goes, or unlinking it has failed once more. *)
LEMMA FileIsUnlinked ==
  ASSUME IInv, UnlinkFile
  PROVE  IInv'
  <1>1. PICK f \in Inputs :
          /\ IsNext(f)
          /\ \/ status' = [status EXCEPT ![f] = "gone"] /\ UNCHANGED kept
             \/ UnlinkFails(f)
          /\ listing' = listing \ {f}
    BY DEF UnlinkFile
  <1>2. /\ handled /\ ~ handled'
        /\ UNCHANGED <<rows, lastTime, queue, executing, prompt, begun, faults, restarts>>
        /\ \A g \in Inputs : Waiting(g)' = Waiting(g) /\ StoredMessage(g)' = StoredMessage(g)
    BY DEF UnlinkFile, database, runs, Waiting, StoredMessage
  <1>3. /\ status' \in [Inputs -> {"new", "file", "gone"}] /\ kept' \in [Inputs -> Nat]
        /\ \/ status'[f] = "gone" /\ kept'[f] = kept[f]
           \/ status'[f] = status[f] /\ kept'[f] = kept[f] + 1
        /\ \A g \in Inputs \ {f} : status'[g] = status[g] /\ kept'[g] = kept[g]
    <2>1. status \in [Inputs -> {"new", "file", "gone"}] /\ kept \in [Inputs -> Nat]
      BY DEF IInv, TypeOK
    <2>2. CASE status' = [status EXCEPT ![f] = "gone"] /\ UNCHANGED kept
      BY <2>1, <2>2
    <2>3. CASE kept' = [kept EXCEPT ![f] = @ + 1] /\ UNCHANGED status
      BY <2>1, <2>3
    <2> QED BY <1>1, <2>2, <2>3 DEF UnlinkFails
  <1>4. \A g \in Inputs : IsNext(g) => g = f
    BY <1>1, NextIsUnique DEF IInv, TypeOK
  <1>5. TypeOK'
    BY <1>1, <1>2, <1>3 DEF IInv, TypeOK, UnlinkFile
  <1>6. ListedAreFiles'
    BY <1>1, <1>3 DEF IInv, TypeOK, ListedAreFiles
  <1>7. QueueInv'
    BY <1>2 DEF IInv, QueueInv
  <1>8. status[f] = "file" /\ kept[f] \in Nat /\ begun[f] \in Nat /\ Waiting(f) \in Nat
    BY <1>1, WaitingIsNat DEF IInv, TypeOK, ListedAreFiles, IsNext
  <1>9. Accounted'
    <2> SUFFICES ASSUME NEW g \in Inputs
                 PROVE  Waiting(g) + begun[g] <=
                          kept'[g] + (IF status'[g] = "gone" THEN 1 ELSE 0)
      BY <1>2 DEF Accounted
    <2>1. Waiting(g) + begun[g] <= kept[g] + (IF status[g] = "gone" \/ IsNext(g) THEN 1 ELSE 0)
      BY <1>2 DEF IInv, Accounted
    <2>2. CASE g = f
      BY <1>1, <1>3, <1>8, <2>1, <2>2
    <2>3. CASE g # f
      BY <1>3, <1>4, <2>1, <2>3
    <2> QED BY <2>2, <2>3
  <1>10. OneRunPerUnlink'
    <2> SUFFICES ASSUME NEW g \in Inputs
                 PROVE  begun[g] <= kept'[g] + (IF status'[g] = "gone" THEN 1 ELSE 0)
      BY <1>2 DEF OneRunPerUnlink
    <2>1. begun[g] <= kept[g] + (IF status[g] = "gone" THEN 1 ELSE 0)
      BY DEF IInv, OneRunPerUnlink
    <2> QED BY <1>3, <1>8, <2>1
  <1>11. HandledIsStored' /\ NoFileIsLost'
    BY <1>1, <1>2, <1>3 DEF IInv, HandledIsStored, NoFileIsLost
  <1> QED BY <1>5, <1>6, <1>7, <1>9, <1>10, <1>11 DEF IInv

(* A message of the web channel is taken and handled in one step. *)
LEMMA WebMessageComes ==
  ASSUME IInv, NEW f \in Inputs, WebMessage(f)
  PROVE  IInv'
  <1>1. /\ status[f] = "new" /\ listing = {} /\ Handles(f)
        /\ status' = [status EXCEPT ![f] = "gone"]
        /\ UNCHANGED <<listing, handled, kept, executing, prompt, begun, restarts>>
    BY DEF WebMessage, LoopIsFree
  <1>2. /\ status' \in [Inputs -> {"new", "file", "gone"}]
        /\ status'[f] = "gone" /\ \A g \in Inputs \ {f} : status'[g] = status[g]
    BY <1>1 DEF IInv, TypeOK
  <1>3. \A g \in Inputs : ~ IsNext(g) /\ ~ IsNext(g)'
    BY <1>1 DEF IsNext
  <1>4. /\ rows \subseteq rows' /\ rows' \subseteq Rows
        /\ lastTime' \in [Jids -> Times \cup {0}]
        /\ faults' \in Nat
        /\ faults' = 0 => faults = 0
        /\ faults' = 0 /\ Kind[f] = "message" /\ f \in Permitted => StoredMessage(f)'
        /\ queue' = queue \/ EnqueueRun(f)
    BY <1>1, HandlerStores DEF IInv
  <1>5. /\ queue' \in [Jids -> Seq(Inputs)]
        /\ QueueInv'
        /\ \A g \in Inputs : /\ Waiting(g)' \in Nat
                             /\ Waiting(g)' <= Waiting(g) + (IF g = f THEN 1 ELSE 0)
    BY <1>4, HandlerEnqueues DEF IInv
  <1>6. TypeOK'
    BY <1>1, <1>2, <1>4, <1>5 DEF IInv, TypeOK
  <1>7. Accounted' /\ OneRunPerUnlink'
    <2> SUFFICES ASSUME NEW g \in Inputs
                 PROVE  /\ Waiting(g)' + begun[g] <=
                             kept[g] + (IF status'[g] = "gone" THEN 1 ELSE 0)
                        /\ begun[g] <= kept[g] + (IF status'[g] = "gone" THEN 1 ELSE 0)
      BY <1>1, <1>3 DEF Accounted, OneRunPerUnlink
    <2>0. /\ kept[g] \in Nat /\ begun[g] \in Nat /\ Waiting(g) \in Nat
          /\ Waiting(g)' \in Nat
      BY <1>5, WaitingIsNat DEF IInv, TypeOK
    <2>1. Waiting(g) + begun[g] <= kept[g] + (IF status[g] = "gone" THEN 1 ELSE 0)
      BY <1>3 DEF IInv, Accounted
    <2>2. CASE g = f
      BY <1>1, <1>2, <1>5, <2>0, <2>1, <2>2
    <2>3. CASE g # f
      BY <1>2, <1>5, <2>0, <2>1, <2>3
    <2> QED BY <2>2, <2>3
  <1>8. ListedAreFiles' /\ HandledIsStored'
    BY <1>1, <1>3 DEF ListedAreFiles, HandledIsStored
  <1>9. NoFileIsLost'
    BY <1>2, <1>4, StoredStays DEF IInv, NoFileIsLost
  <1> QED BY <1>5, <1>6, <1>7, <1>8, <1>9 DEF IInv

(* The next run of a chat begins.  No file is in the hands of the watcher, *)
(* so what waits is gone from the directory or could not be unlinked.      *)
LEMMA RunBegins ==
  ASSUME IInv, NEW j \in Jids, BeginRun(j)
  PROVE  IInv'
  <1> DEFINE f == Head(queue[j])
  <1>1. /\ listing = {} /\ queue[j] # <<>>
        /\ executing' = [executing EXCEPT ![j] = f]
        /\ queue' = [queue EXCEPT ![j] = Tail(@)]
        /\ begun' = [begun EXCEPT ![f] = @ + 1]
        /\ UNCHANGED <<status, listing, handled, kept, rows, lastTime, faults, restarts>>
    BY DEF BeginRun, LoopIsFree, disk, database
  <1>2. PICK w \in RecentRows(j) : prompt' = [prompt EXCEPT ![j] = w]
    BY DEF BeginRun
  <1>3. w \subseteq rows
    BY DEF RecentRows, ChatRows
  <1> SUFFICES ASSUME NEW g, g = f PROVE IInv'
    OBVIOUS
  <1> HIDE DEF f
  <1>4. /\ g \in Inputs
        /\ queue' \in [Jids -> Seq(Inputs)]
        /\ QueueInv'
        /\ \A h \in Inputs : Waiting(h) = Waiting(h)' + (IF h = g THEN 1 ELSE 0)
        /\ \A h \in Inputs : Waiting(h)' \in Nat
    BY <1>1, RunLeaves DEF IInv, f
  <1>5. \A h \in Inputs : ~ IsNext(h) /\ ~ IsNext(h)'
    BY <1>1 DEF IsNext
  <1>6. /\ begun' \in [Inputs -> Nat]
        /\ \A h \in Inputs : begun'[h] = begun[h] + (IF h = g THEN 1 ELSE 0)
    <2>1. begun \in [Inputs -> Nat]
      BY DEF IInv, TypeOK
    <2>2. begun' = [begun EXCEPT ![g] = @ + 1]
      BY <1>1
    <2>3. g \in Inputs
      BY <1>4
    <2> QED BY <2>1, <2>2, <2>3
  <1>7. prompt' \in [Jids -> SUBSET rows]
    BY <1>2, <1>3 DEF IInv, TypeOK
  <1>8. executing' \in [Jids -> Inputs \cup {None}]
    BY <1>1, <1>4 DEF IInv, TypeOK
  <1>9. TypeOK'
    BY <1>1, <1>4, <1>6, <1>7, <1>8 DEF IInv, TypeOK
  <1>10. Accounted' /\ OneRunPerUnlink'
    <2> SUFFICES ASSUME NEW h \in Inputs
                 PROVE  /\ Waiting(h)' + begun'[h] <=
                             kept[h] + (IF status[h] = "gone" THEN 1 ELSE 0)
                        /\ begun'[h] <= kept[h] + (IF status[h] = "gone" THEN 1 ELSE 0)
      BY <1>1, <1>5 DEF Accounted, OneRunPerUnlink
    <2>1. Waiting(h) + begun[h] <= kept[h] + (IF status[h] = "gone" THEN 1 ELSE 0)
      BY <1>5 DEF IInv, Accounted
    <2>2. /\ kept[h] \in Nat /\ begun[h] \in Nat /\ Waiting(h)' \in Nat
          /\ begun'[h] = begun[h] + (IF h = g THEN 1 ELSE 0)
          /\ Waiting(h) = Waiting(h)' + (IF h = g THEN 1 ELSE 0)
      BY <1>4, <1>6 DEF IInv, TypeOK
    <2> QED BY <2>1, <2>2
  <1>11. ListedAreFiles' /\ HandledIsStored' /\ NoFileIsLost'
    BY <1>1 DEF IInv, ListedAreFiles, HandledIsStored, NoFileIsLost, IsNext, StoredMessage
  <1> QED BY <1>4, <1>9, <1>10, <1>11 DEF IInv

(* A run ends; its reply becomes a row. *)
LEMMA RunEnds ==
  ASSUME IInv, NEW j \in Jids, EndRun(j)
  PROVE  IInv'
  <1>1. /\ executing[j] # None
        /\ executing' = [executing EXCEPT ![j] = None]
        /\ prompt' = [prompt EXCEPT ![j] = {}]
        /\ UNCHANGED <<status, listing, handled, kept, lastTime, queue, begun, faults, restarts>>
    BY DEF EndRun, disk
  <1>2. executing[j] \in Inputs
    BY <1>1 DEF IInv, TypeOK
  <1>3. \A t \in Times : ReplyRow(executing[j], t) \in Rows
    BY <1>2 DEF Rows
  <1>4. rows \subseteq rows' /\ rows' \subseteq Rows
    BY <1>3 DEF EndRun, IInv, TypeOK
  <1>5. /\ executing' \in [Jids -> Inputs \cup {None}]
        /\ prompt' \in [Jids -> SUBSET rows']
    BY <1>1, <1>4 DEF IInv, TypeOK
  <1>6. TypeOK'
    BY <1>1, <1>4, <1>5 DEF IInv, TypeOK
  <1>7. ListedAreFiles' /\ QueueInv' /\ Accounted' /\ OneRunPerUnlink'
    BY <1>1 DEF IInv, ListedAreFiles, QueueInv, Accounted, OneRunPerUnlink,
       Waiting, IsNext
  <1>8. HandledIsStored' /\ NoFileIsLost'
    BY <1>1, <1>4, StoredStays DEF IInv, HandledIsStored, NoFileIsLost, IsNext
  <1> QED BY <1>6, <1>7, <1>8 DEF IInv

(* The host starts again with empty queues. *)
LEMMA HostRestarts ==
  ASSUME IInv, Restart
  PROVE  IInv'
  <1>1. /\ listing' = {} /\ handled' = FALSE
        /\ restarts < MaxRestarts /\ restarts' = restarts + 1
        /\ queue' = [j \in Jids |-> <<>>]
        /\ executing' = [j \in Jids |-> None]
        /\ prompt' = [j \in Jids |-> {}]
        /\ UNCHANGED <<status, kept, rows, lastTime, begun, faults>>
    BY DEF Restart, database
  <1>2. <<>> \in Seq(Inputs) /\ Len(<<>>) = 0
    OBVIOUS
  <1>3. \A j \in Jids : 1..Len(queue'[j]) = {}
    BY <1>1, <1>2
  <1>4. \A f \in Inputs : Waiting(f)' = 0
    BY <1>1, CountNothing, InputsAssumption DEF Waiting
  <1>5. /\ queue' \in [Jids -> Seq(Inputs)]
        /\ executing' \in [Jids -> Inputs \cup {None}]
        /\ prompt' \in [Jids -> SUBSET rows]
    BY <1>1, <1>2
  <1>6. restarts' \in 0..MaxRestarts
    BY <1>1, InputsAssumption DEF IInv, TypeOK
  <1>7. TypeOK'
    BY <1>1, <1>5, <1>6 DEF IInv, TypeOK
  <1>8. QueueInv'
    BY <1>3 DEF QueueInv
  <1>9. Accounted' /\ OneRunPerUnlink'
    <2> SUFFICES ASSUME NEW f \in Inputs
                 PROVE  begun[f] <= kept[f] + (IF status[f] = "gone" THEN 1 ELSE 0)
      <3>1. \A f \in Inputs : begun[f] \in Nat
        BY DEF IInv, TypeOK
      <3> QED BY <1>1, <1>4, <3>1 DEF Accounted, OneRunPerUnlink
    <2> QED BY DEF IInv, OneRunPerUnlink
  <1>10. ListedAreFiles' /\ HandledIsStored' /\ NoFileIsLost'
    BY <1>1 DEF IInv, ListedAreFiles, HandledIsStored, NoFileIsLost, StoredMessage
  <1> QED BY <1>7, <1>8, <1>9, <1>10 DEF IInv

LEMMA Invariance == Spec => []IInv
  <1>1. IInv /\ [Next]_vars => IInv'
    <2> SUFFICES ASSUME IInv, [Next]_vars PROVE IInv'
      OBVIOUS
    <2>1. CASE \/ \E f \in Inputs : Write(f)
               \/ ListFiles
      BY <2>1, FilesAppear
    <2>2. CASE HandleFile
      BY <2>2, FileIsHandled
    <2>3. CASE UnlinkFile
      BY <2>3, FileIsUnlinked
    <2>4. CASE \E f \in Inputs : WebMessage(f)
      BY <2>4, WebMessageComes
    <2>5. CASE \E j \in Jids : BeginRun(j)
      BY <2>5, RunBegins
    <2>6. CASE \E j \in Jids : EndRun(j)
      BY <2>6, RunEnds
    <2>7. CASE Restart
      BY <2>7, HostRestarts
    <2>8. CASE UNCHANGED vars
      <3>1. UNCHANGED <<status, listing, handled, kept, rows, lastTime, queue, executing,
                        prompt, begun, faults, restarts>>
        BY <2>8 DEF vars, disk, database, runs
      <3> QED BY <3>1 DEF IInv, TypeOK, ListedAreFiles, QueueInv, Accounted,
          OneRunPerUnlink, HandledIsStored, NoFileIsLost, Waiting, IsNext, StoredMessage
    <2> QED BY <2>1, <2>2, <2>3, <2>4, <2>5, <2>6, <2>7, <2>8 DEF Next
  <1> QED BY <1>1, Initially, PTL DEF Spec

-----------------------------------------------------------------------------
(* The theorems.                                                           *)

(* Every reachable state of the watcher, the tables and the queues is well *)
(* typed.                                                                  *)
THEOREM Typing == Spec => []TypeOK
  BY Invariance, PTL DEF IInv

(* No crash loses a message: _poll_directory unlinks a file only after its *)
(* handler, and without errors of the database the handler has stored it.  *)
THEOREM FilesAreKept == Spec => []NoFileIsLost
  BY Invariance, PTL DEF IInv

(* However often the host dies between the handler and the unlinking, and  *)
(* the file is handled again, an input causes no second run; the suppressed *)
(* error of _poll_directory does cause one, each time unlinking fails.     *)
THEOREM RunsAreCounted == Spec => []OneRunPerUnlink
  BY Invariance, PTL DEF IInv

-----------------------------------------------------------------------------
(* The rows.                                                               *)

(* A row is a message as it was delivered, or a reply; there are finitely  *)
(* many; and the message of a run that waits is among them.                *)
RowInv ==
  /\ IsFiniteSet(rows)
  /\ \A r \in rows :
       \/ \E g \in Inputs : Kind[g] = "message" /\ r = Row(g)
       \/ \E g \in Inputs, t \in Times : r = ReplyRow(g, t)
  /\ \A f \in Inputs : Waits(f) => Kind[f] = "message" /\ StoredMessage(f)

(* A stored message keeps its chat and its time, however often it comes. *)
LEMMA StoredAsSent ==
  ASSUME RowInv, NEW f \in Inputs, Kind[f] = "message", NEW r \in rows, r.id = IdOf[f]
  PROVE  r.jid = JidOf[f] /\ r.time = TimeOf[f]
  <1>1. CASE \E g \in Inputs : Kind[g] = "message" /\ r = Row(g)
    BY <1>1, RedeliveryAssumption DEF Row
  <1>2. CASE \E g \in Inputs, t \in Times : r = ReplyRow(g, t)
    BY <1>2, FreshIdAssumption DEF ReplyRow
  <1> QED BY <1>1, <1>2 DEF RowInv

(* A handler adds at most the row of its message, and enqueues a run only  *)
(* behind it.                                                              *)
LEMMA HandlerKeepsRows ==
  ASSUME TypeOK, QueueInv, RowInv, NEW f \in Inputs, Handles(f)
  PROVE  RowInv'
  <1>1. \/ rows' = rows
        \/ Kind[f] = "message" /\ rows' = rows \cup {Row(f)}
    BY DEF Handles, Handle, HandleFails, InsertMessage
  <1>2. IsFiniteSet(rows')
    BY <1>1, FS_AddElement DEF RowInv
  <1>3. \A r \in rows' :
          \/ \E g \in Inputs : Kind[g] = "message" /\ r = Row(g)
          \/ \E g \in Inputs, t \in Times : r = ReplyRow(g, t)
    BY <1>1 DEF RowInv
  <1>4. rows \subseteq rows' /\ (queue' = queue \/ EnqueueRun(f))
    BY HandlerStores
  <1>5. \A g \in Inputs : Waits(g)' => g = f \/ Waits(g)
    BY <1>4, HandlerEnqueues
  <1>6. ASSUME Waits(f)' PROVE Kind[f] = "message" /\ StoredMessage(f)'
    <2>1. CASE queue' = queue
      <3>1. Waits(f)
        BY <1>6, <2>1 DEF Waits
      <3> QED BY <1>4, <3>1, StoredStays DEF RowInv
    <2> SUFFICES ASSUME queue' # queue
                 PROVE  Kind[f] = "message" /\ StoredMessage(f)'
      BY <2>1
    <2>2. Kind[f] = "message" /\ InsertMessage(f)
      BY DEF Handles, Handle, HandleFails
    <2>3. \E r \in rows' : r.id = IdOf[f]
      <3>1. CASE \E r \in rows : r.id = IdOf[f]
        BY <1>4, <3>1
      <3>2. CASE ~ \E r \in rows : r.id = IdOf[f]
        <4>1. Row(f) \in rows' /\ Row(f).id = IdOf[f]
          BY <2>2, <3>2 DEF InsertMessage, Row
        <4> QED BY <4>1
      <3> QED BY <3>1, <3>2
    <2> QED BY <2>2, <2>3 DEF StoredMessage
  <1>7. ASSUME NEW g \in Inputs, Waits(g)' PROVE Kind[g] = "message" /\ StoredMessage(g)'
    <2>1. CASE g = f
      BY <1>6, <1>7, <2>1
    <2>2. CASE g # f
      BY <1>4, <1>5, <1>7, <2>2, StoredStays DEF RowInv
    <2> QED BY <2>1, <2>2
  <1> QED BY <1>2, <1>3, <1>7 DEF RowInv

LEMMA RowsKept == IInv /\ RowInv /\ [Next]_vars => RowInv'
  <1> SUFFICES ASSUME IInv, RowInv, [Next]_vars PROVE RowInv'
    OBVIOUS
  <1>0. TypeOK /\ QueueInv
    BY DEF IInv
  <1>1. ASSUME UNCHANGED rows, \A f \in Inputs : Waits(f)' => Waits(f) PROVE RowInv'
    BY <1>1 DEF RowInv, StoredMessage
  <1>2. CASE ListFiles \/ UnlinkFile \/ UNCHANGED vars \/ \E f \in Inputs : Write(f)
    BY <1>1, <1>2 DEF ListFiles, UnlinkFile, Write, vars, disk, database, runs, Waits
  <1>3. CASE HandleFile
    <2>1. PICK f \in Inputs : Handles(f)
      BY <1>3 DEF HandleFile
    <2> QED BY <1>0, <2>1, HandlerKeepsRows
  <1>4. ASSUME NEW f \in Inputs, WebMessage(f) PROVE RowInv'
    <2>1. Handles(f)
      BY <1>4 DEF WebMessage
    <2> QED BY <1>0, <2>1, HandlerKeepsRows
  <1>5. ASSUME NEW j \in Jids, BeginRun(j) PROVE RowInv'
    <2>1. PICK f : f = Head(queue[j])
      OBVIOUS
    <2>2. /\ UNCHANGED rows /\ queue[j] # <<>>
          /\ queue' = [queue EXCEPT ![j] = Tail(@)]
      BY <1>5 DEF BeginRun, database
    <2>3. \A g \in Inputs : Waits(g)' => Waits(g)
      BY <1>0, <2>1, <2>2, RunLeaves
    <2> QED BY <1>1, <2>2, <2>3
  <1>6. ASSUME NEW j \in Jids, EndRun(j) PROVE RowInv'
    <2>1. executing[j] \in Inputs /\ UNCHANGED queue
      BY <1>0, <1>6 DEF EndRun, TypeOK
    <2>2. CASE UNCHANGED rows
      BY <1>1, <2>1, <2>2 DEF Waits
    <2>3. CASE ~ UNCHANGED rows
      <3>1. PICK t \in Times : rows' = rows \cup {ReplyRow(executing[j], t)}
        BY <1>6, <2>3 DEF EndRun
      <3>2. IsFiniteSet(rows')
        BY <3>1, FS_AddElement DEF RowInv
      <3>3. \A r \in rows' :
              \/ \E g \in Inputs : Kind[g] = "message" /\ r = Row(g)
              \/ \E g \in Inputs, u \in Times : r = ReplyRow(g, u)
        BY <2>1, <3>1 DEF RowInv
      <3>4. \A f \in Inputs : Waits(f)' => Kind[f] = "message" /\ StoredMessage(f)'
        BY <2>1, <3>1 DEF RowInv, Waits, StoredMessage
      <3> QED BY <3>2, <3>3, <3>4 DEF RowInv
    <2> QED BY <2>2, <2>3
  <1>7. CASE Restart
    <2>1. UNCHANGED rows /\ \A j \in Jids : queue'[j] = <<>>
      BY <1>7 DEF Restart, database
    <2>2. \A f \in Inputs : ~ Waits(f)'
      BY <2>1, InputsAssumption DEF Waits
    <2> QED BY <1>1, <2>1, <2>2
  <1> QED BY <1>2, <1>3, <1>4, <1>5, <1>6, <1>7 DEF Next

(* The window of a run that begins. *)
LEMMA WindowOrFull ==
  ASSUME RowInv, NEW f \in Inputs, Waits(f), NEW w \in RecentRows(JidOf[f]),
         \A r \in w : r.id # IdOf[f]
  PROVE  Cardinality({r \in ChatRows(JidOf[f]) : r.id # IdOf[f] /\ r.time >= TimeOf[f]}) >= Limit
  <1> DEFINE C == ChatRows(JidOf[f])
             late == {r \in C : r.id # IdOf[f] /\ r.time >= TimeOf[f]}
  <1>1. PICK s \in rows : s.id = IdOf[f] /\ s.jid = JidOf[f] /\ s.time = TimeOf[f]
    BY StoredAsSent DEF RowInv, StoredMessage
  <1>2. s \in C \ w
    BY <1>1 DEF ChatRows
  <1>3. w \subseteq C /\ Cardinality(w) = Limit /\ \A r \in w : r.time >= s.time
    BY <1>2 DEF RecentRows
  <1>4. w \subseteq late
    BY <1>1, <1>3
  <1>5. IsFiniteSet(late)
    BY FS_Subset DEF RowInv, ChatRows
  <1>6. Cardinality(w) <= Cardinality(late) /\ Cardinality(late) \in Nat
    BY <1>4, <1>5, FS_Subset, FS_CardinalityType
  <1> QED BY <1>3, <1>6, InputsAssumption

(* A run is given its own message, or a window that is full of others that *)
(* are no older: in whatever order the messages were delivered, handled,   *)
(* answered and delivered again.                                           *)
THEOREM RunsSeeTheirMessage == Spec => RunSeesItsMessage
  <1>1. Init => RowInv
    <2> SUFFICES ASSUME Init PROVE RowInv
      OBVIOUS
    <2>1. rows = {} /\ \A j \in Jids : queue[j] = <<>>
      BY DEF Init
    <2>2. \A f \in Inputs : ~ Waits(f)
      BY <2>1, InputsAssumption DEF Waits
    <2> QED BY <2>1, <2>2, FS_EmptySet DEF RowInv
  <1>2. IInv /\ RowInv /\ [Next]_vars =>
          [\A f \in Inputs : begun'[f] > begun[f] =>
             \/ \E r \in prompt'[JidOf[f]] : r.id = IdOf[f]
             \/ Cardinality({r \in ChatRows(JidOf[f]) : r.id # IdOf[f] /\ r.time >= TimeOf[f]})
                  >= Limit]_vars
    <2> SUFFICES ASSUME IInv, RowInv, Next, NEW f \in Inputs, begun'[f] > begun[f]
                 PROVE  \/ \E r \in prompt'[JidOf[f]] : r.id = IdOf[f]
                        \/ Cardinality({r \in ChatRows(JidOf[f]) :
                                         r.id # IdOf[f] /\ r.time >= TimeOf[f]}) >= Limit
      OBVIOUS
    <2>0. TypeOK /\ QueueInv /\ begun[f] \in Nat
      BY DEF IInv, TypeOK
    <2>1. begun' # begun
      BY <2>0
    <2>2. PICK j \in Jids : BeginRun(j)
      BY <2>1 DEF Next, ListFiles, HandleFile, UnlinkFile, Restart, Write, WebMessage, EndRun, runs
    <2>3. PICK g : g = Head(queue[j])
      OBVIOUS
    <2>4. /\ queue[j] # <<>> /\ queue' = [queue EXCEPT ![j] = Tail(@)]
          /\ begun' = [begun EXCEPT ![g] = @ + 1]
      BY <2>2, <2>3 DEF BeginRun
    <2>5. g \in Inputs /\ JidOf[g] = j /\ Waits(g)
      BY <2>0, <2>3, <2>4, RunLeaves
    <2>6. f = g
      BY <2>0, <2>4
    <2>7. PICK w \in RecentRows(j) : prompt' = [prompt EXCEPT ![j] = w]
      BY <2>2 DEF BeginRun
    <2>8. prompt'[j] = w
      BY <2>0, <2>7 DEF TypeOK
    <2>9. CASE \E r \in w : r.id = IdOf[f]
      BY <2>5, <2>6, <2>8, <2>9
    <2>10. CASE \A r \in w : r.id # IdOf[f]
      BY <2>5, <2>6, <2>7, <2>10, WindowOrFull
    <2> QED BY <2>9, <2>10
  <1> QED BY <1>1, <1>2, RowsKept, Invariance, PTL DEF Spec, RunSeesItsMessage
=============================================================================
