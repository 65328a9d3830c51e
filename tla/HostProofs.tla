------------------------------ MODULE HostProofs ------------------------------
(***************************************************************************)
(* Proofs about Host, for any tasks, messages, chats and folders, and any  *)
(* number of registrations, faults and restarts: what the queue does to    *)
(* the entries of one JID, and that the host implements TaskScheduler.     *)
(***************************************************************************)
EXTENDS Host, FiniteSetTheorems, SequenceTheorems, TLAPS

-----------------------------------------------------------------------------
(* The invariants.                                                         *)

(* An entry is queued under its own JID, and one of a JID is executed. *)
QueuesAreSerial ==
  /\ pending \in [Jids -> Seq(Entries)]
  /\ \A j \in Jids : \A i \in 1..Len(pending[j]) : JidOf[pending[j][i]] = j
  /\ executing \subseteq Entries
  /\ \A d, e \in executing : JidOf[d] = JidOf[e] => d = e

(* As long as no folder was registered anew, a message has the folder of   *)
(* its own JID, and a task the folder of its row, which is registered.     *)
PlacesAreLawful ==
  /\ place \in [Entries -> Folders \cup {None}]
  /\ jidOf \in [Folders -> Jids \cup {None}]
  /\ moves \in Nat
  /\ moves = 0 =>
       /\ \A m \in Messages : place[m] # None => jidOf[place[m]] = JidOf[m]
       /\ \A t \in Tasks : place[t] # None => /\ place[t] = TaskFolder[t]
                                              /\ jidOf[TaskFolder[t]] # None

-----------------------------------------------------------------------------
(* How often an entry is in a queue.                                       *)

LEMMA CountIsFinite ==
  ASSUME NEW q \in Seq(Entries), NEW e
  PROVE  /\ IsFiniteSet({i \in 1..Len(q) : q[i] = e})
         /\ Count(e, q) \in Nat
  <1>1. Len(q) \in Nat
    OBVIOUS
  <1>2. IsFiniteSet(1..Len(q))
    BY <1>1, FS_Interval
  <1>3. IsFiniteSet({i \in 1..Len(q) : q[i] = e})
    BY <1>2, FS_Subset
  <1> QED BY <1>3, FS_CardinalityType DEF Count

LEMMA CountNothing ==
  ASSUME NEW e
  PROVE  Count(e, <<>>) = 0
  <1>1. {i \in 1..Len(<<>>) : <<>>[i] = e} = {}
    OBVIOUS
  <1> QED BY <1>1, FS_EmptySet DEF Count

LEMMA CountJoined ==
  ASSUME NEW p \in Seq(Entries), NEW q \in Seq(Entries), NEW e
  PROVE  Count(e, p \o q) = Count(e, p) + Count(e, q)
  <1> DEFINE lp == Len(p)
             lq == Len(q)
             P == {i \in 1..lp : p[i] = e}
             Q == {i \in 1..lq : q[i] = e}
             R == {i \in 1..Len(p \o q) : (p \o q)[i] = e}
             S2 == {i \in (lp + 1)..(lp + lq) : q[i - lp] = e}
             f == [i \in Q |-> i + lp]
  <1>1. lp \in Nat /\ lq \in Nat
    OBVIOUS
  <1>2. /\ Len(p \o q) = lp + lq
        /\ \A i \in 1..(lp + lq) : (p \o q)[i] = IF i <= lp THEN p[i] ELSE q[i - lp]
    BY ConcatProperties
  <1>3. R = P \cup S2
    BY <1>1, <1>2
  <1>4. P \cap S2 = {}
    BY <1>1
  <1>5. f \in Bijection(Q, S2)
    <2>1. \A i \in Q : i + lp \in S2
      BY <1>1
    <2>2. \A k \in S2 : k - lp \in Q /\ (k - lp) + lp = k
      BY <1>1
    <2>3. \A i, k \in Q : i + lp = k + lp => i = k
      BY <1>1
    <2> HIDE DEF Q, S2
    <2>4. f \in Injection(Q, S2)
      BY <2>1, <2>3 DEF Injection, IsInjective
    <2>5. f \in Surjection(Q, S2)
      BY <2>1, <2>2 DEF Surjection
    <2> QED BY <2>4, <2>5 DEF Bijection
  <1>6. IsFiniteSet(P) /\ IsFiniteSet(Q) /\ Cardinality(P) \in Nat /\ Cardinality(Q) \in Nat
    BY CountIsFinite DEF Count
  <1>7. IsFiniteSet(S2) /\ Cardinality(S2) = Cardinality(Q)
    <2> HIDE DEF Q, S2, f
    <2>1. ExistsBijection(Q, S2)
      BY <1>5 DEF ExistsBijection
    <2> QED BY <1>6, <2>1, FS_Bijection
  <1>8. Cardinality(P \cup S2) = Cardinality(P) + Cardinality(S2) - Cardinality(P \cap S2)
    <2> HIDE DEF P, S2
    <2> QED BY <1>6, <1>7, FS_Union
  <1>9. Cardinality(R) = Cardinality(P) + Cardinality(Q)
    <2> HIDE DEF P, Q, R, S2
    <2>1. Cardinality(P \cap S2) = 0
      BY <1>4, FS_EmptySet
    <2>2. PICK a \in Nat, b \in Nat : a = Cardinality(P) /\ b = Cardinality(Q)
      BY <1>6
    <2>3. Cardinality(R) = a + b - 0
      BY <1>3, <1>7, <1>8, <2>1, <2>2
    <2> QED BY <2>2, <2>3
  <1> QED BY <1>9 DEF Count

LEMMA CountOne ==
  ASSUME NEW d \in Entries, NEW e
  PROVE  Count(e, <<d>>) = IF e = d THEN 1 ELSE 0
  <1> DEFINE P == {i \in 1..Len(<<d>>) : <<d>>[i] = e}
  <1>1. CASE e = d
    <2>1. P = {1}
      BY <1>1
    <2>2. Cardinality({1}) = 1
      BY FS_Singleton
    <2> QED BY <1>1, <2>1, <2>2 DEF Count
  <1>2. CASE e # d
    <2>1. P = {}
      BY <1>2
    <2> QED BY <1>2, <2>1, FS_EmptySet DEF Count
  <1> QED BY <1>1, <1>2

(* An entry that begins leaves the queue once. *)
LEMMA CountBegun ==
  ASSUME NEW q \in Seq(Entries), q # <<>>, NEW e
  PROVE  /\ Head(q) \in Entries /\ Tail(q) \in Seq(Entries)
         /\ Count(e, q) = (IF e = Head(q) THEN 1 ELSE 0) + Count(e, Tail(q))
  <1>1. /\ Head(q) \in Entries /\ Tail(q) \in Seq(Entries)
        /\ q = <<Head(q)>> \o Tail(q)
    <2>1. /\ Head(q) \in Entries /\ Tail(q) \in Seq(Entries)
          /\ Len(Tail(q)) = Len(q) - 1 /\ Len(q) \in Nat \ {0}
          /\ \A i \in 1..Len(Tail(q)) : Tail(q)[i] = q[i + 1]
      BY HeadTailProperties, EmptySeq
    <2>2. PICK t \in Seq(Entries) : t = Tail(q)
      BY <2>1
    <2>3. PICK h \in Entries : h = Head(q) /\ h = q[1]
      BY <2>1
    <2>4. /\ <<h>> \in Seq(Entries) /\ Len(<<h>>) = 1 /\ <<h>>[1] = h
      OBVIOUS
    <2>5. /\ <<h>> \o t \in Seq(Entries) /\ Len(<<h>> \o t) = 1 + Len(t)
          /\ \A i \in 1..(1 + Len(t)) : (<<h>> \o t)[i] = IF i <= 1 THEN <<h>>[i] ELSE t[i - 1]
      BY <2>4, ConcatProperties
    <2>6. Len(<<h>> \o t) = Len(q)
      BY <2>1, <2>2, <2>5
    <2>7. ASSUME NEW i \in 1..Len(q) PROVE (<<h>> \o t)[i] = q[i]
      BY <2>1, <2>2, <2>3, <2>4, <2>5, <2>7
    <2>8. <<h>> \o t = q
      BY <2>5, <2>6, <2>7, SeqEqual
    <2> QED BY <2>1, <2>2, <2>3, <2>8
  <1>2. PICK h \in Entries : h = Head(q)
    BY <1>1
  <1>3. PICK t \in Seq(Entries) : t = Tail(q)
    BY <1>1
  <1>4. Count(e, <<h>> \o t) = Count(e, <<h>>) + Count(e, t)
    <2>0. <<h>> \in Seq(Entries)
      OBVIOUS
    <2>1. PICK o \in Seq(Entries) : o = <<h>>
      BY <2>0
    <2>2. Count(e, o \o t) = Count(e, o) + Count(e, t)
      BY CountJoined
    <2> QED BY <2>1, <2>2
  <1>5. Count(e, <<h>>) = IF e = h THEN 1 ELSE 0
    BY CountOne
  <1>6. q = <<h>> \o t
    BY <1>1, <1>2, <1>3
  <1>7. Count(e, q) = (IF e = h THEN 1 ELSE 0) + Count(e, t)
    BY <1>4, <1>5, <1>6
  <1> QED BY <1>1, <1>2, <1>3, <1>7

(* An order of some entries has each of them once, and no other. *)
LEMMA CountOrdered ==
  ASSUME NEW T \in SUBSET Entries, IsFiniteSet(T), NEW s \in SetToSeqs(T), NEW e
  PROVE  /\ s \in Seq(T)
         /\ Count(e, s) = IF e \in T THEN 1 ELSE 0
  <1> DEFINE n == Cardinality(T)
  <1>1. n \in Nat
    BY FS_CardinalityType
  <1>2. /\ s \in [1..n -> T]
        /\ \A i, k \in 1..n : i # k => s[i] # s[k]
    BY DEF SetToSeqs
  <1>3. s \in Seq(T) /\ Len(s) = n
    BY <1>1, <1>2
  <1>4. CASE e \in T
    <2>1. \E i \in 1..n : s[i] = e
      <3> SUFFICES ASSUME \A i \in 1..n : s[i] # e PROVE FALSE
        OBVIOUS
      <3>1. s \in [1..n -> T \ {e}]
        BY <1>2
      <3>2. IsFiniteSet(1..n) /\ Cardinality(1..n) = n
        BY <1>1, FS_Interval
      <3>3. IsFiniteSet(T \ {e}) /\ Cardinality(T \ {e}) = n - 1
        BY <1>4, FS_RemoveElement
      <3>4. Cardinality(T \ {e}) < Cardinality(1..n)
        BY <1>1, <3>2, <3>3
      <3>5. \E i, k \in 1..n : i # k /\ s[i] = s[k]
        <4> DEFINE D == 1..n
                   U == T \ {e}
        <4>1. IsFiniteSet(D) /\ IsFiniteSet(U) /\ Cardinality(U) < Cardinality(D) /\ s \in [D -> U]
          BY <3>1, <3>2, <3>3, <3>4
        <4>2. \E i, k \in D : i # k /\ s[i] = s[k]
          <5> HIDE DEF D, U
          <5> QED BY ONLY <4>1, FS_PigeonHole, Zenon
        <4> QED BY <4>2
      <3> QED BY <1>2, <3>5
    <2>2. PICK i \in 1..n : s[i] = e
      BY <2>1
    <2>3. {k \in 1..Len(s) : s[k] = e} = {i}
      BY <1>2, <1>3, <2>2
    <2> QED BY <1>3, <1>4, <2>3, FS_Singleton DEF Count
  <1>5. CASE e \notin T
    <2>1. {k \in 1..Len(s) : s[k] = e} = {}
      BY <1>2, <1>3, <1>5
    <2> QED BY <1>3, <1>5, <2>1, FS_EmptySet DEF Count
  <1> QED BY <1>4, <1>5

-----------------------------------------------------------------------------
(* The actions that touch the queues.                                      *)

(* A poll adds the newly due tasks of a JID to its queue, each once. *)
LEMMA PollJoins ==
  ASSUME QueuesAreSerial, Poll
  PROVE  /\ pending' \in [Jids -> Seq(Entries)]
         /\ \A j \in Jids : \A i \in 1..Len(pending'[j]) : JidOf[pending'[j][i]] = j
         /\ \A j \in Jids : \A e :
              Count(e, pending'[j]) =
                Count(e, pending[j]) + (IF e \in ToEnqueue /\ JidOf[e] = j THEN 1 ELSE 0)
  <1>1. PICK order \in [Jids -> UNION {Orders(j) : j \in Jids}] :
          /\ \A j \in Jids : order[j] \in Orders(j)
          /\ pending' = [j \in Jids |-> Join(pending[j], order[j])]
    BY DEF Poll
  <1>2. ASSUME NEW j \in Jids
        PROVE  /\ pending'[j] \in Seq(Entries)
               /\ \A i \in 1..Len(pending'[j]) : JidOf[pending'[j][i]] = j
               /\ \A e : Count(e, pending'[j]) =
                    Count(e, pending[j]) + (IF e \in ToEnqueue /\ JidOf[e] = j THEN 1 ELSE 0)
    <2>1. PICK T : T = {t \in ToEnqueue : JidOf[t] = j}
      OBVIOUS
    <2>2. T \in SUBSET Entries /\ T \subseteq Tasks
      BY <2>1 DEF ToEnqueue, S!NewlyDue, Entries
    <2>3. IsFiniteSet(T)
      BY <2>2, FS_Subset, HostAssumption
    <2>4. PICK s : s = order[j]
      OBVIOUS
    <2>5. s \in SetToSeqs(T)
      BY <1>1, <2>1, <2>4 DEF Orders
    <2>6. s \in Seq(T) /\ \A e : Count(e, s) = IF e \in T THEN 1 ELSE 0
      BY <2>2, <2>3, <2>5, CountOrdered
    <2>7. s \in Seq(Entries)
      BY <2>2, <2>6, SeqMonotonic
    <2>8. PICK q \in Seq(Entries) : q = pending[j]
      BY DEF QueuesAreSerial
    <2>9. pending'[j] = q \o s
      BY <1>1, <2>4, <2>8 DEF Join
    <2>10. /\ q \o s \in Seq(Entries) /\ Len(q \o s) = Len(q) + Len(s)
           /\ Len(q) \in Nat /\ Len(s) \in Nat
           /\ \A i \in 1..(Len(q) + Len(s)) : (q \o s)[i] = IF i <= Len(q) THEN q[i] ELSE s[i - Len(q)]
      BY <2>7, ConcatProperties
    <2>11. ASSUME NEW i \in 1..Len(q \o s) PROVE JidOf[(q \o s)[i]] = j
      <3>1. CASE i <= Len(q)
        BY <2>8, <2>10, <3>1 DEF QueuesAreSerial
      <3>2. CASE i > Len(q)
        <4>1. i - Len(q) \in 1..Len(s)
          BY <2>10, <3>2
        <4>2. s[i - Len(q)] \in T
          BY <2>6, <4>1, ElementOfSeq
        <4> QED BY <2>1, <2>10, <3>2, <4>2
      <3> QED BY <2>10, <3>1, <3>2
    <2>12. ASSUME NEW e
           PROVE  Count(e, q \o s) =
                    Count(e, q) + (IF e \in ToEnqueue /\ JidOf[e] = j THEN 1 ELSE 0)
      <3>1. Count(e, q \o s) = Count(e, q) + Count(e, s)
        BY <2>7, CountJoined
      <3>2. Count(e, s) = IF e \in ToEnqueue /\ JidOf[e] = j THEN 1 ELSE 0
        BY <2>1, <2>6
      <3> QED BY <3>1, <3>2
    <2> QED BY <2>8, <2>9, <2>10, <2>11, <2>12
  <1>3. pending' = [j \in Jids |-> pending'[j]]
    BY <1>1
  <1> QED BY <1>2, <1>3

(* The entry that begins is the first of its queue and no other of its JID *)
(* is executed.                                                            *)
LEMMA BeginTakes ==
  ASSUME QueuesAreSerial, NEW j \in Jids, Begin(j)
  PROVE  \E h \in Entries :
           /\ JidOf[h] = j /\ h = Head(pending[j])
           /\ \A d \in executing : JidOf[d] # j
           /\ executing' = executing \cup {h}
           /\ Tail(pending[j]) \in Seq(Entries)
           /\ \A i \in 1..Len(Tail(pending[j])) : JidOf[Tail(pending[j])[i]] = j
           /\ pending' = [pending EXCEPT ![j] = Tail(pending[j])]
           /\ \A e : Count(e, pending[j]) =
                (IF e = h THEN 1 ELSE 0) + Count(e, Tail(pending[j]))
  <1>1. PICK q \in Seq(Entries) : q = pending[j]
    BY DEF QueuesAreSerial
  <1>2. q # <<>>
    BY <1>1 DEF Begin
  <1>3. /\ Head(q) \in Entries /\ Tail(q) \in Seq(Entries)
        /\ \A e : Count(e, q) = (IF e = Head(q) THEN 1 ELSE 0) + Count(e, Tail(q))
    BY <1>2, CountBegun
  <1>4. /\ Len(q) \in Nat \ {0} /\ Head(q) = q[1] /\ Len(Tail(q)) = Len(q) - 1
        /\ \A i \in 1..Len(Tail(q)) : Tail(q)[i] = q[i + 1]
    BY <1>2, EmptySeq, HeadTailProperties
  <1>5. JidOf[Head(q)] = j
    BY <1>1, <1>4 DEF QueuesAreSerial
  <1>6. ASSUME NEW i \in 1..Len(Tail(q)) PROVE JidOf[Tail(q)[i]] = j
    BY <1>1, <1>4 DEF QueuesAreSerial
  <1>7. /\ \A d \in executing : JidOf[d] # j
        /\ executing' = executing \cup {Head(q)}
        /\ pending' = [pending EXCEPT ![j] = Tail(q)]
    BY <1>1 DEF Begin, Idle
  <1> QED BY <1>1, <1>3, <1>5, <1>6, <1>7

(* A message that comes joins one queue, or none. *)
LEMMA ArriveJoins ==
  ASSUME QueuesAreSerial, NEW m \in Messages, Arrive(m)
  PROVE  /\ pending' \in [Jids -> Seq(Entries)]
         /\ \A j \in Jids : \A i \in 1..Len(pending'[j]) : JidOf[pending'[j][i]] = j
         /\ \A j \in Jids : \A t \in Tasks : Count(t, pending'[j]) = Count(t, pending[j])
  <1>1. CASE pending' = pending
    BY <1>1 DEF QueuesAreSerial
  <1>2. CASE pending' # pending
    <2>1. PICK k \in Jids : k = JidOf[m]
      BY HostAssumption DEF Entries
    <2>2. PICK q \in Seq(Entries) : q = pending[k]
      BY DEF QueuesAreSerial
    <2>3. pending' = [pending EXCEPT ![k] = q \o <<m>>]
      BY <1>2, <2>1, <2>2 DEF Arrive, Join
    <2>4. PICK o \in Seq(Entries) : o = <<m>> /\ Len(o) = 1 /\ o[1] = m
      <3>1. <<m>> \in Seq(Entries) /\ Len(<<m>>) = 1 /\ <<m>>[1] = m
        BY DEF Entries
      <3> QED BY <3>1
    <2>5. /\ q \o o \in Seq(Entries) /\ Len(q \o o) = Len(q) + 1 /\ Len(q) \in Nat
          /\ \A i \in 1..(Len(q) + 1) : (q \o o)[i] = IF i <= Len(q) THEN q[i] ELSE o[i - Len(q)]
      BY <2>4, ConcatProperties
    <2>6. ASSUME NEW i \in 1..Len(q \o o) PROVE JidOf[(q \o o)[i]] = k
      BY <2>1, <2>2, <2>4, <2>5 DEF QueuesAreSerial
    <2>7. ASSUME NEW t \in Tasks PROVE Count(t, q \o o) = Count(t, q)
      <3>1. Count(t, q \o o) = Count(t, q) + Count(t, o)
        BY CountJoined
      <3>2. Count(t, o) = 0
        <4>1. m \in Entries /\ t # m
          BY HostAssumption DEF Entries
        <4> QED BY <2>4, <4>1, CountOne
      <3>3. Count(t, q) \in Nat
        BY CountIsFinite
      <3> QED BY <3>1, <3>2, <3>3
    <2>8. /\ pending'[k] = q \o o /\ \A j \in Jids \ {k} : pending'[j] = pending[j]
          /\ pending' \in [Jids -> Seq(Entries)]
      BY <2>3, <2>4, <2>5 DEF QueuesAreSerial
    <2>9. \A j \in Jids : \A i \in 1..Len(pending'[j]) : JidOf[pending'[j][i]] = j
      BY <2>6, <2>8 DEF QueuesAreSerial
    <2>10. \A j \in Jids : \A t \in Tasks : Count(t, pending'[j]) = Count(t, pending[j])
      BY <2>2, <2>7, <2>8
    <2> QED BY <2>8, <2>9, <2>10
  <1> QED BY <1>1, <1>2

LEMMA SerialKept == QueuesAreSerial /\ [Next]_vars => QueuesAreSerial'
  <1> SUFFICES ASSUME QueuesAreSerial, [Next]_vars PROVE QueuesAreSerial'
    OBVIOUS
  <1>1. CASE Schedule \/ UNCHANGED vars \/ \E f \in Folders, j \in Jids : Register(f, j)
    BY <1>1 DEF Schedule, vars, Register, QueuesAreSerial
  <1>2. CASE Poll
    BY <1>2, PollJoins DEF Poll, QueuesAreSerial
  <1>3. CASE Restart
    BY <1>3 DEF Restart, QueuesAreSerial
  <1>4. ASSUME NEW m \in Messages, Arrive(m) PROVE QueuesAreSerial'
    BY <1>4, ArriveJoins DEF Arrive, QueuesAreSerial
  <1>5. ASSUME NEW j \in Jids, Begin(j) PROVE QueuesAreSerial'
    <2>1. PICK h \in Entries :
            /\ JidOf[h] = j
            /\ \A d \in executing : JidOf[d] # j
            /\ executing' = executing \cup {h}
            /\ Tail(pending[j]) \in Seq(Entries)
            /\ \A i \in 1..Len(Tail(pending[j])) : JidOf[Tail(pending[j])[i]] = j
            /\ pending' = [pending EXCEPT ![j] = Tail(pending[j])]
      BY <1>5, BeginTakes
    <2>2. /\ pending' \in [Jids -> Seq(Entries)] /\ pending'[j] = Tail(pending[j])
          /\ \A k \in Jids \ {j} : pending'[k] = pending[k]
      BY <2>1 DEF QueuesAreSerial
    <2>3. \A k \in Jids : \A i \in 1..Len(pending'[k]) : JidOf[pending'[k][i]] = k
      BY <2>1, <2>2 DEF QueuesAreSerial
    <2>4. /\ executing' \subseteq Entries
          /\ \A d, e \in executing' : JidOf[d] = JidOf[e] => d = e
      BY <2>1 DEF QueuesAreSerial
    <2> QED BY <2>2, <2>3, <2>4 DEF QueuesAreSerial
  <1>6. ASSUME NEW j \in Jids, End(j) PROVE QueuesAreSerial'
    BY <1>6 DEF End, QueuesAreSerial
  <1> QED BY <1>1, <1>2, <1>3, <1>4, <1>5, <1>6 DEF Next

-----------------------------------------------------------------------------
(* The folders.                                                            *)

LEMMA PlacesKept == QueuesAreSerial /\ PlacesAreLawful /\ [Next]_vars => PlacesAreLawful'
  <1> SUFFICES ASSUME QueuesAreSerial, PlacesAreLawful, [Next]_vars PROVE PlacesAreLawful'
    OBVIOUS
  <1>1. CASE Schedule \/ Poll \/ UNCHANGED vars
    BY <1>1 DEF Schedule, Poll, vars, PlacesAreLawful
  <1>2. CASE Restart
    BY <1>2 DEF Restart, PlacesAreLawful, Entries
  <1>3. ASSUME NEW f \in Folders, NEW j \in Jids, Register(f, j) PROVE PlacesAreLawful'
    BY <1>3 DEF Register, PlacesAreLawful
  <1>4. ASSUME NEW m \in Messages, Arrive(m) PROVE PlacesAreLawful'
    <2>1. CASE UNCHANGED place
      BY <1>4, <2>1 DEF Arrive, PlacesAreLawful
    <2>2. CASE ~ UNCHANGED place
      <3>1. PICK f \in Folders : jidOf[f] = JidOf[m] /\ place' = [place EXCEPT ![m] = f]
        BY <1>4, <2>2 DEF Arrive
      <3>2. UNCHANGED <<jidOf, moves>>
        BY <1>4 DEF Arrive
      <3>3. m \in Entries /\ m \notin Tasks
        BY HostAssumption DEF Entries
      <3>4. place' \in [Entries -> Folders \cup {None}]
        BY <3>1, <3>3 DEF PlacesAreLawful
      <3>5. place'[m] = f /\ \A e \in Entries \ {m} : place'[e] = place[e]
        BY <3>1, <3>3 DEF PlacesAreLawful
      <3> QED BY <3>1, <3>2, <3>3, <3>4, <3>5 DEF PlacesAreLawful, Entries
    <2> QED BY <2>1, <2>2
  <1>5. ASSUME NEW j \in Jids, Begin(j) PROVE PlacesAreLawful'
    <2>1. PICK h \in Entries : h = Head(pending[j])
      BY <1>5, BeginTakes
    <2>2. place' = [place EXCEPT ![h] = Workplace(h)] /\ UNCHANGED <<jidOf, moves>>
      BY <1>5, <2>1 DEF Begin
    <2>3. place'[h] = Workplace(h) /\ \A e \in Entries \ {h} : place'[e] = place[e]
      BY <2>2 DEF PlacesAreLawful
    <2>4. CASE h \in Messages
      <3>1. Workplace(h) = place[h]
        BY <2>4 DEF Workplace
      <3>2. place' = place
        BY <2>2, <3>1 DEF PlacesAreLawful
      <3> QED BY <2>2, <3>2 DEF PlacesAreLawful
    <2>5. CASE h \in Tasks
      <3>1. h \notin Messages /\ TaskFolder[h] \in Folders
        BY <2>5, HostAssumption
      <3>2. /\ Workplace(h) \in Folders \cup {None}
            /\ Workplace(h) # None => /\ Workplace(h) = TaskFolder[h]
                                      /\ jidOf[TaskFolder[h]] # None
        BY <3>1 DEF Workplace
      <3>3. place' \in [Entries -> Folders \cup {None}]
        BY <2>2, <3>2 DEF PlacesAreLawful
      <3> QED BY <2>2, <2>3, <2>5, <3>1, <3>2, <3>3 DEF PlacesAreLawful, Entries
    <2> QED BY <2>4, <2>5 DEF Entries
  <1>6. ASSUME NEW j \in Jids, End(j) PROVE PlacesAreLawful'
    <2>1. PICK e \in executing : place' = [place EXCEPT ![e] = None] /\ UNCHANGED <<jidOf, moves>>
      BY <1>6 DEF End
    <2>2. /\ place' \in [Entries -> Folders \cup {None}]
          /\ \A d \in Entries : place'[d] \in {place[d], None}
      BY <2>1 DEF PlacesAreLawful
    <2> QED BY <2>1, <2>2 DEF PlacesAreLawful, Entries
  <1> QED BY <1>1, <1>2, <1>3, <1>4, <1>5, <1>6 DEF Next

LEMMA InitSerial == Init => QueuesAreSerial /\ PlacesAreLawful
  <1> SUFFICES ASSUME Init PROVE QueuesAreSerial /\ PlacesAreLawful
    OBVIOUS
  <1>1. QueuesAreSerial
    BY DEF Init, QueuesAreSerial
  <1>2. jidOf \in [Folders -> Jids \cup {None}]
    BY HostAssumption DEF Init
  <1>3. PlacesAreLawful
    BY <1>2 DEF Init, PlacesAreLawful, Entries
  <1> QED BY <1>1, <1>3

LEMMA AlwaysSerial == Spec => [](QueuesAreSerial /\ PlacesAreLawful)
  <1>1. QueuesAreSerial /\ PlacesAreLawful /\ [Next]_vars => (QueuesAreSerial /\ PlacesAreLawful)'
    BY SerialKept, PlacesKept
  <1> QED BY <1>1, InitSerial, PTL DEF Spec

(* As long as no folder has been given another JID, and if every task row  *)
(* names the JID of its folder, no two runs work in one folder at a time,  *)
(* whatever messages and tasks come and however long they run.             *)
THEOREM FoldersAreNotShared == Spec => []OneRunPerFolder
  <1>1. QueuesAreSerial /\ PlacesAreLawful => OneRunPerFolder
    <2> SUFFICES ASSUME QueuesAreSerial, PlacesAreLawful, moves = 0, Aligned,
                        NEW d \in executing, NEW e \in executing,
                        place[d] = place[e], place[d] # None
                 PROVE  d = e
      BY DEF OneRunPerFolder
    <2>1. ASSUME NEW x \in executing, place[x] # None PROVE jidOf[place[x]] = JidOf[x]
      <3>1. CASE x \in Messages
        BY <2>1, <3>1 DEF PlacesAreLawful
      <3>2. CASE x \in Tasks
        BY <2>1, <3>2 DEF PlacesAreLawful, Aligned
      <3> QED BY <3>1, <3>2 DEF QueuesAreSerial, Entries
    <2>2. JidOf[d] = JidOf[e]
      BY <2>1
    <2> QED BY <2>2 DEF QueuesAreSerial
  <1> QED BY <1>1, AlwaysSerial, PTL

-----------------------------------------------------------------------------
(* The refinement of TaskScheduler.                                        *)

LEMMA NothingScheduled ==
  ASSUME UNCHANGED <<books, restarts>>, UNCHANGED Waiting, UNCHANGED Running
  PROVE  UNCHANGED S!vars
  BY DEF S!vars, S!row, S!jobs, books

(* What waits is what the queues hold. *)
LEMMA WaitingIs ==
  ASSUME NEW t \in Tasks
  PROVE  /\ Waiting[t] = Count(t, pending[JidOf[t]])
         /\ JidOf[t] \in Jids
  BY HostAssumption DEF Waiting, Entries

LEMMA PollIsScheduled ==
  ASSUME QueuesAreSerial, Poll
  PROVE  S!Poll
  <1>1. \A t \in Tasks : Count(t, pending'[JidOf[t]]) =
          Count(t, pending[JidOf[t]]) + (IF t \in ToEnqueue THEN 1 ELSE 0)
    <2> SUFFICES ASSUME NEW t \in Tasks
                 PROVE  Count(t, pending'[JidOf[t]]) =
                          Count(t, pending[JidOf[t]]) + (IF t \in ToEnqueue THEN 1 ELSE 0)
      OBVIOUS
    <2>1. PICK j \in Jids : j = JidOf[t]
      BY WaitingIs
    <2> QED BY <2>1, PollJoins
  <1>2. \A t \in Tasks : Count(t, pending[JidOf[t]]) \in Nat
    BY CountIsFinite, WaitingIs DEF QueuesAreSerial
  <1>3. Waiting' = [t \in Tasks |-> Count(t, pending'[JidOf[t]])]
    BY DEF Waiting, Count
  <1>4. Waiting' = [t \in Tasks |-> IF t \in ToEnqueue THEN Waiting[t] + 1 ELSE Waiting[t]]
    BY <1>1, <1>2, <1>3, WaitingIs
  <1>5. Running' = Running
    BY DEF Poll, Running
  <1> QED BY <1>4, <1>5 DEF Poll, S!Poll, S!row, ToEnqueue

LEMMA BeginIsScheduled ==
  ASSUME QueuesAreSerial, NEW j \in Jids, Begin(j)
  PROVE  (\E t \in Tasks : S!StartJob(t)) \/ UNCHANGED S!vars
  <1>1. PICK h \in Entries :
          /\ JidOf[h] = j
          /\ \A d \in executing : JidOf[d] # j
          /\ executing' = executing \cup {h}
          /\ Tail(pending[j]) \in Seq(Entries)
          /\ pending' = [pending EXCEPT ![j] = Tail(pending[j])]
          /\ \A e : Count(e, pending[j]) = (IF e = h THEN 1 ELSE 0) + Count(e, Tail(pending[j]))
    BY BeginTakes
  <1>2. UNCHANGED <<books, restarts>>
    BY DEF Begin
  <1>3. pending'[j] = Tail(pending[j]) /\ \A k \in Jids \ {j} : pending'[k] = pending[k]
    BY <1>1 DEF QueuesAreSerial
  <1>4. ASSUME NEW t \in Tasks
        PROVE  /\ Count(t, pending[JidOf[t]]) \in Nat
               /\ Count(t, pending'[JidOf[t]]) =
                    IF t = h THEN Count(t, pending[JidOf[t]]) - 1 ELSE Count(t, pending[JidOf[t]])
               /\ t = h => Count(t, pending[JidOf[t]]) > 0
    <2>1. Count(t, Tail(pending[j])) \in Nat
      BY <1>1, CountIsFinite
    <2>2. Count(t, pending[JidOf[t]]) \in Nat
      BY CountIsFinite, WaitingIs DEF QueuesAreSerial
    <2>3. CASE JidOf[t] = j
      BY <1>1, <1>3, <2>1, <2>2, <2>3
    <2>4. CASE JidOf[t] # j
      BY <1>1, <1>3, <2>2, <2>4, WaitingIs
    <2> QED BY <2>3, <2>4
  <1>5. Waiting' = [t \in Tasks |-> Count(t, pending'[JidOf[t]])]
    BY DEF Waiting, Count
  <1>6. Running' = [t \in Tasks |-> IF t \in executing' THEN 1 ELSE 0]
    BY DEF Running
  <1>7. CASE h \in Tasks
    <2>1. Waiting' = [Waiting EXCEPT ![h] = @ - 1] /\ Waiting[h] > 0
      BY <1>4, <1>5, <1>7 DEF Waiting
    <2>2. Running' = [Running EXCEPT ![h] = @ + 1]
      <3>1. h \notin executing
        BY <1>1
      <3>2. Running' = [t \in Tasks |-> IF t = h THEN 1 ELSE IF t \in executing THEN 1 ELSE 0]
        BY <1>1, <1>6
      <3>3. [Running EXCEPT ![h] = @ + 1]
              = [t \in Tasks |-> IF t = h THEN Running[h] + 1 ELSE Running[t]]
        BY <1>7 DEF Running
      <3>4. Running[h] + 1 = 1
        BY <1>7, <3>1 DEF Running
      <3>5. \A t \in Tasks : Running[t] = IF t \in executing THEN 1 ELSE 0
        BY DEF Running
      <3> QED BY <3>2, <3>3, <3>4, <3>5
    <2>3. \A u \in Tasks : Running[u] > 0 => JidOf[u] # JidOf[h]
      BY <1>1 DEF Running
    <2>4. S!StartJob(h)
      BY <1>2, <2>1, <2>2, <2>3 DEF S!StartJob, S!row, books
    <2> QED BY <1>7, <2>4
  <1>8. CASE h \notin Tasks
    <2>1. Waiting' = Waiting
      BY <1>4, <1>5, <1>8 DEF Waiting
    <2>2. Running' = Running
      BY <1>1, <1>6, <1>8 DEF Running
    <2> QED BY <1>2, <2>1, <2>2, NothingScheduled
  <1> QED BY <1>7, <1>8

LEMMA EndIsScheduled ==
  ASSUME QueuesAreSerial, NEW j \in Jids, End(j)
  PROVE  (\E t \in Tasks : S!FinishJob(t) \/ S!BookingFails(t)) \/ UNCHANGED S!vars
  <1>1. PICK e \in executing :
          /\ executing' = executing \ {e}
          /\ UNCHANGED pending
          /\ IF e \in Tasks THEN Book(e) ELSE UNCHANGED <<books, restarts>>
    BY DEF End
  <1>2. CASE e \in Tasks
    BY <1>1, <1>2 DEF Book
  <1>3. CASE e \notin Tasks
    <2>1. Running' = Running
      BY <1>1, <1>3 DEF Running
    <2>2. Waiting' = Waiting
      BY <1>1 DEF Waiting
    <2> QED BY <1>1, <1>3, <2>1, <2>2, NothingScheduled
  <1> QED BY <1>2, <1>3

LEMMA RestartIsScheduled ==
  ASSUME Restart
  PROVE  S!Restart
  <1>1. Running' = [t \in Tasks |-> 0]
    BY DEF Restart, Running
  <1>2. Waiting' = [t \in Tasks |-> 0]
    <2>1. Waiting' = [t \in Tasks |-> Count(t, pending'[JidOf[t]])]
      BY DEF Waiting, Count
    <2>2. \A t \in Tasks : pending'[JidOf[t]] = <<>>
      BY WaitingIs DEF Restart
    <2> QED BY <2>1, <2>2, CountNothing
  <1> QED BY <1>1, <1>2 DEF Restart, S!Restart, S!row

LEMMA StepsAreScheduled == QueuesAreSerial /\ [Next]_vars => [S!Next]_(S!vars)
  <1> SUFFICES ASSUME QueuesAreSerial, [Next]_vars PROVE S!Next \/ UNCHANGED S!vars
    OBVIOUS
  <1>1. CASE Schedule
    BY <1>1 DEF Schedule, S!Next
  <1>2. CASE Poll
    BY <1>2, PollIsScheduled DEF S!Next
  <1>3. CASE Restart
    BY <1>3, RestartIsScheduled DEF S!Next
  <1>4. CASE UNCHANGED vars \/ \E f \in Folders, j \in Jids : Register(f, j)
    <2>1. UNCHANGED <<books, restarts, pending, executing>>
      BY <1>4 DEF vars, Register
    <2>2. UNCHANGED Waiting /\ UNCHANGED Running
      BY <2>1 DEF Waiting, Running
    <2> QED BY <2>1, <2>2, NothingScheduled
  <1>5. ASSUME NEW m \in Messages, Arrive(m) PROVE UNCHANGED S!vars
    <2>1. UNCHANGED <<books, restarts, executing>>
      BY <1>5 DEF Arrive
    <2>2. \A j \in Jids : \A t \in Tasks : Count(t, pending'[j]) = Count(t, pending[j])
      BY <1>5, ArriveJoins
    <2>3. Waiting' = [t \in Tasks |-> Count(t, pending'[JidOf[t]])]
      BY DEF Waiting, Count
    <2>4. Waiting' = Waiting
      BY <2>2, <2>3, WaitingIs DEF Waiting
    <2>5. Running' = Running
      BY <2>1 DEF Running
    <2> QED BY <2>1, <2>4, <2>5, NothingScheduled
  <1>6. ASSUME NEW j \in Jids, Begin(j) \/ End(j) PROVE S!Next \/ UNCHANGED S!vars
    BY <1>6, BeginIsScheduled, EndIsScheduled DEF S!Next
  <1> QED BY <1>1, <1>2, <1>3, <1>4, <1>5, <1>6 DEF Next

(* The host implements TaskScheduler: messages in the same queues, folders *)
(* that change hands and runs without end let the scheduler do nothing     *)
(* that it would not do alone.                                             *)
THEOREM HostImplementsScheduler == Spec => ImplementsScheduler
  <1>1. Init => S!Init
    BY DEF Init
  <1> QED BY <1>1, StepsAreScheduled, AlwaysSerial, PTL DEF Spec, ImplementsScheduler, S!Spec
=============================================================================
