-------------------------- MODULE GroupQueueProofs --------------------------
(***************************************************************************)
(* Proofs about GroupQueue, for any groups, any entries and any runs that  *)
(* recover_pending_messages starts beside the queues.                      *)
(***************************************************************************)
EXTENDS GroupQueue, SequenceTheorems, TLAPS

(* The entries that go through a queue. *)
Queued == Entries \ Recovered

(* A queue holds entries of its own group that have not begun, each once. *)
QueueHoldsWaiting ==
  /\ \A g \in Groups : \A i \in 1..Len(queue[g]) :
       /\ GroupOf[queue[g][i]] = g
       /\ queue[g][i] \in Queued
       /\ stage[queue[g][i]] = "queued"
  /\ \A g \in Groups : \A i, j \in 1..Len(queue[g]) : queue[g][i] = queue[g][j] => i = j

(* An active _drain awaits an entry in progress, of its own group. *)
DrainAwaitsOwn ==
  \A d \in Entries : drain[d] = "active" =>
    /\ current[d] \in Queued
    /\ GroupOf[current[d]] = GroupOf[d]
    /\ stage[current[d]] \in InProgress

(* No queued entry is in progress unless some active _drain awaits it. *)
ProgressIsAwaited ==
  \A e \in Queued : stage[e] \in InProgress =>
    \E d \in Entries : drain[d] = "active" /\ current[d] = e

(* A _drain task exists only for an entry that has been enqueued. *)
DrainsAreCreated ==
  \A e \in Entries : stage[e] = "new" => drain[e] = "none"

(* An agent lives only while the coroutine that spawned it does. *)
AgentsHaveEntries ==
  \A e \in alive : stage[e] \in {"spawning", "attached"}

(* current_proc is right in every group that runs nothing beside its queue. *)
ProcFollowsEntry ==
  \A e \in Entries :
    Undisturbed(GroupOf[e]) => (stage[e] = "attached" <=> proc[GroupOf[e]] = e)

IInv ==
  /\ TypeOK
  /\ QueueHoldsWaiting
  /\ OneDrainPerGroup
  /\ DrainAwaitsOwn
  /\ ProgressIsAwaited
  /\ DrainsAreCreated
  /\ NoLostWakeup
  /\ AgentsHaveEntries
  /\ ProcFollowsEntry

-----------------------------------------------------------------------------
(* What taking the head of a queue leaves. *)
LEMMA TakeHead ==
  ASSUME NEW S, NEW q \in Seq(S), q # <<>>
  PROVE  /\ Head(q) \in S
         /\ Tail(q) \in Seq(S)
         /\ Len(q) \in Nat
         /\ Len(q) > 0
         /\ Head(q) = q[1]
         /\ Len(Tail(q)) = Len(q) - 1
         /\ \A i \in 1..Len(Tail(q)) : i + 1 \in 1..Len(q) /\ Tail(q)[i] = q[i + 1]
  BY HeadTailProperties, EmptySeq, LenProperties, ElementOfSeq

(* What putting an entry into a queue adds. *)
LEMMA PutLast ==
  ASSUME NEW S, NEW q \in Seq(S), NEW x \in S
  PROVE  /\ Append(q, x) \in Seq(S)
         /\ Append(q, x) # <<>>
         /\ Len(q) \in Nat
         /\ Len(Append(q, x)) = Len(q) + 1
         /\ \A i \in 1..Len(q) : Append(q, x)[i] = q[i]
         /\ Append(q, x)[Len(q) + 1] = x
  BY AppendProperties, LenProperties

(* The initial state satisfies the inductive invariant. *)
LEMMA InitInvariant == Init => IInv
  <1> SUFFICES ASSUME Init PROVE IInv
    OBVIOUS
  <1> USE DEF Init
  <1>1. TypeOK
    BY EntriesAssumption, EmptySeq DEF TypeOK, Stages
  <1>2. QueueHoldsWaiting
    BY EmptySeq DEF QueueHoldsWaiting
  <1>3. OneDrainPerGroup /\ NoLostWakeup
    BY DEF OneDrainPerGroup, NoLostWakeup, Active
  <1>4. DrainAwaitsOwn /\ ProgressIsAwaited /\ DrainsAreCreated
    BY DEF DrainAwaitsOwn, ProgressIsAwaited, DrainsAreCreated, InProgress, Queued
  <1>5. AgentsHaveEntries /\ ProcFollowsEntry
    BY EntriesAssumption DEF AgentsHaveEntries, ProcFollowsEntry
  <1> QED BY <1>1, <1>2, <1>3, <1>4, <1>5 DEF IInv

(* enqueue_task preserves the inductive invariant. *)
LEMMA EnqueueInvariant ==
  ASSUME IInv, NEW e \in Entries, Enqueue(e)
  PROVE  IInv'
  <1> USE DEF IInv
  <1> DEFINE g == GroupOf[e]
             q == queue[g]
  <1>1. g \in Groups /\ q \in Seq(Entries)
    BY EntriesAssumption DEF TypeOK
  <1>2. /\ queue' = [queue EXCEPT ![g] = Append(q, e)]
        /\ queue'[g] = Append(q, e)
        /\ \A h \in Groups \ {g} : queue'[h] = queue[h]
    BY <1>1 DEF TypeOK, Enqueue
  <1>3. /\ \A f \in Entries \ {e} : stage'[f] = stage[f] /\ drain'[f] = drain[f]
        /\ stage[e] = "new"
        /\ stage'[e] = "queued"
        /\ drain'[e] = IF running[g] THEN "none" ELSE "ready"
        /\ e \in Queued
        /\ UNCHANGED <<running, idle, proc, current, alive>>
    BY DEF TypeOK, Enqueue, Queued
  <1>4. /\ Append(q, e) \in Seq(Entries)
        /\ Append(q, e) # <<>>
        /\ Len(q) \in Nat
        /\ Len(Append(q, e)) = Len(q) + 1
        /\ \A i \in 1..Len(q) : Append(q, e)[i] = q[i]
        /\ Append(q, e)[Len(q) + 1] = e
    BY <1>1, PutLast
  <1>5. TypeOK'
    BY <1>1, <1>2, <1>4 DEF TypeOK, Stages, Enqueue
  <1> HIDE DEF q
  <1>6. QueueHoldsWaiting'
    <2>1. \A i \in 1..Len(q) : q[i] # e /\ GroupOf[q[i]] = g /\ q[i] \in Queued /\ stage[q[i]] = "queued"
      BY <1>1, <1>3 DEF QueueHoldsWaiting, q
    <2>2. \A i, j \in 1..Len(q) : q[i] = q[j] => i = j
      BY <1>1 DEF QueueHoldsWaiting, q
    <2>3. ASSUME NEW h \in Groups \ {g}
          PROVE  /\ \A i \in 1..Len(queue'[h]) :
                      GroupOf[queue'[h][i]] = h /\ queue'[h][i] \in Queued /\ stage'[queue'[h][i]] = "queued"
                 /\ \A i, j \in 1..Len(queue'[h]) : queue'[h][i] = queue'[h][j] => i = j
      BY <1>2, <1>3 DEF QueueHoldsWaiting, Queued
    <2>4. ASSUME NEW i \in 1..Len(queue'[g])
          PROVE  GroupOf[queue'[g][i]] = g /\ queue'[g][i] \in Queued /\ stage'[queue'[g][i]] = "queued"
      BY <1>1, <1>2, <1>3, <1>4, <2>1 DEF Queued
    <2>5. ASSUME NEW i \in 1..Len(queue'[g]), NEW j \in 1..Len(queue'[g]), queue'[g][i] = queue'[g][j]
          PROVE  i = j
      BY <1>2, <1>4, <2>1, <2>2, <2>5
    <2> QED BY <1>1, <2>3, <2>4, <2>5 DEF QueueHoldsWaiting
  <1>7. /\ \A d \in Entries : drain'[d] = "active" <=> drain[d] = "active"
        /\ \A h \in Groups : Active(h)' = Active(h)
        /\ \A d \in Entries \ {e} : drain'[d] = drain[d]
    BY <1>3 DEF Active, DrainsAreCreated
  <1>8. OneDrainPerGroup'
    BY <1>3, <1>7 DEF OneDrainPerGroup
  <1>9. DrainAwaitsOwn' /\ ProgressIsAwaited' /\ DrainsAreCreated'
    BY <1>3, <1>7 DEF DrainAwaitsOwn, ProgressIsAwaited, DrainsAreCreated, InProgress, Queued
  <1>10. NoLostWakeup'
    <2>1. ASSUME NEW h \in Groups \ {g}, queue'[h] # <<>>
          PROVE  \E d \in Entries : GroupOf[d] = h /\ drain'[d] \in {"ready", "active"}
      <3>1. PICK d \in Entries : GroupOf[d] = h /\ drain[d] \in {"ready", "active"}
        BY <1>2, <2>1 DEF NoLostWakeup
      <3> QED BY <1>7, <3>1
    <2>2. \E d \in Entries : GroupOf[d] = g /\ drain'[d] \in {"ready", "active"}
      <3>1. CASE running[g]
        BY <1>1, <1>7, <3>1 DEF OneDrainPerGroup, Active
      <3>2. CASE ~ running[g]
        BY <1>3, <3>2
      <3> QED BY <3>1, <3>2
    <2> QED BY <2>1, <2>2 DEF NoLostWakeup
  <1>11. AgentsHaveEntries' /\ ProcFollowsEntry'
    BY <1>3 DEF AgentsHaveEntries, ProcFollowsEntry, TypeOK
  <1> QED BY <1>5, <1>6, <1>8, <1>9, <1>10, <1>11

(* Two queued entries of a group are never in progress together: the       *)
(* _drain tasks that await them are the same task.                         *)
LEMMA OneInProgress ==
  ASSUME IInv, NEW e1 \in Queued, NEW e2 \in Queued, GroupOf[e1] = GroupOf[e2],
         stage[e1] \in InProgress, stage[e2] \in InProgress
  PROVE  e1 = e2
  <1>1. PICK d1 \in Entries : drain[d1] = "active" /\ current[d1] = e1
    BY DEF IInv, ProgressIsAwaited
  <1>2. PICK d2 \in Entries : drain[d2] = "active" /\ current[d2] = e2
    BY DEF IInv, ProgressIsAwaited
  <1>3. GroupOf[d1] = GroupOf[e1] /\ GroupOf[d2] = GroupOf[e1] /\ GroupOf[e1] \in Groups
    BY <1>1, <1>2, EntriesAssumption DEF IInv, DrainAwaitsOwn, Queued
  <1>4. d1 = d2
    BY <1>1, <1>2, <1>3 DEF IInv, OneDrainPerGroup, Active
  <1> QED BY <1>1, <1>2, <1>4

(* Whoever takes the head of a queue leaves a queue that holds waiting     *)
(* entries only, provided no other waiting entry begins.                   *)
LEMMA HeadLeaves ==
  ASSUME IInv, NEW g \in Groups, queue[g] # <<>>,
         queue' = [queue EXCEPT ![g] = Tail(@)],
         \A e \in Entries : stage[e] = "queued" /\ e # Head(queue[g]) => stage'[e] = "queued"
  PROVE  /\ Head(queue[g]) \in Queued
         /\ GroupOf[Head(queue[g])] = g
         /\ stage[Head(queue[g])] = "queued"
         /\ queue' \in [Groups -> Seq(Entries)]
         /\ \A h \in Groups \ {g} : queue'[h] = queue[h]
         /\ QueueHoldsWaiting'
  <1> USE DEF IInv
  <1> DEFINE q == queue[g]
             x == Head(q)
  <1>1. q \in Seq(Entries)
    BY DEF TypeOK
  <1>2. /\ x \in Entries
        /\ Tail(q) \in Seq(Entries)
        /\ Len(q) \in Nat
        /\ Len(q) > 0
        /\ x = q[1]
        /\ Len(Tail(q)) = Len(q) - 1
        /\ \A i \in 1..Len(Tail(q)) : i + 1 \in 1..Len(q) /\ Tail(q)[i] = q[i + 1]
    BY <1>1, TakeHead
  <1>3. /\ queue' \in [Groups -> Seq(Entries)]
        /\ queue'[g] = Tail(q)
        /\ \A h \in Groups \ {g} : queue'[h] = queue[h]
    BY <1>2 DEF TypeOK
  <1>4. \A i \in 1..Len(q) : GroupOf[q[i]] = g /\ q[i] \in Queued /\ stage[q[i]] = "queued"
    BY DEF QueueHoldsWaiting
  <1>5. \A i, j \in 1..Len(q) : q[i] = q[j] => i = j
    BY DEF QueueHoldsWaiting
  <1>6. \A e \in Entries : stage[e] = "queued" /\ e # x => stage'[e] = "queued"
    OBVIOUS
  <1> HIDE DEF q, x
  <1>7. x \in Queued /\ GroupOf[x] = g /\ stage[x] = "queued"
    BY <1>2, <1>4
  <1>8. ASSUME NEW h \in Groups \ {g}
        PROVE  /\ \A i \in 1..Len(queue'[h]) :
                    GroupOf[queue'[h][i]] = h /\ queue'[h][i] \in Queued /\ stage'[queue'[h][i]] = "queued"
               /\ \A i, j \in 1..Len(queue'[h]) : queue'[h][i] = queue'[h][j] => i = j
    BY <1>3, <1>6, <1>7 DEF QueueHoldsWaiting, Queued
  <1>9. ASSUME NEW i \in 1..Len(queue'[g])
        PROVE  GroupOf[queue'[g][i]] = g /\ queue'[g][i] \in Queued /\ stage'[queue'[g][i]] = "queued"
    <2>1. /\ i + 1 \in 1..Len(q)
          /\ queue'[g][i] = q[i + 1]
          /\ 1 \in 1..Len(q)
          /\ i + 1 # 1
      BY <1>2, <1>3
    <2>2. q[i + 1] # x
      BY <1>2, <1>5, <2>1
    <2> QED BY <1>4, <1>6, <2>1, <2>2 DEF Queued
  <1>10. ASSUME NEW i \in 1..Len(queue'[g]), NEW j \in 1..Len(queue'[g]), queue'[g][i] = queue'[g][j]
         PROVE  i = j
    <2>1. i \in 1..Len(Tail(q)) /\ j \in 1..Len(Tail(q))
      BY <1>3
    <2>2. /\ i + 1 \in 1..Len(q) /\ queue'[g][i] = q[i + 1]
          /\ j + 1 \in 1..Len(q) /\ queue'[g][j] = q[j + 1]
      BY <1>2, <1>3, <2>1
    <2>3. i + 1 = j + 1
      BY <1>5, <1>10, <2>2
    <2> QED BY <1>2, <2>1, <2>3
  <1>11. QueueHoldsWaiting'
    <2> SUFFICES ASSUME NEW h \in Groups
                 PROVE  /\ \A i \in 1..Len(queue'[h]) :
                             GroupOf[queue'[h][i]] = h /\ queue'[h][i] \in Queued /\ stage'[queue'[h][i]] = "queued"
                        /\ \A i, j \in 1..Len(queue'[h]) : queue'[h][i] = queue'[h][j] => i = j
      BY DEF QueueHoldsWaiting, Queued
    <2>1. CASE h = g
      BY <1>9, <1>10, <2>1
    <2>2. CASE h # g
      BY <1>8, <2>2
    <2> QED BY <2>1, <2>2
  <1> QED BY <1>3, <1>7, <1>11 DEF q, x

(* A _drain that claims the group preserves the inductive invariant. *)
LEMMA DrainBeginsInvariant ==
  ASSUME IInv, NEW d \in Entries, DrainBegins(d)
  PROVE  IInv'
  <1> USE DEF IInv
  <1> DEFINE g == GroupOf[d]
             x == Head(queue[g])
  <1>1. /\ g \in Groups
        /\ queue[g] # <<>>
        /\ queue' = [queue EXCEPT ![g] = Tail(@)]
        /\ stage' = [stage EXCEPT ![x] = "begun"]
        /\ drain[d] = "ready"
        /\ ~ running[g]
        /\ UNCHANGED <<proc, alive>>
    BY EntriesAssumption DEF DrainBegins
  <1>2. \A e \in Entries : e # x => stage'[e] = stage[e]
    BY <1>1 DEF TypeOK
  <1>3. /\ x \in Queued
        /\ GroupOf[x] = g
        /\ stage[x] = "queued"
        /\ queue' \in [Groups -> Seq(Entries)]
        /\ \A h \in Groups \ {g} : queue'[h] = queue[h]
        /\ QueueHoldsWaiting'
    BY <1>1, <1>2, HeadLeaves
  <1> HIDE DEF x
  <1>4. /\ drain' = [drain EXCEPT ![d] = "active"]
        /\ current' = [current EXCEPT ![d] = x]
        /\ running' = [running EXCEPT ![g] = TRUE]
        /\ idle' = [idle EXCEPT ![g] = FALSE]
        /\ UNCHANGED <<shut, signalled>>
    BY DEF DrainBegins, x
  <1>5. TypeOK'
    BY <1>1, <1>3, <1>4 DEF TypeOK, Stages, Queued
  <1>6. /\ stage'[x] = "begun"
        /\ drain'[d] = "active"
        /\ current'[d] = x
        /\ \A e \in Entries \ {d} : drain'[e] = drain[e] /\ current'[e] = current[e]
        /\ x \in Entries
    BY <1>1, <1>3, <1>4 DEF TypeOK, Queued
  <1>7. Active(g) = {}
    BY <1>1 DEF OneDrainPerGroup
  <1>8. OneDrainPerGroup'
    <2>1. Active(g)' = {d}
      BY <1>6, <1>7 DEF Active
    <2>2. \A h \in Groups \ {g} : Active(h)' = Active(h)
      BY <1>6 DEF Active
    <2>3. /\ running'[g] = TRUE
          /\ idle'[g] = FALSE
          /\ \A h \in Groups \ {g} : running'[h] = running[h] /\ idle'[h] = idle[h]
      BY <1>1, <1>4 DEF TypeOK
    <2> SUFFICES ASSUME NEW h \in Groups
                 PROVE  /\ running'[h] <=> Active(h)' # {}
                        /\ \A d1, d2 \in Active(h)' : d1 = d2
                        /\ idle'[h] = ~ running'[h]
      BY DEF OneDrainPerGroup
    <2>4. CASE h = g
      BY <2>1, <2>3, <2>4
    <2>5. CASE h # g
      BY <2>2, <2>3, <2>5 DEF OneDrainPerGroup
    <2> QED BY <2>4, <2>5
  <1>9. DrainAwaitsOwn'
    <2>1. ASSUME NEW e \in Entries \ {d}, drain'[e] = "active"
          PROVE  /\ current'[e] \in Queued
                 /\ GroupOf[current'[e]] = GroupOf[e]
                 /\ stage'[current'[e]] \in InProgress
      <3>1. current[e] \in Queued /\ GroupOf[current[e]] = GroupOf[e] /\ stage[current[e]] \in InProgress
        BY <1>6, <2>1 DEF DrainAwaitsOwn
      <3> QED BY <1>2, <1>3, <1>6, <3>1 DEF InProgress, Queued
    <2>2. /\ current'[d] \in Queued
          /\ GroupOf[current'[d]] = GroupOf[d]
          /\ stage'[current'[d]] \in InProgress
      BY <1>3, <1>6 DEF InProgress
    <2> QED BY <2>1, <2>2 DEF DrainAwaitsOwn, Queued, InProgress
  <1>10. ProgressIsAwaited'
    <2>1. ASSUME NEW e \in Queued, e # x, stage'[e] \in InProgress
          PROVE  \E f \in Entries : drain'[f] = "active" /\ current'[f] = e
      BY <1>1, <1>2, <1>6, <2>1 DEF ProgressIsAwaited, Queued
    <2> QED BY <1>6, <2>1 DEF ProgressIsAwaited, Queued
  <1>11. DrainsAreCreated'
    BY <1>1, <1>2, <1>3, <1>6 DEF DrainsAreCreated
  <1>12. NoLostWakeup'
    BY <1>3, <1>6 DEF NoLostWakeup
  <1>13. AgentsHaveEntries' /\ ProcFollowsEntry'
    BY <1>1, <1>2, <1>3, <1>6 DEF AgentsHaveEntries, ProcFollowsEntry, TypeOK
  <1> QED BY <1>3, <1>5, <1>8, <1>9, <1>10, <1>11, <1>12, <1>13

(* An entry that ends while others wait preserves the inductive invariant: *)
(* the _drain that awaited it awaits the next one.                         *)
LEMMA TakeNextInvariant ==
  ASSUME IInv, NEW d \in Entries, EndAndTakeNext(d)
  PROVE  IInv'
  <1> USE DEF IInv
  <1> DEFINE g == GroupOf[d]
             x == Head(queue[g])
             c == current[d]
  <1>1. /\ g \in Groups
        /\ queue[g] # <<>>
        /\ queue' = [queue EXCEPT ![g] = Tail(@)]
        /\ stage' = [stage EXCEPT ![c] = "finished", ![x] = "begun"]
        /\ drain[d] = "active"
        /\ EntryEnds(c)
        /\ current' = [current EXCEPT ![d] = x]
        /\ UNCHANGED <<running, idle, drain, shut, signalled>>
    BY EntriesAssumption DEF EndAndTakeNext
  <1>2. /\ c \in Queued
        /\ c \in Entries
        /\ GroupOf[c] = g
        /\ stage[c] \in InProgress
    BY <1>1 DEF DrainAwaitsOwn, Queued
  <1>3. \A e \in Entries : e # x /\ e # c => stage'[e] = stage[e]
    BY <1>1 DEF TypeOK
  <1>4. \A e \in Entries : stage[e] = "queued" /\ e # x => stage'[e] = "queued"
    BY <1>2, <1>3 DEF InProgress
  <1>5. /\ x \in Queued
        /\ GroupOf[x] = g
        /\ stage[x] = "queued"
        /\ queue' \in [Groups -> Seq(Entries)]
        /\ \A h \in Groups \ {g} : queue'[h] = queue[h]
        /\ QueueHoldsWaiting'
    BY <1>1, <1>4, HeadLeaves
  <1> HIDE DEF x, c
  <1>6. /\ x \in Entries
        /\ x # c
        /\ stage'[x] = "begun"
        /\ stage'[c] = "finished"
        /\ current'[d] = x
        /\ \A e \in Entries \ {d} : current'[e] = current[e]
    BY <1>1, <1>2, <1>5 DEF TypeOK, Queued, InProgress
  <1>7. /\ proc' = proc \/ proc' = [proc EXCEPT ![g] = None]
        /\ stage[c] = "attached" => proc' = [proc EXCEPT ![g] = None]
        /\ alive' = alive \ {c}
    BY <1>1, <1>2 DEF EntryEnds
  <1>8. TypeOK'
    BY <1>1, <1>2, <1>5, <1>6, <1>7 DEF TypeOK, Stages
  <1>9. OneDrainPerGroup'
    BY <1>1 DEF OneDrainPerGroup, Active
  <1>10. \A e \in Entries \ {d} : drain[e] = "active" => current[e] # c
    <2> SUFFICES ASSUME NEW e \in Entries \ {d}, drain[e] = "active", current[e] = c
                 PROVE  FALSE
      OBVIOUS
    <2>1. GroupOf[e] = g
      BY <1>2 DEF DrainAwaitsOwn
    <2> QED BY <1>1, <2>1 DEF OneDrainPerGroup, Active
  <1>11. DrainAwaitsOwn'
    <2>1. ASSUME NEW e \in Entries \ {d}, drain'[e] = "active"
          PROVE  /\ current'[e] \in Queued
                 /\ GroupOf[current'[e]] = GroupOf[e]
                 /\ stage'[current'[e]] \in InProgress
      <3>1. /\ current[e] \in Queued
            /\ GroupOf[current[e]] = GroupOf[e]
            /\ stage[current[e]] \in InProgress
            /\ current[e] # c
        BY <1>1, <1>10, <2>1 DEF DrainAwaitsOwn
      <3> QED BY <1>3, <1>5, <1>6, <3>1 DEF InProgress, Queued
    <2> QED BY <1>5, <1>6, <2>1 DEF DrainAwaitsOwn, InProgress, Queued
  <1>12. ProgressIsAwaited'
    <2>1. ASSUME NEW e \in Queued, e # x, stage'[e] \in InProgress
          PROVE  \E f \in Entries : drain'[f] = "active" /\ current'[f] = e
      <3>1. e # c /\ e \in Entries /\ stage[e] \in InProgress
        BY <1>3, <1>6, <2>1 DEF InProgress, Queued
      <3>2. PICK f \in Entries : drain[f] = "active" /\ current[f] = e
        BY <3>1 DEF ProgressIsAwaited
      <3>3. f # d
        BY <3>1, <3>2 DEF c
      <3> QED BY <1>1, <1>6, <3>2, <3>3
    <2> QED BY <1>1, <1>6, <2>1 DEF ProgressIsAwaited, Queued
  <1>13. DrainsAreCreated'
    BY <1>1, <1>3, <1>6 DEF DrainsAreCreated
  <1>14. NoLostWakeup'
    BY <1>1, <1>5 DEF NoLostWakeup
  <1>15. AgentsHaveEntries'
    BY <1>3, <1>5, <1>7 DEF AgentsHaveEntries, TypeOK
  <1>16. ProcFollowsEntry'
    <2> SUFFICES ASSUME NEW e \in Entries, Undisturbed(GroupOf[e])
                 PROVE  stage'[e] = "attached" <=> proc'[GroupOf[e]] = e
      BY DEF ProcFollowsEntry
    <2>0. e \in Queued
      BY DEF Undisturbed, Queued
    <2>1. /\ stage[e] = "attached" <=> proc[GroupOf[e]] = e
          /\ GroupOf[e] = g => (stage[c] = "attached" <=> proc[g] = c)
      BY <1>2 DEF ProcFollowsEntry
    <2>2. e # None /\ GroupOf[e] \in Groups
      BY EntriesAssumption
    <2>3. CASE e = x
      BY <1>5, <1>6, <1>7, <2>1, <2>2, <2>3 DEF TypeOK
    <2>4. CASE e = c
      BY <1>1, <1>2, <1>6, <1>7, <2>1, <2>2, <2>4 DEF TypeOK
    <2>5. CASE e # x /\ e # c
      <3>1. stage'[e] = stage[e]
        BY <1>3, <2>5
      <3>2. CASE GroupOf[e] # g
        <4>1. proc'[GroupOf[e]] = proc[GroupOf[e]]
          BY <1>7, <2>2, <3>2 DEF TypeOK
        <4> QED BY <2>1, <3>1, <4>1
      <3>3. CASE GroupOf[e] = g
        <4>1. stage[e] # "attached"
          BY <1>2, <2>0, <2>5, <3>3, OneInProgress DEF InProgress
        <4>2. proc'[g] # e
          BY <1>1, <1>7, <2>1, <2>2, <3>3, <4>1 DEF TypeOK
        <4> QED BY <3>1, <3>3, <4>1, <4>2
      <3> QED BY <3>2, <3>3
    <2> QED BY <2>3, <2>4, <2>5
  <1> QED BY <1>5, <1>8, <1>9, <1>11, <1>12, <1>13, <1>14, <1>15, <1>16

(* The last entry that ends stops its _drain and leaves the group idle.    *)
LEMMA StopInvariant ==
  ASSUME IInv, NEW d \in Entries, EndAndStop(d)
  PROVE  IInv'
  <1> USE DEF IInv
  <1> DEFINE g == GroupOf[d]
             c == current[d]
  <1>1. /\ g \in Groups
        /\ queue[g] = <<>>
        /\ stage' = [stage EXCEPT ![c] = "finished"]
        /\ drain[d] = "active"
        /\ drain' = [drain EXCEPT ![d] = "ended"]
        /\ current' = [current EXCEPT ![d] = None]
        /\ running' = [running EXCEPT ![g] = FALSE]
        /\ idle' = [idle EXCEPT ![g] = TRUE]
        /\ EntryEnds(c)
        /\ UNCHANGED <<queue, shut, signalled>>
    BY EntriesAssumption DEF EndAndStop
  <1>2. /\ c \in Queued
        /\ c \in Entries
        /\ GroupOf[c] = g
        /\ stage[c] \in InProgress
    BY <1>1 DEF DrainAwaitsOwn, Queued
  <1> HIDE DEF c
  <1>3. /\ stage'[c] = "finished"
        /\ drain'[d] = "ended"
        /\ \A e \in Entries \ {c} : stage'[e] = stage[e]
        /\ \A e \in Entries \ {d} : drain'[e] = drain[e] /\ current'[e] = current[e]
    BY <1>1, <1>2 DEF TypeOK
  <1>4. /\ proc' = proc \/ proc' = [proc EXCEPT ![g] = None]
        /\ stage[c] = "attached" => proc' = [proc EXCEPT ![g] = None]
        /\ alive' = alive \ {c}
    BY <1>1, <1>2 DEF EntryEnds
  <1>5. TypeOK'
    BY <1>1, <1>2, <1>4 DEF TypeOK, Stages
  <1>6. QueueHoldsWaiting'
    <2>1. \A e \in Entries : stage[e] = "queued" => stage'[e] = "queued"
      BY <1>2, <1>3 DEF InProgress
    <2> QED BY <1>1, <2>1 DEF QueueHoldsWaiting, Queued
  <1>7. OneDrainPerGroup'
    <2>1. Active(g) = {d}
      BY <1>1 DEF OneDrainPerGroup, Active
    <2>2. Active(g)' = {}
      BY <1>3, <2>1 DEF Active
    <2>3. \A h \in Groups \ {g} : Active(h)' = Active(h)
      BY <1>3 DEF Active
    <2>4. /\ running'[g] = FALSE
          /\ idle'[g] = TRUE
          /\ \A h \in Groups \ {g} : running'[h] = running[h] /\ idle'[h] = idle[h]
      BY <1>1 DEF TypeOK
    <2> SUFFICES ASSUME NEW h \in Groups
                 PROVE  /\ running'[h] <=> Active(h)' # {}
                        /\ \A d1, d2 \in Active(h)' : d1 = d2
                        /\ idle'[h] = ~ running'[h]
      BY DEF OneDrainPerGroup
    <2>5. CASE h = g
      BY <2>2, <2>4, <2>5
    <2>6. CASE h # g
      BY <2>3, <2>4, <2>6 DEF OneDrainPerGroup
    <2> QED BY <2>5, <2>6
  <1>8. \A e \in Entries \ {d} : drain[e] = "active" => current[e] # c
    <2> SUFFICES ASSUME NEW e \in Entries \ {d}, drain[e] = "active", current[e] = c
                 PROVE  FALSE
      OBVIOUS
    <2>1. GroupOf[e] = g
      BY <1>2 DEF DrainAwaitsOwn
    <2> QED BY <1>1, <2>1 DEF OneDrainPerGroup, Active
  <1>9. DrainAwaitsOwn'
    <2> SUFFICES ASSUME NEW e \in Entries, drain'[e] = "active"
                 PROVE  /\ current'[e] \in Queued
                        /\ GroupOf[current'[e]] = GroupOf[e]
                        /\ stage'[current'[e]] \in InProgress
      BY DEF DrainAwaitsOwn, Queued, InProgress
    <2>1. e # d
      BY <1>3
    <2>2. /\ current[e] \in Queued
          /\ GroupOf[current[e]] = GroupOf[e]
          /\ stage[current[e]] \in InProgress
          /\ current[e] # c
      BY <1>3, <1>8, <2>1 DEF DrainAwaitsOwn
    <2> QED BY <1>3, <2>1, <2>2 DEF Queued
  <1>10. ProgressIsAwaited'
    <2> SUFFICES ASSUME NEW e \in Queued, stage'[e] \in InProgress
                 PROVE  \E f \in Entries : drain'[f] = "active" /\ current'[f] = e
      BY DEF ProgressIsAwaited, Queued, InProgress
    <2>1. e # c /\ e \in Entries /\ stage[e] \in InProgress
      BY <1>3 DEF InProgress, Queued
    <2>2. PICK f \in Entries : drain[f] = "active" /\ current[f] = e
      BY <2>1 DEF ProgressIsAwaited
    <2>3. f # d
      BY <2>1, <2>2 DEF c
    <2> QED BY <1>3, <2>2, <2>3
  <1>11. DrainsAreCreated' /\ NoLostWakeup'
    <2>1. DrainsAreCreated'
      BY <1>1, <1>3 DEF DrainsAreCreated
    <2>2. \A h \in Groups : queue[h] # <<>> => h # g
      BY <1>1
    <2> QED BY <1>1, <1>3, <2>1, <2>2 DEF NoLostWakeup
  <1>12. AgentsHaveEntries'
    BY <1>3, <1>4 DEF AgentsHaveEntries, TypeOK
  <1>13. ProcFollowsEntry'
    <2> SUFFICES ASSUME NEW e \in Entries, Undisturbed(GroupOf[e])
                 PROVE  stage'[e] = "attached" <=> proc'[GroupOf[e]] = e
      BY DEF ProcFollowsEntry
    <2>0. e \in Queued
      BY DEF Undisturbed, Queued
    <2>1. /\ stage[e] = "attached" <=> proc[GroupOf[e]] = e
          /\ GroupOf[e] = g => (stage[c] = "attached" <=> proc[g] = c)
      BY <1>2 DEF ProcFollowsEntry
    <2>2. e # None /\ GroupOf[e] \in Groups
      BY EntriesAssumption
    <2>3. CASE e = c
      BY <1>1, <1>2, <1>3, <1>4, <2>1, <2>2, <2>3 DEF TypeOK
    <2>4. CASE e # c /\ GroupOf[e] # g
      BY <1>3, <1>4, <2>1, <2>2, <2>4 DEF TypeOK
    <2>5. CASE e # c /\ GroupOf[e] = g
      <3>1. stage[e] # "attached"
        BY <1>2, <2>0, <2>5, OneInProgress DEF InProgress
      <3> QED BY <1>1, <1>3, <1>4, <2>1, <2>2, <2>5, <3>1 DEF TypeOK
    <2> QED BY <2>3, <2>4, <2>5
  <1> QED BY <1>5, <1>6, <1>7, <1>9, <1>10, <1>11, <1>12, <1>13

(* A _drain that finds the group taken or its queue empty changes nothing  *)
(* the invariant depends on.                                               *)
LEMMA DrainEndsInvariant ==
  ASSUME IInv, NEW d \in Entries, DrainYields(d) \/ DrainFindsNothing(d)
  PROVE  IInv'
  <1> USE DEF IInv
  <1> DEFINE g == GroupOf[d]
  <1>1. /\ g \in Groups
        /\ drain[d] = "ready"
        /\ drain' = [drain EXCEPT ![d] = "ended"]
        /\ idle' = idle \/ idle' = [idle EXCEPT ![g] = TRUE]
        /\ ~ running[g] => queue[g] = <<>>
        /\ running[g] => idle' = idle
        /\ UNCHANGED <<queue, running, proc, current, stage, alive, shut, signalled>>
    BY EntriesAssumption DEF DrainYields, DrainFindsNothing
  <1>2. /\ \A e \in Entries : drain'[e] = "active" <=> drain[e] = "active"
        /\ \A h \in Groups : Active(h)' = Active(h)
    BY <1>1 DEF TypeOK, Active
  <1>3. idle' = idle
    <2>1. CASE running[g]
      BY <1>1, <2>1
    <2>2. CASE ~ running[g]
      <3>1. idle[g] = TRUE
        BY <1>1, <2>2 DEF OneDrainPerGroup, TypeOK
      <3>2. CASE idle' = [idle EXCEPT ![g] = TRUE]
        <4>1. idle \in [Groups -> BOOLEAN] /\ idle' \in [Groups -> BOOLEAN]
          BY <3>2 DEF TypeOK
        <4>2. \A h \in Groups : idle'[h] = idle[h]
          BY <3>1, <3>2, <4>1
        <4> QED BY <4>1, <4>2
      <3> QED BY <1>1, <3>2
    <2> QED BY <2>1, <2>2
  <1>4. TypeOK' /\ QueueHoldsWaiting'
    BY <1>1, <1>3 DEF TypeOK, QueueHoldsWaiting
  <1>5. OneDrainPerGroup'
    BY <1>1, <1>2, <1>3 DEF OneDrainPerGroup
  <1>6. DrainAwaitsOwn' /\ ProgressIsAwaited'
    BY <1>1, <1>2 DEF DrainAwaitsOwn, ProgressIsAwaited
  <1>7. DrainsAreCreated'
    BY <1>1 DEF DrainsAreCreated, TypeOK
  <1>8. NoLostWakeup'
    <2> SUFFICES ASSUME NEW h \in Groups, queue[h] # <<>>
                 PROVE  \E e \in Entries : GroupOf[e] = h /\ drain'[e] \in {"ready", "active"}
      BY <1>1 DEF NoLostWakeup
    <2>1. PICK e \in Entries : GroupOf[e] = h /\ drain[e] \in {"ready", "active"}
      BY DEF NoLostWakeup
    <2>2. CASE e # d
      BY <1>1, <2>1, <2>2 DEF TypeOK
    <2>3. CASE e = d
      BY <1>1, <1>2, <2>1, <2>3 DEF OneDrainPerGroup, Active
    <2> QED BY <2>2, <2>3
  <1>9. AgentsHaveEntries' /\ ProcFollowsEntry'
    BY <1>1 DEF AgentsHaveEntries, ProcFollowsEntry
  <1> QED BY <1>4, <1>5, <1>6, <1>7, <1>8, <1>9

(* A step inside the coroutine of one entry, or the start or the end of a  *)
(* recovered run, leaves queues and _drain tasks alone.                    *)
LEMMA EntryStepInvariant ==
  ASSUME IInv, NEW e \in Entries,
         Recover(e) \/ Fork(e) \/ Attach(e) \/ EndRecovered(e)
  PROVE  IInv'
  <1> USE DEF IInv
  <1>1. /\ UNCHANGED <<queue, running, idle, drain, current, shut, signalled>>
        /\ \A f \in Entries \ {e} : stage'[f] = stage[f]
        /\ stage' \in [Entries -> Stages]
        /\ stage[e] # "queued" /\ stage'[e] \notin {"queued", "new"}
        /\ e \in Queued => stage[e] \in InProgress /\ stage'[e] \in InProgress
        /\ GroupOf[e] \in Groups
    BY EntriesAssumption DEF TypeOK, Recover, Fork, Attach, EndRecovered, EntryEnds,
       Queued, InProgress, Stages
  <1>2. TypeOK'
    <2>1. alive' \subseteq Entries
      BY DEF TypeOK, Recover, Fork, Attach, EndRecovered, EntryEnds
    <2>2. proc' \in [Groups -> Entries \cup {None}]
      BY DEF TypeOK, Recover, Fork, Attach, EndRecovered, EntryEnds
    <2> QED BY <1>1, <2>1, <2>2 DEF TypeOK
  <1>3. QueueHoldsWaiting'
    <2>1. \A f \in Entries : stage[f] = "queued" => stage'[f] = "queued"
      BY <1>1
    <2> QED BY <1>1, <2>1 DEF QueueHoldsWaiting, Queued
  <1>4. OneDrainPerGroup' /\ NoLostWakeup'
    BY <1>1 DEF OneDrainPerGroup, NoLostWakeup, Active
  <1>5. DrainAwaitsOwn' /\ ProgressIsAwaited'
    BY <1>1 DEF DrainAwaitsOwn, ProgressIsAwaited, Queued, InProgress
  <1>6. DrainsAreCreated'
    BY <1>1 DEF DrainsAreCreated
  <1>7. AgentsHaveEntries'
    BY <1>1 DEF AgentsHaveEntries, TypeOK, Recover, Fork, Attach, EndRecovered, EntryEnds
  <1>8. ProcFollowsEntry'
    <2> SUFFICES ASSUME NEW f \in Entries, Undisturbed(GroupOf[f])
                 PROVE  stage'[f] = "attached" <=> proc'[GroupOf[f]] = f
      BY DEF ProcFollowsEntry
    <2>1. /\ f \in Queued
          /\ e \in Recovered => GroupOf[f] # GroupOf[e]
          /\ GroupOf[f] \in Groups
      BY EntriesAssumption DEF Undisturbed, Queued
    <2>2. /\ stage[f] = "attached" <=> proc[GroupOf[f]] = f
          /\ GroupOf[e] = GroupOf[f] => (stage[e] = "attached" <=> proc[GroupOf[e]] = e)
      BY DEF ProcFollowsEntry
    <2>3. CASE Recover(e)
      BY <1>1, <2>1, <2>2, <2>3 DEF Recover
    <2>4. CASE Fork(e)
      BY <1>1, <2>1, <2>2, <2>4 DEF Fork, TypeOK
    <2>5. CASE Attach(e)
      <3>1. stage[f] = "attached" /\ GroupOf[f] = GroupOf[e] => f = e
        BY <1>1, <2>1, OneInProgress DEF Queued, InProgress
      <3> QED BY <1>1, <2>1, <2>2, <2>5, <3>1 DEF Attach, TypeOK
    <2>6. CASE EndRecovered(e)
      BY <1>1, <2>1, <2>2, <2>6 DEF EndRecovered, EntryEnds, TypeOK
    <2> QED BY <2>3, <2>4, <2>5, <2>6
  <1> QED BY <1>2, <1>3, <1>4, <1>5, <1>6, <1>7, <1>8

(* The exit of an agent, the steps of shutdown and stuttering change       *)
(* neither queues nor coroutines.                                          *)
LEMMA OutsideInvariant ==
  ASSUME IInv,
         \/ \E e \in Entries : ChildExit(e)
         \/ Shutdown \/ ShutdownReturns \/ UNCHANGED vars
  PROVE  IInv'
  <1>1. /\ UNCHANGED <<queue, running, idle, proc, drain, current, stage>>
        /\ alive' \subseteq alive
        /\ shut' \in {"up", "closing", "down"}
        /\ signalled' \subseteq Entries
    BY DEF IInv, TypeOK, ChildExit, Shutdown, ShutdownReturns, RegisteredAgents, vars
  <1> QED BY <1>1 DEF IInv, TypeOK, QueueHoldsWaiting, OneDrainPerGroup, Active,
     DrainAwaitsOwn, ProgressIsAwaited, DrainsAreCreated, NoLostWakeup, AgentsHaveEntries,
     ProcFollowsEntry

(* The inductive invariant holds in every reachable state.                 *)
THEOREM Invariance == Spec => []IInv
  <1>1. Init => IInv
    BY InitInvariant
  <1>2. IInv /\ [Next]_vars => IInv'
    <2> SUFFICES ASSUME IInv, [Next]_vars PROVE IInv'
      OBVIOUS
    <2>1. ASSUME NEW e \in Entries, Enqueue(e) PROVE IInv'
      BY <2>1, EnqueueInvariant
    <2>2. ASSUME NEW e \in Entries, DrainStep(e) PROVE IInv'
      BY <2>2, DrainEndsInvariant, DrainBeginsInvariant DEF DrainStep
    <2>3. ASSUME NEW e \in Entries, EndStep(e) PROVE IInv'
      BY <2>3, TakeNextInvariant, StopInvariant DEF EndStep
    <2>4. ASSUME NEW e \in Entries, Recover(e) \/ Fork(e) \/ Attach(e) \/ EndRecovered(e)
          PROVE  IInv'
      BY <2>4, EntryStepInvariant
    <2>5. ASSUME NEW e \in Entries, ChildExit(e) PROVE IInv'
      BY <2>5, OutsideInvariant
    <2>6. CASE Shutdown \/ ShutdownReturns \/ UNCHANGED vars
      BY <2>6, OutsideInvariant
    <2> QED BY <2>1, <2>2, <2>3, <2>4, <2>5, <2>6 DEF Next
  <1> QED BY <1>1, <1>2, PTL DEF Spec

-----------------------------------------------------------------------------
(* What follows for the queue.                                             *)

(* Every variable of the queue keeps its type.                             *)
THEOREM Typing == Spec => []TypeOK
  <1>1. IInv => TypeOK
    BY DEF IInv
  <1> QED BY <1>1, Invariance, PTL

(* However many _drain tasks _enqueue creates for a group, at most one is  *)
(* in its loop, running says whether, and idle_event is the opposite.      *)
THEOREM OneDrain == Spec => []OneDrainPerGroup
  <1>1. IInv => OneDrainPerGroup
    BY DEF IInv
  <1> QED BY <1>1, Invariance, PTL

(* No entry is ever left in a queue that no _drain will look at.           *)
THEOREM WakeupsAreKept == Spec => []NoLostWakeup
  <1>1. IInv => NoLostWakeup
    BY DEF IInv
  <1> QED BY <1>1, Invariance, PTL

(* The agents started through a group's queue never overlap, whatever is   *)
(* started beside the queue.                                               *)
THEOREM AgentsDoNotOverlap == Spec => []OneQueuedAgentPerGroup
  <1>1. IInv => OneQueuedAgentPerGroup
    <2> SUFFICES ASSUME IInv, NEW e1 \in alive \ Recovered, NEW e2 \in alive \ Recovered,
                        GroupOf[e1] = GroupOf[e2]
                 PROVE  e1 = e2
      BY DEF OneQueuedAgentPerGroup
    <2>1. /\ e1 \in Queued /\ stage[e1] \in InProgress
          /\ e2 \in Queued /\ stage[e2] \in InProgress
      BY DEF IInv, TypeOK, AgentsHaveEntries, Queued, InProgress
    <2> QED BY <2>1, OneInProgress
  <1> QED BY <1>1, Invariance, PTL

(* When nothing runs beside the queues, no agent of a group lives while    *)
(* another one does: the sentence of the module docstring.                 *)
THEOREM OneAgent ==
  ASSUME Recovered = {}
  PROVE  Spec => []OneAgentPerGroup
  <1>1. OneQueuedAgentPerGroup => OneAgentPerGroup
    BY DEF OneQueuedAgentPerGroup, OneAgentPerGroup
  <1> QED BY <1>1, AgentsDoNotOverlap, PTL

(* Where nothing runs beside the queue, current_proc names the agent of    *)
(* the entry in progress; and every living agent has such an entry.        *)
THEOREM ProcessTracking == Spec => []ProcessIsTracked
  <1>1. IInv => ProcessIsTracked
    BY DEF IInv, ProcFollowsEntry, AgentsHaveEntries, ProcessIsTracked
  <1> QED BY <1>1, Invariance, PTL

(* A step that sets a cleared idle_event leaves the queue of the group     *)
(* empty.                                                                  *)
THEOREM IdleEventIsHonest == Spec => IdleOnlyWhenDrained
  <1>1. IInv /\ [Next]_vars => [\A g \in Groups : ~ idle[g] /\ idle'[g] => queue'[g] = <<>>]_vars
    <2> SUFFICES ASSUME IInv, Next, NEW g \in Groups, ~ idle[g], idle'[g]
                 PROVE  queue'[g] = <<>>
      OBVIOUS
    <2>1. ASSUME NEW d \in Entries, DrainStep(d) PROVE queue'[g] = <<>>
      <3>1. CASE DrainYields(d)
        BY <3>1 DEF DrainYields
      <3>2. CASE DrainFindsNothing(d)
        BY <3>2, EntriesAssumption DEF DrainFindsNothing, IInv, TypeOK
      <3>3. CASE DrainBegins(d)
        BY <3>3, EntriesAssumption DEF DrainBegins, IInv, TypeOK
      <3> QED BY <2>1, <3>1, <3>2, <3>3 DEF DrainStep
    <2>2. ASSUME NEW d \in Entries, EndStep(d) PROVE queue'[g] = <<>>
      <3>1. CASE EndAndTakeNext(d)
        BY <3>1 DEF EndAndTakeNext
      <3>2. CASE EndAndStop(d)
        BY <3>2, EntriesAssumption DEF EndAndStop, IInv, TypeOK
      <3> QED BY <2>2, <3>1, <3>2 DEF EndStep
    <2>3. idle' = idle => FALSE
      OBVIOUS
    <2> QED BY <2>1, <2>2, <2>3 DEF Next, Enqueue, Recover, Fork, Attach, ChildExit,
         EndRecovered, Shutdown, ShutdownReturns
  <1> QED BY <1>1, Invariance, PTL DEF Spec, IdleOnlyWhenDrained

(* shutdown signals every agent that has attached in a group that runs     *)
(* nothing beside its queue.                                               *)
THEOREM ShutdownSignals == Spec => ShutdownSignalsAttached
  <1>1. IInv /\ [Next]_vars =>
          [shut = "up" /\ shut' # "up" =>
             \A e \in alive :
               Undisturbed(GroupOf[e]) /\ stage[e] = "attached" => e \in signalled']_vars
    <2> SUFFICES ASSUME IInv, Next, shut = "up", shut' # "up", NEW e \in alive,
                        Undisturbed(GroupOf[e]), stage[e] = "attached"
                 PROVE  e \in signalled'
      OBVIOUS
    <2>1. Shutdown
      BY DEF Next, Enqueue, Recover, DrainStep, DrainYields, DrainFindsNothing, DrainBegins,
         EndStep, EndAndTakeNext, EndAndStop, Fork, Attach, ChildExit, EndRecovered,
         ShutdownReturns
    <2>2. proc[GroupOf[e]] = e
      BY DEF IInv, TypeOK, ProcFollowsEntry
    <2> QED BY <2>1, <2>2 DEF Shutdown, RegisteredAgents
  <1> QED BY <1>1, Invariance, PTL DEF Spec, ShutdownSignalsAttached

-----------------------------------------------------------------------------
(* The queue implements SerialQueue.                                       *)

Executing == {e \in Entries \ Recovered : stage[e] \in InProgress}
Finished == {e \in Entries \ Recovered : stage[e] = "finished"}

(* A step that moves no queued entry into or out of progress stutters.     *)
LEMMA Stuttering ==
  ASSUME queue' = queue,
         \A e \in Queued : stage'[e] = stage[e] \/ (stage[e] \in InProgress /\ stage'[e] \in InProgress)
  PROVE  UNCHANGED Serial!serialVars
  BY DEF Serial!serialVars, Queued, InProgress

(* enqueue_task submits the entry.                                         *)
LEMMA EnqueueSubmits ==
  ASSUME IInv, NEW e \in Entries, Enqueue(e)
  PROVE  Serial!Submit(e) /\ e \in Entries \ Recovered
  <1>1. /\ stage[e] = "new"
        /\ stage'[e] = "queued"
        /\ e \in Entries \ Recovered
        /\ \A f \in Entries \ {e} : stage'[f] = stage[f]
        /\ queue' = [queue EXCEPT ![GroupOf[e]] = Append(@, e)]
    BY DEF Enqueue, IInv, TypeOK
  <1>2. \A g \in Groups : \A i \in 1..Len(queue[g]) : queue[g][i] # e
    BY <1>1 DEF IInv, QueueHoldsWaiting
  <1>3. Executing' = Executing /\ Finished' = Finished
    BY <1>1 DEF Executing, Finished, InProgress
  <1> QED BY <1>1, <1>2, <1>3 DEF Serial!Submit, Serial!Known, Executing, Finished, InProgress

(* A _drain that claims the group starts its oldest entry.                 *)
LEMMA DrainBeginsStarts ==
  ASSUME IInv, NEW d \in Entries, DrainBegins(d)
  PROVE  Serial!Start(GroupOf[d]) /\ GroupOf[d] \in Groups
  <1> DEFINE g == GroupOf[d]
             x == Head(queue[g])
  <1>1. /\ g \in Groups
        /\ ~ running[g]
        /\ queue[g] # <<>>
        /\ queue' = [queue EXCEPT ![g] = Tail(@)]
        /\ stage' = [stage EXCEPT ![x] = "begun"]
    BY EntriesAssumption DEF DrainBegins
  <1>2. \A e \in Entries : e # x => stage'[e] = stage[e]
    BY <1>1 DEF IInv, TypeOK
  <1>3. x \in Queued /\ stage[x] = "queued"
    BY <1>1, <1>2, HeadLeaves
  <1>4. \A e \in Executing : GroupOf[e] # g
    <2> SUFFICES ASSUME NEW e \in Executing, GroupOf[e] = g PROVE FALSE
      OBVIOUS
    <2>1. PICK f \in Entries : drain[f] = "active" /\ current[f] = e
      BY DEF IInv, ProgressIsAwaited, Executing, Queued
    <2>2. GroupOf[f] = g
      BY <2>1 DEF IInv, DrainAwaitsOwn
    <2> QED BY <1>1, <2>1, <2>2 DEF IInv, OneDrainPerGroup, Active
  <1> HIDE DEF x
  <1>5. stage'[x] = "begun"
    BY <1>1, <1>3 DEF IInv, TypeOK, Queued
  <1>6. Executing' = Executing \cup {x} /\ Finished' = Finished
    BY <1>2, <1>3, <1>5 DEF Executing, Finished, InProgress, Queued
  <1> QED BY <1>1, <1>4, <1>6 DEF Serial!Start, Executing, Finished, x

(* An entry that ends while others wait hands over to the oldest of them.  *)
LEMMA TakeNextHandsOver ==
  ASSUME IInv, NEW d \in Entries, EndAndTakeNext(d)
  PROVE  \E c \in Entries \ Recovered : Serial!Handover(c)
  <1> DEFINE g == GroupOf[d]
             x == Head(queue[g])
  <1>0. PICK c \in Entries : c = current[d]
    BY DEF EndAndTakeNext, IInv, DrainAwaitsOwn, Queued
  <1>1. /\ g \in Groups
        /\ drain[d] = "active"
        /\ queue[g] # <<>>
        /\ queue' = [queue EXCEPT ![g] = Tail(@)]
        /\ stage' = [stage EXCEPT ![c] = "finished", ![x] = "begun"]
    BY <1>0, EntriesAssumption DEF EndAndTakeNext
  <1>2. c \in Queued /\ GroupOf[c] = g /\ stage[c] \in InProgress
    BY <1>0, <1>1 DEF IInv, DrainAwaitsOwn
  <1>3. \A e \in Entries : e # x /\ e # c => stage'[e] = stage[e]
    BY <1>1 DEF IInv, TypeOK
  <1>4. \A e \in Entries : stage[e] = "queued" /\ e # x => stage'[e] = "queued"
    BY <1>2, <1>3 DEF InProgress
  <1>5. x \in Queued /\ stage[x] = "queued"
    BY <1>1, <1>4, HeadLeaves
  <1>6. \A e \in Executing \ {c} : GroupOf[e] # g
    BY <1>2, OneInProgress DEF Executing, Queued
  <1> HIDE DEF x
  <1>7. x # c /\ stage'[x] = "begun" /\ stage'[c] = "finished"
    BY <1>1, <1>2, <1>5 DEF IInv, TypeOK, Queued, InProgress
  <1>8. /\ c \in Executing
        /\ Executing' = (Executing \ {c}) \cup {x}
        /\ Finished' = Finished \cup {c}
    BY <1>2, <1>3, <1>5, <1>7 DEF Executing, Finished, InProgress, Queued
  <1>9. Serial!Handover(c)
    BY <1>1, <1>2, <1>6, <1>8 DEF Serial!Handover, Executing, Finished, x
  <1> QED BY <1>2, <1>9 DEF Queued

(* The last entry that ends finishes.                                      *)
LEMMA StopFinishes ==
  ASSUME IInv, NEW d \in Entries, EndAndStop(d)
  PROVE  \E c \in Entries \ Recovered : Serial!Finish(c)
  <1>0. PICK c \in Entries : c = current[d]
    BY DEF EndAndStop, IInv, DrainAwaitsOwn, Queued
  <1>1. /\ drain[d] = "active"
        /\ queue[GroupOf[d]] = <<>>
        /\ queue' = queue
        /\ stage' = [stage EXCEPT ![c] = "finished"]
    BY <1>0 DEF EndAndStop
  <1>2. c \in Queued /\ GroupOf[c] = GroupOf[d] /\ stage[c] \in InProgress
    BY <1>0, <1>1 DEF IInv, DrainAwaitsOwn
  <1>3. stage'[c] = "finished" /\ \A e \in Entries \ {c} : stage'[e] = stage[e]
    BY <1>1, <1>2 DEF IInv, TypeOK, Queued
  <1>4. /\ c \in Executing
        /\ Executing' = Executing \ {c}
        /\ Finished' = Finished \cup {c}
    BY <1>2, <1>3 DEF Executing, Finished, InProgress, Queued
  <1>5. Serial!Finish(c)
    BY <1>1, <1>2, <1>4 DEF Serial!Finish, Executing, Finished
  <1> QED BY <1>2, <1>5 DEF Queued

(* Every behaviour of the queue is one of SerialQueue: per group, entries  *)
(* run in order, one at a time, each once, whatever runs beside the queue. *)
THEOREM Refinement == Spec => ImplementsSerialQueue
  <1>1. Init => Serial!SerialInit
    BY DEF Init, Serial!SerialInit, InProgress
  <1>2. IInv /\ [Next]_vars => [Serial!SerialNext]_(Serial!serialVars)
    <2> SUFFICES ASSUME IInv, [Next]_vars
                 PROVE  Serial!SerialNext \/ UNCHANGED Serial!serialVars
      OBVIOUS
    <2>1. ASSUME NEW e \in Entries, Enqueue(e) PROVE Serial!SerialNext
      BY <2>1, EnqueueSubmits DEF Serial!SerialNext
    <2>2. ASSUME NEW d \in Entries, DrainBegins(d) PROVE Serial!SerialNext
      BY <2>2, DrainBeginsStarts DEF Serial!SerialNext
    <2>3. ASSUME NEW d \in Entries, EndStep(d) PROVE Serial!SerialNext
      BY <2>3, TakeNextHandsOver, StopFinishes DEF Serial!SerialNext, EndStep
    <2>4. ASSUME NEW d \in Entries, DrainYields(d) \/ DrainFindsNothing(d)
          PROVE  UNCHANGED Serial!serialVars
      BY <2>4, Stuttering DEF DrainYields, DrainFindsNothing
    <2>5. ASSUME NEW e \in Entries, Recover(e) \/ Fork(e) \/ Attach(e) \/ EndRecovered(e)
          PROVE  UNCHANGED Serial!serialVars
      <3>1. queue' = queue
        BY <2>5 DEF Recover, Fork, Attach, EndRecovered
      <3>2. \A f \in Queued : stage'[f] = stage[f] \/ (stage[f] \in InProgress /\ stage'[f] \in InProgress)
        BY <2>5 DEF Recover, Fork, Attach, EndRecovered, IInv, TypeOK, Queued, InProgress
      <3> QED BY <3>1, <3>2, Stuttering
    <2>6. ASSUME NEW e \in Entries, ChildExit(e) PROVE UNCHANGED Serial!serialVars
      BY <2>6, Stuttering DEF ChildExit
    <2>7. CASE Shutdown \/ ShutdownReturns \/ UNCHANGED vars
      BY <2>7, Stuttering DEF Shutdown, ShutdownReturns, vars
    <2> QED BY <2>1, <2>2, <2>3, <2>4, <2>5, <2>6, <2>7 DEF Next, DrainStep
  <1> QED BY <1>1, <1>2, Invariance, PTL DEF Spec, ImplementsSerialQueue, Serial!SerialSpec
=============================================================================
