---------------------------- MODULE SerialQueue ----------------------------
(***************************************************************************)
(* What secnano's group queue promises to its callers: the entries of a    *)
(* group are executed in the order they were submitted, one at a time,     *)
(* whatever the other groups do.  There is no event loop, no drain         *)
(* coroutine and no running flag here; GroupQueue has them and implements  *)
(* this module.                                                            *)
(***************************************************************************)
EXTENDS Naturals, Sequences

CONSTANTS
  Groups,     \* the chat JIDs that key the queue
  Entries,    \* the calls of enqueue_task, one _QueueEntry each
  GroupOf     \* the group an entry is enqueued for

VARIABLES
  pending,    \* the entries of a group that wait, oldest first
  executing,  \* the entries whose coroutine has begun and not ended
  finished    \* the entries whose coroutine has ended, normally or not

serialVars == <<pending, executing, finished>>

SerialInit ==
  /\ pending = [g \in Groups |-> <<>>]
  /\ executing = {}
  /\ finished = {}

Known(e) ==
  \/ e \in executing \cup finished
  \/ \E g \in Groups : \E i \in 1..Len(pending[g]) : pending[g][i] = e

(* A call hands over a new entry; it only joins the end of its own group. *)
Submit(e) ==
  /\ ~ Known(e)
  /\ pending' = [pending EXCEPT ![GroupOf[e]] = Append(@, e)]
  /\ UNCHANGED <<executing, finished>>

(* The oldest entry of a group begins when no entry of that group runs. *)
Start(g) ==
  /\ pending[g] # <<>>
  /\ \A e \in executing : GroupOf[e] # g
  /\ executing' = executing \cup {Head(pending[g])}
  /\ pending' = [pending EXCEPT ![g] = Tail(@)]
  /\ UNCHANGED finished

(* An entry ends and nothing waits behind it. *)
Finish(e) ==
  /\ e \in executing
  /\ pending[GroupOf[e]] = <<>>
  /\ executing' = executing \ {e}
  /\ finished' = finished \cup {e}
  /\ UNCHANGED pending

(* An entry ends and the next one of its group takes its place at once. *)
Handover(e) ==
  LET g == GroupOf[e] IN
  /\ e \in executing
  /\ pending[g] # <<>>
  /\ \A f \in executing \ {e} : GroupOf[f] # g
  /\ executing' = (executing \ {e}) \cup {Head(pending[g])}
  /\ finished' = finished \cup {e}
  /\ pending' = [pending EXCEPT ![g] = Tail(@)]

SerialNext ==
  \/ \E e \in Entries : Submit(e) \/ Finish(e) \/ Handover(e)
  \/ \E g \in Groups : Start(g)

SerialSpec == SerialInit /\ [][SerialNext]_serialVars
=============================================================================
