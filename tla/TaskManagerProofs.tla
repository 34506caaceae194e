-------------------------- MODULE TaskManagerProofs --------------------------
(***************************************************************************)
(* Proofs about TaskManager for every set of tasks, every limit, every     *)
(* retry budget and every bound.                                           *)
(*                                                                         *)
(* The argument.  Every handler that can free a slot, add a task or raise  *)
(* the limit ends by filling the slots, so one lemma (FillEstablishes)     *)
(* says what filling does to any orderly task states s, runs r and queue q *)
(* that a handler hands to it, and each such handler only has to show that *)
(* what it hands over is orderly (Ready).                                  *)
(***************************************************************************)
EXTENDS TaskManager, QueueLemmas, FiniteSetTheorems, TLAPS

RunStates == {"none", "transfer"} \cup Outcomes

\* Who holds operationMu: an operation that waits for a transfer has put the
\* task to rest before, and only Close works on a closed manager.
Held ==
  /\ op = "close" => closed
  /\ closed => op \in {"free", "close"}
  /\ stopped => closed
  /\ op \in {"pause", "cancel"} =>
       opTask \in Tasks /\ st[opTask] \in {"paused", "canceled"}
  /\ op \in {"free", "close"} => opTask = NoTask /\ ~ signaled

\* A task that waits, for a slot or for a retry, has no transfer.
Idle == \A t \in Tasks : st[t] \in {"queued", "retrying"} => run[t] = "none"

\* Nothing cancels the transfer of a task while the task is downloading.
Undisturbed == \A t \in Tasks : st[t] = "downloading" => run[t] # "canceled"

\* A closed manager has nothing left to start.
Resting ==
  closed =>
    /\ queue = <<>> /\ timer = 0
    /\ \A t \in Tasks : st[t] \notin {"downloading", "retrying"}
    /\ \A t \in Tasks : st[t] = "queued" => sched[t] # 0
    /\ op = "free" => Occupied(run) = {} /\ waiters = {}

\* The inductive invariant.
IInv ==
  /\ TypeOK /\ Held /\ Idle /\ Undisturbed /\ Resting
  /\ RunsAccounted /\ QueueExact /\ RetryArmed /\ WorkConserving

-----------------------------------------------------------------------------
(* Filling the slots, for any s, r and q.                                  *)

\* What the loop needs to know of its inputs.
Fillable(s, r, q) ==
  /\ s \in [Tasks -> States] /\ r \in [Tasks -> RunStates] /\ q \in Seq(Tasks)
  /\ Distinct(q)
  /\ \A t \in ToSet(q) : s[t] = "queued"
  /\ \A t \in Tasks : s[t] \in {"queued", "retrying"} => r[t] = "none"
  /\ sched' \in [Tasks -> 0..MaxTime] /\ now \in 0..MaxTime
  /\ limit' \in Nat

LEMMA ReachedFacts ==
  ASSUME NEW s, NEW r, NEW q, Fillable(s, r, q)
  PROVE  /\ Reached(s, r, q) \subseteq ToSet(q)
         /\ Started(s, r, q) = {t \in Reached(s, r, q) : Due(t)}
         /\ Postponed(s, r, q) = {t \in Reached(s, r, q) : ~ Due(t)}
         /\ Started(s, r, q) \subseteq Tasks
         /\ \A t \in Started(s, r, q) : s[t] = "queued" /\ r[t] = "none" /\ sched'[t] <= now
<1>1. ToSet(q) \subseteq Tasks /\ DOMAIN q = 1..Len(q)
  BY DEF Fillable, ToSet
<1>2. Reached(s, r, q) \subseteq ToSet(q)
  BY <1>1 DEF Reached, ToSet
<1>3. \A t \in ToSet(q) : s[t] = "queued" /\ r[t] = "none"
  BY <1>1 DEF Fillable
<1> HIDE DEF Reached
<1>4. Started(s, r, q) = {t \in Reached(s, r, q) : Due(t)}
  BY <1>2, <1>3 DEF Started, CanStart
<1>5. Postponed(s, r, q) = {t \in Reached(s, r, q) : ~ Due(t)}
  BY <1>2, <1>3 DEF Postponed
<1>6. QED BY <1>1, <1>2, <1>3, <1>4, <1>5 DEF Due

\* The sets of tasks that the loop counts are finite.
LEMMA CountsFinite ==
  ASSUME NEW s, NEW r, NEW q, Fillable(s, r, q)
  PROVE  /\ \A x : IsFiniteSet(Occupied(x)) /\ Cardinality(Occupied(x)) \in Nat
         /\ IsFiniteSet(Started(s, r, q)) /\ Cardinality(Started(s, r, q)) \in Nat
         /\ \A i \in 1..Len(q) : /\ IsFiniteSet(Ahead(s, q, i))
                                /\ Cardinality(Ahead(s, q, i)) \in Nat
<1>1. IsFiniteSet(Tasks)
  BY ConstantsAssumption
<1>2. \A x : Occupied(x) \subseteq Tasks
  BY DEF Occupied
<1>3. Started(s, r, q) \subseteq Tasks
  BY ReachedFacts
<1>4. \A i \in 1..Len(q) : Ahead(s, q, i) \subseteq Tasks
  BY DEF Ahead, Fillable
<1>5. \A x : x \subseteq Tasks => IsFiniteSet(x) /\ Cardinality(x) \in Nat
  BY <1>1, FS_Subset, FS_CardinalityType
<1>6. QED BY <1>2, <1>3, <1>4, <1>5

\* The new runs are the old ones and those of the started tasks.
LEMMA FilledRuns ==
  ASSUME NEW s, NEW r, NEW q, Fillable(s, r, q), FillSlots(s, r, q)
  PROVE  /\ Occupied(run') = Occupied(r) \cup Started(s, r, q)
         /\ Cardinality(Occupied(run'))
              = Cardinality(Occupied(r)) + Cardinality(Started(s, r, q))
<1>1. run' = [t \in Tasks |-> IF t \in Started(s, r, q) THEN "transfer" ELSE r[t]]
  BY DEF FillSlots
<1>2. /\ Started(s, r, q) \subseteq Tasks
      /\ \A t \in Started(s, r, q) : r[t] = "none"
  BY ReachedFacts
<1>3. Occupied(run') = Occupied(r) \cup Started(s, r, q)
  BY <1>1, <1>2 DEF Occupied
<1>4. Occupied(r) \cap Started(s, r, q) = {}
  BY <1>2 DEF Occupied
<1>5. IsFiniteSet(Occupied(r)) /\ IsFiniteSet(Started(s, r, q))
  BY CountsFinite
<1>6. Cardinality(Occupied(r) \cup Started(s, r, q))
        = Cardinality(Occupied(r)) + Cardinality(Started(s, r, q))
          - Cardinality(Occupied(r) \cap Started(s, r, q))
  BY <1>5, FS_Union
<1>7. QED
  <2>1. Cardinality(Occupied(r) \cap Started(s, r, q)) = 0
    BY <1>4, FS_EmptySet
  <2>2. QED BY <1>3, <1>6, <2>1, CountsFinite

\* What is left in the queue: the tasks that were not started.
LEMMA FilledQueue ==
  ASSUME NEW s, NEW r, NEW q, Fillable(s, r, q), FillSlots(s, r, q)
  PROVE  /\ queue' \in Seq(Tasks) /\ Distinct(queue')
         /\ ToSet(queue') = ToSet(q) \ Started(s, r, q)
<1> DEFINE first == KeepOnly(q, Tasks \ Reached(s, r, q))
           last  == KeepOnly(q, Postponed(s, r, q))
<1>1. q \in Seq(Tasks) /\ Distinct(q) /\ ToSet(q) \subseteq Tasks
  BY DEF Fillable, ToSet
<1>2. /\ first \in Seq(Tasks) /\ ToSet(first) = ToSet(q) \cap (Tasks \ Reached(s, r, q))
      /\ Distinct(first)
  BY <1>1, KeepOnlyElems, KeepOnlyDistinct
<1>3. /\ last \in Seq(Tasks) /\ ToSet(last) = ToSet(q) \cap Postponed(s, r, q)
      /\ Distinct(last)
  BY <1>1, KeepOnlyElems, KeepOnlyDistinct
<1>4. queue' = first \o last
  BY DEF FillSlots
<1> HIDE DEF first, last
<1>5. /\ Started(s, r, q) = {t \in Reached(s, r, q) : Due(t)}
      /\ Postponed(s, r, q) = {t \in Reached(s, r, q) : ~ Due(t)}
  BY ReachedFacts
<1>6. ToSet(first) \cap ToSet(last) = {}
  BY <1>2, <1>3, <1>5
<1>7. /\ queue' \in Seq(Tasks) /\ Distinct(queue')
      /\ ToSet(queue') = ToSet(first) \cup ToSet(last)
  BY <1>2, <1>3, <1>4, <1>6, JoinElems
<1>8. QED BY <1>1, <1>2, <1>3, <1>5, <1>7

\* A position of the queue that the loop does not get to finds every slot taken.
LEMMA NotReached ==
  ASSUME NEW s, NEW r, NEW q, Fillable(s, r, q), FillSlots(s, r, q),
         NEW t \in ToSet(q), t \notin Reached(s, r, q)
  PROVE  Cardinality(Occupied(run')) >= limit'
<1> DEFINE Within(i) == Cardinality(Occupied(r)) + Cardinality(Ahead(s, q, i)) < limit'
           Ends == {i \in 1..Len(q) : ~ Within(i)}
<1>1. Reached(s, r, q) = {q[i] : i \in {k \in 1..Len(q) : Within(k)}}
  BY DEF Reached
<1>2. PICK i \in 1..Len(q) : q[i] = t
  <2>1. DOMAIN q = 1..Len(q)
    BY DEF Fillable
  <2>2. QED BY <2>1, Zenon DEF ToSet
<1> HIDE DEF Within
<1>3. Ends # {} /\ Ends \in SUBSET Nat
  BY <1>1, <1>2
<1>4. PICK m \in Ends : \A j \in Ends : m <= j
  <2> HIDE DEF Ends
  <2>1. QED BY <1>3, LeastElement
<1>5. \A j \in 1..(m - 1) : q[j] \in Reached(s, r, q)
  <2>1. TAKE j \in 1..(m - 1)
  <2>2. j \in 1..Len(q) /\ j \notin Ends
    BY <1>4
  <2>3. QED BY <1>1, <2>2
<1>6. Ahead(s, q, m) \subseteq Started(s, r, q)
  BY <1>5 DEF Ahead, Started
<1>7. /\ IsFiniteSet(Started(s, r, q)) /\ Cardinality(Started(s, r, q)) \in Nat
      /\ Cardinality(Ahead(s, q, m)) \in Nat
      /\ Cardinality(Occupied(r)) \in Nat /\ limit' \in Nat
  BY <1>4, CountsFinite DEF Fillable
<1>8. Cardinality(Ahead(s, q, m)) <= Cardinality(Started(s, r, q))
  BY <1>6, <1>7, FS_Subset
<1>9. ~ (Cardinality(Occupied(r)) + Cardinality(Ahead(s, q, m)) < limit')
  BY <1>4 DEF Within
<1>10. QED BY <1>7, <1>8, <1>9, FilledRuns

\* Filling leaves no slot free while a task without a schedule waits.
LEMMA FilledConserving ==
  ASSUME NEW s, NEW r, NEW q, Fillable(s, r, q), FillSlots(s, r, q),
         NEW t \in ToSet(queue'), sched'[t] = 0
  PROVE  Cardinality(Occupied(run')) >= limit'
<1>1. t \in ToSet(q) \ Started(s, r, q)
  BY FilledQueue
<1>2. Due(t)
  BY DEF Due, Fillable
<1>3. t \notin Reached(s, r, q)
  BY <1>1, <1>2, ReachedFacts
<1>4. QED BY <1>1, <1>3, NotReached

\* A filling that starts a task stays within the limit.
LEMMA FilledWithinLimit ==
  ASSUME NEW s, NEW r, NEW q, Fillable(s, r, q), FillSlots(s, r, q),
         Started(s, r, q) # {}
  PROVE  Cardinality(Occupied(run')) <= limit'
<1> DEFINE Within(i) == Cardinality(Occupied(r)) + Cardinality(Ahead(s, q, i)) < limit'
           Starts == {i \in 1..Len(q) : Within(i) /\ CanStart(s, q[i])}
           Rests == {n \in Nat : \E i \in Starts : n = Len(q) - i}
<1>1. Started(s, r, q) = {q[i] : i \in Starts}
  BY DEF Started, Reached
<1>2. /\ Len(q) \in Nat
      /\ \A i \in Starts : i \in 1..Len(q) /\ CanStart(s, q[i])
                           /\ Cardinality(Occupied(r)) + Cardinality(Ahead(s, q, i)) < limit'
  BY DEF Fillable
<1> HIDE DEF Within, Starts
<1>3. Rests # {} /\ Rests \in SUBSET Nat
  <2>1. PICK i \in Starts : TRUE
    BY <1>1
  <2>2. Len(q) - i \in Rests
    BY <1>2
  <2>3. QED BY <2>2
<1>4. PICK n \in Rests : \A m \in Rests : n <= m
  <2> HIDE DEF Rests
  <2>1. QED BY <1>3, LeastElement
<1>5. PICK k \in Starts : n = Len(q) - k
  BY <1>4
<1>6. \A i \in Starts : i <= k
  <2>1. TAKE i \in Starts
  <2>2. Len(q) - i \in Rests
    BY <1>2
  <2>3. Len(q) - k <= Len(q) - i
    BY <1>4, <1>5, <2>2
  <2>4. i \in 1..Len(q) /\ k \in 1..Len(q)
    BY <1>2
  <2> HIDE DEF Rests
  <2>5. QED BY <1>2, <2>3, <2>4
<1>7. Started(s, r, q) \subseteq Ahead(s, q, k) \cup {q[k]}
  <2>1. ASSUME NEW i \in Starts PROVE q[i] \in Ahead(s, q, k) \cup {q[k]}
    <3>1. i \in 1..Len(q) /\ k \in 1..Len(q) /\ i <= k /\ CanStart(s, q[i])
      BY <1>2, <1>6
    <3>2. i = k \/ i \in 1..(k - 1)
      BY <3>1
    <3>3. QED BY <3>1, <3>2 DEF Ahead
  <2>2. QED BY <1>1, <2>1
<1>8. Cardinality(Started(s, r, q)) <= Cardinality(Ahead(s, q, k)) + 1
  <2>1. /\ IsFiniteSet(Ahead(s, q, k)) /\ Cardinality(Ahead(s, q, k)) \in Nat
        /\ Cardinality(Started(s, r, q)) \in Nat
    BY <1>2, CountsFinite
  <2>2. /\ IsFiniteSet(Ahead(s, q, k) \cup {q[k]})
        /\ \/ Cardinality(Ahead(s, q, k) \cup {q[k]}) = Cardinality(Ahead(s, q, k))
           \/ Cardinality(Ahead(s, q, k) \cup {q[k]}) = Cardinality(Ahead(s, q, k)) + 1
    BY <2>1, FS_AddElement
  <2>3. Cardinality(Started(s, r, q)) <= Cardinality(Ahead(s, q, k) \cup {q[k]})
    BY <1>7, <2>2, FS_Subset
  <2>4. QED BY <2>1, <2>2, <2>3
<1>9. /\ Cardinality(Occupied(r)) + Cardinality(Ahead(s, q, k)) < limit'
      /\ Cardinality(Ahead(s, q, k)) \in Nat /\ Cardinality(Started(s, r, q)) \in Nat
      /\ Cardinality(Occupied(r)) \in Nat
      /\ limit' \in Nat
  BY <1>2, CountsFinite DEF Fillable
<1>10. QED BY <1>8, <1>9, FilledRuns

-----------------------------------------------------------------------------
(* Handlers that fill the slots.                                           *)

\* What a handler of an open manager hands to the filling: its own update s,
\* r and q is orderly, together with what it made of the other variables.
Ready(s, r, q) ==
  /\ Fillable(s, r, q)
  /\ \A t \in Tasks \ BT : s[t] = "queued" => t \in ToSet(q)
  /\ \A t \in Tasks : s[t] = "downloading" => r[t] \notin {"none", "canceled"}
  /\ \A t \in Tasks : r[t] # "none" /\ s[t] # "downloading" => opTask' = t
  /\ \A t \in Tasks : s[t] = "retrying" => <<t, nextRetry'[t]>> \in waiters'
  /\ op' \in {"pause", "cancel"} =>
       opTask' \in Tasks /\ s[opTask'] \in {"paused", "canceled"}

\* The variables that the filling reads at most.
OthersTyped ==
  /\ retryCount \in [Tasks -> Nat]
  /\ \A t \in Tasks : \E m \in RetryLimits : retryCount[t] <= m
  /\ nextRetry \in [Tasks -> Stamps \cup {0}]
  /\ waiters \subseteq Tasks \X Stamps
  /\ retryable \in [Tasks -> BOOLEAN]
  /\ sched \in [Tasks -> 0..MaxTime]
  /\ limit \in Limits /\ maxRetries \in RetryLimits

\* operationMu, on an open manager.
OpenHeld ==
  /\ closed = FALSE /\ stopped = FALSE
  /\ op \in {"free", "pause", "cancel"}
  /\ opTask \in Tasks \cup {NoTask} /\ signaled \in BOOLEAN
  /\ op = "free" => opTask = NoTask /\ ~ signaled

\* Filling makes a state orderly if what it was given is.
LEMMA FillEstablishes ==
  ASSUME NEW s, NEW r, NEW q, Ready(s, r, q), FillSlots(s, r, q),
         OthersTyped', OpenHeld'
  PROVE  IInv'
<1>1. Fillable(s, r, q)
  BY DEF Ready
<1>2. /\ st' = [t \in Tasks |-> IF t \in Started(s, r, q) THEN "downloading" ELSE s[t]]
      /\ run' = [t \in Tasks |-> IF t \in Started(s, r, q) THEN "transfer" ELSE r[t]]
      /\ now' \in 0..MaxTime /\ timer' \in 0..MaxTime
  <2>1. now \in 0..MaxTime /\ MaxTime \in Nat
    BY <1>1, ConstantsAssumption DEF Fillable
  <2>2. QED BY <2>1 DEF FillSlots, RefreshTimer
<1>3. /\ Started(s, r, q) \subseteq Tasks
      /\ \A t \in Started(s, r, q) : s[t] = "queued" /\ r[t] = "none"
  BY <1>1, ReachedFacts
<1>4. /\ queue' \in Seq(Tasks) /\ Distinct(queue')
      /\ ToSet(queue') = ToSet(q) \ Started(s, r, q)
  BY <1>1, FilledQueue
<1>5. \A t \in Tasks :
        \/ t \notin Started(s, r, q) /\ st'[t] = s[t] /\ run'[t] = r[t]
        \/ /\ t \in Started(s, r, q) /\ s[t] = "queued" /\ r[t] = "none"
           /\ st'[t] = "downloading" /\ run'[t] = "transfer"
  BY <1>2, <1>3
<1>6. TypeOK'
  <2>1. st' \in [Tasks -> States] /\ run' \in [Tasks -> RunStates]
    BY <1>1, <1>2 DEF Fillable, States, RunStates
  <2>2. QED BY <1>2, <1>4, <2>1 DEF TypeOK, OthersTyped, OpenHeld, RunStates
<1>7. Held'
  BY <1>5 DEF Held, OpenHeld, Ready
<1>8. Idle'
  BY <1>1, <1>5 DEF Idle, Fillable
<1>9. Resting' /\ Undisturbed'
  BY <1>5 DEF Resting, Undisturbed, OpenHeld, Ready
<1>10. RunsAccounted'
  BY <1>5 DEF RunsAccounted, Ready
<1>11. QueueExact'
  <2>1. ToSet(q) \subseteq Tasks
    BY <1>1 DEF Fillable, ToSet
  <2>2. \A t \in ToSet(queue') : st'[t] = "queued"
    BY <1>1, <1>4, <1>5, <2>1 DEF Fillable
  <2>3. \A t \in Tasks \ BT : st'[t] = "queued" => t \in ToSet(queue')
    BY <1>4, <1>5 DEF Ready
  <2>4. QED BY <1>4, <2>2, <2>3 DEF QueueExact
<1>12. RetryArmed'
  BY <1>5 DEF RetryArmed, Ready
<1>13. WorkConserving'
  BY <1>1, FilledConserving DEF WorkConserving
<1>14. QED
  BY <1>6, <1>7, <1>8, <1>9, <1>10, <1>11, <1>12, <1>13 DEF IInv

LEMMA DequeueFacts ==
  ASSUME NEW q \in Seq(Tasks), NEW t \in Tasks, Distinct(q)
  PROVE  /\ Dequeue(q, t) \in Seq(Tasks) /\ Distinct(Dequeue(q, t))
         /\ ToSet(Dequeue(q, t)) = ToSet(q) \ {t}
<1>1. ToSet(q) \subseteq Tasks
  BY DEF ToSet
<1>2. QED BY <1>1, KeepOnlyElems, KeepOnlyDistinct DEF Dequeue

LEMMA EnqueueFacts ==
  ASSUME NEW q \in Seq(Tasks), NEW t \in Tasks, Distinct(q)
  PROVE  /\ Enqueue(q, t) \in Seq(Tasks) /\ Distinct(Enqueue(q, t))
         /\ ToSet(Enqueue(q, t)) = ToSet(q) \cup {t}
<1>1. t \notin ToSet(Dequeue(q, t))
  BY DequeueFacts
<1>2. QED BY <1>1, DequeueFacts, AppendElems DEF Enqueue

\* The waiters that the retrying tasks other than t need are still there.
KeepsWaiters(t) ==
  \A u \in Tasks \ {t} :
    /\ nextRetry'[u] = nextRetry[u]
    /\ <<u, nextRetry[u]>> \in waiters => <<u, nextRetry[u]>> \in waiters'

\* The three kinds of handler that fill the slots.  A task that has no transfer
\* joins the queue.
Joins(t) ==
  /\ ~ closed /\ run[t] = "none" /\ opTask # t
  /\ st[t] \in {"absent", "paused", "failed", "retrying"}
  /\ st[t] = "retrying" => <<t, nextRetry[t]>> \in waiters \ waiters'
  /\ OthersTyped' /\ KeepsWaiters(t)
  /\ \A u \in Tasks \ {t} : sched'[u] = sched[u]
  /\ UNCHANGED <<closeVars, opVars>>
  /\ Fill([st EXCEPT ![t] = "queued"], run, Enqueue(queue, t))

\* A transfer ends: its slot is free and its task, if it still waits for the
\* result, moves on.
Ends(t, state) ==
  /\ ~ closed /\ run[t] # "none"
  /\ \/ st[t] = "downloading" /\ state \in {"retrying", "completed", "failed"}
     \/ st[t] \in States \ {"queued", "downloading", "retrying"} /\ state = st[t]
  /\ state = "retrying" => <<t, nextRetry'[t]>> \in waiters'
  /\ OthersTyped' /\ KeepsWaiters(t)
  /\ UNCHANGED <<sched, closeVars, opVars>>
  /\ Fill([st EXCEPT ![t] = state], [run EXCEPT ![t] = "none"], queue)

\* Nothing else happens to the tasks.
Refills ==
  /\ ~ closed
  /\ OthersTyped'
  /\ UNCHANGED <<nextRetry, waiters, sched, closeVars, opVars>>
  /\ Fill(st, run, queue)

\* What every such handler provides.
Filled(s, r, q) == Ready(s, r, q) /\ FillSlots(s, r, q) /\ OthersTyped' /\ OpenHeld'

LEMMA OpenHeldKept ==
  ASSUME IInv, ~ closed, UNCHANGED <<closeVars, opVars>>
  PROVE  OpenHeld'
BY DEF IInv, TypeOK, Held, OpenHeld, closeVars, opVars

LEMMA SettingsTyped ==
  ASSUME IInv, OthersTyped'
  PROVE  limit' \in Nat /\ now \in 0..MaxTime /\ sched' \in [Tasks -> 0..MaxTime]
BY ConstantsAssumption DEF OthersTyped, IInv, TypeOK

LEMMA JoinFilled ==
  ASSUME IInv, NEW t \in Tasks, Joins(t)
  PROVE  Filled([st EXCEPT ![t] = "queued"], run, Enqueue(queue, t))
<1> DEFINE s == [st EXCEPT ![t] = "queued"]
           q == Enqueue(queue, t)
<1>1. /\ q \in Seq(Tasks) /\ Distinct(q)
      /\ ToSet(q) = ToSet(queue) \cup {t}
  BY EnqueueFacts DEF IInv, TypeOK, QueueExact
<1>2. /\ s \in [Tasks -> States] /\ s[t] = "queued"
      /\ \A u \in Tasks \ {t} : s[u] = st[u]
  BY DEF IInv, TypeOK, States
<1>3. OpenHeld' /\ OthersTyped'
  BY OpenHeldKept DEF Joins
<1>4. FillSlots(s, run, q)
  BY DEF Joins, Fill
<1> HIDE DEF s, q
<1>5. Fillable(s, run, q)
  <2>1. ToSet(queue) \subseteq Tasks
    BY DEF IInv, TypeOK, ToSet
  <2>2. \A u \in ToSet(q) : s[u] = "queued"
    BY <1>1, <1>2, <2>1 DEF IInv, QueueExact
  <2>3. \A u \in Tasks : s[u] \in {"queued", "retrying"} => run[u] = "none"
    BY <1>2 DEF IInv, Idle, Joins
  <2>4. QED
    BY <1>1, <1>2, <1>3, <2>2, <2>3, SettingsTyped DEF Fillable, IInv, TypeOK, RunStates
<1>6. Ready(s, run, q)
  <2>1. \A u \in Tasks \ BT : s[u] = "queued" => u \in ToSet(q)
    BY <1>1, <1>2 DEF IInv, QueueExact, Joins
  <2>2. \A u \in Tasks : s[u] = "downloading" => run[u] \notin {"none", "canceled"}
    BY <1>2 DEF IInv, RunsAccounted, Undisturbed
  <2>3. \A u \in Tasks : run[u] # "none" /\ s[u] # "downloading" => opTask' = u
    BY <1>2, <1>3 DEF IInv, RunsAccounted, OpenHeld, opVars, Joins
  <2>4. \A u \in Tasks : s[u] = "retrying" => <<u, nextRetry'[u]>> \in waiters'
    BY <1>2 DEF IInv, RetryArmed, KeepsWaiters, Joins
  <2>5. op' \in {"pause", "cancel"} =>
          opTask' \in Tasks /\ s[opTask'] \in {"paused", "canceled"}
    BY <1>2 DEF IInv, Held, opVars, Joins
  <2>6. QED BY <1>5, <2>1, <2>2, <2>3, <2>4, <2>5 DEF Ready
<1>7. QED BY <1>3, <1>4, <1>6 DEF Filled, s, q

LEMMA EndFilled ==
  ASSUME IInv, NEW t \in Tasks, NEW state, Ends(t, state)
  PROVE  Filled([st EXCEPT ![t] = state], [run EXCEPT ![t] = "none"], queue)
<1> DEFINE s == [st EXCEPT ![t] = state]
           r == [run EXCEPT ![t] = "none"]
<1>1. /\ s \in [Tasks -> States] /\ s[t] = state
      /\ \A u \in Tasks \ {t} : s[u] = st[u]
      /\ state \notin {"queued", "downloading"}
  BY DEF IInv, TypeOK, Ends, States
<1>2. /\ r \in [Tasks -> RunStates] /\ r[t] = "none"
      /\ \A u \in Tasks \ {t} : r[u] = run[u]
  BY DEF IInv, TypeOK, RunStates
<1>3. OpenHeld' /\ OthersTyped'
  BY OpenHeldKept DEF Ends
<1>4. FillSlots(s, r, queue)
  BY DEF Ends, Fill
<1> HIDE DEF s, r
<1>5. t \notin ToSet(queue)
  BY DEF IInv, QueueExact, Ends
<1>6. Fillable(s, r, queue)
  <2>1. ToSet(queue) \subseteq Tasks
    BY DEF IInv, TypeOK, ToSet
  <2>2. \A u \in ToSet(queue) : s[u] = "queued"
    BY <1>1, <1>5, <2>1 DEF IInv, QueueExact
  <2>3. \A u \in Tasks : s[u] \in {"queued", "retrying"} => r[u] = "none"
    BY <1>1, <1>2 DEF IInv, Idle
  <2>4. QED
    BY <1>1, <1>2, <1>3, <2>2, <2>3, SettingsTyped DEF Fillable, IInv, TypeOK, QueueExact
<1>7. Ready(s, r, queue)
  <2>1. \A u \in Tasks \ BT : s[u] = "queued" => u \in ToSet(queue)
    BY <1>1 DEF IInv, QueueExact, Ends
  <2>2. \A u \in Tasks : s[u] = "downloading" => r[u] \notin {"none", "canceled"}
    BY <1>1, <1>2 DEF IInv, RunsAccounted, Undisturbed
  <2>3. \A u \in Tasks : r[u] # "none" /\ s[u] # "downloading" => opTask' = u
    BY <1>1, <1>2, <1>3 DEF IInv, RunsAccounted, OpenHeld, opVars, Ends
  <2>4. \A u \in Tasks : s[u] = "retrying" => <<u, nextRetry'[u]>> \in waiters'
    BY <1>1 DEF IInv, RetryArmed, KeepsWaiters, Ends
  <2>5. op' \in {"pause", "cancel"} =>
          opTask' \in Tasks /\ s[opTask'] \in {"paused", "canceled"}
    BY <1>1 DEF IInv, Held, opVars, Ends
  <2>6. QED BY <1>6, <2>1, <2>2, <2>3, <2>4, <2>5 DEF Ready
<1>8. QED BY <1>3, <1>4, <1>7 DEF Filled, s, r

LEMMA RefillFilled ==
  ASSUME IInv, Refills
  PROVE  Filled(st, run, queue)
<1>1. OpenHeld' /\ OthersTyped' /\ FillSlots(st, run, queue)
  BY OpenHeldKept DEF Refills, Fill
<1>2. Fillable(st, run, queue)
  BY <1>1, SettingsTyped DEF Fillable, IInv, TypeOK, RunStates, Idle, QueueExact
<1>3. Ready(st, run, queue)
  BY <1>1, <1>2 DEF Ready, IInv, QueueExact, RunsAccounted, Undisturbed, RetryArmed,
                    Held, OpenHeld, opVars, Refills
<1>4. QED BY <1>1, <1>3 DEF Filled

LEMMA FilledEstablishes ==
  ASSUME NEW s, NEW r, NEW q, Filled(s, r, q)
  PROVE  IInv'
BY FillEstablishes DEF Filled

-----------------------------------------------------------------------------
(* Operations.                                                             *)

\* Between operations, a task that is not downloading has no transfer.
LEMMA OperatingFacts ==
  ASSUME IInv, Operating
  PROVE  /\ \A t \in Tasks : opTask # t
         /\ \A t \in Tasks : st[t] # "downloading" => run[t] = "none"
BY ConstantsAssumption DEF IInv, Held, RunsAccounted, Operating

\* A handler that leaves each retry count alone or resets it respects the budgets.
LEMMA BudgetsKept ==
  ASSUME IInv, \A u \in Tasks : retryCount'[u] \in {0, retryCount[u]}
  PROVE  \A u \in Tasks : \E m \in RetryLimits : retryCount'[u] <= m
<1>1. TAKE u \in Tasks
<1>2. PICK m \in RetryLimits : retryCount[u] <= m
  BY DEF IInv, TypeOK
<1>3. retryCount'[u] <= m
  BY <1>2, ConstantsAssumption
<1>4. QED BY <1>3

LEMMA CreateJoins ==
  ASSUME IInv, NEW t \in Tasks, NEW at \in 0..MaxTime, Create(t, at)
  PROVE  Joins(t)
<1>1. run[t] = "none" /\ opTask # t
  BY OperatingFacts DEF Create
<1>2. OthersTyped'
  BY DEF IInv, TypeOK, OthersTyped, Create, retryVars, settingVars
<1>3. KeepsWaiters(t)
  BY DEF KeepsWaiters, Create, retryVars
<1>4. \A u \in Tasks \ {t} : sched'[u] = sched[u]
  BY DEF IInv, TypeOK, Create
<1>5. QED BY <1>1, <1>2, <1>3, <1>4 DEF Joins, Create, Operating

LEMMA CreateBTJoins ==
  ASSUME IInv, NEW t \in Tasks, CreateBT(t)
  PROVE  Joins(t)
<1>1. run[t] = "none" /\ opTask # t
  BY OperatingFacts DEF CreateBT
<1>2. OthersTyped'
  BY DEF IInv, TypeOK, OthersTyped, CreateBT, retryVars, settingVars
<1>3. KeepsWaiters(t)
  BY DEF KeepsWaiters, CreateBT, retryVars
<1>4. \A u \in Tasks \ {t} : sched'[u] = sched[u]
  BY DEF IInv, TypeOK, CreateBT
<1>5. QED BY <1>1, <1>2, <1>3, <1>4 DEF Joins, CreateBT, Operating

LEMMA ResumeJoins ==
  ASSUME IInv, NEW t \in Tasks, Resume(t)
  PROVE  Joins(t)
<1>1. run[t] = "none" /\ opTask # t
  BY OperatingFacts DEF Resume
<1>2. OthersTyped'
  <2>1. \A u \in Tasks : retryCount'[u] \in {0, retryCount[u]}
    BY DEF IInv, TypeOK, Resume
  <2>2. \A u \in Tasks : \E m \in RetryLimits : retryCount'[u] <= m
    BY <2>1, BudgetsKept
  <2>3. QED BY <2>2, ConstantsAssumption DEF IInv, TypeOK, OthersTyped, Resume, settingVars
<1>3. KeepsWaiters(t)
  BY DEF KeepsWaiters, Resume
<1>4. \A u \in Tasks \ {t} : sched'[u] = sched[u]
  BY DEF IInv, TypeOK, Resume
<1>5. QED BY <1>1, <1>2, <1>3, <1>4 DEF Joins, Resume, Operating

LEMMA ResumeBTJoins ==
  ASSUME IInv, NEW t \in Tasks, ResumeBT(t)
  PROVE  Joins(t)
<1>1. run[t] = "none" /\ opTask # t
  BY OperatingFacts DEF ResumeBT
<1>2. OthersTyped'
  BY DEF IInv, TypeOK, OthersTyped, ResumeBT, retryVars, settingVars
<1>3. KeepsWaiters(t)
  BY DEF KeepsWaiters, ResumeBT, retryVars
<1>4. \A u \in Tasks \ {t} : sched'[u] = sched[u]
  BY DEF IInv, TypeOK, ResumeBT
<1>5. QED BY <1>1, <1>2, <1>3, <1>4 DEF Joins, ResumeBT, Operating

LEMMA RetryJoins ==
  ASSUME IInv, NEW t \in Tasks, Retry(t)
  PROVE  Joins(t)
<1>1. run[t] = "none" /\ opTask # t
  BY OperatingFacts DEF Retry
<1>2. OthersTyped'
  <2>1. \A u \in Tasks : retryCount'[u] \in {0, retryCount[u]}
    BY DEF IInv, TypeOK, Retry
  <2>2. \A u \in Tasks : \E m \in RetryLimits : retryCount'[u] <= m
    BY <2>1, BudgetsKept
  <2>3. QED BY <2>2, ConstantsAssumption DEF IInv, TypeOK, OthersTyped, Retry, settingVars
<1>3. KeepsWaiters(t)
  BY DEF KeepsWaiters, Retry
<1>4. \A u \in Tasks \ {t} : sched'[u] = sched[u]
  BY DEF IInv, TypeOK, Retry
<1>5. QED BY <1>1, <1>2, <1>3, <1>4 DEF Joins, Retry, Operating

LEMMA InterruptKeeps ==
  ASSUME IInv, NEW t \in Tasks, NEW kind, NEW state,
         <<kind, state>> \in {<<"pause", "paused">>, <<"cancel", "canceled">>},
         Interrupt(t, kind, state)
  PROVE  IInv'
<1>1. /\ ~ closed /\ ~ stopped /\ op = "free" /\ opTask = NoTask /\ ~ signaled
      /\ UNCHANGED <<run, retryCount, waiters, retryable, sched, limit, maxRetries,
                     closed, stopped>>
  BY DEF IInv, Held, Interrupt, Operating, settingVars, closeVars
<1>2. /\ queue' \in Seq(Tasks) /\ Distinct(queue')
      /\ ToSet(queue') = ToSet(queue) \ {t}
  BY DequeueFacts DEF IInv, TypeOK, QueueExact, Interrupt
<1>3. /\ st' \in [Tasks -> States] /\ st'[t] = state /\ state \in {"paused", "canceled"}
      /\ \A u \in Tasks \ {t} : st'[u] = st[u]
  BY DEF IInv, TypeOK, Interrupt, States
<1>4. /\ nextRetry' \in [Tasks -> Stamps \cup {0}]
      /\ \A u \in Tasks \ {t} : nextRetry'[u] = nextRetry[u]
  BY DEF IInv, TypeOK, Interrupt
<1>5. now' \in 0..MaxTime /\ timer' \in 0..MaxTime
  BY ConstantsAssumption DEF IInv, TypeOK, Interrupt, RefreshTimer
<1>6. \/ run[t] # "none" /\ op' = kind /\ opTask' = t /\ signaled' = FALSE
      \/ run[t] = "none" /\ UNCHANGED <<op, opTask, signaled>>
  BY DEF Interrupt, Awaits, opVars
<1>7. TypeOK'
  BY <1>1, <1>2, <1>3, <1>4, <1>5, <1>6 DEF IInv, TypeOK
<1>8. Held'
  BY <1>1, <1>3, <1>6 DEF Held
<1>9. Idle' /\ Undisturbed'
  BY <1>1, <1>3 DEF IInv, Idle, Undisturbed
<1>10. Resting'
  BY <1>1 DEF Resting
<1>11. RunsAccounted'
  BY <1>1, <1>3, <1>6, ConstantsAssumption DEF IInv, RunsAccounted
<1>12. QueueExact'
  <2>1. ToSet(queue) \subseteq Tasks
    BY DEF IInv, TypeOK, ToSet
  <2>2. QED BY <1>1, <1>2, <1>3, <2>1 DEF IInv, QueueExact
<1>13. RetryArmed'
  BY <1>1, <1>3, <1>4 DEF IInv, RetryArmed
<1>14. WorkConserving'
  BY <1>1, <1>2 DEF IInv, WorkConserving, Occupied
<1>15. QED
  BY <1>7, <1>8, <1>9, <1>10, <1>11, <1>12, <1>13, <1>14 DEF IInv

LEMMA PauseKeeps ==
  ASSUME IInv, NEW t \in Tasks, Pause(t)
  PROVE  IInv'
BY InterruptKeeps DEF Pause

LEMMA CancelKeeps ==
  ASSUME IInv, NEW t \in Tasks, Cancel(t)
  PROVE  IInv'
BY InterruptKeeps DEF Cancel

LEMMA SignalRunKeeps ==
  ASSUME IInv, SignalRun
  PROVE  IInv'
BY DEF IInv, SignalRun, slotVars, retryVars, settingVars, closeVars,
       TypeOK, Held, Idle, Undisturbed, Resting, RunsAccounted, QueueExact, RetryArmed,
       WorkConserving, Occupied

LEMMA OperationEndKeeps ==
  ASSUME IInv, OperationEnd
  PROVE  IInv'
<1>1. RunsAccounted'
  BY DEF IInv, OperationEnd, slotVars, RunsAccounted
<1>2. Held'
  BY DEF IInv, OperationEnd, slotVars, closeVars, Held
<1>3. QED
  BY <1>1, <1>2
     DEF IInv, OperationEnd, slotVars, retryVars, settingVars, closeVars,
         TypeOK, Held, Idle, Undisturbed, Resting, QueueExact, RetryArmed, WorkConserving,
         Occupied

LEMMA ResumeUnsavedKeeps ==
  ASSUME IInv, NEW t \in Tasks, ResumeUnsaved(t)
  PROVE  IInv'
<1>1. /\ ~ closed /\ st[t] = "paused"
      /\ UNCHANGED <<st, queue, run, now, timer, nextRetry, waiters, retryable,
                     limit, maxRetries, closed, stopped, op, opTask, signaled>>
  BY DEF ResumeUnsaved, Operating, slotVars, settingVars, closeVars, opVars
<1>2. /\ sched' \in [Tasks -> 0..MaxTime]
      /\ \A u \in Tasks \ {t} : sched'[u] = sched[u]
  BY ConstantsAssumption DEF IInv, TypeOK, ResumeUnsaved
<1>3. TypeOK'
  <2>1. \A u \in Tasks : retryCount'[u] \in {0, retryCount[u]}
    BY DEF IInv, TypeOK, ResumeUnsaved
  <2>2. \A u \in Tasks : \E m \in RetryLimits : retryCount'[u] <= m
    BY <2>1, BudgetsKept
  <2>3. retryCount' \in [Tasks -> Nat]
    BY DEF IInv, TypeOK, ResumeUnsaved
  <2>4. QED BY <1>1, <1>2, <2>2, <2>3 DEF IInv, TypeOK
<1>4. WorkConserving'
  <2>1. ToSet(queue) \subseteq Tasks
    BY DEF IInv, TypeOK, ToSet
  <2>2. t \notin ToSet(queue)
    BY <1>1 DEF IInv, QueueExact
  <2>3. QED BY <1>1, <1>2, <2>1, <2>2 DEF IInv, WorkConserving, Occupied
<1>5. QED
  BY <1>1, <1>3, <1>4
     DEF IInv, Held, Idle, Undisturbed, Resting, RunsAccounted, QueueExact, RetryArmed

LEMMA ResumeBTUnsavedKeeps ==
  ASSUME IInv, NEW t \in Tasks, ResumeBTUnsaved(t)
  PROVE  IInv'
<1>1. /\ ~ closed /\ op = "free" /\ t \in BT /\ st[t] = "paused" /\ run[t] = "none"
      /\ UNCHANGED <<queue, run, now, timer, retryCount, nextRetry, waiters, retryable,
                     sched, limit, maxRetries, closed, stopped, op, opTask, signaled>>
  BY OperatingFacts
     DEF ResumeBTUnsaved, Operating, retryVars, settingVars, closeVars, opVars
<1>2. /\ st' \in [Tasks -> States] /\ st'[t] = "queued"
      /\ \A u \in Tasks \ {t} : st'[u] = st[u]
  BY DEF IInv, TypeOK, ResumeBTUnsaved, States
<1>3. QueueExact'
  <2>1. ToSet(queue) \subseteq Tasks
    BY DEF IInv, TypeOK, ToSet
  <2>2. QED BY <1>1, <1>2, <2>1 DEF IInv, QueueExact
<1>4. QED
  BY <1>1, <1>2, <1>3
     DEF IInv, TypeOK, Held, Idle, Undisturbed, Resting, RunsAccounted, RetryArmed,
         WorkConserving, Occupied

LEMMA DeleteKeeps ==
  ASSUME IInv, NEW t \in Tasks, Delete(t)
  PROVE  IInv'
<1>1. /\ ~ closed /\ op = "free" /\ st[t] \in Terminal
      /\ UNCHANGED <<run, now, timer, nextRetry, waiters, limit, maxRetries,
                     closed, stopped, op, opTask, signaled>>
  BY DEF Delete, Operating, settingVars, closeVars, opVars
<1>2. /\ st' \in [Tasks -> States] /\ st'[t] = "absent"
      /\ \A u \in Tasks \ {t} : st'[u] = st[u]
  BY DEF IInv, TypeOK, Delete, States
<1>3. /\ queue' \in Seq(Tasks) /\ Distinct(queue')
      /\ ToSet(queue') = ToSet(queue) \ {t}
  BY DequeueFacts DEF IInv, TypeOK, QueueExact, Delete
<1>4. ToSet(queue) \subseteq Tasks
  BY DEF IInv, TypeOK, ToSet
<1>5. /\ sched' \in [Tasks -> 0..MaxTime]
      /\ \A u \in Tasks \ {t} : sched'[u] = sched[u]
  BY ConstantsAssumption DEF IInv, TypeOK, Delete
<1>6. TypeOK'
  <2>1. \A u \in Tasks : retryCount'[u] \in {0, retryCount[u]}
    BY DEF IInv, TypeOK, Delete
  <2>2. \A u \in Tasks : \E m \in RetryLimits : retryCount'[u] <= m
    BY <2>1, BudgetsKept
  <2>3. retryCount' \in [Tasks -> Nat] /\ retryable' \in [Tasks -> BOOLEAN]
    BY DEF IInv, TypeOK, Delete
  <2>4. QED BY <1>1, <1>2, <1>3, <1>5, <2>2, <2>3 DEF IInv, TypeOK
<1>7. QueueExact'
  BY <1>1, <1>2, <1>3, <1>4 DEF IInv, QueueExact
<1>8. WorkConserving'
  BY <1>1, <1>3, <1>4, <1>5 DEF IInv, WorkConserving, Occupied
<1>9. Held' /\ Idle' /\ Undisturbed' /\ Resting' /\ RetryArmed'
  BY <1>1, <1>2 DEF IInv, Held, Idle, Undisturbed, Resting, RetryArmed
<1>10. RunsAccounted'
  BY <1>1, <1>2, OperatingFacts DEF IInv, RunsAccounted, Delete, Terminal
<1>11. QED BY <1>6, <1>7, <1>8, <1>9, <1>10 DEF IInv

LEMMA CloseBeginKeeps ==
  ASSUME IInv, CloseBegin
  PROVE  IInv'
<1>1. /\ ~ closed /\ op = "free" /\ opTask = NoTask /\ ~ signaled /\ ~ stopped
      /\ closed' = TRUE /\ op' = "close" /\ queue' = <<>> /\ timer' = 0
      /\ UNCHANGED <<run, now, retryCount, waiters, retryable, sched, limit, maxRetries,
                     stopped, opTask, signaled>>
  BY DEF IInv, Held, CloseBegin, Operating, settingVars
<1>2. /\ st' \in [Tasks -> States]
      /\ \A t \in Tasks : st'[t] = ClosedState(t)
      /\ nextRetry' \in [Tasks -> Stamps \cup {0}]
  BY DEF IInv, TypeOK, CloseBegin, ClosedState, States
<1>3. \A t \in Tasks :
        /\ st'[t] \notin {"downloading", "retrying"}
        /\ st'[t] = "queued" => st[t] = "queued" /\ sched[t] # 0
  <2>1. TAKE t \in Tasks
  <2>2. sched[t] > now => sched[t] # 0
    BY DEF IInv, TypeOK
  <2>3. QED BY <1>2, <2>2 DEF ClosedState, KeepsPlan
<1>4. TypeOK'
  <2>1. queue' \in Seq(Tasks) /\ timer' \in 0..MaxTime
    BY <1>1, ConstantsAssumption
  <2>2. QED BY <1>1, <1>2, <2>1 DEF IInv, TypeOK
<1>5. QueueExact'
  BY <1>1 DEF QueueExact, Distinct, ToSet
<1>6. Held' /\ RunsAccounted' /\ WorkConserving'
  BY <1>1, <1>3 DEF Held, RunsAccounted, WorkConserving
<1>7. Idle' /\ Undisturbed' /\ Resting' /\ RetryArmed'
  BY <1>1, <1>3 DEF IInv, Idle, Undisturbed, Resting, RetryArmed
<1>8. QED BY <1>4, <1>5, <1>6, <1>7 DEF IInv

LEMMA StopRunsKeeps ==
  ASSUME IInv, StopRuns
  PROVE  IInv'
BY DEF IInv, StopRuns, slotVars, retryVars, settingVars, opVars,
       TypeOK, Held, Idle, Undisturbed, Resting, RunsAccounted, QueueExact, RetryArmed,
       WorkConserving, Occupied

LEMMA CloseEndKeeps ==
  ASSUME IInv, CloseEnd
  PROVE  IInv'
<1>1. RunsAccounted'
  BY DEF IInv, CloseEnd, AllDone, Occupied, slotVars, RunsAccounted
<1>2. QED
  BY <1>1
     DEF IInv, CloseEnd, AllDone, slotVars, retryVars, settingVars, closeVars,
         TypeOK, Held, Idle, Undisturbed, Resting, QueueExact, RetryArmed, WorkConserving,
         Occupied

-----------------------------------------------------------------------------
(* Transfers, waiters, the timer and the settings.                         *)

LEMMA RunReturnKeeps ==
  ASSUME IInv, NEW t \in Tasks, NEW outcome \in Outcomes, RunReturn(t, outcome)
  PROVE  IInv'
<1>1. UNCHANGED <<st, queue, now, timer, retryCount, nextRetry, waiters, retryable, sched,
                  limit, maxRetries, closed, stopped, op, opTask, signaled>>
  BY DEF RunReturn, retryVars, settingVars, closeVars, opVars
<1>2. /\ run' \in [Tasks -> RunStates]
      /\ \A u \in Tasks : run'[u] = "none" <=> run[u] = "none"
  BY DEF IInv, TypeOK, RunReturn, RunStates, Outcomes
<1>3. Occupied(run') = Occupied(run)
  BY <1>2 DEF Occupied
<1>4. TypeOK'
  BY <1>1, <1>2 DEF IInv, TypeOK, RunStates
<1>5. Held' /\ QueueExact' /\ RetryArmed'
  BY <1>1 DEF IInv, Held, QueueExact, RetryArmed
<1>6. Idle' /\ RunsAccounted'
  BY <1>1, <1>2 DEF IInv, Idle, RunsAccounted
<1>7. Undisturbed'
  <2>1. outcome = "canceled" => st[t] # "downloading"
    BY DEF RunReturn, Canceled, IInv, TypeOK, Held, Resting
  <2>2. \A u \in Tasks : run'[u] = run[u] \/ (u = t /\ run'[u] = outcome)
    BY DEF IInv, TypeOK, RunReturn
  <2>3. QED BY <1>1, <2>1, <2>2 DEF IInv, Undisturbed
<1>8. Resting' /\ WorkConserving'
  BY <1>1, <1>3 DEF IInv, Resting, WorkConserving
<1>9. QED BY <1>4, <1>5, <1>6, <1>7, <1>8 DEF IInv

LEMMA RunDiscardedEnds ==
  ASSUME IInv, ~ closed, NEW t \in Tasks, RunDiscarded(t)
  PROVE  Ends(t, st[t])
<1>1. /\ run[t] # "none" /\ st[t] # "downloading"
      /\ UNCHANGED <<retryCount, nextRetry, waiters, retryable, sched, limit, maxRetries,
                     closed, stopped, op, opTask, signaled>>
      /\ Fill(st, [run EXCEPT ![t] = "none"], queue)
  BY DEF RunDiscarded, Settles, Outcomes, retryVars, settingVars, closeVars, opVars
<1>2. st[t] \in States \ {"queued", "downloading", "retrying"}
  BY <1>1 DEF IInv, TypeOK, Idle
<1>3. [st EXCEPT ![t] = st[t]] = st
  BY DEF IInv, TypeOK
<1>4. OthersTyped' /\ KeepsWaiters(t) /\ UNCHANGED <<closeVars, opVars>>
  BY <1>1 DEF IInv, TypeOK, OthersTyped, KeepsWaiters, closeVars, opVars
<1>5. QED BY <1>1, <1>2, <1>3, <1>4 DEF Ends

LEMMA RunDiscardedKeeps ==
  ASSUME IInv, NEW t \in Tasks, RunDiscarded(t)
  PROVE  IInv'
<1>1. /\ run[t] # "none" /\ st[t] # "downloading"
      /\ UNCHANGED <<retryCount, nextRetry, waiters, retryable, sched, limit, maxRetries,
                     closed, stopped, op, opTask, signaled>>
      /\ Fill(st, [run EXCEPT ![t] = "none"], queue)
  BY DEF RunDiscarded, Settles, Outcomes, retryVars, settingVars, closeVars, opVars
<1>2. CASE closed
  <2>1. /\ UNCHANGED <<st, queue, now, timer>>
        /\ run' = [run EXCEPT ![t] = "none"]
    BY <1>1, <1>2 DEF Fill
  <2>2. /\ run' \in [Tasks -> RunStates] /\ run'[t] = "none"
        /\ \A u \in Tasks \ {t} : run'[u] = run[u]
    BY <2>1 DEF IInv, TypeOK, RunStates
  <2>3. Occupied(run') \subseteq Occupied(run)
    BY <2>2 DEF Occupied
  <2>4. TypeOK'
    BY <1>1, <2>1, <2>2 DEF IInv, TypeOK, RunStates
  <2>5. Held' /\ QueueExact' /\ RetryArmed' /\ WorkConserving'
    BY <1>1, <1>2, <2>1 DEF IInv, Held, QueueExact, RetryArmed, WorkConserving
  <2>6. Idle' /\ Undisturbed' /\ RunsAccounted'
    BY <1>1, <2>1, <2>2 DEF IInv, Idle, Undisturbed, RunsAccounted
  <2>7. Resting'
    BY <1>1, <1>2, <2>1, <2>3 DEF IInv, Resting
  <2>8. QED BY <2>4, <2>5, <2>6, <2>7 DEF IInv
<1>3. CASE ~ closed
  <2>1. Ends(t, st[t])
    BY <1>3, RunDiscardedEnds
  <2>2. QED BY <2>1, EndFilled, FilledEstablishes
<1>4. QED BY <1>2, <1>3

LEMMA RunSettledEnds ==
  ASSUME IInv, NEW t \in Tasks, RunSettled(t)
  PROVE  Ends(t, FinalState(run[t]))
<1>1. /\ ~ closed /\ st[t] = "downloading" /\ run[t] # "none"
      /\ run[t] # "canceled"
  BY DEF IInv, Resting, Undisturbed, RunSettled, Settles, Outcomes
<1>2. FinalState(run[t]) \in {"completed", "failed"}
  BY <1>1 DEF FinalState
<1>3. OthersTyped'
  <2>1. retryable' \in [Tasks -> BOOLEAN]
    BY DEF IInv, TypeOK, RunSettled
  <2>2. QED BY <2>1 DEF IInv, TypeOK, OthersTyped, RunSettled, settingVars
<1>4. KeepsWaiters(t)
  BY DEF KeepsWaiters, RunSettled
<1>5. QED BY <1>1, <1>2, <1>3, <1>4 DEF Ends, RunSettled

LEMMA RunRetriedEnds ==
  ASSUME IInv, NEW t \in Tasks, RunRetried(t)
  PROVE  Ends(t, "retrying")
<1>1. ~ closed /\ st[t] = "downloading" /\ run[t] # "none"
  BY DEF IInv, Resting, RunRetried, Settles, Outcomes
<1>2. PICK s \in Stamps : /\ nextRetry' = [nextRetry EXCEPT ![t] = s]
                          /\ waiters' = waiters \cup {<<t, s>>}
  BY DEF RunRetried
<1>3. <<t, nextRetry'[t]>> \in waiters' /\ KeepsWaiters(t)
  BY <1>2 DEF IInv, TypeOK, KeepsWaiters
<1>4. retryCount' = [retryCount EXCEPT ![t] = @ + 1] /\ retryCount[t] < maxRetries
  BY DEF RunRetried, Retries
<1>5. OthersTyped'
  <2>1. retryCount' \in [Tasks -> Nat]
    BY <1>4 DEF IInv, TypeOK
  <2>2. \A u \in Tasks : \E m \in RetryLimits : retryCount'[u] <= m
    <3>1. TAKE u \in Tasks
    <3>2. CASE u = t
      <4>1. retryCount'[u] <= maxRetries /\ maxRetries \in RetryLimits
        BY <1>4, <3>2, ConstantsAssumption DEF IInv, TypeOK
      <4>2. QED BY <4>1
    <3>3. CASE u # t
      BY <1>4, <3>3 DEF IInv, TypeOK
    <3>4. QED BY <3>2, <3>3
  <2>3. nextRetry' \in [Tasks -> Stamps \cup {0}] /\ waiters' \subseteq Tasks \X Stamps
    BY <1>2 DEF IInv, TypeOK
  <2>4. QED BY <2>1, <2>2, <2>3 DEF IInv, TypeOK, OthersTyped, RunRetried, settingVars
<1>6. QED BY <1>1, <1>3, <1>5 DEF Ends, RunRetried

LEMMA RetryWakesJoins ==
  ASSUME IInv, NEW t \in Tasks, NEW s \in Stamps, RetryWakes(t, s)
  PROVE  Joins(t)
<1>1. ~ closed /\ st[t] = "retrying" /\ run[t] = "none"
  BY DEF IInv, Idle, RetryWakes, Matches
<1>2. opTask # t
  <2>1. op \in {"free", "pause", "cancel"}
    BY <1>1 DEF IInv, TypeOK, Held
  <2>2. QED BY <1>1, <2>1, ConstantsAssumption DEF IInv, Held
<1>3. OthersTyped'
  <2>1. nextRetry' \in [Tasks -> Stamps \cup {0}]
    BY DEF IInv, TypeOK, RetryWakes
  <2>2. QED BY <2>1 DEF IInv, TypeOK, OthersTyped, RetryWakes, settingVars
<1>4. KeepsWaiters(t)
  BY DEF IInv, TypeOK, KeepsWaiters, RetryWakes
<1>5. QED BY <1>1, <1>2, <1>3, <1>4 DEF Joins, RetryWakes, Matches

LEMMA RetryAbandonedKeeps ==
  ASSUME IInv, NEW t \in Tasks, NEW s \in Stamps, RetryAbandoned(t, s)
  PROVE  IInv'
<1>1. /\ UNCHANGED <<st, queue, run, now, timer, retryCount, nextRetry, retryable, sched,
                     limit, maxRetries, closed, stopped, op, opTask, signaled>>
      /\ waiters' = waiters \ {<<t, s>>}
      /\ closed \/ ~ (st[t] = "retrying" /\ nextRetry[t] = s)
  BY DEF RetryAbandoned, Matches, slotVars, settingVars, closeVars, opVars
<1>2. RetryArmed'
  BY <1>1 DEF IInv, Resting, RetryArmed
<1>3. Resting'
  BY <1>1 DEF IInv, Resting, Occupied
<1>4. TypeOK' /\ Held' /\ Idle' /\ Undisturbed' /\ RunsAccounted' /\ QueueExact'
  BY <1>1 DEF IInv, TypeOK, Held, Idle, Undisturbed, RunsAccounted, QueueExact
<1>5. WorkConserving'
  BY <1>1 DEF IInv, WorkConserving, Occupied
<1>6. QED BY <1>2, <1>3, <1>4, <1>5 DEF IInv

LEMMA TimerFiresRefills ==
  ASSUME IInv, TimerFires
  PROVE  Refills
<1>1. OthersTyped'
  BY DEF IInv, TypeOK, OthersTyped, TimerFires, retryVars, settingVars
<1>2. QED BY <1>1 DEF Refills, TimerFires, retryVars

LEMMA ApplySchedulerSettingsRefills ==
  ASSUME IInv, NEW l \in Limits, NEW m \in RetryLimits, ApplySchedulerSettings(l, m)
  PROVE  Refills
<1>1. OthersTyped'
  BY DEF IInv, TypeOK, OthersTyped, ApplySchedulerSettings, retryVars
<1>2. QED BY <1>1 DEF Refills, ApplySchedulerSettings, retryVars

LEMMA TickKeeps ==
  ASSUME IInv, Tick
  PROVE  IInv'
<1>1. /\ now' \in 0..MaxTime
      /\ UNCHANGED <<st, queue, run, timer, retryCount, nextRetry, waiters, retryable, sched,
                     limit, maxRetries, closed, stopped, op, opTask, signaled>>
  BY ConstantsAssumption
     DEF IInv, TypeOK, Tick, retryVars, settingVars, closeVars, opVars
<1>2. QED
  BY <1>1
     DEF IInv, TypeOK, Held, Idle, Undisturbed, Resting, RunsAccounted, QueueExact, RetryArmed,
         WorkConserving, Occupied

LEMMA StutterKeeps ==
  ASSUME IInv, UNCHANGED vars
  PROVE  IInv'
BY DEF IInv, vars, slotVars, retryVars, settingVars, closeVars, opVars,
       TypeOK, Held, Idle, Undisturbed, Resting, RunsAccounted, QueueExact, RetryArmed,
       WorkConserving, Occupied

-----------------------------------------------------------------------------

LEMMA InitEstablishes ==
  ASSUME Init
  PROVE  IInv
<1>1. TypeOK
  <2>1. \A t \in Tasks : \E m \in RetryLimits : retryCount[t] <= m
    BY ConstantsAssumption DEF Init
  <2>2. queue \in Seq(Tasks)
    BY DEF Init
  <2>3. 0 \in 0..MaxTime
    BY ConstantsAssumption
  <2>4. /\ st \in [Tasks -> States] /\ run \in [Tasks -> {"none", "transfer"} \cup Outcomes]
        /\ retryCount \in [Tasks -> Nat] /\ nextRetry \in [Tasks -> Stamps \cup {0}]
        /\ retryable \in [Tasks -> BOOLEAN] /\ sched \in [Tasks -> 0..MaxTime]
    BY <2>3 DEF Init, States
  <2>5. QED BY <2>1, <2>2, <2>3, <2>4 DEF Init, TypeOK
<1>2. QueueExact /\ WorkConserving
  BY DEF Init, QueueExact, WorkConserving, Distinct, ToSet
<1>3. QED
  BY <1>1, <1>2
     DEF IInv, Init, Held, Idle, Undisturbed, Resting, RunsAccounted, RetryArmed

\* A step that fills the slots.
FillingStep ==
  \/ \E t \in Tasks : Joins(t)
  \/ \E t \in Tasks, state \in States : Ends(t, state)
  \/ Refills

\* A step that does not.
OtherStep ==
  \/ \E t \in Tasks : Pause(t)
  \/ \E t \in Tasks : Cancel(t)
  \/ \E t \in Tasks : ResumeUnsaved(t)
  \/ \E t \in Tasks : ResumeBTUnsaved(t)
  \/ \E t \in Tasks : Delete(t)
  \/ \E t \in Tasks : closed /\ RunDiscarded(t)
  \/ SignalRun \/ OperationEnd \/ CloseBegin \/ StopRuns \/ CloseEnd
  \/ \E t \in Tasks, outcome \in Outcomes : RunReturn(t, outcome)
  \/ \E t \in Tasks, s \in Stamps : RetryAbandoned(t, s)
  \/ Tick
  \/ UNCHANGED vars

LEMMA StepKinds ==
  ASSUME IInv, [Next]_vars
  PROVE  FillingStep \/ OtherStep
<1>1. CASE Operation
  <2>1. CASE \E t \in Tasks, at \in 0..MaxTime : Create(t, at)
    BY <2>1, CreateJoins DEF FillingStep
  <2>2. CASE \E t \in Tasks : CreateBT(t)
    BY <2>2, CreateBTJoins DEF FillingStep
  <2>3. CASE \E t \in Tasks : Resume(t)
    BY <2>3, ResumeJoins DEF FillingStep
  <2>4. CASE \E t \in Tasks : ResumeBT(t)
    BY <2>4, ResumeBTJoins DEF FillingStep
  <2>5. CASE \E t \in Tasks : Retry(t)
    BY <2>5, RetryJoins DEF FillingStep
  <2>6. CASE \/ \E t \in Tasks : Pause(t)
             \/ \E t \in Tasks : Cancel(t)
             \/ \E t \in Tasks : ResumeUnsaved(t)
             \/ \E t \in Tasks : ResumeBTUnsaved(t)
             \/ \E t \in Tasks : Delete(t)
             \/ SignalRun \/ OperationEnd \/ CloseBegin \/ StopRuns \/ CloseEnd
    BY <2>6 DEF OtherStep
  <2>7. QED BY <1>1, <2>1, <2>2, <2>3, <2>4, <2>5, <2>6 DEF Operation
<1>2. CASE Background
  <2>1. ASSUME NEW t \in Tasks, RunDiscarded(t)
        PROVE  closed \/ (Ends(t, st[t]) /\ st[t] \in States)
    BY <2>1, RunDiscardedEnds DEF IInv, TypeOK
  <2>2. ASSUME NEW t \in Tasks, RunSettled(t)
        PROVE  Ends(t, FinalState(run[t])) /\ FinalState(run[t]) \in States
    BY <2>2, RunSettledEnds DEF FinalState, States
  <2>3. "retrying" \in States
    BY DEF States
  <2>4. QED
    BY <1>2, <2>1, <2>2, <2>3, RunRetriedEnds, RetryWakesJoins, TimerFiresRefills,
       ApplySchedulerSettingsRefills
       DEF Background, FillingStep, OtherStep
<1>3. CASE Closed \/ UNCHANGED vars
  BY <1>3 DEF Closed, OtherStep
<1>4. QED BY <1>1, <1>2, <1>3 DEF Next

LEMMA NextKeeps ==
  ASSUME IInv, [Next]_vars
  PROVE  IInv'
<1>1. CASE FillingStep
  BY <1>1, JoinFilled, EndFilled, RefillFilled, FilledEstablishes DEF FillingStep
<1>2. CASE OtherStep
  BY <1>2, PauseKeeps, CancelKeeps, SignalRunKeeps, OperationEndKeeps,
     ResumeUnsavedKeeps, ResumeBTUnsavedKeeps, DeleteKeeps, CloseBeginKeeps,
     StopRunsKeeps, CloseEndKeeps, RunReturnKeeps, RunDiscardedKeeps,
     RetryAbandonedKeeps, TickKeeps, StutterKeeps
     DEF OtherStep
<1>3. QED BY <1>1, <1>2, StepKinds

\* The inductive invariant holds in every reachable state.
THEOREM Invariance == Spec => []IInv
BY InitEstablishes, NextKeeps, PTL DEF Spec

\* Every variable keeps its type, and the automatic retries of a task stay
\* within the largest budget the settings ever allow (scheduleRetryLocked).
THEOREM TypeCorrect == Spec => []TypeOK
BY Invariance, PTL DEF IInv

\* No transfer goroutine outlives the Pause, Cancel or Close that ended it, and
\* no task is downloading without one.
THEOREM RunsAreAccounted == Spec => []RunsAccounted
BY Invariance, PTL DEF IInv

\* Every handler keeps the queue and the task states in step.
THEOREM QueueIsExact == Spec => []QueueExact
BY Invariance, PTL DEF IInv

\* No slot stays free while a task without a schedule waits, for every number
\* of tasks and every sequence of settings.
THEOREM WorkIsConserved == Spec => []WorkConserving
BY Invariance, PTL DEF IInv

\* A retrying task always has a live waiter for its current deadline.
THEOREM RetriesAreArmed == Spec => []RetryArmed
BY Invariance, PTL DEF IInv

\* When Close has returned, nothing of the manager runs.
THEOREM QuietOnceClosed == Spec => []QuietAfterClose
<1>1. IInv => QuietAfterClose
  BY DEF IInv, Resting, QuietAfterClose
<1>2. QED BY <1>1, Invariance, PTL

-----------------------------------------------------------------------------
(* The queue, if every record can be saved.                                *)

\* The filling forgets no task it was handed in the queue.
LEMMA FilledKeepsQueued ==
  ASSUME NEW s, NEW r, NEW q, Filled(s, r, q),
         \A t \in Tasks : s[t] = "queued" => t \in ToSet(q)
  PROVE  QueuedIsInQueue'
<1>1. Fillable(s, r, q) /\ FillSlots(s, r, q)
  BY DEF Filled, Ready
<1>2. ToSet(queue') = ToSet(q) \ Started(s, r, q)
  BY <1>1, FilledQueue
<1>3. \A t \in Tasks : st'[t] = "queued" => t \notin Started(s, r, q) /\ s[t] = "queued"
  BY <1>1 DEF FillSlots
<1>4. QED BY <1>2, <1>3 DEF QueuedIsInQueue

\* A step that fills no slot puts no task into the state queued, and takes none
\* out of the queue that stays in it.
LEMMA OtherKeepsQueued ==
  ASSUME IInv, QueuedIsInQueue, ~ StoreFails, OtherStep
  PROVE  QueuedIsInQueue'
<1>1. ASSUME NEW t \in Tasks, NEW kind, NEW state \in {"paused", "canceled"},
             Interrupt(t, kind, state)
      PROVE  QueuedIsInQueue'
  <2>1. ToSet(queue') = ToSet(queue) \ {t} /\ ~ closed
    BY <1>1, DequeueFacts DEF Interrupt, Operating, IInv, TypeOK, QueueExact
  <2>2. \A u \in Tasks : st'[u] = "queued" => u # t /\ st[u] = "queued"
    BY <1>1 DEF Interrupt, IInv, TypeOK
  <2>3. QED BY <2>1, <2>2 DEF QueuedIsInQueue
<1>2. ASSUME NEW t \in Tasks, Delete(t)
      PROVE  QueuedIsInQueue'
  <2>1. ToSet(queue') = ToSet(queue) \ {t} /\ ~ closed
    BY <1>2, DequeueFacts DEF Delete, Operating, IInv, TypeOK, QueueExact
  <2>2. \A u \in Tasks : st'[u] = "queued" => u # t /\ st[u] = "queued"
    BY <1>2 DEF Delete, IInv, TypeOK
  <2>3. QED BY <2>1, <2>2 DEF QueuedIsInQueue
<1>3. CASE UNCHANGED <<st, queue, closed>> \/ closed'
  BY <1>3 DEF QueuedIsInQueue
<1>4. \A t \in Tasks : ~ ResumeBTUnsaved(t)
  BY Zenon DEF ResumeBTUnsaved
<1>5. OtherStep =>
        \/ \E t \in Tasks, kind \in {"pause", "cancel"}, state \in {"paused", "canceled"} :
             Interrupt(t, kind, state)
        \/ \E t \in Tasks : Delete(t)
        \/ UNCHANGED <<st, queue, closed>>
        \/ closed'
  <2>1. CASE \E t \in Tasks : closed /\ RunDiscarded(t)
    BY <2>1 DEF RunDiscarded, closeVars
  <2>2. CASE CloseBegin
    BY <2>2 DEF CloseBegin
  <2>3. CASE \E t \in Tasks : Pause(t) \/ Cancel(t)
    BY <2>3 DEF Pause, Cancel
  <2>4. CASE \/ \E t \in Tasks : ResumeUnsaved(t)
             \/ SignalRun \/ OperationEnd \/ StopRuns \/ CloseEnd
             \/ \E t \in Tasks, outcome \in Outcomes : RunReturn(t, outcome)
             \/ \E t \in Tasks, s \in Stamps : RetryAbandoned(t, s)
             \/ Tick \/ UNCHANGED vars
    BY <2>4 DEF ResumeUnsaved, SignalRun, OperationEnd, StopRuns, CloseEnd, RunReturn,
                RetryAbandoned, Tick, vars, slotVars, closeVars
  <2>5. QED BY <1>4, <2>1, <2>2, <2>3, <2>4 DEF OtherStep
<1>6. QED BY <1>1, <1>2, <1>3, <1>5

\* As long as records can be saved, every queued task is in the queue, BT tasks
\* included: a failed save in resumeBTLocked is the only way to lose one.
THEOREM QueuedTasksAreInQueue == ~ StoreFails /\ Spec => []QueuedIsInQueue
<1>1. Init => QueuedIsInQueue
  BY DEF Init, QueuedIsInQueue
<1>2. ASSUME IInv, QueuedIsInQueue, ~ StoreFails, [Next]_vars
      PROVE  QueuedIsInQueue'
  <2>1. ASSUME NEW t \in Tasks, Joins(t) PROVE QueuedIsInQueue'
    <3>1. ToSet(Enqueue(queue, t)) = ToSet(queue) \cup {t}
      BY <1>2, EnqueueFacts DEF IInv, TypeOK, QueueExact
    <3>2. \A u \in Tasks : [st EXCEPT ![t] = "queued"][u] = "queued" =>
                             u \in ToSet(Enqueue(queue, t))
      BY <1>2, <2>1, <3>1 DEF Joins, QueuedIsInQueue, IInv, TypeOK
    <3>3. QED BY <1>2, <2>1, <3>2, JoinFilled, FilledKeepsQueued
  <2>2. ASSUME NEW t \in Tasks, NEW state, Ends(t, state) PROVE QueuedIsInQueue'
    <3>1. \A u \in Tasks : [st EXCEPT ![t] = state][u] = "queued" => u \in ToSet(queue)
      BY <1>2, <2>2 DEF Ends, QueuedIsInQueue, IInv, TypeOK
    <3>2. QED BY <1>2, <2>2, <3>1, EndFilled, FilledKeepsQueued
  <2>3. CASE Refills
    BY <1>2, <2>3, RefillFilled, FilledKeepsQueued DEF Refills, QueuedIsInQueue
  <2>4. CASE OtherStep
    BY <1>2, <2>4, OtherKeepsQueued
  <2>5. QED BY <1>2, <2>1, <2>2, <2>3, <2>4, StepKinds DEF FillingStep
<1> DEFINE Kept == ~ StoreFails /\ QueuedIsInQueue
<1>3. IInv /\ Kept /\ [Next]_vars => Kept'
  BY <1>2
<1>4. ~ StoreFails /\ Init => Kept
  BY <1>1
<1>5. Kept => QueuedIsInQueue
  OBVIOUS
<1> HIDE DEF Kept
<1>6. QED BY <1>3, <1>4, <1>5, Invariance, PTL DEF Spec

-----------------------------------------------------------------------------
(* The timer.                                                              *)

\* Arming the timer afresh covers every task that is still to come then.
LEMMA RefreshCovers ==
  ASSUME RefreshTimer, now \in 0..MaxTime, sched' \in [Tasks -> 0..MaxTime],
         ToSet(queue)' \subseteq Tasks
  PROVE  TimerCoversFuture'
<1>1. now' \in Nat /\ Wakes(st', queue', now', timer')
  <2>1. PICK later \in now..MaxTime : now' = later /\ Wakes(st', queue', later, timer')
    BY DEF RefreshTimer
  <2>2. later \in Nat
    BY <2>1, ConstantsAssumption
  <2>3. QED BY <2>1, <2>2
<1> SUFFICES ASSUME NEW t \in ToSet(queue'), st'[t] = "queued", sched'[t] > now'
             PROVE  timer' # 0 /\ timer' <= sched'[t]
  BY DEF TimerCoversFuture
<1>2. t \in Future(st', queue', now')
  BY DEF Future
<1>3. PICK u \in Future(st', queue', now') : timer' = sched'[u]
  BY <1>1, <1>2 DEF Wakes
<1>4. timer' > now'
  BY <1>3 DEF Future
<1>5. timer' <= sched'[t]
  BY <1>1, <1>2 DEF Wakes
<1>6. QED BY <1>1, <1>4, <1>5

\* The steps that do not arm the timer leave no future task behind it: none of
\* them makes a queued task wait longer, or puts one into the queue.
LEMMA OtherCovers ==
  ASSUME IInv, TimerCoversFuture, OtherStep
  PROVE  TimerCoversFuture'
<1>1. ASSUME NEW t \in Tasks, NEW kind, NEW state, Interrupt(t, kind, state)
      PROVE  TimerCoversFuture'
  <2>1. RefreshTimer /\ sched' \in [Tasks -> 0..MaxTime] /\ queue' = Dequeue(queue, t)
    BY <1>1 DEF Interrupt, IInv, TypeOK
  <2>2. ToSet(queue)' \subseteq Tasks
    BY <2>1, DequeueFacts DEF IInv, TypeOK, QueueExact, ToSet
  <2>3. QED BY <2>1, <2>2, RefreshCovers DEF IInv, TypeOK
<1>2. ASSUME NEW t \in Tasks, ResumeUnsaved(t)
      PROVE  TimerCoversFuture'
  BY <1>2 DEF ResumeUnsaved, slotVars, closeVars, IInv, TypeOK, TimerCoversFuture
<1>3. ASSUME NEW t \in Tasks, ResumeBTUnsaved(t)
      PROVE  TimerCoversFuture'
  BY <1>3 DEF ResumeBTUnsaved, closeVars, IInv, TypeOK, QueueExact, TimerCoversFuture
<1>4. ASSUME NEW t \in Tasks, Delete(t)
      PROVE  TimerCoversFuture'
  <2>1. ToSet(queue') = ToSet(queue) \ {t}
    BY <1>4, DequeueFacts DEF Delete, IInv, TypeOK, QueueExact
  <2>2. QED BY <1>4, <2>1 DEF Delete, closeVars, IInv, TypeOK, TimerCoversFuture
<1>5. ASSUME NEW t \in Tasks, closed, RunDiscarded(t)
      PROVE  TimerCoversFuture'
  BY <1>5 DEF RunDiscarded, closeVars, TimerCoversFuture
<1>6. CASE CloseBegin
  BY <1>6 DEF CloseBegin, TimerCoversFuture
<1>7. CASE Tick
  <2>1. now' = now + 1 /\ UNCHANGED <<st, queue, timer, sched, closed>>
    BY <1>7 DEF Tick, closeVars
  <2>2. ASSUME NEW t \in ToSet(queue), sched[t] > now + 1 PROVE sched[t] > now
    <3>1. t \in Tasks /\ sched[t] \in Int /\ now \in Int
      BY ConstantsAssumption DEF IInv, TypeOK, ToSet
    <3>2. QED BY <2>2, <3>1
  <2>3. QED BY <2>1, <2>2 DEF TimerCoversFuture
<1>8. CASE UNCHANGED <<st, queue, now, timer, sched, closed>>
  BY <1>8 DEF TimerCoversFuture
<1>9. OtherStep =>
        \/ \E t \in Tasks, kind \in {"pause", "cancel"}, state \in {"paused", "canceled"} :
             Interrupt(t, kind, state)
        \/ \E t \in Tasks : ResumeUnsaved(t)
        \/ \E t \in Tasks : ResumeBTUnsaved(t)
        \/ \E t \in Tasks : Delete(t)
        \/ \E t \in Tasks : closed /\ RunDiscarded(t)
        \/ CloseBegin \/ Tick
        \/ UNCHANGED <<st, queue, now, timer, sched, closed>>
  BY DEF OtherStep, Pause, Cancel, SignalRun, OperationEnd, StopRuns, CloseEnd, RunReturn,
         RetryAbandoned, vars, slotVars, closeVars
<1>10. QED BY <1>1, <1>2, <1>3, <1>4, <1>5, <1>6, <1>7, <1>8, <1>9

\* A task that waits for a future instant always has the timer armed for it or
\* for an earlier one (refreshScheduleTimerLocked), so that no plan is slept
\* through.
THEOREM TimerCoversPlans == Spec => []TimerCoversFuture
<1>1. Init => TimerCoversFuture
  BY DEF Init, TimerCoversFuture, ToSet
<1>2. ASSUME IInv, TimerCoversFuture, [Next]_vars
      PROVE  TimerCoversFuture'
  <2>1. ASSUME NEW s, NEW r, NEW q, Filled(s, r, q)
        PROVE  TimerCoversFuture'
    <3>1. RefreshTimer /\ sched' \in [Tasks -> 0..MaxTime]
      BY <2>1 DEF Filled, Ready, Fillable, FillSlots
    <3>2. ToSet(queue)' \subseteq Tasks
      BY <2>1, FilledEstablishes DEF IInv, TypeOK, ToSet
    <3>3. QED BY <1>2, <3>1, <3>2, RefreshCovers DEF IInv, TypeOK
  <2>2. CASE FillingStep
    BY <1>2, <2>1, <2>2, JoinFilled, EndFilled, RefillFilled DEF FillingStep
  <2>3. CASE OtherStep
    BY <1>2, <2>3, OtherCovers
  <2>4. QED BY <1>2, <2>2, <2>3, StepKinds
<1>3. QED BY <1>1, <1>2, Invariance, PTL DEF Spec

-----------------------------------------------------------------------------
(* What one step may do.                                                   *)

\* What the filling does to each task.
LEMMA FilledTasks ==
  ASSUME NEW s, NEW r, NEW q, Filled(s, r, q), NEW t \in Tasks
  PROVE  \/ st'[t] = s[t] /\ run'[t] = r[t]
         \/ /\ t \in Started(s, r, q) /\ s[t] = "queued" /\ r[t] = "none"
            /\ st'[t] = "downloading" /\ run'[t] = "transfer"
            /\ sched'[t] <= now'
<1>1. Fillable(s, r, q) /\ FillSlots(s, r, q)
  BY DEF Filled, Ready
<1>2. \A u \in Started(s, r, q) : s[u] = "queued" /\ r[u] = "none" /\ sched'[u] <= now
  BY <1>1, ReachedFacts
<1>3. now <= now' /\ now \in Nat /\ now' \in Nat /\ sched'[t] \in Nat
  BY <1>1, ConstantsAssumption DEF FillSlots, RefreshTimer, Fillable
<1>4. QED BY <1>1, <1>2, <1>3 DEF FillSlots

LEMMA JoinTasks ==
  ASSUME IInv, NEW u \in Tasks, Joins(u), NEW t \in Tasks
  PROVE  \/ st'[t] = (IF t = u THEN "queued" ELSE st[t]) /\ run'[t] = run[t]
         \/ /\ t = u \/ st[t] = "queued"
            /\ run[t] = "none" /\ st'[t] = "downloading" /\ run'[t] = "transfer"
            /\ sched'[t] <= now'
<1> DEFINE s == [st EXCEPT ![u] = "queued"]
<1>1. s[t] = IF t = u THEN "queued" ELSE st[t]
  BY DEF IInv, TypeOK
<1>2. Filled(s, run, Enqueue(queue, u))
  BY JoinFilled
<1> HIDE DEF s
<1>3. QED BY <1>1, <1>2, FilledTasks

LEMMA EndTasks ==
  ASSUME IInv, NEW u \in Tasks, NEW state, Ends(u, state), NEW t \in Tasks
  PROVE  \/ /\ st'[t] = (IF t = u THEN state ELSE st[t])
            /\ run'[t] = (IF t = u THEN "none" ELSE run[t])
         \/ /\ t # u /\ st[t] = "queued"
            /\ run[t] = "none" /\ st'[t] = "downloading" /\ run'[t] = "transfer"
            /\ sched'[t] <= now'
<1> DEFINE s == [st EXCEPT ![u] = state]
           r == [run EXCEPT ![u] = "none"]
<1>1. /\ s[t] = IF t = u THEN state ELSE st[t]
      /\ r[t] = IF t = u THEN "none" ELSE run[t]
      /\ state # "queued"
  BY DEF IInv, TypeOK, Ends
<1>2. Filled(s, r, queue)
  BY EndFilled
<1> HIDE DEF s, r
<1>3. QED BY <1>1, <1>2, FilledTasks

LEMMA RefillTasks ==
  ASSUME IInv, Refills, NEW t \in Tasks
  PROVE  \/ st'[t] = st[t] /\ run'[t] = run[t]
         \/ /\ st[t] = "queued"
            /\ run[t] = "none" /\ st'[t] = "downloading" /\ run'[t] = "transfer"
            /\ sched'[t] <= now'
BY RefillFilled, FilledTasks

\* A step that does not fill the slots starts no task and takes no slot.
LEMMA OtherTasks ==
  ASSUME IInv, OtherStep, NEW t \in Tasks
  PROVE  /\ st'[t] = st[t] \/ st'[t] \notin {"downloading", "retrying"}
         /\ st[t] = "retrying" => st'[t] # "queued"
         /\ run[t] = "none" => run'[t] = "none"
         /\ st'[t] # st[t] => run'[t] = run[t]
<1>1. CASE \E u \in Tasks, kind \in {"pause", "cancel"}, state \in {"paused", "canceled"} :
             Interrupt(u, kind, state)
  BY <1>1 DEF Interrupt, IInv, TypeOK
<1>2. CASE \E u \in Tasks : ResumeUnsaved(u)
  BY <1>2 DEF ResumeUnsaved, slotVars
<1>3. CASE \E u \in Tasks : ResumeBTUnsaved(u)
  BY <1>3 DEF ResumeBTUnsaved, IInv, TypeOK
<1>4. CASE \E u \in Tasks : Delete(u)
  BY <1>4 DEF Delete, IInv, TypeOK
<1>5. CASE \E u \in Tasks : closed /\ RunDiscarded(u)
  BY <1>5 DEF RunDiscarded, Fill, IInv, TypeOK
<1>6. CASE CloseBegin
  BY <1>6 DEF CloseBegin, ClosedState
<1>7. CASE \E u \in Tasks, outcome \in Outcomes : RunReturn(u, outcome)
  BY <1>7 DEF RunReturn, IInv, TypeOK
<1>8. CASE \/ SignalRun \/ OperationEnd \/ StopRuns \/ CloseEnd \/ Tick \/ UNCHANGED vars
           \/ \E u \in Tasks, s \in Stamps : RetryAbandoned(u, s)
  <2>1. UNCHANGED <<st, run>>
    BY <1>8 DEF SignalRun, OperationEnd, StopRuns, CloseEnd, Tick, RetryAbandoned,
                vars, slotVars
  <2>2. QED BY <2>1
<1>9. QED
  BY <1>1, <1>2, <1>3, <1>4, <1>5, <1>6, <1>7, <1>8 DEF OtherStep, Pause, Cancel

\* A task with a schedule does not start before its instant.
THEOREM NeverStartsEarly == Spec => NeverEarly
<1> DEFINE Holds(t) == st'[t] = "downloading" /\ st[t] # "downloading" => sched'[t] <= now'
<1>1. ASSUME IInv, [Next]_vars, NEW t \in Tasks PROVE Holds(t)
  <2>1. ASSUME NEW u \in Tasks, Joins(u) PROVE Holds(t)
    BY <1>1, <2>1, JoinTasks
  <2>2. ASSUME NEW u \in Tasks, NEW state, Ends(u, state) PROVE Holds(t)
    BY <1>1, <2>2, EndTasks DEF Ends, States
  <2>3. CASE Refills
    BY <1>1, <2>3, RefillTasks
  <2>4. CASE OtherStep
    BY <1>1, <2>4, OtherTasks
  <2>5. QED BY <1>1, <2>1, <2>2, <2>3, <2>4, StepKinds DEF FillingStep
<1>2. IInv /\ [Next]_vars => [\A t \in Tasks : Holds(t)]_vars
  BY <1>1
<1>3. QED BY <1>2, Invariance, PTL DEF Spec, NeverEarly

\* The end of a transfer never changes a task that was paused, canceled or
\* closed while the transfer was still running (run, runBT).
THEOREM LateResultsAreIgnored == Spec => LateResultIgnored
<1> DEFINE Holds(t) ==
      run[t] # "none" /\ run'[t] = "none" /\ st[t] # "downloading" => st'[t] = st[t]
<1>1. ASSUME IInv, [Next]_vars, NEW t \in Tasks PROVE Holds(t)
  <2>1. ASSUME NEW u \in Tasks, Joins(u) PROVE Holds(t)
    BY <1>1, <2>1, JoinTasks
  <2>2. ASSUME NEW u \in Tasks, NEW state, Ends(u, state) PROVE Holds(t)
    BY <1>1, <2>2, EndTasks DEF Ends
  <2>3. CASE Refills
    BY <1>1, <2>3, RefillTasks
  <2>4. CASE OtherStep
    BY <1>1, <2>4, OtherTasks
  <2>5. QED BY <1>1, <2>1, <2>2, <2>3, <2>4, StepKinds DEF FillingStep
<1>2. IInv /\ [Next]_vars => [\A t \in Tasks : Holds(t)]_vars
  BY <1>1
<1>3. QED BY <1>2, Invariance, PTL DEF Spec, LateResultIgnored

\* A transfer that Pause or Cancel waits for is not started again while they wait
\* outside mu, whatever the timer, the retry waiters and new settings do: the wait
\* for run.done cannot become a wait for a later run.
AwaitedStaysOver ==
  [][(op \in {"pause", "cancel"}) /\ opTask' = opTask /\ run[opTask] = "none"
       => run'[opTask] = "none"]_vars

\* Nothing that Close waits for is added while it waits: no transfer starts, no
\* waiter is born and no task is queued on a closed manager (m.closed).
ClosedOnlyDrains ==
  [][closed => /\ closed'
               /\ Occupied(run') \subseteq Occupied(run) /\ waiters' \subseteq waiters
               /\ queue' = queue /\ st' = st]_vars

\* Pause and Cancel wait for one run.
THEOREM AwaitedRunsStayOver == Spec => AwaitedStaysOver
<1>1. ASSUME IInv, [Next]_vars, op \in {"pause", "cancel"}, run[opTask] = "none"
      PROVE  run'[opTask] = "none"
  <2> DEFINE t == opTask
  <2>1. t \in Tasks /\ st[t] \in {"paused", "canceled"} /\ run[t] = "none"
    BY <1>1 DEF IInv, Held
  <2>2. ASSUME NEW u \in Tasks, Joins(u) PROVE run'[t] = "none"
    <3>1. t # u
      BY <2>2 DEF Joins
    <3> HIDE DEF t
    <3>2. QED BY <1>1, <2>1, <2>2, <3>1, JoinTasks
  <2> HIDE DEF t
  <2>3. ASSUME NEW u \in Tasks, NEW state, Ends(u, state) PROVE run'[t] = "none"
    BY <1>1, <2>1, <2>3, EndTasks
  <2>4. ASSUME Refills PROVE run'[t] = "none"
    BY <1>1, <2>1, <2>4, RefillTasks
  <2>5. ASSUME OtherStep PROVE run'[t] = "none"
    BY <1>1, <2>1, <2>5, OtherTasks
  <2>6. run'[t] = "none"
    BY <1>1, <2>2, <2>3, <2>4, <2>5, StepKinds DEF FillingStep
  <2>7. QED BY <2>6 DEF t
<1>2. IInv /\ [Next]_vars =>
        [(op \in {"pause", "cancel"}) /\ opTask' = opTask /\ run[opTask] = "none"
           => run'[opTask] = "none"]_vars
  BY <1>1
<1>3. QED BY <1>2, Invariance, PTL DEF Spec, AwaitedStaysOver

\* What Close waits for only shrinks.
THEOREM ClosedManagersDrain == Spec => ClosedOnlyDrains
<1> DEFINE Drains == /\ closed'
                     /\ Occupied(run') \subseteq Occupied(run) /\ waiters' \subseteq waiters
                     /\ queue' = queue /\ st' = st
<1>1. ASSUME IInv, [Next]_vars, closed PROVE Drains
  <2>1. OtherStep
    BY <1>1, StepKinds DEF FillingStep, Joins, Ends, Refills
  <2>2. \/ \E t \in Tasks : RunDiscarded(t)
        \/ \E t \in Tasks, outcome \in Outcomes : RunReturn(t, outcome)
        \/ \E t \in Tasks, s \in Stamps : RetryAbandoned(t, s)
        \/ UNCHANGED <<closed, run, waiters, queue, st>>
    BY <1>1, <2>1
    DEF OtherStep, Pause, Cancel, Interrupt, ResumeUnsaved, ResumeBTUnsaved, Delete, Operating,
        SignalRun, OperationEnd, CloseBegin, StopRuns, CloseEnd, Tick,
        vars, slotVars, retryVars, closeVars
  <2>3. ASSUME NEW t \in Tasks, RunDiscarded(t) PROVE Drains
    BY <1>1, <2>3 DEF RunDiscarded, Fill, Occupied, retryVars, closeVars, IInv, TypeOK
  <2>4. ASSUME NEW t \in Tasks, NEW outcome \in Outcomes, RunReturn(t, outcome) PROVE Drains
    BY <1>1, <2>4 DEF RunReturn, Occupied, retryVars, closeVars, IInv, TypeOK
  <2>5. ASSUME NEW t \in Tasks, NEW s \in Stamps, RetryAbandoned(t, s) PROVE Drains
    BY <1>1, <2>5 DEF RetryAbandoned, slotVars, closeVars
  <2>6. QED BY <1>1, <2>2, <2>3, <2>4, <2>5
<1>2. IInv /\ [Next]_vars => [closed => Drains]_vars
  BY <1>1
<1>3. QED BY <1>2, Invariance, PTL DEF Spec, ClosedOnlyDrains

\* A task is never canceled by the end of its transfer: only Cancel does it.
THEOREM OnlyUsersCancel == Spec => OnlyUserCancels
<1> DEFINE Holds(t) ==
      st[t] # "canceled" /\ st'[t] = "canceled" => run'[t] = run[t]
<1>1. ASSUME IInv, [Next]_vars, NEW t \in Tasks PROVE Holds(t)
  <2>1. ASSUME NEW u \in Tasks, Joins(u) PROVE Holds(t)
    BY <1>1, <2>1, JoinTasks
  <2>2. ASSUME NEW u \in Tasks, NEW state, Ends(u, state) PROVE Holds(t)
    BY <1>1, <2>2, EndTasks DEF Ends
  <2>3. CASE Refills
    BY <1>1, <2>3, RefillTasks
  <2>4. CASE OtherStep
    BY <1>1, <2>4, OtherTasks
  <2>5. QED BY <1>1, <2>1, <2>2, <2>3, <2>4, StepKinds DEF FillingStep
<1>2. IInv /\ [Next]_vars => [\A t \in Tasks : Holds(t)]_vars
  BY <1>1
<1>3. QED BY <1>2, Invariance, PTL DEF Spec, OnlyUserCancels

\* A retrying task queues again only when the waiter of its current deadline
\* wakes (waitForRetry compares NextRetryAt with the deadline it slept for).
THEOREM RetriesOnlyOnDeadline == Spec => RetryOnlyOnDeadline
<1> DEFINE Holds(t) ==
      st[t] = "retrying" /\ st'[t] \in {"queued", "downloading"} =>
        <<t, nextRetry[t]>> \in waiters \ waiters'
<1>1. ASSUME IInv, [Next]_vars, NEW t \in Tasks PROVE Holds(t)
  <2>1. ASSUME NEW u \in Tasks, Joins(u) PROVE Holds(t)
    BY <1>1, <2>1, JoinTasks DEF Joins
  <2>2. ASSUME NEW u \in Tasks, NEW state, Ends(u, state) PROVE Holds(t)
    BY <1>1, <2>2, EndTasks DEF Ends
  <2>3. CASE Refills
    BY <1>1, <2>3, RefillTasks
  <2>4. CASE OtherStep
    BY <1>1, <2>4, OtherTasks
  <2>5. QED BY <1>1, <2>1, <2>2, <2>3, <2>4, StepKinds DEF FillingStep
<1>2. IInv /\ [Next]_vars => [\A t \in Tasks : Holds(t)]_vars
  BY <1>1
<1>3. QED BY <1>2, Invariance, PTL DEF Spec, RetryOnlyOnDeadline

\* A step takes more slots only within the limit in force after it.
THEOREM SlotsStayLimited == Spec => SlotLimit
<1> DEFINE Holds == Cardinality(Occupied(run')) > Cardinality(Occupied(run)) =>
                      Cardinality(Occupied(run')) <= limit'
<1>1. ASSUME IInv, NEW s, NEW r, NEW q, Filled(s, r, q), Occupied(r) \subseteq Occupied(run)
      PROVE  Holds
  <2>1. Fillable(s, r, q) /\ FillSlots(s, r, q)
    BY <1>1 DEF Filled, Ready
  <2>2. /\ Cardinality(Occupied(r)) <= Cardinality(Occupied(run))
        /\ Cardinality(Occupied(r)) \in Nat /\ Cardinality(Occupied(run)) \in Nat
    BY <1>1, <2>1, CountsFinite, FS_Subset
  <2>3. CASE Started(s, r, q) # {}
    BY <2>1, <2>3, FilledWithinLimit
  <2>4. CASE Started(s, r, q) = {}
    <3>1. Occupied(run') = Occupied(r)
      BY <2>1, <2>4, FilledRuns
    <3>2. QED BY <2>2, <3>1
  <2>5. QED BY <2>3, <2>4
<1>2. ASSUME IInv, [Next]_vars PROVE Holds
  <2>1. ASSUME NEW t \in Tasks, Joins(t) PROVE Holds
    BY <1>1, <1>2, <2>1, JoinFilled
  <2>2. ASSUME NEW t \in Tasks, NEW state \in States, Ends(t, state) PROVE Holds
    <3>1. Occupied([run EXCEPT ![t] = "none"]) \subseteq Occupied(run)
      BY <1>2 DEF IInv, TypeOK, Occupied
    <3>2. QED BY <1>1, <1>2, <2>2, <3>1, EndFilled
  <2>3. CASE Refills
    BY <1>1, <1>2, <2>3, RefillFilled
  <2>4. CASE OtherStep
    <3>1. Occupied(run') \subseteq Occupied(run)
      BY <1>2, <2>4, OtherTasks DEF Occupied
    <3>2. IsFiniteSet(Occupied(run)) /\ Cardinality(Occupied(run)) \in Nat
      <4>1. Occupied(run) \subseteq Tasks
        BY DEF Occupied
      <4>2. QED BY <4>1, ConstantsAssumption, FS_Subset, FS_CardinalityType
    <3>3. /\ Cardinality(Occupied(run')) <= Cardinality(Occupied(run))
          /\ Cardinality(Occupied(run')) \in Nat
      BY <3>1, <3>2, FS_Subset, FS_CardinalityType
    <3>4. QED BY <3>2, <3>3
  <2>5. QED BY <1>2, <2>1, <2>2, <2>3, <2>4, StepKinds DEF FillingStep
<1>3. IInv /\ [Next]_vars => [Holds]_vars
  BY <1>2
<1>4. QED BY <1>3, Invariance, PTL DEF Spec, SlotLimit

\* The filling passes over no task that is due.
LEMMA FilledOrder ==
  ASSUME NEW s, NEW r, NEW q, Fillable(s, r, q), FillSlots(s, r, q),
         NEW a \in Tasks, NEW b, WaitsAhead(q, a, b), sched'[a] = 0, st'[a] = "queued"
  PROVE  WaitsAhead(queue', a, b) /\ b \notin Started(s, r, q)
<1> DEFINE first == KeepOnly(q, Tasks \ Reached(s, r, q))
           last  == KeepOnly(q, Postponed(s, r, q))
<1>1. PICK i \in 1..Len(q) : q[i] = a /\ \A j \in 1..i : q[j] # b
  BY DEF WaitsAhead
<1>2. a \in ToSet(q)
  BY <1>1 DEF Fillable, ToSet
<1>3. a \notin Started(s, r, q)
  BY DEF FillSlots
<1>4. Due(a)
  BY DEF Due, Fillable
<1>5. a \notin Reached(s, r, q)
  BY <1>3, <1>4, ReachedFacts
<1>6. WaitsAhead(queue', a, b)
  <2>1. first \in Seq(Tasks) /\ last \in Seq(Tasks)
    BY KeepOnlyElems DEF Fillable
  <2>2. WaitsAhead(first, a, b)
    BY <1>5, KeepOnlyAhead DEF Fillable
  <2>3. queue' = first \o last
    BY DEF FillSlots
  <2> HIDE DEF first, last
  <2>4. QED BY <2>1, <2>2, <2>3, JoinElems
<1>7. b \notin Reached(s, r, q)
  <2>1. SUFFICES ASSUME b \in Reached(s, r, q) PROVE FALSE
    OBVIOUS
  <2>2. PICK k \in 1..Len(q) :
          /\ q[k] = b
          /\ Cardinality(Occupied(r)) + Cardinality(Ahead(s, q, k)) < limit'
    BY <2>1 DEF Reached
  <2>3. i < k /\ i \in Nat /\ k \in Nat
    BY <1>1, <2>2 DEF Fillable
  <2>4. Ahead(s, q, i) \subseteq Ahead(s, q, k)
    BY <2>3 DEF Ahead
  <2>5. /\ IsFiniteSet(Ahead(s, q, k)) /\ Cardinality(Ahead(s, q, k)) \in Nat
        /\ Cardinality(Ahead(s, q, i)) \in Nat
        /\ Cardinality(Occupied(r)) \in Nat
        /\ limit' \in Nat
    BY CountsFinite DEF Fillable
  <2>6. Cardinality(Ahead(s, q, i)) <= Cardinality(Ahead(s, q, k))
    BY <2>4, <2>5, FS_Subset
  <2>7. Cardinality(Occupied(r)) + Cardinality(Ahead(s, q, i)) < limit'
    BY <2>2, <2>5, <2>6
  <2>8. a \in Reached(s, r, q)
    BY <1>1, <2>7 DEF Reached
  <2>9. QED BY <1>5, <2>8
<1>8. QED BY <1>6, <1>7, ReachedFacts

\* First in, first out, for tasks without a schedule (enqueueLocked,
\* fillAvailableSlotsLocked): nothing overtakes a task that keeps waiting.
THEOREM NothingOvertakes == Spec => NoOvertaking
<1> DEFINE Asked(a, b) ==
             /\ a # b /\ sched[a] = 0 /\ WaitsAhead(queue, a, b)
             /\ st'[a] = "queued" /\ ~ closed'
           Kept(a, b) ==
             /\ WaitsAhead(queue', a, b)
             /\ st'[b] = "downloading" => st[b] = "downloading"
<1>1. ASSUME IInv, [Next]_vars, NEW a \in Tasks, NEW b \in Tasks, Asked(a, b)
      PROVE  Kept(a, b)
  <2>1. queue \in Seq(Tasks) /\ Distinct(queue) /\ st[a] = "queued"
    <3>1. a \in ToSet(queue)
      BY <1>1 DEF WaitsAhead, ToSet, IInv, TypeOK
    <3>2. QED BY <1>1, <3>1 DEF IInv, TypeOK, QueueExact
  <2>2. ASSUME NEW t \in Tasks, Joins(t) PROVE Kept(a, b)
    <3> DEFINE s == [st EXCEPT ![t] = "queued"]
               q == Enqueue(queue, t)
    <3>1. Fillable(s, run, q) /\ FillSlots(s, run, q)
      BY <1>1, <2>2, JoinFilled DEF Filled, Ready
    <3>2. a # t
      BY <2>1, <2>2 DEF Joins
    <3>3. WaitsAhead(q, a, b)
      <4>1. WaitsAhead(Dequeue(queue, t), a, b)
        BY <1>1, <2>1, <3>2, KeepOnlyAhead DEF Dequeue
      <4>2. QED BY <2>1, <4>1, DequeueFacts, AppendElems DEF Enqueue
    <3>4. sched'[a] = 0
      BY <1>1, <2>2, <3>2 DEF Joins
    <3>5. WaitsAhead(queue', a, b) /\ b \notin Started(s, run, q)
      <4> HIDE DEF s, q
      <4>1. QED BY <1>1, <3>1, <3>3, <3>4, FilledOrder
    <3>6. st'[b] = "downloading" => st[b] = "downloading"
      BY <1>1, <3>1, <3>5 DEF FillSlots, IInv, TypeOK
    <3>7. QED BY <3>5, <3>6
  <2>3. ASSUME NEW t \in Tasks, NEW state \in States, Ends(t, state) PROVE Kept(a, b)
    <3> DEFINE s == [st EXCEPT ![t] = state]
               r == [run EXCEPT ![t] = "none"]
    <3>1. Fillable(s, r, queue) /\ FillSlots(s, r, queue)
      BY <1>1, <2>3, EndFilled DEF Filled, Ready
    <3>2. sched'[a] = 0
      BY <1>1, <2>3 DEF Ends
    <3>3. WaitsAhead(queue', a, b) /\ b \notin Started(s, r, queue)
      <4> HIDE DEF s, r
      <4>1. QED BY <1>1, <3>1, <3>2, FilledOrder
    <3>4. st'[b] = "downloading" => st[b] = "downloading"
      BY <1>1, <2>3, <3>1, <3>3 DEF FillSlots, IInv, TypeOK, Ends
    <3>5. QED BY <3>3, <3>4
  <2>4. CASE Refills
    <3>1. Fillable(st, run, queue) /\ FillSlots(st, run, queue)
      BY <1>1, <2>4, RefillFilled DEF Filled, Ready
    <3>2. sched'[a] = 0
      BY <1>1, <2>4 DEF Refills
    <3>3. WaitsAhead(queue', a, b) /\ b \notin Started(st, run, queue)
      BY <1>1, <3>1, <3>2, FilledOrder
    <3>4. QED BY <3>1, <3>3 DEF FillSlots
  <2>5. CASE OtherStep
    <3>1. st'[b] = "downloading" => st[b] = "downloading"
      BY <1>1, <2>5, OtherTasks
    <3>2. CASE \E t \in Tasks, kind \in {"pause", "cancel"}, state \in {"paused", "canceled"} :
                 Interrupt(t, kind, state)
      <4>1. PICK t \in Tasks, kind \in {"pause", "cancel"}, state \in {"paused", "canceled"} :
              Interrupt(t, kind, state)
        BY <3>2
      <4>2. a # t /\ queue' = Dequeue(queue, t)
        BY <1>1, <4>1 DEF Interrupt, IInv, TypeOK
      <4>3. QED BY <1>1, <2>1, <3>1, <4>2, KeepOnlyAhead DEF Dequeue
    <3>3. CASE \E t \in Tasks : Delete(t)
      <4>1. PICK t \in Tasks : Delete(t)
        BY <3>3
      <4>2. a # t /\ queue' = Dequeue(queue, t)
        BY <1>1, <4>1 DEF Delete, IInv, TypeOK
      <4>3. QED BY <1>1, <2>1, <3>1, <4>2, KeepOnlyAhead DEF Dequeue
    <3>4. CASE queue' = queue
      BY <1>1, <3>1, <3>4
    <3>5. CASE closed'
      BY <1>1, <3>5
    <3>6. OtherStep => \/ \E t \in Tasks, kind \in {"pause", "cancel"},
                                state \in {"paused", "canceled"} : Interrupt(t, kind, state)
                       \/ \E t \in Tasks : Delete(t)
                       \/ queue' = queue
                       \/ closed'
      BY <1>1 DEF OtherStep, Pause, Cancel, ResumeUnsaved, ResumeBTUnsaved, RunDiscarded, Fill,
             SignalRun, OperationEnd, CloseBegin, StopRuns, CloseEnd, RunReturn,
             RetryAbandoned, Tick, vars, slotVars
    <3>7. QED BY <2>5, <3>2, <3>3, <3>4, <3>5, <3>6
  <2>6. QED BY <1>1, <2>2, <2>3, <2>4, <2>5, StepKinds DEF FillingStep
<1>2. IInv /\ [Next]_vars => [\A a, b \in Tasks : Asked(a, b) => Kept(a, b)]_vars
  BY <1>1
<1>3. QED BY <1>2, Invariance, PTL DEF Spec, NoOvertaking

-----------------------------------------------------------------------------
(* The life cycle that clients see.                                        *)

LEMMA FillingIsStep ==
  ASSUME IInv, FillingStep
  PROVE  Lifecycle!Step
<1>1. ~ closed /\ closed' = FALSE
  BY DEF FillingStep, Joins, Ends, Refills, closeVars, IInv, TypeOK
<1>2. ASSUME NEW t \in Tasks, st'[t] # st[t]
      PROVE  <<st[t], st'[t]>> \in Lifecycle!Moves
  <2>1. ASSUME NEW u \in Tasks, Joins(u) PROVE <<st[t], st'[t]>> \in Lifecycle!Moves
    BY <1>2, <2>1, JoinTasks DEF Joins, Lifecycle!Moves
  <2>2. ASSUME NEW u \in Tasks, NEW state \in States, Ends(u, state)
        PROVE  <<st[t], st'[t]>> \in Lifecycle!Moves
    BY <1>2, <2>2, EndTasks DEF Ends, Lifecycle!Moves
  <2>3. CASE Refills
    BY <1>2, <2>3, RefillTasks DEF Lifecycle!Moves
  <2>4. QED BY <2>1, <2>2, <2>3 DEF FillingStep
<1>3. QED BY <1>1, <1>2 DEF Lifecycle!Step

LEMMA OtherIsStep ==
  ASSUME IInv, OtherStep
  PROVE  [Lifecycle!Step \/ Lifecycle!Close]_<<st, closed>>
<1>1. CASE CloseBegin
  <2>1. ~ closed /\ closed' = TRUE /\ \A t \in Tasks : st'[t] = ClosedState(t)
    BY <1>1 DEF CloseBegin, Operating
  <2>2. QED BY <2>1 DEF ClosedState, KeepsPlan, Lifecycle!Close, Lifecycle!Active
<1>2. CASE \E u \in Tasks : Pause(u)
  <2>1. PICK u \in Tasks : Pause(u)
    BY <1>2
  <2>2. /\ ~ closed /\ closed' = FALSE
        /\ st[u] \in {"downloading", "queued", "retrying"} /\ st'[u] = "paused"
        /\ \A t \in Tasks \ {u} : st'[t] = st[t]
    BY <2>1 DEF Pause, Interrupt, Operating, closeVars, IInv, TypeOK
  <2>3. QED BY <2>2 DEF Lifecycle!Step, Lifecycle!Moves, Lifecycle!Active
<1>3. CASE \E u \in Tasks : Cancel(u)
  <2>1. PICK u \in Tasks : Cancel(u)
    BY <1>3
  <2>2. /\ ~ closed /\ closed' = FALSE
        /\ st[u] \in {"downloading", "queued", "retrying", "paused"} /\ st'[u] = "canceled"
        /\ \A t \in Tasks \ {u} : st'[t] = st[t]
    BY <2>1 DEF Cancel, Interrupt, Operating, closeVars, IInv, TypeOK
  <2>3. QED BY <2>2 DEF Lifecycle!Step, Lifecycle!Moves, Lifecycle!Active
<1>4. CASE \E u \in Tasks : ResumeBTUnsaved(u)
  <2>1. PICK u \in Tasks : ResumeBTUnsaved(u)
    BY <1>4
  <2>2. /\ ~ closed /\ closed' = FALSE /\ st[u] = "paused" /\ st'[u] = "queued"
        /\ \A t \in Tasks \ {u} : st'[t] = st[t]
    BY <2>1 DEF ResumeBTUnsaved, Operating, closeVars, IInv, TypeOK
  <2>3. QED BY <2>2 DEF Lifecycle!Step, Lifecycle!Moves
<1>5. CASE \E u \in Tasks : Delete(u)
  <2>1. PICK u \in Tasks : Delete(u)
    BY <1>5
  <2>2. /\ ~ closed /\ closed' = FALSE /\ st[u] \in Terminal /\ st'[u] = "absent"
        /\ \A t \in Tasks \ {u} : st'[t] = st[t]
    BY <2>1 DEF Delete, Operating, closeVars, IInv, TypeOK
  <2>3. QED BY <2>2 DEF Terminal, Lifecycle!Step, Lifecycle!Moves
<1>6. CASE UNCHANGED <<st, closed>>
  BY <1>6
<1>7. OtherStep => \/ CloseBegin
                   \/ \E u \in Tasks : Pause(u)
                   \/ \E u \in Tasks : Cancel(u)
                   \/ \E u \in Tasks : ResumeBTUnsaved(u)
                   \/ \E u \in Tasks : Delete(u)
                   \/ UNCHANGED <<st, closed>>
  BY DEF OtherStep, ResumeUnsaved, RunDiscarded, Fill, SignalRun, OperationEnd, StopRuns,
         CloseEnd, RunReturn, RetryAbandoned, Tick, vars, slotVars, closeVars
<1>8. QED BY <1>1, <1>2, <1>3, <1>4, <1>5, <1>6, <1>7

\* The manager implements the life cycle of TaskLifecycle: its initial states
\* are the life cycle's, and each of its steps is a step of it or a stutter.
THEOREM ImplementsLifecycle == Spec => LifecycleSpec
<1>1. Init => Lifecycle!Init
  BY DEF Init, Lifecycle!Init
<1>2. IInv /\ [Next]_vars => [Lifecycle!Step \/ Lifecycle!Close]_<<st, closed>>
  BY StepKinds, FillingIsStep, OtherIsStep
<1>3. QED BY <1>1, <1>2, Invariance, PTL DEF Spec, LifecycleSpec, Lifecycle!Spec
=============================================================================
