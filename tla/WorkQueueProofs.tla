--------------------------- MODULE WorkQueueProofs ---------------------------
(***************************************************************************)
(* Proofs about WorkQueue, for every set of keys and workers and every     *)
(* retry limit: type correctness, that no two workers share a key, that no *)
(* event is lost, and that the queue implements KeyHandover step by step.  *)
(***************************************************************************)
EXTENDS WorkQueue, SequenceTheorems, TLAPS

\* k waits in the FIFO.
Queued(k) == \E i \in 1..Len(queue) : queue[i] = k

\* A worker holds a key exactly between Get and Done.
HoldInv == \A w \in Workers : (stage[w] = "waiting") <=> (holding[w] = NoKey)

\* The processing set is what the workers hold.
ProcessingInv ==
  /\ \A w \in Workers : holding[w] # NoKey => holding[w] \in processing
  /\ \A k \in processing : \E w \in Workers : holding[w] = k

\* The FIFO has no key twice, and only keys that are dirty and not held.
QueueInv ==
  /\ \A i \in 1..Len(queue) : queue[i] \in dirty /\ queue[i] \notin processing
  /\ \A i, j \in 1..Len(queue) : queue[i] = queue[j] => i = j

\* A dirty key is in the FIFO or will be put there by Done.
DirtyInv == \A k \in dirty : Queued(k) \/ k \in processing

IInv ==
  /\ TypeOK
  /\ HoldInv
  /\ ProcessingInv
  /\ ExclusiveKey
  /\ QueueInv
  /\ DirtyInv

-----------------------------------------------------------------------------
(* What one Append or Tail does to the FIFO's part of the invariant.       *)

\* Appending a dirty key that neither waits nor is held keeps QueueInv's shape.
LEMMA AppendFresh ==
  ASSUME TypeOK, QueueInv, NEW k \in Keys, ~Queued(k), k \notin processing
  PROVE  LET q == Append(queue, k) IN
         /\ q \in Seq(Keys)
         /\ \A i \in 1..Len(q) : q[i] \in dirty \union {k} /\ q[i] \notin processing
         /\ \A i, j \in 1..Len(q) : q[i] = q[j] => i = j
         /\ \E i \in 1..Len(q) : q[i] = k
         /\ \A l : Queued(l) => \E i \in 1..Len(q) : q[i] = l
<1> DEFINE q == Append(queue, k)
<1>1. queue \in Seq(Keys)
  BY DEF TypeOK
<1>2. /\ Len(queue) \in Nat
      /\ q \in Seq(Keys)
      /\ Len(q) = Len(queue) + 1
      /\ \A i \in 1..Len(queue) : q[i] = queue[i]
      /\ q[Len(queue) + 1] = k
  BY <1>1, AppendProperties, LenProperties
<1> HIDE DEF q
<1>3. \A i \in 1..Len(q) : i \in 1..Len(queue) \/ i = Len(queue) + 1
  BY <1>2
<1>4. \A i \in 1..Len(queue) : queue[i] # k
  BY DEF Queued
<1>5. \A i, j \in 1..Len(q) : q[i] = q[j] => i = j
  BY <1>2, <1>3, <1>4 DEF QueueInv
<1>6. \A l : Queued(l) => \E i \in 1..Len(q) : q[i] = l
  BY <1>2 DEF Queued
<1>7. /\ \A i \in 1..Len(q) : q[i] \in dirty \union {k} /\ q[i] \notin processing
      /\ \E i \in 1..Len(q) : q[i] = k
  BY <1>2, <1>3 DEF QueueInv
<1> QED
  BY <1>2, <1>5, <1>6, <1>7 DEF q

\* Taking the head of the FIFO removes that key and no other.
LEMMA TailOfQueue ==
  ASSUME TypeOK, QueueInv, queue # <<>>
  PROVE  /\ Head(queue) \in Keys
         /\ Head(queue) \in dirty
         /\ Head(queue) \notin processing
         /\ Tail(queue) \in Seq(Keys)
         /\ \A i \in 1..Len(Tail(queue)) : /\ Tail(queue)[i] \in dirty \ {Head(queue)}
                                           /\ Tail(queue)[i] \notin processing
         /\ \A i, j \in 1..Len(Tail(queue)) : Tail(queue)[i] = Tail(queue)[j] => i = j
         /\ \A l : Queued(l) /\ l # Head(queue)
                     => \E i \in 1..Len(Tail(queue)) : Tail(queue)[i] = l
<1>1. queue \in Seq(Keys)
  BY DEF TypeOK
<1>2. /\ Head(queue) \in Keys
      /\ Tail(queue) \in Seq(Keys)
      /\ Len(Tail(queue)) = Len(queue) - 1
      /\ \A i \in 1..Len(Tail(queue)) : Tail(queue)[i] = queue[i + 1]
  BY <1>1, HeadTailProperties
<1>3. Len(queue) \in Nat \ {0}
  BY <1>1, EmptySeq
<1>4. Head(queue) = queue[1]
  BY <1>1
<1>5. \A i \in 1..Len(Tail(queue)) : i + 1 \in 1..Len(queue) /\ i + 1 # 1
  BY <1>2, <1>3
<1>6. 1 \in 1..Len(queue)
  BY <1>3
<1>7. \A i \in 1..Len(Tail(queue)) : Tail(queue)[i] # Head(queue)
  BY <1>2, <1>4, <1>5, <1>6 DEF QueueInv
<1>8. \A i, j \in 1..Len(Tail(queue)) : Tail(queue)[i] = Tail(queue)[j] => i = j
  BY <1>2, <1>3, <1>5 DEF QueueInv
<1>9. ASSUME NEW l, Queued(l), l # Head(queue)
      PROVE  \E i \in 1..Len(Tail(queue)) : Tail(queue)[i] = l
  <2>1. PICK i \in 1..Len(queue) : queue[i] = l
    BY <1>9 DEF Queued
  <2>2. i - 1 \in 1..Len(Tail(queue)) /\ (i - 1) + 1 = i
    BY <2>1, <1>2, <1>3, <1>4, <1>9
  <2> QED
    BY <2>1, <2>2, <1>2
<1> QED
  BY <1>2, <1>4, <1>5, <1>6, <1>7, <1>8, <1>9 DEF QueueInv

\* Queue.Add keeps the FIFO's invariants and covers the key it adds.
LEMMA AddKeyKeeps ==
  ASSUME TypeOK, QueueInv, DirtyInv, NEW k \in Keys, AddKey(k),
         processing' = processing
  PROVE  /\ queue' \in Seq(Keys)
         /\ dirty' \subseteq Keys
         /\ QueueInv'
         /\ DirtyInv'
<1>1. dirty' = dirty \union {k}
  BY DEF AddKey
<1>2. CASE k \in dirty \union processing
  <2>1. queue' = queue
    BY <1>2 DEF AddKey
  <2> QED
    BY <1>1, <1>2, <2>1 DEF TypeOK, QueueInv, DirtyInv, Queued
<1>3. CASE k \notin dirty \union processing
  <2>1. queue' = Append(queue, k)
    BY <1>3 DEF AddKey
  <2>2. ~Queued(k)
    BY <1>3 DEF QueueInv, Queued
  <2>3. /\ queue' \in Seq(Keys)
        /\ \A i \in 1..Len(queue') : queue'[i] \in dirty \union {k} /\ queue'[i] \notin processing
        /\ \A i, j \in 1..Len(queue') : queue'[i] = queue'[j] => i = j
        /\ \E i \in 1..Len(queue') : queue'[i] = k
        /\ \A l : Queued(l) => \E i \in 1..Len(queue') : queue'[i] = l
    BY <1>3, <2>1, <2>2, AppendFresh
  <2>4. QueueInv'
    BY <1>1, <2>3 DEF QueueInv
  <2>5. DirtyInv'
    BY <1>1, <2>3 DEF DirtyInv, Queued
  <2> QED
    BY <1>1, <2>3, <2>4, <2>5 DEF TypeOK
<1> QED
  BY <1>2, <1>3

-----------------------------------------------------------------------------
(* The inductive invariant.                                                *)

\* The invariant holds before the first event.
LEMMA InitIInv == Init => IInv
<1> SUFFICES ASSUME Init PROVE IInv
  OBVIOUS
<1>1. TypeOK
  BY WorkQueueAssumption DEF Init, TypeOK, Stages
<1>2. Len(queue) = 0
  BY DEF Init
<1>3. QueueInv /\ DirtyInv
  BY <1>2 DEF Init, QueueInv, DirtyInv
<1>4. HoldInv /\ ProcessingInv /\ ExclusiveKey
  BY DEF Init, HoldInv, ProcessingInv, ExclusiveKey
<1> QED
  BY <1>1, <1>3, <1>4 DEF IInv

\* Every step of the queue, a worker or an event handler preserves it.
LEMMA NextIInv == IInv /\ [Next]_vars => IInv'
<1> SUFFICES ASSUME IInv, [Next]_vars PROVE IInv'
  OBVIOUS
<1> USE DEF IInv
<1>1. ASSUME NEW k \in Keys, Enqueue(k) PROVE IInv'
  <2>1. AddKey(k) /\ processing' = processing
    BY <1>1 DEF Enqueue
  <2>2. queue' \in Seq(Keys) /\ dirty' \subseteq Keys /\ QueueInv' /\ DirtyInv'
    BY <2>1, AddKeyKeeps
  <2>3. TypeOK'
    BY <1>1, <2>2 DEF TypeOK, Enqueue
  <2>4. HoldInv' /\ ProcessingInv' /\ ExclusiveKey'
    BY <1>1 DEF Enqueue, HoldInv, ProcessingInv, ExclusiveKey
  <2> QED
    BY <2>2, <2>3, <2>4
<1>2. ASSUME NEW k \in Keys, DelayExpires(k) PROVE IInv'
  <2>1. AddKey(k) /\ processing' = processing
    BY <1>2 DEF DelayExpires
  <2>2. queue' \in Seq(Keys) /\ dirty' \subseteq Keys /\ QueueInv' /\ DirtyInv'
    BY <2>1, AddKeyKeeps
  <2>3. TypeOK'
    BY <1>2, <2>2 DEF TypeOK, DelayExpires
  <2>4. HoldInv' /\ ProcessingInv' /\ ExclusiveKey'
    BY <1>2 DEF DelayExpires, HoldInv, ProcessingInv, ExclusiveKey
  <2> QED
    BY <2>2, <2>3, <2>4
<1>3. ASSUME NEW w \in Workers, Get(w) PROVE IInv'
  <2> DEFINE k == Head(queue)
  <2>1. /\ stage[w] = "waiting" /\ queue # <<>>
        /\ holding' = [holding EXCEPT ![w] = k]
        /\ processing' = processing \union {k}
        /\ dirty' = dirty \ {k}
        /\ attempts' = [attempts EXCEPT ![k] = @ + 1]
        /\ queue' = Tail(queue)
        /\ stage' = [stage EXCEPT ![w] = "running"]
        /\ UNCHANGED <<delayed, requeues>>
    BY <1>3 DEF Get
  <2>2. /\ k \in Keys /\ k \in dirty /\ k \notin processing
        /\ Tail(queue) \in Seq(Keys)
        /\ \A i \in 1..Len(Tail(queue)) : /\ Tail(queue)[i] \in dirty \ {k}
                                          /\ Tail(queue)[i] \notin processing
        /\ \A i, j \in 1..Len(Tail(queue)) : Tail(queue)[i] = Tail(queue)[j] => i = j
        /\ \A l : Queued(l) /\ l # k => \E i \in 1..Len(Tail(queue)) : Tail(queue)[i] = l
    BY <2>1, TailOfQueue
  <2> HIDE DEF k
  <2>3. TypeOK'
    BY <2>1, <2>2 DEF TypeOK, Stages
  <2>4. QueueInv' /\ DirtyInv'
    <3>1. QueueInv'
      BY <2>1, <2>2 DEF QueueInv
    <3>2. DirtyInv'
      BY <2>1, <2>2 DEF DirtyInv, Queued
    <3> QED
      BY <3>1, <3>2
  <2>5. HoldInv'
    BY <2>1, <2>2, WorkQueueAssumption DEF HoldInv, TypeOK
  <2>6. \A v \in Workers : holding[v] # k
    BY <2>2, WorkQueueAssumption DEF ProcessingInv
  <2>7. holding[w] = NoKey
    BY <2>1 DEF HoldInv
  <2>8. ProcessingInv'
    BY <2>1, <2>2, <2>7, WorkQueueAssumption DEF ProcessingInv, TypeOK
  <2>9. ExclusiveKey'
    BY <2>1, <2>6 DEF ExclusiveKey, TypeOK
  <2> QED
    BY <2>3, <2>4, <2>5, <2>8, <2>9
<1>4. ASSUME NEW w \in Workers, EnqueueAfter(w) \/ Succeed(w) \/ Retry(w) \/ Drop(w)
      PROVE  IInv'
  <2>1. /\ stage[w] = "running"
        /\ stage' \in [Workers -> Stages]
        /\ \A v \in Workers : (stage'[v] = "waiting") <=> (stage[v] = "waiting")
        /\ UNCHANGED <<queue, dirty, processing, holding>>
    BY <1>4 DEF EnqueueAfter, Succeed, Retry, Drop, Leave, TypeOK, Stages
  <2>2. holding[w] \in Keys
    BY <2>1 DEF HoldInv, TypeOK
  <2>3. delayed' \subseteq Keys /\ attempts' \in [Keys -> Nat]
    BY <1>4, <2>2 DEF EnqueueAfter, Succeed, Retry, Drop, TypeOK
  <2>4. requeues' \in [Keys -> 0..MaxRetries]
    <3>1. CASE EnqueueAfter(w)
      BY <3>1 DEF EnqueueAfter, TypeOK
    <3>2. CASE Succeed(w) \/ Drop(w)
      <4>1. 0 \in 0..MaxRetries
        BY WorkQueueAssumption
      <4>2. requeues' = [requeues EXCEPT ![holding[w]] = 0]
        BY <3>2 DEF Succeed, Drop, Forget
      <4> QED
        BY <4>1, <4>2 DEF TypeOK
    <3>3. CASE Retry(w)
      <4>1. requeues[holding[w]] + 1 \in 0..MaxRetries
        BY <3>3, <2>2, WorkQueueAssumption DEF Retry, TypeOK
      <4> QED
        BY <3>3, <4>1, <2>2 DEF Retry, CountFailure, TypeOK
    <3> QED
      BY <1>4, <3>1, <3>2, <3>3
  <2>5. TypeOK'
    BY <2>1, <2>3, <2>4 DEF TypeOK
  <2>6. HoldInv' /\ ProcessingInv' /\ ExclusiveKey'
    BY <2>1 DEF HoldInv, ProcessingInv, ExclusiveKey
  <2>7. QueueInv' /\ DirtyInv'
    BY <2>1 DEF QueueInv, DirtyInv, Queued
  <2> QED
    BY <2>5, <2>6, <2>7
<1>5. ASSUME NEW w \in Workers, Done(w) PROVE IInv'
  <2> DEFINE k == holding[w]
  <2>1. /\ stage[w] = "leaving"
        /\ processing' = processing \ {k}
        /\ queue' = IF k \in dirty THEN Append(queue, k) ELSE queue
        /\ holding' = [holding EXCEPT ![w] = NoKey]
        /\ stage' = [stage EXCEPT ![w] = "waiting"]
        /\ UNCHANGED <<dirty, delayed, requeues, attempts>>
    BY <1>5 DEF Done
  <2>2. k \in Keys /\ k # NoKey /\ k \in processing
    BY <2>1, WorkQueueAssumption DEF HoldInv, TypeOK, ProcessingInv
  <2>3. ~Queued(k)
    BY <2>2 DEF QueueInv, Queued
  <2>4. \A v \in Workers : v # w => holding[v] # k
    BY <2>2 DEF ExclusiveKey
  <2>5. HoldInv' /\ ExclusiveKey'
    BY <2>1 DEF HoldInv, ExclusiveKey, TypeOK
  <2>6. ProcessingInv'
    BY <2>1, <2>2, <2>4, WorkQueueAssumption DEF ProcessingInv, TypeOK
  <2> HIDE DEF k
  <2>7. CASE k \notin dirty
    <3>1. queue' = queue
      BY <2>1, <2>7
    <3>2. TypeOK'
      BY <2>1, <3>1 DEF TypeOK, Stages
    <3>3. QueueInv' /\ DirtyInv'
      BY <2>1, <2>7, <3>1 DEF QueueInv, DirtyInv, Queued
    <3> QED
      BY <3>2, <3>3, <2>5, <2>6
  <2>8. CASE k \in dirty
    <3>1. queue' = Append(queue, k)
      BY <2>1, <2>8
    <3>2. queue \in Seq(Keys)
      BY DEF TypeOK
    <3>3. /\ Len(queue) \in Nat
          /\ queue' \in Seq(Keys)
          /\ Len(queue') = Len(queue) + 1
          /\ \A i \in 1..Len(queue) : queue'[i] = queue[i]
          /\ queue'[Len(queue) + 1] = k
      BY <2>2, <3>1, <3>2, AppendProperties, LenProperties
    <3>4. \A i \in 1..Len(queue') : i \in 1..Len(queue) \/ i = Len(queue) + 1
      BY <3>3
    <3>5. TypeOK'
      BY <2>1, <3>3 DEF TypeOK, Stages
    <3>6. \A i \in 1..Len(queue) : queue[i] # k
      BY <2>3 DEF Queued
    <3>7. \A i, j \in 1..Len(queue') : queue'[i] = queue'[j] => i = j
      BY <3>3, <3>4, <3>6 DEF QueueInv
    <3>8. \A i \in 1..Len(queue') : queue'[i] \in dirty' /\ queue'[i] \notin processing'
      BY <2>1, <2>8, <3>3, <3>4 DEF QueueInv
    <3>9. QueueInv'
      BY <3>7, <3>8 DEF QueueInv
    <3>10. /\ \E i \in 1..Len(queue') : queue'[i] = k
           /\ \A l : Queued(l) => \E i \in 1..Len(queue') : queue'[i] = l
      BY <3>3 DEF Queued
    <3>11. \A l \in dirty : (\E i \in 1..Len(queue') : queue'[i] = l) \/ l \in processing'
      BY <2>1, <3>10 DEF DirtyInv
    <3>12. DirtyInv'
      BY <2>1, <3>11 DEF DirtyInv, Queued
    <3> QED
      BY <3>5, <3>9, <3>12, <2>5, <2>6
  <2> QED
    BY <2>7, <2>8
<1>6. CASE UNCHANGED vars
  BY <1>6 DEF vars, TypeOK, HoldInv, ProcessingInv, ExclusiveKey, QueueInv, DirtyInv, Queued
<1> QED
  BY <1>1, <1>2, <1>3, <1>4, <1>5, <1>6 DEF Next, Work

\* The inductive invariant holds in every reachable state of the queue.
THEOREM Invariance == Spec => []IInv
  BY InitIInv, NextIInv, PTL DEF Spec

\* The queue and the workers never leave their types (controller.go:61-144).
THEOREM TypeCorrect == Spec => []TypeOK
<1>1. IInv => TypeOK
  BY DEF IInv
<1> QED
  BY <1>1, Invariance, PTL

\* No two workers process one key at the same time (controller.go:100-143).
THEOREM ExclusiveProcessing == Spec => []ExclusiveKey
<1>1. IInv => ExclusiveKey
  BY DEF IInv
<1> QED
  BY <1>1, Invariance, PTL

\* A key named by an event waits in the FIFO or is held (controller.go:67, 108-110).
THEOREM NoEventLost == Spec => []NoLostKey
<1>1. IInv => NoLostKey
  BY DEF IInv, DirtyInv, ProcessingInv, Queued, NoLostKey
<1> QED
  BY <1>1, Invariance, PTL

-----------------------------------------------------------------------------
(* The retry limit.  Each reason to process k again (dirty, delayed) is a  *)
(* token.  A failed attempt turns its token into a delayed one until the   *)
(* counter reaches MaxRetries; then the token is gone and the counter 0.   *)

\* Attempts that `tokens` tokens can still cause when the counter is at r.
Fuel(tokens, r) ==
  IF tokens = 0 THEN 0
  ELSE IF tokens = 1 THEN MaxRetries + 1 - r
  ELSE 2 * (MaxRetries + 1) - r

Tokens(k) == (IF k \in dirty THEN 1 ELSE 0) + (IF k \in delayed THEN 1 ELSE 0)

Running(k) == \E w \in Workers : holding[w] = k /\ stage[w] = "running"

\* A running attempt is counted already; it may fail and leave a token behind.
Budget(k) ==
  IF ~Running(k) THEN Fuel(Tokens(k), requeues[k])
  ELSE IF requeues[k] = MaxRetries THEN Fuel(Tokens(k), 0)
  ELSE Fuel(IF Tokens(k) = 0 THEN 1 ELSE 2, requeues[k] + 1)

BudgetInv == \A k \in Keys : attempts[k] + Budget(k) <= 2 * (MaxRetries + 1)

\* A key without attempts is within the budget whatever waits for it.
LEMMA BudgetCap ==
  ASSUME TypeOK, NEW k \in Keys
  PROVE  Budget(k) \in Nat /\ Budget(k) <= 2 * (MaxRetries + 1)
<1>1. requeues[k] \in 0..MaxRetries /\ MaxRetries \in Nat /\ Tokens(k) \in {0, 1, 2}
  BY WorkQueueAssumption DEF TypeOK, Tokens
<1> HIDE DEF Tokens
<1> QED
  BY <1>1 DEF Budget, Fuel

\* A step that leaves what Budget(k) reads alone leaves the bound alone.
LEMMA BudgetFrame ==
  ASSUME BudgetInv, NEW k \in Keys,
         (k \in dirty') <=> (k \in dirty), (k \in delayed') <=> (k \in delayed),
         requeues'[k] = requeues[k], Running(k)' <=> Running(k), attempts'[k] = attempts[k]
  PROVE  attempts'[k] + Budget(k)' <= 2 * (MaxRetries + 1)
<1>1. Tokens(k)' = Tokens(k)
  BY DEF Tokens
<1>2. Budget(k)' = Budget(k)
  BY <1>1 DEF Budget, Fuel
<1> QED
  BY <1>2 DEF BudgetInv

\* Every step keeps every key within its budget.
LEMMA NextBudget == IInv /\ IInv' /\ BudgetInv /\ [Next]_vars => BudgetInv'
<1> SUFFICES ASSUME IInv, IInv', BudgetInv, [Next]_vars, NEW k \in Keys
             PROVE  attempts'[k] + Budget(k)' <= 2 * (MaxRetries + 1)
  BY DEF BudgetInv
<1> DEFINE Bounded == attempts'[k] + Budget(k)' <= 2 * (MaxRetries + 1)
<1>1. MaxRetries \in Nat /\ requeues[k] \in 0..MaxRetries /\ attempts[k] \in Nat
  BY WorkQueueAssumption DEF IInv, TypeOK
<1>2. attempts[k] + Budget(k) <= 2 * (MaxRetries + 1)
  BY DEF BudgetInv
<1>3. ASSUME attempts'[k] = 0 PROVE Bounded
  <2>1. requeues'[k] \in 0..MaxRetries /\ Tokens(k)' \in {0, 1, 2}
    BY DEF Tokens, IInv, TypeOK
  <2> HIDE DEF Tokens, Running
  <2> QED
    BY <1>1, <1>3, <2>1 DEF Budget, Fuel
<1>4. ASSUME NEW l \in Keys, Enqueue(l) PROVE Bounded
  <2>1. CASE l = k
    BY <1>3, <1>4, <2>1 DEF Enqueue, IInv, TypeOK
  <2>2. CASE l # k
    BY <1>4, <2>2, BudgetFrame DEF Enqueue, AddKey, Running, IInv, TypeOK
  <2> QED
    BY <2>1, <2>2
<1>5. ASSUME NEW l \in Keys, DelayExpires(l) PROVE Bounded
  <2>1. CASE l = k
    <3>1. /\ Tokens(k)' = 1 /\ Tokens(k) \in {1, 2}
          /\ requeues'[k] = requeues[k] /\ attempts'[k] = attempts[k]
          /\ Running(k)' <=> Running(k)
      BY <1>5, <2>1 DEF DelayExpires, AddKey, Tokens, Running
    <3> HIDE DEF Tokens, Running
    <3> QED
      BY <1>1, <1>2, <3>1 DEF Budget, Fuel
  <2>2. CASE l # k
    BY <1>5, <2>2, BudgetFrame DEF DelayExpires, AddKey, Running, IInv, TypeOK
  <2> QED
    BY <2>1, <2>2
<1>6. ASSUME NEW w \in Workers, Get(w) PROVE Bounded
  <2>1. /\ Head(queue) \in Keys /\ Head(queue) \in dirty /\ Head(queue) \notin processing
    BY <1>6, TailOfQueue DEF Get, IInv
  <2>2. holding[w] = NoKey /\ stage[w] = "waiting"
    BY <1>6 DEF Get, IInv, HoldInv
  <2>3. CASE Head(queue) = k
    <3>1. ~Running(k)
      BY <2>1, <2>3, WorkQueueAssumption DEF Running, IInv, ProcessingInv
    <3>2. Running(k)'
      BY <1>6, <2>3 DEF Get, Running, IInv, TypeOK
    <3>3. /\ Tokens(k)' = Tokens(k) - 1 /\ Tokens(k) \in {1, 2}
          /\ requeues'[k] = requeues[k] /\ attempts'[k] = attempts[k] + 1
      BY <1>6, <2>1, <2>3 DEF Get, Tokens, IInv, TypeOK
    <3> HIDE DEF Tokens, Running
    <3> QED
      BY <1>1, <1>2, <3>1, <3>2, <3>3 DEF Budget, Fuel
  <2>4. CASE Head(queue) # k
    <3>1. Running(k)' <=> Running(k)
      BY <1>6, <2>2, <2>4 DEF Get, Running, IInv, TypeOK, Stages
    <3> QED
      BY <1>6, <2>4, <3>1, BudgetFrame DEF Get, IInv, TypeOK
  <2> QED
    BY <2>3, <2>4
<1>7. ASSUME NEW w \in Workers, Leave(w), holding[w] # k,
             requeues'[k] = requeues[k], attempts'[k] = attempts[k],
             delayed' \in {delayed, delayed \union {holding[w]}}
      PROVE  Bounded
  <2>1. Running(k)' <=> Running(k)
    BY <1>7 DEF Leave, Running, IInv, TypeOK
  <2> QED
    BY <1>7, <2>1, BudgetFrame DEF Leave
<1>8. ASSUME NEW w \in Workers, EnqueueAfter(w) \/ Succeed(w) PROVE Bounded
  <2>1. CASE holding[w] = k
    BY <1>3, <1>8, <2>1 DEF EnqueueAfter, Succeed, IInv, TypeOK
  <2>2. CASE holding[w] # k /\ EnqueueAfter(w)
    BY <2>2, BudgetFrame DEF EnqueueAfter, Running, IInv, TypeOK
  <2>3. CASE holding[w] # k /\ Succeed(w)
    BY <1>7, <2>3 DEF Succeed, Forget, IInv, TypeOK
  <2> QED
    BY <1>8, <2>1, <2>2, <2>3
<1>9. ASSUME NEW w \in Workers, Leave(w), holding[w] = k
      PROVE  Running(k) /\ ~Running(k)'
  BY <1>9 DEF Leave, Running, IInv, TypeOK, ExclusiveKey, HoldInv
<1>10. ASSUME NEW w \in Workers, Retry(w) PROVE Bounded
  <2>1. CASE holding[w] = k
    <3>1. Running(k) /\ ~Running(k)'
      BY <1>9, <1>10, <2>1 DEF Retry
    <3>2. /\ requeues[k] < MaxRetries /\ requeues'[k] = requeues[k] + 1
          /\ attempts'[k] = attempts[k]
      BY <1>10, <2>1 DEF Retry, CountFailure, IInv, TypeOK
    <3>3. /\ Tokens(k) \in {0, 1, 2}
          /\ Tokens(k)' \in {1, 2} /\ (Tokens(k) = 0 => Tokens(k)' = 1)
      BY <1>10, <2>1 DEF Retry, Leave, Tokens
    <3> HIDE DEF Tokens, Running
    <3> QED
      BY <1>1, <1>2, <3>1, <3>2, <3>3 DEF Budget, Fuel
  <2>2. CASE holding[w] # k
    BY <1>7, <1>10, <2>2 DEF Retry, CountFailure, IInv, TypeOK
  <2> QED
    BY <2>1, <2>2
<1>11. ASSUME NEW w \in Workers, Drop(w) PROVE Bounded
  <2>1. CASE holding[w] = k
    <3>1. Running(k) /\ ~Running(k)'
      BY <1>9, <1>11, <2>1 DEF Drop
    <3>2. requeues[k] = MaxRetries /\ requeues'[k] = 0 /\ attempts'[k] = attempts[k]
      BY <1>1, <1>11, <2>1 DEF Drop, Forget, IInv, TypeOK
    <3>3. Tokens(k) \in {0, 1, 2} /\ Tokens(k)' = Tokens(k)
      BY <1>11 DEF Drop, Leave, Tokens
    <3> HIDE DEF Tokens, Running
    <3> QED
      BY <1>1, <1>2, <3>1, <3>2, <3>3 DEF Budget, Fuel
  <2>2. CASE holding[w] # k
    BY <1>7, <1>11, <2>2 DEF Drop, Forget, IInv, TypeOK
  <2> QED
    BY <2>1, <2>2
<1>12. ASSUME NEW w \in Workers, Done(w) PROVE Bounded
  <2>1. Running(k)' <=> Running(k)
    BY <1>12, WorkQueueAssumption DEF Done, Running, IInv, TypeOK
  <2> QED
    BY <1>12, <2>1, BudgetFrame DEF Done
<1>13. CASE UNCHANGED vars
  BY <1>13, BudgetFrame DEF vars, Running
<1> QED
  BY <1>4, <1>5, <1>6, <1>8, <1>10, <1>11, <1>12, <1>13 DEF Next, Work

\* An object that keeps failing is attempted at most 2 * (MaxRetries + 1) times
\* in a row (controller.go:130-141).
THEOREM RetryLimit == Spec => []RetriesBounded
<1>1. Init => BudgetInv
  <2> SUFFICES ASSUME Init, NEW k \in Keys
               PROVE  attempts[k] + Budget(k) <= 2 * (MaxRetries + 1)
    BY DEF BudgetInv
  <2>1. ~Running(k) /\ Tokens(k) = 0 /\ attempts[k] = 0
    BY WorkQueueAssumption DEF Init, Running, Tokens
  <2> HIDE DEF Running, Tokens
  <2> QED
    BY <2>1, WorkQueueAssumption DEF Budget, Fuel
<1>2. IInv /\ BudgetInv => RetriesBounded
  <2> SUFFICES ASSUME IInv, BudgetInv, NEW k \in Keys
               PROVE  attempts[k] <= 2 * (MaxRetries + 1)
    BY DEF RetriesBounded
  <2>1. Budget(k) \in Nat /\ attempts[k] + Budget(k) <= 2 * (MaxRetries + 1)
    BY BudgetCap DEF IInv, BudgetInv
  <2>2. attempts[k] \in Nat /\ MaxRetries \in Nat
    BY WorkQueueAssumption DEF IInv, TypeOK
  <2> QED
    BY <2>1, <2>2
<1> QED
  BY <1>1, <1>2, NextBudget, Invariance, PTL DEF Spec

-----------------------------------------------------------------------------
(* The queue implements the hand-over of keys.                             *)

\* Every step of the queue is a step of KeyHandover or leaves it unchanged.
LEMMA StepRefines == IInv /\ [Next]_vars => [Handover!Next]_(Handover!vars)
<1> SUFFICES ASSUME IInv, [Next]_vars PROVE [Handover!Next]_(Handover!vars)
  OBVIOUS
<1> USE DEF Handover!Next, Handover!vars
<1>1. ASSUME NEW k \in Keys, Enqueue(k) PROVE Handover!Notify(k)
  BY <1>1 DEF Enqueue, AddKey, Handover!Notify
<1>2. ASSUME NEW k \in Keys, DelayExpires(k) PROVE Handover!Notify(k)
  BY <1>2 DEF DelayExpires, AddKey, Handover!Notify
<1>3. ASSUME NEW w \in Workers, Get(w) PROVE Handover!Take(w, Head(queue)) /\ Head(queue) \in Keys
  <2>1. Head(queue) \in Keys /\ Head(queue) \in dirty /\ Head(queue) \notin processing
    BY <1>3, TailOfQueue DEF Get, IInv
  <2>2. holding[w] = NoKey
    BY <1>3 DEF Get, IInv, HoldInv
  <2>3. ~Handover!Held(Head(queue))
    BY <2>1, WorkQueueAssumption DEF Handover!Held, IInv, ProcessingInv
  <2> QED
    BY <1>3, <2>1, <2>2, <2>3 DEF Get, Handover!Take
<1>4. ASSUME NEW w \in Workers, EnqueueAfter(w) \/ Succeed(w) \/ Retry(w) \/ Drop(w)
      PROVE  UNCHANGED <<dirty, holding>>
  BY <1>4 DEF EnqueueAfter, Succeed, Retry, Drop, Leave
<1>5. ASSUME NEW w \in Workers, Done(w) PROVE Handover!Release(w)
  BY <1>5 DEF Done, Handover!Release, IInv, HoldInv
<1>6. CASE UNCHANGED vars
  BY <1>6 DEF vars
<1> QED
  BY <1>1, <1>2, <1>3, <1>4, <1>5, <1>6 DEF Next, Work

\* The queue and its workers hand keys over as KeyHandover says they do
\* (controller.go:61-144); its fairness stays with the model checker.
THEOREM HandoverRefinement == Spec => Handover!Safety
<1>1. Init => Handover!Init
  BY DEF Init, Handover!Init
<1> QED
  BY <1>1, StepRefines, Invariance, PTL DEF Spec, Handover!Safety

=============================================================================
