------------------------------ MODULE WorkQueue ------------------------------
(***************************************************************************)
(* The work queue every controller of the process runs on, and the worker  *)
(* loop of pkg/reconciler/controller.go that drains it.                    *)
(*                                                                         *)
(* A key is a "namespace/name" of an object; the loop never looks inside   *)
(* it.  The queue is client-go's rate limiting queue (external, modelled   *)
(* from the calls controller.go makes on it): a FIFO of keys, a dirty set  *)
(* of the keys that need processing, a processing set of the keys a worker *)
(* holds, a requeue counter per key and a heap of delayed additions.       *)
(* Every queue method takes the queue's lock, so each one is one step; a   *)
(* worker runs several of them per item and may be interleaved in between. *)
(***************************************************************************)
EXTENDS Naturals, Sequences

CONSTANTS
  Keys,        \* the objects the controller watches
  Workers,     \* the goroutines Start launches
  MaxRetries,  \* failed attempts after which a key is dropped (5 in the code)
  NoKey        \* what a worker holds between two items

ASSUME WorkQueueAssumption ==
  /\ MaxRetries \in Nat
  /\ NoKey \notin Keys

VARIABLES
  queue,       \* the FIFO of keys waiting for a worker
  dirty,       \* keys that have been added and not been handed out since
  processing,  \* keys handed out by Get and not yet released by Done
  delayed,     \* keys waiting in the delaying queue (AddAfter, back-off)
  requeues,    \* the rate limiter's failure counter per key
  holding,     \* the key each worker is processing
  stage,       \* where each worker is in processNextWorkItem
  attempts     \* failed or running Process calls per key since the last event,
               \* success or request for another pass (history)

vars == <<queue, dirty, processing, delayed, requeues, holding, stage, attempts>>

Stages == {"waiting", "running", "leaving"}

-----------------------------------------------------------------------------
(* The queue's own operations.                                             *)

\* Queue.Add: a dirty key is already going to be processed; a key that a
\* worker holds is only marked, Done puts it back in the FIFO.
AddKey(k) ==
  /\ dirty' = dirty \union {k}
  /\ queue' = IF k \in dirty \union processing THEN queue ELSE Append(queue, k)

\* The counter never needs to pass MaxRetries: controller.go stops adding there.
CountFailure(k) == requeues' = [requeues EXCEPT ![k] = @ + 1]

Forget(k) == requeues' = [requeues EXCEPT ![k] = 0]

-----------------------------------------------------------------------------
(* Event handlers.                                                         *)

\* An informer event, or the host watcher's OnChange, for k.
Enqueue(k) ==
  /\ AddKey(k)
  /\ attempts' = [attempts EXCEPT ![k] = 0]
  /\ UNCHANGED <<processing, delayed, requeues, holding, stage>>

\* A reconciler asks for another pass later on, while it processes the key.
EnqueueAfter(w) ==
  /\ stage[w] = "running"
  /\ holding[w] \notin delayed
  /\ delayed' = delayed \union {holding[w]}
  /\ attempts' = [attempts EXCEPT ![holding[w]] = 0]
  /\ UNCHANGED <<queue, dirty, processing, requeues, holding, stage>>

\* The delaying queue's timer for k fires.
DelayExpires(k) ==
  /\ k \in delayed
  /\ delayed' = delayed \ {k}
  /\ AddKey(k)
  /\ UNCHANGED <<processing, requeues, holding, stage, attempts>>

-----------------------------------------------------------------------------
(* The worker loop.                                                        *)

\* A slip (see the mutants of the README): Done called at once, not deferred.
GetThenDone(w) ==
  /\ stage[w] = "waiting"
  /\ queue # <<>>
  /\ holding' = [holding EXCEPT ![w] = Head(queue)]
  /\ dirty' = dirty \ {Head(queue)}
  /\ attempts' = [attempts EXCEPT ![Head(queue)] = @ + 1]
  /\ queue' = Tail(queue)
  /\ stage' = [stage EXCEPT ![w] = "running"]
  /\ UNCHANGED <<processing, delayed, requeues>>

\* Queue.Get hands out the head of the FIFO.
Get(w) ==
  /\ stage[w] = "waiting"
  /\ queue # <<>>
  /\ LET k == Head(queue) IN
       /\ holding' = [holding EXCEPT ![w] = k]
       /\ processing' = processing \union {k}
       /\ dirty' = dirty \ {k}
       /\ attempts' = [attempts EXCEPT ![k] = @ + 1]
  /\ queue' = Tail(queue)
  /\ stage' = [stage EXCEPT ![w] = "running"]
  /\ UNCHANGED <<delayed, requeues>>

Leave(w) ==
  /\ stage[w] = "running"
  /\ stage' = [stage EXCEPT ![w] = "leaving"]
  /\ UNCHANGED <<queue, dirty, processing, holding>>

\* Process returned nil.
Succeed(w) ==
  /\ Leave(w)
  /\ Forget(holding[w])
  /\ attempts' = [attempts EXCEPT ![holding[w]] = 0]
  /\ UNCHANGED delayed

\* A slip: the retry limit is not checked.
RetryUnchecked(w) ==
  /\ Leave(w)
  /\ CountFailure(holding[w])
  /\ delayed' = delayed \union {holding[w]}
  /\ UNCHANGED attempts

\* Process returned an error and the key has retries left.
Retry(w) ==
  /\ Leave(w)
  /\ requeues[holding[w]] < MaxRetries
  /\ CountFailure(holding[w])
  /\ delayed' = delayed \union {holding[w]}
  /\ UNCHANGED attempts

\* A slip: the counter is cleared and the key is still put back.
DropAndRetry(w) ==
  /\ Leave(w)
  /\ requeues[holding[w]] >= MaxRetries
  /\ Forget(holding[w])
  /\ delayed' = delayed \union {holding[w]}
  /\ UNCHANGED attempts

\* Process returned an error once too often: the key is given up.
Drop(w) ==
  /\ Leave(w)
  /\ requeues[holding[w]] >= MaxRetries
  /\ Forget(holding[w])
  /\ UNCHANGED <<delayed, attempts>>

\* A slip: a key that became dirty while it was held is not queued again.
DoneForgetsDirty(w) ==
  /\ stage[w] = "leaving"
  /\ processing' = processing \ {holding[w]}
  /\ holding' = [holding EXCEPT ![w] = NoKey]
  /\ stage' = [stage EXCEPT ![w] = "waiting"]
  /\ UNCHANGED <<queue, dirty, delayed, requeues, attempts>>

\* The deferred Queue.Done: a key that became dirty meanwhile is queued again.
Done(w) ==
  /\ stage[w] = "leaving"
  /\ processing' = processing \ {holding[w]}
  /\ queue' = IF holding[w] \in dirty THEN Append(queue, holding[w]) ELSE queue
  /\ holding' = [holding EXCEPT ![w] = NoKey]
  /\ stage' = [stage EXCEPT ![w] = "waiting"]
  /\ UNCHANGED <<dirty, delayed, requeues, attempts>>

-----------------------------------------------------------------------------
Init ==
  /\ queue = <<>>
  /\ dirty = {}
  /\ processing = {}
  /\ delayed = {}
  /\ requeues = [k \in Keys |-> 0]
  /\ holding = [w \in Workers |-> NoKey]
  /\ stage = [w \in Workers |-> "waiting"]
  /\ attempts = [k \in Keys |-> 0]

Work(w) == Get(w) \/ Succeed(w) \/ Retry(w) \/ Drop(w) \/ Done(w)

Next ==
  \/ \E k \in Keys : Enqueue(k) \/ DelayExpires(k)
  \/ \E w \in Workers : Work(w) \/ EnqueueAfter(w)

\* Start runs the workers until shutdown and the delaying queue's timers always
\* fire; whether and when events arrive is up to the environment.
Fairness ==
  /\ \A w \in Workers : WF_vars(Work(w))
  /\ \A k \in Keys : WF_vars(DelayExpires(k))

Spec == Init /\ [][Next]_vars /\ Fairness

-----------------------------------------------------------------------------
(* Properties.                                                             *)

\* The type invariant of the queue and the worker loop (controller.go:61-144).
TypeOK ==
  /\ queue \in Seq(Keys)
  /\ dirty \subseteq Keys
  /\ processing \subseteq Keys
  /\ delayed \subseteq Keys
  /\ requeues \in [Keys -> 0..MaxRetries]
  /\ holding \in [Workers -> Keys \union {NoKey}]
  /\ stage \in [Workers -> Stages]
  /\ attempts \in [Keys -> Nat]

\* No two workers ever process the same key at the same time: what lets process
\* read, change and write back an object without a lock (controller.go:100-143).
ExclusiveKey ==
  \A v, w \in Workers : holding[v] # NoKey /\ holding[v] = holding[w] => v = w

\* No event is lost: a key added since it was last handed out either waits in
\* the FIFO or is held by a worker whose Done will queue it again
\* (controller.go:67, 108-110).
NoLostKey ==
  \A k \in dirty :
    \/ \E i \in 1..Len(queue) : queue[i] = k
    \/ \E w \in Workers : holding[w] = k

\* An object whose Process keeps failing is not retried forever.  The limit of
\* MaxRetries ("re-enqueue up to 5 times") bounds the attempts in a row by twice
\* MaxRetries + 1, not by MaxRetries + 1: a drop clears the failure counter while
\* an event or a timer of the same key may still be pending (controller.go:130-141).
RetriesBounded == \A k \in Keys : attempts[k] <= 2 * (MaxRetries + 1)

\* Every event is answered: a key that is dirty is eventually handed to a worker.
\* No resync would repeat a missed event (controller.go:100-110).
EventuallyProcessed == \A k \in Keys : k \in dirty ~> k \notin dirty

\* The queue and its workers implement the hand-over of keys that the models of
\* the controllers assume (controller.go:61-144).
Handover == INSTANCE KeyHandover WITH pending <- dirty
ImplementsHandover == Handover!Spec

=============================================================================
