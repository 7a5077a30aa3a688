----------------------------- MODULE KeyHandover -----------------------------
(***************************************************************************)
(* What the work queue and the worker loop of pkg/reconciler/controller.go *)
(* promise to a controller's Process function, without saying how: a key   *)
(* is pending from the moment an event names it until a worker takes it, a *)
(* key has at most one worker at a time, and no pending key waits forever. *)
(* Nothing is said of order, back-off or retries.  WorkQueue implements    *)
(* this specification and the controllers' models start from it.           *)
(***************************************************************************)
CONSTANTS Keys, Workers, NoKey

VARIABLES
  pending,     \* keys that must be processed again
  holding      \* the key each worker is processing, or NoKey

vars == <<pending, holding>>

Held(k) == \E w \in Workers : holding[w] = k

Init ==
  /\ pending = {}
  /\ holding = [w \in Workers |-> NoKey]

\* Something happened to k.
Notify(k) ==
  /\ pending' = pending \union {k}
  /\ UNCHANGED holding

\* A worker starts on a pending key nobody holds.
Take(w, k) ==
  /\ holding[w] = NoKey
  /\ k \in pending
  /\ ~Held(k)
  /\ pending' = pending \ {k}
  /\ holding' = [holding EXCEPT ![w] = k]

\* A worker is through with its key.
Release(w) ==
  /\ holding[w] # NoKey
  /\ holding' = [holding EXCEPT ![w] = NoKey]
  /\ UNCHANGED pending

Next ==
  \/ \E k \in Keys : Notify(k)
  \/ \E w \in Workers : Release(w) \/ \E k \in Keys : Take(w, k)

Safety == Init /\ [][Next]_vars

Fairness ==
  /\ \A w \in Workers : WF_vars(Release(w))
  /\ \A k \in Keys : SF_vars(\E w \in Workers : Take(w, k))

Spec == Safety /\ Fairness

=============================================================================
