------------------------- MODULE DNSRecordController -------------------------
(***************************************************************************)
(* One DNSRecord under the DNS controller (pkg/dns) and its AWS provider.  *)
(*                                                                         *)
(* A pass of process() reads the informer's copy of the record, changes    *)
(* the hosted zone to match it, and only then saves what it did: first the *)
(* status, then the finalizer.  The owner changes and deletes the record   *)
(* meanwhile, the provider fails, with or without effect, and the process  *)
(* may crash between any two calls.  The health checks' calls are one step *)
(* that may fail.  One hosted zone, as NewController sets up.              *)
(***************************************************************************)
EXTENDS Naturals, FiniteSets

CONSTANTS
  Addresses,   \* what endpoints point to; an address stands for its endpoint
  MaxRetries,  \* failed passes after which the key is dropped (5 in the code)
  MaxChanges,  \* bound: times the owner changes the endpoints
  MaxFaults,   \* bound: failures of the provider or the API
  MaxCrashes   \* bound: restarts of the process

ASSUME DNSRecordAssumption ==
  /\ MaxRetries \in Nat /\ MaxChanges \in Nat
  /\ MaxFaults \in Nat /\ MaxCrashes \in Nat

VARIABLES
  rec,     \* the DNSRecord on the API server
  cache,   \* the informer's copy, and whether it is the latest version
  pass,    \* the running pass of process()
  zone,    \* the addresses the hosted zone has under the record's host
  queue,   \* the key's place in the work queue
  spent,   \* bounded events used up
  lapsed   \* a pass that had asked the zone for changes ended without saving the status
           \* that says so (history)

vars == <<rec, cache, pass, zone, queue, spent, lapsed>>

\* The zone's entry in the status: the Succeeded condition ("none" is no entry), the
\* endpoints, and whether observedGeneration is the generation of these endpoints.
NoStatus == [cond |-> "none", eps |-> {}, observed |-> FALSE]

Conditions == {"none", "true", "false"}

NewRecord == [life |-> "live", fin |-> FALSE, eps |-> {}, status |-> NoStatus]

\* read: the copy of the record; status: the status to save; fresh: the copy is
\* still the latest version.
Idle == [pc |-> "idle", read |-> NewRecord, status |-> NoStatus, fresh |-> FALSE]

Steps == {"idle", "provider", "health", "status", "finalizer"}

At(pc) == pass.pc = pc
Goto(pc) == [pass EXCEPT !.pc = pc]
Deleting == pass.read.life = "deleting"

\* A write gives the record a new resource version unless it changes nothing.
Write(r) ==
  /\ rec' = r
  /\ cache' = [cache EXCEPT !.fresh = @ /\ r = rec]
WriteOver(r) ==
  /\ Write(r)
  /\ pass' = [pass EXCEPT !.fresh = @ /\ r = rec]

Enqueued == [queue EXCEPT !.pending = TRUE]

Done == pass' = Idle /\ queue' = [queue EXCEPT !.retries = 0]

\* A slip: the key is retried for ever.
AbortForever ==
  /\ pass' = Idle
  /\ queue' = [queue EXCEPT !.timer = TRUE, !.retries = @ + 1]

Abort ==
  /\ pass' = Idle
  /\ queue' = IF queue.retries < MaxRetries
              THEN [queue EXCEPT !.timer = TRUE, !.retries = @ + 1]
              ELSE [queue EXCEPT !.retries = 0]

\* A fault is available, and used.
Faulty ==
  /\ spent.faults < MaxFaults
  /\ spent' = [spent EXCEPT !.faults = @ + 1]

-----------------------------------------------------------------------------
(* The queue and the informer.                                             *)

\* A slip: events that leave the spec alone are not enqueued.
SyncSpecOnly ==
  /\ ~cache.fresh
  /\ cache' = [obj |-> rec, fresh |-> TRUE]
  /\ queue' = IF rec.eps = cache.obj.eps THEN queue ELSE Enqueued
  /\ UNCHANGED <<rec, pass, zone, spent, lapsed>>

Sync ==
  /\ ~cache.fresh
  /\ cache' = [obj |-> rec, fresh |-> TRUE]
  /\ queue' = Enqueued
  /\ UNCHANGED <<rec, pass, zone, spent, lapsed>>

TimerFires ==
  /\ queue.timer
  /\ queue' = [Enqueued EXCEPT !.timer = FALSE]
  /\ UNCHANGED <<rec, cache, pass, zone, spent, lapsed>>

Begin ==
  /\ At("idle") /\ queue.pending
  /\ IF cache.obj.life = "gone"
     THEN /\ queue' = [queue EXCEPT !.pending = FALSE, !.retries = 0]
          /\ UNCHANGED pass
     ELSE /\ queue' = [queue EXCEPT !.pending = FALSE]
          /\ pass' = [pc |-> "provider", read |-> cache.obj,
                      status |-> cache.obj.status, fresh |-> cache.fresh]
  /\ UNCHANGED <<rec, cache, zone, spent, lapsed>>

-----------------------------------------------------------------------------
(* The hosted zone.  A batch of changes is applied as a whole or not at    *)
(* all, and deleting what is not there refuses it.                         *)

\* A slip: endpoints that are no longer in the spec are left.
EnsuredOnly == zone \union pass.read.eps

\* The change Ensure asks for: upsert the endpoints, delete those the status has
\* beside them.
Published == pass.read.status.eps \ pass.read.eps
Accepted == Published \subseteq zone
Ensured == (zone \ Published) \union pass.read.eps

AlreadyPublished == pass.read.status.observed /\ pass.read.status.cond = "true"

SkipZone ==
  /\ At("provider") /\ ~Deleting
  /\ AlreadyPublished
  /\ pass' = Goto("health")
  /\ UNCHANGED <<rec, cache, zone, queue, spent, lapsed>>

\* The one zone has one entry with one condition: the update takes their place.
mergeStatuses(cond, eps) == [pass.status EXCEPT !.cond = cond, !.eps = eps]

\* A slip: the status is saved without the resource version it was computed from.
AttemptedUnversioned(cond) ==
  [pass EXCEPT !.pc = "health", !.fresh = TRUE,
               !.status = [mergeStatuses(cond, pass.read.eps) EXCEPT !.observed = TRUE]]

\* The status names the endpoints of the spec, whether or not they got published.
Attempted(cond) ==
  [pass EXCEPT !.pc = "health",
               !.status = [mergeStatuses(cond, pass.read.eps) EXCEPT !.observed = TRUE]]

EnsureSucceeds ==
  /\ At("provider") /\ ~Deleting
  /\ ~AlreadyPublished /\ Accepted
  /\ zone' = Ensured
  /\ pass' = Attempted("true")
  /\ UNCHANGED <<rec, cache, queue, spent, lapsed>>

EnsureRefused ==
  /\ At("provider") /\ ~Deleting
  /\ ~AlreadyPublished /\ ~Accepted
  /\ pass' = Attempted("false")
  /\ UNCHANGED <<rec, cache, zone, queue, spent, lapsed>>

\* The call fails, or its answer is lost.
EnsureFails ==
  /\ At("provider") /\ ~Deleting
  /\ ~AlreadyPublished /\ Accepted
  /\ Faulty
  /\ zone' \in {zone, Ensured}
  /\ pass' = Attempted("false")
  /\ UNCHANGED <<rec, cache, queue, lapsed>>

\* A slip: a retried deletion is taken for one that has happened.
DeleteOnce ==
  IF pass.read.status.cond = "true" /\ queue.retries = 0 THEN zone \ pass.read.eps ELSE zone

\* The zone after Delete: only a record whose condition is true is deleted from it, and
\* "was not found" is tolerated and leaves it as it is.
DeleteFrom ==
  IF pass.read.status.cond = "true" /\ pass.read.eps \subseteq zone
  THEN zone \ pass.read.eps
  ELSE zone

DeleteSucceeds ==
  /\ At("provider") /\ Deleting
  /\ zone' = DeleteFrom
  /\ pass' = Goto("finalizer")
  /\ UNCHANGED <<rec, cache, queue, spent, lapsed>>

\* The deletion of the health checks or of the endpoints fails.
DeleteFails ==
  /\ At("provider") /\ Deleting
  /\ Faulty
  /\ zone' \in {zone, DeleteFrom}
  /\ Abort
  /\ UNCHANGED <<rec, cache, lapsed>>

-----------------------------------------------------------------------------
(* The rest of process().                                                  *)

\* The status the pass was given is not the one it leaves.
StatusDiffers == pass.status # pass.read.status

\* The pass ends here: the status it leaves unsaved names what the zone now has.
Lapse == lapsed' = (lapsed \/ (At("health") /\ StatusDiffers) \/ At("status"))

\* ReconcileHealthChecks; its error leaves the status unsaved.
HealthChecked ==
  /\ At("health")
  /\ IF StatusDiffers
     THEN pass' = Goto("status") /\ UNCHANGED queue
     ELSE IF pass.read.fin THEN Done ELSE pass' = Goto("finalizer") /\ UNCHANGED queue
  /\ UNCHANGED <<rec, cache, zone, spent, lapsed>>

\* UpdateStatus, and the resource version it returns.
SaveStatus ==
  /\ At("status")
  /\ IF pass.fresh
     THEN /\ Write([rec EXCEPT !.status = pass.status])
          /\ pass' = Goto("finalizer")
          /\ UNCHANGED <<queue, lapsed>>
     ELSE Abort /\ Lapse /\ UNCHANGED <<rec, cache>>
  /\ UNCHANGED <<zone, spent>>

\* Update: the finalizer is there from now on, or the last one goes.
SaveFinalizer ==
  /\ At("finalizer")
  /\ IF pass.fresh
     THEN /\ Write(IF Deleting THEN [rec EXCEPT !.life = "gone"] ELSE [rec EXCEPT !.fin = TRUE])
          /\ Done
     ELSE Abort /\ UNCHANGED <<rec, cache>>
  /\ UNCHANGED <<zone, spent, lapsed>>

\* A call to the API server or to the health checks fails.
CallFails ==
  /\ At("health") \/ At("status") \/ At("finalizer")
  /\ Faulty
  /\ Abort /\ Lapse
  /\ UNCHANGED <<rec, cache, zone>>

Crash ==
  /\ spent.crashes < MaxCrashes
  /\ spent' = [spent EXCEPT !.crashes = @ + 1]
  /\ pass' = Idle /\ Lapse
  /\ cache' = [obj |-> rec, fresh |-> TRUE]
  /\ queue' = [pending |-> TRUE, timer |-> FALSE, retries |-> 0]
  /\ UNCHANGED <<rec, zone>>

-----------------------------------------------------------------------------
(* The ingress controller, and whoever deletes the record.                 *)

\* UpdateDNS, also of a record that is being deleted.
OwnerUpdates(S) ==
  /\ rec.life # "gone" /\ S # rec.eps
  /\ spent.changes < MaxChanges
  /\ spent' = [spent EXCEPT !.changes = @ + 1]
  /\ WriteOver([rec EXCEPT !.eps = S, !.status.observed = FALSE])
  /\ UNCHANGED <<zone, queue, lapsed>>

OwnerDeletes ==
  /\ rec.life = "live"
  /\ WriteOver([rec EXCEPT !.life = IF rec.fin THEN "deleting" ELSE "gone"])
  /\ UNCHANGED <<zone, queue, spent, lapsed>>

-----------------------------------------------------------------------------
Init ==
  /\ rec = NewRecord
  /\ cache = [obj |-> NewRecord, fresh |-> TRUE]
  /\ pass = Idle
  /\ zone = {}
  /\ queue = [pending |-> TRUE, timer |-> FALSE, retries |-> 0]
  /\ spent = [changes |-> 0, faults |-> 0, crashes |-> 0]
  /\ lapsed = FALSE

Step ==
  \/ Begin \/ SkipZone \/ EnsureSucceeds \/ EnsureRefused \/ DeleteSucceeds
  \/ HealthChecked \/ SaveStatus \/ SaveFinalizer

Fault == EnsureFails \/ DeleteFails \/ CallFails \/ Crash

Owner == OwnerDeletes \/ \E S \in SUBSET Addresses : OwnerUpdates(S)

Next == Step \/ Sync \/ TimerFires \/ Fault \/ Owner

\* The worker, the informer and the timers do their work in the end; the owner owes
\* nothing and faults are not fair.
Fairness == WF_vars(Step) /\ WF_vars(Sync) /\ WF_vars(TimerFires)

Spec == Init /\ [][Next]_vars /\ Fairness

-----------------------------------------------------------------------------
(* Properties.                                                             *)

Statuses == [cond : Conditions, eps : SUBSET Addresses, observed : BOOLEAN]

Records ==
  [life : {"live", "deleting", "gone"}, fin : BOOLEAN, eps : SUBSET Addresses,
   status : Statuses]

\* The type invariant of the record, its copies, the zone and the queue.
TypeOK ==
  /\ rec \in Records
  /\ cache \in [obj : Records, fresh : BOOLEAN]
  /\ pass \in [pc : Steps, read : Records, status : Statuses, fresh : BOOLEAN]
  /\ zone \subseteq Addresses
  /\ queue \in [pending : BOOLEAN, timer : BOOLEAN, retries : 0..MaxRetries]
  /\ spent \in [changes : 0..MaxChanges, faults : 0..MaxFaults, crashes : 0..MaxCrashes]
  /\ lapsed \in BOOLEAN

\* What the status says holds: a record whose condition is true for its present
\* generation has all its endpoints in the zone.  The zone is written before the
\* status, from a copy that may be stale, and the ingress controller announces the
\* host on the strength of it (dns_record.go:55-59, dns.go:167).
SucceededIsServed ==
  rec.life = "live" /\ rec.status.cond = "true" /\ rec.status.observed =>
    rec.eps \subseteq zone

\* A published record takes all its endpoints with it when it is gone
\* (dns_record.go:34-49, 128-150).
CleanGone ==
  rec.life = "gone" /\ rec.fin /\ rec.status.cond = "true" /\ rec.status.observed =>
    rec.eps \intersect zone = {}

\* No call has failed so far.  Nothing is promised after one that has: a stale copy uses
\* up the retries, the next error drops the key, and no event brings it back.
Undisturbed == spent.faults = 0

\* A record whose endpoints have settled is published in the end and says so, whatever
\* a crash or a stale copy did before: a batch refused because the status lags behind
\* the zone is not the end of it.  The zone then has these endpoints; it has no others,
\* unless some pass changed the zone and did not save its status: what the zone was
\* given by such a pass may stay for ever (dns_record.go:69-126, aws/dns.go:160-173).
EventuallyPublished ==
  \A S \in SUBSET Addresses :
    <>[](rec.life = "live" /\ rec.eps = S /\ Undisturbed) =>
      <>[](/\ rec.status.cond = "true" /\ rec.status.observed
           /\ S \subseteq zone
           /\ lapsed \/ zone = S)

\* The deletion of a record completes, also when the endpoints went in a pass that a
\* crash or a conflict cut short (dns_record.go:34-49).
DeletionCompletes == rec.life = "deleting" ~> (rec.life = "gone" \/ ~Undisturbed)

=============================================================================
