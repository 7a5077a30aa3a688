------------------------------ MODULE Migration ------------------------------
(***************************************************************************)
(* The graceful move of one object from cluster to cluster                 *)
(* (pkg/migration/workload), in the passes of the controller that owns it. *)
(*                                                                         *)
(* kcp labels an object with the clusters it is placed on and annotates it *)
(* with those that shall give it up; the syncer of such a cluster removes  *)
(* its copy once no soft finalizer names the cluster.  Every pass adds the *)
(* soft finalizers of placed clusters, notes for a deleting cluster when   *)
(* its finalizer may go, and asks the queue for a pass at that time.  For  *)
(* traffic (an Ingress) the same pass moves the DNS endpoints; a Service,  *)
(* a Deployment or a Secret has no endpoints.                              *)
(*                                                                         *)
(* Time is counted in TTLs and the noted times as what is left of them.  A *)
(* pass takes no time on that scale.  A cluster stands for its address.    *)
(***************************************************************************)
EXTENDS Naturals, FiniteSetsExt, Functions

CONSTANTS
  Clusters,    \* the sync targets, each with one address
  First,       \* the cluster the object is placed on first
  MaxRetries,  \* failed passes after which the key is dropped (5 in the code)
  MaxMoves,    \* bound: times kcp places the object or takes it away
  MaxFaults    \* bound: failures of a look-up or of the API, and restarts

ASSUME MigrationAssumption ==
  /\ First \in Clusters
  /\ MaxRetries \in Nat /\ MaxMoves \in Nat /\ MaxFaults \in Nat

VARIABLES
  kind,      \* whether the object is traffic or a plain object
  obj,       \* the object on the API server
  cache,     \* the informer's copy, and whether it is the latest version
  pass,      \* the running pass of process()
  eps,       \* the endpoints of the traffic's DNSRecord
  queue,     \* the key's place in the work queue and its delayed addition
  unused,    \* how long a deleting cluster has been out of use (history)
  disturbed, \* clusters nothing is promised for: see Change (history)
  spent      \* bounded events used up

vars == <<kind, obj, cache, pass, eps, queue, unused, disturbed, spent>>

Kinds == {"traffic", "plain"}

\* TTL * 2.
Grace == 2

\* place: the state label and the deletion annotation of a cluster; soft: the soft
\* finalizers; at: the delete-at annotations; up: the clusters whose status has an
\* address.
NewObject == [place |-> [c \in Clusters |-> "none"], soft |-> {}, at |-> << >>, up |-> {}]

On(o, state) == {c \in Clusters : o.place[c] = state}

\* read: the copy process() works on; changed: it differs from the cached one; fresh: the
\* cached one is still the latest version.
Idle == [pc |-> "idle", read |-> NewObject, changed |-> FALSE, fresh |-> FALSE]

At(pc) == pass.pc = pc

\* A write gives the object a new resource version unless it changes nothing.
Write(o) ==
  /\ obj' = o
  /\ cache' = [cache EXCEPT !.fresh = @ /\ o = obj]

Enqueued == [queue EXCEPT !.pending = TRUE]

\* The delaying queue keeps the earlier of two additions of a key.
AddAfter(waiting, delays) ==
  IF waiting \union delays = {} THEN {} ELSE {Min(waiting \union delays)}

Done == pass' = Idle /\ queue' = [queue EXCEPT !.retries = 0]

\* The pass returns an error.  A key that has failed too often is dropped.
Abort ==
  /\ pass' = Idle
  /\ queue' = IF queue.retries < MaxRetries
              THEN [queue EXCEPT !.delay = AddAfter(@, {0}), !.retries = @ + 1]
              ELSE [queue EXCEPT !.retries = 0, !.dropped = TRUE]

Faulty ==
  /\ spent.faults < MaxFaults
  /\ spent' = [spent EXCEPT !.faults = @ + 1]

-----------------------------------------------------------------------------
(* migrate.go.                                                             *)

\* A slip: the delete-at annotation survives a cancelled deletion.
EnsureSoftFinalizersOnly(o) == [o EXCEPT !.soft = @ \union On(o, "placed")]

EnsureSoftFinalizers(o) ==
  [o EXCEPT !.soft = @ \union On(o, "placed"),
            !.at = Restrict(@, DOMAIN @ \ On(o, "placed"))]

\* The deleting clusters with a soft finalizer: those whose time is over, those that wait
\* for it and those that have none yet.
Held(o) == o.soft \intersect On(o, "deleting")
Over(o) == {c \in Held(o) \intersect DOMAIN o.at : o.at[c] = 0}
Waiting(o) == (Held(o) \intersect DOMAIN o.at) \ Over(o)
Unnoted(o) == Held(o) \ DOMAIN o.at

\* A slip: a cluster nobody has noted a time for is released at once.
ReleaseUnnoted(o) ==
  [o EXCEPT !.soft = @ \ (Over(o) \union Unnoted(o)),
            !.at = Restrict(@, DOMAIN @ \ Over(o))]

\* A slip: one TTL more than the queue is asked to wait for.
NoteLater(o) ==
  [o EXCEPT !.soft = @ \ Over(o),
            !.at = [c \in (DOMAIN @ \ Over(o)) \union Unnoted(o) |->
                      IF c \in Unnoted(o) THEN Grace + 1 ELSE @[c]]]

GracefulRemoveSoftFinalizers(o) ==
  [o EXCEPT !.soft = @ \ Over(o),
            !.at = [c \in (DOMAIN @ \ Over(o)) \union Unnoted(o) |->
                      IF c \in Unnoted(o) THEN Grace ELSE @[c]]]

\* A slip: only the pass that notes the time asks for another one.
DelaysOnce(o) == {Grace : c \in Unnoted(o)}

\* The passes gracefulRemoveSoftFinalizers asks for.
Delays(o) == {Grace : c \in Unnoted(o)} \union {o.at[c] : c \in Waiting(o)}

-----------------------------------------------------------------------------
(* The DNS step of a pass over traffic.                                    *)

Active(o) == o.up \ On(o, "deleting")

\* A slip: the addresses of deleting clusters stay as long as they have one.
AllTargets(o) == o.up

\* Deleting clusters keep the traffic while no other has an address.
Targets(o) == IF Active(o) # {} THEN Active(o) ELSE o.up

\* With no status of a cluster at all the object's own is used: it has no address, or the
\* managed host, which is looked up and stands for the endpoints it has.
NextEndpoints ==
  IF pass.read.up # {} THEN {Targets(pass.read)} ELSE {eps, {}}

\* Time starts to count when a cluster is out of use.
Reuse(S) == unused' = [c \in Clusters |-> IF c \in S THEN 0 ELSE unused[c]]

-----------------------------------------------------------------------------
(* The queue, the informer and time.                                       *)

Sync ==
  /\ ~cache.fresh
  /\ cache' = [obj |-> obj, fresh |-> TRUE]
  /\ queue' = Enqueued
  /\ UNCHANGED <<kind, obj, pass, eps, unused, disturbed, spent>>

DelayExpires ==
  /\ 0 \in queue.delay
  /\ queue' = [Enqueued EXCEPT !.delay = {}]
  /\ UNCHANGED <<kind, obj, cache, pass, eps, unused, disturbed, spent>>

Less(n) == IF n = 0 THEN 0 ELSE n - 1

Elapse(o) == [o EXCEPT !.at = [c \in DOMAIN @ |-> Less(@[c])]]

Tick ==
  /\ At("idle")
  /\ obj' = Elapse(obj)
  /\ cache' = [cache EXCEPT !.obj = Elapse(@)]
  /\ queue' = [queue EXCEPT !.delay = {Less(d) : d \in @}]
  /\ unused' = [c \in Clusters |->
                  IF c \in On(obj, "deleting") \ (eps \union disturbed)
                  THEN Min({Grace, unused[c] + 1})
                  ELSE 0]
  /\ UNCHANGED <<kind, pass, eps, disturbed, spent>>

-----------------------------------------------------------------------------
(* A pass of process().                                                    *)

Begin ==
  /\ At("idle") /\ queue.pending
  /\ LET ensured == EnsureSoftFinalizers(cache.obj)
         read == GracefulRemoveSoftFinalizers(ensured) IN
       /\ pass' = [pc |-> IF kind = "traffic" THEN "dns" ELSE "save", read |-> read,
                   changed |-> read # cache.obj, fresh |-> cache.fresh]
       /\ queue' = [queue EXCEPT !.pending = FALSE, !.dropped = FALSE,
                                 !.delay = AddAfter(@, Delays(ensured))]
  /\ UNCHANGED <<kind, obj, cache, eps, unused, disturbed, spent>>

UpdateDNS ==
  /\ At("dns")
  /\ eps' \in NextEndpoints
  /\ Reuse(eps')
  /\ pass' = [pass EXCEPT !.pc = "save"]
  /\ UNCHANGED <<kind, obj, cache, queue, disturbed, spent>>

\* A reconciler of the pass fails, before or after the endpoints were written.
ReconcileFails ==
  /\ At("dns")
  /\ Faulty
  /\ eps' \in NextEndpoints \union {eps}
  /\ Reuse(eps')
  /\ Abort
  /\ UNCHANGED <<kind, obj, cache, disturbed>>

\* Update, with the resource version of the cached copy.  An Ingress always differs from
\* it: the rule of its managed host is added and turned into a diff only afterwards.
Save ==
  /\ At("save")
  /\ pass.fresh /\ (kind = "traffic" \/ pass.changed)
  /\ Write(pass.read)
  /\ Done
  /\ disturbed' = disturbed \ On(pass.read, "placed")
  /\ UNCHANGED <<kind, eps, unused, spent>>

SaveConflicts ==
  /\ At("save")
  /\ ~pass.fresh /\ (kind = "traffic" \/ pass.changed)
  /\ Abort
  /\ UNCHANGED <<kind, obj, cache, eps, unused, disturbed, spent>>

SaveFails ==
  /\ At("save")
  /\ kind = "traffic" \/ pass.changed
  /\ Faulty
  /\ Abort
  /\ UNCHANGED <<kind, obj, cache, eps, unused, disturbed>>

NothingToSave ==
  /\ At("save")
  /\ kind = "plain" /\ ~pass.changed
  /\ Done
  /\ disturbed' = IF pass.fresh THEN disturbed \ On(pass.read, "placed") ELSE disturbed
  /\ UNCHANGED <<kind, obj, cache, eps, unused, spent>>

Crash ==
  /\ Faulty
  /\ pass' = Idle
  /\ cache' = [obj |-> obj, fresh |-> TRUE]
  /\ queue' = [pending |-> TRUE, delay |-> {}, retries |-> 0, dropped |-> FALSE]
  /\ UNCHANGED <<kind, obj, eps, unused, disturbed>>

-----------------------------------------------------------------------------
(* kcp and the syncers of the clusters.                                    *)

\* A deleting cluster that had no soft finalizer, that leaves traffic without an active
\* cluster, or whose deletion was taken back before a pass noticed, has no proper drain.
Change(o, undrained) ==
  /\ Write(o)
  /\ pass' = [pass EXCEPT !.fresh = FALSE]
  /\ disturbed' = disturbed \union undrained \union
       (IF kind = "traffic" /\ Active(o) = {} THEN On(o, "deleting") ELSE {})
  /\ UNCHANGED <<kind, eps, queue>>

Move(o, undrained) ==
  /\ spent.moves < MaxMoves
  /\ spent' = [spent EXCEPT !.moves = @ + 1]
  /\ Change(o, undrained)
  /\ Reuse(On(o, "placed"))

Place(c) ==
  /\ obj.place[c] = "none"
  /\ Move([obj EXCEPT !.place[c] = "placed"], {})

Delete(c) ==
  /\ obj.place[c] = "placed"
  /\ Move([obj EXCEPT !.place[c] = "deleting"], {c} \ obj.soft)

Cancel(c) ==
  /\ obj.place[c] = "deleting"
  /\ Move([obj EXCEPT !.place[c] = "placed"], {c})

\* The syncer reports the address of its copy.
Report(c) ==
  /\ kind = "traffic"
  /\ obj.place[c] # "none" /\ c \notin obj.up
  /\ Change([obj EXCEPT !.up = @ \union {c}], {})
  /\ UNCHANGED <<unused, spent>>

\* The syncer of a deleting cluster removes its copy, unless a soft finalizer holds it.
Remove(c) ==
  /\ obj.place[c] = "deleting" /\ c \notin obj.soft
  /\ Change([obj EXCEPT !.place[c] = "none", !.up = @ \ {c}], {})
  /\ UNCHANGED <<unused, spent>>

-----------------------------------------------------------------------------
Init ==
  /\ kind \in Kinds
  /\ obj = [NewObject EXCEPT !.place[First] = "placed"]
  /\ cache = [obj |-> obj, fresh |-> TRUE]
  /\ pass = Idle
  /\ eps = {}
  /\ queue = [pending |-> TRUE, delay |-> {}, retries |-> 0, dropped |-> FALSE]
  /\ unused = [c \in Clusters |-> 0]
  /\ disturbed = {}
  /\ spent = [moves |-> 0, faults |-> 0]

Step == Begin \/ UpdateDNS \/ Save \/ SaveConflicts \/ NothingToSave

Fault == ReconcileFails \/ SaveFails \/ Crash

Kcp == \E c \in Clusters : Place(c) \/ Delete(c) \/ Cancel(c) \/ Report(c) \/ Remove(c)

Next == Step \/ Sync \/ DelayExpires \/ Tick \/ Fault \/ Kcp

\* The worker, the informer, the delaying queue and time go on; kcp owes nothing.
Fairness == WF_vars(Step) /\ WF_vars(Sync) /\ WF_vars(DelayExpires) /\ WF_vars(Tick)

Spec == Init /\ [][Next]_vars /\ Fairness

-----------------------------------------------------------------------------
(* Properties.                                                             *)

Objects ==
  [place : [Clusters -> {"none", "placed", "deleting"}], soft : SUBSET Clusters,
   at : UNION {[S -> 0..Grace] : S \in SUBSET Clusters}, up : SUBSET Clusters]

\* The type invariant of the object, its copies, the endpoints and the queue; only traffic
\* has endpoints, and one delayed addition waits at a time.
TypeOK ==
  /\ kind \in Kinds
  /\ obj \in Objects
  /\ cache \in [obj : Objects, fresh : BOOLEAN]
  /\ pass \in [pc : {"idle", "dns", "save"}, read : Objects, changed : BOOLEAN,
               fresh : BOOLEAN]
  /\ eps \subseteq Clusters /\ (kind = "plain" => eps = {})
  /\ queue \in [pending : BOOLEAN, delay : {{}} \union {{d} : d \in 0..Grace},
                retries : 0..MaxRetries, dropped : BOOLEAN]
  /\ unused \in [Clusters -> 0..Grace]
  /\ disturbed \subseteq Clusters
  /\ spent \in [moves : 0..MaxMoves, faults : 0..MaxFaults]

Removed(c) == obj.place[c] = "deleting" /\ obj'.place[c] = "none"

\* A cluster loses its copy only when it has been out of use for two TTLs: it was
\* deleting all the time and no endpoint of traffic pointed to it.  The time is noted in
\* one pass and read in another, the endpoints are written before it is saved, the save
\* may fail or conflict, and a deletion taken back must start the count anew
\* (migrate.go:48-52, 69-101, dns.go:101-140).
DrainedFirst ==
  [][\A c \in Clusters : Removed(c) => unused[c] = Grace \/ c \in disturbed]_vars

\* A cluster that shall give the object up is let go in the end, over crashes that lose
\* the delayed addition and stale copies, unless the key was dropped: the passes that
\* wait ask for the next one (migrate.go:75-101).
SoftReleased ==
  \A c \in Clusters : []<>(c \notin Held(obj) \/ queue.dropped)

\* The endpoints become those of the active clusters, unless these change first or the
\* key was dropped, and there are some when only deleting clusters have an address: a
\* pass over a stale copy or one that failed half-way is made good (dns.go:101-157).
EndpointsFollow ==
  \A S \in SUBSET Clusters :
    []<>(kind = "traffic" /\ obj.up # {} /\ Active(obj) = S =>
           queue.dropped \/ IF S = {} THEN eps # {} ELSE eps = S)

=============================================================================
