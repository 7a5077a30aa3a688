----------------------------- MODULE HealthChecks -----------------------------
(***************************************************************************)
(* The health checks of one DNSRecord: the passes of the DNS controller    *)
(* (pkg/dns) and the health checks it makes at AWS (pkg/dns/aws).          *)
(*                                                                         *)
(* A pass publishes the endpoints, makes, updates or deletes a check for   *)
(* each, and saves the checks' ids with the endpoints: first those of the  *)
(* status, then those of the spec.  A pass that is cut short loses ids it  *)
(* has made; the next one asks for the same checks by the same reference,  *)
(* which names the endpoint and the process.  Of the hosted zone only what *)
(* the checks need is here: failures of the provider, retries and the      *)
(* finalizer are DNSRecordController's.                                    *)
(***************************************************************************)
EXTENDS Naturals

CONSTANTS
  Addresses,   \* what endpoints point to; an address stands for its endpoint
  Settings,    \* what the annotations may ask of a check: path, port and threshold
  None,        \* no annotation of the kind
  Invalid,     \* annotations that are refused
  MaxChanges,  \* bound: times the record's endpoints or annotations are changed
  MaxFaults,   \* bound: failures of AWS or the API
  MaxCrashes   \* bound: restarts of the process

ASSUME HealthChecksAssumption ==
  /\ None \notin Settings /\ Invalid \notin Settings /\ None # Invalid
  /\ "none" \notin Settings /\ "deleted" \notin Settings
  /\ MaxChanges \in Nat /\ MaxFaults \in Nat /\ MaxCrashes \in Nat

VARIABLES
  rec,     \* the DNSRecord on the API server
  cache,   \* the informer's copy, and whether it is the latest version
  queued,  \* its key is in the work queue
  pass,    \* the running pass
  zone,    \* the record sets of the hosted zone
  checks,  \* the health checks of AWS, by endpoint and process
  sid,     \* the number of the process
  spent    \* bounded events used up

vars == <<rec, cache, queued, pass, zone, checks, sid, spent>>

Processes == 1..(MaxCrashes + 1)

\* Endpoints are a function of their addresses: the process whose check the endpoint
\* has the id of, 0 if it has none.
NoEndpoints == [a \in {} |-> 0]

\* eps: the endpoints of the spec; st: those of the zone in the status; published: its
\* condition is true; observed: the status is of the generation of the spec.
NewRecord(config) ==
  [life |-> "live", config |-> config, eps |-> NoEndpoints, st |-> NoEndpoints,
   published |-> TRUE, observed |-> TRUE]

\* cur: the pass's copy; shared: its status and spec have the same endpoints, not equal
\* ones; todo: those whose checks are still to be looked at; status, spec: what has to be
\* saved; fresh: the copy is of the latest version.
Idle ==
  [pc |-> "idle", cur |-> NewRecord(None), shared |-> FALSE, todo |-> {},
   status |-> FALSE, spec |-> FALSE, fresh |-> FALSE]

At(pc) == pass.pc = pc
cur == pass.cur
Deleting == cur.life = "deleting"

Write(r) ==
  /\ rec' = r
  /\ cache' = [cache EXCEPT !.fresh = FALSE]

Done == pass' = Idle /\ UNCHANGED queued

\* The key is queued again unless its retries are used up.
Abort == pass' = Idle /\ queued' \in {queued, TRUE}

Faulty ==
  /\ spent.faults < MaxFaults
  /\ spent' = [spent EXCEPT !.faults = @ + 1]

Change ==
  /\ rec.life # "gone" /\ spent.changes < MaxChanges
  /\ spent' = [spent EXCEPT !.changes = @ + 1]

-----------------------------------------------------------------------------
(* The queue and the hosted zone.                                          *)

Sync ==
  /\ ~cache.fresh
  /\ cache' = [obj |-> rec, fresh |-> TRUE]
  /\ queued' = TRUE
  /\ UNCHANGED <<rec, pass, zone, checks, sid, spent>>

Begin ==
  /\ At("idle") /\ queued
  /\ queued' = FALSE
  /\ pass' = CASE cache.obj.life = "gone" -> pass
               [] cache.obj.life = "deleting" ->
                    [Idle EXCEPT !.pc = "health", !.cur = cache.obj, !.fresh = cache.fresh,
                                 !.todo = DOMAIN cache.obj.st]
               [] cache.obj.life = "live" ->
                    [Idle EXCEPT !.pc = "publish", !.cur = cache.obj, !.fresh = cache.fresh]
  /\ UNCHANGED <<rec, cache, zone, checks, sid, spent>>

\* Whose checks are gone through: those of the spec, to delete them those of the status.
Concerned(r) == DOMAIN (IF r.config = None THEN r.st ELSE r.eps)

\* A slip: a record published before is not published again.
PublishedBefore == cur.published

AlreadyPublished == cur.published /\ cur.observed

SkipZone ==
  /\ At("publish") /\ AlreadyPublished
  /\ pass' = [pass EXCEPT !.pc = "health", !.todo = Concerned(cur)]
  /\ UNCHANGED <<rec, cache, queued, zone, checks, sid, spent>>

Dropped == DOMAIN cur.st \ DOMAIN cur.eps

\* The record set that an endpoint is to the zone.
changeForEndpoint(eps, a) == [of |-> a, check |-> eps[a]]

\* A record set is deleted only as it is: with the id the zone has for it.
Matches(eps, S) == {changeForEndpoint(eps, a) : a \in S} \subseteq zone

Without(S) == {set \in zone : set.of \notin S}

Ensured ==
  Without(Dropped \union DOMAIN cur.eps)
    \union {changeForEndpoint(cur.eps, a) : a \in DOMAIN cur.eps}

\* The endpoints of the status are those of the spec from now on, those very objects.
Ensure ==
  LET accepted == Matches(cur.st, Dropped)
      status == [cur EXCEPT !.st = cur.eps, !.published = accepted, !.observed = TRUE]
  IN  /\ At("publish") /\ ~AlreadyPublished
      /\ zone' = IF accepted THEN Ensured ELSE zone
      /\ pass' = [pass EXCEPT !.pc = "health", !.cur = status, !.todo = Concerned(status),
                              !.shared = TRUE, !.status = TRUE]
      /\ UNCHANGED <<rec, cache, queued, checks, sid, spent>>

\* DeleteRecord.  "was not found" is tolerated and leaves the zone as it is.
DeleteFromZone ==
  LET missing == \E a \in DOMAIN cur.eps : \A set \in zone : set.of # a
      skip == ~cur.published \/ missing
  IN  /\ At("zone")
      /\ IF skip \/ Matches(cur.eps, DOMAIN cur.eps)
         THEN /\ zone' = IF skip THEN zone ELSE Without(DOMAIN cur.eps)
              /\ pass' = [pass EXCEPT !.pc = IF pass.status THEN "status" ELSE "spec"]
              /\ UNCHANGED queued
         ELSE Abort /\ UNCHANGED zone
      /\ UNCHANGED <<rec, cache, checks, sid, spent>>

-----------------------------------------------------------------------------
(* The checks.                                                             *)

\* A slip: annotations are used as they are.
AnyConfig(config) == config # None

\* configFromAnnotations and validateHealthChecksConfig accept them.
Valid(config) == config \in Settings

\* The endpoint has the id of a check that AWS does not have.
Missing(a, id) == id # 0 /\ checks[a, id] = "deleted"

\* The id is a property of the endpoint, and one that is there is not replaced.
SetProviderSpecific(eps, a, id) == IF eps[a] = 0 THEN [eps EXCEPT ![a] = id] ELSE eps

\* One endpoint is done, and has its id.
Checked(a, id) ==
  LET eps == SetProviderSpecific(cur.eps, a, id)
  IN  pass' = [pass EXCEPT !.todo = @ \ {a}, !.spec = @ \/ eps # cur.eps, !.cur.eps = eps,
                 !.cur.st = IF pass.shared THEN eps ELSE @]

\* updateHealthCheck, which changes what differs.
Updated(old, new) == new

UpdateCheck(a) ==
  LET id == cur.eps[a]
  IN  /\ At("health") /\ ~Deleting /\ Valid(cur.config) /\ a \in pass.todo
      /\ id # 0
      /\ IF Missing(a, id)
         THEN Abort /\ UNCHANGED checks
         ELSE /\ checks' = [checks EXCEPT ![<<a, id>>] = Updated(@, cur.config)]
              /\ Checked(a, id)
              /\ UNCHANGED queued
      /\ UNCHANGED <<rec, cache, zone, sid, spent>>

\* CreateHealthCheck: a reference that was used gives the check it was used for, if that
\* is there and has the same settings.
Creatable(a) == checks[a, sid] \in {"none", cur.config}

CreateCheck(a) ==
  /\ At("health") /\ ~Deleting /\ Valid(cur.config) /\ a \in pass.todo
  /\ cur.eps[a] = 0
  /\ IF Creatable(a)
     THEN /\ checks' = [checks EXCEPT ![<<a, sid>>] = cur.config]
          /\ Checked(a, sid)
          /\ UNCHANGED queued
     ELSE Abort /\ UNCHANGED checks
  /\ UNCHANGED <<rec, cache, zone, sid, spent>>

\* The call fails, or the one that gives the check its tags.
CheckFails(a) ==
  /\ At("health") /\ ~Deleting /\ Valid(cur.config) /\ a \in pass.todo
  /\ Faulty
  /\ checks' \in {checks} \union
       (IF cur.eps[a] = 0 /\ Creatable(a)
        THEN {[checks EXCEPT ![<<a, sid>>] = cur.config]}
        ELSE {})
  /\ Abort
  /\ UNCHANGED <<rec, cache, zone, sid>>

\* A slip: the checks of the spec are deleted.
SpecId(a) == IF a \in DOMAIN cur.eps THEN cur.eps[a] ELSE 0

StatusId(a) == cur.st[a]

DeleteProviderSpecific(eps, a) == [eps EXCEPT ![a] = 0]

\* Without annotations and of a record that is deleted, those of the status are deleted;
\* the id goes with them, from the spec only if it shares its endpoints with the status.
DeleteCheck(a) ==
  LET id == StatusId(a)
  IN  /\ At("health") /\ (Deleting \/ cur.config = None) /\ a \in pass.todo
      /\ IF Missing(a, id)
         THEN Abort /\ UNCHANGED checks
         ELSE /\ checks' = IF id = 0 THEN checks ELSE [checks EXCEPT ![<<a, id>>] = "deleted"]
              /\ pass' = [pass EXCEPT !.todo = @ \ {a},
                            !.status = @ \/ id # 0, !.spec = @ \/ (pass.shared /\ id # 0),
                            !.cur.st = DeleteProviderSpecific(@, a),
                            !.cur.eps = IF pass.shared THEN DeleteProviderSpecific(@, a) ELSE @]
              /\ UNCHANGED queued
      /\ UNCHANGED <<rec, cache, zone, sid, spent>>

\* The call fails, with or without effect.
DeleteFails(a) ==
  LET id == StatusId(a)
  IN  /\ At("health") /\ (Deleting \/ cur.config = None) /\ a \in pass.todo
      /\ id # 0 /\ ~Missing(a, id)
      /\ Faulty
      /\ checks' \in {checks, [checks EXCEPT ![<<a, id>>] = "deleted"]}
      /\ Abort
      /\ UNCHANGED <<rec, cache, zone, sid>>

\* Annotations that are refused leave what was published unsaved.
Refused ==
  /\ At("health") /\ ~Deleting /\ cur.config # None /\ ~Valid(cur.config)
  /\ Abort
  /\ UNCHANGED <<rec, cache, zone, checks, sid, spent>>

HealthChecked ==
  /\ At("health") /\ (Deleting \/ cur.config = None \/ Valid(cur.config)) /\ pass.todo = {}
  /\ IF Deleting \/ pass.status \/ pass.spec
     THEN /\ pass' = [pass EXCEPT !.pc = CASE Deleting -> "zone"
                                           [] ~Deleting /\ pass.status -> "status"
                                           [] ~Deleting /\ ~pass.status -> "spec"]
          /\ UNCHANGED queued
     ELSE Done
  /\ UNCHANGED <<rec, cache, zone, checks, sid, spent>>

-----------------------------------------------------------------------------
(* The rest of process().                                                  *)

\* UpdateStatus, and the resource version it returns.
SaveStatus ==
  /\ At("status")
  /\ IF pass.fresh
     THEN /\ Write([rec EXCEPT !.st = cur.st, !.published = cur.published,
                               !.observed = cur.observed])
          /\ IF pass.spec \/ Deleting
             THEN pass' = [pass EXCEPT !.pc = "spec"] /\ UNCHANGED queued
             ELSE Done
     ELSE Abort /\ UNCHANGED <<rec, cache>>
  /\ UNCHANGED <<zone, checks, sid, spent>>

\* Update, of other endpoints a new generation, or of the last finalizer.
SaveSpec ==
  /\ At("spec")
  /\ IF pass.fresh
     THEN /\ Write(IF Deleting THEN [rec EXCEPT !.life = "gone"]
                   ELSE [rec EXCEPT !.eps = cur.eps, !.observed = @ /\ cur.eps = rec.eps])
          /\ Done
     ELSE Abort /\ UNCHANGED <<rec, cache>>
  /\ UNCHANGED <<zone, checks, sid, spent>>

SaveFails ==
  /\ At("status") \/ At("spec")
  /\ Faulty
  /\ Abort
  /\ UNCHANGED <<rec, cache, zone, checks, sid>>

Crash ==
  /\ sid \in 1..MaxCrashes
  /\ sid' = sid + 1
  /\ pass' = Idle
  /\ cache' = [obj |-> rec, fresh |-> TRUE]
  /\ queued' = TRUE
  /\ UNCHANGED <<rec, zone, checks, spent>>

-----------------------------------------------------------------------------
(* The traffic object's controller and the user.                           *)

\* What else is written makes the copies stale.
WriteOver(r) ==
  /\ Write(r)
  /\ pass' = [pass EXCEPT !.fresh = FALSE]
  /\ UNCHANGED <<queued, zone, checks, sid>>

\* The endpoints that stay keep their ids.
setEndpointFromTargets(S) == [a \in S |-> IF a \in DOMAIN rec.eps THEN rec.eps[a] ELSE 0]

\* Annotations of the traffic object are copied, but never taken away.
CopyAnnotations(config) == IF config = None THEN rec.config ELSE config

\* UpdateDNS, for other targets of the traffic object or other annotations.
OwnerUpdates(S, config) ==
  LET eps == setEndpointFromTargets(S)
      r == [rec EXCEPT !.eps = eps, !.config = CopyAnnotations(config),
                       !.observed = @ /\ eps = rec.eps]
  IN  /\ Change
      /\ r # rec
      /\ WriteOver(r)

UserEdits(config) ==
  /\ Change
  /\ rec.config # config
  /\ WriteOver([rec EXCEPT !.config = config])

Delete ==
  /\ rec.life = "live"
  /\ WriteOver([rec EXCEPT !.life = "deleting"])
  /\ UNCHANGED spent

-----------------------------------------------------------------------------
\* The record has its finalizer, and no endpoints yet.
Init ==
  /\ rec \in {NewRecord(config) : config \in Settings \union {None}}
  /\ cache = [obj |-> rec, fresh |-> TRUE]
  /\ queued = FALSE
  /\ pass = Idle
  /\ zone = {}
  /\ checks = [c \in Addresses \X Processes |-> "none"]
  /\ sid = 1
  /\ spent = [changes |-> 0, faults |-> 0]

Step ==
  \/ Begin \/ SkipZone \/ Ensure \/ DeleteFromZone \/ Refused \/ HealthChecked
  \/ SaveStatus \/ SaveSpec
  \/ \E a \in Addresses : UpdateCheck(a) \/ CreateCheck(a) \/ DeleteCheck(a)

Fault == SaveFails \/ Crash \/ \E a \in Addresses : CheckFails(a) \/ DeleteFails(a)

Others ==
  \/ \E S \in SUBSET Addresses, config \in Settings \union {None, Invalid} :
       OwnerUpdates(S, config)
  \/ \E config \in Settings \union {None, Invalid} : UserEdits(config)
  \/ Delete

Next == Step \/ Sync \/ Fault \/ Others

\* The worker and the informer do their work in the end.
Fairness == WF_vars(Step) /\ WF_vars(Sync)

Spec == Init /\ [][Next]_vars /\ Fairness

-----------------------------------------------------------------------------
(* Properties.                                                             *)

Endpoints == UNION {[S -> 0..(MaxCrashes + 1)] : S \in SUBSET Addresses}

Records ==
  [life : {"live", "deleting", "gone"}, config : Settings \union {None, Invalid},
   eps : Endpoints, st : Endpoints, published : BOOLEAN, observed : BOOLEAN]

\* The type invariant of the record, its copies, the zone and the checks.
TypeOK ==
  /\ rec \in Records
  /\ cache \in [obj : Records, fresh : BOOLEAN]
  /\ queued \in BOOLEAN
  /\ pass \in [pc : {"idle", "publish", "health", "zone", "status", "spec"}, cur : Records,
               shared : BOOLEAN, todo : SUBSET Addresses, status : BOOLEAN, spec : BOOLEAN,
               fresh : BOOLEAN]
  /\ zone \subseteq [of : Addresses, check : 0..(MaxCrashes + 1)]
  /\ checks \in [Addresses \X Processes -> Settings \union {"none", "deleted"}]
  /\ sid \in Processes
  /\ spent \in [changes : 0..MaxChanges, faults : 0..MaxFaults]

\* Nothing is promised after a failed call: the retries may be used up.
Undisturbed == spent.faults = 0

\* An endpoint that cannot get a check any more: it has the id of one that was deleted,
\* or none, and the reference was used for a check that was deleted or has other settings.
Blocked(a) ==
  LET id == rec.eps[a]
  IN  IF id # 0 THEN Missing(a, id)
      ELSE checks[a, sid] \notin {"none", rec.config}

\* Each endpoint of a record with annotations has, in the hosted zone, a check with the
\* settings these ask for, whatever conflict or crash lost the ids of checks that were
\* made; unless one is blocked (health_check_reconciler.go:74-106, aws/health.go:36-189).
EventuallyChecked ==
  []<>(rec.life = "live" /\ rec.config \in Settings /\ Undisturbed
         /\ (\A a \in DOMAIN rec.eps : ~Blocked(a)) =>
       \A a \in DOMAIN rec.eps :
         /\ rec.eps[a] # 0 /\ checks[a, rec.eps[a]] = rec.config
         /\ changeForEndpoint(rec.eps, a) \in zone)

\* The deletion of a record completes, unless its status has the id of a check deleted by
\* a pass that was cut short, or the zone lacks the id of its spec: both are refused for
\* ever (dns_record.go:34-49, aws/health.go:56-92).
EventuallyGone ==
  []<>(rec.life = "deleting" /\ Undisturbed =>
         \/ \E a \in DOMAIN rec.st : Missing(a, rec.st[a])
         \/ \E set \in zone : set.of \in DOMAIN rec.eps /\ set.check # rec.eps[set.of])

=============================================================================
