# A TLA+ model of kcp-glbc

kcp-glbc is the global load balancer controller of kcp: it watches Ingresses (and
Routes) in kcp workspaces, gives each of them a generated host, a DNSRecord, a
Certificate and a TLS secret, publishes the addresses of the clusters the object runs on
to AWS Route 53, and keeps all of it right while the object moves between clusters. This
directory holds specifications of that controller, the TLC configurations that check
them, and TLAPS proofs of what the models promise, for every size of them.

All paths below are relative to the repository.

## The system

| component | state | operations | meets |
|---|---|---|---|
| worker loop `pkg/reconciler/controller.go` | client-go's queue: FIFO, dirty set, processing set, failure counters, delayed keys | `Enqueue`, `EnqueueAfter`, `processNextWorkItem` by 2 workers (`cmd/kcp-glbc/main.go:59`) | every controller below |
| ingress controller `pkg/reconciler/ingress` | none of its own but the informers' caches; the Ingress is its state | `process`: read the cache, run the reconcilers, `Update`, `UpdateStatus`; event handlers of Ingresses, DomainVerifications, Certificates, Secrets, DNSRecords | kcp, cert-manager's objects, DNSRecords |
| DNS, host and certificate reconcilers `pkg/traffic` | the DNSRecord, the Certificate, two TLS secrets | get, create, update and delete of these, one call at a time | run in this order by the ingress and route controllers |
| TLS provider `pkg/tls` | the Certificate and its secret in the GLBC workspace | `Create`, `GetCertificateSecret`, `Update`, `Delete` | cert-manager |
| DNSRecord controller `pkg/dns` | the DNSRecord's status and finalizer | publish to zones, delete, health checks, two saves | the AWS provider |
| AWS provider `pkg/dns/aws` | the hosted zone, the health checks | one change batch per record; health checks with tags | Route 53 |
| workload migration `pkg/migration` | soft finalizers and delete-at annotations | `Migrate` on Ingresses, Services, Deployments, Secrets | kcp's syncers |
| domain verification `pkg/domains` | the DomainVerification's status | token, TXT look-up, requeue after 5 s | DNS; the ingress controller's custom hosts |
| hosts watcher `pkg/dns/host_watcher.go` | a slice of watchers, each with a goroutine | start, stop, look-up loop, `OnChange` | the ingress controller's queue |
| route controller `pkg/reconciler/route` | as the ingress controller, and a shadow Route | `process`, shadow creation and deletion | the reconcilers of `pkg/traffic` |

They interact through the API server: a controller's write is another one's event. There
is no lock between controllers; what stands in for one is the resource version, which
makes a write of a stale copy fail, and the queue, which gives a key to one worker at a
time.

What is hard here:

- **Interleaving.** A pass of `process` makes up to ten calls; between any two of them
  users, syncers, cert-manager and the other controllers write.
- **Stale reads.** Every pass starts from the informer's cache, which may be old, while
  the DNSRecord, the Certificate and the secrets are read live.
- **Partial failure and restart.** Nothing is transactional: a pass that stops half-way
  is repeated from the start on what it left.
- **Two saves.** `Update` and `UpdateStatus` are separate, with the same old version.
- **Retries that end.** After five failures a key is dropped. Update handlers ignore
  events without a new version, so the ten-hour resync does not bring it back.
- **Time.** Requeues after 5 s, soft finalizers kept for twice the TTL of a DNS answer.

What makes each part correct:

- *queue*: one worker per key, no event lost, retries bounded, every event answered;
- *ingress pass*: an Ingress that is gone leaves no object behind; the host in the
  status, in the TLS transform and in the DNSRecord is one; a host that was announced
  resolves; the user's spec is left alone; settled Ingresses are served, deletions end;
- *DNSRecord*: the status never claims what the zone does not have, the endpoints of the spec
  reach the zone in the end, and the zone has no others unless a pass wrote it without saving
  so, a published record takes its endpoints with it;
- *migration*: a cluster's copy is kept until the DNS has moved away from it and the old
  answers have expired;
- *domain verification*: a host is used only if its domain was proved, no rule is lost while
  it waits, and a verified domain is noticed: as long as the controller knows with which kind
  of cluster it has to do;
- *hosts watcher*: no change of a watched host goes unnoticed, one watcher per host, and
  none for an object that is gone: as long as two workers do not change the slice at a time;
- *health checks*: every endpoint gets the check its annotations ask for, and gives it
  back, whatever call lost its id;
- *routes*: the clusters get a verified host with the certificate that fits it, and the
  shadow Route comes and goes with its Route.

## Modules

| module | models | status |
|---|---|---|
| `WorkQueue` | the queue and the worker loop | checked, proved |
| `KeyHandover` | what the queue promises to a controller | refined by `WorkQueue` |
| `WorkQueueProofs` | theorems about `WorkQueue` | proved |
| `IngressReconciler` | one Ingress, its pass and its objects | checked, proved |
| `IngressProofs` | theorems about `IngressReconciler` | proved |
| `DNSRecordController` | one DNSRecord and the hosted zone | checked, proved |
| `DNSRecordProofs` | theorems about `DNSRecordController` | proved |
| `Migration` | soft finalizers and the move of the endpoints | checked, proved |
| `MigrationProofs` | theorems about `Migration` | proved |
| `CustomHosts` | custom hosts of Ingresses, and the DomainVerification of one domain | checked, proved |
| `CustomHostsProofs` | theorems about `CustomHosts` | proved |
| `Routes` | a Route with a custom host, and its shadow | checked, proved |
| `RoutesProofs` | theorems about `Routes` | proved |
| `HostsWatcher` | the watchers of host name targets, and the passes that start and stop them | checked, proved |
| `HostsWatcherProofs` | theorems about `HostsWatcher` | proved |
| `HealthChecks` | the health checks of one DNSRecord at AWS | checked, proved |
| `HealthChecksProofs` | theorems about `HealthChecks` | proved |

The order is that of weight: the queue first, since every other model leans on it, then the
pass that is the program's heart, then the controller that publishes what the pass wants,
then what time adds (migration), then the parts that stand beside. Every controller is
modelled as `KeyHandover` lets it: one pass in flight per key and a pending flag that an
event sets and a pass takes. `KeyHandover` is the interface between them and `WorkQueue`;
the refinement is checked by TLC (with its liveness) and proved (its safety).

The modules meet at what one leaves open and another opens up:

- `IngressReconciler` sees the DNSRecord controller as two actions, `Publish` and
  `Unpublish`; `DNSRecordController` opens them up and sees the Ingress controller as
  `OwnerUpdates` and `OwnerDeletes`.
- `DNSRecordController` has the health checks of a pass as one step; `HealthChecks` has one
  step for each call to AWS, and of the zone only what these need.
- `Migration` and `CustomHosts` are the same pass reduced to what the clusters and the
  endpoints, and the rules and the TLS, need; `CustomHosts` adds the second controller, of
  DomainVerifications.
- `Routes` is the pass of the other traffic object, reduced to what is different from an
  Ingress's; the DNSRecord and the stages of a certificate are `IngressReconciler`'s.
- `HostsWatcher` has targets that are host names, all other modules have addresses.

Two parts could be checked together only at the price of the case that matters in either:
the state of the reduced modules is already that of two controllers and their faults.

Every invariant and action property that a run checks is now a theorem as well (below). What is
left of the plan is to model more: Routes on clusters without advanced scheduling; renewals of
certificates.

### WorkQueue

State: `queue`, `dirty`, `processing`, `delayed` and `requeues` are client-go's; `holding`
and `stage` say which key a worker has and where in `processNextWorkItem` it is. Each
method of the queue takes its lock, so each is one action; `Get`, the return of
`Process` (`Succeed`, `Retry`, `Drop`) and the deferred `Done` are separate steps of a
worker. `attempts` is a history variable: failed or running attempts in a row. Process is
left open: it may return anything and may ask for a later pass (`EnqueueAfter`).

### IngressReconciler

State: the Ingress on the server (`ing`), what the cache holds of it (`cache`), the pass
(`pass`, with a program counter that names the next API call), the DNSRecord, the
Certificate, the two secrets (each by the host it is for), the zone, the key's place in
the queue, undelivered events of other objects, and the number of hosts generated.
One API call is one action; the code between two calls belongs to the call before it.
`DNSStep` is `DnsReconciler.Reconcile` and the host reconciler's call, `CertStep` is
`CertificateReconciler.Reconcile`, `Save` and `SaveStatus` are the end of `process`.

Abstractions:

- An object's version is a flag: `fresh` (`recFresh`) says that what the pass read is
  still the latest version. A write that changes nothing keeps the version, as in
  Kubernetes. An informer delivers the latest version: events in between are merged, as
  they are in the queue.
- A cluster stands for the address of its load balancer; targets are addresses, except
  for the generated host in the Ingress's own status, which is looked up.
- What a pass has written into its copy always differs from what it read (the rule with
  the generated host is added to it), so that `Update` is always called.
- The annotation with the certificate's state and those of the health checks are left out.
- A DNSRecord has its host from the start: the upgrade path of `pkg/traffic/dns.go:85-95`
  is not modelled. Custom hosts touch no state kept here, and `Migrate` has its own module.
- A call that took effect and was reported failed is the call followed by a fault at the
  next one.

### DNSRecordController

State: the record, the cached copy, the pass with the copy it read and the status it will
save, the zone (the addresses it has under the record's host), the queue. `Ensure` is one
batch: upsert the endpoints, delete those the status names beside them; a batch that
deletes what is not there is refused. Faults may take effect or not (`EnsureFails`,
`DeleteFails`). The health checks' calls are one step. There is one hosted zone.

What the status does not name is never deleted. `lapsed` is a history variable: a pass had
something new to say of the zone and ended before its status was saved, by a fault, a crash or,
without any of them, by a conflict with a change of the owner. The next pass computes its batch
from a status that does not have what was published, and this stays in the zone for good, or
until the record names it again. So `EventuallyPublished` says that the endpoints of the spec
are in the zone in the end, and that the zone is exactly these if no pass lapsed. (Without that
exception the property is violated in the same run, with neither fault nor crash.) A record that
is deleted leaves such endpoints behind, too: `CleanGone` is about those of its spec.

### Migration

State: the object with what kcp, its syncers and `Migrate` write on it (`obj`: state labels
and deletion annotations as `place`, soft finalizers, delete-at annotations, reported
addresses), the cached copy, the pass, the endpoints and the queue with its one delayed
addition. `kind` is chosen at the start: traffic (an Ingress, whose pass moves the endpoints
between `Migrate` and the save, and always saves) or a plain object (a Service, Deployment or
Secret, whose pass saves only what changed). `EnsureSoftFinalizers`,
`GracefulRemoveSoftFinalizers` and `Delays` are the halves of `Migrate` and its requeues.

Abstractions:

- The clock is `Tick`, one TTL; a noted time is kept as what is left of it, in every copy.
  A tick falls between two passes: a pass that took minutes would note a time before the
  endpoints it writes. Between passes events and retries may be late by any time.
- The DNSRecord exists and is read live; its publication is `DNSRecordController`'s subject.
- While no cluster has reported, the object's own status is used: it is empty, or it has the
  managed host, which resolves to the endpoints there are. Both may happen.
- `unused` and `disturbed` are history variables. Nothing is promised (`disturbed`) for a
  cluster that is taken away before a pass gave it its soft finalizer, while no other cluster
  is active (its endpoints stay until the end), or whose deletion was taken back and repeated
  before a pass that saw it placed was saved: the old delete-at annotation still counts then.
- The removal of syncer finalizers from deleted objects and malformed annotations are left out.

### CustomHosts

State: the Ingresses (`ing`: rules, TLS entries, the pending annotation and its label, the
transform patch), the informer's copies, a pass for each; the DomainVerification (`dv`), the
informer's object of it, its controller's pass; the TXT record. A rule is a host and the
host whose paths it has, so that the generated rule for `a`'s paths is told from `b`'s.
`ProcessCustomHosts` and `Transform` are the functions of those names,
`IngressesFromDomainVerification` is the handler of a DomainVerification's events, `DVBegin`
to `Update` are `process` and `reconcile` of pkg/domains.

Abstractions:

- A delay of the queue is the time a key waits in it; keys are never dropped here.
- `dvCache` is the informer's own object, which the verification controller changes in place
  (`reconciler.go:44-92`) before it saves: `InPlace` writes through to it as long as no event
  has replaced it.
- `lastChecked` is whether it was set (`looked`); it has seconds, so a save may or may not
  change the stored object (`sameSecond`).
- The list of Ingresses the handler gets has no order: `Found` has every set it may notify.
- An Ingress is with or without advanced scheduling from the start (all the same).
- `TMCEnabled` is a guess. The code looks at the Ingress's own status only if it has exactly one
  address (`ingress.go:71-78`): one that is not the generated host means that there is no
  advanced scheduling, and so `single` is kept of a status. No address, several, or the generated
  host mean that there is. `Report` is the syncer of a cluster without advanced scheduling, which
  gives the status its one address, takes it away or adds to it, at any time; what the controller
  itself writes into the status changes no guess: with several addresses there are still several,
  and with none it is the generated host.
- `RemoveTLS` has entries of one host each. For an entry of more hosts it slices the list of
  hosts to remove by an index of the entry's (`ingress.go:123`), which may be beyond its end.

Two things follow from the guess, and the properties name both. The spec of an Ingress that is
not `Recognised` (no advanced scheduling, but no single address) is the user's: what its clusters
serve is unverified, and nothing is promised for it until the status has one address again.
And when the guess turns while rules are withheld (`turned`, a history variable), the annotation
that has them is deleted, while the spec that is given back is the rewritten one: these rules are
lost, so `UserRulesKept` and `EventuallyRestored` are about Ingresses to which that did not happen.
`VerifiedOnly`, `PathsServed` and `WithheldLabelled` have no such exception: they hold for every
Ingress at rest that is recognised now, whatever was guessed before. `proved` says that the TXT
record was found once and never falls: that a host is withheld again after its domain lost the
record is promised nowhere.

### Routes

State: the Route and its shadow (`obj`), the informer's copies, a pass for each of the two
keys, their certificates, whether the custom host's domain is verified. The steps of the
Route's pass are the calls it makes: `DeleteShadow`, `GetShadow`, `CreateShadow` or
`UpdateShadow`, the certificate's, `Save`. The clusters have advanced scheduling. The label of
pending hosts, which comes and goes with the annotation, and the status are left out.
Events of a certificate are delivered at once (`IngressReconciler` delays them), those of a
DomainVerification are not. The user changes neither host nor TLS after creation. Keys are
never dropped, as in `CustomHosts`.

### HostsWatcher

State: each object's target, what a look-up of each host answers, the DNSRecord's endpoints, a
pass for each object, the slice `HostsWatcher.Records` and the goroutines. `Begin` reads the
target and looks it up, `StartWatching` starts its watcher, `ListHostRecordWatchers` and
`StopWatching` find and stop those of other hosts, `UpdateDNS` writes the endpoints. Over a
deleted object the pass deletes the DNSRecord, and only when everything is deleted stops all its
watchers (`ingress_reconciler.go:73-77`). A watcher sleeps, looks up, and queues its object if
the addresses differ from what it knows; an answer without an address is a panic, which restarts
the process.

- Passes over different objects run at the same time, those of one never, as `WorkQueue` has
  it; a worker is whoever runs a pass, so with two objects there are two.
- `StartWatching` and `StopWatching` have no lock: reading the slice and writing it are two
  steps (`Assign`), in any order with those of another pass. That a read may see half of a
  write, as it may in a data race, is left out.
- `clashed` is a history variable: a change of the slice began while another one was not written
  yet, since the process started. Until then `OneWatcher` and `EndpointsFollow` hold, with passes
  over several objects at the same time. After it neither does (see below).
- An object has one target host. How long a watcher sleeps, and the order and TTL of addresses,
  are left out: sleep and look-up are one step, which a watcher that was stopped may still take.

### HealthChecks

State: the record with the ids of the checks in the endpoints of its spec and of its status,
the cached copy, the pass, the record sets of the zone with the ids they were published with,
the checks at AWS and the number of the process. An id is the endpoint and the process it was
made by, which is what the caller reference is made of (`aws/health.go:188-193`). After `Ensure`
status and spec of the pass's copy share their endpoints (`shared`): an id set in one is in the
other. The settings of a check are opaque values; of two that differ, the update makes them
equal. The finalizer is there from the start.

## Runs

| run | question | result |
|---|---|---|
| `work_queue` | does the queue hand over every key, once at a time, a bounded number of times? | holds |
| `ingress_safety` | do the Ingress's objects stay consistent under a fault, a retry, a move? | holds |
| `ingress_liveness` | is a settled Ingress served, does a deletion end, across a restart? | holds |
| `dns_record` | does the status tell the truth of the zone, and does the zone get the spec? | holds |
| `migration` | is a cluster drained before its copy goes, and let go in the end? | holds |
| `custom_hosts` | are only verified hosts served, and is no rule lost, as long as the guess is right? | holds |
| `routes` | do host, certificate and shadow of a Route fit each other? | holds |
| `hosts_watcher` | is each target watched, once, and do the endpoints follow, until changes overlap? | holds |
| `health_checks` | does every endpoint get its check, and does a deletion end? | holds |
| `secret_left` | does the clean-up delete the secrets? | violated |
| `all_restored` | does every Ingress that waits for a domain get its host back? | violated |
| `stop_watching` | is a deleted object watched no more? | violated |

The violated ones state what a comment or the documentation says; `PROJECT.json` quotes it.

- `secret_left`: the clean-up stops after the Certificate is gone; when it is repeated,
  the update of the Certificate answers "not found", which ends `Delete` before the secret.
- `all_restored`: the handler of the DomainVerification's event returns from inside its loop
  at the first Ingress with advanced scheduling; another one waits on.
- `stop_watching`: two passes read the slice of watchers; the second to write puts back what
  the first took out, or forgets what it added. The watcher that is forgotten goes on when its
  object is gone.

### Seen while modelling

These also differ from what a comment or the documentation says, or from what was likely
meant; the models behave as the code does. They have no run of their own.

- Creating the DNSRecord fails after a host was generated; the pass goes on and requests a
  Certificate for that host, and the next pass generates another (`pkg/traffic/dns.go:76`,
  unlike the comment in 315-316).
- The endpoints are written by the first reconciler, and published, while the Certificate is
  still pending (`dns.go:153`, `tls.go:233`).
- `Ensure` fails and the status names the new endpoints anyway (`pkg/dns/dns_record.go:119`;
  `pkg/apis/kuadrant/v1/types.go:181` has those of the last successful publication).
- The new cluster has no address two TTLs after the old one was asked to go: the old one's
  soft finalizer is removed and the endpoints keep naming it
  (`pkg/migration/workload/migrate.go:90`, unlike `docs/getting_started/tutorial.md:242`).
- The owner changes a record after its endpoints were published and before the status was
  saved: the save conflicts, the next pass knows of nothing to delete, and the zone keeps both
  (`pkg/dns/controller.go:119`, unlike the comment at `pkg/dns/aws/dns.go:161`, "Delete any
  previously published records that are no longer present").
- The status of an Ingress without advanced scheduling loses its address, or gets a second one,
  while rules are withheld: the annotation that has them is deleted and the rewritten spec is
  kept, so that the user's rules are lost (`pkg/traffic/ingress.go:71`, 187-193 and 267-268,
  unlike `docs/ingress/ingress-behavior.md:55`).
- With no address, or with two or more, such an Ingress is given its own spec back: its cluster
  serves hosts that nobody verified, and no generated one (`ingress.go:71`, 187-193, unlike
  `docs/ingress/ingress-behavior.md:53`).
- With two or more hosts to withhold, `RemoveTLS` removes none
  (`pkg/traffic/ingress.go:123`, unlike `docs/ingress/ingress-behavior.md:112`), and with entries
  of several hosts it may panic. What it removed is restored with advanced scheduling only,
  where the user's spec still has it.
- Two changes of the slice of watchers overlap, and a watcher that was just cancelled is back in
  it. When its host is the target again, `StartWatching` finds the record and starts nothing
  (`pkg/dns/host_watcher.go:43-47`): later changes of its addresses are never noticed, until the
  process restarts. `OneWatcher` without the condition on `clashed` is violated within the bounds
  of `hosts_watcher`, `EndpointsFollow` with one more event.
- The generated host of a verified Route is served by neither the Route nor its shadow, which
  gets a host of its own (`pkg/traffic/route.go:175-178`, 212; `test/e2e/route_test.go` looks
  for it).
- A Route that may be served makes its shadow anew in the pass that deletes it, and asks for
  a finalizer that an object under deletion cannot get: it never goes (`route.go:181-231`).
- A record may get stuck at its health checks: the id of a check that is gone fails every pass
  (`pkg/dns/aws/health.go:77`); a reference used by this process for a check that was deleted,
  or had other settings, fails every creation (`health.go:100`, 188-193).
- The check of an endpoint that is dropped stays (`pkg/traffic/dns.go:258-270`), as do copied
  annotations that the user removes (`dns.go:224`); a changed protocol is not noticed
  (`health.go:156`); a weight is set once and for all, as `SetProviderSpecific` changes a copy
  (`types.go:241`).

### Bounds

- `WorkQueue`: two keys and two workers, the number of workers of the process; a third
  key or worker adds no new way to interleave, and the proofs do not depend on it.
  `MaxRetries` is 2 instead of 5.
- `IngressReconciler`: one cluster, one fault, one retry, and one move or one removal of the
  DNSRecord by hand in the safety run, so that a pass can fail anywhere and be repeated
  against an Ingress that moved or lost its record. The
  liveness run has no fault and one restart: after a failing call the code promises
  nothing (below). `MaxHosts` bounds the generated hosts by the events that cause them, and
  never stops a pass.
- `DNSRecordController`: two addresses, two changes, so that a change can overlap the
  previous one; one retry, one fault, one restart.
- `Migration`: two clusters, three moves (placed elsewhere, taken away, taken back or placed
  again), one fault or restart, one retry; the object starts on `First`, which costs no
  generality as clusters are alike.
- `CustomHosts`: one Ingress, a host of the domain and one of no domain, so that rules of both
  kinds are there; one fault or restart, two changes, shared by the user and the syncer (the
  TXT record comes and goes, or the DomainVerification is removed, or the guess of `TMCEnabled`
  turns once or twice). The Ingress starts with advanced scheduling, or without it and with
  either guess, so that one change is enough to lose what was withheld. Ingresses only meet in
  the search for those that wait: `all_restored` has two.
- `Routes`: a custom host or none, one fault or restart, one change of the verification, from
  either outcome.
- `HostsWatcher`: two objects, so that two passes, as many as there are workers, overlap; the
  target of one moves (`Moving`), as objects are alike; two hosts that may get another address
  or none; two events; two goroutines at a time for one host of an object, one that was stopped
  and its successor (a third waits for the first to end). The proofs have any number of each.
- `HealthChecks`: two endpoints, two settings and two annotations that are none, two changes,
  one failing call, one restart.

Deadlock is not checked for the controllers' models, which stop when everything has
settled and the bounded events are used up; `WorkQueue` never stops.

### Fairness

Weak fairness for the workers (`Start` runs them until shutdown and restarts them every
second), for the informers (a watch delivers in the end) and for the timers of the delaying
queue. `IngressReconciler` assumes as much of the DNS controller (which
`DNSRecordController` checks) and of cert-manager, and strong fairness of `SetLBHost`: a
name server that has the host says so when it is asked often enough
(`pkg/traffic/dns.go:168-175`). `Migration` adds that time goes on, `CustomHosts` that the key
of the DomainVerification, whose pass repeats itself, and those of the Ingresses are taken
independently (they are keys of two controllers), `HostsWatcher` that goroutines run.
`Routes` assumes nothing of cert-manager, `HealthChecks` nothing of AWS but that a call returns.
Users, syncers, faults and restarts are never fair.

`EventuallyServed` and `EventuallyPublished` of the Ingress and the DNSRecord hold because the
environment settles in their premise, not because it must. With a failing call they do not
hold, and TLC shows why: a pass over a stale copy conflicts and counts as a failure, so that a
single real error may find the retries used up and drop the key; and a DNSRecord whose
publication failed twice in the same way gets no new status, hence no event and no retry
(`pkg/dns/dns_record.go:204-215`). `HealthChecks` makes the same exception (`Undisturbed`).
`SoftReleased` and `EndpointsFollow` of `Migration` except a key that was dropped and not
enqueued since (`dropped`): five failures within a second, as the back-off starts at 5 ms,
drop the pass that should have released a cluster.

The liveness properties of the newer modules have the form "again and again, if the
environment allows it then ...": as every change is bounded, the environment settles, and then
they say that the goal is reached. Each names the states in which the code is stuck and nothing
is promised: `EventuallyRestored` while the domain cannot be verified and of an Ingress that
lost rules (`turned`), `EndpointsFollow` after an overlap (`clashed`) and while a host has no
address, `EventuallyGone` of a Route that may be served (so it says nothing of
`pkg/traffic/route.go:185`), `EventuallyChecked` of an endpoint that is `Blocked` and
`EventuallyGone` of its record. `EventuallyPublished` promises the spec's endpoints always, and
nothing beside them if no pass `lapsed`.

After the user deleted the DNSRecord by hand (excepted by `RecordKept`), or created the Ingress
anew (`MaxLives = 2`), `HostsAgree`, `LBHostResolves` and `SpecKept` do not hold: the status
keeps the old host, `HasDNSLBHost` keeps it from being replaced, and an own status that is not
the generated host makes the Ingress look like one without advanced scheduling
(`pkg/traffic/ingress.go:71-78`).

### Mutants

Each property was tried against a slip in the code that it should notice. The slips are
operators beside the definition they distort, marked "A slip" in the modules;
`PROJECT.json` pairs them with the properties they break. They are used nowhere else.

## Proofs

The runs check small instances; the theorems hold for all values of the constants: any number
of keys, clusters, Ingresses, addresses or hosts, and any number of faults, restarts, retries
and changes. Each proof module has the same course: sets that name the types; the conjuncts of
an inductive invariant `IInv`, each with a comment on why it holds; *effect* lemmas, which say
field by field what an action does to the state; `Init => IInv`; `IInv /\ [Next]_vars => IInv'`
with one step for each action; the theorems. TLC checked each `IInv` on the instance of the
module's run before it was proved. Fairness is never used.

| module | theorem | states |
|---|---|---|
| `WorkQueueProofs` | `Invariance`, `TypeCorrect`, `ExclusiveProcessing`, `NoEventLost` | `IInv`, `TypeOK`, `ExclusiveKey`, `NoLostKey` |
| | `RetryLimit` | `RetriesBounded` |
| | `HandoverRefinement` | `WorkQueue` implements `KeyHandover` (its safety) |
| `IngressProofs` | `TypeCorrect`, `NothingOrphaned` | `TypeOK`, `NoOrphans` |
| | `HostsAgreeAtFirst`, `LBHostResolvesAtFirst`, `SpecKeptAtFirst` | `HostsAgree`, `LBHostResolves`, `SpecKept` of an Ingress that was not created anew |
| `DNSRecordProofs` | `TypeCorrect`, `StatusTrue`, `NothingLeft` | `TypeOK`, `SucceededIsServed`, `CleanGone` |
| `MigrationProofs` | `TypeCorrect`, `Drained` | `TypeOK`, `DrainedFirst` |
| `CustomHostsProofs` | `TypeCorrect`, `NoRuleLost`, `NoHostUnverified`, `NoPathLost`, `LabelFits` | `TypeOK`, `UserRulesKept`, `VerifiedOnly`, `PathsServed`, `WithheldLabelled` |
| `RoutesProofs` | `TypeCorrect`, `NoHostUnverified`, `TLSFitsHost`, `ShadowFirst` | `TypeOK`, `VerifiedOnly`, `TLSFits`, `ShadowGoesFirst` |
| `HostsWatcherProofs` | `TypeCorrect` | `TypeOK` |
| | `WatchedOnce`, `StoppedUnlessClashed` | `OneWatcher`; `StoppedForGood` until changes of the slice overlap |
| `HealthChecksProofs` | `TypeCorrect`, `NoIdInvented`, `DeletedStays` | `TypeOK`, `IdsKnown`, `DeletedForGood` |

Why the invariants have to be stronger than what they prove:

- `WorkQueue`: a worker takes the head of the FIFO, so no key may be in the FIFO twice or while
  it is held (`QueueInv`), the processing set is exactly what workers hold (`ProcessingInv`,
  with `HoldInv` tying the stage to the key), and a dirty key is queued or held (`DirtyInv`).
  `RetriesBounded` needs a second invariant (`BudgetInv`), which counts, per key, the attempts
  still possible from its counter and from what is pending.
- `IngressReconciler`: an orphan comes from a pass that outlives what it has read. `FreshInv`
  says what a copy of the latest version knows, `PathInv` which steps a pass over a deleted
  Ingress may be at, `CleanInv` what it has deleted so far, `GoneInv` that no pass over a live
  Ingress is left when the finalizer goes. The host is kept equal over the record, the
  Ingress, the informer's copy and the pass's own (`LBInv`, `HostInv`, `AnnounceInv`), and a
  copy from before the announcement has the clusters that led to it (`StaleInv`), or a pass
  over it would empty the record.
- `DNSRecordController`: between the provider's answer and the save of the status the pass
  carries a claim about the zone (`AttemptInv`); it stays true as a generation once published
  is known to every copy that may still be acted on (`ObservedInv`) and as a deletion takes
  all endpoints or none (`DeletionInv`).
- `Migration`: `unused` and the noted time together make the grace, in every copy of the object
  that may still be saved (`DeletingInv`), and a copy from before the deletion cannot bring the
  cluster back into use.
- `CustomHosts`: the spec and the withheld rules together are the user's, in every Ingress
  whose guess has not turned while there were any (`OwnedInv`); a claim that the domain is
  verified comes from a look-up, in the object, the informer's copy that is changed in place,
  and the pass (`ProvedInv`); what a key at rest has is what a pass over it would save
  (`RestInv`).
- `Routes`: what every version satisfies that a pass may still work on (`VersionInv`), what an
  object at rest has (`RestInv`), and that the pass which lets the Route go deleted its shadow
  and nobody makes another (`ShadowGone`).
- `HostsWatcher`: until there was an overlap, the slice, or what the one pass that is changing it
  is about to write, has exactly the goroutines that go on, and the slice is right for the other
  objects even then (`SliceInv`); a pass has done, of starting one and stopping the others, what
  its step says (`WorkInv`), and left that when it ended (`RestInv`).
- `HealthChecks`: a pass goes through endpoints that its copy has (`TodoInv`); an id may be in
  the spec, the status, the copies, the pass or the zone, and is always that of a check that
  was made (`IdsKnown`).

Assumptions. Bounds and limits are natural numbers (or have at least the value the `ASSUME` of
the module says), and values that stand for "none" are none of the set they are beside:
`NoKey` no key, `Gone` no key or host, `None` and `Invalid` no settings, the generated host no
custom one, the key of the DomainVerification no Ingress. No theorem assumes how many workers
there are. The properties of `CustomHosts` and `HostsWatcher` carry their exceptions in their
own statement: `NoRuleLost` is about Ingresses that never `turned`, `NoHostUnverified`,
`NoPathLost` and `LabelFits` about those at rest that are `Recognised`, `WatchedOnce` and
`StoppedUnlessClashed` about the time before two changes of the slice overlap, which any number of
passes at the same time may or may not bring about. Each exception is a set of states that the code
does reach, shown above, and the theorems say that nothing else goes wrong. The three theorems
*AtFirst* are about `ing.uid <= 1`, since the properties fail for an Ingress that was created
anew (see Fairness); `TypeCorrect` and `NothingOrphaned` are about any number of lives.

What stays with TLC: everything that needs fairness (`EventuallyProcessed`, `EventuallyServed`,
`DeletionCompletes`, `EventuallyPublished`, `SoftReleased`, `EndpointsFollow`,
`EventuallyRestored`, `EventuallyGone`, `EventuallyChecked`, and the fairness in
`ImplementsHandover`), for which the prover has neither `ENABLED` nor the rules, and the three
runs that are violated. No model uses recursion, so nothing here needed induction over data.

## Not modelled

- Metrics, logging, environment and flags decide nothing. Generated clients and deep copies
  are generated.
- Renewals of certificates, whose secret's update handler ignores every event
  (`pkg/reconciler/ingress/controller.go:192`), and Certificates deleted by hand.
- Routes on clusters without advanced scheduling, and the targets of a Route: the code is the
  Ingress's with other fields. In `IngressReconciler` and `Migration` such clusters are left
  out, too, as their syncers write the Ingress's own status: `SpecKept` is about those with it;
  `CustomHosts` has both.
- The upgrade of DNSRecords without a host (`pkg/traffic/dns.go:85-95`), and weights.
- How long a watcher sleeps: the back-off of failing look-ups overflows and is always 0
  (`pkg/_internal/util/math/slice.go:27`, `pkg/dns/host_watcher.go:115`), but no property
  depends on time.
- The removal of syncer finalizers from objects that were deleted.
