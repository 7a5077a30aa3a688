-------------------------- MODULE IngressReconciler --------------------------
(***************************************************************************)
(* One Ingress under the ingress controller: pkg/reconciler/ingress and    *)
(* the DNS, host and certificate reconcilers of pkg/traffic, on a cluster  *)
(* with advanced scheduling (transforms go to annotations).                *)
(*                                                                         *)
(* A pass of process() reads the informer's copy of the Ingress, makes     *)
(* API calls one at a time and writes its copy back in the end; each call  *)
(* is one step, between two of them everything else may move: the user,    *)
(* the syncers, the DNS controller, cert-manager, the informers.  A call   *)
(* may fail, the process may crash.  One pass is in flight at a time, and  *)
(* an event during a pass leads to another: that is what KeyHandover       *)
(* promises.  workload.Migrate and the custom hosts, which are part of the *)
(* pass as well, touch no state kept here.                                 *)
(***************************************************************************)
EXTENDS Naturals

CONSTANTS
  Clusters,    \* the sync targets; a cluster also stands for its load balancer's IP
  MaxRetries,  \* failed passes after which the key is dropped (5 in the code)
  MaxFaults,   \* bound: calls that fail for no reason of the model's
  MaxCrashes,  \* bound: restarts of the process
  MaxLives,    \* bound: times the user creates the Ingress
  MaxMoves     \* bound: times the Ingress leaves a cluster or the user deletes its DNSRecord

ASSUME IngressAssumption ==
  /\ MaxRetries \in Nat /\ MaxFaults \in Nat /\ MaxCrashes \in Nat
  /\ MaxLives \in Nat /\ MaxMoves \in Nat

VARIABLES
  ing,      \* the Ingress on the API server
  cache,    \* of the informer's copy what a pass looks at, and whether it is the latest
  pass,     \* the running pass of process()
  rec,      \* the DNSRecord
  cert,     \* the Certificate in the GLBC workspace
  secrets,  \* the host the TLS secret is for: cert-manager's and the user's copy
  zone,     \* what each host resolves to
  queue,    \* the key's place in the work queue
  events,   \* changes of other objects the informers have not delivered yet
  xid,      \* hosts generated so far
  spent     \* bounded events used up

vars == <<ing, cache, pass, rec, cert, secrets, zone, queue, events, xid, spent>>

\* Every generated host follows a create, a fault, a crash or a removal.
MaxHosts == 2 * MaxLives + MaxFaults + MaxCrashes + MaxMoves
Hosts == 1..MaxHosts
NoHost == 0

Lives == {"none", "live", "deleting", "gone", "lost"}

\* at: clusters whose syncer reported a status; lb, tls: the host in the status and
\* in the TLS transform; kept: the user's spec is untouched.  "lost" is gone before
\* the controller's finalizer was ever saved.  (The annotation with the certificate's
\* state changes together with tls or fin.)
NoIngress == [life |-> "none", uid |-> 0, fin |-> {}, at |-> {}, lb |-> NoHost,
              tls |-> NoHost, kept |-> TRUE]

NoRecord == [exists |-> FALSE, terminating |-> FALSE, fin |-> FALSE, host |-> NoHost,
             eps |-> {}, published |-> FALSE]

NoCert == [exists |-> FALSE, host |-> NoHost, state |-> "none"]

\* deleting, at, lb: what was read of the Ingress (at and lb as long as they matter);
\* fresh, recFresh: the Ingress and the DNSRecord that were read are still the latest
\* versions; setLB, addTLS: the changes to write back beside the finalizers; failed: a
\* reconciler returned an error and Continue.
Idle == [pc |-> "idle", deleting |-> FALSE, at |-> {}, lb |-> NoHost, fresh |-> FALSE,
         host |-> NoHost, recFresh |-> FALSE, eps |-> {}, secret |-> NoHost,
         setLB |-> FALSE, addTLS |-> FALSE, failed |-> FALSE]

Exists(o) == o.life \in {"live", "deleting"}

Copy(o) == [life |-> o.life, at |-> o.at, lb |-> o.lb, fresh |-> TRUE]

\* A write gives the object a new resource version unless it changes nothing.
Write(o) ==
  /\ ing' = o
  /\ cache' = [cache EXCEPT !.fresh = @ /\ o = ing]
WriteOver(p, o) ==
  /\ Write(o)
  /\ pass' = [p EXCEPT !.fresh = @ /\ o = ing]
WriteRecord(p, r) ==
  /\ rec' = r
  /\ events' = IF r = rec THEN events ELSE events \union {"dns"}
  /\ pass' = [p EXCEPT !.recFresh = @ /\ r = rec]

At(pc) == pass.pc = pc
Goto(pc) == [pass EXCEPT !.pc = pc]

Enqueued == [queue EXCEPT !.pending = TRUE]
Later == [queue EXCEPT !.timer = TRUE]

\* A slip: the failures of a key are counted but never limited.
AbortForever ==
  /\ pass' = Idle
  /\ queue' = [Later EXCEPT !.retries = @ + 1]

\* process() returned nil, or an error.
Done == pass' = Idle /\ queue' = [queue EXCEPT !.retries = 0]
Abort ==
  /\ pass' = Idle
  /\ queue' = IF queue.retries < MaxRetries
              THEN [Later EXCEPT !.retries = @ + 1]
              ELSE [queue EXCEPT !.retries = 0]

\* Kubernetes drops an object under deletion with its last finalizer.
Gone(o) == [NoIngress EXCEPT !.uid = o.uid,
                             !.life = IF "cascade" \in o.fin THEN "gone" ELSE "lost"]
Settle(o) == IF o.life = "deleting" /\ o.fin = {} THEN Gone(ing) ELSE o

-----------------------------------------------------------------------------
(* The queue and the informers.                                            *)

Sync ==
  /\ ~cache.fresh
  /\ cache' = Copy(ing)
  /\ queue' = Enqueued
  /\ UNCHANGED <<ing, pass, rec, cert, secrets, zone, events, xid, spent>>

\* The handlers of the other informers look the Ingress up in the cache first.
Deliver(e) ==
  /\ e \in events
  /\ events' = events \ {e}
  /\ queue' = IF Exists(cache) THEN Enqueued ELSE queue
  /\ UNCHANGED <<ing, cache, pass, rec, cert, secrets, zone, xid, spent>>

TimerFires ==
  /\ queue.timer
  /\ queue' = [Enqueued EXCEPT !.timer = FALSE]
  /\ UNCHANGED <<ing, cache, pass, rec, cert, secrets, zone, events, xid, spent>>

Begin ==
  /\ At("idle") /\ queue.pending
  /\ IF Exists(cache)
     THEN /\ pass' = [Idle EXCEPT !.pc = "dns", !.deleting = cache.life = "deleting",
                               !.at = cache.at, !.lb = cache.lb, !.fresh = cache.fresh]
          /\ queue' = [queue EXCEPT !.pending = FALSE]
     ELSE /\ pass' = pass
          /\ queue' = [queue EXCEPT !.pending = FALSE, !.retries = 0]
  /\ UNCHANGED <<ing, cache, rec, cert, secrets, zone, events, xid, spent>>

-----------------------------------------------------------------------------
(* The DNS reconciler.                                                     *)

DeleteDNS ==
  /\ At("dns") /\ pass.deleting
  /\ WriteRecord(Goto("hosts"), IF rec.fin THEN [rec EXCEPT !.terminating = TRUE] ELSE NoRecord)
  /\ UNCHANGED <<ing, cache, cert, secrets, zone, queue, xid, spent>>

\* No DNSRecord yet: a new host is generated for it.
GetDNSNotFound ==
  /\ At("dns") /\ ~pass.deleting /\ ~rec.exists
  /\ xid < MaxHosts
  /\ xid' = xid + 1
  /\ pass' = [pass EXCEPT !.pc = "createDNS", !.host = xid + 1, !.at = {}, !.lb = NoHost]
  /\ UNCHANGED <<ing, cache, rec, cert, secrets, zone, queue, events, spent>>

CreateDNS ==
  /\ At("createDNS")
  /\ rec' = [NoRecord EXCEPT !.exists = TRUE, !.host = pass.host]
  /\ pass' = Goto("hosts")
  /\ UNCHANGED <<ing, cache, cert, secrets, zone, queue, events, xid, spent>>

\* The addresses the statuses lead to; without a cluster's status the Ingress's own
\* one counts, and its host, the generated one, is looked up.
DNSTargets(at, lb) ==
  IF at # {} THEN at ELSE IF lb = NoHost THEN {} ELSE zone[lb]

LooksUp == pass.at = {} /\ pass.lb # NoHost
Unknown == LooksUp /\ zone[pass.lb] = {}

Targets == DNSTargets(pass.at, pass.lb)

\* The DNSRecord is there, and its host becomes the Ingress's.
Found == [pass EXCEPT !.host = rec.host, !.at = {}, !.lb = NoHost]

\* The host is unknown, or the resolver fails: the error is kept for the end.
LookupError ==
  /\ At("dns") /\ ~pass.deleting /\ rec.exists
  /\ LooksUp
  /\ Unknown \/ spent.faults < MaxFaults
  /\ spent' = IF Unknown THEN spent ELSE [spent EXCEPT !.faults = @ + 1]
  /\ pass' = [Found EXCEPT !.pc = "hosts", !.failed = TRUE]
  /\ UNCHANGED <<ing, cache, rec, cert, secrets, zone, queue, events, xid>>

GetDNS ==
  /\ At("dns") /\ ~pass.deleting /\ rec.exists
  /\ ~Unknown

TargetsChanged ==
  /\ GetDNS
  /\ Targets # rec.eps
  /\ pass' = [Found EXCEPT !.pc = "updateDNS", !.recFresh = TRUE,
                         !.eps = Targets]
  /\ UNCHANGED <<ing, cache, rec, cert, secrets, zone, queue, events, xid, spent>>

\* The record needs no update and says it is published: the DNS is about to be served.
ReadyForLBHost == pass.lb = NoHost /\ rec.eps # {} /\ rec.published

TargetsUnchanged ==
  /\ GetDNS
  /\ Targets = rec.eps
  /\ ~ReadyForLBHost
  /\ pass' = [Found EXCEPT !.pc = "hosts"]
  /\ UNCHANGED <<ing, cache, rec, cert, secrets, zone, queue, events, xid, spent>>

\* The name servers of the zone have an address for the host.
foundNameserversOfDomainAndIP(host) == zone[host] # {}

\* A slip: the zone's name servers are not asked.
SetLBHostUnseen ==
  /\ GetDNS
  /\ Targets = rec.eps
  /\ ReadyForLBHost
  /\ pass' = [Found EXCEPT !.pc = "hosts", !.setLB = TRUE]
  /\ UNCHANGED <<ing, cache, rec, cert, secrets, zone, queue, events, xid, spent>>

\* The zone's name servers know the host.
SetLBHost ==
  /\ GetDNS
  /\ Targets = rec.eps
  /\ ReadyForLBHost /\ foundNameserversOfDomainAndIP(rec.host)
  /\ pass' = [Found EXCEPT !.pc = "hosts", !.setLB = TRUE]
  /\ UNCHANGED <<ing, cache, rec, cert, secrets, zone, queue, events, xid, spent>>

\* They do not, or not yet: RequeueIn5Seconds, and the next reconciler.
HostNotServed ==
  /\ GetDNS
  /\ Targets = rec.eps
  /\ ReadyForLBHost
  /\ pass' = [Found EXCEPT !.pc = "hosts"]
  /\ queue' = Later
  /\ UNCHANGED <<ing, cache, rec, cert, secrets, zone, events, xid, spent>>

\* The update is refused if the DNSRecord changed since it was read.
UpdateDNS ==
  /\ At("updateDNS")
  /\ IF pass.recFresh
     THEN /\ WriteRecord([Goto("hosts") EXCEPT !.eps = {}], [rec EXCEPT !.eps = pass.eps])
          /\ UNCHANGED queue
     ELSE Abort /\ UNCHANGED <<rec, events>>
  /\ UNCHANGED <<ing, cache, cert, secrets, zone, xid, spent>>

\* The host reconciler lists the DomainVerifications and wants a generated host.
ListVerifications ==
  /\ At("hosts")
  /\ IF pass.host = NoHost /\ ~pass.deleting
     THEN Abort
     ELSE pass' = Goto(IF pass.deleting THEN "deleteCert" ELSE "cert") /\ UNCHANGED queue
  /\ UNCHANGED <<ing, cache, rec, cert, secrets, zone, events, xid, spent>>

-----------------------------------------------------------------------------
(* The certificate reconciler.                                             *)

\* After the last reconciler: the errors of those that let the pass go on count now.
Conclude(p) ==
  IF p.failed THEN Abort ELSE pass' = [p EXCEPT !.pc = "save"] /\ UNCHANGED queue

\* The Certificate is created for the pass's host, or it exists already.
CreateCertificate ==
  /\ At("cert")
  /\ cert' = IF cert.exists THEN cert ELSE [exists |-> TRUE, host |-> pass.host, state |-> "new"]
  /\ pass' = Goto(IF cert.exists THEN "certSecret" ELSE "tls")
  /\ UNCHANGED <<ing, cache, rec, secrets, zone, queue, events, xid, spent>>

CertificateNotReady ==
  /\ At("certSecret")
  /\ cert.exists /\ cert.state = "pending"
  /\ Conclude(pass)
  /\ UNCHANGED <<ing, cache, rec, cert, secrets, zone, events, xid, spent>>

\* A Certificate that has no condition yet counts as ready.
GetCertificateSecret ==
  /\ At("certSecret")
  /\ cert.exists /\ cert.state # "pending" /\ secrets.source # NoHost
  /\ pass' = [pass EXCEPT !.pc = "copy", !.secret = secrets.source]
  /\ UNCHANGED <<ing, cache, rec, cert, secrets, zone, queue, events, xid, spent>>

NoCertificateSecret ==
  /\ At("certSecret")
  /\ ~cert.exists \/ (cert.state # "pending" /\ secrets.source = NoHost)
  /\ Abort
  /\ UNCHANGED <<ing, cache, rec, cert, secrets, zone, events, xid, spent>>

CopySecret ==
  /\ At("copy")
  /\ secrets' = [secrets EXCEPT !.user = pass.secret]
  /\ pass' = [pass EXCEPT !.pc = "tls", !.secret = NoHost]
  /\ UNCHANGED <<ing, cache, rec, cert, zone, queue, events, xid, spent>>

\* A slip: AddTLS for the host the Certificate names.
AddTLSOfCertificate ==
  /\ At("tls")
  /\ IF secrets.user = NoHost
     THEN Abort
     ELSE Conclude([pass EXCEPT !.addTLS = TRUE, !.host = cert.host])
  /\ UNCHANGED <<ing, cache, rec, cert, secrets, zone, events, xid, spent>>

\* GetSecret, and AddTLS for the pass's host.
AddTLS ==
  /\ At("tls")
  /\ IF secrets.user = NoHost
     THEN Abort
     ELSE Conclude([pass EXCEPT !.addTLS = TRUE])
  /\ UNCHANGED <<ing, cache, rec, cert, secrets, zone, events, xid, spent>>

\* A slip: a Certificate that is gone already ends the clean-up.
DeleteCertificateOnce ==
  /\ At("deleteCert")
  /\ cert' = NoCert
  /\ events' = IF cert.exists THEN events \union {"cert"} ELSE events
  /\ IF cert.exists THEN pass' = Goto("deleteSource") /\ UNCHANGED queue ELSE Conclude(pass)
  /\ UNCHANGED <<ing, cache, rec, secrets, zone, xid, spent>>

\* The Certificate goes; if there is none its secret is not looked for.
DeleteCertificate ==
  /\ At("deleteCert")
  /\ cert' = NoCert
  /\ events' = IF cert.exists THEN events \union {"cert"} ELSE events
  /\ pass' = Goto(IF cert.exists THEN "deleteSource" ELSE "deleteSecret")
  /\ UNCHANGED <<ing, cache, rec, secrets, zone, queue, xid, spent>>

DeleteSource ==
  /\ At("deleteSource")
  /\ secrets' = [secrets EXCEPT !.source = NoHost]
  /\ events' = IF secrets.source = NoHost THEN events ELSE events \union {"secret"}
  /\ pass' = Goto("deleteSecret")
  /\ UNCHANGED <<ing, cache, rec, cert, zone, queue, xid, spent>>

DeleteSecret ==
  /\ At("deleteSecret")
  /\ secrets' = [secrets EXCEPT !.user = NoHost]
  /\ Conclude(pass)
  /\ UNCHANGED <<ing, cache, rec, cert, zone, events, xid, spent>>

-----------------------------------------------------------------------------
(* The end of process(), and what may go wrong at any call.                *)

\* A slip: the Ingress's own status does not count.
TMCReported(at, lb, host) == at # {} \/ lb = NoHost

\* With no cluster's status the Ingress is taken for one with advanced scheduling
\* as long as its own status holds nothing or the generated host.
TMCEnabled(at, lb, host) == at # {} \/ lb \in {NoHost, host}

\* A slip: the syncers' finalizers are left to the syncers.
SyncersKept == IF pass.deleting THEN ing.fin \ {"cascade"} ELSE ing.fin \union {"cascade"}

\* The cascade finalizer is there, or under deletion all finalizers go.
Finalizers == IF pass.deleting THEN {} ELSE ing.fin \union {"cascade"}

\* What the pass makes of the Ingress it read: Transform starts from no TLS and gives
\* the spec back unless the Ingress is not TMCEnabled.
Changed ==
  [ing EXCEPT
     !.fin = Finalizers,
     !.tls = IF pass.addTLS THEN pass.host ELSE NoHost,
     !.kept = @ /\ TMCEnabled(ing.at, IF pass.setLB THEN pass.host ELSE ing.lb, pass.host)]

\* Update ignores the status; it is refused if the Ingress is not the one read.
Save ==
  /\ At("save")
  /\ IF pass.fresh
     THEN IF pass.setLB
          THEN WriteOver(Goto("status"), Changed) /\ UNCHANGED queue
          ELSE Write(Settle(Changed)) /\ Done
     ELSE Abort /\ UNCHANGED <<ing, cache>>
  /\ UNCHANGED <<rec, cert, secrets, zone, events, xid, spent>>

\* UpdateStatus sends the resource version read in the beginning: it is refused if
\* Update has just changed the Ingress.
SaveStatus ==
  /\ At("status")
  /\ IF pass.fresh
     THEN Write([ing EXCEPT !.lb = pass.host]) /\ Done
     ELSE Abort /\ UNCHANGED <<ing, cache>>
  /\ UNCHANGED <<rec, cert, secrets, zone, events, xid, spent>>

\* The calls whose error ends the pass, and those after which it goes on.
Fault ==
  /\ ~At("idle")
  /\ spent.faults < MaxFaults
  /\ spent' = [spent EXCEPT !.faults = @ + 1]
  /\ CASE At("createDNS") \/ At("hosts") ->
            /\ pass' = [pass EXCEPT !.failed = TRUE,
                                    !.pc = IF At("createDNS") THEN "hosts"
                                           ELSE IF pass.deleting THEN "deleteCert" ELSE "cert"]
            /\ UNCHANGED queue
       [] OTHER -> Abort
  /\ UNCHANGED <<ing, cache, rec, cert, secrets, zone, events, xid>>

\* The process restarts: the queue is empty, the informers list everything anew.
Crash ==
  /\ spent.crashes < MaxCrashes
  /\ spent' = [spent EXCEPT !.crashes = @ + 1]
  /\ pass' = Idle
  /\ cache' = Copy(ing)
  /\ queue' = [pending |-> TRUE, timer |-> FALSE, retries |-> 0]
  /\ events' = {}
  /\ UNCHANGED <<ing, rec, cert, secrets, zone, xid>>

-----------------------------------------------------------------------------
(* The user and the syncers.                                               *)

UserCreates ==
  /\ ~Exists(ing) /\ ing.uid < MaxLives
  /\ WriteOver(pass, [NoIngress EXCEPT !.life = "live", !.uid = ing.uid + 1])
  /\ UNCHANGED <<rec, cert, secrets, zone, queue, events, xid, spent>>

UserDeletes ==
  /\ ing.life = "live"
  /\ WriteOver(pass, Settle([ing EXCEPT !.life = "deleting"]))
  /\ UNCHANGED <<rec, cert, secrets, zone, queue, events, xid, spent>>

UserRemovesDNSRecord ==
  /\ rec.exists /\ ~rec.terminating
  /\ spent.moves + spent.removals < MaxMoves
  /\ spent' = [spent EXCEPT !.removals = @ + 1]
  /\ WriteRecord(pass, IF rec.fin THEN [rec EXCEPT !.terminating = TRUE] ELSE NoRecord)
  /\ UNCHANGED <<ing, cache, cert, secrets, zone, queue, xid>>

\* A syncer puts its finalizer on the Ingress and reports the cluster's status.
Report(c) ==
  /\ ing.life = "live" /\ c \notin ing.at
  /\ WriteOver(pass, [ing EXCEPT !.at = @ \union {c}, !.fin = @ \union {"syncer"}])
  /\ UNCHANGED <<rec, cert, secrets, zone, queue, events, xid, spent>>

\* The Ingress has left the cluster and its status goes with it.
Withdraw(c) ==
  /\ Exists(ing) /\ c \in ing.at
  /\ spent.moves + spent.removals < MaxMoves
  /\ spent' = [spent EXCEPT !.moves = @ + 1]
  /\ WriteOver(pass, [ing EXCEPT !.at = @ \ {c}])
  /\ UNCHANGED <<rec, cert, secrets, zone, queue, events, xid>>

SyncerFinishes ==
  /\ ing.life = "deleting" /\ "syncer" \in ing.fin
  /\ WriteOver(pass, Settle([ing EXCEPT !.fin = @ \ {"syncer"}]))
  /\ UNCHANGED <<rec, cert, secrets, zone, queue, events, xid, spent>>

-----------------------------------------------------------------------------
(* The DNS controller and cert-manager, as far as this controller sees.    *)

\* The finalizer is saved with the first publication.
Publish ==
  /\ rec.exists /\ ~rec.terminating
  /\ ~rec.published \/ zone[rec.host] # rec.eps \/ ~rec.fin
  /\ zone' = [zone EXCEPT ![rec.host] = rec.eps]
  /\ WriteRecord(pass, [rec EXCEPT !.published = TRUE, !.fin = TRUE])
  /\ UNCHANGED <<ing, cache, cert, secrets, queue, xid, spent>>

\* A terminating record leaves the zone and goes.
Unpublish ==
  /\ rec.terminating
  /\ zone' = IF rec.published THEN [zone EXCEPT ![rec.host] = {}] ELSE zone
  /\ WriteRecord(pass, NoRecord)
  /\ UNCHANGED <<ing, cache, cert, secrets, queue, xid, spent>>

CertPending ==
  /\ cert.state = "new"
  /\ cert' = [cert EXCEPT !.state = "pending"]
  /\ UNCHANGED <<ing, cache, pass, rec, secrets, zone, queue, events, xid, spent>>

\* The secret is written before the Certificate turns ready.
CertSecretWritten ==
  /\ cert.state = "pending" /\ secrets.source # cert.host
  /\ secrets' = [secrets EXCEPT !.source = cert.host]
  /\ events' = IF secrets.source = NoHost THEN events \union {"secret"} ELSE events
  /\ UNCHANGED <<ing, cache, pass, rec, cert, zone, queue, xid, spent>>

\* A slip: nobody watches the Certificate's condition.
CertReadyUnseen ==
  /\ cert.state = "pending" /\ secrets.source = cert.host
  /\ cert' = [cert EXCEPT !.state = "ready"]
  /\ UNCHANGED <<ing, cache, pass, rec, secrets, zone, queue, events, xid, spent>>

CertReady ==
  /\ cert.state = "pending" /\ secrets.source = cert.host
  /\ cert' = [cert EXCEPT !.state = "ready"]
  /\ events' = events \union {"cert"}
  /\ UNCHANGED <<ing, cache, pass, rec, secrets, zone, queue, xid, spent>>

-----------------------------------------------------------------------------
Init ==
  /\ ing = NoIngress /\ cache = Copy(NoIngress)
  /\ pass = Idle
  /\ rec = NoRecord /\ cert = NoCert
  /\ secrets = [source |-> NoHost, user |-> NoHost]
  /\ zone = [h \in Hosts |-> {}]
  /\ queue = [pending |-> FALSE, timer |-> FALSE, retries |-> 0]
  /\ events = {}
  /\ xid = 0
  /\ spent = [faults |-> 0, crashes |-> 0, removals |-> 0, moves |-> 0]

DNSStep ==
  \/ DeleteDNS \/ GetDNSNotFound \/ CreateDNS \/ LookupError \/ TargetsChanged
  \/ TargetsUnchanged \/ SetLBHost \/ HostNotServed \/ UpdateDNS \/ ListVerifications

CertStep ==
  \/ CreateCertificate \/ CertificateNotReady \/ GetCertificateSecret
  \/ NoCertificateSecret \/ CopySecret \/ AddTLS
  \/ DeleteCertificate \/ DeleteSource \/ DeleteSecret

Step == Begin \/ DNSStep \/ CertStep \/ Save \/ SaveStatus

Informers == Sync \/ TimerFires \/ \E e \in {"dns", "cert", "secret"} : Deliver(e)

User == UserCreates \/ UserDeletes \/ UserRemovesDNSRecord

Syncers == SyncerFinishes \/ \E c \in Clusters : Report(c) \/ Withdraw(c)

Others == Publish \/ Unpublish \/ CertPending \/ CertSecretWritten \/ CertReady

Next == Step \/ Fault \/ Crash \/ Informers \/ User \/ Syncers \/ Others

\* The worker, the informers, the timers, the DNS controller and cert-manager do
\* their work in the end; a name server that knows the host says so when asked
\* again and again.  Users and syncers owe nothing, faults are not fair.
Fairness ==
  /\ WF_vars(Step) /\ SF_vars(SetLBHost)
  /\ WF_vars(Sync) /\ WF_vars(TimerFires)
  /\ \A e \in {"dns", "cert", "secret"} : WF_vars(Deliver(e))
  /\ WF_vars(Publish) /\ WF_vars(Unpublish)
  /\ WF_vars(CertPending) /\ WF_vars(CertSecretWritten) /\ WF_vars(CertReady)

Spec == Init /\ [][Next]_vars /\ Fairness

-----------------------------------------------------------------------------
(* Properties.                                                             *)

Steps == {"idle", "dns", "createDNS", "updateDNS", "hosts", "cert", "certSecret", "copy",
          "tls", "deleteCert", "deleteSource", "deleteSecret", "save", "status"}

AnyHost == Hosts \union {NoHost}

Ingresses ==
  [life : Lives, uid : 0..MaxLives, fin : SUBSET {"cascade", "syncer"},
   at : SUBSET Clusters, lb : AnyHost, tls : AnyHost, kept : BOOLEAN]

Records ==
  [exists : BOOLEAN, terminating : BOOLEAN, fin : BOOLEAN, host : AnyHost,
   eps : SUBSET Clusters, published : BOOLEAN]

Certificates ==
  [exists : BOOLEAN, host : AnyHost, state : {"none", "new", "pending", "ready"}]

Passes ==
  [pc : Steps, deleting : BOOLEAN, at : SUBSET Clusters, lb : AnyHost, fresh : BOOLEAN,
   host : AnyHost, recFresh : BOOLEAN, eps : SUBSET Clusters, secret : AnyHost,
   setLB : BOOLEAN, addTLS : BOOLEAN, failed : BOOLEAN]

\* The type invariant of the Ingress, its pass and the objects it leads to.
TypeOK ==
  /\ ing \in Ingresses
  /\ cache \in [life : Lives, at : SUBSET Clusters, lb : AnyHost, fresh : BOOLEAN]
  /\ pass \in Passes
  /\ rec \in Records
  /\ cert \in Certificates
  /\ secrets \in [source : AnyHost, user : AnyHost]
  /\ zone \in [Hosts -> SUBSET Clusters]
  /\ queue \in [pending : BOOLEAN, timer : BOOLEAN, retries : 0..MaxRetries]
  /\ events \subseteq {"dns", "cert", "secret"}
  /\ xid \in 0..MaxHosts
  /\ spent \in [faults : 0..MaxFaults, crashes : 0..MaxCrashes,
               removals : 0..MaxMoves, moves : 0..MaxMoves]

\* The user has not deleted the DNSRecord by hand.
RecordKept == spent.removals = 0

\* An Ingress the controller had put its finalizer on is gone only after its DNSRecord
\* is being deleted and its Certificate and the user's copy of the secret are gone,
\* and nothing is created for it any more, even if the user has deleted the record
\* meanwhile (ingress_reconciler.go:73-84).
NoOrphans ==
  ing.life = "gone" =>
    /\ rec.exists => rec.terminating
    /\ ~cert.exists
    /\ secrets.user = NoHost

\* The host in the status and the one in the TLS transform are the DNSRecord's: all
\* three are written by different calls of different passes (dns.go:96, 171, tls.go:236).
HostsAgree ==
  ing.life = "live" /\ rec.exists /\ RecordKept =>
    /\ ing.lb \in {NoHost, rec.host}
    /\ ing.tls \in {NoHost, rec.host}

\* Once the Ingress's status names the generated host, the host resolves: it is never
\* announced too early and never emptied later (dns.go:136-140, 165-176).
LBHostResolves ==
  ing.life = "live" /\ ing.lb # NoHost /\ RecordKept => zone[ing.lb] # {}

\* The user's spec is never overwritten on a cluster with advanced scheduling, even
\* while no cluster reports a status (ingress.go:64-80, 186-194).
SpecKept == ing.life = "live" /\ RecordKept => ing.kept

Served ==
  /\ rec.exists /\ ing.lb = rec.host /\ ing.tls = rec.host
  /\ rec.eps = ing.at /\ zone[rec.host] = ing.at

\* An Ingress whose clusters have settled is served in the end: its host is announced,
\* resolves to these clusters and has its TLS secret (controller.go:288-332).
EventuallyServed ==
  \A S \in SUBSET Clusters \ {{}} :
    <>[](ing.life = "live" /\ ing.at = S /\ RecordKept) => <>[]Served

\* The deletion of an Ingress completes (ingress_reconciler.go:73-84).
DeletionCompletes == ing.life = "deleting" ~> ~Exists(ing)

\* "delete the certificate and delete the secrets" (cert_manager.go:163): no TLS secret
\* of a cleaned up Ingress stays in the GLBC workspace.
SecretsDeleted == ing.life = "gone" => secrets.source = NoHost

=============================================================================
