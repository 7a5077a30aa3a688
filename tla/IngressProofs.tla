---------------------------- MODULE IngressProofs ----------------------------
(***************************************************************************)
(* Proofs about IngressReconciler, for every set of clusters and every     *)
(* number of retries, faults, restarts, lives and moves: type correctness  *)
(* and that nothing is left of an Ingress that is gone; and, as long as    *)
(* the Ingress has not been created anew, that the hosts agree, that the   *)
(* announced host resolves and that the user's spec is kept.               *)
(***************************************************************************)
EXTENDS IngressReconciler, TLAPS

Caches == [life : Lives, at : SUBSET Clusters, lb : AnyHost, fresh : BOOLEAN]
Secrets == [source : AnyHost, user : AnyHost]
Queues == [pending : BOOLEAN, timer : BOOLEAN, retries : 0..MaxRetries]
Spents == [faults : 0..MaxFaults, crashes : 0..MaxCrashes,
           removals : 0..MaxMoves, moves : 0..MaxMoves]

Active == ~At("idle")

\* Where a pass over a live Ingress and one over a deleted Ingress may be.
LiveSteps ==
  {"dns", "createDNS", "updateDNS", "hosts", "cert", "certSecret", "copy", "tls", "save", "status"}
CleanSteps == {"dns", "hosts", "deleteCert", "deleteSource", "deleteSecret", "save"}

\* A copy that is the latest knows the Ingress, and the pass's is one that the informer has.
FreshInv ==
  /\ cache.fresh => cache.life = ing.life /\ cache.at = ing.at /\ cache.lb = ing.lb
  /\ pass.fresh => Active /\ cache.fresh /\ (pass.deleting <=> ing.life = "deleting")

\* A pass over a deleted Ingress creates nothing, and one that ends well has not failed.
PathInv ==
  /\ pass.deleting => pass.pc \in CleanSteps /\ ~pass.setLB /\ ~pass.addTLS
  /\ Active /\ ~pass.deleting => pass.pc \in LiveSteps
  /\ pass.pc \in {"idle", "dns", "createDNS", "updateDNS"} => ~pass.setLB
  /\ pass.pc \in {"dns", "createDNS", "save", "status"} => ~pass.failed
  /\ At("status") => pass.setLB

\* The record of a pass that is about to create one is not there yet.
RecordInv ==
  /\ rec.exists => rec.host \in Hosts
  /\ At("createDNS") => ~rec.exists /\ pass.host \in Hosts

\* What the passes over a deleted Ingress have cleaned up so far stays away.
CleanInv ==
  pass.deleting =>
    /\ ~At("dns") => (rec.exists => rec.terminating)
    /\ pass.pc \in {"deleteSource", "deleteSecret", "save"} => ~cert.exists
    /\ At("save") => secrets.user = NoHost

\* No pass over a live Ingress is left, and none will begin.
GoneInv ==
  ing.life = "gone" =>
    /\ cache.life \in {"deleting", "gone"}
    /\ Active => pass.deleting

\* Before the Ingress is created for the first time there is nothing.
PristineInv ==
  /\ ing.uid = 0 => /\ ing.life = "none" /\ cache.life = "none" /\ cache.lb = NoHost
                    /\ ing.lb = NoHost /\ ing.tls = NoHost
                    /\ ~Active /\ ~rec.exists /\ ~rec.terminating
  /\ ing.life = "none" => ing.uid = 0

\* The Ingress as it was created first, with a DNSRecord nobody has deleted.
FirstLife == ing.life = "live" /\ ing.uid <= 1 /\ RecordKept

\* Neither the informer nor the pass has seen a deletion.
AliveInv ==
  FirstLife => cache.life \in {"none", "live"} /\ ~pass.deleting /\ ~rec.terminating

\* What the status announces and the TLS transform names is the record's host, in the
\* Ingress, in the informer's copy and in what a pass read of it.
LBInv ==
  FirstLife =>
    /\ ing.lb # NoHost => /\ rec.exists /\ ing.lb = rec.host
                          /\ rec.eps # {} /\ zone[rec.host] # {}
    /\ ing.tls # NoHost => rec.exists /\ ing.tls = rec.host
    /\ cache.lb # NoHost => ing.lb = cache.lb
    /\ At("dns") /\ pass.lb # NoHost => ing.lb = pass.lb

\* A copy from before the announcement has the clusters that led to it: a pass over it
\* does not empty the record.
StaleInv ==
  FirstLife /\ ing.lb # NoHost =>
    /\ cache.lb = NoHost => cache.at # {}
    /\ At("dns") /\ pass.lb = NoHost => pass.at # {}
    /\ At("updateDNS") => pass.eps # {}

\* The pass works with the record's host unless it has failed.
HostInv ==
  FirstLife =>
    /\ At("updateDNS") => rec.exists /\ pass.host = rec.host
    /\ pass.pc \in LiveSteps \ {"dns", "createDNS", "updateDNS"} /\ ~pass.failed =>
         rec.exists /\ pass.host = rec.host

\* What a pass has found before it announces the host is still so when it does.
AnnounceInv ==
  FirstLife /\ pass.setLB =>
    /\ rec.exists /\ pass.host = rec.host
    /\ rec.eps # {} /\ zone[rec.host] # {}
    /\ pass.fresh => ing.at # {} /\ cache.at # {}

ReadInv == At("dns") /\ pass.fresh => pass.at = ing.at /\ pass.lb = ing.lb

KeptInv == FirstLife => ing.kept

IInv ==
  /\ TypeOK
  /\ FreshInv /\ ReadInv /\ PathInv /\ RecordInv
  /\ CleanInv /\ GoneInv /\ NoOrphans
  /\ PristineInv /\ AliveInv /\ LBInv /\ StaleInv /\ HostInv /\ AnnounceInv /\ KeptInv

\* The pass works on what another one did, at its own place.
SameWork(p, q) ==
  /\ p.deleting = q.deleting /\ p.at = q.at /\ p.lb = q.lb /\ p.host = q.host
  /\ p.eps = q.eps /\ p.setLB = q.setLB /\ p.addTLS = q.addTLS /\ p.failed = q.failed

-----------------------------------------------------------------------------
(* What the pieces that actions are made of do to the variables, field by  *)
(* field.                                                                  *)

\* A host is a number, and no host is none of them.
LEMMA HostsAreNumbers ==
  /\ MaxHosts \in Nat
  /\ NoHost \notin Hosts /\ NoHost \in AnyHost
  /\ \A h \in AnyHost : h # NoHost => h \in Hosts
  BY IngressAssumption DEF MaxHosts, Hosts, NoHost, AnyHost

\* The objects that are not there, and the pass that is none.
LEMMA Nothing ==
  /\ Idle \in Passes
  /\ Idle.pc = "idle" /\ ~Idle.deleting /\ ~Idle.fresh
  /\ ~Idle.setLB /\ ~Idle.addTLS /\ ~Idle.failed
  /\ NoRecord \in Records /\ ~NoRecord.exists /\ ~NoRecord.terminating
  /\ NoCert \in Certificates /\ ~NoCert.exists
<1>1. NoHost \in AnyHost /\ "idle" \in Steps
  BY HostsAreNumbers DEF Steps
<1> QED
  BY <1>1 DEF Idle, Passes, NoRecord, Records, NoCert, Certificates

LEMMA AbortEffect ==
  ASSUME TypeOK, Abort
  PROVE  /\ pass' = Idle
         /\ queue' \in Queues
<1>1. /\ 0 \in 0..MaxRetries
      /\ queue.retries < MaxRetries => queue.retries + 1 \in 0..MaxRetries
  BY IngressAssumption DEF TypeOK
<1> QED
  BY <1>1, Zenon DEF TypeOK, Abort, Later, Queues

LEMMA DoneEffect ==
  ASSUME TypeOK, Done
  PROVE  /\ pass' = Idle
         /\ queue' \in Queues
<1>1. 0 \in 0..MaxRetries
  BY IngressAssumption
<1> QED
  BY <1>1, Zenon DEF TypeOK, Done, Queues

LEMMA QueueTyped ==
  ASSUME TypeOK
  PROVE  /\ queue \in Queues
         /\ Enqueued \in Queues
         /\ Later \in Queues
         /\ [Enqueued EXCEPT !.timer = FALSE] \in Queues
  BY Zenon DEF TypeOK, Enqueued, Later, Queues

LEMMA GotoEffect ==
  ASSUME TypeOK, NEW pc \in Steps
  PROVE  /\ Goto(pc) \in Passes
         /\ Goto(pc).pc = pc /\ SameWork(Goto(pc), pass)
         /\ Goto(pc).fresh = pass.fresh
  BY Zenon DEF TypeOK, Goto, SameWork, Passes

\* The last reconciler hands over to the writes, unless one has failed.
LEMMA ConcludeEffect ==
  ASSUME TypeOK, NEW p \in Passes, Conclude(p)
  PROVE  \/ p.failed /\ pass' = Idle /\ queue' \in Queues
         \/ /\ ~p.failed /\ pass' \in Passes /\ pass'.pc = "save"
            /\ SameWork(pass', p) /\ pass'.fresh = p.fresh
            /\ queue' \in Queues /\ queue' = queue
<1>1. CASE p.failed
  BY <1>1, AbortEffect DEF Conclude
<1>2. CASE ~p.failed
  <2>1. pass' = [p EXCEPT !.pc = "save"] /\ queue' = queue
    BY <1>2 DEF Conclude
  <2>2. "save" \in Steps
    BY DEF Steps
  <2>3. pass' \in Passes /\ pass'.pc = "save" /\ SameWork(pass', p) /\ pass'.fresh = p.fresh
    BY <2>1, <2>2, Zenon DEF Passes, SameWork
  <2> QED
    BY <1>2, <2>1, <2>3, QueueTyped
<1> QED
  BY <1>1, <1>2

\* The writes of the DNSRecord.
LEMMA RecordEffect ==
  ASSUME TypeOK, NEW p \in Passes, NEW r \in Records, WriteRecord(p, r)
  PROVE  /\ rec' = r
         /\ events' \subseteq {"dns", "cert", "secret"}
         /\ pass' \in Passes /\ pass'.pc = p.pc
         /\ SameWork(pass', p) /\ pass'.fresh = p.fresh
<1>1. rec' = r /\ events' \subseteq {"dns", "cert", "secret"}
  BY DEF TypeOK, WriteRecord
<1>2. /\ pass' \in Passes /\ pass'.pc = p.pc
      /\ SameWork(pass', p) /\ pass'.fresh = p.fresh
  BY Zenon DEF WriteRecord, Passes, SameWork
<1> QED
  BY <1>1, <1>2

Deleted == IF rec.fin THEN [rec EXCEPT !.terminating = TRUE] ELSE NoRecord

LEMMA RecordWrites ==
  ASSUME TypeOK
  PROVE  /\ Deleted \in Records
         /\ Deleted.exists => Deleted.terminating /\ rec.exists /\ Deleted.host = rec.host
         /\ \A S \in SUBSET Clusters :
              LET new == [rec EXCEPT !.eps = S]
              IN  /\ new \in Records /\ new.eps = S /\ new.exists = rec.exists
                  /\ new.terminating = rec.terminating /\ new.host = rec.host
         /\ LET new == [rec EXCEPT !.published = TRUE, !.fin = TRUE]
            IN  /\ new \in Records /\ new.eps = rec.eps /\ new.exists = rec.exists
                /\ new.terminating = rec.terminating /\ new.host = rec.host
         /\ LET new == [NoRecord EXCEPT !.exists = TRUE, !.host = pass.host]
            IN  /\ new \in Records /\ new.exists /\ ~new.terminating /\ new.host = pass.host
<1>1. /\ Deleted \in Records
      /\ Deleted.exists => Deleted.terminating /\ rec.exists /\ Deleted.host = rec.host
  <2>1. CASE rec.fin
    BY <2>1, Zenon DEF TypeOK, Deleted, Records
  <2>2. CASE ~rec.fin
    BY <2>2, Nothing DEF Deleted
  <2> QED
    BY <2>1, <2>2
<1>2. ASSUME NEW S \in SUBSET Clusters
      PROVE  LET new == [rec EXCEPT !.eps = S]
             IN  /\ new \in Records /\ new.eps = S /\ new.exists = rec.exists
                 /\ new.terminating = rec.terminating /\ new.host = rec.host
  BY Zenon DEF TypeOK, Records
<1>3. LET new == [rec EXCEPT !.published = TRUE, !.fin = TRUE]
      IN  /\ new \in Records /\ new.eps = rec.eps /\ new.exists = rec.exists
          /\ new.terminating = rec.terminating /\ new.host = rec.host
  BY Zenon DEF TypeOK, Records
<1>4. LET new == [NoRecord EXCEPT !.exists = TRUE, !.host = pass.host]
      IN  /\ new \in Records /\ new.exists /\ ~new.terminating /\ new.host = pass.host
  <2>1. pass.host \in AnyHost
    BY DEF TypeOK, Passes
  <2> QED
    BY <2>1, Nothing, Zenon DEF NoRecord, Records
<1> QED
  BY <1>1, <1>2, <1>3, <1>4

\* The writes of the Ingress.
LEMMA WriteEffect ==
  ASSUME TypeOK, NEW o \in Ingresses, Write(o)
  PROVE  /\ ing' = o
         /\ cache' \in Caches
         /\ cache'.life = cache.life /\ cache'.at = cache.at /\ cache'.lb = cache.lb
         /\ cache'.fresh <=> cache.fresh /\ o = ing
  BY Zenon DEF TypeOK, Write, Caches

LEMMA WriteOverEffect ==
  ASSUME TypeOK, NEW p \in Passes, NEW o \in Ingresses, WriteOver(p, o)
  PROVE  /\ Write(o)
         /\ pass' \in Passes /\ pass'.pc = p.pc
         /\ SameWork(pass', p)
         /\ pass'.fresh <=> p.fresh /\ o = ing
<1>1. Write(o)
  BY DEF WriteOver
<1>2. /\ pass' \in Passes /\ pass'.pc = p.pc
      /\ pass'.fresh <=> p.fresh /\ o = ing
  BY Zenon DEF WriteOver, Passes
<1>3. SameWork(pass', p)
  BY Zenon DEF WriteOver, Passes, SameWork
<1> QED
  BY <1>1, <1>2, <1>3

\* An Ingress settles as it is, or it is gone with its last finalizer.
LEMMA SettleEffect ==
  ASSUME TypeOK, NEW o \in Ingresses
  PROVE  /\ Settle(o) \in Ingresses
         /\ \/ Settle(o) = o
            \/ /\ o.life = "deleting" /\ o.fin = {}
               /\ Settle(o).uid = ing.uid
               /\ Settle(o).life = IF "cascade" \in ing.fin THEN "gone" ELSE "lost"
<1> DEFINE l == IF "cascade" \in ing.fin THEN "gone" ELSE "lost"
<1>1. NoIngress \in Ingresses
  BY HostsAreNumbers, IngressAssumption DEF NoIngress, Ingresses, Lives
<1>2. l \in Lives /\ ing.uid \in 0..MaxLives
  BY DEF Lives, TypeOK, Ingresses
<1>3. Gone(ing) = [NoIngress EXCEPT !.uid = ing.uid, !.life = l]
  BY DEF Gone
<1> HIDE DEF l
<1>4. Gone(ing) \in Ingresses /\ Gone(ing).uid = ing.uid /\ Gone(ing).life = l
  BY <1>1, <1>2, <1>3, Zenon DEF NoIngress, Ingresses
<1>5. l = IF "cascade" \in ing.fin THEN "gone" ELSE "lost"
  BY DEF l
<1> QED
  BY <1>4, <1>5 DEF Settle

LEMMA NewIngress ==
  ASSUME TypeOK, NEW uid \in 0..MaxLives
  PROVE  LET new == [NoIngress EXCEPT !.life = "live", !.uid = uid]
         IN  /\ new \in Ingresses /\ new.life = "live" /\ new.uid = uid
             /\ new.lb = NoHost /\ new.tls = NoHost /\ new.kept
<1>1. "live" \in Lives /\ NoHost \in AnyHost
  BY HostsAreNumbers DEF Lives
<1> QED
  BY <1>1, Zenon DEF NoIngress, Ingresses

\* What the passes save.
LEMMA SavedEffect ==
  ASSUME TypeOK
  PROVE  /\ Changed \in Ingresses
         /\ Changed.life = ing.life /\ Changed.uid = ing.uid
         /\ Changed.at = ing.at /\ Changed.lb = ing.lb
         /\ Changed.fin = Finalizers
         /\ Changed.tls = IF pass.addTLS THEN pass.host ELSE NoHost
         /\ Changed.kept <=> /\ ing.kept
                             /\ TMCEnabled(ing.at, IF pass.setLB THEN pass.host ELSE ing.lb,
                                           pass.host)
<1> DEFINE t == IF pass.addTLS THEN pass.host ELSE NoHost
           k == TMCEnabled(ing.at, IF pass.setLB THEN pass.host ELSE ing.lb, pass.host)
<1>1. /\ ing \in Ingresses /\ pass.host \in AnyHost
      /\ ing.fin \in SUBSET {"cascade", "syncer"}
  BY DEF TypeOK, Passes, Ingresses
<1>2. /\ Finalizers \in SUBSET {"cascade", "syncer"}
      /\ t \in AnyHost /\ k \in BOOLEAN
  BY <1>1, HostsAreNumbers DEF Finalizers, TMCEnabled
<1>3. Changed = [ing EXCEPT !.fin = Finalizers, !.tls = t, !.kept = @ /\ k]
  BY DEF Changed
<1> HIDE DEF t, k
<1>4. /\ Changed \in Ingresses
      /\ Changed.life = ing.life /\ Changed.uid = ing.uid
      /\ Changed.at = ing.at /\ Changed.lb = ing.lb
      /\ Changed.fin = Finalizers /\ Changed.tls = t
      /\ Changed.kept <=> ing.kept /\ k
  BY <1>1, <1>2, <1>3, Zenon DEF Ingresses
<1> QED
  BY <1>4 DEF t, k

LEMMA IngressWrites ==
  ASSUME TypeOK
  PROVE  /\ LET new == [ing EXCEPT !.life = "deleting"]
            IN  /\ new \in Ingresses /\ new.life = "deleting" /\ new.uid = ing.uid
                /\ new.fin = ing.fin
         /\ \A fin \in SUBSET {"cascade", "syncer"} :
              LET new == [ing EXCEPT !.fin = fin]
              IN  /\ new \in Ingresses /\ new.life = ing.life /\ new.uid = ing.uid
                  /\ new.fin = fin
         /\ \A at \in SUBSET Clusters :
              LET new == [ing EXCEPT !.at = at]
              IN  /\ new \in Ingresses /\ new.life = ing.life /\ new.uid = ing.uid
                  /\ new.at = at /\ new.lb = ing.lb /\ new.tls = ing.tls /\ new.kept = ing.kept
         /\ \A lb \in AnyHost :
              LET new == [ing EXCEPT !.lb = lb]
              IN  /\ new \in Ingresses /\ new.life = ing.life /\ new.uid = ing.uid
                  /\ new.lb = lb /\ new.at = ing.at /\ new.tls = ing.tls /\ new.kept = ing.kept
<1> USE Zenon DEF TypeOK, Ingresses
<1>1. "deleting" \in Lives
  BY DEF Lives
<1>2. LET new == [ing EXCEPT !.life = "deleting"]
      IN  /\ new \in Ingresses /\ new.life = "deleting" /\ new.uid = ing.uid
          /\ new.fin = ing.fin
  BY <1>1
<1>3. ASSUME NEW fin \in SUBSET {"cascade", "syncer"}
      PROVE  LET new == [ing EXCEPT !.fin = fin]
             IN  /\ new \in Ingresses /\ new.life = ing.life /\ new.uid = ing.uid
                 /\ new.fin = fin
  OBVIOUS
<1>4. ASSUME NEW at \in SUBSET Clusters
      PROVE  LET new == [ing EXCEPT !.at = at]
             IN  /\ new \in Ingresses /\ new.life = ing.life /\ new.uid = ing.uid
                 /\ new.at = at /\ new.lb = ing.lb /\ new.tls = ing.tls /\ new.kept = ing.kept
  OBVIOUS
<1>5. ASSUME NEW lb \in AnyHost
      PROVE  LET new == [ing EXCEPT !.lb = lb]
             IN  /\ new \in Ingresses /\ new.life = ing.life /\ new.uid = ing.uid
                 /\ new.lb = lb /\ new.at = ing.at /\ new.tls = ing.tls /\ new.kept = ing.kept
  OBVIOUS
<1> QED
  BY <1>2, <1>3, <1>4, <1>5

-----------------------------------------------------------------------------
(* What the steps of a pass do.                                            *)

LEMMA BeginEffect ==
  ASSUME TypeOK, Begin
  PROVE  /\ At("idle") /\ queue' \in Queues
         /\ UNCHANGED <<ing, cache, rec, cert, secrets, zone, events, xid, spent>>
         /\ \/ pass' = pass
            \/ /\ Exists(cache)
               /\ pass' \in Passes /\ pass'.pc = "dns"
               /\ pass'.deleting <=> cache.life = "deleting"
               /\ pass'.at = cache.at /\ pass'.lb = cache.lb /\ pass'.fresh = cache.fresh
               /\ ~pass'.setLB /\ ~pass'.addTLS /\ ~pass'.failed
<1>1. /\ At("idle")
      /\ UNCHANGED <<ing, cache, rec, cert, secrets, zone, events, xid, spent>>
  BY Zenon DEF Begin
<1>2. 0 \in 0..MaxRetries /\ "dns" \in Steps
  BY IngressAssumption DEF Steps
<1>3. queue' \in Queues
  BY <1>2, Zenon DEF TypeOK, Begin, Queues
<1>4. CASE ~Exists(cache)
  BY <1>1, <1>3, <1>4, Zenon DEF Begin
<1>5. CASE Exists(cache)
  <2> DEFINE d == cache.life = "deleting"
  <2>1. pass' = [Idle EXCEPT !.pc = "dns", !.deleting = d, !.at = cache.at,
                             !.lb = cache.lb, !.fresh = cache.fresh]
    BY <1>5, Zenon DEF Begin
  <2>2. d \in BOOLEAN /\ cache \in Caches
    BY DEF TypeOK, Caches
  <2>3. d <=> cache.life = "deleting"
    BY DEF d
  <2> HIDE DEF d
  <2>4. /\ pass' \in Passes /\ pass'.pc = "dns" /\ pass'.deleting = d
        /\ pass'.at = cache.at /\ pass'.lb = cache.lb /\ pass'.fresh = cache.fresh
        /\ pass'.setLB = Idle.setLB /\ pass'.addTLS = Idle.addTLS
        /\ pass'.failed = Idle.failed
    BY <1>2, <2>1, <2>2, Nothing, Zenon DEF Passes, Caches
  <2> QED
    BY <1>1, <1>3, <1>5, <2>3, <2>4, Nothing
<1> QED
  BY <1>4, <1>5

\* The record is there: the pass goes on with its host.
FoundAs(pc) ==
  /\ At("dns") /\ ~pass.deleting /\ rec.exists
  /\ pass' \in Passes /\ pass'.pc = pc
  /\ pass'.deleting = pass.deleting /\ pass'.fresh = pass.fresh
  /\ pass'.host = rec.host /\ pass'.addTLS = pass.addTLS

LEMMA FoundEffect ==
  ASSUME TypeOK
  PROVE  /\ Found \in Passes
         /\ Found.deleting = pass.deleting /\ Found.fresh = pass.fresh
         /\ Found.host = rec.host /\ Found.addTLS = pass.addTLS
         /\ Found.setLB = pass.setLB /\ Found.failed = pass.failed
<1>1. NoHost \in AnyHost /\ rec.host \in AnyHost
  BY HostsAreNumbers DEF TypeOK, Records
<1> QED
  BY <1>1, Zenon DEF TypeOK, Found, Passes

LEMMA LookupErrorEffect ==
  ASSUME TypeOK, LookupError
  PROVE  /\ FoundAs("hosts")
         /\ pass'.setLB = pass.setLB /\ pass'.failed
         /\ spent' \in Spents /\ spent'.removals = spent.removals
         /\ UNCHANGED <<ing, cache, rec, cert, secrets, zone, queue, events, xid>>
<1>1. "hosts" \in Steps
  BY DEF Steps
<1>2. FoundAs("hosts") /\ pass'.setLB = pass.setLB /\ pass'.failed
  BY <1>1, FoundEffect, Zenon DEF LookupError, FoundAs, Passes
<1>3. spent.faults < MaxFaults => spent.faults + 1 \in 0..MaxFaults
  BY IngressAssumption DEF TypeOK
<1>4. spent' \in Spents /\ spent'.removals = spent.removals
  BY <1>3, Zenon DEF LookupError, TypeOK, Spents
<1> QED
  BY <1>2, <1>4, Zenon DEF LookupError

LEMMA TargetsTyped ==
  ASSUME TypeOK
  PROVE  Targets \in SUBSET Clusters
<1>1. pass.at \in SUBSET Clusters /\ pass.lb \in AnyHost /\ zone \in [Hosts -> SUBSET Clusters]
  BY DEF TypeOK, Passes
<1> QED
  BY <1>1, HostsAreNumbers DEF Targets, DNSTargets

LEMMA TargetsChangedEffect ==
  ASSUME TypeOK, TargetsChanged
  PROVE  /\ FoundAs("updateDNS")
         /\ ~Unknown
         /\ pass'.eps = Targets
         /\ pass'.setLB = pass.setLB /\ pass'.failed = pass.failed
         /\ UNCHANGED <<ing, cache, rec, cert, secrets, zone, queue, events, xid, spent>>
<1>1. "updateDNS" \in Steps
  BY DEF Steps
<1>2. /\ FoundAs("updateDNS") /\ pass'.eps = Targets
      /\ pass'.setLB = pass.setLB /\ pass'.failed = pass.failed
  BY <1>1, FoundEffect, TargetsTyped, Zenon DEF TargetsChanged, GetDNS, FoundAs, Passes
<1> QED
  BY <1>2, Zenon DEF TargetsChanged, GetDNS

LEMMA TargetsUnchangedEffect ==
  ASSUME TypeOK, TargetsUnchanged \/ HostNotServed
  PROVE  /\ FoundAs("hosts")
         /\ pass'.setLB = pass.setLB /\ pass'.failed = pass.failed
         /\ queue' \in Queues
         /\ UNCHANGED <<ing, cache, rec, cert, secrets, zone, events, xid, spent>>
<1>1. "hosts" \in Steps
  BY DEF Steps
<1>2. pass' = [Found EXCEPT !.pc = "hosts"] /\ GetDNS
  BY DEF TargetsUnchanged, HostNotServed
<1>3. FoundAs("hosts") /\ pass'.setLB = pass.setLB /\ pass'.failed = pass.failed
  BY <1>1, <1>2, FoundEffect, Zenon DEF GetDNS, FoundAs, Passes
<1>4. queue' \in Queues
  BY QueueTyped DEF TargetsUnchanged, HostNotServed
<1> QED
  BY <1>3, <1>4 DEF TargetsUnchanged, HostNotServed

LEMMA SetLBHostEffect ==
  ASSUME TypeOK, SetLBHost
  PROVE  /\ FoundAs("hosts")
         /\ Targets = rec.eps /\ rec.eps # {} /\ pass.lb = NoHost /\ zone[rec.host] # {}
         /\ pass'.setLB /\ pass'.failed = pass.failed
         /\ UNCHANGED <<ing, cache, rec, cert, secrets, zone, queue, events, xid, spent>>
<1>1. "hosts" \in Steps
  BY DEF Steps
<1>2. FoundAs("hosts") /\ pass'.setLB /\ pass'.failed = pass.failed
  BY <1>1, FoundEffect, Zenon DEF SetLBHost, GetDNS, FoundAs, Passes
<1> QED
  BY <1>2, Zenon DEF SetLBHost, ReadyForLBHost, foundNameserversOfDomainAndIP

LEMMA GetDNSNotFoundEffect ==
  ASSUME TypeOK, GetDNSNotFound
  PROVE  /\ At("dns") /\ ~pass.deleting /\ ~rec.exists
         /\ xid' \in 0..MaxHosts
         /\ pass' \in Passes /\ pass'.pc = "createDNS" /\ pass'.host \in Hosts
         /\ pass'.deleting = pass.deleting /\ pass'.fresh = pass.fresh
         /\ pass'.setLB = pass.setLB /\ pass'.addTLS = pass.addTLS
         /\ pass'.failed = pass.failed
         /\ UNCHANGED <<ing, cache, rec, cert, secrets, zone, queue, events, spent>>
<1>1. xid + 1 \in Hosts /\ xid' \in 0..MaxHosts
  BY HostsAreNumbers DEF GetDNSNotFound, TypeOK, Hosts
<1>2. "createDNS" \in Steps /\ xid + 1 \in AnyHost /\ NoHost \in AnyHost
  BY <1>1, HostsAreNumbers DEF Steps, AnyHost
<1>3. /\ pass' \in Passes /\ pass'.pc = "createDNS" /\ pass'.host = xid + 1
      /\ pass'.deleting = pass.deleting /\ pass'.fresh = pass.fresh
      /\ pass'.setLB = pass.setLB /\ pass'.addTLS = pass.addTLS
      /\ pass'.failed = pass.failed
  BY <1>2, Zenon DEF GetDNSNotFound, TypeOK, Passes
<1> QED
  BY <1>1, <1>3 DEF GetDNSNotFound

LEMMA CreateDNSEffect ==
  ASSUME TypeOK, CreateDNS
  PROVE  /\ At("createDNS")
         /\ rec' \in Records /\ rec'.exists /\ ~rec'.terminating /\ rec'.host = pass.host
         /\ pass' \in Passes /\ pass'.pc = "hosts"
         /\ SameWork(pass', pass) /\ pass'.fresh = pass.fresh
         /\ UNCHANGED <<ing, cache, cert, secrets, zone, queue, events, xid, spent>>
<1>1. "hosts" \in Steps
  BY DEF Steps
<1> DEFINE new == [NoRecord EXCEPT !.exists = TRUE, !.host = pass.host]
<1>2. rec' = new /\ pass' = Goto("hosts")
  BY Zenon DEF CreateDNS
<1>3. new \in Records /\ new.exists /\ ~new.terminating /\ new.host = pass.host
  BY RecordWrites
<1>4. At("createDNS") /\ UNCHANGED <<ing, cache, cert, secrets, zone, queue, events, xid, spent>>
  BY Zenon DEF CreateDNS
<1> HIDE DEF new
<1> QED
  BY <1>1, <1>2, <1>3, <1>4, GotoEffect

\* The record is deleted: by a pass, or by the user.
LEMMA DeletedEffect ==
  ASSUME TypeOK, NEW p \in Passes, WriteRecord(p, Deleted)
  PROVE  /\ rec' \in Records
         /\ rec'.exists => rec'.terminating /\ rec.exists /\ rec'.host = rec.host
         /\ events' \subseteq {"dns", "cert", "secret"}
         /\ pass' \in Passes /\ pass'.pc = p.pc
         /\ SameWork(pass', p) /\ pass'.fresh = p.fresh
  BY RecordEffect, RecordWrites

LEMMA DeleteDNSEffect ==
  ASSUME TypeOK, DeleteDNS
  PROVE  /\ At("dns") /\ pass.deleting
         /\ rec' \in Records
         /\ rec'.exists => rec'.terminating /\ rec.exists /\ rec'.host = rec.host
         /\ events' \subseteq {"dns", "cert", "secret"}
         /\ pass' \in Passes /\ pass'.pc = "hosts"
         /\ SameWork(pass', pass) /\ pass'.fresh = pass.fresh
         /\ UNCHANGED <<ing, cache, cert, secrets, zone, queue, xid, spent>>
<1>1. "hosts" \in Steps
  BY DEF Steps
<1>2. WriteRecord(Goto("hosts"), Deleted)
  BY Zenon DEF DeleteDNS, Deleted
<1>3. /\ At("dns") /\ pass.deleting
      /\ UNCHANGED <<ing, cache, cert, secrets, zone, queue, xid, spent>>
  BY Zenon DEF DeleteDNS
<1> DEFINE p == Goto("hosts")
<1>4. p \in Passes /\ p.pc = "hosts" /\ SameWork(p, pass) /\ p.fresh = pass.fresh
  BY <1>1, GotoEffect
<1> HIDE DEF p
<1>5. WriteRecord(p, Deleted)
  BY <1>2 DEF p
<1>6. /\ rec' \in Records
      /\ rec'.exists => rec'.terminating /\ rec.exists /\ rec'.host = rec.host
      /\ events' \subseteq {"dns", "cert", "secret"}
      /\ pass' \in Passes /\ pass'.pc = p.pc
      /\ SameWork(pass', p) /\ pass'.fresh = p.fresh
  BY <1>4, <1>5, DeletedEffect
<1> QED
  BY <1>3, <1>4, <1>6 DEF SameWork

LEMMA UpdateDNSEffect ==
  ASSUME TypeOK, UpdateDNS
  PROVE  /\ At("updateDNS")
         /\ UNCHANGED <<ing, cache, cert, secrets, zone, xid, spent>>
         /\ queue' \in Queues
         /\ \/ pass' = Idle /\ rec' = rec /\ events' = events
            \/ /\ rec' \in Records /\ rec'.eps = pass.eps /\ rec'.exists = rec.exists
               /\ rec'.terminating = rec.terminating /\ rec'.host = rec.host
               /\ events' \subseteq {"dns", "cert", "secret"}
               /\ pass' \in Passes /\ pass'.pc = "hosts"
               /\ pass'.deleting = pass.deleting /\ pass'.fresh = pass.fresh
               /\ pass'.host = pass.host /\ pass'.setLB = pass.setLB
               /\ pass'.addTLS = pass.addTLS /\ pass'.failed = pass.failed
<1>1. At("updateDNS") /\ UNCHANGED <<ing, cache, cert, secrets, zone, xid, spent>>
  BY DEF UpdateDNS
<1>2. CASE ~pass.recFresh
  BY <1>1, <1>2, AbortEffect DEF UpdateDNS
<1>3. CASE pass.recFresh
  <2> DEFINE p == [Goto("hosts") EXCEPT !.eps = {}]
             new == [rec EXCEPT !.eps = pass.eps]
  <2>1. "hosts" \in Steps /\ pass.eps \in SUBSET Clusters
    BY DEF Steps, TypeOK, Passes
  <2>2. /\ p \in Passes /\ p.pc = "hosts"
        /\ p.deleting = pass.deleting /\ p.fresh = pass.fresh
        /\ p.host = pass.host /\ p.setLB = pass.setLB
        /\ p.addTLS = pass.addTLS /\ p.failed = pass.failed
    BY <2>1, GotoEffect, Zenon DEF Passes, SameWork
  <2>3. /\ new \in Records /\ new.eps = pass.eps /\ new.exists = rec.exists
        /\ new.terminating = rec.terminating /\ new.host = rec.host
    BY <2>1, RecordWrites
  <2>4. WriteRecord(p, new) /\ queue' = queue
    BY <1>3 DEF UpdateDNS
  <2> HIDE DEF p, new
  <2> QED
    BY <1>1, <2>2, <2>3, <2>4, RecordEffect, QueueTyped DEF SameWork
<1> QED
  BY <1>2, <1>3

LEMMA ListVerificationsEffect ==
  ASSUME TypeOK, ListVerifications
  PROVE  /\ At("hosts")
         /\ UNCHANGED <<ing, cache, rec, cert, secrets, zone, events, xid, spent>>
         /\ queue' \in Queues
         /\ \/ pass' = Idle
            \/ /\ pass' \in Passes
               /\ pass'.pc = IF pass.deleting THEN "deleteCert" ELSE "cert"
               /\ SameWork(pass', pass) /\ pass'.fresh = pass.fresh
<1>1. {"deleteCert", "cert"} \subseteq Steps
  BY DEF Steps
<1> QED
  BY <1>1, AbortEffect, GotoEffect, QueueTyped DEF ListVerifications

LEMMA SecretsTyped ==
  ASSUME TypeOK, NEW h \in AnyHost
  PROVE  /\ LET new == [secrets EXCEPT !.source = h]
            IN  new \in Secrets /\ new.user = secrets.user
         /\ LET new == [secrets EXCEPT !.user = h]
            IN  new \in Secrets /\ new.user = h
  BY Zenon DEF TypeOK, Secrets

LEMMA CertificateEffect ==
  ASSUME TypeOK, CreateCertificate
  PROVE  /\ At("cert") /\ cert' \in Certificates
         /\ pass' \in Passes /\ pass'.pc \in {"certSecret", "tls"}
         /\ SameWork(pass', pass) /\ pass'.fresh = pass.fresh
         /\ UNCHANGED <<ing, cache, rec, secrets, zone, queue, events, xid, spent>>
<1>1. {"certSecret", "tls"} \subseteq Steps
  BY DEF Steps
<1>2. pass.host \in AnyHost
  BY DEF TypeOK, Passes
<1>3. cert' \in Certificates
  BY <1>2, Zenon DEF TypeOK, CreateCertificate, Certificates
<1>4. /\ At("cert") /\ pass' = Goto(IF cert.exists THEN "certSecret" ELSE "tls")
      /\ UNCHANGED <<ing, cache, rec, secrets, zone, queue, events, xid, spent>>
  BY Zenon DEF CreateCertificate
<1> QED
  BY <1>1, <1>3, <1>4, GotoEffect

\* The secret goes from the one workspace to the other.
LEMMA CopyEffect ==
  ASSUME TypeOK, GetCertificateSecret \/ CopySecret
  PROVE  /\ \/ At("certSecret") /\ secrets' = secrets /\ pass'.pc = "copy"
            \/ At("copy") /\ secrets' \in Secrets /\ pass'.pc = "tls"
         /\ pass' \in Passes
         /\ SameWork(pass', pass) /\ pass'.fresh = pass.fresh
         /\ UNCHANGED <<ing, cache, rec, cert, zone, queue, events, xid, spent>>
<1>1. {"copy", "tls"} \subseteq Steps /\ NoHost \in AnyHost
  BY HostsAreNumbers DEF Steps
<1>2. pass.secret \in AnyHost /\ secrets.source \in AnyHost
  BY DEF TypeOK, Passes
<1>3. CASE GetCertificateSecret
  <2>1. /\ pass' \in Passes /\ pass'.pc = "copy"
        /\ SameWork(pass', pass) /\ pass'.fresh = pass.fresh
    BY <1>1, <1>2, <1>3, Zenon DEF TypeOK, GetCertificateSecret, Passes, SameWork
  <2> QED
    BY <1>3, <2>1 DEF GetCertificateSecret
<1>4. CASE CopySecret
  <2>1. /\ pass' \in Passes /\ pass'.pc = "tls"
        /\ SameWork(pass', pass) /\ pass'.fresh = pass.fresh
    BY <1>1, <1>2, <1>4, Zenon DEF TypeOK, CopySecret, Passes, SameWork
  <2> QED
    BY <1>2, <1>4, <2>1, SecretsTyped DEF CopySecret
<1> QED
  BY <1>3, <1>4

LEMMA AddTLSEffect ==
  ASSUME TypeOK, AddTLS
  PROVE  /\ At("tls")
         /\ UNCHANGED <<ing, cache, rec, cert, secrets, zone, events, xid, spent>>
         /\ queue' \in Queues
         /\ \/ pass' = Idle
            \/ /\ ~pass.failed
               /\ pass' \in Passes /\ pass'.pc = "save"
               /\ pass'.deleting = pass.deleting /\ pass'.fresh = pass.fresh
               /\ pass'.host = pass.host /\ pass'.setLB = pass.setLB
               /\ pass'.failed = pass.failed
<1> DEFINE p == [pass EXCEPT !.addTLS = TRUE]
<1>1. /\ p \in Passes
      /\ p.deleting = pass.deleting /\ p.fresh = pass.fresh /\ p.host = pass.host
      /\ p.setLB = pass.setLB /\ p.failed = pass.failed
  BY Zenon DEF TypeOK, Passes
<1>2. /\ At("tls")
      /\ UNCHANGED <<ing, cache, rec, cert, secrets, zone, events, xid, spent>>
      /\ Abort \/ Conclude(p)
  BY Zenon DEF AddTLS
<1> HIDE DEF p
<1> QED
  BY <1>1, <1>2, AbortEffect, ConcludeEffect DEF SameWork

LEMMA DeleteCertificateEffect ==
  ASSUME TypeOK, DeleteCertificate
  PROVE  /\ At("deleteCert") /\ cert' = NoCert
         /\ events' \subseteq {"dns", "cert", "secret"}
         /\ pass' \in Passes /\ pass'.pc \in {"deleteSource", "deleteSecret"}
         /\ SameWork(pass', pass) /\ pass'.fresh = pass.fresh
         /\ UNCHANGED <<ing, cache, rec, secrets, zone, queue, xid, spent>>
<1>1. {"deleteSource", "deleteSecret"} \subseteq Steps
  BY DEF Steps
<1>2. events' \subseteq {"dns", "cert", "secret"}
  BY DEF TypeOK, DeleteCertificate
<1> QED
  BY <1>1, <1>2, GotoEffect DEF DeleteCertificate

LEMMA DeleteSecretsEffect ==
  ASSUME TypeOK, DeleteSource \/ DeleteSecret
  PROVE  /\ secrets' \in Secrets /\ secrets'.user \in {secrets.user, NoHost}
         /\ queue' \in Queues /\ events' \subseteq {"dns", "cert", "secret"}
         /\ UNCHANGED <<ing, cache, rec, cert, zone, xid, spent>>
         /\ \/ pass' = Idle
            \/ /\ pass' \in Passes
               /\ SameWork(pass', pass) /\ pass'.fresh = pass.fresh
               /\ \/ At("deleteSource") /\ pass'.pc = "deleteSecret"
                  \/ /\ At("deleteSecret") /\ pass'.pc = "save"
                     /\ ~pass.failed /\ secrets'.user = NoHost
<1>1. "deleteSecret" \in Steps /\ NoHost \in AnyHost
  BY HostsAreNumbers DEF Steps
<1>2. events' \subseteq {"dns", "cert", "secret"}
  BY DEF TypeOK, DeleteSource, DeleteSecret
<1>3. CASE DeleteSource
  BY <1>1, <1>2, <1>3, SecretsTyped, GotoEffect, QueueTyped DEF DeleteSource
<1>4. CASE DeleteSecret
  <2>1. pass \in Passes
    BY DEF TypeOK, Passes
  <2> QED
    BY <1>1, <1>2, <1>4, <2>1, SecretsTyped, ConcludeEffect DEF DeleteSecret
<1> QED
  BY <1>3, <1>4

-----------------------------------------------------------------------------
(* What the end of a pass, faults and everybody else do.                   *)

\* The informer's copy stays as it was.
Behind ==
  cache' \in Caches
  /\ cache'.life = cache.life /\ cache'.at = cache.at /\ cache'.lb = cache.lb

LEMMA SaveEffect ==
  ASSUME TypeOK, Save
  PROVE  /\ At("save")
         /\ UNCHANGED <<rec, cert, secrets, zone, events, xid, spent>>
         /\ queue' \in Queues
         /\ \/ ~pass.fresh /\ pass' = Idle /\ ing' = ing /\ cache' = cache
            \/ /\ pass.fresh /\ pass.setLB
               /\ ing' = Changed
               /\ Behind /\ (cache'.fresh <=> cache.fresh /\ ing' = ing)
               /\ pass' \in Passes /\ pass'.pc = "status" /\ SameWork(pass', pass)
               /\ pass'.fresh <=> ing' = ing
            \/ /\ pass.fresh /\ ~pass.setLB
               /\ ing' = Settle(Changed)
               /\ Behind /\ (cache'.fresh <=> cache.fresh /\ ing' = ing)
               /\ pass' = Idle
<1>1. At("save") /\ UNCHANGED <<rec, cert, secrets, zone, events, xid, spent>>
  BY DEF Save
<1>2. Changed \in Ingresses /\ Settle(Changed) \in Ingresses
  BY SavedEffect, SettleEffect
<1>3. CASE ~pass.fresh
  BY <1>1, <1>3, AbortEffect DEF Save
<1>4. CASE pass.fresh /\ pass.setLB
  <2>1. "status" \in Steps
    BY DEF Steps
  <2> DEFINE p == Goto("status")
  <2>2. WriteOver(p, Changed) /\ queue' = queue
    BY <1>4 DEF Save
  <2>3. p \in Passes /\ p.pc = "status" /\ SameWork(p, pass) /\ p.fresh = pass.fresh
    BY <2>1, GotoEffect
  <2> HIDE DEF p
  <2>4. /\ Write(Changed)
        /\ pass' \in Passes /\ pass'.pc = p.pc /\ SameWork(pass', p)
        /\ pass'.fresh <=> p.fresh /\ Changed = ing
    BY <1>2, <2>2, <2>3, WriteOverEffect
  <2>5. /\ ing' = Changed /\ Behind
        /\ cache'.fresh <=> cache.fresh /\ Changed = ing
    BY <1>2, <2>4, WriteEffect DEF Behind
  <2> QED
    BY <1>1, <1>4, <2>2, <2>3, <2>4, <2>5, QueueTyped DEF SameWork
<1>5. CASE pass.fresh /\ ~pass.setLB
  <2>1. Write(Settle(Changed)) /\ Done
    BY <1>5 DEF Save
  <2>2. /\ ing' = Settle(Changed) /\ Behind
        /\ cache'.fresh <=> cache.fresh /\ Settle(Changed) = ing
    BY <1>2, <2>1, WriteEffect DEF Behind
  <2> QED
    BY <1>1, <1>5, <2>1, <2>2, DoneEffect
<1> QED
  BY <1>3, <1>4, <1>5

LEMMA SaveStatusEffect ==
  ASSUME TypeOK, SaveStatus
  PROVE  /\ At("status")
         /\ UNCHANGED <<rec, cert, secrets, zone, events, xid, spent>>
         /\ pass' = Idle /\ queue' \in Queues
         /\ \/ ing' = ing /\ cache' = cache
            \/ /\ pass.fresh
               /\ ing' \in Ingresses /\ ing'.life = ing.life /\ ing'.uid = ing.uid
               /\ ing'.lb = pass.host /\ ing'.at = ing.at /\ ing'.tls = ing.tls
               /\ ing'.kept = ing.kept
               /\ Behind /\ (cache'.fresh <=> cache.fresh /\ ing' = ing)
<1>1. At("status") /\ UNCHANGED <<rec, cert, secrets, zone, events, xid, spent>>
  BY DEF SaveStatus
<1>2. CASE ~pass.fresh
  BY <1>1, <1>2, AbortEffect DEF SaveStatus
<1>3. CASE pass.fresh
  <2> DEFINE new == [ing EXCEPT !.lb = pass.host]
  <2>1. pass.host \in AnyHost
    BY DEF TypeOK, Passes
  <2>2. /\ new \in Ingresses /\ new.life = ing.life /\ new.uid = ing.uid
        /\ new.lb = pass.host /\ new.at = ing.at /\ new.tls = ing.tls
        /\ new.kept = ing.kept
    BY <2>1, IngressWrites
  <2>3. Write(new) /\ Done
    BY <1>3 DEF SaveStatus
  <2> HIDE DEF new
  <2>4. ing' = new /\ Behind /\ (cache'.fresh <=> cache.fresh /\ new = ing)
    BY <2>2, <2>3, WriteEffect DEF Behind
  <2> QED
    BY <1>1, <1>3, <2>2, <2>3, <2>4, DoneEffect
<1> QED
  BY <1>2, <1>3

LEMMA FaultEffect ==
  ASSUME TypeOK, Fault
  PROVE  /\ UNCHANGED <<ing, cache, rec, cert, secrets, zone, events, xid>>
         /\ spent' \in Spents /\ spent'.removals = spent.removals
         /\ queue' \in Queues
         /\ \/ pass' = Idle
            \/ /\ At("createDNS") \/ At("hosts")
               /\ pass' \in Passes /\ pass'.failed
               /\ pass'.pc = IF At("createDNS") THEN "hosts"
                             ELSE IF pass.deleting THEN "deleteCert" ELSE "cert"
               /\ pass'.deleting = pass.deleting /\ pass'.fresh = pass.fresh
               /\ pass'.host = pass.host /\ pass'.setLB = pass.setLB
               /\ pass'.addTLS = pass.addTLS
<1> DEFINE next == IF At("createDNS") THEN "hosts"
                   ELSE IF pass.deleting THEN "deleteCert" ELSE "cert"
<1>1. UNCHANGED <<ing, cache, rec, cert, secrets, zone, events, xid>>
  BY Zenon DEF Fault
<1>2. spent.faults < MaxFaults => spent.faults + 1 \in 0..MaxFaults
  BY IngressAssumption DEF TypeOK
<1>3. spent' \in Spents /\ spent'.removals = spent.removals
  BY <1>2, Zenon DEF Fault, TypeOK, Spents
<1>4. next \in Steps
  BY DEF Steps
<1>5. CASE At("createDNS") \/ At("hosts")
  <2>1. pass' = [pass EXCEPT !.failed = TRUE, !.pc = next] /\ queue' = queue
    BY <1>5, Zenon DEF Fault
  <2> HIDE DEF next
  <2>2. /\ pass' \in Passes /\ pass'.failed /\ pass'.pc = next
        /\ pass'.deleting = pass.deleting /\ pass'.fresh = pass.fresh
        /\ pass'.host = pass.host /\ pass'.setLB = pass.setLB
        /\ pass'.addTLS = pass.addTLS
    BY <1>4, <2>1, Zenon DEF TypeOK, Passes
  <2> QED
    BY <1>1, <1>3, <1>5, <2>1, <2>2, QueueTyped DEF next
<1>6. CASE ~(At("createDNS") \/ At("hosts"))
  <2>1. Abort
    BY <1>6, Zenon DEF Fault
  <2> QED
    BY <1>1, <1>3, <2>1, AbortEffect
<1> QED
  BY <1>5, <1>6

\* The informer has caught up.
CaughtUp ==
  /\ cache' \in Caches /\ cache'.fresh
  /\ cache'.life = ing.life /\ cache'.at = ing.at /\ cache'.lb = ing.lb

LEMMA CopyOfIngress ==
  ASSUME TypeOK, cache' = Copy(ing)
  PROVE  CaughtUp
<1>1. ing.life \in Lives /\ ing.at \in SUBSET Clusters /\ ing.lb \in AnyHost
  BY DEF TypeOK, Ingresses
<1> QED
  BY <1>1, Zenon DEF Copy, CaughtUp, Caches

LEMMA CrashEffect ==
  ASSUME TypeOK, Crash
  PROVE  /\ pass' = Idle /\ CaughtUp
         /\ queue' \in Queues /\ events' = {}
         /\ spent' \in Spents /\ spent'.removals = spent.removals
         /\ UNCHANGED <<ing, rec, cert, secrets, zone, xid>>
<1>1. /\ 0 \in 0..MaxRetries
      /\ spent.crashes < MaxCrashes => spent.crashes + 1 \in 0..MaxCrashes
  BY IngressAssumption DEF TypeOK
<1>2. spent' \in Spents /\ spent'.removals = spent.removals
  BY <1>1, Zenon DEF Crash, TypeOK, Spents
<1>3. queue' \in Queues
  BY <1>1, Zenon DEF Crash, Queues
<1>4. cache' = Copy(ing)
  BY Zenon DEF Crash
<1> QED
  BY <1>2, <1>3, <1>4, CopyOfIngress, Zenon DEF Crash

LEMMA InformersEffect ==
  ASSUME TypeOK, Informers
  PROVE  /\ UNCHANGED <<ing, pass, rec, cert, secrets, zone, xid, spent>>
         /\ queue' \in Queues /\ events' \subseteq {"dns", "cert", "secret"}
         /\ cache' = cache \/ CaughtUp
<1>1. CASE Sync
  BY <1>1, CopyOfIngress, QueueTyped DEF Sync, TypeOK
<1>2. CASE TimerFires
  <2>1. queue' \in Queues /\ UNCHANGED <<ing, cache, pass, rec, cert, secrets, zone, events, xid, spent>>
    BY <1>2, QueueTyped, Zenon DEF TimerFires
  <2> QED
    BY <2>1 DEF TypeOK
<1>3. ASSUME NEW e \in {"dns", "cert", "secret"}, Deliver(e)
      PROVE  /\ UNCHANGED <<ing, cache, pass, rec, cert, secrets, zone, xid, spent>>
             /\ queue' \in Queues /\ events' \subseteq {"dns", "cert", "secret"}
  BY <1>3, QueueTyped DEF Deliver, TypeOK
<1> QED
  BY <1>1, <1>2, <1>3 DEF Informers

\* A running pass goes on, but what it has read may be out of date.
Undisturbed == pass' \in Passes /\ pass'.pc = pass.pc /\ SameWork(pass', pass)

\* The Ingress is another one now: nobody has its latest version.
Overtaken == Undisturbed /\ ~pass'.fresh /\ Behind /\ ~cache'.fresh

LEMMA OvertakenEffect ==
  ASSUME TypeOK, NEW o \in Ingresses, o # ing, WriteOver(pass, o)
  PROVE  ing' = o /\ Overtaken
<1>1. pass \in Passes
  BY DEF TypeOK, Passes
<1> QED
  BY <1>1, WriteOverEffect, WriteEffect DEF Overtaken, Undisturbed, Behind

LEMMA UserCreatesEffect ==
  ASSUME TypeOK, UserCreates
  PROVE  /\ ~Exists(ing)
         /\ ing' \in Ingresses /\ ing'.life = "live" /\ ing'.uid = ing.uid + 1
         /\ ing'.lb = NoHost /\ ing'.tls = NoHost /\ ing'.kept
         /\ Overtaken
         /\ UNCHANGED <<rec, cert, secrets, zone, queue, events, xid, spent>>
<1> DEFINE new == [NoIngress EXCEPT !.life = "live", !.uid = ing.uid + 1]
<1>1. ing.uid + 1 \in 0..MaxLives
  BY IngressAssumption DEF TypeOK, Ingresses, UserCreates
<1>2. /\ new \in Ingresses /\ new.life = "live" /\ new.uid = ing.uid + 1
      /\ new.lb = NoHost /\ new.tls = NoHost /\ new.kept
  BY <1>1, NewIngress
<1>3. /\ ~Exists(ing) /\ WriteOver(pass, new)
      /\ UNCHANGED <<rec, cert, secrets, zone, queue, events, xid, spent>>
  BY Zenon DEF UserCreates
<1> HIDE DEF new
<1>4. new # ing
  BY <1>2, <1>3 DEF Exists
<1> QED
  BY <1>2, <1>3, <1>4, OvertakenEffect

LEMMA UserDeletesEffect ==
  ASSUME TypeOK, UserDeletes
  PROVE  /\ ing.life = "live"
         /\ ing' \in Ingresses /\ ing'.life \in {"deleting", "lost"} /\ ing'.uid = ing.uid
         /\ Overtaken
         /\ UNCHANGED <<rec, cert, secrets, zone, queue, events, xid, spent>>
<1> DEFINE new == [ing EXCEPT !.life = "deleting"]
<1>1. /\ new \in Ingresses /\ new.life = "deleting" /\ new.uid = ing.uid
      /\ new.fin = ing.fin
  BY IngressWrites
<1>2. /\ ing.life = "live" /\ WriteOver(pass, Settle(new))
      /\ UNCHANGED <<rec, cert, secrets, zone, queue, events, xid, spent>>
  BY DEF UserDeletes
<1> HIDE DEF new
<1>3. /\ Settle(new) \in Ingresses /\ Settle(new).uid = ing.uid
      /\ Settle(new).life \in {"deleting", "lost"}
  BY <1>1, SettleEffect
<1>4. Settle(new) # ing
  BY <1>2, <1>3
<1> QED
  BY <1>2, <1>3, <1>4, OvertakenEffect

LEMMA SyncerFinishesEffect ==
  ASSUME TypeOK, SyncerFinishes
  PROVE  /\ ing.life = "deleting"
         /\ ing' \in Ingresses /\ ing'.life \in {"deleting", "lost"} /\ ing'.uid = ing.uid
         /\ Overtaken
         /\ UNCHANGED <<rec, cert, secrets, zone, queue, events, xid, spent>>
<1> DEFINE fin == ing.fin \ {"syncer"}
           new == [ing EXCEPT !.fin = fin]
<1>1. ing.fin \in SUBSET {"cascade", "syncer"}
  BY DEF TypeOK, Ingresses
<1>2. /\ new \in Ingresses /\ new.life = ing.life /\ new.uid = ing.uid /\ new.fin = fin
  BY <1>1, IngressWrites
<1>3. /\ ing.life = "deleting" /\ "syncer" \in ing.fin /\ WriteOver(pass, Settle(new))
      /\ UNCHANGED <<rec, cert, secrets, zone, queue, events, xid, spent>>
  BY DEF SyncerFinishes
<1> HIDE DEF new
<1>4. /\ Settle(new) \in Ingresses /\ Settle(new).uid = ing.uid
      /\ Settle(new).life \in {"deleting", "lost"}
  BY <1>2, <1>3, SettleEffect
<1>5. Settle(new) # ing
  BY <1>2, <1>3, <1>4, SettleEffect
<1> QED
  BY <1>3, <1>4, <1>5, OvertakenEffect

\* The Ingress comes to a cluster, or leaves one.
LEMMA MoveEffect ==
  ASSUME TypeOK, NEW c \in Clusters, Report(c) \/ Withdraw(c)
  PROVE  /\ Exists(ing)
         /\ ing' \in Ingresses /\ ing'.life = ing.life /\ ing'.uid = ing.uid
         /\ ing'.lb = ing.lb /\ ing'.tls = ing.tls /\ ing'.kept = ing.kept
         /\ Overtaken
         /\ spent' \in Spents /\ spent'.removals = spent.removals
         /\ UNCHANGED <<rec, cert, secrets, zone, queue, events, xid>>
<1>1. /\ ing.at \in SUBSET Clusters
      /\ ing.fin \union {"syncer"} \in SUBSET {"cascade", "syncer"}
      /\ spent \in Spents
  BY DEF TypeOK, Ingresses, Spents
<1>2. CASE Report(c)
  <2> DEFINE new == [ing EXCEPT !.at = ing.at \union {c}, !.fin = ing.fin \union {"syncer"}]
  <2>1. ing.at \union {c} \in SUBSET Clusters
    BY <1>1
  <2>2. /\ new \in Ingresses /\ new.life = ing.life /\ new.uid = ing.uid
        /\ new.at = ing.at \union {c} /\ new.lb = ing.lb /\ new.tls = ing.tls
        /\ new.kept = ing.kept
    BY <1>1, <2>1, Zenon DEF TypeOK, Ingresses
  <2>3. /\ ing.life = "live" /\ c \notin ing.at /\ WriteOver(pass, new)
        /\ UNCHANGED <<rec, cert, secrets, zone, queue, events, xid, spent>>
    BY <1>2 DEF Report
  <2> HIDE DEF new
  <2>4. new # ing
    BY <2>2, <2>3
  <2> QED
    BY <1>1, <2>2, <2>3, <2>4, OvertakenEffect DEF Exists
<1>3. CASE Withdraw(c)
  <2> DEFINE new == [ing EXCEPT !.at = ing.at \ {c}]
  <2>1. ing.at \ {c} \in SUBSET Clusters
    BY <1>1
  <2>2. /\ new \in Ingresses /\ new.life = ing.life /\ new.uid = ing.uid
        /\ new.at = ing.at \ {c} /\ new.lb = ing.lb /\ new.tls = ing.tls
        /\ new.kept = ing.kept
    BY <2>1, IngressWrites
  <2>3. /\ Exists(ing) /\ c \in ing.at /\ WriteOver(pass, new)
        /\ spent.moves + spent.removals < MaxMoves
        /\ spent' = [spent EXCEPT !.moves = @ + 1]
        /\ UNCHANGED <<rec, cert, secrets, zone, queue, events, xid>>
    BY <1>3 DEF Withdraw
  <2> HIDE DEF new
  <2>4. new # ing
    BY <2>2, <2>3
  <2>5. spent.moves + 1 \in 0..MaxMoves
    BY <1>1, <2>3, IngressAssumption DEF Spents
  <2>6. spent' \in Spents /\ spent'.removals = spent.removals
    BY <1>1, <2>3, <2>5, Zenon DEF Spents
  <2> QED
    BY <2>2, <2>3, <2>4, <2>6, OvertakenEffect
<1> QED
  BY <1>2, <1>3

LEMMA UserRemovesDNSRecordEffect ==
  ASSUME TypeOK, UserRemovesDNSRecord
  PROVE  /\ rec.exists /\ rec' \in Records
         /\ rec'.exists => rec'.terminating /\ rec.exists /\ rec'.host = rec.host
         /\ events' \subseteq {"dns", "cert", "secret"}
         /\ Undisturbed /\ pass'.fresh = pass.fresh
         /\ spent' \in Spents /\ ~RecordKept'
         /\ UNCHANGED <<ing, cache, cert, secrets, zone, queue, xid>>
<1>1. pass \in Passes /\ spent \in Spents
  BY DEF TypeOK, Passes, Spents
<1>2. /\ rec.exists /\ WriteRecord(pass, Deleted)
      /\ spent.moves + spent.removals < MaxMoves
      /\ spent' = [spent EXCEPT !.removals = @ + 1]
      /\ UNCHANGED <<ing, cache, cert, secrets, zone, queue, xid>>
  BY Zenon DEF UserRemovesDNSRecord, Deleted
<1>3. spent.removals + 1 \in 0..MaxMoves /\ spent.removals + 1 # 0
  BY <1>1, <1>2, IngressAssumption DEF Spents
<1>4. spent' \in Spents /\ spent'.removals = spent.removals + 1
  BY <1>1, <1>2, <1>3, Zenon DEF Spents
<1> QED
  BY <1>1, <1>2, <1>3, <1>4, DeletedEffect DEF Undisturbed, RecordKept

LEMMA PublishEffect ==
  ASSUME TypeOK, Publish
  PROVE  /\ rec.exists
         /\ rec' \in Records /\ rec'.exists = rec.exists /\ rec'.terminating = rec.terminating
         /\ rec'.host = rec.host /\ rec'.eps = rec.eps
         /\ zone' \in [Hosts -> SUBSET Clusters]
         /\ rec.host \in Hosts => zone'[rec.host] = rec.eps
         /\ events' \subseteq {"dns", "cert", "secret"}
         /\ Undisturbed /\ pass'.fresh = pass.fresh
         /\ UNCHANGED <<ing, cache, cert, secrets, queue, xid, spent>>
<1> DEFINE new == [rec EXCEPT !.published = TRUE, !.fin = TRUE]
<1>1. /\ rec.exists /\ WriteRecord(pass, new)
      /\ zone' = [zone EXCEPT ![rec.host] = rec.eps]
      /\ UNCHANGED <<ing, cache, cert, secrets, queue, xid, spent>>
  BY Zenon DEF Publish
<1>2. /\ new \in Records /\ new.eps = rec.eps /\ new.exists = rec.exists
      /\ new.terminating = rec.terminating /\ new.host = rec.host
  BY RecordWrites
<1> HIDE DEF new
<1>3. /\ pass \in Passes /\ rec.eps \in SUBSET Clusters
      /\ zone \in [Hosts -> SUBSET Clusters]
  BY DEF TypeOK, Passes, Records
<1> QED
  BY <1>1, <1>2, <1>3, RecordEffect DEF Undisturbed

LEMMA UnpublishEffect ==
  ASSUME TypeOK, Unpublish
  PROVE  /\ rec.terminating
         /\ rec' \in Records /\ ~rec'.exists /\ ~rec'.terminating
         /\ zone' \in [Hosts -> SUBSET Clusters]
         /\ events' \subseteq {"dns", "cert", "secret"}
         /\ Undisturbed /\ pass'.fresh = pass.fresh
         /\ UNCHANGED <<ing, cache, cert, secrets, queue, xid, spent>>
<1>1. pass \in Passes /\ zone \in [Hosts -> SUBSET Clusters]
  BY DEF TypeOK, Passes
<1>2. /\ rec.terminating /\ WriteRecord(pass, NoRecord)
      /\ zone' = IF rec.published THEN [zone EXCEPT ![rec.host] = {}] ELSE zone
      /\ UNCHANGED <<ing, cache, cert, secrets, queue, xid, spent>>
  BY DEF Unpublish
<1> QED
  BY <1>1, <1>2, Nothing, RecordEffect DEF Undisturbed

LEMMA CertManagerEffect ==
  ASSUME TypeOK, CertPending \/ CertSecretWritten \/ CertReady
  PROVE  /\ cert' \in Certificates /\ cert'.exists = cert.exists
         /\ secrets' \in Secrets /\ secrets'.user = secrets.user
         /\ events' \subseteq {"dns", "cert", "secret"}
         /\ UNCHANGED <<ing, cache, pass, rec, zone, queue, xid, spent>>
<1>1. cert \in Certificates /\ cert.host \in AnyHost /\ secrets \in Secrets
  BY DEF TypeOK, Certificates, Secrets
<1>2. ASSUME NEW s \in {"pending", "ready"}
      PROVE  LET new == [cert EXCEPT !.state = s]
             IN  new \in Certificates /\ new.exists = cert.exists
  BY <1>1, Zenon DEF Certificates
<1>3. CASE CertPending
  BY <1>1, <1>2, <1>3 DEF CertPending, TypeOK
<1>4. CASE CertSecretWritten
  BY <1>1, <1>4, SecretsTyped DEF CertSecretWritten, TypeOK
<1>5. CASE CertReady
  BY <1>1, <1>2, <1>5 DEF CertReady, TypeOK
<1> QED
  BY <1>3, <1>4, <1>5

LEMMA CertificateWaitEffect ==
  ASSUME TypeOK, CertificateNotReady \/ NoCertificateSecret
  PROVE  /\ At("certSecret")
         /\ UNCHANGED <<ing, cache, rec, cert, secrets, zone, events, xid, spent>>
         /\ queue' \in Queues
         /\ \/ pass' = Idle
            \/ /\ ~pass.failed
               /\ pass' \in Passes /\ pass'.pc = "save"
               /\ SameWork(pass', pass) /\ pass'.fresh = pass.fresh
<1>1. pass \in Passes
  BY DEF TypeOK, Passes
<1> QED
  BY <1>1, AbortEffect, ConcludeEffect DEF CertificateNotReady, NoCertificateSecret

-----------------------------------------------------------------------------
(* Type correctness.                                                       *)

LEMMA Typed ==
  TypeOK <=> /\ ing \in Ingresses /\ cache \in Caches /\ pass \in Passes
             /\ rec \in Records /\ cert \in Certificates /\ secrets \in Secrets
             /\ zone \in [Hosts -> SUBSET Clusters] /\ queue \in Queues
             /\ events \subseteq {"dns", "cert", "secret"}
             /\ xid \in 0..MaxHosts /\ spent \in Spents
  BY DEF TypeOK, Caches, Secrets, Queues, Spents

LEMMA TypeNext == TypeOK /\ [Next]_vars => TypeOK'
<1> SUFFICES ASSUME TypeOK, [Next]_vars PROVE TypeOK'
  OBVIOUS
<1> USE Typed DEF TypeOK, Caches, Secrets, Queues, Spents
<1>1. CASE Begin
  BY <1>1, BeginEffect
<1>2. CASE DeleteDNS
  BY <1>2, DeleteDNSEffect
<1>3. CASE GetDNSNotFound
  BY <1>3, GetDNSNotFoundEffect
<1>4. CASE CreateDNS
  BY <1>4, CreateDNSEffect
<1>5. CASE LookupError
  BY <1>5, LookupErrorEffect DEF FoundAs
<1>6. CASE TargetsChanged
  BY <1>6, TargetsChangedEffect DEF FoundAs
<1>7. CASE TargetsUnchanged \/ HostNotServed
  BY <1>7, TargetsUnchangedEffect DEF FoundAs
<1>8. CASE SetLBHost
  BY <1>8, SetLBHostEffect DEF FoundAs
<1>9. CASE UpdateDNS
  BY <1>9, UpdateDNSEffect, Nothing
<1>10. CASE ListVerifications
  BY <1>10, ListVerificationsEffect, Nothing
<1>11. CASE CreateCertificate
  BY <1>11, CertificateEffect
<1>12. CASE CertificateNotReady \/ NoCertificateSecret
  BY <1>12, CertificateWaitEffect, Nothing
<1>13. CASE GetCertificateSecret \/ CopySecret
  BY <1>13, CopyEffect
<1>14. CASE AddTLS
  BY <1>14, AddTLSEffect, Nothing
<1>15. CASE DeleteCertificate
  BY <1>15, DeleteCertificateEffect, Nothing
<1>16. CASE DeleteSource \/ DeleteSecret
  BY <1>16, DeleteSecretsEffect, Nothing
<1>17. CASE Save
  <2>1. Changed \in Ingresses /\ Settle(Changed) \in Ingresses
    BY SavedEffect, SettleEffect
  <2> QED
    BY <1>17, <2>1, SaveEffect, Nothing DEF Behind
<1>18. CASE SaveStatus
  BY <1>18, SaveStatusEffect, Nothing DEF Behind
<1>19. CASE Fault
  BY <1>19, FaultEffect, Nothing
<1>20. CASE Crash
  BY <1>20, CrashEffect, Nothing DEF CaughtUp
<1>21. CASE Informers
  BY <1>21, InformersEffect DEF CaughtUp
<1>22. CASE UserCreates
  BY <1>22, UserCreatesEffect DEF Overtaken, Undisturbed, Behind
<1>23. CASE UserDeletes \/ SyncerFinishes
  BY <1>23, UserDeletesEffect, SyncerFinishesEffect DEF Overtaken, Undisturbed, Behind
<1>24. CASE UserRemovesDNSRecord
  BY <1>24, UserRemovesDNSRecordEffect DEF Undisturbed
<1>25. ASSUME NEW c \in Clusters, Report(c) \/ Withdraw(c) PROVE TypeOK'
  BY <1>25, MoveEffect DEF Overtaken, Undisturbed, Behind
<1>26. CASE Publish
  BY <1>26, PublishEffect DEF Undisturbed
<1>27. CASE Unpublish
  BY <1>27, UnpublishEffect DEF Undisturbed
<1>28. CASE CertPending \/ CertSecretWritten \/ CertReady
  BY <1>28, CertManagerEffect
<1>29. CASE UNCHANGED vars
  BY <1>29 DEF vars
<1> QED
  BY <1>1, <1>2, <1>3, <1>4, <1>5, <1>6, <1>7, <1>8, <1>9, <1>10, <1>11, <1>12, <1>13, <1>14,
     <1>15, <1>16, <1>17, <1>18, <1>19, <1>20, <1>21, <1>22, <1>23, <1>24, <1>25, <1>26, <1>27,
     <1>28, <1>29 DEF Next, Step, DNSStep, CertStep, User, Syncers, Others

LEMMA TypeInit == Init => TypeOK
<1> SUFFICES ASSUME Init PROVE TypeOK
  OBVIOUS
<1>1. /\ NoHost \in AnyHost /\ "none" \in Lives /\ 0 \in 0..MaxLives /\ 0 \in 0..MaxRetries
      /\ 0 \in 0..MaxHosts /\ 0 \in 0..MaxFaults /\ 0 \in 0..MaxCrashes /\ 0 \in 0..MaxMoves
  BY HostsAreNumbers, IngressAssumption DEF Lives
<1>2. ing \in Ingresses
  BY <1>1, Zenon DEF Init, NoIngress, Ingresses
<1>3. cache \in Caches
  BY <1>1, Zenon DEF Init, Copy, NoIngress, Caches
<1>4. secrets \in Secrets /\ queue \in Queues /\ spent \in Spents
  BY <1>1, Zenon DEF Init, Secrets, Queues, Spents
<1>5. /\ zone \in [Hosts -> SUBSET Clusters] /\ events \subseteq {"dns", "cert", "secret"}
      /\ xid \in 0..MaxHosts
  BY <1>1 DEF Init
<1>6. pass = Idle /\ rec = NoRecord /\ cert = NoCert
  BY DEF Init
<1> QED
  BY <1>2, <1>3, <1>4, <1>5, <1>6, Nothing, Typed

\* The variables keep their types in every step of the passes, the informers, the user, the
\* syncers, the DNS controller and cert-manager.
THEOREM TypeCorrect == Spec => []TypeOK
  BY TypeInit, TypeNext, PTL DEF Spec

-----------------------------------------------------------------------------
(* The ways of a pass.                                                     *)

Ways == FreshInv /\ ReadInv /\ PathInv /\ RecordInv

LEMMA WaysNext == TypeOK /\ Ways /\ [Next]_vars => Ways'
<1> SUFFICES ASSUME TypeOK, Ways, [Next]_vars PROVE Ways'
  OBVIOUS
<1> USE DEF Ways, FreshInv, ReadInv, PathInv, RecordInv, Active, At, LiveSteps, CleanSteps,
            SameWork
<1>1. CASE Begin
  BY <1>1, BeginEffect DEF Exists
<1>2. CASE DeleteDNS
  BY <1>2, DeleteDNSEffect
<1>3. CASE GetDNSNotFound
  BY <1>3, GetDNSNotFoundEffect
<1>4. CASE CreateDNS
  BY <1>4, CreateDNSEffect
<1>5. CASE LookupError
  BY <1>5, LookupErrorEffect DEF FoundAs
<1>6. CASE TargetsChanged
  BY <1>6, TargetsChangedEffect DEF FoundAs
<1>7. CASE TargetsUnchanged \/ HostNotServed
  BY <1>7, TargetsUnchangedEffect DEF FoundAs
<1>8. CASE SetLBHost
  BY <1>8, SetLBHostEffect DEF FoundAs
<1>9. CASE UpdateDNS
  BY <1>9, UpdateDNSEffect, Nothing
<1>10. CASE ListVerifications
  BY <1>10, ListVerificationsEffect, Nothing
<1>11. CASE CreateCertificate
  BY <1>11, CertificateEffect
<1>12. CASE CertificateNotReady \/ NoCertificateSecret
  BY <1>12, CertificateWaitEffect, Nothing
<1>13. CASE GetCertificateSecret \/ CopySecret
  BY <1>13, CopyEffect
<1>14. CASE AddTLS
  BY <1>14, AddTLSEffect, Nothing
<1>15. CASE DeleteCertificate
  BY <1>15, DeleteCertificateEffect
<1>16. CASE DeleteSource \/ DeleteSecret
  BY <1>16, DeleteSecretsEffect, Nothing
<1>17. CASE Save
  BY <1>17, SaveEffect, SavedEffect, Nothing DEF Behind
<1>18. CASE SaveStatus
  BY <1>18, SaveStatusEffect, Nothing DEF Behind
<1>19. CASE Fault
  BY <1>19, FaultEffect, Nothing
<1>20. CASE Crash
  BY <1>20, CrashEffect, Nothing DEF CaughtUp
<1>21. CASE Informers
  BY <1>21, InformersEffect DEF CaughtUp
<1>22. CASE UserCreates
  BY <1>22, UserCreatesEffect DEF Overtaken, Undisturbed, Behind
<1>23. CASE UserDeletes \/ SyncerFinishes
  BY <1>23, UserDeletesEffect, SyncerFinishesEffect DEF Overtaken, Undisturbed, Behind
<1>24. CASE UserRemovesDNSRecord
  BY <1>24, UserRemovesDNSRecordEffect DEF Undisturbed
<1>25. ASSUME NEW c \in Clusters, Report(c) \/ Withdraw(c) PROVE Ways'
  BY <1>25, MoveEffect DEF Overtaken, Undisturbed, Behind
<1>26. CASE Publish
  BY <1>26, PublishEffect DEF Undisturbed
<1>27. CASE Unpublish
  BY <1>27, UnpublishEffect DEF Undisturbed
<1>28. CASE CertPending \/ CertSecretWritten \/ CertReady
  BY <1>28, CertManagerEffect
<1>29. CASE UNCHANGED vars
  BY <1>29 DEF vars
<1> QED
  BY <1>1, <1>2, <1>3, <1>4, <1>5, <1>6, <1>7, <1>8, <1>9, <1>10, <1>11, <1>12, <1>13, <1>14,
     <1>15, <1>16, <1>17, <1>18, <1>19, <1>20, <1>21, <1>22, <1>23, <1>24, <1>25, <1>26, <1>27,
     <1>28, <1>29 DEF Next, Step, DNSStep, CertStep, User, Syncers, Others

-----------------------------------------------------------------------------
(* The deletion of the Ingress.                                            *)

Cleaned == CleanInv /\ GoneInv /\ NoOrphans

LEMMA CleanedNext == TypeOK /\ Ways /\ Cleaned /\ [Next]_vars => Cleaned'
<1> SUFFICES ASSUME TypeOK, Ways, Cleaned, [Next]_vars PROVE Cleaned'
  OBVIOUS
<1> USE DEF Cleaned, CleanInv, GoneInv, NoOrphans, Active, At, SameWork
<1>0. FreshInv /\ PathInv
  BY DEF Ways
<1>1. CASE Begin
  BY <1>0, <1>1, BeginEffect DEF Exists, PathInv, CleanSteps
<1>2. CASE DeleteDNS
  BY <1>2, DeleteDNSEffect
<1>3. CASE GetDNSNotFound
  BY <1>0, <1>3, GetDNSNotFoundEffect DEF PathInv, CleanSteps
<1>4. CASE CreateDNS
  BY <1>0, <1>4, CreateDNSEffect DEF PathInv, CleanSteps
<1>5. CASE LookupError
  BY <1>5, LookupErrorEffect DEF FoundAs
<1>6. CASE TargetsChanged
  BY <1>6, TargetsChangedEffect DEF FoundAs
<1>7. CASE TargetsUnchanged \/ HostNotServed
  BY <1>7, TargetsUnchangedEffect DEF FoundAs
<1>8. CASE SetLBHost
  BY <1>8, SetLBHostEffect DEF FoundAs
<1>9. CASE UpdateDNS
  BY <1>9, UpdateDNSEffect, Nothing
<1>10. CASE ListVerifications
  BY <1>0, <1>10, ListVerificationsEffect, Nothing DEF PathInv, CleanSteps
<1>11. CASE CreateCertificate
  BY <1>0, <1>11, CertificateEffect DEF PathInv, CleanSteps
<1>12. CASE CertificateNotReady \/ NoCertificateSecret
  BY <1>0, <1>12, CertificateWaitEffect, Nothing DEF PathInv, CleanSteps
<1>13. CASE GetCertificateSecret \/ CopySecret
  BY <1>0, <1>13, CopyEffect DEF PathInv, CleanSteps
<1>14. CASE AddTLS
  BY <1>0, <1>14, AddTLSEffect, Nothing DEF PathInv, CleanSteps
<1>15. CASE DeleteCertificate
  BY <1>0, <1>15, DeleteCertificateEffect, Nothing DEF PathInv, CleanSteps
<1>16. CASE DeleteSource \/ DeleteSecret
  BY <1>0, <1>16, DeleteSecretsEffect, Nothing DEF PathInv, CleanSteps
<1>17. CASE Save
  <2>1. Changed \in Ingresses /\ Changed.life = ing.life
    BY SavedEffect
  <2>2. CASE pass.fresh /\ ~pass.setLB
    <3>1. /\ At("save") /\ pass' = Idle /\ ing' = Settle(Changed) /\ cache'.life = cache.life
          /\ UNCHANGED <<rec, cert, secrets>>
      BY <1>17, <2>2, SaveEffect, Nothing DEF Behind
    <3>2. \/ ing'.life = ing.life
          \/ ing.life = "deleting" /\ ing'.life \in {"gone", "lost"}
      BY <2>1, <3>1, SettleEffect
    <3>3. cache.life = ing.life /\ (pass.deleting <=> ing.life = "deleting")
      BY <1>0, <2>2 DEF FreshInv
    <3> QED
      BY <3>1, <3>2, <3>3, Nothing
  <2>3. CASE ~(pass.fresh /\ ~pass.setLB)
    <3>1. /\ At("save") /\ ing'.life = ing.life /\ cache'.life = cache.life
          /\ UNCHANGED <<rec, cert, secrets>>
          /\ \/ pass' = Idle
             \/ pass.setLB /\ pass'.pc = "status" /\ pass'.deleting = pass.deleting
      BY <1>17, <2>1, <2>3, SaveEffect DEF Behind
    <3> QED
      BY <1>0, <3>1, Nothing DEF PathInv
  <2> QED
    BY <2>2, <2>3
<1>18. CASE SaveStatus
  BY <1>0, <1>18, SaveStatusEffect, Nothing DEF Behind, PathInv, CleanSteps
<1>19. CASE Fault
  BY <1>0, <1>19, FaultEffect, Nothing DEF PathInv, CleanSteps
<1>20. CASE Crash
  BY <1>0, <1>20, CrashEffect, Nothing DEF CaughtUp, PathInv, CleanSteps
<1>21. CASE Informers
  BY <1>21, InformersEffect DEF CaughtUp
<1>22. CASE UserCreates
  BY <1>22, UserCreatesEffect DEF Overtaken, Undisturbed, Behind
<1>23. CASE UserDeletes \/ SyncerFinishes
  BY <1>23, UserDeletesEffect, SyncerFinishesEffect DEF Overtaken, Undisturbed, Behind
<1>24. CASE UserRemovesDNSRecord
  BY <1>24, UserRemovesDNSRecordEffect DEF Undisturbed
<1>25. ASSUME NEW c \in Clusters, Report(c) \/ Withdraw(c) PROVE Cleaned'
  BY <1>25, MoveEffect DEF Overtaken, Undisturbed, Behind
<1>26. CASE Publish
  BY <1>26, PublishEffect DEF Undisturbed
<1>27. CASE Unpublish
  BY <1>27, UnpublishEffect DEF Undisturbed
<1>28. CASE CertPending \/ CertSecretWritten \/ CertReady
  BY <1>28, CertManagerEffect
<1>29. CASE UNCHANGED vars
  BY <1>29 DEF vars
<1> QED
  BY <1>1, <1>2, <1>3, <1>4, <1>5, <1>6, <1>7, <1>8, <1>9, <1>10, <1>11, <1>12, <1>13, <1>14,
     <1>15, <1>16, <1>17, <1>18, <1>19, <1>20, <1>21, <1>22, <1>23, <1>24, <1>25, <1>26, <1>27,
     <1>28, <1>29 DEF Next, Step, DNSStep, CertStep, User, Syncers, Others

-----------------------------------------------------------------------------
(* The first life of the Ingress.                                          *)

First ==
  PristineInv /\ AliveInv /\ LBInv /\ StaleInv /\ HostInv /\ AnnounceInv /\ KeptInv

LEMMA FirstNext == TypeOK /\ Ways /\ First /\ [Next]_vars => First'
<1> SUFFICES ASSUME TypeOK, Ways, First, [Next]_vars PROVE First'
  OBVIOUS
<1> USE DEF First, PristineInv, FirstLife, RecordKept, AliveInv, LBInv, StaleInv, HostInv,
            AnnounceInv, KeptInv, Active, At, SameWork, LiveSteps
<1>0. FreshInv /\ ReadInv /\ PathInv /\ RecordInv
  BY DEF Ways
<1>1. CASE Begin
  BY <1>0, <1>1, BeginEffect DEF Exists
<1>2. CASE DeleteDNS
  BY <1>0, <1>2, DeleteDNSEffect
<1>3. CASE GetDNSNotFound
  BY <1>0, <1>3, GetDNSNotFoundEffect
<1>4. CASE CreateDNS
  BY <1>0, <1>4, CreateDNSEffect DEF RecordInv, PathInv
<1>5. CASE LookupError
  BY <1>0, <1>5, LookupErrorEffect DEF FoundAs
<1>6. CASE TargetsChanged
  <2>1. /\ FoundAs("updateDNS") /\ pass'.eps = Targets /\ pass'.setLB = pass.setLB /\ ~Unknown
        /\ UNCHANGED <<ing, cache, rec, cert, secrets, zone, queue, events, xid, spent>>
    BY <1>6, TargetsChangedEffect
  <2>2. ~pass.setLB
    BY <1>0, <2>1 DEF PathInv, FoundAs
  <2>3. FirstLife /\ ing.lb # NoHost => Targets # {}
    BY <2>1 DEF FoundAs, Unknown, LooksUp, Targets, DNSTargets
  <2> QED
    BY <2>1, <2>2, <2>3 DEF FoundAs
<1>7. CASE TargetsUnchanged \/ HostNotServed
  BY <1>0, <1>7, TargetsUnchangedEffect DEF FoundAs
<1>8. CASE SetLBHost
  <2>1. /\ FoundAs("hosts") /\ pass'.setLB /\ pass'.failed = pass.failed
        /\ Targets = rec.eps /\ rec.eps # {} /\ pass.lb = NoHost /\ zone[rec.host] # {}
        /\ UNCHANGED <<ing, cache, rec, cert, secrets, zone, queue, events, xid, spent>>
    BY <1>8, SetLBHostEffect
  <2>2. pass.at # {}
    BY <2>1 DEF Targets, DNSTargets
  <2>3. pass'.fresh => ing.at # {} /\ cache.at # {}
    BY <1>0, <2>1, <2>2 DEF ReadInv, FreshInv, FoundAs
  <2> QED
    BY <2>1, <2>3 DEF FoundAs
<1>9. CASE UpdateDNS
  BY <1>0, <1>9, UpdateDNSEffect, Nothing DEF PathInv
<1>10. CASE ListVerifications
  BY <1>0, <1>10, ListVerificationsEffect, Nothing
<1>11. CASE CreateCertificate
  BY <1>0, <1>11, CertificateEffect
<1>12. CASE CertificateNotReady \/ NoCertificateSecret
  BY <1>0, <1>12, CertificateWaitEffect, Nothing
<1>13. CASE GetCertificateSecret \/ CopySecret
  BY <1>0, <1>13, CopyEffect
<1>14. CASE AddTLS
  BY <1>0, <1>14, AddTLSEffect, Nothing
<1>15. CASE DeleteCertificate
  BY <1>0, <1>15, DeleteCertificateEffect, Nothing
<1>16. CASE DeleteSource \/ DeleteSecret
  BY <1>0, <1>16, DeleteSecretsEffect, Nothing DEF PathInv
<1>17. CASE Save
  <2> DEFINE lb == IF pass.setLB THEN pass.host ELSE ing.lb
  <2>1. /\ Changed \in Ingresses /\ Changed.life = ing.life /\ Changed.uid = ing.uid
        /\ Changed.at = ing.at /\ Changed.lb = ing.lb
        /\ Changed.tls = IF pass.addTLS THEN pass.host ELSE NoHost
        /\ Changed.kept <=> ing.kept /\ TMCEnabled(ing.at, lb, pass.host)
    BY SavedEffect
  <2>2. FirstLife => rec.exists /\ pass.host = rec.host /\ TMCEnabled(ing.at, lb, pass.host)
    BY <1>0, <1>17, SaveEffect DEF PathInv, TMCEnabled
  <2>3. CASE ing' = ing
    BY <1>0, <1>17, <2>3, SaveEffect, Nothing DEF PathInv, Behind
  <2>4. CASE ing' = Changed
    BY <1>0, <1>17, <2>1, <2>2, <2>4, SaveEffect, Nothing DEF PathInv, FreshInv, Behind
  <2>5. CASE ing' = Settle(Changed) /\ ing' # Changed
    <3>1. ing'.life \in {"gone", "lost"} /\ ing'.uid = ing.uid /\ ing.life = "deleting"
      BY <2>1, <2>5, SettleEffect
    <3> QED
      BY <1>0, <1>17, <3>1, SaveEffect DEF Behind
  <2> QED
    BY <1>17, <2>3, <2>4, <2>5, SaveEffect
<1>18. CASE SaveStatus
  BY <1>0, <1>18, SaveStatusEffect, Nothing DEF Behind, PathInv, FreshInv
<1>19. CASE Fault
  BY <1>0, <1>19, FaultEffect, Nothing
<1>20. CASE Crash
  BY <1>0, <1>20, CrashEffect, Nothing DEF CaughtUp
<1>21. CASE Informers
  BY <1>0, <1>21, InformersEffect DEF CaughtUp
<1>22. CASE UserCreates
  <2>1. ing.uid \in Nat
    BY IngressAssumption DEF TypeOK, Ingresses
  <2>2. /\ ~Exists(ing)
        /\ ing'.life = "live" /\ ing'.uid = ing.uid + 1
        /\ ing'.lb = NoHost /\ ing'.tls = NoHost /\ ing'.kept
        /\ Overtaken /\ UNCHANGED <<rec, zone, spent>>
    BY <1>22, UserCreatesEffect
  <2>3. ing'.uid # 0 /\ (ing'.uid <= 1 => ing.uid = 0)
    BY <2>1, <2>2
  <2> QED
    BY <1>0, <2>2, <2>3 DEF Overtaken, Undisturbed, Behind, PathInv, CleanSteps
<1>23. CASE UserDeletes \/ SyncerFinishes
  BY <1>0, <1>23, UserDeletesEffect, SyncerFinishesEffect DEF Overtaken, Undisturbed, Behind
<1>24. CASE UserRemovesDNSRecord
  BY <1>0, <1>24, UserRemovesDNSRecordEffect DEF Undisturbed
<1>25. ASSUME NEW c \in Clusters, Report(c) \/ Withdraw(c) PROVE First'
  BY <1>0, <1>25, MoveEffect DEF Overtaken, Undisturbed, Behind
<1>26. CASE Publish
  BY <1>0, <1>26, PublishEffect DEF Undisturbed, RecordInv
<1>27. CASE Unpublish
  BY <1>0, <1>27, UnpublishEffect DEF Undisturbed
<1>28. CASE CertPending \/ CertSecretWritten \/ CertReady
  BY <1>0, <1>28, CertManagerEffect
<1>29. CASE UNCHANGED vars
  BY <1>29 DEF vars
<1> QED
  BY <1>1, <1>2, <1>3, <1>4, <1>5, <1>6, <1>7, <1>8, <1>9, <1>10, <1>11, <1>12, <1>13, <1>14,
     <1>15, <1>16, <1>17, <1>18, <1>19, <1>20, <1>21, <1>22, <1>23, <1>24, <1>25, <1>26, <1>27,
     <1>28, <1>29 DEF Next, Step, DNSStep, CertStep, User, Syncers, Others

-----------------------------------------------------------------------------
\* The inductive invariant.
LEMMA Invariance == Spec => []IInv
<1>1. Init => Ways /\ Cleaned /\ First
  <2> SUFFICES ASSUME Init PROVE Ways /\ Cleaned /\ First
    OBVIOUS
  <2>1. /\ ing.life = "none" /\ ing.uid = 0 /\ ing.lb = NoHost /\ ing.tls = NoHost
        /\ cache.life = "none" /\ cache.at = ing.at /\ cache.lb = NoHost
    BY Zenon DEF Init, NoIngress, Copy
  <2>2. pass = Idle /\ rec = NoRecord
    BY DEF Init
  <2> QED
    BY <2>1, <2>2, Nothing
       DEF Ways, FreshInv, ReadInv, PathInv, RecordInv, Cleaned, CleanInv, GoneInv, NoOrphans,
           First, PristineInv, FirstLife, AliveInv, LBInv, StaleInv, HostInv, AnnounceInv,
           KeptInv, Active, At, CleanSteps, LiveSteps
<1>2. IInv <=> TypeOK /\ Ways /\ Cleaned /\ First
  BY DEF IInv, Ways, Cleaned, First
<1>3. TypeOK /\ Ways /\ Cleaned /\ First /\ [Next]_vars => (Ways /\ Cleaned /\ First)'
  BY WaysNext, CleanedNext, FirstNext
<1>4. Spec => [](TypeOK /\ Ways /\ Cleaned /\ First)
  BY <1>1, <1>3, TypeCorrect, PTL DEF Spec
<1> QED
  BY <1>2, <1>4, PTL

\* An Ingress the controller had put its finalizer on leaves no DNSRecord but one under
\* deletion, no Certificate and no copy of the secret behind, however often it was created
\* and whatever the user, faults and restarts did (ingress_reconciler.go:73-84).
THEOREM NothingOrphaned == Spec => []NoOrphans
<1>1. IInv => NoOrphans
  BY DEF IInv
<1> QED
  BY <1>1, Invariance, PTL

\* As long as the Ingress is the one created first, the host in its status and the one in
\* its TLS transform are the DNSRecord's (dns.go:96, 171, tls.go:236).
THEOREM HostsAgreeAtFirst == Spec => [](ing.uid <= 1 => HostsAgree)
<1>1. IInv => (ing.uid <= 1 => HostsAgree)
  BY DEF IInv, LBInv, FirstLife, HostsAgree
<1> QED
  BY <1>1, Invariance, PTL

\* As long as the Ingress is the one created first, the host its status announces resolves
\* (dns.go:136-140, 165-176).
THEOREM LBHostResolvesAtFirst == Spec => [](ing.uid <= 1 => LBHostResolves)
<1>1. IInv => (ing.uid <= 1 => LBHostResolves)
  BY DEF IInv, LBInv, FirstLife, LBHostResolves
<1> QED
  BY <1>1, Invariance, PTL

\* As long as the Ingress is the one created first, the user's spec is kept: its own status
\* holds nothing or the generated host (ingress.go:64-80, 186-194).
THEOREM SpecKeptAtFirst == Spec => [](ing.uid <= 1 => SpecKept)
<1>1. IInv => (ing.uid <= 1 => SpecKept)
  BY DEF IInv, KeptInv, FirstLife, SpecKept
<1> QED
  BY <1>1, Invariance, PTL

=============================================================================
