---------------------------------- MODULE Routes ----------------------------------
(***************************************************************************)
(* An OpenShift Route with a custom host, and its shadow.                  *)
(*                                                                         *)
(* A Route has one host.  While its domain is not verified the clusters    *)
(* get the generated host in its place; once it is, they get the custom    *)
(* host, and a second Route, the shadow, is to serve the generated host    *)
(* (pkg/traffic/route.go).  The controller (pkg/reconciler/route) passes   *)
(* over both, under two keys of one queue: the Route's pass creates,       *)
(* updates and deletes the shadow, the shadow's own pass gives it a host   *)
(* and a certificate.                                                      *)
(*                                                                         *)
(* The clusters use advanced scheduling (TMC): what they get is the spec   *)
(* with a patch, and the spec stays the user's.  DNSRecords, the stages of *)
(* a certificate and late events of it are in IngressReconciler, how a     *)
(* domain is verified is in CustomHosts.  The label of pending hosts comes *)
(* and goes with the annotation and is left out, as is the status.         *)
(***************************************************************************)
EXTENDS Naturals

CONSTANTS
  Asked,       \* the hosts the user may have asked for
  MaxFaults,   \* bound: calls that fail, and restarts of the process
  MaxChanges   \* bound: times the outcome of the domain verification changes

ASSUME RoutesAssumption ==
  Asked \subseteq {"custom", ""} /\ MaxFaults \in Nat /\ MaxChanges \in Nat

Keys == {"route", "shadow"}

VARIABLES
  obj,       \* the Route and its shadow on the API server
  cache,     \* the informer's copies, and whether they are the latest
  pass,      \* the running pass of each key
  queued,    \* keys waiting in the work queue
  cert,      \* the certificate of each key: none, issuing or ready
  verified,  \* the domain of the custom host is verified
  news,      \* that it changed is not delivered yet
  proved,    \* it was verified once (history)
  spent      \* bounded events used up

vars == <<obj, cache, pass, queued, cert, verified, news, proved, spent>>

\* Hosts: the user's own, none, and the one generated for the DNSRecord of each key.
Custom == "custom"
NoHost == ""
Gen(k) == IF k = "route" THEN "generated" ELSE "shadow generated"
Hosts == {Custom, NoHost, Gen("route"), Gen("shadow")}
None == "none"

\* tls: whose certificate the tls settings carry, the user's or that of a key.
NoPatch == [on |-> FALSE, host |-> NoHost, tls |-> None]
NoRoute ==
  [exists |-> FALSE, deleting |-> FALSE, fins |-> {}, host |-> NoHost, tls |-> None,
   pending |-> None, patch |-> NoPatch]

NewRoute(host) == [NoRoute EXCEPT !.exists = TRUE, !.host = host, !.tls = "user"]

\* fresh: the copy is the latest version; seen: so is the shadow that was read;
\* shadowed: the host may be served, so the pass reconciles the shadow.
IdlePass ==
  [pc |-> "idle", obj |-> NoRoute, fresh |-> FALSE, seen |-> FALSE, shadowed |-> FALSE]

-----------------------------------------------------------------------------
(* Writes, and the ends of a pass.                                         *)

\* An object under deletion is gone with its last finalizer.
Settle(o) == IF o.deleting /\ o.fins = {} THEN NoRoute ELSE o

\* A changed object has a new resource version: copies read before are old.
Write(k, new, passes) ==
  LET same == Settle(new) = obj[k]
  IN  /\ obj' = [obj EXCEPT ![k] = Settle(new)]
      /\ cache' = [cache EXCEPT ![k].fresh = @ /\ same]
      /\ pass' = [passes EXCEPT ![k].fresh = @ /\ same,
                                !["route"].seen = @ /\ (same \/ k # "shadow")]

Goto(k, pc) == [pass EXCEPT ![k].pc = pc]
Idle(k) == [pass EXCEPT ![k] = IdlePass]

\* The pass ends with an error: the key comes back.
Abort(k) ==
  /\ pass' = Idle(k)
  /\ queued' = queued \union {k}
  /\ UNCHANGED <<obj, cache>>

-----------------------------------------------------------------------------
(* What a pass makes of an object.                                         *)

GeneratedHost(k, o) == IF o.deleting THEN NoHost ELSE Gen(k)

\* A slip: a custom host is taken for verified as soon as it is pending.
PendingVerified(o) == o.pending # None \/ o.host = NoHost

IsDomainVerified(o) == o.host = NoHost \/ (o.host = Custom /\ verified)

\* A slip: the finalizer goes with the Route's deletion, whatever becomes of the shadow.
FinalizersGone(k, p) ==
  IF p.obj.deleting THEN {}
  ELSE p.obj.fins \union {"cascade"} \union (IF p.shadowed THEN {"shadow"} ELSE {})

\* A slip: the finalizer is added to a Route under deletion, too.
FinalizersAdded(k, p) ==
  (IF p.obj.deleting /\ k = "route" THEN p.obj.fins \ {"shadow"} ELSE p.obj.fins)
    \union {"cascade"} \union (IF p.shadowed THEN {"shadow"} ELSE {})

Finalizers(k, p) ==
  IF p.obj.deleting
  THEN (p.obj.fins \ (IF k = "route" THEN {"cascade", "shadow"} ELSE {"cascade"}))
         \union (IF p.shadowed THEN {"shadow"} ELSE {})
  ELSE p.obj.fins \union {"cascade"} \union (IF p.shadowed THEN {"shadow"} ELSE {})

\* A slip: the shadow's pass takes over the pending annotation, which it does not have.
ProcessRouteOnly(k, p) ==
  IF k = "shadow" THEN [p.obj EXCEPT !.host = p.obj.pending]
  ELSE IF p.shadowed THEN [p.obj EXCEPT !.pending = None]
  ELSE [p.obj EXCEPT !.pending = p.obj.host, !.host = GeneratedHost(k, p.obj)]

\* A shadow gets the host generated for itself, a Route that may not be served gets its
\* own; shadowed says that it may.
ProcessCustomHosts(k, p) ==
  IF k = "shadow" THEN [p.obj EXCEPT !.host = GeneratedHost(k, p.obj)]
  ELSE IF p.shadowed THEN [p.obj EXCEPT !.pending = None]
  ELSE [p.obj EXCEPT !.pending = p.obj.host, !.host = GeneratedHost(k, p.obj)]

\* A slip: the settings are set whatever the host of the Route is.
AddTLSAlways(k, o) == [o EXCEPT !.tls = k]

AddTLS(k, o) == IF o.host = Gen(k) THEN [o EXCEPT !.tls = k] ELSE o

Target(k, p) ==
  LET o == [ProcessCustomHosts(k, p) EXCEPT !.fins = Finalizers(k, p)]
  IN  IF cert[k] = "ready" /\ ~o.deleting THEN AddTLS(k, o) ELSE o

\* Host and tls are always patched, and the spec is given back.
Transform(o, old) ==
  [o EXCEPT !.patch = [on |-> TRUE, host |-> o.host, tls |-> o.tls],
            !.host = old.host, !.tls = old.tls]

-----------------------------------------------------------------------------
(* A pass of the controller.                                               *)

Sync(k) ==
  /\ ~cache[k].fresh
  /\ cache' = [cache EXCEPT ![k] = [obj |-> obj[k], fresh |-> TRUE]]
  /\ queued' = queued \union {k}
  /\ UNCHANGED <<obj, pass, cert, verified, news, proved, spent>>

\* The copy is read from the cache, then the DomainVerifications from the API server.
\* What there is to do about the shadow depends on both.
Begin(k) ==
  /\ k \in queued /\ pass[k].pc = "idle"
  /\ queued' = queued \ {k}
  /\ LET o == cache[k].obj
         shadowed == k = "route" /\ IsDomainVerified(o)
     IN  pass' = IF ~o.exists THEN pass
                 ELSE [pass EXCEPT ![k] =
                   [pc |-> IF k = "route" /\ o.deleting THEN "delete"
                           ELSE IF shadowed THEN "get" ELSE "cert",
                    obj |-> o, fresh |-> cache[k].fresh, seen |-> FALSE, shadowed |-> shadowed]]
  /\ UNCHANGED <<obj, cache, cert, verified, news, proved, spent>>

\* Deleted or not found, the pass goes on to the host, as for a Route that stays.
DeleteShadow ==
  /\ pass["route"].pc = "delete"
  /\ LET passes == Goto("route", IF pass["route"].shadowed THEN "get" ELSE "cert")
     IN  IF obj["shadow"].exists
         THEN Write("shadow", [obj["shadow"] EXCEPT !.deleting = TRUE], passes)
         ELSE pass' = passes /\ UNCHANGED <<obj, cache>>
  /\ UNCHANGED <<queued, cert, verified, news, proved, spent>>

GetShadow ==
  /\ pass["route"].pc = "get"
  /\ pass' = [pass EXCEPT !["route"].pc = IF obj["shadow"].exists THEN "update" ELSE "create",
                          !["route"].seen = TRUE]
  /\ UNCHANGED <<obj, cache, queued, cert, verified, news, proved, spent>>

\* The shadow is a copy of the Route, with its finalizers and its patch.
Shadow(p) ==
  [p.obj EXCEPT !.host = GeneratedHost("route", p.obj), !.deleting = FALSE, !.pending = None,
                !.fins = IF p.obj.deleting THEN @ \ {"shadow"} ELSE @ \union {"cascade"}]

Shadowed == [pass EXCEPT !["route"].pc = "cert", !["route"].seen = FALSE]

CreateShadow ==
  /\ pass["route"].pc = "create"
  /\ IF obj["shadow"].exists THEN Abort("route")
     ELSE Write("shadow", Shadow(pass["route"]), Shadowed) /\ UNCHANGED queued
  /\ UNCHANGED <<cert, verified, news, proved, spent>>

\* Of a shadow that exists, only the spec is set.
UpdateShadow ==
  /\ pass["route"].pc = "update"
  /\ IF pass["route"].seen
     THEN /\ Write("shadow", [obj["shadow"] EXCEPT !.host = Shadow(pass["route"]).host,
                                                   !.tls = Shadow(pass["route"]).tls], Shadowed)
          /\ UNCHANGED queued
     ELSE Abort("route")
  /\ UNCHANGED <<cert, verified, news, proved, spent>>

getRouteByKey(k) == cache[k].obj.exists

\* Events of a certificate and its secret queue the object they are for, if it is there.
enqueueRouteByKey(k) == IF getRouteByKey(k) THEN queued \union {k} ELSE queued

\* A certificate that goes comes back as another pass.
CertificateDeleted(k) == IF cert[k] = "none" THEN queued ELSE enqueueRouteByKey(k)

DeleteCertificate(k) ==
  /\ pass[k].pc = "cert" /\ pass[k].obj.deleting
  /\ cert' = [cert EXCEPT ![k] = "none"]
  /\ queued' = CertificateDeleted(k)
  /\ pass' = Goto(k, "save")
  /\ UNCHANGED <<obj, cache, verified, news, proved, spent>>

\* Right after the request there is no secret to read yet: that is an error.
CreateCertificate(k) ==
  /\ pass[k].pc = "cert" /\ ~pass[k].obj.deleting
  /\ cert[k] = "none"
  /\ cert' = [cert EXCEPT ![k] = "issuing"]
  /\ Abort(k)
  /\ UNCHANGED <<verified, news, proved, spent>>

\* Nothing is sent if nothing changed; refused is an update of an old version, or one
\* that gives an object under deletion a new finalizer.  A certificate that is not ready
\* leaves the tls settings as they are.
Save(k) ==
  LET p == pass[k]
      target == Target(k, p)
      accepted == p.fresh /\ (p.obj.deleting => target.fins \subseteq p.obj.fins)
  IN  /\ p.pc = "save" \/ (p.pc = "cert" /\ ~p.obj.deleting /\ cert[k] # "none")
      /\ IF target = p.obj THEN pass' = Idle(k) /\ UNCHANGED <<obj, cache, queued>>
         ELSE IF accepted THEN Write(k, Transform(target, p.obj), Idle(k)) /\ UNCHANGED queued
         ELSE Abort(k)
      /\ UNCHANGED <<cert, verified, news, proved, spent>>

PassFails(k) ==
  /\ pass[k].pc # "idle"
  /\ spent.faults < MaxFaults
  /\ spent' = [spent EXCEPT !.faults = @ + 1]
  /\ Abort(k)
  /\ UNCHANGED <<cert, verified, news, proved>>

\* A slip: a host that the clusters get is looked for, not the pending one.
PatchWaits == cache["route"].obj.patch.host = Custom

Waits == cache["route"].obj.pending = Custom

\* The event of a DomainVerification queues, from the cache, the Routes that wait for it.
RoutesFromDomainVerification ==
  /\ news
  /\ news' = FALSE
  /\ queued' = IF Waits THEN queued \union {"route"} ELSE queued
  /\ UNCHANGED <<obj, cache, pass, cert, verified, proved, spent>>

Crash ==
  /\ spent.faults < MaxFaults
  /\ spent' = [spent EXCEPT !.faults = @ + 1]
  /\ cache' = [k \in Keys |-> [obj |-> obj[k], fresh |-> TRUE]]
  /\ pass' = [k \in Keys |-> IdlePass]
  /\ queued' = {k \in Keys : obj[k].exists}
  /\ news' = FALSE
  /\ UNCHANGED <<obj, cert, verified, proved>>

-----------------------------------------------------------------------------
(* The user, cert-manager and the verification controller.                 *)

UserDeletes ==
  /\ obj["route"].exists /\ ~obj["route"].deleting
  /\ Write("route", [obj["route"] EXCEPT !.deleting = TRUE], pass)
  /\ UNCHANGED <<queued, cert, verified, news, proved, spent>>

CertReady(k) ==
  /\ cert[k] = "issuing"
  /\ cert' = [cert EXCEPT ![k] = "ready"]
  /\ queued' = enqueueRouteByKey(k)
  /\ UNCHANGED <<obj, cache, pass, verified, news, proved, spent>>

VerificationChanges ==
  /\ spent.changes < MaxChanges
  /\ spent' = [spent EXCEPT !.changes = @ + 1]
  /\ verified' = ~verified
  /\ news' = TRUE
  /\ proved' = TRUE
  /\ UNCHANGED <<obj, cache, pass, queued, cert>>

-----------------------------------------------------------------------------
Init ==
  /\ \E host \in Asked :
       obj = [k \in Keys |-> IF k = "route" THEN NewRoute(host) ELSE NoRoute]
  /\ cache = [k \in Keys |-> [obj |-> obj[k], fresh |-> TRUE]]
  /\ pass = [k \in Keys |-> IdlePass]
  /\ queued = {"route"}
  /\ cert = [k \in Keys |-> "none"]
  /\ verified \in BOOLEAN /\ proved = verified
  /\ news = FALSE
  /\ spent = [faults |-> 0, changes |-> 0]

Step(k) ==
  \/ Begin(k) \/ DeleteCertificate(k) \/ CreateCertificate(k) \/ Save(k)

ShadowStep == DeleteShadow \/ GetShadow \/ CreateShadow \/ UpdateShadow

Next ==
  \/ \E k \in Keys : Step(k) \/ Sync(k) \/ PassFails(k) \/ CertReady(k)
  \/ ShadowStep \/ RoutesFromDomainVerification
  \/ Crash \/ UserDeletes \/ VerificationChanges

\* The workers and the informers do their work in the end.
Fairness ==
  /\ WF_vars(ShadowStep) /\ WF_vars(RoutesFromDomainVerification)
  /\ \A k \in Keys : WF_vars(Step(k)) /\ WF_vars(Sync(k))

Spec == Init /\ [][Next]_vars /\ Fairness

-----------------------------------------------------------------------------
(* Properties.                                                             *)

Whose == {None, "user"} \union Keys
Objects ==
  [exists : BOOLEAN, deleting : BOOLEAN, fins : SUBSET {"cascade", "shadow"},
   host : Hosts, tls : Whose, pending : Hosts \union {None},
   patch : [on : BOOLEAN, host : Hosts, tls : Whose]]

\* The type invariant of the Route, its shadow and their passes.
TypeOK ==
  /\ obj \in [Keys -> Objects]
  /\ cache \in [Keys -> [obj : Objects, fresh : BOOLEAN]]
  /\ pass \in [Keys -> [pc : {"idle", "delete", "get", "create", "update", "cert", "save"},
                        obj : Objects, fresh : BOOLEAN, seen : BOOLEAN, shadowed : BOOLEAN]]
  /\ queued \subseteq Keys
  /\ cert \in [Keys -> {"none", "issuing", "ready"}]
  /\ verified \in BOOLEAN /\ news \in BOOLEAN /\ proved \in BOOLEAN
  /\ spent \in [faults : 0..MaxFaults, changes : 0..MaxChanges]

\* What the clusters are given.
ServedHost(k) == IF obj[k].patch.on THEN obj[k].patch.host ELSE obj[k].host
ServedTLS(k) == IF obj[k].patch.on THEN obj[k].patch.tls ELSE obj[k].tls

\* A pass over the latest version has ended and nothing is under way.
AtRest(k) ==
  /\ obj[k].exists /\ ~obj[k].deleting
  /\ k \notin queued /\ pass[k].pc = "idle" /\ cache[k].fresh

\* The custom host reaches the clusters only if its domain was verified once, also
\* through the shadow, which starts as a copy of the Route (route.go:192-235).
VerifiedOnly ==
  \A k \in Keys :
    /\ obj[k].patch.host = Custom => proved
    /\ AtRest(k) /\ ServedHost(k) = Custom => proved /\ k = "route"

\* The clusters get the tls settings that fit the host they get: the certificate of the
\* generated host, or what the user has for the custom one (route.go:94-133,
\* tls.go:230-236).
TLSFits ==
  \A k \in Keys :
    AtRest(k) /\ cert[k] = "ready" =>
      ServedTLS(k) = IF ServedHost(k) = Gen(k) THEN k ELSE "user"

\* A Route that has the finalizer for its shadow goes only after the shadow was deleted,
\* whatever became of the pass that did it (route.go:181-190, 231).
ShadowGoesFirst ==
  [][obj["route"].exists /\ "shadow" \in obj["route"].fins /\ ~obj'["route"].exists =>
       ~obj["shadow"].exists \/ obj["shadow"].deleting]_vars

\* Once the domain is verified for good, the custom host is served and the shadow is
\* there, whatever the pass and the cache of the Route were when the event of the
\* DomainVerification came (controller.go:380-412).
EventuallyServed ==
  []<>(verified /\ obj["route"].exists /\ ~obj["route"].deleting =>
         /\ ServedHost("route") = obj["route"].host
         /\ obj["shadow"].exists)

\* A Route that is deleted goes in the end if its domain was never verified.  (One that
\* may be served stays: each pass makes the shadow, and the finalizer for it, anew.)
EventuallyGone ==
  []<>(obj["route"].deleting => proved \/ obj["route"].host = NoHost)

=============================================================================
