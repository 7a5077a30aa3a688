------------------------------- MODULE CustomHosts -------------------------------
(***************************************************************************)
(* Custom hosts: the Ingresses of a workspace and the DomainVerification   *)
(* of one domain.                                                          *)
(*                                                                         *)
(* The verification controller (pkg/domains/domainverification) gives the  *)
(* DomainVerification a token and looks for it in a TXT record of the      *)
(* domain.  The ingress controller withholds the rules and the TLS of      *)
(* hosts whose domain is not verified and serves their paths under the     *)
(* generated host (pkg/traffic/ingress.go, host.go); a change of the       *)
(* DomainVerification makes it look for the Ingresses that wait.  With     *)
(* advanced scheduling the outcome goes into a patch for the clusters and  *)
(* the spec stays the user's, without it the spec is rewritten and the     *)
(* rules withheld are kept in an annotation.  Which of the two it is, is   *)
(* guessed from the status, which may change and lead to the other guess.  *)
(*                                                                         *)
(* The rest of the two passes is in IngressReconciler.  Delays of the work *)
(* queue are waiting times of queued keys here, and a key is never         *)
(* dropped (WorkQueue has both).                                           *)
(***************************************************************************)
EXTENDS Naturals, FiniteSets

CONSTANTS
  Ingresses,   \* the Ingresses of the workspace
  Hosts,       \* the custom hosts of their rules
  Covered,     \* the hosts in the domain of the DomainVerification
  FirstHosts,  \* the hosts an Ingress has rules for in the beginning
  WithTLS,     \* the hosts the user has a tls entry for
  MaxFaults,   \* bound: calls that fail, and restarts of the process
  MaxChanges   \* bound: times the user changes the TXT record or removes the
               \* DomainVerification, or a syncer changes the guess

\* The two queues have their own keys.
ASSUME CustomHostsAssumption ==
  /\ "dv" \notin Ingresses
  /\ Covered \subseteq Hosts /\ FirstHosts \subseteq Hosts /\ WithTLS \subseteq Hosts
  /\ MaxFaults \in Nat /\ MaxChanges \in Nat

VARIABLES
  ing,      \* the Ingresses on the API server
  cache,    \* the informer's copies of them, and whether they are the latest
  pass,     \* the running pass of each Ingress
  queued,   \* keys waiting in the two work queues
  dv,       \* the DomainVerification on the API server
  dvCache,  \* the informer's object, which the verification controller changes in place:
            \* fresh means its resource version is the latest, due that an event is to come
  dvPass,   \* the running pass of the verification controller
  news,     \* the change of the DomainVerification is not delivered to the Ingresses yet
  txt,      \* the domain has the TXT record with the token
  proved,   \* the TXT record was once found (history)
  turned,   \* Ingresses without advanced scheduling that were taken for others while rules
            \* were withheld from them (history)
  spent     \* bounded events used up

ingVars == <<ing, cache, pass>>
dvVars == <<dv, dvCache, dvPass, news>>
history == <<proved, turned>>
vars == <<ing, cache, pass, queued, dv, dvCache, dvPass, news, txt, proved, turned, spent>>

\* A rule names a host and stands for the paths the user gave one of the hosts.
Gen == "generated"

\* A custom host is one that the controller has not made.
ASSUME GenAssumption == Gen \notin Hosts

Rule(h) == [host |-> h, of |-> h]
GenRule(r) == [r EXCEPT !.host = Gen]
Rules == [host : Hosts \union {Gen}, of : Hosts]
RulesFor(hosts) == {Rule(h) : h \in hosts}
GenRules(rules) == {GenRule(r) : r \in rules}

\* The transform annotation: the rules and tls patches, each only if there is a change.
NoPatch == [rulesOn |-> FALSE, rules |-> {}, tlsOn |-> FALSE, tls |-> {}]

\* asked: hosts of the user's rules; single: the Ingress's own status has exactly one
\* address, which is not the generated host; tls: hosts with an entry in the spec;
\* pending, label: ANNOTATION_PENDING_CUSTOM_HOSTS and LABEL_HAS_PENDING_HOSTS.
NewIngress(advanced, single) ==
  [advanced |-> advanced, single |-> single, asked |-> FirstHosts,
   spec |-> RulesFor(FirstHosts), tls |-> FirstHosts \intersect WithTLS,
   pending |-> {}, label |-> FALSE, patch |-> NoPatch]

IdlePass == [pc |-> "idle", fresh |-> FALSE, verified |-> {}]

NoDV == [exists |-> FALSE, token |-> FALSE, verified |-> FALSE]

\* shared: the pass's object is still the one in the cache; looked: lastChecked was set;
\* was: what the object said before the pass.
IdleDV == [pc |-> "idle", now |-> NoDV, was |-> NoDV, shared |-> FALSE, fresh |-> FALSE,
           looked |-> FALSE]

-----------------------------------------------------------------------------
(* What a pass makes of an Ingress.                                        *)

\* Without any status of a cluster, advanced scheduling is assumed; and so it is with
\* two or more addresses, or with the host that the controller itself sets then.
TMCEnabled(o) == o.advanced \/ ~o.single

\* A slip: a DomainVerification counts whatever its status.
AnyDomain(h) == dv.exists /\ h \in Covered

IsDomainVerified(h) == dv.exists /\ dv.verified /\ h \in Covered

HostMatches(h) == h \in Covered

Custom(o) == {r \in o.spec : r.host # Gen}
Unverified(rules, verified) == {r \in rules : r.host \notin verified}

\* Entries of one host each: what remains of an entry is built from the list of hosts
\* to remove, without its first: nothing if there is one such host.  (For an entry of
\* more hosts the index may be beyond that list.)
RemoveTLS(tls, hosts) == IF Cardinality(hosts) = 1 THEN tls \ hosts ELSE tls

\* The generated rules are made anew from the custom ones.
SpecRules(o, verified) ==
  (Custom(o) \ Unverified(Custom(o), verified)) \union GenRules(Custom(o))

\* A slip: rules pending come back only when they are verified.
VerifiedOfPending(o, verified) == o.pending \ Unverified(o.pending, verified)

RulesFromPending(o, verified) ==
  GenRules(o.pending) \union (o.pending \ Unverified(o.pending, verified))

\* A slip: the rules withheld now replace those withheld before.
WithheldNow(o, verified) == Unverified(Custom(o), verified)

\* A slip: the generated rules are kept, not those they replace.
PendingGenerated(o, verified) ==
  GenRules(Unverified(o.pending, verified) \union Unverified(Custom(o), verified))

StillPending(o, verified) ==
  Unverified(o.pending, verified) \union Unverified(Custom(o), verified)

\* A slip: the label goes when no rule of the spec is withheld.
ProcessLabelOfSpec(o, verified) ==
  LET withheld == Unverified(Custom(o), verified)
      out == [o EXCEPT !.spec = SpecRules(o, verified),
                       !.tls = RemoveTLS(@, {r.host : r \in withheld}),
                       !.label = withheld # {},
                       !.pending = {}]
  IN  IF TMCEnabled(o) THEN out
      ELSE [out EXCEPT !.spec = @ \union RulesFromPending(o, verified),
                       !.pending = StillPending(o, verified)]

ProcessCustomHosts(o, verified) ==
  LET withheld == Unverified(Custom(o), verified)
      out == [o EXCEPT !.spec = SpecRules(o, verified),
                       !.tls = RemoveTLS(@, {r.host : r \in withheld}),
                       !.label = withheld # {},
                       !.pending = {}]
  IN  IF TMCEnabled(o) THEN out
      ELSE [out EXCEPT !.spec = @ \union RulesFromPending(o, verified),
                       !.pending = StillPending(o, verified),
                       !.label = StillPending(o, verified) # {}]

\* The changes become patches, and the spec is given back if TMC is assumed.
Transform(o, old) ==
  LET patched == [o EXCEPT !.patch =
                    [rulesOn |-> o.spec \notin {{}, old.spec}, tlsOn |-> o.tls # old.tls,
                     rules |-> IF o.spec = old.spec THEN {} ELSE o.spec,
                     tls |-> IF o.tls = old.tls THEN {} ELSE o.tls]]
  IN  IF TMCEnabled(o) THEN [patched EXCEPT !.spec = old.spec, !.tls = old.tls] ELSE patched

-----------------------------------------------------------------------------
(* Passes of the ingress controller.                                       *)

\* A changed object has a new resource version: the copies read before are old.
WriteOver(i, p, o) ==
  /\ ing' = [ing EXCEPT ![i] = o]
  /\ cache' = [cache EXCEPT ![i].fresh = @ /\ o = ing[i]]
  /\ pass' = [pass EXCEPT ![i] = [p EXCEPT !.fresh = @ /\ o = ing[i]]]

Sync(i) ==
  /\ ~cache[i].fresh
  /\ cache' = [cache EXCEPT ![i] = [obj |-> ing[i], fresh |-> TRUE]]
  /\ queued' = queued \union {i}
  /\ UNCHANGED <<ing, pass, dvVars, txt, history, spent>>

Begin(i) ==
  /\ i \in queued /\ pass[i].pc = "idle"
  /\ queued' = queued \ {i}
  /\ pass' = [pass EXCEPT ![i] = [IdlePass EXCEPT !.pc = "list", !.fresh = cache[i].fresh]]
  /\ UNCHANGED <<ing, cache, dvVars, txt, history, spent>>

\* The list is read from the API server, not from an informer.
ListVerifications(i) ==
  /\ pass[i].pc = "list"
  /\ pass' = [pass EXCEPT ![i].pc = "save", ![i].verified = {h \in Hosts : IsDomainVerified(h)}]
  /\ UNCHANGED <<ing, cache, queued, dvVars, txt, history, spent>>

\* Nothing is sent if nothing changed.  An update of an old version is refused; a pass
\* over an old version that finds nothing to change is followed by another as well, as
\* the event of the new version is still to come.
Save(i) ==
  /\ pass[i].pc = "save"
  /\ IF pass[i].fresh
     THEN LET target == ProcessCustomHosts(ing[i], pass[i].verified)
          IN  /\ WriteOver(i, IdlePass, IF target = ing[i] THEN target ELSE Transform(target, ing[i]))
              /\ UNCHANGED queued
     ELSE /\ pass' = [pass EXCEPT ![i] = IdlePass]
          /\ queued' = queued \union {i}
          /\ UNCHANGED <<ing, cache>>
  /\ UNCHANGED <<dvVars, txt, history, spent>>

\* A call of the pass fails: the key comes back.
PassFails(i) ==
  /\ pass[i].pc # "idle"
  /\ spent.faults < MaxFaults
  /\ spent' = [spent EXCEPT !.faults = @ + 1]
  /\ pass' = [pass EXCEPT ![i] = IdlePass]
  /\ queued' = queued \union {i}
  /\ UNCHANGED <<ing, cache, dvVars, txt, history>>

\* The handlers of DomainVerification events look, in the cache, for labelled Ingresses.
Labelled == {i \in Ingresses : cache[i].obj.label}
Waits(i) ==
  \E r \in (IF TMCEnabled(cache[i].obj) THEN cache[i].obj.spec ELSE cache[i].obj.pending) :
    HostMatches(r.host)
WithTMC == {i \in Labelled : TMCEnabled(cache[i].obj)}

\* A slip: the handler only cares for Ingresses with pending rules in the annotation.
FoundPending == {{i \in Labelled : cache[i].obj.pending # {}}}

\* The search ends with the first Ingress that TMC is assumed for, whether it waits or
\* not; the order of the list is arbitrary.
Found ==
  IF WithTMC = {} THEN {{i \in Labelled : Waits(i)}}
  ELSE {{i \in before \union {first} : Waits(i)} :
          before \in SUBSET (Labelled \ WithTMC), first \in WithTMC}

IngressesFromDomainVerification ==
  /\ news
  /\ news' = FALSE
  /\ \E found \in Found : queued' = queued \union found
  /\ UNCHANGED <<ingVars, dv, dvCache, dvPass, txt, history, spent>>

-----------------------------------------------------------------------------
(* The DomainVerification and its controller.                              *)

\* The stored object changes: the passes' copies are old, and both informers have an
\* event to deliver.
WriteDV(d) ==
  /\ dv' = d
  /\ dvCache' = [dvCache EXCEPT !.fresh = FALSE, !.due = TRUE]
  /\ dvPass' = [dvPass EXCEPT !.fresh = FALSE]
  /\ news' = TRUE

DVSync ==
  /\ dvCache.due
  /\ dvCache' = [obj |-> dv, fresh |-> TRUE, due |-> FALSE]
  /\ dvPass' = [dvPass EXCEPT !.shared = FALSE]
  /\ queued' = queued \union {"dv"}
  /\ UNCHANGED <<ingVars, dv, news, txt, history, spent>>

\* The object that the pass goes on with is the informer's, as long as it is shared.
InPlace(p) ==
  /\ dvPass' = p
  /\ dvCache' = [dvCache EXCEPT !.obj = IF p.shared THEN p.now ELSE @]

\* Verified is reset before anything else; a DomainVerification without a token gets
\* one and is looked at again 5 seconds later.
DVBegin ==
  /\ "dv" \in queued /\ dvPass.pc = "idle"
  /\ IF dvCache.obj.exists
     THEN LET tokened == dvCache.obj.token
          IN  /\ InPlace([pc |-> IF tokened THEN "lookup" ELSE "status",
                          now |-> [dvCache.obj EXCEPT !.verified = FALSE, !.token = TRUE],
                          was |-> dvCache.obj, shared |-> TRUE, fresh |-> dvCache.fresh,
                          looked |-> tokened])
              /\ queued' = IF tokened THEN queued \ {"dv"} ELSE queued
     ELSE queued' = queued \ {"dv"} /\ UNCHANGED <<dvCache, dvPass>>
  /\ UNCHANGED <<ingVars, dv, news, txt, history, spent>>

\* The look-up of the token among the domain's TXT records.
TxtRecordExists == txt

TxtFound ==
  /\ dvPass.pc = "lookup" /\ TxtRecordExists
  /\ InPlace([dvPass EXCEPT !.pc = "status", !.now.verified = TRUE])
  /\ proved' = TRUE
  /\ UNCHANGED <<ingVars, queued, dv, news, txt, turned, spent>>

\* There is no such host, or no such value: that is saved, and looked at again later.
TxtMissing ==
  /\ dvPass.pc = "lookup" /\ ~TxtRecordExists
  /\ InPlace([dvPass EXCEPT !.pc = "status"])
  /\ queued' = queued \union {"dv"}
  /\ UNCHANGED <<ingVars, dv, news, txt, history, spent>>

DVAbort ==
  /\ dvPass' = IdleDV
  /\ queued' = queued \union {"dv"}

\* The error of the real resolver for a host that does not exist is not recognised as
\* such: nothing is saved, only the informer's object remembers the attempt.
LookupFails ==
  /\ dvPass.pc = "lookup" /\ ~TxtRecordExists
  /\ DVAbort
  /\ UNCHANGED <<ingVars, dv, dvCache, news, txt, history, spent>>

Differs(p) == p.looked \/ p.was # p.now

\* lastChecked counts seconds: a second look-up within one changes nothing.
UpdateStatus ==
  /\ dvPass.pc = "status"
  /\ IF ~Differs(dvPass)
     THEN dvPass' = IdleDV /\ UNCHANGED <<queued, dv, dvCache, news>>
     ELSE IF dvPass.fresh
     THEN \E sameSecond \in BOOLEAN :
            LET stored == [dv EXCEPT !.token = TRUE, !.verified = dvPass.now.verified]
                changed == stored # dv \/ ~sameSecond
            IN  /\ dv' = stored
                /\ dvCache' = [dvCache EXCEPT !.fresh = IF changed THEN dvPass.shared ELSE @,
                                              !.due = @ \/ changed]
                /\ news' = (news \/ changed)
                /\ dvPass' = [IdleDV EXCEPT !.pc = "update", !.fresh = TRUE]
                /\ UNCHANGED queued
     ELSE DVAbort /\ UNCHANGED <<dv, dvCache, news>>
  /\ UNCHANGED <<ingVars, txt, history, spent>>

\* The second call changes nothing but may be refused.
Update ==
  /\ dvPass.pc = "update"
  /\ IF dvPass.fresh THEN dvPass' = IdleDV /\ UNCHANGED queued ELSE DVAbort
  /\ UNCHANGED <<ingVars, dv, dvCache, news, txt, history, spent>>

DVFails ==
  /\ dvPass.pc # "idle"
  /\ spent.faults < MaxFaults
  /\ spent' = [spent EXCEPT !.faults = @ + 1]
  /\ DVAbort
  /\ UNCHANGED <<ingVars, dv, dvCache, news, txt, history>>

\* The process restarts: everything is listed, and queued, anew.
Crash ==
  /\ spent.faults < MaxFaults
  /\ spent' = [spent EXCEPT !.faults = @ + 1]
  /\ cache' = [i \in Ingresses |-> [obj |-> ing[i], fresh |-> TRUE]]
  /\ pass' = [i \in Ingresses |-> IdlePass]
  /\ dvCache' = [obj |-> dv, fresh |-> TRUE, due |-> FALSE]
  /\ dvPass' = IdleDV
  /\ news' = FALSE
  /\ queued' = Ingresses \union {"dv"}
  /\ UNCHANGED <<ing, dv, txt, history>>

-----------------------------------------------------------------------------
(* The user, and the syncer of a cluster without advanced scheduling.      *)

Change ==
  /\ spent.changes < MaxChanges
  /\ spent' = [spent EXCEPT !.changes = @ + 1]

UserCreatesVerification ==
  /\ ~dv.exists
  /\ WriteDV([NoDV EXCEPT !.exists = TRUE])
  /\ UNCHANGED <<ingVars, queued, txt, history, spent>>

UserDeletesVerification ==
  /\ Change
  /\ dv.exists
  /\ WriteDV(NoDV)
  /\ UNCHANGED <<ingVars, queued, txt, history>>

\* The token is in the status; the record may stay when the DomainVerification goes.
UserSetsTxt ==
  /\ Change
  /\ txt \/ dv.token
  /\ txt' = ~txt
  /\ UNCHANGED <<ingVars, queued, dvVars, history>>

UserAddsRule(i, h) ==
  /\ h \notin ing[i].asked
  /\ WriteOver(i, pass[i], [ing[i] EXCEPT !.asked = @ \union {h}, !.spec = @ \union {Rule(h)},
                                          !.tls = @ \union ({h} \intersect WithTLS)])
  /\ UNCHANGED <<queued, dvVars, txt, history, spent>>

\* The status gets its one address, loses it or gets more; writes that leave it as
\* single or not single as it is change nothing here.
Report(i) ==
  /\ ~ing[i].advanced
  /\ Change
  /\ WriteOver(i, pass[i], [ing[i] EXCEPT !.single = ~@])
  /\ turned' = IF ing[i].single /\ ing[i].pending # {} THEN turned \union {i} ELSE turned
  /\ UNCHANGED <<queued, dvVars, txt, proved>>

-----------------------------------------------------------------------------
Init ==
  /\ \E advanced, single \in BOOLEAN :
       /\ advanced => ~single
       /\ ing = [i \in Ingresses |-> NewIngress(advanced, single)]
  /\ cache = [i \in Ingresses |-> [obj |-> ing[i], fresh |-> TRUE]]
  /\ pass = [i \in Ingresses |-> IdlePass]
  /\ queued = Ingresses
  /\ dv = NoDV /\ dvPass = IdleDV
  /\ dvCache = [obj |-> NoDV, fresh |-> TRUE, due |-> FALSE]
  /\ news = FALSE /\ txt = FALSE /\ proved = FALSE /\ turned = {}
  /\ spent = [faults |-> 0, changes |-> 0]

Step(i) == Begin(i) \/ ListVerifications(i) \/ Save(i)

DVStep == DVBegin \/ TxtFound \/ TxtMissing \/ LookupFails \/ UpdateStatus \/ Update

Informers == DVSync \/ IngressesFromDomainVerification \/ \E i \in Ingresses : Sync(i)

Faults == DVFails \/ Crash \/ \E i \in Ingresses : PassFails(i)

User ==
  \/ UserCreatesVerification \/ UserDeletesVerification \/ UserSetsTxt
  \/ \E i \in Ingresses, h \in Hosts : UserAddsRule(i, h)

Next ==
  \/ DVStep \/ Informers \/ Faults \/ User
  \/ \E i \in Ingresses : Step(i) \/ Report(i)

\* The workers and the informers do their work in the end; users and syncers owe
\* nothing, faults are not fair.
Fairness ==
  /\ WF_vars(DVStep) /\ WF_vars(DVSync) /\ WF_vars(IngressesFromDomainVerification)
  /\ \A i \in Ingresses : WF_vars(Step(i)) /\ WF_vars(Sync(i))

Spec == Init /\ [][Next]_vars /\ Fairness

-----------------------------------------------------------------------------
(* Properties.                                                             *)

Patches == [rulesOn : BOOLEAN, rules : SUBSET Rules, tlsOn : BOOLEAN, tls : SUBSET Hosts]

IngressObjects ==
  [advanced : BOOLEAN, single : BOOLEAN, asked : SUBSET Hosts, spec : SUBSET Rules,
   tls : SUBSET Hosts, pending : SUBSET RulesFor(Hosts), label : BOOLEAN, patch : Patches]

Verifications == [exists : BOOLEAN, token : BOOLEAN, verified : BOOLEAN]

\* The type invariant of the Ingresses, the DomainVerification and their passes.
TypeOK ==
  /\ ing \in [Ingresses -> IngressObjects]
  /\ cache \in [Ingresses -> [obj : IngressObjects, fresh : BOOLEAN]]
  /\ pass \in [Ingresses -> [pc : {"idle", "list", "save"}, fresh : BOOLEAN,
                             verified : SUBSET Hosts]]
  /\ queued \subseteq Ingresses \union {"dv"}
  /\ dv \in Verifications
  /\ dvCache \in [obj : Verifications, fresh : BOOLEAN, due : BOOLEAN]
  /\ dvPass \in [pc : {"idle", "lookup", "status", "update"}, now : Verifications,
                 was : Verifications, shared : BOOLEAN, fresh : BOOLEAN, looked : BOOLEAN]
  /\ news \in BOOLEAN /\ txt \in BOOLEAN /\ proved \in BOOLEAN /\ turned \subseteq Ingresses
  /\ spent \in [faults : 0..MaxFaults, changes : 0..MaxChanges]

\* What the clusters are given: the spec, patched with advanced scheduling.
Served(i) ==
  IF ing[i].advanced /\ ing[i].patch.rulesOn THEN ing[i].patch.rules ELSE ing[i].spec

\* A pass over the latest version has ended and nothing is under way.
AtRest(i) == i \notin queued /\ pass[i].pc = "idle" /\ cache[i].fresh

\* Its clusters are as TMCEnabled takes them to be.  Nothing is promised for the others:
\* the spec they serve is the user's (ingress.go:186-194).
Recognised(i) == ing[i].advanced \/ ing[i].single

\* The user's rules as far as the Ingress still has them.
Known(i) == Custom(ing[i]) \union ing[i].pending

\* A custom host reaches the clusters of a recognised Ingress only if its domain's TXT
\* record was once found, through a list read from the server, a status that is reset in
\* place by every pass, a guess that changes, and rules that come and go between spec,
\* patch and annotation (ingress.go:234-316, reconciler.go:63-92).
VerifiedOnly ==
  \A i \in Ingresses :
    /\ \A r \in ing[i].patch.rules : r.host # Gen => proved /\ r.host \in Covered
    /\ AtRest(i) /\ Recognised(i) =>
         \A r \in Served(i) : r.host # Gen => proved /\ r.host \in Covered

\* Whether verified or not, the paths of the rules that a recognised Ingress has are
\* served under the generated host, whatever was guessed before (ingress.go:250-253,
\* 290-294).
PathsServed ==
  \A i \in Ingresses : AtRest(i) /\ Recognised(i) => GenRules(Known(i)) \subseteq Served(i)

\* No rule of the user is lost, whatever statuses come and go, as long as the guess does
\* not turn to advanced scheduling while rules are withheld: what the controller takes
\* out of the spec is kept in the annotation until it is back (ingress.go:266-269, 296-315).
UserRulesKept ==
  \A i \in Ingresses \ turned : RulesFor(ing[i].asked) = Known(i)

\* A recognised Ingress has the label by which events of the DomainVerification find it
\* if, and only if, one of its rules is withheld, also after the other guess had set or
\* removed it (ingress.go:256-267, 304-315).
WithheldLabelled ==
  \A i \in Ingresses :
    AtRest(i) /\ Recognised(i) => (Known(i) \subseteq Served(i)) # ing[i].label

\* Once the domain can be verified for good, the user's host is served in the end,
\* wherever the pass of the Ingress was when the DomainVerification's event came, and
\* whatever the informer's copies said: for all rules of an Ingress that lost none
\* (controller.go:350-389, reconciler.go:44-62).
EventuallyRestored ==
  \A i \in Ingresses :
    []<>(dv.exists /\ txt /\ i \notin turned =>
           RulesFor(ing[i].asked \intersect Covered) \subseteq Served(i))

\* No pass runs, no key waits and no event is to come: only somebody else changes a thing.
Quiet ==
  /\ queued = {} /\ ~news /\ ~dvCache.due /\ dvPass.pc = "idle"
  /\ \A i \in Ingresses : AtRest(i) /\ Recognised(i)

\* "Once a custom domain has been verified [...], GLBC will re-add the rules block that
\* was replaced" (docs/ingress/ingress-behavior.md:55), for each Ingress that waits.
AllRestored ==
  Quiet /\ dv.verified =>
    \A i \in Ingresses : RulesFor(ing[i].asked \intersect Covered) \subseteq Served(i)

=============================================================================
