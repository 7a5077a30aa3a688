-------------------------- MODULE CustomHostsProofs --------------------------
(***************************************************************************)
(* Proofs about CustomHosts, for any Ingresses, hosts and domain and every *)
(* number of faults and changes: type correctness, that a custom host is   *)
(* served only if its domain was found to be the user's, and that no rule, *)
(* no path and no label is lost on the way.                                *)
(***************************************************************************)
EXTENDS CustomHosts, TLAPS

Caches == [obj : IngressObjects, fresh : BOOLEAN]
Passes == [pc : {"idle", "list", "save"}, fresh : BOOLEAN, verified : SUBSET Hosts]
DVCaches == [obj : Verifications, fresh : BOOLEAN, due : BOOLEAN]
DVPasses ==
  [pc : {"idle", "lookup", "status", "update"}, now : Verifications, was : Verifications,
   shared : BOOLEAN, fresh : BOOLEAN, looked : BOOLEAN]
Spents == [faults : 0..MaxFaults, changes : 0..MaxChanges]

\* The rules of the spec and those withheld are the user's; with advanced scheduling the
\* spec stays as the user made it.
Owned(o) ==
  /\ Custom(o) \union o.pending \subseteq RulesFor(o.asked)
  /\ o.advanced => o.spec = RulesFor(o.asked) /\ o.pending = {}

\* They are all of the user's, and none is withheld where the next pass would forget it.
Whole(o) ==
  /\ RulesFor(o.asked) \subseteq Custom(o) \union o.pending
  /\ TMCEnabled(o) => o.pending = {}

OwnedInv == \A i \in Ingresses : Owned(ing[i]) /\ (i \notin turned => Whole(ing[i]))

\* Whoever says that the domain is verified has it from a look-up that found the record.
Proven(verified) == verified \subseteq Covered /\ (verified # {} => proved)

DVProved == dv.verified \/ dvCache.obj.verified \/ dvPass.now.verified => proved

ProvedInv ==
  /\ DVProved
  /\ \A i \in Ingresses :
       /\ Proven(pass[i].verified)
       /\ \A r \in ing[i].patch.rules : r.host # Gen => proved /\ r.host \in Covered

\* What a pass with these verified hosts saves, if anything.
Outcome(o, verified) ==
  LET target == ProcessCustomHosts(o, verified)
  IN  IF target = o THEN target ELSE Transform(target, o)

\* A pass that is to see the latest version is under way, or one has found nothing to
\* change in it.
Rests(i) ==
  cache[i].fresh /\ i \notin queued =>
    IF pass[i].pc = "idle"
    THEN \E verified \in SUBSET Hosts :
           Proven(verified) /\ Outcome(ing[i], verified) = ing[i]
    ELSE pass[i].fresh

RestInv == \A i \in Ingresses : Rests(i)

IInv == TypeOK /\ OwnedInv /\ ProvedInv /\ RestInv

-----------------------------------------------------------------------------
(* What a pass makes of an Ingress.                                        *)

LEMMA RuleTypes ==
  /\ \A hosts \in SUBSET Hosts : RulesFor(hosts) \subseteq Rules
  /\ \A hosts \in SUBSET Hosts : \A r \in RulesFor(hosts) : r.host # Gen /\ r.host = r.of
  /\ \A r \in Rules : GenRule(r) \in Rules /\ GenRule(r).host = Gen
BY GenAssumption DEF RulesFor, Rule, Rules, GenRule

LEMMA GenRulesEffect ==
  ASSUME NEW rules \in SUBSET Rules
  PROVE  /\ GenRules(rules) \subseteq Rules
         /\ \A r \in GenRules(rules) : r.host = Gen
BY RuleTypes DEF GenRules

LEMMA OfferedEffect ==
  ASSUME NEW o \in IngressObjects, Owned(o), NEW verified \in SUBSET Hosts
  PROVE  LET all == SpecRules(o, verified)
             restored == all \union RulesFromPending(o, verified)
             still == StillPending(o, verified)
         IN  /\ all \subseteq Rules /\ restored \subseteq Rules
             /\ still \subseteq RulesFor(o.asked)
             /\ \A r \in restored : r.host # Gen => r.host \in verified
             /\ \A r \in still : r.host \notin verified
             /\ Custom(o) \union o.pending \subseteq restored \union still
             /\ {r \in restored : r.host # Gen} \subseteq RulesFor(o.asked)
<1>1. /\ o.spec \subseteq Rules /\ Custom(o) \subseteq Rules
      /\ o.pending \subseteq Rules /\ o.asked \subseteq Hosts
  BY RuleTypes DEF IngressObjects, Custom
<1>2. /\ GenRules(Custom(o)) \subseteq Rules /\ GenRules(o.pending) \subseteq Rules
      /\ \A r \in GenRules(Custom(o)) \union GenRules(o.pending) : r.host = Gen
  BY <1>1, GenRulesEffect
<1>3. Custom(o) \union o.pending \subseteq RulesFor(o.asked)
  BY DEF Owned
<1> QED
  BY <1>1, <1>2, <1>3 DEF SpecRules, RulesFromPending, StillPending, Unverified

\* The fields of what a pass makes of an Ingress.
LEMMA ProcessEffect ==
  ASSUME NEW o \in IngressObjects, Owned(o), NEW verified \in SUBSET Hosts
  PROVE  LET t == ProcessCustomHosts(o, verified)
             withheld == Unverified(Custom(o), verified)
         IN  /\ t \in IngressObjects
             /\ t.advanced = o.advanced /\ t.single = o.single /\ t.asked = o.asked
             /\ t.patch = o.patch
             /\ TMCEnabled(o) =>
                  /\ t.spec = SpecRules(o, verified) /\ t.pending = {}
                  /\ t.label = (withheld # {})
             /\ ~TMCEnabled(o) =>
                  /\ t.spec = SpecRules(o, verified) \union RulesFromPending(o, verified)
                  /\ t.pending = StillPending(o, verified)
                  /\ t.label = (StillPending(o, verified) # {})
<1> DEFINE withheld == Unverified(Custom(o), verified)
           all == SpecRules(o, verified)
           restored == all \union RulesFromPending(o, verified)
           still == StillPending(o, verified)
           tls == RemoveTLS(o.tls, {r.host : r \in withheld})
           some == withheld # {}
           left == still # {}
           tmc == [o EXCEPT !.spec = all, !.tls = tls, !.label = some, !.pending = {}]
           plain == [o EXCEPT !.spec = restored, !.tls = tls, !.label = left, !.pending = still]
<1>1. /\ all \subseteq Rules /\ restored \subseteq Rules /\ still \subseteq RulesFor(o.asked)
      /\ tls \subseteq Hosts /\ o.asked \subseteq Hosts
  BY OfferedEffect DEF RemoveTLS, IngressObjects
<1>2. still \subseteq RulesFor(Hosts)
  BY <1>1 DEF RulesFor
<1>3. some \in BOOLEAN /\ left \in BOOLEAN /\ {} \in SUBSET RulesFor(Hosts)
  OBVIOUS
<1>4. TMCEnabled(o) => ProcessCustomHosts(o, verified) = tmc
  BY Zenon DEF ProcessCustomHosts
<1>5. ~TMCEnabled(o) => ProcessCustomHosts(o, verified) = plain
  BY Zenon DEF ProcessCustomHosts, IngressObjects
<1>6. /\ some = (Unverified(Custom(o), verified) # {})
      /\ left = (StillPending(o, verified) # {})
      /\ all = SpecRules(o, verified) /\ still = StillPending(o, verified)
      /\ restored = SpecRules(o, verified) \union RulesFromPending(o, verified)
  OBVIOUS
<1> HIDE DEF all, restored, still, tls, some, left
<1>7. /\ tmc \in IngressObjects
      /\ tmc.advanced = o.advanced /\ tmc.single = o.single /\ tmc.asked = o.asked
      /\ tmc.patch = o.patch /\ tmc.spec = all /\ tmc.pending = {} /\ tmc.label = some
  BY <1>1, <1>3, Zenon DEF IngressObjects
<1>8. /\ plain \in IngressObjects
      /\ plain.advanced = o.advanced /\ plain.single = o.single /\ plain.asked = o.asked
      /\ plain.patch = o.patch /\ plain.spec = restored /\ plain.pending = still
      /\ plain.label = left
  BY <1>1, <1>2, <1>3, Zenon DEF IngressObjects
<1> HIDE DEF tmc, plain
<1> QED
  BY <1>4, <1>5, <1>6, <1>7, <1>8

\* The patches of a pass.
LEMMA TransformEffect ==
  ASSUME NEW t \in IngressObjects, NEW o \in IngressObjects
  PROVE  LET new == Transform(t, o)
         IN  /\ new \in IngressObjects
             /\ new.advanced = t.advanced /\ new.single = t.single /\ new.asked = t.asked
             /\ new.pending = t.pending /\ new.label = t.label
             /\ new.patch.rulesOn = (t.spec \notin {{}, o.spec})
             /\ new.patch.rules = IF t.spec = o.spec THEN {} ELSE t.spec
             /\ new.spec = IF TMCEnabled(t) THEN o.spec ELSE t.spec
<1> DEFINE rulesOn == t.spec \notin {{}, o.spec}
           rules == IF t.spec = o.spec THEN {} ELSE t.spec
           tlsOn == t.tls # o.tls
           tls == IF t.tls = o.tls THEN {} ELSE t.tls
           patch == [rulesOn |-> rulesOn, tlsOn |-> tlsOn, rules |-> rules, tls |-> tls]
           patched == [t EXCEPT !.patch = patch]
           back == [patched EXCEPT !.spec = o.spec, !.tls = o.tls]
<1>1. /\ rules \in SUBSET Rules /\ tls \in SUBSET Hosts
      /\ rulesOn \in BOOLEAN /\ tlsOn \in BOOLEAN
      /\ o.spec \in SUBSET Rules /\ o.tls \in SUBSET Hosts
  BY DEF IngressObjects
<1>2. /\ TMCEnabled(t) => Transform(t, o) = back
      /\ ~TMCEnabled(t) => Transform(t, o) = patched
  BY Zenon DEF Transform
<1>3. /\ rules = (IF t.spec = o.spec THEN {} ELSE t.spec)
      /\ rulesOn = (t.spec \notin {{}, o.spec})
  OBVIOUS
<1> HIDE DEF rulesOn, rules, tlsOn, tls
<1>4. patch \in Patches /\ patch.rulesOn = rulesOn /\ patch.rules = rules
  BY <1>1, Zenon DEF Patches
<1> HIDE DEF patch
<1>5. /\ patched \in IngressObjects
      /\ patched.advanced = t.advanced /\ patched.single = t.single
      /\ patched.asked = t.asked /\ patched.pending = t.pending /\ patched.label = t.label
      /\ patched.patch = patch /\ patched.spec = t.spec
  BY <1>4, Zenon DEF IngressObjects
<1> HIDE DEF patched
<1>6. /\ back \in IngressObjects
      /\ back.advanced = patched.advanced /\ back.single = patched.single
      /\ back.asked = patched.asked /\ back.pending = patched.pending
      /\ back.label = patched.label
      /\ back.patch = patched.patch /\ back.spec = o.spec
  BY <1>1, <1>5, Zenon DEF IngressObjects
<1> HIDE DEF back
<1> QED
  BY <1>2, <1>3, <1>4, <1>5, <1>6

\* What a pass saves keeps the rules there are, and gives the clusters no custom host
\* but verified ones.
LEMMA OutcomeEffect ==
  ASSUME NEW o \in IngressObjects, Owned(o), NEW verified \in SUBSET Hosts
  PROVE  LET new == Outcome(o, verified)
         IN  /\ new \in IngressObjects /\ Owned(new) /\ (Whole(o) => Whole(new))
             /\ \A r \in new.patch.rules :
                  r.host # Gen => r \in o.patch.rules \/ r.host \in verified
<1> DEFINE t == ProcessCustomHosts(o, verified)
           new == Transform(t, o)
<1>1. /\ t \in IngressObjects
      /\ t.advanced = o.advanced /\ t.single = o.single /\ t.asked = o.asked
      /\ t.patch = o.patch
      /\ TMCEnabled(o) => t.spec = SpecRules(o, verified) /\ t.pending = {}
      /\ ~TMCEnabled(o) => /\ t.spec = SpecRules(o, verified) \union RulesFromPending(o, verified)
                           /\ t.pending = StillPending(o, verified)
  BY ProcessEffect
<1>2. Outcome(o, verified) = IF t = o THEN t ELSE new
  BY DEF Outcome
<1> HIDE DEF t
<1>3. /\ new \in IngressObjects
      /\ new.advanced = t.advanced /\ new.single = t.single /\ new.asked = t.asked
      /\ new.pending = t.pending
      /\ new.patch.rules = IF t.spec = o.spec THEN {} ELSE t.spec
      /\ new.spec = IF TMCEnabled(t) THEN o.spec ELSE t.spec
  BY <1>1, TransformEffect
<1> HIDE DEF new
<1>4. \A r \in t.spec : r.host # Gen => r.host \in verified
  BY <1>1, OfferedEffect
<1>5. (TMCEnabled(t) <=> TMCEnabled(o)) /\ (TMCEnabled(new) <=> TMCEnabled(o))
  BY <1>1, <1>3 DEF TMCEnabled
<1>6. Owned(new) /\ (Whole(o) => Whole(new))
  <2>1. CASE TMCEnabled(o)
    <3>1. /\ new.spec = o.spec /\ new.pending = {} /\ new.asked = o.asked
          /\ new.advanced = o.advanced
      BY <1>1, <1>3, <1>5, <2>1
    <3>2. Custom(new) = Custom(o)
      BY <3>1 DEF Custom
    <3>3. Owned(new)
      BY <3>1, <3>2 DEF Owned
    <3>4. Whole(o) => Whole(new)
      BY <2>1, <3>1, <3>2 DEF Whole
    <3> QED
      BY <3>3, <3>4
  <2>2. CASE ~TMCEnabled(o)
    <3>1. /\ new.spec = SpecRules(o, verified) \union RulesFromPending(o, verified)
          /\ new.pending = StillPending(o, verified) /\ new.asked = o.asked
      BY <1>1, <1>3, <1>5, <2>2
    <3>2. Custom(new) \union new.pending \subseteq RulesFor(o.asked)
      BY <3>1, OfferedEffect DEF Custom
    <3>3. Custom(o) \union o.pending \subseteq new.spec \union new.pending
      BY <3>1, OfferedEffect
    <3>4. \A r \in RulesFor(o.asked) : r.host # Gen
      BY RuleTypes DEF IngressObjects
    <3>5. Custom(o) \union o.pending \subseteq Custom(new) \union new.pending
      BY <3>3, <3>4 DEF Owned, Custom
    <3>6. ~new.advanced /\ ~TMCEnabled(new)
      BY <1>1, <1>3, <1>5, <2>2 DEF TMCEnabled
    <3> QED
      BY <3>1, <3>2, <3>5, <3>6 DEF Owned, Whole
  <2> QED
    BY <2>1, <2>2
<1>7. \A r \in new.patch.rules : r.host # Gen => r.host \in verified
  BY <1>3, <1>4
<1> QED
  BY <1>1, <1>2, <1>3, <1>6, <1>7

\* What the clusters are given of an Ingress.
ServedOf(o) == IF o.advanced /\ o.patch.rulesOn THEN o.patch.rules ELSE o.spec

\* The rules that an Ingress still has.
KnownOf(o) == Custom(o) \union o.pending

\* When a pass finds nothing to change, the paths of these rules are served under the
\* generated host and those of verified ones under their own.
LEMMA SettledEffect ==
  ASSUME NEW o \in IngressObjects, Owned(o), NEW verified \in SUBSET Hosts,
         Outcome(o, verified) = o, o.advanced \/ o.single
  PROVE  /\ \A r \in ServedOf(o) :
              r.host # Gen => r \in o.patch.rules \/ r.host \in verified
         /\ GenRules(KnownOf(o)) \subseteq ServedOf(o)
         /\ (KnownOf(o) \subseteq ServedOf(o)) # o.label
<1> DEFINE t == ProcessCustomHosts(o, verified)
           new == Transform(t, o)
<1>1. /\ t \in IngressObjects
      /\ t.advanced = o.advanced /\ t.single = o.single
      /\ TMCEnabled(o) =>
           /\ t.spec = SpecRules(o, verified) /\ t.pending = {}
           /\ t.label = (Unverified(Custom(o), verified) # {})
      /\ ~TMCEnabled(o) =>
           /\ t.spec = SpecRules(o, verified) \union RulesFromPending(o, verified)
           /\ t.pending = StillPending(o, verified)
           /\ t.label = (StillPending(o, verified) # {})
  BY ProcessEffect
<1>2. o = t \/ o = new
  BY DEF Outcome
<1> HIDE DEF t
<1>3. /\ new.pending = t.pending /\ new.label = t.label
      /\ new.patch.rulesOn = (t.spec \notin {{}, o.spec})
      /\ new.patch.rules = IF t.spec = o.spec THEN {} ELSE t.spec
      /\ new.spec = IF TMCEnabled(t) THEN o.spec ELSE t.spec
  BY <1>1, TransformEffect
<1> HIDE DEF new
<1>4. TMCEnabled(t) <=> TMCEnabled(o)
  BY <1>1 DEF TMCEnabled
<1>5. \A r \in RulesFor(o.asked) : r.host # Gen
  BY RuleTypes DEF IngressObjects
<1>6. o.label \in BOOLEAN /\ o.label = t.label
  BY <1>2, <1>3 DEF IngressObjects
<1>7. CASE o.advanced
  <2>1. TMCEnabled(o)
    BY <1>7 DEF TMCEnabled
  <2>2. /\ o.spec = RulesFor(o.asked) /\ Custom(o) = RulesFor(o.asked)
        /\ KnownOf(o) = RulesFor(o.asked)
    BY <1>5, <1>7 DEF Owned, Custom, KnownOf
  <2>3. t.spec = (RulesFor(o.asked) \ Unverified(RulesFor(o.asked), verified))
                   \union GenRules(RulesFor(o.asked))
    BY <1>1, <2>1, <2>2 DEF SpecRules
  <2>4. \A r \in GenRules(RulesFor(o.asked)) : r.host = Gen
    BY RuleTypes, GenRulesEffect DEF IngressObjects
  <2>5. CASE t.spec \in {{}, o.spec}
    <3>1. GenRules(RulesFor(o.asked)) = {}
      BY <1>5, <2>2, <2>3, <2>4, <2>5
    <3>2. RulesFor(o.asked) = {}
      BY <3>1 DEF GenRules
    <3> QED
      BY <1>1, <1>6, <2>1, <2>2, <3>1, <3>2 DEF Unverified, ServedOf
  <2>6. CASE t.spec \notin {{}, o.spec}
    <3>1. o.patch.rulesOn /\ o.patch.rules = t.spec
      BY <1>2, <1>3, <2>6
    <3>2. ServedOf(o) = t.spec
      BY <1>7, <3>1 DEF ServedOf
    <3>3. RulesFor(o.asked) \subseteq t.spec <=> Unverified(RulesFor(o.asked), verified) = {}
      BY <1>5, <2>3, <2>4 DEF Unverified
    <3> QED
      BY <1>1, <1>6, <2>1, <2>2, <2>3, <3>1, <3>2, <3>3
  <2> QED
    BY <2>5, <2>6
<1>8. CASE ~o.advanced
  <2>1. ~TMCEnabled(o) /\ ServedOf(o) = o.spec
    BY <1>8 DEF TMCEnabled, ServedOf
  <2>2. /\ o.spec = SpecRules(o, verified) \union RulesFromPending(o, verified)
        /\ o.pending = StillPending(o, verified)
    BY <1>1, <1>2, <1>3, <1>4, <2>1
  <2>3. /\ \A r \in o.spec : r.host # Gen => r.host \in verified
        /\ \A r \in o.pending : r.host \notin verified
    BY <2>2, OfferedEffect
  <2>4. GenRules(Custom(o)) \union GenRules(o.pending) \subseteq o.spec
    BY <2>2 DEF SpecRules, RulesFromPending
  <2>5. GenRules(KnownOf(o)) \subseteq o.spec
    BY <2>4 DEF GenRules, KnownOf
  <2>6. \A r \in KnownOf(o) : r.host # Gen
    BY <1>5 DEF Owned, KnownOf
  <2>7. KnownOf(o) \subseteq o.spec <=> o.pending = {}
    BY <2>3, <2>6 DEF Custom, KnownOf
  <2> QED
    BY <1>1, <1>6, <2>1, <2>2, <2>3, <2>5, <2>7
<1> QED
  BY <1>7, <1>8

-----------------------------------------------------------------------------
(* The variables of the Ingresses.                                         *)

IngressTypes ==
  /\ ing \in [Ingresses -> IngressObjects]
  /\ cache \in [Ingresses -> Caches]
  /\ pass \in [Ingresses -> Passes]

DVTypes ==
  /\ dv \in Verifications /\ dvCache \in DVCaches /\ dvPass \in DVPasses
  /\ news \in BOOLEAN /\ txt \in BOOLEAN /\ proved \in BOOLEAN

LEMMA Typed ==
  TypeOK <=> /\ IngressTypes /\ DVTypes
             /\ queued \subseteq Ingresses \union {"dv"} /\ turned \subseteq Ingresses
             /\ spent \in Spents
BY DEF TypeOK, IngressTypes, DVTypes, Caches, Passes, DVCaches, DVPasses, Spents

\* A changed object has a new version, an unchanged one has not.
LEMMA WriteOverEffect ==
  ASSUME IngressTypes, NEW i \in Ingresses, NEW p \in Passes, NEW o \in IngressObjects,
         WriteOver(i, p, o)
  PROVE  /\ IngressTypes'
         /\ ing'[i] = o /\ \A j \in Ingresses \ {i} : ing'[j] = ing[j]
         /\ cache'[i].fresh = (cache[i].fresh /\ o = ing[i])
         /\ pass'[i].pc = p.pc /\ pass'[i].verified = p.verified
         /\ pass'[i].fresh = (p.fresh /\ o = ing[i])
         /\ \A j \in Ingresses \ {i} : cache'[j] = cache[j] /\ pass'[j] = pass[j]
<1> DEFINE cached == cache[i].fresh /\ o = ing[i]
           read == p.fresh /\ o = ing[i]
           newCache == [cache[i] EXCEPT !.fresh = cached]
           newPass == [p EXCEPT !.fresh = read]
<1>1. /\ ing' = [ing EXCEPT ![i] = o]
      /\ cache' = [cache EXCEPT ![i] = newCache]
      /\ pass' = [pass EXCEPT ![i] = newPass]
  BY Zenon DEF WriteOver, IngressTypes
<1>2. cached \in BOOLEAN /\ read \in BOOLEAN /\ cache[i] \in Caches
  BY DEF IngressTypes, Caches, Passes
<1>3. cached = (cache[i].fresh /\ o = ing[i]) /\ read = (p.fresh /\ o = ing[i])
  OBVIOUS
<1> HIDE DEF cached, read
<1>4. newCache \in Caches /\ newCache.fresh = cached
  BY <1>2, Zenon DEF Caches
<1>5. /\ newPass \in Passes /\ newPass.pc = p.pc /\ newPass.verified = p.verified
      /\ newPass.fresh = read
  BY <1>2, Zenon DEF Passes
<1> HIDE DEF newCache, newPass
<1> QED
  BY <1>1, <1>3, <1>4, <1>5 DEF IngressTypes

LEMMA IdlePassEffect ==
  /\ IdlePass \in Passes /\ IdlePass.pc = "idle"
  /\ IdlePass.verified = {} /\ ~IdlePass.fresh
BY DEF IdlePass, Passes

LEMMA BeginEffect ==
  ASSUME IngressTypes, NEW i \in Ingresses, Begin(i)
  PROVE  /\ IngressTypes' /\ ing' = ing /\ cache' = cache
         /\ pass'[i].pc = "list" /\ pass'[i].fresh = cache[i].fresh /\ pass'[i].verified = {}
         /\ \A j \in Ingresses \ {i} : pass'[j] = pass[j]
<1> DEFINE new == [IdlePass EXCEPT !.pc = "list", !.fresh = cache[i].fresh]
<1>1. cache[i].fresh \in BOOLEAN /\ "list" \in {"idle", "list", "save"}
  BY DEF IngressTypes, Caches
<1>2. /\ new \in Passes /\ new.pc = "list" /\ new.fresh = cache[i].fresh /\ new.verified = {}
  BY <1>1, IdlePassEffect, Zenon DEF Passes
<1>3. pass' = [pass EXCEPT ![i] = new] /\ ing' = ing /\ cache' = cache
  BY Zenon DEF Begin
<1> HIDE DEF new
<1> QED
  BY <1>2, <1>3 DEF IngressTypes

LEMMA ListEffect ==
  ASSUME IngressTypes, NEW i \in Ingresses, ListVerifications(i)
  PROVE  /\ IngressTypes' /\ ing' = ing /\ cache' = cache
         /\ pass[i].pc = "list" /\ pass'[i].pc = "save" /\ pass'[i].fresh = pass[i].fresh
         /\ pass'[i].verified = {h \in Hosts : IsDomainVerified(h)}
         /\ \A j \in Ingresses \ {i} : pass'[j] = pass[j]
<1> DEFINE verified == {h \in Hosts : IsDomainVerified(h)}
           new == [pass[i] EXCEPT !.pc = "save", !.verified = verified]
<1>1. verified \in SUBSET Hosts /\ "save" \in {"idle", "list", "save"} /\ pass[i] \in Passes
  BY DEF IngressTypes
<1>2. /\ ing' = ing /\ cache' = cache /\ pass[i].pc = "list"
      /\ pass' = [pass EXCEPT ![i] = new]
  BY Zenon DEF ListVerifications, IngressTypes
<1> HIDE DEF verified
<1>3. new \in Passes /\ new.pc = "save" /\ new.fresh = pass[i].fresh /\ new.verified = verified
  BY <1>1, Zenon DEF Passes
<1> HIDE DEF new
<1> QED
  BY <1>2, <1>3 DEF IngressTypes, verified

LEMMA SyncEffect ==
  ASSUME IngressTypes, NEW i \in Ingresses, Sync(i)
  PROVE  /\ IngressTypes' /\ ing' = ing /\ pass' = pass
         /\ \A j \in Ingresses \ {i} : cache'[j] = cache[j]
<1> DEFINE new == [obj |-> ing[i], fresh |-> TRUE]
<1>1. new \in Caches
  BY Zenon DEF IngressTypes, Caches
<1>2. cache' = [cache EXCEPT ![i] = new] /\ ing' = ing /\ pass' = pass
  BY Zenon DEF Sync
<1> HIDE DEF new
<1> QED
  BY <1>1, <1>2 DEF IngressTypes

LEMMA UserAddsRuleEffect ==
  ASSUME IngressTypes, NEW i \in Ingresses, NEW h \in Hosts, UserAddsRule(i, h)
  PROVE  /\ WriteOver(i, pass[i], ing'[i]) /\ ing'[i] \in IngressObjects
         /\ Owned(ing[i]) => Owned(ing'[i])
         /\ Owned(ing[i]) /\ Whole(ing[i]) => Whole(ing'[i])
         /\ ing'[i].patch = ing[i].patch /\ ing'[i] # ing[i]
<1> DEFINE o == ing[i]
           asked == o.asked \union {h}
           spec == o.spec \union {Rule(h)}
           tls == o.tls \union ({h} \intersect WithTLS)
           new == [o EXCEPT !.asked = asked, !.spec = spec, !.tls = tls]
<1>1. o \in IngressObjects /\ h \notin o.asked
  BY DEF IngressTypes, UserAddsRule
<1>2. {Rule(h)} = RulesFor({h}) /\ RulesFor(asked) = RulesFor(o.asked) \union {Rule(h)}
  BY DEF RulesFor
<1>3. Rule(h) \in Rules
  BY <1>2, RuleTypes
<1>4. asked \in SUBSET Hosts /\ spec \in SUBSET Rules /\ tls \in SUBSET Hosts
  BY <1>1, <1>3 DEF IngressObjects
<1>5. WriteOver(i, pass[i], new)
  BY Zenon DEF UserAddsRule
<1>6. h \in asked /\ spec = o.spec \union {Rule(h)}
  OBVIOUS
<1> HIDE DEF asked, spec, tls
<1>7. /\ new \in IngressObjects /\ new.asked = asked /\ new.spec = spec
      /\ new.pending = o.pending /\ new.patch = o.patch
      /\ new.advanced = o.advanced /\ new.single = o.single
  BY <1>1, <1>4, Zenon DEF IngressObjects
<1> HIDE DEF new, o
<1>8. (Owned(o) => Owned(new)) /\ (Whole(o) => Whole(new))
  <2>1. Rule(h).host # Gen
    BY GenAssumption DEF Rule
  <2>2. Custom(new) = Custom(o) \union {Rule(h)}
    BY <1>6, <1>7, <2>1 DEF Custom
  <2>3. RulesFor(new.asked) = RulesFor(o.asked) \union {Rule(h)}
    BY <1>2, <1>7
  <2> QED
    BY <1>6, <1>7, <2>2, <2>3 DEF Owned, Whole, TMCEnabled
<1>9. ing'[i] = new
  BY <1>5, <1>7 DEF WriteOver, IngressTypes
<1> QED
  BY <1>1, <1>5, <1>6, <1>7, <1>8, <1>9 DEF o

\* A rule withheld when the guess turns is not counted on any more.
LEMMA ReportEffect ==
  ASSUME IngressTypes, NEW i \in Ingresses, Report(i)
  PROVE  /\ WriteOver(i, pass[i], ing'[i]) /\ ing'[i] \in IngressObjects
         /\ Owned(ing[i]) => Owned(ing'[i])
         /\ Whole(ing[i]) /\ i \notin turned' => Whole(ing'[i])
         /\ ing'[i].patch = ing[i].patch /\ ing'[i] # ing[i]
<1> DEFINE o == ing[i]
           other == ~o.single
           new == [o EXCEPT !.single = other]
<1>1. o \in IngressObjects /\ ~o.advanced
  BY DEF IngressTypes, Report
<1>2. other \in BOOLEAN /\ other # o.single
  BY <1>1 DEF IngressObjects
<1>3. WriteOver(i, pass[i], new)
  BY Zenon DEF Report
<1>4. i \notin turned' => ~(o.single /\ o.pending # {})
  BY DEF Report
<1> HIDE DEF other
<1>5. /\ new \in IngressObjects /\ new.asked = o.asked /\ new.spec = o.spec
      /\ new.pending = o.pending /\ new.patch = o.patch
      /\ new.advanced = o.advanced /\ new.single = other
  BY <1>1, <1>2, Zenon DEF IngressObjects
<1> HIDE DEF new, o
<1>6. Owned(o) => Owned(new)
  BY <1>1, <1>5 DEF Owned, Custom
<1>7. Whole(o) /\ i \notin turned' => Whole(new)
  BY <1>2, <1>4, <1>5 DEF Whole, Custom, TMCEnabled
<1>8. ing'[i] = new
  BY <1>3, <1>5 DEF WriteOver, IngressTypes
<1> QED
  BY <1>1, <1>2, <1>3, <1>5, <1>6, <1>7, <1>8 DEF o

-----------------------------------------------------------------------------
(* The variables of the DomainVerification.                                *)

LEMMA IdleDVEffect ==
  IdleDV \in DVPasses /\ ~IdleDV.now.verified /\ NoDV \in Verifications /\ ~NoDV.verified
BY DEF IdleDV, NoDV, DVPasses, Verifications

\* The user writes the object.
LEMMA WriteDVEffect ==
  ASSUME DVTypes, NEW d \in Verifications, ~d.verified, WriteDV(d), UNCHANGED <<txt, proved>>
  PROVE  DVTypes' /\ (DVProved => DVProved')
<1>1. dv' = d /\ news' = TRUE /\ txt' = txt /\ proved' = proved
  BY DEF WriteDV
<1>2. /\ dvCache' \in DVCaches /\ dvCache'.obj = dvCache.obj
      /\ dvPass' \in DVPasses /\ dvPass'.now = dvPass.now
  BY Zenon DEF WriteDV, DVTypes, DVCaches, DVPasses
<1> QED
  BY <1>1, <1>2 DEF DVTypes, DVProved

LEMMA DVSyncEffect ==
  ASSUME DVTypes, DVSync
  PROVE  DVTypes' /\ (DVProved => DVProved')
<1>1. /\ dv' = dv /\ news' = news /\ txt' = txt /\ proved' = proved
  BY DEF DVSync, history
<1>2. /\ dvCache' \in DVCaches /\ dvCache'.obj = dv
      /\ dvPass' \in DVPasses /\ dvPass'.now = dvPass.now
  BY Zenon DEF DVSync, DVTypes, DVCaches, DVPasses
<1> QED
  BY <1>1, <1>2 DEF DVTypes, DVProved

LEMMA InPlaceEffect ==
  ASSUME DVTypes, NEW p \in DVPasses, InPlace(p)
  PROVE  /\ dvPass' = p /\ dvCache' \in DVCaches
         /\ dvCache'.obj.verified => p.now.verified \/ dvCache.obj.verified
<1>1. p.now \in Verifications /\ dvCache.obj \in Verifications
  BY DEF DVTypes, DVPasses, DVCaches
<1>2. dvPass' = p /\ dvCache' = [dvCache EXCEPT !.obj = IF p.shared THEN p.now ELSE dvCache.obj]
  BY Zenon DEF InPlace
<1> QED
  BY <1>1, <1>2 DEF DVTypes, DVCaches

\* A pass takes nothing for verified when it begins.
LEMMA DVBeginEffect ==
  ASSUME DVTypes, DVBegin
  PROVE  DVTypes' /\ (DVProved => DVProved')
<1>1. /\ dv' = dv /\ news' = news /\ txt' = txt /\ proved' = proved
  BY DEF DVBegin, history
<1>2. CASE dvCache.obj.exists
  <2> DEFINE tokened == dvCache.obj.token
             now == [dvCache.obj EXCEPT !.verified = FALSE, !.token = TRUE]
             p == [pc |-> IF tokened THEN "lookup" ELSE "status", now |-> now,
                   was |-> dvCache.obj, shared |-> TRUE, fresh |-> dvCache.fresh,
                   looked |-> tokened]
  <2>1. InPlace(p)
    BY <1>2, Zenon DEF DVBegin
  <2>2. dvCache.obj \in Verifications /\ dvCache.fresh \in BOOLEAN /\ tokened \in BOOLEAN
    BY DEF DVTypes, DVCaches, Verifications
  <2>3. now \in Verifications /\ ~now.verified
    BY <2>2, Zenon DEF Verifications
  <2> HIDE DEF tokened, now
  <2>4. p \in DVPasses /\ p.now = now
    BY <2>2, <2>3 DEF DVPasses
  <2> HIDE DEF p
  <2> QED
    BY <1>1, <2>1, <2>3, <2>4, InPlaceEffect DEF DVTypes, DVProved
<1>3. CASE ~dvCache.obj.exists
  <2>1. dvCache' = dvCache /\ dvPass' = dvPass
    BY <1>3 DEF DVBegin
  <2> QED
    BY <1>1, <2>1 DEF DVTypes, DVProved
<1> QED
  BY <1>2, <1>3

\* Verified is what is found.
LEMMA TxtFoundEffect ==
  ASSUME DVTypes, TxtFound
  PROVE  DVTypes' /\ DVProved'
<1> DEFINE now == [dvPass.now EXCEPT !.verified = TRUE]
           p == [dvPass EXCEPT !.pc = "status", !.now = now]
<1>1. /\ dv' = dv /\ news' = news /\ txt' = txt /\ proved' = TRUE
  BY DEF TxtFound
<1>2. dvPass.now \in Verifications /\ "status" \in {"idle", "lookup", "status", "update"}
  BY DEF DVTypes, DVPasses
<1>3. now \in Verifications
  BY <1>2, Zenon DEF Verifications
<1>4. InPlace(p)
  BY Zenon DEF TxtFound, DVTypes, DVPasses
<1> HIDE DEF now
<1>5. p \in DVPasses
  BY <1>2, <1>3, Zenon DEF DVTypes, DVPasses
<1> HIDE DEF p
<1> QED
  BY <1>1, <1>4, <1>5, InPlaceEffect DEF DVTypes, DVProved

LEMMA TxtMissingEffect ==
  ASSUME DVTypes, TxtMissing
  PROVE  DVTypes' /\ (DVProved => DVProved')
<1> DEFINE p == [dvPass EXCEPT !.pc = "status"]
<1>1. /\ dv' = dv /\ news' = news /\ txt' = txt /\ proved' = proved
  BY DEF TxtMissing, history
<1>2. InPlace(p)
  BY Zenon DEF TxtMissing
<1>3. p \in DVPasses /\ p.now = dvPass.now
  BY DEF DVTypes, DVPasses
<1> HIDE DEF p
<1> QED
  BY <1>1, <1>2, <1>3, InPlaceEffect DEF DVTypes, DVProved

\* What is saved is what the pass found.
LEMMA UpdateStatusEffect ==
  ASSUME DVTypes, UpdateStatus
  PROVE  DVTypes' /\ (DVProved => DVProved')
<1>1. txt' = txt /\ proved' = proved
  BY DEF UpdateStatus, history
<1>2. CASE Differs(dvPass) /\ dvPass.fresh
  <2>1. PICK sameSecond \in BOOLEAN :
          LET stored == [dv EXCEPT !.token = TRUE, !.verified = dvPass.now.verified]
              changed == stored # dv \/ ~sameSecond
          IN  /\ dv' = stored
              /\ dvCache' = [dvCache EXCEPT !.fresh = IF changed THEN dvPass.shared ELSE @,
                                            !.due = @ \/ changed]
              /\ news' = (news \/ changed)
              /\ dvPass' = [IdleDV EXCEPT !.pc = "update", !.fresh = TRUE]
    BY <1>2, Zenon DEF UpdateStatus
  <2> DEFINE stored == [dv EXCEPT !.token = TRUE, !.verified = dvPass.now.verified]
             changed == stored # dv \/ ~sameSecond
             fresh == IF changed THEN dvPass.shared ELSE dvCache.fresh
             due == dvCache.due \/ changed
             new == [dvCache EXCEPT !.fresh = fresh, !.due = due]
  <2>2. dvPass.now.verified \in BOOLEAN /\ dvPass.shared \in BOOLEAN
    BY DEF DVTypes, DVPasses, Verifications
  <2>3. stored \in Verifications /\ stored.verified = dvPass.now.verified
    BY <2>2, Zenon DEF DVTypes, Verifications
  <2>4. /\ dv' = stored /\ dvCache' = new /\ news' \in BOOLEAN
        /\ dvPass' = [IdleDV EXCEPT !.pc = "update", !.fresh = TRUE]
    BY <2>1, Zenon DEF DVTypes, DVCaches
  <2>5. fresh \in BOOLEAN /\ due \in BOOLEAN
    BY <2>2 DEF DVTypes, DVCaches
  <2> HIDE DEF stored, changed, fresh, due
  <2>6. new \in DVCaches /\ new.obj = dvCache.obj
    BY <2>5, Zenon DEF DVTypes, DVCaches
  <2> HIDE DEF new
  <2>7. "update" \in {"idle", "lookup", "status", "update"}
    OBVIOUS
  <2>8. dvPass' \in DVPasses /\ ~dvPass'.now.verified
    BY <2>4, <2>7, IdleDVEffect, Zenon DEF DVPasses
  <2> QED
    BY <1>1, <2>3, <2>4, <2>6, <2>8 DEF DVTypes, DVProved
<1>3. CASE ~(Differs(dvPass) /\ dvPass.fresh)
  <2>1. dv' = dv /\ dvCache' = dvCache /\ news' = news /\ dvPass' = IdleDV
    BY <1>3 DEF UpdateStatus, DVAbort
  <2> QED
    BY <1>1, <2>1, IdleDVEffect DEF DVTypes, DVProved
<1> QED
  BY <1>2, <1>3

\* The other steps of the controller give the pass up or end it.
LEMMA DVEndEffect ==
  ASSUME DVTypes, LookupFails \/ Update \/ DVFails
  PROVE  DVTypes' /\ (DVProved => DVProved')
<1>1. /\ dv' = dv /\ dvCache' = dvCache /\ news' = news /\ txt' = txt /\ proved' = proved
      /\ dvPass' = IdleDV
  BY DEF LookupFails, Update, DVFails, DVAbort, history
<1> QED
  BY <1>1, IdleDVEffect DEF DVTypes, DVProved

\* So the whole of the controller, its informer and the user's part in it.
LEMMA DVNext ==
  ASSUME DVTypes, [Next]_vars
  PROVE  DVTypes' /\ (DVProved => DVProved') /\ (proved => proved')
<1>1. CASE DVStep
  <2>1. CASE TxtFound
    <3>1. DVTypes' /\ DVProved'
      BY <2>1, TxtFoundEffect
    <3>2. proved'
      BY <2>1, Zenon DEF TxtFound
    <3> QED
      BY <3>1, <3>2
  <2>2. CASE DVBegin
    BY <2>2, DVBeginEffect DEF DVBegin, history
  <2>3. CASE TxtMissing
    BY <2>3, TxtMissingEffect DEF TxtMissing, history
  <2>4. CASE UpdateStatus
    BY <2>4, UpdateStatusEffect DEF UpdateStatus, history
  <2>5. CASE LookupFails \/ Update
    BY <2>5, DVEndEffect DEF LookupFails, Update, history
  <2> QED
    BY <1>1, <2>1, <2>2, <2>3, <2>4, <2>5 DEF DVStep
<1>2. CASE DVSync
  BY <1>2, DVSyncEffect DEF DVSync, history
<1>3. CASE IngressesFromDomainVerification
  BY <1>3 DEF IngressesFromDomainVerification, history, DVTypes, DVProved
<1>4. CASE DVFails
  BY <1>4, DVEndEffect DEF DVFails, history
<1>5. CASE Crash
  <2>1. dvCache' \in DVCaches /\ dvCache'.obj = dv
    BY <1>5, Zenon DEF Crash, DVTypes, DVCaches
  <2>2. dv' = dv /\ txt' = txt /\ proved' = proved /\ news' = FALSE /\ dvPass' = IdleDV
    BY <1>5 DEF Crash, history
  <2> QED
    BY <2>1, <2>2, IdleDVEffect DEF DVTypes, DVProved
<1>6. CASE UserCreatesVerification
  <2>1. [NoDV EXCEPT !.exists = TRUE] \in Verifications /\ ~[NoDV EXCEPT !.exists = TRUE].verified
    BY DEF NoDV, Verifications
  <2> QED
    BY <1>6, <2>1, WriteDVEffect DEF UserCreatesVerification, history
<1>7. CASE UserDeletesVerification
  BY <1>7, IdleDVEffect, WriteDVEffect DEF UserDeletesVerification, history
<1>8. CASE UserSetsTxt
  <2>1. txt' \in BOOLEAN
    BY <1>8, Zenon DEF UserSetsTxt
  <2>2. dv' = dv /\ dvCache' = dvCache /\ dvPass' = dvPass /\ news' = news /\ proved' = proved
    BY <1>8 DEF UserSetsTxt, dvVars, history
  <2> QED
    BY <2>1, <2>2 DEF DVTypes, DVProved
<1>9. ASSUME NEW i \in Ingresses,
             \/ Sync(i) \/ Begin(i) \/ ListVerifications(i) \/ Save(i) \/ PassFails(i)
             \/ Report(i) \/ \E h \in Hosts : UserAddsRule(i, h)
      PROVE  DVTypes' /\ (DVProved => DVProved') /\ (proved => proved')
  BY <1>9 DEF Sync, Begin, ListVerifications, Save, PassFails, Report, UserAddsRule,
              dvVars, history, DVTypes, DVProved
<1>10. CASE UNCHANGED vars
  BY <1>10 DEF vars, dvVars, DVTypes, DVProved
<1> QED
  BY <1>1, <1>2, <1>3, <1>4, <1>5, <1>6, <1>7, <1>8, <1>9, <1>10
     DEF Next, Informers, Faults, User, Step

-----------------------------------------------------------------------------
(* Type correctness, and that the rules stay the user's.                   *)

LEMMA SaveEffect ==
  ASSUME IngressTypes, OwnedInv, NEW i \in Ingresses, Save(i), pass[i].fresh
  PROVE  LET new == Outcome(ing[i], pass[i].verified)
         IN  /\ WriteOver(i, IdlePass, new) /\ new \in IngressObjects /\ Owned(new)
             /\ (Whole(ing[i]) => Whole(new))
             /\ \A r \in new.patch.rules :
                  r.host # Gen => r \in ing[i].patch.rules \/ r.host \in pass[i].verified
<1>1. ing[i] \in IngressObjects /\ Owned(ing[i]) /\ pass[i].verified \in SUBSET Hosts
  BY DEF IngressTypes, OwnedInv, Passes
<1>2. WriteOver(i, IdlePass, Outcome(ing[i], pass[i].verified))
  BY Zenon DEF Save, Outcome
<1> QED
  BY <1>1, <1>2, OutcomeEffect

\* A pass that ends without saving.
LEMMA GiveUpEffect ==
  ASSUME IngressTypes, NEW i \in Ingresses, pass' = [pass EXCEPT ![i] = IdlePass],
         UNCHANGED <<ing, cache>>
  PROVE  /\ IngressTypes' /\ pass'[i] = IdlePass
         /\ \A j \in Ingresses \ {i} : pass'[j] = pass[j]
BY IdlePassEffect DEF IngressTypes

LEMMA FaultEffect ==
  ASSUME spent \in Spents, spent.faults < MaxFaults,
         spent' = [spent EXCEPT !.faults = @ + 1]
  PROVE  spent' \in Spents
BY CustomHostsAssumption DEF Spents

LEMMA ChangeEffect ==
  ASSUME spent \in Spents, Change
  PROVE  spent' \in Spents
BY CustomHostsAssumption DEF Change, Spents

\* Ingresses once turned stay among them, and only a syncer adds one.
LEMMA TurnedNext ==
  ASSUME turned \subseteq Ingresses, [Next]_vars
  PROVE  turned \subseteq turned' /\ turned' \subseteq Ingresses
<1>1. CASE DVStep
  BY <1>1 DEF DVStep, DVBegin, TxtFound, TxtMissing, UpdateStatus, LookupFails, Update, history
<1>2. CASE Informers
  BY <1>2 DEF Informers, DVSync, IngressesFromDomainVerification, Sync, history
<1>3. CASE Faults
  BY <1>3 DEF Faults, DVFails, Crash, PassFails, history
<1>4. CASE User
  BY <1>4 DEF User, UserCreatesVerification, UserDeletesVerification, UserSetsTxt, UserAddsRule,
              history
<1>5. ASSUME NEW i \in Ingresses, Step(i)
      PROVE  turned \subseteq turned' /\ turned' \subseteq Ingresses
  BY <1>5 DEF Step, Begin, ListVerifications, Save, history
<1>6. ASSUME NEW i \in Ingresses, Report(i)
      PROVE  turned \subseteq turned' /\ turned' \subseteq Ingresses
  BY <1>6 DEF Report
<1>7. CASE UNCHANGED vars
  BY <1>7 DEF vars
<1> QED
  BY <1>1, <1>2, <1>3, <1>4, <1>5, <1>6, <1>7 DEF Next

LEMMA CrashEffect ==
  ASSUME IngressTypes, Crash
  PROVE  IngressTypes' /\ ing' = ing /\ \A i \in Ingresses : pass'[i] = IdlePass
<1>1. \A i \in Ingresses : [obj |-> ing[i], fresh |-> TRUE] \in Caches
  BY Zenon DEF IngressTypes, Caches
<1>2. /\ ing' = ing
      /\ cache' = [i \in Ingresses |-> [obj |-> ing[i], fresh |-> TRUE]]
      /\ pass' = [i \in Ingresses |-> IdlePass]
  BY DEF Crash
<1>3. cache' \in [Ingresses -> Caches]
  BY <1>1, <1>2, Zenon
<1> QED
  BY <1>2, <1>3, IdlePassEffect DEF IngressTypes

LEMMA TypeNext == TypeOK /\ OwnedInv /\ [Next]_vars => (TypeOK /\ OwnedInv)'
<1> SUFFICES ASSUME TypeOK, OwnedInv, [Next]_vars PROVE (TypeOK /\ OwnedInv)'
  OBVIOUS
<1>1. /\ IngressTypes /\ DVTypes /\ queued \subseteq Ingresses \union {"dv"}
      /\ turned \subseteq Ingresses /\ spent \in Spents
  BY Typed
<1>2. DVTypes' /\ turned \subseteq turned' /\ turned' \subseteq Ingresses
  BY <1>1, DVNext, TurnedNext
<1>3. TypeOK' <=> /\ IngressTypes' /\ DVTypes'
                  /\ queued' \subseteq Ingresses \union {"dv"} /\ turned' \subseteq Ingresses
                  /\ spent' \in Spents
  BY DEF TypeOK, IngressTypes, DVTypes, Caches, Passes, DVCaches, DVPasses, Spents
<1>4. /\ UNCHANGED ingVars => IngressTypes'
      /\ UNCHANGED ing => OwnedInv'
  BY <1>1, <1>2 DEF ingVars, IngressTypes, OwnedInv
<1> USE <1>1, <1>2, <1>3, <1>4
<1>5. CASE DVStep
  BY <1>5 DEF DVStep, DVBegin, TxtFound, TxtMissing, UpdateStatus, LookupFails, Update, DVAbort,
              ingVars
<1>6. CASE DVSync
  BY <1>6 DEF DVSync, ingVars
<1>7. CASE IngressesFromDomainVerification
  <2>1. PICK found \in Found : queued' = queued \union found
    BY <1>7 DEF IngressesFromDomainVerification
  <2>2. found \subseteq Ingresses
    BY <2>1 DEF Found, WithTMC, Labelled
  <2> QED
    BY <1>7, <2>1, <2>2 DEF IngressesFromDomainVerification, ingVars
<1>8. CASE DVFails
  BY <1>8, FaultEffect DEF DVFails, DVAbort, ingVars
<1>9. CASE Crash
  BY <1>9, CrashEffect, FaultEffect DEF Crash
<1>10. CASE UserCreatesVerification \/ UserDeletesVerification \/ UserSetsTxt
  BY <1>10, ChangeEffect
     DEF UserCreatesVerification, UserDeletesVerification, UserSetsTxt, ingVars
<1>11. ASSUME NEW i \in Ingresses, NEW h \in Hosts, UserAddsRule(i, h)
       PROVE  (TypeOK /\ OwnedInv)'
  <2>1. /\ WriteOver(i, pass[i], ing'[i]) /\ ing'[i] \in IngressObjects /\ Owned(ing'[i])
        /\ i \notin turned' => Whole(ing'[i])
        /\ pass[i] \in Passes
    BY <1>11, UserAddsRuleEffect DEF OwnedInv, IngressTypes
  <2>2. IngressTypes' /\ \A j \in Ingresses \ {i} : ing'[j] = ing[j]
    BY <2>1, WriteOverEffect
  <2> QED
    BY <1>11, <2>1, <2>2 DEF UserAddsRule, OwnedInv
<1>12. ASSUME NEW i \in Ingresses, Report(i)
       PROVE  (TypeOK /\ OwnedInv)'
  <2>1. /\ WriteOver(i, pass[i], ing'[i]) /\ ing'[i] \in IngressObjects /\ Owned(ing'[i])
        /\ i \notin turned' => Whole(ing'[i])
        /\ pass[i] \in Passes
    BY <1>12, ReportEffect DEF OwnedInv, IngressTypes
  <2>2. IngressTypes' /\ \A j \in Ingresses \ {i} : ing'[j] = ing[j]
    BY <2>1, WriteOverEffect
  <2> QED
    BY <1>12, <2>1, <2>2, ChangeEffect DEF Report, OwnedInv
<1>13. ASSUME NEW i \in Ingresses, Sync(i) PROVE (TypeOK /\ OwnedInv)'
  BY <1>13, SyncEffect DEF Sync
<1>14. ASSUME NEW i \in Ingresses, Begin(i) PROVE (TypeOK /\ OwnedInv)'
  BY <1>14, BeginEffect DEF Begin
<1>15. ASSUME NEW i \in Ingresses, ListVerifications(i) PROVE (TypeOK /\ OwnedInv)'
  BY <1>15, ListEffect DEF ListVerifications
<1>16. ASSUME NEW i \in Ingresses, Save(i) PROVE (TypeOK /\ OwnedInv)'
  <2>1. CASE pass[i].fresh
    <3> DEFINE new == Outcome(ing[i], pass[i].verified)
    <3>1. /\ WriteOver(i, IdlePass, new) /\ new \in IngressObjects /\ Owned(new)
          /\ (Whole(ing[i]) => Whole(new))
      BY <1>16, <2>1, SaveEffect
    <3> HIDE DEF new
    <3>2. IngressTypes' /\ ing'[i] = new /\ \A j \in Ingresses \ {i} : ing'[j] = ing[j]
      BY <3>1, WriteOverEffect, IdlePassEffect
    <3> QED
      BY <1>16, <2>1, <3>1, <3>2 DEF Save, OwnedInv
  <2>2. CASE ~pass[i].fresh
    BY <1>16, <2>2, GiveUpEffect DEF Save
  <2> QED
    BY <2>1, <2>2
<1>17. ASSUME NEW i \in Ingresses, PassFails(i) PROVE (TypeOK /\ OwnedInv)'
  BY <1>17, GiveUpEffect, FaultEffect DEF PassFails
<1>18. CASE UNCHANGED vars
  BY <1>18 DEF vars, ingVars
<1> QED
  BY <1>5, <1>6, <1>7, <1>8, <1>9, <1>10, <1>11, <1>12, <1>13, <1>14, <1>15, <1>16, <1>17, <1>18
     DEF Next, Informers, Faults, User, Step

-----------------------------------------------------------------------------
(* What is known of the domain, and what is left to do.                    *)

LEMMA ProvedNext == TypeOK /\ OwnedInv /\ ProvedInv /\ [Next]_vars => ProvedInv'
<1> SUFFICES ASSUME TypeOK, OwnedInv, ProvedInv, [Next]_vars PROVE ProvedInv'
  OBVIOUS
<1>1. IngressTypes /\ DVTypes
  BY Typed
<1>2. DVProved' /\ (proved => proved')
  BY <1>1, DVNext DEF ProvedInv
<1> SUFFICES ASSUME NEW i \in Ingresses
             PROVE  /\ Proven(pass[i].verified)'
                    /\ \A r \in ing'[i].patch.rules : r.host # Gen => proved' /\ r.host \in Covered
  BY <1>2 DEF ProvedInv
<1>3. /\ Proven(pass[i].verified)
      /\ \A r \in ing[i].patch.rules : r.host # Gen => proved /\ r.host \in Covered
  BY DEF ProvedInv
<1> USE DEF Proven
<1>4. CASE ing' = ing /\ pass' = pass
  BY <1>2, <1>3, <1>4
<1>5. CASE DVStep \/ DVSync \/ IngressesFromDomainVerification \/ DVFails
           \/ UserCreatesVerification \/ UserDeletesVerification \/ UserSetsTxt
  BY <1>4, <1>5
     DEF DVStep, DVBegin, TxtFound, TxtMissing, LookupFails, UpdateStatus, Update, DVSync, DVFails,
         IngressesFromDomainVerification, UserCreatesVerification, UserDeletesVerification,
         UserSetsTxt, ingVars
<1>6. CASE Crash
  BY <1>1, <1>2, <1>3, <1>6, CrashEffect, IdlePassEffect
<1>7. ASSUME NEW j \in Ingresses, NEW h \in Hosts, UserAddsRule(j, h)
      PROVE  /\ Proven(pass[i].verified)'
             /\ \A r \in ing'[i].patch.rules : r.host # Gen => proved' /\ r.host \in Covered
  <2>1. /\ WriteOver(j, pass[j], ing'[j]) /\ ing'[j] \in IngressObjects
        /\ ing'[j].patch = ing[j].patch /\ pass[j] \in Passes
    BY <1>1, <1>7, UserAddsRuleEffect DEF IngressTypes
  <2>2. pass'[i].verified = pass[i].verified /\ ing'[i].patch = ing[i].patch
    BY <1>1, <2>1, WriteOverEffect
  <2> QED
    BY <1>2, <1>3, <2>2
<1>8. ASSUME NEW j \in Ingresses, Report(j)
      PROVE  /\ Proven(pass[i].verified)'
             /\ \A r \in ing'[i].patch.rules : r.host # Gen => proved' /\ r.host \in Covered
  <2>1. /\ WriteOver(j, pass[j], ing'[j]) /\ ing'[j] \in IngressObjects
        /\ ing'[j].patch = ing[j].patch /\ pass[j] \in Passes
    BY <1>1, <1>8, ReportEffect DEF IngressTypes
  <2>2. pass'[i].verified = pass[i].verified /\ ing'[i].patch = ing[i].patch
    BY <1>1, <2>1, WriteOverEffect
  <2> QED
    BY <1>2, <1>3, <2>2
<1>9. ASSUME NEW j \in Ingresses, Sync(j)
      PROVE  /\ Proven(pass[i].verified)'
             /\ \A r \in ing'[i].patch.rules : r.host # Gen => proved' /\ r.host \in Covered
  BY <1>1, <1>4, <1>9, SyncEffect
<1>10. ASSUME NEW j \in Ingresses, Begin(j)
       PROVE  /\ Proven(pass[i].verified)'
              /\ \A r \in ing'[i].patch.rules : r.host # Gen => proved' /\ r.host \in Covered
  BY <1>1, <1>2, <1>3, <1>10, BeginEffect
<1>11. ASSUME NEW j \in Ingresses, ListVerifications(j)
       PROVE  /\ Proven(pass[i].verified)'
              /\ \A r \in ing'[i].patch.rules : r.host # Gen => proved' /\ r.host \in Covered
  <2>1. Proven({h \in Hosts : IsDomainVerified(h)})
    BY DEF IsDomainVerified, ProvedInv, DVProved
  <2> QED
    BY <1>1, <1>2, <1>3, <1>11, <2>1, ListEffect
<1>12. ASSUME NEW j \in Ingresses, Save(j)
       PROVE  /\ Proven(pass[i].verified)'
              /\ \A r \in ing'[i].patch.rules : r.host # Gen => proved' /\ r.host \in Covered
  <2>1. CASE pass[j].fresh
    <3> DEFINE new == Outcome(ing[j], pass[j].verified)
    <3>1. /\ WriteOver(j, IdlePass, new) /\ new \in IngressObjects
          /\ \A r \in new.patch.rules :
               r.host # Gen => r \in ing[j].patch.rules \/ r.host \in pass[j].verified
      BY <1>1, <1>12, <2>1, SaveEffect
    <3> HIDE DEF new
    <3>2. /\ ing'[j] = new /\ (i # j => ing'[i] = ing[i] /\ pass'[i] = pass[i])
          /\ pass'[j].verified = {}
      BY <1>1, <3>1, WriteOverEffect, IdlePassEffect
    <3>3. CASE i = j
      <4>1. \A r \in new.patch.rules : r.host # Gen => proved /\ r.host \in Covered
        BY <1>3, <3>1, <3>3
      <4> QED
        BY <1>2, <3>2, <3>3, <4>1
    <3>4. CASE i # j
      BY <1>2, <1>3, <3>2, <3>4
    <3> QED
      BY <3>3, <3>4
  <2>2. CASE ~pass[j].fresh
    BY <1>1, <1>2, <1>3, <1>12, <2>2, GiveUpEffect, IdlePassEffect DEF Save
  <2> QED
    BY <2>1, <2>2
<1>13. ASSUME NEW j \in Ingresses, PassFails(j)
       PROVE  /\ Proven(pass[i].verified)'
              /\ \A r \in ing'[i].patch.rules : r.host # Gen => proved' /\ r.host \in Covered
  BY <1>1, <1>2, <1>3, <1>13, GiveUpEffect, IdlePassEffect DEF PassFails
<1>14. CASE UNCHANGED vars
  BY <1>4, <1>14 DEF vars, ingVars
<1> QED
  BY <1>5, <1>6, <1>7, <1>8, <1>9, <1>10, <1>11, <1>12, <1>13, <1>14
     DEF Next, Informers, Faults, User, Step

LEMMA RestNext == TypeOK /\ OwnedInv /\ ProvedInv /\ RestInv /\ [Next]_vars => RestInv'
<1> SUFFICES ASSUME TypeOK, OwnedInv, ProvedInv, RestInv, [Next]_vars,
                    NEW i \in Ingresses
             PROVE  Rests(i)'
  BY DEF RestInv
<1>1. IngressTypes /\ DVTypes /\ i # "dv"
  BY Typed, CustomHostsAssumption
<1>2. proved => proved'
  BY <1>1, DVNext
<1>3. Rests(i)
  BY DEF RestInv
<1>4. \A verified : Proven(verified) => Proven(verified)'
  BY <1>2 DEF Proven
<1> USE DEF Rests
<1>5. ASSUME ing'[i] = ing[i], cache'[i] = cache[i], pass'[i] = pass[i],
             i \in queued => i \in queued'
      PROVE  Rests(i)'
  BY <1>3, <1>4, <1>5
<1>6. CASE DVStep \/ DVSync \/ IngressesFromDomainVerification \/ DVFails
           \/ UserCreatesVerification \/ UserDeletesVerification \/ UserSetsTxt
  <2>1. ing' = ing /\ cache' = cache /\ pass' = pass
    BY <1>6
       DEF DVStep, DVBegin, TxtFound, TxtMissing, LookupFails, UpdateStatus, Update, DVSync,
           DVFails, IngressesFromDomainVerification, UserCreatesVerification,
           UserDeletesVerification, UserSetsTxt, ingVars
  <2>2. i \in queued => i \in queued'
    BY <1>1, <1>6
       DEF DVStep, DVBegin, TxtFound, TxtMissing, LookupFails, UpdateStatus, Update, DVSync,
           DVFails, IngressesFromDomainVerification, UserCreatesVerification,
           UserDeletesVerification, UserSetsTxt, DVAbort
  <2> QED
    BY <1>5, <2>1, <2>2
<1>7. CASE Crash
  BY <1>7 DEF Crash
<1>8. ASSUME NEW j \in Ingresses, NEW h \in Hosts, UserAddsRule(j, h) PROVE Rests(i)'
  <2>1. /\ WriteOver(j, pass[j], ing'[j]) /\ ing'[j] \in IngressObjects
        /\ ing'[j] # ing[j] /\ pass[j] \in Passes /\ queued' = queued
    BY <1>1, <1>8, UserAddsRuleEffect DEF IngressTypes, UserAddsRule
  <2>2. /\ ~cache'[j].fresh
        /\ i # j => ing'[i] = ing[i] /\ cache'[i] = cache[i] /\ pass'[i] = pass[i]
    BY <1>1, <2>1, WriteOverEffect
  <2> QED
    BY <1>5, <2>1, <2>2
<1>9. ASSUME NEW j \in Ingresses, Report(j) PROVE Rests(i)'
  <2>1. /\ WriteOver(j, pass[j], ing'[j]) /\ ing'[j] \in IngressObjects
        /\ ing'[j] # ing[j] /\ pass[j] \in Passes /\ queued' = queued
    BY <1>1, <1>9, ReportEffect DEF IngressTypes, Report
  <2>2. /\ ~cache'[j].fresh
        /\ i # j => ing'[i] = ing[i] /\ cache'[i] = cache[i] /\ pass'[i] = pass[i]
    BY <1>1, <2>1, WriteOverEffect
  <2> QED
    BY <1>5, <2>1, <2>2
<1>10. ASSUME NEW j \in Ingresses, Sync(j) PROVE Rests(i)'
  <2>1. /\ ing' = ing /\ pass' = pass /\ queued' = queued \union {j}
        /\ i # j => cache'[i] = cache[i]
    BY <1>1, <1>10, SyncEffect DEF Sync
  <2> QED
    BY <1>5, <2>1
<1>11. ASSUME NEW j \in Ingresses, Begin(j) PROVE Rests(i)'
  <2>1. /\ ing' = ing /\ cache' = cache /\ queued' = queued \ {j}
        /\ pass'[j].pc = "list" /\ pass'[j].fresh = cache[j].fresh
        /\ i # j => pass'[i] = pass[i]
    BY <1>1, <1>11, BeginEffect DEF Begin
  <2>2. CASE i = j
    BY <2>1, <2>2
  <2>3. CASE i # j
    BY <1>5, <2>1, <2>3
  <2> QED
    BY <2>2, <2>3
<1>12. ASSUME NEW j \in Ingresses, ListVerifications(j) PROVE Rests(i)'
  <2>1. /\ ing' = ing /\ cache' = cache /\ queued' = queued
        /\ pass[j].pc = "list" /\ pass'[j].pc = "save" /\ pass'[j].fresh = pass[j].fresh
        /\ i # j => pass'[i] = pass[i]
    BY <1>1, <1>12, ListEffect DEF ListVerifications
  <2>2. CASE i = j
    BY <1>3, <2>1, <2>2
  <2>3. CASE i # j
    BY <1>5, <2>1, <2>3
  <2> QED
    BY <2>2, <2>3
<1>13. ASSUME NEW j \in Ingresses, Save(j) PROVE Rests(i)'
  <2>1. CASE pass[j].fresh
    <3> DEFINE new == Outcome(ing[j], pass[j].verified)
    <3>1. WriteOver(j, IdlePass, new) /\ new \in IngressObjects /\ queued' = queued
      BY <1>1, <1>13, <2>1, SaveEffect DEF Save
    <3>2. pass[j].verified \in SUBSET Hosts /\ Proven(pass[j].verified)
      BY <1>1 DEF ProvedInv, IngressTypes, Passes
    <3>3. new = Outcome(ing[j], pass[j].verified)
      OBVIOUS
    <3> HIDE DEF new
    <3>4. /\ ing'[j] = new /\ pass'[j].pc = "idle"
          /\ cache'[j].fresh = (cache[j].fresh /\ new = ing[j])
          /\ i # j => ing'[i] = ing[i] /\ cache'[i] = cache[i] /\ pass'[i] = pass[i]
      BY <1>1, <3>1, WriteOverEffect, IdlePassEffect
    <3>5. CASE i = j
      <4> SUFFICES ASSUME cache'[i].fresh
                   PROVE  \E verified \in SUBSET Hosts :
                            Proven(verified)' /\ Outcome(ing'[i], verified) = ing'[i]
        BY <3>4, <3>5
      <4>1. Outcome(ing'[i], pass[i].verified) = ing'[i]
        BY <3>3, <3>4, <3>5
      <4> QED
        BY <1>4, <3>2, <3>5, <4>1
    <3>6. CASE i # j
      BY <1>5, <3>1, <3>4, <3>6
    <3> QED
      BY <3>5, <3>6
  <2>2. CASE ~pass[j].fresh
    <3>1. /\ ing' = ing /\ cache' = cache /\ queued' = queued \union {j}
          /\ pass' = [pass EXCEPT ![j] = IdlePass]
      BY <1>13, <2>2 DEF Save
    <3>2. i # j => pass'[i] = pass[i]
      BY <1>1, <3>1 DEF IngressTypes
    <3> QED
      BY <1>5, <3>1, <3>2
  <2> QED
    BY <2>1, <2>2
<1>14. ASSUME NEW j \in Ingresses, PassFails(j) PROVE Rests(i)'
  <2>1. /\ ing' = ing /\ cache' = cache /\ queued' = queued \union {j}
        /\ pass' = [pass EXCEPT ![j] = IdlePass]
    BY <1>14 DEF PassFails
  <2>2. i # j => pass'[i] = pass[i]
    BY <1>1, <2>1 DEF IngressTypes
  <2> QED
    BY <1>5, <2>1, <2>2
<1>15. CASE UNCHANGED vars
  BY <1>5, <1>15 DEF vars, ingVars
<1> QED
  BY <1>6, <1>7, <1>8, <1>9, <1>10, <1>11, <1>12, <1>13, <1>14, <1>15
     DEF Next, Informers, Faults, User, Step

-----------------------------------------------------------------------------
LEMMA InitialStates == Init => IInv
<1> SUFFICES ASSUME Init PROVE IInv
  OBVIOUS
<1>1. PICK advanced \in BOOLEAN, single \in BOOLEAN :
        ing = [i \in Ingresses |-> NewIngress(advanced, single)]
  BY DEF Init
<1>2. NewIngress(advanced, single) \in IngressObjects
  <2>1. /\ RulesFor(FirstHosts) \subseteq Rules /\ FirstHosts \subseteq Hosts
        /\ FirstHosts \intersect WithTLS \subseteq Hosts
    BY CustomHostsAssumption, RuleTypes
  <2>2. NoPatch \in Patches
    BY DEF NoPatch, Patches
  <2> QED
    BY <2>1, <2>2 DEF NewIngress, IngressObjects
<1>3. /\ Owned(NewIngress(advanced, single)) /\ Whole(NewIngress(advanced, single))
      /\ NewIngress(advanced, single).patch.rules = {}
  <2>1. \A r \in RulesFor(FirstHosts) : r.host # Gen
    BY CustomHostsAssumption, RuleTypes
  <2> QED
    BY <2>1 DEF NewIngress, Owned, Whole, Custom, TMCEnabled, NoPatch
<1>4. IngressTypes
  <2>1. \A i \in Ingresses : [obj |-> ing[i], fresh |-> TRUE] \in Caches
    BY <1>1, <1>2, Zenon DEF Caches
  <2>2. cache \in [Ingresses -> Caches]
    BY <2>1, Zenon DEF Init
  <2> QED
    BY <1>1, <1>2, <2>2, IdlePassEffect DEF Init, IngressTypes
<1>5. DVTypes /\ DVProved
  <2>1. dvCache \in DVCaches /\ dvCache.obj = NoDV
    BY IdleDVEffect DEF Init, DVCaches
  <2> QED
    BY <2>1, IdleDVEffect DEF Init, DVTypes, DVProved
<1>6. spent \in Spents /\ queued = Ingresses /\ turned = {}
  BY CustomHostsAssumption DEF Init, Spents
<1>7. TypeOK
  BY <1>4, <1>5, <1>6, Typed
<1>8. OwnedInv
  BY <1>1, <1>3 DEF OwnedInv
<1>9. ProvedInv
  BY <1>1, <1>3, <1>5, IdlePassEffect DEF ProvedInv, Proven, Init
<1>10. RestInv
  BY <1>6 DEF RestInv, Rests
<1> QED
  BY <1>7, <1>8, <1>9, <1>10 DEF IInv

\* The inductive invariant.
LEMMA Invariance == Spec => []IInv
<1>1. IInv /\ [Next]_vars => IInv'
  BY TypeNext, ProvedNext, RestNext DEF IInv
<1> QED
  BY <1>1, InitialStates, PTL DEF Spec

\* The Ingresses, the DomainVerification and their passes keep their types.
THEOREM TypeCorrect == Spec => []TypeOK
<1>1. IInv => TypeOK
  BY DEF IInv
<1> QED
  BY <1>1, Invariance, PTL

\* All rules of the user are in the spec or in the annotation, whatever the statuses made
\* the controller guess, unless rules were withheld when the guess turned to advanced
\* scheduling (ingress.go:266-269, 296-315).
THEOREM NoRuleLost == Spec => []UserRulesKept
<1>1. IInv => UserRulesKept
  BY DEF IInv, OwnedInv, Owned, Whole, Known, UserRulesKept
<1> QED
  BY <1>1, Invariance, PTL

\* When nothing is left to do, the last pass over an Ingress changed nothing.
LEMMA AtRestEffect ==
  ASSUME IInv, NEW i \in Ingresses, AtRest(i), Recognised(i)
  PROVE  /\ \A r \in Served(i) : r.host # Gen => proved /\ r.host \in Covered
         /\ GenRules(Known(i)) \subseteq Served(i)
         /\ (Known(i) \subseteq Served(i)) # ing[i].label
<1>1. PICK verified \in SUBSET Hosts : Proven(verified) /\ Outcome(ing[i], verified) = ing[i]
  BY DEF IInv, RestInv, Rests, AtRest
<1>2. ing[i] \in IngressObjects /\ Owned(ing[i]) /\ (ing[i].advanced \/ ing[i].single)
  BY DEF IInv, TypeOK, OwnedInv, Recognised
<1>3. Served(i) = ServedOf(ing[i]) /\ Known(i) = KnownOf(ing[i])
  BY DEF Served, ServedOf, Known, KnownOf
<1>4. /\ \A r \in Served(i) : r.host # Gen => r \in ing[i].patch.rules \/ r.host \in verified
      /\ GenRules(Known(i)) \subseteq Served(i)
      /\ (Known(i) \subseteq Served(i)) # ing[i].label
  BY <1>1, <1>2, <1>3, SettledEffect
<1>5. \A r \in ing[i].patch.rules : r.host # Gen => proved /\ r.host \in Covered
  BY DEF IInv, ProvedInv
<1> QED
  BY <1>1, <1>4, <1>5 DEF Proven

\* No custom host is in a patch, or served at rest by an Ingress whose guess is right,
\* unless the TXT record of its domain was once found, whatever copies, lists and earlier
\* guesses the two controllers worked with (ingress.go:234-316, reconciler.go:63-92).
THEOREM NoHostUnverified == Spec => []VerifiedOnly
<1>1. IInv => VerifiedOnly
  BY AtRestEffect DEF IInv, ProvedInv, VerifiedOnly
<1> QED
  BY <1>1, Invariance, PTL

\* At rest, and with the right guess, the paths of every rule that is left are served
\* under the generated host (ingress.go:250-253, 290-294).
THEOREM NoPathLost == Spec => []PathsServed
<1>1. IInv => PathsServed
  BY AtRestEffect DEF PathsServed
<1> QED
  BY <1>1, Invariance, PTL

\* At rest, and with the right guess, the label is there exactly when a rule is withheld,
\* also if it was set or removed under the other guess (ingress.go:256-267, 304-315).
THEOREM LabelFits == Spec => []WithheldLabelled
<1>1. IInv => WithheldLabelled
  BY AtRestEffect DEF WithheldLabelled
<1> QED
  BY <1>1, Invariance, PTL

=============================================================================
