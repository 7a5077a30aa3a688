---------------------------- MODULE RoutesProofs ----------------------------
(***************************************************************************)
(* Proofs about Routes, for every number of faults and of changes of the   *)
(* domain verification: type correctness, that a custom host is served     *)
(* only once its domain was verified, that the tls settings fit the host,  *)
(* and that the shadow goes before its Route.                              *)
(***************************************************************************)
EXTENDS Routes, TLAPS

Patches == [on : BOOLEAN, host : Hosts, tls : Whose]
Caches == [obj : Objects, fresh : BOOLEAN]
Stages == {"idle", "delete", "get", "create", "update", "cert", "save"}
Passes == [pc : Stages, obj : Objects, fresh : BOOLEAN, seen : BOOLEAN, shadowed : BOOLEAN]
Spents == [faults : 0..MaxFaults, changes : 0..MaxChanges]

\* What every version of an object satisfies: the spec of the Route is the user's, the
\* shadow never has the custom host, and the patch fits the annotation.
RouteVersion(o) ==
  /\ o.tls = "user" /\ o.host \in {Custom, NoHost}
  /\ o.fins # {} => o.patch.on
  /\ ~o.deleting /\ o.patch.on =>
       IF o.pending = None THEN o.patch.host = o.host /\ o.patch.tls = "user"
                           ELSE o.patch.host = Gen("route")

ShadowVersion(o) == o.host \in {Gen("route"), NoHost}

\* been: the domain was verified once.
Version(k, o, been) ==
  o.exists =>
    /\ o.patch.host = Custom => been
    /\ IF k = "route" THEN RouteVersion(o) ELSE ShadowVersion(o)

\* A copy of one that is gone is as good as any.
VersionInv ==
  /\ verified => proved
  /\ \A k \in Keys :
       /\ Version(k, obj[k], proved) /\ (~obj[k].exists => obj[k] = NoRoute)
       /\ Version(k, cache[k].obj, proved)
       /\ pass[k].pc # "idle" => pass[k].obj.exists /\ Version(k, pass[k].obj, proved)

\* A copy that is the latest knows the object, and the informer of a key that is neither
\* queued nor passed over with an old copy has nothing to tell.
FreshInv ==
  \A k \in Keys :
    /\ cache[k].fresh => cache[k].obj = obj[k]
    /\ pass[k].fresh => pass[k].pc # "idle" /\ cache[k].fresh /\ pass[k].obj = obj[k]
    /\ pass[k].pc # "idle" /\ cache[k].fresh /\ k \notin queued => pass[k].fresh

\* A Route that may be served has no host, or its domain was verified.
ShadowedInv ==
  \A k \in Keys :
    /\ pass[k].shadowed => /\ k = "route"
                           /\ pass[k].obj.host = Custom => proved
    /\ pass[k].pc \in {"get", "create", "update"} => pass[k].shadowed
    /\ pass[k].pc \in {"delete", "save"} => pass[k].obj.deleting
    /\ k = "shadow" => pass[k].pc \in {"idle", "cert", "save"}
    /\ pass[k].pc = "update" /\ pass[k].seen => obj["shadow"].exists

\* What the last pass over an object at rest has left.
RestInv ==
  \A k \in Keys :
    AtRest(k) =>
      /\ obj[k].patch.on
      /\ k = "shadow" => obj[k].patch.host = Gen(k)
      /\ cert[k] = "ready" /\ (k = "shadow" \/ obj[k].pending # None) => obj[k].patch.tls = k

\* The pass that lets a Route go has deleted the shadow before, and nobody makes another.
ShadowGone ==
  /\ pass["route"].obj.deleting /\ ~pass["route"].shadowed /\ pass["route"].pc \in {"cert", "save"}
     => ~obj["shadow"].exists \/ obj["shadow"].deleting

IInv ==
  /\ TypeOK
  /\ VersionInv /\ FreshInv /\ ShadowedInv /\ RestInv /\ ShadowGone

-----------------------------------------------------------------------------
(* What the pieces that actions are made of do to the objects, their       *)
(* copies and the passes.                                                  *)

ObjectTypes ==
  obj \in [Keys -> Objects] /\ cache \in [Keys -> Caches] /\ pass \in [Keys -> Passes]

LEMMA Typed ==
  TypeOK <=> /\ ObjectTypes
             /\ queued \subseteq Keys /\ cert \in [Keys -> {"none", "issuing", "ready"}]
             /\ verified \in BOOLEAN /\ news \in BOOLEAN /\ proved \in BOOLEAN
             /\ spent \in Spents
BY DEF TypeOK, ObjectTypes, Caches, Passes, Stages, Spents

LEMMA Bounds == MaxFaults \in Nat /\ MaxChanges \in Nat
BY RoutesAssumption, Zenon

LEMMA KeysAndHosts ==
  /\ "route" \in Keys /\ "shadow" \in Keys /\ Keys \subseteq Whose
  /\ \A k \in Keys : k # "route" => k = "shadow"
  /\ {Custom, NoHost, Gen("route"), Gen("shadow")} \subseteq Hosts
  /\ \A k \in Keys : Gen(k) \in Hosts /\ Gen(k) \notin {Custom, NoHost, None}
  /\ Custom # NoHost /\ None \notin {Custom, NoHost} /\ Gen("route") # Gen("shadow")
  /\ None \in Hosts \union {None} /\ None \in Whose /\ "user" \in Whose /\ "user" \notin Keys
BY DEF Keys, Whose, Hosts, Gen, Custom, NoHost, None

\* The Route that is not there, a new one, and the pass that is none.
LEMMA Nothing ==
  /\ NoRoute \in Objects /\ ~NoRoute.exists /\ ~NoRoute.deleting
  /\ IdlePass \in Passes /\ IdlePass.pc = "idle" /\ IdlePass.obj = NoRoute
  /\ ~IdlePass.fresh /\ ~IdlePass.seen /\ ~IdlePass.shadowed
  /\ \A host \in Hosts :
       LET new == NewRoute(host)
       IN  /\ new \in Objects /\ new.exists /\ ~new.deleting /\ new.fins = {}
           /\ new.host = host /\ new.tls = "user" /\ new.patch = NoPatch
           /\ NoPatch.host = NoHost /\ ~NoPatch.on
<1>1. NoPatch \in Patches /\ ~NoPatch.on /\ NoPatch.host = NoHost
  BY KeysAndHosts DEF NoPatch, Patches
<1>2. /\ NoRoute \in Objects /\ ~NoRoute.exists /\ ~NoRoute.deleting
      /\ NoRoute.patch = NoPatch /\ NoRoute.fins = {}
  BY <1>1, KeysAndHosts, Zenon DEF NoRoute, Objects, Patches
<1>3. /\ IdlePass \in Passes /\ IdlePass.pc = "idle" /\ IdlePass.obj = NoRoute
      /\ ~IdlePass.fresh /\ ~IdlePass.seen /\ ~IdlePass.shadowed
  BY <1>2, Zenon DEF IdlePass, Passes, Stages
<1>4. ASSUME NEW host \in Hosts
      PROVE  LET new == NewRoute(host)
             IN  /\ new \in Objects /\ new.exists /\ ~new.deleting /\ new.fins = {}
                 /\ new.host = host /\ new.tls = "user" /\ new.patch = NoPatch
  BY <1>2, KeysAndHosts, Zenon DEF NewRoute, Objects
<1> QED
  BY <1>1, <1>2, <1>3, <1>4

\* A pass does not change what it has read.
SameRead(q, p) ==
  q.obj = p.obj /\ q.fresh = p.fresh /\ q.seen = p.seen /\ q.shadowed = p.shadowed

LEMMA GotoEffect ==
  ASSUME ObjectTypes, NEW k \in Keys, NEW pc \in Stages
  PROVE  /\ Goto(k, pc) \in [Keys -> Passes]
         /\ Goto(k, pc)[k].pc = pc /\ SameRead(Goto(k, pc)[k], pass[k])
         /\ \A j \in Keys \ {k} : Goto(k, pc)[j] = pass[j]
<1> DEFINE new == [pass[k] EXCEPT !.pc = pc]
<1>1. new \in Passes /\ new.pc = pc /\ SameRead(new, pass[k])
  BY Zenon DEF ObjectTypes, Passes, SameRead
<1>2. Goto(k, pc) = [pass EXCEPT ![k] = new]
  BY Zenon DEF Goto, ObjectTypes
<1> HIDE DEF new
<1> QED
  BY <1>1, <1>2 DEF ObjectTypes

LEMMA IdleEffect ==
  ASSUME ObjectTypes, NEW k \in Keys
  PROVE  /\ Idle(k) \in [Keys -> Passes] /\ Idle(k)[k] = IdlePass
         /\ \A j \in Keys \ {k} : Idle(k)[j] = pass[j]
BY Nothing DEF ObjectTypes, Idle

\* The pass ends, its key is queued.
Aborted(k) ==
  /\ ObjectTypes' /\ obj' = obj /\ cache' = cache
  /\ pass'[k] = IdlePass /\ \A j \in Keys \ {k} : pass'[j] = pass[j]
  /\ queued' = queued \union {k}

LEMMA AbortEffect ==
  ASSUME ObjectTypes, NEW k \in Keys, Abort(k)
  PROVE  Aborted(k)
BY IdleEffect DEF ObjectTypes, Abort, Aborted

\* The object of a key is another one; copies and passes that had the latest have it no more.
Wrote(k, o, passes) ==
  /\ ObjectTypes'
  /\ obj'[k] = o /\ cache'[k].obj = cache[k].obj
  /\ cache'[k].fresh = (cache[k].fresh /\ o = obj[k])
  /\ pass'[k].fresh = (passes[k].fresh /\ o = obj[k])
  /\ \A j \in Keys \ {k} :
       obj'[j] = obj[j] /\ cache'[j] = cache[j] /\ pass'[j].fresh = passes[j].fresh
  /\ \A j \in Keys : /\ pass'[j].pc = passes[j].pc /\ pass'[j].obj = passes[j].obj
                     /\ pass'[j].shadowed = passes[j].shadowed
                     /\ pass'[j].seen => passes[j].seen
  /\ k = "shadow" /\ pass'["route"].seen => o = obj[k]

LEMMA WriteEffect ==
  ASSUME ObjectTypes, NEW k \in Keys, NEW new \in Objects, NEW passes \in [Keys -> Passes],
         Write(k, new, passes)
  PROVE  Wrote(k, Settle(new), passes)
<1> DEFINE o == Settle(new)
           cached == cache[k].fresh /\ o = obj[k]
           read == passes[k].fresh /\ o = obj[k]
           newCache == [cache[k] EXCEPT !.fresh = cached]
           newPass == [passes[k] EXCEPT !.fresh = read]
           p1 == [passes EXCEPT ![k] = newPass]
           seen == p1["route"].seen /\ (o = obj[k] \/ k # "shadow")
           newRoute == [p1["route"] EXCEPT !.seen = seen]
<1>1. o \in Objects
  BY Nothing DEF Settle
<1>2. /\ obj' = [obj EXCEPT ![k] = o]
      /\ cache' = [cache EXCEPT ![k] = newCache]
      /\ pass' = [p1 EXCEPT !["route"] = newRoute]
  <2>1. obj' = [obj EXCEPT ![k] = o] /\ cache' = [cache EXCEPT ![k] = newCache]
    BY Zenon DEF Write, ObjectTypes
  <2>2. pass' = [passes EXCEPT ![k].fresh = @ /\ (o = obj[k]),
                               !["route"].seen = @ /\ (o = obj[k] \/ k # "shadow")]
    BY Zenon DEF Write
  <2> HIDE DEF o
  <2>3. pass' = [p1 EXCEPT !["route"] = newRoute]
    BY <2>2, KeysAndHosts, Zenon
  <2> QED
    BY <2>1, <2>3
<1>3. /\ cached = (cache[k].fresh /\ o = obj[k]) /\ cached \in BOOLEAN
      /\ read = (passes[k].fresh /\ o = obj[k]) /\ read \in BOOLEAN
      /\ passes[k] \in Passes /\ cache[k] \in Caches
  BY DEF ObjectTypes, Caches, Passes
<1> HIDE DEF o, cached, read
<1>4. newCache \in Caches /\ newCache.obj = cache[k].obj /\ newCache.fresh = cached
  BY <1>3, Zenon DEF Caches
<1>5. /\ newPass \in Passes /\ newPass.pc = passes[k].pc /\ newPass.obj = passes[k].obj
      /\ newPass.fresh = read /\ newPass.shadowed = passes[k].shadowed
      /\ newPass.seen = passes[k].seen
  BY <1>3, Zenon DEF Passes
<1> HIDE DEF newCache, newPass
<1>6. /\ p1 \in [Keys -> Passes] /\ p1[k] = newPass
      /\ \A j \in Keys \ {k} : p1[j] = passes[j]
  BY <1>5
<1> HIDE DEF p1
<1>7. /\ seen \in BOOLEAN /\ (seen => p1["route"].seen /\ (o = obj[k] \/ k # "shadow"))
      /\ p1["route"] \in Passes
  BY <1>6, KeysAndHosts DEF Passes
<1> HIDE DEF seen
<1>8. /\ newRoute \in Passes /\ newRoute.seen = seen
      /\ newRoute.pc = p1["route"].pc /\ newRoute.obj = p1["route"].obj
      /\ newRoute.fresh = p1["route"].fresh /\ newRoute.shadowed = p1["route"].shadowed
  BY <1>7, Zenon DEF Passes
<1> HIDE DEF newRoute
<1>9. ObjectTypes'
  BY <1>1, <1>2, <1>4, <1>6, <1>8 DEF ObjectTypes
<1>10. /\ obj'[k] = o /\ cache'[k] = newCache
       /\ \A j \in Keys \ {k} : obj'[j] = obj[j] /\ cache'[j] = cache[j]
       /\ pass'["route"] = newRoute /\ \A j \in Keys \ {"route"} : pass'[j] = p1[j]
  BY <1>2, <1>6, KeysAndHosts DEF ObjectTypes
<1> QED
  BY <1>3, <1>4, <1>5, <1>6, <1>7, <1>8, <1>9, <1>10, KeysAndHosts DEF Wrote, o

-----------------------------------------------------------------------------
(* What the actions do.                                                    *)

LEMMA BeginEffect ==
  ASSUME ObjectTypes, NEW k \in Keys, Begin(k)
  PROVE  /\ ObjectTypes' /\ obj' = obj /\ cache' = cache
         /\ pass[k].pc = "idle" /\ k \in queued /\ queued' = queued \ {k}
         /\ UNCHANGED <<cert, verified, news, proved, spent>>
         /\ \/ ~cache[k].obj.exists /\ pass' = pass
            \/ /\ cache[k].obj.exists
               /\ pass'[k].obj = cache[k].obj /\ pass'[k].fresh = cache[k].fresh
               /\ ~pass'[k].seen
               /\ pass'[k].shadowed <=> k = "route" /\ IsDomainVerified(cache[k].obj)
               /\ pass'[k].pc = IF k = "route" /\ cache[k].obj.deleting THEN "delete"
                                ELSE IF pass'[k].shadowed THEN "get" ELSE "cert"
               /\ \A j \in Keys \ {k} : pass'[j] = pass[j]
<1> DEFINE o == cache[k].obj
           shadowed == k = "route" /\ IsDomainVerified(o)
           pc == IF k = "route" /\ o.deleting THEN "delete"
                 ELSE IF shadowed THEN "get" ELSE "cert"
           new == [pc |-> pc, obj |-> o, fresh |-> cache[k].fresh, seen |-> FALSE,
                   shadowed |-> shadowed]
<1>1. /\ obj' = obj /\ cache' = cache
      /\ pass[k].pc = "idle" /\ k \in queued /\ queued' = queued \ {k}
      /\ UNCHANGED <<cert, verified, news, proved, spent>>
      /\ pass' = IF ~o.exists THEN pass ELSE [pass EXCEPT ![k] = new]
  BY Zenon DEF Begin
<1>2. /\ shadowed \in BOOLEAN /\ pc \in Stages /\ o \in Objects /\ cache[k].fresh \in BOOLEAN
      /\ shadowed <=> k = "route" /\ IsDomainVerified(cache[k].obj)
      /\ pc = IF k = "route" /\ cache[k].obj.deleting THEN "delete"
              ELSE IF shadowed THEN "get" ELSE "cert"
  BY DEF ObjectTypes, Caches, Stages
<1> HIDE DEF shadowed, pc
<1>3. /\ new \in Passes /\ new.pc = pc /\ new.obj = o /\ new.fresh = cache[k].fresh
      /\ ~new.seen /\ new.shadowed = shadowed
  BY <1>2, Zenon DEF Passes
<1> HIDE DEF new
<1> QED
  BY <1>1, <1>2, <1>3 DEF ObjectTypes

LEMMA SyncEffect ==
  ASSUME ObjectTypes, NEW k \in Keys, Sync(k)
  PROVE  /\ ObjectTypes' /\ obj' = obj /\ pass' = pass
         /\ cache'[k].obj = obj[k] /\ cache'[k].fresh
         /\ \A j \in Keys \ {k} : cache'[j] = cache[j]
         /\ queued' = queued \union {k}
         /\ UNCHANGED <<cert, verified, news, proved, spent>>
<1> DEFINE new == [obj |-> obj[k], fresh |-> TRUE]
<1>1. new \in Caches /\ new.obj = obj[k] /\ new.fresh
  BY Zenon DEF ObjectTypes, Caches
<1>2. cache' = [cache EXCEPT ![k] = new] /\ obj' = obj /\ pass' = pass
  BY Zenon DEF Sync
<1> HIDE DEF new
<1> QED
  BY <1>1, <1>2 DEF ObjectTypes, Sync

\* What the passes make of the shadow.
LEMMA ShadowEffect ==
  ASSUME NEW p \in Passes
  PROVE  /\ Shadow(p) \in Objects /\ Shadow(p).exists = p.obj.exists
         /\ Shadow(p).host \in {Gen("route"), NoHost} /\ Shadow(p).patch = p.obj.patch
<1> DEFINE host == GeneratedHost("route", p.obj)
           fins == IF p.obj.deleting THEN p.obj.fins \ {"shadow"} ELSE p.obj.fins \union {"cascade"}
<1>1. p.obj \in Objects /\ p.obj.fins \subseteq {"cascade", "shadow"}
  BY DEF Passes, Objects
<1>2. /\ host \in Hosts /\ host \in {Gen("route"), NoHost}
      /\ fins \in SUBSET {"cascade", "shadow"} /\ None \in Hosts \union {None}
  BY <1>1, KeysAndHosts DEF GeneratedHost
<1>3. Shadow(p) = [p.obj EXCEPT !.host = host, !.deleting = FALSE, !.pending = None,
                                !.fins = fins]
  BY <1>1, Zenon DEF Shadow, Objects
<1> HIDE DEF host, fins
<1> QED
  BY <1>1, <1>2, <1>3, Zenon DEF Objects

LEMMA ShadowedEffect ==
  ASSUME ObjectTypes
  PROVE  /\ Shadowed \in [Keys -> Passes]
         /\ Shadowed["route"].pc = "cert" /\ Shadowed["route"].obj = pass["route"].obj
         /\ Shadowed["route"].fresh = pass["route"].fresh
         /\ Shadowed["route"].shadowed = pass["route"].shadowed
         /\ ~Shadowed["route"].seen
         /\ \A j \in Keys \ {"route"} : Shadowed[j] = pass[j]
<1> DEFINE new == [pass["route"] EXCEPT !.pc = "cert", !.seen = FALSE]
<1>1. pass["route"] \in Passes /\ "cert" \in Stages
  BY KeysAndHosts DEF ObjectTypes, Stages
<1>2. /\ new \in Passes /\ new.pc = "cert" /\ new.obj = pass["route"].obj
      /\ new.fresh = pass["route"].fresh /\ new.shadowed = pass["route"].shadowed
      /\ ~new.seen
  BY <1>1, Zenon DEF Passes
<1>3. Shadowed = [pass EXCEPT !["route"] = new]
  BY <1>1, KeysAndHosts, Zenon DEF Shadowed, ObjectTypes
<1> HIDE DEF new
<1> QED
  BY <1>2, <1>3, KeysAndHosts DEF ObjectTypes

\* An object is deleted.
LEMMA ObjectDeleted ==
  ASSUME NEW o \in Objects
  PROVE  /\ LET new == [o EXCEPT !.deleting = TRUE]
            IN  /\ new \in Objects /\ new.deleting /\ new.exists = o.exists
                /\ new.host = o.host /\ new.patch = o.patch /\ new.fins = o.fins
                /\ new.tls = o.tls
BY Zenon DEF Objects

LEMMA DeleteShadowEffect ==
  ASSUME ObjectTypes, DeleteShadow
  PROVE  /\ pass["route"].pc = "delete"
         /\ UNCHANGED <<queued, cert, verified, news, proved, spent>>
         /\ \E passes \in [Keys -> Passes] :
              /\ passes["route"].pc = IF pass["route"].shadowed THEN "get" ELSE "cert"
              /\ SameRead(passes["route"], pass["route"])
              /\ \A j \in Keys \ {"route"} : passes[j] = pass[j]
              /\ \/ /\ ~obj["shadow"].exists /\ ObjectTypes'
                    /\ pass' = passes /\ obj' = obj /\ cache' = cache
                 \/ \E new \in Objects :
                      /\ obj["shadow"].exists
                      /\ new.deleting /\ new.exists = obj["shadow"].exists
                      /\ new.host = obj["shadow"].host /\ new.patch = obj["shadow"].patch
                      /\ Wrote("shadow", Settle(new), passes)
<1> DEFINE pc == IF pass["route"].shadowed THEN "get" ELSE "cert"
           passes == Goto("route", pc)
           new == [obj["shadow"] EXCEPT !.deleting = TRUE]
<1>1. /\ pass["route"].pc = "delete"
      /\ UNCHANGED <<queued, cert, verified, news, proved, spent>>
      /\ \/ obj["shadow"].exists /\ Write("shadow", new, passes)
         \/ ~obj["shadow"].exists /\ pass' = passes /\ obj' = obj /\ cache' = cache
  BY Zenon DEF DeleteShadow
<1>2. pc \in Stages /\ pc = IF pass["route"].shadowed THEN "get" ELSE "cert"
  BY DEF Stages
<1> HIDE DEF pc
<1>3. /\ passes \in [Keys -> Passes] /\ passes["route"].pc = pc
      /\ SameRead(passes["route"], pass["route"])
      /\ \A j \in Keys \ {"route"} : passes[j] = pass[j]
  BY <1>2, GotoEffect, KeysAndHosts
<1>4. /\ new \in Objects /\ new.deleting /\ new.exists = obj["shadow"].exists
      /\ new.host = obj["shadow"].host /\ new.patch = obj["shadow"].patch
  BY ObjectDeleted, KeysAndHosts DEF ObjectTypes
<1> HIDE DEF passes, new
<1>5. CASE Write("shadow", new, passes) /\ obj["shadow"].exists
  BY <1>1, <1>2, <1>3, <1>4, <1>5, WriteEffect, KeysAndHosts
<1>6. CASE ~obj["shadow"].exists /\ pass' = passes /\ obj' = obj /\ cache' = cache
  <2>1. ObjectTypes'
    BY <1>3, <1>6 DEF ObjectTypes
  <2> QED
    BY <1>1, <1>2, <1>3, <1>6, <2>1
<1> QED
  BY <1>1, <1>5, <1>6

LEMMA GetShadowEffect ==
  ASSUME ObjectTypes, GetShadow
  PROVE  /\ pass["route"].pc = "get" /\ ObjectTypes'
         /\ UNCHANGED <<obj, cache, queued, cert, verified, news, proved, spent>>
         /\ pass'["route"].pc = IF obj["shadow"].exists THEN "update" ELSE "create"
         /\ pass'["route"].obj = pass["route"].obj
         /\ pass'["route"].fresh = pass["route"].fresh
         /\ pass'["route"].shadowed = pass["route"].shadowed
         /\ \A j \in Keys \ {"route"} : pass'[j] = pass[j]
<1> DEFINE pc == IF obj["shadow"].exists THEN "update" ELSE "create"
           new == [pass["route"] EXCEPT !.pc = pc, !.seen = TRUE]
<1>1. pass["route"] \in Passes /\ pc \in Stages
  BY KeysAndHosts DEF ObjectTypes, Stages
<1>2. /\ pass["route"].pc = "get"
      /\ UNCHANGED <<obj, cache, queued, cert, verified, news, proved, spent>>
      /\ pass' = [pass EXCEPT !["route"] = new]
  BY <1>1, KeysAndHosts, Zenon DEF GetShadow, ObjectTypes
<1>3. pc = IF obj["shadow"].exists THEN "update" ELSE "create"
  OBVIOUS
<1> HIDE DEF pc
<1>4. /\ new \in Passes /\ new.pc = pc /\ new.obj = pass["route"].obj
      /\ new.fresh = pass["route"].fresh /\ new.shadowed = pass["route"].shadowed
  BY <1>1, Zenon DEF Passes
<1> HIDE DEF new
<1> QED
  BY <1>2, <1>3, <1>4, KeysAndHosts DEF ObjectTypes

LEMMA CreateShadowEffect ==
  ASSUME ObjectTypes, CreateShadow
  PROVE  /\ pass["route"].pc = "create"
         /\ UNCHANGED <<cert, verified, news, proved, spent>>
         /\ \/ Aborted("route")
            \/ /\ ~obj["shadow"].exists /\ queued' = queued
               /\ Wrote("shadow", Settle(Shadow(pass["route"])), Shadowed)
<1>1. pass["route"] \in Passes
  BY KeysAndHosts DEF ObjectTypes
<1> QED
  BY <1>1, AbortEffect, ShadowEffect, ShadowedEffect, WriteEffect, KeysAndHosts DEF CreateShadow

LEMMA UpdateShadowEffect ==
  ASSUME ObjectTypes, UpdateShadow
  PROVE  /\ pass["route"].pc = "update"
         /\ UNCHANGED <<cert, verified, news, proved, spent>>
         /\ \/ Aborted("route")
            \/ /\ pass["route"].seen /\ queued' = queued
               /\ \E new \in Objects :
                    /\ new.exists = obj["shadow"].exists /\ new.deleting = obj["shadow"].deleting
                    /\ new.host \in {Gen("route"), NoHost} /\ new.patch = obj["shadow"].patch
                    /\ Wrote("shadow", Settle(new), Shadowed)
<1> DEFINE host == Shadow(pass["route"]).host
           tls == Shadow(pass["route"]).tls
           new == [obj["shadow"] EXCEPT !.host = host, !.tls = tls]
<1>1. pass["route"] \in Passes /\ obj["shadow"] \in Objects
  BY KeysAndHosts DEF ObjectTypes
<1>2. host \in Hosts /\ tls \in Whose /\ host \in {Gen("route"), NoHost}
  BY <1>1, ShadowEffect DEF Objects
<1>3. /\ pass["route"].pc = "update"
      /\ UNCHANGED <<cert, verified, news, proved, spent>>
      /\ \/ Abort("route")
         \/ pass["route"].seen /\ queued' = queued /\ Write("shadow", new, Shadowed)
  BY Zenon DEF UpdateShadow
<1> HIDE DEF host, tls
<1>4. /\ new \in Objects
      /\ new.exists = obj["shadow"].exists /\ new.deleting = obj["shadow"].deleting
      /\ new.host = host /\ new.patch = obj["shadow"].patch
  BY <1>1, <1>2, Zenon DEF Objects
<1> HIDE DEF new
<1> QED
  BY <1>2, <1>3, <1>4, AbortEffect, ShadowedEffect, WriteEffect, KeysAndHosts

\* Certificates and their events.
LEMMA DeleteCertificateEffect ==
  ASSUME TypeOK, NEW k \in Keys, DeleteCertificate(k)
  PROVE  /\ pass[k].pc = "cert" /\ pass[k].obj.deleting
         /\ ObjectTypes' /\ obj' = obj /\ cache' = cache
         /\ cert' = [cert EXCEPT ![k] = "none"] /\ queued \subseteq queued'
         /\ queued' \subseteq Keys
         /\ pass'[k].pc = "save" /\ SameRead(pass'[k], pass[k])
         /\ \A j \in Keys \ {k} : pass'[j] = pass[j]
         /\ UNCHANGED <<verified, news, proved, spent>>
<1>1. /\ pass[k].pc = "cert" /\ pass[k].obj.deleting
      /\ cert' = [cert EXCEPT ![k] = "none"] /\ queued' = CertificateDeleted(k)
      /\ pass' = Goto(k, "save") /\ obj' = obj /\ cache' = cache
      /\ UNCHANGED <<verified, news, proved, spent>>
  BY DEF DeleteCertificate
<1>2. "save" \in Stages
  BY DEF Stages
<1>3. queued \subseteq queued' /\ queued' \subseteq Keys
  BY <1>1, Typed DEF CertificateDeleted, enqueueRouteByKey
<1> QED
  BY <1>1, <1>2, <1>3, GotoEffect, Typed DEF ObjectTypes

LEMMA CertReadyEffect ==
  ASSUME TypeOK, NEW k \in Keys, CertReady(k)
  PROVE  /\ cert' = [cert EXCEPT ![k] = "ready"]
         /\ queued \subseteq queued' /\ queued' \subseteq Keys
         /\ cache[k].obj.exists => k \in queued'
         /\ UNCHANGED <<obj, cache, pass, verified, news, proved, spent>>
BY Typed DEF CertReady, enqueueRouteByKey, getRouteByKey

\* What a pass saves.
LEMMA TargetEffect ==
  ASSUME NEW k \in Keys, NEW p \in Passes
  PROVE  /\ Target(k, p) \in Objects
         /\ Target(k, p).exists = p.obj.exists /\ Target(k, p).deleting = p.obj.deleting
         /\ Target(k, p).fins = Finalizers(k, p) /\ Target(k, p).patch = p.obj.patch
         /\ Target(k, p).pending = IF k = "shadow" THEN p.obj.pending
                                   ELSE IF p.shadowed THEN None ELSE p.obj.host
         /\ Target(k, p).host = IF k = "route" /\ p.shadowed THEN p.obj.host
                                ELSE GeneratedHost(k, p.obj)
         /\ Target(k, p).tls =
              IF cert[k] = "ready" /\ ~p.obj.deleting /\ Target(k, p).host = Gen(k)
              THEN k ELSE p.obj.tls
<1> DEFINE host == IF k = "route" /\ p.shadowed THEN p.obj.host ELSE GeneratedHost(k, p.obj)
           pending == IF k = "shadow" THEN p.obj.pending
                      ELSE IF p.shadowed THEN None ELSE p.obj.host
           fins == Finalizers(k, p)
           o == [p.obj EXCEPT !.host = host, !.pending = pending, !.fins = fins]
<1>1. p.obj \in Objects
  BY DEF Passes
<1>2. p.obj.fins \in SUBSET {"cascade", "shadow"} /\ p.obj.host \in Hosts
      /\ p.obj.pending \in Hosts \union {None} /\ p.obj.tls \in Whose
  BY <1>1 DEF Objects
<1>3. /\ host \in Hosts /\ pending \in Hosts \union {None}
      /\ fins \in SUBSET {"cascade", "shadow"}
  BY <1>2, KeysAndHosts DEF GeneratedHost, Finalizers
<1>4. [ProcessCustomHosts(k, p) EXCEPT !.fins = fins] = o
  <2>1. CASE k = "shadow"
    BY <1>1, <2>1, Zenon DEF ProcessCustomHosts, Objects
  <2>2. CASE k # "shadow" /\ p.shadowed
    BY <1>1, <2>2, KeysAndHosts, Zenon DEF ProcessCustomHosts, Objects
  <2>3. CASE k # "shadow" /\ ~p.shadowed
    BY <1>1, <2>3, KeysAndHosts, Zenon DEF ProcessCustomHosts, Objects
  <2> QED
    BY <2>1, <2>2, <2>3
<1>5. Target(k, p) = IF cert[k] = "ready" /\ ~o.deleting THEN AddTLS(k, o) ELSE o
  BY <1>4, Zenon DEF Target
<1>6. /\ host = IF k = "route" /\ p.shadowed THEN p.obj.host ELSE GeneratedHost(k, p.obj)
      /\ pending = IF k = "shadow" THEN p.obj.pending
                   ELSE IF p.shadowed THEN None ELSE p.obj.host
      /\ fins = Finalizers(k, p)
  BY KeysAndHosts
<1> HIDE DEF host, pending, fins
<1>7. /\ o \in Objects /\ o.exists = p.obj.exists /\ o.deleting = p.obj.deleting
      /\ o.fins = fins /\ o.patch = p.obj.patch /\ o.pending = pending /\ o.host = host
      /\ o.tls = p.obj.tls
  BY <1>1, <1>3, Zenon DEF Objects
<1> HIDE DEF o
<1>8. LET t == [o EXCEPT !.tls = k]
      IN  /\ t \in Objects /\ t.exists = o.exists /\ t.deleting = o.deleting
          /\ t.fins = o.fins /\ t.patch = o.patch /\ t.pending = o.pending /\ t.host = o.host
          /\ t.tls = k
  BY <1>7, KeysAndHosts, Zenon DEF Objects
<1> QED
  BY <1>5, <1>6, <1>7, <1>8 DEF AddTLS

LEMMA TransformEffect ==
  ASSUME NEW o \in Objects, NEW old \in Objects
  PROVE  /\ Transform(o, old) \in Objects
         /\ Transform(o, old).exists = o.exists /\ Transform(o, old).deleting = o.deleting
         /\ Transform(o, old).fins = o.fins /\ Transform(o, old).pending = o.pending
         /\ Transform(o, old).host = old.host /\ Transform(o, old).tls = old.tls
         /\ Transform(o, old).patch.on /\ Transform(o, old).patch.host = o.host
         /\ Transform(o, old).patch.tls = o.tls
<1> DEFINE patch == [on |-> TRUE, host |-> o.host, tls |-> o.tls]
<1>1. o.host \in Hosts /\ o.tls \in Whose /\ old.host \in Hosts /\ old.tls \in Whose
  BY DEF Objects
<1>2. patch \in Patches /\ patch.on /\ patch.host = o.host /\ patch.tls = o.tls
  BY <1>1, Zenon DEF Patches
<1>3. Transform(o, old) = [o EXCEPT !.patch = patch, !.host = old.host, !.tls = old.tls]
  BY Zenon DEF Transform
<1> HIDE DEF patch
<1>4. patch \in [on : BOOLEAN, host : Hosts, tls : Whose]
  BY <1>2 DEF Patches
<1> QED
  BY <1>1, <1>2, <1>3, <1>4, Zenon DEF Objects

LEMMA SaveEffect ==
  ASSUME ObjectTypes, NEW k \in Keys, Save(k)
  PROVE  /\ pass[k].pc \in {"cert", "save"}
         /\ pass[k].pc = "save" \/ (~pass[k].obj.deleting /\ cert[k] # "none")
         /\ UNCHANGED <<cert, verified, news, proved, spent>>
         /\ \/ Aborted(k)
            \/ /\ Target(k, pass[k]) = pass[k].obj
               /\ ObjectTypes' /\ obj' = obj /\ cache' = cache /\ queued' = queued
               /\ pass'[k] = IdlePass /\ \A j \in Keys \ {k} : pass'[j] = pass[j]
            \/ /\ pass[k].fresh
               /\ queued' = queued
               /\ Wrote(k, Settle(Transform(Target(k, pass[k]), pass[k].obj)), Idle(k))
<1> DEFINE target == Target(k, pass[k])
           new == Transform(target, pass[k].obj)
<1>1. pass[k] \in Passes /\ pass[k].obj \in Objects
  BY DEF ObjectTypes, Passes
<1>2. target \in Objects /\ new \in Objects
  BY <1>1, TargetEffect, TransformEffect
<1>3. /\ pass[k].pc \in {"cert", "save"}
      /\ pass[k].pc = "save" \/ (~pass[k].obj.deleting /\ cert[k] # "none")
      /\ UNCHANGED <<cert, verified, news, proved, spent>>
      /\ \/ target = pass[k].obj /\ pass' = Idle(k) /\ UNCHANGED <<obj, cache, queued>>
         \/ pass[k].fresh /\ queued' = queued /\ Write(k, new, Idle(k))
         \/ Abort(k)
  BY DEF Save
<1> HIDE DEF target, new
<1>4. CASE target = pass[k].obj /\ pass' = Idle(k) /\ UNCHANGED <<obj, cache, queued>>
  <2>1. /\ ObjectTypes' /\ pass'[k] = IdlePass
        /\ \A j \in Keys \ {k} : pass'[j] = pass[j]
    BY <1>4, IdleEffect DEF ObjectTypes
  <2> QED
    BY <1>3, <1>4, <2>1 DEF target
<1>5. CASE pass[k].fresh /\ queued' = queued /\ Write(k, new, Idle(k))
  <2>1. Wrote(k, Settle(new), Idle(k))
    BY <1>2, <1>5, IdleEffect, WriteEffect
  <2> QED
    BY <1>3, <1>5, <2>1 DEF target, new
<1>6. CASE Abort(k)
  BY <1>3, <1>6, AbortEffect
<1> QED
  BY <1>3, <1>4, <1>5, <1>6

LEMMA PassFailsEffect ==
  ASSUME TypeOK, NEW k \in Keys, PassFails(k)
  PROVE  /\ Aborted(k) /\ spent' \in Spents
         /\ UNCHANGED <<cert, verified, news, proved>>
<1>0. spent \in Spents /\ spent.faults < MaxFaults
  BY Typed, Zenon DEF PassFails
<1>1. spent.faults + 1 \in 0..MaxFaults
  BY <1>0, Bounds DEF Spents
<1>2. spent' \in Spents
  BY <1>1, Typed, Zenon DEF PassFails, Spents
<1> QED
  BY <1>2, AbortEffect, Typed DEF PassFails

LEMMA CrashEffect ==
  ASSUME TypeOK, Crash
  PROVE  /\ ObjectTypes' /\ obj' = obj
         /\ \A k \in Keys : cache'[k].obj = obj[k] /\ pass'[k] = IdlePass
         /\ queued' = {k \in Keys : obj[k].exists} /\ spent' \in Spents /\ news' \in BOOLEAN
         /\ UNCHANGED <<cert, verified, proved>>
<1>0. spent \in Spents /\ spent.faults < MaxFaults
  BY Typed, Zenon DEF Crash
<1>1. spent.faults + 1 \in 0..MaxFaults
  BY <1>0, Bounds DEF Spents
<1>2. spent' \in Spents
  BY <1>1, Typed, Zenon DEF Crash, Spents
<1>3. \A k \in Keys : [obj |-> obj[k], fresh |-> TRUE] \in Caches
  BY Typed, Zenon DEF ObjectTypes, Caches
<1>4. \A k \in Keys : [obj |-> obj[k], fresh |-> TRUE].obj = obj[k]
  BY Zenon
<1>5. /\ obj' = obj
      /\ cache' = [k \in Keys |-> [obj |-> obj[k], fresh |-> TRUE]]
      /\ pass' = [k \in Keys |-> IdlePass]
      /\ queued' = {k \in Keys : obj[k].exists}
      /\ news' \in BOOLEAN /\ UNCHANGED <<cert, verified, proved>>
  BY Zenon DEF Crash
<1>6. cache' \in [Keys -> Caches] /\ \A k \in Keys : cache'[k].obj = obj[k]
  BY <1>3, <1>4, <1>5, Zenon
<1>7. ObjectTypes'
  BY <1>5, <1>6, Nothing, Typed DEF ObjectTypes
<1> QED
  BY <1>2, <1>5, <1>6, <1>7

LEMMA UserDeletesEffect ==
  ASSUME ObjectTypes, UserDeletes
  PROVE  /\ obj["route"].exists /\ ~obj["route"].deleting
         /\ UNCHANGED <<queued, cert, verified, news, proved, spent>>
         /\ \E new \in Objects :
              /\ new.deleting /\ new.exists /\ new.host = obj["route"].host
              /\ new.patch = obj["route"].patch /\ new.fins = obj["route"].fins
              /\ new.tls = obj["route"].tls
              /\ Wrote("route", Settle(new), pass)
<1> DEFINE new == [obj["route"] EXCEPT !.deleting = TRUE]
<1>1. /\ obj["route"].exists /\ ~obj["route"].deleting
      /\ UNCHANGED <<queued, cert, verified, news, proved, spent>>
      /\ Write("route", new, pass)
  BY Zenon DEF UserDeletes
<1>2. obj["route"] \in Objects /\ pass \in [Keys -> Passes]
  BY KeysAndHosts DEF ObjectTypes
<1>3. /\ new \in Objects /\ new.deleting /\ new.exists = obj["route"].exists
      /\ new.host = obj["route"].host /\ new.patch = obj["route"].patch
      /\ new.fins = obj["route"].fins /\ new.tls = obj["route"].tls
  BY <1>2, ObjectDeleted
<1> HIDE DEF new
<1> QED
  BY <1>1, <1>2, <1>3, WriteEffect, KeysAndHosts

LEMMA VerificationChangesEffect ==
  ASSUME TypeOK, VerificationChanges
  PROVE  /\ verified' \in BOOLEAN /\ news' \in BOOLEAN /\ proved' /\ proved' \in BOOLEAN
         /\ spent' \in Spents
         /\ UNCHANGED <<obj, cache, pass, queued, cert>>
<1>0. spent \in Spents /\ spent.changes < MaxChanges
  BY Typed, Zenon DEF VerificationChanges
<1>1. spent.changes + 1 \in 0..MaxChanges
  BY <1>0, Bounds DEF Spents
<1>2. spent' \in Spents
  BY <1>1, Typed, Zenon DEF VerificationChanges, Spents
<1> QED
  BY <1>2, Zenon DEF VerificationChanges

-----------------------------------------------------------------------------
(* Type correctness.                                                       *)

LEMMA CreateCertificateEffect ==
  ASSUME ObjectTypes, NEW k \in Keys, CreateCertificate(k)
  PROVE  /\ Aborted(k) /\ pass[k].pc = "cert" /\ cert[k] = "none"
         /\ cert' = [cert EXCEPT ![k] = "issuing"]
         /\ UNCHANGED <<verified, news, proved, spent>>
BY AbortEffect DEF CreateCertificate

\* The step is one of an action whose effect is known.
LEMMA Actions ==
  Next <=>
    \/ \E k \in Keys : \/ Begin(k) \/ DeleteCertificate(k) \/ CreateCertificate(k) \/ Save(k)
                       \/ Sync(k) \/ PassFails(k) \/ CertReady(k)
    \/ DeleteShadow \/ GetShadow \/ CreateShadow \/ UpdateShadow
    \/ RoutesFromDomainVerification \/ Crash \/ UserDeletes \/ VerificationChanges
BY Zenon DEF Next, Step, ShadowStep

LEMMA TypeNext == TypeOK /\ [Next]_vars => TypeOK'
<1> DEFINE Typing == /\ ObjectTypes
                     /\ queued \subseteq Keys /\ cert \in [Keys -> {"none", "issuing", "ready"}]
                     /\ verified \in BOOLEAN /\ news \in BOOLEAN /\ proved \in BOOLEAN
                     /\ spent \in Spents
<1> SUFFICES ASSUME TypeOK, [Next]_vars
             PROVE  Typing'
  BY DEF TypeOK, ObjectTypes, Caches, Passes, Stages, Spents
<1>0. Typing
  BY Typed
<1>1. ASSUME NEW k \in Keys, Begin(k) PROVE Typing'
  BY <1>0, <1>1, BeginEffect
<1>2. ASSUME NEW k \in Keys, DeleteCertificate(k) PROVE Typing'
  BY <1>0, <1>2, DeleteCertificateEffect
<1>3. ASSUME NEW k \in Keys, CreateCertificate(k) PROVE Typing'
  BY <1>0, <1>3, CreateCertificateEffect DEF Aborted
<1>4. ASSUME NEW k \in Keys, Save(k) PROVE Typing'
  BY <1>0, <1>4, SaveEffect DEF Aborted, Wrote
<1>5. ASSUME NEW k \in Keys, Sync(k) PROVE Typing'
  BY <1>0, <1>5, SyncEffect
<1>6. ASSUME NEW k \in Keys, PassFails(k) PROVE Typing'
  BY <1>0, <1>6, PassFailsEffect DEF Aborted
<1>7. ASSUME NEW k \in Keys, CertReady(k) PROVE Typing'
  BY <1>0, <1>7, CertReadyEffect DEF ObjectTypes
<1>8. CASE DeleteShadow
  BY <1>0, <1>8, DeleteShadowEffect DEF Wrote
<1>9. CASE GetShadow
  BY <1>0, <1>9, GetShadowEffect
<1>10. CASE CreateShadow
  BY <1>0, <1>10, CreateShadowEffect, KeysAndHosts DEF Aborted, Wrote
<1>11. CASE UpdateShadow
  BY <1>0, <1>11, UpdateShadowEffect, KeysAndHosts DEF Aborted, Wrote
<1>12. CASE RoutesFromDomainVerification
  BY <1>0, <1>12, KeysAndHosts DEF RoutesFromDomainVerification, ObjectTypes
<1>13. CASE Crash
  BY <1>0, <1>13, CrashEffect
<1>14. CASE UserDeletes
  BY <1>0, <1>14, UserDeletesEffect DEF Wrote
<1>15. CASE VerificationChanges
  BY <1>0, <1>15, VerificationChangesEffect DEF ObjectTypes
<1>16. CASE UNCHANGED vars
  BY <1>0, <1>16 DEF vars, ObjectTypes
<1> HIDE DEF Typing
<1> QED
  BY <1>1, <1>2, <1>3, <1>4, <1>5, <1>6, <1>7, <1>8, <1>9, <1>10, <1>11, <1>12, <1>13, <1>14,
     <1>15, <1>16, Actions

LEMMA TypeInit == Init => TypeOK
<1> SUFFICES ASSUME Init PROVE TypeOK
  OBVIOUS
<1>1. PICK host \in Asked :
        obj = [k \in Keys |-> IF k = "route" THEN NewRoute(host) ELSE NoRoute]
  BY Zenon DEF Init
<1>2. host \in Hosts
  BY <1>1, RoutesAssumption DEF RoutesAssumption, Hosts, Custom, NoHost
<1>3. \A k \in Keys : obj[k] = (IF k = "route" THEN NewRoute(host) ELSE NoRoute)
  BY <1>1
<1>4. obj \in [Keys -> Objects]
  BY <1>1, <1>2, Nothing
<1>5. \A k \in Keys : [obj |-> obj[k], fresh |-> TRUE] \in Caches
  BY <1>4, Zenon DEF Caches
<1>6. cache \in [Keys -> Caches]
  BY <1>5, Zenon DEF Init
<1>7. ObjectTypes
  BY <1>4, <1>6, Nothing DEF ObjectTypes, Init
<1>8. spent \in Spents
  <2>1. 0 \in 0..MaxFaults /\ 0 \in 0..MaxChanges
    BY Bounds
  <2> QED
    BY <2>1, Zenon DEF Init, Spents
<1> QED
  BY <1>7, <1>8, Typed, KeysAndHosts DEF Init

-----------------------------------------------------------------------------
(* The versions of the objects.                                            *)

LEMMA Settled ==
  ASSUME NEW o
  PROVE  Settle(o) = o \/ (Settle(o) = NoRoute /\ o.deleting /\ o.fins = {})
BY DEF Settle

\* A version stays one.
LEMMA VersionKept ==
  ASSUME TypeOK, NEW k \in Keys, NEW o, Version(k, o, proved), proved' = proved \/ proved'
  PROVE  Version(k, o, proved')
BY Typed DEF Version

LEMMA SettledVersion ==
  ASSUME NEW k, NEW o, NEW been, Version(k, o, been), o.exists
  PROVE  /\ Version(k, Settle(o), been)
         /\ ~Settle(o).exists => Settle(o) = NoRoute
BY Settled, Nothing DEF Version

\* Reads of versions, and writes of a new one.
PassVersions(passes) ==
  \A j \in Keys : passes[j].pc # "idle" => passes[j].obj.exists /\ Version(j, passes[j].obj, proved)

LEMMA VersionWrote ==
  ASSUME IInv, NEW k \in Keys, NEW new, NEW passes, Wrote(k, Settle(new), passes),
         UNCHANGED <<verified, proved>>,
         new.exists, Version(k, new, proved), PassVersions(passes)
  PROVE  VersionInv'
<1>1. Version(k, Settle(new), proved) /\ (~Settle(new).exists => Settle(new) = NoRoute)
  BY SettledVersion
<1> QED
  BY <1>1 DEF IInv, VersionInv, PassVersions, Wrote

LEMMA VersionAborted ==
  ASSUME IInv, NEW k \in Keys, Aborted(k), UNCHANGED <<verified, proved>>
  PROVE  VersionInv'
BY Nothing DEF IInv, VersionInv, Aborted

LEMMA SavedVersion ==
  ASSUME IInv, NEW k \in Keys, pass[k].pc # "idle"
  PROVE  LET new == Transform(Target(k, pass[k]), pass[k].obj)
         IN  new.exists /\ Version(k, new, proved)
<1> DEFINE target == Target(k, pass[k])
           new == Transform(target, pass[k].obj)
<1>1. pass[k] \in Passes /\ pass[k].obj \in Objects
  BY Typed DEF IInv, ObjectTypes, Passes
<1>2. /\ target \in Objects /\ target.exists = pass[k].obj.exists
      /\ target.deleting = pass[k].obj.deleting
      /\ target.pending = IF k = "shadow" THEN pass[k].obj.pending
                          ELSE IF pass[k].shadowed THEN None ELSE pass[k].obj.host
      /\ target.host = IF k = "route" /\ pass[k].shadowed THEN pass[k].obj.host
                       ELSE GeneratedHost(k, pass[k].obj)
      /\ target.tls =
           IF cert[k] = "ready" /\ ~pass[k].obj.deleting /\ target.host = Gen(k)
           THEN k ELSE pass[k].obj.tls
  BY <1>1, TargetEffect
<1> HIDE DEF target
<1>3. /\ new.exists = target.exists /\ new.deleting = target.deleting
      /\ new.pending = target.pending
      /\ new.host = pass[k].obj.host /\ new.tls = pass[k].obj.tls
      /\ new.patch.on /\ new.patch.host = target.host /\ new.patch.tls = target.tls
  BY <1>1, <1>2, TransformEffect
<1> HIDE DEF new
<1>4. pass[k].obj.exists /\ Version(k, pass[k].obj, proved)
  BY DEF IInv, VersionInv
<1>5. /\ pass[k].shadowed => k = "route" /\ (pass[k].obj.host = Custom => proved)
      /\ GeneratedHost(k, pass[k].obj) \in {NoHost, Gen(k)}
      /\ ~pass[k].obj.deleting => GeneratedHost(k, pass[k].obj) = Gen(k)
  BY DEF IInv, ShadowedInv, GeneratedHost
<1>6. new.patch.host = Custom => proved
  BY <1>2, <1>3, <1>5, KeysAndHosts
<1>7. CASE k = "route"
  <2>1. RouteVersion(pass[k].obj)
    BY <1>4, <1>7 DEF Version
  <2>2. new.tls = "user" /\ new.host \in {Custom, NoHost}
    BY <1>3, <2>1 DEF RouteVersion
  <2>3. ASSUME ~new.deleting
        PROVE  IF new.pending = None THEN new.patch.host = new.host /\ new.patch.tls = "user"
                                     ELSE new.patch.host = Gen("route")
    BY <1>2, <1>3, <1>5, <1>7, <2>2, <2>3, KeysAndHosts
  <2> QED
    BY <1>3, <1>4, <1>6, <1>7, <2>2, <2>3, <1>2 DEF Version, RouteVersion, new, target
<1>8. CASE k = "shadow"
  BY <1>2, <1>3, <1>4, <1>6, <1>8 DEF Version, ShadowVersion, new, target
<1> QED
  BY <1>7, <1>8, KeysAndHosts

LEMMA VersionNext == IInv /\ [Next]_vars => VersionInv'
<1> SUFFICES ASSUME IInv, [Next]_vars
             PROVE  VersionInv'
  OBVIOUS
<1>0. TypeOK /\ ObjectTypes /\ VersionInv /\ PassVersions(pass)
  BY Typed DEF IInv, VersionInv, PassVersions
<1>1. ASSUME NEW k \in Keys, Begin(k) PROVE VersionInv'
  BY <1>0, <1>1, BeginEffect DEF VersionInv
<1>2. ASSUME NEW k \in Keys, DeleteCertificate(k) PROVE VersionInv'
  BY <1>0, <1>2, DeleteCertificateEffect DEF VersionInv, SameRead
<1>3. ASSUME NEW k \in Keys, CreateCertificate(k) PROVE VersionInv'
  BY <1>0, <1>3, CreateCertificateEffect, VersionAborted
<1>4. ASSUME NEW k \in Keys, Save(k) PROVE VersionInv'
  <2>0. pass[k].pc # "idle" /\ UNCHANGED <<verified, proved>>
    BY <1>0, <1>4, SaveEffect
  <2>1. CASE Aborted(k)
    BY <2>0, <2>1, VersionAborted
  <2>2. CASE /\ obj' = obj /\ cache' = cache
             /\ pass'[k] = IdlePass /\ \A j \in Keys \ {k} : pass'[j] = pass[j]
    BY <1>0, <2>0, <2>2, Nothing DEF VersionInv
  <2>3. CASE Wrote(k, Settle(Transform(Target(k, pass[k]), pass[k].obj)), Idle(k))
    <3>1. PassVersions(Idle(k))
      BY <1>0, IdleEffect, Nothing DEF PassVersions
    <3> QED
      BY <2>0, <2>3, <3>1, SavedVersion, VersionWrote
  <2> QED
    BY <1>0, <1>4, <2>1, <2>2, <2>3, SaveEffect
<1>5. ASSUME NEW k \in Keys, Sync(k) PROVE VersionInv'
  BY <1>0, <1>5, SyncEffect DEF VersionInv
<1>6. ASSUME NEW k \in Keys, PassFails(k) PROVE VersionInv'
  BY <1>0, <1>6, PassFailsEffect, VersionAborted
<1>7. ASSUME NEW k \in Keys, CertReady(k) PROVE VersionInv'
  BY <1>0, <1>7, CertReadyEffect DEF VersionInv
<1>8. CASE DeleteShadow
  <2>1. PICK passes \in [Keys -> Passes] :
          /\ UNCHANGED <<verified, proved>> /\ pass["route"].pc = "delete"
          /\ SameRead(passes["route"], pass["route"])
          /\ \A j \in Keys \ {"route"} : passes[j] = pass[j]
          /\ \/ pass' = passes /\ obj' = obj /\ cache' = cache
             \/ \E new \in Objects :
                  /\ obj["shadow"].exists /\ new.exists = obj["shadow"].exists
                  /\ new.host = obj["shadow"].host /\ new.patch = obj["shadow"].patch
                  /\ Wrote("shadow", Settle(new), passes)
    BY <1>0, <1>8, DeleteShadowEffect
  <2>2. PassVersions(passes)
    BY <1>0, <2>1, KeysAndHosts DEF PassVersions, SameRead
  <2>3. CASE pass' = passes /\ obj' = obj /\ cache' = cache
    BY <1>0, <2>1, <2>2, <2>3 DEF VersionInv, PassVersions
  <2>4. ASSUME NEW new \in Objects, obj["shadow"].exists, new.exists = obj["shadow"].exists,
               new.host = obj["shadow"].host, new.patch = obj["shadow"].patch,
               Wrote("shadow", Settle(new), passes)
        PROVE  VersionInv'
    <3>1. Version("shadow", new, proved)
      BY <1>0, <2>4, KeysAndHosts DEF VersionInv, Version, ShadowVersion
    <3> QED
      BY <2>1, <2>2, <2>4, <3>1, VersionWrote, KeysAndHosts
  <2> QED
    BY <2>1, <2>3, <2>4
<1>9. CASE GetShadow
  BY <1>0, <1>9, GetShadowEffect, KeysAndHosts DEF VersionInv
<1>10. PassVersions(Shadowed) \/ pass["route"].pc = "idle"
  BY <1>0, ShadowedEffect, KeysAndHosts DEF PassVersions
<1>11. CASE CreateShadow
  <2>1. /\ pass["route"].pc = "create" /\ UNCHANGED <<verified, proved>>
        /\ pass["route"] \in Passes
    BY <1>0, <1>11, CreateShadowEffect, KeysAndHosts DEF ObjectTypes
  <2>2. CASE Aborted("route")
    BY <2>1, <2>2, VersionAborted, KeysAndHosts
  <2>3. CASE Wrote("shadow", Settle(Shadow(pass["route"])), Shadowed)
    <3>1. /\ Shadow(pass["route"]).exists
          /\ Version("shadow", Shadow(pass["route"]), proved)
      BY <1>0, <2>1, ShadowEffect, KeysAndHosts DEF VersionInv, Version, ShadowVersion
    <3> QED
      BY <1>10, <2>1, <2>3, <3>1, VersionWrote, KeysAndHosts
  <2> QED
    BY <1>0, <1>11, <2>2, <2>3, CreateShadowEffect
<1>12. CASE UpdateShadow
  <2>1. /\ pass["route"].pc = "update" /\ UNCHANGED <<verified, proved>>
    BY <1>0, <1>12, UpdateShadowEffect
  <2>2. CASE Aborted("route")
    BY <2>1, <2>2, VersionAborted, KeysAndHosts
  <2>3. ASSUME NEW new \in Objects, pass["route"].seen, new.exists = obj["shadow"].exists,
               new.host \in {Gen("route"), NoHost}, new.patch = obj["shadow"].patch,
               Wrote("shadow", Settle(new), Shadowed)
        PROVE  VersionInv'
    <3>1. obj["shadow"].exists
      BY <2>1, <2>3, KeysAndHosts DEF IInv, ShadowedInv
    <3>2. new.exists /\ Version("shadow", new, proved)
      BY <1>0, <2>3, <3>1, KeysAndHosts DEF VersionInv, Version, ShadowVersion
    <3> QED
      BY <1>10, <2>1, <2>3, <3>2, VersionWrote, KeysAndHosts
  <2> QED
    BY <1>0, <1>12, <2>2, <2>3, UpdateShadowEffect
<1>13. CASE RoutesFromDomainVerification
  BY <1>0, <1>13 DEF RoutesFromDomainVerification, VersionInv
<1>14. CASE Crash
  BY <1>0, <1>14, CrashEffect, Nothing DEF VersionInv
<1>15. CASE UserDeletes
  <2>1. PICK new \in Objects :
          /\ obj["route"].exists /\ ~obj["route"].deleting /\ UNCHANGED <<verified, proved>>
          /\ new.deleting /\ new.exists /\ new.host = obj["route"].host
          /\ new.patch = obj["route"].patch /\ new.fins = obj["route"].fins
          /\ new.tls = obj["route"].tls /\ Wrote("route", Settle(new), pass)
    BY <1>0, <1>15, UserDeletesEffect
  <2>2. Version("route", new, proved)
    BY <1>0, <2>1, KeysAndHosts DEF VersionInv, Version, RouteVersion
  <2> QED
    BY <1>0, <2>1, <2>2, VersionWrote, KeysAndHosts
<1>16. CASE VerificationChanges
  BY <1>0, <1>16, VerificationChangesEffect, VersionKept DEF VersionInv
<1>17. CASE UNCHANGED vars
  BY <1>0, <1>17 DEF vars, VersionInv
<1> QED
  BY <1>1, <1>2, <1>3, <1>4, <1>5, <1>6, <1>7, <1>8, <1>9, <1>11, <1>12, <1>13, <1>14,
     <1>15, <1>16, <1>17, Actions

-----------------------------------------------------------------------------
(* Copies that are the latest.                                             *)

\* A write leaves the passes it goes with as fresh as they were.
LEMMA FreshWrote ==
  ASSUME IInv, NEW k \in Keys, NEW o, NEW passes, Wrote(k, o, passes), queued' = queued,
         \A j \in Keys : /\ passes[j].fresh => /\ pass[j].fresh /\ passes[j].pc # "idle"
                                               /\ passes[j].obj = pass[j].obj
                         /\ passes[j].pc # "idle" => /\ pass[j].pc # "idle"
                                                     /\ pass[j].fresh => passes[j].fresh
  PROVE  FreshInv'
<1>1. \A j \in Keys : /\ pass'[j].fresh => passes[j].fresh /\ (j = k => o = obj[k])
                      /\ cache'[j].fresh => cache[j].fresh /\ (j = k => o = obj[k])
                      /\ passes[j].fresh /\ (j = k => o = obj[k]) => pass'[j].fresh
                      /\ cache[j].fresh /\ (j = k => o = obj[k]) => cache'[j].fresh
                      /\ (j = k => o = obj[k]) => obj'[j] = obj[j]
                      /\ cache'[j].obj = cache[j].obj
                      /\ pass'[j].pc = passes[j].pc /\ pass'[j].obj = passes[j].obj
  BY DEF Wrote
<1>2. FreshInv
  BY DEF IInv
<1>3. ASSUME NEW j \in Keys
      PROVE  /\ cache'[j].fresh => cache'[j].obj = obj'[j]
             /\ pass'[j].fresh => pass'[j].pc # "idle" /\ cache'[j].fresh /\ pass'[j].obj = obj'[j]
             /\ pass'[j].pc # "idle" /\ cache'[j].fresh /\ j \notin queued' => pass'[j].fresh
  BY <1>1, <1>2 DEF FreshInv
<1> QED
  BY <1>3 DEF FreshInv

LEMMA FreshAborted ==
  ASSUME IInv, NEW k \in Keys, Aborted(k)
  PROVE  FreshInv'
BY Nothing DEF IInv, FreshInv, Aborted

LEMMA FreshNext == IInv /\ [Next]_vars => FreshInv'
<1> SUFFICES ASSUME IInv, [Next]_vars
             PROVE  FreshInv'
  OBVIOUS
<1>0. TypeOK /\ ObjectTypes /\ VersionInv /\ FreshInv
  BY Typed DEF IInv
<1>1. ASSUME NEW k \in Keys, Begin(k) PROVE FreshInv'
  <2>1. CASE ~cache[k].obj.exists /\ pass' = pass
    BY <1>0, <1>1, <2>1, BeginEffect DEF FreshInv
  <2>2. CASE /\ pass'[k].obj = cache[k].obj /\ pass'[k].fresh = cache[k].fresh
             /\ pass'[k].pc = (IF k = "route" /\ cache[k].obj.deleting THEN "delete"
                               ELSE IF pass'[k].shadowed THEN "get" ELSE "cert")
             /\ \A j \in Keys \ {k} : pass'[j] = pass[j]
    BY <1>0, <1>1, <2>2, BeginEffect DEF FreshInv
  <2> QED
    BY <1>0, <1>1, <2>1, <2>2, BeginEffect
<1>2. ASSUME NEW k \in Keys, DeleteCertificate(k) PROVE FreshInv'
  BY <1>0, <1>2, DeleteCertificateEffect DEF FreshInv, SameRead
<1>3. ASSUME NEW k \in Keys, CreateCertificate(k) PROVE FreshInv'
  BY <1>0, <1>3, CreateCertificateEffect, FreshAborted
<1>4. ASSUME NEW k \in Keys, Save(k) PROVE FreshInv'
  <2>1. CASE Aborted(k)
    BY <2>1, FreshAborted
  <2>2. CASE /\ obj' = obj /\ cache' = cache /\ queued' = queued
             /\ pass'[k] = IdlePass /\ \A j \in Keys \ {k} : pass'[j] = pass[j]
    BY <1>0, <2>2, Nothing DEF FreshInv
  <2>3. CASE /\ queued' = queued
             /\ Wrote(k, Settle(Transform(Target(k, pass[k]), pass[k].obj)), Idle(k))
    <3>1. /\ Idle(k)[k].pc = "idle" /\ ~Idle(k)[k].fresh
          /\ \A j \in Keys \ {k} : Idle(k)[j] = pass[j]
      BY <1>0, IdleEffect, Nothing
    <3>2. \A j \in Keys : pass[j].fresh => pass[j].pc # "idle"
      BY <1>0 DEF FreshInv
    <3> QED
      BY <2>3, <3>1, <3>2, FreshWrote
  <2> QED
    BY <1>0, <1>4, <2>1, <2>2, <2>3, SaveEffect
<1>5. ASSUME NEW k \in Keys, Sync(k) PROVE FreshInv'
  BY <1>0, <1>5, SyncEffect DEF FreshInv
<1>6. ASSUME NEW k \in Keys, PassFails(k) PROVE FreshInv'
  BY <1>0, <1>6, PassFailsEffect, FreshAborted
<1>7. ASSUME NEW k \in Keys, CertReady(k) PROVE FreshInv'
  BY <1>0, <1>7, CertReadyEffect DEF FreshInv
<1>8. CASE DeleteShadow
  <2>1. PICK passes \in [Keys -> Passes] :
          /\ pass["route"].pc = "delete" /\ queued' = queued
          /\ passes["route"].pc = (IF pass["route"].shadowed THEN "get" ELSE "cert")
          /\ SameRead(passes["route"], pass["route"])
          /\ \A j \in Keys \ {"route"} : passes[j] = pass[j]
          /\ \/ pass' = passes /\ obj' = obj /\ cache' = cache
             \/ \E new \in Objects : Wrote("shadow", Settle(new), passes)
    BY <1>0, <1>8, DeleteShadowEffect
  <2>2. \A j \in Keys : /\ passes[j].fresh = pass[j].fresh /\ passes[j].obj = pass[j].obj
                        /\ passes[j].pc = "idle" <=> pass[j].pc = "idle"
    BY <2>1 DEF SameRead
  <2>3. \A j \in Keys : pass[j].fresh => pass[j].pc # "idle"
    BY <1>0 DEF FreshInv
  <2>4. CASE pass' = passes /\ obj' = obj /\ cache' = cache
    BY <1>0, <2>1, <2>2, <2>4 DEF FreshInv
  <2>5. ASSUME NEW new \in Objects, Wrote("shadow", Settle(new), passes) PROVE FreshInv'
    BY <2>1, <2>2, <2>3, <2>5, FreshWrote, KeysAndHosts
  <2> QED
    BY <2>1, <2>4, <2>5
<1>9. CASE GetShadow
  BY <1>0, <1>9, GetShadowEffect, KeysAndHosts DEF FreshInv
<1>10. ASSUME pass["route"].pc # "idle", queued' = queued,
              NEW o, Wrote("shadow", o, Shadowed)
       PROVE  FreshInv'
  <2>1. \A j \in Keys : /\ Shadowed[j].fresh = pass[j].fresh /\ Shadowed[j].obj = pass[j].obj
                        /\ Shadowed[j].pc = "idle" <=> pass[j].pc = "idle"
    BY <1>0, <1>10, ShadowedEffect
  <2>2. \A j \in Keys : pass[j].fresh => pass[j].pc # "idle"
    BY <1>0 DEF FreshInv
  <2> QED
    BY <1>10, <2>1, <2>2, FreshWrote, KeysAndHosts
<1>11. CASE CreateShadow
  BY <1>0, <1>10, <1>11, CreateShadowEffect, FreshAborted, KeysAndHosts
<1>12. CASE UpdateShadow
  BY <1>0, <1>10, <1>12, UpdateShadowEffect, FreshAborted, KeysAndHosts
<1>13. CASE RoutesFromDomainVerification
  BY <1>0, <1>13 DEF RoutesFromDomainVerification, FreshInv
<1>14. CASE Crash
  BY <1>0, <1>14, CrashEffect, Nothing DEF FreshInv
<1>15. CASE UserDeletes
  <2>1. \A j \in Keys : pass[j].fresh => pass[j].pc # "idle"
    BY <1>0 DEF FreshInv
  <2> QED
    BY <1>0, <1>15, <2>1, UserDeletesEffect, FreshWrote, KeysAndHosts
<1>16. CASE VerificationChanges
  BY <1>0, <1>16, VerificationChangesEffect DEF FreshInv
<1>17. CASE UNCHANGED vars
  BY <1>0, <1>17 DEF vars, FreshInv
<1> QED
  BY <1>1, <1>2, <1>3, <1>4, <1>5, <1>6, <1>7, <1>8, <1>9, <1>11, <1>12, <1>13, <1>14,
     <1>15, <1>16, <1>17, Actions

-----------------------------------------------------------------------------
(* What a pass has found out.                                              *)

\* What ShadowedInv says of a key, shadow: the shadow is there.
Decided(k, p, shadow) ==
  /\ p.shadowed => k = "route" /\ (p.obj.host = Custom => proved)
  /\ p.pc \in {"get", "create", "update"} => p.shadowed
  /\ p.pc \in {"delete", "save"} => p.obj.deleting
  /\ k = "shadow" => p.pc \in {"idle", "cert", "save"}
  /\ p.pc = "update" /\ p.seen => shadow

LEMMA DecidedEach == ShadowedInv <=> \A k \in Keys : Decided(k, pass[k], obj["shadow"].exists)
BY DEF ShadowedInv, Decided

LEMMA ShadowedAborted ==
  ASSUME IInv, NEW k \in Keys, Aborted(k), proved' = proved
  PROVE  ShadowedInv'
BY Nothing DEF IInv, ShadowedInv, Aborted

LEMMA ShadowedWrote ==
  ASSUME IInv, NEW k \in Keys, NEW o, NEW passes, Wrote(k, o, passes), proved' = proved,
         \A j \in Keys : Decided(j, passes[j], obj["shadow"].exists)
  PROVE  ShadowedInv'
BY KeysAndHosts DEF IInv, Decided, ShadowedInv, Wrote

LEMMA ShadowedNext == IInv /\ [Next]_vars => ShadowedInv'
<1> SUFFICES ASSUME IInv, [Next]_vars
             PROVE  ShadowedInv'
  OBVIOUS
<1>0. /\ TypeOK /\ ObjectTypes /\ VersionInv /\ ShadowedInv
      /\ \A j \in Keys : Decided(j, pass[j], obj["shadow"].exists)
  BY Typed, DecidedEach DEF IInv
<1>1. ASSUME NEW k \in Keys, Begin(k) PROVE ShadowedInv'
  <2>1. CASE pass' = pass
    BY <1>0, <1>1, <2>1, BeginEffect DEF ShadowedInv
  <2>2. CASE /\ pass'[k].obj = cache[k].obj /\ ~pass'[k].seen
             /\ pass'[k].shadowed <=> k = "route" /\ IsDomainVerified(cache[k].obj)
             /\ pass'[k].pc = (IF k = "route" /\ cache[k].obj.deleting THEN "delete"
                               ELSE IF pass'[k].shadowed THEN "get" ELSE "cert")
             /\ \A j \in Keys \ {k} : pass'[j] = pass[j]
    <3>1. IsDomainVerified(cache[k].obj) => (cache[k].obj.host = Custom => proved)
      BY <1>0, KeysAndHosts DEF IsDomainVerified, VersionInv
    <3> QED
      BY <1>0, <1>1, <2>2, <3>1, BeginEffect, KeysAndHosts DEF ShadowedInv
  <2> QED
    BY <1>0, <1>1, <2>1, <2>2, BeginEffect
<1>2. ASSUME NEW k \in Keys, DeleteCertificate(k) PROVE ShadowedInv'
  BY <1>0, <1>2, DeleteCertificateEffect DEF ShadowedInv, SameRead
<1>3. ASSUME NEW k \in Keys, CreateCertificate(k) PROVE ShadowedInv'
  BY <1>0, <1>3, CreateCertificateEffect, ShadowedAborted
<1>4. ASSUME NEW k \in Keys, Save(k) PROVE ShadowedInv'
  <2>0. proved' = proved
    BY <1>0, <1>4, SaveEffect
  <2>1. CASE Aborted(k)
    BY <2>0, <2>1, ShadowedAborted
  <2>2. CASE /\ obj' = obj
             /\ pass'[k] = IdlePass /\ \A j \in Keys \ {k} : pass'[j] = pass[j]
    BY <1>0, <2>0, <2>2, Nothing DEF ShadowedInv
  <2>3. CASE Wrote(k, Settle(Transform(Target(k, pass[k]), pass[k].obj)), Idle(k))
    <3>1. \A j \in Keys : Decided(j, Idle(k)[j], obj["shadow"].exists)
      BY <1>0, IdleEffect, Nothing DEF Decided
    <3> QED
      BY <2>0, <2>3, <3>1, ShadowedWrote
  <2> QED
    BY <1>0, <1>4, <2>1, <2>2, <2>3, SaveEffect
<1>5. ASSUME NEW k \in Keys, Sync(k) PROVE ShadowedInv'
  BY <1>0, <1>5, SyncEffect DEF ShadowedInv
<1>6. ASSUME NEW k \in Keys, PassFails(k) PROVE ShadowedInv'
  BY <1>0, <1>6, PassFailsEffect, ShadowedAborted
<1>7. ASSUME NEW k \in Keys, CertReady(k) PROVE ShadowedInv'
  BY <1>0, <1>7, CertReadyEffect DEF ShadowedInv
<1>8. CASE DeleteShadow
  <2>1. PICK passes \in [Keys -> Passes] :
          /\ pass["route"].pc = "delete" /\ proved' = proved
          /\ passes["route"].pc = (IF pass["route"].shadowed THEN "get" ELSE "cert")
          /\ SameRead(passes["route"], pass["route"])
          /\ \A j \in Keys \ {"route"} : passes[j] = pass[j]
          /\ \/ pass' = passes /\ obj' = obj
             \/ \E new \in Objects : Wrote("shadow", Settle(new), passes)
    BY <1>0, <1>8, DeleteShadowEffect
  <2>2. \A j \in Keys : Decided(j, passes[j], obj["shadow"].exists)
    BY <1>0, <2>1, KeysAndHosts DEF SameRead, Decided
  <2>3. CASE pass' = passes /\ obj' = obj
    BY <2>1, <2>2, <2>3 DEF ShadowedInv, Decided
  <2>4. ASSUME NEW new \in Objects, Wrote("shadow", Settle(new), passes) PROVE ShadowedInv'
    BY <2>1, <2>2, <2>4, ShadowedWrote, KeysAndHosts
  <2> QED
    BY <2>1, <2>3, <2>4
<1>9. CASE GetShadow
  BY <1>0, <1>9, GetShadowEffect, KeysAndHosts DEF ShadowedInv
<1>10. ASSUME proved' = proved, NEW o, Wrote("shadow", o, Shadowed)
       PROVE  ShadowedInv'
  <2>1. \A j \in Keys : Decided(j, Shadowed[j], obj["shadow"].exists)
    BY <1>0, ShadowedEffect, KeysAndHosts DEF Decided
  <2> QED
    BY <1>10, <2>1, ShadowedWrote, KeysAndHosts
<1>11. CASE CreateShadow
  BY <1>0, <1>10, <1>11, CreateShadowEffect, ShadowedAborted, KeysAndHosts
<1>12. CASE UpdateShadow
  BY <1>0, <1>10, <1>12, UpdateShadowEffect, ShadowedAborted, KeysAndHosts
<1>13. CASE RoutesFromDomainVerification
  BY <1>0, <1>13 DEF RoutesFromDomainVerification, ShadowedInv
<1>14. CASE Crash
  BY <1>0, <1>14, CrashEffect, Nothing DEF ShadowedInv
<1>15. CASE UserDeletes
  BY <1>0, <1>15, UserDeletesEffect, ShadowedWrote, KeysAndHosts
<1>16. CASE VerificationChanges
  BY <1>0, <1>16, VerificationChangesEffect DEF ShadowedInv
<1>17. CASE UNCHANGED vars
  BY <1>0, <1>17 DEF vars, ShadowedInv
<1> QED
  BY <1>1, <1>2, <1>3, <1>4, <1>5, <1>6, <1>7, <1>8, <1>9, <1>11, <1>12, <1>13, <1>14,
     <1>15, <1>16, <1>17, Actions

-----------------------------------------------------------------------------
(* What is left when an object is at rest.                                 *)

\* What RestInv says of a key.
Rested(k) ==
  /\ obj[k].patch.on
  /\ k = "shadow" => obj[k].patch.host = Gen(k)
  /\ cert[k] = "ready" /\ (k = "shadow" \/ obj[k].pending # None) => obj[k].patch.tls = k

LEMMA RestedEach == RestInv <=> \A k \in Keys : AtRest(k) => Rested(k)
BY DEF RestInv, Rested

\* What has not changed stays at rest as it was.
LEMMA RestKept ==
  ASSUME IInv, NEW j \in Keys, obj'[j] = obj[j], cert'[j] = cert[j],
         cache'[j].fresh => cache[j].fresh, pass'[j].pc = "idle" => pass[j].pc = "idle",
         j \in queued => j \in queued'
  PROVE  AtRest(j)' => Rested(j)'
BY RestedEach DEF IInv, AtRest, Rested

LEMMA RestAborted ==
  ASSUME IInv, NEW k \in Keys, Aborted(k), \A j \in Keys \ {k} : cert'[j] = cert[j]
  PROVE  RestInv'
<1>1. ~AtRest(k)'
  BY DEF Aborted, AtRest
<1>2. \A j \in Keys \ {k} : AtRest(j)' => Rested(j)'
  BY RestKept DEF Aborted
<1> QED
  BY <1>1, <1>2 DEF RestInv, Rested

\* A pass has made its object what it is to be: it saves it so, or finds it so.
LEMMA SavedRest ==
  ASSUME IInv, NEW k \in Keys, Save(k)
  PROVE  AtRest(k)' => Rested(k)'
<1> SUFFICES ASSUME AtRest(k)' PROVE Rested(k)'
  OBVIOUS
<1> DEFINE target == Target(k, pass[k])
           new == Transform(target, pass[k].obj)
<1>0. /\ TypeOK /\ ObjectTypes /\ VersionInv /\ FreshInv /\ ShadowedInv
      /\ pass[k] \in Passes /\ pass[k].obj \in Objects
  BY Typed DEF IInv, ObjectTypes, Passes
<1>1. /\ target \in Objects /\ target.exists = pass[k].obj.exists
      /\ target.deleting = pass[k].obj.deleting /\ target.fins = Finalizers(k, pass[k])
      /\ target.pending = IF k = "shadow" THEN pass[k].obj.pending
                          ELSE IF pass[k].shadowed THEN None ELSE pass[k].obj.host
      /\ target.host = IF k = "route" /\ pass[k].shadowed THEN pass[k].obj.host
                       ELSE GeneratedHost(k, pass[k].obj)
      /\ target.tls =
           IF cert[k] = "ready" /\ ~pass[k].obj.deleting /\ target.host = Gen(k)
           THEN k ELSE pass[k].obj.tls
  BY <1>0, TargetEffect
<1>2. ~pass[k].obj.deleting => GeneratedHost(k, pass[k].obj) = Gen(k)
  BY DEF GeneratedHost
<1>3. cert' = cert /\ pass[k].pc \in {"cert", "save"}
  BY <1>0, SaveEffect
<1>4. pass[k].obj.exists /\ Version(k, pass[k].obj, proved)
  BY <1>0, <1>3 DEF VersionInv
<1>5. CASE Aborted(k)
  BY <1>5 DEF Aborted, AtRest
<1>6. CASE target = pass[k].obj /\ obj' = obj /\ cache' = cache /\ queued' = queued
  <2>1. pass[k].fresh /\ pass[k].obj = obj[k] /\ ~pass[k].obj.deleting
    BY <1>0, <1>3, <1>6 DEF FreshInv, AtRest
  <2>2. CASE k = "shadow"
    BY <1>1, <1>2, <1>4, <1>6, <2>1, <2>2, KeysAndHosts DEF Version, ShadowVersion
  <2>3. CASE k = "route"
    <3>1. RouteVersion(pass[k].obj)
      BY <1>4, <2>3 DEF Version
    <3>2. pass[k].obj.fins # {}
      BY <1>1, <1>6, <2>1, <2>3 DEF Finalizers
    <3>3. pass[k].shadowed /\ pass[k].obj.pending = None
      BY <1>1, <1>2, <1>6, <2>1, <2>3, <3>1, KeysAndHosts DEF RouteVersion
    <3> QED
      BY <1>6, <2>1, <2>3, <3>1, <3>2, <3>3 DEF RouteVersion, Rested
  <2> QED
    BY <2>2, <2>3, KeysAndHosts
<1>7. CASE Wrote(k, Settle(new), Idle(k))
  <2>1. obj'[k] = Settle(new) /\ obj'[k].exists /\ ~obj'[k].deleting
    BY <1>7 DEF Wrote, AtRest
  <2>2. obj'[k] = new
    BY <2>1, Settled, Nothing
  <2> HIDE DEF target
  <2>3. /\ new.deleting = target.deleting /\ new.pending = target.pending
        /\ new.patch.on /\ new.patch.host = target.host /\ new.patch.tls = target.tls
    BY <1>0, <1>1, TransformEffect
  <2> HIDE DEF new
  <2>4. ~pass[k].obj.deleting
    BY <1>1, <2>1, <2>2, <2>3
  <2>5. k = "shadow" => new.patch.host = Gen(k)
    BY <1>1, <1>2, <2>3, <2>4, KeysAndHosts
  <2>6. cert[k] = "ready" /\ (k = "shadow" \/ new.pending # None) => new.patch.tls = k
    BY <1>1, <1>2, <2>3, <2>4, KeysAndHosts
  <2> QED
    BY <1>3, <2>2, <2>3, <2>5, <2>6 DEF Rested
<1> QED
  BY <1>0, <1>5, <1>6, <1>7, SaveEffect

LEMMA RestNext == IInv /\ [Next]_vars => RestInv'
<1> SUFFICES ASSUME IInv, [Next]_vars
             PROVE  \A j \in Keys : AtRest(j)' => Rested(j)'
  BY DEF RestInv, Rested
<1>0. /\ TypeOK /\ ObjectTypes /\ VersionInv /\ FreshInv /\ ShadowedInv
      /\ queued \subseteq Keys /\ cert \in [Keys -> {"none", "issuing", "ready"}]
  BY Typed DEF IInv
<1> DEFINE Goal == \A j \in Keys : AtRest(j)' => Rested(j)'
<1>a. RestInv' => Goal
  BY DEF RestInv, Rested
<1>1. ASSUME NEW k \in Keys, Begin(k) PROVE Goal
  <2>1. ~AtRest(k)'
    BY <1>0, <1>1, BeginEffect DEF AtRest, FreshInv
  <2>2. \A j \in Keys \ {k} : AtRest(j)' => Rested(j)'
    BY <1>0, <1>1, BeginEffect, RestKept
  <2> QED
    BY <2>1, <2>2
<1>2. ASSUME NEW k \in Keys, DeleteCertificate(k) PROVE Goal
  <2>1. ~AtRest(k)'
    BY <1>0, <1>2, DeleteCertificateEffect DEF AtRest
  <2>2. \A j \in Keys \ {k} : AtRest(j)' => Rested(j)'
    BY <1>0, <1>2, DeleteCertificateEffect, RestKept
  <2> QED
    BY <2>1, <2>2
<1>3. ASSUME NEW k \in Keys, CreateCertificate(k) PROVE Goal
  BY <1>0, <1>3, <1>a, CreateCertificateEffect, RestAborted
<1>4. ASSUME NEW k \in Keys, Save(k) PROVE Goal
  <2>1. ASSUME NEW j \in Keys \ {k}
        PROVE  /\ obj'[j] = obj[j] /\ cert'[j] = cert[j] /\ cache'[j] = cache[j]
               /\ pass'[j].pc = pass[j].pc /\ (j \in queued => j \in queued')
    <3>1. CASE Aborted(k)
      BY <1>0, <1>4, <3>1, SaveEffect DEF Aborted
    <3>2. CASE Wrote(k, Settle(Transform(Target(k, pass[k]), pass[k].obj)), Idle(k)) /\ queued' = queued
      BY <1>0, <1>4, <3>2, SaveEffect, IdleEffect DEF Wrote
    <3> QED
      BY <1>0, <1>4, <3>1, <3>2, SaveEffect
  <2> QED
    BY <1>4, <2>1, SavedRest, RestKept
<1>5. ASSUME NEW k \in Keys, Sync(k) PROVE Goal
  <2>1. ~AtRest(k)'
    BY <1>0, <1>5, SyncEffect DEF AtRest
  <2>2. \A j \in Keys \ {k} : AtRest(j)' => Rested(j)'
    BY <1>0, <1>5, SyncEffect, RestKept
  <2> QED
    BY <2>1, <2>2
<1>6. ASSUME NEW k \in Keys, PassFails(k) PROVE Goal
  BY <1>0, <1>6, <1>a, PassFailsEffect, RestAborted
<1>7. ASSUME NEW k \in Keys, CertReady(k) PROVE Goal
  <2>1. ~AtRest(k)'
    BY <1>0, <1>7, CertReadyEffect DEF AtRest, FreshInv
  <2>2. \A j \in Keys \ {k} : AtRest(j)' => Rested(j)'
    BY <1>0, <1>7, CertReadyEffect, RestKept
  <2> QED
    BY <2>1, <2>2
\* The Route is in a pass, the shadow as it was.
<1>8. CASE DeleteShadow
  <2>1. PICK passes \in [Keys -> Passes] :
          /\ passes["route"].pc = (IF pass["route"].shadowed THEN "get" ELSE "cert")
          /\ queued' = queued /\ cert' = cert
          /\ \A j \in Keys \ {"route"} : passes[j] = pass[j]
          /\ \/ ~obj["shadow"].exists /\ pass' = passes /\ obj' = obj /\ cache' = cache
             \/ \E new \in Objects : new.deleting /\ Wrote("shadow", Settle(new), passes)
    BY <1>0, <1>8, DeleteShadowEffect
  <2>2. CASE ~obj["shadow"].exists /\ pass' = passes /\ obj' = obj
    BY <2>1, <2>2, KeysAndHosts DEF AtRest
  <2>3. ASSUME NEW new \in Objects, new.deleting, Wrote("shadow", Settle(new), passes)
        PROVE  ~AtRest("route")' /\ ~AtRest("shadow")'
    BY <2>1, <2>3, Settled, Nothing, KeysAndHosts DEF AtRest, Wrote
  <2> QED
    BY <2>1, <2>2, <2>3, KeysAndHosts
<1>9. CASE GetShadow
  <2>1. ~AtRest("route")'
    BY <1>0, <1>9, GetShadowEffect DEF AtRest
  <2>2. AtRest("shadow")' => Rested("shadow")'
    BY <1>0, <1>9, GetShadowEffect, RestKept, KeysAndHosts
  <2> QED
    BY <2>1, <2>2, KeysAndHosts
<1>10. ASSUME NEW o, Wrote("shadow", o, Shadowed), queued' = queued, cert' = cert
       PROVE  Goal
  <2>1. ~AtRest("route")'
    BY <1>0, <1>10, ShadowedEffect, KeysAndHosts DEF AtRest, Wrote
  <2>2. CASE o = obj["shadow"]
    <3>1. /\ obj'["shadow"] = obj["shadow"] /\ cert'["shadow"] = cert["shadow"]
          /\ cache'["shadow"].fresh => cache["shadow"].fresh
          /\ pass'["shadow"].pc = pass["shadow"].pc
      <4>1. Shadowed["shadow"] = pass["shadow"]
        BY <1>0, ShadowedEffect, KeysAndHosts
      <4>2. /\ obj'["shadow"] = o /\ pass'["shadow"].pc = Shadowed["shadow"].pc
            /\ cache'["shadow"].fresh = (cache["shadow"].fresh /\ o = obj["shadow"])
        BY <1>10, KeysAndHosts, Zenon DEF Wrote
      <4> QED
        BY <1>10, <2>2, <4>1, <4>2
    <3>2. AtRest("shadow")' => Rested("shadow")'
      BY <1>10, <3>1, RestKept, KeysAndHosts
    <3> QED
      BY <2>1, <3>2, KeysAndHosts
  <2>3. CASE o # obj["shadow"]
    BY <1>10, <2>1, <2>3, KeysAndHosts DEF AtRest, Wrote
  <2> QED
    BY <2>2, <2>3
<1>11. CASE CreateShadow
  BY <1>0, <1>10, <1>11, <1>a, CreateShadowEffect, RestAborted, KeysAndHosts
<1>12. CASE UpdateShadow
  BY <1>0, <1>10, <1>12, <1>a, UpdateShadowEffect, RestAborted, KeysAndHosts
<1>13. CASE RoutesFromDomainVerification
  BY <1>0, <1>13, RestKept DEF RoutesFromDomainVerification
<1>14. CASE Crash
  BY <1>0, <1>14, CrashEffect DEF AtRest
<1>15. CASE UserDeletes
  <2>1. PICK new \in Objects :
          new.deleting /\ Wrote("route", Settle(new), pass) /\ UNCHANGED <<queued, cert>>
    BY <1>0, <1>15, UserDeletesEffect
  <2>2. ~AtRest("route")'
    BY <2>1, Settled, Nothing DEF AtRest, Wrote
  <2>3. AtRest("shadow")' => Rested("shadow")'
    BY <1>0, <2>1, RestKept, KeysAndHosts DEF Wrote
  <2> QED
    BY <2>2, <2>3, KeysAndHosts
<1>16. CASE VerificationChanges
  BY <1>0, <1>16, VerificationChangesEffect, RestKept
<1>17. CASE UNCHANGED vars
  BY <1>0, <1>17, RestKept DEF vars
<1> HIDE DEF Goal
<1> QED
  BY <1>1, <1>2, <1>3, <1>4, <1>5, <1>6, <1>7, <1>8, <1>9, <1>11, <1>12, <1>13, <1>14,
     <1>15, <1>16, <1>17, Actions DEF Goal

-----------------------------------------------------------------------------
(* The shadow of a Route that goes.                                        *)

Deleted(o) == ~o.exists \/ o.deleting
Leaving(p) == p.obj.deleting /\ ~p.shadowed /\ p.pc \in {"cert", "save"}

LEMMA GoneIs == ShadowGone <=> (Leaving(pass["route"]) => Deleted(obj["shadow"]))
BY DEF ShadowGone, Leaving, Deleted

\* The shadow's own pass saves it under deletion if it was.
LEMMA SavedDeleted ==
  ASSUME IInv, NEW k \in Keys, pass[k].pc # "idle", pass[k].fresh, Deleted(obj[k])
  PROVE  Deleted(Settle(Transform(Target(k, pass[k]), pass[k].obj)))
<1>1. pass[k] \in Passes /\ pass[k].obj \in Objects
  BY Typed DEF IInv, ObjectTypes, Passes
<1>2. pass[k].obj = obj[k] /\ pass[k].obj.exists
  BY DEF IInv, FreshInv, VersionInv
<1>3. Transform(Target(k, pass[k]), pass[k].obj).deleting
  BY <1>1, <1>2, TargetEffect, TransformEffect DEF Deleted
<1> QED
  BY <1>3, Settled, Nothing DEF Deleted

LEMMA GoneKept ==
  ASSUME IInv, Leaving(pass'["route"]) => Leaving(pass["route"]),
         Deleted(obj["shadow"]) => Deleted(obj'["shadow"])
  PROVE  ShadowGone'
<1>1. ShadowGone
  BY DEF IInv
<1> QED
  BY <1>1, GoneIs DEF ShadowGone, Leaving, Deleted

LEMMA GoneAborted ==
  ASSUME IInv, NEW k \in Keys, Aborted(k)
  PROVE  ShadowGone'
<1>1. Leaving(pass'["route"]) => Leaving(pass["route"])
  BY Nothing, KeysAndHosts DEF Aborted, Leaving
<1> QED
  BY <1>1, GoneKept DEF Aborted

LEMMA ShadowGoneNext == IInv /\ [Next]_vars => ShadowGone'
<1> SUFFICES ASSUME IInv, [Next]_vars
             PROVE  ShadowGone'
  OBVIOUS
<1>0. /\ TypeOK /\ ObjectTypes /\ VersionInv /\ FreshInv /\ ShadowedInv
  BY Typed DEF IInv
<1>1. ASSUME NEW k \in Keys, Begin(k) PROVE ShadowGone'
  <2>1. Leaving(pass'["route"]) => Leaving(pass["route"])
    BY <1>0, <1>1, BeginEffect, KeysAndHosts DEF Leaving
  <2> QED
    BY <1>0, <1>1, <2>1, BeginEffect, GoneKept
<1>2. ASSUME NEW k \in Keys, DeleteCertificate(k) PROVE ShadowGone'
  <2>1. Leaving(pass'["route"]) => Leaving(pass["route"])
    BY <1>0, <1>2, DeleteCertificateEffect, KeysAndHosts DEF Leaving, SameRead
  <2> QED
    BY <1>0, <1>2, <2>1, DeleteCertificateEffect, GoneKept
<1>3. ASSUME NEW k \in Keys, CreateCertificate(k) PROVE ShadowGone'
  BY <1>0, <1>3, CreateCertificateEffect, GoneAborted
<1>4. ASSUME NEW k \in Keys, Save(k) PROVE ShadowGone'
  <2>0. pass[k].pc \in {"cert", "save"}
    BY <1>0, <1>4, SaveEffect
  <2>1. CASE Aborted(k)
    BY <2>1, GoneAborted
  <2>2. CASE obj' = obj /\ pass'[k] = IdlePass /\ \A j \in Keys \ {k} : pass'[j] = pass[j]
    <3>1. Leaving(pass'["route"]) => Leaving(pass["route"])
      BY <2>2, Nothing, KeysAndHosts DEF Leaving
    <3> QED
      BY <2>2, <3>1, GoneKept
  <2>3. CASE /\ Wrote(k, Settle(Transform(Target(k, pass[k]), pass[k].obj)), Idle(k))
             /\ pass[k].fresh
    <3>1. Leaving(pass'["route"]) => Leaving(pass["route"])
      BY <1>0, <2>3, IdleEffect, Nothing, KeysAndHosts DEF Leaving, Wrote
    <3>2. Deleted(obj["shadow"]) => Deleted(obj'["shadow"])
      BY <2>0, <2>3, SavedDeleted, KeysAndHosts DEF Wrote
    <3> QED
      BY <3>1, <3>2, GoneKept
  <2> QED
    BY <1>0, <1>4, <2>1, <2>2, <2>3, SaveEffect
<1>5. ASSUME NEW k \in Keys, Sync(k) PROVE ShadowGone'
  BY <1>0, <1>5, SyncEffect, GoneKept
<1>6. ASSUME NEW k \in Keys, PassFails(k) PROVE ShadowGone'
  BY <1>0, <1>6, PassFailsEffect, GoneAborted
<1>7. ASSUME NEW k \in Keys, CertReady(k) PROVE ShadowGone'
  BY <1>0, <1>7, CertReadyEffect, GoneKept
<1>8. CASE DeleteShadow
  <2>1. Deleted(obj'["shadow"])
    BY <1>0, <1>8, DeleteShadowEffect, Settled, Nothing DEF Deleted, Wrote
  <2> QED
    BY <2>1 DEF ShadowGone, Deleted
<1>9. CASE GetShadow
  <2>1. ~Leaving(pass'["route"])
    BY <1>0, <1>9, GetShadowEffect DEF Leaving
  <2> QED
    BY <1>0, <1>9, <2>1, GetShadowEffect, GoneKept
\* The shadow is made only by a pass that does not let the Route go.
<1>10. ASSUME NEW o, Wrote("shadow", o, Shadowed), pass["route"].shadowed
       PROVE  ShadowGone'
  <2>1. pass'["route"].shadowed
    BY <1>0, <1>10, ShadowedEffect, KeysAndHosts DEF Wrote
  <2> QED
    BY <2>1 DEF ShadowGone
<1>11. CASE CreateShadow
  <2>1. pass["route"].shadowed
    BY <1>0, <1>11, CreateShadowEffect, KeysAndHosts DEF ShadowedInv
  <2> QED
    BY <1>0, <1>10, <1>11, <2>1, CreateShadowEffect, GoneAborted, KeysAndHosts
<1>12. CASE UpdateShadow
  <2>1. pass["route"].shadowed
    BY <1>0, <1>12, UpdateShadowEffect, KeysAndHosts DEF ShadowedInv
  <2> QED
    BY <1>0, <1>10, <1>12, <2>1, UpdateShadowEffect, GoneAborted, KeysAndHosts
<1>13. CASE RoutesFromDomainVerification
  BY <1>0, <1>13, GoneKept DEF RoutesFromDomainVerification
<1>14. CASE Crash
  <2>1. ~Leaving(pass'["route"])
    BY <1>0, <1>14, CrashEffect, Nothing, KeysAndHosts DEF Leaving
  <2> QED
    BY <1>0, <1>14, <2>1, CrashEffect, GoneKept
<1>15. CASE UserDeletes
  <2>1. PICK new \in Objects : Wrote("route", Settle(new), pass)
    BY <1>0, <1>15, UserDeletesEffect
  <2>2. Leaving(pass'["route"]) => Leaving(pass["route"])
    BY <2>1, KeysAndHosts DEF Leaving, Wrote
  <2>3. obj'["shadow"] = obj["shadow"]
    BY <2>1, KeysAndHosts DEF Wrote
  <2> QED
    BY <2>2, <2>3, GoneKept
<1>16. CASE VerificationChanges
  BY <1>0, <1>16, VerificationChangesEffect, GoneKept
<1>17. CASE UNCHANGED vars
  BY <1>0, <1>17, GoneKept DEF vars
<1> QED
  BY <1>1, <1>2, <1>3, <1>4, <1>5, <1>6, <1>7, <1>8, <1>9, <1>11, <1>12, <1>13, <1>14,
     <1>15, <1>16, <1>17, Actions

-----------------------------------------------------------------------------
(* The invariant, and what it says of the Route.                           *)

LEMMA IInvInit == Init => IInv
<1> SUFFICES ASSUME Init PROVE IInv
  OBVIOUS
<1>1. PICK host \in Asked :
        obj = [k \in Keys |-> IF k = "route" THEN NewRoute(host) ELSE NoRoute]
  BY Zenon DEF Init
<1>2. host \in Hosts /\ host \in {Custom, NoHost}
  BY <1>1, RoutesAssumption, Zenon DEF Hosts, Custom, NoHost
<1>3. obj["route"] = NewRoute(host) /\ obj["shadow"] = NoRoute
  BY <1>1, KeysAndHosts
<1>4. \A k \in Keys : cache[k].obj = obj[k] /\ cache[k].fresh /\ pass[k] = IdlePass
  BY Zenon DEF Init
<1>5. proved = verified /\ queued = {"route"}
  BY DEF Init
<1>6. VersionInv
  <2>1. obj["route"].tls = "user" /\ obj["route"].host = host /\ obj["route"].fins = {}
        /\ ~obj["route"].patch.on /\ obj["route"].patch.host = NoHost /\ obj["route"].exists
    BY <1>2, <1>3, Nothing, Zenon
  <2>2. \A k \in Keys : Version(k, obj[k], proved) /\ (~obj[k].exists => obj[k] = NoRoute)
    BY <1>2, <1>3, <2>1, Nothing, KeysAndHosts DEF Version, RouteVersion
  <2> QED
    BY <1>4, <1>5, <2>2, Nothing DEF VersionInv
<1>7. FreshInv
  BY <1>4, Nothing DEF FreshInv
<1>8. ShadowedInv
  BY <1>4, Nothing, KeysAndHosts DEF ShadowedInv
<1>9. RestInv
  BY <1>3, <1>5, Nothing, KeysAndHosts DEF RestInv, AtRest
<1>10. ShadowGone
  BY <1>4, Nothing, KeysAndHosts DEF ShadowGone
<1> QED
  BY <1>6, <1>7, <1>8, <1>9, <1>10, TypeInit DEF IInv

LEMMA IInvNext == IInv /\ [Next]_vars => IInv'
BY TypeNext, VersionNext, FreshNext, ShadowedNext, RestNext, ShadowGoneNext DEF IInv

LEMMA Invariance == Spec => []IInv
BY IInvInit, IInvNext, PTL DEF Spec

\* The Route, its shadow, their copies and their passes keep their types, whatever fails
\* and however often the verification changes.
THEOREM TypeCorrect == Spec => []TypeOK
<1>1. IInv => TypeOK
  BY DEF IInv
<1> QED
  BY <1>1, Invariance, PTL

\* No host of the user's reaches the clusters, through the Route or its shadow, before its
\* domain was verified (route.go:94-133, 192-235).
THEOREM NoHostUnverified == Spec => []VerifiedOnly
<1>1. ASSUME IInv PROVE VerifiedOnly
  <2>1. /\ VersionInv /\ RestInv
        /\ \A k \in Keys : ~obj[k].exists => obj[k] = NoRoute
    BY <1>1 DEF IInv, VersionInv
  <2>2. \A k \in Keys : obj[k].patch.host = Custom => proved
    <3>1. NoRoute.patch.host # Custom
      BY KeysAndHosts, Zenon DEF NoRoute, NoPatch
    <3> QED
      BY <2>1, <3>1 DEF VersionInv, Version
  <2>3. ASSUME NEW k \in Keys, AtRest(k), ServedHost(k) = Custom
        PROVE  proved /\ k = "route"
    BY <2>1, <2>2, <2>3, KeysAndHosts DEF RestInv, ServedHost
  <2> QED
    BY <2>2, <2>3 DEF VerifiedOnly
<1> QED
  BY <1>1, Invariance, PTL

\* A Route and a shadow at rest whose certificate is ready are given to the clusters with
\* the tls settings that fit their host (route.go:94-133, tls.go:230-236).
THEOREM TLSFitsHost == Spec => []TLSFits
<1>1. ASSUME IInv PROVE TLSFits
  <2>1. SUFFICES ASSUME NEW k \in Keys, AtRest(k), cert[k] = "ready"
                 PROVE  ServedTLS(k) = IF ServedHost(k) = Gen(k) THEN k ELSE "user"
    BY DEF TLSFits
  <2>2. /\ obj[k].patch.on /\ ServedTLS(k) = obj[k].patch.tls
        /\ ServedHost(k) = obj[k].patch.host
        /\ k = "shadow" => obj[k].patch.host = Gen(k)
        /\ k = "shadow" \/ obj[k].pending # None => obj[k].patch.tls = k
    BY <1>1, <2>1 DEF IInv, RestInv, ServedTLS, ServedHost
  <2>3. CASE k = "shadow"
    BY <2>2, <2>3
  <2>4. CASE k = "route"
    <3>1. /\ obj[k].host \in {Custom, NoHost}
          /\ IF obj[k].pending = None
             THEN obj[k].patch.host = obj[k].host /\ obj[k].patch.tls = "user"
             ELSE obj[k].patch.host = Gen("route")
      BY <1>1, <2>1, <2>2, <2>4 DEF IInv, VersionInv, Version, RouteVersion, AtRest
    <3> QED
      BY <2>2, <2>4, <3>1, KeysAndHosts
  <2> QED
    BY <2>3, <2>4, KeysAndHosts
<1> QED
  BY <1>1, Invariance, PTL

\* A Route that has the finalizer for its shadow goes only after the shadow was deleted
\* (route.go:181-190, 231).
THEOREM ShadowFirst == Spec => ShadowGoesFirst
<1> DEFINE Goes == obj["route"].exists /\ "shadow" \in obj["route"].fins /\ ~obj'["route"].exists
                     => ~obj["shadow"].exists \/ obj["shadow"].deleting
<1>1. ASSUME IInv, [Next]_vars PROVE [Goes]_vars
  <2> SUFFICES ASSUME obj["route"].exists, "shadow" \in obj["route"].fins, ~obj'["route"].exists
               PROVE  ~obj["shadow"].exists \/ obj["shadow"].deleting
    OBVIOUS
  <2>0. TypeOK /\ ObjectTypes /\ ShadowGone /\ FreshInv
    BY <1>1, Typed DEF IInv
  <2>1. obj'["route"] # obj["route"]
    OBVIOUS
  <2>2. CASE UserDeletes
    BY <2>0, <2>2, UserDeletesEffect, Settled DEF Wrote
  <2>3. CASE Save("route")
    <3> DEFINE p == pass["route"]
               target == Target("route", p)
               new == Transform(target, p.obj)
    <3>1. p \in Passes /\ p.obj \in Objects
      BY <2>0, KeysAndHosts DEF ObjectTypes, Passes
    <3>2. obj'["route"] = Settle(new) /\ p.pc \in {"cert", "save"}
      BY <2>0, <2>1, <2>3, SaveEffect, KeysAndHosts DEF Aborted, Wrote
    <3>3. /\ new.deleting = p.obj.deleting /\ new.exists = p.obj.exists
          /\ new.fins = Finalizers("route", p)
      BY <3>1, TargetEffect, TransformEffect, KeysAndHosts
    <3>4. p.obj.exists
      BY <1>1, <3>2, KeysAndHosts DEF IInv, VersionInv
    <3>5. Settle(new) # new
      BY <3>2, <3>3, <3>4
    <3>6. new.deleting /\ new.fins = {}
      BY <3>5, Settled
    <3>7. p.obj.deleting /\ ~p.shadowed
      BY <3>3, <3>6 DEF Finalizers
    <3> QED
      BY <2>0, <3>2, <3>7 DEF ShadowGone
  <2>4. ~UserDeletes /\ ~Save("route") => obj'["route"] = obj["route"]
    <3> SUFFICES ASSUME ~UserDeletes, ~Save("route") PROVE obj'["route"] = obj["route"]
      OBVIOUS
    <3>1. ASSUME NEW k \in Keys,
                 \/ Begin(k) \/ DeleteCertificate(k) \/ CreateCertificate(k)
                 \/ Sync(k) \/ PassFails(k) \/ CertReady(k)
          PROVE  obj' = obj
      BY <2>0, <3>1, BeginEffect, DeleteCertificateEffect, CreateCertificateEffect, SyncEffect,
         PassFailsEffect, CertReadyEffect DEF Aborted
    <3>2. CASE Save("shadow")
      BY <2>0, <3>2, SaveEffect, KeysAndHosts DEF Aborted, Wrote
    <3>3. CASE DeleteShadow
      BY <2>0, <3>3, DeleteShadowEffect, KeysAndHosts DEF Wrote
    <3>4. CASE GetShadow
      BY <2>0, <3>4, GetShadowEffect
    <3>5. CASE CreateShadow
      BY <2>0, <3>5, CreateShadowEffect, KeysAndHosts DEF Aborted, Wrote
    <3>6. CASE UpdateShadow
      BY <2>0, <3>6, UpdateShadowEffect, KeysAndHosts DEF Aborted, Wrote
    <3>7. CASE RoutesFromDomainVerification \/ Crash \/ VerificationChanges \/ UNCHANGED vars
      BY <3>7 DEF RoutesFromDomainVerification, Crash, VerificationChanges, vars
    <3> QED
      BY <1>1, <3>1, <3>2, <3>3, <3>4, <3>5, <3>6, <3>7, Actions, KeysAndHosts
  <2> QED
    BY <2>1, <2>2, <2>3, <2>4
<1> QED
  BY <1>1, Invariance, PTL DEF Spec, ShadowGoesFirst

=============================================================================
