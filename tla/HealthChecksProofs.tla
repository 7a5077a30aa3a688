-------------------------- MODULE HealthChecksProofs --------------------------
(***************************************************************************)
(* Proofs about HealthChecks, for every set of addresses and settings and  *)
(* every number of changes, faults and restarts: type correctness, that an *)
(* id which is saved or published is that of a check AWS was asked for     *)
(* before, and that a check which was deleted is never there again.        *)
(***************************************************************************)
EXTENDS HealthChecks, TLAPS

Ids == 0..(MaxCrashes + 1)
Configs == Settings \union {None, Invalid}
Caches == [obj : Records, fresh : BOOLEAN]
Passes ==
  [pc : {"idle", "publish", "health", "zone", "status", "spec"}, cur : Records,
   shared : BOOLEAN, todo : SUBSET Addresses, status : BOOLEAN, spec : BOOLEAN,
   fresh : BOOLEAN]
RecordSets == [of : Addresses, check : Ids]
States == Settings \union {"none", "deleted"}
Refs == Addresses \X Processes
Spents == [changes : 0..MaxChanges, faults : 0..MaxFaults]

\* A pass goes through the endpoints of its copy: whatever it reads of one is there.
TodoInv ==
  /\ At("publish") => ~Deleting
  /\ At("health") =>
       pass.todo \subseteq DOMAIN (IF Deleting \/ cur.config = None THEN cur.st ELSE cur.eps)

\* The checks whose ids endpoints have were made.
KnownIn(eps, made) == \A a \in DOMAIN eps : eps[a] # 0 => made[a, eps[a]] # "none"

\* No id is an invention: whatever call failed or which of the copies is stale, an
\* endpoint of the record, of a copy of it or of the zone has the id of a check that AWS
\* has or had (aws/health.go:36-118, health_check_reconciler.go:74-106).
IdsKnown ==
  /\ \A r \in {rec, cache.obj, cur} : KnownIn(r.eps, checks) /\ KnownIn(r.st, checks)
  /\ \A set \in zone : set.check # 0 => checks[set.of, set.check] # "none"

IInv == TypeOK /\ TodoInv /\ IdsKnown

\* A check that was deleted stays so: its reference is used up, and no update brings it
\* back (aws/health.go:56-92, 120-189).  That is why an endpoint with its id is blocked.
DeletedForGood ==
  [][\A c \in Refs : checks[c] = "deleted" => checks'[c] = "deleted"]_vars

-----------------------------------------------------------------------------
(* What the pieces that actions are made of do to the variables.           *)

LEMMA Bounds ==
  /\ 0 \in Ids /\ Processes \subseteq Ids /\ Ids \ {0} \subseteq Processes
  /\ 1 \in Processes
  BY HealthChecksAssumption DEF Ids, Processes

LEMMA EndpointsAre ==
  \A eps : eps \in Endpoints <=> \E S \in SUBSET Addresses : eps \in [S -> Ids]
  BY DEF Endpoints, Ids

\* The id of an endpoint may be set, which leaves the others as they are.
LEMMA SetIdEffect ==
  ASSUME NEW eps \in Endpoints, NEW a \in Addresses, NEW id \in Ids
  PROVE  LET new == [eps EXCEPT ![a] = id]
         IN  /\ new \in Endpoints /\ DOMAIN new = DOMAIN eps
             /\ \A b \in DOMAIN eps : b = a \/ new[b] = eps[b]
             /\ a \in DOMAIN eps => new[a] = id
<1>1. PICK S \in SUBSET Addresses : eps \in [S -> Ids]
  BY EndpointsAre
<1>2. [eps EXCEPT ![a] = id] \in [S -> Ids]
  BY <1>1
<1> QED
  BY <1>1, <1>2, EndpointsAre

LEMMA IdOf ==
  ASSUME NEW eps \in Endpoints
  PROVE  /\ DOMAIN eps \subseteq Addresses
         /\ \A a \in DOMAIN eps : eps[a] \in Ids
<1>1. PICK S \in SUBSET Addresses : eps \in [S -> Ids]
  BY EndpointsAre
<1> QED
  BY <1>1

LEMMA RecordIs ==
  ASSUME NEW r \in Records
  PROVE  /\ r.life \in {"live", "deleting", "gone"} /\ r.config \in Configs
         /\ r.eps \in Endpoints /\ r.st \in Endpoints
         /\ r.published \in BOOLEAN /\ r.observed \in BOOLEAN
  BY DEF Records, Configs

LEMMA NewRecordEffect ==
  ASSUME NEW config \in Configs
  PROVE  LET r == NewRecord(config)
         IN  /\ r \in Records /\ r.life = "live"
             /\ DOMAIN r.eps = {} /\ DOMAIN r.st = {}
<1>1. NoEndpoints \in [{} -> Ids] /\ DOMAIN NoEndpoints = {}
  BY DEF NoEndpoints
<1>2. NoEndpoints \in Endpoints
  BY <1>1, EndpointsAre
<1> HIDE DEF NoEndpoints
<1>3. NewRecord(config) \in Records
  BY <1>2, Zenon DEF NewRecord, Records, Configs
<1>4. /\ NewRecord(config).life = "live"
      /\ NewRecord(config).eps = NoEndpoints /\ NewRecord(config).st = NoEndpoints
  BY Zenon DEF NewRecord
<1> QED
  BY <1>1, <1>3, <1>4

LEMMA IdleEffect ==
  /\ Idle \in Passes /\ Idle.pc = "idle" /\ Idle.todo = {}
  /\ DOMAIN Idle.cur.eps = {} /\ DOMAIN Idle.cur.st = {}
<1> DEFINE r == NewRecord(None)
<1>1. r \in Records /\ DOMAIN r.eps = {} /\ DOMAIN r.st = {}
  BY NewRecordEffect DEF Configs
<1>2. Idle = [pc |-> "idle", cur |-> r, shared |-> FALSE, todo |-> {},
              status |-> FALSE, spec |-> FALSE, fresh |-> FALSE]
  BY DEF Idle
<1> HIDE DEF r
<1> QED
  BY <1>1, <1>2, Zenon DEF Passes

LEMMA WriteEffect ==
  ASSUME TypeOK, NEW r, Write(r)
  PROVE  /\ rec' = r
         /\ cache' \in Caches /\ cache'.obj = cache.obj
  BY Zenon DEF TypeOK, Write, Caches

LEMMA WriteOverEffect ==
  ASSUME TypeOK, NEW r, WriteOver(r)
  PROVE  /\ rec' = r
         /\ cache' \in Caches /\ cache'.obj = cache.obj
         /\ pass' \in Passes
         /\ pass'.pc = pass.pc /\ pass'.cur = pass.cur /\ pass'.todo = pass.todo
         /\ UNCHANGED <<zone, checks, sid>> /\ queued' \in BOOLEAN
<1>1. /\ pass' \in Passes
      /\ pass'.pc = pass.pc /\ pass'.cur = pass.cur /\ pass'.todo = pass.todo
  BY Zenon DEF TypeOK, WriteOver, Passes
<1>2. Write(r) /\ UNCHANGED <<queued, zone, checks, sid>> /\ queued \in BOOLEAN
  BY DEF WriteOver, TypeOK
<1> QED
  BY <1>1, <1>2, WriteEffect

LEMMA SpentEffect ==
  ASSUME TypeOK
  PROVE  (Faulty \/ Change) => spent' \in Spents
  BY HealthChecksAssumption DEF TypeOK, Faulty, Change, Spents

LEMMA AbortEffect ==
  ASSUME TypeOK, Abort
  PROVE  pass' = Idle /\ queued' \in BOOLEAN
  BY DEF TypeOK, Abort

LEMMA DoneEffect ==
  ASSUME TypeOK, Done
  PROVE  pass' = Idle /\ queued' \in BOOLEAN
  BY DEF TypeOK, Done

\* A step of the pass to another place in process().
LEMMA GotoEffect ==
  ASSUME TypeOK, NEW pc \in {"idle", "publish", "health", "zone", "status", "spec"},
         pass' = [pass EXCEPT !.pc = pc]
  PROVE  /\ pass' \in Passes
         /\ pass'.pc = pc /\ pass'.cur = pass.cur /\ pass'.todo = pass.todo
  BY Zenon DEF TypeOK, Passes

LEMMA BeginEffect ==
  ASSUME TypeOK, Begin
  PROVE  /\ pass' \in Passes
         /\ \/ pass' = pass
            \/ /\ cache.obj.life = "deleting" /\ pass'.pc = "health" /\ pass'.cur = cache.obj
               /\ pass'.todo = DOMAIN cache.obj.st
            \/ /\ cache.obj.life = "live" /\ pass'.pc = "publish" /\ pass'.cur = cache.obj
         /\ queued' = FALSE
<1>1. cache.obj \in Records /\ cache.fresh \in BOOLEAN /\ Idle \in Passes /\ pass \in Passes
  BY IdleEffect DEF TypeOK, Passes
<1>2. DOMAIN cache.obj.st \in SUBSET Addresses
  BY <1>1, RecordIs, IdOf
<1>3. CASE cache.obj.life = "gone"
  <2>1. pass' = pass
    BY <1>3 DEF Begin
  <2> QED
    BY <1>1, <2>1 DEF Begin
<1>4. CASE cache.obj.life = "deleting"
  <2>1. pass' = [Idle EXCEPT !.pc = "health", !.cur = cache.obj, !.fresh = cache.fresh,
                             !.todo = DOMAIN cache.obj.st]
    BY <1>4 DEF Begin
  <2>2. /\ pass' \in Passes /\ pass'.pc = "health" /\ pass'.cur = cache.obj
        /\ pass'.todo = DOMAIN cache.obj.st
    BY <1>1, <1>2, <2>1, Zenon DEF Passes
  <2> QED
    BY <1>4, <2>2 DEF Begin
<1>5. CASE cache.obj.life = "live"
  <2>1. pass' = [Idle EXCEPT !.pc = "publish", !.cur = cache.obj, !.fresh = cache.fresh]
    BY <1>5 DEF Begin
  <2>2. pass' \in Passes /\ pass'.pc = "publish" /\ pass'.cur = cache.obj
    BY <1>1, <2>1, Zenon DEF Passes
  <2> QED
    BY <1>5, <2>2 DEF Begin
<1> QED
  BY <1>1, <1>3, <1>4, <1>5, RecordIs

LEMMA ConcernedIs ==
  ASSUME NEW r \in Records
  PROVE  /\ Concerned(r) \in SUBSET Addresses
         /\ Concerned(r) = DOMAIN (IF r.config = None THEN r.st ELSE r.eps)
  BY RecordIs, IdOf DEF Concerned

LEMMA SkipZoneEffect ==
  ASSUME TypeOK, SkipZone
  PROVE  /\ pass' \in Passes /\ pass'.pc = "health" /\ pass'.cur = pass.cur
         /\ pass'.todo = Concerned(pass.cur)
<1>1. Concerned(pass.cur) \in SUBSET Addresses /\ pass \in Passes
  BY ConcernedIs DEF TypeOK, Passes
<1>2. pass' = [pass EXCEPT !.pc = "health", !.todo = Concerned(pass.cur)]
  BY DEF SkipZone, cur
<1> QED
  BY <1>1, <1>2, Zenon DEF Passes

LEMMA EnsureEffect ==
  ASSUME TypeOK, Ensure
  PROVE  /\ pass' \in Passes /\ pass'.pc = "health"
         /\ pass'.cur.eps = cur.eps /\ pass'.cur.st = cur.eps
         /\ pass'.cur.life = cur.life /\ pass'.cur.config = cur.config
         /\ pass'.todo = Concerned(pass'.cur)
         /\ zone' \subseteq zone \union {changeForEndpoint(cur.eps, a) : a \in DOMAIN cur.eps}
<1> DEFINE accepted == Matches(cur.st, Dropped)
           status == [cur EXCEPT !.st = cur.eps, !.published = accepted, !.observed = TRUE]
<1>1. cur \in Records /\ pass \in Passes
  BY DEF TypeOK, Passes, cur
<1>2. cur.eps \in Endpoints
  BY <1>1, RecordIs
<1>3. accepted \in BOOLEAN
  BY DEF Matches
<1>4. /\ zone' = IF accepted THEN Ensured ELSE zone
      /\ pass' = [pass EXCEPT !.pc = "health", !.cur = status, !.todo = Concerned(status),
                              !.shared = TRUE, !.status = TRUE]
  BY DEF Ensure
<1>5. zone' \subseteq zone \union {changeForEndpoint(cur.eps, a) : a \in DOMAIN cur.eps}
  BY <1>4 DEF Ensured, Without
<1> HIDE DEF accepted
<1>6. /\ status \in Records /\ status.eps = cur.eps /\ status.st = cur.eps
      /\ status.life = cur.life /\ status.config = cur.config
  BY <1>1, <1>2, <1>3, Zenon DEF Records
<1>7. Concerned(status) \in SUBSET Addresses
  BY <1>6, ConcernedIs
<1> HIDE DEF status
<1>8. pass' \in Passes /\ pass'.pc = "health" /\ pass'.cur = status
      /\ pass'.todo = Concerned(status)
  BY <1>1, <1>4, <1>6, <1>7, Zenon DEF Passes
<1> QED
  BY <1>5, <1>6, <1>8

-----------------------------------------------------------------------------
(* What the calls to AWS do.                                               *)

\* No check that was made is forgotten, none that was deleted comes back.
Grown ==
  /\ checks' \in [Refs -> States]
  /\ \A c \in Refs :
       /\ checks[c] # "none" => checks'[c] # "none"
       /\ checks[c] = "deleted" => checks'[c] = "deleted"

LEMMA SetCheckEffect ==
  ASSUME TypeOK, NEW c \in Refs, NEW v \in States, checks' = [checks EXCEPT ![c] = v],
         v # "none", checks[c] = "deleted" => v = "deleted"
  PROVE  Grown /\ checks'[c] = v
<1>1. checks \in [Refs -> States]
  BY DEF TypeOK, Refs, States
<1> QED
  BY <1>1 DEF Grown

LEMMA UnchangedGrown == TypeOK /\ UNCHANGED checks => Grown
  BY DEF TypeOK, Refs, States, Grown

LEMMA KnownStays ==
  ASSUME Grown, NEW eps \in Endpoints, KnownIn(eps, checks)
  PROVE  KnownIn(eps, checks')
<1> SUFFICES ASSUME NEW a \in DOMAIN eps, eps[a] # 0 PROVE checks'[a, eps[a]] # "none"
  BY DEF KnownIn
<1>1. a \in Addresses /\ eps[a] \in Processes
  BY IdOf, Bounds
<1>2. <<a, eps[a]>> \in Refs /\ checks[a, eps[a]] # "none"
  BY <1>1 DEF KnownIn, Refs
<1> QED
  BY <1>2 DEF Grown

\* What the pass's copy is of.
LEMMA CurIs ==
  ASSUME TypeOK
  PROVE  /\ pass \in Passes /\ cur = pass.cur
         /\ cur \in Records /\ cur.eps \in Endpoints /\ cur.st \in Endpoints
         /\ cur.config \in Configs
         /\ pass.todo \subseteq Addresses
<1>1. pass \in Passes /\ cur = pass.cur
  BY DEF TypeOK, Passes, cur
<1>2. cur \in Records /\ pass.todo \subseteq Addresses
  BY <1>1 DEF Passes
<1> QED
  BY <1>1, <1>2, RecordIs

\* One endpoint is done: the pass's copy has other endpoints.
LEMMA CopyEffect ==
  ASSUME TypeOK, NEW a, NEW b \in BOOLEAN, NEW s \in BOOLEAN,
         NEW eps \in Endpoints, NEW st \in Endpoints,
         pass' = [pass EXCEPT !.todo = pass.todo \ {a}, !.status = s, !.spec = b,
                              !.cur = [cur EXCEPT !.eps = eps, !.st = st]]
  PROVE  /\ pass' \in Passes /\ pass'.pc = pass.pc /\ pass'.todo = pass.todo \ {a}
         /\ pass'.cur.eps = eps /\ pass'.cur.st = st
         /\ pass'.cur.life = cur.life /\ pass'.cur.config = cur.config
<1> DEFINE copy == [cur EXCEPT !.eps = eps, !.st = st]
<1>1. cur \in Records /\ pass \in Passes
  BY CurIs
<1>2. /\ copy \in Records /\ copy.eps = eps /\ copy.st = st
      /\ copy.life = cur.life /\ copy.config = cur.config
  BY <1>1, Zenon DEF Records
<1>3. pass.todo \ {a} \in SUBSET Addresses
  BY CurIs
<1>4. pass' = [pass EXCEPT !.todo = pass.todo \ {a}, !.status = s, !.spec = b, !.cur = copy]
  BY Zenon DEF copy
<1> HIDE DEF copy
<1>5. /\ pass' \in Passes /\ pass'.pc = pass.pc /\ pass'.todo = pass.todo \ {a}
      /\ pass'.cur = copy
  BY <1>1, <1>2, <1>3, <1>4, Zenon DEF Passes
<1> QED
  BY <1>2, <1>5

LEMMA CheckedEffect ==
  ASSUME TypeOK, NEW a \in Addresses, NEW id \in Ids, Checked(a, id)
  PROVE  /\ pass' \in Passes /\ pass'.pc = pass.pc /\ pass'.todo = pass.todo \ {a}
         /\ pass'.cur.eps = SetProviderSpecific(cur.eps, a, id)
         /\ pass'.cur.st \in {cur.st, pass'.cur.eps}
         /\ pass'.cur.life = cur.life /\ pass'.cur.config = cur.config
<1> DEFINE eps == SetProviderSpecific(cur.eps, a, id)
           st == IF pass.shared THEN eps ELSE cur.st
           b == pass.spec \/ eps # cur.eps
<1>1. pass \in Passes /\ cur = pass.cur /\ cur \in Records
  BY CurIs
<1>2. eps \in Endpoints
  BY CurIs, SetIdEffect DEF SetProviderSpecific
<1>3. st \in Endpoints /\ st \in {cur.st, eps}
  BY <1>2, CurIs
<1>4. b \in BOOLEAN
  OBVIOUS
<1>5. pass' = [pass EXCEPT !.todo = @ \ {a}, !.spec = @ \/ eps # cur.eps, !.cur.eps = eps,
                 !.cur.st = IF pass.shared THEN eps ELSE @]
  BY DEF Checked
<1> HIDE DEF eps
<1>6. pass' = [pass EXCEPT !.todo = pass.todo \ {a}, !.status = pass.status, !.spec = b,
                           !.cur = [cur EXCEPT !.eps = eps, !.st = st]]
  BY <1>1, <1>5, Zenon DEF Passes, Records
<1>7. pass.status \in BOOLEAN
  BY <1>1 DEF Passes
<1> HIDE DEF st, b
<1>8. /\ pass' \in Passes /\ pass'.pc = pass.pc /\ pass'.todo = pass.todo \ {a}
      /\ pass'.cur.eps = eps /\ pass'.cur.st = st
      /\ pass'.cur.life = cur.life /\ pass'.cur.config = cur.config
  BY <1>2, <1>3, <1>4, <1>6, <1>7, CopyEffect
<1>9. pass'.cur.eps = SetProviderSpecific(cur.eps, a, id)
  BY <1>8 DEF eps
<1> QED
  BY <1>3, <1>8, <1>9

LEMMA UpdateCheckEffect ==
  ASSUME TypeOK, TodoInv, NEW a \in Addresses, UpdateCheck(a)
  PROVE  /\ Grown /\ queued' \in BOOLEAN
         /\ \/ pass' = Idle
            \/ /\ pass' \in Passes /\ pass'.pc = "health" /\ pass'.todo = pass.todo \ {a}
               /\ pass'.cur.life = cur.life /\ pass'.cur.config = cur.config
               /\ ~Deleting /\ cur.config # None
               /\ pass'.cur.eps = cur.eps /\ pass'.cur.st \in {cur.st, cur.eps}
<1> DEFINE id == cur.eps[a]
<1>1. /\ At("health") /\ ~Deleting /\ cur.config \in Settings /\ a \in pass.todo /\ id # 0
      /\ \/ Missing(a, id) /\ Abort /\ UNCHANGED checks
         \/ /\ ~Missing(a, id)
            /\ checks' = [checks EXCEPT ![<<a, id>>] = cur.config]
            /\ Checked(a, id) /\ UNCHANGED queued
  BY DEF UpdateCheck, Valid, Updated
<1>2. cur.config # None
  BY <1>1, HealthChecksAssumption
<1>3. a \in DOMAIN cur.eps
  BY <1>1, <1>2 DEF TodoInv
<1>4. id \in Ids /\ id \in Processes
  BY <1>1, <1>3, CurIs, IdOf, Bounds
<1>5. CASE Missing(a, id) /\ Abort /\ UNCHANGED checks
  BY <1>5, AbortEffect, UnchangedGrown
<1>6. CASE /\ ~Missing(a, id)
           /\ checks' = [checks EXCEPT ![<<a, id>>] = cur.config]
           /\ Checked(a, id) /\ UNCHANGED queued
  <2>1. <<a, id>> \in Refs /\ cur.config \in States /\ cur.config # "none"
    BY <1>1, <1>4, HealthChecksAssumption DEF Refs, States
  <2>2. checks[<<a, id>>] # "deleted"
    BY <1>1, <1>6 DEF Missing
  <2>3. Grown
    BY <1>6, <2>1, <2>2, SetCheckEffect
  <2>4. SetProviderSpecific(cur.eps, a, id) = cur.eps
    BY <1>1 DEF SetProviderSpecific
  <2> HIDE DEF id
  <2>5. pass.pc = "health" /\ queued' \in BOOLEAN
    BY <1>1, <1>6 DEF At, TypeOK
  <2>6. /\ pass' \in Passes /\ pass'.pc = pass.pc /\ pass'.todo = pass.todo \ {a}
        /\ pass'.cur.eps = SetProviderSpecific(cur.eps, a, id)
        /\ pass'.cur.st \in {cur.st, pass'.cur.eps}
        /\ pass'.cur.life = cur.life /\ pass'.cur.config = cur.config
    BY <1>4, <1>6, CheckedEffect
  <2> QED
    BY <1>1, <1>2, <2>3, <2>4, <2>5, <2>6
<1> QED
  BY <1>1, <1>5, <1>6

LEMMA CreateCheckEffect ==
  ASSUME TypeOK, TodoInv, NEW a \in Addresses, CreateCheck(a)
  PROVE  /\ Grown /\ queued' \in BOOLEAN
         /\ \/ pass' = Idle
            \/ /\ pass' \in Passes /\ pass'.pc = "health" /\ pass'.todo = pass.todo \ {a}
               /\ pass'.cur.life = cur.life /\ pass'.cur.config = cur.config
               /\ ~Deleting /\ cur.config # None
               /\ a \in DOMAIN cur.eps /\ checks'[a, sid] # "none"
               /\ pass'.cur.eps = [cur.eps EXCEPT ![a] = sid]
               /\ pass'.cur.st \in {cur.st, pass'.cur.eps}
<1>1. /\ At("health") /\ ~Deleting /\ cur.config \in Settings /\ a \in pass.todo
      /\ cur.eps[a] = 0
      /\ \/ Abort /\ UNCHANGED checks
         \/ /\ Creatable(a)
            /\ checks' = [checks EXCEPT ![<<a, sid>>] = cur.config]
            /\ Checked(a, sid) /\ UNCHANGED queued
  BY DEF CreateCheck, Valid
<1>2. cur.config # None
  BY <1>1, HealthChecksAssumption
<1>3. a \in DOMAIN cur.eps
  BY <1>1, <1>2 DEF TodoInv
<1>4. sid \in Ids /\ sid \in Processes
  BY Bounds DEF TypeOK
<1>5. CASE Abort /\ UNCHANGED checks
  BY <1>5, AbortEffect, UnchangedGrown
<1>6. CASE /\ Creatable(a)
           /\ checks' = [checks EXCEPT ![<<a, sid>>] = cur.config]
           /\ Checked(a, sid) /\ UNCHANGED queued
  <2>1. <<a, sid>> \in Refs /\ cur.config \in States
        /\ cur.config # "none" /\ cur.config # "deleted"
    BY <1>1, <1>4, HealthChecksAssumption DEF Refs, States
  <2>2. checks[<<a, sid>>] # "deleted"
    BY <1>6, <2>1 DEF Creatable
  <2>3. Grown /\ checks'[<<a, sid>>] = cur.config
    BY <1>6, <2>1, <2>2, SetCheckEffect
  <2>4. SetProviderSpecific(cur.eps, a, sid) = [cur.eps EXCEPT ![a] = sid]
    BY <1>1 DEF SetProviderSpecific
  <2>5. pass.pc = "health" /\ queued' \in BOOLEAN
    BY <1>1, <1>6 DEF At, TypeOK
  <2>6. /\ pass' \in Passes /\ pass'.pc = pass.pc /\ pass'.todo = pass.todo \ {a}
        /\ pass'.cur.eps = SetProviderSpecific(cur.eps, a, sid)
        /\ pass'.cur.st \in {cur.st, pass'.cur.eps}
        /\ pass'.cur.life = cur.life /\ pass'.cur.config = cur.config
    BY <1>4, <1>6, CheckedEffect
  <2> QED
    BY <1>1, <1>2, <1>3, <2>1, <2>3, <2>4, <2>5, <2>6
<1> QED
  BY <1>1, <1>5, <1>6

LEMMA CheckFailsEffect ==
  ASSUME TypeOK, NEW a \in Addresses, CheckFails(a)
  PROVE  Grown /\ queued' \in BOOLEAN /\ pass' = Idle
<1>1. /\ cur.config \in Settings /\ Abort
      /\ \/ UNCHANGED checks
         \/ Creatable(a) /\ checks' = [checks EXCEPT ![<<a, sid>>] = cur.config]
  BY DEF CheckFails, Valid
<1>2. <<a, sid>> \in Refs /\ cur.config \in States
      /\ cur.config # "none" /\ cur.config # "deleted"
  BY <1>1, HealthChecksAssumption DEF Refs, States, TypeOK
<1>3. Creatable(a) => checks[<<a, sid>>] # "deleted"
  BY <1>2 DEF Creatable
<1> QED
  BY <1>1, <1>2, <1>3, SetCheckEffect, UnchangedGrown, AbortEffect

\* The id whose check is deleted.
LEMMA StatusIdIs ==
  ASSUME TypeOK, TodoInv, At("health"), Deleting \/ cur.config = None, NEW a \in pass.todo
  PROVE  /\ a \in Addresses /\ a \in DOMAIN cur.st
         /\ StatusId(a) # 0 => <<a, StatusId(a)>> \in Refs
<1>1. a \in DOMAIN cur.st /\ a \in Addresses
  BY CurIs DEF TodoInv
<1> QED
  BY <1>1, CurIs, IdOf, Bounds DEF StatusId, Refs

LEMMA DeleteFailsEffect ==
  ASSUME TypeOK, TodoInv, NEW a \in Addresses, DeleteFails(a)
  PROVE  Grown /\ queued' \in BOOLEAN /\ pass' = Idle
<1>1. /\ At("health") /\ (Deleting \/ cur.config = None) /\ a \in pass.todo
      /\ StatusId(a) # 0 /\ Abort
      /\ UNCHANGED checks \/ checks' = [checks EXCEPT ![<<a, StatusId(a)>>] = "deleted"]
  BY DEF DeleteFails
<1>2. <<a, StatusId(a)>> \in Refs /\ "deleted" \in States
  BY <1>1, StatusIdIs DEF States
<1> QED
  BY <1>1, <1>2, SetCheckEffect, UnchangedGrown, AbortEffect

LEMMA DeleteCheckEffect ==
  ASSUME TypeOK, TodoInv, NEW a \in Addresses, DeleteCheck(a)
  PROVE  /\ Grown /\ queued' \in BOOLEAN
         /\ \/ pass' = Idle
            \/ /\ pass' \in Passes /\ pass'.pc = "health" /\ pass'.todo = pass.todo \ {a}
               /\ pass'.cur.life = cur.life /\ pass'.cur.config = cur.config
               /\ Deleting \/ cur.config = None
               /\ pass'.cur.st = [cur.st EXCEPT ![a] = 0]
               /\ pass'.cur.eps \in {cur.eps, [cur.eps EXCEPT ![a] = 0]}
<1> DEFINE id == StatusId(a)
           st == [cur.st EXCEPT ![a] = 0]
           eps == IF pass.shared THEN [cur.eps EXCEPT ![a] = 0] ELSE cur.eps
           s == pass.status \/ id # 0
           b == pass.spec \/ (pass.shared /\ id # 0)
<1>1. /\ At("health") /\ (Deleting \/ cur.config = None) /\ a \in pass.todo
      /\ \/ Abort /\ UNCHANGED checks
         \/ /\ checks' = IF id = 0 THEN checks ELSE [checks EXCEPT ![<<a, id>>] = "deleted"]
            /\ pass' = [pass EXCEPT !.todo = @ \ {a},
                          !.status = @ \/ id # 0, !.spec = @ \/ (pass.shared /\ id # 0),
                          !.cur.st = [@ EXCEPT ![a] = 0],
                          !.cur.eps = IF pass.shared THEN [@ EXCEPT ![a] = 0] ELSE @]
            /\ UNCHANGED queued
  BY Zenon DEF DeleteCheck, DeleteProviderSpecific
<1>2. CASE Abort /\ UNCHANGED checks
  BY <1>2, AbortEffect, UnchangedGrown
<1>3. CASE /\ checks' = IF id = 0 THEN checks ELSE [checks EXCEPT ![<<a, id>>] = "deleted"]
           /\ pass' = [pass EXCEPT !.todo = @ \ {a},
                         !.status = @ \/ id # 0, !.spec = @ \/ (pass.shared /\ id # 0),
                         !.cur.st = [@ EXCEPT ![a] = 0],
                         !.cur.eps = IF pass.shared THEN [@ EXCEPT ![a] = 0] ELSE @]
           /\ UNCHANGED queued
  <2>1. id # 0 => <<a, id>> \in Refs
    BY <1>1, StatusIdIs
  <2>2. Grown
    <3>1. "deleted" \in States
      BY DEF States
    <3> QED
      BY <1>3, <2>1, <3>1, SetCheckEffect, UnchangedGrown
  <2>3. pass \in Passes /\ cur = pass.cur /\ cur \in Records
    BY CurIs
  <2>4. st \in Endpoints /\ eps \in Endpoints
    BY CurIs, SetIdEffect, Bounds
  <2>5. s \in BOOLEAN /\ b \in BOOLEAN
    OBVIOUS
  <2> HIDE DEF id
  <2>6. pass' = [pass EXCEPT !.todo = pass.todo \ {a}, !.status = s, !.spec = b,
                             !.cur = [cur EXCEPT !.eps = eps, !.st = st]]
    <3>1. pass' = [pass EXCEPT !.todo = pass.todo \ {a}, !.status = s, !.spec = b,
                               !.cur = [cur EXCEPT !.st = st, !.eps = eps]]
      BY <1>3, <2>3, Zenon DEF Passes, Records
    <3>2. [cur EXCEPT !.st = st, !.eps = eps] = [cur EXCEPT !.eps = eps, !.st = st]
      BY <2>3 DEF Records
    <3> QED
      BY <3>1, <3>2, Zenon
  <2>7. pass.pc = "health" /\ queued' \in BOOLEAN
    BY <1>1, <1>3 DEF At, TypeOK
  <2>8. eps \in {cur.eps, [cur.eps EXCEPT ![a] = 0]}
    OBVIOUS
  <2>9. /\ pass' \in Passes /\ pass'.pc = pass.pc /\ pass'.todo = pass.todo \ {a}
        /\ pass'.cur.eps = eps /\ pass'.cur.st = st
        /\ pass'.cur.life = cur.life /\ pass'.cur.config = cur.config
    <3> HIDE DEF eps, st, s, b
    <3> QED
      BY <2>4, <2>5, <2>6, CopyEffect
  <2> QED
    BY <1>1, <2>2, <2>7, <2>8, <2>9
<1> QED
  BY <1>1, <1>2, <1>3

-----------------------------------------------------------------------------
(* What the writes make of the record, and the zone of a deletion.         *)

LEMMA RecordWrites ==
  ASSUME NEW r \in Records
  PROVE  /\ \A l \in {"deleting", "gone"} :
              LET w == [r EXCEPT !.life = l]
              IN  w \in Records /\ w.eps = r.eps /\ w.st = r.st
         /\ \A config \in Configs :
              LET w == [r EXCEPT !.config = config]
              IN  w \in Records /\ w.eps = r.eps /\ w.st = r.st
<1>1. ASSUME NEW l \in {"deleting", "gone"}
      PROVE  LET w == [r EXCEPT !.life = l]
             IN  w \in Records /\ w.eps = r.eps /\ w.st = r.st
  BY DEF Records
<1>2. ASSUME NEW config \in Configs
      PROVE  LET w == [r EXCEPT !.config = config]
             IN  w \in Records /\ w.eps = r.eps /\ w.st = r.st
  BY DEF Records, Configs
<1> QED
  BY <1>1, <1>2

\* The endpoints of a write are those of the record or of the pass, or have no ids yet.
Wrote ==
  /\ rec' \in Records
  /\ cache' \in Caches /\ cache'.obj = cache.obj
  /\ rec'.st \in {rec.st, cur.st}
  /\ \/ rec'.eps \in {rec.eps, cur.eps}
     \/ \A a \in DOMAIN rec'.eps :
          rec'.eps[a] = 0 \/ (a \in DOMAIN rec.eps /\ rec'.eps[a] = rec.eps[a])

LEMMA SaveStatusEffect ==
  ASSUME TypeOK, SaveStatus
  PROVE  /\ Wrote \/ UNCHANGED <<rec, cache>>
         /\ queued' \in BOOLEAN
         /\ pass' = Idle \/ (pass' \in Passes /\ pass'.pc = "spec" /\ pass'.cur = cur)
<1> DEFINE w == [rec EXCEPT !.st = cur.st, !.published = cur.published,
                            !.observed = cur.observed]
<1>1. \/ Write(w) /\ pass' = [pass EXCEPT !.pc = "spec"] /\ UNCHANGED queued
      \/ Write(w) /\ Done
      \/ Abort /\ UNCHANGED <<rec, cache>>
  BY DEF SaveStatus
<1>2. rec \in Records /\ cur.st \in Endpoints
      /\ cur.published \in BOOLEAN /\ cur.observed \in BOOLEAN
  BY CurIs, RecordIs DEF TypeOK
<1>3. w \in Records /\ w.eps = rec.eps /\ w.st = cur.st
  BY <1>2, Zenon DEF Records
<1> HIDE DEF w
<1>4. Write(w) => Wrote
  BY <1>3, WriteEffect DEF Wrote
<1>5. pass' = [pass EXCEPT !.pc = "spec"] =>
        pass' \in Passes /\ pass'.pc = "spec" /\ pass'.cur = cur
  BY CurIs, GotoEffect
<1>6. queued \in BOOLEAN
  BY DEF TypeOK
<1> QED
  BY <1>1, <1>4, <1>5, <1>6, AbortEffect, DoneEffect

LEMMA SaveSpecEffect ==
  ASSUME TypeOK, SaveSpec
  PROVE  /\ Wrote \/ UNCHANGED <<rec, cache>>
         /\ queued' \in BOOLEAN /\ pass' = Idle
<1> DEFINE gone == [rec EXCEPT !.life = "gone"]
           o == rec.observed /\ cur.eps = rec.eps
           w == [rec EXCEPT !.eps = cur.eps, !.config = rec.config, !.observed = o]
<1>1. rec \in Records /\ cur.eps \in Endpoints /\ rec.config \in Configs /\ o \in BOOLEAN
  BY CurIs, RecordIs DEF TypeOK
<1>2. \/ Write(gone) /\ Done
      \/ Write([rec EXCEPT !.eps = cur.eps, !.observed = @ /\ cur.eps = rec.eps]) /\ Done
      \/ Abort /\ UNCHANGED <<rec, cache>>
  BY Zenon DEF SaveSpec
<1>3. [rec EXCEPT !.eps = cur.eps, !.observed = @ /\ cur.eps = rec.eps] = w
  BY <1>1, Zenon DEF Records, Configs
<1>4. gone \in Records /\ gone.eps = rec.eps /\ gone.st = rec.st
  BY <1>1, RecordWrites
<1>5. w \in Records /\ w.eps = cur.eps /\ w.st = rec.st
  <2> HIDE DEF o
  <2> QED
    BY <1>1, Zenon DEF Records, Configs
<1> HIDE DEF gone, w
<1>6. Write(gone) \/ Write(w) => Wrote
  BY <1>4, <1>5, WriteEffect DEF Wrote
<1> QED
  BY <1>2, <1>3, <1>6, AbortEffect, DoneEffect

\* What others do to the record leaves the pass where it is.
Aside ==
  /\ Wrote
  /\ pass' \in Passes /\ pass'.pc = pass.pc /\ pass'.cur = cur /\ pass'.todo = pass.todo
  /\ UNCHANGED <<zone, checks, sid>> /\ queued' \in BOOLEAN

LEMMA AsideEffect ==
  ASSUME TypeOK, NEW r \in Records, WriteOver(r), r.st = rec.st,
         \A a \in DOMAIN r.eps :
           r.eps[a] = 0 \/ (a \in DOMAIN rec.eps /\ r.eps[a] = rec.eps[a])
  PROVE  Aside
  BY WriteOverEffect, CurIs DEF Aside, Wrote

LEMMA OwnerUpdatesEffect ==
  ASSUME TypeOK, NEW S \in SUBSET Addresses, NEW config \in Configs, OwnerUpdates(S, config)
  PROVE  Aside /\ spent' \in Spents
<1> DEFINE eps == setEndpointFromTargets(S)
           c == CopyAnnotations(config)
           o == rec.observed /\ eps = rec.eps
           w == [rec EXCEPT !.eps = eps, !.config = c, !.observed = o]
<1>1. rec \in Records
  BY DEF TypeOK
<1>2. eps \in Endpoints
        /\ \A a \in DOMAIN eps : eps[a] = 0 \/ (a \in DOMAIN rec.eps /\ eps[a] = rec.eps[a])
  <2>1. \A a \in DOMAIN rec.eps : rec.eps[a] \in Ids
    BY <1>1, RecordIs, IdOf
  <2>2. eps \in [S -> Ids]
    BY <2>1, Bounds DEF setEndpointFromTargets
  <2>3. \A a \in DOMAIN eps : eps[a] = 0 \/ (a \in DOMAIN rec.eps /\ eps[a] = rec.eps[a])
    BY DEF setEndpointFromTargets
  <2> QED
    BY <2>2, <2>3, EndpointsAre
<1>3. c \in Configs /\ o \in BOOLEAN
  BY <1>1, RecordIs DEF CopyAnnotations
<1>4. Change /\ WriteOver([rec EXCEPT !.eps = eps, !.config = c,
                                      !.observed = @ /\ eps = rec.eps])
  BY Zenon DEF OwnerUpdates
<1> HIDE DEF eps, c
<1>5. [rec EXCEPT !.eps = eps, !.config = c, !.observed = @ /\ eps = rec.eps] = w
  BY <1>1, Zenon DEF Records
<1>6. w \in Records /\ w.eps = eps /\ w.st = rec.st
  <2> HIDE DEF o
  <2> QED
    BY <1>1, <1>2, <1>3, Zenon DEF Records, Configs
<1> HIDE DEF w
<1> QED
  BY <1>2, <1>4, <1>5, <1>6, AsideEffect, SpentEffect

LEMMA UserEditsEffect ==
  ASSUME TypeOK, NEW config \in Configs, UserEdits(config)
  PROVE  Aside /\ spent' \in Spents
<1> DEFINE w == [rec EXCEPT !.config = config]
<1>1. rec \in Records /\ Change /\ WriteOver(w)
  BY DEF TypeOK, UserEdits
<1>2. w \in Records /\ w.eps = rec.eps /\ w.st = rec.st
  BY <1>1, RecordWrites
<1> HIDE DEF w
<1> QED
  BY <1>1, <1>2, AsideEffect, SpentEffect

LEMMA DeleteEffect ==
  ASSUME TypeOK, Delete
  PROVE  Aside /\ UNCHANGED spent
<1> DEFINE w == [rec EXCEPT !.life = "deleting"]
<1>1. rec \in Records /\ WriteOver(w) /\ UNCHANGED spent
  BY DEF TypeOK, Delete
<1>2. w \in Records /\ w.eps = rec.eps /\ w.st = rec.st
  BY <1>1, RecordWrites
<1> HIDE DEF w
<1> QED
  BY <1>1, <1>2, AsideEffect

LEMMA DeleteFromZoneEffect ==
  ASSUME TypeOK, DeleteFromZone
  PROVE  /\ zone' \subseteq zone /\ queued' \in BOOLEAN
         /\ \/ pass' = Idle
            \/ pass' \in Passes /\ pass'.pc \in {"status", "spec"} /\ pass'.cur = cur
<1>1. \/ /\ zone' \subseteq zone /\ UNCHANGED queued
         /\ pass' = [pass EXCEPT !.pc = IF pass.status THEN "status" ELSE "spec"]
      \/ Abort /\ UNCHANGED zone
  BY DEF DeleteFromZone, Without
<1>2. pass' = [pass EXCEPT !.pc = IF pass.status THEN "status" ELSE "spec"] =>
        pass' \in Passes /\ pass'.pc \in {"status", "spec"} /\ pass'.cur = cur
  BY CurIs, GotoEffect
<1>3. queued \in BOOLEAN
  BY DEF TypeOK
<1> QED
  BY <1>1, <1>2, <1>3, AbortEffect

LEMMA HealthCheckedEffect ==
  ASSUME TypeOK, HealthChecked
  PROVE  /\ queued' \in BOOLEAN
         /\ \/ pass' = Idle
            \/ pass' \in Passes /\ pass'.pc \in {"zone", "status", "spec"} /\ pass'.cur = cur
<1>1. \/ Done
      \/ \E pc \in {"zone", "status", "spec"} :
           pass' = [pass EXCEPT !.pc = pc] /\ UNCHANGED queued
  BY DEF HealthChecked
<1>2. \A pc \in {"zone", "status", "spec"} : pass' = [pass EXCEPT !.pc = pc] =>
        pass' \in Passes /\ pass'.pc = pc /\ pass'.cur = cur
  BY CurIs, GotoEffect
<1>3. queued \in BOOLEAN
  BY DEF TypeOK
<1> QED
  BY <1>1, <1>2, <1>3, DoneEffect

-----------------------------------------------------------------------------
(* Every step keeps the invariant, one step of a proof for each action.    *)

\* The type invariant, by the names of its sets.
Typed ==
  /\ rec \in Records /\ cache \in Caches /\ queued \in BOOLEAN
  /\ pass \in Passes /\ zone \subseteq RecordSets
  /\ checks \in [Refs -> States]
  /\ sid \in Processes /\ spent \in Spents

LEMMA TypedIs == (TypeOK => Typed) /\ (Typed' => TypeOK')
  BY DEF Typed, TypeOK, Caches, Passes, RecordSets, Ids, Refs, States, Spents

\* The record sets that a pass gives the zone.
LEMMA RecordSetsOf ==
  ASSUME NEW eps \in Endpoints, NEW a \in DOMAIN eps
  PROVE  /\ changeForEndpoint(eps, a) \in RecordSets
         /\ changeForEndpoint(eps, a).of = a /\ changeForEndpoint(eps, a).check = eps[a]
<1>1. a \in Addresses /\ eps[a] \in Ids
  BY IdOf
<1> QED
  BY <1>1 DEF changeForEndpoint, RecordSets

LEMMA TypeInit == Init => TypeOK
<1> SUFFICES ASSUME Init PROVE TypeOK
  OBVIOUS
<1>1. PICK config \in Configs : rec = NewRecord(config)
  BY DEF Init, Configs
<1>2. rec \in Records
  BY <1>1, NewRecordEffect
<1>3. cache \in Caches /\ queued \in BOOLEAN
  BY <1>2, Zenon DEF Init, Caches
<1>4. pass \in Passes
  BY IdleEffect DEF Init
<1>5. checks \in [Refs -> States] /\ zone = {}
  BY DEF Init, Refs, States
<1>6. sid \in Processes
  BY Bounds DEF Init
<1>7. spent \in Spents
  BY HealthChecksAssumption DEF Init, Spents
<1> QED
  BY <1>2, <1>3, <1>4, <1>5, <1>6, <1>7
     DEF TypeOK, Caches, Passes, Refs, States, Spents

LEMMA TypeNext == TypeOK /\ TodoInv /\ [Next]_vars => TypeOK'
<1> SUFFICES ASSUME TypeOK, TodoInv, [Next]_vars PROVE Typed'
  BY TypedIs
<1> USE DEF Typed
<1>1. Typed
  BY TypedIs
<1>2. Idle \in Passes /\ FALSE \in BOOLEAN /\ TRUE \in BOOLEAN
  BY IdleEffect
<1>3. CASE Begin
  BY <1>1, <1>2, <1>3, BeginEffect DEF Begin
<1>4. CASE SkipZone
  BY <1>1, <1>4, SkipZoneEffect DEF SkipZone
<1>5. CASE Ensure
  <2>1. cur.eps \in Endpoints
    BY CurIs
  <2>2. {changeForEndpoint(cur.eps, a) : a \in DOMAIN cur.eps} \subseteq RecordSets
    BY <2>1, RecordSetsOf
  <2> QED
    BY <1>1, <1>5, <2>2, EnsureEffect DEF Ensure
<1>6. CASE DeleteFromZone
  BY <1>1, <1>2, <1>6, DeleteFromZoneEffect DEF DeleteFromZone
<1>7. CASE Refused
  BY <1>1, <1>2, <1>7, AbortEffect DEF Refused
<1>8. CASE HealthChecked
  BY <1>1, <1>2, <1>8, HealthCheckedEffect DEF HealthChecked
<1>9. CASE SaveStatus
  BY <1>1, <1>2, <1>9, SaveStatusEffect DEF SaveStatus, Wrote
<1>10. CASE SaveSpec
  BY <1>1, <1>2, <1>10, SaveSpecEffect DEF SaveSpec, Wrote
<1>11. ASSUME NEW a \in Addresses, UpdateCheck(a) PROVE Typed'
  BY <1>1, <1>2, <1>11, UpdateCheckEffect DEF UpdateCheck, Grown
<1>12. ASSUME NEW a \in Addresses, CreateCheck(a) PROVE Typed'
  BY <1>1, <1>2, <1>12, CreateCheckEffect DEF CreateCheck, Grown
<1>13. ASSUME NEW a \in Addresses, DeleteCheck(a) PROVE Typed'
  BY <1>1, <1>2, <1>13, DeleteCheckEffect DEF DeleteCheck, Grown
<1>14. CASE Sync
  <2>1. cache' \in Caches
    BY <1>1, <1>14, Zenon DEF Sync, Caches
  <2> QED
    BY <1>1, <1>2, <1>14, <2>1 DEF Sync
<1>15. CASE SaveFails
  BY <1>1, <1>2, <1>15, AbortEffect, SpentEffect DEF SaveFails
<1>16. CASE Crash
  <2>1. cache' \in Caches
    BY <1>1, <1>16, Zenon DEF Crash, Caches
  <2>2. sid' \in Processes
    BY <1>16, HealthChecksAssumption DEF Crash, Processes
  <2> QED
    BY <1>1, <1>2, <1>16, <2>1, <2>2 DEF Crash
<1>17. ASSUME NEW a \in Addresses, CheckFails(a) PROVE Typed'
  BY <1>1, <1>2, <1>17, CheckFailsEffect, SpentEffect DEF CheckFails, Grown
<1>18. ASSUME NEW a \in Addresses, DeleteFails(a) PROVE Typed'
  BY <1>1, <1>2, <1>18, DeleteFailsEffect, SpentEffect DEF DeleteFails, Grown
<1>19. ASSUME NEW S \in SUBSET Addresses, NEW config \in Configs, OwnerUpdates(S, config)
       PROVE  Typed'
  BY <1>1, <1>19, OwnerUpdatesEffect DEF Aside, Wrote
<1>20. ASSUME NEW config \in Configs, UserEdits(config) PROVE Typed'
  BY <1>1, <1>20, UserEditsEffect DEF Aside, Wrote
<1>21. CASE Delete
  BY <1>1, <1>21, DeleteEffect DEF Aside, Wrote
<1>22. CASE UNCHANGED vars
  BY <1>1, <1>22 DEF vars
<1> QED
  BY <1>3, <1>4, <1>5, <1>6, <1>7, <1>8, <1>9, <1>10, <1>11, <1>12, <1>13, <1>14, <1>15,
     <1>16, <1>17, <1>18, <1>19, <1>20, <1>21, <1>22
     DEF Next, Step, Fault, Others, Configs

\* A pass that is nowhere near its checks has none to look at.
LEMMA TodoElsewhere ==
  ASSUME pass' = Idle \/ pass'.pc \in {"zone", "status", "spec"}
  PROVE  TodoInv'
  BY IdleEffect DEF TodoInv, At

LEMMA TodoNext == TypeOK /\ TodoInv /\ [Next]_vars => TodoInv'
<1> SUFFICES ASSUME TypeOK, TodoInv, [Next]_vars PROVE TodoInv'
  OBVIOUS
<1>1. cur = pass.cur /\ cur' = pass'.cur /\ cur.eps \in Endpoints /\ cur.st \in Endpoints
  BY CurIs DEF cur
<1>2. CASE UNCHANGED pass
  BY <1>2 DEF TodoInv, At, Deleting, cur
<1>3. CASE Begin
  <2>1. \/ UNCHANGED pass
        \/ cache.obj.life = "deleting" /\ pass'.pc = "health" /\ pass'.cur = cache.obj
           /\ pass'.todo = DOMAIN cache.obj.st
        \/ cache.obj.life = "live" /\ pass'.pc = "publish" /\ pass'.cur = cache.obj
    BY <1>3, BeginEffect
  <2> QED
    BY <1>1, <1>2, <2>1 DEF TodoInv, At, Deleting
<1>4. CASE SkipZone
  <2>1. ~Deleting /\ pass'.pc = "health" /\ pass'.cur = cur
        /\ pass'.todo = DOMAIN (IF cur.config = None THEN cur.st ELSE cur.eps)
    BY <1>1, <1>4, SkipZoneEffect, ConcernedIs, CurIs DEF SkipZone, TodoInv
  <2> QED
    BY <1>1, <2>1 DEF TodoInv, At, Deleting
<1>5. CASE Ensure
  <2>1. /\ ~Deleting /\ pass'.pc = "health" /\ pass'.cur.life = cur.life
        /\ pass'.cur \in Records /\ pass'.todo = Concerned(pass'.cur)
    BY <1>5, EnsureEffect DEF Ensure, TodoInv, Passes
  <2>2. pass'.todo = DOMAIN (IF pass'.cur.config = None THEN pass'.cur.st ELSE pass'.cur.eps)
    BY <2>1, ConcernedIs
  <2> QED
    BY <1>1, <2>1, <2>2 DEF TodoInv, At, Deleting
<1>6. ASSUME NEW a \in Addresses, UpdateCheck(a) \/ CreateCheck(a) PROVE TodoInv'
  <2>1. CASE pass' = Idle
    BY <2>1, TodoElsewhere
  <2>2. CASE pass' # Idle
    <3>1. /\ At("health") /\ pass'.pc = "health" /\ pass'.todo \subseteq pass.todo
          /\ pass'.cur.life = cur.life /\ pass'.cur.config = cur.config
          /\ ~Deleting /\ cur.config # None
          /\ DOMAIN pass'.cur.eps = DOMAIN cur.eps
      BY <1>6, <2>2, UpdateCheckEffect, CreateCheckEffect, SetIdEffect
         DEF UpdateCheck, CreateCheck
    <3> QED
      BY <1>1, <3>1 DEF TodoInv, At, Deleting
  <2> QED
    BY <2>1, <2>2
<1>7. ASSUME NEW a \in Addresses, DeleteCheck(a) PROVE TodoInv'
  <2>1. CASE pass' = Idle
    BY <2>1, TodoElsewhere
  <2>2. CASE pass' # Idle
    <3>1. /\ At("health") /\ pass'.pc = "health" /\ pass'.todo \subseteq pass.todo
          /\ pass'.cur.life = cur.life /\ pass'.cur.config = cur.config
          /\ Deleting \/ cur.config = None
          /\ DOMAIN pass'.cur.st = DOMAIN cur.st
      BY <1>7, <2>2, DeleteCheckEffect DEF DeleteCheck
    <3> QED
      BY <1>1, <3>1 DEF TodoInv, At, Deleting
  <2> QED
    BY <2>1, <2>2
<1>8. CASE DeleteFromZone \/ HealthChecked \/ SaveStatus
  BY <1>8, DeleteFromZoneEffect, HealthCheckedEffect, SaveStatusEffect, TodoElsewhere
<1>9. CASE Refused \/ SaveSpec \/ SaveFails \/ Crash
  BY <1>9, AbortEffect, SaveSpecEffect, TodoElsewhere DEF Refused, SaveFails, Crash
<1>10. ASSUME NEW a \in Addresses, CheckFails(a) \/ DeleteFails(a) PROVE TodoInv'
  BY <1>10, CheckFailsEffect, DeleteFailsEffect, TodoElsewhere
<1>11. CASE Aside
  BY <1>1, <1>11 DEF Aside, TodoInv, At, Deleting
<1>12. ASSUME NEW S \in SUBSET Addresses, NEW config \in Configs, OwnerUpdates(S, config)
       PROVE  TodoInv'
  BY <1>11, <1>12, OwnerUpdatesEffect
<1>13. ASSUME NEW config \in Configs, UserEdits(config) PROVE TodoInv'
  BY <1>11, <1>13, UserEditsEffect
<1>14. CASE Delete
  BY <1>11, <1>14, DeleteEffect
<1>15. CASE Sync \/ UNCHANGED vars
  BY <1>2, <1>15 DEF Sync, vars
<1> QED
  BY <1>3, <1>4, <1>5, <1>6, <1>7, <1>8, <1>9, <1>10, <1>12, <1>13, <1>14, <1>15
     DEF Next, Step, Fault, Others, Configs

-----------------------------------------------------------------------------
(* No step makes up an id, or forgets a check.                             *)

LEMMA GrownNext == TypeOK /\ TodoInv /\ [Next]_vars => Grown
<1> SUFFICES ASSUME TypeOK, TodoInv, [Next]_vars PROVE Grown
  OBVIOUS
<1>1. CASE UNCHANGED checks
  BY <1>1, UnchangedGrown
<1>2. ASSUME NEW a \in Addresses,
             \/ UpdateCheck(a) \/ CreateCheck(a) \/ DeleteCheck(a)
             \/ CheckFails(a) \/ DeleteFails(a)
      PROVE  Grown
  BY <1>2, UpdateCheckEffect, CreateCheckEffect, DeleteCheckEffect, CheckFailsEffect,
     DeleteFailsEffect
<1>3. CASE Begin \/ SkipZone \/ Ensure \/ DeleteFromZone \/ Refused \/ HealthChecked
             \/ SaveStatus \/ SaveSpec \/ Sync \/ SaveFails \/ Crash
  BY <1>1, <1>3 DEF Begin, SkipZone, Ensure, DeleteFromZone, Refused, HealthChecked,
     SaveStatus, SaveSpec, Sync, SaveFails, Crash
<1>4. CASE Others
  BY <1>1, <1>4 DEF Others, OwnerUpdates, UserEdits, Delete, WriteOver
<1> QED
  BY <1>1, <1>2, <1>3, <1>4 DEF Next, Step, Fault, vars

\* What was known before a step is known after it.
LEMMA KnownBefore ==
  ASSUME TypeOK, IdsKnown, Grown
  PROVE  /\ \A r \in {rec, cache.obj, cur} : KnownIn(r.eps, checks') /\ KnownIn(r.st, checks')
         /\ \A set \in zone : set.check # 0 => checks'[set.of, set.check] # "none"
<1>1. \A r \in {rec, cache.obj, cur} : r.eps \in Endpoints /\ r.st \in Endpoints
  BY CurIs, RecordIs DEF TypeOK
<1>2. \A r \in {rec, cache.obj, cur} : KnownIn(r.eps, checks') /\ KnownIn(r.st, checks')
  BY <1>1, KnownStays DEF IdsKnown
<1>3. ASSUME NEW set \in zone, set.check # 0
      PROVE  checks'[set.of, set.check] # "none"
  <2>1. set.of \in Addresses /\ set.check \in Ids
    BY DEF TypeOK, Ids
  <2>2. <<set.of, set.check>> \in Refs
    BY <1>3, <2>1, Bounds DEF Refs
  <2> QED
    BY <1>3, <2>2 DEF IdsKnown, Grown
<1> QED
  BY <1>2, <1>3

\* The ids of an endpoint that is given one, or loses it.
LEMMA KnownSet ==
  ASSUME NEW made, NEW eps \in Endpoints, KnownIn(eps, made), NEW a \in Addresses,
         NEW id \in Ids, id # 0 => made[a, id] # "none"
  PROVE  KnownIn([eps EXCEPT ![a] = id], made)
<1> DEFINE e == [eps EXCEPT ![a] = id]
<1>1. /\ DOMAIN e = DOMAIN eps
      /\ \A b \in DOMAIN eps : b = a \/ e[b] = eps[b]
      /\ a \in DOMAIN eps => e[a] = id
  BY SetIdEffect
<1> HIDE DEF e
<1>2. KnownIn(e, made)
  BY <1>1 DEF KnownIn
<1> QED
  BY <1>2 DEF e

LEMMA KnownPass ==
  ASSUME TypeOK, IdsKnown, Grown, pass' = Idle \/ pass'.cur \in {cur, cache.obj}
  PROVE  KnownIn(pass'.cur.eps, checks') /\ KnownIn(pass'.cur.st, checks')
<1>1. CASE pass' = Idle
  BY <1>1, IdleEffect DEF KnownIn
<1>2. CASE pass'.cur \in {cur, cache.obj}
  BY <1>2, KnownBefore
<1> QED
  BY <1>1, <1>2

LEMMA KnownWrote ==
  ASSUME TypeOK, IdsKnown, Grown, Wrote \/ UNCHANGED <<rec, cache>>
  PROVE  \A r \in {rec', cache'.obj} : KnownIn(r.eps, checks') /\ KnownIn(r.st, checks')
<1>1. CASE UNCHANGED <<rec, cache>>
  BY <1>1, KnownBefore
<1>2. CASE Wrote
  <2>1. KnownIn(rec'.st, checks')
    BY <1>2, KnownBefore DEF Wrote
  <2>2. KnownIn(rec'.eps, checks')
    BY <1>2, KnownBefore DEF Wrote, KnownIn
  <2> QED
    BY <1>2, <2>1, <2>2, KnownBefore DEF Wrote
<1> QED
  BY <1>1, <1>2

LEMMA KnownNext == TypeOK /\ TodoInv /\ IdsKnown /\ [Next]_vars => IdsKnown'
<1> DEFINE Zone == \A set \in zone' : set.check # 0 => checks'[set.of, set.check] # "none"
           Copies == \A r \in {rec', cache'.obj} :
                       KnownIn(r.eps, checks') /\ KnownIn(r.st, checks')
           Pass == KnownIn(pass'.cur.eps, checks') /\ KnownIn(pass'.cur.st, checks')
<1> SUFFICES ASSUME TypeOK, TodoInv, IdsKnown, [Next]_vars PROVE Zone /\ Copies /\ Pass
  BY DEF IdsKnown, cur
<1>1. Grown
  BY GrownNext
<1>2. UNCHANGED zone => Zone
  BY <1>1, KnownBefore
<1>3. UNCHANGED <<rec, cache>> \/ Wrote => Copies
  BY <1>1, KnownWrote
<1>4. cache'.obj = rec /\ UNCHANGED rec => Copies
  BY <1>1, KnownBefore
<1>5. pass' = Idle \/ pass'.cur \in {cur, cache.obj} => Pass
  BY <1>1, KnownPass
<1>6. UNCHANGED pass => Pass
  BY <1>5, CurIs
<1> HIDE DEF Copies, Pass
<1>7. CASE Begin
  BY <1>2, <1>3, <1>5, <1>6, <1>7, BeginEffect DEF Begin
<1>8. CASE SkipZone
  BY <1>2, <1>3, <1>5, <1>8, CurIs, SkipZoneEffect DEF SkipZone
<1>9. CASE Ensure
  <2>1. KnownIn(cur.eps, checks') /\ cur.eps \in Endpoints
    BY <1>1, CurIs, KnownBefore
  <2>2. Pass
    BY <1>9, <2>1, EnsureEffect DEF Pass
  <2>3. ASSUME NEW a \in DOMAIN cur.eps, NEW set, set = changeForEndpoint(cur.eps, a),
               set.check # 0
        PROVE  checks'[set.of, set.check] # "none"
    BY <2>1, <2>3, RecordSetsOf DEF KnownIn
  <2>4. Zone
    BY <1>1, <1>9, <2>3, EnsureEffect, KnownBefore
  <2> QED
    BY <1>3, <1>9, <2>2, <2>4 DEF Ensure
<1>10. CASE DeleteFromZone
  <2>1. Zone
    BY <1>1, <1>10, DeleteFromZoneEffect, KnownBefore
  <2> QED
    BY <1>3, <1>5, <1>10, <2>1, DeleteFromZoneEffect DEF DeleteFromZone
<1>11. CASE Refused \/ SaveFails
  BY <1>2, <1>3, <1>5, <1>11, AbortEffect DEF Refused, SaveFails
<1>12. CASE HealthChecked
  BY <1>2, <1>3, <1>5, <1>12, HealthCheckedEffect DEF HealthChecked
<1>13. CASE SaveStatus
  BY <1>2, <1>3, <1>5, <1>13, SaveStatusEffect DEF SaveStatus
<1>14. CASE SaveSpec
  BY <1>2, <1>3, <1>5, <1>14, SaveSpecEffect DEF SaveSpec
<1>15. ASSUME NEW a \in Addresses, UpdateCheck(a) PROVE Zone /\ Copies /\ Pass
  <2>1. Pass
    BY <1>1, <1>5, <1>15, UpdateCheckEffect, KnownBefore DEF Pass
  <2> QED
    BY <1>2, <1>3, <1>15, <2>1 DEF UpdateCheck
<1>16. ASSUME NEW a \in Addresses, CreateCheck(a) PROVE Zone /\ Copies /\ Pass
  <2>1. ASSUME pass' # Idle PROVE Pass
    <3>1. sid \in Ids /\ cur.eps \in Endpoints
      BY CurIs, Bounds DEF TypeOK
    <3>2. KnownIn(cur.eps, checks') /\ KnownIn(cur.st, checks')
      BY <1>1, KnownBefore
    <3>3. /\ checks'[a, sid] # "none" /\ pass'.cur.eps = [cur.eps EXCEPT ![a] = sid]
          /\ pass'.cur.st \in {cur.st, pass'.cur.eps}
      BY <1>16, <2>1, CreateCheckEffect
    <3>4. KnownIn([cur.eps EXCEPT ![a] = sid], checks')
      BY <3>1, <3>2, <3>3, KnownSet
    <3> QED
      BY <3>2, <3>3, <3>4 DEF Pass
  <2> QED
    BY <1>2, <1>3, <1>5, <1>16, <2>1 DEF CreateCheck
<1>17. ASSUME NEW a \in Addresses, DeleteCheck(a) PROVE Zone /\ Copies /\ Pass
  <2>1. ASSUME pass' # Idle PROVE Pass
    <3>1. 0 \in Ids /\ cur.eps \in Endpoints /\ cur.st \in Endpoints
      BY CurIs, Bounds
    <3>2. KnownIn(cur.eps, checks') /\ KnownIn(cur.st, checks')
      BY <1>1, KnownBefore
    <3>3. /\ pass'.cur.st = [cur.st EXCEPT ![a] = 0]
          /\ pass'.cur.eps \in {cur.eps, [cur.eps EXCEPT ![a] = 0]}
      BY <1>17, <2>1, DeleteCheckEffect
    <3>4. /\ KnownIn([cur.st EXCEPT ![a] = 0], checks')
          /\ KnownIn([cur.eps EXCEPT ![a] = 0], checks')
      BY <3>1, <3>2, KnownSet
    <3> QED
      BY <3>2, <3>3, <3>4 DEF Pass
  <2> QED
    BY <1>2, <1>3, <1>5, <1>17, <2>1 DEF DeleteCheck
<1>18. ASSUME NEW a \in Addresses, CheckFails(a) \/ DeleteFails(a) PROVE Zone /\ Copies /\ Pass
  BY <1>2, <1>3, <1>5, <1>18, AbortEffect DEF CheckFails, DeleteFails
<1>19. CASE Sync
  BY <1>2, <1>4, <1>6, <1>19, Zenon DEF Sync
<1>20. CASE Crash
  <2>1. cache'.obj = rec /\ UNCHANGED <<rec, zone>> /\ pass' = Idle
    BY <1>20, Zenon DEF Crash
  <2> QED
    BY <1>2, <1>4, <1>5, <2>1
<1>21. CASE Aside
  BY <1>2, <1>3, <1>5, <1>21 DEF Aside
<1>22. ASSUME NEW S \in SUBSET Addresses, NEW config \in Configs, OwnerUpdates(S, config)
       PROVE  Aside
  BY <1>22, OwnerUpdatesEffect
<1>23. ASSUME NEW config \in Configs, UserEdits(config) PROVE Aside
  BY <1>23, UserEditsEffect
<1>24. CASE Delete
  BY <1>21, <1>24, DeleteEffect
<1>25. CASE UNCHANGED vars
  BY <1>2, <1>3, <1>6, <1>25 DEF vars
<1> HIDE DEF Zone
<1> QED
  BY <1>7, <1>8, <1>9, <1>10, <1>11, <1>12, <1>13, <1>14, <1>15, <1>16, <1>17, <1>18, <1>19,
     <1>20, <1>21, <1>22, <1>23, <1>24, <1>25 DEF Next, Step, Fault, Others, Configs

LEMMA InvInit == Init => IInv
<1> SUFFICES ASSUME Init PROVE TodoInv /\ IdsKnown
  BY TypeInit DEF IInv
<1>1. PICK config \in Configs : rec = NewRecord(config)
  BY DEF Init, Configs
<1>2. DOMAIN rec.eps = {} /\ DOMAIN rec.st = {}
  BY <1>1, NewRecordEffect
<1>3. cache.obj = rec /\ pass = Idle /\ zone = {}
  BY Zenon DEF Init
<1>4. cur = Idle.cur
  BY <1>3 DEF cur
<1>5. IdsKnown
  BY <1>2, <1>3, <1>4, IdleEffect DEF IdsKnown, KnownIn
<1>6. TodoInv
  BY <1>3, IdleEffect DEF TodoInv, At
<1> QED
  BY <1>5, <1>6

LEMMA InvNext == IInv /\ [Next]_vars => IInv'
  BY TypeNext, TodoNext, KnownNext DEF IInv

LEMMA Invariance == Spec => []IInv
  BY InvInit, InvNext, PTL DEF Spec

-----------------------------------------------------------------------------
(* The theorems.                                                           *)

\* The record, its copies, the zone and the checks keep their types, and a pass reads the
\* id of no endpoint that its copy does not have (health_check_reconciler.go:40-106).
THEOREM TypeCorrect == Spec => []TypeOK
  BY Invariance, PTL DEF IInv

\* Every id that is saved, cached or published is that of a check that was made, for any
\* endpoints, conflicts, failed calls and restarts (aws/health.go:36-118).
THEOREM NoIdInvented == Spec => []IdsKnown
  BY Invariance, PTL DEF IInv

\* A deleted check stays deleted, whatever copy with its id a later pass works on
\* (aws/health.go:56-92, 120-189).
THEOREM DeletedStays == Spec => DeletedForGood
<1>1. IInv /\ [Next]_vars =>
        [\A c \in Refs : checks[c] = "deleted" => checks'[c] = "deleted"]_vars
  BY GrownNext DEF IInv, Grown
<1> QED
  BY <1>1, Invariance, PTL DEF Spec, DeletedForGood

=============================================================================
