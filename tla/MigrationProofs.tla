--------------------------- MODULE MigrationProofs ---------------------------
(***************************************************************************)
(* Proofs about Migration, for every set of clusters and every number of   *)
(* retries, moves and faults: type correctness, and that no cluster loses  *)
(* its copy before it has been out of use for two TTLs.                    *)
(***************************************************************************)
EXTENDS Migration, TLAPS

Times == UNION {[S -> 0..Grace] : S \in SUBSET Clusters}
Caches == [obj : Objects, fresh : BOOLEAN]
Passes == [pc : {"idle", "dns", "save"}, read : Objects, changed : BOOLEAN, fresh : BOOLEAN]
Delayed == {{}} \union {{d} : d \in 0..Grace}
Queues == [pending : BOOLEAN, delay : Delayed, retries : 0..MaxRetries, dropped : BOOLEAN]
Spents == [moves : 0..MaxMoves, faults : 0..MaxFaults]

Running == ~At("idle")

\* What a pass works on when it begins.
Prepared(o) == GracefulRemoveSoftFinalizers(EnsureSoftFinalizers(o))

\* Only a pass over traffic has a DNS step.
DNSInv == At("dns") => kind = "traffic"

\* The informer and the pass know when they are behind.
FreshInv ==
  /\ cache.fresh => cache.obj = obj
  /\ pass.fresh =>
       /\ Running
       /\ cache.obj = obj
       /\ pass.read = Prepared(obj)
       /\ ~pass.changed => pass.read = obj

\* A cluster the object is not placed on has no soft finalizer; one that it is placed on
\* and that has one was known to be placed when it got it, with no time noted.
PlacedInv ==
  \A c \in Clusters :
    /\ obj.place[c] = "none" => c \notin obj.soft
    /\ obj.place[c] = "placed" /\ c \in obj.soft /\ c \notin disturbed =>
         /\ c \notin DOMAIN obj.at
         /\ cache.obj.place[c] = "placed"
         /\ Running => pass.read.place[c] = "placed"

\* The endpoints leave a deleting cluster for another one, in every copy of the object.
Drains(o, c) == o.place[c] = "deleting" => kind = "plain" \/ Active(o) # {}

\* The cluster has a time noted, or is past it.
Noted(c) == c \notin obj.soft \/ c \in DOMAIN obj.at

\* The time that is noted counts only while the cluster is out of use, and no copy from
\* before the deletion is left that could bring it back into use.
OnTheWayOut(c) ==
  /\ Drains(obj, c) /\ Drains(cache.obj, c)
  /\ Running => Drains(pass.read, c)
  /\ At("save") /\ pass.read.place[c] = "deleting" => c \notin eps
  /\ Noted(c) =>
       /\ c \notin eps
       /\ cache.obj.place[c] = "deleting"
       /\ Running => pass.read.place[c] = "deleting"
  /\ c \in DOMAIN obj.at => unused[c] + obj.at[c] >= Grace
  /\ c \notin obj.soft => unused[c] = Grace

DeletingInv ==
  \A c \in Clusters : obj.place[c] = "deleting" /\ c \notin disturbed => OnTheWayOut(c)

IInv == TypeOK /\ DNSInv /\ FreshInv /\ PlacedInv /\ DeletingInv

-----------------------------------------------------------------------------
(* What the operators on objects return.                                   *)

\* Some of the times that are noted.
LEMMA TimesRestricted ==
  ASSUME NEW f \in Times, NEW S
  PROVE  /\ DOMAIN f \subseteq Clusters
         /\ \A c \in DOMAIN f : f[c] \in 0..Grace
         /\ LET g == Restrict(f, DOMAIN f \ S)
            IN  /\ g \in Times /\ DOMAIN g = DOMAIN f \ S
                /\ \A c \in DOMAIN g : g[c] = f[c]
<1>1. PICK D \in SUBSET Clusters : f \in [D -> 0..Grace]
  BY DEF Times
<1>2. Restrict(f, D \ S) \in [D \ S -> 0..Grace]
  BY <1>1 DEF Restrict
<1>3. D \ S \in SUBSET Clusters
  OBVIOUS
<1> QED
  BY <1>1, <1>2, <1>3 DEF Times, Restrict

\* The times that are noted, some of them again from the start.
LEMMA TimesNoted ==
  ASSUME NEW f \in Times, NEW S, NEW N \in SUBSET Clusters
  PROVE  LET D == (DOMAIN f \ S) \union N
             g == [c \in D |-> IF c \in N THEN Grace ELSE f[c]]
         IN  /\ g \in Times /\ DOMAIN g = D
             /\ \A c \in D : g[c] = IF c \in N THEN Grace ELSE f[c]
<1> DEFINE D == (DOMAIN f \ S) \union N
           g == [c \in D |-> IF c \in N THEN Grace ELSE f[c]]
<1>1. DOMAIN f \subseteq Clusters /\ \A c \in DOMAIN f : f[c] \in 0..Grace
  BY TimesRestricted
<1>2. g \in [D -> 0..Grace] /\ D \in SUBSET Clusters
  BY <1>1 DEF Grace
<1>3. g \in Times
  BY <1>2 DEF Times
<1> QED
  BY <1>3

LEMMA EnsureEffect ==
  ASSUME NEW o \in Objects
  PROVE  LET e == EnsureSoftFinalizers(o)
         IN  /\ e \in Objects /\ e.place = o.place /\ e.up = o.up
             /\ e.soft = o.soft \union On(o, "placed")
             /\ DOMAIN e.at = DOMAIN o.at \ On(o, "placed")
             /\ \A c \in DOMAIN e.at : e.at[c] = o.at[c]
<1> DEFINE soft == o.soft \union On(o, "placed")
           at == Restrict(o.at, DOMAIN o.at \ On(o, "placed"))
<1>1. soft \in SUBSET Clusters /\ o.at \in Times
  BY DEF Objects, On, Times
<1>2. /\ at \in Times /\ DOMAIN at = DOMAIN o.at \ On(o, "placed")
      /\ \A c \in DOMAIN at : at[c] = o.at[c]
  BY <1>1, TimesRestricted
<1>3. EnsureSoftFinalizers(o) = [o EXCEPT !.soft = soft, !.at = at]
  BY Zenon DEF EnsureSoftFinalizers
<1>4. soft = o.soft \union On(o, "placed")
  OBVIOUS
<1> HIDE DEF soft, at
<1> QED
  BY <1>1, <1>2, <1>3, <1>4 DEF Objects, Times

LEMMA RemoveEffect ==
  ASSUME NEW o \in Objects
  PROVE  LET r == GracefulRemoveSoftFinalizers(o)
         IN  /\ r \in Objects /\ r.place = o.place /\ r.up = o.up
             /\ r.soft = o.soft \ Over(o)
             /\ DOMAIN r.at = (DOMAIN o.at \ Over(o)) \union Unnoted(o)
             /\ \A c \in DOMAIN r.at : r.at[c] = IF c \in Unnoted(o) THEN Grace ELSE o.at[c]
<1> DEFINE soft == o.soft \ Over(o)
           D == (DOMAIN o.at \ Over(o)) \union Unnoted(o)
           at == [c \in D |-> IF c \in Unnoted(o) THEN Grace ELSE o.at[c]]
<1>1. soft \in SUBSET Clusters /\ o.at \in Times /\ Unnoted(o) \in SUBSET Clusters
  BY DEF Objects, Unnoted, Held, Times
<1>2. /\ at \in Times /\ DOMAIN at = D
      /\ \A c \in DOMAIN at : at[c] = IF c \in Unnoted(o) THEN Grace ELSE o.at[c]
  BY <1>1, TimesNoted
<1>3. GracefulRemoveSoftFinalizers(o) = [o EXCEPT !.soft = soft, !.at = at]
  BY Zenon DEF GracefulRemoveSoftFinalizers
<1>4. soft = o.soft \ Over(o) /\ D = (DOMAIN o.at \ Over(o)) \union Unnoted(o)
  OBVIOUS
<1> HIDE DEF soft, at, D
<1> QED
  BY <1>1, <1>2, <1>3, <1>4 DEF Objects, Times

\* A pass gives placed clusters their soft finalizer, releases a deleting one only when
\* its time is over, and notes no time but the whole of it.
LEMMA PreparedEffect ==
  ASSUME NEW o \in Objects
  PROVE  LET r == Prepared(o)
         IN  /\ r \in Objects /\ r.place = o.place /\ r.up = o.up
             /\ \A c \in Clusters :
                  /\ o.place[c] = "placed" => c \in r.soft /\ c \notin DOMAIN r.at
                  /\ o.place[c] # "placed" /\ c \in r.soft => c \in o.soft
                  /\ c \notin r.soft /\ c \in o.soft => c \in DOMAIN o.at /\ o.at[c] = 0
                  /\ c \in DOMAIN r.at =>
                       \/ r.at[c] = Grace
                       \/ c \in DOMAIN o.at /\ r.at[c] = o.at[c]
<1> DEFINE e == EnsureSoftFinalizers(o)
           r == GracefulRemoveSoftFinalizers(e)
<1>1. /\ e \in Objects /\ e.place = o.place /\ e.up = o.up
      /\ e.soft = o.soft \union On(o, "placed")
      /\ DOMAIN e.at = DOMAIN o.at \ On(o, "placed")
      /\ \A c \in DOMAIN e.at : e.at[c] = o.at[c]
  BY EnsureEffect
<1> HIDE DEF e
<1>2. /\ r \in Objects /\ r.place = e.place /\ r.up = e.up
      /\ r.soft = e.soft \ Over(e)
      /\ DOMAIN r.at = (DOMAIN e.at \ Over(e)) \union Unnoted(e)
      /\ \A c \in DOMAIN r.at : r.at[c] = IF c \in Unnoted(e) THEN Grace ELSE e.at[c]
  BY <1>1, RemoveEffect
<1>3. Prepared(o) = r
  BY DEF Prepared, e
<1> HIDE DEF r
<1> QED
  BY <1>1, <1>2, <1>3 DEF On, Over, Unnoted, Held

\* The passes asked for are asked for within the time.
LEMMA DelaysEffect ==
  ASSUME NEW o \in Objects
  PROVE  Delays(o) \subseteq 0..Grace
<1>1. o.at \in Times
  BY DEF Objects, Times
<1>2. \A c \in DOMAIN o.at : o.at[c] \in 0..Grace
  BY <1>1, TimesRestricted
<1> QED
  BY <1>2 DEF Delays, Waiting, Grace

LEMMA AddAfterEffect ==
  ASSUME NEW waiting \in Delayed, NEW delays \in SUBSET (0..Grace)
  PROVE  AddAfter(waiting, delays) \in Delayed
<1> DEFINE S == waiting \union delays
<1>1. S \subseteq 0..Grace
  BY DEF Delayed
<1>2. CASE S = {}
  BY <1>2 DEF AddAfter, Delayed
<1>3. CASE S # {}
  <2>1. \E x \in S : \A y \in S : x <= y
    <3>1. S \subseteq {0, 1, 2}
      BY <1>1 DEF Grace
    <3> QED
      BY <1>3, <3>1
  <2>2. Min(S) \in S
    BY <2>1 DEF Min
  <2>3. AddAfter(waiting, delays) = {Min(S)}
    BY <1>3 DEF AddAfter
  <2> QED
    BY <1>1, <2>2, <2>3 DEF Delayed
<1> QED
  BY <1>2, <1>3

LEMMA ElapseEffect ==
  ASSUME NEW o \in Objects
  PROVE  /\ Elapse(o) \in Objects
         /\ Elapse(o).place = o.place /\ Elapse(o).up = o.up /\ Elapse(o).soft = o.soft
         /\ DOMAIN Elapse(o).at = DOMAIN o.at
         /\ \A c \in DOMAIN o.at : Elapse(o).at[c] = Less(o.at[c])
<1> DEFINE at == [c \in DOMAIN o.at |-> Less(o.at[c])]
<1>1. o.at \in Times
  BY DEF Objects, Times
<1>2. DOMAIN o.at \in SUBSET Clusters /\ \A c \in DOMAIN o.at : o.at[c] \in 0..Grace
  BY <1>1, TimesRestricted
<1>3. \A c \in DOMAIN o.at : Less(o.at[c]) \in 0..Grace
  BY <1>2 DEF Less, Grace
<1>4. at \in [DOMAIN o.at -> 0..Grace]
  BY <1>3
<1>5. at \in Times
  BY <1>2, <1>4 DEF Times
<1>6. Elapse(o) = [o EXCEPT !.at = at]
  BY Zenon DEF Elapse
<1>7. DOMAIN at = DOMAIN o.at /\ \A c \in DOMAIN o.at : at[c] = Less(o.at[c])
  OBVIOUS
<1> HIDE DEF at
<1> QED
  BY <1>5, <1>6, <1>7 DEF Objects, Times

-----------------------------------------------------------------------------
(* What the pieces that actions are made of do to the variables, field by  *)
(* field.                                                                  *)

LEMMA Typed ==
  TypeOK <=> /\ kind \in Kinds /\ obj \in Objects /\ cache \in Caches /\ pass \in Passes
             /\ eps \subseteq Clusters /\ (kind = "plain" => eps = {})
             /\ queue \in Queues /\ unused \in [Clusters -> 0..Grace]
             /\ disturbed \subseteq Clusters /\ spent \in Spents
BY DEF TypeOK, Caches, Passes, Queues, Delayed, Spents

\* A write that changes something leaves the informer's copy behind.
LEMMA WriteEffect ==
  ASSUME TypeOK, NEW o \in Objects, Write(o)
  PROVE  /\ obj' = o
         /\ cache' \in Caches
         /\ cache'.obj = cache.obj
         /\ cache'.fresh => cache.fresh /\ o = obj
  BY Typed, Zenon DEF Write, Caches

LEMMA IdleEffect ==
  Idle \in Passes /\ Idle.pc = "idle" /\ ~Idle.fresh
<1>1. NewObject \in Objects
  <2>1. << >> \in [{} -> 0..Grace]
    OBVIOUS
  <2> QED
    BY <2>1 DEF NewObject, Objects
<1> QED
  BY <1>1 DEF Idle, Passes

LEMMA AbortEffect ==
  ASSUME TypeOK, Abort
  PROVE  /\ pass' = Idle
         /\ queue' \in Queues
<1>1. queue \in Queues
  BY Typed
<1>2. /\ 0 \in 0..MaxRetries
      /\ queue.retries < MaxRetries => queue.retries + 1 \in 0..MaxRetries
  BY MigrationAssumption, <1>1 DEF Queues
<1>3. AddAfter(queue.delay, {0}) \in Delayed
  BY <1>1, AddAfterEffect DEF Queues, Grace
<1> QED
  BY <1>1, <1>2, <1>3, Zenon DEF Abort, Queues

LEMMA DoneEffect ==
  ASSUME TypeOK, Done
  PROVE  /\ pass' = Idle
         /\ queue' \in Queues
<1>1. 0 \in 0..MaxRetries
  BY MigrationAssumption
<1> QED
  BY <1>1, Typed, Zenon DEF Done, Queues

LEMMA FaultyEffect ==
  ASSUME TypeOK, Faulty
  PROVE  spent' \in Spents
BY MigrationAssumption, Typed DEF Faulty, Spents

LEMMA ReuseEffect ==
  ASSUME TypeOK, NEW S, Reuse(S)
  PROVE  /\ unused' \in [Clusters -> 0..Grace]
         /\ \A c \in Clusters : c \notin S => unused'[c] = unused[c]
BY Typed DEF Reuse, Grace

\* The object is changed by somebody else.
LEMMA ChangeEffect ==
  ASSUME TypeOK, NEW o \in Objects, NEW undrained \in SUBSET Clusters, Change(o, undrained)
  PROVE  /\ obj' = o
         /\ cache' \in Caches /\ cache'.obj = cache.obj
         /\ cache'.fresh => cache.fresh /\ o = obj
         /\ pass' \in Passes /\ pass'.pc = pass.pc /\ pass'.read = pass.read /\ ~pass'.fresh
         /\ disturbed' \subseteq Clusters
         /\ disturbed \subseteq disturbed' /\ undrained \subseteq disturbed'
         /\ kind = "traffic" /\ Active(o) = {} => On(o, "deleting") \subseteq disturbed'
         /\ UNCHANGED <<kind, eps, queue>>
<1>1. Write(o) /\ UNCHANGED <<kind, eps, queue>>
  BY DEF Change
<1>2. On(o, "deleting") \subseteq Clusters
  BY DEF On
<1>3. pass' = [pass EXCEPT !.fresh = FALSE]
  BY DEF Change
<1>4. pass' \in Passes /\ pass'.pc = pass.pc /\ pass'.read = pass.read /\ ~pass'.fresh
  BY <1>3, Typed, Zenon DEF Passes
<1>5. disturbed' = disturbed \union undrained \union
        (IF kind = "traffic" /\ Active(o) = {} THEN On(o, "deleting") ELSE {})
  BY DEF Change
<1>6. disturbed \subseteq Clusters
  BY Typed
<1> QED
  BY <1>1, <1>2, <1>4, <1>5, <1>6, WriteEffect

\* kcp places the object on a cluster, deletes it there or takes the deletion back.
LEMMA MoveEffect ==
  ASSUME TypeOK, NEW c \in Clusters, NEW state \in {"none", "placed", "deleting"},
         NEW undrained \in SUBSET Clusters, Move([obj EXCEPT !.place[c] = state], undrained)
  PROVE  /\ obj' \in Objects /\ obj'.place[c] = state
         /\ \A d \in Clusters \ {c} : obj'.place[d] = obj.place[d]
         /\ obj'.soft = obj.soft /\ obj'.at = obj.at /\ obj'.up = obj.up
         /\ Change(obj', undrained)
         /\ \A d \in Clusters : obj'.place[d] # "placed" => unused'[d] = unused[d]
         /\ unused' \in [Clusters -> 0..Grace]
         /\ spent' \in Spents
<1> DEFINE o == [obj EXCEPT !.place[c] = state]
<1>1. /\ o \in Objects /\ o.place[c] = state
      /\ \A d \in Clusters \ {c} : o.place[d] = obj.place[d]
      /\ o.soft = obj.soft /\ o.at = obj.at /\ o.up = obj.up
  BY DEF TypeOK, Objects
<1>2. Change(o, undrained) /\ Reuse(On(o, "placed"))
  BY DEF Move
<1>3. spent' \in Spents
  BY MigrationAssumption, Typed DEF Move, Spents
<1> HIDE DEF o
<1>4. obj' = o
  BY <1>2 DEF Change, Write
<1>5. \A d \in Clusters : d \in On(o, "placed") <=> o.place[d] = "placed"
  BY DEF On
<1> QED
  BY <1>1, <1>2, <1>3, <1>4, <1>5, ReuseEffect

LEMMA PlaceEffect ==
  ASSUME TypeOK, NEW c \in Clusters, Place(c)
  PROVE  /\ obj.place[c] = "none"
         /\ obj' \in Objects /\ obj'.place[c] = "placed"
         /\ \A d \in Clusters \ {c} : obj'.place[d] = obj.place[d]
         /\ obj'.soft = obj.soft /\ obj'.at = obj.at /\ obj'.up = obj.up
         /\ Change(obj', {})
         /\ \A d \in Clusters : obj'.place[d] # "placed" => unused'[d] = unused[d]
         /\ unused' \in [Clusters -> 0..Grace]
         /\ spent' \in Spents
<1>1. Move([obj EXCEPT !.place[c] = "placed"], {}) /\ obj.place[c] = "none"
  BY Zenon DEF Place
<1>2. {} \in SUBSET Clusters /\ "placed" \in {"none", "placed", "deleting"}
  OBVIOUS
<1> QED
  BY <1>1, <1>2, MoveEffect

LEMMA DeleteEffect ==
  ASSUME TypeOK, NEW c \in Clusters, Delete(c)
  PROVE  /\ obj.place[c] = "placed"
         /\ obj' \in Objects /\ obj'.place[c] = "deleting"
         /\ \A d \in Clusters \ {c} : obj'.place[d] = obj.place[d]
         /\ obj'.soft = obj.soft /\ obj'.at = obj.at /\ obj'.up = obj.up
         /\ Change(obj', {c} \ obj.soft)
         /\ \A d \in Clusters : obj'.place[d] # "placed" => unused'[d] = unused[d]
         /\ unused' \in [Clusters -> 0..Grace]
         /\ spent' \in Spents
<1>1. Move([obj EXCEPT !.place[c] = "deleting"], {c} \ obj.soft) /\ obj.place[c] = "placed"
  BY Zenon DEF Delete
<1>2. {c} \ obj.soft \in SUBSET Clusters /\ "deleting" \in {"none", "placed", "deleting"}
  OBVIOUS
<1> QED
  BY <1>1, <1>2, MoveEffect

LEMMA CancelEffect ==
  ASSUME TypeOK, NEW c \in Clusters, Cancel(c)
  PROVE  /\ obj.place[c] = "deleting"
         /\ obj' \in Objects /\ obj'.place[c] = "placed"
         /\ \A d \in Clusters \ {c} : obj'.place[d] = obj.place[d]
         /\ obj'.soft = obj.soft /\ obj'.at = obj.at /\ obj'.up = obj.up
         /\ Change(obj', {c})
         /\ \A d \in Clusters : obj'.place[d] # "placed" => unused'[d] = unused[d]
         /\ unused' \in [Clusters -> 0..Grace]
         /\ spent' \in Spents
<1>1. Move([obj EXCEPT !.place[c] = "placed"], {c}) /\ obj.place[c] = "deleting"
  BY Zenon DEF Cancel
<1>2. {c} \in SUBSET Clusters /\ "placed" \in {"none", "placed", "deleting"}
  OBVIOUS
<1> QED
  BY <1>1, <1>2, MoveEffect

LEMMA ReportEffect ==
  ASSUME TypeOK, NEW c \in Clusters, Report(c)
  PROVE  /\ obj' \in Objects /\ obj'.place = obj.place
         /\ obj'.soft = obj.soft /\ obj'.at = obj.at
         /\ Change(obj', {})
<1> DEFINE o == [obj EXCEPT !.up = @ \union {c}]
<1>1. /\ o \in Objects /\ o.place = obj.place
      /\ o.soft = obj.soft /\ o.at = obj.at
  BY DEF TypeOK, Objects
<1>2. Change(o, {})
  BY DEF Report
<1> HIDE DEF o
<1> QED
  BY <1>1, <1>2 DEF Change, Write

LEMMA CopyRemovedEffect ==
  ASSUME TypeOK, NEW c \in Clusters, Remove(c)
  PROVE  /\ obj' \in Objects /\ obj'.place[c] = "none"
         /\ \A d \in Clusters \ {c} : obj'.place[d] = obj.place[d]
         /\ obj'.soft = obj.soft /\ obj'.at = obj.at
         /\ Change(obj', {})
<1> DEFINE o == [obj EXCEPT !.place[c] = "none", !.up = @ \ {c}]
<1>1. /\ o \in Objects /\ o.place[c] = "none"
      /\ \A d \in Clusters \ {c} : o.place[d] = obj.place[d]
      /\ o.soft = obj.soft /\ o.at = obj.at
  BY DEF TypeOK, Objects
<1>2. Change(o, {})
  BY DEF Remove
<1> HIDE DEF o
<1> QED
  BY <1>1, <1>2 DEF Change, Write

LEMMA BeginEffect ==
  ASSUME TypeOK, Begin
  PROVE  /\ pass' \in Passes
         /\ pass'.pc = IF kind = "traffic" THEN "dns" ELSE "save"
         /\ pass'.read = Prepared(cache.obj) /\ pass'.fresh = cache.fresh
         /\ ~pass'.changed => Prepared(cache.obj) = cache.obj
         /\ queue' \in Queues
<1> DEFINE ensured == EnsureSoftFinalizers(cache.obj)
           read == GracefulRemoveSoftFinalizers(ensured)
<1>1. cache.obj \in Objects /\ cache.fresh \in BOOLEAN /\ queue \in Queues
  BY Typed DEF Caches
<1>2. ensured \in Objects /\ read = Prepared(cache.obj) /\ read \in Objects
  BY <1>1, EnsureEffect, PreparedEffect DEF Prepared
<1>3. AddAfter(queue.delay, Delays(ensured)) \in Delayed
  BY <1>1, <1>2, DelaysEffect, AddAfterEffect DEF Queues
<1>4. /\ pass' = [pc |-> IF kind = "traffic" THEN "dns" ELSE "save", read |-> read,
                  changed |-> read # cache.obj, fresh |-> cache.fresh]
      /\ queue' = [queue EXCEPT !.pending = FALSE, !.dropped = FALSE,
                                !.delay = AddAfter(@, Delays(ensured))]
  BY Zenon DEF Begin
<1> HIDE DEF ensured, read
<1>5. queue' \in Queues
  BY <1>1, <1>3, <1>4, Zenon DEF Queues
<1>6. /\ pass'.pc = IF kind = "traffic" THEN "dns" ELSE "save"
      /\ pass'.read = read /\ pass'.changed = (read # cache.obj) /\ pass'.fresh = cache.fresh
  BY <1>4, Zenon
<1>7. pass' \in Passes
  BY <1>1, <1>2, <1>4, Zenon DEF Passes
<1> QED
  BY <1>2, <1>5, <1>6, <1>7

\* Time counts for a cluster that is out of use, and for the times that are noted.
LEMMA TickEffect ==
  ASSUME TypeOK, Tick
  PROVE  /\ At("idle")
         /\ obj' = Elapse(obj)
         /\ cache' \in Caches /\ cache'.obj = Elapse(cache.obj) /\ cache'.fresh = cache.fresh
         /\ queue' \in Queues
         /\ unused' \in [Clusters -> 0..Grace]
         /\ \A c \in On(obj, "deleting") \ (eps \union disturbed) :
              unused'[c] = IF unused[c] = Grace THEN Grace ELSE unused[c] + 1
<1>1. /\ obj \in Objects /\ cache \in Caches /\ cache.obj \in Objects /\ queue \in Queues
      /\ unused \in [Clusters -> 0..Grace]
  BY Typed DEF Caches
<1>2. Elapse(cache.obj) \in Objects
  BY <1>1, ElapseEffect
<1>3. /\ cache' \in Caches /\ cache'.obj = Elapse(cache.obj) /\ cache'.fresh = cache.fresh
  <2>1. cache' = [cache EXCEPT !.obj = Elapse(cache.obj)]
    BY Zenon DEF Tick
  <2> QED
    BY <1>1, <1>2, <2>1, Zenon DEF Caches
<1>4. {Less(d) : d \in queue.delay} \in Delayed
  <2>1. PICK D \in Delayed : D = queue.delay
    BY <1>1 DEF Queues
  <2>2. \A d \in 0..Grace : Less(d) \in 0..Grace
    BY DEF Less, Grace
  <2>3. CASE D = {}
    <3>1. {Less(d) : d \in queue.delay} = {}
      BY <2>1, <2>3
    <3> QED
      BY <3>1 DEF Delayed
  <2>4. CASE D # {}
    <3>1. PICK n \in 0..Grace : D = {n}
      BY <2>1, <2>4 DEF Delayed
    <3>2. {Less(d) : d \in queue.delay} = {Less(n)}
      BY <2>1, <3>1
    <3> QED
      BY <2>2, <3>2 DEF Delayed
  <2> QED
    BY <2>3, <2>4
<1>5. queue' \in Queues
  BY <1>1, <1>4, Zenon DEF Tick, Queues
<1>6. \A n \in 0..Grace : Min({Grace, n + 1}) = IF n = Grace THEN Grace ELSE n + 1
  BY DEF Min, Grace
<1>7. unused' = [c \in Clusters |->
                   IF c \in On(obj, "deleting") \ (eps \union disturbed)
                   THEN Min({Grace, unused[c] + 1})
                   ELSE 0]
  BY DEF Tick
<1>8. \A c \in Clusters : Min({Grace, unused[c] + 1}) \in 0..Grace
  BY <1>1, <1>6 DEF Grace
<1>9. unused' \in [Clusters -> 0..Grace]
  BY <1>7, <1>8 DEF Grace
<1>10. \A c \in On(obj, "deleting") \ (eps \union disturbed) :
         unused'[c] = IF unused[c] = Grace THEN Grace ELSE unused[c] + 1
  BY <1>1, <1>6, <1>7 DEF On
<1> QED
  BY <1>3, <1>5, <1>9, <1>10 DEF Tick

LEMMA NextEndpointsEffect ==
  ASSUME TypeOK, NEW S \in NextEndpoints
  PROVE  S \subseteq Clusters
BY DEF NextEndpoints, Targets, Active, TypeOK, Objects

LEMMA UpdateDNSEffect ==
  ASSUME TypeOK, UpdateDNS
  PROVE  /\ pass' \in Passes
         /\ pass'.pc = "save" /\ pass'.read = pass.read
         /\ pass'.changed = pass.changed /\ pass'.fresh = pass.fresh
BY Typed, Zenon DEF UpdateDNS, Passes

-----------------------------------------------------------------------------
(* Type correctness.                                                       *)

LEMMA TypeNext == TypeOK /\ DNSInv /\ [Next]_vars => (TypeOK /\ DNSInv)'
<1> SUFFICES ASSUME TypeOK, DNSInv, [Next]_vars PROVE (TypeOK /\ DNSInv)'
  OBVIOUS
<1> USE DEF DNSInv, At
<1>1. TypeOK' <=> /\ kind' \in Kinds /\ obj' \in Objects /\ cache' \in Caches
                  /\ pass' \in Passes /\ eps' \subseteq Clusters
                  /\ (kind' = "plain" => eps' = {})
                  /\ queue' \in Queues /\ unused' \in [Clusters -> 0..Grace]
                  /\ disturbed' \subseteq Clusters /\ spent' \in Spents
  BY DEF TypeOK, Caches, Passes, Queues, Delayed, Spents
<1>2. /\ kind \in Kinds /\ obj \in Objects /\ cache \in Caches /\ pass \in Passes
      /\ eps \subseteq Clusters /\ (kind = "plain" => eps = {})
      /\ queue \in Queues /\ unused \in [Clusters -> 0..Grace]
      /\ disturbed \subseteq Clusters /\ spent \in Spents
  BY Typed
<1>3. pass.read \in Objects
  BY <1>2 DEF Passes
<1>4. kind = "traffic" => kind # "plain"
  OBVIOUS
<1> USE <1>1, <1>2
<1>5. CASE Begin
  BY <1>5, BeginEffect DEF Begin
<1>6. CASE UpdateDNS
  BY <1>4, <1>6, UpdateDNSEffect, NextEndpointsEffect, ReuseEffect DEF UpdateDNS
<1>7. CASE Save
  BY <1>3, <1>7, WriteEffect, DoneEffect, IdleEffect DEF Save
<1>8. CASE SaveConflicts
  BY <1>8, AbortEffect, IdleEffect DEF SaveConflicts
<1>9. CASE NothingToSave
  BY <1>9, DoneEffect, IdleEffect DEF NothingToSave
<1>10. CASE Sync
  <2>1. cache' \in Caches
    BY <1>10, Zenon DEF Sync, Caches
  <2>2. queue' \in Queues
    BY <1>10, Zenon DEF Sync, Enqueued, Queues
  <2> QED
    BY <1>10, <2>1, <2>2 DEF Sync
<1>11. CASE DelayExpires
  <2>1. queue' = [queue EXCEPT !.pending = TRUE, !.delay = {}]
    BY <1>11, Zenon DEF DelayExpires, Enqueued, Queues
  <2>2. queue' \in Queues
    BY <2>1, Zenon DEF Queues, Delayed
  <2> QED
    BY <1>11, <2>2 DEF DelayExpires
<1>12. CASE Tick
  BY <1>12, TickEffect, ElapseEffect DEF Tick
<1>13. CASE ReconcileFails
  BY <1>4, <1>13, NextEndpointsEffect, AbortEffect, IdleEffect, ReuseEffect, FaultyEffect
     DEF ReconcileFails
<1>14. CASE SaveFails
  BY <1>14, AbortEffect, IdleEffect, FaultyEffect DEF SaveFails
<1>15. CASE Crash
  <2>1. cache' \in Caches
    BY <1>15, Zenon DEF Crash, Caches
  <2>2. 0 \in 0..MaxRetries
    BY MigrationAssumption
  <2>3. queue' \in Queues
    BY <1>15, <2>2, Zenon DEF Crash, Queues, Delayed
  <2> QED
    BY <1>15, <2>1, <2>3, IdleEffect, FaultyEffect DEF Crash
<1>16. ASSUME NEW c \in Clusters, Place(c) \/ Delete(c) \/ Cancel(c)
       PROVE  (TypeOK /\ DNSInv)'
  BY <1>16, PlaceEffect, DeleteEffect, CancelEffect, ChangeEffect
<1>17. ASSUME NEW c \in Clusters, Report(c) PROVE (TypeOK /\ DNSInv)'
  BY <1>17, ReportEffect, ChangeEffect DEF Report
<1>18. ASSUME NEW c \in Clusters, Remove(c) PROVE (TypeOK /\ DNSInv)'
  BY <1>18, CopyRemovedEffect, ChangeEffect DEF Remove
<1>19. CASE UNCHANGED vars
  BY <1>19 DEF vars
<1> QED
  BY <1>5, <1>6, <1>7, <1>8, <1>9, <1>10, <1>11, <1>12, <1>13, <1>14, <1>15, <1>16, <1>17,
     <1>18, <1>19 DEF Next, Step, Fault, Kcp

\* The object, its copies, the endpoints and the queue keep their types.
THEOREM TypeCorrect == Spec => [](TypeOK /\ DNSInv)
<1>1. Init => TypeOK /\ DNSInv
  <2> SUFFICES ASSUME Init PROVE TypeOK /\ DNSInv
    OBVIOUS
  <2>1. NewObject \in Objects
    BY IdleEffect DEF Idle, Passes
  <2>2. obj \in Objects
    BY <2>1 DEF Init, Objects
  <2>3. queue \in Queues /\ spent \in Spents
    BY MigrationAssumption DEF Init, Queues, Delayed, Spents
  <2> QED
    BY <2>2, <2>3, IdleEffect, Typed DEF Init, Caches, DNSInv, At, Grace
<1> QED
  BY <1>1, TypeNext, PTL DEF Spec

-----------------------------------------------------------------------------
(* What a pass and the informer know of the object.                        *)

LEMMA FreshNext == TypeOK /\ FreshInv /\ [Next]_vars => FreshInv'
<1> SUFFICES ASSUME TypeOK, FreshInv, [Next]_vars PROVE FreshInv'
  OBVIOUS
<1> USE DEF FreshInv, Running, At
<1>1. obj \in Objects /\ cache.obj \in Objects /\ pass.read \in Objects
  BY Typed DEF Caches, Passes
<1>2. CASE Begin
  BY <1>2, BeginEffect DEF Begin
<1>3. CASE UpdateDNS
  BY <1>3, UpdateDNSEffect DEF UpdateDNS
<1>4. CASE Save
  BY <1>1, <1>4, WriteEffect, DoneEffect, IdleEffect DEF Save
<1>5. CASE SaveConflicts \/ SaveFails \/ ReconcileFails
  BY <1>5, AbortEffect, IdleEffect DEF SaveConflicts, SaveFails, ReconcileFails
<1>6. CASE NothingToSave
  BY <1>6, DoneEffect, IdleEffect DEF NothingToSave
<1>7. CASE Sync
  BY <1>7 DEF Sync
<1>8. CASE DelayExpires
  BY <1>8 DEF DelayExpires
<1>9. CASE Tick
  BY <1>9, TickEffect DEF Tick
<1>10. CASE Crash
  BY <1>10, IdleEffect DEF Crash
<1>11. ASSUME NEW c \in Clusters, Place(c) \/ Delete(c) \/ Cancel(c)
       PROVE  FreshInv'
  <2>1. PICK undrained \in SUBSET Clusters : obj' \in Objects /\ Change(obj', undrained)
    BY <1>11, PlaceEffect, DeleteEffect, CancelEffect
  <2> QED
    BY <2>1, ChangeEffect
<1>12. ASSUME NEW c \in Clusters, Report(c) PROVE FreshInv'
  BY <1>12, ReportEffect, ChangeEffect
<1>13. ASSUME NEW c \in Clusters, Remove(c) PROVE FreshInv'
  BY <1>13, CopyRemovedEffect, ChangeEffect
<1>14. CASE UNCHANGED vars
  BY <1>14 DEF vars
<1> QED
  BY <1>2, <1>3, <1>4, <1>5, <1>6, <1>7, <1>8, <1>9, <1>10, <1>11, <1>12, <1>13, <1>14
     DEF Next, Step, Fault, Kcp

LEMMA PlacedNext == TypeOK /\ FreshInv /\ PlacedInv /\ [Next]_vars => PlacedInv'
<1> SUFFICES ASSUME TypeOK, FreshInv, PlacedInv, [Next]_vars PROVE PlacedInv'
  OBVIOUS
<1> USE DEF PlacedInv, Running, At
<1>1. /\ obj \in Objects /\ cache.obj \in Objects /\ pass.read \in Objects
      /\ \A c \in Clusters : obj.place[c] \in {"none", "placed", "deleting"}
  BY Typed DEF Caches, Passes, Objects
<1>2. CASE Begin
  BY <1>1, <1>2, BeginEffect, PreparedEffect DEF Begin
<1>3. CASE UpdateDNS
  BY <1>3, UpdateDNSEffect DEF UpdateDNS
<1>4. CASE Save
  BY <1>1, <1>4, WriteEffect, DoneEffect, IdleEffect, PreparedEffect DEF Save, FreshInv, On
<1>5. CASE SaveConflicts \/ SaveFails \/ ReconcileFails
  BY <1>5, AbortEffect, IdleEffect DEF SaveConflicts, SaveFails, ReconcileFails
<1>6. CASE NothingToSave
  BY <1>1, <1>6, DoneEffect, IdleEffect, PreparedEffect DEF NothingToSave, FreshInv
<1>7. CASE Sync
  BY <1>7 DEF Sync
<1>8. CASE DelayExpires
  BY <1>8 DEF DelayExpires
<1>9. CASE Tick
  BY <1>1, <1>9, TickEffect, ElapseEffect DEF Tick
<1>10. CASE Crash
  BY <1>10, IdleEffect DEF Crash
<1>11. ASSUME NEW c \in Clusters, Place(c) PROVE PlacedInv'
  BY <1>1, <1>11, PlaceEffect, ChangeEffect
<1>12. ASSUME NEW c \in Clusters, Delete(c) PROVE PlacedInv'
  BY <1>1, <1>12, DeleteEffect, ChangeEffect
<1>13. ASSUME NEW c \in Clusters, Cancel(c) PROVE PlacedInv'
  <2>1. /\ obj.place[c] = "deleting"
        /\ obj' \in Objects /\ obj'.place[c] = "placed"
        /\ \A d \in Clusters \ {c} : obj'.place[d] = obj.place[d]
        /\ obj'.soft = obj.soft /\ obj'.at = obj.at
        /\ Change(obj', {c})
    BY <1>13, CancelEffect
  <2>2. /\ cache'.obj = cache.obj /\ pass'.pc = pass.pc /\ pass'.read = pass.read
        /\ disturbed \subseteq disturbed' /\ c \in disturbed'
    BY <2>1, ChangeEffect
  <2> QED
    BY <1>1, <2>1, <2>2
<1>14. ASSUME NEW c \in Clusters, Report(c) PROVE PlacedInv'
  BY <1>1, <1>14, ReportEffect, ChangeEffect
<1>15. ASSUME NEW c \in Clusters, Remove(c) PROVE PlacedInv'
  BY <1>1, <1>15, CopyRemovedEffect, ChangeEffect DEF Remove
<1>16. CASE UNCHANGED vars
  BY <1>16 DEF vars
<1> QED
  BY <1>2, <1>3, <1>4, <1>5, <1>6, <1>7, <1>8, <1>9, <1>10, <1>11, <1>12, <1>13, <1>14,
     <1>15, <1>16 DEF Next, Step, Fault, Kcp

-----------------------------------------------------------------------------
(* The way out of a cluster.                                               *)

LEMMA DeletingNext ==
  TypeOK /\ DNSInv /\ FreshInv /\ PlacedInv /\ DeletingInv /\ [Next]_vars => DeletingInv'
<1> SUFFICES ASSUME TypeOK, DNSInv, FreshInv, PlacedInv, DeletingInv, [Next]_vars,
                    NEW c \in Clusters, obj'.place[c] = "deleting", c \notin disturbed'
             PROVE  OnTheWayOut(c)'
  BY DEF DeletingInv
<1> USE DEF OnTheWayOut, Noted, Drains, Running, At
<1>1. /\ obj \in Objects /\ cache.obj \in Objects /\ pass.read \in Objects
      /\ unused[c] \in 0..Grace /\ (kind = "plain" => eps = {}) /\ kind \in Kinds
      /\ c \in DOMAIN obj.at => obj.at[c] \in 0..Grace
  <2>1. obj \in Objects /\ cache.obj \in Objects /\ pass.read \in Objects
    BY Typed DEF Caches, Passes
  <2>2. obj.at \in Times
    BY <2>1 DEF Objects, Times
  <2>3. c \in DOMAIN obj.at => obj.at[c] \in 0..Grace
    BY <2>2, TimesRestricted
  <2> QED
    BY <2>1, <2>3, Typed
<1>2. obj.place[c] = "deleting" /\ c \notin disturbed => OnTheWayOut(c)
  BY DEF DeletingInv
<1>3. \A o \in Objects : Active(Prepared(o)) = Active(o)
  BY PreparedEffect DEF Active, On
<1>4. CASE Begin
  BY <1>1, <1>2, <1>3, <1>4, BeginEffect, PreparedEffect DEF Begin, Kinds
<1>5. CASE UpdateDNS
  BY <1>1, <1>2, <1>5, UpdateDNSEffect, ReuseEffect
     DEF UpdateDNS, DNSInv, NextEndpoints, Targets, Active, On
<1>6. CASE Save
  BY <1>1, <1>2, <1>3, <1>6, WriteEffect, DoneEffect, IdleEffect, PreparedEffect
     DEF Save, FreshInv, On, Grace
<1>7. CASE SaveConflicts \/ SaveFails
  BY <1>2, <1>7, AbortEffect, IdleEffect DEF SaveConflicts, SaveFails
<1>8. CASE ReconcileFails
  BY <1>1, <1>2, <1>8, AbortEffect, IdleEffect, ReuseEffect
     DEF ReconcileFails, DNSInv, NextEndpoints, Targets, Active, On
<1>9. CASE NothingToSave
  BY <1>1, <1>2, <1>9, DoneEffect, IdleEffect, PreparedEffect
     DEF NothingToSave, FreshInv, On
<1>10. CASE Sync
  BY <1>2, <1>10 DEF Sync
<1>11. CASE DelayExpires
  BY <1>2, <1>11 DEF DelayExpires
<1>12. CASE Tick
  <2>1. /\ obj'.place = obj.place /\ obj'.up = obj.up /\ obj'.soft = obj.soft
        /\ DOMAIN obj'.at = DOMAIN obj.at
        /\ c \in DOMAIN obj.at => obj'.at[c] = Less(obj.at[c])
        /\ cache'.obj.place = cache.obj.place /\ cache'.obj.up = cache.obj.up
    BY <1>1, <1>12, TickEffect, ElapseEffect
  <2>2. /\ obj.place[c] = "deleting" /\ c \notin disturbed /\ pass.pc = "idle"
        /\ UNCHANGED <<kind, pass, eps>>
    BY <1>12, <2>1 DEF Tick
  <2>3. Drains(obj, c)' /\ Drains(cache.obj, c)'
    BY <1>2, <2>1, <2>2 DEF Active, On
  <2>4. c \notin eps => unused'[c] = IF unused[c] = Grace THEN Grace ELSE unused[c] + 1
    BY <1>12, <2>2, TickEffect DEF On
  <2> QED
    BY <1>1, <1>2, <2>1, <2>2, <2>3, <2>4 DEF Less, Grace
<1>13. CASE Crash
  BY <1>2, <1>13, IdleEffect DEF Crash
<1>14. ASSUME NEW d \in Clusters, Place(d) PROVE OnTheWayOut(c)'
  BY <1>1, <1>2, <1>14, PlaceEffect, ChangeEffect DEF Kinds, On
<1>15. ASSUME NEW d \in Clusters, Delete(d) PROVE OnTheWayOut(c)'
  <2>1. /\ obj.place[d] = "placed"
        /\ obj' \in Objects /\ obj'.place[d] = "deleting"
        /\ c # d => obj'.place[c] = obj.place[c]
        /\ obj'.soft = obj.soft /\ obj'.at = obj.at /\ obj'.up = obj.up
        /\ Change(obj', {d} \ obj.soft) /\ unused'[c] = unused[c]
    BY <1>15, DeleteEffect
  <2>2. /\ cache'.obj = cache.obj /\ pass'.pc = pass.pc /\ pass'.read = pass.read
        /\ disturbed \subseteq disturbed' /\ {d} \ obj.soft \subseteq disturbed'
        /\ kind = "traffic" /\ Active(obj') = {} => On(obj', "deleting") \subseteq disturbed'
        /\ kind' = kind /\ eps' = eps
    BY <2>1, ChangeEffect
  <2>3. Drains(obj, c)'
    BY <1>1, <2>1, <2>2 DEF Kinds, On
  <2>4. CASE c = d
    <3>1. /\ c \in obj.soft /\ c \notin DOMAIN obj.at /\ cache.obj.place[c] = "placed"
          /\ pass.pc # "idle" => pass.read.place[c] = "placed"
      BY <2>1, <2>2, <2>4 DEF PlacedInv
    <3> QED
      BY <2>1, <2>2, <2>3, <3>1
  <2>5. CASE c # d
    BY <1>2, <2>1, <2>2, <2>3, <2>5
  <2> QED
    BY <2>4, <2>5
<1>16. ASSUME NEW d \in Clusters, Cancel(d) PROVE OnTheWayOut(c)'
  BY <1>1, <1>2, <1>16, CancelEffect, ChangeEffect DEF Kinds, On
<1>17. ASSUME NEW d \in Clusters, Report(d) PROVE OnTheWayOut(c)'
  BY <1>1, <1>2, <1>17, ReportEffect, ChangeEffect DEF Report, Kinds, On
<1>18. ASSUME NEW d \in Clusters, Remove(d) PROVE OnTheWayOut(c)'
  BY <1>1, <1>2, <1>18, CopyRemovedEffect, ChangeEffect DEF Remove, Kinds, On
<1>19. CASE UNCHANGED vars
  BY <1>2, <1>19 DEF vars, Active, On
<1> QED
  BY <1>4, <1>5, <1>6, <1>7, <1>8, <1>9, <1>10, <1>11, <1>12, <1>13, <1>14, <1>15, <1>16,
     <1>17, <1>18, <1>19 DEF Next, Step, Fault, Kcp

-----------------------------------------------------------------------------
\* The inductive invariant.
LEMMA Invariance == Spec => []IInv
<1>1. Init => FreshInv /\ PlacedInv /\ DeletingInv
  <2> SUFFICES ASSUME Init PROVE FreshInv /\ PlacedInv /\ DeletingInv
    OBVIOUS
  <2>1. \A c \in Clusters : obj.place[c] # "deleting" /\ c \notin obj.soft
    BY DEF Init, NewObject
  <2> QED
    BY <2>1, IdleEffect DEF Init, FreshInv, PlacedInv, DeletingInv, At, Running
<1>2. TypeOK /\ DNSInv /\ FreshInv /\ PlacedInv /\ DeletingInv /\ [Next]_vars =>
        (FreshInv /\ PlacedInv /\ DeletingInv)'
  BY FreshNext, PlacedNext, DeletingNext
<1>3. Spec => [](TypeOK /\ DNSInv /\ FreshInv /\ PlacedInv /\ DeletingInv)
  BY <1>1, <1>2, TypeCorrect, PTL DEF Spec
<1>4. IInv <=> TypeOK /\ DNSInv /\ FreshInv /\ PlacedInv /\ DeletingInv
  BY DEF IInv
<1> QED
  BY <1>3, <1>4, PTL

\* The syncer of a cluster takes its copy away only when no endpoint has pointed to the
\* cluster for two TTLs, over stale copies, failures, restarts and further moves
\* (migrate.go:48-52, 69-101, dns.go:101-140).
THEOREM Drained == Spec => DrainedFirst
<1>1. IInv /\ [Next]_vars =>
        [\A c \in Clusters : Removed(c) => unused[c] = Grace \/ c \in disturbed]_vars
  <2> SUFFICES ASSUME IInv, Next, NEW c \in Clusters, Removed(c)
               PROVE  unused[c] = Grace \/ c \in disturbed
    BY Zenon
  <2>1. c \notin obj.soft /\ obj.place[c] = "deleting" => unused[c] = Grace \/ c \in disturbed
    BY DEF IInv, DeletingInv, OnTheWayOut
  <2>2. obj \in Objects /\ TypeOK /\ FreshInv
    BY Typed DEF IInv
  <2>3. ASSUME NEW d \in Clusters, Remove(d) PROVE c \notin obj.soft
    BY <2>2, <2>3, CopyRemovedEffect DEF Removed, Remove
  <2>4. CASE Save
    BY <2>2, <2>4, WriteEffect, PreparedEffect DEF Removed, Save, FreshInv, Write
  <2>5. CASE Tick
    BY <2>2, <2>5, ElapseEffect DEF Removed, Tick
  <2>6. CASE Begin \/ UpdateDNS \/ SaveConflicts \/ NothingToSave \/ Sync \/ DelayExpires \/ Fault
    BY <2>6 DEF Removed, Begin, UpdateDNS, SaveConflicts, NothingToSave, Sync, DelayExpires,
                Fault, ReconcileFails, SaveFails, Crash
  <2>7. ASSUME NEW d \in Clusters, Place(d) PROVE FALSE
    BY <2>2, <2>7, PlaceEffect DEF Removed
  <2>8. ASSUME NEW d \in Clusters, Delete(d) PROVE FALSE
    BY <2>2, <2>8, DeleteEffect DEF Removed
  <2>9. ASSUME NEW d \in Clusters, Cancel(d) PROVE FALSE
    BY <2>2, <2>9, CancelEffect DEF Removed
  <2>10. ASSUME NEW d \in Clusters, Report(d) PROVE FALSE
    BY <2>2, <2>10, ReportEffect DEF Removed
  <2> QED
    BY <2>1, <2>3, <2>4, <2>5, <2>6, <2>7, <2>8, <2>9, <2>10 DEF Removed, Next, Step, Kcp
<1> QED
  BY <1>1, Invariance, PTL DEF Spec, DrainedFirst

=============================================================================
