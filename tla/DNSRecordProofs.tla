--------------------------- MODULE DNSRecordProofs ---------------------------
(***************************************************************************)
(* Proofs about DNSRecordController, for every set of addresses and every  *)
(* number of retries, changes, faults and restarts: type correctness, that *)
(* the status never claims more than the zone has, and that a published    *)
(* record takes its endpoints with it.                                     *)
(***************************************************************************)
EXTENDS DNSRecordController, TLAPS

Caches == [obj : Records, fresh : BOOLEAN]
Passes == [pc : Steps, read : Records, status : Statuses, fresh : BOOLEAN]
Queues == [pending : BOOLEAN, timer : BOOLEAN, retries : 0..MaxRetries]

Active == ~At("idle")

\* The informer is never ahead, and knows it when it is behind.
CacheInv ==
  /\ cache.fresh => cache.obj = rec
  /\ cache.obj.life = "gone" => rec.life = "gone"
  /\ cache.obj.life = "deleting" => rec.life # "live"

\* Deletions are not taken back: what a pass has read of them still holds.
ReadInv ==
  /\ Active => pass.read.life # "gone"
  /\ Deleting => rec.life # "live" /\ cache.obj.life # "live"
  /\ pass.pc \in {"health", "status"} => ~Deleting

\* A pass whose copy is the latest knows the record: all of it until it has saved the
\* status, all but the status from then on.  The informer has its endpoints by then.
FreshInv ==
  pass.fresh =>
    /\ Active /\ rec.life # "gone"
    /\ pass.read.life = rec.life /\ pass.read.eps = rec.eps /\ cache.obj.eps = rec.eps
    /\ ~At("finalizer") \/ Deleting => pass.read = rec

\* A published generation is known to the informer and to the running pass: neither can
\* go back to endpoints of an earlier one.
ObservedInv ==
  rec.status.observed =>
    /\ cache.obj.eps = rec.eps
    /\ Active => pass.read.eps = rec.eps

\* The status that a pass is about to save as published is true of the zone: it is not
\* the one the pass began with.
AttemptInv ==
  /\ At("provider") => pass.status = pass.read.status
  /\ pass.pc \in {"health", "status"} /\ pass.status.cond = "true" =>
       pass.status = pass.read.status \/ pass.read.eps \subseteq zone
  /\ At("status") => StatusDiffers

\* A deletion takes all endpoints or none, and those that are left when the pass goes on
\* to the finalizer are none.
DeletionInv ==
  rec.status.cond = "true" /\ rec.status.observed =>
    /\ rec.life = "deleting" => rec.eps \subseteq zone \/ rec.eps \intersect zone = {}
    /\ At("finalizer") /\ Deleting /\ pass.fresh => rec.eps \intersect zone = {}

\* No pass over a live record is left when one with a finalizer is gone.
GoneInv ==
  rec.life = "gone" /\ rec.fin => cache.obj.life # "live" /\ (Active => Deleting)

IInv ==
  /\ TypeOK
  /\ CacheInv /\ ReadInv /\ FreshInv /\ ObservedInv /\ AttemptInv
  /\ SucceededIsServed
  /\ DeletionInv /\ GoneInv /\ CleanGone

-----------------------------------------------------------------------------
(* What the pieces that actions are made of do to the variables, field by  *)
(* field.                                                                  *)

\* What the writes make of a record.
LEMMA RecordWrites ==
  ASSUME NEW r \in Records
  PROVE  /\ \A l \in {"deleting", "gone"} :
              LET new == [r EXCEPT !.life = l]
              IN  /\ new \in Records /\ new.life = l
                  /\ new.eps = r.eps /\ new.fin = r.fin /\ new.status = r.status
         /\ LET new == [r EXCEPT !.fin = TRUE]
            IN  /\ new \in Records /\ new.life = r.life
                /\ new.eps = r.eps /\ new.status = r.status
         /\ \A status \in Statuses :
              LET new == [r EXCEPT !.status = status]
              IN  /\ new \in Records /\ new.status = status
                  /\ new.life = r.life /\ new.eps = r.eps /\ new.fin = r.fin
         /\ \A S \in SUBSET Addresses :
              LET new == [r EXCEPT !.eps = S, !.status.observed = FALSE]
              IN  /\ new \in Records /\ ~new.status.observed
                  /\ new.life = r.life /\ new.eps = S /\ new.fin = r.fin
<1>1. ASSUME NEW l \in {"deleting", "gone"}
      PROVE  LET new == [r EXCEPT !.life = l]
             IN  /\ new \in Records /\ new.life = l
                 /\ new.eps = r.eps /\ new.fin = r.fin /\ new.status = r.status
  BY DEF Records
<1>2. LET new == [r EXCEPT !.fin = TRUE]
      IN  /\ new \in Records /\ new.life = r.life
          /\ new.eps = r.eps /\ new.status = r.status
  BY Zenon DEF Records
<1>3. ASSUME NEW status \in Statuses
      PROVE  LET new == [r EXCEPT !.status = status]
             IN  /\ new \in Records /\ new.status = status
                 /\ new.life = r.life /\ new.eps = r.eps /\ new.fin = r.fin
  BY DEF Records
<1>4. ASSUME NEW S \in SUBSET Addresses
      PROVE  LET new == [r EXCEPT !.eps = S, !.status.observed = FALSE]
             IN  /\ new \in Records /\ ~new.status.observed
                 /\ new.life = r.life /\ new.eps = S /\ new.fin = r.fin
  <2> DEFINE status == [r.status EXCEPT !.observed = FALSE]
  <2>1. status \in Statuses /\ ~status.observed
    BY Zenon DEF Records, Statuses
  <2>2. [r EXCEPT !.eps = S, !.status.observed = FALSE] = [r EXCEPT !.eps = S, !.status = status]
    BY Zenon DEF Records
  <2> HIDE DEF status
  <2> QED
    BY <2>1, <2>2 DEF Records
<1> QED
  BY <1>1, <1>2, <1>3, <1>4

\* A write that changes something leaves the informer's copy behind.
LEMMA WriteEffect ==
  ASSUME TypeOK, NEW r \in Records, Write(r)
  PROVE  /\ rec' = r
         /\ cache' \in Caches
         /\ cache'.obj = cache.obj
         /\ cache'.fresh => cache.fresh /\ r = rec
  BY Zenon DEF TypeOK, Write, Caches

\* A write by somebody else leaves the pass's copy behind as well.
LEMMA WriteOverEffect ==
  ASSUME TypeOK, NEW r \in Records, WriteOver(r)
  PROVE  /\ Write(r)
         /\ pass' \in Passes
         /\ pass'.pc = pass.pc /\ pass'.read = pass.read /\ pass'.status = pass.status
         /\ pass'.fresh => pass.fresh /\ r = rec
  BY Zenon DEF TypeOK, WriteOver, Passes

\* The pass that is no pass.
LEMMA IdleEffect ==
  /\ Idle \in Passes
  /\ Idle.pc = "idle" /\ Idle.read.life = "live" /\ ~Idle.fresh
  BY DEF Idle, Passes, NewRecord, NoStatus, Steps, Records, Statuses, Conditions

LEMMA AbortEffect ==
  ASSUME TypeOK, Abort
  PROVE  /\ pass' = Idle
         /\ queue' \in Queues
<1>1. /\ 0 \in 0..MaxRetries
      /\ queue.retries < MaxRetries => queue.retries + 1 \in 0..MaxRetries
  BY DNSRecordAssumption DEF TypeOK
<1> QED
  BY <1>1, Zenon DEF TypeOK, Abort, Queues

LEMMA DoneEffect ==
  ASSUME TypeOK, Done
  PROVE  /\ pass' = Idle
         /\ queue' \in Queues
<1>1. 0 \in 0..MaxRetries
  BY DNSRecordAssumption
<1> QED
  BY <1>1, Zenon DEF TypeOK, Done, Queues

LEMMA GotoEffect ==
  ASSUME TypeOK, NEW pc \in Steps, pass' = Goto(pc)
  PROVE  /\ pass' \in Passes
         /\ pass'.pc = pc /\ pass'.read = pass.read /\ pass'.status = pass.status
         /\ pass'.fresh = pass.fresh
  BY Zenon DEF TypeOK, Goto, Passes

LEMMA AttemptedEffect ==
  ASSUME TypeOK, NEW cond \in Conditions, pass' = Attempted(cond)
  PROVE  /\ pass' \in Passes
         /\ pass'.pc = "health" /\ pass'.read = pass.read /\ pass'.fresh = pass.fresh
         /\ pass'.status.cond = cond
<1> DEFINE status == [mergeStatuses(cond, pass.read.eps) EXCEPT !.observed = TRUE]
<1>1. pass.read.eps \in SUBSET Addresses /\ pass.status \in Statuses
  BY DEF TypeOK, Records
<1>2. mergeStatuses(cond, pass.read.eps) \in Statuses
      /\ mergeStatuses(cond, pass.read.eps).cond = cond
  BY <1>1, Zenon DEF mergeStatuses, Statuses
<1>3. status \in Statuses /\ status.cond = cond
  BY <1>2, Zenon DEF Statuses
<1>4. pass' = [pass EXCEPT !.pc = "health", !.status = status] /\ "health" \in Steps
  BY DEF Attempted, Steps
<1> HIDE DEF status
<1> QED
  BY <1>3, <1>4, Zenon DEF TypeOK, Passes

LEMMA BeginEffect ==
  ASSUME TypeOK, Begin
  PROVE  /\ pass' \in Passes
         /\ queue' \in Queues
         /\ \/ pass' = pass
            \/ /\ cache.obj.life # "gone"
               /\ pass'.pc = "provider" /\ pass'.read = cache.obj
               /\ pass'.status = cache.obj.status
               /\ pass'.fresh = cache.fresh
<1>1. 0 \in 0..MaxRetries /\ "provider" \in Steps
  BY DNSRecordAssumption DEF Steps
<1>2. cache.obj \in Records /\ cache.obj.status \in Statuses /\ cache.fresh \in BOOLEAN
  BY DEF TypeOK, Records
<1>3. queue' \in Queues
  BY <1>1, Zenon DEF TypeOK, Begin, Queues
<1>4. CASE cache.obj.life = "gone"
  <2>1. pass' = pass
    BY <1>4 DEF Begin
  <2> QED
    BY <1>3, <2>1, Zenon DEF TypeOK, Passes
<1>5. CASE cache.obj.life # "gone"
  <2>1. pass' = [pc |-> "provider", read |-> cache.obj,
                 status |-> cache.obj.status, fresh |-> cache.fresh]
    BY <1>5, Zenon DEF Begin
  <2> QED
    BY <1>1, <1>2, <1>3, <1>5, <2>1 DEF Passes
<1> QED
  BY <1>4, <1>5

LEMMA SyncEffect ==
  ASSUME TypeOK, Sync
  PROVE  /\ cache' \in Caches
         /\ cache'.obj = rec
         /\ queue' \in Queues
  BY Zenon DEF TypeOK, Sync, Enqueued, Caches, Queues

\* The four writes.
LEMMA SaveStatusEffect ==
  ASSUME TypeOK, SaveStatus, pass.fresh
  PROVE  /\ rec' \in Records /\ rec'.status = pass.status
         /\ rec'.life = rec.life /\ rec'.eps = rec.eps /\ rec'.fin = rec.fin
         /\ cache' \in Caches /\ cache'.obj = cache.obj
         /\ cache'.fresh => cache.fresh /\ rec' = rec
         /\ pass' \in Passes /\ pass'.pc = "finalizer"
         /\ pass'.read = pass.read /\ pass'.status = pass.status /\ pass'.fresh
<1> DEFINE new == [rec EXCEPT !.status = pass.status]
<1>1. rec \in Records /\ pass.status \in Statuses /\ "finalizer" \in Steps
  BY DEF TypeOK, Steps
<1>2. Write(new) /\ pass' = Goto("finalizer")
  BY DEF SaveStatus
<1>3. /\ new \in Records /\ new.status = pass.status
      /\ new.life = rec.life /\ new.eps = rec.eps /\ new.fin = rec.fin
  BY <1>1, RecordWrites
<1> HIDE DEF new
<1> QED
  BY <1>1, <1>2, <1>3, WriteEffect, GotoEffect

LEMMA SaveFinalizerEffect ==
  ASSUME TypeOK, SaveFinalizer, pass.fresh
  PROVE  /\ rec' \in Records /\ rec'.eps = rec.eps /\ rec'.status = rec.status
         /\ Deleting => rec'.life = "gone" /\ rec'.fin = rec.fin
         /\ ~Deleting => rec'.life = rec.life
         /\ cache' \in Caches /\ cache'.obj = cache.obj
         /\ cache'.fresh => cache.fresh /\ rec' = rec
         /\ pass' = Idle /\ queue' \in Queues
<1>1. rec \in Records
  BY DEF TypeOK
<1>2. pass' = Idle /\ queue' \in Queues
  BY DoneEffect DEF SaveFinalizer
<1>3. CASE Deleting
  <2> DEFINE new == [rec EXCEPT !.life = "gone"]
  <2>1. Write(new)
    BY <1>3 DEF SaveFinalizer
  <2>2. /\ new \in Records /\ new.life = "gone"
        /\ new.eps = rec.eps /\ new.fin = rec.fin /\ new.status = rec.status
    BY <1>1, RecordWrites
  <2> HIDE DEF new
  <2> QED
    BY <1>2, <1>3, <2>1, <2>2, WriteEffect
<1>4. CASE ~Deleting
  <2> DEFINE new == [rec EXCEPT !.fin = TRUE]
  <2>1. Write(new)
    BY <1>4 DEF SaveFinalizer
  <2>2. /\ new \in Records /\ new.life = rec.life
        /\ new.eps = rec.eps /\ new.status = rec.status
    BY <1>1, RecordWrites
  <2> HIDE DEF new
  <2> QED
    BY <1>2, <1>4, <2>1, <2>2, WriteEffect
<1> QED
  BY <1>3, <1>4

LEMMA OwnerDeletesEffect ==
  ASSUME TypeOK, OwnerDeletes
  PROVE  /\ rec.life = "live"
         /\ rec' \in Records /\ rec'.life = (IF rec.fin THEN "deleting" ELSE "gone")
         /\ rec'.eps = rec.eps /\ rec'.fin = rec.fin /\ rec'.status = rec.status
         /\ cache' \in Caches /\ cache'.obj = cache.obj /\ ~cache'.fresh
         /\ pass' \in Passes /\ pass'.pc = pass.pc /\ pass'.read = pass.read
         /\ pass'.status = pass.status /\ ~pass'.fresh
<1> DEFINE l == IF rec.fin THEN "deleting" ELSE "gone"
<1> DEFINE new == [rec EXCEPT !.life = l]
<1>1. rec \in Records /\ l \in {"deleting", "gone"}
  BY DEF TypeOK
<1>2. WriteOver(new) /\ rec.life = "live"
  BY DEF OwnerDeletes
<1> HIDE DEF l
<1>3. /\ new \in Records /\ new.life = l
      /\ new.eps = rec.eps /\ new.fin = rec.fin /\ new.status = rec.status
  BY <1>1, RecordWrites
<1> HIDE DEF new
<1>4. new # rec
  BY <1>1, <1>2, <1>3
<1>5. l = IF rec.fin THEN "deleting" ELSE "gone"
  BY DEF l
<1> QED
  BY <1>2, <1>3, <1>4, <1>5, WriteOverEffect, WriteEffect

LEMMA OwnerUpdatesEffect ==
  ASSUME TypeOK, NEW S \in SUBSET Addresses, OwnerUpdates(S)
  PROVE  /\ rec' \in Records /\ rec'.eps = S /\ ~rec'.status.observed
         /\ rec'.life = rec.life /\ rec'.fin = rec.fin
         /\ cache' \in Caches /\ cache'.obj = cache.obj /\ ~cache'.fresh
         /\ pass' \in Passes /\ pass'.pc = pass.pc /\ pass'.read = pass.read
         /\ pass'.status = pass.status /\ ~pass'.fresh
<1> DEFINE new == [rec EXCEPT !.eps = S, !.status.observed = FALSE]
<1>1. rec \in Records
  BY DEF TypeOK
<1>2. WriteOver(new) /\ S # rec.eps
  BY DEF OwnerUpdates
<1>3. /\ new \in Records /\ ~new.status.observed
      /\ new.life = rec.life /\ new.eps = S /\ new.fin = rec.fin
  BY <1>1, RecordWrites
<1> HIDE DEF new
<1> QED
  BY <1>2, <1>3, WriteOverEffect, WriteEffect

-----------------------------------------------------------------------------
(* Type correctness.                                                       *)

\* The history keeps its type: in each step it is left alone or given a truth value.
LEMMA LapsedNext == TypeOK /\ [Next]_vars => lapsed' \in BOOLEAN
<1> SUFFICES ASSUME TypeOK, [Next]_vars PROVE lapsed' \in BOOLEAN
  OBVIOUS
<1>1. lapsed \in BOOLEAN
  BY DEF TypeOK
<1>2. Lapse => lapsed' \in BOOLEAN
  BY Zenon DEF Lapse
<1>3. CASE UNCHANGED lapsed
  BY <1>1, <1>3
<1>4. CASE CallFails \/ Crash \/ SaveStatus
  BY <1>1, <1>2, <1>4, Zenon DEF CallFails, Crash, SaveStatus
<1> QED
  BY <1>3, <1>4, Zenon DEF Next, Step, Fault, Owner, Begin, SkipZone, EnsureSucceeds,
     EnsureRefused, EnsureFails, DeleteSucceeds, DeleteFails, HealthChecked, SaveFinalizer,
     Sync, TimerFires, OwnerDeletes, OwnerUpdates, vars

LEMMA TypeNext == TypeOK /\ [Next]_vars => TypeOK'
<1> SUFFICES ASSUME TypeOK, [Next]_vars PROVE TypeOK'
  OBVIOUS
<1> DEFINE Spents == [changes : 0..MaxChanges, faults : 0..MaxFaults, crashes : 0..MaxCrashes]
<1>1. TypeOK' <=> /\ rec' \in Records /\ cache' \in Caches /\ pass' \in Passes
                  /\ zone' \subseteq Addresses /\ queue' \in Queues /\ spent' \in Spents
                  /\ lapsed' \in BOOLEAN
  BY DEF TypeOK, Caches, Passes, Queues
<1>2. /\ rec \in Records /\ cache \in Caches /\ pass \in Passes
      /\ zone \subseteq Addresses /\ queue \in Queues /\ spent \in Spents
  BY DEF TypeOK, Caches, Passes, Queues
<1>3. pass.read.eps \subseteq Addresses /\ pass.status \in Statuses
  BY <1>2 DEF Passes, Records
<1>4. Faulty => spent' \in Spents
  BY DNSRecordAssumption, <1>2 DEF Faulty
<1>5. {"health", "status", "finalizer"} \subseteq Steps /\ {"true", "false"} \subseteq Conditions
  BY DEF Steps, Conditions
<1> HIDE DEF Spents
<1>23. lapsed' \in BOOLEAN
  BY LapsedNext
<1> USE <1>1, <1>2, <1>23
<1>6. CASE Begin
  BY <1>6, BeginEffect DEF Begin
<1>7. CASE SkipZone
  BY <1>5, <1>7, GotoEffect DEF SkipZone
<1>8. CASE EnsureSucceeds
  BY <1>3, <1>5, <1>8, AttemptedEffect DEF EnsureSucceeds, Ensured
<1>9. CASE EnsureRefused
  BY <1>5, <1>9, AttemptedEffect DEF EnsureRefused
<1>10. CASE DeleteSucceeds
  BY <1>5, <1>10, GotoEffect DEF DeleteSucceeds, DeleteFrom
<1>11. CASE HealthChecked
  BY <1>5, <1>11, GotoEffect, DoneEffect, IdleEffect DEF HealthChecked
<1>12. CASE SaveStatus
  BY <1>12, SaveStatusEffect, AbortEffect, IdleEffect DEF SaveStatus
<1>13. CASE SaveFinalizer
  BY <1>13, SaveFinalizerEffect, AbortEffect, IdleEffect DEF SaveFinalizer
<1>14. CASE Sync
  BY <1>14, SyncEffect DEF Sync
<1>15. CASE TimerFires
  <2>1. queue' \in Queues
    BY <1>15, Zenon DEF TimerFires, Enqueued, Queues
  <2> QED
    BY <1>15, <2>1 DEF TimerFires
<1>16. CASE EnsureFails
  BY <1>3, <1>4, <1>5, <1>16, AttemptedEffect DEF EnsureFails, Ensured
<1>17. CASE DeleteFails
  BY <1>4, <1>17, AbortEffect, IdleEffect DEF DeleteFails, DeleteFrom
<1>18. CASE CallFails
  BY <1>4, <1>18, AbortEffect, IdleEffect DEF CallFails
<1>19. CASE Crash
  <2>1. spent' \in Spents
    BY DNSRecordAssumption, <1>19 DEF Crash, Spents
  <2>2. cache' \in Caches /\ queue' \in Queues
    BY DNSRecordAssumption, <1>19 DEF Crash, Caches, Queues
  <2> QED
    BY <1>19, <2>1, <2>2, IdleEffect DEF Crash
<1>20. CASE OwnerDeletes
  BY <1>20, OwnerDeletesEffect DEF OwnerDeletes
<1>21. ASSUME NEW S \in SUBSET Addresses, OwnerUpdates(S) PROVE TypeOK'
  <2>1. spent' \in Spents
    BY DNSRecordAssumption, <1>21 DEF OwnerUpdates, Spents
  <2> QED
    BY <1>21, <2>1, OwnerUpdatesEffect DEF OwnerUpdates
<1>22. CASE UNCHANGED vars
  BY <1>22 DEF vars
<1> QED
  BY <1>6, <1>7, <1>8, <1>9, <1>10, <1>11, <1>12, <1>13, <1>14, <1>15, <1>16, <1>17, <1>18,
     <1>19, <1>20, <1>21, <1>22 DEF Next, Step, Fault, Owner

\* The record, its copies, the zone and the queue keep their types.
THEOREM TypeCorrect == Spec => []TypeOK
<1>1. Init => TypeOK
  <2> SUFFICES ASSUME Init PROVE TypeOK
    OBVIOUS
  <2>1. NewRecord \in Records
    BY DEF NewRecord, NoStatus, Records, Statuses, Conditions
  <2>2. lapsed \in BOOLEAN
    BY DEF Init
  <2>3. /\ rec \in Records /\ cache \in [obj : Records, fresh : BOOLEAN] /\ pass \in Passes
        /\ zone \subseteq Addresses
    BY <2>1, IdleEffect DEF Init
  <2>4. /\ queue \in [pending : BOOLEAN, timer : BOOLEAN, retries : 0..MaxRetries]
        /\ spent \in [changes : 0..MaxChanges, faults : 0..MaxFaults, crashes : 0..MaxCrashes]
    BY DNSRecordAssumption DEF Init
  <2> QED
    BY <2>2, <2>3, <2>4 DEF TypeOK, Passes
<1> QED
  BY <1>1, TypeNext, PTL DEF Spec

-----------------------------------------------------------------------------
(* What a pass and the informer know of the record.                        *)

Knowledge == CacheInv /\ ReadInv /\ FreshInv /\ ObservedInv

LEMMA KnowledgeNext == TypeOK /\ Knowledge /\ [Next]_vars => Knowledge'
<1> SUFFICES ASSUME TypeOK, Knowledge, [Next]_vars PROVE Knowledge'
  OBVIOUS
<1> USE DEF Knowledge, CacheInv, ReadInv, FreshInv, ObservedInv, Active, At, Deleting
<1>1. /\ rec \in Records /\ rec.life \in {"live", "deleting", "gone"}
      /\ cache.obj \in Records /\ cache.obj.life \in {"live", "deleting", "gone"}
  BY DEF TypeOK, Records
<1>2. {"health", "status", "finalizer"} \subseteq Steps /\ {"true", "false"} \subseteq Conditions
  BY DEF Steps, Conditions
<1>3. CASE Begin
  BY <1>1, <1>3, BeginEffect DEF Begin
<1>4. CASE SkipZone
  BY <1>2, <1>4, GotoEffect DEF SkipZone
<1>5. CASE EnsureSucceeds \/ EnsureRefused \/ EnsureFails
  BY <1>2, <1>5, AttemptedEffect DEF EnsureSucceeds, EnsureRefused, EnsureFails
<1>6. CASE DeleteSucceeds
  BY <1>2, <1>6, GotoEffect DEF DeleteSucceeds
<1>7. CASE HealthChecked
  BY <1>2, <1>7, GotoEffect, DoneEffect, IdleEffect DEF HealthChecked
<1>8. CASE SaveStatus
  <2>1. CASE ~pass.fresh
    BY <1>8, <2>1, AbortEffect, IdleEffect DEF SaveStatus
  <2>2. CASE pass.fresh
    BY <1>1, <1>8, <2>2, SaveStatusEffect DEF SaveStatus
  <2> QED
    BY <2>1, <2>2
<1>9. CASE SaveFinalizer
  <2>1. CASE ~pass.fresh
    BY <1>9, <2>1, AbortEffect, IdleEffect DEF SaveFinalizer
  <2>2. CASE pass.fresh
    BY <1>1, <1>9, <2>2, SaveFinalizerEffect, IdleEffect
  <2> QED
    BY <2>1, <2>2
<1>10. CASE Sync
  BY <1>10, SyncEffect DEF Sync
<1>11. CASE TimerFires
  BY <1>11 DEF TimerFires
<1>12. CASE DeleteFails \/ CallFails
  BY <1>12, AbortEffect, IdleEffect DEF DeleteFails, CallFails
<1>13. CASE Crash
  BY <1>13, IdleEffect DEF Crash
<1>14. CASE OwnerDeletes
  BY <1>1, <1>14, OwnerDeletesEffect
<1>15. ASSUME NEW S \in SUBSET Addresses, OwnerUpdates(S) PROVE Knowledge'
  BY <1>1, <1>15, OwnerUpdatesEffect
<1>16. CASE UNCHANGED vars
  BY <1>16 DEF vars
<1> QED
  BY <1>3, <1>4, <1>5, <1>6, <1>7, <1>8, <1>9, <1>10, <1>11, <1>12, <1>13, <1>14, <1>15, <1>16
     DEF Next, Step, Fault, Owner

-----------------------------------------------------------------------------
(* What the status says of the zone.                                       *)

Promise == AttemptInv /\ SucceededIsServed /\ DeletionInv /\ GoneInv /\ CleanGone

\* A deletion takes the endpoints of the pass's copy, or nothing.
LEMMA DeleteFromEffect ==
  /\ DeleteFrom \subseteq zone
  /\ \/ DeleteFrom = zone
     \/ pass.read.eps \intersect DeleteFrom = {}
  /\ pass.read.status.cond = "true" /\ pass.read.eps \subseteq zone =>
       pass.read.eps \intersect DeleteFrom = {}
BY DEF DeleteFrom

LEMMA PromiseNext == TypeOK /\ Knowledge /\ Promise /\ [Next]_vars => Promise'
<1> SUFFICES ASSUME TypeOK, Knowledge, Promise, [Next]_vars PROVE Promise'
  OBVIOUS
<1> USE DEF Promise, AttemptInv, SucceededIsServed, DeletionInv, GoneInv, CleanGone,
            StatusDiffers, Active, At, Deleting
<1>1. /\ rec \in Records /\ rec.life \in {"live", "deleting", "gone"}
      /\ cache.obj \in Records /\ cache.obj.life \in {"live", "deleting", "gone"}
  BY DEF TypeOK, Records
<1>2. {"health", "status", "finalizer"} \subseteq Steps /\ {"true", "false"} \subseteq Conditions
  BY DEF Steps, Conditions
<1>3. ReadInv /\ FreshInv /\ ObservedInv
  BY DEF Knowledge
<1>4. CASE Begin
  BY <1>1, <1>4, BeginEffect DEF Begin
<1>5. CASE SkipZone
  BY <1>2, <1>5, GotoEffect DEF SkipZone
<1>6. CASE EnsureSucceeds
  BY <1>2, <1>3, <1>6, AttemptedEffect DEF EnsureSucceeds, Ensured, ObservedInv
<1>7. CASE EnsureRefused
  BY <1>2, <1>7, AttemptedEffect DEF EnsureRefused
<1>8. CASE EnsureFails
  <2>1. zone' = zone \/ zone' = Ensured
    BY <1>8 DEF EnsureFails
  <2> QED
    BY <1>2, <1>3, <1>8, <2>1, AttemptedEffect DEF EnsureFails, Ensured, ObservedInv
<1>9. CASE DeleteSucceeds
  BY <1>2, <1>3, <1>9, DeleteFromEffect, GotoEffect
     DEF DeleteSucceeds, ReadInv, FreshInv, ObservedInv
<1>10. CASE DeleteFails
  <2>1. zone' = zone \/ zone' = DeleteFrom
    BY <1>10 DEF DeleteFails
  <2> QED
    BY <1>3, <1>10, <2>1, DeleteFromEffect, AbortEffect, IdleEffect
       DEF DeleteFails, ReadInv, ObservedInv
<1>11. CASE HealthChecked
  BY <1>2, <1>3, <1>11, GotoEffect, DoneEffect, IdleEffect DEF HealthChecked, ReadInv
<1>12. CASE SaveStatus
  <2>1. CASE ~pass.fresh
    BY <1>12, <2>1, AbortEffect, IdleEffect DEF SaveStatus
  <2>2. CASE pass.fresh
    BY <1>3, <1>12, <2>2, SaveStatusEffect DEF SaveStatus, ReadInv, FreshInv
  <2> QED
    BY <2>1, <2>2
<1>13. CASE SaveFinalizer
  <2>1. CASE ~pass.fresh
    BY <1>13, <2>1, AbortEffect, IdleEffect DEF SaveFinalizer
  <2>2. CASE pass.fresh
    BY <1>1, <1>3, <1>13, <2>2, SaveFinalizerEffect, IdleEffect
       DEF SaveFinalizer, ReadInv, FreshInv
  <2> QED
    BY <2>1, <2>2
<1>14. CASE Sync
  BY <1>1, <1>14, SyncEffect DEF Sync
<1>15. CASE TimerFires
  BY <1>15 DEF TimerFires
<1>16. CASE CallFails
  BY <1>16, AbortEffect, IdleEffect DEF CallFails
<1>17. CASE Crash
  BY <1>17, IdleEffect DEF Crash
<1>18. CASE OwnerDeletes
  BY <1>1, <1>18, OwnerDeletesEffect DEF OwnerDeletes
<1>19. ASSUME NEW S \in SUBSET Addresses, OwnerUpdates(S) PROVE Promise'
  BY <1>1, <1>19, OwnerUpdatesEffect DEF OwnerUpdates
<1>20. CASE UNCHANGED vars
  BY <1>20 DEF vars
<1> QED
  BY <1>4, <1>5, <1>6, <1>7, <1>8, <1>9, <1>10, <1>11, <1>12, <1>13, <1>14, <1>15, <1>16,
     <1>17, <1>18, <1>19, <1>20 DEF Next, Step, Fault, Owner

-----------------------------------------------------------------------------
\* The inductive invariant.
LEMMA Invariance == Spec => []IInv
<1>1. Init => Knowledge /\ Promise
  BY IdleEffect
     DEF Init, NewRecord, NoStatus, Knowledge, CacheInv, ReadInv, FreshInv, ObservedInv, Promise,
         AttemptInv, SucceededIsServed, DeletionInv, GoneInv, CleanGone, StatusDiffers,
         Active, At, Deleting
<1>2. IInv <=> TypeOK /\ Knowledge /\ Promise
  BY DEF IInv, Knowledge, Promise
<1>3. TypeOK /\ Knowledge /\ Promise /\ [Next]_vars => (Knowledge /\ Promise)'
  BY KnowledgeNext, PromiseNext
<1>4. Spec => [](TypeOK /\ Knowledge /\ Promise)
  BY <1>1, <1>3, TypeCorrect, PTL DEF Spec
<1> QED
  BY <1>2, <1>4, PTL

\* A live record whose status says that its present generation is published has all its
\* endpoints in the zone, whatever the owner, the provider and a crash do between the
\* write of the zone and that of the status (dns_record.go:55-59).
THEOREM StatusTrue == Spec => []SucceededIsServed
<1>1. IInv => SucceededIsServed
  BY DEF IInv
<1> QED
  BY <1>1, Invariance, PTL

\* A published record that is gone has left no endpoint in the zone, also when its
\* deletion took several passes (dns_record.go:34-49).
THEOREM NothingLeft == Spec => []CleanGone
<1>1. IInv => CleanGone
  BY DEF IInv
<1> QED
  BY <1>1, Invariance, PTL

=============================================================================
