------------------------- MODULE HostsWatcherProofs -------------------------
(***************************************************************************)
(* Proofs about HostsWatcher, for every set of objects and hosts, any      *)
(* number of passes at the same time, of goroutines and of events: type    *)
(* correctness; and that, as long as no two changes of the slice have      *)
(* overlapped, an object at rest has its target, and nothing else, watched *)
(* once, so that nothing is watched for an object that is gone.            *)
(***************************************************************************)
EXTENDS HostsWatcher, TLAPS

Stages == {"idle", "check", "add", "list", "stop", "remove", "update", "gone"}
Todos == {Hosts} \union {{h} : h \in Hosts}
Passes ==
  [pc : Stages, host : Hosts \union {Gone, NoHost}, got : Answers,
   todo : SUBSET Todos, seen : SUBSET Ids]
Watchers == [is : {"none", "running", "stopped"}, known : Answers]

\* What is to be watched is a host.
PassInv == \A k \in Keys : pass[k].pc = "check" => pass[k].host \in Hosts

\* The slice, or what is about to be written to it, has the goroutines that go on; one
\* change at a time is under way, and it concerns one object.
SliceInv ==
  /\ \A k, j \in Keys : Writing(k) /\ Writing(j) => k = j
  /\ (\A k \in Keys : ~Writing(k)) => \A id \in Ids : Running(id) <=> id \in records
  /\ \A k \in Keys : Writing(k) =>
       \A id \in Ids : /\ Running(id) <=> id \in pass[k].seen
                       /\ id[1] # k => (Running(id) <=> id \in records)

\* An object has a host watched by one goroutine.
OnceInv ==
  \A id, other \in Ids :
    Running(id) /\ Running(other) /\ id[1] = other[1] /\ HostOf(id) = HostOf(other)
      => id = other

\* k has h watched.
Watches(k, h) == \E id \in Of(k) : Running(id) /\ HostOf(id) = h

\* What a pass has done so far: its target is watched from the start of the watcher on,
\* is not among those to stop, and all others that are watched are.
Work(k) ==
  LET p == pass[k]
  IN  /\ p.pc # "idle" /\ k \notin queued => p.host = target[k]
      /\ p.pc \in {"add", "list", "stop", "remove", "update"} =>
           \A h \in Hosts : h = p.host => Watches(k, h)
      /\ p.pc \in {"add", "list", "update"} => p.host # Gone
      /\ p.pc = "gone" => p.host = Gone
      /\ p.host # Gone => \A hosts \in p.todo : p.host \notin hosts
      /\ p.pc \in {"stop", "remove"} /\ p.host = Gone => p.todo \subseteq {Hosts}
      /\ p.pc = "remove" /\ p.host = Gone => \A h \in Hosts : ~Watches(k, h)
      /\ p.pc \in {"stop", "remove", "update"} /\ p.host # Gone =>
           \A h \in Hosts : Watches(k, h) => h = p.host \/ \E hosts \in p.todo : h \in hosts
      /\ p.pc = "update" => p.todo = {}

WorkInv == \A k \in Keys : Work(k)

\* What the last pass has left.
Left(k) == AtRest(k) => \A h \in Hosts : Watches(k, h) <=> h = target[k]

RestInv == \A k \in Keys : Left(k)

Types == TypeOK /\ PassInv

Invs == SliceInv /\ OnceInv /\ WorkInv /\ RestInv

IInv == Types /\ (~clashed => Invs)

-----------------------------------------------------------------------------
(* What the actions do to the passes and to the goroutines.                *)

Typing ==
  /\ target \in [Keys -> Hosts \union {Gone, NoHost}]
  /\ addr \in [Hosts -> Answers] /\ endpoints \in [Keys -> Answers]
  /\ queued \subseteq Keys
  /\ pass \in [Keys -> Passes]
  /\ records \subseteq Ids
  /\ watch \in [Ids -> Watchers]
  /\ clashed \in BOOLEAN
  /\ events \in 0..MaxEvents

LEMMA Typed == TypeOK <=> Typing
BY DEF TypeOK, Typing, Passes, Watchers, Stages, Todos

LEMMA Bounds ==
  /\ MaxEvents \in Nat /\ First \in Hosts /\ Gone \notin Hosts /\ NoHost \notin Hosts
  /\ Gone # NoHost
BY HostsWatcherAssumption

LEMMA Answer ==
  /\ {} \in Answers /\ \A h \in Hosts : {h} \in Answers
  /\ \A a \in Moved : {a} \in Answers
BY DEF Answers

LEMMA Numbers ==
  /\ \A id \in Ids : id[1] \in Keys /\ HostOf(id) \in Hosts /\ id \in Of(id[1])
  /\ \A k \in Keys, h \in Hosts, n \in 1..MaxWatchers :
       <<k, h, n>> \in Of(k) /\ HostOf(<<k, h, n>>) = h
BY DEF Ids, HostOf, Of

LEMMA Nothing ==
  /\ IdlePass \in Passes /\ IdlePass.pc = "idle" /\ IdlePass.host = NoHost
  /\ IdlePass.got = {} /\ IdlePass.todo = {} /\ IdlePass.seen = {}
  /\ NoWatcher \in Watchers /\ NoWatcher.is = "none"
  /\ NewWatcher \in Watchers /\ NewWatcher.is = "running"
<1>1. {} \in SUBSET Todos /\ {} \in SUBSET Ids /\ "idle" \in Stages
  BY DEF Stages
<1>2. "none" \in {"none", "running", "stopped"} /\ "running" \in {"none", "running", "stopped"}
  OBVIOUS
<1> QED
  BY <1>1, <1>2, Answer, Zenon DEF IdlePass, NoWatcher, NewWatcher, Passes, Watchers

LEMMA EventEffect ==
  ASSUME Typing, Event
  PROVE  events' \in 0..MaxEvents
BY Bounds DEF Typing, Event

\* The pass over an object is another one.
Moves(k, p) ==
  /\ pass' \in [Keys -> Passes] /\ pass'[k] = p
  /\ \A other \in Keys \ {k} : pass'[other] = pass[other]

LEMMA MovesEffect ==
  ASSUME Typing, NEW k \in Keys, NEW p \in Passes, pass' = [pass EXCEPT ![k] = p]
  PROVE  Moves(k, p)
BY DEF Typing, Moves

LEMMA BeginEffect ==
  ASSUME Typing, NEW k \in Keys, Begin(k)
  PROVE  /\ pass[k].pc = "idle" /\ queued' = queued \ {k}
         /\ UNCHANGED <<target, addr, endpoints, records, watch, clashed, events>>
         /\ \E p \in Passes :
              /\ Moves(k, p) /\ p.host = target[k] /\ p.todo = {}
              /\ p.pc = (IF target[k] = Gone THEN "gone"
                         ELSE IF target[k] = NoHost THEN "list" ELSE "check")
<1> DEFINE pc == CASE target[k] = Gone -> "gone"
                   [] target[k] = NoHost -> "list"
                   [] OTHER -> "check"
           got == IF target[k] \in Hosts THEN addr[target[k]] ELSE {}
           p == [IdlePass EXCEPT !.pc = pc, !.host = target[k], !.got = got]
<1>1. /\ pass[k].pc = "idle" /\ queued' = queued \ {k}
      /\ UNCHANGED <<target, addr, endpoints, records, watch, clashed, events>>
      /\ pass' = [pass EXCEPT ![k] = p]
  BY Zenon DEF Begin
<1>2. /\ pc = (IF target[k] = Gone THEN "gone"
               ELSE IF target[k] = NoHost THEN "list" ELSE "check")
      /\ target[k] \in Hosts \union {Gone, NoHost}
  BY Bounds DEF Typing
<1>3. pc \in Stages
  BY <1>2 DEF Stages
<1>4. got \in Answers
  BY Answer DEF Typing
<1> HIDE DEF pc, got
<1>5. p \in Passes /\ p.pc = pc /\ p.host = target[k] /\ p.todo = {}
  BY <1>2, <1>3, <1>4, Nothing, Zenon DEF Passes
<1> HIDE DEF p
<1> QED
  BY <1>1, <1>2, <1>5, MovesEffect

\* The watcher of id is new.
Starts(id) ==
  /\ watch' \in [Ids -> Watchers] /\ watch'[id].is = "running" /\ ~Running(id)
  /\ \A other \in Ids \ {id} : watch'[other] = watch[other]

LEMMA StartWatchingEffect ==
  ASSUME Typing, NEW k \in Keys, StartWatching(k), pass[k].host \in Hosts
  PROVE  /\ pass[k].pc = "check"
         /\ UNCHANGED <<target, addr, endpoints, queued, records, events>>
         /\ \E p \in Passes :
              /\ Moves(k, p) /\ p.host = pass[k].host /\ p.todo = pass[k].todo
              /\ \/ /\ Watched(k, pass[k].host) /\ p.pc = "list"
                    /\ UNCHANGED <<watch, clashed>>
                 \/ /\ ~Watched(k, pass[k].host) /\ p.pc = "add" /\ Overlap
                    /\ \E id \in Of(k) :
                         /\ HostOf(id) = pass[k].host /\ Starts(id)
                         /\ p.seen = records \union {id}
<1>0. /\ pass[k].pc = "check" /\ pass[k] \in Passes /\ "list" \in Stages /\ "add" \in Stages
      /\ UNCHANGED <<target, addr, endpoints, queued, records, events>>
  BY DEF StartWatching, Typing, Stages
<1>1. CASE Watched(k, pass[k].host)
  <2> DEFINE p == [pass[k] EXCEPT !.pc = "list"]
  <2>1. pass' = [pass EXCEPT ![k] = p] /\ UNCHANGED <<watch, clashed>>
    BY <1>1, Zenon DEF StartWatching, Goto, Typing
  <2>2. p \in Passes /\ p.host = pass[k].host /\ p.pc = "list" /\ p.todo = pass[k].todo
    BY <1>0, Zenon DEF Passes
  <2> HIDE DEF p
  <2> QED
    BY <1>0, <1>1, <2>1, <2>2, MovesEffect
<1>2. CASE ~Watched(k, pass[k].host)
  <2>1. PICK n \in 1..MaxWatchers :
          LET id == <<k, pass[k].host, n>>
          IN  /\ Free(id) /\ watch' = [watch EXCEPT ![id] = NewWatcher] /\ Overlap
              /\ pass' = [pass EXCEPT ![k].pc = "add", ![k].seen = records \union {id}]
    BY <1>2, Zenon DEF StartWatching
  <2> DEFINE id == <<k, pass[k].host, n>>
             seen == records \union {id}
             p == [pass[k] EXCEPT !.pc = "add", !.seen = seen]
  <2>2. id \in Of(k) /\ id \in Ids /\ HostOf(id) = pass[k].host
    BY Numbers DEF Of
  <2>3. seen \in SUBSET Ids /\ seen = records \union {id}
    BY <2>2 DEF Typing
  <2>4. /\ pass' = [pass EXCEPT ![k] = p] /\ watch' = [watch EXCEPT ![id] = NewWatcher]
        /\ Free(id) /\ Overlap
    BY <2>1, Zenon DEF Typing
  <2> HIDE DEF id, seen
  <2>5. /\ p \in Passes /\ p.host = pass[k].host /\ p.pc = "add" /\ p.seen = seen
        /\ p.todo = pass[k].todo
    BY <1>0, <2>3, Zenon DEF Passes
  <2> HIDE DEF p
  <2>6. Moves(k, p)
    BY <2>4, <2>5, MovesEffect
  <2>7. Starts(id)
    <3>1. watch[id] = NoWatcher /\ watch' = [watch EXCEPT ![id] = NewWatcher]
      BY <2>4 DEF Free
    <3> QED
      BY <2>2, <3>1, Nothing DEF Starts, Running, Typing
  <2> QED
    BY <1>0, <1>2, <2>2, <2>3, <2>4, <2>5, <2>6, <2>7
<1> QED
  BY <1>1, <1>2

\* The hosts the object has watched beside its target.
Others(k) == {HostOf(id) : id \in records \intersect Of(k)} \ {pass[k].host}

LEMMA ListEffect ==
  ASSUME Typing, NEW k \in Keys, ListHostRecordWatchers(k)
  PROVE  /\ pass[k].pc = "list"
         /\ UNCHANGED <<target, addr, endpoints, queued, records, watch, clashed, events>>
         /\ \E p \in Passes :
              /\ Moves(k, p) /\ p.host = pass[k].host
              /\ p.pc = (IF Others(k) = {} THEN "update" ELSE "stop")
              /\ p.todo = {{h} : h \in Others(k)}
<1> DEFINE todo == {{h} : h \in Others(k)}
           pc == IF Others(k) = {} THEN "update" ELSE "stop"
           p == [pass[k] EXCEPT !.pc = pc, !.todo = todo]
<1>1. Others(k) \subseteq Hosts
  BY Numbers DEF Others, Of
<1>2. /\ pass[k] \in Passes /\ todo \in SUBSET Todos /\ pc \in Stages
      /\ pc = (IF Others(k) = {} THEN "update" ELSE "stop")
      /\ todo = {{h} : h \in Others(k)}
  BY <1>1 DEF Typing, Todos, Stages
<1>3. /\ pass[k].pc = "list" /\ pass' = [pass EXCEPT ![k] = p]
      /\ UNCHANGED <<target, addr, endpoints, queued, records, watch, clashed, events>>
  BY Zenon DEF ListHostRecordWatchers, Typing, Others
<1> HIDE DEF todo, pc
<1>4. p \in Passes /\ p.host = pass[k].host /\ p.pc = pc /\ p.todo = todo
  BY <1>2, Zenon DEF Passes
<1> HIDE DEF p
<1> QED
  BY <1>2, <1>3, <1>4, MovesEffect

LEMMA StopWatchingEffect ==
  ASSUME Typing, NEW k \in Keys, StopWatching(k)
  PROVE  /\ pass[k].pc = "stop" /\ Overlap
         /\ UNCHANGED <<target, addr, endpoints, queued, records, events>>
         /\ watch' \in [Ids -> Watchers]
         /\ \E p \in Passes, hosts \in pass[k].todo :
              /\ Moves(k, p) /\ p.host = pass[k].host
              /\ p.pc = "remove" /\ p.todo = pass[k].todo \ {hosts}
              /\ p.seen = records \ Stopped(k, hosts)
              /\ \A id \in Ids : Running(id)' <=> Running(id) /\ id \notin Stopped(k, hosts)
<1>1. PICK hosts \in pass[k].todo :
        LET stopped == Stopped(k, hosts)
        IN  /\ watch' = [id \in Ids |-> IF id \in stopped /\ Running(id)
                                        THEN [watch[id] EXCEPT !.is = "stopped"] ELSE watch[id]]
            /\ pass' = [pass EXCEPT ![k].pc = "remove", ![k].todo = @ \ {hosts},
                                    ![k].seen = records \ stopped]
  BY Zenon DEF StopWatching
<1> DEFINE stopped == Stopped(k, hosts)
           todo == pass[k].todo \ {hosts}
           seen == records \ stopped
           p == [pass[k] EXCEPT !.pc = "remove", !.todo = todo, !.seen = seen]
<1>2. /\ pass[k].pc = "stop" /\ Overlap
      /\ UNCHANGED <<target, addr, endpoints, queued, records, events>>
  BY DEF StopWatching
<1>3. pass[k] \in Passes
  BY DEF Typing
<1>4. pass[k].todo \in SUBSET Todos /\ "remove" \in Stages
  BY <1>3, Zenon DEF Passes, Stages
<1>5. todo \in SUBSET Todos /\ seen \in SUBSET Ids
  BY <1>4 DEF Typing
<1>6. pass' = [pass EXCEPT ![k] = p]
  BY <1>1, Zenon DEF Typing
<1>7. watch' = [id \in Ids |-> IF id \in stopped /\ Running(id)
                               THEN [watch[id] EXCEPT !.is = "stopped"] ELSE watch[id]]
  BY <1>1, Zenon
<1>8. todo = pass[k].todo \ {hosts} /\ seen = records \ Stopped(k, hosts)
  OBVIOUS
<1> HIDE DEF todo, seen, stopped
<1>9. p \in Passes /\ p.host = pass[k].host /\ p.pc = "remove" /\ p.todo = todo /\ p.seen = seen
  BY <1>3, <1>4, <1>5, Zenon DEF Passes
<1> HIDE DEF p
<1>10. ASSUME NEW id \in Ids
       PROVE  /\ [watch[id] EXCEPT !.is = "stopped"] \in Watchers
              /\ [watch[id] EXCEPT !.is = "stopped"].is = "stopped"
              /\ watch[id] \in Watchers
  <2>1. "stopped" \in {"none", "running", "stopped"} /\ watch[id] \in Watchers
    BY DEF Typing
  <2> QED
    BY <2>1, Zenon DEF Watchers
<1>11. watch' \in [Ids -> Watchers]
  BY <1>7, <1>10, Zenon
<1>12. \A id \in Ids : Running(id)' <=> Running(id) /\ id \notin stopped
  BY <1>7, <1>10 DEF Running
<1>13. Moves(k, p)
  BY <1>6, <1>9, MovesEffect
<1> QED
  BY <1>2, <1>8, <1>9, <1>11, <1>12, <1>13 DEF stopped

LEMMA AssignEffect ==
  ASSUME Typing, NEW k \in Keys, Assign(k)
  PROVE  /\ Writing(k) /\ records' = pass[k].seen /\ pass[k].seen \subseteq Ids
         /\ UNCHANGED <<target, addr, endpoints, queued, watch, clashed, events>>
         /\ \E p \in Passes :
              /\ Moves(k, p)
              /\ pass[k].host = Gone => p = IdlePass
              /\ pass[k].host # Gone =>
                   /\ p.host = pass[k].host /\ p.todo = pass[k].todo
                   /\ p.pc = (IF pass[k].pc = "add" THEN "list"
                              ELSE IF pass[k].todo # {} THEN "stop" ELSE "update")
<1> DEFINE pc == CASE pass[k].pc = "add" -> "list"
                   [] pass[k].pc = "remove" /\ pass[k].todo # {} -> "stop"
                   [] pass[k].pc = "remove" /\ pass[k].todo = {} -> "update"
           on == [pass[k] EXCEPT !.pc = pc, !.seen = {}]
           p == IF pass[k].host = Gone THEN IdlePass ELSE on
<1>1. /\ Writing(k) /\ records' = pass[k].seen
      /\ pass' = [pass EXCEPT ![k] = p]
      /\ UNCHANGED <<target, addr, endpoints, queued, watch, clashed, events>>
  BY Zenon DEF Assign, AfterAssign, Typing
<1>2. /\ pc = (IF pass[k].pc = "add" THEN "list"
               ELSE IF pass[k].todo # {} THEN "stop" ELSE "update")
  BY <1>1 DEF Writing
<1>3. pass[k] \in Passes
  BY DEF Typing
<1>4. pc \in Stages /\ {} \in SUBSET Ids /\ pass[k].seen \subseteq Ids
  BY <1>2, <1>3 DEF Stages, Passes
<1> HIDE DEF pc
<1>5. on \in Passes /\ on.host = pass[k].host /\ on.pc = pc /\ on.todo = pass[k].todo
  BY <1>3, <1>4, Zenon DEF Passes
<1> HIDE DEF on
<1> QED
  BY <1>1, <1>2, <1>4, <1>5, Nothing, MovesEffect

LEMMA UpdateDNSEffect ==
  ASSUME Typing, NEW k \in Keys, UpdateDNS(k)
  PROVE  /\ pass[k].pc = "update" /\ endpoints' \in [Keys -> Answers] /\ Moves(k, IdlePass)
         /\ UNCHANGED <<target, addr, queued, records, watch, clashed, events>>
<1>1. pass[k] \in Passes
  BY DEF Typing
<1>2. pass[k].got \in Answers
  BY <1>1 DEF Passes
<1> QED
  BY <1>2, Nothing, MovesEffect DEF UpdateDNS, Typing

LEMMA DeleteDNSEffect ==
  ASSUME Typing, NEW k \in Keys, DeleteDNS(k)
  PROVE  /\ pass[k].pc = "gone" /\ endpoints' \in [Keys -> Answers]
         /\ UNCHANGED <<target, addr, queued, records, watch, clashed, events>>
         /\ \E p \in Passes : /\ Moves(k, p) /\ p.host = pass[k].host
                              /\ p.pc = "stop" /\ p.todo = {Hosts}
<1> DEFINE p == [pass[k] EXCEPT !.pc = "stop", !.todo = {Hosts}]
<1>1. pass[k] \in Passes /\ "stop" \in Stages /\ {Hosts} \in SUBSET Todos
  BY DEF Typing, Stages, Todos
<1>2. /\ pass[k].pc = "gone" /\ pass' = [pass EXCEPT ![k] = p]
      /\ UNCHANGED <<target, addr, queued, records, watch, clashed, events>>
  BY Zenon DEF DeleteDNS, Typing
<1>3. p \in Passes /\ p.host = pass[k].host /\ p.pc = "stop" /\ p.todo = {Hosts}
  BY <1>1, Zenon DEF Passes
<1>4. endpoints' \in [Keys -> Answers]
  BY Answer DEF DeleteDNS, Typing
<1> HIDE DEF p
<1> QED
  BY <1>2, <1>3, <1>4, MovesEffect

LEMMA CallFailsEffect ==
  ASSUME Typing, NEW k \in Keys, CallFails(k)
  PROVE  /\ pass[k].pc \in {"check", "update", "gone"} /\ Moves(k, IdlePass)
         /\ queued' = queued \union {k} /\ events' \in 0..MaxEvents
         /\ UNCHANGED <<target, addr, endpoints, records, watch, clashed>>
BY Nothing, MovesEffect, EventEffect DEF CallFails

\* The goroutines that go on are the same.
SameWatchers ==
  watch' \in [Ids -> Watchers] /\ \A id \in Ids : Running(id)' <=> Running(id)

LEMMA LookEffect ==
  ASSUME Typing, NEW id \in Ids, Look(id)
  PROVE  /\ SameWatchers /\ queued \subseteq queued' /\ queued' \subseteq Keys
         /\ UNCHANGED <<target, addr, endpoints, pass, records, clashed, events>>
<1> DEFINE known == Learn(watch[id].known, addr[HostOf(id)])
           on == [watch[id] EXCEPT !.known = known]
<1>1. watch[id] \in Watchers /\ HostOf(id) \in Hosts /\ id[1] \in Keys
  BY Numbers DEF Typing
<1>2. known \in Answers
  BY <1>1 DEF Typing, Learn
<1>3. /\ watch[id].is # "none"
      /\ watch' = [watch EXCEPT ![id] = IF watch[id].is = "stopped" THEN NoWatcher ELSE on]
      /\ queued' \in {queued, queued \union {id[1]}}
      /\ UNCHANGED <<target, addr, endpoints, pass, records, clashed, events>>
  BY Zenon DEF Look
<1> HIDE DEF known
<1>4. on \in Watchers /\ on.is = watch[id].is
  BY <1>1, <1>2, Zenon DEF Watchers
<1> HIDE DEF on
<1>5. SameWatchers
  BY <1>3, <1>4, Nothing DEF SameWatchers, Typing, Running
<1> QED
  BY <1>1, <1>3, <1>5 DEF Typing

LEMMA FinishEffect ==
  ASSUME Typing, NEW id \in Ids, Finish(id)
  PROVE  /\ SameWatchers
         /\ UNCHANGED <<target, addr, endpoints, queued, pass, records, clashed, events>>
BY Nothing DEF Finish, SameWatchers, Typing, Running

LEMMA RestartEffect ==
  ASSUME Typing, Restart
  PROVE  /\ \A k \in Keys : pass'[k] = IdlePass
         /\ pass' \in [Keys -> Passes] /\ watch' \in [Ids -> Watchers]
         /\ records' = {} /\ queued' = Keys /\ clashed' \in BOOLEAN
         /\ \A id \in Ids : ~Running(id)'
         /\ UNCHANGED <<target, addr, endpoints>>
BY Nothing DEF Restart, Running

LEMMA TargetChangesEffect ==
  ASSUME Typing, NEW k \in Keys, NEW t \in Hosts \union {Gone, NoHost}, TargetChanges(k, t)
  PROVE  /\ target' \in [Keys -> Hosts \union {Gone, NoHost}]
         /\ queued' = queued \union {k}
         /\ \A other \in Keys \ {k} : target'[other] = target[other]
         /\ events' \in 0..MaxEvents
         /\ UNCHANGED <<addr, endpoints, pass, records, watch, clashed>>
BY EventEffect DEF Typing, TargetChanges

LEMMA AddressChangesEffect ==
  ASSUME Typing, NEW h \in Hosts, NEW answer \in Answers, AddressChanges(h, answer)
  PROVE  /\ addr' \in [Hosts -> Answers] /\ events' \in 0..MaxEvents
         /\ UNCHANGED <<target, endpoints, queued, pass, records, watch, clashed>>
BY EventEffect DEF Typing, AddressChanges

LEMMA Actions ==
  Next <=>
    \/ \E k \in Keys : \/ Begin(k) \/ StartWatching(k) \/ ListHostRecordWatchers(k)
                       \/ StopWatching(k) \/ Assign(k) \/ UpdateDNS(k) \/ DeleteDNS(k)
                       \/ CallFails(k)
    \/ \E id \in Ids : Look(id) \/ Finish(id) \/ Panic(id)
    \/ Crash
    \/ \E k \in Keys, t \in Hosts \union {Gone, NoHost} : TargetChanges(k, t)
    \/ \E h \in Hosts, answer \in Answers : AddressChanges(h, answer)
BY Zenon DEF Next, Step, WatcherStep

LEMMA OverlapEffect ==
  ASSUME Typing, Overlap
  PROVE  /\ clashed' \in BOOLEAN
         /\ ~clashed' => ~clashed /\ \A k \in Keys : ~Writing(k)
BY Zenon DEF Overlap

-----------------------------------------------------------------------------
(* Type correctness.                                                       *)

LEMMA PassKept ==
  ASSUME PassInv, NEW k \in Keys, NEW p \in Passes, Moves(k, p),
         p.pc = "check" => p.host \in Hosts
  PROVE  PassInv' /\ pass' \in [Keys -> Passes]
BY DEF PassInv, Moves

LEMMA TypesInit == ASSUME Init PROVE Types
<1>1. target \in [Keys -> Hosts \union {Gone, NoHost}] /\ addr \in [Hosts -> Answers]
  BY Bounds, Answer DEF Init
<1>2. /\ endpoints \in [Keys -> Answers] /\ queued \subseteq Keys /\ records \subseteq Ids
      /\ events \in 0..MaxEvents
  BY Bounds, Answer DEF Init
<1>3. pass \in [Keys -> Passes] /\ watch \in [Ids -> Watchers] /\ PassInv
  BY Nothing DEF Init, PassInv
<1>4. clashed \in BOOLEAN
  BY Zenon DEF Init
<1> QED
  BY <1>1, <1>2, <1>3, <1>4, Typed, Zenon DEF Types, Typing

LEMMA TypesNext == ASSUME Types, [Next]_vars PROVE Types'
<1> USE Typed DEF Types
<1> SUFFICES Typing' /\ PassInv'
  BY DEF TypeOK, Typing, Passes, Watchers, Stages, Todos
<1>1. ASSUME NEW k \in Keys, Begin(k) PROVE Typing' /\ PassInv'
  <2>1. PICK p \in Passes :
          /\ Moves(k, p) /\ p.host = target[k]
          /\ p.pc = (IF target[k] = Gone THEN "gone"
                     ELSE IF target[k] = NoHost THEN "list" ELSE "check")
    BY <1>1, BeginEffect
  <2>2. p.pc = "check" => p.host \in Hosts
    BY <2>1 DEF Typing
  <2> QED
    BY <1>1, <2>1, <2>2, BeginEffect, PassKept DEF Typing
<1>2. ASSUME NEW k \in Keys, StartWatching(k) PROVE Typing' /\ PassInv'
  <2>1. pass[k].host \in Hosts
    BY <1>2 DEF StartWatching, PassInv
  <2>2. PICK p \in Passes :
          /\ Moves(k, p) /\ p.pc \in {"list", "add"}
          /\ \/ UNCHANGED <<watch, clashed>>
             \/ Overlap /\ watch' \in [Ids -> Watchers]
    BY <1>2, <2>1, StartWatchingEffect DEF Starts
  <2>3. clashed' \in BOOLEAN /\ watch' \in [Ids -> Watchers]
    BY <2>2, OverlapEffect DEF Typing
  <2> QED
    BY <1>2, <2>1, <2>2, <2>3, StartWatchingEffect, PassKept DEF Typing
<1>3. ASSUME NEW k \in Keys, ListHostRecordWatchers(k) PROVE Typing' /\ PassInv'
  BY <1>3, ListEffect, PassKept DEF Typing
<1>4. ASSUME NEW k \in Keys, StopWatching(k) PROVE Typing' /\ PassInv'
  BY <1>4, StopWatchingEffect, OverlapEffect, PassKept DEF Typing
<1>5. ASSUME NEW k \in Keys, Assign(k) PROVE Typing' /\ PassInv'
  <2>1. PICK p \in Passes : Moves(k, p) /\ p.pc # "check"
    BY <1>5, AssignEffect, Nothing
  <2> QED
    BY <1>5, <2>1, AssignEffect, PassKept DEF Typing
<1>6. ASSUME NEW k \in Keys, UpdateDNS(k) PROVE Typing' /\ PassInv'
  BY <1>6, UpdateDNSEffect, PassKept, Nothing DEF Typing
<1>7. ASSUME NEW k \in Keys, DeleteDNS(k) PROVE Typing' /\ PassInv'
  BY <1>7, DeleteDNSEffect, PassKept DEF Typing
<1>8. ASSUME NEW k \in Keys, CallFails(k) PROVE Typing' /\ PassInv'
  BY <1>8, CallFailsEffect, PassKept, Nothing DEF Typing
<1>9. ASSUME NEW id \in Ids, Look(id) PROVE Typing' /\ PassInv'
  BY <1>9, LookEffect DEF Typing, SameWatchers, PassInv
<1>10. ASSUME NEW id \in Ids, Finish(id) PROVE Typing' /\ PassInv'
  BY <1>10, FinishEffect DEF Typing, SameWatchers, PassInv
<1>11. ASSUME Restart, events' \in 0..MaxEvents PROVE Typing' /\ PassInv'
  BY <1>11, RestartEffect, Nothing DEF Typing, PassInv
<1>12. ASSUME NEW id \in Ids, Panic(id) PROVE Typing' /\ PassInv'
  BY <1>11, <1>12 DEF Panic, Typing
<1>13. ASSUME Crash PROVE Typing' /\ PassInv'
  BY <1>11, <1>13, EventEffect DEF Crash
<1>14. ASSUME NEW k \in Keys, NEW t \in Hosts \union {Gone, NoHost}, TargetChanges(k, t)
       PROVE  Typing' /\ PassInv'
  BY <1>14, TargetChangesEffect DEF Typing, PassInv
<1>15. ASSUME NEW h \in Hosts, NEW answer \in Answers, AddressChanges(h, answer)
       PROVE  Typing' /\ PassInv'
  BY <1>15, AddressChangesEffect DEF Typing, PassInv
<1>16. CASE UNCHANGED vars
  BY <1>16 DEF vars, Typing, PassInv
<1> QED
  BY <1>1, <1>2, <1>3, <1>4, <1>5, <1>6, <1>7, <1>8, <1>9, <1>10, <1>12, <1>13, <1>14,
     <1>15, <1>16, Actions

-----------------------------------------------------------------------------
(* One watcher, as long as changes of the slice do not overlap.            *)

\* The slice tells of an object, unless a pass over this one is changing it.
LEMMA Known ==
  ASSUME SliceInv, NEW k \in Keys, ~Writing(k)
  PROVE  \A id \in Of(k) : Running(id) <=> id \in records
BY DEF SliceInv, Of

\* A step of a pass over k concerns no other object.
Frame(k, p) ==
  /\ Moves(k, p) /\ target' = target
  /\ \A j \in Keys \ {k} : j \in queued' <=> j \in queued
  /\ \A id \in Ids : id[1] # k => (Running(id)' <=> Running(id))

LEMMA OthersKept ==
  ASSUME WorkInv, RestInv, NEW k \in Keys, NEW p, Frame(k, p), Work(k)', Left(k)'
  PROVE  WorkInv' /\ RestInv'
<1>1. ASSUME NEW j \in Keys \ {k} PROVE Work(j)' /\ Left(j)'
  <2>1. /\ pass'[j] = pass[j] /\ target'[j] = target[j] /\ (j \in queued' <=> j \in queued)
        /\ Work(j) /\ Left(j)
    BY DEF Frame, Moves, WorkInv, RestInv
  <2>2. \A h \in Hosts : Watches(j, h)' <=> Watches(j, h)
    BY DEF Frame, Watches, Of
  <2>3. Work(j)'
    BY <2>1, <2>2 DEF Work
  <2>4. Left(j)'
    BY <2>1, <2>2 DEF Left, AtRest
  <2> QED
    BY <2>3, <2>4
<1> QED
  BY <1>1 DEF WorkInv, RestInv

\* No change of the slice begins or ends, and the goroutines go on as they did.
LEMMA SliceKept ==
  ASSUME SliceInv, OnceInv, NEW k \in Keys, NEW p, Moves(k, p), records' = records,
         ~Writing(k), p.pc \notin {"add", "remove"},
         \A id \in Ids : Running(id)' <=> Running(id)
  PROVE  SliceInv' /\ OnceInv'
<1>1. \A j \in Keys : (Writing(j)' <=> Writing(j)) /\ (Writing(j) => pass'[j] = pass[j])
  BY DEF Moves, Writing
<1>2. OnceInv'
  BY DEF OnceInv
<1>3. SliceInv'
  BY <1>1 DEF SliceInv
<1> QED
  BY <1>2, <1>3

\* A change of the slice begins when no other is under way.
LEMMA WriteBegins ==
  ASSUME SliceInv, NEW k \in Keys, NEW p, Moves(k, p), records' = records,
         \A j \in Keys : ~Writing(j), p.pc \in {"add", "remove"},
         \A id \in Ids : /\ Running(id)' <=> id \in p.seen
                         /\ id[1] # k => (Running(id)' <=> Running(id))
  PROVE  SliceInv'
<1>1. \A j \in Keys : Writing(j)' <=> j = k
  BY DEF Moves, Writing
<1>2. pass'[k] = p
  BY DEF Moves
<1> QED
  BY <1>1, <1>2 DEF SliceInv

LEMMA BeginKeeps ==
  ASSUME Types, Invs, NEW k \in Keys, Begin(k) PROVE Invs'
<1> USE Typed DEF Types, Invs
<1>1. PICK p \in Passes :
        /\ Moves(k, p) /\ p.host = target[k] /\ p.todo = {}
        /\ p.pc = (IF target[k] = Gone THEN "gone"
                   ELSE IF target[k] = NoHost THEN "list" ELSE "check")
  BY BeginEffect
<1>2. /\ pass[k].pc = "idle" /\ queued' = queued \ {k}
      /\ UNCHANGED <<target, records, watch>>
  BY BeginEffect
<1>3. SliceInv' /\ OnceInv'
  BY <1>1, <1>2, SliceKept DEF Writing, Running
<1>4. pass'[k] = p
  BY <1>1 DEF Moves
<1>5. Work(k)' /\ Left(k)'
  BY <1>1, <1>2, <1>4, Bounds DEF Work, Left, AtRest
<1>6. Frame(k, p)
  BY <1>1, <1>2 DEF Frame, Running
<1> QED
  BY <1>3, <1>5, <1>6, OthersKept

LEMMA CallFailsKeeps ==
  ASSUME Types, Invs, NEW k \in Keys, CallFails(k) PROVE Invs'
<1> USE Typed DEF Types, Invs
<1>1. /\ pass[k].pc \in {"check", "update", "gone"} /\ Moves(k, IdlePass)
      /\ queued' = queued \union {k} /\ UNCHANGED <<target, records, watch>>
  BY CallFailsEffect
<1>2. SliceInv' /\ OnceInv'
  BY <1>1, Nothing, SliceKept DEF Writing, Running
<1>3. pass'[k] = IdlePass
  BY <1>1 DEF Moves
<1>4. Work(k)' /\ Left(k)'
  BY <1>1, <1>3, Nothing DEF Work, Left, AtRest
<1>5. Frame(k, IdlePass)
  BY <1>1 DEF Frame, Running
<1> QED
  BY <1>2, <1>4, <1>5, OthersKept

LEMMA StartWatchingKeeps ==
  ASSUME Types, Invs, NEW k \in Keys, StartWatching(k), ~clashed' PROVE Invs'
<1> USE Typed DEF Types, Invs
<1>1. pass[k].pc = "check" /\ pass[k].host \in Hosts /\ ~Writing(k) /\ pass[k].host # Gone
  BY Bounds DEF StartWatching, PassInv, Writing
<1>2. UNCHANGED <<target, queued, records>>
  BY <1>1, StartWatchingEffect
<1>3. PICK p \in Passes :
        /\ Moves(k, p) /\ p.host = pass[k].host /\ p.todo = pass[k].todo
        /\ \/ /\ Watched(k, pass[k].host) /\ p.pc = "list"
              /\ UNCHANGED <<watch, clashed>>
           \/ /\ ~Watched(k, pass[k].host) /\ p.pc = "add" /\ Overlap
              /\ \E id \in Of(k) :
                   /\ HostOf(id) = pass[k].host /\ Starts(id)
                   /\ p.seen = records \union {id}
  BY <1>1, StartWatchingEffect
<1>4. pass'[k] = p /\ Work(k)
  BY <1>3 DEF Moves, WorkInv
<1>5. CASE Watched(k, pass[k].host) /\ p.pc = "list" /\ UNCHANGED watch
  <2>1. SliceInv' /\ OnceInv'
    BY <1>1, <1>2, <1>3, <1>5, SliceKept DEF Running
  <2>2. Watches(k, p.host)'
    BY <1>1, <1>3, <1>5, Known DEF Watched, Watches, Running, Of
  <2>3. Work(k)' /\ Left(k)'
    BY <1>1, <1>2, <1>3, <1>4, <1>5, <2>2 DEF Work, Left, AtRest
  <2>4. Frame(k, p)
    BY <1>2, <1>3, <1>5 DEF Frame, Running
  <2> QED
    BY <2>1, <2>3, <2>4, OthersKept
<1>6. CASE ~Watched(k, pass[k].host) /\ p.pc = "add" /\ Overlap
  <2>1. PICK id \in Of(k) :
          HostOf(id) = pass[k].host /\ Starts(id) /\ p.seen = records \union {id}
    BY <1>3, <1>6
  <2>2. id \in Ids /\ id[1] = k /\ \A j \in Keys : ~Writing(j)
    BY <1>6, OverlapEffect DEF Of
  <2>3. \A other \in Ids : Running(other)' <=> Running(other) \/ other = id
    BY <2>1, <2>2 DEF Starts, Running
  <2>4. \A other \in Ids : Running(other) <=> other \in records
    BY <2>2 DEF SliceInv
  <2>5. SliceInv'
    BY <1>2, <1>3, <1>6, <2>1, <2>2, <2>3, <2>4, WriteBegins
  <2>6. \A other \in Ids : Running(other) /\ other[1] = k => HostOf(other) # HostOf(id)
    BY <1>6, <2>1, <2>4 DEF Watched, Of
  <2>7. OnceInv'
    BY <2>2, <2>3, <2>6 DEF OnceInv
  <2>8. Watches(k, p.host)'
    BY <1>3, <2>1, <2>2, <2>3 DEF Watches, Of
  <2>9. Work(k)' /\ Left(k)'
    BY <1>1, <1>2, <1>3, <1>4, <1>6, <2>8 DEF Work, Left, AtRest
  <2>10. Frame(k, p)
    BY <1>2, <1>3, <2>2, <2>3 DEF Frame
  <2> QED
    BY <2>5, <2>7, <2>9, <2>10, OthersKept
<1> QED
  BY <1>3, <1>5, <1>6

LEMMA ListKeeps ==
  ASSUME Types, Invs, NEW k \in Keys, ListHostRecordWatchers(k) PROVE Invs'
<1> USE Typed DEF Types, Invs
<1>1. pass[k].pc = "list" /\ ~Writing(k) /\ UNCHANGED <<target, queued, records, watch>>
  BY ListEffect DEF Writing
<1>2. PICK p \in Passes :
        /\ Moves(k, p) /\ p.host = pass[k].host
        /\ p.pc = (IF Others(k) = {} THEN "update" ELSE "stop")
        /\ p.todo = {{h} : h \in Others(k)}
  BY ListEffect
<1>3. SliceInv' /\ OnceInv'
  BY <1>1, <1>2, SliceKept DEF Running
<1>4. pass'[k] = p /\ Work(k)
  BY <1>2 DEF Moves, WorkInv
<1>5. \A h \in Hosts : Watches(k, h)' <=> Watches(k, h)
  BY <1>1 DEF Watches, Running
<1>6. \A h \in Hosts : Watches(k, h) => h = pass[k].host \/ h \in Others(k)
  BY <1>1, Known DEF Watches, Others
<1>7. /\ \A hosts \in p.todo : p.host \notin hosts
      /\ \A h \in Others(k) : \E hosts \in p.todo : h \in hosts
      /\ Others(k) = {} => p.todo = {}
  BY <1>2 DEF Others
<1>8. Work(k)' /\ Left(k)'
  BY <1>1, <1>2, <1>4, <1>5, <1>6, <1>7 DEF Work, Left, AtRest
<1>9. Frame(k, p)
  BY <1>1, <1>2 DEF Frame, Running
<1> QED
  BY <1>3, <1>8, <1>9, OthersKept

LEMMA StopWatchingKeeps ==
  ASSUME Types, Invs, NEW k \in Keys, StopWatching(k), ~clashed' PROVE Invs'
<1> USE Typed DEF Types, Invs
<1>1. PICK p \in Passes, hosts \in pass[k].todo :
        /\ Moves(k, p) /\ p.host = pass[k].host
        /\ p.pc = "remove" /\ p.todo = pass[k].todo \ {hosts}
        /\ p.seen = records \ Stopped(k, hosts)
        /\ \A id \in Ids : Running(id)' <=> Running(id) /\ id \notin Stopped(k, hosts)
  BY StopWatchingEffect
<1>2. pass[k].pc = "stop" /\ UNCHANGED <<target, queued, records>>
  BY StopWatchingEffect
<1>3. \A j \in Keys : ~Writing(j)
  BY StopWatchingEffect, OverlapEffect
<1>4. \A id \in Ids : Running(id) <=> id \in records
  BY <1>3 DEF SliceInv
<1>5. \A id \in Ids : id \in Stopped(k, hosts) <=>
        id \in records /\ id[1] = k /\ HostOf(id) \in hosts
  BY DEF Stopped, Of
<1>6. SliceInv'
  BY <1>1, <1>2, <1>3, <1>4, <1>5, WriteBegins
<1>7. OnceInv'
  BY <1>1 DEF OnceInv
<1>8. \A h \in Hosts : Watches(k, h)' <=> Watches(k, h) /\ h \notin hosts
  BY <1>1, <1>4, <1>5 DEF Watches, Of
<1>9. pass'[k] = p /\ Work(k)
  BY <1>1 DEF Moves, WorkInv
<1>10. Work(k)' /\ Left(k)'
  <2>1. /\ p.host # Gone => p.host \notin hosts
        /\ p.host = Gone => pass[k].todo = {Hosts} /\ hosts = Hosts /\ p.todo = {}
    BY <1>1, <1>2, <1>9 DEF Work
  <2>2. p.host # Gone => \A other \in p.todo : p.host \notin other
    BY <1>1, <1>9 DEF Work
  <2>3. \A h \in Hosts : h = p.host => Watches(k, h)'
    BY <1>1, <1>2, <1>8, <1>9, <2>1, Bounds DEF Work
  <2>4. p.host # Gone =>
          \A h \in Hosts : Watches(k, h)' => h = p.host \/ \E other \in p.todo : h \in other
    BY <1>1, <1>2, <1>8, <1>9 DEF Work
  <2>5. p.pc # "idle" /\ k \notin queued' => p.host = target'[k]
    BY <1>1, <1>2, <1>9 DEF Work
  <2> QED
    BY <1>1, <1>8, <1>9, <2>1, <2>2, <2>3, <2>4, <2>5 DEF Work, Left, AtRest
<1>11. Frame(k, p)
  BY <1>1, <1>2, <1>5 DEF Frame
<1> QED
  BY <1>6, <1>7, <1>10, <1>11, OthersKept

LEMMA AssignKeeps ==
  ASSUME Types, Invs, NEW k \in Keys, Assign(k) PROVE Invs'
<1> USE Typed DEF Types, Invs
<1>1. PICK p \in Passes :
        /\ Moves(k, p)
        /\ pass[k].host = Gone => p = IdlePass
        /\ pass[k].host # Gone =>
             /\ p.host = pass[k].host /\ p.todo = pass[k].todo
             /\ p.pc = (IF pass[k].pc = "add" THEN "list"
                        ELSE IF pass[k].todo # {} THEN "stop" ELSE "update")
  BY AssignEffect
<1>2. Writing(k) /\ records' = pass[k].seen /\ UNCHANGED <<target, queued, watch>>
  BY AssignEffect
<1>3. pass'[k] = p /\ Work(k) /\ p.pc \notin {"add", "remove"}
  BY <1>1, Nothing DEF Moves, WorkInv
<1>4. \A id \in Ids : Running(id)' <=> Running(id)
  BY <1>2 DEF Running
<1>5. \A j \in Keys : ~Writing(j)'
  BY <1>1, <1>2, <1>3 DEF SliceInv, Writing, Moves
<1>6. SliceInv'
  BY <1>2, <1>4, <1>5 DEF SliceInv
<1>7. OnceInv'
  BY <1>4 DEF OnceInv
<1>8. \A h \in Hosts : Watches(k, h)' <=> Watches(k, h)
  BY <1>4 DEF Watches, Of
<1>9. ASSUME pass[k].host = Gone PROVE Work(k)' /\ Left(k)'
  <2>1. pass[k].pc = "remove" /\ \A h \in Hosts : ~Watches(k, h) /\ h # Gone
    BY <1>2, <1>3, <1>9, Bounds DEF Writing, Work
  <2>2. Work(k)'
    BY <1>1, <1>3, <1>9, Nothing DEF Work
  <2>3. Left(k)'
    BY <1>2, <1>3, <1>8, <1>9, <2>1 DEF Work, Left, AtRest
  <2> QED
    BY <2>2, <2>3
<1>10. ASSUME pass[k].host # Gone PROVE Work(k)' /\ Left(k)'
  BY <1>1, <1>2, <1>3, <1>8, <1>10 DEF Work, Left, AtRest, Writing
<1>11. Frame(k, p)
  BY <1>1, <1>2, <1>4 DEF Frame
<1>12. Work(k)' /\ Left(k)' => WorkInv' /\ RestInv'
  BY <1>11, OthersKept
<1> QED
  BY <1>6, <1>7, <1>9, <1>10, <1>12

LEMMA UpdateDNSKeeps ==
  ASSUME Types, Invs, NEW k \in Keys, UpdateDNS(k) PROVE Invs'
<1> USE Typed DEF Types, Invs
<1>1. /\ pass[k].pc = "update" /\ Moves(k, IdlePass)
      /\ UNCHANGED <<target, queued, records, watch>>
  BY UpdateDNSEffect
<1>2. SliceInv' /\ OnceInv'
  BY <1>1, Nothing, SliceKept DEF Writing, Running
<1>3. pass'[k] = IdlePass /\ Work(k)
  BY <1>1 DEF Moves, WorkInv
<1>4. \A h \in Hosts : Watches(k, h)' <=> Watches(k, h)
  BY <1>1 DEF Watches, Running
<1>5. Work(k)'
  BY <1>3, Nothing DEF Work
<1>6. \A h \in Hosts : Watches(k, h) <=> h = pass[k].host
  BY <1>1, <1>3 DEF Work
<1>7. Left(k)'
  BY <1>1, <1>3, <1>4, <1>6 DEF Work, Left, AtRest
<1>8. Frame(k, IdlePass)
  BY <1>1 DEF Frame, Running
<1> QED
  BY <1>2, <1>5, <1>7, <1>8, OthersKept

LEMMA DeleteDNSKeeps ==
  ASSUME Types, Invs, NEW k \in Keys, DeleteDNS(k) PROVE Invs'
<1> USE Typed DEF Types, Invs
<1>1. pass[k].pc = "gone" /\ UNCHANGED <<target, queued, records, watch>>
  BY DeleteDNSEffect
<1>2. PICK p \in Passes : /\ Moves(k, p) /\ p.host = pass[k].host
                          /\ p.pc = "stop" /\ p.todo = {Hosts}
  BY DeleteDNSEffect
<1>3. SliceInv' /\ OnceInv'
  BY <1>1, <1>2, SliceKept DEF Writing, Running
<1>4. pass'[k] = p /\ Work(k)
  BY <1>2 DEF Moves, WorkInv
<1>5. Work(k)' /\ Left(k)'
  BY <1>1, <1>2, <1>4, Bounds DEF Work, Left, AtRest
<1>6. Frame(k, p)
  BY <1>1, <1>2 DEF Frame, Running
<1> QED
  BY <1>3, <1>5, <1>6, OthersKept

\* Steps of watchers and of the environment: they may queue objects, and an object that
\* changes is queued.
LEMMA QuietKeeps ==
  ASSUME Invs, \A id \in Ids : Running(id)' <=> Running(id),
         UNCHANGED <<pass, records>>, queued \subseteq queued',
         \A k \in Keys : k \notin queued' => target'[k] = target[k]
  PROVE  Invs'
<1> USE DEF Invs
<1>1. SliceInv' /\ OnceInv'
  BY DEF SliceInv, OnceInv, Writing
<1>2. ASSUME NEW k \in Keys PROVE Work(k)' /\ Left(k)'
  <2>1. Work(k) /\ Left(k)
    BY DEF WorkInv, RestInv
  <2>2. \A h \in Hosts : Watches(k, h)' <=> Watches(k, h)
    BY DEF Watches, Of
  <2> QED
    BY <2>1, <2>2 DEF Work, Left, AtRest
<1> QED
  BY <1>1, <1>2 DEF WorkInv, RestInv

LEMMA RestartKeeps == ASSUME Typing, Restart PROVE Invs'
<1>1. /\ \A k \in Keys : pass'[k] = IdlePass
      /\ records' = {} /\ queued' = Keys /\ \A id \in Ids : ~Running(id)'
  BY RestartEffect
<1>2. SliceInv' /\ OnceInv'
  BY <1>1, Nothing DEF SliceInv, OnceInv, Writing
<1>3. WorkInv' /\ RestInv'
  BY <1>1, Nothing DEF WorkInv, RestInv, Work, Left, AtRest
<1> QED
  BY <1>2, <1>3 DEF Invs

LEMMA InvsInit == ASSUME Init PROVE Invs
<1>1. /\ \A k \in Keys : pass[k] = IdlePass
      /\ records = {} /\ queued = Keys /\ \A id \in Ids : ~Running(id)
  BY Nothing DEF Init, Running
<1>2. SliceInv /\ OnceInv
  BY <1>1, Nothing DEF SliceInv, OnceInv, Writing
<1>3. WorkInv /\ RestInv
  BY <1>1, Nothing DEF WorkInv, RestInv, Work, Left, AtRest
<1> QED
  BY <1>2, <1>3 DEF Invs

LEMMA InvsNext == ASSUME IInv, [Next]_vars, ~clashed' PROVE Invs'
<1>0. Types /\ Typing /\ (~clashed => Invs)
  BY Typed DEF IInv, Types
<1>1. ASSUME NEW k \in Keys, Begin(k) PROVE Invs'
  BY <1>0, <1>1, BeginEffect, BeginKeeps
<1>2. ASSUME NEW k \in Keys, StartWatching(k) PROVE Invs'
  <2>1. pass[k].host \in Hosts
    BY <1>0, <1>2 DEF StartWatching, PassInv, Types
  <2>2. ~clashed
    BY <1>0, <1>2, <2>1, StartWatchingEffect, OverlapEffect
  <2> QED
    BY <1>0, <1>2, <2>2, StartWatchingKeeps
<1>3. ASSUME NEW k \in Keys, ListHostRecordWatchers(k) PROVE Invs'
  BY <1>0, <1>3, ListEffect, ListKeeps
<1>4. ASSUME NEW k \in Keys, StopWatching(k) PROVE Invs'
  BY <1>0, <1>4, StopWatchingEffect, OverlapEffect, StopWatchingKeeps
<1>5. ASSUME NEW k \in Keys, Assign(k) PROVE Invs'
  BY <1>0, <1>5, AssignEffect, AssignKeeps
<1>6. ASSUME NEW k \in Keys, UpdateDNS(k) PROVE Invs'
  BY <1>0, <1>6, UpdateDNSEffect, UpdateDNSKeeps
<1>7. ASSUME NEW k \in Keys, DeleteDNS(k) PROVE Invs'
  BY <1>0, <1>7, DeleteDNSEffect, DeleteDNSKeeps
<1>8. ASSUME NEW k \in Keys, CallFails(k) PROVE Invs'
  BY <1>0, <1>8, CallFailsEffect, CallFailsKeeps
<1>9. ASSUME NEW id \in Ids, Look(id) PROVE Invs'
  BY <1>0, <1>9, LookEffect, QuietKeeps DEF SameWatchers
<1>10. ASSUME NEW id \in Ids, Finish(id) PROVE Invs'
  BY <1>0, <1>10, FinishEffect, QuietKeeps DEF SameWatchers
<1>11. ASSUME NEW id \in Ids, Panic(id) PROVE Invs'
  BY <1>0, <1>11, RestartKeeps DEF Panic
<1>12. ASSUME Crash PROVE Invs'
  BY <1>0, <1>12, RestartKeeps DEF Crash
<1>13. ASSUME NEW k \in Keys, NEW t \in Hosts \union {Gone, NoHost}, TargetChanges(k, t)
       PROVE  Invs'
  <2>1. \A id \in Ids : Running(id)' <=> Running(id)
    BY <1>0, <1>13, TargetChangesEffect DEF Running
  <2>2. /\ ~clashed /\ UNCHANGED <<pass, records>> /\ queued \subseteq queued'
        /\ \A j \in Keys : j \notin queued' => target'[j] = target[j]
    BY <1>0, <1>13, TargetChangesEffect
  <2> QED
    BY <1>0, <2>1, <2>2, QuietKeeps
<1>14. ASSUME NEW h \in Hosts, NEW answer \in Answers, AddressChanges(h, answer)
       PROVE  Invs'
  BY <1>0, <1>14, AddressChangesEffect, QuietKeeps DEF Running
<1>15. CASE UNCHANGED vars
  BY <1>0, <1>15, QuietKeeps DEF vars, Running
<1> QED
  BY <1>1, <1>2, <1>3, <1>4, <1>5, <1>6, <1>7, <1>8, <1>9, <1>10, <1>11, <1>12, <1>13,
     <1>14, <1>15, Actions

LEMMA Invariance == Spec => []IInv
<1>1. Init => IInv
  BY TypesInit, InvsInit DEF IInv
<1>2. IInv /\ [Next]_vars => IInv'
  BY TypesNext, InvsNext DEF IInv
<1> QED
  BY <1>1, <1>2, PTL DEF Spec

-----------------------------------------------------------------------------
(* The theorems.                                                           *)

\* The passes, the slice and the goroutines keep their types.
THEOREM TypeCorrect == Spec => []TypeOK
<1>1. IInv => TypeOK
  BY DEF IInv, Types
<1> QED
  BY <1>1, Invariance, PTL

LEMMA OneWatcherHolds == ASSUME IInv PROVE OneWatcher
<1> SUFFICES ASSUME NEW k \in Keys, ~clashed, AtRest(k)
             PROVE  LET running == {id \in Of(k) : Running(id)}
                    IN  /\ running \subseteq records
                        /\ {HostOf(id) : id \in running} = {target[k]} \ {Gone, NoHost}
                        /\ \A id, other \in running : id = other
  BY DEF OneWatcher
<1> DEFINE running == {id \in Of(k) : Running(id)}
<1>1. Invs /\ Typing
  BY Typed DEF IInv, Types
<1>2. running \subseteq records
  BY <1>1, Known DEF AtRest, Writing, Invs
<1>3. \A h \in Hosts : Watches(k, h) <=> h = target[k]
  BY <1>1 DEF Invs, RestInv, Left
<1>4. \A h : (\E id \in running : HostOf(id) = h) <=> (h \in Hosts /\ h = target[k])
  BY <1>3, Numbers DEF Watches, Of
<1>5. \A h : h \in Hosts /\ h = target[k] <=> h \in {target[k]} \ {Gone, NoHost}
  BY <1>1, Bounds DEF Typing
<1>6. {HostOf(id) : id \in running} = {target[k]} \ {Gone, NoHost}
  <2> HIDE DEF running
  <2> QED
    BY <1>4, <1>5
<1>7. \A id, other \in running : id = other
  <2> SUFFICES ASSUME NEW id \in running, NEW other \in running PROVE id = other
    OBVIOUS
  <2>1. HostOf(id) = HostOf(other)
    BY <1>4
  <2>2. id \in Ids /\ other \in Ids /\ id[1] = k /\ other[1] = k /\ Running(id) /\ Running(other)
    BY DEF Of
  <2> QED
    BY <1>1, <2>1, <2>2 DEF Invs, OnceInv
<1> QED
  BY <1>2, <1>6, <1>7

\* For any number of objects, of passes over them at the same time and of events: as long
\* as no two changes of the slice have overlapped, an object that no pass runs over or
\* will run over has its target, and no other host, watched by one goroutine, which the
\* slice names (host_watcher.go:41-81).  Overlaps are all that can break it.
THEOREM WatchedOnce == Spec => []OneWatcher
BY OneWatcherHolds, Invariance, PTL

\* What the comment at host_watcher.go:70 says of StopWatching fails by overlaps only:
\* before the first one since the process started, nothing is watched for an object
\* that is gone, however its deletion was interrupted.
THEOREM StoppedUnlessClashed == Spec => [](~clashed => StoppedForGood)
<1>1. IInv => (~clashed => StoppedForGood)
  <2> SUFFICES ASSUME OneWatcher, ~clashed, NEW k \in Keys, AtRest(k), target[k] = Gone,
                      NEW id \in Of(k)
               PROVE  ~Running(id)
    BY OneWatcherHolds DEF StoppedForGood
  <2> DEFINE running == {w \in Of(k) : Running(w)}
  <2>1. {HostOf(w) : w \in running} = {target[k]} \ {Gone, NoHost}
    BY Zenon DEF OneWatcher
  <2>2. {HostOf(w) : w \in running} = {}
    BY <2>1
  <2> QED
    BY <2>2
<1> QED
  BY <1>1, Invariance, PTL

=============================================================================
