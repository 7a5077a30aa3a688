------------------------------- MODULE HostsWatcher -------------------------------
(***************************************************************************)
(* The hosts watcher (pkg/dns/host_watcher.go) and the passes that use it. *)
(*                                                                         *)
(* A traffic object with a cluster's host among its targets has the host   *)
(* watched: a goroutine looks it up again and again and queues the object  *)
(* when the addresses are others.  The passes (pkg/traffic/dns.go) start   *)
(* and stop the watchers through one slice, which the workers of a         *)
(* controller share without a lock: an addition and a removal are a read   *)
(* of the slice and, later, a write.  (That a read may also see half of a  *)
(* write is left out: what is read here was there at one moment.)          *)
(*                                                                         *)
(* Passes over different objects run at the same time, one for each        *)
(* worker; which worker has which object makes no difference.  An object   *)
(* has one target host at a time.  Order and TTL of the addresses, and the *)
(* time a watcher sleeps, are left out.                                    *)
(***************************************************************************)
EXTENDS Naturals

CONSTANTS
  Keys,        \* the traffic objects
  Hosts,       \* the hosts of clusters
  First,       \* the one that is the target of all objects at first
  Moved,       \* addresses that a host may get instead of its first
  Gone, NoHost,  \* an object that is deleted, one without a target
  Moving,      \* bound: the objects whose target changes
  MaxWatchers, \* bound: goroutines at a time for one host of an object
  MaxEvents    \* bound: times the target of an object or an address changes, a call
               \* fails or the process restarts

ASSUME HostsWatcherAssumption ==
  /\ First \in Hosts /\ {Gone, NoHost} \intersect Hosts = {} /\ Gone # NoHost
  /\ MaxWatchers \in Nat /\ MaxEvents \in Nat

VARIABLES
  target,     \* the host in the status of each object
  addr,       \* what a look-up of each host answers: one address, or none
  endpoints,  \* the addresses in the DNSRecord of each object
  queued,     \* keys waiting in the work queue
  pass,       \* the running pass over each object
  records,    \* HostsWatcher.Records: the watchers it knows
  watch,      \* the goroutines
  clashed,    \* two changes of the slice have overlapped since the process started (history)
  events      \* those that happened

vars == <<target, addr, endpoints, queued, pass, records, watch, clashed, events>>

\* host: the target; got: its addresses; todo: calls of StopWatching to make, each with
\* the hosts it is for; seen: the slice about to be written.
IdlePass == [pc |-> "idle", host |-> NoHost, got |-> {}, todo |-> {}, seen |-> {}]

\* A goroutine watches a host for an object; a later one for the same may run beside it.
Ids == Keys \X Hosts \X (1..MaxWatchers)
Of(k) == {id \in Ids : id[1] = k}
HostOf(id) == id[2]

\* known: RecordWatcher.records.
NoWatcher == [is |-> "none", known |-> {}]
NewWatcher == [is |-> "running", known |-> {}]

Running(id) == watch[id].is = "running"

\* A change of the slice is not written yet: StartWatching's or StopWatching's.
Writing(k) == pass[k].pc \in {"add", "remove"}

\* The number of a goroutine that no slice names.
Free(id) ==
  watch[id] = NoWatcher /\ id \notin records /\ \A k \in Keys : id \notin pass[k].seen

Event == events < MaxEvents /\ events' = events + 1

-----------------------------------------------------------------------------
(* A pass over one object.                                                 *)

Goto(k, pc) == pass' = [pass EXCEPT ![k].pc = pc]

\* The target is looked up.
Begin(k) ==
  /\ k \in queued /\ pass[k].pc = "idle"
  /\ queued' = queued \ {k}
  /\ pass' = [pass EXCEPT ![k] = [IdlePass EXCEPT
                !.pc = CASE target[k] = Gone -> "gone"
                         [] target[k] = NoHost -> "list"
                         [] OTHER -> "check",
                !.host = target[k],
                !.got = IF target[k] \in Hosts THEN addr[target[k]] ELSE {}]]
  /\ UNCHANGED <<target, addr, endpoints, records, watch, clashed, events>>

\* The look-up, the save of the DNSRecord, or what is to be deleted: the key comes back.
\* What fails in a pass after the steps here only repeats it, and is left out.
CallFails(k) ==
  /\ pass[k].pc \in {"check", "update", "gone"}
  /\ Event
  /\ pass' = [pass EXCEPT ![k] = IdlePass]
  /\ queued' = queued \union {k}
  /\ UNCHANGED <<target, addr, endpoints, records, watch, clashed>>

\* A slip: a host that another object has watched is not watched for this one.
WatchedForAny(k, h) == \E id \in records : HostOf(id) = h

Watched(k, h) == \E id \in records \intersect Of(k) : HostOf(id) = h

\* A change of the slice begins while another one is not written yet.
Overlap == clashed' = (clashed \/ \E k \in Keys : Writing(k))

StartWatching(k) ==
  /\ pass[k].pc = "check"
  /\ IF Watched(k, pass[k].host)
     THEN Goto(k, "list") /\ UNCHANGED <<watch, clashed>>
     ELSE \E n \in 1..MaxWatchers :
            LET id == <<k, pass[k].host, n>>
            IN  /\ Free(id) /\ \A m \in 1..(n - 1) : ~Free(<<k, pass[k].host, m>>)
                /\ watch' = [watch EXCEPT ![id] = NewWatcher]
                /\ pass' = [pass EXCEPT ![k].pc = "add", ![k].seen = records \union {id}]
                /\ Overlap
  /\ UNCHANGED <<target, addr, endpoints, queued, records, events>>

\* The watchers of the object that are not for its target are to be stopped.
ListHostRecordWatchers(k) ==
  LET others == {HostOf(id) : id \in records \intersect Of(k)} \ {pass[k].host}
  IN  /\ pass[k].pc = "list"
      /\ pass' = [pass EXCEPT ![k].pc = IF others = {} THEN "update" ELSE "stop",
                              ![k].todo = {{h} : h \in others}]
      /\ UNCHANGED <<target, addr, endpoints, queued, records, watch, clashed, events>>

Stopped(k, hosts) == {id \in records \intersect Of(k) : HostOf(id) \in hosts}

StopWatching(k) ==
  /\ pass[k].pc = "stop"
  /\ \E hosts \in pass[k].todo :
       LET stopped == Stopped(k, hosts)
       IN  /\ watch' = [id \in Ids |-> IF id \in stopped /\ Running(id)
                                       THEN [watch[id] EXCEPT !.is = "stopped"] ELSE watch[id]]
           /\ pass' = [pass EXCEPT ![k].pc = "remove", ![k].todo = @ \ {hosts},
                                   ![k].seen = records \ stopped]
  /\ Overlap
  /\ UNCHANGED <<target, addr, endpoints, queued, records, events>>

\* So ends the pass over a deleted object.
AfterAssign(p) ==
  IF p.host = Gone THEN IdlePass
  ELSE [p EXCEPT !.pc = CASE p.pc = "add" -> "list"
                          [] p.pc = "remove" /\ p.todo # {} -> "stop"
                          [] p.pc = "remove" /\ p.todo = {} -> "update",
                 !.seen = {}]

\* The slice that was made from an earlier one takes its place.
Assign(k) ==
  /\ Writing(k)
  /\ records' = pass[k].seen
  /\ pass' = [pass EXCEPT ![k] = AfterAssign(@)]
  /\ UNCHANGED <<target, addr, endpoints, queued, watch, clashed, events>>

UpdateDNS(k) ==
  /\ pass[k].pc = "update"
  /\ endpoints' = [endpoints EXCEPT ![k] = pass[k].got]
  /\ pass' = [pass EXCEPT ![k] = IdlePass]
  /\ UNCHANGED <<target, addr, queued, records, watch, clashed, events>>

\* Of a deleted object all watchers are stopped, once everything else is deleted.
DeleteDNS(k) ==
  /\ pass[k].pc = "gone"
  /\ endpoints' = [endpoints EXCEPT ![k] = {}]
  /\ pass' = [pass EXCEPT ![k].pc = "stop", ![k].todo = {Hosts}]
  /\ UNCHANGED <<target, addr, queued, records, watch, clashed, events>>

-----------------------------------------------------------------------------
(* A watcher.  It sleeps after each look-up; one that fails only delays    *)
(* the next.                                                               *)

\* A slip: addresses are added to those known.
LearnMore(known, new) == known \union new

Learn(known, new) == new

\* A slip: only the number of addresses is compared.
CountChanged(known, new) == (known = {}) # (new = {})

Changed(known, new) == known # new

\* A watcher that is stopped during a look-up still tells of what it found.
Look(id) ==
  LET w == watch[id]
      found == addr[HostOf(id)]
  IN  /\ w.is # "none" /\ found # {}
      /\ watch' = [watch EXCEPT ![id] = IF w.is = "stopped" THEN NoWatcher
                                        ELSE [w EXCEPT !.known = Learn(@, found)]]
      /\ queued' = IF Changed(w.known, found) THEN queued \union {id[1]} ELSE queued
      /\ UNCHANGED <<target, addr, endpoints, pass, records, clashed, events>>

\* One that is stopped while it sleeps ends.
Finish(id) ==
  /\ watch[id].is = "stopped"
  /\ watch' = [watch EXCEPT ![id] = NoWatcher]
  /\ UNCHANGED <<target, addr, endpoints, queued, pass, records, clashed, events>>

\* The process restarts, and all objects there are are queued.
Restart ==
  /\ pass' = [k \in Keys |-> IdlePass]
  /\ records' = {}
  /\ watch' = [id \in Ids |-> NoWatcher]
  /\ clashed' = FALSE
  /\ queued' = Keys
  /\ UNCHANGED <<target, addr, endpoints>>

\* An answer without an address: its first element is read all the same.
Panic(id) ==
  /\ watch[id].is # "none" /\ addr[HostOf(id)] = {}
  /\ Restart
  /\ UNCHANGED events

Crash ==
  /\ Event
  /\ Restart

-----------------------------------------------------------------------------
(* The clusters, the user and the name servers.                            *)

\* A change of the object queues its key.
TargetChanges(k, t) ==
  /\ k \in Moving
  /\ Event
  /\ target[k] \notin {t, Gone}
  /\ target' = [target EXCEPT ![k] = t]
  /\ queued' = queued \union {k}
  /\ UNCHANGED <<addr, endpoints, pass, records, watch, clashed>>

AddressChanges(h, answer) ==
  /\ Event
  /\ answer \in {{}} \union {{a} : a \in Moved} /\ answer # addr[h]
  /\ addr' = [addr EXCEPT ![h] = answer]
  /\ UNCHANGED <<target, endpoints, queued, pass, records, watch, clashed>>

\* A host stands for its first address, too.
Answers == {{}} \union {{a} : a \in Hosts \union Moved}

-----------------------------------------------------------------------------
Init ==
  /\ target = [k \in Keys |-> First]
  /\ addr = [h \in Hosts |-> {h}]
  /\ endpoints = [k \in Keys |-> {}]
  /\ queued = Keys
  /\ pass = [k \in Keys |-> IdlePass]
  /\ records = {}
  /\ watch = [id \in Ids |-> NoWatcher]
  /\ clashed = FALSE
  /\ events = 0

Step(k) ==
  \/ Begin(k) \/ StartWatching(k) \/ ListHostRecordWatchers(k)
  \/ StopWatching(k) \/ Assign(k) \/ UpdateDNS(k) \/ DeleteDNS(k)

WatcherStep(id) == Look(id) \/ Finish(id) \/ Panic(id)

Next ==
  \/ \E k \in Keys : Step(k) \/ CallFails(k)
  \/ \E id \in Ids : WatcherStep(id)
  \/ Crash
  \/ \E k \in Keys, t \in Hosts \union {Gone, NoHost} : TargetChanges(k, t)
  \/ \E h \in Hosts, answer \in Answers : AddressChanges(h, answer)

\* Workers and watchers are goroutines that always go on, and the queue is first in,
\* first out.
Fairness ==
  /\ \A k \in Keys : WF_vars(Step(k))
  /\ \A id \in Ids : WF_vars(WatcherStep(id))

Spec == Init /\ [][Next]_vars /\ Fairness

-----------------------------------------------------------------------------
(* Properties.                                                             *)

\* The type invariant of the passes, the slice and the goroutines.
TypeOK ==
  /\ target \in [Keys -> Hosts \union {Gone, NoHost}]
  /\ addr \in [Hosts -> Answers] /\ endpoints \in [Keys -> Answers]
  /\ queued \subseteq Keys
  /\ pass \in [Keys ->
       [pc : {"idle", "check", "add", "list", "stop", "remove", "update", "gone"},
        host : Hosts \union {Gone, NoHost}, got : Answers,
        todo : SUBSET ({Hosts} \union {{h} : h \in Hosts}), seen : SUBSET Ids]]
  /\ records \subseteq Ids
  /\ watch \in [Ids -> [is : {"none", "running", "stopped"}, known : Answers]]
  /\ clashed \in BOOLEAN
  /\ events \in 0..MaxEvents

\* The last pass over the object is over, and no other is to come.
AtRest(k) == k \notin queued /\ pass[k].pc = "idle"

\* As long as no two changes of the slice overlapped, an object at rest has its target,
\* and nothing else, watched, by one goroutine that StopWatching will find: through moves,
\* calls that fail, passes that are repeated, and other passes between the steps of one
\* (host_watcher.go:41-81, dns.go:115-134).
OneWatcher ==
  \A k \in Keys : ~clashed /\ AtRest(k) =>
    LET running == {id \in Of(k) : Running(id)}
    IN  /\ running \subseteq records
        /\ {HostOf(id) : id \in running} = {target[k]} \ {Gone, NoHost}
        /\ \A id, other \in running : id = other

\* As long as look-ups find addresses, the DNSRecord follows those of the target without
\* an event of the object, also if they change while the pass goes on with those it found
\* (host_watcher.go:102-161).  An answer without one for any host watched stops the
\* process, again and again.  And after an overlap nothing is promised: the slice may name
\* a goroutine that is stopped, and StartWatching starts no other then.
EndpointsFollow ==
  \A k \in Keys :
    []<>(target[k] \in Hosts /\ (\A h \in Hosts : addr[h] # {}) /\ ~clashed =>
           endpoints[k] = addr[target[k]])

\* "StopWatching stops tracking changes in the addresses associated to obj"
\* (host_watcher.go:70), also when another worker changes the slice meanwhile.
StoppedForGood ==
  \A k \in Keys : AtRest(k) /\ target[k] = Gone => \A id \in Of(k) : ~Running(id)

=============================================================================
