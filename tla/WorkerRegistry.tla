--------------------------- MODULE WorkerRegistry ---------------------------
(***************************************************************************)
(* How the workers find each other through etcd                            *)
(* (AbstractSyncShardingEtcdProxy and EtcdProxy): a worker that starts     *)
(* registers its address under a lease, reads the addresses of the others  *)
(* and then watches them; a worker whose key disappears is removed from    *)
(* the views of those that watch, which also clear its process keys.  The  *)
(* views decide, through the ring, who synchronises which service.         *)
(*                                                                         *)
(* Spring finishes registerWorker() and initData() before it starts the    *)
(* timers and the web server; the watch is started by another thread, at   *)
(* any later time.                                                         *)
(***************************************************************************)
EXTENDS Integers, Sequences, FiniteSets, ConsistentHash

CONSTANTS
    Nodes,          \* workers, numbered in the order of their addresses
    Services,       \* names of the services of running tasks
    Points,         \* the replicas of each node on the ring
    Position,       \* [Services -> hash on the ring]
    Configured,     \* sync.worker.address
    StartsWith,     \* per worker: those whose address starts with its own
    MaxStarts,      \* bound: starts of each worker
    MaxFailures,    \* bound: calls to etcd that fail
    MaxLost         \* bound: leases lost by running workers

ASSUME RegistryAssumption ==
    /\ Configured \subseteq Nodes /\ Configured # {}
    /\ \A n \in Nodes : n \in StartsWith[n]
    /\ {MaxStarts, MaxFailures, MaxLost} \subseteq Nat

(* The positions on the ring are ints, of which there is a first; Nodes    *)
(* and Points are finite.                                                  *)
ASSUME RingAssumption ==
    /\ Nodes \subseteq Nat
    /\ \E last \in Nodes : \A n \in Nodes : n <= last
    /\ \A n \in Nodes : Points[n] \subseteq Int /\ Points[n] # {}
    /\ \E n \in Nodes : \E lowest \in Points[n] :
          \A m \in Nodes : \A p \in Points[m] : lowest <= p
    /\ \A s \in Services : Position[s] \in Int

VARIABLES
    workers,        \* etcd: the key REGISTER_WORKER_PATH/<node>
    switch,         \* etcd: REGISTER_SWITCH
    processing,     \* etcd: PER_WORKER_PROCESS_SERVICE/<node>/<service>
    phase,          \* per worker: how far it has started
    nodeCaches,     \* per worker: the workers it sees
    watch,          \* per worker: the watch of REGISTER_WORKER_PATH
    events,         \* per worker: watch events not yet handled
    clearing,       \* per worker: the lost workers whose keys it deletes
    running,        \* per worker: services it synchronises and has marked
    unseen,         \* history: keys that changed between the read of a
                    \* worker and the start of its watch
    dropped,        \* history: workers whose key etcd has dropped
    budget          \* what is left of each bound

etcd == <<workers, switch, processing>>
watcher == <<nodeCaches, watch, events, clearing>>
history == <<unseen, dropped>>
vars == <<etcd, phase, watcher, running, history, budget>>

----------------------------------------------------------------------------
Event == [type : {"PUT", "DELETE"}, node : Nodes]

Budget == [starts : [Nodes -> 0..MaxStarts], failures : 0..MaxFailures,
           lost : 0..MaxLost]

TypeOK ==
    /\ workers \in [Nodes -> {"absent", "renewed", "abandoned"}]
    /\ switch \in {"absent", "on", "off"}
    /\ processing \in [Nodes -> SUBSET Services]
    /\ phase \in [Nodes -> {"down", "switch", "write", "register", "read", "up"}]
    /\ nodeCaches \in [Nodes -> SUBSET Nodes]
    /\ watch \in [Nodes -> {"off", "scheduled", "on"}]
    /\ events \in [Nodes -> Seq(Event)]
    /\ clearing \in [Nodes -> SUBSET Nodes]
    /\ running \in [Nodes -> SUBSET Services]
    /\ unseen \in [Nodes -> SUBSET Nodes]
    /\ dropped \subseteq Nodes
    /\ budget \in Budget

Init ==
    /\ workers = [n \in Nodes |-> "absent"]
    /\ switch = "absent"
    /\ processing = [n \in Nodes |-> {}]
    /\ phase = [n \in Nodes |-> "down"]
    /\ nodeCaches = [n \in Nodes |-> {}]
    /\ watch = [n \in Nodes |-> "off"]
    /\ events = [n \in Nodes |-> <<>>]
    /\ clearing = [n \in Nodes |-> {}]
    /\ running = [n \in Nodes |-> {}]
    /\ unseen = [n \in Nodes |-> {}]
    /\ dropped = {}
    /\ budget = [starts |-> [n \in Nodes |-> MaxStarts], failures |-> MaxFailures,
                 lost |-> MaxLost]

----------------------------------------------------------------------------
Registered == {n \in Nodes : workers[n] # "absent"}

(* consistentHashWrapper(): an empty view is replaced by the configuration. *)
View(n) == IF nodeCaches[n] = {} THEN Configured ELSE nodeCaches[n]

IsProcessNode(n, service) == GetNode(Points, View(n), Position[service]) = n

Up(n) == phase[n] = "up"

Spends(what) == /\ budget[what] > 0
                /\ budget' = [budget EXCEPT ![what] = @ - 1]

Reaches(n, step) == phase' = [phase EXCEPT ![n] = step]

(* etcd changes a worker key and tells those that watch.  A worker whose   *)
(* watch has not begun will never hear of it.                              *)
Announce(type, m) ==
    /\ events' = [n \in Nodes |->
          IF watch[n] = "on" THEN Append(events[n], [type |-> type, node |-> m])
                             ELSE events[n]]
    /\ unseen' = [n \in Nodes |->
          IF watch[n] = "scheduled" THEN unseen[n] \cup {m} ELSE unseen[n]]

----------------------------------------------------------------------------
(* registerWorker().  It means to clear the process keys its address left  *)
(* behind, but looks for a key that ends with the address: all process     *)
(* keys go on with a service, so the branch is never taken.                *)
Start(n) ==
    /\ phase[n] = "down"
    /\ budget.starts[n] > 0
    /\ budget' = [budget EXCEPT !.starts[n] = @ - 1]
    /\ Reaches(n, "switch")
    /\ UNCHANGED <<etcd, watcher, running, history>>

CheckSwitch(n) ==
    /\ phase[n] = "switch"
    /\ Reaches(n, IF switch = "absent" THEN "write" ELSE "register")
    /\ UNCHANGED <<etcd, watcher, running, history, budget>>

WriteSwitch(n) ==
    /\ phase[n] = "write"
    /\ switch' = "off"
    /\ Reaches(n, "register")
    /\ UNCHANGED <<workers, processing, watcher, running, history, budget>>

(* The key is put under a new lease, which the worker's beats will renew;  *)
(* a key left by an earlier process of the same address is taken over.     *)
Register(n) ==
    /\ phase[n] = "register"
    /\ workers' = [workers EXCEPT ![n] = "renewed"]
    /\ Announce("PUT", n)
    /\ Reaches(n, "read")
    /\ UNCHANGED <<switch, processing, nodeCaches, watch, clearing, running,
                   budget, dropped>>

(* initData(), after which the watch is scheduled on another thread.       *)
InitData(n) ==
    /\ phase[n] = "read"
    /\ nodeCaches' = [nodeCaches EXCEPT ![n] = Registered]
    /\ watch' = [watch EXCEPT ![n] = "scheduled"]
    /\ Reaches(n, "up")
    /\ UNCHANGED <<etcd, events, clearing, running, history, budget>>

(* Any exception of the above is logged, and the worker goes on without a  *)
(* view and without a watch.                                               *)
StartFails(n) ==
    /\ phase[n] \in {"switch", "write", "register", "read"}
    /\ Spends("failures")
    /\ unseen' = [unseen EXCEPT ![n] = Nodes]
    /\ Reaches(n, "up")
    /\ UNCHANGED <<etcd, watcher, running, dropped>>

StartWatch(n) ==
    /\ watch[n] = "scheduled"
    /\ watch' = [watch EXCEPT ![n] = "on"]
    /\ UNCHANGED <<etcd, phase, nodeCaches, events, clearing, running, history,
                   budget>>

----------------------------------------------------------------------------
(* nodeCacheWatcher(): events are handled one after the other.  A worker   *)
(* ignores the loss of its own key.                                        *)
NotAdded(seen, m) == seen
AddedEmpty(seen, m) == seen \cup {0}    \* the empty string of a missing value
Kept(n, seen, m) == seen
RemovedAny(n, seen, m) == seen \ {m}

Added(seen, m) == seen \cup {m}
Removed(n, seen, m) == IF m = n THEN seen ELSE seen \ {m}

HandleEvent(n) ==
    /\ events[n] # <<>>
    /\ clearing[n] = {}
    /\ LET e == Head(events[n]) IN
       \/ /\ e.type = "PUT"
          /\ nodeCaches' = [nodeCaches EXCEPT ![n] = Added(@, e.node)]
          /\ UNCHANGED clearing
       \/ /\ e.type = "DELETE"
          /\ nodeCaches' = [nodeCaches EXCEPT ![n] = Removed(n, @, e.node)]
          /\ clearing' = [clearing EXCEPT ![n] = {e.node} \ {n}]
    /\ events' = [events EXCEPT ![n] = Tail(@)]
    /\ UNCHANGED <<etcd, phase, watch, running, history, budget>>

(* The process keys of the lost worker are deleted by prefix; a failure is *)
(* logged.                                                                 *)
ClearsAll(m) == [k \in Nodes |-> {}]
Cleared(m) == [k \in Nodes |-> IF k \in StartsWith[m] THEN {} ELSE processing[k]]

ClearKeys(n, m) ==
    /\ m \in clearing[n]
    /\ \/ processing' = Cleared(m) /\ UNCHANGED budget
       \/ Spends("failures") /\ UNCHANGED processing
    /\ clearing' = [clearing EXCEPT ![n] = {}]
    /\ UNCHANGED <<workers, switch, phase, nodeCaches, watch, events, running,
                   history>>

----------------------------------------------------------------------------
(* The timers of the worker take over the services it owns and give up the *)
(* others (EventListener, CleanUnBelongTaskTimer); the process key goes    *)
(* with the mark.  TaskDispatch has the steps in between.                  *)
Take(n, service) ==
    /\ Up(n) /\ switch = "on"
    /\ service \notin running[n]
    /\ IsProcessNode(n, service)
    /\ processing' = [processing EXCEPT ![n] = @ \cup {service}]
    /\ running' = [running EXCEPT ![n] = @ \cup {service}]
    /\ UNCHANGED <<workers, switch, phase, watcher, history, budget>>

Give(n, service) ==
    /\ Up(n) /\ switch = "on"
    /\ service \in running[n]
    /\ ~IsProcessNode(n, service)
    /\ processing' = [processing EXCEPT ![n] = @ \ {service}]
    /\ running' = [running EXCEPT ![n] = @ \ {service}]
    /\ UNCHANGED <<workers, switch, phase, watcher, history, budget>>

SetSwitch(state) ==
    /\ \E n \in Nodes : Up(n)
    /\ switch' = state
    /\ UNCHANGED <<workers, processing, phase, watcher, running, history, budget>>

----------------------------------------------------------------------------
(* A process stops, at any point.  Nobody renews its lease any more.       *)
Crash(n) ==
    /\ phase[n] # "down"
    /\ Reaches(n, "down")
    /\ workers' = [workers EXCEPT ![n] =
                     IF @ = "renewed" THEN "abandoned" ELSE @]
    /\ nodeCaches' = [nodeCaches EXCEPT ![n] = {}]
    /\ watch' = [watch EXCEPT ![n] = "off"]
    /\ events' = [events EXCEPT ![n] = <<>>]
    /\ clearing' = [clearing EXCEPT ![n] = {}]
    /\ running' = [running EXCEPT ![n] = {}]
    /\ unseen' = [unseen EXCEPT ![n] = {}]
    /\ UNCHANGED <<switch, processing, budget, dropped>>

(* etcd drops the key with its lease: when nobody renews it, or when the   *)
(* beats of a running worker are late (it has started: that takes less     *)
(* than the 30 seconds of the lease).  keepAliveOnce() of a lease that is  *)
(* gone changes nothing, so that the worker never registers again.         *)
Drop(m) ==
    /\ workers' = [workers EXCEPT ![m] = "absent"]
    /\ Announce("DELETE", m)
    /\ dropped' = dropped \cup {m}
    /\ UNCHANGED <<switch, processing, phase, nodeCaches, watch, clearing,
                   running>>

Expire(m) == workers[m] = "abandoned" /\ Drop(m) /\ UNCHANGED budget
LoseLease(m) == workers[m] = "renewed" /\ Up(m) /\ Spends("lost") /\ Drop(m)

----------------------------------------------------------------------------
Starting(n) == CheckSwitch(n) \/ WriteSwitch(n) \/ Register(n) \/ InitData(n)

Watching(n) == HandleEvent(n) \/ \E m \in Nodes : ClearKeys(n, m)

Sharding(n) == \E s \in Services : Take(n, s) \/ Give(n, s)

Next ==
    \/ \E n \in Nodes :
          \/ Start(n) \/ Starting(n) \/ StartFails(n) \/ StartWatch(n)
          \/ Watching(n) \/ Sharding(n)
          \/ Crash(n) \/ Expire(n) \/ LoseLease(n)
    \/ \E state \in {"on", "off"} : SetSwitch(state)

Spec == Init /\ [][Next]_vars

(* Threads are scheduled, timers are periodic, watches deliver and leases  *)
(* that nobody renews expire.  Starts, crashes, lost leases and requests   *)
(* are never forced.                                                       *)
Fairness ==
    \A n \in Nodes :
        /\ WF_vars(Starting(n)) /\ WF_vars(StartWatch(n)) /\ WF_vars(Watching(n))
        /\ \A s \in Services : WF_vars(Take(n, s)) /\ WF_vars(Give(n, s))
        /\ WF_vars(Expire(n))

FairSpec == Spec /\ Fairness

----------------------------------------------------------------------------
(* Properties.                                                             *)

(* Whether m will be in a view once the events of q have been handled.     *)
About(q, m) == {i \in 1..Len(q) : q[i].node = m}
WillSee(seen, q, m) ==
    IF About(q, m) = {}
      THEN m \in seen
      ELSE \E i \in About(q, m) : /\ \A j \in About(q, m) : j <= i
                                  /\ q[i].type = "PUT"

(* The view of a worker, once the events on their way are handled, is what *)
(* etcd holds, except for keys that changed between its read and its watch *)
(* (AbstractSyncShardingEtcdProxy:67-69).                                  *)
ViewCoherent ==
    \A n, m \in Nodes :
        Up(n) /\ m # n /\ m \notin unseen[n]
        => (WillSee(nodeCaches[n], events[n], m) <=> m \in Registered)

(* A worker that watches always sees itself, even after its lease is lost  *)
(* (AbstractSyncShardingEtcdProxy:81).                                     *)
SelfInView == \A n \in Nodes : watch[n] # "off" => n \in nodeCaches[n]

(* Two registered workers that have handled all their events, and missed   *)
(* none, never both own a service.                                         *)
Current(n) == watch[n] = "on" /\ events[n] = <<>> /\ unseen[n] \subseteq {n}
OneOwner ==
    \A n, m \in Nodes, s \in Services :
        /\ Current(n) /\ Current(m)
        /\ {n, m} \subseteq Registered
        /\ IsProcessNode(n, s) /\ IsProcessNode(m, s)
        => n = m

(* When every process that runs has handled its events, and every key is   *)
(* the key of one that runs, each service has an owner.  Not so if one was *)
(* lost between the read and the watch of another: it stays in that view   *)
(* and its services are run by nobody (AbstractSyncShardingEtcdProxy:69).  *)
Settled == /\ \A n \in Nodes : phase[n] # "down" => watch[n] = "on" /\ events[n] = <<>>
           /\ \A n \in Registered : Up(n)
           /\ \E n \in Nodes : Up(n)
HasOwner(s) == \E n \in Nodes : Up(n) /\ IsProcessNode(n, s)
SomeOwner == Settled /\ (\A n \in Nodes : unseen[n] \subseteq {n})
                => \A s \in Services : HasOwner(s)

(* The process keys of a worker list the services it runs: the loss of     *)
(* another worker clears "the processing tasks of that node"               *)
(* (AbstractSyncShardingEtcdProxy:83).  Nothing is claimed once its own    *)
(* key was dropped: the others may clear it after it has started again.    *)
KeysFollowMarks ==
    \A n \in Nodes \ dropped : running[n] \subseteq processing[n]

(* What the deletion by prefix leaves of that: a worker keeps the process  *)
(* keys of what it runs, through restarts, views and late events, until    *)
(* etcd drops the key of a worker whose address its own begins with.       *)
KeysOutlastOthers ==
    \A n \in Nodes : (\A m \in dropped : n \notin StartsWith[m])
                    => running[n] \subseteq processing[n]

(* When processes stop starting and stopping, and none has missed an       *)
(* event, each service ends at exactly one of them.                        *)
Stays(U) == /\ switch = "on"
            /\ \A n \in Nodes : phase[n] = IF n \in U THEN "up" ELSE "down"
            /\ \A n \in Nodes : unseen[n] \subseteq {n}
            /\ U \cap Registered = U
RunsAt(s, U) == \E n \in U : /\ s \in running[n]
                             /\ \A m \in U \ {n} : s \notin running[m]
TakenOver ==
    \A U \in (SUBSET Nodes) \ {{}}, s \in Services : <>[]Stays(U) => <>[]RunsAt(s, U)
============================================================================
