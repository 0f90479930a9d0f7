--------------------------- MODULE TaskDispatch ---------------------------
(***************************************************************************)
(* How a synchronisation task stored in etcd reaches the workers: the HTTP *)
(* handlers that write it, the cached task list each worker reads it       *)
(* through, and the timers of a worker that act on it (QuerySyncTaskTimer, *)
(* SpecialSyncEventTimer, CleanUnBelongTaskTimer and                       *)
(* CleanExceedOperationIdTimer), each on its own thread of a pool.         *)
(*                                                                         *)
(* The services are those kept alive by SpecialSyncEventBus (from Eureka   *)
(* or Consul to Nacos): "being synchronised by a worker" is "subscribed on *)
(* its bus", since the bus re-runs sync() every three seconds.  What       *)
(* sync() and delete() do inside the registries is left out.               *)
(***************************************************************************)
EXTENDS Integers, FiniteSets, ConsistentHash

CONSTANTS
    Nodes,          \* workers, numbered in the order of their addresses
    Tasks,          \* task ids (hashes of service, group and clusters)
    ServiceName,    \* [Tasks -> service name], not one to one
    NoTask,         \* findByTaskId() = null; no subscription
    Points,         \* the replicas of each node on the ring
    Position,       \* [service name -> hash on the ring]
    Timers,         \* per worker: the timers it runs
    Consoles,       \* the workers that administrators send requests to
    SerialConsole,  \* administrators wait for an answer before they ask again
    MaxOperation,   \* bound: operation ids generated
    MaxFailures,    \* bound: failed calls to etcd, a registry or a peer
    MaxChanges,     \* bound: changes of a worker's nodeCaches and times
                    \* the switch is turned off
    MaxRestarts     \* bound: restarts of a worker process

ASSUME ConstantsAssumption ==
    /\ ServiceName = [t \in Tasks |-> ServiceName[t]]
    /\ Consoles \subseteq Nodes
    /\ {MaxOperation, MaxFailures, MaxChanges, MaxRestarts} \subseteq Nat

VARIABLES
    store,          \* etcd: the record of each task, or NoTask
    nextOperation,  \* operation ids are UUIDs: fresh ones, counted
    switch,         \* etcd: REGISTER_SWITCH
    processing,     \* etcd: PER_WORKER_PROCESS_SERVICE/<node>/<service>
    nodeCaches,     \* per worker: the workers it sees
    cached,         \* per worker: CaffeineUtil's task list
    watching,       \* per worker: EtcdWatchService has started
    invalidation,   \* per worker: the watch event due to that list
    finished,       \* per worker: finishedTaskMap, a set of operation ids
    registry,       \* per worker: specialSyncEventRegistry
    todo,           \* per worker: what its list-driven timers still hold
    job,            \* per worker and thread: the event being handled
    http,           \* per worker and slot: the request being served
    budget          \* what is left of each bound

etcd   == <<store, nextOperation, switch, processing>>
lists  == <<cached, watching, invalidation>>
memory == <<finished, registry>>
vars   == <<etcd, nodeCaches, lists, memory, todo, job, http, budget>>

----------------------------------------------------------------------------
Operations == 1..MaxOperation
Statuses   == {"SYNC", "DELETE"}
Record     == [task : Tasks, op : Operations, status : Statuses]
Services   == {ServiceName[t] : t \in Tasks}

ASSUME NoTaskAssumption == NoTask \notin Record

(* Requests arrive from the console, or from another worker that forwards  *)
(* one (HEADER_SIGN).  One of each is served at a time.                    *)
Slots      == {"console", "peer"}
Handlers   == {"query"} \cup Slots          \* threads that post DELETE events
Threads    == Handlers \cup {"special", "clean"}

Steps      == {"check", "test", "sync", "unsubscribe", "finish"}
Idle       == [step |-> "idle", rec |-> NoTask]
Job        == [step : Steps, rec : Record] \cup {Idle}
At(step, rec) == [step |-> step, rec |-> rec]

Wants      == {"add"} \cup Statuses
NoRequest  == [step |-> "none", task |-> NoTask, want |-> NoTask,
               peers |-> {}, waiting |-> {}]
Request    == [step : {"read", "write", "event", "forward"}, task : Tasks,
               want : Wants, peers : SUBSET Nodes, waiting : SUBSET Nodes]
              \cup {NoRequest}
Ask(task, want) == [step |-> "read", task |-> task, want |-> want,
                    peers |-> {}, waiting |-> {}]

CachedList == [valid : BOOLEAN, list : SUBSET Record]
ToDo       == [query : SUBSET Record, scan : SUBSET Operations,
               clean : SUBSET Operations, exceed : SUBSET Operations,
               exceeding : BOOLEAN]
Budget     == [failures : 0..MaxFailures, changes : 0..MaxChanges,
               restarts : 0..MaxRestarts]

TypeOK ==
    /\ store \in [Tasks -> Record \cup {NoTask}]
    /\ nextOperation \in 1..(MaxOperation + 1)
    /\ switch \in BOOLEAN
    /\ processing \in [Nodes -> SUBSET Services]
    /\ nodeCaches \in [Nodes -> SUBSET Nodes]
    /\ cached \in [Nodes -> CachedList]
    /\ watching \in [Nodes -> BOOLEAN]
    /\ invalidation \in [Nodes -> {"none", "coming", "missed"}]
    /\ finished \in [Nodes -> SUBSET Operations]
    /\ registry \in [Nodes -> [Tasks -> Record \cup {NoTask}]]
    /\ todo \in [Nodes -> ToDo]
    /\ job \in [Nodes -> [Threads -> Job]]
    /\ http \in [Nodes -> [Slots -> Request]]
    /\ budget \in Budget

NotCached == [valid |-> FALSE, list |-> {}]
NothingToDo == [query |-> {}, scan |-> {}, clean |-> {}, exceed |-> {},
                exceeding |-> FALSE]
NoSubscription == [t \in Tasks |-> NoTask]
NoJobs == [k \in Threads |-> Idle]
NoRequests == [k \in Slots |-> NoRequest]

Init ==
    /\ store = [t \in Tasks |-> NoTask]
    /\ nextOperation = 1
    /\ switch = FALSE
    /\ processing = [n \in Nodes |-> {}]
    /\ nodeCaches \in {v \in [Nodes -> SUBSET Nodes] : \A n \in Nodes : n \in v[n]}
    /\ cached = [n \in Nodes |-> NotCached]
    /\ watching = [n \in Nodes |-> FALSE]
    /\ invalidation = [n \in Nodes |-> "none"]
    /\ finished = [n \in Nodes |-> {}]
    /\ registry = [n \in Nodes |-> NoSubscription]
    /\ todo = [n \in Nodes |-> NothingToDo]
    /\ job = [n \in Nodes |-> NoJobs]
    /\ http = [n \in Nodes |-> NoRequests]
    /\ budget = [failures |-> MaxFailures, changes |-> MaxChanges,
                 restarts |-> MaxRestarts]

----------------------------------------------------------------------------
IsProcessNode(n, task) ==
    GetNode(Points, nodeCaches[n], Position[ServiceName[task]]) = n

Stored == {store[t] : t \in Tasks} \ {NoTask}

(* A call to something outside the worker fails: budgeted.                 *)
Fails == /\ budget.failures > 0
         /\ budget' = [budget EXCEPT !.failures = @ - 1]
Works == UNCHANGED budget
Changes == /\ budget.changes > 0
           /\ budget' = [budget EXCEPT !.changes = @ - 1]

Lists(n) == {cached[n].list, Stored, {}}

(* buildTaskCaffeineCache() returns list.  The list is loaded when it is   *)
(* not cached; a load that fails yields an empty list, which is not kept.  *)
(* Caffeine runs the load under the lock of the entry, so that it is one   *)
(* step with respect to the invalidations.                                 *)
TaskList(n, list) ==
    \/ /\ cached[n].valid
       /\ list = cached[n].list
       /\ UNCHANGED cached
       /\ Works
    \/ /\ ~cached[n].valid
       /\ list = Stored
       /\ cached' = [cached EXCEPT ![n] = [valid |-> TRUE, list |-> list]]
       /\ Works
    \/ /\ ~cached[n].valid
       /\ list = {}
       /\ UNCHANGED cached
       /\ Fails

(* finishedTaskMap: addFinishedTask() and removeFinishedTask().            *)
MarkTask(n, rec) == finished' = [finished EXCEPT ![n] = @ \cup {rec.task}]
UnmarkNothing(n, rec) == UNCHANGED finished

Mark(n, rec) == finished' = [finished EXCEPT ![n] = @ \cup {rec.op}]
Unmark(n, rec) == finished' = [finished EXCEPT ![n] = @ \ {rec.op}]

(* An iteration over the marks may or may not meet one set meanwhile.      *)
Meets(n, rec) ==
    \/ UNCHANGED todo
    \/ /\ todo[n].scan # {}
       /\ todo' = [todo EXCEPT ![n].scan = @ \cup {rec.op}]

Goes(n, k, step, rec) == job' = [job EXCEPT ![n][k] = At(step, rec)]
Ends(n, k) == job' = [job EXCEPT ![n][k] = Idle]

----------------------------------------------------------------------------
(* QuerySyncTaskTimer.CheckRunningStatusThread: reads the list ...         *)
QueryList(n) ==
    /\ "query" \in Timers[n]
    /\ switch
    /\ todo[n].query = {} /\ job[n]["query"] = Idle
    /\ \E list \in Lists(n) :
          /\ TaskList(n, list)
          /\ todo' = [todo EXCEPT ![n].query = list]
    /\ UNCHANGED <<etcd, nodeCaches, watching, invalidation, memory, job,
                   http>>

(* ... and then takes the tasks of the list one after the other.  Only a   *)
(* command to synchronise is left to the owner of its service, ...         *)
ConcernsOwner(n, rec) == IsProcessNode(n, rec.task)

Concerns(n, rec) == rec.status = "SYNC" => IsProcessNode(n, rec.task)

QueryTake(n, rec) ==
    /\ rec \in todo[n].query
    /\ job[n]["query"] = Idle
    /\ todo' = [todo EXCEPT ![n].query = @ \ {rec}]
    /\ IF Concerns(n, rec) THEN Goes(n, "query", "check", rec)
                           ELSE UNCHANGED job
    /\ UNCHANGED <<etcd, nodeCaches, lists, memory, http, budget>>

(* ... and the finished mark is looked at after that.  Without one an event *)
(* is posted; the event bus calls the listener on the same thread.         *)
QueryCheck(n) ==
    /\ job[n]["query"].step = "check"
    /\ LET rec == job[n]["query"].rec IN
       \/ /\ rec.op \in finished[n]
          /\ Ends(n, "query")
       \/ /\ rec.op \notin finished[n] /\ rec.status = "SYNC"
          /\ Goes(n, "query", "sync", rec)
       \/ /\ rec.op \notin finished[n] /\ rec.status = "DELETE"
          /\ Goes(n, "query", "unsubscribe", rec)
    /\ UNCHANGED <<etcd, nodeCaches, lists, memory, todo, http, budget>>

(* SpecialSyncEventTimer re-runs sync() for a subscription of the bus.     *)
SpecialTake(n, task) ==
    /\ "special" \in Timers[n]
    /\ registry[n][task] # NoTask
    /\ registry[n][task].status = "SYNC"
    /\ job[n]["special"] = Idle
    /\ Goes(n, "special", "sync", registry[n][task])
    /\ UNCHANGED <<etcd, nodeCaches, lists, memory, todo, http, budget>>

----------------------------------------------------------------------------
(* sync() of the task's service: it copies the instances and subscribes    *)
(* the task on the bus.  When the copy fails it returns false, which       *)
(* EventListener ignores; when the service cannot be found it throws.      *)
Subscribe(n, k) ==
    /\ job[n][k].step = "sync"
    /\ LET rec == job[n][k].rec
           goesOn == IF k = "query" THEN Goes(n, k, "finish", rec) ELSE Ends(n, k)
       IN \/ /\ Works
             /\ IF registry[n][rec.task] = NoTask
                  THEN registry' = [registry EXCEPT ![n][rec.task] = rec]
                  ELSE UNCHANGED registry
             /\ goesOn
          \/ /\ Fails
             /\ UNCHANGED registry
             /\ goesOn \/ Ends(n, k)
    /\ UNCHANGED <<etcd, nodeCaches, lists, finished, todo, http>>

(* EventListener then writes the process key and sets the finished mark,   *)
(* unless etcd throws.  Nobody reads that key in between.                  *)
FinishSync(n) ==
    /\ job[n]["query"].step = "finish"
    /\ LET rec == job[n]["query"].rec IN
       /\ rec.status = "SYNC"
       /\ \/ /\ Works
             /\ processing' = [processing EXCEPT ![n] =
                                 @ \cup {ServiceName[rec.task]}]
             /\ Mark(n, rec)
             /\ Meets(n, rec)
          \/ /\ Fails
             /\ UNCHANGED <<processing, finished, todo>>
       /\ Ends(n, "query")
    /\ UNCHANGED <<store, nextOperation, switch, nodeCaches, lists, registry,
                   http>>

(* delete() of the task's service.  Listener methods of an event bus are   *)
(* synchronized: a worker handles one DELETE event at a time.              *)
Deleting(n) == {k \in Handlers : /\ job[n][k].step = "finish"
                                 /\ job[n][k].rec.status = "DELETE"}

Unsubscribe(n, k) ==
    /\ job[n][k].step = "unsubscribe"
    /\ k \in Handlers => Deleting(n) = {}
    /\ \/ /\ Works
          /\ registry' = [registry EXCEPT ![n][job[n][k].rec.task] = NoTask]
          /\ Goes(n, k, "finish", job[n][k].rec)
       \/ /\ k \in Handlers /\ Fails
          /\ UNCHANGED registry
          /\ Ends(n, k)
    /\ UNCHANGED <<etcd, nodeCaches, lists, finished, todo, http>>

FinishDelete(n, k) ==
    /\ job[n][k].step = "finish"
    /\ LET rec == job[n][k].rec IN
       /\ rec.status = "DELETE"
       /\ \/ /\ Works
             /\ processing' = [processing EXCEPT ![n] =
                                 @ \ {ServiceName[rec.task]}]
             /\ Mark(n, rec)
             /\ Meets(n, rec)
          \/ /\ Fails
             /\ UNCHANGED <<processing, finished, todo>>
       /\ Ends(n, k)
    /\ UNCHANGED <<store, nextOperation, switch, nodeCaches, lists, registry,
                   http>>

----------------------------------------------------------------------------
(* CleanUnBelongTaskTimer: what this worker finished and no longer owns    *)
(* loses its subscription, its process key and then its finished mark.     *)
UnbelongsAll(n, rec) == rec.status = "SYNC"
Unbelongs(n, rec) == rec.status = "SYNC" /\ ~IsProcessNode(n, rec.task)

CleanScan(n) ==
    /\ "clean" \in Timers[n]
    /\ switch
    /\ todo[n].scan = {} /\ todo[n].clean = {} /\ job[n]["clean"] = Idle
    /\ todo' = [todo EXCEPT ![n].scan = finished[n]]
    /\ UNCHANGED <<etcd, nodeCaches, lists, memory, job, http, budget>>

(* Each mark's task is looked up in the list.  The iterator may or may not *)
(* meet a mark that was removed since.                                     *)
CleanLookup(n, op) ==
    /\ op \in todo[n].scan
    /\ job[n]["clean"] = Idle
    /\ todo' = [todo EXCEPT ![n].scan = @ \ {op}]
    /\ \/ /\ op \notin finished[n]
          /\ UNCHANGED <<cached, job, budget>>
       \/ \E list \in Lists(n) :
             /\ TaskList(n, list)
             /\ \/ /\ \A rec \in list : rec.op # op
                   /\ UNCHANGED job
                \/ \E rec \in list :
                      /\ rec.op = op
                      /\ Goes(n, "clean", "test", rec)
    /\ UNCHANGED <<etcd, nodeCaches, watching, invalidation, memory, http>>

CleanTest(n) ==
    /\ job[n]["clean"].step = "test"
    /\ LET rec == job[n]["clean"].rec IN
       IF Unbelongs(n, rec)
         THEN todo' = [todo EXCEPT ![n].clean = @ \cup {rec.op}]
         ELSE UNCHANGED todo
    /\ Ends(n, "clean")
    /\ UNCHANGED <<etcd, nodeCaches, lists, memory, http, budget>>

(* After the last mark, the tasks that were noted are looked up again;     *)
(* when the list has lost one, the exception ends the run.                 *)
CleanTake(n, op) ==
    /\ op \in todo[n].clean
    /\ todo[n].scan = {} /\ job[n]["clean"] = Idle
    /\ \E list \in Lists(n) :
          /\ TaskList(n, list)
          /\ \/ /\ \A rec \in list : rec.op # op
                /\ todo' = [todo EXCEPT ![n].clean = {}]
                /\ UNCHANGED job
             \/ \E rec \in list :
                   /\ rec.op = op
                   /\ todo' = [todo EXCEPT ![n].clean = @ \ {op}]
                   /\ Goes(n, "clean", "unsubscribe", rec)
    /\ UNCHANGED <<etcd, nodeCaches, watching, invalidation, memory, http>>

FinishClean(n) ==
    /\ job[n]["clean"].step = "finish"
    /\ LET rec == job[n]["clean"].rec IN
       /\ \/ /\ Works
             /\ processing' = [processing EXCEPT ![n] =
                                 @ \ {ServiceName[rec.task]}]
             /\ Unmark(n, rec)
          \/ /\ Fails
             /\ UNCHANGED <<processing, finished>>
       /\ Ends(n, "clean")
    /\ UNCHANGED <<store, nextOperation, switch, nodeCaches, lists, registry,
                   todo, http>>

(* CleanExceedOperationIdTimer: reads the list, then drops every mark the  *)
(* list does not mention.                                                  *)
ExceedList(n) ==
    /\ "exceed" \in Timers[n]
    /\ ~todo[n].exceeding
    /\ \E list \in Lists(n) :
          /\ TaskList(n, list)
          /\ todo' = [todo EXCEPT ![n].exceeding = TRUE,
                                  ![n].exceed = {rec.op : rec \in list}]
    /\ UNCHANGED <<etcd, nodeCaches, watching, invalidation, memory, job,
                   http>>

ExceedRemove(n) ==
    /\ todo[n].exceeding
    /\ finished' = [finished EXCEPT ![n] = @ \cap todo[n].exceed]
    /\ todo' = [todo EXCEPT ![n].exceeding = FALSE, ![n].exceed = {}]
    /\ UNCHANGED <<etcd, nodeCaches, lists, registry, job, http, budget>>

----------------------------------------------------------------------------
WriteUnseen(task, rec) ==
    /\ store' = [store EXCEPT ![task] = rec]
    /\ invalidation' = [n \in Nodes |->
          IF rec = NoTask THEN invalidation[n]
          ELSE IF watching[n] THEN "coming"
          ELSE IF cached[n].valid THEN "missed" ELSE invalidation[n]]

(* A write of the task tree in etcd: watchers are sent an event.  A worker *)
(* whose timers filled the list before its watch began misses it.          *)
Write(task, rec) ==
    /\ store' = [store EXCEPT ![task] = rec]
    /\ invalidation' = [n \in Nodes |->
          IF watching[n] THEN "coming"
          ELSE IF cached[n].valid THEN "missed" ELSE invalidation[n]]

Serves(n, k, request) == http' = [http EXCEPT ![n][k] = request]

(* TaskApi: /v1/task/add and /v1/task/update, sent to any worker.          *)
Console(n, task, want) ==
    /\ nextOperation <= MaxOperation
    /\ http[n]["console"] = NoRequest
    /\ SerialConsole => \A m \in Nodes : http[m]["console"] = NoRequest
    /\ Serves(n, "console", Ask(task, want))
    /\ UNCHANGED <<etcd, nodeCaches, lists, memory, todo, job, budget>>

(* What the handler does once it has read rec, which is NoTask when there  *)
(* is no such task and when etcd fails.                                    *)
MustWrite(want, rec) ==
    IF rec = NoTask THEN want = "add"
                    ELSE rec.status # IF want = "add" THEN "SYNC" ELSE want

HttpRead(n, k) ==
    /\ http[n][k].step = "read"
    /\ \E rec \in {store[http[n][k].task], NoTask} :
          /\ \/ Works /\ rec = store[http[n][k].task]
             \/ Fails /\ rec = NoTask
          /\ LET want == http[n][k].want IN
             \/ /\ MustWrite(want, rec)
                /\ Serves(n, k, [http[n][k] EXCEPT !.step = "write"])
                /\ UNCHANGED job
             \/ /\ ~MustWrite(want, rec) /\ rec # NoTask /\ want = "DELETE"
                /\ Serves(n, k, [http[n][k] EXCEPT !.step = "event"])
                /\ Goes(n, k, "unsubscribe", rec)
             \/ /\ ~MustWrite(want, rec) /\ (rec = NoTask \/ want # "DELETE")
                /\ Serves(n, k, NoRequest)
                /\ UNCHANGED job
    /\ UNCHANGED <<etcd, nodeCaches, lists, memory, todo>>

SameOperation == nextOperation <= MaxOperation /\ UNCHANGED nextOperation
NewOperation == /\ nextOperation <= MaxOperation
                /\ nextOperation' = nextOperation + 1

(* addTask() with a fresh operation id; its failure goes unnoticed.  An    *)
(* update to DELETE then posts the event on this thread.                   *)
HttpWrite(n, k) ==
    /\ http[n][k].step = "write"
    /\ NewOperation
    /\ LET task == http[n][k].task
           suspend == http[n][k].want = "DELETE"
           rec == [task |-> task, op |-> nextOperation,
                   status |-> IF suspend THEN "DELETE" ELSE "SYNC"]
       IN /\ \/ Works /\ Write(task, rec)
             \/ Fails /\ UNCHANGED <<store, invalidation>>
          /\ \/ /\ suspend
                /\ Serves(n, k, [http[n][k] EXCEPT !.step = "event"])
                /\ Goes(n, k, "unsubscribe", rec)
             \/ /\ ~suspend
                /\ Serves(n, k, NoRequest)
                /\ UNCHANGED job
    /\ UNCHANGED <<switch, processing, nodeCaches, cached, watching, memory,
                   todo>>

(* The event is handled; a request of the console is then forwarded to     *)
(* every other worker in view, one after the other.                        *)
Remaining(request) ==
    IF request.peers = {} /\ request.waiting = {} THEN NoRequest ELSE request

HttpPosted(n, k) ==
    /\ http[n][k].step = "event"
    /\ job[n][k] = Idle
    /\ Serves(n, k, IF k = "console"
                      THEN Remaining([http[n][k] EXCEPT !.step = "forward",
                                      !.peers = nodeCaches[n] \ {n}])
                      ELSE NoRequest)
    /\ UNCHANGED <<etcd, nodeCaches, lists, memory, todo, job, budget>>

Forward(n, m) ==
    /\ http[n]["console"].step = "forward"
    /\ http[n]["console"].waiting = {}
    /\ m \in http[n]["console"].peers
    /\ LET request == [http[n]["console"] EXCEPT !.peers = @ \ {m}] IN
       \/ /\ http[m]["peer"] = NoRequest
          /\ Works
          /\ http' = [http EXCEPT ![n]["console"] =
                                       [request EXCEPT !.waiting = {m}],
                                  ![m]["peer"] = Ask(request.task, "DELETE")]
       \/ /\ Fails
          /\ Serves(n, "console", Remaining(request))
    /\ UNCHANGED <<etcd, nodeCaches, lists, memory, todo, job>>

AnsweredAtOnce(m) == TRUE
Answered(m) == http[m]["peer"] = NoRequest

(* The peer answers, or two seconds pass and it goes on unattended.        *)
ForwardReturns(n, m) ==
    /\ m \in http[n]["console"].waiting
    /\ \/ Answered(m) /\ Works
       \/ ~Answered(m) /\ Fails
    /\ Serves(n, "console", Remaining([http[n]["console"] EXCEPT
                                          !.waiting = {}]))
    /\ UNCHANGED <<etcd, nodeCaches, lists, memory, todo, job>>

(* TaskDeleteProcessor only removes the key: no event, no forwarding.      *)
TaskDelete(task) ==
    /\ store[task] # NoTask
    /\ SerialConsole => \A m \in Nodes : http[m]["console"] = NoRequest
    /\ Write(task, NoTask)
    /\ UNCHANGED <<nextOperation, switch, processing, nodeCaches, cached,
                   watching, memory, todo, job, http, budget>>

----------------------------------------------------------------------------
StartWatch(n) ==
    /\ ~watching[n]
    /\ watching' = [watching EXCEPT ![n] = TRUE]
    /\ UNCHANGED <<etcd, nodeCaches, cached, invalidation, memory, todo, job,
                   http, budget>>

WatchEvent(n) ==
    /\ invalidation[n] = "coming"
    /\ invalidation' = [invalidation EXCEPT ![n] = "none"]
    /\ cached' = [cached EXCEPT ![n] = NotCached]
    /\ UNCHANGED <<etcd, nodeCaches, watching, memory, todo, job, http,
                   budget>>

(* The entry is an hour old, or /v1/task/invalidate drops it.              *)
Expire(n) ==
    /\ cached[n].valid
    /\ cached' = [cached EXCEPT ![n] = NotCached]
    /\ invalidation' = [invalidation EXCEPT ![n] =
                           IF @ = "missed" THEN "none" ELSE @]
    /\ UNCHANGED <<etcd, nodeCaches, watching, memory, todo, job, http,
                   budget>>

SetSwitch(on) ==
    /\ switch' = on
    /\ IF on THEN Works ELSE Changes
    /\ UNCHANGED <<store, nextOperation, processing, nodeCaches, lists, memory,
                   todo, job, http>>

(* A worker is seen to join or to leave; a worker always sees itself.      *)
NodeCachesChange(n, m) ==
    /\ m # n
    /\ Changes
    /\ \/ nodeCaches' = [nodeCaches EXCEPT ![n] = @ \cup {m}]
       \/ nodeCaches' = [nodeCaches EXCEPT ![n] = @ \ {m}]
    /\ UNCHANGED <<etcd, lists, memory, todo, job, http>>

(* The process stops and starts again: what it held in memory is lost.     *)
Restart(n) ==
    /\ budget.restarts > 0
    /\ budget' = [budget EXCEPT !.restarts = @ - 1]
    /\ cached' = [cached EXCEPT ![n] = NotCached]
    /\ watching' = [watching EXCEPT ![n] = FALSE]
    /\ invalidation' = [invalidation EXCEPT ![n] = "none"]
    /\ finished' = [finished EXCEPT ![n] = {}]
    /\ registry' = [registry EXCEPT ![n] = NoSubscription]
    /\ todo' = [todo EXCEPT ![n] = NothingToDo]
    /\ job' = [job EXCEPT ![n] = NoJobs]
    /\ http' = [http EXCEPT ![n] = NoRequests]
    /\ UNCHANGED <<etcd, nodeCaches>>

----------------------------------------------------------------------------
Query(n) ==
    \/ QueryList(n)
    \/ \E rec \in todo[n].query : QueryTake(n, rec)
    \/ QueryCheck(n)
    \/ Subscribe(n, "query") \/ FinishSync(n)

Special(n) ==
    \/ \E task \in Tasks : SpecialTake(n, task)
    \/ Subscribe(n, "special")

DeleteEvent(n, k) == Unsubscribe(n, k) \/ FinishDelete(n, k)

CleanUnBelong(n) ==
    \/ CleanScan(n)
    \/ \E op \in todo[n].scan : CleanLookup(n, op)
    \/ CleanTest(n)
    \/ \E op \in todo[n].clean : CleanTake(n, op)
    \/ Unsubscribe(n, "clean") \/ FinishClean(n)

CleanExceed(n) == ExceedList(n) \/ ExceedRemove(n)

Http(n, k) == HttpRead(n, k) \/ HttpWrite(n, k) \/ HttpPosted(n, k)

Forwarding(n) == \E m \in Nodes : Forward(n, m) \/ ForwardReturns(n, m)

Administrator ==
    \/ \E n \in Consoles, task \in Tasks, want \in Wants : Console(n, task, want)
    \/ \E task \in Tasks : TaskDelete(task)
    \/ \E on \in BOOLEAN : SetSwitch(on)

Environment ==
    \E n \in Nodes : \/ StartWatch(n) \/ WatchEvent(n) \/ Expire(n)
                     \/ \E m \in Nodes : NodeCachesChange(n, m)
                     \/ Restart(n)

Next ==
    \/ \E n \in Nodes :
          \/ Query(n) \/ Special(n) \/ CleanUnBelong(n) \/ CleanExceed(n)
          \/ \E k \in Handlers : DeleteEvent(n, k)
          \/ \E k \in Slots : Http(n, k)
          \/ Forwarding(n)
    \/ Administrator
    \/ Environment

Spec == Init /\ [][Next]_vars

(* Timers run periodically, threads are scheduled, requests and watches    *)
(* make progress and cache entries grow old.  Nothing makes administrators *)
(* act, workers stop or their views change.                                *)
Fairness ==
    \A n \in Nodes :
        /\ WF_vars(Query(n)) /\ WF_vars(Special(n))
        /\ WF_vars(CleanUnBelong(n)) /\ WF_vars(CleanExceed(n))
        /\ \A k \in Handlers : WF_vars(DeleteEvent(n, k))
        /\ \A k \in Slots : WF_vars(Http(n, k))
        /\ WF_vars(Forwarding(n))
        /\ WF_vars(StartWatch(n)) /\ WF_vars(WatchEvent(n)) /\ WF_vars(Expire(n))

FairSpec == Spec /\ Fairness

----------------------------------------------------------------------------
(* What a promise of the code needs of the steps around them.              *)

(* A request that waits for the answer of a peer goes on only with it: no  *)
(* peer takes two seconds, no worker stops while it waits.                 *)
InTime ==
    \A n, m \in Nodes :
        /\ m \in http[n]["console"].waiting
        /\ http'[n]["console"] # http[n]["console"]
        => Answered(m)

TimelySpec == Init /\ [][Next /\ InTime]_vars

----------------------------------------------------------------------------
(* Properties.                                                             *)

(* Every copy of a task record: in etcd, in a cached list, in the rest of  *)
(* a timer's list, in an event being handled, in a subscription.           *)
CopiesAt(n) == cached[n].list \cup todo[n].query
               \cup {job[n][k].rec : k \in Threads}
               \cup {registry[n][t] : t \in Tasks}
Copies == (Stored \cup UNION {CopiesAt(n) : n \in Nodes}) \ {NoTask}

(* An operation id names one command (task and status) wherever a copy of  *)
(* it is left, so that a finished mark never hides another command         *)
(* (finishedTaskMap is keyed by the id alone).                             *)
OneCommandPerOperation ==
    \A r, s \in Copies : r.op = s.op => r = s

(* "operation id,The operation id follow when the task status changes"     *)
(* (TaskDO.java:68): a command written to etcd is marked finished nowhere. *)
NewCommandIsUnfinished ==
    [][\A t \in Tasks : store'[t] \notin {store[t], NoTask} =>
          \A n \in Nodes : store'[t].op \notin finished[n]]_vars

(* A cached list differs from etcd only while the event that will drop it  *)
(* is on its way, or was missed before the watch began (EtcdWatchService). *)
CacheCoherent ==
    \A n \in Nodes : cached[n].valid /\ cached[n].list # Stored
                       => invalidation[n] # "none"

(* As long as no call failed (EventListener ignores that sync() did), the  *)
(* worker that marked the current SYNC command finished synchronises the   *)
(* task, unless it is giving the task up (CleanUnBelongTaskTimer).         *)
FinishedIsSubscribed ==
    budget.failures = MaxFailures => \A n \in Nodes, t \in Tasks :
        /\ store[t] # NoTask
        /\ store[t].status = "SYNC"
        /\ store[t].op \in finished[n]
        /\ job[n]["clean"] # At("finish", store[t])
        => registry[n][t] # NoTask

(* A suspended task whose deletion a worker has finished is not being      *)
(* synchronised by it.                                                     *)
SuspendedIsUnsubscribed ==
    \A n \in Nodes, t \in Tasks :
        /\ store[t] # NoTask
        /\ store[t].status = "DELETE"
        /\ store[t].op \in finished[n]
        /\ \A k \in Threads : job[n][k] = Idle
        /\ todo[n].query = {}
        => registry[n][t] = NoTask

(* A task is suspended only while an administrator waits for the answer to *)
(* a request to suspend it.                                                *)
SuspendedOnRequest ==
    [][\A t \in Tasks :
          store'[t] \notin {store[t], NoTask} /\ store'[t].status = "DELETE"
          => \E n \in Nodes : /\ http[n]["console"].task = t
                              /\ http[n]["console"].want = "DELETE"]_vars

(* Rebalancing: a worker that neither owns a running task nor counts it as *)
(* finished, and has nothing left to do, does not synchronise it.          *)
ReleasedIsUnsubscribed ==
    \A n \in Nodes, t \in Tasks :
        /\ store[t] # NoTask
        /\ store[t].status = "SYNC"
        /\ ~IsProcessNode(n, t)
        /\ store[t].op \notin finished[n]
        /\ \A k \in Threads : job[n][k] = Idle
        /\ todo[n].query = {}
        => registry[n][t] = NoTask

(* Suspension is broadcast: that a task stays suspended is eventually      *)
(* handled by every worker, whichever owns it: they all mark the command   *)
(* finished, for good, the last step of its DELETE event.                  *)
Suspended(t) == switch /\ store[t] # NoTask /\ store[t].status = "DELETE"
SuspensionReachesAll ==
    \A n \in {n \in Nodes : "query" \in Timers[n]}, t \in Tasks :
        <>[]Suspended(t) => <>[](/\ store[t] # NoTask
                                 /\ store[t].op \in finished[n])

(* A task that stays running is eventually synchronised, for good, by the  *)
(* worker that stays its owner.                                            *)
Running(t) == switch /\ store[t] # NoTask /\ store[t].status = "SYNC"
OwnerSynchronises ==
    \A n \in {n \in Nodes : "query" \in Timers[n]}, t \in Tasks :
        <>[](Running(t) /\ IsProcessNode(n, t)) => <>[](registry[n][t] # NoTask)
============================================================================
