# Register sync: a verification project

TLA+ models of `register-sync-ext`, a cluster of workers that copies service
instances between registries (Eureka, Consul, Zookeeper, Nacos).  Tasks ("keep
this service synchronised from this cluster to that one") are stored in etcd;
a consistent hash over the live workers decides which worker runs each of them.
Administrators manage tasks and clusters (the registries) in a web console.
Paths below are relative to
`nacossync-worker/src/main/java/com/alibaba/nacossync/`, those of the console to
`nacossync-console/src/main/resources/static/console-fe/src/`.

## The system

| Part | State | Operations | What makes it correct |
|---|---|---|---|
| Task store (`dao/TaskAccessService`, `util/CaffeineUtil`, `extension/watcher/EtcdWatchService`) | the tree of tasks in etcd; per worker a cached list, dropped by a watch or after an hour | read one, read all through the cache, write, delete, invalidate | a stale list is always about to be dropped |
| Task requests (`api/TaskApi`, `template/processor/Task*`) | none between requests | add, update (suspend, resume; a suspension is forwarded to every other worker), delete, invalidate, bulk import | a task is suspended only on request; each change of status gets an operation id no worker has seen |
| Dispatch (`timer/QuerySyncTaskTimer`, `event/listener/EventListener`, `cache/SkyWalkerCacheServices`) | the finished marks, keyed by operation id; process keys in etcd | every 5 s: run what is not marked; SYNC only by the owner of the service, DELETE by every worker | a marked task is being synchronised; a suspension reaches everyone; the lasting owner takes over |
| Special bus (`extension/event/SpecialSyncEventBus`, `timer/SpecialSyncEventTimer`) | the subscribed tasks | re-run `sync()` of each every 3 s | no subscription outlives the command it was made for |
| Cleaning (`timer/CleanUnBelongTaskTimer`, `timer/CleanExceedOperationIdTimer`) | none of its own | give up what the worker no longer owns; drop marks without a task | what is given up ends with its new owner, what comes back is taken over again |
| Sharding (`extension/ha/ConsistentHash*`, `AbstractSyncShardingEtcdProxy`, `extension/jetcd/EtcdProxy`) | leases and worker keys in etcd; per worker the set of workers it sees | register, beat, read, watch; owner of a service, leader | one owner per service once the views agree |
| Sync services (`extension/impl/*`) | instances and heartbeats in the destination registry, listeners, caches | `sync()`, `delete()`, callbacks of the registries | the destination converges to the source; nothing is left after a suspension |
| Clusters and lists (`dao/ClusterAccessService`, `template/processor/Cluster*`, `*ListQuery*`, `util/RamPageUtil`) | the tree of clusters in etcd; a cached list of each kind | add, delete; one page of a list, filtered by a text | a page holds the right rows; a cluster is never added over another |
| Console pages (`containers/ServiceSync`, `containers/ClusterConfig`) | page number, spinner, search text, dialogs | search, turn pages, suspend, resume, delete, add; a list after each command | the table ends as what etcd holds; spinners end; a dialog waits for its own command |
| Console store and requests (`reducers`, `utils/request.js`) | the rows of the last list of each kind; requests under way | lists and commands, their answers and errors | the page of tasks knows the name of every cluster; a command is executed at most once, and only if it found the task it changes |
| Eureka beats, server holders, system settings, cluster merge, Zookeeper sharding, language | see `PROJECT.json` | | |

Interactions: the timers of a worker run on a pool of five threads, each timer
never concurrently with itself.  They post events on a synchronous Guava bus, so
the listener runs on the thread that posts; each listener method is synchronized
by the bus.  An HTTP handler that suspends a task posts the same DELETE event on
its own thread, then forwards the request to the other workers, one after the
other, with a timeout of two seconds.  The threads share the finished marks, the
subscriptions and the cached list; the workers share etcd.
In the browser one thread runs the handlers of the pages and the answers to their
requests; any number of requests are under way and end in any order.  The two
pages share one redux store, in which the clusters of one page of `clusterConfig`
and the complete list that `serviceSync` needs take the same place.  The server
answers lists from a cached copy that follows etcd with a delay.

What is hard: the four timers, the handlers and the watch threads of one worker
interleave on one task; lists are read once and used later; requests run in
parallel on several workers; a forwarded request may be executed after its
timeout; etcd calls fail silently; views of the workers change and differ; a
restart loses everything but etcd.  In the console, answers come late, from an old
copy, or not at all, for a page or a dialog that is gone or was opened again.
`PROJECT.json` lists these hazards at their
lines, with the properties that watch them.

## Modules

| Module | Models |
|---|---|
| `ConsistentHash` | the ring as a function of the workers in view: `GetNode`, `GetHeadNode` |
| `TaskDispatch` | task store, requests, the four timers, listener, special bus, of every worker |
| `MCTaskDispatch` | the constants of the runs |
| `TaskDispatchProofs` | theorems about `TaskDispatch` |
| `TaskRequestProofs` | a theorem about the requests of `TaskDispatch` when answers are in time |
| `WorkerRegistry` | worker keys, leases, views, watches and process keys in etcd: what `nodeCaches` of `TaskDispatch` may be |
| `MCConsistentHash`, `MCWorkerRegistry` | the constants of the runs; the first also lets nodes join and leave one ring |
| `ConsistentHashProofs`, `WorkerRegistryProofs` | theorems about the ring and about the registry |
| `RingProofs` | theorems about the ring of `MCConsistentHash`, which nodes join and leave |
| `Orders` | the commands an administrator gives, and what is stored of a task or cluster |
| `Commands` | what the console promises of commands: the abstract specification |
| `RamPage` | one page of a list, the number of pages |
| `Console` | the pages, dialogs, store and requests of one browser, and the server as it answers them; implements `Commands` |
| `MCConsole` | the constants of the runs |
| `ConsoleProofs`, `ConsoleListProofs` | theorems about the commands, and about the lists, of `Console` |
| `LeastElement` | a set of naturals has a least element: used by the proofs about the ring and the lists |

### TaskDispatch

One action per step between two points where another thread can intervene.

* `store` is the tree of tasks in etcd: per task a record (task, operation id,
  status) or `NoTask`.  Operation ids are UUIDs; the model counts them
  (`nextOperation`), which keeps only that they are fresh.
* `cached`, `watching`, `invalidation` are a worker's list, whether its watch has
  started, and the event on its way (`coming`) or lost because the watch had not
  started (`missed`).  Caffeine loads an entry under its lock, so a load is one
  step (`TaskList`); a load that fails reads as an empty list and is not kept.
* `todo` is what a timer still has to do of the list it read; `job` is what each
  thread is handling: `check` and `test` (what a timer read of a task and has still
  to compare with the marks or with the view), `sync` or `unsubscribe` (the call of
  the sync service), then `finish` (process key and mark).  Nobody reads the process
  key between its write and the mark, so the two are one step.
* Each read of state that other threads change is a step of its own.
  `QuerySyncTaskTimer` asks for the owner (line 99, `QueryTake`) and then for the
  mark (line 101, `QueryCheck`).  `CleanUnBelongTaskTimer` iterates over the live
  map of marks (`CleanScan`), and for each looks the task up in the list (line 84,
  `CleanLookup`) and asks for the owner (line 88, `CleanTest`); the iterator of a
  `ConcurrentHashMap` may or may not meet a mark that is set (`Meets`) or removed
  meanwhile.  The second loop (lines 94-120) looks each task up again (`CleanTake`).
* `registry` is the special bus.  A task is "being synchronised" while it is
  subscribed there: the services modelled are the ones that subscribe (Eureka and
  Consul to Nacos).
* `http` is the request a worker serves, one of the console and one forwarded by
  a peer at a time: read (`HttpRead`), write (`HttpWrite`), the DELETE event
  (`Unsubscribe`, `FinishDelete` on the handler's thread), then `Forward` and
  `ForwardReturns` for each worker in view.
* `nodeCaches` is a worker's view; here it changes freely within a bound.
* A failed call (`Fails`), a change of a view or of the switch (`Changes`) and a
  restart are budgeted.
* `InTime` names what one promise of the code needs of the steps around it and the
  code does not ensure: no sender of a forwarded request goes on before its peer
  has answered.  `TimelySpec` is `Spec` with only such steps: the hypothesis of a
  theorem.  In the runs without failures every step is in time.

### WorkerRegistry

* `workers` is the key of a worker: `absent`, `renewed` (its process beats) or
  `abandoned` (its process is gone, the lease runs out).  `switch` and
  `processing` are the other keys.
* `phase` follows `afterPropertiesSet()`: the switch is checked (`CheckSwitch`),
  written (`WriteSwitch`), the key registered (`Register`), the view read
  (`InitData`).  A failed call ends it (`StartFails`) and the worker runs on
  without view and watch; a failed call is taken to have had no effect on etcd.
  The first lines of `registerWorker()` (114-115) look for a key that never
  exists, so they do nothing.
* `watch` starts after the read, on another thread (`StartWatch`).  `events` are
  those the watch has not handled; `HandleEvent` and `ClearKeys` are the two
  halves of the callback: `clearing` holds the lost worker whose process keys are
  about to be deleted.  `StartsWith` says which addresses begin with which.
* `unseen` is a history variable: the keys that changed between the read of a
  worker and the start of its watch (all keys, if it has none); `dropped` is one
  too: the workers whose key etcd has dropped with its lease.
* `Take` and `Give` condense what the timers of `TaskDispatch` do with a service
  that changes hands, with its process key, into one step each.
* `Crash`, `Expire` and `LoseLease` are the process, the lease of a dead process,
  and the lease of a live one whose beats are late.  The last needs a worker that
  has started: the lease lasts 30 seconds, starting takes less.

### Console and Commands

One action per gesture of the administrator, per step of the server, and per
answer.  JavaScript runs a handler to its end, so each is one step.

* `database` is etcd: per identifier of a task or a cluster what is stored.
  `listed` is the cached copy, which `Refresh` brings up to date.  Operation ids,
  forwarding and dispatch are in `TaskDispatch`.
* A command is two steps of the server, with any others in between: `Read`
  (`TaskUpdateProcessor:69`, `TaskAddProcessor:55-73`, `ClusterAddProcessor:66`)
  refuses it, finds nothing to do or goes on to `Execute`, the write (line 86, and
  its like), whatever is stored by then; a deletion only writes.  The reads of
  `addTask`, of two clusters and then the task, are one step.  A read that fails
  finds nothing (`ReadNothing`).  `LoseCommand` fails on the way there or back.
* `Outcome` is the interceptor (`request.js:12`): an answer is rejected only if
  `success` is false and the code is not `SUCCESS`.  The code starts as `SUCCESS`
  (`BaseResult:32`), and only a `SkyWalkerException` changes it: a refusal is
  rejected, while a write that fails (`Execute`) and any other exception (`Break`)
  count as successes.  `MaxUnnoticed` bounds these two.
* A suspension that a peer executes late is a change nobody here asked for, like
  those of another administrator (`Others`): it may store anything.
* `page`, `pageNum`, `loading`, `search` and `kept` are the state of the mounted
  page and of its add form; `Navigate` unmounts it, and what its requests answer
  later changes the store but not the page (`mine`).
* `store` is the redux store: per kind of list the rows and the number of pages
  of the last answer that arrived, and (only for the properties) what it was
  asked with (`of`).
* `lists` and `commands` are requests under way, in slots.  `OnMount` is what a
  page and its add form ask when they are mounted, in the order of React: the
  child first.  `TurnPage` is `turnPage()`, the continuation of pager, search and
  every command that succeeds.
* `dialog` is the confirmation or the form that is open.  A confirmation holds
  the command it asks for and whether the table had one row when it was opened
  (`clusterModels` of the closure); after OK it waits for the command in `slot`.
* A form is filled in whole: `kept` is what its state holds, which outlives the
  dialog, while `Save` submits it.  A form that was never filled in is refused by
  the server (`SaveEmpty`).
* `stale` and `unseen` are history variables: what was received last of a kind is
  not a current answer to the last request, and a change happened that no request
  of the page follows.  `ShowsTheStore` and `NamesKnown` except exactly these: a
  list that was overtaken, lost, or read from an old copy stays until the next
  one, and the code does nothing about it.  `message.done` and `done` of a command
  say whether it was carried out.

`Commands` keeps what is stored, which commands are pending and what became of them
(given, found, executed, failed, refused), the command whose success was told last,
and how many failures were not told.  Under the mapping of `Promise` a click that
sends a command is `Give`, `Read` is `Find`, `FindDone` or `Refuse`, `Execute` is
`Execute` or `FailUntold`, `Break` is `FailUntold`, the message is `Tell`, the end of
any other command is `Forget`, and all the rest (navigation, lists, dialogs) is
stuttering.  It promises that a command changes a task only if it found it, at most
once, and that success is told only of a command that was executed or that a failure
the server hid kept from it, each such failure counted.  It does not promise that a
deleted task stays deleted: a resumption that has read the task writes it back after
a deletion in between.

### Mutated forms

Mutated forms of some definitions stand beside them (`MarkTask`,
`UnmarkNothing`, `ConcernsOwner`, `UnbelongsAll`,
`WriteUnseen`, `SameOperation`, `AnsweredAtOnce` in `TaskDispatch`; `NotAdded`,
`AddedEmpty`, `Kept`, `RemovedAny`, `ClearsAll` in `WorkerRegistry`;
`NodeAtUnordered`, `TailMapExclusive` in `ConsistentHash`; `OnMountAlone`,
`OnMountUnheard`, `AskedBefore`, `AcceptsMissing`, `StillWaiting`,
`PageBefore` in `Console`): bugs that the
properties must detect, never used by the specifications.

## Runs

| Run | Question | Bounds |
|---|---|---|
| `dispatch_rebalance` | `FinishedIsSubscribed`, types: a marked running task is subscribed; `OwnerSynchronises` (liveness): the worker that stays owner takes it over, also if it came back in the middle of a clean-up | timers query, special, clean; 1 operation, 3 changes of view or switch, 1 restart |
| `dispatch_settles` | `FinishedIsSubscribed`, `OwnerSynchronises`, and `SuspensionReachesAll` (liveness), while the task is suspended, deleted, added again and changes hands | timers query and clean; 2 operations, 1 change; requests to worker 2, so that worker 1 hears of a suspension from it, if at all |
| `dispatch_forward` | `SuspendedOnRequest`: with answers in time, only a pending request suspends; `FinishedIsSubscribed` with longer histories | timers query and special; requests to either worker, one at a time, views that do not change; 4 operations |
| `dispatch_faults` | `OneCommandPerOperation`, `NewCommandIsUnfinished`, `CacheCoherent`; `FinishedIsSubscribed`, also after marks are dropped on a stale list | timers query, special, exceed; parallel requests, 1 failure, 1 restart, 2 operations |
| `ring` | `OwnerIsNearest`, `NothingShared`, `LittleMoves`: `getNode()` against its definition, and what the registry relies on | 3 nodes, 1 or 2 replicas each, 5 positions: every ring, collisions and wrap-around included |
| `registry_views` | `ViewCoherent`, `SelfInView`, `OneOwner`, `SomeOwner`, types; `KeysOutlastOthers`, where one address begins with the other; `TakenOver` (liveness) | 2 workers, 2 starts each, 1 failure, 1 lost lease |
| `console_pages` | `ShowsTheStore`, `NamesKnown`, `WaitsForItsCommand`, types; `KeepsPromise` (refinement); `SpinnerEnds` (liveness) | 2 tasks, 2 clusters, pages of one row; 2 clicks, 3 lists and 2 commands under way; 1 lost request, empty list, failure shown as a success, or change by another administrator |
| `dispatch_zombie`, `dispatch_release`, `dispatch_late_forward`, `registry_prefix`, `console_claims` | counterexamples, below | |

For the dispatch, two workers and one task suffice for these questions: the actions of a worker on
different tasks touch disjoint entries, and a peer that serves requests and may
be in view or not is all a worker notices of the others.  Worker 1 runs the
timers; worker 2 owns the service whenever it is in view.  Two operations are a
task and one change of it (add, suspend); three also a resumption; four leave
room for a command nobody asked for.  One change of view is enough to gain or to
lose the task (views start in every combination), three to gain it, lose it and gain
it back.  Each run leaves out the timers that add little to its question:
`SpecialSyncEventTimer` only adds subscriptions, `CleanUnBelongTaskTimer` gives
nothing up while views stay, `CleanExceedOperationIdTimer` only takes marks away.
The two counterexamples about subscriptions have the first two.
`CHECK_DEADLOCK FALSE`: a run ends when its bounds are spent.

For the registry, two workers see each other come, go and come again: a second
start of an address meets its own old key and the lease that still runs.
`KeysOutlastOthers` claims nothing of a worker once etcd has dropped its own key, or
that of a worker whose address its own begins with: the other workers may still clear
the keys of the old process after it has started again, and take those of the new one
with them.  `KeysFollowMarks`, what the comment of line 83 says, claims nothing only
in the first case, and `registry_prefix` violates it.
`OneOwner` speaks of registered workers: one
whose lease was lost goes on seeing itself and owning its services beside their
new owners, as `SelfInView` implies.  `SomeOwner` excepts workers that missed an
event between their read and their watch: a worker lost in that gap stays in their
views, and the services it owned are run by nobody until they restart.

For the console, pages of one row make two rows two pages; two clicks are enough
for two commands on one task, for a command and a turn of the page, and for one
after a change of page.  A page asks for up to three lists when it opens, which
is also how many may be under way: enough for a list that is overtaken by another
of its kind.  One fault may come anywhere, between the read and the write of a
command included; more than one adds histories in which `stale` or `unseen` hold.
`SpinnerEnds` excepts runs with a failed request: a
list that fails leaves the spinner until the administrator does something else.
`SuccessMeansDone`, what the messages say, is not kept: `console_claims` shows it.

Failures are excluded from `dispatch_rebalance`, `dispatch_settles` and
`dispatch_forward` because the code does not keep their properties under them: the
listener ignores that `sync()` failed (`EventListener:78`), and a call that times out
breaks `SuspendedOnRequest` (`dispatch_late_forward`).  `FinishedIsSubscribed` says
"as long as no call failed"; in `dispatch_faults` it speaks of the histories until
then.

Beyond these bounds the code does not keep `FinishedIsSubscribed`, and TLC finds two
histories that end with a worker that marked a running task and does not synchronise
it:

* With the timers query, clean and exceed, one change of view suffices.
  `QuerySyncTaskTimer` takes a marked task that the worker owns (line 99); the view
  loses it, `CleanUnBelongTaskTimer` lists its command, and
  `CleanExceedOperationIdTimer` drops the mark on a list read before; now line 101
  finds no mark.  The command is dispatched while it is given up: subscribed,
  unsubscribed, unmarked, and marked last.  No run has these timers together with a
  change of view.
* With 2 operations and 2 changes: a worker loses a task and lists it to be given up;
  the task is deleted and added again, comes back, is dispatched and marked;
  `CleanUnBelongTaskTimer`, which does not ask a second time who owns it, then
  unsubscribes it and removes the mark of the old command.  The new one stays marked,
  so that the owner never synchronises the task again, against `OwnerSynchronises`
  too.  A task with one command may come and go at will (`dispatch_rebalance`).

No document promises either, so they are no findings.

Fairness (`FairSpec`): timers are periodic, threads are scheduled, requests in
progress continue, watches deliver and cache entries expire.  Administrators,
restarts, changes of view and of the switch are never forced.  In the registry,
likewise, what has begun goes on (starting, watching, taking and giving) and a
lease nobody renews expires; starts, crashes and lost leases are never forced.  In the console, a list that was
asked for is served and its answer delivered (axios sets no timeout, and a
connection that breaks is a failure); nothing is assumed of commands, gestures or
other administrators.

### What the counterexamples show

* `dispatch_zombie`: a `sync()` in flight when a task is suspended subscribes it
  again after the deletion; the suspended task goes on being synchronised.
* `dispatch_release`: the same race with `CleanUnBelongTaskTimer`: two workers
  go on synchronising one task.
* `dispatch_late_forward`: a forwarded suspension that timed out is executed
  after the task was resumed, and suspends it again.
* `console_claims`: a put or delete that etcd refuses is logged and answered as a
  success, and an exception the server did not expect is answered with the code of
  one; the console tells the administrator that the command succeeded.
* `registry_prefix`: when 10.0.0.1 is lost, the process keys of 10.0.0.12 go too.

## Proofs

`TaskDispatchProofs` proves for all constants (any sets of workers, tasks and
timers, any ring, any bounds):

* `TypeCorrect`: `Spec => []TypeOK`.
* `CommandsNamed`: `Spec => []OneCommandPerOperation`, and `NewCommandsRun`:
  `Spec => NewCommandIsUnfinished`.  Neither is inductive alone: the invariant
  `CommandsInv` adds that every copy of a record and every mark bears an operation
  id below `nextOperation`.  The argument follows the copies: `CopiesNextIn`
  says that a step leaves no copy but those of a set, one lemma per group of
  actions shows that for the copies there were, and `CopiesWrite` that `addTask`
  alone makes one more.  `CommandStep` sums this up: every step is `NothingNew`
  or `NewCommand`.
* `CachesCoherent`: `Spec => []CacheCoherent`, inductive given the types.

`TaskRequestProofs` proves, also for all constants:

* `SuspendedByRequest`: `TimelySpec => SuspendedOnRequest`, with any failures,
  restarts, changes of view and parallel requests.  `TimelyInv`: only suspensions
  are forwarded, and while a peer serves a request its sender waits for it.

`ConsistentHashProofs` proves of every ring (`Ring`: a finite view that is not
empty, positions that are integers bounded below):

* `OwnerInView`: the owner is a worker of the view.
* `SeenShareNothing`: two workers whose views contain each other never both own a
  service.
* `MinimalDisruption`: a worker that joins takes services only for itself, one
  that leaves gives up only its own.

All three rest on `OwnerIsFirst`: the owner holds a position with no position of
the view before it clockwise, and is the last worker that does.  Two owners that
see each other then hold each the first position among those of both.

`RingProofs` proves of the ring of `MCConsistentHash`, for any nodes and any circle,
collisions included:

* `OwnersNearest` (`OwnerIsNearest`): `getNode()` returns the node whose first
  replica follows the hash most closely.
* `NeverShared` (`NothingShared`) and `LittleMoved` (`LittleMoves`), from the
  theorems above: `ViewsMakeRings` shows that what nodes make of a circle by
  joining and leaving is a `Ring` (`RingInv`).

`WorkerRegistryProofs` proves for any workers, services, ring and bounds:

* `RegistryTypeCorrect`: `Spec => []TypeOK`.
* `ViewsFollow` (`ViewCoherent`) and `SeesItself` (`SelfInView`).  The invariant
  `RegistryInv` adds `PhasesAgree`: a worker that reads is registered, one that
  watches sees itself, one that runs without a watch has missed everything, and
  no events wait where nothing watches.  `AppendSees` and `HeadSees` say what an
  event at either end of the queue makes of a view.
* `OwnersAlone` (`OneOwner`) and `OwnersExist` (`SomeOwner`): by `CurrentSees` a
  registered worker that is up to date sees exactly the registered workers, so all
  evaluate one ring, whose owner, by `OwnerInView`, is one of them.
* `KeysKept` (`KeysOutlastOthers`), for any addresses and through restarts.  The
  invariant `KeysInv` adds `HearsOfDropped`: a worker hears of the loss of another, in
  an event or a callback under way, only once etcd has dropped its key.  So until etcd
  drops the key of a worker whose address its own begins with, nothing under way is
  about to clear its process keys.

`ConsoleProofs` proves for any tasks, clusters, texts, page sizes and bounds:

* `ConsoleTypeCorrect`: `SafeSpec => []TypeOK`; in particular a page never asks
  for page 0.
* `DialogsWait`: `SafeSpec => []WaitsForItsCommand`, inductive given the types.
* `ConsoleKeepsPromise` (`KeepsPromise`): `SafeSpec` implements `Commands`, with any
  failures, told or not.  The lemma `Steps` sorts the steps of the console into those
  that touch a command, the store or a message and all others; `ServerImplements`
  maps what the server does to a command to a step of `Commands`, and
  `ImplementsStep` every step to one or to none.  It needs no more than the types:
  what was found, executed or failed is in the stage of a command.

`ConsoleListProofs` proves, for the same constants and with any faults:

* `ListsRight`: `SafeSpec => []Lists`, three invariants proved together.
  `OfItsKind`: rows, confirmations and commands of the mounted page are of its kind.
  `ListsFollow`: per kind, the list that is awaited (under way and not superseded),
  or else the one shown, is what the page needs: its page number, or all clusters.
  `Fresh`: as long as no change of a kind remains to be seen, a current answer, on
  its way or shown, is what etcd holds.  `Placed` shows that every request finds a
  free slot, `SentLists` what is in the slots then, `ListSteps` sorts the steps by
  what they do to the lists, and `QuietStep` says that a step that leaves nothing to
  be seen changed nothing, or asked for the list again.
* `StoreShown` (`ShowsTheStore`) and `ClustersNamed` (`NamesKnown`), which follow
  from `Lists` in a state where nothing is under way.

`SafeSpec` is the specification without fairness.

Assumptions: `OrdersAssumption` and `ConsoleAssumption` (identifiers are finitely
many naturals, of a task or a cluster; page sizes are not 0; a search for no text
finds every cluster, and the page that asks for all clusters is large enough for
them) in `Orders` and `Console`; `ConstantsAssumption` and `NoTaskAssumption` (a missing task is not
a record) in `TaskDispatch`; `RegistryAssumption` and `RingAssumption` (addresses
are ordered and have a last, each worker has a replica, hashes are bounded below,
as ints are) in `WorkerRegistry`.  The runs evaluate them.

`CircleAssumption` (the positions are consecutive integers, the nodes naturals
with a last) is the one of `MCConsistentHash`.  `TimelySpec` is the hypothesis of
`SuspendedByRequest`: the code does not ensure it (`dispatch_late_forward`).

Only model-checked: `FinishedIsSubscribed`, and the liveness properties (`SuspensionReachesAll`,
`OwnerSynchronises`, `TakenOver`, `SpinnerEnds`), which are out of the prover's
reach.

## State of the plan

Done: the ring, the dispatch, the registry and the console, their proofs, the
abstract specification of commands and its refinement.

Left: an abstract life of a task (running on its owner, suspended everywhere)
implemented by `TaskDispatch`; a proof of
`FinishedIsSubscribed` under hypotheses that exclude no more than the two histories
above.

## Not modelled

* Zookeeper sharding and the etcd lock (a twin of the etcd sharding, and unused),
  the cluster merge (its timer is disabled), metrics, constants, data classes,
  vendored helpers.
* The instances and heartbeats that the sync services write in a registry, and
  the listeners of Nacos and Zookeeper: their behaviour is that of client
  libraries (threads, order and number of callbacks) that the repository does not
  contain, so a model would rest on guesses.  The hazards of these classes are
  listed in `PROJECT.json` with the reason for each.
* In the console: languages, the settings page that no route leads to, the list
  of cluster types, the back button, a form that is filled in by halves, and a
  reload, which starts the console anew.
