------------------------ MODULE TaskDispatchProofs ------------------------
(* What is proved about TaskDispatch, for every set of workers, of tasks   *)
(* and of timers, every ring and every bound: first that its states are    *)
(* well typed, then that an operation id names one command.                *)
EXTENDS TaskDispatch, TLAPS

----------------------------------------------------------------------------
(* Type correctness.                                                       *)

LEMMA ThreadNames ==
    /\ "query" \in Threads /\ "special" \in Threads /\ "clean" \in Threads
    /\ Handlers \subseteq Threads /\ Slots \subseteq Handlers
    /\ "console" \in Slots /\ "peer" \in Slots
BY DEF Threads, Handlers, Slots

LEMMA TypeInit == Init => TypeOK
<1> SUFFICES ASSUME Init PROVE TypeOK
  OBVIOUS
<1>1. job \in [Nodes -> [Threads -> Job]]
  BY DEF Init, NoJobs, Job
<1>2. http \in [Nodes -> [Slots -> Request]]
  BY DEF Init, NoRequests, Request
<1>3. todo \in [Nodes -> ToDo]
  BY DEF Init, NothingToDo, ToDo
<1>4. cached \in [Nodes -> CachedList]
  BY DEF Init, NotCached, CachedList
<1>5. budget \in Budget
  BY ConstantsAssumption DEF Init, Budget
<1>6. registry \in [Nodes -> [Tasks -> Record \cup {NoTask}]]
  BY DEF Init, NoSubscription
<1>7. nodeCaches \in [Nodes -> SUBSET Nodes]
  BY DEF Init
<1>8. nextOperation \in 1..(MaxOperation + 1)
  BY ConstantsAssumption DEF Init
<1> QED
  BY <1>1, <1>2, <1>3, <1>4, <1>5, <1>6, <1>7, <1>8 DEF Init, TypeOK

(* What the actions share keeps the types. *)
LEMMA JobsGo ==
    ASSUME TypeOK, NEW n \in Nodes, NEW k \in Threads, NEW step \in Steps,
           NEW rec \in Record, Goes(n, k, step, rec)
    PROVE  job' \in [Nodes -> [Threads -> Job]]
BY DEF TypeOK, Goes, At, Job

LEMMA JobsEnd ==
    ASSUME TypeOK, NEW n \in Nodes, NEW k \in Threads, Ends(n, k)
    PROVE  job' \in [Nodes -> [Threads -> Job]]
BY DEF TypeOK, Ends, Job

LEMMA JobsRecord ==
    ASSUME TypeOK, NEW n \in Nodes, NEW k \in Threads, job[n][k].step \in Steps
    PROVE  job[n][k].rec \in Record
BY DEF TypeOK, Job, Idle, Steps

LEMMA RequestsServed ==
    ASSUME TypeOK, NEW n \in Nodes, NEW k \in Slots, NEW request \in Request,
           Serves(n, k, request)
    PROVE  http' \in [Nodes -> [Slots -> Request]]
BY DEF TypeOK, Serves

LEMMA RequestMade ==
    ASSUME TypeOK, NEW n \in Nodes, NEW k \in Slots, http[n][k].step # "none"
    PROVE  http[n][k] \in [step : {"read", "write", "event", "forward"},
                           task : Tasks, want : Wants, peers : SUBSET Nodes,
                           waiting : SUBSET Nodes]
BY DEF TypeOK, Request, NoRequest

LEMMA BudgetSpent ==
    ASSUME TypeOK, Works \/ Fails \/ Changes
    PROVE  budget' \in Budget
<1>1. budget \in Budget
  BY DEF TypeOK
<1>2. CASE Works
  BY <1>1, <1>2 DEF Works
<1>3. CASE Fails
  <2>1. /\ budget.failures \in 0..MaxFailures /\ budget.failures > 0
        /\ MaxFailures \in Nat
    BY <1>1, <1>3, ConstantsAssumption DEF Fails, Budget
  <2>2. budget.failures - 1 \in 0..MaxFailures
    BY <2>1
  <2> QED
    BY <1>1, <1>3, <2>2 DEF Fails, Budget
<1>4. CASE Changes
  <2>1. /\ budget.changes \in 0..MaxChanges /\ budget.changes > 0
        /\ MaxChanges \in Nat
    BY <1>1, <1>4, ConstantsAssumption DEF Changes, Budget
  <2>2. budget.changes - 1 \in 0..MaxChanges
    BY <2>1
  <2> QED
    BY <1>1, <1>4, <2>2 DEF Changes, Budget
<1> QED
  BY <1>2, <1>3, <1>4

LEMMA ListTyped ==
    ASSUME TypeOK, NEW n \in Nodes, NEW list \in Lists(n), TaskList(n, list)
    PROVE  /\ list \subseteq Record
           /\ cached' \in [Nodes -> CachedList]
           /\ budget' \in Budget
<1>1. list \subseteq Record
  BY DEF Lists, TypeOK, CachedList, Stored
<1>2. [valid |-> TRUE, list |-> list] \in CachedList
  BY <1>1 DEF CachedList
<1>3. \/ cached' = cached
      \/ cached' = [cached EXCEPT ![n] = [valid |-> TRUE, list |-> list]]
  BY DEF TaskList
<1>4. cached' \in [Nodes -> CachedList]
  BY <1>2, <1>3 DEF TypeOK
<1> QED
  BY <1>1, <1>4, BudgetSpent DEF TaskList

(* The marks, the process keys, the subscriptions and the tree of tasks. *)
LEMMA RegistryTyped ==
    ASSUME TypeOK, NEW n \in Nodes, NEW task \in Tasks,
           NEW rec \in Record \cup {NoTask}
    PROVE  [registry EXCEPT ![n][task] = rec]
              \in [Nodes -> [Tasks -> Record \cup {NoTask}]]
<1>1. registry \in [Nodes -> [Tasks -> Record \cup {NoTask}]]
  BY DEF TypeOK
<1> QED
  BY <1>1

LEMMA MarksTyped ==
    ASSUME TypeOK, NEW n \in Nodes, NEW rec \in Record
    PROVE  /\ [finished EXCEPT ![n] = @ \cup {rec.op}]
                 \in [Nodes -> SUBSET Operations]
           /\ [finished EXCEPT ![n] = @ \ {rec.op}]
                 \in [Nodes -> SUBSET Operations]
           /\ [processing EXCEPT ![n] = @ \cup {ServiceName[rec.task]}]
                 \in [Nodes -> SUBSET Services]
           /\ [processing EXCEPT ![n] = @ \ {ServiceName[rec.task]}]
                 \in [Nodes -> SUBSET Services]
BY DEF TypeOK, Record, Services

LEMMA ToDosTyped ==
    ASSUME TypeOK, NEW n \in Nodes, NEW rest \in ToDo,
           todo' = [todo EXCEPT ![n] = rest]
    PROVE  todo' \in [Nodes -> ToDo]
BY DEF TypeOK

LEMMA MeetsTyped ==
    ASSUME TypeOK, NEW n \in Nodes, NEW rec \in Record, Meets(n, rec)
    PROVE  /\ todo' \in [Nodes -> ToDo]
           /\ \A m \in Nodes : todo'[m].query = todo[m].query
<1>1. CASE UNCHANGED todo
  BY <1>1 DEF TypeOK
<1>2. CASE todo' = [todo EXCEPT ![n].scan = @ \cup {rec.op}]
  <2>1. /\ [todo[n] EXCEPT !.scan = @ \cup {rec.op}] \in ToDo
        /\ [todo[n] EXCEPT !.scan = @ \cup {rec.op}].query = todo[n].query
    BY DEF TypeOK, ToDo, Record
  <2>2. todo' = [todo EXCEPT ![n] = [todo[n] EXCEPT !.scan = @ \cup {rec.op}]]
    BY <1>2
  <2> QED
    BY <2>1, <2>2, ToDosTyped DEF TypeOK
<1> QED
  BY <1>1, <1>2 DEF Meets

LEMMA WriteTyped ==
    ASSUME TypeOK, NEW task \in Tasks, NEW rec \in Record \cup {NoTask},
           Write(task, rec)
    PROVE  /\ store' \in [Tasks -> Record \cup {NoTask}]
           /\ invalidation' \in [Nodes -> {"none", "coming", "missed"}]
BY DEF TypeOK, Write

LEMMA TypeNext == TypeOK /\ [Next]_vars => TypeOK'
<1> SUFFICES ASSUME TypeOK, [Next]_vars PROVE TypeOK'
  OBVIOUS
<1> DEFINE JobTyped == job' \in [Nodes -> [Threads -> Job]]
<1> DEFINE HttpTyped == http' \in [Nodes -> [Slots -> Request]]
<1> DEFINE ToDoTyped == todo' \in [Nodes -> ToDo]
<1>1. ASSUME NEW n \in Nodes, QueryList(n) PROVE TypeOK'
  <2>1. PICK list \in Lists(n) :
           TaskList(n, list) /\ todo' = [todo EXCEPT ![n].query = list]
    BY <1>1 DEF QueryList
  <2>2. /\ list \subseteq Record /\ budget' \in Budget
        /\ cached' \in [Nodes -> CachedList]
    BY <2>1, ListTyped
  <2>3. ToDoTyped
    <3>1. [todo[n] EXCEPT !.query = list] \in ToDo
      BY <2>2 DEF TypeOK, ToDo
    <3> QED
      BY <2>1, <3>1, ToDosTyped
  <2> QED
    BY <1>1, <2>2, <2>3 DEF QueryList, TypeOK, etcd, memory
<1>2. ASSUME NEW n \in Nodes, NEW rec \in todo[n].query, QueryTake(n, rec)
      PROVE  TypeOK'
  <2>1. rec \in Record
    BY DEF TypeOK, ToDo
  <2>2. JobTyped
    BY <1>2, <2>1, JobsGo, ThreadNames DEF QueryTake, TypeOK, Steps
  <2>3. ToDoTyped
    <3>1. [todo[n] EXCEPT !.query = todo[n].query \ {rec}] \in ToDo
      BY DEF TypeOK, ToDo
    <3>2. todo' = [todo EXCEPT ![n] =
                     [todo[n] EXCEPT !.query = todo[n].query \ {rec}]]
      BY <1>2 DEF QueryTake
    <3> QED
      BY <3>1, <3>2, ToDosTyped
  <2> QED
    BY <1>2, <2>2, <2>3 DEF QueryTake, TypeOK, etcd, lists, memory
<1>30. ASSUME NEW n \in Nodes, QueryCheck(n) PROVE TypeOK'
  <2>1. job[n]["query"].rec \in Record
    BY <1>30, JobsRecord, ThreadNames DEF QueryCheck, Steps
  <2>2. JobTyped
    BY <1>30, <2>1, JobsGo, JobsEnd, ThreadNames DEF QueryCheck, Steps
  <2> QED
    BY <1>30, <2>2 DEF QueryCheck, TypeOK, etcd, lists, memory
<1>3. ASSUME NEW n \in Nodes, NEW task \in Tasks, SpecialTake(n, task)
      PROVE  TypeOK'
  <2>1. registry[n][task] \in Record
    BY <1>3 DEF SpecialTake, TypeOK
  <2>2. JobTyped
    BY <1>3, <2>1, JobsGo, ThreadNames DEF SpecialTake, Steps
  <2> QED
    BY <1>3, <2>2 DEF SpecialTake, TypeOK, etcd, lists, memory
<1>4. ASSUME NEW n \in Nodes, NEW k \in Threads, Subscribe(n, k)
      PROVE  TypeOK'
  <2> DEFINE rec == job[n][k].rec
  <2>1. rec \in Record
    BY <1>4, JobsRecord DEF Subscribe, Steps
  <2>2. JobTyped
    BY <1>4, <2>1, JobsGo, JobsEnd DEF Subscribe, Steps
  <2>3. registry' \in [Nodes -> [Tasks -> Record \cup {NoTask}]]
    <3>1. \/ registry' = registry
          \/ registry' = [registry EXCEPT ![n][rec.task] = rec]
      BY <1>4 DEF Subscribe
    <3>2. rec.task \in Tasks
      BY <2>1 DEF Record
    <3>3. registry \in [Nodes -> [Tasks -> Record \cup {NoTask}]]
      BY DEF TypeOK
    <3> HIDE DEF rec
    <3> QED
      BY <2>1, <3>1, <3>2, <3>3, RegistryTyped
  <2>4. budget' \in Budget
    BY <1>4, BudgetSpent DEF Subscribe
  <2> QED
    BY <1>4, <2>2, <2>3, <2>4 DEF Subscribe, TypeOK, etcd, lists
<1>5. ASSUME NEW n \in Nodes, FinishSync(n) PROVE TypeOK'
  <2>1. job[n]["query"].rec \in Record
    BY <1>5, JobsRecord, ThreadNames DEF FinishSync, Steps
  <2>2. JobTyped
    BY <1>5, JobsEnd, ThreadNames DEF FinishSync
  <2>3. budget' \in Budget
    BY <1>5, BudgetSpent DEF FinishSync
  <2>4. /\ finished' \in [Nodes -> SUBSET Operations]
        /\ processing' \in [Nodes -> SUBSET Services]
    <3> DEFINE rec == job[n]["query"].rec
    <3>1. \/ UNCHANGED <<finished, processing>>
          \/ /\ processing' = [processing EXCEPT ![n] =
                                  @ \cup {ServiceName[rec.task]}]
             /\ finished' = [finished EXCEPT ![n] = @ \cup {rec.op}]
      BY <1>5 DEF FinishSync, Mark
    <3>2. rec \in Record
      BY <2>1
    <3>3. /\ finished \in [Nodes -> SUBSET Operations]
          /\ processing \in [Nodes -> SUBSET Services]
      BY DEF TypeOK
    <3> HIDE DEF rec
    <3> QED
      BY <3>1, <3>2, <3>3, MarksTyped
  <2>5. ToDoTyped
    BY <1>5, <2>1, MeetsTyped DEF FinishSync, TypeOK
  <2> QED
    BY <1>5, <2>2, <2>3, <2>4, <2>5 DEF FinishSync, TypeOK, lists
<1>6. ASSUME NEW n \in Nodes, NEW k \in Threads, Unsubscribe(n, k)
      PROVE  TypeOK'
  <2>1. job[n][k].rec \in Record
    BY <1>6, JobsRecord DEF Unsubscribe, Steps
  <2>2. JobTyped
    BY <1>6, <2>1, JobsGo, JobsEnd DEF Unsubscribe, Steps
  <2>3. registry' \in [Nodes -> [Tasks -> Record \cup {NoTask}]]
    <3> DEFINE rec == job[n][k].rec
    <3>1. \/ registry' = registry
          \/ registry' = [registry EXCEPT ![n][rec.task] = NoTask]
      BY <1>6 DEF Unsubscribe
    <3>2. rec.task \in Tasks
      BY <2>1 DEF Record
    <3>3. registry \in [Nodes -> [Tasks -> Record \cup {NoTask}]]
      BY DEF TypeOK
    <3> HIDE DEF rec
    <3> QED
      BY <3>1, <3>2, <3>3, RegistryTyped
  <2>4. budget' \in Budget
    BY <1>6, BudgetSpent DEF Unsubscribe
  <2> QED
    BY <1>6, <2>2, <2>3, <2>4 DEF Unsubscribe, TypeOK, etcd, lists
<1>7. ASSUME NEW n \in Nodes, NEW k \in Threads, FinishDelete(n, k)
      PROVE  TypeOK'
  <2>1. job[n][k].rec \in Record
    BY <1>7, JobsRecord DEF FinishDelete, Steps
  <2>2. JobTyped
    BY <1>7, JobsEnd DEF FinishDelete
  <2>3. budget' \in Budget
    BY <1>7, BudgetSpent DEF FinishDelete
  <2>4. /\ finished' \in [Nodes -> SUBSET Operations]
        /\ processing' \in [Nodes -> SUBSET Services]
    <3> DEFINE rec == job[n][k].rec
    <3>1. \/ UNCHANGED <<finished, processing>>
          \/ /\ processing' = [processing EXCEPT ![n] =
                                  @ \ {ServiceName[rec.task]}]
             /\ finished' = [finished EXCEPT ![n] = @ \cup {rec.op}]
      BY <1>7 DEF FinishDelete, Mark
    <3>2. rec \in Record
      BY <2>1
    <3>3. /\ finished \in [Nodes -> SUBSET Operations]
          /\ processing \in [Nodes -> SUBSET Services]
      BY DEF TypeOK
    <3> HIDE DEF rec
    <3> QED
      BY <3>1, <3>2, <3>3, MarksTyped
  <2>5. ToDoTyped
    BY <1>7, <2>1, MeetsTyped DEF FinishDelete, TypeOK
  <2> QED
    BY <1>7, <2>2, <2>3, <2>4, <2>5 DEF FinishDelete, TypeOK, lists
<1>8. ASSUME NEW n \in Nodes, CleanScan(n) PROVE TypeOK'
  <2>1. ToDoTyped
    <3>1. [todo[n] EXCEPT !.scan = finished[n]] \in ToDo
      BY DEF TypeOK, ToDo
    <3> QED
      BY <1>8, <3>1, ToDosTyped DEF CleanScan
  <2> QED
    BY <1>8, <2>1 DEF CleanScan, TypeOK, etcd, lists, memory
<1>31. ASSUME NEW n \in Nodes, NEW op \in todo[n].scan, CleanLookup(n, op)
       PROVE  TypeOK'
  <2>1. ToDoTyped
    <3>1. [todo[n] EXCEPT !.scan = @ \ {op}] \in ToDo
      BY DEF TypeOK, ToDo
    <3>2. todo' = [todo EXCEPT ![n] = [todo[n] EXCEPT !.scan = @ \ {op}]]
      BY <1>31 DEF CleanLookup
    <3> QED
      BY <3>1, <3>2, ToDosTyped
  <2>2. CASE UNCHANGED <<cached, job, budget>>
    BY <1>31, <2>1, <2>2 DEF CleanLookup, TypeOK, etcd, memory
  <2>3. ASSUME NEW list \in Lists(n), TaskList(n, list),
               \/ UNCHANGED job
               \/ \E rec \in list : Goes(n, "clean", "test", rec)
        PROVE  TypeOK'
    <3>1. /\ list \subseteq Record /\ budget' \in Budget
          /\ cached' \in [Nodes -> CachedList]
      BY <2>3, ListTyped
    <3>2. JobTyped
      BY <2>3, <3>1, JobsGo, ThreadNames DEF TypeOK, Steps
    <3> QED
      BY <1>31, <2>1, <3>1, <3>2 DEF CleanLookup, TypeOK, etcd, memory
  <2> QED
    BY <1>31, <2>2, <2>3 DEF CleanLookup
<1>32. ASSUME NEW n \in Nodes, CleanTest(n) PROVE TypeOK'
  <2>1. job[n]["clean"].rec.op \in Operations
    BY <1>32, JobsRecord, ThreadNames DEF CleanTest, Steps, Record
  <2>2. JobTyped
    BY <1>32, JobsEnd, ThreadNames DEF CleanTest
  <2>3. ToDoTyped
    <3>1. [todo[n] EXCEPT !.clean = @ \cup {job[n]["clean"].rec.op}] \in ToDo
      BY <2>1 DEF TypeOK, ToDo
    <3>2. \/ UNCHANGED todo
          \/ todo' = [todo EXCEPT ![n] = [todo[n] EXCEPT
                                !.clean = @ \cup {job[n]["clean"].rec.op}]]
      BY <1>32 DEF CleanTest
    <3> QED
      BY <3>1, <3>2, ToDosTyped DEF TypeOK
  <2> QED
    BY <1>32, <2>2, <2>3 DEF CleanTest, TypeOK, etcd, lists, memory
<1>9. ASSUME NEW n \in Nodes, NEW op \in todo[n].clean, CleanTake(n, op)
      PROVE  TypeOK'
  <2>1. PICK list \in Lists(n) :
           /\ TaskList(n, list)
           /\ \/ todo' = [todo EXCEPT ![n].clean = {}] /\ UNCHANGED job
              \/ \E rec \in list :
                    /\ todo' = [todo EXCEPT ![n].clean = @ \ {op}]
                    /\ Goes(n, "clean", "unsubscribe", rec)
    BY <1>9 DEF CleanTake
  <2>2. /\ list \subseteq Record /\ budget' \in Budget
        /\ cached' \in [Nodes -> CachedList]
    BY <2>1, ListTyped
  <2>3. ToDoTyped
    <3>1. /\ [todo[n] EXCEPT !.clean = {}] \in ToDo
          /\ [todo[n] EXCEPT !.clean = @ \ {op}] \in ToDo
      BY DEF TypeOK, ToDo
    <3>2. \/ todo' = [todo EXCEPT ![n] = [todo[n] EXCEPT !.clean = {}]]
          \/ todo' = [todo EXCEPT ![n] = [todo[n] EXCEPT !.clean = @ \ {op}]]
      BY <2>1
    <3> QED
      BY <3>1, <3>2, ToDosTyped
  <2>4. JobTyped
    BY <2>1, <2>2, JobsGo, ThreadNames DEF TypeOK, Steps
  <2> QED
    BY <1>9, <2>2, <2>3, <2>4 DEF CleanTake, TypeOK, etcd, memory
<1>10. ASSUME NEW n \in Nodes, FinishClean(n) PROVE TypeOK'
  <2>1. job[n]["clean"].rec \in Record
    BY <1>10, JobsRecord, ThreadNames DEF FinishClean, Steps
  <2>2. JobTyped
    BY <1>10, JobsEnd, ThreadNames DEF FinishClean
  <2>3. budget' \in Budget
    BY <1>10, BudgetSpent DEF FinishClean
  <2>4. /\ finished' \in [Nodes -> SUBSET Operations]
        /\ processing' \in [Nodes -> SUBSET Services]
    <3> DEFINE rec == job[n]["clean"].rec
    <3>1. \/ UNCHANGED <<finished, processing>>
          \/ /\ processing' = [processing EXCEPT ![n] =
                                  @ \ {ServiceName[rec.task]}]
             /\ finished' = [finished EXCEPT ![n] = @ \ {rec.op}]
      BY <1>10 DEF FinishClean, Unmark
    <3>2. rec \in Record
      BY <2>1
    <3>3. /\ finished \in [Nodes -> SUBSET Operations]
          /\ processing \in [Nodes -> SUBSET Services]
      BY DEF TypeOK
    <3> HIDE DEF rec
    <3> QED
      BY <3>1, <3>2, <3>3, MarksTyped
  <2> QED
    BY <1>10, <2>2, <2>3, <2>4 DEF FinishClean, TypeOK, lists
<1>11. ASSUME NEW n \in Nodes, ExceedList(n) PROVE TypeOK'
  <2>1. PICK list \in Lists(n) :
           /\ TaskList(n, list)
           /\ todo' = [todo EXCEPT ![n].exceeding = TRUE,
                                   ![n].exceed = {rec.op : rec \in list}]
    BY <1>11 DEF ExceedList
  <2>2. /\ list \subseteq Record /\ budget' \in Budget
        /\ cached' \in [Nodes -> CachedList]
    BY <2>1, ListTyped
  <2>3. {rec.op : rec \in list} \subseteq Operations
    BY <2>2 DEF Record
  <2>4. ToDoTyped
    <3>1. [todo[n] EXCEPT !.exceeding = TRUE,
                          !.exceed = {rec.op : rec \in list}] \in ToDo
      BY <2>3 DEF TypeOK, ToDo
    <3> QED
      BY <2>1, <3>1, ToDosTyped
  <2> QED
    BY <1>11, <2>2, <2>4 DEF ExceedList, TypeOK, etcd, memory
<1>12. ASSUME NEW n \in Nodes, ExceedRemove(n) PROVE TypeOK'
  <2>1. ToDoTyped
    <3>1. [todo[n] EXCEPT !.exceeding = FALSE, !.exceed = {}] \in ToDo
      BY DEF TypeOK, ToDo
    <3>2. todo' = [todo EXCEPT ![n] = [todo[n] EXCEPT !.exceeding = FALSE,
                                                      !.exceed = {}]]
      BY <1>12 DEF ExceedRemove
    <3> QED
      BY <3>1, <3>2, ToDosTyped
  <2>2. finished' \in [Nodes -> SUBSET Operations]
    BY <1>12 DEF ExceedRemove, TypeOK
  <2> QED
    BY <1>12, <2>1, <2>2 DEF ExceedRemove, TypeOK, etcd, lists
<1>13. ASSUME NEW n \in Nodes, NEW task \in Tasks, NEW want \in Wants,
              Console(n, task, want)
       PROVE  TypeOK'
  <2>1. Ask(task, want) \in Request
    BY DEF Ask, Request
  <2>2. HttpTyped
    BY <1>13, <2>1, RequestsServed, ThreadNames DEF Console
  <2> QED
    BY <1>13, <2>2 DEF Console, TypeOK, etcd, lists, memory
<1>14. ASSUME NEW n \in Nodes, NEW k \in Slots, HttpRead(n, k) PROVE TypeOK'
  <2>1. PICK rec \in {store[http[n][k].task], NoTask} :
           /\ Works \/ Fails
           /\ \/ /\ \E step \in {"write", "event"} :
                       Serves(n, k, [http[n][k] EXCEPT !.step = step])
                 /\ \/ UNCHANGED job
                    \/ rec # NoTask /\ Goes(n, k, "unsubscribe", rec)
              \/ Serves(n, k, NoRequest) /\ UNCHANGED job
    BY <1>14 DEF HttpRead
  <2>2. /\ http[n][k].task \in Tasks
        /\ \A step \in {"write", "event"} :
              [http[n][k] EXCEPT !.step = step] \in Request
    BY <1>14, RequestMade DEF HttpRead, Request
  <2>3. HttpTyped
    BY <2>1, <2>2, RequestsServed DEF Request
  <2>4. rec \in Record \cup {NoTask}
    BY <2>1, <2>2 DEF TypeOK
  <2>5. JobTyped
    BY <2>1, <2>4, JobsGo, ThreadNames DEF TypeOK, Steps
  <2>6. budget' \in Budget
    BY <2>1, BudgetSpent
  <2> QED
    BY <1>14, <2>3, <2>5, <2>6 DEF HttpRead, TypeOK, etcd, lists, memory
<1>15. ASSUME NEW n \in Nodes, NEW k \in Slots, HttpWrite(n, k) PROVE TypeOK'
  <2> DEFINE rec == [task |-> http[n][k].task, op |-> nextOperation,
                     status |-> IF http[n][k].want = "DELETE" THEN "DELETE"
                                                              ELSE "SYNC"]
  <2>1. /\ http[n][k].task \in Tasks
        /\ [http[n][k] EXCEPT !.step = "event"] \in Request
    BY <1>15, RequestMade DEF HttpWrite, Request
  <2>2. nextOperation \in Operations /\ nextOperation + 1 \in 1..(MaxOperation + 1)
    BY <1>15, ConstantsAssumption
       DEF HttpWrite, NewOperation, TypeOK, Operations
  <2>3. rec \in Record
    BY <2>1, <2>2 DEF Record, Statuses
  <2>4. /\ \/ Works /\ Write(http[n][k].task, rec)
           \/ Fails /\ UNCHANGED <<store, invalidation>>
        /\ \/ /\ Serves(n, k, [http[n][k] EXCEPT !.step = "event"])
              /\ Goes(n, k, "unsubscribe", rec)
           \/ Serves(n, k, NoRequest) /\ UNCHANGED job
    BY <1>15 DEF HttpWrite
  <2> HIDE DEF rec
  <2>5. /\ store' \in [Tasks -> Record \cup {NoTask}]
        /\ invalidation' \in [Nodes -> {"none", "coming", "missed"}]
    BY <2>1, <2>3, <2>4, WriteTyped DEF TypeOK
  <2>6. HttpTyped
    BY <2>1, <2>4, RequestsServed DEF Request
  <2>7. JobTyped
    BY <2>3, <2>4, JobsGo, ThreadNames DEF TypeOK, Steps
  <2>8. budget' \in Budget
    BY <2>4, BudgetSpent
  <2> QED
    BY <1>15, <2>2, <2>5, <2>6, <2>7, <2>8
       DEF HttpWrite, NewOperation, TypeOK, memory
<1>16. ASSUME NEW n \in Nodes, NEW k \in Slots, HttpPosted(n, k) PROVE TypeOK'
  <2>1. /\ Remaining([http[n][k] EXCEPT !.step = "forward",
                                        !.peers = nodeCaches[n] \ {n}])
              \in Request
        /\ NoRequest \in Request
    <3>1. nodeCaches[n] \ {n} \subseteq Nodes
      BY DEF TypeOK
    <3> QED
      BY <1>16, <3>1, RequestMade DEF HttpPosted, Remaining, Request
  <2>2. HttpTyped
    BY <1>16, <2>1, RequestsServed DEF HttpPosted
  <2> QED
    BY <1>16, <2>2 DEF HttpPosted, TypeOK, etcd, lists, memory
<1>17. ASSUME NEW n \in Nodes, NEW m \in Nodes, Forward(n, m) PROVE TypeOK'
  <2> DEFINE request == [http[n]["console"] EXCEPT !.peers = @ \ {m}]
  <2>1. /\ request \in Request /\ [request EXCEPT !.waiting = {m}] \in Request
        /\ Remaining(request) \in Request
        /\ Ask(request.task, "DELETE") \in Request
    <3>1. http[n]["console"].step # "none"
      BY <1>17 DEF Forward
    <3>2. http[n]["console"] \in [step : {"read", "write", "event", "forward"},
                                  task : Tasks, want : Wants,
                                  peers : SUBSET Nodes, waiting : SUBSET Nodes]
      BY <3>1, RequestMade, ThreadNames
    <3>3. /\ request \in Request /\ request.task \in Tasks
          /\ [request EXCEPT !.waiting = {m}] \in Request
      BY <3>2 DEF Request
    <3>4. Remaining(request) \in Request
      BY <3>3 DEF Remaining, Request
    <3>5. Ask(request.task, "DELETE") \in Request
      BY <3>3 DEF Ask, Request, Wants, Statuses
    <3> QED
      BY <3>3, <3>4, <3>5
  <2>2. /\ Works \/ Fails
        /\ \/ http' = [http EXCEPT ![n]["console"] =
                                        [request EXCEPT !.waiting = {m}],
                                   ![m]["peer"] = Ask(request.task, "DELETE")]
           \/ Serves(n, "console", Remaining(request))
    BY <1>17 DEF Forward
  <2> HIDE DEF request
  <2>3. HttpTyped
    <3>1. http \in [Nodes -> [Slots -> Request]]
      BY DEF TypeOK
    <3>2. CASE Serves(n, "console", Remaining(request))
      BY <2>1, <3>2, RequestsServed, ThreadNames
    <3>3. CASE http' = [http EXCEPT
                          ![n]["console"] = [request EXCEPT !.waiting = {m}],
                          ![m]["peer"] = Ask(request.task, "DELETE")]
      <4> DEFINE asked == [http EXCEPT
                             ![n]["console"] = [request EXCEPT !.waiting = {m}]]
      <4>1. asked \in [Nodes -> [Slots -> Request]]
        BY <2>1, <3>1
      <4>2. http' = [asked EXCEPT ![m]["peer"] = Ask(request.task, "DELETE")]
        BY <3>3
      <4> HIDE DEF asked
      <4> QED
        BY <2>1, <4>1, <4>2
    <3> QED
      BY <2>2, <3>2, <3>3
  <2>4. budget' \in Budget
    BY <2>2, BudgetSpent
  <2> QED
    BY <1>17, <2>3, <2>4 DEF Forward, TypeOK, etcd, lists, memory
<1>18. ASSUME NEW n \in Nodes, NEW m \in Nodes, ForwardReturns(n, m)
       PROVE  TypeOK'
  <2>1. Remaining([http[n]["console"] EXCEPT !.waiting = {}]) \in Request
    <3>1. http[n]["console"] \in Request
      BY ThreadNames DEF TypeOK
    <3>2. http[n]["console"].waiting # {}
      BY <1>18 DEF ForwardReturns
    <3>3. http[n]["console"].step # "none"
      BY <3>1, <3>2 DEF Request, NoRequest
    <3> QED
      BY <3>3, RequestMade, ThreadNames DEF Remaining, Request
  <2>2. HttpTyped
    BY <1>18, <2>1, RequestsServed, ThreadNames DEF ForwardReturns
  <2>3. budget' \in Budget
    BY <1>18, BudgetSpent DEF ForwardReturns
  <2> QED
    BY <1>18, <2>2, <2>3 DEF ForwardReturns, TypeOK, etcd, lists, memory
<1>19. ASSUME NEW task \in Tasks, TaskDelete(task) PROVE TypeOK'
  <2>1. /\ store' \in [Tasks -> Record \cup {NoTask}]
        /\ invalidation' \in [Nodes -> {"none", "coming", "missed"}]
    BY <1>19, WriteTyped DEF TaskDelete
  <2> QED
    BY <1>19, <2>1 DEF TaskDelete, TypeOK, memory
<1>20. ASSUME NEW n \in Nodes, StartWatch(n) PROVE TypeOK'
  BY <1>20 DEF StartWatch, TypeOK, etcd, memory
<1>21. ASSUME NEW n \in Nodes, WatchEvent(n) \/ Expire(n) PROVE TypeOK'
  <2>1. cached' \in [Nodes -> CachedList]
    <3>1. NotCached \in CachedList
      BY DEF NotCached, CachedList
    <3> QED
      BY <1>21, <3>1 DEF WatchEvent, Expire, TypeOK
  <2>2. invalidation' \in [Nodes -> {"none", "coming", "missed"}]
    BY <1>21 DEF WatchEvent, Expire, TypeOK
  <2> QED
    BY <1>21, <2>1, <2>2 DEF WatchEvent, Expire, TypeOK, etcd, memory
<1>22. ASSUME NEW on \in BOOLEAN, SetSwitch(on) PROVE TypeOK'
  <2>1. budget' \in Budget
    BY <1>22, BudgetSpent DEF SetSwitch
  <2> QED
    BY <1>22, <2>1 DEF SetSwitch, TypeOK, lists, memory
<1>23. ASSUME NEW n \in Nodes, NEW m \in Nodes, NodeCachesChange(n, m)
       PROVE  TypeOK'
  <2>1. budget' \in Budget
    BY <1>23, BudgetSpent DEF NodeCachesChange
  <2>2. nodeCaches' \in [Nodes -> SUBSET Nodes]
    <3>1. nodeCaches \in [Nodes -> SUBSET Nodes]
      BY DEF TypeOK
    <3> QED
      BY <1>23, <3>1 DEF NodeCachesChange
  <2> QED
    BY <1>23, <2>1, <2>2 DEF NodeCachesChange, TypeOK, etcd, lists, memory
<1>24. ASSUME NEW n \in Nodes, Restart(n) PROVE TypeOK'
  <2>1. JobTyped
    BY <1>24 DEF Restart, TypeOK, NoJobs, Job
  <2>2. HttpTyped
    BY <1>24 DEF Restart, TypeOK, NoRequests, Request
  <2>3. ToDoTyped
    BY <1>24 DEF Restart, TypeOK, NothingToDo, ToDo
  <2>4. /\ cached' \in [Nodes -> CachedList]
        /\ watching' \in [Nodes -> BOOLEAN]
        /\ invalidation' \in [Nodes -> {"none", "coming", "missed"}]
    BY <1>24 DEF Restart, TypeOK, NotCached, CachedList
  <2>5. /\ registry' \in [Nodes -> [Tasks -> Record \cup {NoTask}]]
        /\ finished' \in [Nodes -> SUBSET Operations]
    BY <1>24 DEF Restart, TypeOK, NoSubscription
  <2>6. budget' \in Budget
    <3>1. /\ budget \in Budget /\ budget.restarts \in 0..MaxRestarts
          /\ budget.restarts > 0 /\ MaxRestarts \in Nat
      BY <1>24, ConstantsAssumption DEF Restart, TypeOK, Budget
    <3>2. budget.restarts - 1 \in 0..MaxRestarts
      BY <3>1
    <3> QED
      BY <1>24, <3>1, <3>2 DEF Restart, Budget
  <2> QED
    BY <1>24, <2>1, <2>2, <2>3, <2>4, <2>5, <2>6 DEF Restart, TypeOK, etcd
<1>25. CASE UNCHANGED vars
  BY <1>25 DEF vars, etcd, lists, memory, TypeOK
<1> HIDE DEF JobTyped, HttpTyped, ToDoTyped
<1>26. ASSUME NEW n \in Nodes,
              Query(n) \/ Special(n) \/ CleanUnBelong(n) \/ CleanExceed(n)
       PROVE  TypeOK'
  BY <1>26, <1>1, <1>2, <1>3, <1>4, <1>5, <1>6, <1>8, <1>9, <1>10, <1>11,
     <1>12, <1>30, <1>31, <1>32, ThreadNames
     DEF Query, Special, CleanUnBelong, CleanExceed
<1>27. ASSUME NEW n \in Nodes,
              \/ \E k \in Handlers : DeleteEvent(n, k)
              \/ \E k \in Slots : Http(n, k)
              \/ Forwarding(n)
       PROVE  TypeOK'
  BY <1>27, <1>6, <1>7, <1>14, <1>15, <1>16, <1>17, <1>18, ThreadNames
     DEF DeleteEvent, Http, Forwarding
<1>28. CASE Administrator
  BY <1>13, <1>19, <1>22, <1>28, ConstantsAssumption DEF Administrator
<1>29. CASE Environment
  BY <1>20, <1>21, <1>23, <1>24, <1>29 DEF Environment
<1> QED
  BY <1>25, <1>26, <1>27, <1>28, <1>29 DEF Next

(* Every reachable state is well typed: in particular every event being    *)
(* handled and every request being served is about a task of its own.      *)
THEOREM TypeCorrect == Spec => []TypeOK
<1>1. Init => TypeOK
  BY TypeInit
<1>2. TypeOK /\ [Next]_vars => TypeOK'
  BY TypeNext
<1> QED
  BY <1>1, <1>2, PTL DEF Spec

----------------------------------------------------------------------------
(* An operation id names one command.  The copies of records move between  *)
(* etcd, the cached lists, the timers, the threads and the subscriptions;  *)
(* the inductive invariant adds to the property that every copy carries an *)
(* operation id handed out before.                                         *)

OldOperations == \A r \in Copies : r.op \in Operations /\ r.op < nextOperation
OldMarks == \A n \in Nodes : \A op \in finished[n] : op < nextOperation
CommandsInv == /\ TypeOK
               /\ OneCommandPerOperation
               /\ OldOperations
               /\ OldMarks

(* The next state holds no copy but those of X. *)
CopiesNextIn(X) ==
    /\ \A t \in Tasks : store'[t] \in X \cup {NoTask}
    /\ \A n \in Nodes :
          /\ cached'[n].list \subseteq X \cup {NoTask}
          /\ todo'[n].query \subseteq X \cup {NoTask}
          /\ \A k \in Threads : job'[n][k].rec \in X \cup {NoTask}
          /\ \A t \in Tasks : registry'[n][t] \in X \cup {NoTask}

LEMMA CopiesAre ==
    /\ \A t \in Tasks : store[t] \in Copies \cup {NoTask}
    /\ Stored \subseteq Copies
    /\ \A n \in Nodes :
          /\ cached[n].list \subseteq Copies \cup {NoTask}
          /\ todo[n].query \subseteq Copies \cup {NoTask}
          /\ \A k \in Threads : job[n][k].rec \in Copies \cup {NoTask}
          /\ \A t \in Tasks : registry[n][t] \in Copies \cup {NoTask}
BY DEF Copies, CopiesAt, Stored

LEMMA CopiesNext ==
    ASSUME NEW STATE X, CopiesNextIn(X)
    PROVE  Copies' \subseteq X
BY DEF Copies, CopiesAt, Stored, CopiesNextIn

LEMMA RegistryNext ==
    ASSUME TypeOK, NEW n \in Nodes, NEW task, NEW rec,
           registry' = [registry EXCEPT ![n][task] = rec]
    PROVE  \A m \in Nodes, t \in Tasks : registry'[m][t] \in {registry[m][t], rec}
<1>1. registry \in [Nodes -> [Tasks -> Record \cup {NoTask}]]
  BY DEF TypeOK
<1>2. \A m \in Nodes : registry'[m] = IF m = n
                                        THEN [registry[n] EXCEPT ![task] = rec]
                                        ELSE registry[m]
  BY <1>1
<1> QED
  BY <1>1, <1>2

(* The timers other than QuerySyncTaskTimer leave its list alone. *)
LEMMA QueryKept ==
    ASSUME TypeOK, NEW n \in Nodes,
           \/ CleanScan(n) \/ ExceedList(n) \/ ExceedRemove(n)
           \/ \E op \in todo[n].scan : CleanLookup(n, op)
           \/ CleanTest(n)
           \/ \E op \in todo[n].clean : CleanTake(n, op)
    PROVE  \A m \in Nodes : todo'[m].query = todo[m].query
<1>1. todo \in [Nodes -> ToDo]
  BY DEF TypeOK
<1>2. CASE CleanScan(n) \/ \E op \in todo[n].scan : CleanLookup(n, op)
  <2>1. PICK ops : todo' = [todo EXCEPT ![n].scan = ops]
    BY <1>2 DEF CleanScan, CleanLookup
  <2> QED
    BY <1>1, <2>1 DEF ToDo
<1>3. CASE ExceedList(n)
  <2>1. PICK ops : todo' = [todo EXCEPT ![n].exceeding = TRUE,
                                        ![n].exceed = ops]
    BY <1>3 DEF ExceedList
  <2> QED
    BY <1>1, <2>1 DEF ToDo
<1>4. CASE ExceedRemove(n)
  <2>1. todo' = [todo EXCEPT ![n].exceeding = FALSE, ![n].exceed = {}]
    BY <1>4 DEF ExceedRemove
  <2> QED
    BY <1>1, <2>1 DEF ToDo
<1>5. CASE \E op \in todo[n].clean : CleanTake(n, op)
  <2>1. PICK ops : todo' = [todo EXCEPT ![n].clean = ops]
    BY <1>5 DEF CleanTake
  <2> QED
    BY <1>1, <2>1 DEF ToDo
<1>6. CASE CleanTest(n)
  <2>1. PICK ops : \/ UNCHANGED todo
                   \/ todo' = [todo EXCEPT ![n].clean = ops]
    BY <1>6 DEF CleanTest
  <2> QED
    BY <1>1, <2>1 DEF ToDo
<1> QED
  BY <1>2, <1>3, <1>4, <1>5, <1>6

LEMMA JobGoes ==
    ASSUME TypeOK, NEW n \in Nodes, NEW k \in Threads, NEW step, NEW rec,
           Goes(n, k, step, rec)
    PROVE  \A m \in Nodes, h \in Threads : job'[m][h].rec \in {job[m][h].rec, rec}
<1>1. \A m \in Nodes, h \in Threads : job'[m][h] \in {job[m][h], At(step, rec)}
  BY DEF Goes, TypeOK
<1>2. At(step, rec).rec = rec
  BY DEF At
<1> QED
  BY <1>1, <1>2

LEMMA JobEnds ==
    ASSUME TypeOK, NEW n \in Nodes, NEW k \in Threads, Ends(n, k)
    PROVE  \A m \in Nodes, h \in Threads :
              job'[m][h].rec \in {job[m][h].rec, NoTask}
<1>1. \A m \in Nodes, h \in Threads : job'[m][h] \in {job[m][h], Idle}
  BY DEF Ends, TypeOK
<1>2. Idle.rec = NoTask
  BY DEF Idle
<1> QED
  BY <1>1, <1>2

(* A list that a timer reads holds nothing but copies. *)
LEMMA ListCopies ==
    ASSUME TypeOK, NEW n \in Nodes, NEW list \in Lists(n), TaskList(n, list)
    PROVE  /\ list \subseteq Copies \cup {NoTask}
           /\ \A m \in Nodes : cached'[m].list \subseteq Copies \cup {NoTask}
<1>1. list \subseteq Copies \cup {NoTask}
  BY CopiesAre DEF Lists
<1>2. \/ cached' = cached
      \/ cached' = [cached EXCEPT ![n] = [valid |-> TRUE, list |-> list]]
  BY DEF TaskList
<1>3. \A m \in Nodes : \/ cached'[m] = cached[m]
                       \/ cached'[m] = [valid |-> TRUE, list |-> list]
  BY <1>2 DEF TypeOK
<1> QED
  BY <1>1, <1>3, CopiesAre

(* The steps that move copies, and those that touch none. *)
LEMMA CopiesQuery ==
    ASSUME TypeOK, NEW n \in Nodes, Query(n) \/ Special(n)
    PROVE  CopiesNextIn(Copies)
<1>1. CASE QueryList(n)
  <2>1. PICK list \in Lists(n) :
           TaskList(n, list) /\ todo' = [todo EXCEPT ![n].query = list]
    BY <1>1 DEF QueryList
  <2>2. \A m \in Nodes : todo'[m].query \in {todo[m].query, list}
    BY <2>1 DEF TypeOK, ToDo
  <2>3. UNCHANGED <<store, job, registry>>
    BY <1>1 DEF QueryList, etcd, memory
  <2> QED
    BY <2>1, <2>2, <2>3, CopiesAre, ListCopies DEF CopiesNextIn
<1>2. ASSUME NEW rec \in todo[n].query, QueryTake(n, rec)
      PROVE  CopiesNextIn(Copies)
  <2>1. \A m \in Nodes, k \in Threads : job'[m][k].rec \in {job[m][k].rec, rec}
    BY <1>2, JobGoes, ThreadNames DEF QueryTake
  <2>2. \A m \in Nodes : todo'[m].query \subseteq todo[m].query
    BY <1>2 DEF QueryTake, TypeOK, ToDo
  <2>3. UNCHANGED <<store, cached, registry>>
    BY <1>2 DEF QueryTake, etcd, lists, memory
  <2>4. rec \in Copies \cup {NoTask}
    BY CopiesAre
  <2> QED
    BY <2>1, <2>2, <2>3, <2>4, CopiesAre DEF CopiesNextIn
<1>3. ASSUME NEW k \in Threads, Subscribe(n, k) PROVE CopiesNextIn(Copies)
  <2> DEFINE rec == job[n][k].rec
  <2>1. rec \in Copies \cup {NoTask}
    BY CopiesAre
  <2>2. \A m \in Nodes, h \in Threads :
           job'[m][h].rec \in {job[m][h].rec, rec, NoTask}
    BY <1>3, JobGoes, JobEnds DEF Subscribe
  <2>3. \/ registry' = registry
        \/ registry' = [registry EXCEPT ![n][rec.task] = rec]
    BY <1>3 DEF Subscribe
  <2>4. UNCHANGED <<store, cached, todo>>
    BY <1>3 DEF Subscribe, etcd, lists
  <2> HIDE DEF rec
  <2>5. \A m \in Nodes, t \in Tasks : registry'[m][t] \in {registry[m][t], rec}
    BY <2>3, RegistryNext
  <2> QED
    BY <2>1, <2>2, <2>4, <2>5, CopiesAre DEF CopiesNextIn
<1>4. CASE FinishSync(n)
  <2>1. \A m \in Nodes, h \in Threads : job'[m][h].rec \in {job[m][h].rec, NoTask}
    BY <1>4, JobEnds, ThreadNames DEF FinishSync
  <2>2. UNCHANGED <<store, cached, registry>>
    BY <1>4 DEF FinishSync, lists
  <2>3. \A m \in Nodes : todo'[m].query = todo[m].query
    BY <1>4, JobsRecord, MeetsTyped, ThreadNames DEF FinishSync, Steps
  <2> QED
    BY <2>1, <2>2, <2>3, CopiesAre DEF CopiesNextIn
<1>6. CASE QueryCheck(n)
  <2> DEFINE rec == job[n]["query"].rec
  <2>1. rec \in Copies \cup {NoTask}
    BY CopiesAre, ThreadNames
  <2>2. \A m \in Nodes, h \in Threads :
           job'[m][h].rec \in {job[m][h].rec, rec, NoTask}
    BY <1>6, JobGoes, JobEnds, ThreadNames DEF QueryCheck
  <2>3. UNCHANGED <<store, cached, todo, registry>>
    BY <1>6 DEF QueryCheck, etcd, lists, memory
  <2> QED
    BY <2>1, <2>2, <2>3, CopiesAre DEF CopiesNextIn
<1>5. ASSUME NEW task \in Tasks, SpecialTake(n, task)
      PROVE  CopiesNextIn(Copies)
  <2>1. \A m \in Nodes, k \in Threads :
           job'[m][k].rec \in {job[m][k].rec, registry[n][task]}
    BY <1>5, JobGoes, ThreadNames DEF SpecialTake
  <2>2. UNCHANGED <<store, cached, todo, registry>>
    BY <1>5 DEF SpecialTake, etcd, lists, memory
  <2> QED
    BY <2>1, <2>2, CopiesAre DEF CopiesNextIn
<1> QED
  BY <1>1, <1>2, <1>3, <1>4, <1>5, <1>6, ThreadNames DEF Query, Special

LEMMA CopiesDelete ==
    ASSUME TypeOK, NEW n \in Nodes, NEW k \in Threads, DeleteEvent(n, k)
    PROVE  CopiesNextIn(Copies)
<1> DEFINE rec == job[n][k].rec
<1>1. \A m \in Nodes, h \in Threads :
         job'[m][h].rec \in {job[m][h].rec, rec, NoTask}
  BY JobGoes, JobEnds DEF DeleteEvent, Unsubscribe, FinishDelete
<1>2. \/ registry' = registry
      \/ registry' = [registry EXCEPT ![n][rec.task] = NoTask]
  BY DEF DeleteEvent, Unsubscribe, FinishDelete
<1>3. UNCHANGED <<store, cached>>
  BY DEF DeleteEvent, Unsubscribe, FinishDelete, etcd, lists
<1>6. \A m \in Nodes : todo'[m].query = todo[m].query
  BY JobsRecord, MeetsTyped DEF DeleteEvent, Unsubscribe, FinishDelete, Steps
<1>4. rec \in Copies \cup {NoTask}
  BY CopiesAre
<1> HIDE DEF rec
<1>5. \A m \in Nodes, t \in Tasks : registry'[m][t] \in {registry[m][t], NoTask}
  BY <1>2, RegistryNext
<1> QED
  BY <1>1, <1>3, <1>4, <1>5, <1>6, CopiesAre DEF CopiesNextIn

LEMMA CopiesClean ==
    ASSUME TypeOK, NEW n \in Nodes, CleanUnBelong(n) \/ CleanExceed(n)
    PROVE  CopiesNextIn(Copies)
<1>1. CASE ExceedList(n)
  <2>1. PICK list \in Lists(n) : TaskList(n, list)
    BY <1>1 DEF ExceedList
  <2>2. \A m \in Nodes : todo'[m].query = todo[m].query
    BY <1>1, QueryKept
  <2>3. UNCHANGED <<store, job, registry>>
    BY <1>1 DEF ExceedList, etcd, memory
  <2> QED
    BY <2>1, <2>2, <2>3, CopiesAre, ListCopies DEF CopiesNextIn
<1>6. CASE CleanScan(n) \/ CleanTest(n)
  <2>1. \A m \in Nodes, h \in Threads : job'[m][h].rec \in {job[m][h].rec, NoTask}
    BY <1>6, JobEnds, ThreadNames DEF CleanScan, CleanTest
  <2>2. \A m \in Nodes : todo'[m].query = todo[m].query
    BY <1>6, QueryKept
  <2>3. UNCHANGED <<store, cached, registry>>
    BY <1>6 DEF CleanScan, CleanTest, etcd, lists, memory
  <2> QED
    BY <2>1, <2>2, <2>3, CopiesAre DEF CopiesNextIn
<1>7. ASSUME NEW op \in todo[n].scan, CleanLookup(n, op)
      PROVE  CopiesNextIn(Copies)
  <2>1. \A m \in Nodes : todo'[m].query = todo[m].query
    BY <1>7, QueryKept
  <2>2. UNCHANGED <<store, registry>>
    BY <1>7 DEF CleanLookup, etcd, memory
  <2>3. CASE UNCHANGED <<cached, job>>
    BY <2>1, <2>2, <2>3, CopiesAre DEF CopiesNextIn
  <2>4. ASSUME NEW list \in Lists(n), TaskList(n, list),
               \/ UNCHANGED job
               \/ \E rec \in list : Goes(n, "clean", "test", rec)
        PROVE  CopiesNextIn(Copies)
    <3>1. \A m \in Nodes, k \in Threads :
             job'[m][k].rec \in {job[m][k].rec} \cup list
      BY <2>4, JobGoes, ThreadNames
    <3> QED
      BY <2>1, <2>2, <2>4, <3>1, CopiesAre, ListCopies DEF CopiesNextIn
  <2> QED
    BY <1>7, <2>3, <2>4 DEF CleanLookup
<1>2. ASSUME NEW op \in todo[n].clean, CleanTake(n, op)
      PROVE  CopiesNextIn(Copies)
  <2>1. PICK list \in Lists(n) :
           /\ TaskList(n, list)
           /\ \/ UNCHANGED job
              \/ \E rec \in list : Goes(n, "clean", "unsubscribe", rec)
    BY <1>2 DEF CleanTake
  <2>2. \A m \in Nodes, k \in Threads :
           job'[m][k].rec \in {job[m][k].rec} \cup list
    BY <2>1, JobGoes, ThreadNames
  <2>3. \A m \in Nodes : todo'[m].query = todo[m].query
    BY <1>2, QueryKept
  <2>4. UNCHANGED <<store, registry>>
    BY <1>2 DEF CleanTake, etcd, memory
  <2> QED
    BY <2>1, <2>2, <2>3, <2>4, CopiesAre, ListCopies DEF CopiesNextIn
<1>3. CASE Unsubscribe(n, "clean")
  BY <1>3, CopiesDelete, ThreadNames DEF DeleteEvent
<1>4. CASE FinishClean(n)
  <2>1. \A m \in Nodes, h \in Threads : job'[m][h].rec \in {job[m][h].rec, NoTask}
    BY <1>4, JobEnds, ThreadNames DEF FinishClean
  <2>2. UNCHANGED <<store, cached, todo, registry>>
    BY <1>4 DEF FinishClean, lists
  <2> QED
    BY <2>1, <2>2, CopiesAre DEF CopiesNextIn
<1>5. CASE ExceedRemove(n)
  <2>1. \A m \in Nodes : todo'[m].query = todo[m].query
    BY <1>5, QueryKept
  <2>2. UNCHANGED <<store, cached, job, registry>>
    BY <1>5 DEF ExceedRemove, etcd, lists
  <2> QED
    BY <2>1, <2>2, CopiesAre DEF CopiesNextIn
<1> QED
  BY <1>1, <1>2, <1>3, <1>4, <1>5, <1>6, <1>7 DEF CleanUnBelong, CleanExceed

LEMMA CopiesForget ==
    ASSUME TypeOK, Environment \/ \E task \in Tasks : TaskDelete(task)
    PROVE  CopiesNextIn(Copies)
<1>1. ASSUME NEW n \in Nodes, WatchEvent(n) \/ Expire(n)
      PROVE  CopiesNextIn(Copies)
  <2>1. \A m \in Nodes : cached'[m] \in {cached[m], NotCached}
    BY <1>1 DEF WatchEvent, Expire, TypeOK
  <2>2. UNCHANGED <<store, todo, job, registry>>
    BY <1>1 DEF WatchEvent, Expire, etcd, memory
  <2> QED
    BY <2>1, <2>2, CopiesAre DEF CopiesNextIn, NotCached
<1>2. ASSUME NEW n \in Nodes, Restart(n) PROVE CopiesNextIn(Copies)
  <2>1. \A m \in Nodes : /\ cached'[m] \in {cached[m], NotCached}
                         /\ todo'[m] \in {todo[m], NothingToDo}
                         /\ job'[m] \in {job[m], NoJobs}
                         /\ registry'[m] \in {registry[m], NoSubscription}
    BY <1>2 DEF Restart, TypeOK
  <2>2. UNCHANGED store
    BY <1>2 DEF Restart, etcd
  <2> QED
    BY <2>1, <2>2, CopiesAre
       DEF CopiesNextIn, NotCached, NothingToDo, NoJobs, Idle, NoSubscription
<1>3. ASSUME NEW n \in Nodes, \/ StartWatch(n)
                              \/ \E m \in Nodes : NodeCachesChange(n, m)
      PROVE  CopiesNextIn(Copies)
  <2>1. UNCHANGED <<store, cached, todo, job, registry>>
    BY <1>3 DEF StartWatch, NodeCachesChange, etcd, lists, memory
  <2> QED
    BY <2>1, CopiesAre DEF CopiesNextIn
<1>4. ASSUME NEW task \in Tasks, TaskDelete(task) PROVE CopiesNextIn(Copies)
  <2>1. \A t \in Tasks : store'[t] \in {store[t], NoTask}
    BY <1>4 DEF TaskDelete, Write, TypeOK
  <2>2. UNCHANGED <<cached, todo, job, registry>>
    BY <1>4 DEF TaskDelete, memory
  <2> QED
    BY <2>1, <2>2, CopiesAre DEF CopiesNextIn
<1> QED
  BY <1>1, <1>2, <1>3, <1>4 DEF Environment

LEMMA CopiesRead ==
    ASSUME TypeOK, NEW n \in Nodes, NEW k \in Slots, HttpRead(n, k)
    PROVE  CopiesNextIn(Copies)
<1>1. PICK rec \in {store[http[n][k].task], NoTask} :
         UNCHANGED job \/ Goes(n, k, "unsubscribe", rec)
  BY DEF HttpRead
<1>2. rec \in Copies \cup {NoTask}
  BY RequestMade, CopiesAre DEF HttpRead
<1>3. \A m \in Nodes, h \in Threads : job'[m][h].rec \in {job[m][h].rec, rec}
  BY <1>1, JobGoes, ThreadNames
<1>4. UNCHANGED <<store, cached, todo, registry>>
  BY DEF HttpRead, etcd, lists, memory
<1> QED
  BY <1>2, <1>3, <1>4, CopiesAre DEF CopiesNextIn

(* addTask() makes the only new copy, with the next operation id. *)
LEMMA CopiesWrite ==
    ASSUME TypeOK, NEW n \in Nodes, NEW k \in Slots, HttpWrite(n, k)
    PROVE  \E rec \in Record : /\ rec.op = nextOperation
                               /\ CopiesNextIn(Copies \cup {rec})
                               /\ \A t \in Tasks : store'[t] \in {store[t], rec}
<1> DEFINE rec == [task |-> http[n][k].task, op |-> nextOperation,
                   status |-> IF http[n][k].want = "DELETE" THEN "DELETE"
                                                            ELSE "SYNC"]
<1>1. http[n][k].task \in Tasks
  BY RequestMade DEF HttpWrite
<1>2. nextOperation \in Operations
  BY ConstantsAssumption DEF HttpWrite, NewOperation, TypeOK, Operations
<1>3. rec \in Record /\ rec.op = nextOperation
  BY <1>1, <1>2 DEF Record, Statuses
<1>4. /\ UNCHANGED store \/ store' = [store EXCEPT ![http[n][k].task] = rec]
      /\ UNCHANGED job \/ Goes(n, k, "unsubscribe", rec)
  BY DEF HttpWrite, Write
<1>5. UNCHANGED <<cached, todo, registry>>
  BY DEF HttpWrite, memory
<1> HIDE DEF rec
<1>6. \A t \in Tasks : store'[t] \in {store[t], rec}
  BY <1>4 DEF TypeOK
<1>7. \A m \in Nodes, h \in Threads : job'[m][h].rec \in {job[m][h].rec, rec}
  BY <1>4, JobGoes, ThreadNames
<1>8. CopiesNextIn(Copies \cup {rec})
  BY <1>5, <1>6, <1>7, CopiesAre DEF CopiesNextIn
<1> QED
  BY <1>3, <1>6, <1>8

(* The steps of the model, for the commands: nothing new is written, or    *)
(* one new command is.                                                     *)
NothingNew == /\ Copies' \subseteq Copies
              /\ UNCHANGED nextOperation
              /\ \A t \in Tasks : store'[t] \in {store[t], NoTask}
NewCommand == \E rec \in Record :
                 /\ rec.op = nextOperation
                 /\ nextOperation' = nextOperation + 1
                 /\ Copies' \subseteq Copies \cup {rec}
                 /\ \A t \in Tasks : store'[t] \in {store[t], rec}
                 /\ UNCHANGED finished

LEMMA CommandStep ==
    ASSUME TypeOK, [Next]_vars
    PROVE  NothingNew \/ NewCommand
<1>1. ASSUME CopiesNextIn(Copies), UNCHANGED nextOperation,
             \A t \in Tasks : store'[t] \in {store[t], NoTask}
      PROVE  NothingNew
  <2>1. Copies' \subseteq Copies
    BY <1>1, CopiesNext
  <2> QED
    BY <1>1, <2>1 DEF NothingNew
<1>2. ASSUME NEW n \in Nodes,
             \/ Query(n) \/ Special(n) \/ CleanUnBelong(n) \/ CleanExceed(n)
             \/ \E k \in Handlers : DeleteEvent(n, k)
      PROVE  NothingNew
  <2>1. CopiesNextIn(Copies)
    BY <1>2, CopiesQuery, CopiesClean, CopiesDelete, ThreadNames
  <2>2. UNCHANGED <<store, nextOperation>>
    BY <1>2 DEF Query, Special, CleanUnBelong, CleanExceed, DeleteEvent,
         QueryList, QueryTake, QueryCheck, Subscribe, FinishSync,
         SpecialTake, Unsubscribe, FinishDelete, CleanScan, CleanLookup,
         CleanTest, CleanTake, FinishClean, ExceedList, ExceedRemove, etcd
  <2> QED
    BY <1>1, <2>1, <2>2
<1>3. ASSUME NEW n \in Nodes, NEW k \in Slots, HttpRead(n, k)
      PROVE  NothingNew
  <2>1. UNCHANGED <<store, nextOperation>>
    BY <1>3 DEF HttpRead, etcd
  <2> QED
    BY <1>1, <1>3, <2>1, CopiesRead
<1>4. ASSUME NEW n \in Nodes, NEW k \in Slots, HttpWrite(n, k)
      PROVE  NewCommand
  <2>1. PICK rec \in Record :
           /\ rec.op = nextOperation
           /\ CopiesNextIn(Copies \cup {rec})
           /\ \A t \in Tasks : store'[t] \in {store[t], rec}
    BY <1>4, CopiesWrite
  <2>2. Copies' \subseteq Copies \cup {rec}
    BY <2>1, CopiesNext
  <2>3. nextOperation' = nextOperation + 1 /\ UNCHANGED finished
    BY <1>4 DEF HttpWrite, NewOperation, memory
  <2> QED
    BY <2>1, <2>2, <2>3 DEF NewCommand
<1>5. ASSUME \/ \E n \in Nodes : \/ \E k \in Slots : HttpPosted(n, k)
                                 \/ Forwarding(n)
             \/ \E n \in Consoles, task \in Tasks, want \in Wants :
                   Console(n, task, want)
             \/ \E on \in BOOLEAN : SetSwitch(on)
             \/ UNCHANGED vars
      PROVE  NothingNew
  <2>1. UNCHANGED <<store, nextOperation, cached, todo, job, registry>>
    BY <1>5 DEF HttpPosted, Forwarding, Forward, ForwardReturns, Console,
         SetSwitch, vars, etcd, lists, memory
  <2>2. CopiesNextIn(Copies)
    BY <2>1, CopiesAre DEF CopiesNextIn
  <2> QED
    BY <1>1, <2>1, <2>2
<1>6. ASSUME Environment \/ \E task \in Tasks : TaskDelete(task)
      PROVE  NothingNew
  <2>1. UNCHANGED nextOperation
    BY <1>6 DEF Environment, StartWatch, WatchEvent, Expire, NodeCachesChange,
         Restart, TaskDelete, etcd
  <2>2. \A t \in Tasks : store'[t] \in {store[t], NoTask}
    <3>1. CASE UNCHANGED store
      BY <3>1
    <3>2. ASSUME NEW task \in Tasks, TaskDelete(task)
          PROVE  \A t \in Tasks : store'[t] \in {store[t], NoTask}
      BY <3>2 DEF TaskDelete, Write, TypeOK
    <3> QED
      BY <1>6, <3>1, <3>2 DEF Environment, StartWatch, WatchEvent, Expire,
         NodeCachesChange, Restart, etcd
  <2> QED
    BY <1>1, <1>6, <2>1, <2>2, CopiesForget
<1> QED
  BY <1>2, <1>3, <1>4, <1>5, <1>6
     DEF Next, Http, Administrator

(* A finished mark comes from a command being handled. *)
LEMMA MarksStep ==
    ASSUME TypeOK, [Next]_vars
    PROVE  \A n \in Nodes : \A op \in finished'[n] :
              op \in finished[n] \/ \E rec \in Copies : op = rec.op
<1> SUFFICES ASSUME NEW n \in Nodes, NEW op \in finished'[n],
                    op \notin finished[n]
             PROVE  \E rec \in Copies : op = rec.op
  OBVIOUS
<1>1. PICK m \in Nodes, k \in Threads :
         /\ job[m][k].step \in Steps
         /\ finished' = [finished EXCEPT ![m] = @ \cup {job[m][k].rec.op}]
  <2>1. UNCHANGED finished
        \/ \E m \in Nodes : \/ FinishSync(m) \/ FinishClean(m)
                             \/ ExceedRemove(m) \/ Restart(m)
                             \/ \E k \in Threads : FinishDelete(m, k)
    <3>1. ASSUME NEW m \in Nodes, Query(m) \/ Special(m)
          PROVE  UNCHANGED finished \/ FinishSync(m)
      BY <3>1 DEF Query, Special, QueryList, QueryTake, QueryCheck, Subscribe,
           SpecialTake, memory
    <3>2. ASSUME NEW m \in Nodes, CleanUnBelong(m) \/ CleanExceed(m)
          PROVE  UNCHANGED finished \/ FinishClean(m) \/ ExceedRemove(m)
      BY <3>2 DEF CleanUnBelong, CleanExceed, CleanScan, CleanLookup, CleanTest,
           CleanTake, Unsubscribe, ExceedList, memory
    <3>3. ASSUME NEW m \in Nodes, NEW k \in Handlers, DeleteEvent(m, k)
          PROVE  UNCHANGED finished \/ FinishDelete(m, k)
      BY <3>3 DEF DeleteEvent, Unsubscribe
    <3>4. ASSUME NEW m \in Nodes,
                 (\E k \in Slots : Http(m, k)) \/ Forwarding(m)
          PROVE  UNCHANGED finished
      BY <3>4 DEF Http, Forwarding, HttpRead, HttpWrite, HttpPosted, Forward,
           ForwardReturns, memory
    <3>5. CASE Administrator
      BY <3>5 DEF Administrator, Console, TaskDelete, SetSwitch, memory
    <3>6. CASE Environment
      BY <3>6 DEF Environment, StartWatch, WatchEvent, Expire,
           NodeCachesChange, memory
    <3>7. CASE UNCHANGED vars
      BY <3>7 DEF vars, memory
    <3> QED
      BY <3>1, <3>2, <3>3, <3>4, <3>5, <3>6, <3>7, ThreadNames DEF Next
  <2>2. ASSUME NEW m \in Nodes,
               \/ ExceedRemove(m) \/ FinishClean(m) \/ Restart(m)
        PROVE  \A h \in Nodes : finished'[h] \subseteq finished[h]
    <3>1. \/ UNCHANGED finished
          \/ \E S \in SUBSET finished[m] : finished' = [finished EXCEPT ![m] = S]
      BY <2>2 DEF ExceedRemove, FinishClean, Unmark, Restart
    <3> QED
      BY <3>1 DEF TypeOK
  <2>3. PICK m \in Nodes, k \in Threads :
           \/ k = "query" /\ FinishSync(m)
           \/ FinishDelete(m, k)
    BY <2>1, <2>2, ThreadNames
  <2> QED
    BY <2>3 DEF FinishSync, FinishDelete, Mark, Steps
<1>2. op = job[m][k].rec.op
  <2>1. finished \in [Nodes -> SUBSET Operations]
    BY DEF TypeOK
  <2> QED
    BY <1>1, <2>1
<1>3. job[m][k].rec \in Copies
  BY <1>1, JobsRecord, CopiesAre, NoTaskAssumption
<1> QED
  BY <1>2, <1>3

LEMMA CommandsInit == Init => CommandsInv
<1> SUFFICES ASSUME Init PROVE CommandsInv
  OBVIOUS
<1>1. Copies = {}
  BY DEF Init, Copies, CopiesAt, Stored, NotCached, NothingToDo, NoJobs, Idle,
     NoSubscription
<1>2. \A n \in Nodes : finished[n] = {}
  BY DEF Init
<1> QED
  BY <1>1, <1>2, TypeInit
     DEF CommandsInv, OneCommandPerOperation, OldOperations, OldMarks

LEMMA CommandsNext == CommandsInv /\ [Next]_vars => CommandsInv'
<1> SUFFICES ASSUME CommandsInv, [Next]_vars PROVE CommandsInv'
  OBVIOUS
<1>1. TypeOK /\ TypeOK'
  BY TypeNext DEF CommandsInv
<1>2. nextOperation \in Nat
  BY <1>1, ConstantsAssumption DEF TypeOK
<1>3. CASE NothingNew
  <2>1. Copies' \subseteq Copies /\ nextOperation' = nextOperation
    BY <1>3 DEF NothingNew
  <2>2. OneCommandPerOperation' /\ OldOperations'
    BY <2>1 DEF CommandsInv, OneCommandPerOperation, OldOperations
  <2>3. OldMarks'
    BY <1>1, <2>1, MarksStep DEF CommandsInv, OldOperations, OldMarks
  <2> QED
    BY <1>1, <2>2, <2>3 DEF CommandsInv
<1>4. CASE NewCommand
  <2>1. PICK rec \in Record :
           /\ rec.op = nextOperation /\ nextOperation' = nextOperation + 1
           /\ Copies' \subseteq Copies \cup {rec}
           /\ UNCHANGED finished
    BY <1>4 DEF NewCommand
  <2>2. \A r \in Copies : r.op \in Nat /\ r.op < nextOperation
    BY DEF CommandsInv, OldOperations, Operations
  <2>3. OneCommandPerOperation'
    BY <1>2, <2>1, <2>2 DEF CommandsInv, OneCommandPerOperation
  <2>4. OldOperations'
    BY <1>2, <2>1, <2>2 DEF CommandsInv, OldOperations, Record
  <2>5. OldMarks'
    <3>1. \A n \in Nodes : finished[n] \subseteq Nat
      BY <1>1 DEF TypeOK, Operations
    <3> QED
      BY <1>2, <2>1, <3>1 DEF CommandsInv, OldMarks
  <2> QED
    BY <1>1, <2>3, <2>4, <2>5 DEF CommandsInv
<1> QED
  BY <1>1, <1>3, <1>4, CommandStep

(* Wherever copies of task records are left, in etcd, in stale lists, in   *)
(* timers, threads and subscriptions, an operation id names one command.   *)
THEOREM CommandsNamed == Spec => []OneCommandPerOperation
<1>1. Init => CommandsInv
  BY CommandsInit
<1>2. CommandsInv /\ [Next]_vars => CommandsInv'
  BY CommandsNext
<1>3. CommandsInv => OneCommandPerOperation
  BY DEF CommandsInv
<1> QED
  BY <1>1, <1>2, <1>3, PTL DEF Spec

(* addTask() writes commands that no worker has marked finished, whatever  *)
(* is in flight: no worker will skip a new command.                        *)
THEOREM NewCommandsRun == Spec => NewCommandIsUnfinished
<1> DEFINE A == \A t \in Tasks : store'[t] \notin {store[t], NoTask} =>
                   \A n \in Nodes : store'[t].op \notin finished[n]
<1>1. Init => CommandsInv
  BY CommandsInit
<1>2. CommandsInv /\ [Next]_vars => CommandsInv'
  BY CommandsNext
<1>3. CommandsInv /\ [Next]_vars => A
  <2> SUFFICES ASSUME CommandsInv, [Next]_vars PROVE A
    OBVIOUS
  <2>1. TypeOK /\ nextOperation \in Nat
    BY ConstantsAssumption DEF CommandsInv, TypeOK
  <2>2. CASE NothingNew
    BY <2>2 DEF NothingNew
  <2>3. CASE NewCommand
    <3>1. \A t \in Tasks : store'[t] # store[t] => store'[t].op = nextOperation
      BY <2>3 DEF NewCommand
    <3>2. \A n \in Nodes : nextOperation \notin finished[n]
      BY <2>1 DEF CommandsInv, OldMarks
    <3> QED
      BY <3>1, <3>2
  <2> QED
    BY <2>1, <2>2, <2>3, CommandStep
<1>4. CommandsInv /\ [Next]_vars => [A]_vars
  BY <1>3
<1> HIDE DEF A
<1>5. Spec => [][A]_vars
  BY <1>1, <1>2, <1>4, PTL DEF Spec
<1> QED
  BY <1>5 DEF NewCommandIsUnfinished, A

----------------------------------------------------------------------------
(* The cached lists.  The property is inductive: a write of the tree of    *)
(* tasks leaves an event for every list it makes stale.                    *)

(* The steps that leave the tree, the lists and the events alone. *)
LEMMA CacheKept ==
    ASSUME CacheCoherent, UNCHANGED <<store, cached, invalidation>>
    PROVE  CacheCoherent'
BY DEF CacheCoherent, Stored

LEMMA CacheLoaded ==
    ASSUME TypeOK, CacheCoherent, UNCHANGED <<store, invalidation>>,
           NEW n \in Nodes, NEW list \in Lists(n), TaskList(n, list)
    PROVE  CacheCoherent'
<1>1. UNCHANGED Stored
  BY DEF Stored
<1>2. \/ cached' = cached
      \/ cached' = [cached EXCEPT ![n] = [valid |-> TRUE, list |-> Stored]]
  BY DEF TaskList
<1>3. \A m \in Nodes : \/ cached'[m] = cached[m]
                       \/ cached'[m] = [valid |-> TRUE, list |-> Stored]
  BY <1>2 DEF TypeOK
<1> QED
  BY <1>1, <1>3 DEF CacheCoherent

LEMMA CacheWritten ==
    ASSUME TypeOK, UNCHANGED cached, NEW task, NEW rec, Write(task, rec)
    PROVE  CacheCoherent'
BY DEF CacheCoherent, Write

LEMMA CacheDropped ==
    ASSUME TypeOK, CacheCoherent, NEW n \in Nodes,
           WatchEvent(n) \/ Expire(n) \/ Restart(n)
    PROVE  CacheCoherent'
<1>1. \A m \in Nodes : \/ cached'[m] = NotCached
                       \/ /\ cached'[m] = cached[m]
                          /\ invalidation'[m] = invalidation[m]
  BY DEF WatchEvent, Expire, Restart, TypeOK
<1>2. UNCHANGED Stored
  BY DEF WatchEvent, Expire, Restart, Stored, etcd
<1> QED
  BY <1>1, <1>2 DEF CacheCoherent, NotCached

LEMMA CacheNext == TypeOK /\ CacheCoherent /\ [Next]_vars => CacheCoherent'
<1> SUFFICES ASSUME TypeOK, CacheCoherent, [Next]_vars PROVE CacheCoherent'
  OBVIOUS
<1>1. ASSUME NEW n \in Nodes, Query(n) \/ CleanUnBelong(n) \/ CleanExceed(n)
      PROVE  CacheCoherent'
  <2>1. CASE \/ QueryList(n) \/ ExceedList(n)
             \/ \E op \in todo[n].clean : CleanTake(n, op)
    <3>1. /\ UNCHANGED <<store, invalidation>>
          /\ \E list \in Lists(n) : TaskList(n, list)
      BY <2>1 DEF QueryList, ExceedList, CleanTake, etcd
    <3> QED
      BY <3>1, CacheLoaded
  <2>2. CASE UNCHANGED <<store, cached, invalidation>>
    BY <2>2, CacheKept
  <2>3. ASSUME NEW op \in todo[n].scan, CleanLookup(n, op) PROVE CacheCoherent'
    <3>1. /\ UNCHANGED <<store, invalidation>>
          /\ \/ UNCHANGED cached
             \/ \E list \in Lists(n) : TaskList(n, list)
      BY <2>3 DEF CleanLookup, etcd
    <3> QED
      BY <3>1, CacheLoaded, CacheKept
  <2> QED
    BY <1>1, <2>1, <2>2, <2>3 DEF Query, CleanUnBelong, CleanExceed, QueryTake,
       QueryCheck, CleanScan, CleanTest, Subscribe, FinishSync, Unsubscribe, FinishClean, ExceedRemove, etcd,
       lists
<1>2. ASSUME NEW n \in Nodes,
             Special(n) \/ \E k \in Handlers : DeleteEvent(n, k)
      PROVE  CacheCoherent'
  BY <1>2, CacheKept DEF Special, DeleteEvent, SpecialTake, Subscribe,
     Unsubscribe, FinishDelete, etcd, lists
<1>3. ASSUME NEW n \in Nodes, (\E k \in Slots : Http(n, k)) \/ Forwarding(n)
      PROVE  CacheCoherent'
  <2>1. ASSUME NEW k \in Slots, HttpWrite(n, k) PROVE CacheCoherent'
    <3>1. /\ UNCHANGED cached
          /\ \/ UNCHANGED <<store, invalidation>>
             \/ \E task, rec : Write(task, rec)
      BY <2>1 DEF HttpWrite
    <3> QED
      BY <3>1, CacheKept, CacheWritten
  <2>2. CASE UNCHANGED <<store, cached, invalidation>>
    BY <2>2, CacheKept
  <2> QED
    BY <1>3, <2>1, <2>2 DEF Http, Forwarding, HttpRead, HttpPosted, Forward,
       ForwardReturns, etcd, lists
<1>4. CASE Administrator
  BY <1>4, CacheKept, CacheWritten
     DEF Administrator, Console, SetSwitch, TaskDelete, etcd, lists
<1>5. CASE Environment
  BY <1>5, CacheKept, CacheDropped
     DEF Environment, StartWatch, NodeCachesChange, etcd, lists
<1>6. CASE UNCHANGED vars
  BY <1>6, CacheKept DEF vars, etcd, lists
<1> QED
  BY <1>1, <1>2, <1>3, <1>4, <1>5, <1>6 DEF Next

(* CaffeineUtil's list of a worker is the tree of tasks, unless the watch  *)
(* event that drops it is due or was missed before the watch began.        *)
THEOREM CachesCoherent == Spec => []CacheCoherent
<1>1. Init => CacheCoherent
  BY DEF Init, CacheCoherent, NotCached
<1>2. TypeOK /\ CacheCoherent /\ [Next]_vars => CacheCoherent'
  BY CacheNext
<1> QED
  BY <1>1, <1>2, TypeCorrect, PTL DEF Spec
============================================================================
