------------------------- MODULE TaskRequestProofs -------------------------
(* What is proved about the requests of administrators in TaskDispatch for *)
(* all constants: as long as a worker that is asked answers in time        *)
(* (TimelySpec), only a request that still waits turns a task off.         *)
EXTENDS TaskDispatchProofs

----------------------------------------------------------------------------
(* Requests: a forwarded suspension is under way while the request of an   *)
(* administrator that it comes from waits for it.                          *)

HttpMoves(n, k) ==
    \/ Restart(n) \/ Http(n, k)
    \/ /\ k = "console"
       /\ \/ \E task \in Tasks, want \in Wants : Console(n, task, want)
          \/ \E m \in Nodes : Forward(n, m) \/ ForwardReturns(n, m)
    \/ k = "peer" /\ \E m \in Nodes : Forward(m, n)

(* Serves() touches one request. *)
LEMMA HttpSet ==
    ASSUME TypeOK, NEW n \in Nodes, NEW k \in Slots, NEW request,
           Serves(n, k, request)
    PROVE  /\ http'[n][k] = request
           /\ \A m \in Nodes, h \in Slots :
                 m # n \/ h # k => http'[m][h] = http[m][h]
<1>1. http \in [Nodes -> [Slots -> Request]]
  BY DEF TypeOK
<1> QED
  BY <1>1 DEF Serves

(* A forwarded request is put in a slot of its own. *)
Sends(n, m, r1, r2) ==
    http' = [http EXCEPT ![n]["console"] = r1, ![m]["peer"] = r2]
(* A request that is forwarded is two: the sender's and the peer's. *)
LEMMA ForwardSets ==
    ASSUME TypeOK, NEW n \in Nodes, NEW m \in Nodes, NEW r1, NEW r2,
           Sends(n, m, r1, r2)
    PROVE  /\ http'[n]["console"] = r1 /\ http'[m]["peer"] = r2
           /\ \A h \in Nodes : h # n => http'[h]["console"] = http[h]["console"]
           /\ \A h \in Nodes : h # m => http'[h]["peer"] = http[h]["peer"]
<1>1. http \in [Nodes -> [Slots -> Request]]
  BY DEF TypeOK
<1>2. "console" \in Slots /\ "peer" \in Slots /\ "console" # "peer"
  BY ThreadNames
<1>3. [http EXCEPT ![n]["console"] = r1][m]
         \in [Slots -> Request \cup {r1}]
  BY <1>1
<1>4. http'[m] = [[http EXCEPT ![n]["console"] = r1][m] EXCEPT !["peer"] = r2]
  BY <1>1 DEF Sends
<1>5. \A h \in Nodes : h # m => http'[h] = [http EXCEPT ![n]["console"] = r1][h]
  BY <1>1 DEF Sends
<1> QED
  BY <1>1, <1>2, <1>3, <1>4, <1>5

(* A request of a slot changes by the steps of its worker, or is forwarded. *)
LEMMA HttpSteps ==
    ASSUME TypeOK, [Next]_vars, NEW n \in Nodes, NEW k \in Slots,
           http'[n][k] # http[n][k]
    PROVE  HttpMoves(n, k)
<1>1. ASSUME NEW m \in Nodes, NEW h \in Slots, NEW request,
             Serves(m, h, request)
      PROVE  m = n /\ h = k
  BY <1>1, HttpSet
<1>2. ASSUME NEW m \in Nodes, NEW h \in Slots, Http(m, h)
      PROVE  HttpMoves(n, k)
  <2>1. \E request : Serves(m, h, request)
    BY <1>2 DEF Http, HttpRead, HttpWrite, HttpPosted
  <2>2. m = n /\ h = k
    BY <1>1, <2>1
  <2> QED
    BY <1>2, <2>2 DEF HttpMoves
<1>3. ASSUME NEW m \in Nodes, NEW p \in Nodes, Forward(m, p) \/ ForwardReturns(m, p)
      PROVE  HttpMoves(n, k)
  <2>1. \/ \E request : Serves(m, "console", request)
        \/ /\ Forward(m, p)
           /\ \E r1, r2 : Sends(m, p, r1, r2)
    BY <1>3 DEF Forward, ForwardReturns, Sends
  <2>2. ASSUME NEW request, Serves(m, "console", request)
        PROVE  m = n /\ k = "console"
    BY <1>1, <2>2, ThreadNames
  <2>3. ASSUME NEW r1, NEW r2, Sends(m, p, r1, r2)
        PROVE  (m = n /\ k = "console") \/ (p = n /\ k = "peer")
    <3>1. /\ n # m => http'[n]["console"] = http[n]["console"]
          /\ n # p => http'[n]["peer"] = http[n]["peer"]
      BY <2>3, ForwardSets
    <3>2. k = "console" \/ k = "peer"
      BY DEF Slots
    <3> QED
      BY <3>1, <3>2
  <2> QED
    BY <1>3, <2>1, <2>2, <2>3 DEF HttpMoves
<1>4. ASSUME NEW m \in Nodes, NEW task \in Tasks, NEW want \in Wants,
             Console(m, task, want)
      PROVE  HttpMoves(n, k)
  <2>1. m = n /\ k = "console"
    BY <1>1, <1>4, ThreadNames DEF Console
  <2> QED
    BY <1>4, <2>1 DEF HttpMoves
<1>5. ASSUME NEW m \in Nodes, Restart(m) PROVE HttpMoves(n, k)
  <2>1. m = n
    BY <1>5 DEF Restart, TypeOK
  <2> QED
    BY <1>5, <2>1 DEF HttpMoves
<1>6. ASSUME NEW m \in Nodes,
             \/ Query(m) \/ Special(m) \/ CleanUnBelong(m) \/ CleanExceed(m)
             \/ \E h \in Handlers : DeleteEvent(m, h)
      PROVE  FALSE
  BY <1>6 DEF Query, Special, CleanUnBelong, CleanExceed, DeleteEvent,
     QueryList, QueryTake, QueryCheck, Subscribe, FinishSync, SpecialTake,
     Unsubscribe, FinishDelete, CleanScan, CleanLookup, CleanTest,
     CleanTake, FinishClean, ExceedList, ExceedRemove
<1>7. ASSUME Administrator PROVE HttpMoves(n, k)
  BY <1>4, <1>7, ConstantsAssumption DEF Administrator, TaskDelete, SetSwitch
<1>8. ASSUME Environment PROVE HttpMoves(n, k)
  BY <1>5, <1>8 DEF Environment, StartWatch, WatchEvent, Expire,
     NodeCachesChange
<1>9. ~UNCHANGED vars
  BY DEF vars
<1> QED
  BY <1>2, <1>3, <1>6, <1>7, <1>8, <1>9 DEF Next, Forwarding

WaitsFor(n, m) == /\ http[n]["console"].step = "forward"
                  /\ http[n]["console"].waiting = {m}
                  /\ http[n]["console"].task = http[m]["peer"].task

ForwardsSuspensions ==
    \A n \in Nodes : http[n]["console"].step \in {"event", "forward"}
                        => http[n]["console"].want = "DELETE"
PeersAreAwaited ==
    \A m \in Nodes : http[m]["peer"] # NoRequest =>
       http[m]["peer"].want = "DELETE" /\ \E n \in Nodes : WaitsFor(n, m)

TimelyInv == TypeOK /\ ForwardsSuspensions /\ PeersAreAwaited

(* What the request of an administrator becomes. *)
LEMMA ConsoleAfter ==
    ASSUME TypeOK, [Next]_vars, NEW n \in Nodes
    PROVE  LET r == http[n]["console"]
               s == http'[n]["console"]
           IN  \/ s \in {r, NoRequest}
               \/ s.step = "read" /\ s.waiting = {} /\ r = NoRequest
               \/ s.step = "write" /\ s.waiting = r.waiting /\ r.step = "read"
               \/ /\ s.step = "event" /\ s.task = r.task
                  /\ s.want = "DELETE" /\ r.want = "DELETE"
                  /\ s.waiting = r.waiting
                  /\ HttpRead(n, "console") \/ HttpWrite(n, "console")
               \/ /\ s.task = r.task /\ s.want = r.want
                  /\ \/ s.step = r.step /\ (s.waiting = {} \/ r.step = "forward")
                     \/ s.step = "forward" /\ r.step = "event"
<1> DEFINE r == http[n]["console"]
           s == http'[n]["console"]
<1> SUFFICES ASSUME s # r
             PROVE  \/ s = NoRequest
                    \/ s.step = "read" /\ s.waiting = {} /\ r = NoRequest
                    \/ s.step = "write" /\ s.waiting = r.waiting /\ r.step = "read"
                    \/ /\ s.step = "event" /\ s.task = r.task
                       /\ s.want = "DELETE" /\ r.want = "DELETE"
                       /\ s.waiting = r.waiting
                       /\ HttpRead(n, "console") \/ HttpWrite(n, "console")
                    \/ /\ s.task = r.task /\ s.want = r.want
                       /\ \/ s.step = r.step /\ (s.waiting = {} \/ r.step = "forward")
                          \/ s.step = "forward" /\ r.step = "event"
  OBVIOUS
<1>1. /\ "console" \in Slots /\ "console" # "peer"
      /\ NoRequest.step = "none"
      /\ \A q : Remaining(q) \in {NoRequest, q}
  BY ThreadNames DEF NoRequest, Remaining
<1>2. ASSUME NEW q, Serves(n, "console", q) PROVE s = q
  BY <1>1, <1>2, HttpSet
<1>3. r \in Request
  BY <1>1 DEF TypeOK
<1>4. r.step # "none" =>
         r \in [step : {"read", "write", "event", "forward"}, task : Tasks,
                want : Wants, peers : SUBSET Nodes, waiting : SUBSET Nodes]
  BY <1>1, RequestMade
<1> HIDE DEF r, s
<1>5. CASE Restart(n)
  <2>1. http' = [http EXCEPT ![n] = NoRequests]
    BY <1>5 DEF Restart
  <2>2. s = NoRequest
    BY <1>1, <2>1 DEF TypeOK, NoRequests, s
  <2> QED
    BY <2>2
<1>6. CASE HttpRead(n, "console")
  <2>1. r.step = "read"
    BY <1>6 DEF HttpRead, r
  <2>2. \/ Serves(n, "console", [r EXCEPT !.step = "write"])
        \/ Serves(n, "console", [r EXCEPT !.step = "event"]) /\ r.want = "DELETE"
        \/ Serves(n, "console", NoRequest)
    BY <1>6 DEF HttpRead, r
  <2>3. \/ s = [r EXCEPT !.step = "write"]
        \/ s = [r EXCEPT !.step = "event"] /\ r.want = "DELETE"
        \/ s = NoRequest
    BY <1>2, <2>2
  <2> QED
    BY <1>4, <1>6, <2>1, <2>3
<1>7. CASE HttpWrite(n, "console")
  <2>1. r.step = "write"
    BY <1>7 DEF HttpWrite, r
  <2>2. \/ Serves(n, "console", [r EXCEPT !.step = "event"]) /\ r.want = "DELETE"
        \/ Serves(n, "console", NoRequest)
    BY <1>7 DEF HttpWrite, r
  <2>3. \/ s = [r EXCEPT !.step = "event"] /\ r.want = "DELETE"
        \/ s = NoRequest
    BY <1>2, <2>2
  <2> QED
    BY <1>4, <1>7, <2>1, <2>3
<1>8. CASE HttpPosted(n, "console")
  <2>1. r.step = "event"
    BY <1>8 DEF HttpPosted, r
  <2>2. s = Remaining([r EXCEPT !.step = "forward", !.peers = nodeCaches[n] \ {n}])
    BY <1>2, <1>8 DEF HttpPosted, r
  <2>3. \/ s = NoRequest
        \/ s = [r EXCEPT !.step = "forward", !.peers = nodeCaches[n] \ {n}]
    BY <1>1, <2>2
  <2> QED
    BY <1>4, <2>1, <2>3
<1>9. ASSUME NEW task \in Tasks, NEW want \in Wants, Console(n, task, want)
      PROVE  s.step = "read" /\ s.waiting = {} /\ r = NoRequest
  BY <1>2, <1>9 DEF Console, Ask, r
<1>10. ASSUME NEW m \in Nodes, Forward(n, m)
       PROVE  \/ s = NoRequest
              \/ /\ s.step = r.step /\ s.task = r.task /\ s.want = r.want
                 /\ r.step = "forward"
  <2>1. r.step = "forward"
    BY <1>10 DEF Forward, r
  <2> DEFINE request == [r EXCEPT !.peers = @ \ {m}]
  <2>2. \/ \E r2 : Sends(n, m, [request EXCEPT !.waiting = {m}], r2)
        \/ Serves(n, "console", Remaining(request))
    BY <1>10 DEF Forward, Sends, r
  <2>3. s \in {[request EXCEPT !.waiting = {m}], NoRequest, request}
    <3> HIDE DEF request
    <3> QED
      BY <1>1, <1>2, <2>2, ForwardSets DEF s
  <2> QED
    BY <1>4, <2>1, <2>3
<1>11. ASSUME NEW m \in Nodes, ForwardReturns(n, m)
       PROVE  \/ s = NoRequest
              \/ /\ s.step = r.step /\ s.task = r.task /\ s.want = r.want
                 /\ s.waiting = {}
  <2>1. s = Remaining([r EXCEPT !.waiting = {}]) /\ r.waiting # {}
    BY <1>2, <1>11 DEF ForwardReturns, r
  <2>2. s \in {NoRequest, [r EXCEPT !.waiting = {}]} /\ r.waiting # {}
    BY <1>1, <2>1
  <2>3. r.step # "none"
    BY <1>3, <2>1 DEF Request, NoRequest
  <2> QED
    BY <1>4, <2>2, <2>3
<1>12. \/ Restart(n) \/ Http(n, "console")
       \/ \E task \in Tasks, want \in Wants : Console(n, task, want)
       \/ \E m \in Nodes : Forward(n, m) \/ ForwardReturns(n, m)
  BY <1>1, HttpSteps DEF HttpMoves, r, s
<1> QED
  BY <1>5, <1>6, <1>7, <1>8, <1>9, <1>10, <1>11, <1>12 DEF Http

(* What a forwarded request becomes: it keeps its task until it ends. *)
LEMMA PeerAfter ==
    ASSUME TypeOK, [Next]_vars, NEW m \in Nodes
    PROVE  LET r == http[m]["peer"]
               s == http'[m]["peer"]
           IN  \/ s \in {r, NoRequest}
               \/ /\ r # NoRequest /\ s.task = r.task /\ s.want = r.want
                  /\ \/ s.step = "write" /\ HttpRead(m, "peer")
                     \/ s.step = "event"
               \/ /\ r = NoRequest
                  /\ \E n \in Nodes :
                        /\ http[n]["console"].step = "forward"
                        /\ http'[n]["console"] =
                              [http[n]["console"] EXCEPT !.peers = @ \ {m},
                                                         !.waiting = {m}]
                        /\ s = Ask(http[n]["console"].task, "DELETE")
<1> DEFINE r == http[m]["peer"]
           s == http'[m]["peer"]
<1>1. "peer" \in Slots /\ "peer" # "console" /\ NoRequest.step = "none"
  BY ThreadNames DEF NoRequest
<1>2. ASSUME NEW q, Serves(m, "peer", q) PROVE s = q
  BY <1>1, <1>2, HttpSet
<1>3. r.step # "none" =>
         r \in [step : {"read", "write", "event", "forward"}, task : Tasks,
                want : Wants, peers : SUBSET Nodes, waiting : SUBSET Nodes]
  BY <1>1, RequestMade
<1>4. CASE Restart(m)
  <2>1. http' = [http EXCEPT ![m] = NoRequests]
    BY <1>4 DEF Restart
  <2>2. s = NoRequest
    BY <1>1, <2>1 DEF TypeOK, NoRequests
  <2> QED
    BY <2>2
<1>5. CASE HttpRead(m, "peer")
  <2>1. r.step = "read"
    BY <1>5 DEF HttpRead
  <2>2. \/ Serves(m, "peer", [r EXCEPT !.step = "write"])
        \/ Serves(m, "peer", [r EXCEPT !.step = "event"])
        \/ Serves(m, "peer", NoRequest)
    BY <1>5 DEF HttpRead
  <2> HIDE DEF r, s
  <2>3. s \in {[r EXCEPT !.step = "write"], [r EXCEPT !.step = "event"], NoRequest}
    BY <1>2, <2>2
  <2>4. /\ s \in {r, NoRequest} \/ (s.task = r.task /\ s.want = r.want)
        /\ s \in {r, NoRequest} \/ s.step \in {"write", "event"}
        /\ r # NoRequest
    BY <1>1, <1>3, <2>1, <2>3
  <2> QED
    BY <1>5, <2>4 DEF r, s
<1>6. CASE HttpWrite(m, "peer")
  <2>1. r.step = "write"
    BY <1>6 DEF HttpWrite
  <2>2. \/ Serves(m, "peer", [r EXCEPT !.step = "event"])
        \/ Serves(m, "peer", NoRequest)
    BY <1>6 DEF HttpWrite
  <2> HIDE DEF r, s
  <2>3. s \in {[r EXCEPT !.step = "event"], NoRequest}
    BY <1>2, <2>2
  <2>4. /\ s = NoRequest \/ (s.task = r.task /\ s.want = r.want /\ s.step = "event")
        /\ r # NoRequest
    BY <1>1, <1>3, <2>1, <2>3
  <2> QED
    BY <2>4 DEF r, s
<1>7. CASE HttpPosted(m, "peer")
  <2>1. s = NoRequest
    BY <1>1, <1>2, <1>7 DEF HttpPosted
  <2> QED
    BY <2>1
<1>8. ASSUME NEW n \in Nodes, Forward(n, m), s # r
      PROVE  /\ r = NoRequest
             /\ http[n]["console"].step = "forward"
             /\ http'[n]["console"] =
                   [http[n]["console"] EXCEPT !.peers = @ \ {m}, !.waiting = {m}]
             /\ s = Ask(http[n]["console"].task, "DELETE")
  <2> DEFINE c == http[n]["console"]
             request == [c EXCEPT !.peers = @ \ {m}]
  <2>1. c.step = "forward"
    BY <1>8 DEF Forward
  <2>2. c \in [step : {"read", "write", "event", "forward"}, task : Tasks,
               want : Wants, peers : SUBSET Nodes, waiting : SUBSET Nodes]
    BY <2>1, RequestMade, ThreadNames
  <2>3. /\ [request EXCEPT !.waiting = {m}] =
              [c EXCEPT !.peers = @ \ {m}, !.waiting = {m}]
        /\ request.task = c.task
    BY <2>2
  <2>4. \/ /\ r = NoRequest
           /\ Sends(n, m, [request EXCEPT !.waiting = {m}],
                    Ask(request.task, "DELETE"))
        \/ Serves(n, "console", Remaining(request))
    BY <1>8 DEF Forward, Sends
  <2>5. ASSUME NEW q, Serves(n, "console", q) PROVE FALSE
    BY <1>1, <1>8, <2>5, HttpSet, ThreadNames
  <2> HIDE DEF request, c
  <2>6. /\ r = NoRequest
        /\ http'[n]["console"] = [request EXCEPT !.waiting = {m}]
        /\ s = Ask(request.task, "DELETE")
    BY <2>4, <2>5, ForwardSets
  <2> QED
    BY <2>1, <2>3, <2>6 DEF c
<1>9. \/ s = r \/ Restart(m) \/ Http(m, "peer")
      \/ \E n \in Nodes : Forward(n, m)
  BY <1>1, HttpSteps DEF HttpMoves
<1> QED
  BY <1>4, <1>5, <1>6, <1>7, <1>8, <1>9 DEF Http

(* A task is written by the request about it, or deleted. *)
LEMMA StoreSteps ==
    ASSUME TypeOK, [Next]_vars, NEW t \in Tasks, store'[t] # store[t]
    PROVE  \/ store'[t] = NoTask /\ TaskDelete(t)
           \/ \E n \in Nodes, k \in Slots :
                 /\ HttpWrite(n, k)
                 /\ http[n][k].task = t
                 /\ store'[t].task = t
                 /\ store'[t].op = nextOperation
                 /\ store'[t].status = "DELETE" => http[n][k].want = "DELETE"
<1>0. store \in [Tasks -> Record \cup {NoTask}]
  BY DEF TypeOK
<1>1. ASSUME NEW task, NEW rec, Write(task, rec)
      PROVE  task = t /\ store'[t] = rec
  <2>1. store' = [store EXCEPT ![task] = rec]
    BY <1>1 DEF Write
  <2> QED
    BY <1>0, <2>1
<1>2. ASSUME NEW n \in Nodes, NEW k \in Slots, HttpWrite(n, k)
      PROVE  /\ http[n][k].task = t
             /\ store'[t].task = t
             /\ store'[t].op = nextOperation
             /\ store'[t].status = "DELETE" => http[n][k].want = "DELETE"
  <2> DEFINE rec == [task |-> http[n][k].task, op |-> nextOperation,
                     status |-> IF http[n][k].want = "DELETE" THEN "DELETE"
                                                              ELSE "SYNC"]
  <2>1. Write(http[n][k].task, rec)
    BY <1>2 DEF HttpWrite
  <2>2. /\ rec.task = http[n][k].task /\ rec.op = nextOperation
        /\ rec.status = "DELETE" => http[n][k].want = "DELETE"
    OBVIOUS
  <2> HIDE DEF rec
  <2>3. http[n][k].task = t /\ store'[t] = rec
    BY <1>1, <2>1
  <2> QED
    BY <2>2, <2>3
<1>3. ASSUME NEW task \in Tasks, TaskDelete(task)
      PROVE  store'[t] = NoTask /\ TaskDelete(t)
  BY <1>1, <1>3 DEF TaskDelete
<1>4. ASSUME NEW n \in Nodes,
             \/ Query(n) \/ Special(n) \/ CleanUnBelong(n) \/ CleanExceed(n)
             \/ \E k \in Handlers : DeleteEvent(n, k)
      PROVE  FALSE
  BY <1>4 DEF Query, Special, CleanUnBelong, CleanExceed, DeleteEvent,
     QueryList, QueryTake, QueryCheck, Subscribe, FinishSync, SpecialTake,
     Unsubscribe, FinishDelete, CleanScan, CleanLookup, CleanTest,
     CleanTake, FinishClean, ExceedList,
     ExceedRemove, etcd
<1>5. ASSUME NEW n \in Nodes, (\E k \in Slots : Http(n, k)) \/ Forwarding(n)
      PROVE  \E k \in Slots : HttpWrite(n, k)
  BY <1>5 DEF Http, Forwarding, HttpRead, HttpPosted, Forward, ForwardReturns,
     etcd
<1>6. ASSUME Administrator PROVE \E task \in Tasks : TaskDelete(task)
  BY <1>6 DEF Administrator, Console, SetSwitch, etcd
<1>7. ~Environment
  BY DEF Environment, StartWatch, WatchEvent, Expire, NodeCachesChange,
     Restart, etcd
<1>8. ~UNCHANGED vars
  BY DEF vars, etcd
<1> QED
  BY <1>2, <1>3, <1>4, <1>5, <1>6, <1>7, <1>8 DEF Next

(* A peer serves a request while its sender waits for it. *)
LEMMA PeersNext ==
    ASSUME TypeOK, PeersAreAwaited, [Next /\ InTime]_vars
    PROVE  PeersAreAwaited'
<1> SUFFICES ASSUME NEW m \in Nodes, http'[m]["peer"] # NoRequest
             PROVE  /\ http'[m]["peer"].want = "DELETE"
                    /\ \E n \in Nodes :
                          /\ http'[n]["console"].step = "forward"
                          /\ http'[n]["console"].waiting = {m}
                          /\ http'[n]["console"].task = http'[m]["peer"].task
  BY DEF PeersAreAwaited, WaitsFor
<1>1. [Next]_vars
  OBVIOUS
<1>2. CASE http[m]["peer"] # NoRequest
  <2>1. PICK n \in Nodes : WaitsFor(n, m)
    BY <1>2 DEF PeersAreAwaited
  <2>2. http'[n]["console"] = http[n]["console"]
    <3>1. CASE InTime
      BY <1>2, <2>1, <3>1 DEF InTime, WaitsFor, Answered
    <3>2. CASE UNCHANGED vars
      BY <3>2 DEF vars
    <3> QED
      BY <3>1, <3>2
  <2>3. /\ http'[m]["peer"].want = http[m]["peer"].want
        /\ http'[m]["peer"].task = http[m]["peer"].task
    BY <1>1, <1>2, PeerAfter
  <2> QED
    BY <1>2, <2>1, <2>2, <2>3 DEF PeersAreAwaited, WaitsFor
<1>3. CASE http[m]["peer"] = NoRequest
  <2>1. PICK n \in Nodes :
           /\ http[n]["console"].step = "forward"
           /\ http'[n]["console"] =
                 [http[n]["console"] EXCEPT !.peers = @ \ {m}, !.waiting = {m}]
           /\ http'[m]["peer"] = Ask(http[n]["console"].task, "DELETE")
    BY <1>1, <1>3, PeerAfter
  <2>2. http[n]["console"] \in
           [step : {"read", "write", "event", "forward"}, task : Tasks,
            want : Wants, peers : SUBSET Nodes, waiting : SUBSET Nodes]
    BY <2>1, RequestMade, ThreadNames
  <2>3. /\ http'[n]["console"].step = "forward"
        /\ http'[n]["console"].waiting = {m}
        /\ http'[n]["console"].task = http[n]["console"].task
    BY <2>1, <2>2
  <2>4. /\ http'[m]["peer"].want = "DELETE"
        /\ http'[m]["peer"].task = http[n]["console"].task
    BY <2>1 DEF Ask
  <2> QED
    BY <2>3, <2>4
<1> QED
  BY <1>2, <1>3

(* Only suspensions are posted and forwarded. *)
LEMMA ForwardsNext ==
    ASSUME TypeOK, ForwardsSuspensions, [Next]_vars
    PROVE  ForwardsSuspensions'
<1> SUFFICES ASSUME NEW n \in Nodes,
                    http'[n]["console"].step \in {"event", "forward"}
             PROVE  http'[n]["console"].want = "DELETE"
  BY DEF ForwardsSuspensions
<1>1. NoRequest.step = "none"
  BY DEF NoRequest
<1> QED
  BY <1>1, ConsoleAfter DEF ForwardsSuspensions

(* No request is served at first. *)
LEMMA TimelyInit == Init => TimelyInv
<1> SUFFICES ASSUME Init PROVE TimelyInv
  OBVIOUS
<1>1. \A n \in Nodes, k \in Slots : http[n][k] = NoRequest
  BY DEF Init, NoRequests
<1> QED
  BY <1>1, TypeInit, ThreadNames
     DEF TimelyInv, ForwardsSuspensions, PeersAreAwaited, NoRequest

(* The invariant of TimelySpec is inductive. *)
LEMMA TimelyNext == TimelyInv /\ [Next /\ InTime]_vars => TimelyInv'
BY TypeNext, ForwardsNext, PeersNext DEF TimelyInv

(* A suspension that is forwarded in time is written only while an         *)
(* administrator waits for it, with any failures of etcd and of the        *)
(* registries, restarts, changes of view and parallel requests.            *)
THEOREM SuspendedByRequest == TimelySpec => SuspendedOnRequest
<1> DEFINE A == \A t \in Tasks :
                   store'[t] \notin {store[t], NoTask} /\ store'[t].status = "DELETE"
                   => \E n \in Nodes : /\ http[n]["console"].task = t
                                       /\ http[n]["console"].want = "DELETE"
<1>1. Init => TimelyInv
  BY TimelyInit
<1>2. TimelyInv /\ [Next /\ InTime]_vars => TimelyInv'
  BY TimelyNext
<1>3. ASSUME TimelyInv, [Next /\ InTime]_vars PROVE [A]_vars
  <2> SUFFICES ASSUME NEW t \in Tasks, store'[t] \notin {store[t], NoTask},
                      store'[t].status = "DELETE"
               PROVE  \E n \in Nodes : /\ http[n]["console"].task = t
                                       /\ http[n]["console"].want = "DELETE"
    OBVIOUS
  <2>1. PICK n \in Nodes, k \in Slots :
           /\ HttpWrite(n, k)
           /\ http[n][k].task = t /\ http[n][k].want = "DELETE"
    BY <1>3, StoreSteps DEF TimelyInv
  <2>2. CASE k = "console"
    BY <2>1, <2>2
  <2>3. CASE k = "peer"
    <3>1. http[n]["peer"] # NoRequest
      BY <2>1, <2>3 DEF HttpWrite, NoRequest
    <3>2. PICK m \in Nodes : WaitsFor(m, n)
      BY <1>3, <3>1 DEF TimelyInv, PeersAreAwaited
    <3> QED
      BY <1>3, <2>1, <2>3, <3>2 DEF TimelyInv, ForwardsSuspensions, WaitsFor
  <2> QED
    BY <2>2, <2>3 DEF Slots
<1> HIDE DEF A
<1>4. TimelySpec => [][A]_vars
  BY <1>1, <1>2, <1>3, PTL DEF TimelySpec
<1> QED
  BY <1>4 DEF SuspendedOnRequest, A

=============================================================================
