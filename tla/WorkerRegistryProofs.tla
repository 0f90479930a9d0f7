----------------------- MODULE WorkerRegistryProofs -----------------------
(* What is proved about WorkerRegistry, for every set of workers and of    *)
(* services, every ring and every bound: the views follow etcd, and the    *)
(* ring then gives each service one owner.                                 *)
EXTENDS WorkerRegistry, ConsistentHashProofs

----------------------------------------------------------------------------
(* Type correctness.                                                       *)

LEMMA BudgetSpent ==
    ASSUME TypeOK, Spends("failures") \/ Spends("lost")
    PROVE  budget' \in Budget
<1>1. /\ budget \in Budget
      /\ budget.failures \in 0..MaxFailures /\ budget.lost \in 0..MaxLost
      /\ MaxFailures \in Nat /\ MaxLost \in Nat
  BY RegistryAssumption DEF TypeOK, Budget
<1>2. CASE Spends("failures")
  <2>1. budget.failures - 1 \in 0..MaxFailures
    BY <1>1, <1>2 DEF Spends
  <2>2. budget' = [budget EXCEPT !.failures = budget.failures - 1]
    BY <1>1, <1>2 DEF Spends, Budget
  <2> QED BY <1>1, <2>1, <2>2 DEF Budget
<1>3. CASE Spends("lost")
  <2>1. budget.lost - 1 \in 0..MaxLost
    BY <1>1, <1>3 DEF Spends
  <2>2. budget' = [budget EXCEPT !.lost = budget.lost - 1]
    BY <1>1, <1>3 DEF Spends, Budget
  <2> QED BY <1>1, <2>1, <2>2 DEF Budget
<1> QED BY <1>2, <1>3

LEMMA StartSpent ==
    ASSUME TypeOK, NEW n \in Nodes, Start(n)
    PROVE  budget' \in Budget
<1>1. /\ budget \in Budget /\ budget.starts \in [Nodes -> 0..MaxStarts]
      /\ budget.starts[n] > 0 /\ MaxStarts \in Nat
  BY RegistryAssumption DEF TypeOK, Budget, Start, history
<1>2. budget.starts[n] - 1 \in 0..MaxStarts
  BY <1>1
<1>3. budget' = [budget EXCEPT !.starts = [budget.starts EXCEPT ![n] = budget.starts[n] - 1]]
  BY <1>1 DEF Start, Budget, history
<1>4. [budget.starts EXCEPT ![n] = budget.starts[n] - 1] \in [Nodes -> 0..MaxStarts]
  BY <1>1, <1>2
<1> QED BY <1>1, <1>3, <1>4 DEF Budget

LEMMA AnnounceTyped ==
    ASSUME TypeOK, NEW type \in {"PUT", "DELETE"}, NEW m \in Nodes,
           Announce(type, m)
    PROVE  events' \in [Nodes -> Seq(Event)] /\ unseen' \in [Nodes -> SUBSET Nodes]
<1>1. [type |-> type, node |-> m] \in Event
  BY DEF Event
<1>2. \A n \in Nodes : Append(events[n], [type |-> type, node |-> m]) \in Seq(Event)
  BY <1>1 DEF TypeOK
<1> QED BY <1>2 DEF TypeOK, Announce

LEMMA TypeNext == ASSUME TypeOK, [Next]_vars PROVE TypeOK'
<1>1. CASE UNCHANGED vars
  BY <1>1 DEF TypeOK, vars, etcd, watcher, history
<1>2. ASSUME NEW n \in Nodes, Start(n) PROVE TypeOK'
  BY <1>2, StartSpent DEF TypeOK, Start, Reaches, etcd, watcher, history
<1>3. ASSUME NEW n \in Nodes, CheckSwitch(n) PROVE TypeOK'
  BY <1>3 DEF TypeOK, CheckSwitch, Reaches, etcd, watcher, history
<1>4. ASSUME NEW n \in Nodes, WriteSwitch(n) PROVE TypeOK'
  BY <1>4 DEF TypeOK, WriteSwitch, Reaches, watcher, history
<1>5. ASSUME NEW n \in Nodes, Register(n) PROVE TypeOK'
  BY <1>5, AnnounceTyped DEF TypeOK, Register, Reaches
<1>6. ASSUME NEW n \in Nodes, InitData(n) PROVE TypeOK'
  BY <1>6 DEF TypeOK, InitData, Reaches, Registered, etcd, history
<1>7. ASSUME NEW n \in Nodes, StartFails(n) PROVE TypeOK'
  BY <1>7, BudgetSpent DEF TypeOK, StartFails, Reaches, etcd, watcher
<1>8. ASSUME NEW n \in Nodes, StartWatch(n) PROVE TypeOK'
  BY <1>8 DEF TypeOK, StartWatch, etcd, history
<1>9. ASSUME NEW n \in Nodes, HandleEvent(n) PROVE TypeOK'
  <2>1. Head(events[n]) \in Event /\ Tail(events[n]) \in Seq(Event)
    BY <1>9 DEF TypeOK, HandleEvent, history
  <2>2. events' \in [Nodes -> Seq(Event)]
    BY <1>9, <2>1 DEF TypeOK, HandleEvent, history
  <2>3. Head(events[n]).node \in Nodes
    BY <2>1 DEF Event
  <2>4. nodeCaches' \in [Nodes -> SUBSET Nodes] /\ clearing' \in [Nodes -> SUBSET Nodes]
    <3>1. /\ Added(nodeCaches[n], Head(events[n]).node) \subseteq Nodes
          /\ Removed(n, nodeCaches[n], Head(events[n]).node) \subseteq Nodes
      BY <2>3 DEF TypeOK, Added, Removed
    <3>2. CASE Head(events[n]).type = "PUT"
      <4>1. /\ nodeCaches' = [nodeCaches EXCEPT ![n] = Added(@, Head(events[n]).node)]
            /\ clearing' = clearing
        BY <1>9, <3>2 DEF HandleEvent, history
      <4> QED BY <3>1, <4>1 DEF TypeOK
    <3>3. CASE Head(events[n]).type # "PUT"
      <4>1. /\ nodeCaches' = [nodeCaches EXCEPT ![n] = Removed(n, @, Head(events[n]).node)]
            /\ clearing' = [clearing EXCEPT ![n] = {Head(events[n]).node} \ {n}]
        BY <1>9, <3>3 DEF HandleEvent, history
      <4>2. {Head(events[n]).node} \ {n} \subseteq Nodes
        BY <2>3
      <4> QED BY <3>1, <4>1, <4>2 DEF TypeOK
    <3> QED BY <3>2, <3>3
  <2> QED BY <1>9, <2>2, <2>4 DEF TypeOK, HandleEvent, etcd, history
<1>10. ASSUME NEW n \in Nodes, NEW m \in Nodes, ClearKeys(n, m) PROVE TypeOK'
  BY <1>10, BudgetSpent DEF TypeOK, ClearKeys, Cleared, history
<1>11. ASSUME NEW n \in Nodes, NEW s \in Services, Take(n, s) \/ Give(n, s) PROVE TypeOK'
  <2>1. CASE Take(n, s)
    BY <2>1 DEF TypeOK, Take, watcher, history
  <2>2. CASE Give(n, s)
    BY <2>2 DEF TypeOK, Give, watcher, history
  <2> QED BY <1>11, <2>1, <2>2
<1>12. ASSUME NEW n \in Nodes, Crash(n) PROVE TypeOK'
  BY <1>12 DEF TypeOK, Crash, Reaches
<1>13. ASSUME NEW n \in Nodes, Expire(n) \/ LoseLease(n) PROVE TypeOK'
  <2>1. Drop(n) /\ (UNCHANGED budget \/ Spends("lost"))
    BY <1>13 DEF Expire, LoseLease
  <2> QED BY <2>1, AnnounceTyped, BudgetSpent DEF TypeOK, Drop
<1>14. ASSUME NEW state \in {"on", "off"}, SetSwitch(state) PROVE TypeOK'
  BY <1>14 DEF TypeOK, SetSwitch, watcher, history
<1> QED
  BY <1>1, <1>2, <1>3, <1>4, <1>5, <1>6, <1>7, <1>8, <1>9, <1>10, <1>11, <1>12, <1>13, <1>14
     DEF Next, Starting, Watching, Sharding

(* Every reachable state is well typed. *)
THEOREM RegistryTypeCorrect == Spec => []TypeOK
<1>1. Init => TypeOK
  BY RegistryAssumption DEF Init, TypeOK, Budget
<1>2. TypeOK /\ [Next]_vars => TypeOK'
  BY TypeNext
<1> QED BY <1>1, <1>2, PTL DEF Spec

----------------------------------------------------------------------------
(* What a queue of events makes of a view, when it grows at its end and    *)
(* when its first event is handled.                                        *)

LEMMA AppendSees ==
    ASSUME NEW q \in Seq(Event), NEW e \in Event, NEW seen, NEW m
    PROVE  WillSee(seen, Append(q, e), m)
             <=> IF e.node = m THEN e.type = "PUT" ELSE WillSee(seen, q, m)
<1> DEFINE r == Append(q, e)
<1>1. /\ Len(q) \in Nat /\ Len(r) = Len(q) + 1 /\ r[Len(q) + 1] = e
      /\ \A i \in 1..Len(q) : r[i] = q[i]
  OBVIOUS
<1>2. CASE e.node = m
  <2>1. Len(q) + 1 \in About(r, m) /\ \A j \in About(r, m) : j <= Len(q) + 1
    BY <1>1, <1>2 DEF About
  <2>2. \A i \in About(r, m) : (\A j \in About(r, m) : j <= i) => i = Len(q) + 1
    BY <1>1, <2>1 DEF About
  <2> QED BY <1>1, <1>2, <2>1, <2>2 DEF WillSee
<1>3. CASE e.node # m
  <2>1. About(r, m) = About(q, m)
    <3>1. \A i \in 1..Len(r) : i \in 1..Len(q) \/ i = Len(q) + 1
      BY <1>1
    <3> QED BY <1>1, <1>3, <3>1 DEF About
  <2>2. \A i \in About(q, m) : r[i] = q[i]
    BY <1>1 DEF About
  <2> HIDE DEF r
  <2>3. WillSee(seen, r, m) <=> WillSee(seen, q, m)
    BY <2>1, <2>2 DEF WillSee
  <2> QED BY <1>3, <2>3 DEF r
<1> QED BY <1>2, <1>3

LEMMA HeadSees ==
    ASSUME NEW q \in Seq(Event), q # <<>>, NEW seen, NEW seen1, NEW m,
           m \in seen1 <=> IF Head(q).node = m THEN Head(q).type = "PUT" ELSE m \in seen
    PROVE  WillSee(seen1, Tail(q), m) <=> WillSee(seen, q, m)
<1> DEFINE t == Tail(q)
<1>1. /\ Len(q) \in Nat /\ Len(q) >= 1 /\ Len(t) = Len(q) - 1 /\ Head(q) = q[1]
      /\ \A i \in 1..Len(t) : t[i] = q[i + 1]
  OBVIOUS
<1> HIDE DEF t
<1>2. \A i \in About(t, m) : i \in Nat /\ i + 1 \in About(q, m) /\ t[i] = q[i + 1]
  BY <1>1 DEF About
<1>3. \A i \in About(q, m) : i \in Nat /\ (i = 1 \/ i - 1 \in About(t, m))
  BY <1>1 DEF About
<1>4. CASE About(t, m) = {}
  <2>1. CASE q[1].node = m
    <3>1. About(q, m) = {1}
      <4>1. 1 \in About(q, m)
        BY <1>1, <2>1 DEF About
      <4> QED BY <1>3, <1>4, <4>1
    <3> QED BY <1>1, <1>4, <2>1, <3>1 DEF WillSee, t
  <2>2. CASE q[1].node # m
    <3>1. About(q, m) = {}
      BY <1>3, <1>4, <2>2 DEF About
    <3> QED BY <1>1, <1>4, <2>2, <3>1 DEF WillSee, t
  <2> QED BY <2>1, <2>2
<1>5. CASE About(t, m) # {}
  <2>1. About(q, m) # {}
    BY <1>2, <1>5
  <2>2. ASSUME NEW i \in About(t, m), \A j \in About(t, m) : j <= i, t[i].type = "PUT"
        PROVE  \E k \in About(q, m) : (\A j \in About(q, m) : j <= k) /\ q[k].type = "PUT"
    <3>1. \A j \in About(q, m) : j <= i + 1
      BY <1>2, <1>3, <2>2
    <3> QED BY <1>2, <2>2, <3>1
  <2>3. ASSUME NEW k \in About(q, m), \A j \in About(q, m) : j <= k, q[k].type = "PUT"
        PROVE  \E i \in About(t, m) : (\A j \in About(t, m) : j <= i) /\ t[i].type = "PUT"
    <3>1. PICK i \in About(t, m) : TRUE
      BY <1>5
    <3>2. k # 1
      <4>1. i \in 1..Len(t)
        BY DEF About
      <4>2. i + 1 <= k
        BY <1>2, <2>3
      <4> QED BY <1>1, <4>1, <4>2
    <3>3. k - 1 \in About(t, m) /\ k \in Nat
      BY <1>3, <3>2
    <3>4. t[k - 1] = q[k]
      BY <1>2, <3>3
    <3>5. \A j \in About(t, m) : j <= k - 1
      BY <1>2, <2>3, <3>3
    <3> QED BY <2>3, <3>3, <3>4, <3>5
  <2> QED BY <1>5, <2>1, <2>2, <2>3 DEF WillSee, t
<1> QED BY <1>4, <1>5

----------------------------------------------------------------------------
(* The views follow etcd.  The invariant adds how far a worker that reads, *)
(* or watches, has come.                                                   *)

PhasesAgree ==
    \A n \in Nodes :
        /\ phase[n] = "read" => workers[n] = "renewed"
        /\ watch[n] # "off" => Up(n) /\ n \in nodeCaches[n]
        /\ Up(n) /\ watch[n] = "off" => unseen[n] = Nodes
        /\ watch[n] # "on" => events[n] = <<>>

RegistryInv == TypeOK /\ PhasesAgree /\ ViewCoherent

(* A step that touches neither the worker keys nor what a worker knows of  *)
(* them.                                                                   *)
LEMMA NothingSeen ==
    ASSUME RegistryInv, Registered' = Registered,
           UNCHANGED <<nodeCaches, events, unseen>>, \A n \in Nodes : Up(n)' => Up(n)
    PROVE  ViewCoherent'
BY DEF RegistryInv, ViewCoherent

(* A worker key is put or deleted.                                         *)
LEMMA AnnouncedCoherent ==
    ASSUME RegistryInv, NEW type \in {"PUT", "DELETE"}, NEW k \in Nodes,
           Announce(type, k), UNCHANGED nodeCaches,
           \A n \in Nodes : Up(n)' => Up(n),
           \A m \in Nodes : m \in Registered' <=>
                IF m = k THEN type = "PUT" ELSE m \in Registered
    PROVE  ViewCoherent'
<1> SUFFICES ASSUME NEW n \in Nodes, NEW m \in Nodes,
                    Up(n)', m # n, m \notin unseen'[n]
             PROVE  WillSee(nodeCaches'[n], events'[n], m) <=> m \in Registered'
  BY DEF ViewCoherent
<1> DEFINE e == [type |-> type, node |-> k]
<1>1. Up(n) /\ nodeCaches'[n] = nodeCaches[n] /\ events[n] \in Seq(Event) /\ e \in Event
  BY DEF RegistryInv, TypeOK, Event
<1>2. m \notin unseen[n]
  BY DEF Announce
<1>3. WillSee(nodeCaches[n], events[n], m) <=> m \in Registered
  BY <1>1, <1>2 DEF RegistryInv, ViewCoherent
<1>4. CASE watch[n] = "on"
  <2>1. events'[n] = Append(events[n], e)
    BY <1>4 DEF Announce
  <2>2. WillSee(nodeCaches[n], Append(events[n], e), m)
          <=> IF k = m THEN type = "PUT" ELSE WillSee(nodeCaches[n], events[n], m)
    BY <1>1, AppendSees
  <2> QED BY <1>1, <1>3, <2>1, <2>2
<1>5. CASE watch[n] # "on"
  <2>1. events'[n] = events[n]
    BY <1>5 DEF Announce
  <2>2. m # k
    <3>1. CASE watch[n] = "scheduled"
      BY <3>1 DEF Announce
    <3>2. CASE watch[n] = "off"
      BY <1>1, <1>2, <3>2 DEF RegistryInv, PhasesAgree
    <3> QED BY <1>5, <3>1, <3>2 DEF RegistryInv, TypeOK
  <2> QED BY <1>1, <1>3, <2>1, <2>2
<1> QED BY <1>4, <1>5

LEMMA RegisterKeeps ==
    ASSUME RegistryInv, NEW n \in Nodes, Register(n)
    PROVE  PhasesAgree' /\ ViewCoherent'
<1>1. PhasesAgree'
  BY DEF RegistryInv, TypeOK, PhasesAgree, Register, Announce, Reaches, Up
<1>2. ViewCoherent'
  <2>1. \A m \in Nodes : Up(m)' => Up(m)
    BY DEF RegistryInv, TypeOK, Register, Reaches, Up
  <2>2. \A m \in Nodes : m \in Registered' <=> IF m = n THEN TRUE ELSE m \in Registered
    BY DEF RegistryInv, TypeOK, Register, Registered
  <2> QED BY <2>1, <2>2, AnnouncedCoherent DEF Register
<1> QED BY <1>1, <1>2

LEMMA DropKeeps ==
    ASSUME RegistryInv, NEW k \in Nodes, Expire(k) \/ LoseLease(k)
    PROVE  PhasesAgree' /\ ViewCoherent'
<1>1. Drop(k)
  BY DEF Expire, LoseLease
<1>2. workers[k] = "abandoned" \/ (workers[k] = "renewed" /\ Up(k))
  BY DEF Expire, LoseLease
<1>3. PhasesAgree'
  BY <1>1, <1>2 DEF RegistryInv, TypeOK, PhasesAgree, Drop, Announce, Up
<1>4. ViewCoherent'
  <2>1. \A m \in Nodes : m \in Registered' <=> IF m = k THEN FALSE ELSE m \in Registered
    BY <1>1, <1>2 DEF RegistryInv, TypeOK, Drop, Registered
  <2>2. \A m \in Nodes : Up(m)' => Up(m)
    BY <1>1 DEF Drop, Up
  <2> QED BY <1>1, <2>1, <2>2, AnnouncedCoherent DEF Drop
<1> QED BY <1>3, <1>4

LEMMA InitDataKeeps ==
    ASSUME RegistryInv, NEW n \in Nodes, InitData(n)
    PROVE  PhasesAgree' /\ ViewCoherent'
<1>1. n \in Registered /\ watch[n] = "off" /\ events[n] = <<>>
  BY DEF RegistryInv, TypeOK, PhasesAgree, InitData, Registered, Up, history
<1>2. PhasesAgree'
  BY <1>1 DEF RegistryInv, TypeOK, PhasesAgree, InitData, Reaches, Up, etcd, history
<1>3. ViewCoherent'
  <2> SUFFICES ASSUME NEW k \in Nodes, NEW m \in Nodes,
                      Up(k)', m # k, m \notin unseen'[k]
               PROVE  WillSee(nodeCaches'[k], events'[k], m) <=> m \in Registered'
    BY DEF ViewCoherent
  <2>1. Registered' = Registered /\ events' = events /\ unseen' = unseen
    BY DEF InitData, Registered, etcd, history
  <2>2. CASE k = n
    <3>1. nodeCaches'[k] = Registered /\ About(events[k], m) = {}
      BY <1>1, <2>2 DEF InitData, RegistryInv, TypeOK, About, history
    <3> QED BY <2>1, <3>1 DEF WillSee
  <2>3. CASE k # n
    <3>1. Up(k) /\ nodeCaches'[k] = nodeCaches[k]
      BY <2>3 DEF InitData, Reaches, RegistryInv, TypeOK, Up, history
    <3> QED BY <2>1, <3>1 DEF RegistryInv, ViewCoherent
  <2> QED BY <2>2, <2>3
<1> QED BY <1>2, <1>3

LEMMA HandleEventKeeps ==
    ASSUME RegistryInv, NEW n \in Nodes, HandleEvent(n)
    PROVE  PhasesAgree' /\ ViewCoherent'
<1> DEFINE e == Head(events[n])
<1>1. events[n] \in Seq(Event) /\ events[n] # <<>> /\ e \in Event /\ watch[n] = "on"
  BY DEF RegistryInv, TypeOK, PhasesAgree, HandleEvent, history
<1>2. \A m \in Nodes \ {n} :
         m \in nodeCaches'[n] <=> IF e.node = m THEN e.type = "PUT" ELSE m \in nodeCaches[n]
  <2>1. CASE e.type = "PUT"
    <3>1. nodeCaches'[n] = nodeCaches[n] \cup {e.node}
      BY <2>1 DEF HandleEvent, Added, RegistryInv, TypeOK, history
    <3> QED BY <2>1, <3>1
  <2>2. CASE e.type # "PUT"
    <3>1. nodeCaches'[n] = Removed(n, nodeCaches[n], e.node)
      BY <2>2 DEF HandleEvent, RegistryInv, TypeOK, history
    <3> QED BY <2>2, <3>1 DEF Removed
  <2> QED BY <2>1, <2>2
<1>3. n \in nodeCaches'[n]
  <2>1. n \in nodeCaches[n]
    BY <1>1 DEF RegistryInv, PhasesAgree
  <2> QED BY <2>1 DEF HandleEvent, Added, Removed, RegistryInv, TypeOK, history
<1>4. \A k \in Nodes \ {n} : nodeCaches'[k] = nodeCaches[k] /\ events'[k] = events[k]
  BY DEF HandleEvent, RegistryInv, TypeOK, history
<1>5. events'[n] = Tail(events[n]) /\ UNCHANGED <<workers, phase, watch, unseen>>
  BY DEF HandleEvent, RegistryInv, TypeOK, etcd, history
<1>6. PhasesAgree'
  BY <1>1, <1>3, <1>4, <1>5 DEF RegistryInv, PhasesAgree, Up
<1>7. ViewCoherent'
  <2> SUFFICES ASSUME NEW k \in Nodes, NEW m \in Nodes,
                      Up(k)', m # k, m \notin unseen'[k]
               PROVE  WillSee(nodeCaches'[k], events'[k], m) <=> m \in Registered'
    BY DEF ViewCoherent
  <2>1. WillSee(nodeCaches[k], events[k], m) <=> m \in Registered
    BY <1>5 DEF RegistryInv, ViewCoherent, Up
  <2>2. Registered' = Registered
    BY <1>5 DEF Registered
  <2>3. CASE k = n
    <3>1. WillSee(nodeCaches'[n], Tail(events[n]), m) <=> WillSee(nodeCaches[n], events[n], m)
      BY <1>1, <1>2, <2>3, HeadSees
    <3> QED BY <1>5, <2>1, <2>2, <2>3, <3>1
  <2>4. CASE k # n
    BY <1>4, <2>1, <2>2, <2>4
  <2> QED BY <2>3, <2>4
<1> QED BY <1>6, <1>7

LEMMA CrashKeeps ==
    ASSUME RegistryInv, NEW n \in Nodes, Crash(n)
    PROVE  PhasesAgree' /\ ViewCoherent'
<1>1. /\ \A k \in Nodes \ {n} : /\ Up(k)' <=> Up(k)
                                /\ nodeCaches'[k] = nodeCaches[k]
                                /\ events'[k] = events[k]
                                /\ unseen'[k] = unseen[k]
                                /\ watch'[k] = watch[k]
                                /\ phase'[k] = phase[k]
                                /\ workers'[k] = workers[k]
      /\ phase'[n] = "down" /\ watch'[n] = "off" /\ events'[n] = <<>>
  BY DEF RegistryInv, TypeOK, Crash, Reaches, Up
<1>2. PhasesAgree'
  BY <1>1 DEF RegistryInv, PhasesAgree, Up
<1>3. Registered' = Registered
  BY DEF RegistryInv, TypeOK, Crash, Registered
<1>4. ViewCoherent'
  BY <1>1, <1>3 DEF RegistryInv, ViewCoherent, Up
<1> QED BY <1>2, <1>4

LEMMA StartFailsKeeps ==
    ASSUME RegistryInv, NEW n \in Nodes, StartFails(n)
    PROVE  PhasesAgree' /\ ViewCoherent'
<1>1. /\ \A k \in Nodes \ {n} : /\ Up(k)' <=> Up(k)
                                /\ unseen'[k] = unseen[k]
                                /\ phase'[k] = phase[k]
      /\ phase'[n] = "up" /\ unseen'[n] = Nodes
      /\ UNCHANGED <<workers, nodeCaches, watch, events>>
  BY DEF RegistryInv, TypeOK, StartFails, Reaches, Up, etcd, watcher
<1>2. watch[n] = "off"
  BY DEF RegistryInv, TypeOK, PhasesAgree, StartFails, Up
<1>3. PhasesAgree'
  BY <1>1, <1>2 DEF RegistryInv, PhasesAgree, Up
<1>4. ViewCoherent'
  BY <1>1 DEF RegistryInv, ViewCoherent, Registered
<1> QED BY <1>3, <1>4

LEMMA StartingKeeps ==
    ASSUME RegistryInv, NEW n \in Nodes,
           Start(n) \/ CheckSwitch(n) \/ WriteSwitch(n)
    PROVE  PhasesAgree' /\ ViewCoherent'
<1>1. /\ UNCHANGED <<workers, nodeCaches, watch, events, unseen>>
      /\ phase[n] \notin {"read", "up"} /\ phase'[n] \notin {"read", "up"}
      /\ \A k \in Nodes \ {n} : phase'[k] = phase[k]
  BY DEF RegistryInv, TypeOK, Start, CheckSwitch, WriteSwitch, Reaches, etcd, watcher, history
<1>2. PhasesAgree'
  BY <1>1 DEF RegistryInv, PhasesAgree, Up
<1>3. ViewCoherent'
  <2>1. Registered' = Registered
    BY <1>1 DEF Registered
  <2>2. \A k \in Nodes : Up(k)' => Up(k)
    BY <1>1 DEF Up
  <2> QED BY <1>1, <2>1, <2>2, NothingSeen
<1> QED BY <1>2, <1>3

LEMMA StartWatchKeeps ==
    ASSUME RegistryInv, NEW n \in Nodes, StartWatch(n)
    PROVE  PhasesAgree' /\ ViewCoherent'
<1>1. PhasesAgree'
  BY DEF RegistryInv, TypeOK, PhasesAgree, StartWatch, Up, etcd, history
<1>2. ViewCoherent'
  BY NothingSeen DEF StartWatch, Registered, Up, etcd, history
<1> QED BY <1>1, <1>2

(* Process keys, marks and the switch decide nothing about the views.      *)
LEMMA ShardingKeeps ==
    ASSUME RegistryInv, UNCHANGED <<workers, phase, nodeCaches, watch, events, unseen>>
    PROVE  PhasesAgree' /\ ViewCoherent'
<1>1. PhasesAgree'
  BY DEF RegistryInv, PhasesAgree, Up
<1>2. ViewCoherent'
  BY NothingSeen DEF Registered, Up
<1> QED BY <1>1, <1>2

LEMMA RegistryNext == ASSUME RegistryInv, [Next]_vars PROVE RegistryInv'
<1>1. TypeOK'
  BY TypeNext DEF RegistryInv
<1>2. PhasesAgree' /\ ViewCoherent'
  <2>1. CASE UNCHANGED vars
    BY <2>1, ShardingKeeps DEF vars, etcd, watcher, history
  <2>2. ASSUME NEW n \in Nodes, Start(n) \/ Starting(n) \/ StartFails(n)
        PROVE  PhasesAgree' /\ ViewCoherent'
    BY <2>2, StartingKeeps, RegisterKeeps, InitDataKeeps, StartFailsKeeps DEF Starting
  <2>3. ASSUME NEW n \in Nodes, StartWatch(n) \/ HandleEvent(n) \/ Crash(n)
        PROVE  PhasesAgree' /\ ViewCoherent'
    BY <2>3, StartWatchKeeps, HandleEventKeeps, CrashKeeps
  <2>4. ASSUME NEW n \in Nodes, NEW m \in Nodes, ClearKeys(n, m)
        PROVE  PhasesAgree' /\ ViewCoherent'
    BY <2>4, ShardingKeeps DEF ClearKeys, history
  <2>5. ASSUME NEW n \in Nodes, NEW s \in Services, Take(n, s) \/ Give(n, s)
        PROVE  PhasesAgree' /\ ViewCoherent'
    BY <2>5, ShardingKeeps DEF Take, Give, watcher, history
  <2>6. ASSUME NEW n \in Nodes, Expire(n) \/ LoseLease(n)
        PROVE  PhasesAgree' /\ ViewCoherent'
    BY <2>6, DropKeeps
  <2>7. ASSUME NEW state \in {"on", "off"}, SetSwitch(state)
        PROVE  PhasesAgree' /\ ViewCoherent'
    BY <2>7, ShardingKeeps DEF SetSwitch, watcher, history
  <2> QED
    BY <2>1, <2>2, <2>3, <2>4, <2>5, <2>6, <2>7 DEF Next, Watching, Sharding
<1> QED BY <1>1, <1>2 DEF RegistryInv

LEMMA RegistryInit == ASSUME Init PROVE RegistryInv
<1>1. TypeOK
  BY RegistryAssumption DEF Init, TypeOK, Budget
<1>2. PhasesAgree /\ ViewCoherent
  BY DEF Init, PhasesAgree, ViewCoherent, Up
<1> QED BY <1>1, <1>2 DEF RegistryInv

(* The view of a worker follows etcd, but for the keys that changed        *)
(* between its read and its watch (nodeCacheWatcher()).                    *)
THEOREM ViewsFollow == Spec => []ViewCoherent
<1>1. RegistryInv => ViewCoherent
  BY DEF RegistryInv
<1> QED BY <1>1, RegistryInit, RegistryNext, PTL DEF Spec

(* A worker that watches sees itself: it ignores the loss of its own key   *)
(* (nodeCacheWatcher()).                                                   *)
THEOREM SeesItself == Spec => []SelfInView
<1>1. RegistryInv => SelfInView
  BY DEF RegistryInv, PhasesAgree, SelfInView
<1> QED BY <1>1, RegistryInit, RegistryNext, PTL DEF Spec

----------------------------------------------------------------------------
(* One owner.                                                              *)

(* A registered worker that is up to date sees the registered workers.     *)
LEMMA CurrentSees ==
    ASSUME RegistryInv, NEW n \in Registered, Current(n)
    PROVE  View(n) = Registered
<1>1. n \in Nodes /\ n \in nodeCaches[n] /\ nodeCaches[n] \subseteq Nodes /\ Up(n)
  BY DEF RegistryInv, TypeOK, PhasesAgree, Current, Registered
<1>2. \A m \in Nodes \ {n} : m \in nodeCaches[n] <=> m \in Registered
  <2>1. events[n] = <<>> /\ \A m : About(<<>>, m) = {}
    BY DEF Current, About
  <2> QED BY <1>1, <2>1 DEF RegistryInv, ViewCoherent, Current, WillSee
<1>3. nodeCaches[n] = Registered
  BY <1>1, <1>2 DEF Registered
<1> QED BY <1>1, <1>3 DEF View

(* Registered workers that are up to date never share a service            *)
(* (isProcessNode()).                                                      *)
THEOREM OwnersAlone == Spec => []OneOwner
<1>1. RegistryInv => OneOwner
  <2> SUFFICES ASSUME RegistryInv, NEW n \in Nodes, NEW m \in Nodes, NEW s \in Services,
                      Current(n), Current(m), {n, m} \subseteq Registered,
                      IsProcessNode(n, s), IsProcessNode(m, s)
               PROVE  n = m
    BY DEF OneOwner
  <2>1. View(n) = View(m)
    BY CurrentSees
  <2> QED BY <2>1 DEF IsProcessNode
<1> QED BY <1>1, RegistryInit, RegistryNext, PTL DEF Spec

(* A set of workers makes a ring.                                          *)
LEMMA WorkersMakeRing ==
    ASSUME NEW view \in SUBSET Nodes, view # {}
    PROVE  \E last, lowest : Ring(Points, view, last, lowest)
<1>1. PICK last \in Nodes : \A n \in Nodes : n <= last
  BY RingAssumption
<1>2. PICK n \in Nodes : \E lowest \in Points[n] :
         \A m \in Nodes : \A p \in Points[m] : lowest <= p
  BY RingAssumption
<1>3. PICK lowest \in Points[n] : \A m \in Nodes : \A p \in Points[m] : lowest <= p
  BY <1>2
<1>4. last \in Nat /\ view \subseteq 0..last /\ lowest \in Int
  BY <1>1, <1>3, RingAssumption
<1>5. Ring(Points, view, last, lowest)
  BY <1>3, <1>4, RingAssumption DEF Ring
<1> QED BY <1>5

(* Once all is settled, each service has an owner (isProcessNode()).       *)
THEOREM OwnersExist == Spec => []SomeOwner
<1>1. RegistryInv => SomeOwner
  <2> SUFFICES ASSUME RegistryInv, Settled, \A n \in Nodes : unseen[n] \subseteq {n},
                      NEW s \in Services
               PROVE  HasOwner(s)
    BY DEF SomeOwner
  <2>1. \A n \in Nodes : Up(n) => Current(n)
    BY DEF Settled, Current, Up
  <2>2. CASE Registered # {}
    <3> DEFINE o == GetNode(Points, Registered, Position[s])
    <3>1. Registered \in SUBSET Nodes /\ Position[s] \in Int
      BY RingAssumption DEF Registered
    <3>2. o \in Registered
      BY <2>2, <3>1, WorkersMakeRing, OwnerInView
    <3>3. o \in Nodes /\ Up(o) /\ View(o) = Registered
      BY <2>1, <3>2, CurrentSees DEF Settled, Registered
    <3> QED BY <3>3 DEF HasOwner, IsProcessNode
  <2>3. CASE Registered = {}
    <3>1. PICK n \in Nodes : Up(n)
      BY DEF Settled
    <3>2. watch[n] = "on" /\ events[n] = <<>> /\ unseen[n] \subseteq {n}
      BY <2>1, <3>1 DEF Current
    <3>3. n \in nodeCaches[n] /\ nodeCaches[n] \subseteq Nodes
      BY <3>2 DEF RegistryInv, TypeOK, PhasesAgree
    <3>4. nodeCaches[n] = {n}
      <4>1. \A m : About(<<>>, m) = {}
        BY DEF About
      <4> QED BY <2>3, <3>1, <3>2, <3>3, <4>1 DEF RegistryInv, ViewCoherent, WillSee
    <3>5. View(n) = {n} /\ Position[s] \in Int
      BY <3>4, RingAssumption DEF View
    <3>6. GetNode(Points, {n}, Position[s]) \in {n}
      BY <3>5, WorkersMakeRing, OwnerInView
    <3> QED BY <3>1, <3>5, <3>6 DEF HasOwner, IsProcessNode
  <2> QED BY <2>2, <2>3
<1> QED BY <1>1, RegistryInit, RegistryNext, PTL DEF Spec
----------------------------------------------------------------------------
(* The process keys follow the marks, until etcd drops the key of a worker *)
(* whose address the worker's own begins with.                             *)

(* Only workers whose key was dropped are deleted from views, and have     *)
(* their process keys cleared.                                             *)
HearsOfDropped(n) ==
    /\ clearing[n] \subseteq dropped
    /\ \A i \in 1..Len(events[n]) :
          events[n][i].type = "DELETE" => events[n][i].node \in dropped
KeysInv == TypeOK /\ (\A n \in Nodes : HearsOfDropped(n)) /\ KeysOutlastOthers

(* dropped only grows; only the loss of a worker adds to it.               *)
LEMMA DroppedStay ==
    ASSUME TypeOK, [Next]_vars PROVE dropped \subseteq dropped'
BY DEF Next, vars, Start, Starting, CheckSwitch, WriteSwitch, Register, InitData,
       StartFails, StartWatch, Watching, HandleEvent, ClearKeys, Sharding, Take, Give,
       Crash, Expire, LoseLease, Drop, SetSwitch, history

(* A worker that no step tells anything new.                               *)
LEMMA HearsNothing ==
    ASSUME NEW n \in Nodes, HearsOfDropped(n), dropped \subseteq dropped',
           clearing'[n] \subseteq clearing[n],
           events'[n] \in {events[n], <<>>}
    PROVE  HearsOfDropped(n)'
<1>1. \A i \in 1..Len(events'[n]) : events'[n] = events[n]
  OBVIOUS
<1> QED BY <1>1 DEF HearsOfDropped

(* A step that changes neither keys nor marks.                             *)
LEMMA KeysStay ==
    ASSUME KeysOutlastOthers, dropped \subseteq dropped',
           processing' = processing, \A n \in Nodes : running'[n] \in {running[n], {}}
    PROVE  KeysOutlastOthers'
BY DEF KeysOutlastOthers

(* A PUT, or the DELETE of a dropped key, is announced.                    *)
LEMMA HearsAnnounced ==
    ASSUME TypeOK, NEW type \in {"PUT", "DELETE"}, NEW k \in Nodes, Announce(type, k),
           dropped \subseteq dropped', type = "DELETE" => k \in dropped',
           NEW n \in Nodes, HearsOfDropped(n), clearing' = clearing
    PROVE  HearsOfDropped(n)'
<1> DEFINE e == [type |-> type, node |-> k]
<1>1. events[n] \in Seq(Event) /\ e \in Event
  BY DEF TypeOK, Event
<1>2. events'[n] = events[n] \/ events'[n] = Append(events[n], e)
  BY DEF Announce
<1>3. \A i \in 1..Len(events'[n]) :
         events'[n][i] = e \/ \E j \in 1..Len(events[n]) : events'[n][i] = events[n][j]
  BY <1>1, <1>2
<1> QED BY <1>3 DEF HearsOfDropped

(* What a worker clears after an event is what the event deletes.          *)
LEMMA HearsHandled ==
    ASSUME TypeOK, NEW n \in Nodes, HandleEvent(n), HearsOfDropped(n), dropped' = dropped
    PROVE  HearsOfDropped(n)'
<1>1. /\ events[n] \in Seq(Event) /\ events[n] # <<>>
      /\ events'[n] = Tail(events[n])
  BY DEF TypeOK, HandleEvent
<1>2. /\ Len(events'[n]) = Len(events[n]) - 1 /\ Len(events[n]) \in Nat /\ Len(events[n]) >= 1
      /\ \A i \in 1..Len(events'[n]) : events'[n][i] = events[n][i + 1]
      /\ Head(events[n]) = events[n][1]
  BY <1>1
<1>3. \A i \in 1..Len(events'[n]) : i + 1 \in 1..Len(events[n])
  BY <1>2
<1>4. \A i \in 1..Len(events'[n]) : events'[n][i].type = "DELETE" => events'[n][i].node \in dropped'
  BY <1>2, <1>3 DEF HearsOfDropped
<1>5. clearing'[n] \subseteq dropped'
  <2>1. 1 \in 1..Len(events[n])
    BY <1>2
  <2>2. \/ clearing'[n] = clearing[n]
        \/ events[n][1].type = "DELETE" /\ clearing'[n] \subseteq {events[n][1].node}
    BY <1>2 DEF HandleEvent, TypeOK
  <2> QED BY <2>1, <2>2 DEF HearsOfDropped
<1> QED BY <1>4, <1>5 DEF HearsOfDropped

(* Every step keeps the invariant.                                         *)
LEMMA KeysNext == ASSUME KeysInv, [Next]_vars PROVE KeysInv'
<1>1. TypeOK /\ TypeOK' /\ dropped \subseteq dropped'
  BY TypeNext, DroppedStay DEF KeysInv
<1>2. ASSUME clearing' = clearing, events' = events, processing' = processing,
             running' = running
      PROVE  KeysInv'
  <2>1. \A n \in Nodes : HearsOfDropped(n)'
    BY <1>1, <1>2, HearsNothing DEF KeysInv
  <2> QED BY <1>1, <1>2, <2>1, KeysStay DEF KeysInv
<1>3. CASE UNCHANGED vars
  BY <1>2, <1>3 DEF vars, etcd, watcher
<1>4. ASSUME NEW n \in Nodes, Start(n) \/ CheckSwitch(n) \/ WriteSwitch(n) \/ InitData(n)
                              \/ StartFails(n) \/ StartWatch(n)
      PROVE  KeysInv'
  BY <1>2, <1>4 DEF Start, CheckSwitch, WriteSwitch, InitData, StartFails, StartWatch,
                    etcd, watcher
<1>5. ASSUME NEW n \in Nodes, Register(n) PROVE KeysInv'
  <2>1. Announce("PUT", n) /\ UNCHANGED <<running, processing, clearing>>
    BY <1>5 DEF Register
  <2>2. \A m \in Nodes : HearsOfDropped(m)'
    BY <1>1, <2>1, HearsAnnounced DEF KeysInv
  <2> QED BY <1>1, <2>1, <2>2, KeysStay DEF KeysInv
<1>6. ASSUME NEW n \in Nodes, Expire(n) \/ LoseLease(n) PROVE KeysInv'
  <2>1. /\ Announce("DELETE", n) /\ UNCHANGED <<running, processing, clearing>>
        /\ n \in dropped'
    BY <1>6 DEF Expire, LoseLease, Drop
  <2>2. \A m \in Nodes : HearsOfDropped(m)'
    BY <1>1, <2>1, HearsAnnounced DEF KeysInv
  <2> QED BY <1>1, <2>1, <2>2, KeysStay DEF KeysInv
<1>7. ASSUME NEW n \in Nodes, HandleEvent(n) PROVE KeysInv'
  <2>1. /\ UNCHANGED <<running, processing, dropped>>
        /\ \A m \in Nodes \ {n} : events'[m] = events[m] /\ clearing'[m] = clearing[m]
    BY <1>1, <1>7 DEF HandleEvent, TypeOK, etcd, history
  <2>2. \A m \in Nodes \ {n} : HearsOfDropped(m)'
    BY <1>1, <2>1, HearsNothing DEF KeysInv
  <2>3. HearsOfDropped(n)'
    BY <1>1, <1>7, <2>1, HearsHandled DEF KeysInv
  <2> QED BY <1>1, <2>1, <2>2, <2>3, KeysStay DEF KeysInv
<1>8. ASSUME NEW n \in Nodes, NEW m \in Nodes, ClearKeys(n, m) PROVE KeysInv'
  <2>1. /\ UNCHANGED <<running, events, dropped>>
        /\ m \in clearing[n]
        /\ \A k \in Nodes : clearing'[k] \subseteq clearing[k]
    BY <1>1, <1>8 DEF ClearKeys, TypeOK, history
  <2>2. \A k \in Nodes : HearsOfDropped(k)'
    BY <1>1, <2>1, HearsNothing DEF KeysInv
  <2>3. m \in dropped
    BY <2>1 DEF KeysInv, HearsOfDropped
  <2>4. \A k \in Nodes : k \notin StartsWith[m] => processing'[k] = processing[k]
    BY <1>8 DEF ClearKeys, Cleared
  <2>5. KeysOutlastOthers'
    BY <2>1, <2>3, <2>4 DEF KeysInv, KeysOutlastOthers
  <2> QED BY <1>1, <2>2, <2>5 DEF KeysInv
<1>9. ASSUME NEW n \in Nodes, NEW s \in Services, Take(n, s) \/ Give(n, s) PROVE KeysInv'
  <2>1. /\ UNCHANGED <<events, clearing, dropped>>
        /\ \A k \in Nodes \ {n} : running'[k] = running[k] /\ processing'[k] = processing[k]
    BY <1>1, <1>9 DEF Take, Give, watcher, history, TypeOK
  <2>2. running[n] \subseteq processing[n] => running'[n] \subseteq processing'[n]
    BY <1>1, <1>9 DEF Take, Give, TypeOK
  <2>3. \A k \in Nodes : HearsOfDropped(k)'
    BY <1>1, <2>1, HearsNothing DEF KeysInv
  <2>4. KeysOutlastOthers'
    BY <2>1, <2>2 DEF KeysInv, KeysOutlastOthers
  <2> QED BY <1>1, <2>3, <2>4 DEF KeysInv
<1>10. ASSUME NEW n \in Nodes, Crash(n) PROVE KeysInv'
  <2>1. /\ processing' = processing
        /\ \A k \in Nodes : /\ running'[k] \in {running[k], {}}
                            /\ clearing'[k] \subseteq clearing[k]
                            /\ events'[k] \in {events[k], <<>>}
    BY <1>1, <1>10 DEF Crash, TypeOK
  <2>2. \A k \in Nodes : HearsOfDropped(k)'
    BY <1>1, <2>1, HearsNothing DEF KeysInv
  <2> QED BY <1>1, <2>1, <2>2, KeysStay DEF KeysInv
<1>11. ASSUME NEW state \in {"on", "off"}, SetSwitch(state) PROVE KeysInv'
  BY <1>2, <1>11 DEF SetSwitch, watcher
<1> QED
  BY <1>3, <1>4, <1>5, <1>6, <1>7, <1>8, <1>9, <1>10, <1>11
     DEF Next, Starting, Watching, Sharding

(* Whatever addresses begin with others, however often workers restart and *)
(* however late events are handled: a worker keeps the process keys of     *)
(* what it runs until a worker whose address its own begins with is        *)
(* dropped from etcd (nodeCacheWatcher()).                                 *)
THEOREM KeysKept == Spec => []KeysOutlastOthers
<1>1. Init => KeysInv
  <2>1. ASSUME Init PROVE (\A n \in Nodes : HearsOfDropped(n)) /\ KeysOutlastOthers
    BY <2>1 DEF Init, HearsOfDropped, KeysOutlastOthers
  <2> QED BY <2>1, RegistryInit DEF RegistryInv, KeysInv
<1>2. KeysInv /\ [Next]_vars => KeysInv'
  BY KeysNext
<1>3. KeysInv => KeysOutlastOthers
  BY DEF KeysInv
<1> QED BY <1>1, <1>2, <1>3, PTL DEF Spec
============================================================================
