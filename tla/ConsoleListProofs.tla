-------------------------- MODULE ConsoleListProofs --------------------------
(***************************************************************************)
(* Proofs about the lists of Console, for any tasks, clusters, texts, page *)
(* sizes and bounds: once nothing is under way, a page shows what etcd     *)
(* holds, and the page of the tasks knows the name of every cluster.  They *)
(* rest on three invariants: OfItsKind, ListsFollow and Fresh.             *)
(***************************************************************************)
EXTENDS ConsoleProofs, LeastElement

(* A list of a kind that is under way and was not superseded.              *)
UnderWay(list, kind) == list.stage # "free" /\ list.kind = kind /\ list.latest
Awaited(kind) == \E l \in ListSlots : UnderWay(lists[l], kind)

(* What a page needs of its own kind, whose rows it shows, and of the other. *)
OwnOf(onPage) == IF onPage = "serviceSync" THEN "tasks" ELSE "clusters"
Wanted(of, kind, onPage, number) ==
    IF kind = OwnOf(onPage) THEN of.pageNum = number /\ of.size = PageSize
    ELSE onPage = "serviceSync" => of = AllClusters.of

(* The rows of a request, of what is held.                                 *)
Held(held, kind, text) == {id \in IdsOf(kind) \cap Found[text] : held[id] # Absent}
PageOf(held, kind, of) ==
    [id \in OnPage(Held(held, kind, of.text), of.pageNum, of.size) |-> held[id]]

(* Rows, confirmations and commands of the mounted page are of its kind,   *)
(* and a command that the server has not written is not done.              *)
OfItsKind ==
    /\ \A kind \in Kinds : DOMAIN store[kind].rows \subseteq IdsOf(kind)
    /\ \A l \in ListSlots : DOMAIN lists[l].rows \subseteq IdsOf(lists[l].kind)
    /\ dialog.what = "confirm" => KindOf(dialog.order.id) = Own
    /\ \A c \in CommandSlots :
          /\ commands[c].stage # "free" /\ commands[c].mine => KindOf(commands[c].order.id) = Own
          /\ commands[c].stage \in {"sent", "read"} => ~commands[c].done

(* What happens to a command, and to what is stored.                       *)
Changes(c, stage, done) ==
    /\ Moves(c, stage, done)
    /\ stage = "read" => ~done
    /\ commands[c].done => done
    /\ \/ database' = database
       \/ done /\ database' = [database EXCEPT ![commands[c].order.id] = Becomes(commands[c].order.what)]

(* A command of which nothing is done yet may be done, and written, in one *)
(* step of the server.                                                     *)
LEMMA ServerChange ==
    ASSUME TypeOK, NEW c \in CommandSlots, ServerStep(c),
           commands[c].stage \in {"sent", "read"} => ~commands[c].done
    PROVE  \E stage \in {"read", "ok", "rejected"}, done \in BOOLEAN : Changes(c, stage, done)
<1>1. commands[c].done \in BOOLEAN
  BY ServerSteps DEF CommandType
<1>2. CASE Read(c)
  BY <1>2, States DEF Read, Changes
<1>3. CASE ReadNothing(c)
  BY <1>3, States DEF ReadNothing, Changes
<1>4. CASE Execute(c)
  BY <1>4, States DEF Execute, Writes, Changes
<1>5. CASE Break(c)
  BY <1>5, States DEF Break, Changes
<1>6. CASE LoseCommand(c)
  BY <1>1, <1>6 DEF LoseCommand, Changes
<1> QED BY <1>2, <1>3, <1>4, <1>5, <1>6 DEF ServerStep

(* The list that is awaited, or else was shown, is what the page needs.    *)
ListFollows(kind) ==
    /\ \A l \in ListSlots :
          UnderWay(lists[l], kind) => /\ Wanted(lists[l].of, kind, page, pageNum)
                                      /\ kind = OwnOf(page) => lists[l].mine
    /\ \/ Awaited(kind) \/ stale[kind]
       \/ /\ Wanted(store[kind].of, kind, page, pageNum)
          /\ kind = OwnOf(page) => ~loading
ListsFollow == \A kind \in Kinds : ListFollows(kind)

(* No command that was done awaits its answer, and no other change is unseen. *)
Quiet(kind) ==
    /\ \A c \in CommandSlots : commands[c].done => KindOf(commands[c].order.id) # kind
    /\ ~unseen[kind]

(* Then a current answer, on its way or shown, is what etcd holds.         *)
IsFresh(kind) ==
    /\ \A l \in ListSlots :
          UnderWay(lists[l], kind) /\ lists[l].stage = "answered" /\ lists[l].current
              => lists[l].rows = PageOf(database, kind, lists[l].of)
    /\ ~Awaited(kind) /\ ~stale[kind] => store[kind].rows = PageOf(database, kind, store[kind].of)
Fresh == \A kind \in Kinds : Quiet(kind) => IsFresh(kind)

-----------------------------------------------------------------------------
(* Where there is room, every request finds its slot: the least slot up to *)
(* which that many are free.                                               *)
LEMMA Placed ==
    ASSUME NEW ls, NEW i \in Nat \ {0},
           Cardinality({l \in ListSlots : Free(ls, l)}) >= i
    PROVE  \E l \in ListSlots : Free(ls, l) /\ Place(ls, l) = i
<1> DEFINE upto(n) == {k \in ListSlots : k <= n /\ Free(ls, k)}
           count(n) == Cardinality(upto(n))
           enough == {n \in ListSlots : count(n) >= i}
<1>0. MaxLists \in Nat /\ MaxLists >= 3
  BY ConsoleAssumption
<1>1. \A n \in Nat : IsFiniteSet(upto(n)) /\ count(n) \in Nat
  <2>1. IsFiniteSet(ListSlots)
    BY <1>0, FS_Interval DEF ListSlots
  <2>2. \A n \in Nat : upto(n) \in SUBSET ListSlots
    OBVIOUS
  <2> HIDE DEF upto
  <2> QED BY <2>1, <2>2, FS_Subset, FS_CardinalityType
<1>2. MaxLists \in enough
  <2>1. upto(MaxLists) = {l \in ListSlots : Free(ls, l)}
    BY <1>0 DEF ListSlots
  <2>2. MaxLists \in ListSlots
    BY <1>0 DEF ListSlots
  <2>3. count(MaxLists) >= i
    BY <2>1
  <2> QED BY <2>2, <2>3
<1>3. count(0) = 0
  <2>1. upto(0) = {}
    BY <1>0 DEF ListSlots
  <2> QED BY <2>1, FS_EmptySet
<1>4. ASSUME NEW n \in Nat \ {0}, n \in ListSlots
      PROVE  count(n) = IF Free(ls, n) THEN count(n - 1) + 1 ELSE count(n - 1)
  <2>1. CASE Free(ls, n)
    <3>1. upto(n) = upto(n - 1) \cup {n} /\ n \notin upto(n - 1)
      BY <1>0, <1>4, <2>1 DEF ListSlots
    <3> HIDE DEF upto
    <3>2. IsFiniteSet(upto(n - 1))
      <4>1. n - 1 \in Nat
        BY <1>4
      <4> QED BY <1>1, <4>1
    <3>3. Cardinality(upto(n - 1) \cup {n}) = Cardinality(upto(n - 1)) + 1
      BY <3>1, <3>2, FS_AddElement
    <3>4. count(n) = count(n - 1) + 1
      BY <3>1, <3>3
    <3> HIDE DEF count
    <3> QED BY <2>1, <3>4
  <2>2. CASE ~Free(ls, n)
    <3>1. upto(n) = upto(n - 1)
      BY <1>0, <1>4, <2>2 DEF ListSlots
    <3> QED BY <2>2, <3>1
  <2> QED BY <2>1, <2>2
<1>5. \A n \in ListSlots : Place(ls, n) = count(n)
  BY DEF Place
<1> HIDE DEF count
<1>6. PICK n \in enough : \A m \in enough : n <= m
  <2>1. enough \subseteq Nat /\ enough # {}
    BY <1>2 DEF ListSlots
  <2> HIDE DEF enough
  <2> QED BY <2>1, LeastExists
<1>7. n \in Nat \ {0} /\ n - 1 \in Nat /\ n \in ListSlots /\ count(n) >= i
  BY <1>0 DEF ListSlots
<1>8. count(n - 1) < i
  <2>1. CASE n = 1
    BY <1>3, <2>1
  <2>2. CASE n # 1
    <3>1. n - 1 \in ListSlots /\ ~(n <= n - 1)
      BY <1>0, <1>7, <2>2 DEF ListSlots
    <3>2. n - 1 \notin enough
      BY <1>6, <3>1
    <3>3. count(n - 1) \in Nat
      BY <1>1, <1>7
    <3>4. ~(count(n - 1) >= i)
      BY <3>1, <3>2
    <3> HIDE DEF enough
    <3> QED BY <3>3, <3>4
  <2> QED BY <2>1, <2>2
<1>9. Free(ls, n) /\ count(n) = i
  <2>1. count(n) \in Nat /\ count(n - 1) \in Nat
    BY <1>1, <1>7
  <2>2. count(n) = IF Free(ls, n) THEN count(n - 1) + 1 ELSE count(n - 1)
    BY <1>4, <1>7
  <2>3. count(n) >= i
    BY <1>7
  <2> HIDE DEF enough
  <2> QED BY <1>8, <2>1, <2>2, <2>3
<1> QED BY <1>5, <1>7, <1>9

(* What the slots hold after requests were sent: the requests, and of the  *)
(* earlier lists of a kind those that no request of this kind supersedes.  *)
Delivered(new, ls, requests, kind) ==
    /\ \A i \in DOMAIN requests : \E l \in ListSlots : new[l] = requests[i]
    /\ \A l \in ListSlots : \/ \E i \in DOMAIN requests : new[l] = requests[i]
                            \/ new[l].rows = ls[l].rows /\ new[l].kind = ls[l].kind
    /\ \A l \in ListSlots :
          UnderWay(new[l], kind) =>
             \/ \E i \in DOMAIN requests : new[l] = requests[i]
             \/ /\ UnderWay(ls[l], kind) /\ new[l] = ls[l]
                /\ \A i \in DOMAIN requests : requests[i].kind # kind
    /\ (\A i \in DOMAIN requests : requests[i].kind # kind) =>
          \A l \in ListSlots : UnderWay(ls[l], kind) => new[l] = ls[l]

(* Sent() delivers every request, if there is room for all.                *)
LEMMA SentLists ==
    ASSUME NEW ls \in [ListSlots -> ListType], NEW requests \in Seq(ListType),
           Cardinality({l \in ListSlots : Free(ls, l)}) >= Len(requests),
           NEW kind \in Kinds
    PROVE  Delivered(Sent(ls, requests), ls, requests, kind)
<1> DEFINE last(l) == ls[l].latest /\ \A i \in DOMAIN requests : requests[i].kind # ls[l].kind
<1>1. ASSUME NEW i \in DOMAIN requests
      PROVE  \E l \in ListSlots : Sent(ls, requests)[l] = requests[i]
  <2>1. i \in Nat \ {0} /\ Len(requests) \in Nat /\ i <= Len(requests)
    OBVIOUS
  <2>2. Cardinality({l \in ListSlots : Free(ls, l)}) \in Nat
    <3>1. IsFiniteSet(ListSlots)
      BY ConsoleAssumption, FS_Interval DEF ListSlots
    <3>2. {l \in ListSlots : Free(ls, l)} \in SUBSET ListSlots
      OBVIOUS
    <3> QED BY <3>1, <3>2, FS_Subset, FS_CardinalityType
  <2>3. PICK l \in ListSlots : Free(ls, l) /\ Place(ls, l) = i
    <3>1. Cardinality({l \in ListSlots : Free(ls, l)}) >= i
      BY <2>1, <2>2
    <3> QED BY <2>1, <3>1, Placed
  <2> QED BY <2>3 DEF Sent
<1>2. ASSUME NEW l \in ListSlots
      PROVE  /\ ~Free(ls, l) => Sent(ls, requests)[l] = [ls[l] EXCEPT !.latest = last(l)]
             /\ Free(ls, l) => \/ Sent(ls, requests)[l] = ls[l]
                               \/ \E i \in DOMAIN requests : Sent(ls, requests)[l] = requests[i]
  BY DEF Sent
<1>3. ASSUME NEW l \in ListSlots
      PROVE  /\ [ls[l] EXCEPT !.latest = last(l)].rows = ls[l].rows
             /\ [ls[l] EXCEPT !.latest = last(l)].kind = ls[l].kind
             /\ [ls[l] EXCEPT !.latest = last(l)].latest = last(l)
             /\ last(l) => [ls[l] EXCEPT !.latest = last(l)] = ls[l]
  <2>1. ls[l] \in ListType
    OBVIOUS
  <2> HIDE DEF last
  <2>2. ls[l].latest => [ls[l] EXCEPT !.latest = TRUE] = ls[l]
    BY <2>1 DEF ListType
  <2>3. last(l) => last(l) = TRUE /\ ls[l].latest
    BY <2>1 DEF ListType, last
  <2>4. /\ [ls[l] EXCEPT !.latest = last(l)].rows = ls[l].rows
        /\ [ls[l] EXCEPT !.latest = last(l)].kind = ls[l].kind
        /\ [ls[l] EXCEPT !.latest = last(l)].latest = last(l)
    BY <2>1 DEF ListType
  <2> QED BY <2>2, <2>3, <2>4
<1> HIDE DEF last
<1>4. ASSUME NEW l \in ListSlots, UnderWay(Sent(ls, requests)[l], kind)
      PROVE  \/ \E i \in DOMAIN requests : Sent(ls, requests)[l] = requests[i]
             \/ /\ UnderWay(ls[l], kind) /\ Sent(ls, requests)[l] = ls[l]
                /\ \A i \in DOMAIN requests : requests[i].kind # kind
  <2>1. CASE Free(ls, l)
    BY <1>2, <1>4, <2>1 DEF UnderWay, Free
  <2>2. CASE ~Free(ls, l)
    <3>1. Sent(ls, requests)[l] = [ls[l] EXCEPT !.latest = last(l)] /\ last(l) /\ ls[l].kind = kind
      BY <1>2, <1>3, <1>4, <2>2 DEF UnderWay
    <3> QED BY <1>3, <1>4, <3>1 DEF last
  <2> QED BY <2>1, <2>2
<1>5. ASSUME \A i \in DOMAIN requests : requests[i].kind # kind,
             NEW l \in ListSlots, UnderWay(ls[l], kind)
      PROVE  Sent(ls, requests)[l] = ls[l]
  <2>1. last(l) /\ ~Free(ls, l)
    BY <1>5 DEF UnderWay, last, Free
  <2> QED BY <1>2, <1>3, <2>1
<1>6. ASSUME NEW l \in ListSlots
      PROVE  \/ \E i \in DOMAIN requests : Sent(ls, requests)[l] = requests[i]
             \/ /\ Sent(ls, requests)[l].rows = ls[l].rows
                /\ Sent(ls, requests)[l].kind = ls[l].kind
  BY <1>2, <1>3
<1> QED BY <1>1, <1>4, <1>5, <1>6 DEF Delivered

(* A list that a page asks for when it is mounted.                         *)
Mounts(list, newPage, kind) ==
    /\ list.stage = "sent"
    /\ IF kind = OwnOf(newPage) THEN list.of = FirstPage /\ list.mine
       ELSE newPage = "serviceSync" => list.of = AllClusters.of

(* What OnMount() asks for, kind by kind.                                  *)
LEMMA MountRequests ==
    ASSUME NEW newPage \in Pages, NEW kind \in Kinds
    PROVE  /\ \A i \in DOMAIN OnMount(newPage) :
                 /\ OnMount(newPage)[i].stage = "sent" /\ OnMount(newPage)[i].rows = NoRows
                 /\ UnderWay(OnMount(newPage)[i], kind) => Mounts(OnMount(newPage)[i], newPage, kind)
           /\ newPage = "serviceSync" \/ kind = "clusters" =>
                 \E i \in DOMAIN OnMount(newPage) : UnderWay(OnMount(newPage)[i], kind)
           /\ newPage # "serviceSync" =>
                 \A i \in DOMAIN OnMount(newPage) : OnMount(newPage)[i].kind = "clusters"
           /\ Len(OnMount(newPage)) \in Nat /\ Len(OnMount(newPage)) <= 3
<1> DEFINE unheard == [AllClusters EXCEPT !.latest = FALSE]
           tasks == List("tasks", FirstPage, TRUE)
           clusters == List("clusters", FirstPage, TRUE)
<1>1. /\ unheard.stage = "sent" /\ unheard.rows = NoRows /\ ~unheard.latest
      /\ AllClusters.stage = "sent" /\ AllClusters.rows = NoRows /\ AllClusters.kind = "clusters"
      /\ AllClusters.latest
      /\ tasks.stage = "sent" /\ tasks.rows = NoRows /\ tasks.kind = "tasks" /\ tasks.latest
      /\ tasks.mine /\ tasks.of = FirstPage
      /\ clusters.stage = "sent" /\ clusters.rows = NoRows /\ clusters.kind = "clusters"
      /\ clusters.latest /\ clusters.mine /\ clusters.of = FirstPage
  BY DEF AllClusters, List
<1> HIDE DEF unheard, tasks, clusters
<1>2. CASE newPage = "serviceSync"
  <2>1. OnMount(newPage) = <<unheard, tasks, AllClusters>>
    BY <1>2 DEF OnMount, unheard, tasks
  <2>2. /\ DOMAIN OnMount(newPage) = 1 .. 3 /\ Len(OnMount(newPage)) = 3
        /\ OnMount(newPage)[1] = unheard /\ OnMount(newPage)[2] = tasks
        /\ OnMount(newPage)[3] = AllClusters
    BY <2>1
  <2>3. 1 .. 3 = {1, 2, 3}
    OBVIOUS
  <2>4. \A list \in {unheard, tasks, AllClusters} :
           /\ list.stage = "sent" /\ list.rows = NoRows
           /\ UnderWay(list, kind) => Mounts(list, newPage, kind)
    BY <1>1, <1>2 DEF UnderWay, Mounts, OwnOf
  <2>5. \E i \in {2, 3} : UnderWay(OnMount(newPage)[i], kind)
    BY <1>1, <2>2 DEF UnderWay, Kinds
  <2>6. \A i \in DOMAIN OnMount(newPage) : OnMount(newPage)[i] \in {unheard, tasks, AllClusters}
    BY <2>2, <2>3
  <2>7. 2 \in DOMAIN OnMount(newPage) /\ 3 \in DOMAIN OnMount(newPage)
    BY <2>2, <2>3
  <2>8. Len(OnMount(newPage)) \in Nat /\ Len(OnMount(newPage)) <= 3
    BY <2>2
  <2> QED BY <1>2, <2>4, <2>5, <2>6, <2>7, <2>8, Zenon
<1>3. CASE newPage # "serviceSync"
  <2>1. OnMount(newPage) = <<clusters>>
    BY <1>3 DEF OnMount, clusters
  <2>2. /\ DOMAIN OnMount(newPage) = {1} /\ Len(OnMount(newPage)) = 1
        /\ OnMount(newPage)[1] = clusters
    BY <2>1
  <2> QED BY <1>1, <1>3, <2>2 DEF UnderWay, Mounts, OwnOf, Kinds
<1> QED BY <1>2, <1>3

(* The slots once a page is mounted.                                       *)
LEMMA Mounted ==
    ASSUME NEW ls \in [ListSlots -> ListType], NEW newPage \in Pages, NEW kind \in Kinds,
           Cardinality({l \in ListSlots : Free(ls, l)}) >= Len(OnMount(newPage))
    PROVE  /\ \A l \in ListSlots :
                 UnderWay(Sent(ls, OnMount(newPage))[l], kind) =>
                    \/ Mounts(Sent(ls, OnMount(newPage))[l], newPage, kind)
                    \/ /\ newPage # "serviceSync" /\ kind = "tasks"
                       /\ UnderWay(ls[l], kind) /\ Sent(ls, OnMount(newPage))[l] = ls[l]
           /\ newPage = "serviceSync" \/ kind = "clusters" =>
                 \E l \in ListSlots : UnderWay(Sent(ls, OnMount(newPage))[l], kind)
           /\ newPage # "serviceSync" /\ kind = "tasks" =>
                 \A l \in ListSlots : UnderWay(ls[l], kind) => Sent(ls, OnMount(newPage))[l] = ls[l]
           /\ \A l \in ListSlots :
                 \/ Sent(ls, OnMount(newPage))[l].rows = NoRows
                 \/ /\ Sent(ls, OnMount(newPage))[l].rows = ls[l].rows
                    /\ Sent(ls, OnMount(newPage))[l].kind = ls[l].kind
<1>1. OnMount(newPage) \in Seq(ListType)
  BY OnMountType
<1> DEFINE requests == OnMount(newPage)
<1>2. requests \in Seq(ListType) /\ Cardinality({l \in ListSlots : Free(ls, l)}) >= Len(requests)
  BY <1>1
<1>3. /\ \A i \in DOMAIN requests : UnderWay(requests[i], kind) => Mounts(requests[i], newPage, kind)
      /\ newPage = "serviceSync" \/ kind = "clusters" =>
            \E i \in DOMAIN requests : UnderWay(requests[i], kind)
      /\ newPage # "serviceSync" => \A i \in DOMAIN requests : requests[i].kind = "clusters"
      /\ \A i \in DOMAIN requests : requests[i].rows = NoRows
  BY MountRequests
<1> HIDE DEF requests
<1>4. Delivered(Sent(ls, requests), ls, requests, kind)
  BY <1>2, SentLists
<1>5. kind = "clusters" \/ kind = "tasks"
  BY DEF Kinds
<1>6. newPage = "serviceSync" \/ kind = "clusters" => \E i \in DOMAIN requests : requests[i].kind = kind
  BY <1>3 DEF UnderWay
<1>7. ASSUME NEW l \in ListSlots, UnderWay(Sent(ls, requests)[l], kind)
      PROVE  \/ Mounts(Sent(ls, requests)[l], newPage, kind)
             \/ /\ newPage # "serviceSync" /\ kind = "tasks"
                /\ UnderWay(ls[l], kind) /\ Sent(ls, requests)[l] = ls[l]
  <2>1. CASE \E i \in DOMAIN requests : Sent(ls, requests)[l] = requests[i]
    BY <1>3, <1>7, <2>1
  <2>2. CASE /\ UnderWay(ls[l], kind) /\ Sent(ls, requests)[l] = ls[l]
             /\ \A i \in DOMAIN requests : requests[i].kind # kind
    BY <1>5, <1>6, <2>2
  <2> QED BY <1>4, <1>7, <2>1, <2>2 DEF Delivered
<1>8. newPage = "serviceSync" \/ kind = "clusters" =>
         \E l \in ListSlots : UnderWay(Sent(ls, requests)[l], kind)
  BY <1>3, <1>4 DEF Delivered
<1>9. newPage # "serviceSync" /\ kind = "tasks" =>
         \A l \in ListSlots : UnderWay(ls[l], kind) => Sent(ls, requests)[l] = ls[l]
  BY <1>3, <1>4 DEF Delivered
<1>10. \A l \in ListSlots :
          \/ Sent(ls, requests)[l].rows = NoRows
          \/ /\ Sent(ls, requests)[l].rows = ls[l].rows
             /\ Sent(ls, requests)[l].kind = ls[l].kind
  BY <1>3, <1>4 DEF Delivered
<1> QED BY <1>7, <1>8, <1>9, <1>10 DEF requests

(* A turn of the page asks for rows of the mounted page, and spares the    *)
(* lists of the other kind.                                                *)
LEMMA Turned ==
    ASSUME TypeOK, NEW pn \in Nat \ {0}, TurnPage(pn), NEW kind \in Kinds
    PROVE  /\ \A l \in ListSlots :
                 UnderWay(lists'[l], kind) =>
                    \/ /\ kind = Own /\ lists'[l] = List(Own, Asked(pn), TRUE)
                       /\ lists'[l].stage = "sent" /\ lists'[l].of = Asked(pn) /\ lists'[l].mine
                    \/ kind # Own /\ UnderWay(lists[l], kind) /\ lists'[l] = lists[l]
           /\ kind = Own => Awaited(kind)'
           /\ kind # Own => \A l \in ListSlots : UnderWay(lists[l], kind) => lists'[l] = lists[l]
           /\ \A l \in ListSlots :
                 \/ lists'[l].rows = NoRows
                 \/ lists'[l].rows = lists[l].rows /\ lists'[l].kind = lists[l].kind
<1> DEFINE asked == List(Own, Asked(pn), TRUE)
           requests == <<asked>>
<1>1. /\ asked.stage = "sent" /\ asked.kind = Own /\ asked.latest /\ asked.mine
      /\ asked.of = Asked(pn) /\ asked.rows = NoRows
  BY DEF List
<1>2. asked \in ListType
  <2>1. Own \in Kinds /\ Asked(pn) \in Params
    BY ConsoleAssumption DEF Own, Kinds, Asked, Params, TypeOK
  <2> QED BY <2>1, RequestTypes
<1> HIDE DEF asked
<1>3. /\ requests \in Seq(ListType) /\ DOMAIN requests = {1} /\ Len(requests) = 1
      /\ requests[1] = asked
  BY <1>2
<1>4. lists' = Sent(lists, requests) /\ lists \in [ListSlots -> ListType]
  BY DEF TurnPage, TypeOK, asked
<1>5. Cardinality({l \in ListSlots : Free(lists, l)}) >= Len(requests)
  BY <1>3 DEF TurnPage, Room
<1> HIDE DEF requests
<1>6. /\ \E l \in ListSlots : lists'[l] = asked
      /\ \A l \in ListSlots :
            UnderWay(lists'[l], kind) =>
               \/ lists'[l] = asked
               \/ UnderWay(lists[l], kind) /\ lists'[l] = lists[l] /\ Own # kind
      /\ Own # kind => \A l \in ListSlots : UnderWay(lists[l], kind) => lists'[l] = lists[l]
      /\ \A l \in ListSlots :
            \/ lists'[l].rows = NoRows
            \/ lists'[l].rows = lists[l].rows /\ lists'[l].kind = lists[l].kind
  <2>1. Delivered(lists', lists, requests, kind)
    BY <1>3, <1>4, <1>5, SentLists
  <2> QED BY <1>1, <1>3, <2>1 DEF Delivered
<1>7. ASSUME NEW l \in ListSlots, UnderWay(lists'[l], kind)
      PROVE  \/ /\ kind = Own /\ lists'[l] = asked
                /\ lists'[l].stage = "sent" /\ lists'[l].of = Asked(pn) /\ lists'[l].mine
             \/ kind # Own /\ UnderWay(lists[l], kind) /\ lists'[l] = lists[l]
  BY <1>1, <1>6, <1>7 DEF UnderWay
<1>8. kind = Own => \E l \in ListSlots : UnderWay(lists'[l], kind)
  BY <1>1, <1>6 DEF UnderWay
<1> QED BY <1>6, <1>7, <1>8 DEF Awaited, UnderWay, asked

(* What a step does to the lists and to what is shown.                     *)
Spares == UNCHANGED <<page, pageNum, loading, lists, store, stale>>
Turns == \E pn \in Nat \ {0} : TurnPage(pn) /\ UNCHANGED <<page, store, stale>>

(* Every step spares the lists, turns the page, mounts one, or is about the *)
(* list in one slot.                                                       *)
LEMMA ListSteps ==
    ASSUME TypeOK, [Next]_vars
    PROVE  \/ Spares \/ Turns
           \/ \E newPage \in Pages : Navigate(newPage)
           \/ \E l \in ListSlots : ServeList(l) \/ ReadFails(l) \/ ReceiveList(l) \/ LoseList(l)
<1>1. ASSUME NEW pn \in 1 .. Cardinality(Ids), PagerClick(pn) PROVE Turns
  <2>1. pn \in Nat \ {0}
    BY ConsoleAssumption, FS_CardinalityType
  <2> QED BY <1>1, <2>1 DEF PagerClick, Turns
<1>2. SearchClick => Turns
  BY DEF SearchClick, Turns
<1>3. ASSUME NEW c \in CommandSlots, Succeed(c) PROVE Spares \/ Turns
  <2>1. PageAfter(commands[c]) \in Nat \ {0}
    BY DEF PageAfter, TypeOK
  <2>2. /\ UNCHANGED <<page, store, stale>>
        /\ TurnPage(PageAfter(commands[c])) \/ UNCHANGED <<pageNum, loading, lists>>
    BY <1>3 DEF Succeed
  <2> QED BY <2>1, <2>2 DEF Spares, Turns
<1>4. ASSUME \/ \E text \in Texts : Type(text)
             \/ Cancel \/ OpenAdd \/ SaveEmpty
             \/ \E id \in Ids : Fill(id)
             \/ \E id \in Ids, what \in {"suspend", "deleteTask", "deleteCluster"} : Confirm(id, what)
             \/ \E c \in CommandSlots : (\E id \in Tasks : Resume(c, id)) \/ PressOk(c) \/ Save(c)
             \/ \E c \in CommandSlots : Reject(c)
             \/ \E kind \in Kinds : Refresh(kind)
             \/ \E id \in Foreign, status \in Statuses : Others(id, status)
             \/ UNCHANGED vars
      PROVE  Spares
  BY <1>4 DEF Type, Cancel, OpenAdd, SaveEmpty, Fill, Confirm, Resume, PressOk, Save, Reject,
              Refresh, Others, vars, ui, Spares
<1>5. ASSUME NEW c \in CommandSlots, ServerStep(c) PROVE Spares
  BY <1>5, ServerSteps DEF ui, Spares
<1> QED BY <1>1, <1>2, <1>3, <1>4, <1>5 DEF Next, Gesture, Server, Answer, ServerStep

(* A list in one slot is answered, received or lost.                       *)
LEMMA ListChanges ==
    ASSUME TypeOK, NEW l \in ListSlots
    PROVE  /\ ServeList(l) \/ ReadFails(l) =>
                 /\ \A k \in ListSlots \ {l} : lists'[k] = lists[k]
                 /\ lists'[l].stage = "answered" /\ lists[l].stage = "sent"
                 /\ lists'[l].kind = lists[l].kind /\ lists'[l].of = lists[l].of
                 /\ lists'[l].mine = lists[l].mine /\ lists'[l].latest = lists[l].latest
                 /\ UNCHANGED <<page, pageNum, loading, store, stale, database, commands, unseen>>
           /\ ReceiveList(l) \/ LoseList(l) =>
                 /\ \A k \in ListSlots \ {l} : lists'[k] = lists[k]
                 /\ lists'[l].stage = "free" /\ lists[l].stage # "free"
                 /\ UNCHANGED <<page, pageNum, database, commands, unseen>>
<1>1. lists[l] \in ListType /\ lists \in [ListSlots -> ListType]
  BY DEF TypeOK
<1>2. NoList.stage = "free"
  BY DEF NoList, List
<1>3. ServeList(l) =>
         /\ \A k \in ListSlots \ {l} : lists'[k] = lists[k]
         /\ lists'[l].stage = "answered" /\ lists[l].stage = "sent"
         /\ lists'[l].kind = lists[l].kind /\ lists'[l].of = lists[l].of
         /\ lists'[l].mine = lists[l].mine /\ lists'[l].latest = lists[l].latest
  BY <1>1 DEF ServeList, ListType
<1>4. ReadFails(l) =>
         /\ \A k \in ListSlots \ {l} : lists'[k] = lists[k]
         /\ lists'[l].stage = "answered" /\ lists[l].stage = "sent"
         /\ lists'[l].kind = lists[l].kind /\ lists'[l].of = lists[l].of
         /\ lists'[l].mine = lists[l].mine /\ lists'[l].latest = lists[l].latest
  BY <1>1 DEF ReadFails, ListType
<1>5. ReceiveList(l) \/ LoseList(l) =>
         /\ \A k \in ListSlots \ {l} : lists'[k] = lists[k]
         /\ lists'[l].stage = "free" /\ lists[l].stage # "free"
  BY <1>1, <1>2 DEF ReceiveList, LoseList
<1>6. ServeList(l) \/ ReadFails(l) =>
         UNCHANGED <<page, pageNum, loading, store, stale, database, commands, unseen>>
  BY DEF ServeList, ReadFails, ui
<1>7. ReceiveList(l) \/ LoseList(l) => UNCHANGED <<page, pageNum, database, commands, unseen>>
  BY DEF ReceiveList, LoseList, ui
<1> QED BY <1>3, <1>4, <1>5, <1>6, <1>7

-----------------------------------------------------------------------------
(* Orders and identifiers of a kind.                                       *)
LEMMA KindsOfIds ==
    /\ \A kind \in Kinds : \A id \in IdsOf(kind) : KindOf(id) = kind
    /\ \A id \in Ids : KindOf(id) \in Kinds /\ id \in IdsOf(KindOf(id))
    /\ Own \in Kinds
BY OrdersAssumption DEF Kinds, IdsOf, KindOf, Ids, Own

(* The rows that are shown, or on their way, stay of their kind.           *)
LEMMA RowsStep ==
    ASSUME TypeOK, OfItsKind, [Next]_vars
    PROVE  /\ \A kind \in Kinds : DOMAIN store'[kind].rows \subseteq IdsOf(kind)
           /\ \A l \in ListSlots : DOMAIN lists'[l].rows \subseteq IdsOf(lists'[l].kind)
<1> DEFINE Goal == /\ \A kind \in Kinds : DOMAIN store'[kind].rows \subseteq IdsOf(kind)
                   /\ \A l \in ListSlots : DOMAIN lists'[l].rows \subseteq IdsOf(lists'[l].kind)
<1>0. DOMAIN NoRows = {} /\ NoList.rows = NoRows
  BY DEF NoRows, NoList, List
<1>1. CASE Spares
  BY <1>1 DEF Spares, OfItsKind
<1>2. CASE Turns
  <2>1. UNCHANGED store
    BY <1>2 DEF Turns
  <2>2. \A l \in ListSlots : \/ lists'[l].rows = NoRows
                             \/ lists'[l].rows = lists[l].rows /\ lists'[l].kind = lists[l].kind
    BY <1>2, Turned, KindsOfIds DEF Turns
  <2> QED BY <1>0, <2>1, <2>2 DEF OfItsKind
<1>3. ASSUME NEW newPage \in Pages, Navigate(newPage) PROVE Goal
  <2> DEFINE ls == [l \in ListSlots |-> [lists[l] EXCEPT !.mine = FALSE]]
  <2>1. ls \in [ListSlots -> ListType]
    BY ListUpdates DEF TypeOK
  <2>2. \A l \in ListSlots : ls[l].rows = lists[l].rows /\ ls[l].kind = lists[l].kind
                             /\ (Free(ls, l) <=> Free(lists, l))
    BY DEF TypeOK, ListType, Free
  <2>3. lists' = Sent(ls, OnMount(newPage)) /\ UNCHANGED store
    BY <1>3 DEF Navigate
  <2>4. Cardinality({l \in ListSlots : Free(ls, l)}) >= Len(OnMount(newPage))
    <3>1. {l \in ListSlots : Free(ls, l)} = {l \in ListSlots : Free(lists, l)}
      BY <2>2
    <3> QED BY <1>3, <3>1 DEF Navigate, Room
  <2> HIDE DEF ls
  <2>5. \A l \in ListSlots :
           \/ lists'[l].rows = NoRows
           \/ lists'[l].rows = ls[l].rows /\ lists'[l].kind = ls[l].kind
    BY <2>1, <2>3, <2>4, Mounted, KindsOfIds
  <2> QED BY <1>0, <2>2, <2>3, <2>5 DEF OfItsKind
<1>4. ASSUME NEW l \in ListSlots, ServeList(l) PROVE Goal
  <2> DEFINE list == lists[l]
             all == Matching(list.kind, list.of.text)
             rows == [id \in OnPage(all, list.of.pageNum, list.of.size) |-> listed[id]]
  <2>1. lists'[l].rows = rows
    BY <1>4 DEF ServeList, TypeOK, ListType
  <2>2. DOMAIN rows \subseteq IdsOf(list.kind)
    BY DEF Matching, OnPage
  <2>3. lists'[l].kind = lists[l].kind /\ \A k \in ListSlots \ {l} : lists'[k] = lists[k]
    BY <1>4, ListChanges
  <2>4. UNCHANGED store
    BY <1>4, ListChanges
  <2> HIDE DEF rows
  <2> QED BY <2>1, <2>2, <2>3, <2>4 DEF OfItsKind
<1>5. ASSUME NEW l \in ListSlots, ReadFails(l) PROVE Goal
  <2>1. lists'[l].rows = lists[l].rows
    BY <1>5 DEF ReadFails, TypeOK, ListType
  <2>3. lists'[l].kind = lists[l].kind /\ \A k \in ListSlots \ {l} : lists'[k] = lists[k]
    BY <1>5, ListChanges
  <2>4. UNCHANGED store
    BY <1>5, ListChanges
  <2> QED BY <2>1, <2>3, <2>4 DEF OfItsKind
<1>6. ASSUME NEW l \in ListSlots, ReceiveList(l) \/ LoseList(l) PROVE Goal
  <2>1. lists' = [lists EXCEPT ![l] = NoList]
    BY <1>6 DEF ReceiveList, LoseList
  <2>2. \A k \in ListSlots : DOMAIN lists'[k].rows \subseteq IdsOf(lists'[k].kind)
    BY <1>0, <2>1 DEF OfItsKind, TypeOK
  <2>3. lists[l].kind \in Kinds
    BY DEF TypeOK, ListType
  <2>4. \A kind \in Kinds : \/ store'[kind].rows = store[kind].rows
                            \/ store'[kind].rows = lists[l].rows /\ kind = lists[l].kind
    BY <1>6, <2>3 DEF ReceiveList, LoseList, ui, TypeOK
  <2> QED BY <2>2, <2>4 DEF OfItsKind
<1> QED BY <1>1, <1>2, <1>3, <1>4, <1>5, <1>6, ListSteps

(* Confirmations and commands of the mounted page stay of its kind.        *)
LEMMA OrdersStep ==
    ASSUME TypeOK, OfItsKind, [Next]_vars
    PROVE  /\ dialog'.what = "confirm" => KindOf(dialog'.order.id) = Own'
           /\ \A c \in CommandSlots :
                 /\ commands'[c].stage # "free" /\ commands'[c].mine
                       => KindOf(commands'[c].order.id) = Own'
                 /\ commands'[c].stage \in {"sent", "read"} => ~commands'[c].done
<1> DEFINE Asks == dialog'.what = "confirm" => KindOf(dialog'.order.id) = Own'
           Kept(c) == /\ commands'[c].stage # "free" /\ commands'[c].mine
                            => KindOf(commands'[c].order.id) = Own'
                      /\ commands'[c].stage \in {"sent", "read"} => ~commands'[c].done
           Goal == Asks /\ \A c \in CommandSlots : Kept(c)
<1>0. /\ NoDialog.what # "confirm" /\ AddForm.what = "add"
      /\ \A order : [AddForm EXCEPT !.order = order].what = "add"
      /\ NoCommand.stage = "free"
  BY DEF NoDialog, AddForm, NoCommand
<1>1. ASSUME UNCHANGED <<commands, page>>, Asks PROVE Goal
  BY <1>1 DEF OfItsKind, Own
<1>2. ASSUME UNCHANGED <<dialog, page>> PROVE Asks
  BY <1>2 DEF OfItsKind, Own
<1>3. ASSUME \/ \E pn \in 1 .. Cardinality(Ids) : PagerClick(pn)
             \/ \E text \in Texts : Type(text)
             \/ SearchClick
             \/ \E l \in ListSlots : ServeList(l) \/ ReadFails(l) \/ ReceiveList(l) \/ LoseList(l)
             \/ \E kind \in Kinds : Refresh(kind)
             \/ \E id \in Foreign, status \in Statuses : Others(id, status)
             \/ UNCHANGED vars
      PROVE  Goal
  <2>1. UNCHANGED <<commands, page, dialog>>
    BY <1>3 DEF PagerClick, Type, SearchClick, ServeList, ReadFails, ReceiveList, LoseList, Refresh,
                Others, vars, ui
  <2> QED BY <1>1, <1>2, <2>1
<1>4. ASSUME Cancel \/ OpenAdd \/ SaveEmpty \/ \E id \in Ids : Fill(id) PROVE Goal
  <2>1. UNCHANGED <<commands, page>> /\ dialog'.what # "confirm"
    BY <1>0, <1>4 DEF Cancel, OpenAdd, SaveEmpty, Fill
  <2> QED BY <1>1, <2>1
<1>5. ASSUME NEW id \in Ids, NEW what \in {"suspend", "deleteTask", "deleteCluster"},
             Confirm(id, what)
      PROVE  Goal
  <2>1. id \in IdsOf(Own)
    BY <1>5, KindsOfIds DEF Confirm, RowClick, OfItsKind
  <2>2. KindOf(id) = Own /\ UNCHANGED <<commands, page>> /\ dialog'.order.id = id
    BY <1>5, <2>1, KindsOfIds DEF Confirm
  <2> QED BY <1>1, <2>2 DEF Own
<1>6. ASSUME NEW newPage \in Pages, Navigate(newPage) PROVE Goal
  <2>1. dialog'.what = "none"
    BY <1>6 DEF Navigate, Unmasked
  <2>2. ASSUME NEW c \in CommandSlots
        PROVE  ~commands'[c].mine /\ commands'[c].stage = commands[c].stage
               /\ commands'[c].done = commands[c].done
    <3>1. commands[c] \in CommandType \cup {NoCommand}
      BY DEF TypeOK
    <3> QED BY <1>6, <3>1 DEF Navigate, CommandType, NoCommand
  <2> QED BY <2>1, <2>2 DEF OfItsKind
<1>7. ASSUME NEW c \in CommandSlots, NEW order, NEW last, Give(c, order, last),
             KindOf(order.id) = Own, UNCHANGED page
      PROVE  \A d \in CommandSlots : Kept(d)
  BY <1>7 DEF Give, TypeOK, OfItsKind, Own
<1>8. ASSUME NEW c \in CommandSlots, NEW id \in Tasks, Resume(c, id) PROVE Goal
  <2>1. KindOf(id) = Own
    BY <1>8, KindsOfIds DEF Resume, RowClick, OfItsKind
  <2>2. UNCHANGED <<dialog, page>>
    BY <1>8 DEF Resume, ui
  <2> QED BY <1>2, <1>7, <1>8, <2>1, <2>2 DEF Resume
<1>9. ASSUME NEW c \in CommandSlots, PressOk(c) PROVE Goal
  <2>1. KindOf(dialog.order.id) = Own
    BY <1>9 DEF PressOk, OfItsKind
  <2>2. dialog'.order = dialog.order /\ UNCHANGED page
    <3>1. dialog \in DialogType
      BY DEF TypeOK
    <3> QED BY <1>9, <3>1 DEF PressOk, DialogType, NoDialog, AddForm
  <2> QED BY <1>7, <1>9, <2>1, <2>2 DEF PressOk, Own
<1>10. ASSUME NEW c \in CommandSlots, Save(c) PROVE Goal
  <2>1. kept \in IdsOf(Own)
    BY <1>10 DEF Save, TypeOK
  <2>2. KindOf(AddOrder(kept).id) = Own
    BY <2>1, KindsOfIds DEF AddOrder
  <2>3. UNCHANGED <<dialog, page>>
    BY <1>10 DEF Save, ui
  <2> QED BY <1>2, <1>7, <1>10, <2>2, <2>3 DEF Save
<1>11. ASSUME NEW c \in CommandSlots, ServerStep(c) PROVE Goal
  <2>1. UNCHANGED <<dialog, page>>
    BY <1>11, ServerSteps DEF ui
  <2>2. commands[c] \in CommandType /\ commands[c].stage # "free"
    BY <1>11, ServerSteps DEF CommandType
  <2>3. /\ commands'[c].stage \in {"sent", "read"} => ~commands'[c].done
        /\ commands'[c].mine = commands[c].mine
        /\ commands'[c].order = commands[c].order
        /\ \A d \in CommandSlots \ {c} : commands'[d] = commands[d]
    <3>1. PICK stage \in {"read", "ok", "rejected"}, done \in BOOLEAN : Changes(c, stage, done)
      BY <1>11, ServerChange DEF OfItsKind
    <3> QED BY <2>2, <3>1 DEF Changes, Moves, TypeOK, CommandType
  <2> QED BY <1>2, <2>1, <2>2, <2>3 DEF OfItsKind, Own
<1>12. ASSUME NEW c \in CommandSlots, Succeed(c) \/ Reject(c) PROVE Goal
  <2>1. dialog' \in {NoDialog, dialog, [dialog EXCEPT !.slot = 0]} /\ UNCHANGED page
    BY <1>12 DEF Succeed, Reject, AfterSuccess, AfterFailure
  <2>2. dialog'.what = "confirm" => dialog.what = "confirm" /\ dialog'.order = dialog.order
    <3>1. dialog \in DialogType
      BY DEF TypeOK
    <3> QED BY <1>0, <2>1, <3>1 DEF DialogType, NoDialog, AddForm
  <2>3. commands' = [commands EXCEPT ![c] = NoCommand]
    BY <1>12 DEF Succeed, Reject
  <2> QED BY <1>0, <2>1, <2>2, <2>3 DEF OfItsKind, TypeOK, Own
<1> QED BY <1>3, <1>4, <1>5, <1>6, <1>8, <1>9, <1>10, <1>11, <1>12
        DEF Next, Gesture, Server, Answer, ServerStep

-----------------------------------------------------------------------------
(* Navigation mounts a page over the lists of the one that is left.        *)
LEMMA Navigated ==
    ASSUME TypeOK, NEW newPage \in Pages, Navigate(newPage), NEW kind \in Kinds
    PROVE  /\ \A l \in ListSlots :
                 UnderWay(lists'[l], kind) =>
                    \/ Mounts(lists'[l], newPage, kind)
                    \/ /\ newPage # "serviceSync" /\ kind = "tasks" /\ UnderWay(lists[l], kind)
                       /\ lists'[l].stage = lists[l].stage /\ lists'[l].current = lists[l].current
                       /\ lists'[l].rows = lists[l].rows /\ lists'[l].of = lists[l].of
           /\ newPage = "serviceSync" \/ kind = "clusters" =>
                 \E l \in ListSlots : UnderWay(lists'[l], kind)
           /\ newPage # "serviceSync" /\ kind = "tasks" =>
                 \A l \in ListSlots : UnderWay(lists[l], kind) => UnderWay(lists'[l], kind)
<1> DEFINE ls == [l \in ListSlots |-> [lists[l] EXCEPT !.mine = FALSE]]
<1>1. ls \in [ListSlots -> ListType]
  BY ListUpdates DEF TypeOK
<1>2. \A l \in ListSlots :
         /\ UnderWay(ls[l], kind) <=> UnderWay(lists[l], kind)
         /\ ls[l].stage = lists[l].stage /\ ls[l].current = lists[l].current
         /\ ls[l].rows = lists[l].rows /\ ls[l].of = lists[l].of
  BY DEF TypeOK, ListType, UnderWay
<1>3. lists' = Sent(ls, OnMount(newPage))
  BY DEF Navigate
<1>4. Cardinality({l \in ListSlots : Free(ls, l)}) >= Len(OnMount(newPage))
  <2>1. {l \in ListSlots : Free(ls, l)} = {l \in ListSlots : Free(lists, l)}
    BY <1>2 DEF Free
  <2> QED BY <2>1 DEF Navigate, Room
<1> HIDE DEF ls
<1>5. /\ \A l \in ListSlots :
            UnderWay(lists'[l], kind) =>
               \/ Mounts(lists'[l], newPage, kind)
               \/ /\ newPage # "serviceSync" /\ kind = "tasks"
                  /\ UnderWay(ls[l], kind) /\ lists'[l] = ls[l]
      /\ newPage = "serviceSync" \/ kind = "clusters" =>
            \E l \in ListSlots : UnderWay(lists'[l], kind)
      /\ newPage # "serviceSync" /\ kind = "tasks" =>
            \A l \in ListSlots : UnderWay(ls[l], kind) => lists'[l] = ls[l]
  BY <1>1, <1>3, <1>4, Mounted
<1>6. ASSUME newPage # "serviceSync", kind = "tasks", NEW l \in ListSlots, UnderWay(lists[l], kind)
      PROVE  UnderWay(lists'[l], kind)
  <2>1. UnderWay(ls[l], kind) /\ lists'[l] = ls[l]
    BY <1>2, <1>5, <1>6
  <2> QED BY <2>1
<1> QED BY <1>2, <1>5, <1>6

(* There is room for the first lists.                                      *)
LEMMA RoomAtFirst ==
    Cardinality({l \in ListSlots : Free([k \in ListSlots |-> NoList], l)})
       >= Len(OnMount("serviceSync"))
<1> DEFINE ls == [k \in ListSlots |-> NoList]
<1>1. {l \in ListSlots : Free(ls, l)} = ListSlots
  BY DEF Free, NoList, List
<1>2. MaxLists \in Nat /\ MaxLists >= 3
  BY ConsoleAssumption
<1>3. Cardinality(ListSlots) = MaxLists
  BY <1>2, FS_Interval DEF ListSlots
<1>4. Len(OnMount("serviceSync")) \in Nat /\ Len(OnMount("serviceSync")) <= 3
  BY MountRequests DEF Pages, Kinds
<1> DEFINE n == Len(OnMount("serviceSync"))
<1> HIDE DEF n
<1>5. n \in Nat /\ n <= 3
  BY <1>4 DEF n
<1>6. MaxLists >= n
  BY <1>2, <1>5
<1> QED BY <1>1, <1>3, <1>6 DEF n

(* When the console is opened, the lists of its first page are under way.  *)
LEMMA FollowsInit == Init => ListsFollow
<1> SUFFICES ASSUME Init, NEW kind \in Kinds PROVE ListFollows(kind)
  BY DEF ListsFollow
<1> DEFINE ls == [l \in ListSlots |-> NoList]
<1>1. ls \in [ListSlots -> ListType] /\ lists = Sent(ls, OnMount("serviceSync"))
  BY RequestTypes DEF Init
<1>2. Cardinality({l \in ListSlots : Free(ls, l)}) >= Len(OnMount("serviceSync"))
  BY RoomAtFirst
<1> HIDE DEF ls
<1>3. /\ \A l \in ListSlots :
            UnderWay(lists[l], kind) => Mounts(lists[l], "serviceSync", kind)
      /\ \E l \in ListSlots : UnderWay(lists[l], kind)
  BY <1>1, <1>2, Mounted DEF Pages
<1>4. FirstPage.pageNum = 1 /\ FirstPage.size = PageSize /\ page = "serviceSync" /\ pageNum = 1
  BY DEF FirstPage, Init
<1> QED BY <1>3, <1>4 DEF ListFollows, Awaited, Wanted, Mounts, OwnOf

(* The lists that are awaited or shown follow the page that is mounted.    *)
LEMMA FollowsStep ==
    ASSUME TypeOK, ListsFollow, [Next]_vars
    PROVE  ListsFollow'
<1> DEFINE Good(l, kind) == UnderWay(lists'[l], kind) =>
                               /\ Wanted(lists'[l].of, kind, page', pageNum')
                               /\ kind = OwnOf(page') => lists'[l].mine
           Shown(kind) == \/ \E l \in ListSlots : UnderWay(lists'[l], kind)
                          \/ stale'[kind]
                          \/ /\ Wanted(store'[kind].of, kind, page', pageNum')
                             /\ kind = OwnOf(page') => ~loading'
<1> SUFFICES ASSUME NEW kind \in Kinds
             PROVE  (\A l \in ListSlots : Good(l, kind)) /\ Shown(kind)
  BY DEF ListsFollow, ListFollows, Awaited
<1>0. /\ \A l \in ListSlots :
            UnderWay(lists[l], kind) => /\ Wanted(lists[l].of, kind, page, pageNum)
                                        /\ kind = OwnOf(page) => lists[l].mine
      /\ \/ \E l \in ListSlots : UnderWay(lists[l], kind)
         \/ stale[kind]
         \/ /\ Wanted(store[kind].of, kind, page, pageNum)
            /\ kind = OwnOf(page) => ~loading
  BY DEF ListsFollow, ListFollows, Awaited
<1> DEFINE Goal == (\A l \in ListSlots : Good(l, kind)) /\ Shown(kind)
<1>1. CASE Spares
  BY <1>0, <1>1 DEF Spares
<1>2. CASE Turns
  <2>1. PICK pn \in Nat \ {0} : TurnPage(pn) /\ UNCHANGED <<page, store, stale>>
    BY <1>2 DEF Turns
  <2>2. Asked(pn).pageNum = pn /\ Asked(pn).size = PageSize /\ pageNum' = pn /\ Own = OwnOf(page)
    BY <2>1 DEF Asked, TurnPage, Own, OwnOf
  <2>3. CASE kind = Own
    <3>1. /\ \E l \in ListSlots : UnderWay(lists'[l], kind)
          /\ \A l \in ListSlots :
                UnderWay(lists'[l], kind) => lists'[l].of = Asked(pn) /\ lists'[l].mine
      BY <2>1, <2>3, Turned DEF Awaited
    <3> QED BY <2>1, <2>2, <2>3, <3>1 DEF Wanted
  <2>4. CASE kind # Own
    <3>1. /\ \A l \in ListSlots :
                UnderWay(lists'[l], kind) => UnderWay(lists[l], kind) /\ lists'[l] = lists[l]
          /\ \A l \in ListSlots : UnderWay(lists[l], kind) => lists'[l] = lists[l]
      BY <2>1, <2>4, Turned
    <3> QED BY <1>0, <2>1, <2>2, <2>4, <3>1 DEF Wanted
  <2> QED BY <2>3, <2>4
<1>3. ASSUME NEW newPage \in Pages, Navigate(newPage) PROVE Goal
  <2>1. /\ FirstPage.pageNum = 1 /\ FirstPage.size = PageSize
        /\ page' = newPage /\ pageNum' = 1
    BY <1>3 DEF FirstPage, Navigate
  <2>2. \A l \in ListSlots :
           UnderWay(lists'[l], kind) =>
              \/ Mounts(lists'[l], newPage, kind)
              \/ newPage # "serviceSync" /\ kind = "tasks"
    BY <1>3, Navigated
  <2>3. newPage = "serviceSync" \/ kind = "clusters" =>
           \E l \in ListSlots : UnderWay(lists'[l], kind)
    BY <1>3, Navigated
  <2>4. CASE newPage # "serviceSync" /\ kind = "tasks"
    BY <2>1, <2>4 DEF Wanted, OwnOf
  <2>5. CASE newPage = "serviceSync" \/ kind = "clusters"
    BY <2>1, <2>2, <2>3, <2>5 DEF Wanted, Mounts, OwnOf
  <2> QED BY <2>4, <2>5 DEF Kinds
<1>4. ASSUME NEW l \in ListSlots, ServeList(l) \/ ReadFails(l) PROVE Goal
  <2>1. \A k \in ListSlots : /\ UnderWay(lists'[k], kind) <=> UnderWay(lists[k], kind)
                             /\ lists'[k].of = lists[k].of /\ lists'[k].mine = lists[k].mine
    BY <1>4, ListChanges DEF UnderWay
  <2>2. UNCHANGED <<page, pageNum, loading, store, stale>>
    BY <1>4, ListChanges
  <2> QED BY <1>0, <2>1, <2>2
<1>5. ASSUME NEW l \in ListSlots, ReceiveList(l) \/ LoseList(l) PROVE Goal
  <2>1. /\ \A k \in ListSlots \ {l} : lists'[k] = lists[k]
        /\ ~UnderWay(lists'[l], kind) /\ lists[l].stage # "free"
        /\ UNCHANGED <<page, pageNum>>
    BY <1>5, ListChanges DEF UnderWay
  <2>2. \A k \in ListSlots : Good(k, kind)
    BY <1>0, <2>1
  <2>3. (\E k \in ListSlots : UnderWay(lists[k], kind)) =>
           (\E k \in ListSlots : UnderWay(lists'[k], kind)) \/ UnderWay(lists[l], kind)
    BY <2>1
  <2>4. CASE LoseList(l)
    <3>1. UNCHANGED <<store, loading>> /\ (stale[kind] => stale'[kind])
      BY <2>4 DEF LoseList, ui, TypeOK
    <3>2. UnderWay(lists[l], kind) => stale'[kind]
      BY <2>4 DEF LoseList, TypeOK, UnderWay
    <3> QED BY <1>0, <2>1, <2>2, <2>3, <3>1, <3>2
  <2>5. CASE ReceiveList(l)
    <3>1. loading' = (loading /\ ~lists[l].mine)
      BY <2>5 DEF ReceiveList
    <3>2. CASE lists[l].kind # kind
      <4>1. store'[kind] = store[kind] /\ stale'[kind] = stale[kind]
        BY <2>5, <3>2 DEF ReceiveList, TypeOK
      <4>2. ~UnderWay(lists[l], kind)
        BY <3>2 DEF UnderWay
      <4> QED BY <1>0, <2>1, <2>2, <2>3, <3>1, <4>1, <4>2
    <3>3. CASE lists[l].kind = kind
      <4>1. /\ store'[kind].of = lists[l].of
            /\ stale'[kind] = ~(lists[l].latest /\ lists[l].current)
        BY <2>5, <3>3 DEF ReceiveList, TypeOK
      <4>2. lists[l].latest => /\ Wanted(lists[l].of, kind, page, pageNum)
                               /\ kind = OwnOf(page) => lists[l].mine
        BY <1>0, <2>1, <3>3 DEF UnderWay
      <4> QED BY <2>1, <2>2, <3>1, <4>1, <4>2
    <3> QED BY <3>2, <3>3
  <2> QED BY <1>5, <2>4, <2>5
<1> QED BY <1>1, <1>2, <1>3, <1>4, <1>5, ListSteps

-----------------------------------------------------------------------------
(* Rows depend on what is held of their kind only.                         *)
LEMMA SamePage ==
    ASSUME NEW kind \in Kinds, NEW before, NEW after, NEW of,
           \A id \in IdsOf(kind) : after[id] = before[id]
    PROVE  PageOf(after, kind, of) = PageOf(before, kind, of)
<1>1. Held(after, kind, of.text) = Held(before, kind, of.text)
  BY DEF Held
<1>2. OnPage(Held(before, kind, of.text), of.pageNum, of.size) \subseteq IdsOf(kind)
  BY DEF OnPage, Held
<1> QED BY <1>1, <1>2 DEF PageOf

(* A command that was given.                                               *)
LEMMA GivenCommand ==
    ASSUME TypeOK, NEW c \in CommandSlots, commands[c].stage # "free"
    PROVE  /\ commands[c] \in CommandType /\ commands[c].done \in BOOLEAN
           /\ commands[c].order \in Order /\ commands[c].order.id \in Ids
<1>1. commands[c] \in CommandType
  BY CommandUpdates DEF TypeOK
<1>2. commands[c].order \in Order /\ commands[c].done \in BOOLEAN
  BY <1>1 DEF CommandType
<1> QED BY <1>1, <1>2, OrderTypes

(* Nothing happened to what etcd holds of a kind.                          *)
Remains(kind) == Quiet(kind) /\ \A id \in IdsOf(kind) : database'[id] = database[id]

(* If all changes of a kind are seen, or will be, after a step, it changed  *)
(* nothing of this kind, or a list of it was asked for again.              *)
LEMMA QuietStep ==
    ASSUME TypeOK, OfItsKind, [Next]_vars, NEW kind \in Kinds,
           \A c \in CommandSlots : commands'[c].done => KindOf(commands'[c].order.id) # kind,
           ~unseen'[kind]
    PROVE  \/ Remains(kind)
           \/ kind = Own /\ Turns
           \/ \E newPage \in Pages : /\ Navigate(newPage)
                                     /\ newPage = "serviceSync" \/ kind = "clusters"
<1>0. ~NoCommand.done
  BY DEF NoCommand
<1>1. ASSUME commands' = commands, database' = database, unseen'[kind] = unseen[kind] PROVE Remains(kind)
  BY <1>1 DEF Remains, Quiet
<1>2. ASSUME NEW pn \in Nat \ {0}, TurnPage(pn), commands' = commands, database' = database,
             kind # Own
      PROVE  Remains(kind)
  BY <1>1, <1>2 DEF TurnPage, TypeOK
<1>3. ASSUME NEW pn \in 1 .. Cardinality(Ids), PagerClick(pn) PROVE Remains(kind) \/ (kind = Own /\ Turns)
  <2>1. pn \in Nat \ {0}
    BY ConsoleAssumption, FS_CardinalityType
  <2>2. TurnPage(pn) /\ UNCHANGED <<page, store, stale, commands, database>>
    BY <1>3 DEF PagerClick
  <2>3. Turns
    BY <2>1, <2>2 DEF Turns
  <2> QED BY <1>2, <2>1, <2>2, <2>3
<1>4. ASSUME SearchClick PROVE Remains(kind) \/ (kind = Own /\ Turns)
  <2>1. TurnPage(1) /\ UNCHANGED <<page, store, stale, commands, database>>
    BY <1>4 DEF SearchClick
  <2>2. Turns
    BY <2>1 DEF Turns
  <2> QED BY <1>2, <2>1, <2>2
<1>5. ASSUME NEW newPage \in Pages, Navigate(newPage)
      PROVE  Remains(kind) \/ newPage = "serviceSync" \/ kind = "clusters"
  <2> SUFFICES ASSUME newPage # "serviceSync", kind # "clusters" PROVE Remains(kind)
    OBVIOUS
  <2>1. unseen'[kind] = unseen[kind]
    <3>1. \A i \in DOMAIN OnMount(newPage) : OnMount(newPage)[i].kind = "clusters"
      BY MountRequests
    <3>2. unseen'[kind] = (unseen[kind] /\ \A i \in DOMAIN OnMount(newPage) :
                                              OnMount(newPage)[i].kind # kind)
      BY <1>5 DEF Navigate
    <3>3. unseen[kind] \in BOOLEAN
      BY DEF TypeOK
    <3> QED BY <3>1, <3>2, <3>3
  <2>2. ASSUME NEW c \in CommandSlots
        PROVE  commands'[c].done = commands[c].done /\ commands'[c].order = commands[c].order
    <3>1. commands[c] \in CommandType \cup {NoCommand}
      BY DEF TypeOK
    <3> QED BY <1>5, <3>1 DEF Navigate, CommandType, NoCommand
  <2> QED BY <1>5, <2>1, <2>2 DEF Navigate, Remains, Quiet
<1>6. ASSUME NEW c \in CommandSlots, NEW order, NEW last, Give(c, order, last),
             UNCHANGED <<database, unseen>>
      PROVE  Remains(kind)
  <2>1. commands[c] = NoCommand
    BY <1>6 DEF Give, TypeOK, CommandType
  <2>2. \A d \in CommandSlots \ {c} : commands'[d] = commands[d]
    BY <1>6 DEF Give, TypeOK
  <2> QED BY <1>0, <1>6, <2>1, <2>2 DEF Remains, Quiet
<1>7. ASSUME NEW c \in CommandSlots, (\E id \in Tasks : Resume(c, id)) \/ PressOk(c) \/ Save(c)
      PROVE  Remains(kind)
  BY <1>6, <1>7 DEF Resume, PressOk, Save
<1>8. ASSUME \/ \E text \in Texts : Type(text)
             \/ Cancel \/ OpenAdd \/ SaveEmpty
             \/ \E id \in Ids : Fill(id)
             \/ \E id \in Ids, what \in {"suspend", "deleteTask", "deleteCluster"} : Confirm(id, what)
             \/ \E l \in ListSlots : ServeList(l) \/ ReadFails(l) \/ ReceiveList(l) \/ LoseList(l)
             \/ \E k \in Kinds : Refresh(k)
             \/ UNCHANGED vars
      PROVE  Remains(kind)
  <2>1. UNCHANGED <<commands, database, unseen>>
    BY <1>8 DEF Type, Cancel, OpenAdd, SaveEmpty, Fill, Confirm, ServeList, ReadFails, ReceiveList,
                LoseList, Refresh, vars, ui
  <2> QED BY <1>1, <2>1
<1>9. ASSUME NEW c \in CommandSlots, ServerStep(c) PROVE Remains(kind)
  <2> DEFINE order == commands[c].order
  <2>1. commands[c] \in CommandType /\ order.id \in Ids /\ unseen' = unseen
    <3>1. commands[c].stage # "free"
      BY <1>9, ServerSteps DEF CommandType
    <3> QED BY <1>9, <3>1, ServerSteps, GivenCommand
  <2>2. PICK stage \in {"read", "ok", "rejected"}, done \in BOOLEAN : Changes(c, stage, done)
    BY <1>9, ServerChange DEF OfItsKind
  <2>3. /\ commands'[c].done = done /\ commands'[c].order = order
        /\ \A d \in CommandSlots \ {c} : commands'[d] = commands[d]
    BY <2>1, <2>2 DEF Changes, Moves, TypeOK, CommandType
  <2>4. \A id \in IdsOf(kind) : database'[id] = database[id]
    <3>1. CASE database' = database
      BY <3>1
    <3>2. CASE done /\ database' = [database EXCEPT ![order.id] = Becomes(order.what)]
      <4>1. KindOf(order.id) # kind
        BY <2>3, <3>2
      <4>2. order.id \notin IdsOf(kind)
        BY <4>1, KindsOfIds
      <4> QED BY <3>2, <4>2 DEF TypeOK, Contents, IdsOf, Ids
    <3> QED BY <2>2, <3>1, <3>2 DEF Changes
  <2>5. commands[c].done => done
    BY <2>2 DEF Changes
  <2> QED BY <2>1, <2>3, <2>4, <2>5 DEF Remains, Quiet
<1>11. ASSUME NEW c \in CommandSlots, commands' = [commands EXCEPT ![c] = NoCommand],
              commands[c].done => KindOf(commands[c].order.id) # kind,
              ~unseen[kind], database' = database
       PROVE  Remains(kind)
  BY <1>11 DEF Remains, Quiet, TypeOK
<1>12. ASSUME NEW c \in CommandSlots, Succeed(c) PROVE Remains(kind) \/ (kind = Own /\ Turns)
  <2>1. commands[c].order \in Order /\ commands[c].order.id \in Ids /\ unseen \in [Kinds -> BOOLEAN]
    BY <1>12, GivenCommand DEF Succeed, TypeOK
  <2>0. commands' = [commands EXCEPT ![c] = NoCommand] /\ database' = database /\ ~unseen'[kind]
    BY <1>12 DEF Succeed
  <2>2. CASE commands[c].mine /\ TurnPage(PageAfter(commands[c]))
    <3>1. PageAfter(commands[c]) \in Nat \ {0}
      BY DEF PageAfter, TypeOK
    <3>2. Turns
      BY <1>12, <2>2, <3>1 DEF Succeed, Turns
    <3>3. CASE kind # Own
      <4>1. KindOf(commands[c].order.id) # kind
        BY <1>12, <2>2, <3>3 DEF Succeed, OfItsKind
      <4>2. unseen'[kind] = unseen[kind]
        BY <2>2, <3>3 DEF TurnPage, TypeOK
      <4> QED BY <1>11, <2>0, <4>1, <4>2
    <3> QED BY <3>2, <3>3
  <2>3. CASE unseen' = [unseen EXCEPT ![KindOf(commands[c].order.id)] = TRUE]
    <3>1. KindOf(commands[c].order.id) # kind
      BY <2>1, <2>3
    <3>2. unseen'[kind] = unseen[kind]
      BY <2>1, <2>3, <3>1
    <3> QED BY <1>11, <2>0, <3>1, <3>2
  <2> QED BY <1>12, <2>2, <2>3 DEF Succeed
<1>13. ASSUME NEW c \in CommandSlots, Reject(c) PROVE Remains(kind)
  <2>1. /\ commands[c].order.id \in Ids /\ unseen \in [Kinds -> BOOLEAN]
        /\ commands[c].done \in BOOLEAN
    BY <1>13, GivenCommand DEF Reject, TypeOK
  <2>2. unseen' = [unseen EXCEPT ![KindOf(commands[c].order.id)] = @ \/ commands[c].done]
    BY <1>13 DEF Reject
  <2>3. ~unseen[kind] /\ (commands[c].done => KindOf(commands[c].order.id) # kind)
    BY <2>1, <2>2
  <2> QED BY <1>11, <1>13, <2>3 DEF Reject
<1>14. ASSUME NEW id \in Foreign, NEW status \in Statuses, Others(id, status) PROVE Remains(kind)
  <2>1. id \in Ids
    BY ConsoleAssumption
  <2>2. /\ unseen' = [unseen EXCEPT ![KindOf(id)] = TRUE] /\ unseen \in [Kinds -> BOOLEAN]
        /\ database' = [database EXCEPT ![id] = status] /\ commands' = commands
    BY <1>14 DEF Others, TypeOK
  <2>3. KindOf(id) # kind
    BY <2>2
  <2>4. id \notin IdsOf(kind) /\ ~unseen[kind]
    BY <2>2, <2>3, KindsOfIds
  <2> QED BY <2>2, <2>4 DEF Remains, Quiet, TypeOK, Contents, IdsOf, Ids
<1> QED BY <1>3, <1>4, <1>5, <1>7, <1>8, <1>9, <1>12, <1>13, <1>14
        DEF Next, Gesture, Server, Answer, ServerStep

(* What is served of a kind is what etcd holds, if it is current.          *)
LEMMA ServedRows ==
    ASSUME TypeOK, NEW l \in ListSlots, ServeList(l), lists'[l].current
    PROVE  lists'[l].rows = PageOf(database, lists[l].kind, lists'[l].of)
<1> DEFINE list == lists[l]
           all == Matching(list.kind, list.of.text)
           rows == [id \in OnPage(all, list.of.pageNum, list.of.size) |-> listed[id]]
           current == \A id \in IdsOf(list.kind) : listed[id] = database[id]
<1>1. lists'[l] = [list EXCEPT !.stage = "answered", !.rows = rows,
                      !.pages = TotalPage(all, list.of.size), !.current = current]
  BY DEF ServeList, TypeOK
<1>2. lists'[l].rows = rows /\ (lists'[l].current <=> current) /\ lists'[l].of = list.of
  BY <1>1 DEF TypeOK, ListType
<1>3. rows = PageOf(listed, list.kind, list.of)
  BY DEF Matching, PageOf, Held
<1>4. current /\ list.kind \in Kinds
  BY <1>2 DEF TypeOK, ListType
<1>5. PageOf(listed, list.kind, list.of) = PageOf(database, list.kind, list.of)
  BY <1>4, SamePage
<1> QED BY <1>2, <1>3, <1>5

(* A current answer, on its way or shown, stays what etcd holds, as long   *)
(* as nothing happened that the console has yet to see.                    *)
LEMMA FreshStep ==
    ASSUME TypeOK, OfItsKind, Fresh, [Next]_vars
    PROVE  Fresh'
<1> DEFINE Good(l, kind) == UnderWay(lists'[l], kind) /\ lists'[l].stage = "answered"
                               /\ lists'[l].current
                               => lists'[l].rows = PageOf(database', kind, lists'[l].of)
           Shown(kind) == /\ \A l \in ListSlots : ~UnderWay(lists'[l], kind)
                          /\ ~stale'[kind]
                          => store'[kind].rows = PageOf(database', kind, store'[kind].of)
<1> SUFFICES ASSUME NEW kind \in Kinds,
                    \A c \in CommandSlots : commands'[c].done => KindOf(commands'[c].order.id) # kind,
                    ~unseen'[kind]
             PROVE  (\A l \in ListSlots : Good(l, kind)) /\ Shown(kind)
  BY DEF Fresh, Quiet, IsFresh, Awaited
<1> DEFINE Goal == (\A l \in ListSlots : Good(l, kind)) /\ Shown(kind)
<1>1. CASE kind = Own /\ Turns
  <2>1. /\ \A l \in ListSlots : UnderWay(lists'[l], kind) => lists'[l].stage = "sent"
        /\ \E l \in ListSlots : UnderWay(lists'[l], kind)
    BY <1>1, Turned DEF Turns, Awaited
  <2> QED BY <2>1
<1>2. ASSUME NEW newPage \in Pages, Navigate(newPage), newPage = "serviceSync" \/ kind = "clusters"
      PROVE  Goal
  <2>1. /\ \A l \in ListSlots : UnderWay(lists'[l], kind) => lists'[l].stage = "sent"
        /\ \E l \in ListSlots : UnderWay(lists'[l], kind)
    BY <1>2, Navigated DEF Mounts
  <2> QED BY <2>1
<1>3. ASSUME Remains(kind), ~(kind = Own /\ Turns),
             \A newPage \in Pages :
                Navigate(newPage) => newPage # "serviceSync" /\ kind # "clusters"
      PROVE  Goal
  <2>1. /\ \A l \in ListSlots :
              UnderWay(lists[l], kind) /\ lists[l].stage = "answered" /\ lists[l].current
                 => lists[l].rows = PageOf(database, kind, lists[l].of)
        /\ (\A l \in ListSlots : ~UnderWay(lists[l], kind)) /\ ~stale[kind]
              => store[kind].rows = PageOf(database, kind, store[kind].of)
    BY <1>3 DEF Remains, Fresh, IsFresh, Awaited
  <2>2. \A of : PageOf(database', kind, of) = PageOf(database, kind, of)
    BY <1>3, SamePage DEF Remains
  <2>3. CASE Spares
    BY <2>1, <2>2, <2>3 DEF Spares
  <2>4. CASE Turns
    <3>1. kind # Own /\ UNCHANGED <<store, stale>>
      BY <1>3, <2>4 DEF Turns
    <3>2. /\ \A l \in ListSlots :
                UnderWay(lists'[l], kind) => UnderWay(lists[l], kind) /\ lists'[l] = lists[l]
          /\ \A l \in ListSlots : UnderWay(lists[l], kind) => lists'[l] = lists[l]
      BY <2>4, <3>1, Turned DEF Turns
    <3> QED BY <2>1, <2>2, <3>1, <3>2
  <2>5. ASSUME NEW newPage \in Pages, Navigate(newPage) PROVE Goal
    <3>1. newPage # "serviceSync" /\ kind = "tasks" /\ UNCHANGED <<store, stale>>
      BY <1>3, <2>5 DEF Navigate, Kinds
    <3>2. \A l \in ListSlots :
             UnderWay(lists'[l], kind) =>
                \/ lists'[l].stage = "sent"
                \/ /\ UnderWay(lists[l], kind)
                   /\ lists'[l].stage = lists[l].stage /\ lists'[l].current = lists[l].current
                   /\ lists'[l].rows = lists[l].rows /\ lists'[l].of = lists[l].of
      BY <2>5, Navigated DEF Mounts
    <3>3. \A l \in ListSlots : UnderWay(lists[l], kind) => UnderWay(lists'[l], kind)
      BY <2>5, <3>1, Navigated
    <3> QED BY <2>1, <2>2, <3>1, <3>2, <3>3
  <2>6. ASSUME NEW l \in ListSlots, ServeList(l) \/ ReadFails(l) PROVE Goal
    <3>1. /\ \A k \in ListSlots \ {l} : lists'[k] = lists[k]
          /\ UnderWay(lists'[l], kind) <=> UnderWay(lists[l], kind)
          /\ lists'[l].kind = lists[l].kind
          /\ UNCHANGED <<store, stale>>
      BY <2>6, ListChanges DEF UnderWay
    <3>2. Good(l, kind)
      <4>1. CASE ServeList(l)
        <5>1. lists'[l].current => lists'[l].rows = PageOf(database, lists[l].kind, lists'[l].of)
          BY <4>1, ServedRows
        <5> QED BY <2>2, <3>1, <5>1 DEF UnderWay
      <4>2. CASE ReadFails(l)
        <5>1. ~lists'[l].current
          BY <4>2 DEF ReadFails, TypeOK, ListType
        <5> QED BY <5>1
      <4> QED BY <2>6, <4>1, <4>2
    <3>3. \A k \in ListSlots : Good(k, kind)
      BY <2>1, <2>2, <3>1, <3>2
    <3>4. Shown(kind)
      BY <2>1, <2>2, <3>1
    <3> QED BY <3>3, <3>4
  <2>7. ASSUME NEW l \in ListSlots, ReceiveList(l) \/ LoseList(l) PROVE Goal
    <3>1. /\ \A k \in ListSlots \ {l} : lists'[k] = lists[k]
          /\ ~UnderWay(lists'[l], kind) /\ lists[l].stage # "free"
      BY <2>7, ListChanges DEF UnderWay
    <3>2. \A k \in ListSlots : Good(k, kind)
      BY <2>1, <2>2, <3>1
    <3>3. (\A k \in ListSlots : ~UnderWay(lists'[k], kind)) /\ ~UnderWay(lists[l], kind) =>
             \A k \in ListSlots : ~UnderWay(lists[k], kind)
      BY <3>1
    <3>4. CASE LoseList(l)
      <4>1. UNCHANGED store
        BY <3>4 DEF LoseList
      <4>2. ~stale'[kind] => ~stale[kind] /\ ~UnderWay(lists[l], kind)
        BY <3>4 DEF LoseList, TypeOK, UnderWay
      <4>3. Shown(kind)
        BY <2>1, <2>2, <3>3, <4>1, <4>2
      <4> QED BY <3>2, <4>3
    <3>5. CASE ReceiveList(l) /\ lists[l].kind # kind
      <4>1. /\ store'[kind] = store[kind] /\ stale'[kind] = stale[kind]
            /\ ~UnderWay(lists[l], kind)
        BY <3>5 DEF ReceiveList, TypeOK, UnderWay
      <4>2. Shown(kind)
        BY <2>1, <2>2, <3>3, <4>1
      <4> QED BY <3>2, <4>2
    <3>6. CASE ReceiveList(l) /\ lists[l].kind = kind
      <4>1. /\ store'[kind].rows = lists[l].rows /\ store'[kind].of = lists[l].of
            /\ stale'[kind] = ~(lists[l].latest /\ lists[l].current)
            /\ lists[l].stage = "answered"
        BY <3>6 DEF ReceiveList, TypeOK
      <4>2. ~stale'[kind] => UnderWay(lists[l], kind) /\ lists[l].current
        BY <3>6, <4>1 DEF UnderWay
      <4>3. Shown(kind)
        BY <2>1, <2>2, <4>1, <4>2
      <4> QED BY <3>2, <4>3
    <3> QED BY <2>7, <3>4, <3>5, <3>6
  <2> QED BY <2>3, <2>4, <2>5, <2>6, <2>7, ListSteps
<1> QED BY <1>1, <1>2, <1>3, QuietStep

(* When the console is opened, lists are awaited and none has arrived.     *)
LEMMA ListsInit == Init => OfItsKind /\ Fresh
<1> SUFFICES ASSUME Init PROVE OfItsKind /\ Fresh
  OBVIOUS
<1>0. /\ DOMAIN NoRows = {} /\ NoList.rows = NoRows
      /\ NoDialog.what # "confirm" /\ NoCommand.stage = "free"
  BY DEF NoRows, NoList, List, NoDialog, NoCommand
<1> DEFINE ls == [l \in ListSlots |-> NoList]
<1>1. ls \in [ListSlots -> ListType] /\ lists = Sent(ls, OnMount("serviceSync"))
  BY RequestTypes DEF Init
<1>2. Cardinality({l \in ListSlots : Free(ls, l)}) >= Len(OnMount("serviceSync"))
  BY RoomAtFirst
<1>3. \A l \in ListSlots : ls[l].rows = NoRows
  BY <1>0
<1> HIDE DEF ls
<1>4. \A kind \in Kinds :
         /\ \A l \in ListSlots :
               UnderWay(lists[l], kind) => Mounts(lists[l], "serviceSync", kind)
         /\ \E l \in ListSlots : UnderWay(lists[l], kind)
         /\ \A l \in ListSlots : lists[l].rows = NoRows
  BY <1>1, <1>2, <1>3, Mounted DEF Pages
<1>5. OfItsKind
  BY <1>0, <1>4 DEF Init, OfItsKind, Kinds
<1>6. Fresh
  BY <1>4 DEF Fresh, IsFresh, Awaited, Mounts
<1> QED BY <1>5, <1>6

(* The three invariants of the lists.                                      *)
Lists == OfItsKind /\ ListsFollow /\ Fresh

(* In every reachable state the lists that are awaited or shown are those  *)
(* that the mounted page needs, and a current one is what etcd holds.      *)
THEOREM ListsRight == SafeSpec => []Lists
<1>1. Init => Lists
  BY ListsInit, FollowsInit DEF Lists
<1>2. TypeOK /\ Lists /\ [Next]_vars => Lists'
  <2> SUFFICES ASSUME TypeOK, Lists, [Next]_vars PROVE Lists'
    OBVIOUS
  <2>1. OfItsKind'
    BY RowsStep, OrdersStep DEF Lists, OfItsKind
  <2>2. ListsFollow'
    BY FollowsStep DEF Lists
  <2>3. Fresh'
    BY FreshStep DEF Lists
  <2> QED BY <2>1, <2>2, <2>3 DEF Lists
<1> QED BY <1>1, <1>2, ConsoleTypeCorrect, PTL DEF SafeSpec

(* Once nothing of a kind is under way, its rows are those etcd holds for  *)
(* the request that the page needs.                                        *)
LEMMA SettledRows ==
    ASSUME TypeOK, Lists, NEW kind \in Kinds, Settled(kind)
    PROVE  /\ store[kind].rows = PageOf(database, kind, store[kind].of)
           /\ Wanted(store[kind].of, kind, page, pageNum)
           /\ kind = OwnOf(page) => ~loading
<1>1. ~Awaited(kind) /\ ~stale[kind] /\ ~unseen[kind]
  BY DEF Settled, Awaited, UnderWay
<1>2. ASSUME NEW c \in CommandSlots, commands[c].done PROVE KindOf(commands[c].order.id) # kind
  <2>1. commands[c] # NoCommand
    BY <1>2 DEF NoCommand
  <2>2. commands[c].stage # "free"
    BY <2>1 DEF TypeOK, CommandType
  <2> QED BY <2>2 DEF Settled
<1>3. Quiet(kind)
  BY <1>1, <1>2 DEF Quiet
<1> QED BY <1>1, <1>3 DEF Lists, Fresh, IsFresh, ListsFollow, ListFollows

(* Once nothing is under way, the table shows what etcd holds for the page *)
(* the pager names, without a spinner.                                     *)
THEOREM StoreShown == SafeSpec => []ShowsTheStore
<1>1. TypeOK /\ Lists => ShowsTheStore
  <2> SUFFICES ASSUME TypeOK, Lists, Settled(Own)
               PROVE  /\ ~loading
                      /\ store[Own].of.pageNum = pageNum /\ store[Own].of.size = PageSize
                      /\ store[Own].rows = PageOf(database, Own, store[Own].of)
    BY DEF ShowsTheStore, PageOf, Held
  <2>1. Own = OwnOf(page) /\ Own \in Kinds
    BY KindsOfIds DEF Own, OwnOf
  <2> QED BY <2>1, SettledRows DEF Wanted
<1> QED BY <1>1, ListsRight, ConsoleTypeCorrect, PTL

(* Once no list of clusters is under way, the page of the tasks knows the  *)
(* name of every cluster.                                                  *)
THEOREM ClustersNamed == SafeSpec => []NamesKnown
<1>1. TypeOK /\ Lists => NamesKnown
  <2> SUFFICES ASSUME TypeOK, Lists, page = "serviceSync", Settled("clusters"),
                      NEW id \in Clusters, database[id] # Absent
               PROVE  id \in Named
    BY DEF NamesKnown
  <2> DEFINE all == Held(database, "clusters", NoText)
  <2>1. /\ AllClusters.of.pageNum = 1 /\ AllClusters.of.size = Everything
        /\ AllClusters.of.text = NoText
    BY DEF AllClusters, List
  <2>2. store["clusters"].of = AllClusters.of
    BY SettledRows DEF Wanted, OwnOf, Kinds
  <2>3. store["clusters"].rows = PageOf(database, "clusters", AllClusters.of)
    BY <2>2, SettledRows DEF Kinds
  <2>4. Named = OnPage(all, 1, Everything)
    BY <2>1, <2>3 DEF Named, PageOf
  <2>5. id \in all /\ all \subseteq Clusters
    BY ConsoleAssumption DEF Held, IdsOf
  <2>6. IndexOf(all, id) \in Nat /\ IndexOf(all, id) < Everything
    <3> DEFINE earlier == {j \in all : j < id}
    <3>1. IsFiniteSet(Clusters) /\ Cardinality(Clusters) \in Nat
      <4>1. Clusters \in SUBSET Ids
        BY DEF Ids
      <4> QED BY <4>1, ConsoleAssumption, FS_Subset, FS_CardinalityType
    <3>2. earlier \in SUBSET Clusters /\ id \notin earlier /\ id \in Clusters
      BY <2>5, OrdersAssumption
    <3>3. Cardinality(earlier) \in Nat /\ Cardinality(earlier) <= Cardinality(Clusters)
          /\ Cardinality(earlier) # Cardinality(Clusters)
      <4> HIDE DEF earlier
      <4> QED BY <3>1, <3>2, FS_Subset, FS_CardinalityType
    <3>4. Cardinality(Clusters) <= Everything /\ Everything \in Nat
      BY ConsoleAssumption
    <3> QED BY <3>1, <3>3, <3>4 DEF IndexOf
  <2>7. \A i, n \in Nat : i < n => i \div n = 0
    OBVIOUS
  <2>8. IndexOf(all, id) \div Everything = 0
    BY <2>6, <2>7, ConsoleAssumption
  <2> HIDE DEF all
  <2> QED BY <2>4, <2>5, <2>8 DEF OnPage
<1> QED BY <1>1, ListsRight, ConsoleTypeCorrect, PTL
=============================================================================
