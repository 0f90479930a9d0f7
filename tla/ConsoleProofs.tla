---------------------------- MODULE ConsoleProofs ----------------------------
(***************************************************************************)
(* Proofs about Console, for any tasks, clusters, texts, page sizes and    *)
(* bounds: its types, what its dialogs wait for, and that it implements    *)
(* Commands.                                                               *)
(***************************************************************************)
EXTENDS Console, FiniteSetTheorems, TLAPS

(* A constant-level list request is well typed.                            *)
LEMMA RequestTypes ==
    /\ NoRows \in Rows
    /\ FirstPage \in Params
    /\ NoList \in ListType
    /\ AllClusters \in ListType
    /\ \A kind \in Kinds, of \in Params, mine \in BOOLEAN : List(kind, of, mine) \in ListType
<1>1. NoRows \in Rows
  BY DEF NoRows, Rows, Statuses, Absent
<1>2. FirstPage \in Params
  BY ConsoleAssumption DEF FirstPage, Params
<1>3. \A kind \in Kinds, of \in Params, mine \in BOOLEAN : List(kind, of, mine) \in ListType
  BY <1>1 DEF List, ListType
<1>4. NoList \in ListType
  BY <1>1, <1>2 DEF NoList, List, ListType, Kinds
<1>5. AllClusters \in ListType
  <2>1. [pageNum |-> 1, size |-> Everything, text |-> NoText] \in Params
    BY ConsoleAssumption DEF Params
  <2> QED BY <2>1, <1>3 DEF AllClusters, Kinds
<1> QED BY <1>1, <1>2, <1>3, <1>4, <1>5

(* Sending well typed requests keeps the requests under way well typed.    *)
LEMMA SentType ==
    ASSUME NEW ls \in [ListSlots -> ListType], NEW requests \in Seq(ListType)
    PROVE  Sent(ls, requests) \in [ListSlots -> ListType]
<1> DEFINE last(l) == ls[l].latest /\ \A i \in DOMAIN requests : requests[i].kind # ls[l].kind
<1>1. SUFFICES ASSUME NEW l \in ListSlots
               PROVE  Sent(ls, requests)[l] \in ListType
  BY DEF Sent
<1>2. ls[l] \in ListType
  OBVIOUS
<1>3. [ls[l] EXCEPT !.latest = last(l)] \in ListType
  <2>1. \A b \in BOOLEAN : [ls[l] EXCEPT !.latest = b] \in ListType
    BY <1>2 DEF ListType
  <2>2. last(l) \in BOOLEAN
    BY <1>2 DEF ListType
  <2> HIDE DEF last
  <2> QED BY <2>1, <2>2
<1>4. Place(ls, l) \in DOMAIN requests => requests[Place(ls, l)] \in ListType
  OBVIOUS
<1> QED BY <1>2, <1>3, <1>4 DEF Sent

(* One request, or three, make a sequence of requests.                     *)
LEMMA ShortSequences ==
    \A a, b, c \in ListType : <<a, b, c>> \in Seq(ListType) /\ <<a>> \in Seq(ListType)
OBVIOUS

(* What a page sends when it is mounted.                                   *)
LEMMA OnMountType == \A newPage \in Pages : OnMount(newPage) \in Seq(ListType)
<1>1. [AllClusters EXCEPT !.latest = FALSE] \in ListType
  BY RequestTypes DEF ListType
<1>2. \A kind \in Kinds : List(kind, FirstPage, TRUE) \in ListType
  BY RequestTypes
<1>4. AllClusters \in ListType /\ "tasks" \in Kinds /\ "clusters" \in Kinds
  BY RequestTypes DEF Kinds
<1>5. <<[AllClusters EXCEPT !.latest = FALSE], List("tasks", FirstPage, TRUE), AllClusters>>
         \in Seq(ListType)
  <2>1. List("tasks", FirstPage, TRUE) \in ListType
    BY <1>2, <1>4
  <2> QED BY <1>1, <1>4, <2>1, ShortSequences
<1>6. <<List("clusters", FirstPage, TRUE)>> \in Seq(ListType)
  <2>1. List("clusters", FirstPage, TRUE) \in ListType
    BY <1>2, <1>4
  <2> QED BY <2>1, ShortSequences
<1>7. SUFFICES ASSUME NEW newPage \in Pages PROVE OnMount(newPage) \in Seq(ListType)
  OBVIOUS
<1>8. CASE newPage = "serviceSync"
  BY <1>5, <1>8, Zenon DEF OnMount
<1>9. CASE newPage # "serviceSync"
  BY <1>6, <1>9, Zenon DEF OnMount
<1> QED BY <1>8, <1>9

(* turnPage() of a page that is mounted.                                   *)
LEMMA TurnPageType ==
    ASSUME TypeOK, NEW pn \in Nat \ {0}, TurnPage(pn)
    PROVE  /\ pageNum' \in Nat \ {0} /\ loading' \in BOOLEAN
           /\ lists' \in [ListSlots -> ListType]
           /\ unseen' \in [Kinds -> BOOLEAN]
<1>1. Own \in Kinds
  BY DEF Own, Kinds
<1>2. Asked(pn) \in Params
  BY ConsoleAssumption DEF Asked, Params, TypeOK
<1>3. <<List(Own, Asked(pn), TRUE)>> \in Seq(ListType)
  <2>1. List(Own, Asked(pn), TRUE) \in ListType
    BY <1>1, <1>2, RequestTypes
  <2> QED BY <2>1, ShortSequences
<1>4. lists' \in [ListSlots -> ListType]
  BY <1>3, SentType DEF TurnPage, TypeOK
<1> QED BY <1>4 DEF TurnPage, TypeOK

(* A page of a list: what ServeList answers.                               *)
LEMMA PageTypes ==
    ASSUME NEW all \in SUBSET Ids, NEW pn \in Nat \ {0}, NEW size \in Nat \ {0},
           NEW held \in Contents
    PROVE  /\ [id \in OnPage(all, pn, size) |-> held[id]] \in Rows
           /\ TotalPage(all, size) \in Nat
<1>1. OnPage(all, pn, size) \in SUBSET Ids
  BY DEF OnPage
<1>2. [id \in OnPage(all, pn, size) |-> held[id]] \in [OnPage(all, pn, size) -> Statuses]
  BY <1>1 DEF Contents
<1>5. \A id \in OnPage(all, pn, size) : held[id] \in StatusesOf(id)
  BY <1>1 DEF Contents
<1>6. [id \in OnPage(all, pn, size) |-> held[id]] \in Rows
  <2> DEFINE shown == OnPage(all, pn, size)
  <2> HIDE DEF shown
  <2>1. [id \in shown |-> held[id]] \in [shown -> Statuses] /\ shown \in SUBSET Ids
    BY <1>1, <1>2 DEF shown
  <2>2. \A id \in shown : [i \in shown |-> held[i]][id] \in StatusesOf(id)
    BY <1>5 DEF shown
  <2>3. [id \in shown |-> held[id]] \in Rows
    BY <2>1, <2>2 DEF Rows
  <2> QED BY <2>3 DEF shown
<1>3. Cardinality(all) \in Nat
  BY ConsoleAssumption, FS_Subset, FS_CardinalityType
<1>4. \A a, b \in Nat : b > 0 => (a + b - 1) \div b \in Nat
  OBVIOUS
<1>7. TotalPage(all, size) \in Nat
  BY <1>3, <1>4 DEF TotalPage
<1> QED BY <1>6, <1>7

(* The parts of TypeOK that the pages and dialogs are made of.             *)
LEMMA ListUpdates ==
    ASSUME NEW list \in ListType, NEW b \in BOOLEAN
    PROVE  /\ [list EXCEPT !.mine = b] \in ListType
           /\ [list EXCEPT !.latest = b] \in ListType
           /\ [list EXCEPT !.stage = "answered", !.current = b] \in ListType
           /\ \A rows \in Rows, pages \in Nat :
                 [list EXCEPT !.stage = "answered", !.rows = rows, !.pages = pages, !.current = b]
                    \in ListType
BY DEF ListType

(* A command that is answered, or whose page is gone, is a command still.  *)
LEMMA CommandUpdates ==
    ASSUME NEW command \in CommandType \cup {NoCommand}
    PROVE  /\ [command EXCEPT !.mine = FALSE] \in CommandType \cup {NoCommand}
           /\ command.stage # "free" =>
                 /\ command \in CommandType
                 /\ \A stage \in {"read", "ok", "rejected"}, done \in BOOLEAN :
                       [command EXCEPT !.stage = stage, !.done = done] \in CommandType
<1>1. CASE command = NoCommand
  <2>1. NoCommand.stage = "free"
    BY DEF NoCommand
  <2>2. NoCommand \in [stage : {"free"}, order : {NoOrder}, last : {FALSE}, mine : {FALSE}, done : {FALSE}]
    BY DEF NoCommand
  <2>3. [NoCommand EXCEPT !.mine = FALSE] = NoCommand
    BY <2>2
  <2> QED BY <1>1, <2>1, <2>3
<1>2. CASE command \in CommandType
  BY <1>2 DEF CommandType
<1> QED BY <1>1, <1>2

(* A gesture or a fault within its bound keeps the budget.                 *)
LEMMA BudgetUpdates ==
    ASSUME NEW used \in BudgetType
    PROVE  /\ used.clicks < MaxClicks => [used EXCEPT !.clicks = @ + 1] \in BudgetType
           /\ used.failures < MaxFailures => [used EXCEPT !.failures = @ + 1] \in BudgetType
           /\ used.unnoticed < MaxUnnoticed => [used EXCEPT !.unnoticed = @ + 1] \in BudgetType
           /\ used.others < MaxOthers => [used EXCEPT !.others = @ + 1] \in BudgetType
BY ConsoleAssumption DEF BudgetType

(* What an order stores may be stored for what it is about.                *)
LEMMA OrderTypes ==
    /\ \A order \in Order : order.id \in Ids /\ Becomes(order.what) \in StatusesOf(order.id)
    /\ \A id \in Ids : \A status \in StatusesOf(id) :
          \A what \in Buttons(status) : [what |-> what, id |-> id] \in Order
<1>1. ASSUME NEW order \in Order
      PROVE  order.id \in Ids /\ Becomes(order.what) \in StatusesOf(order.id)
  <2>1. CASE order.id \in Tasks
    BY <2>1, OrdersAssumption DEF Order, Ids, Becomes, StatusesOf, Absent
  <2>2. CASE order.id \in Clusters
    BY <2>2, OrdersAssumption DEF Order, Ids, Becomes, StatusesOf, Absent
  <2> QED BY <2>1, <2>2 DEF Order
<1>2. ASSUME NEW id \in Ids, NEW status \in StatusesOf(id), NEW what \in Buttons(status)
      PROVE  [what |-> what, id |-> id] \in Order
  <2>1. CASE id \in Tasks
    BY <1>2, <2>1 DEF StatusesOf, Buttons, Order, Absent
  <2>2. CASE id \notin Tasks
    BY <1>2, <2>2 DEF StatusesOf, Buttons, Order, Absent, Ids
  <2> QED BY <2>1, <2>2
<1> QED BY <1>1, <1>2

(* A dialog that asks, or that waits, is one of confirmation.              *)
LEMMA DialogCases ==
    ASSUME NEW open \in DialogType, open.what = "confirm" \/ open.slot # 0
    PROVE  open \in [what : {"confirm"}, order : Order, last : BOOLEAN, slot : CommandSlots \cup {0}]
<1>1. NoDialog.what = "none" /\ NoDialog.slot = 0 /\ AddForm.what = "add" /\ AddForm.slot = 0
  BY DEF NoDialog, AddForm
<1>2. open # NoDialog /\ open # AddForm
  BY <1>1
<1>3. open \notin [what : {"add"}, order : Order, last : {FALSE}, slot : {0}]
  OBVIOUS
<1> QED BY <1>2, <1>3 DEF DialogType

(* No dialog, an empty form and a free slot are well typed.                *)
LEMMA ConstantTypes ==
    /\ NoDialog \in DialogType /\ AddForm \in DialogType
    /\ NoCommand \in CommandType \cup {NoCommand}
BY DEF DialogType, NoDialog, AddForm

(* The server works on a command, or its connection is lost.               *)
ServerStep(c) == Read(c) \/ ReadNothing(c) \/ Execute(c) \/ Break(c) \/ LoseCommand(c)

(* Such a step moves the command on, and changes nothing of the browser.   *)
LEMMA ServerSteps ==
    ASSUME TypeOK, NEW c \in CommandSlots, ServerStep(c)
    PROVE  /\ commands[c] \in CommandType
           /\ \E stage \in {"read", "ok", "rejected"}, done \in BOOLEAN : Moves(c, stage, done)
           /\ commands' \in [CommandSlots -> CommandType \cup {NoCommand}]
           /\ database' \in Contents /\ budget' \in BudgetType
           /\ UNCHANGED <<listed, ui, store, lists, message, stale, unseen>>
<1>1. commands[c] \in CommandType
  BY CommandUpdates DEF ServerStep, Read, ReadNothing, Execute, Writes, Break, LoseCommand, TypeOK
<1>2. \A success \in BOOLEAN, code \in {"SUCCESS", "SYSTEM_ERROR"} :
         Outcome(success, code) \in {"read", "ok", "rejected"}
  BY DEF Outcome
<1>3. \E stage \in {"read", "ok", "rejected"}, done \in BOOLEAN : Moves(c, stage, done)
  <2>1. commands[c].done \in BOOLEAN
    BY <1>1 DEF CommandType
  <2>2. CASE Read(c)
    BY <2>2, <1>2 DEF Read
  <2>3. CASE ReadNothing(c)
    BY <2>3, <1>2 DEF ReadNothing
  <2>4. CASE Execute(c)
    BY <2>4, <1>2 DEF Execute
  <2>5. CASE Break(c)
    BY <2>5, <1>2 DEF Break
  <2>6. CASE LoseCommand(c)
    BY <2>1, <2>6 DEF LoseCommand
  <2> QED BY <2>2, <2>3, <2>4, <2>5, <2>6 DEF ServerStep
<1>4. commands' \in [CommandSlots -> CommandType \cup {NoCommand}]
  <2>1. PICK stage \in {"read", "ok", "rejected"}, done \in BOOLEAN : Moves(c, stage, done)
    BY <1>3
  <2>2. commands[c].stage # "free"
    BY <1>1 DEF CommandType
  <2>3. [commands[c] EXCEPT !.stage = stage, !.done = done] \in CommandType
    BY <1>1, <2>2, CommandUpdates
  <2> QED BY <2>1, <2>3 DEF Moves, TypeOK
<1>5. budget' \in BudgetType
  BY BudgetUpdates DEF ServerStep, Read, ReadNothing, Execute, Break, LoseCommand, Unnoticed,
                       Failure, TypeOK
<1>6. database' \in Contents
  <2> DEFINE order == commands[c].order
  <2>1. order \in Order
    BY <1>1 DEF CommandType
  <2>2. Becomes(order.what) \in StatusesOf(order.id) /\ order.id \in Ids
    BY <2>1, OrderTypes
  <2>3. Becomes(order.what) \in Statuses
    BY DEF Becomes, Statuses, Absent
  <2>4. database' = database \/ database' = [database EXCEPT ![order.id] = Becomes(order.what)]
    BY DEF ServerStep, Read, ReadNothing, Execute, Break, LoseCommand
  <2> QED BY <2>2, <2>3, <2>4 DEF TypeOK, Contents
<1>7. UNCHANGED <<listed, ui, store, lists, message, stale, unseen>>
  BY DEF ServerStep, Read, ReadNothing, Execute, Break, LoseCommand
<1> QED BY <1>1, <1>3, <1>4, <1>5, <1>6, <1>7

(* Every reachable state of the console is well typed, for any tasks,      *)
(* clusters, texts, page sizes and bounds.                                 *)
THEOREM ConsoleTypeCorrect == SafeSpec => []TypeOK
<1>1. Init => TypeOK
  <2> SUFFICES ASSUME Init PROVE TypeOK
    OBVIOUS
  <2>1. lists \in [ListSlots -> ListType]
    <3>1. [l \in ListSlots |-> NoList] \in [ListSlots -> ListType]
      BY RequestTypes
    <3> QED BY <3>1, SentType, OnMountType DEF Init, Pages
  <2>2. store \in [Kinds -> [rows : Rows, pages : Nat, of : Params]]
    BY RequestTypes DEF Init
  <2>3. budget \in BudgetType
    BY ConsoleAssumption DEF Init, BudgetType
  <2> QED BY <2>1, <2>2, <2>3, ConsoleAssumption, ConstantTypes DEF Init, TypeOK, Pages
<1>2. TypeOK /\ [Next]_vars => TypeOK'
  <2> SUFFICES ASSUME TypeOK, [Next]_vars PROVE TypeOK'
    OBVIOUS
  <2> USE ConsoleAssumption
  <2>1. ASSUME NEW newPage \in Pages, Navigate(newPage) PROVE TypeOK'
    <3>1. [l \in ListSlots |-> [lists[l] EXCEPT !.mine = FALSE]] \in [ListSlots -> ListType]
      BY ListUpdates DEF TypeOK
    <3>2. lists' \in [ListSlots -> ListType]
      BY <2>1, <3>1, SentType, OnMountType DEF Navigate
    <3>3. commands' \in [CommandSlots -> CommandType \cup {NoCommand}]
      BY <2>1, CommandUpdates DEF Navigate, TypeOK
    <3>4. unseen' \in [Kinds -> BOOLEAN]
      BY <2>1 DEF Navigate, TypeOK
    <3>5. budget' \in BudgetType
      BY <2>1, BudgetUpdates DEF Navigate, Click, TypeOK
    <3> QED BY <2>1, <3>2, <3>3, <3>4, <3>5 DEF Navigate, TypeOK
  <2>c. Click => budget' \in BudgetType
    BY BudgetUpdates DEF Click, TypeOK
  <2>f. Failure => budget' \in BudgetType
    BY BudgetUpdates DEF Failure, TypeOK
  <2>2. ASSUME NEW pn \in 1 .. Cardinality(Ids), PagerClick(pn) PROVE TypeOK'
    <3>1. pn \in Nat \ {0}
      BY FS_CardinalityType
    <3> QED BY <2>2, <2>c, <3>1, TurnPageType DEF PagerClick, TypeOK, Own
  <2>3. ASSUME NEW text \in Texts, Type(text) PROVE TypeOK'
    BY <2>3, <2>c DEF Type, TypeOK, Own
  <2>4. CASE SearchClick
    BY <2>4, <2>c, TurnPageType DEF SearchClick, TypeOK, Own
  <2>5. ASSUME NEW c \in CommandSlots, NEW order \in Order, NEW last \in BOOLEAN,
               Give(c, order, last)
        PROVE  commands' \in [CommandSlots -> CommandType \cup {NoCommand}]
    BY <2>5 DEF Give, TypeOK, CommandType
  <2>6. ASSUME NEW c \in CommandSlots, NEW id \in Tasks, Resume(c, id) PROVE TypeOK'
    <3>1. [what |-> "resume", id |-> id] \in Order
      BY DEF Order
    <3>2. commands' \in [CommandSlots -> CommandType \cup {NoCommand}]
      BY <2>5, <2>6, <3>1 DEF Resume
    <3>3. budget' \in BudgetType
      BY <2>6, <2>c DEF Resume, RowClick
    <3> QED BY <2>6, <3>2, <3>3 DEF Resume, ui, TypeOK, Own
  <2>7. ASSUME NEW c \in CommandSlots, PressOk(c) PROVE TypeOK'
    <3>1. dialog \in [what : {"confirm"}, order : Order, last : BOOLEAN, slot : CommandSlots \cup {0}]
      BY <2>7, DialogCases DEF PressOk, TypeOK
    <3>2. dialog.order \in Order /\ dialog.last \in BOOLEAN /\ dialog' \in DialogType
      BY <2>7, <3>1 DEF PressOk, DialogType
    <3>3. commands' \in [CommandSlots -> CommandType \cup {NoCommand}]
      BY <2>5, <2>7, <3>2 DEF PressOk
    <3> QED BY <2>7, <3>2, <3>3 DEF PressOk, TypeOK, Own
  <2>8. ASSUME NEW c \in CommandSlots, Save(c) PROVE TypeOK'
    <3>1. kept \in IdsOf(Own)
      BY <2>8 DEF Save, TypeOK
    <3>2. AddOrder(kept) \in Order
      BY <3>1 DEF AddOrder, Own, IdsOf, Order
    <3>3. commands' \in [CommandSlots -> CommandType \cup {NoCommand}]
      BY <2>5, <2>8, <3>2 DEF Save
    <3> QED BY <2>8, <2>c, <3>3 DEF Save, ui, TypeOK, Own
  <2>9. ASSUME NEW id \in Ids, NEW what \in {"suspend", "deleteTask", "deleteCluster"},
               Confirm(id, what)
        PROVE  TypeOK'
    <3>1. store[Own].rows[id] \in StatusesOf(id) /\ what \in Buttons(store[Own].rows[id])
      BY <2>9 DEF Confirm, RowClick, TypeOK, Rows, Own, Kinds
    <3>2. [what |-> what, id |-> id] \in Order
      BY <3>1, OrderTypes
    <3>3. dialog' \in DialogType
      BY <2>9, <3>2 DEF Confirm, DialogType
    <3>4. budget' \in BudgetType
      BY <2>9, <2>c DEF Confirm, RowClick
    <3> QED BY <2>9, <3>3, <3>4 DEF Confirm, TypeOK, Own
  <2>10. CASE Cancel
    BY <2>10, ConstantTypes DEF Cancel, TypeOK, Own
  <2>11. CASE OpenAdd
    BY <2>11, ConstantTypes DEF OpenAdd, TypeOK, Own
  <2>12. CASE SaveEmpty
    BY <2>12, <2>c, ConstantTypes DEF SaveEmpty, TypeOK, Own
  <2>13. ASSUME NEW id \in Ids, Fill(id) PROVE TypeOK'
    <3>1. AddOrder(id) \in Order
      BY <2>13 DEF Fill, FillTask, FillCluster, AddOrder, Own, Order
    <3>2. dialog' \in DialogType
      BY <2>13, <3>1 DEF Fill, AddForm, NoDialog, DialogType
    <3> QED BY <2>13, <2>c, <3>2 DEF Fill, FillTask, FillCluster, TypeOK, Own, IdsOf
  <2>14. ASSUME NEW c \in CommandSlots, ServerStep(c) PROVE TypeOK'
    <3>1. /\ commands' \in [CommandSlots -> CommandType \cup {NoCommand}]
          /\ database' \in Contents /\ budget' \in BudgetType
          /\ UNCHANGED <<listed, ui, store, lists, message, stale, unseen>>
      BY <2>14, ServerSteps
    <3> QED BY <3>1 DEF ui, TypeOK, Own
  <2>17. ASSUME NEW l \in ListSlots, ServeList(l) PROVE TypeOK'
    <3> DEFINE list == lists[l]
               all == Matching(list.kind, list.of.text)
               rows == [id \in OnPage(all, list.of.pageNum, list.of.size) |-> listed[id]]
               pages == TotalPage(all, list.of.size)
               current == \A id \in IdsOf(list.kind) : listed[id] = database[id]
    <3>1. all \in SUBSET Ids
      BY DEF Matching, IdsOf, Ids
    <3>2. list \in ListType /\ list.of.pageNum \in Nat \ {0} /\ list.of.size \in Nat \ {0}
      BY DEF TypeOK, ListType, Params
    <3>3. rows \in Rows /\ pages \in Nat
      BY <3>1, <3>2, PageTypes DEF TypeOK
    <3>4. lists' = [lists EXCEPT ![l] =
             [list EXCEPT !.stage = "answered", !.rows = rows, !.pages = pages, !.current = current]]
      BY <2>17 DEF ServeList
    <3>5. current \in BOOLEAN
      OBVIOUS
    <3> HIDE DEF rows, pages, current
    <3>6. [list EXCEPT !.stage = "answered", !.rows = rows, !.pages = pages, !.current = current]
             \in ListType
      BY <3>2, <3>3, <3>5, ListUpdates
    <3>7. lists' \in [ListSlots -> ListType]
      BY <3>4, <3>6 DEF TypeOK
    <3> QED BY <2>17, <3>7 DEF ServeList, ui, TypeOK, Own
  <2>18. ASSUME NEW l \in ListSlots, ReadFails(l) PROVE TypeOK'
    <3>1. [lists[l] EXCEPT !.stage = "answered", !.current = FALSE] \in ListType
      BY ListUpdates DEF TypeOK
    <3> QED BY <2>18, <2>f, <3>1 DEF ReadFails, ui, TypeOK, Own
  <2>19. ASSUME NEW kind \in Kinds, Refresh(kind) PROVE TypeOK'
    BY <2>19 DEF Refresh, ui, TypeOK, Contents, Own
  <2>20. ASSUME NEW id \in Foreign, NEW status \in Statuses, Others(id, status) PROVE TypeOK'
    <3>1. budget' \in BudgetType
      BY <2>20, BudgetUpdates DEF Others, TypeOK
    <3>2. database' \in Contents
      BY <2>20 DEF Others, TypeOK, Contents
    <3> QED BY <2>20, <3>1, <3>2 DEF Others, ui, TypeOK, Own
  <2>21. ASSUME NEW l \in ListSlots, ReceiveList(l) PROVE TypeOK'
    BY <2>21, RequestTypes DEF ReceiveList, TypeOK, ListType, Own
  <2>22. ASSUME NEW l \in ListSlots, LoseList(l) PROVE TypeOK'
    <3>1. lists' \in [ListSlots -> ListType]
      BY <2>22, RequestTypes DEF LoseList, TypeOK
    <3>2. stale' \in [Kinds -> BOOLEAN]
      BY <2>22 DEF LoseList, TypeOK, ListType
    <3> QED BY <2>22, <2>f, <3>1, <3>2 DEF LoseList, ui, TypeOK, Own
  <2>23. ASSUME NEW c \in CommandSlots
         PROVE  AfterFailure(c) \in DialogType /\ AfterSuccess(c) \in DialogType
    <3>1. ASSUME dialog.slot = c PROVE [dialog EXCEPT !.slot = 0] \in DialogType
      <4>1. dialog \in [what : {"confirm"}, order : Order, last : BOOLEAN,
                        slot : CommandSlots \cup {0}]
        BY <3>1, DialogCases DEF TypeOK, CommandSlots
      <4> QED BY <4>1 DEF DialogType
    <3> QED BY <3>1, ConstantTypes DEF AfterFailure, AfterSuccess, TypeOK
  <2>24. ASSUME NEW c \in CommandSlots, commands[c].stage # "free",
                commands' = [commands EXCEPT ![c] = NoCommand]
         PROVE  /\ commands' \in [CommandSlots -> CommandType \cup {NoCommand}]
                /\ commands[c].order \in Order /\ commands[c].done \in BOOLEAN
    <3>1. commands[c] \in CommandType
      BY <2>24, CommandUpdates DEF TypeOK
    <3> QED BY <2>24, <3>1 DEF TypeOK, CommandType
  <2>25. ASSUME NEW c \in CommandSlots, Succeed(c) PROVE TypeOK'
    <3>1. PageAfter(commands[c]) \in Nat \ {0}
      BY DEF PageAfter, TypeOK
    <3>2. /\ commands' \in [CommandSlots -> CommandType \cup {NoCommand}]
          /\ commands[c].order \in Order /\ commands[c].done \in BOOLEAN
      BY <2>24, <2>25 DEF Succeed
    <3>3. message' \in [order : Order \cup {NoOrder}, done : BOOLEAN]
      BY <2>25, <3>2 DEF Succeed, TypeOK
    <3>4. dialog' \in DialogType
      BY <2>23, <2>25 DEF Succeed
    <3>5. /\ pageNum' \in Nat \ {0} /\ loading' \in BOOLEAN
          /\ lists' \in [ListSlots -> ListType]
          /\ unseen' \in [Kinds -> BOOLEAN]
      <4>1. CASE TurnPage(PageAfter(commands[c]))
        BY <3>1, <4>1, TurnPageType
      <4>2. CASE ~TurnPage(PageAfter(commands[c]))
        BY <2>25, <4>2 DEF Succeed, TypeOK
      <4> QED BY <4>1, <4>2
    <3> QED BY <2>25, <3>2, <3>3, <3>4, <3>5 DEF Succeed, TypeOK, Own
  <2>26. ASSUME NEW c \in CommandSlots, Reject(c) PROVE TypeOK'
    <3>1. /\ commands' \in [CommandSlots -> CommandType \cup {NoCommand}]
          /\ commands[c].order \in Order /\ commands[c].done \in BOOLEAN
      BY <2>24, <2>26 DEF Reject
    <3>2. dialog' \in DialogType
      BY <2>23, <2>26 DEF Reject
    <3>3. unseen' \in [Kinds -> BOOLEAN]
      BY <2>26, <3>1 DEF Reject, TypeOK
    <3> QED BY <2>26, <3>1, <3>2, <3>3 DEF Reject, TypeOK, Own
  <2>27. CASE UNCHANGED vars
    BY <2>27 DEF vars, ui, TypeOK, Own
  <2> QED
    BY <2>1, <2>2, <2>3, <2>4, <2>6, <2>7, <2>8, <2>9, <2>10, <2>11, <2>12, <2>13, <2>14,
       <2>17, <2>18, <2>19, <2>20, <2>21, <2>22, <2>25, <2>26, <2>27
       DEF Next, Gesture, Server, Answer, ServerStep
<1> QED BY <1>1, <1>2, PTL DEF SafeSpec

(* The steps that matter to commands, dialogs and what is stored.          *)
Gives(c, order) ==
    /\ \E last \in BOOLEAN : Give(c, order, last)
    /\ \/ UNCHANGED dialog
       \/ dialog.slot = 0 /\ dialog.order = order /\ dialog' = [dialog EXCEPT !.slot = c]
    /\ UNCHANGED <<database, message, budget.unnoticed>>
Keeps == UNCHANGED <<database, commands, message, budget.unnoticed>>

(* Each step keeps commands, store and message, but for a navigation, a    *)
(* command given, served, lost, or answered, and the others.               *)
LEMMA Steps ==
    ASSUME TypeOK, [Next]_vars
    PROVE  \/ Keeps /\ (UNCHANGED dialog \/ dialog'.slot = 0)
           \/ \E newPage \in Pages : Navigate(newPage)
           \/ \E c \in CommandSlots, order \in Order : Gives(c, order)
           \/ \E c \in CommandSlots :
                 ServerStep(c) \/ Succeed(c) \/ Reject(c)
           \/ \E id \in Ids, status \in Statuses : Others(id, status)
<1>1. NoDialog.slot = 0 /\ AddForm.slot = 0 /\ \A order \in Order : [AddForm EXCEPT !.order = order].slot = 0
  BY DEF NoDialog, AddForm
<1>0. Click \/ Failure => UNCHANGED budget.unnoticed
  BY DEF Click, Failure, TypeOK, BudgetType
<1>2. ASSUME NEW c \in CommandSlots, NEW id \in Tasks, Resume(c, id)
      PROVE  \E order \in Order : Gives(c, order)
  <2>1. [what |-> "resume", id |-> id] \in Order
    BY DEF Order
  <2> QED BY <1>0, <1>2, <2>1 DEF Resume, RowClick, Gives, ui
<1>3. ASSUME NEW c \in CommandSlots, PressOk(c) PROVE \E order \in Order : Gives(c, order)
  <2>1. dialog.order \in Order /\ dialog.last \in BOOLEAN
    BY <1>3, DialogCases DEF PressOk, TypeOK
  <2> QED BY <1>3, <2>1 DEF PressOk, Gives
<1>4. ASSUME NEW c \in CommandSlots, Save(c) PROVE \E order \in Order : Gives(c, order)
  <2>1. AddOrder(kept) \in Order
    <3>1. kept \in IdsOf(Own)
      BY <1>4 DEF Save, TypeOK
    <3> QED BY <3>1 DEF AddOrder, Own, IdsOf, Order
  <2> QED BY <1>0, <1>4, <2>1 DEF Save, Gives, ui
<1>5. ASSUME NEW id \in Ids, Fill(id) PROVE Keeps /\ dialog'.slot = 0
  <2>1. AddOrder(id) \in Order
    BY <1>5 DEF Fill, FillTask, FillCluster, AddOrder, Own, Order
  <2> QED BY <1>0, <1>1, <1>5, <2>1 DEF Fill, Keeps
<1>6. ASSUME NEW id \in Ids, NEW what \in {"suspend", "deleteTask", "deleteCluster"},
             Confirm(id, what)
      PROVE  Keeps /\ dialog'.slot = 0
  BY <1>0, <1>6 DEF Confirm, RowClick, Keeps
<1>7. (Cancel \/ OpenAdd \/ SaveEmpty) => Keeps /\ dialog'.slot = 0
  BY <1>0, <1>1 DEF Cancel, OpenAdd, SaveEmpty, Keeps
<1>8. ASSUME \/ \E pn \in 1 .. Cardinality(Ids) : PagerClick(pn)
             \/ \E text \in Texts : Type(text)
             \/ SearchClick
             \/ \E l \in ListSlots : ServeList(l) \/ ReadFails(l) \/ ReceiveList(l) \/ LoseList(l)
             \/ \E kind \in Kinds : Refresh(kind)
             \/ UNCHANGED vars
      PROVE  Keeps /\ UNCHANGED dialog
  BY <1>0, <1>8 DEF PagerClick, Type, SearchClick, ServeList, ReadFails, ReceiveList, LoseList,
              Refresh, vars, ui, Keeps
<1>9. \A id \in Foreign : id \in Ids
  BY ConsoleAssumption
<1> QED BY <1>2, <1>3, <1>4, <1>5, <1>6, <1>7, <1>8, <1>9
        DEF Next, Gesture, Server, Answer, ServerStep

(* A dialog that waits, waits for its own command.                         *)
THEOREM DialogsWait == SafeSpec => []WaitsForItsCommand
<1>1. Init => WaitsForItsCommand
  BY DEF Init, WaitsForItsCommand, NoDialog
<1>2. TypeOK /\ TypeOK' /\ WaitsForItsCommand /\ [Next]_vars => WaitsForItsCommand'
  <2> SUFFICES ASSUME TypeOK, TypeOK', WaitsForItsCommand, [Next]_vars, dialog'.slot # 0
               PROVE  /\ commands'[dialog'.slot].stage # "free"
                      /\ commands'[dialog'.slot].order = dialog'.order
    BY DEF WaitsForItsCommand
  <2>1. dialog'.slot \in CommandSlots
    BY DialogCases DEF TypeOK
  <2>2. CASE Keeps /\ (UNCHANGED dialog \/ dialog'.slot = 0)
    BY <2>2 DEF Keeps, WaitsForItsCommand
  <2>3. ASSUME NEW newPage \in Pages, Navigate(newPage) PROVE FALSE
    <3>1. dialog.what = "none" /\ dialog' = dialog
      BY <2>3 DEF Navigate, Unmasked
    <3> QED BY <3>1, DialogCases DEF TypeOK
  <2>4. ASSUME NEW c \in CommandSlots, NEW order \in Order, Gives(c, order)
        PROVE  /\ commands'[dialog'.slot].stage # "free"
               /\ commands'[dialog'.slot].order = dialog'.order
    <3>1. /\ commands[c].stage = "free"
          /\ commands'[c].stage = "sent" /\ commands'[c].order = order
          /\ \A d \in CommandSlots \ {c} : commands'[d] = commands[d]
      BY <2>4 DEF Gives, Give, TypeOK
    <3>2. CASE UNCHANGED dialog
      BY <2>1, <3>1, <3>2 DEF WaitsForItsCommand
    <3>3. CASE dialog.slot = 0 /\ dialog.order = order /\ dialog' = [dialog EXCEPT !.slot = c]
      <4>1. dialog'.slot = c /\ dialog'.order = order
        <5>1. dialog \in DialogType
          BY DEF TypeOK
        <5> QED BY <3>3, <5>1 DEF DialogType, NoDialog, AddForm
      <4> QED BY <3>1, <4>1
    <3> QED BY <2>4, <3>2, <3>3 DEF Gives
  <2>5. ASSUME NEW c \in CommandSlots, ServerStep(c)
        PROVE  /\ commands'[dialog'.slot].stage # "free"
               /\ commands'[dialog'.slot].order = dialog'.order
    <3>1. UNCHANGED dialog
      BY <2>5, ServerSteps DEF ui
    <3>2. PICK stage \in {"read", "ok", "rejected"}, done \in BOOLEAN : Moves(c, stage, done)
      BY <2>5, ServerSteps
    <3>3. commands[c] \in CommandType
      BY <2>5, ServerSteps
    <3>4. \A d \in CommandSlots : /\ commands'[d].order = commands[d].order
                                  /\ commands[d].stage # "free" => commands'[d].stage # "free"
      BY <3>2, <3>3 DEF Moves, TypeOK, CommandType
    <3> QED BY <2>1, <3>1, <3>4 DEF WaitsForItsCommand
  <2>6. ASSUME NEW c \in CommandSlots, Succeed(c) \/ Reject(c)
        PROVE  /\ commands'[dialog'.slot].stage # "free"
               /\ commands'[dialog'.slot].order = dialog'.order
    <3>1. dialog' = AfterSuccess(c) \/ dialog' = AfterFailure(c)
      BY <2>6 DEF Succeed, Reject
    <3>2. NoDialog.slot = 0 /\ [dialog EXCEPT !.slot = 0].slot = 0
      <4>1. dialog \in DialogType
        BY DEF TypeOK
      <4> QED BY <4>1 DEF DialogType, NoDialog, AddForm
    <3>3. dialog' = dialog /\ dialog.slot # c
      BY <3>1, <3>2 DEF AfterSuccess, AfterFailure
    <3>4. \A d \in CommandSlots \ {c} : commands'[d] = commands[d]
      BY <2>6 DEF Succeed, Reject, TypeOK
    <3> QED BY <2>1, <3>3, <3>4 DEF WaitsForItsCommand
  <2>7. ASSUME NEW id \in Ids, NEW status \in Statuses, Others(id, status)
        PROVE  UNCHANGED <<commands, dialog>>
    BY <2>7 DEF Others, ui
  <2> QED BY <2>2, <2>3, <2>4, <2>5, <2>6, <2>7, Steps DEF WaitsForItsCommand
<1> QED BY <1>1, <1>2, ConsoleTypeCorrect, PTL DEF SafeSpec

(* What Commands sees of the slots.                                        *)
AllPending == [c \in CommandSlots |-> Pending(c)]

(* Commands speaks of the same orders and contents.                        *)
LEMMA SameWords ==
    /\ Promise!NotPending = [order |-> NoOrder, state |-> "none"] /\ Promise!NoOrder = NoOrder
    /\ Promise!Order = Order /\ Promise!Ids = Ids /\ Promise!Statuses = Statuses
    /\ Promise!Absent = Absent
    /\ \A what : Promise!Effect(what) = Becomes(what)
    /\ \A order : Promise!Deletes(order) = Deletes(order)
<1>1. Promise!Order = Order /\ Promise!Ids = Ids /\ Promise!Statuses = Statuses
  BY DEF Promise!Order, Order, Promise!Ids, Ids, Promise!Statuses, Statuses, Promise!Absent, Absent
<1>2. /\ Promise!NotPending = [order |-> NoOrder, state |-> "none"] /\ Promise!NoOrder = NoOrder
      /\ Promise!Absent = Absent
  BY DEF Promise!NotPending, Promise!NoOrder, NoOrder, Promise!Absent, Absent
<1>3. \A what : Promise!Effect(what) = Becomes(what)
  BY DEF Promise!Effect, Becomes, Promise!Absent, Absent
<1>4. \A order : Promise!Deletes(order) = Deletes(order)
  BY DEF Promise!Deletes, Deletes
<1> QED BY <1>1, <1>2, <1>3, <1>4

(* A step that changes no command but that of slot c.                      *)
LEMMA PendingChange ==
    ASSUME TypeOK, NEW c \in CommandSlots, NEW command,
           commands' = [commands EXCEPT ![c] = command]
    PROVE  AllPending' = [AllPending EXCEPT
              ![c] = [order |-> command.order, state |-> State(command.stage, command.done)]]
BY DEF AllPending, Pending, TypeOK

(* A command that moves in Console moves in Commands.                      *)
LEMMA PendingMoves ==
    ASSUME TypeOK, NEW c \in CommandSlots, commands[c] \in CommandType,
           NEW stage \in {"read", "ok", "rejected"}, NEW done \in BOOLEAN, Moves(c, stage, done)
    PROVE  Promise!Moves(c, commands[c].order, State(commands[c].stage, commands[c].done),
                         State(stage, done))
<1> DEFINE command == [commands[c] EXCEPT !.stage = stage, !.done = done]
           from == State(commands[c].stage, commands[c].done)
           to == State(stage, done)
<1>1. command.order = commands[c].order /\ command.stage = stage /\ command.done = done
  BY DEF CommandType
<1>2. commands' = [commands EXCEPT ![c] = command]
  BY DEF Moves
<1>3. AllPending[c] = [order |-> commands[c].order, state |-> from]
  BY DEF AllPending, Pending
<1> HIDE DEF command
<1>4. AllPending' = [AllPending EXCEPT ![c] = [order |-> command.order, state |-> State(command.stage, command.done)]]
  BY <1>2, PendingChange
<1>5. AllPending' = [AllPending EXCEPT ![c] = [order |-> commands[c].order, state |-> to]]
  BY <1>1, <1>4
<1> HIDE DEF from, to
<1>6. Promise!Moves(c, commands[c].order, from, to)
  BY <1>3, <1>5 DEF Promise!Moves, AllPending
<1> QED BY <1>6 DEF from, to

(* What Commands sees of each stage.                                       *)
LEMMA States ==
    /\ \A done : /\ State("sent", done) = "given" /\ State("read", done) = "found"
                 /\ State("rejected", done) = "refused"
    /\ State("ok", TRUE) = "executed" /\ State("ok", FALSE) = "failed"
    /\ State("free", FALSE) = "none"
    /\ Outcome(TRUE, "SUCCESS") = "ok" /\ Outcome(FALSE, "SUCCESS") = "ok"
    /\ Outcome(FALSE, "SYSTEM_ERROR") = "rejected"
BY DEF State, Outcome

(* What the server does to a command is a step of Commands.                *)
LEMMA ServerImplements ==
    ASSUME TypeOK, NEW c \in CommandSlots, ServerStep(c)
    PROVE  \E order \in Order :
              \/ Promise!Find(c, order) \/ Promise!FindDone(c, order) \/ Promise!Execute(c, order)
              \/ Promise!FailUntold(c, order) \/ Promise!Refuse(c, order)
<1> DEFINE order == commands[c].order
           Step == \/ Promise!Find(c, order) \/ Promise!FindDone(c, order)
                   \/ Promise!Execute(c, order) \/ Promise!FailUntold(c, order)
                   \/ Promise!Refuse(c, order)
           Move(stage, done) ==
              Promise!Moves(c, order, State(commands[c].stage, commands[c].done), State(stage, done))
<1>1. commands[c] \in CommandType /\ order \in Order
  BY ServerSteps DEF CommandType
<1>2. \A stage \in {"read", "ok", "rejected"}, done \in BOOLEAN :
         Moves(c, stage, done) => Move(stage, done)
  BY <1>1, PendingMoves
<1>3. UNCHANGED message.order
  BY ServerSteps
<1>4. commands[c].stage = "sent" => State(commands[c].stage, commands[c].done) = "given"
  BY States
<1>5. Failure => UNCHANGED budget.unnoticed
  BY DEF Failure, TypeOK, BudgetType
<1>6. Unnoticed => budget'.unnoticed = budget.unnoticed + 1
  BY DEF Unnoticed, TypeOK, BudgetType
<1> SUFFICES Step
  BY <1>1
<1> DEFINE Bring(from, to) == Promise!Moves(c, order, from, to)
<1>7. ASSUME Moves(c, "rejected", FALSE), commands[c].stage = "sent",
             UNCHANGED <<database, budget.unnoticed>>
      PROVE  Promise!Refuse(c, order)
  <2>1. Bring("given", "refused")
    BY <1>2, <1>4, <1>7, States
  <2> QED BY <1>3, <1>7, <2>1 DEF Promise!Refuse
<1>8. ASSUME Moves(c, "read", FALSE), commands[c].stage = "sent",
             UNCHANGED <<database, budget.unnoticed>>,
             Promise!ChangesStatus(order) => database[order.id] # Promise!Absent
      PROVE  Promise!Find(c, order)
  <2>1. Bring("given", "found")
    BY <1>2, <1>4, <1>8, States
  <2> QED BY <1>3, <1>8, <2>1 DEF Promise!Find
<1>9. ASSUME Moves(c, "ok", FALSE), commands[c].stage \in {"sent", "read"}, UNCHANGED database,
             Unnoticed
      PROVE  Promise!FailUntold(c, order)
  <2>1. Bring("given", "failed") \/ Bring("found", "failed")
    BY <1>2, <1>9, States
  <2> QED BY <1>3, <1>6, <1>9, <2>1 DEF Promise!FailUntold
<1>10. CASE Read(c)
  <2> DEFINE Same == UNCHANGED <<database, budget.unnoticed>>
  <2>1. Same /\ commands[c].stage = "sent"
    BY <1>10 DEF Read
  <2>2. CASE ~Accepts(order) /\ Moves(c, "rejected", FALSE)
    BY <1>7, <2>1, <2>2
  <2>3. CASE database[order.id] = Becomes(order.what) /\ Moves(c, "ok", TRUE)
    <3>1. Bring("given", "executed")
      BY <1>2, <1>4, <2>1, <2>3, States
    <3> QED BY <1>3, <2>1, <2>3, <3>1, SameWords DEF Promise!FindDone
  <2>4. CASE Accepts(order) /\ Moves(c, "read", FALSE)
    <3>1. Promise!ChangesStatus(order) => database[order.id] # Promise!Absent
      BY <2>4, SameWords DEF Promise!ChangesStatus, Accepts
    <3> QED BY <1>8, <2>1, <2>4, <3>1
  <2> QED BY <1>10, <2>2, <2>3, <2>4, States DEF Read
<1>11. CASE ReadNothing(c)
  <2>1. UNCHANGED <<database, budget.unnoticed>> /\ commands[c].stage = "sent"
    BY <1>5, <1>11 DEF ReadNothing
  <2>2. CASE Moves(c, "rejected", FALSE)
    BY <1>7, <2>1, <2>2
  <2>3. CASE order.what \in {"addCluster", "addTask"} /\ Moves(c, "read", FALSE)
    BY <1>8, <2>1, <2>3 DEF Promise!ChangesStatus
  <2> QED BY <1>11, <2>2, <2>3, States DEF ReadNothing
<1>12. CASE Execute(c)
  <2>1. CASE /\ database' = [database EXCEPT ![order.id] = Becomes(order.what)]
             /\ Moves(c, "ok", TRUE)
             /\ UNCHANGED budget
    <3>1. \/ Bring("found", "executed")
          \/ Promise!Deletes(order) /\ Bring("given", "executed")
      BY <1>2, <1>12, <2>1, States, SameWords DEF Execute, Writes
    <3> QED BY <1>3, <2>1, <3>1, SameWords DEF Promise!Execute
  <2>2. CASE Unnoticed /\ Moves(c, "ok", FALSE) /\ UNCHANGED database
    BY <1>9, <1>12, <2>2 DEF Execute, Writes
  <2> QED BY <1>12, <2>1, <2>2, States DEF Execute
<1>13. CASE Break(c)
  BY <1>9, <1>13, States DEF Break
<1>14. CASE LoseCommand(c)
  <2>1. commands[c].done \in BOOLEAN /\ commands[c].stage \in {"sent", "ok"}
    BY <1>1, <1>14 DEF CommandType, LoseCommand
  <2>2. State(commands[c].stage, commands[c].done) \in {"given", "executed", "failed"}
    BY <2>1, States
  <2>3. Bring(State(commands[c].stage, commands[c].done), "refused")
    BY <1>2, <1>14, <2>1, States DEF LoseCommand
  <2> QED BY <1>3, <1>5, <1>14, <2>2, <2>3 DEF LoseCommand, Promise!Refuse
<1> QED BY <1>10, <1>11, <1>12, <1>13, <1>14 DEF ServerStep

(* Every step of the console is a step of Commands, or none.               *)
LEMMA ImplementsStep ==
    ASSUME TypeOK, TypeOK', [Next]_vars
    PROVE  [Promise!Next]_<<database, AllPending, message.order, budget.unnoticed>>
<1> DEFINE Idle == UNCHANGED <<database, AllPending, message.order, budget.unnoticed>>
<1>1. CASE Keeps
  BY <1>1 DEF Keeps, AllPending, Pending
<1>2. ASSUME NEW newPage \in Pages, Navigate(newPage) PROVE Idle
  <2>1. ASSUME NEW c \in CommandSlots PROVE Pending(c)' = Pending(c)
    <3>1. commands[c] \in CommandType \cup {NoCommand}
      BY DEF TypeOK
    <3> QED BY <1>2, <3>1 DEF Navigate, CommandType, NoCommand, Pending
  <2>2. UNCHANGED budget.unnoticed
    BY <1>2 DEF Navigate, Click, TypeOK, BudgetType
  <2> QED BY <1>2, <2>1, <2>2 DEF Navigate, AllPending
<1>3. ASSUME NEW c \in CommandSlots, NEW order \in Order, Gives(c, order)
      PROVE  Promise!Give(c, order)
  <2>1. commands[c] = NoCommand
    BY <1>3 DEF Gives, Give, TypeOK, CommandType
  <2>2. AllPending[c] = Promise!NotPending
    <3>1. commands[c].order = NoOrder /\ commands[c].stage = "free" /\ commands[c].done = FALSE
      BY <2>1 DEF NoCommand
    <3>2. AllPending[c] = [order |-> NoOrder, state |-> "none"]
      BY <3>1, States DEF AllPending, Pending
    <3> QED BY <3>2, SameWords
  <2>3. AllPending' = [AllPending EXCEPT ![c] = [order |-> order, state |-> "given"]]
    <3>1. PICK last \in BOOLEAN : Give(c, order, last)
      BY <1>3 DEF Gives
    <3> DEFINE command == [stage |-> "sent", order |-> order, last |-> last, mine |-> TRUE,
                           done |-> FALSE]
    <3>2. commands' = [commands EXCEPT ![c] = command]
      BY <3>1 DEF Give
    <3>3. command.order = order /\ State(command.stage, command.done) = "given"
      BY States
    <3> HIDE DEF command
    <3>4. AllPending' = [AllPending EXCEPT ![c] =
             [order |-> command.order, state |-> State(command.stage, command.done)]]
      BY <3>2, PendingChange
    <3> QED BY <3>3, <3>4
  <2> QED BY <1>3, <2>2, <2>3 DEF Gives, Promise!Give, AllPending
<1>6. ASSUME NEW c \in CommandSlots, Succeed(c) \/ Reject(c)
      PROVE  Promise!Next
  <2>1. AllPending' = [AllPending EXCEPT ![c] = Promise!NotPending]
    <3>1. commands' = [commands EXCEPT ![c] = NoCommand]
      BY <1>6 DEF Succeed, Reject
    <3>2. NoCommand.order = NoOrder /\ NoCommand.stage = "free" /\ NoCommand.done = FALSE
      BY DEF NoCommand
    <3>3. AllPending' = [AllPending EXCEPT ![c] = [order |-> NoOrder, state |-> "none"]]
      <4>1. AllPending' = [AllPending EXCEPT ![c] =
               [order |-> NoCommand.order, state |-> State(NoCommand.stage, NoCommand.done)]]
        BY <3>1, PendingChange
      <4>2. State(NoCommand.stage, NoCommand.done) = "none"
        BY <3>2, States
      <4> QED BY <3>2, <4>1, <4>2
    <3> QED BY <3>3, SameWords
  <2>2. CASE message'.order = message.order
    <3>1. Promise!Forget(c)
      BY <1>6, <2>1, <2>2 DEF Succeed, Reject, Promise!Forget, AllPending
    <3> QED BY <3>1 DEF Promise!Next
  <2>3. CASE message'.order # message.order
    <3>1. Succeed(c) /\ message' = [order |-> commands[c].order, done |-> commands[c].done]
      BY <1>6, <2>3 DEF Succeed, Reject
    <3>2. commands[c] \in CommandType
      BY <3>1, CommandUpdates DEF Succeed, TypeOK
    <3>3. commands[c].order \in Order /\ commands[c].done \in BOOLEAN /\ commands[c].stage = "ok"
      BY <3>1, <3>2 DEF Succeed, CommandType
    <3>4. Promise!Tell(c, commands[c].order)
      <4>1. State(commands[c].stage, commands[c].done) \in {"executed", "failed"}
        BY <3>3, States
      <4>2. \E state \in {"executed", "failed"} :
               AllPending[c] = [order |-> commands[c].order, state |-> state]
        BY <4>1 DEF AllPending, Pending
      <4>3. message'.order = commands[c].order /\ UNCHANGED <<database, budget>>
        BY <3>1 DEF Succeed
      <4> QED BY <2>1, <4>2, <4>3 DEF Promise!Tell, AllPending
    <3> QED BY <3>3, <3>4, SameWords DEF Promise!Next
  <2> QED BY <2>2, <2>3
<1>7. ASSUME NEW id \in Ids, NEW status \in Statuses, Others(id, status)
      PROVE  Promise!Change(id, status)
  <2>1. UNCHANGED budget.unnoticed
    BY <1>7 DEF Others, TypeOK, BudgetType
  <2> QED BY <1>7, <2>1 DEF Others, Promise!Change, AllPending, Pending
<1>8. ASSUME NEW c \in CommandSlots, NEW order \in Order, Promise!Give(c, order)
      PROVE  Promise!Next
  BY <1>8, SameWords DEF Promise!Next
<1>9. ASSUME NEW id \in Ids, NEW status \in Statuses, Promise!Change(id, status)
      PROVE  Promise!Next
  BY <1>9, SameWords DEF Promise!Next
<1>10. ASSUME NEW c \in CommandSlots, ServerStep(c) PROVE Promise!Next
  BY <1>10, ServerImplements, SameWords DEF Promise!Next
<1> QED BY <1>1, <1>2, <1>3, <1>6, <1>7, <1>8, <1>9, <1>10, Steps DEF AllPending

(* The console keeps the promises of Commands, for any bounds: at most one *)
(* execution of a command that was given, no change of the status of a     *)
(* task that it did not find, and success told once, of what was executed  *)
(* or failed at by a server that does not say so, never of what it refused.*)
THEOREM ConsoleKeepsPromise == SafeSpec => KeepsPromise
<1>1. Init => Promise!Init
  <2> SUFFICES ASSUME Init PROVE Promise!Init
    OBVIOUS
  <2>1. database \in [Ids -> Statuses]
    BY ConsoleAssumption DEF Init, Contents
  <2>2. AllPending = [c \in CommandSlots |-> Promise!NotPending]
    BY SameWords, States DEF Init, AllPending, Pending, NoCommand
  <2> QED BY <2>1, <2>2, SameWords DEF Init, Promise!Init, AllPending
<1>2. TypeOK /\ TypeOK' /\ [Next]_vars
         => [Promise!Next]_<<database, AllPending, message.order, budget.unnoticed>>
  BY ImplementsStep
<1>3. KeepsPromise <=>
         /\ Promise!Init
         /\ [][Promise!Next]_<<database, AllPending, message.order, budget.unnoticed>>
  BY DEF KeepsPromise, Promise!Spec, Promise!vars, AllPending
<1> QED BY <1>1, <1>2, <1>3, ConsoleTypeCorrect, PTL DEF SafeSpec
==============================================================================
