------------------------------- MODULE Console -------------------------------
(***************************************************************************)
(* The web console (console-fe): one browser with the pages "serviceSync"  *)
(* and "clusterConfig", the redux store the two pages share, the dialogs,  *)
(* and the requests under way, which the server may serve, and the browser *)
(* may receive, in any order.  The server is modelled by what it does with *)
(* the requests of the console: it stores tasks and clusters in etcd, and  *)
(* answers lists from a cached copy that follows etcd with a delay.        *)
(***************************************************************************)
EXTENDS Orders, FiniteSets, Sequences, RamPage

CONSTANTS
    ClustersOf,         \* source and destination of each task
    Texts, NoText,      \* what may be typed in the search field
    Found,              \* [text -> the identifiers whose name contains it]
    PageSize,           \* PAGE_SIZE
    Everything,         \* the page size that stands for "all clusters"
    Initial,            \* what may be stored when the console is opened
    MaxLists,           \* bound: list requests under way
    MaxCommands,        \* bound: commands under way
    MaxClicks,          \* bound: gestures of the administrator
    MaxFailures,        \* bound: requests lost, lists read as empty
    MaxUnnoticed,       \* bound: failures of the server shown as success
    MaxOthers,          \* bound: changes by other administrators
    Foreign,            \* bound: what these change
    MaxFaults           \* bound: failures, unnoticed ones and others together

ASSUME ConsoleAssumption ==
    /\ IsFiniteSet(Ids)
    /\ ClustersOf \in [Tasks -> SUBSET Clusters]
    /\ NoText \in Texts /\ Found \in [Texts -> SUBSET Ids]
    /\ Clusters \subseteq Found[NoText]             \* no text is part of every name
    /\ Cardinality(Clusters) <= Everything
    /\ Initial \subseteq Contents
    /\ Foreign \subseteq Ids
    /\ PageSize \in Nat \ {0} /\ Everything \in Nat \ {0}
    /\ MaxLists >= 3    \* a page sends up to three when it opens
    /\ \A bound \in {MaxLists, MaxCommands, MaxClicks, MaxFailures, MaxUnnoticed, MaxOthers,
                       MaxFaults} :
          bound \in Nat

VARIABLES
    database,   \* etcd: [identifier -> what is stored for it]
    listed,     \* the cached copy that lists are answered from
    page,       \* the page that is mounted, and its state:
    pageNum, loading, search,
    kept,       \* the state of its add form: what was typed last
    dialog,     \* the dialog that is open
    store,      \* redux: per kind, the rows and pages of the last answer
    lists,      \* list requests under way
    commands,   \* commands under way
    message,    \* the last message of success, with whether it was done
    stale,      \* ghost: the rows are not a current answer to the last request
    unseen,     \* ghost: a change that no request for a list follows
    budget      \* what was used of each bound

ui == <<page, pageNum, loading, search, kept, dialog>>
vars == <<database, listed, ui, store, lists, commands, message, stale, unseen, budget>>

ListSlots == 1 .. MaxLists
CommandSlots == 1 .. MaxCommands
Pages == {"serviceSync", "clusterConfig"}
Own == IF page = "serviceSync" THEN "tasks" ELSE "clusters"

(* What a list request asks for, and a request with its answer.            *)
Params == [pageNum : Nat \ {0}, size : {PageSize, Everything}, text : Texts]
Rows == {rows \in UNION {[shown -> Statuses] : shown \in SUBSET Ids} :
            \A id \in DOMAIN rows : rows[id] \in StatusesOf(id)}
NoRows == [id \in {} |-> Absent]

List(kind, of, mine) ==
    [stage |-> "sent", kind |-> kind, of |-> of, mine |-> mine, latest |-> TRUE,
     rows |-> NoRows, pages |-> 0, current |-> TRUE]
FirstPage == [pageNum |-> 1, size |-> PageSize, text |-> NoText]
NoList == [List("tasks", FirstPage, FALSE) EXCEPT !.stage = "free"]
AllClusters == List("clusters", [pageNum |-> 1, size |-> Everything, text |-> NoText], FALSE)

NoCommand == [stage |-> "free", order |-> NoOrder, last |-> FALSE, mine |-> FALSE, done |-> FALSE]
NoDialog == [what |-> "none", order |-> NoOrder, last |-> FALSE, slot |-> 0]
AddForm == [NoDialog EXCEPT !.what = "add"]

OnMountAlone(newPage) ==
    <<List(IF newPage = "serviceSync" THEN "tasks" ELSE "clusters", FirstPage, TRUE)>>
OnMountUnheard(newPage) ==
    IF newPage = "serviceSync" THEN <<List("tasks", FirstPage, FALSE), AllClusters>>
    ELSE <<List("clusters", FirstPage, FALSE)>>

(* componentDidMount of a page and of its add dialog, the dialog first.    *)
OnMount(newPage) ==
    IF newPage = "serviceSync"
    THEN <<[AllClusters EXCEPT !.latest = FALSE], List("tasks", FirstPage, TRUE), AllClusters>>
    ELSE <<List("clusters", FirstPage, TRUE)>>

(* Requests leave in order, each in the next free slot; a list of a kind   *)
(* supersedes the earlier ones, whose answers may still arrive after it.   *)
Free(ls, l) == ls[l].stage = "free"
Place(ls, l) == Cardinality({k \in ListSlots : k <= l /\ Free(ls, k)})
Room(n) == Cardinality({l \in ListSlots : Free(lists, l)}) >= n
Sent(ls, requests) ==
    [l \in ListSlots |->
        IF ~Free(ls, l)
        THEN [ls[l] EXCEPT !.latest =
                 ls[l].latest /\ \A i \in DOMAIN requests : requests[i].kind # ls[l].kind]
        ELSE IF Place(ls, l) \in DOMAIN requests THEN requests[Place(ls, l)] ELSE ls[l]]

Init ==
    /\ database \in Initial
    /\ listed = database
    /\ page = "serviceSync" /\ pageNum = 1 /\ loading = TRUE /\ search = NoText
    /\ kept = 0 /\ dialog = NoDialog
    /\ store = [kind \in Kinds |-> [rows |-> NoRows, pages |-> 0, of |-> FirstPage]]
    /\ lists = Sent([l \in ListSlots |-> NoList], OnMount("serviceSync"))
    /\ commands = [c \in CommandSlots |-> NoCommand]
    /\ message = [order |-> NoOrder, done |-> TRUE]
    /\ stale = [kind \in Kinds |-> FALSE]
    /\ unseen = [kind \in Kinds |-> FALSE]
    /\ budget = [clicks |-> 0, failures |-> 0, unnoticed |-> 0, others |-> 0]

-----------------------------------------------------------------------------
(* Gestures.  An open dialog masks the page, and a spinner the rows.       *)

Click ==
    /\ budget.clicks < MaxClicks
    /\ budget' = [budget EXCEPT !.clicks = @ + 1]
Unmasked == dialog.what = "none"

AskedBefore(pn) == [pageNum |-> pageNum, size |-> PageSize, text |-> search]
Asked(pn) == [pageNum |-> pn, size |-> PageSize, text |-> search]
TurnPage(pn) ==
    /\ Room(1)
    /\ pageNum' = pn
    /\ loading' = TRUE
    /\ lists' = Sent(lists, <<List(Own, Asked(pn), TRUE)>>)
    /\ unseen' = [unseen EXCEPT ![Own] = FALSE]

(* The menu: the mounted page goes with its state, the store stays.        *)
Navigate(newPage) ==
    /\ Click /\ Unmasked
    /\ newPage # page
    /\ page' = newPage
    /\ pageNum' = 1 /\ loading' = TRUE /\ search' = NoText /\ kept' = 0
    /\ Room(Len(OnMount(newPage)))
    /\ lists' = Sent([l \in ListSlots |-> [lists[l] EXCEPT !.mine = FALSE]], OnMount(newPage))
    /\ commands' = [c \in CommandSlots |-> [commands[c] EXCEPT !.mine = FALSE]]
    /\ unseen' = [kind \in Kinds |->
                    unseen[kind] /\ \A i \in DOMAIN OnMount(newPage) : OnMount(newPage)[i].kind # kind]
    /\ UNCHANGED <<database, listed, dialog, store, message, stale>>

(* The pager is drawn when there is more than one page.                    *)
HasPager == store[Own].pages > 1
PagerClick(pn) ==
    /\ Click /\ Unmasked
    /\ HasPager
    /\ pn \in 1 .. store[Own].pages /\ pn # pageNum
    /\ TurnPage(pn)
    /\ UNCHANGED <<database, listed, page, search, kept, dialog, store, commands, message, stale>>

Type(text) ==
    /\ Click /\ Unmasked
    /\ text # search
    /\ search' = text
    /\ UNCHANGED <<database, listed, page, pageNum, loading, kept, dialog, store, lists, commands,
                   message, stale, unseen>>

SearchClick ==
    /\ Click /\ Unmasked
    /\ TurnPage(1)
    /\ UNCHANGED <<database, listed, page, search, kept, dialog, store, commands, message, stale>>

(* The buttons of a row, by the status it shows.                           *)
Buttons(status) ==
    CASE status = "SYNC" -> {"suspend"}
      [] status = "DELETE" -> {"resume", "deleteTask"}
      [] status = "present" -> {"deleteCluster"}
      [] OTHER -> {}
RowClick(id, what) ==
    /\ Click /\ Unmasked /\ ~loading
    /\ id \in DOMAIN store[Own].rows
    /\ what \in Buttons(store[Own].rows[id])

Give(c, order, last) ==
    /\ commands[c].stage = "free"
    /\ \A d \in CommandSlots : d < c => commands[d].stage # "free"
    /\ commands' = [commands EXCEPT ![c] =
                      [stage |-> "sent", order |-> order, last |-> last, mine |-> TRUE, done |-> FALSE]]

Resume(c, id) ==
    /\ RowClick(id, "resume")
    /\ Give(c, [what |-> "resume", id |-> id], FALSE)
    /\ UNCHANGED <<database, listed, ui, store, lists, message, stale, unseen>>

(* Dialog.confirm, with the rows that are shown when it is opened.         *)
Confirm(id, what) ==
    /\ RowClick(id, what)
    /\ what # "resume"
    /\ dialog' = [what |-> "confirm", order |-> [what |-> what, id |-> id],
                  last |-> Cardinality(DOMAIN store[Own].rows) = 1, slot |-> 0]
    /\ UNCHANGED <<database, listed, page, pageNum, loading, search, kept, store, lists, commands,
                   message, stale, unseen>>

(* OK waits for the answer; Cancel closes the dialog, not the request.     *)
PressOk(c) ==
    /\ dialog.what = "confirm" /\ dialog.slot = 0
    /\ Give(c, dialog.order, dialog.last)
    /\ dialog' = [dialog EXCEPT !.slot = c]
    /\ UNCHANGED <<database, listed, page, pageNum, loading, search, kept, store, lists, message,
                   stale, unseen, budget>>

Cancel ==
    /\ ~Unmasked
    /\ dialog' = NoDialog
    /\ UNCHANGED <<database, listed, page, pageNum, loading, search, kept, store, lists, commands,
                   message, stale, unseen, budget>>

(* The add form.  Its inputs are empty whenever it opens, its state is not; *)
(* it is submitted from its state, and may be submitted again.             *)
OpenAdd ==
    /\ Unmasked
    /\ dialog' = AddForm
    /\ UNCHANGED <<database, listed, page, pageNum, loading, search, kept, store, lists, commands,
                   message, stale, unseen, budget>>

AddOrder(id) == [what |-> IF Own = "tasks" THEN "addTask" ELSE "addCluster", id |-> id]

(* The clusters that the pages, whose slice of the store is one, can name. *)
Named == DOMAIN store["clusters"].rows

(* A task is filled in with clusters that the form lists.                  *)
FillTask(id) == id \in Tasks /\ Own = "tasks" /\ ClustersOf[id] \subseteq Named
FillCluster(id) == id \in Clusters /\ Own = "clusters"

Fill(id) ==
    /\ Click
    /\ dialog.what = "add"
    /\ FillTask(id) \/ FillCluster(id)
    /\ dialog' = [AddForm EXCEPT !.order = AddOrder(id)]
    /\ kept' = id
    /\ UNCHANGED <<database, listed, page, pageNum, loading, search, store, lists, commands, message,
                   stale, unseen>>

Save(c) ==
    /\ Click
    /\ dialog.what = "add" /\ kept # 0
    /\ Give(c, AddOrder(kept), FALSE)
    /\ UNCHANGED <<database, listed, ui, store, lists, message, stale, unseen>>

(* Nothing was ever typed: the server refuses it, and the form closes.     *)
SaveEmpty ==
    /\ Click
    /\ dialog.what = "add" /\ kept = 0
    /\ dialog' = NoDialog
    /\ UNCHANGED <<database, listed, page, pageNum, loading, search, kept, store, lists, commands,
                   message, stale, unseen>>

-----------------------------------------------------------------------------
(* The server.                                                             *)

Fault == budget.failures + budget.unnoticed + budget.others < MaxFaults
Failure ==
    /\ Fault /\ budget.failures < MaxFailures
    /\ budget' = [budget EXCEPT !.failures = @ + 1]

Becomes(what) ==
    CASE what \in {"resume", "addTask"} -> "SYNC"
      [] what = "suspend" -> "DELETE"
      [] what = "addCluster" -> "present"
      [] OTHER -> Absent

AcceptsMissing(order) ==
    order.what = "addTask" => \A k \in ClustersOf[order.id] : database[k] # Absent

Accepts(order) ==
    CASE order.what \in {"suspend", "resume"} -> database[order.id] # Absent
      [] order.what = "addTask" -> \A k \in ClustersOf[order.id] : database[k] # Absent
      [] order.what = "addCluster" -> database[order.id] = Absent
      [] OTHER -> TRUE

(* What the interceptor of request.js makes of an answer: one that failed   *)
(* is rejected only if its code says so too.                               *)
Outcome(success, resultCode) ==
    IF ~success /\ resultCode # "SUCCESS" THEN "rejected" ELSE "ok"

Deletes(order) == order.what \in {"deleteTask", "deleteCluster"}
Moves(c, stage, done) ==
    commands' = [commands EXCEPT ![c] = [@ EXCEPT !.stage = stage, !.done = done]]

Unnoticed ==
    /\ Fault /\ budget.unnoticed < MaxUnnoticed
    /\ budget' = [budget EXCEPT !.unnoticed = @ + 1]

(* The server reads what is stored before it writes: it refuses the        *)
(* command, with a SkyWalkerException, whose code is SYSTEM_ERROR, finds   *)
(* nothing to do, or goes on to write what it made of what it read.  (The  *)
(* reads of addTask, the task last, are one step.)                         *)
Read(c) ==
    LET order == commands[c].order IN
    /\ commands[c].stage = "sent" /\ ~Deletes(order)
    /\ \/ /\ ~Accepts(order)
          /\ Moves(c, Outcome(FALSE, "SYSTEM_ERROR"), FALSE)
       \/ /\ Accepts(order) /\ database[order.id] = Becomes(order.what)
          /\ Moves(c, Outcome(TRUE, "SUCCESS"), TRUE)
       \/ /\ Accepts(order) /\ database[order.id] # Becomes(order.what)
          /\ Moves(c, "read", FALSE)
    /\ UNCHANGED <<database, listed, ui, store, lists, message, stale, unseen, budget>>

(* Etcd does not answer, and nothing seems to be stored.                   *)
ReadNothing(c) ==
    LET order == commands[c].order IN
    /\ Failure
    /\ commands[c].stage = "sent" /\ ~Deletes(order)
    /\ \/ order.what # "addCluster" /\ Moves(c, Outcome(FALSE, "SYSTEM_ERROR"), FALSE)
       \/ /\ order.what = "addCluster" \/ (order.what = "addTask" /\ Accepts(order))
          /\ Moves(c, "read", FALSE)
    /\ UNCHANGED <<database, listed, ui, store, lists, message, stale, unseen>>

(* The write, after what was read, unless the command only deletes.  One   *)
(* that fails is logged by CompletableFutureUtil.handle, and answered as a *)
(* success all the same.                                                   *)
Writes(c) ==
    \/ commands[c].stage = "read"
    \/ commands[c].stage = "sent" /\ Deletes(commands[c].order)
Execute(c) ==
    LET order == commands[c].order IN
    /\ Writes(c)
    /\ \/ /\ database' = [database EXCEPT ![order.id] = Becomes(order.what)]
          /\ Moves(c, Outcome(TRUE, "SUCCESS"), TRUE)
          /\ UNCHANGED budget
       \/ /\ Unnoticed
          /\ Moves(c, Outcome(TRUE, "SUCCESS"), FALSE)
          /\ UNCHANGED database
    /\ UNCHANGED <<listed, ui, store, lists, message, stale, unseen>>

(* Another exception ends the command before it writes: the answer says    *)
(* that it failed, and keeps the code SUCCESS that every result starts     *)
(* with.  (One that comes after the write looks as Execute does.)          *)
Break(c) ==
    /\ commands[c].stage \in {"sent", "read"}
    /\ Unnoticed
    /\ Moves(c, Outcome(FALSE, "SUCCESS"), FALSE)
    /\ UNCHANGED <<database, listed, ui, store, lists, message, stale, unseen>>

(* The request, or the answer, does not get through.  (A connection lost   *)
(* in between leaves the server to a write that Others stands for.)        *)
LoseCommand(c) ==
    /\ Failure
    /\ commands[c].stage \in {"sent", "ok"}
    /\ Moves(c, "rejected", commands[c].done)
    /\ UNCHANGED <<database, listed, ui, store, lists, message, stale, unseen>>

Matching(kind, text) == {id \in IdsOf(kind) \cap Found[text] : listed[id] # Absent}

ServeList(l) ==
    LET list == lists[l]
        all == Matching(list.kind, list.of.text) IN
    /\ list.stage = "sent"
    /\ lists' = [lists EXCEPT ![l] =
          [list EXCEPT !.stage = "answered",
             !.rows = [id \in OnPage(all, list.of.pageNum, list.of.size) |-> listed[id]],
             !.pages = TotalPage(all, list.of.size),
             !.current = \A id \in IdsOf(list.kind) : listed[id] = database[id]]]
    /\ UNCHANGED <<database, listed, ui, store, commands, message, stale, unseen, budget>>

(* No cached copy, and etcd does not answer: an empty list, as a success.  *)
ReadFails(l) ==
    /\ Failure
    /\ lists[l].stage = "sent"
    /\ lists' = [lists EXCEPT ![l] = [@ EXCEPT !.stage = "answered", !.current = FALSE]]
    /\ UNCHANGED <<database, listed, ui, store, commands, message, stale, unseen>>

(* The cached copy is read again, after an event of the watch or its time. *)
Refresh(kind) ==
    /\ \E id \in IdsOf(kind) : listed[id] # database[id]
    /\ listed' = [id \in Ids |-> IF id \in IdsOf(kind) THEN database[id] ELSE listed[id]]
    /\ UNCHANGED <<database, ui, store, lists, commands, message, stale, unseen, budget>>

(* Another administrator, a client of the API, a suspension that a worker  *)
(* executes late for one that no longer waits for it: any change at all,   *)
(* as what was stored when they read it may have gone.                     *)
Others(id, status) ==
    /\ Fault /\ budget.others < MaxOthers
    /\ budget' = [budget EXCEPT !.others = @ + 1]
    /\ status \in StatusesOf(id) \ {database[id]}
    /\ database' = [database EXCEPT ![id] = status]
    /\ unseen' = [unseen EXCEPT ![KindOf(id)] = TRUE]
    /\ UNCHANGED <<listed, ui, store, lists, commands, message, stale>>

-----------------------------------------------------------------------------
(* Answers.                                                                *)

(* The reducer takes any answer; it ends the spinner of the page that asked. *)
ReceiveList(l) ==
    LET answer == lists[l] IN
    /\ answer.stage = "answered"
    /\ lists' = [lists EXCEPT ![l] = NoList]
    /\ store' = [store EXCEPT ![answer.kind] =
                   [rows |-> answer.rows, pages |-> answer.pages, of |-> answer.of]]
    /\ loading' = (loading /\ ~answer.mine)
    /\ stale' = [stale EXCEPT ![answer.kind] = ~(answer.latest /\ answer.current)]
    /\ UNCHANGED <<database, listed, page, pageNum, search, kept, dialog, commands, message, unseen,
                   budget>>

(* The list is not received: an error is shown, and the spinner stays.     *)
LoseList(l) ==
    /\ Failure
    /\ lists[l].stage \in {"sent", "answered"}
    /\ lists' = [lists EXCEPT ![l] = NoList]
    /\ stale' = [stale EXCEPT ![lists[l].kind] = @ \/ lists[l].latest]
    /\ UNCHANGED <<database, listed, ui, store, commands, message, unseen>>

Adds(order) == order.what \in {"addTask", "addCluster"}

(* An add form that is open when an answer to it arrives is closed, even if *)
(* it was opened again since.                                              *)
ClosesForm(command) == Adds(command.order) /\ command.mine /\ dialog.what = "add"

(* The dialog once the command in slot c succeeded, or failed.             *)
StillWaiting(c) == dialog
AfterSuccess(c) == IF dialog.slot = c \/ ClosesForm(commands[c]) THEN NoDialog ELSE dialog
AfterFailure(c) ==
    IF ClosesForm(commands[c]) THEN NoDialog
    ELSE IF dialog.slot = c THEN [dialog EXCEPT !.slot = 0] ELSE dialog

PageBefore(command) ==
    IF command.order.what = "deleteCluster" /\ command.last THEN pageNum - 1 ELSE pageNum

(* The page shown once a command succeeded.                                *)
PageAfter(command) ==
    CASE Adds(command.order) -> 1
      [] command.order.what = "deleteCluster" ->
            IF pageNum > 1 /\ command.last THEN pageNum - 1 ELSE 1
      [] OTHER -> pageNum

Succeed(c) ==
    LET command == commands[c] IN
    /\ command.stage = "ok"
    /\ commands' = [commands EXCEPT ![c] = NoCommand]
    /\ dialog' = AfterSuccess(c)
    /\ message' = IF Adds(command.order) THEN message
                  ELSE [order |-> command.order, done |-> command.done]
    /\ \/ /\ command.mine
          /\ TurnPage(PageAfter(command))
       \/ /\ ~command.mine     \* the page is gone: setState does nothing
          /\ unseen' = [unseen EXCEPT ![KindOf(command.order.id)] = TRUE]
          /\ UNCHANGED <<pageNum, loading, lists>>
    /\ UNCHANGED <<database, listed, page, search, kept, store, stale, budget>>

Reject(c) ==
    LET command == commands[c] IN
    /\ command.stage = "rejected"
    /\ commands' = [commands EXCEPT ![c] = NoCommand]
    /\ dialog' = AfterFailure(c)
    /\ unseen' = [unseen EXCEPT ![KindOf(command.order.id)] = @ \/ command.done]
    /\ UNCHANGED <<database, listed, page, pageNum, loading, search, kept, store, lists, message,
                   stale, budget>>

-----------------------------------------------------------------------------
Gesture ==
    \/ \E newPage \in Pages : Navigate(newPage)
    \/ \E pn \in 1 .. Cardinality(Ids) : PagerClick(pn)
    \/ \E text \in Texts : Type(text)
    \/ SearchClick
    \/ \E c \in CommandSlots : (\E id \in Tasks : Resume(c, id)) \/ PressOk(c) \/ Save(c)
    \/ \E id \in Ids, what \in {"suspend", "deleteTask", "deleteCluster"} : Confirm(id, what)
    \/ Cancel \/ OpenAdd \/ SaveEmpty
    \/ \E id \in Ids : Fill(id)

Server ==
    \/ \E c \in CommandSlots :
          Read(c) \/ ReadNothing(c) \/ Execute(c) \/ Break(c) \/ LoseCommand(c)
    \/ \E l \in ListSlots : ServeList(l) \/ ReadFails(l)
    \/ \E kind \in Kinds : Refresh(kind)
    \/ \E id \in Foreign, status \in Statuses : Others(id, status)

Answer ==
    \/ \E l \in ListSlots : ReceiveList(l) \/ LoseList(l)
    \/ \E c \in CommandSlots : Succeed(c) \/ Reject(c)

Next == Gesture \/ Server \/ Answer

SafeSpec == Init /\ [][Next]_vars

(* Every list is answered or fails (axios sets no timeout), and its answer *)
(* is delivered.  Nothing else is due: a command may remain unanswered.    *)
Fairness == \A l \in ListSlots : WF_vars(ServeList(l) \/ ReceiveList(l))

Spec == SafeSpec /\ Fairness

-----------------------------------------------------------------------------
ListType ==
    [stage : {"free", "sent", "answered"}, kind : Kinds, of : Params, mine : BOOLEAN,
     latest : BOOLEAN, rows : Rows, pages : Nat, current : BOOLEAN]
CommandType ==
    [stage : {"sent", "read", "ok", "rejected"}, order : Order, last : BOOLEAN, mine : BOOLEAN, done : BOOLEAN]
DialogType ==
    {NoDialog, AddForm}
    \cup [what : {"confirm"}, order : Order, last : BOOLEAN, slot : CommandSlots \cup {0}]
    \cup [what : {"add"}, order : Order, last : {FALSE}, slot : {0}]

BudgetType ==
    [clicks : 0 .. MaxClicks, failures : 0 .. MaxFailures, unnoticed : 0 .. MaxUnnoticed,
     others : 0 .. MaxOthers]

(* Type invariant.                                                         *)
TypeOK ==
    /\ database \in Contents /\ listed \in Contents
    /\ page \in Pages /\ pageNum \in Nat \ {0} /\ loading \in BOOLEAN /\ search \in Texts
    /\ kept \in IdsOf(Own) \cup {0} /\ dialog \in DialogType
    /\ store \in [Kinds -> [rows : Rows, pages : Nat, of : Params]]
    /\ lists \in [ListSlots -> ListType]
    /\ commands \in [CommandSlots -> CommandType \cup {NoCommand}]
    /\ message \in [order : Order \cup {NoOrder}, done : BOOLEAN]
    /\ stale \in [Kinds -> BOOLEAN] /\ unseen \in [Kinds -> BOOLEAN]
    /\ budget \in BudgetType

(* Nothing of a kind is under way, and nothing happened to its last list.  *)
Settled(kind) ==
    /\ \A l \in ListSlots : lists[l].kind = kind => lists[l].stage = "free"
    /\ \A c \in CommandSlots : commands[c].stage # "free" => KindOf(commands[c].order.id) # kind
    /\ ~stale[kind] /\ ~unseen[kind]

(* Once nothing is under way the table shows what etcd holds for the page  *)
(* the pager names, without a spinner, unless the last list was overtaken, *)
(* lost or answered from an old copy, or a change was not told to the page.*)
ShowsTheStore ==
    LET shown == store[Own]
        held == {id \in IdsOf(Own) \cap Found[shown.of.text] : database[id] # Absent}
    IN Settled(Own) =>
          /\ ~loading
          /\ shown.of.pageNum = pageNum /\ shown.of.size = PageSize
          /\ shown.rows = [id \in OnPage(held, pageNum, PageSize) |-> database[id]]

(* The two pages share one list of clusters, of which each wants its own   *)
(* part: the page of the tasks ends up with every cluster, for their names.*)
NamesKnown ==
    page = "serviceSync" /\ Settled("clusters")
        => \A id \in Clusters : database[id] # Absent => id \in Named

(* A message of success is about a command that was carried out.           *)
SuccessMeansDone == message.done

(* A dialog that waits, with its OK disabled, waits for its own command,    *)
(* also when the slot of an earlier one is used again.                     *)
WaitsForItsCommand ==
    dialog.slot # 0 => /\ commands[dialog.slot].stage # "free"
                       /\ commands[dialog.slot].order = dialog.order

(* If no request fails, a spinner ends.                                    *)
SpinnerEnds == loading ~> (~loading \/ budget.failures > 0)

(* The console keeps the promises of Commands: a command is executed once  *)
(* at most, after it found the task whose status it changes, and told as a *)
(* success only if it was executed, or after a failure the server hid.     *)
State(stage, done) ==
    CASE stage = "free" -> "none"
      [] stage = "sent" -> "given"
      [] stage = "read" -> "found"
      [] stage = "ok" -> IF done THEN "executed" ELSE "failed"
      [] OTHER -> "refused"
Pending(c) ==
    [order |-> commands[c].order, state |-> State(commands[c].stage, commands[c].done)]
Promise == INSTANCE Commands WITH
    Slots <- CommandSlots, stored <- database, pending <- [c \in CommandSlots |-> Pending(c)],
    told <- message.order, failures <- budget.unnoticed
KeepsPromise == Promise!Spec
=============================================================================
