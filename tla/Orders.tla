------------------------------- MODULE Orders -------------------------------
(***************************************************************************)
(* The commands an administrator gives through the console, and what is    *)
(* stored of the tasks and clusters they are about (one etcd key each).    *)
(* Identifiers are numbers, in the order in which lists show them.         *)
(***************************************************************************)
EXTENDS Integers

CONSTANTS
    Tasks,      \* identifiers of tasks
    Clusters    \* identifiers of clusters

ASSUME OrdersAssumption ==
    /\ Tasks \subseteq Nat /\ Clusters \subseteq Nat
    /\ Tasks \cap Clusters = {}

Ids == Tasks \cup Clusters
Kinds == {"tasks", "clusters"}
IdsOf(kind) == IF kind = "tasks" THEN Tasks ELSE Clusters
KindOf(id) == IF id \in Tasks THEN "tasks" ELSE "clusters"

(* What is stored: nothing, a task with its taskStatus, or a cluster.      *)
Absent == "absent"
Statuses == {Absent, "SYNC", "DELETE", "present"}
StatusesOf(id) ==
    IF id \in Tasks THEN {Absent, "SYNC", "DELETE"} ELSE {Absent, "present"}
Contents == {held \in [Ids -> Statuses] : \A id \in Ids : held[id] \in StatusesOf(id)}

Order == [what : {"suspend", "resume", "deleteTask", "addTask"}, id : Tasks]
         \cup [what : {"deleteCluster", "addCluster"}, id : Clusters]
NoOrder == [what |-> "none", id |-> 0]
=============================================================================
