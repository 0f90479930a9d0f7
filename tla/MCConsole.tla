------------------------------ MODULE MCConsole ------------------------------
(***************************************************************************)
(* Two tasks, 1 and 2, between the clusters 3 and 4, on pages of one row.  *)
(***************************************************************************)
EXTENDS Console

MCTasks == {1, 2}
MCClusters == {3, 4}
MCClustersOf == [task \in MCTasks |-> MCClusters]
MCTexts == {"", "a"}
MCFound == [text \in MCTexts |-> IF text = "" THEN 1 .. 4 ELSE {1, 3}]

(* The first task is suspended and the second runs.                        *)
MCInitial ==
    {[id \in 1 .. 4 |-> CASE id = 1 -> "DELETE" [] id = 2 -> "SYNC" [] OTHER -> "present"]}
==============================================================================
