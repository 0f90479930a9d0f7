-------------------------- MODULE MCWorkerRegistry --------------------------
(* Three workers on a ring: service "a" belongs to worker 2, or to worker  *)
(* 3, then 1, as they leave; service "b" to worker 1.                      *)
EXTENDS WorkerRegistry, TLC

MCPoints == [n \in Nodes |-> CASE n = 1 -> {10, 40} [] n = 2 -> {20, 50} [] n = 3 -> {30, 60}]
MCPosition == "a" :> 15 @@ "b" :> 5

(* 10.0.0.1 and 10.0.0.12 *)
Nested == [n \in Nodes |-> IF n = 1 THEN {1, 2} ELSE {n}]
============================================================================
