-------------------------- MODULE MCTaskDispatch --------------------------
(* A ring of two workers with two replicas each.  The service of the task  *)
(* hashes between a replica of worker 1 and one of worker 2: worker 2 owns *)
(* it wherever it is in view, worker 1 where it is not.                    *)
EXTENDS TaskDispatch, TLC

CONSTANTS t1

MCPoints == 1 :> {10, 30} @@ 2 :> {20, 40}
MCPosition == "b" :> 15
OneService == t1 :> "b"

(* Worker 2 without timers stands for a peer that only serves requests.    *)
(* SpecialSyncEventTimer only adds subscriptions, CleanUnBelongTaskTimer   *)
(* gives nothing up while views stay, and CleanExceedOperationIdTimer only *)
(* takes marks away: each is left out of the runs that lose little by it.  *)
OneWorker == 1 :> {"query", "special", "clean"} @@ 2 :> {}
Balancer == 1 :> {"query", "clean"} @@ 2 :> {}
Dispatcher == 1 :> {"query", "special"} @@ 2 :> {}
Collector == 1 :> {"query", "special", "exceed"} @@ 2 :> {}
============================================================================
