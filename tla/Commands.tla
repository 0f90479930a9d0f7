------------------------------ MODULE Commands ------------------------------
(***************************************************************************)
(* What the console promises of the commands of an administrator, whatever *)
(* the pages, dialogs and answers do: a command is executed at most once,  *)
(* and only after it was given; the status of a task is changed only if    *)
(* the task was there at some time since the command was given; success is *)
(* told once, of a command that was executed or that the server failed at  *)
(* without saying so, never of one that was refused.  Between the time a   *)
(* command finds what is stored and the time it is executed others may     *)
(* change it: a task that is deleted in between comes back.                *)
(* Console is shown to implement this.                                     *)
(***************************************************************************)
EXTENDS Orders, Naturals

CONSTANT Slots  \* commands under way at a time

VARIABLES
    stored,     \* [identifier -> what is stored for it]
    pending,    \* [slot -> the command, and what became of it]
    told,       \* the command whose success was told last
    failures    \* the failures of the server that it did not tell

vars == <<stored, pending, told, failures>>

States == {"given", "found", "executed", "failed", "refused"}
NotPending == [order |-> NoOrder, state |-> "none"]

Init ==
    /\ stored \in [Ids -> Statuses]
    /\ pending = [s \in Slots |-> NotPending]
    /\ told = NoOrder
    /\ failures = 0

(* What a command stores, and what it must find before.                    *)
Effect(what) ==
    CASE what \in {"resume", "addTask"} -> "SYNC"
      [] what = "suspend" -> "DELETE"
      [] what = "addCluster" -> "present"
      [] OTHER -> Absent

Deletes(order) == order.what \in {"deleteTask", "deleteCluster"}
ChangesStatus(order) == order.what \in {"suspend", "resume"}

Moves(s, order, from, to) ==
    /\ pending[s] = [order |-> order, state |-> from]
    /\ pending' = [pending EXCEPT ![s] = [order |-> order, state |-> to]]

Give(s, order) ==
    /\ pending[s] = NotPending
    /\ pending' = [pending EXCEPT ![s] = [order |-> order, state |-> "given"]]
    /\ UNCHANGED <<stored, told, failures>>

Find(s, order) ==
    /\ Moves(s, order, "given", "found")
    /\ ChangesStatus(order) => stored[order.id] # Absent
    /\ UNCHANGED <<stored, told, failures>>

Execute(s, order) ==
    /\ \/ Moves(s, order, "found", "executed")
       \/ Deletes(order) /\ Moves(s, order, "given", "executed")
    /\ stored' = [stored EXCEPT ![order.id] = Effect(order.what)]
    /\ UNCHANGED <<told, failures>>

(* Nothing is left to do: what the command would store is stored.          *)
FindDone(s, order) ==
    /\ Moves(s, order, "given", "executed")
    /\ stored[order.id] = Effect(order.what)
    /\ UNCHANGED <<stored, told, failures>>

FailUntold(s, order) ==
    /\ \E from \in {"given", "found"} : Moves(s, order, from, "failed")
    /\ failures' = failures + 1
    /\ UNCHANGED <<stored, told>>

(* The command is refused, or its answer does not come.                    *)
Refuse(s, order) ==
    /\ \E from \in {"given", "executed", "failed"} : Moves(s, order, from, "refused")
    /\ UNCHANGED <<stored, told, failures>>

Tell(s, order) ==
    /\ \E state \in {"executed", "failed"} :
          pending[s] = [order |-> order, state |-> state]
    /\ told' = order
    /\ pending' = [pending EXCEPT ![s] = NotPending]
    /\ UNCHANGED <<stored, failures>>

Forget(s) ==
    /\ pending' = [pending EXCEPT ![s] = NotPending]
    /\ UNCHANGED <<stored, told, failures>>

(* Another administrator.                                                  *)
Change(id, status) ==
    /\ stored' = [stored EXCEPT ![id] = status]
    /\ UNCHANGED <<pending, told, failures>>

Next ==
    \/ \E s \in Slots : Forget(s)
    \/ \E id \in Ids, status \in Statuses : Change(id, status)
    \/ \E s \in Slots, order \in Order :
          \/ Give(s, order) \/ Find(s, order) \/ Execute(s, order)
          \/ FindDone(s, order) \/ FailUntold(s, order)
          \/ Refuse(s, order) \/ Tell(s, order)

Spec == Init /\ [][Next]_vars
=============================================================================
