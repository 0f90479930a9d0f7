-------------------------- MODULE MCConsistentHash --------------------------
(* Every ring of some nodes with a number of replicas each on a circle,    *)
(* collisions included, while nodes join and leave a view: in the run,     *)
(* three nodes with one or two replicas each and five positions.           *)
EXTENDS ConsistentHash, FiniteSets

CONSTANTS Nodes, Circle, MaxReplicas

(* The positions are consecutive (ints), the nodes finitely many.          *)
ASSUME CircleAssumption ==
    /\ \E lowest, highest \in Circle : Circle = lowest..highest
    /\ Circle \subseteq Int
    /\ Nodes \subseteq Nat
    /\ \E last \in Nodes : \A n \in Nodes : n <= last
    /\ MaxReplicas \in Nat

VARIABLES points, view, hash
vars == <<points, view, hash>>

Fives == -1..3
Views == (SUBSET Nodes) \ {{}}

Init ==
    /\ points \in [Nodes -> {s \in SUBSET Circle : Cardinality(s) \in 1..MaxReplicas}]
    /\ view \in Views
    /\ hash \in Circle

Join(n) == n \notin view /\ view' = view \cup {n} /\ UNCHANGED <<points, hash>>
Leave(n) == n \in view /\ view # {n} /\ view' = view \ {n} /\ UNCHANGED <<points, hash>>
Next == \E n \in Nodes : Join(n) \/ Leave(n)
Spec == Init /\ [][Next]_vars

----------------------------------------------------------------------------
(* getNode() returns the nearest node clockwise from the hash, and the     *)
(* last of those when several are equally near: "get the nearest clockwise *)
(* node" (ConsistentHash.java:110).                                        *)
Distance(p) == (p - hash) % Cardinality(Circle)
Nearest(n) == \E p \in points[n] : \A m \in view : \A q \in points[m] :
                 Distance(p) <= Distance(q)
OwnerIsNearest ==
    LET owner == GetNode(points, view, hash) IN
    /\ owner \in view /\ Nearest(owner)
    /\ \A n \in view : Nearest(n) => n <= owner

(* Two workers whose views contain each other never both own a service.    *)
NothingShared ==
    \A view2 \in Views :
        LET n == GetNode(points, view, hash)
            m == GetNode(points, view2, hash)
        IN n \in view2 /\ m \in view => n = m

(* A worker that joins takes services only for itself, one that leaves     *)
(* gives up only its own.                                                  *)
LittleMoves ==
    [][GetNode(points, view, hash)' # GetNode(points, view, hash) =>
          \E n \in Nodes : \/ view' = view \cup {n} /\ GetNode(points, view, hash)' = n
                           \/ view = view' \cup {n} /\ GetNode(points, view, hash) = n]_vars
============================================================================
