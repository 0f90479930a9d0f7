-------------------------- MODULE ConsistentHash --------------------------
(***************************************************************************)
(* The consistent-hash ring of extension/ha/ConsistentHash.java, as the    *)
(* pure function that isProcessNode and isLeaderNode evaluate: every call  *)
(* builds a new ring from the collection of nodes it is given, and never   *)
(* removes a node from one.                                                *)
(*                                                                         *)
(* Nodes are numbered in the order in which the ring's constructor meets   *)
(* them: the collection is a TreeSet of IP addresses, so that order is the *)
(* same whatever subset of the nodes it holds (the configured list, used   *)
(* when the set is empty, is taken to be sorted).  points[n] is the set of *)
(* the positions Math.abs(md5(n + i)) of the replicas of node n.  MD5 is   *)
(* arbitrary here: positions may collide, within a node or across nodes,   *)
(* and may be negative (Math.abs of the smallest int is itself).           *)
(***************************************************************************)
EXTENDS Integers, FiniteSets

(* The keys of the circle after add() of every node of view. *)
Occupied(points, view) == UNION {points[n] : n \in view}

(* Mutated forms: a hash set would meet the nodes in an order that depends *)
(* on its size; a tail map that leaves out the hash itself.                *)
NodeAtUnordered(points, view, p) ==
    CHOOSE n \in view : /\ p \in points[n]
                        /\ \A m \in view : p \in points[m] =>
                              IF Cardinality(view) = 2 THEN m >= n ELSE m <= n
TailMapExclusive(keys, hash) == {p \in keys : p > hash}

(* circle.get(p).  put() overwrites: where replicas collide, the node      *)
(* added last keeps the position.                                          *)
NodeAt(points, view, p) ==
    CHOOSE n \in view : /\ p \in points[n]
                        /\ \A m \in view : p \in points[m] => m <= n

FirstKey(keys) == CHOOSE p \in keys : \A q \in keys : p <= q

TailMap(keys, hash) == {p \in keys : p >= hash}

(* The key getNode() ends at: the first one clockwise from the hash of the *)
(* service, wrapping around to the first key of the circle.                *)
Clockwise(keys, hash) ==
    IF TailMap(keys, hash) # {} THEN FirstKey(TailMap(keys, hash))
                                ELSE FirstKey(keys)

GetNode(points, view, hash) ==
    NodeAt(points, view, Clockwise(Occupied(points, view), hash))

GetHeadNode(points, view) ==
    NodeAt(points, view, FirstKey(Occupied(points, view)))
============================================================================
