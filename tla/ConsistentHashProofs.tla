----------------------- MODULE ConsistentHashProofs -----------------------
(* What the ring guarantees for any nodes, replicas and collisions.        *)
EXTENDS ConsistentHash, LeastElement

(* The nodes of a view are numbered up to last; each has its replicas, at  *)
(* ints that are not below lowest (Math.abs of the smallest int is itself, *)
(* that of any other is not negative).                                     *)
Ring(points, view, last, lowest) ==
    /\ view # {}
    /\ last \in Nat /\ view \subseteq 0..last
    /\ lowest \in Int
    /\ \A n \in view : /\ points[n] # {} /\ points[n] \subseteq Int
                       /\ \A p \in points[n] : lowest <= p

----------------------------------------------------------------------------
(* A set of hashes that is not empty has a first one.                      *)
LEMMA FirstExists ==
    ASSUME NEW lowest \in Int,
           NEW keys, keys \subseteq {p \in Int : lowest <= p}, keys # {}
    PROVE  \E p \in keys : \A q \in keys : p <= q
<1> DEFINE shifted == {p - lowest : p \in keys}
<1>1. shifted \subseteq Nat /\ shifted # {}
  OBVIOUS
<1>2. PICK x \in shifted : \A y \in shifted : x <= y
  <2> HIDE DEF shifted
  <2> QED BY <1>1, LeastExists
<1>3. PICK p \in keys : x = p - lowest
  OBVIOUS
<1>4. \A q \in keys : q - lowest \in shifted
  OBVIOUS
<1> HIDE DEF shifted
<1> QED BY <1>2, <1>3, <1>4

(* A set of nodes that is not empty has a last one.                        *)
LEMMA LastExists ==
    ASSUME NEW last \in Nat, NEW nodes, nodes \subseteq 0..last, nodes # {}
    PROVE  \E n \in nodes : \A m \in nodes : m <= n
<1> DEFINE mirrored == {last - n : n \in nodes}
<1>1. mirrored \subseteq Nat /\ mirrored # {}
  <2>1. \A n \in nodes : n \in Int /\ last - n \in Nat
    OBVIOUS
  <2> QED BY <2>1
<1>2. PICK x \in mirrored : \A y \in mirrored : x <= y
  <2> HIDE DEF mirrored
  <2> QED BY <1>1, LeastExists
<1>3. PICK n \in nodes : x = last - n
  OBVIOUS
<1>4. \A m \in nodes : last - m \in mirrored
  OBVIOUS
<1> HIDE DEF mirrored
<1> QED BY <1>2, <1>3, <1>4

----------------------------------------------------------------------------
(* p comes no later than q when the ring is walked clockwise from hash.    *)
NoLater(p, q, hash) == IF p >= hash THEN q >= hash => p <= q
                                    ELSE q < hash /\ p <= q

(* getNode() ends at the first key clockwise from the hash, whether or not *)
(* it has to wrap around.                                                  *)
LEMMA ClockwiseIsFirst ==
    ASSUME NEW lowest \in Int, NEW hash \in Int,
           NEW keys, keys \subseteq {p \in Int : lowest <= p}, keys # {}
    PROVE  /\ Clockwise(keys, hash) \in keys
           /\ \A q \in keys : NoLater(Clockwise(keys, hash), q, hash)
<1>1. ASSUME NEW some, some \subseteq keys, some # {}
      PROVE  FirstKey(some) \in some /\ \A q \in some : FirstKey(some) <= q
  <2>1. \E p \in some : \A q \in some : p <= q
    BY <1>1, FirstExists
  <2> QED BY <2>1 DEF FirstKey
<1>2. CASE TailMap(keys, hash) # {}
  <2>1. TailMap(keys, hash) \subseteq keys
    BY DEF TailMap
  <2>2. /\ FirstKey(TailMap(keys, hash)) \in TailMap(keys, hash)
        /\ \A q \in TailMap(keys, hash) : FirstKey(TailMap(keys, hash)) <= q
    BY <1>1, <1>2, <2>1
  <2>3. Clockwise(keys, hash) = FirstKey(TailMap(keys, hash))
    BY <1>2 DEF Clockwise
  <2> QED BY <2>2, <2>3 DEF TailMap, NoLater
<1>3. CASE TailMap(keys, hash) = {}
  <2>1. \A q \in keys : q < hash
    BY <1>3 DEF TailMap
  <2>2. FirstKey(keys) \in keys /\ \A q \in keys : FirstKey(keys) <= q
    BY <1>1
  <2>3. Clockwise(keys, hash) = FirstKey(keys)
    BY <1>3 DEF Clockwise
  <2> QED BY <2>1, <2>2, <2>3 DEF NoLater
<1> QED BY <1>2, <1>3

(* Where replicas collide, the last of the nodes is found.                 *)
LEMMA NodeAtIsLast ==
    ASSUME NEW points, NEW view, NEW last, NEW lowest,
           Ring(points, view, last, lowest), NEW p \in Occupied(points, view)
    PROVE  /\ NodeAt(points, view, p) \in view
           /\ p \in points[NodeAt(points, view, p)]
           /\ \A m \in view : p \in points[m] => m <= NodeAt(points, view, p)
<1> DEFINE holders == {n \in view : p \in points[n]}
<1>1. holders # {} /\ holders \subseteq 0..last /\ last \in Nat
  BY DEF Occupied, Ring
<1>2. \E n \in holders : \A m \in holders : m <= n
  <2> HIDE DEF holders
  <2> QED BY <1>1, LastExists
<1>3. \E n \in view : p \in points[n] /\ \A m \in view : p \in points[m] => m <= n
  BY <1>2
<1> QED BY <1>3 DEF NodeAt

LEMMA OwnerIsFirst ==
    ASSUME NEW points, NEW view, NEW last, NEW lowest, NEW hash \in Int,
           Ring(points, view, last, lowest)
    PROVE  \E p \in Int :
             /\ GetNode(points, view, hash) \in view
             /\ p \in points[GetNode(points, view, hash)]
             /\ \A m \in view : /\ p \in points[m] => m <= GetNode(points, view, hash)
                                /\ \A q \in points[m] : NoLater(p, q, hash)
<1> DEFINE keys == Occupied(points, view)
<1>1. keys \subseteq {p \in Int : lowest <= p} /\ keys # {} /\ lowest \in Int
  <2>1. lowest \in Int
    BY DEF Ring
  <2>2. keys # {}
    <3>1. PICK k \in view : points[k] # {}
      BY DEF Ring
    <3> QED BY <3>1 DEF Occupied
  <2>3. \A k \in view : points[k] \subseteq {p \in Int : lowest <= p}
    BY DEF Ring
  <2> QED BY <2>1, <2>2, <2>3 DEF Occupied
<1>2. PICK p \in keys : /\ p = Clockwise(keys, hash)
                        /\ \A q \in keys : NoLater(p, q, hash)
  <2> HIDE DEF keys
  <2> QED BY <1>1, ClockwiseIsFirst
<1>3. GetNode(points, view, hash) = NodeAt(points, view, p)
  BY <1>2 DEF GetNode
<1>4. \A m \in view : points[m] \subseteq keys
  BY DEF Occupied
<1>5. /\ NodeAt(points, view, p) \in view
      /\ p \in points[NodeAt(points, view, p)]
      /\ \A m \in view : p \in points[m] => m <= NodeAt(points, view, p)
  BY NodeAtIsLast
<1> QED BY <1>1, <1>2, <1>3, <1>4, <1>5

(* isProcessNode(): the owner of a service is a worker of the view.        *)
THEOREM OwnerInView ==
    ASSUME NEW points, NEW view, NEW last, NEW lowest, NEW hash \in Int,
           Ring(points, view, last, lowest)
    PROVE  GetNode(points, view, hash) \in view
BY OwnerIsFirst

(* Two workers whose views contain each other never both own a service,    *)
(* however much the views differ otherwise.                                *)
THEOREM SeenShareNothing ==
    ASSUME NEW points, NEW last, NEW lowest, NEW hash \in Int,
           NEW view1, Ring(points, view1, last, lowest),
           NEW view2, Ring(points, view2, last, lowest),
           GetNode(points, view1, hash) \in view2,
           GetNode(points, view2, hash) \in view1
    PROVE  GetNode(points, view1, hash) = GetNode(points, view2, hash)
<1> DEFINE n == GetNode(points, view1, hash)
           m == GetNode(points, view2, hash)
<1>1. PICK p \in Int : /\ p \in points[n]
                       /\ \A k \in view1 : /\ p \in points[k] => k <= n
                                           /\ \A q \in points[k] : NoLater(p, q, hash)
  BY OwnerIsFirst
<1>2. PICK q \in Int : /\ q \in points[m]
                       /\ \A k \in view2 : /\ q \in points[k] => k <= m
                                           /\ \A r \in points[k] : NoLater(q, r, hash)
  BY OwnerIsFirst
<1>3. n \in view2 /\ m \in view1
  OBVIOUS
<1> HIDE DEF n, m
<1>4. n \in Int /\ m \in Int
  <2>1. last \in Nat /\ view1 \subseteq 0..last /\ view2 \subseteq 0..last
    BY DEF Ring
  <2> QED BY <1>3, <2>1
<1>5. NoLater(p, q, hash) /\ NoLater(q, p, hash)
  <2>1. \A r \in points[m] : NoLater(p, r, hash)
    BY <1>1, <1>3
  <2>2. \A r \in points[n] : NoLater(q, r, hash)
    BY <1>2, <1>3
  <2> QED BY <1>1, <1>2, <2>1, <2>2
<1>6. p = q
  BY <1>5 DEF NoLater
<1>7. m <= n /\ n <= m
  BY <1>1, <1>2, <1>3, <1>6
<1>8. n = m
  BY <1>4, <1>7
<1> QED BY <1>8 DEF n, m

(* A worker that joins takes services only for itself, and one that leaves *)
(* gives up only its own.                                                  *)
THEOREM MinimalDisruption ==
    ASSUME NEW points, NEW last, NEW lowest, NEW hash \in Int,
           NEW view, Ring(points, view, last, lowest),
           NEW node, Ring(points, view \cup {node}, last, lowest)
    PROVE  GetNode(points, view \cup {node}, hash)
             \in {node, GetNode(points, view, hash)}
<1>1. GetNode(points, view, hash) \in view \cup {node}
  BY OwnerInView
<1>2. CASE GetNode(points, view \cup {node}, hash) = node
  BY <1>2
<1>3. CASE GetNode(points, view \cup {node}, hash) # node
  <2>1. GetNode(points, view \cup {node}, hash) \in view
    BY <1>3, OwnerInView
  <2> QED BY <1>1, <2>1, SeenShareNothing
<1> QED BY <1>2, <1>3
============================================================================
