----------------------------- MODULE RingProofs -----------------------------
(* The properties of the run on small circles, for every circle, every     *)
(* number of nodes and of replicas, and every history of a view.           *)
EXTENDS MCConsistentHash, ConsistentHashProofs, FiniteSetTheorems

(* What a history never leaves: the nodes have their replicas, and the     *)
(* view holds some of them.                                                *)
RingInv ==
    /\ points \in [Nodes -> (SUBSET Circle) \ {{}}]
    /\ view \in Views
    /\ hash \in Circle

(* The views make rings, within the same bounds.                           *)
LEMMA ViewsMakeRings ==
    ASSUME RingInv
    PROVE  \E last, lowest : \A nodes \in Views : Ring(points, nodes, last, lowest)
<1>1. PICK last \in Nodes : \A n \in Nodes : n <= last
  BY CircleAssumption
<1>2. PICK lowest \in Circle, highest \in Circle : Circle = lowest..highest
  BY CircleAssumption
<1>3. lowest \in Int /\ highest \in Int /\ last \in Nat
  BY <1>1, <1>2, CircleAssumption
<1>4. ASSUME NEW nodes \in Views PROVE Ring(points, nodes, last, lowest)
  <2>1. nodes # {} /\ nodes \subseteq 0..last
    BY <1>1, <1>3, CircleAssumption DEF Views
  <2>2. \A n \in nodes : points[n] \subseteq Circle /\ points[n] # {}
    BY DEF RingInv, Views
  <2>3. \A n \in nodes : /\ points[n] # {} /\ points[n] \subseteq Int
                         /\ \A p \in points[n] : lowest <= p
    BY <1>2, <1>3, <2>2
  <2> QED BY <1>3, <2>1, <2>3 DEF Ring
<1> QED BY <1>4

LEMMA RingInit == ASSUME Init PROVE RingInv
<1>1. \A s \in SUBSET Circle : Cardinality(s) \in 1..MaxReplicas => s # {}
  BY FS_EmptySet, CircleAssumption
<1>2. points \in [Nodes -> (SUBSET Circle) \ {{}}]
  BY <1>1 DEF Init
<1> QED BY <1>2 DEF Init, RingInv

LEMMA RingNext == ASSUME RingInv, [Next]_vars PROVE RingInv'
BY DEF RingInv, Next, Join, Leave, vars, Views

----------------------------------------------------------------------------
(* The order in which getNode() looks at positions is that of their        *)
(* distance clockwise from the hash.                                       *)
LEMMA NearerIsEarlier ==
    ASSUME NEW p \in Circle, NEW q \in Circle, hash \in Circle
    PROVE  /\ NoLater(p, q, hash) => Distance(p) <= Distance(q)
           /\ Distance(p) <= Distance(q) /\ Distance(q) <= Distance(p) => p = q
<1>1. PICK lowest \in Circle, highest \in Circle : Circle = lowest..highest
  BY CircleAssumption
<1> DEFINE k == Cardinality(Circle)
<1>2. lowest \in Int /\ highest \in Int /\ lowest <= highest
  BY <1>1, CircleAssumption
<1>3. k = highest - lowest + 1
  BY <1>1, <1>2, FS_Interval
<1>4. k \in Nat /\ k > 0
  BY <1>2, <1>3
<1> HIDE DEF k
<1>5. ASSUME NEW r \in Circle
      PROVE  (r - hash) % k = IF r >= hash THEN r - hash ELSE r - hash + k
  <2>1. r \in Int /\ hash \in Int /\ r - hash < k /\ r - hash > -k
    BY <1>1, <1>2, <1>3
  <2>2. CASE r >= hash
    <3>1. r - hash \in 0..(k - 1)
      BY <1>4, <2>1, <2>2
    <3> QED BY <1>4, <2>2, <3>1
  <2>3. CASE ~(r >= hash)
    <3>1. r - hash \in Int /\ r - hash < 0
      BY <2>1, <2>3
    <3> QED BY <1>4, <2>1, <2>3, <3>1
  <2> QED BY <2>2, <2>3
<1>6. /\ Distance(p) = IF p >= hash THEN p - hash ELSE p - hash + k
      /\ Distance(q) = IF q >= hash THEN q - hash ELSE q - hash + k
  BY <1>5 DEF Distance, k
<1>7. /\ p \in Int /\ q \in Int /\ hash \in Int
      /\ p - hash < k /\ q - hash < k /\ p - q < k /\ q - p < k
  BY <1>1, <1>2, <1>3
<1> QED BY <1>4, <1>6, <1>7 DEF NoLater

(* getNode() returns the nearest node clockwise from the hash, and of      *)
(* several equally near the one that was added last.                       *)
THEOREM OwnersNearest == Spec => []OwnerIsNearest
<1>1. ASSUME RingInv PROVE OwnerIsNearest
  <2> DEFINE owner == GetNode(points, view, hash)
  <2>1. hash \in Int /\ hash \in Circle /\ view \in Views
    BY <1>1, CircleAssumption DEF RingInv
  <2>2. PICK p \in Int :
           /\ owner \in view /\ p \in points[owner]
           /\ \A m \in view : /\ p \in points[m] => m <= owner
                              /\ \A q \in points[m] : NoLater(p, q, hash)
    BY <1>1, <2>1, ViewsMakeRings, OwnerIsFirst
  <2> HIDE DEF owner
  <2>3. \A m \in view : points[m] \subseteq Circle
    BY <1>1 DEF RingInv, Views
  <2>4. p \in Circle
    BY <2>2, <2>3
  <2>5. \A m \in view : \A q \in points[m] : Distance(p) <= Distance(q)
    BY <2>1, <2>2, <2>3, <2>4, NearerIsEarlier
  <2>6. Nearest(owner)
    BY <2>2, <2>5 DEF Nearest
  <2>7. ASSUME NEW n \in view, Nearest(n) PROVE n <= owner
    <3>1. PICK q \in points[n] : \A m \in view : \A r \in points[m] :
                                    Distance(q) <= Distance(r)
      BY <2>7 DEF Nearest
    <3>2. Distance(q) <= Distance(p) /\ Distance(p) <= Distance(q) /\ q \in Circle
      BY <2>2, <2>3, <2>5, <3>1
    <3>3. p = q
      BY <2>1, <2>4, <3>2, NearerIsEarlier
    <3> QED BY <2>2, <3>3
  <2> QED BY <2>2, <2>6, <2>7 DEF OwnerIsNearest, owner
<1> QED BY <1>1, RingInit, RingNext, PTL DEF Spec

(* Two workers whose views contain each other never both own a service     *)
(* (isProcessNode()).                                                      *)
THEOREM NeverShared == Spec => []NothingShared
<1>1. ASSUME RingInv PROVE NothingShared
  <2> SUFFICES ASSUME NEW view2 \in Views,
                      GetNode(points, view, hash) \in view2,
                      GetNode(points, view2, hash) \in view
               PROVE  GetNode(points, view, hash) = GetNode(points, view2, hash)
    BY DEF NothingShared
  <2>1. hash \in Int /\ view \in Views
    BY <1>1, CircleAssumption DEF RingInv
  <2> QED BY <1>1, <2>1, ViewsMakeRings, SeenShareNothing
<1> QED BY <1>1, RingInit, RingNext, PTL DEF Spec

(* A worker that joins takes services only for itself, one that leaves     *)
(* gives up only its own.                                                  *)
THEOREM LittleMoved == Spec => LittleMoves
<1> DEFINE Kept == GetNode(points, view, hash)' # GetNode(points, view, hash) =>
          \E n \in Nodes : \/ view' = view \cup {n} /\ GetNode(points, view, hash)' = n
                           \/ view = view' \cup {n} /\ GetNode(points, view, hash) = n
<1>1. ASSUME RingInv, [Next]_vars PROVE [Kept]_vars
  <2>1. hash \in Int /\ view \in Views /\ view' \in Views
    BY <1>1, RingNext, CircleAssumption DEF RingInv
  <2>2. PICK last, lowest : \A nodes \in Views : Ring(points, nodes, last, lowest)
    BY <1>1, ViewsMakeRings
  <2>3. ASSUME NEW n \in Nodes, Join(n) PROVE Kept
    <3>1. view' = view \cup {n} /\ points' = points /\ hash' = hash
      BY <2>3 DEF Join
    <3>2. Ring(points, view, last, lowest) /\ Ring(points, view \cup {n}, last, lowest)
      BY <2>1, <2>2, <3>1
    <3>3. GetNode(points, view \cup {n}, hash) \in {n, GetNode(points, view, hash)}
      BY <2>1, <3>2, MinimalDisruption
    <3>4. GetNode(points, view, hash)' = GetNode(points, view \cup {n}, hash)
      BY <3>1
    <3> QED BY <3>1, <3>3, <3>4
  <2>4. ASSUME NEW n \in Nodes, Leave(n) PROVE Kept
    <3>1. view = view' \cup {n} /\ points' = points /\ hash' = hash
      BY <2>4 DEF Leave
    <3>2. Ring(points, view', last, lowest) /\ Ring(points, view' \cup {n}, last, lowest)
      BY <2>1, <2>2, <3>1
    <3>3. GetNode(points, view' \cup {n}, hash) \in {n, GetNode(points, view', hash)}
      BY <2>1, <3>2, MinimalDisruption
    <3>4. GetNode(points, view, hash)' = GetNode(points, view', hash)
      BY <3>1
    <3> QED BY <3>1, <3>3, <3>4
  <2> HIDE DEF Kept
  <2> QED BY <1>1, <2>3, <2>4 DEF Next
<1>2. RingInv /\ [Next]_vars => RingInv'
  BY RingNext
<1>3. Init => RingInv
  BY RingInit
<1> QED BY <1>1, <1>2, <1>3, PTL DEF Spec, LittleMoves
=============================================================================
