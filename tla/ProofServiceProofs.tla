-------------------------- MODULE ProofServiceProofs --------------------------
(***************************************************************************)
(* Proofs about ProofService: every tree that create-merkle-tree makes is  *)
(* valid and holds what its lines give, nothing of the list is lost on the *)
(* way, and what the server and the key value store serve are the proofs   *)
(* of everybody named in it; and the list tools leave every key that the   *)
(* source has, with what is offered for it, from the list to the server.   *)
(***************************************************************************)
EXTENDS ProofService, DataProofs

(* A function on 1 .. n is a sequence of its own elements.                 *)
LEMMA OwnSeq ==
    ASSUME NEW n \in Nat, NEW s, s = [k \in 1 .. n |-> s[k]]
    PROVE  s \in Seq(ToSet(s)) /\ Len(s) = n /\ DOMAIN s = 1 .. n
<1>1. s \in [1 .. n -> ToSet(s)]
  BY DEF ToSet
<1> DEFINE S == ToSet(s)
<1> HIDE DEF S
<1>2. s \in [1 .. n -> S]
  BY <1>1 DEF S
<1>3. s \in Seq(S) /\ Len(s) = n /\ DOMAIN s = 1 .. n
  BY <1>2
<1>4. QED
  BY <1>3 DEF S

LEMMA SeqIs ==
    ASSUME NEW s, s \in Seq(ToSet(s))
    PROVE  /\ Len(s) \in Nat /\ DOMAIN s = 1 .. Len(s)
           /\ s = [k \in 1 .. Len(s) |-> s[k]]
           /\ \A k \in 1 .. Len(s) : s[k] \in ToSet(s)
           /\ \A x \in ToSet(s) : \E k \in 1 .. Len(s) : s[k] = x
           /\ s # <<>> <=> Len(s) > 0
<1> DEFINE S == ToSet(s)
<1> HIDE DEF S
<1>1. s \in Seq(S)
  BY DEF S
<1>2. /\ Len(s) \in Nat /\ DOMAIN s = 1 .. Len(s)
      /\ s = [k \in 1 .. Len(s) |-> s[k]]
      /\ \A k \in 1 .. Len(s) : s[k] \in S
      /\ s # <<>> <=> Len(s) > 0
  BY <1>1, LenProperties, EmptySeq
<1>3. \A x \in S : \E k \in 1 .. Len(s) : s[k] = x
  BY <1>1, SeqToSet DEF S
<1>4. QED
  BY <1>2, <1>3 DEF S

(* Every set of numbers that is not empty has a least element.             *)
LEMMA LeastOf ==
    ASSUME NEW S \in SUBSET Nat, S # {}
    PROVE  \E x \in S : \A y \in S : x <= y
<1>1. PICK x \in S : \A y \in S : ~(<<y, x>> \in OpToRel(<, Nat))
  BY NatLessThanWellFounded, WFMin
<1>2. ASSUME NEW y \in S
      PROVE  x <= y
  <2>1. x \in Nat /\ y \in Nat
    OBVIOUS
  <2>2. ~(y < x)
    BY <1>1, <2>1 DEF OpToRel
  <2>3. QED
    BY <2>1, <2>2, SMT
<1>3. QED
  BY <1>2

--------------------------------------------------------------------------------
(* InOrder and Picked *)

\* b goes through S once.
Lists(b, n, S) ==
    /\ n \in Nat /\ b \in [1 .. n -> S]
    /\ \A q, r \in 1 .. n : b[q] = b[r] => q = r
    /\ \A k \in S : \E r \in 1 .. n : b[r] = k

(* Where the keys differ, InOrder goes through the set once.               *)
LEMMA InOrderLists ==
    ASSUME NEW S, IsFiniteSet(S), NEW key \in [S -> Nat],
           \A j, k \in S : key[j] = key[k] => j = k
    PROVE  /\ Lists(InOrder(S, key), Cardinality(S), S)
           /\ \A q, r \in 1 .. Cardinality(S) :
                q < r => key[InOrder(S, key)[q]] < key[InOrder(S, key)[r]]
<1> DEFINE n == Cardinality(S)
           below(k) == {j \in S : key[j] <= key[k]}
           rank == [k \in S |-> Cardinality(below(k))]
<1>1. n \in Nat
  BY FS_CardinalityType
<1>2. ASSUME NEW k \in S
      PROVE  rank[k] \in 1 .. n
  <2>1. below(k) \in SUBSET S /\ k \in below(k)
    OBVIOUS
  <2> HIDE DEF below
  <2>2. IsFiniteSet(below(k)) /\ Cardinality(below(k)) <= n
    BY <2>1, FS_Subset
  <2>3. Cardinality(below(k)) \in Nat /\ Cardinality(below(k)) # 0
    BY <2>1, <2>2, FS_CardinalityType, FS_EmptySet
  <2> HIDE DEF n
  <2>4. Cardinality(below(k)) \in 1 .. n
    BY <1>1, <2>2, <2>3, SMT
  <2>5. QED
    BY <2>4
<1>3. ASSUME NEW j \in S, NEW k \in S, key[j] < key[k]
      PROVE  rank[j] # rank[k]
  <2>1. below(j) \in SUBSET below(k) /\ k \in below(k) /\ ~(k \in below(j))
    <3>1. \A x, y, z \in Nat : /\ x <= y /\ y < z => x <= z
                               /\ y < z => ~(z <= y)
      BY SMT
    <3>2. QED
      BY <1>3, <3>1
  <2>2. below(k) \in SUBSET S
    OBVIOUS
  <2> HIDE DEF below
  <2>3. IsFiniteSet(below(k))
    BY <2>2, FS_Subset
  <2>4. Cardinality(below(j)) # Cardinality(below(k))
    BY <2>1, <2>3, FS_Subset
  <2>5. QED
    BY <2>4
<1>4. \A j, k \in S : rank[j] = rank[k] => j = k
  <2>1. \A j, k \in S : key[j] < key[k] \/ key[k] < key[j] \/ key[j] = key[k]
    <3>1. \A x, y \in Nat : x < y \/ y < x \/ x = y
      BY SMT
    <3>2. QED
      BY <3>1
  <2> HIDE DEF rank
  <2>2. QED
    BY <1>3, <2>1
<1>5. \A r \in 1 .. n : \E k \in S : rank[k] = r
  <2>1. rank \in [S -> 1 .. n]
    BY <1>2
  <2> HIDE DEF rank
  <2>2. rank \in Injection(S, 1 .. n)
    BY <1>4, <2>1 DEF Injection, IsInjective
  <2>3. IsFiniteSet(1 .. n) /\ Cardinality(1 .. n) = n
    <3> HIDE DEF n
    <3>1. QED
      BY <1>1, FS_Interval, SMT
  <2>4. rank \in Surjection(S, 1 .. n)
    BY <2>2, <2>3, FS_Injection
  <2>5. QED
    BY <2>4 DEF Surjection
<1> DEFINE order == InOrder(S, key)
<1>6. order = [r \in 1 .. n |-> CHOOSE k \in S : Cardinality(below(k)) = r]
  BY DEF InOrder
<1>7. \A k \in S : rank[k] = Cardinality(below(k))
  OBVIOUS
<1> HIDE DEF order, rank, n, below
<1>8. \A r \in 1 .. n : order[r] \in S /\ rank[order[r]] = r
  <2>1. \A r \in 1 .. n : \E k \in S : Cardinality(below(k)) = r
    BY <1>5, <1>7
  <2>2. QED
    BY <1>6, <1>7, <2>1
<1>9. \A k \in S : order[rank[k]] = k
  BY <1>2, <1>4, <1>8
<1>10. order \in [1 .. n -> S]
  BY <1>6, <1>8
<1>11. Lists(order, n, S)
  BY <1>1, <1>2, <1>8, <1>9, <1>10 DEF Lists
<1>12. ASSUME NEW q \in 1 .. n, NEW r \in 1 .. n, q < r
       PROVE  key[order[q]] < key[order[r]]
  <2>1. order[q] \in S /\ order[r] \in S /\ rank[order[q]] = q /\ rank[order[r]] = r
    BY <1>8
  <2>2. key[order[q]] <= key[order[r]] /\ key[order[q]] # key[order[r]]
    <3>1. CASE key[order[r]] < key[order[q]]
      <4>1. below(order[r]) \in SUBSET below(order[q])
        <5>1. \A x, y, z \in Nat : x <= y /\ y < z => x <= z
          BY SMT
        <5>2. QED
          BY <2>1, <3>1, <5>1 DEF below
      <4>2. below(order[q]) \in SUBSET S
        BY DEF below
      <4>3. Cardinality(below(order[r])) <= Cardinality(below(order[q]))
        BY <4>1, <4>2, FS_Subset
      <4>4. r <= q
        BY <1>7, <2>1, <4>3
      <4>5. QED
        BY <1>1, <1>12, <4>4, SMT
    <3>2. CASE key[order[r]] = key[order[q]]
      <4>1. order[r] = order[q]
        BY <2>1, <3>2
      <4>2. QED
        BY <1>1, <1>12, <2>1, <4>1, SMT
    <3>3. \A x, y \in Nat : x < y \/ x = y \/ (y <= x /\ y # x)
      BY SMT
    <3>4. QED
      BY <2>1, <3>1, <3>2, <3>3
  <2>3. \A x, y \in Nat : x <= y /\ x # y => x < y
    BY SMT
  <2>4. QED
    BY <2>1, <2>2, <2>3
<1>13. QED
  BY <1>11, <1>12 DEF order, n

\* Indices in their order.
Ascending(indices) == InOrder(indices, [k \in indices |-> k])

(* Picked is what the sequence holds at the indices, each once.            *)
LEMMA PickedLists ==
    ASSUME NEW n \in Nat, NEW s, NEW indices \in SUBSET (1 .. n)
    PROVE  /\ Lists(Ascending(indices), Cardinality(indices), indices)
           /\ Picked(s, indices) = [r \in 1 .. Cardinality(indices) |->
                                       s[Ascending(indices)[r]]]
           /\ \A q, r \in 1 .. Cardinality(indices) :
                q < r => Ascending(indices)[q] < Ascending(indices)[r]
<1> DEFINE key == [k \in indices |-> k]
           b == Ascending(indices)
           m == Cardinality(indices)
<1>1. IsFiniteSet(indices)
  <2>1. IsFiniteSet(1 .. n)
    BY FS_Interval, SMT
  <2>2. QED
    BY <2>1, FS_Subset
<1>2. key \in [indices -> Nat] /\ \A j, k \in indices : key[j] = key[k] => j = k
  BY SMT
<1>3. /\ Lists(b, m, indices)
      /\ \A q, r \in 1 .. m : q < r => key[b[q]] < key[b[r]]
  <2> HIDE DEF key
  <2>1. QED
    BY <1>1, <1>2, InOrderLists DEF key, Ascending
<1>4. Picked(s, indices) = [r \in DOMAIN b |-> s[b[r]]]
  BY DEF Picked, Ascending
<1>5. DOMAIN b = 1 .. m /\ \A r \in 1 .. m : key[b[r]] = b[r]
  BY <1>3 DEF Lists
<1>6. QED
  BY <1>3, <1>4, <1>5

--------------------------------------------------------------------------------
(* Totals of nodes *)

Values(nodes, field) == [k \in DOMAIN nodes |-> nodes[k][field]]

LEMMA NodesAre ==
    ASSUME NEW nodes, AreNodes(nodes)
    PROVE  /\ Len(nodes) \in Nat /\ DOMAIN nodes = 1 .. Len(nodes)
           /\ nodes = [k \in 1 .. Len(nodes) |-> nodes[k]]
           /\ IsFiniteSet(DOMAIN nodes)
           /\ \A k \in DOMAIN nodes : /\ nodes[k] \in ToSet(nodes)
                                      /\ nodes[k].amount \in Nat
                                      /\ nodes[k].locked_amount \in Nat
           /\ \A x \in ToSet(nodes) : \E k \in DOMAIN nodes : nodes[k] = x
<1>1. /\ Len(nodes) \in Nat /\ DOMAIN nodes = 1 .. Len(nodes)
      /\ nodes = [k \in 1 .. Len(nodes) |-> nodes[k]]
      /\ \A k \in 1 .. Len(nodes) : nodes[k] \in ToSet(nodes)
      /\ \A x \in ToSet(nodes) : \E k \in 1 .. Len(nodes) : nodes[k] = x
  BY SeqIs DEF AreNodes
<1>2. IsFiniteSet(1 .. Len(nodes))
  BY <1>1, FS_Interval, SMT
<1>3. QED
  BY <1>1, <1>2 DEF AreNodes

(* What it takes to be nodes, for a function on 1 .. n.                    *)
LEMMA NodesFrom ==
    ASSUME NEW n \in Nat, NEW nodes, nodes = [k \in 1 .. n |-> nodes[k]],
           \A k \in 1 .. n : nodes[k].amount \in Nat /\ nodes[k].locked_amount \in Nat
    PROVE  AreNodes(nodes) /\ Len(nodes) = n /\ DOMAIN nodes = 1 .. n
<1>1. nodes \in Seq(ToSet(nodes)) /\ Len(nodes) = n /\ DOMAIN nodes = 1 .. n
  BY OwnSeq
<1>2. \A x \in ToSet(nodes) : \E k \in 1 .. n : nodes[k] = x
  BY <1>1 DEF ToSet
<1>3. QED
  BY <1>1, <1>2 DEF AreNodes

LEMMA TotalIs ==
    ASSUME NEW nodes, AreNodes(nodes), NEW I \in SUBSET DOMAIN nodes, NEW field \in Fields
    PROVE  /\ TotalAt(nodes, I, field) = SumOf(Values(nodes, field), I)
           /\ TotalAt(nodes, I, field) \in Nat
           /\ Values(nodes, field) \in [DOMAIN nodes -> Nat]
           /\ \A k \in DOMAIN nodes : Values(nodes, field)[k] = nodes[k][field]
<1>1. TotalAt(nodes, I, field) = SumOf(Values(nodes, field), I)
  BY SumFunctionIs DEF TotalAt, Values
<1>2. /\ Values(nodes, field) \in [DOMAIN nodes -> Nat]
      /\ \A k \in DOMAIN nodes : Values(nodes, field)[k] = nodes[k][field]
  <2>1. \A k \in DOMAIN nodes : nodes[k][field] \in Nat
    <3>1. ASSUME NEW k \in DOMAIN nodes
          PROVE  nodes[k][field] \in Nat
      <4>1. nodes[k].amount \in Nat /\ nodes[k].locked_amount \in Nat
        BY NodesAre
      <4>2. field \in {"amount", "locked_amount"}
        BY DEF Fields
      <4>3. QED
        BY <4>1, <4>2
    <3>2. QED
      BY <3>1
  <2>2. QED
    BY <2>1 DEF Values
<1>3. IsFiniteSet(DOMAIN nodes)
  BY NodesAre
<1>4. SumOf(Values(nodes, field), I) \in Nat
  BY <1>2, <1>3, SumStep
<1>5. QED
  BY <1>1, <1>2, <1>4

(* The same amounts at other indices have the same total.                  *)
LEMMA TotalMoved ==
    ASSUME NEW nodes, AreNodes(nodes), NEW I \in SUBSET DOMAIN nodes,
           NEW others, AreNodes(others), NEW J \in SUBSET DOMAIN others,
           NEW field \in Fields, NEW b \in [I -> J],
           \A j, k \in I : b[j] = b[k] => j = k,
           \A j \in J : \E k \in I : b[k] = j,
           \A k \in I : nodes[k][field] = others[b[k]][field]
    PROVE  TotalAt(nodes, I, field) = TotalAt(others, J, field)
<1> DEFINE g == Values(nodes, field)
           w == Values(others, field)
<1>1. /\ TotalAt(nodes, I, field) = SumOf(g, I) /\ g \in [DOMAIN nodes -> Nat]
      /\ \A k \in DOMAIN nodes : g[k] = nodes[k][field]
  BY TotalIs
<1>2. /\ TotalAt(others, J, field) = SumOf(w, J) /\ w \in [DOMAIN others -> Nat]
      /\ \A k \in DOMAIN others : w[k] = others[k][field]
  BY TotalIs
<1>3. IsFiniteSet(DOMAIN nodes) /\ IsFiniteSet(DOMAIN others)
  BY NodesAre
<1>4. \A k \in I : g[k] = w[b[k]]
  <2>1. \A k \in I : k \in DOMAIN nodes /\ b[k] \in DOMAIN others
    OBVIOUS
  <2>2. QED
    BY <1>1, <1>2, <2>1
<1> HIDE DEF g, w
<1>5. SumOf(g, I) = SumOf(w, J)
  BY <1>1, <1>2, <1>3, <1>4, SumMoved
<1>6. QED
  BY <1>1, <1>2, <1>5

(* The parts of nodes that are cut in two add up.                          *)
LEMMA TotalOfParts ==
    ASSUME NEW nodes, AreNodes(nodes), NEW left, AreNodes(left), NEW right, AreNodes(right),
           Len(nodes) = Len(left) + Len(right),
           \A k \in 1 .. Len(left) : nodes[k] = left[k],
           \A k \in 1 .. Len(right) : nodes[Len(left) + k] = right[k],
           NEW claimant, NEW field \in Fields
    PROVE  /\ TotalOf(left, claimant, field) \in Nat
           /\ TotalOf(right, claimant, field) \in Nat
           /\ TotalOf(nodes, claimant, field)
                = TotalOf(left, claimant, field) + TotalOf(right, claimant, field)
<1> DEFINE n == Len(left)
           m == Len(right)
           L == Of(left, claimant)
           R == Of(right, claimant)
           S == {n + k : k \in R}
           I == Of(nodes, claimant)
<1>1. /\ n \in Nat /\ m \in Nat /\ DOMAIN left = 1 .. n /\ DOMAIN right = 1 .. m
      /\ DOMAIN nodes = 1 .. n + m /\ IsFiniteSet(DOMAIN nodes)
  BY NodesAre
<1>2. /\ L = {k \in 1 .. n : left[k].claimant = claimant}
      /\ R = {k \in 1 .. m : right[k].claimant = claimant}
      /\ I = {k \in 1 .. n + m : nodes[k].claimant = claimant}
  BY <1>1 DEF Of
<1> HIDE DEF n, m, L, R, I
<1>3. \A k \in 1 .. n : k \in 1 .. n + m /\ nodes[k] = left[k]
  BY <1>1, SMT DEF n
<1>4. \A k \in 1 .. m : n + k \in 1 .. n + m /\ n + k \notin 1 .. n /\ nodes[n + k] = right[k]
  <2>1. \A k \in 1 .. m : n + k \in 1 .. n + m /\ n + k \notin 1 .. n
    BY <1>1, SMT
  <2>2. QED
    BY <2>1 DEF n, m
<1>5. I = L \cup S /\ L \cap S = {} /\ L \in SUBSET DOMAIN nodes /\ S \in SUBSET DOMAIN nodes
  <2>1. ASSUME NEW k \in I
        PROVE  k \in L \cup S
    <3>1. CASE k \in 1 .. n
      BY <1>2, <1>3, <3>1
    <3>2. CASE k \notin 1 .. n
      <4>1. k - n \in 1 .. m /\ n + (k - n) = k
        BY <1>1, <1>2, <3>2, SMT
      <4>2. k - n \in R
        BY <1>2, <1>4, <4>1
      <4>3. QED
        BY <4>1, <4>2
    <3>3. QED
      BY <3>1, <3>2
  <2>2. ASSUME NEW k \in L
        PROVE  k \in I /\ k \in 1 .. n
    BY <1>2, <1>3
  <2>3. ASSUME NEW k \in S
        PROVE  k \in I /\ k \notin 1 .. n
    BY <1>2, <1>4
  <2>4. I \in SUBSET DOMAIN nodes
    BY <1>1, <1>2
  <2>5. QED
    BY <2>1, <2>2, <2>3, <2>4
<1> HIDE DEF S
<1>6. TotalAt(nodes, I, field) = TotalAt(nodes, L, field) + TotalAt(nodes, S, field)
  <2> DEFINE g == Values(nodes, field)
  <2>1. /\ g \in [DOMAIN nodes -> Nat]
        /\ \A T \in SUBSET DOMAIN nodes : TotalAt(nodes, T, field) = SumOf(g, T)
    BY TotalIs
  <2> DEFINE D == DOMAIN nodes
  <2>2. IsFiniteSet(D) /\ g \in [D -> Nat]
    BY <1>1, <2>1
  <2>3. L \in SUBSET D /\ S \in SUBSET D /\ L \cap S = {}
    BY <1>5
  <2> HIDE DEF g, D
  <2>4. SumOf(g, L \cup S) = SumOf(g, L) + SumOf(g, S)
    BY <2>2, <2>3, SumOfUnion
  <2>5. I \in SUBSET D
    BY <1>5 DEF D
  <2>6. QED
    BY <1>5, <2>1, <2>3, <2>4, <2>5 DEF D
<1>7. TotalAt(left, L, field) = TotalAt(nodes, L, field)
  <2> DEFINE b == [k \in L |-> k]
  <2>1. /\ b \in [L -> L] /\ \A j, k \in L : b[j] = b[k] => j = k
        /\ \A j \in L : \E k \in L : b[k] = j
        /\ \A k \in L : left[k][field] = nodes[b[k]][field]
    BY <1>2, <1>3
  <2>2. L \in SUBSET DOMAIN left
    BY <1>1, <1>2
  <2> HIDE DEF b
  <2>3. QED
    BY <1>5, <2>1, <2>2, TotalMoved, SMTT(30)
<1>8. TotalAt(right, R, field) = TotalAt(nodes, S, field)
  <2> DEFINE b == [k \in R |-> n + k]
  <2>1. /\ b \in [R -> S]
        /\ \A j \in S : \E k \in R : b[k] = j
        /\ \A k \in R : right[k][field] = nodes[b[k]][field]
    BY <1>2, <1>4 DEF S
  <2>2. \A j, k \in R : b[j] = b[k] => j = k
    <3>1. \A j, k \in 1 .. m : n + j = n + k => j = k
      BY <1>1, SMT
    <3>2. QED
      BY <1>2, <3>1
  <2>3. R \in SUBSET DOMAIN right
    BY <1>1, <1>2
  <2> HIDE DEF b
  <2>4. QED
    BY <1>5, <2>1, <2>2, <2>3, TotalMoved
<1>9. TotalAt(left, L, field) \in Nat /\ TotalAt(right, R, field) \in Nat
  <2>1. L \in SUBSET DOMAIN left /\ R \in SUBSET DOMAIN right
    BY <1>1, <1>2
  <2>2. QED
    BY <2>1, TotalIs
<1>10. QED
  BY <1>6, <1>7, <1>8, <1>9 DEF TotalOf, L, R, I

--------------------------------------------------------------------------------
(* AirdropMerkleTree::new *)

(* The claimants of nodes, and whom a total is of.                         *)
LEMMA NamesAre ==
    ASSUME NEW nodes, AreNodes(nodes)
    PROVE  /\ \A k \in DOMAIN nodes : nodes[k].claimant \in Names(nodes)
           /\ \A c \in Names(nodes) : \E k \in DOMAIN nodes : nodes[k].claimant = c
           /\ \A c : /\ Of(nodes, c) \in SUBSET DOMAIN nodes
                     /\ Of(nodes, c) = {} <=> c \notin Names(nodes)
<1>1. /\ \A k \in DOMAIN nodes : nodes[k] \in ToSet(nodes)
      /\ \A x \in ToSet(nodes) : \E k \in DOMAIN nodes : nodes[k] = x
  BY NodesAre
<1>2. /\ \A k \in DOMAIN nodes : nodes[k].claimant \in Names(nodes)
      /\ \A c \in Names(nodes) : \E k \in DOMAIN nodes : nodes[k].claimant = c
  BY <1>1 DEF Names
<1>3. QED
  BY <1>2 DEF Of

LEMMA TotalOfNobody ==
    ASSUME NEW nodes, AreNodes(nodes), NEW claimant, claimant \notin Names(nodes),
           NEW field \in Fields
    PROVE  TotalOf(nodes, claimant, field) = 0
<1>1. Of(nodes, claimant) = {} /\ {} \in SUBSET DOMAIN nodes
  BY NamesAre
<1>2. TotalAt(nodes, {}, field) = SumOf(Values(nodes, field), {})
  BY <1>1, TotalIs
<1>3. SumOf(Values(nodes, field), {}) = 0
  <2>1. IsFiniteSet(DOMAIN nodes) /\ Values(nodes, field) \in [DOMAIN nodes -> Nat]
    BY <1>1, NodesAre, TotalIs
  <2> DEFINE D == DOMAIN nodes
             g == Values(nodes, field)
  <2>2. IsFiniteSet(D) /\ g \in [D -> Nat] /\ {} \in SUBSET D
    BY <2>1
  <2> HIDE DEF D, g
  <2>3. SumOf(g, {}) = 0
    BY <2>2, SumStep
  <2>4. QED
    BY <2>3 DEF g
<1>4. QED
  BY <1>1, <1>2, <1>3 DEF TotalOf

(* One node of each claimant, with the sums of all that it had.            *)
LEMMA CombinedIs ==
    ASSUME NEW nodes, AreNodes(nodes)
    PROVE  LET tree_nodes == Combined(nodes)
           IN  /\ AreNodes(tree_nodes)
               /\ \A j, k \in DOMAIN tree_nodes :
                    tree_nodes[j].claimant = tree_nodes[k].claimant => j = k
               /\ Names(tree_nodes) = Names(nodes)
               /\ \A c : \A field \in Fields :
                    TotalOf(tree_nodes, c, field) = TotalOf(nodes, c, field)
<1> DEFINE n == Len(nodes)
           firsts == FirstNamed(nodes)
           t == Combined(nodes)
           Sum(c, field) == TotalAt(nodes, Of(nodes, c), field)
<1>1. n \in Nat /\ DOMAIN nodes = 1 .. n
  BY NodesAre
<1>2. firsts \in SUBSET (1 .. n)
  BY <1>1 DEF FirstNamed
<1> DEFINE b == Ascending(firsts)
           m == Cardinality(firsts)
<1>3. Lists(b, m, firsts) /\ Picked(nodes, firsts) = [r \in 1 .. m |-> nodes[b[r]]]
  <2> HIDE DEF n, firsts
  <2>1. QED
    BY <1>1, <1>2, PickedLists
<1> HIDE DEF b, m
<1>4. m \in Nat
  BY <1>3 DEF Lists
<1>5. /\ b \in [1 .. m -> firsts]
      /\ \A q, r \in 1 .. m : b[q] = b[r] => q = r
      /\ \A k \in firsts : \E r \in 1 .. m : b[r] = k
  BY <1>3 DEF Lists
<1>6. \A r \in 1 .. m : b[r] \in 1 .. n /\ b[r] \in firsts
  BY <1>2, <1>5
<1>7. t = [r \in 1 .. m |->
             [claimant |-> nodes[b[r]].claimant,
              amount |-> Sum(nodes[b[r]].claimant, "amount"),
              locked_amount |-> Sum(nodes[b[r]].claimant, "locked_amount")]]
  <2> DEFINE first == Picked(nodes, firsts)
  <2>1. t = [r \in DOMAIN first |->
               [claimant |-> first[r].claimant,
                amount |-> Sum(first[r].claimant, "amount"),
                locked_amount |-> Sum(first[r].claimant, "locked_amount")]]
    BY DEF Combined
  <2>2. DOMAIN first = 1 .. m /\ \A r \in 1 .. m : first[r] = nodes[b[r]]
    BY <1>3
  <2> HIDE DEF first, t, Sum
  <2>3. QED
    BY <2>1, <2>2
<1>8. \A c : \A field \in Fields : Sum(c, field) \in Nat
  <2>1. \A c : Of(nodes, c) \in SUBSET DOMAIN nodes
    BY NamesAre
  <2>2. QED
    BY <2>1, TotalIs
<1>9. \A k \in 1 .. n : \E r \in 1 .. m : nodes[b[r]].claimant = nodes[k].claimant
  <2> SUFFICES ASSUME NEW k \in 1 .. n
               PROVE  \E r \in 1 .. m : nodes[b[r]].claimant = nodes[k].claimant
    OBVIOUS
  <2> DEFINE S == Of(nodes, nodes[k].claimant)
  <2>1. S \in SUBSET Nat /\ k \in S /\ S \in SUBSET (1 .. n)
    BY <1>1, SMT DEF Of
  <2> HIDE DEF S
  <2>2. PICK x \in S : \A y \in S : x <= y
    BY <2>1, LeastOf
  <2>3. nodes[x].claimant = nodes[k].claimant
    BY <2>2 DEF S, Of
  <2>4. x \in firsts
    BY <1>1, <2>1, <2>2, <2>3 DEF FirstNamed, S
  <2>5. QED
    BY <1>5, <2>3, <2>4
<1>10. \A q, r \in 1 .. m : nodes[b[q]].claimant = nodes[b[r]].claimant => q = r
  <2> SUFFICES ASSUME NEW q \in 1 .. m, NEW r \in 1 .. m,
                      nodes[b[q]].claimant = nodes[b[r]].claimant
               PROVE  q = r
    OBVIOUS
  <2>1. b[q] \in Of(nodes, nodes[b[r]].claimant) /\ b[r] \in Of(nodes, nodes[b[q]].claimant)
    BY <1>1, <1>6 DEF Of
  <2>2. b[r] <= b[q] /\ b[q] <= b[r]
    BY <1>6, <2>1 DEF FirstNamed
  <2>3. \A x, y \in 1 .. n : x <= y /\ y <= x => x = y
    BY <1>1, SMT
  <2>4. b[q] = b[r]
    BY <1>6, <2>2, <2>3
  <2>5. QED
    BY <1>5, <2>4
<1> HIDE DEF t, Sum, n, firsts
<1>11. AreNodes(t) /\ DOMAIN t = 1 .. m
  <2>1. t = [r \in 1 .. m |-> t[r]]
    BY <1>7
  <2>2. \A r \in 1 .. m : t[r].amount \in Nat /\ t[r].locked_amount \in Nat
    BY <1>7, <1>8 DEF Fields
  <2>3. QED
    BY <1>4, <2>1, <2>2, NodesFrom
<1>12. \A r \in 1 .. m : /\ t[r].claimant = nodes[b[r]].claimant
                         /\ \A field \in Fields : t[r][field] = Sum(t[r].claimant, field)
  BY <1>7 DEF Fields
<1>13. \A j, k \in DOMAIN t : t[j].claimant = t[k].claimant => j = k
  BY <1>10, <1>11, <1>12
<1>14. Names(t) = Names(nodes)
  <2>1. ASSUME NEW c \in Names(t)
        PROVE  c \in Names(nodes)
    <3>1. PICK r \in 1 .. m : t[r].claimant = c
      BY <1>11, NamesAre
    <3>2. QED
      BY <1>1, <1>6, <1>12, <3>1, NamesAre
  <2>2. ASSUME NEW c \in Names(nodes)
        PROVE  c \in Names(t)
    <3>1. PICK k \in 1 .. n : nodes[k].claimant = c
      BY <1>1, NamesAre
    <3>2. PICK r \in 1 .. m : t[r].claimant = c
      BY <1>9, <1>12, <3>1
    <3>3. QED
      BY <1>11, <3>2, NamesAre
  <2>3. QED
    BY <2>1, <2>2
<1>15. ASSUME NEW c, NEW field \in Fields
       PROVE  TotalOf(t, c, field) = TotalOf(nodes, c, field)
  <2>1. CASE c \notin Names(nodes)
    BY <1>11, <1>14, <2>1, TotalOfNobody
  <2>2. CASE c \in Names(nodes)
    <3>1. PICK r \in DOMAIN t : t[r].claimant = c
      BY <1>11, <1>14, <2>2, NamesAre
    <3>2. Of(t, c) = {r}
      BY <1>13, <3>1 DEF Of
    <3>3. TotalAt(t, {r}, field) = t[r][field]
      <4> DEFINE D == DOMAIN t
                 g == Values(t, field)
      <4>1. IsFiniteSet(D) /\ g \in [D -> Nat] /\ g[r] = t[r][field] /\ r \in D
        BY <1>11, <3>1, NodesAre, TotalIs, ZenonT(40)
      <4>2. TotalAt(t, {r}, field) = SumOf(g, {r})
        BY <1>11, <3>1, TotalIs
      <4> HIDE DEF D, g
      <4>3. SumOf(g, {r}) = g[r]
        BY <4>1, SumOfSingle
      <4>4. QED
        BY <4>1, <4>2, <4>3
    <3>4. t[r][field] = Sum(c, field)
      BY <1>11, <1>12, <3>1
    <3>5. QED
      BY <3>2, <3>3, <3>4 DEF TotalOf, Sum
  <2>3. QED
    BY <2>1, <2>2
<1>16. QED
  BY <1>11, <1>13, <1>14, <1>15 DEF t

(* Proofs are added to the nodes; nothing else of them changes.            *)
LEMMA WithProofsIs ==
    ASSUME NEW nodes, AreNodes(nodes)
    PROVE  LET proved == WithProofs(nodes)
           IN  /\ AreNodes(proved) /\ Len(proved) = Len(nodes)
               /\ DOMAIN proved = DOMAIN nodes
               /\ \A k \in DOMAIN nodes :
                    /\ proved[k].claimant = nodes[k].claimant
                    /\ TreeNodeHash(proved[k]) = TreeNodeHash(nodes[k])
                    /\ proved[k].proof = ProofOf(HashedNodes(nodes), TRUE, k - 1)
               /\ HashedNodes(proved) = HashedNodes(nodes)
               /\ Names(proved) = Names(nodes)
               /\ \A c : Of(proved, c) = Of(nodes, c)
               /\ \A I : \A field \in Fields :
                    TotalAt(proved, I, field) = TotalAt(nodes, I, field)
<1> DEFINE n == Len(nodes)
           w == WithProofs(nodes)
           proof(k) == ProofOf(HashedNodes(nodes), TRUE, k - 1)
<1>1. /\ n \in Nat /\ DOMAIN nodes = 1 .. n
      /\ \A k \in 1 .. n : nodes[k].amount \in Nat /\ nodes[k].locked_amount \in Nat
  BY NodesAre
<1>2. w = [k \in 1 .. n |->
             [claimant |-> nodes[k].claimant, amount |-> nodes[k].amount,
              locked_amount |-> nodes[k].locked_amount, proof |-> proof(k)]]
  BY <1>1 DEF WithProofs
<1> HIDE DEF w, n, proof
<1>3. \A k \in 1 .. n : /\ w[k].claimant = nodes[k].claimant
                        /\ w[k].amount = nodes[k].amount
                        /\ w[k].locked_amount = nodes[k].locked_amount
                        /\ w[k].proof = proof(k)
  BY <1>2
<1>4. AreNodes(w) /\ Len(w) = n /\ DOMAIN w = 1 .. n
  <2>1. w = [k \in 1 .. n |-> w[k]]
    BY <1>2
  <2>2. QED
    BY <1>1, <1>3, <2>1, NodesFrom
<1>5. \A k \in 1 .. n : TreeNodeHash(w[k]) = TreeNodeHash(nodes[k])
  BY <1>3 DEF TreeNodeHash
<1>6. HashedNodes(w) = HashedNodes(nodes)
  BY <1>1, <1>4, <1>5 DEF HashedNodes
<1>7. Names(w) = Names(nodes)
  <2>1. /\ \A k \in 1 .. n : /\ w[k].claimant \in Names(w)
                             /\ nodes[k].claimant \in Names(nodes)
        /\ \A c \in Names(w) : \E k \in 1 .. n : w[k].claimant = c
        /\ \A c \in Names(nodes) : \E k \in 1 .. n : nodes[k].claimant = c
    BY <1>1, <1>4, NamesAre
  <2>2. QED
    BY <1>3, <2>1, SMTT(30)
<1>8. \A c : Of(w, c) = Of(nodes, c)
  BY <1>1, <1>3, <1>4 DEF Of
<1>9. ASSUME NEW I, NEW field \in Fields
      PROVE  TotalAt(w, I, field) = TotalAt(nodes, I, field)
  <2>1. \A k \in 1 .. n : w[k][field] = nodes[k][field]
    BY <1>3 DEF Fields
  <2>2. Values(w, field) = Values(nodes, field)
    BY <1>1, <1>4, <2>1 DEF Values
  <2>3. /\ TotalAt(w, I, field) = SumFunctionOnSet(Values(w, field), I)
        /\ TotalAt(nodes, I, field) = SumFunctionOnSet(Values(nodes, field), I)
    BY DEF TotalAt, Values
  <2>4. QED
    BY <2>2, <2>3
<1>10. QED
  BY <1>1, <1>3, <1>4, <1>5, <1>6, <1>7, <1>8, <1>9 DEF w, n, proof

(* The proof that the tree has for a node leads from its hash to the root. *)
LEMMA NodeVerifies ==
    ASSUME NEW nodes, AreNodes(nodes), NEW k \in DOMAIN nodes
    PROVE  verify(ProofOf(HashedNodes(nodes), TRUE, k - 1),
                  RootOf(HashedNodes(nodes), TRUE), TreeNodeHash(nodes[k]))
<1> DEFINE n == Len(nodes)
           leaves == HashedNodes(nodes)
           index == k - 1
<1>1. n \in Nat /\ DOMAIN nodes = 1 .. n /\ k \in 1 .. n
  BY NodesAre
<1>2. leaves = [j \in 1 .. n |-> TreeNodeHash(nodes[j])]
  BY <1>1 DEF HashedNodes
<1> HIDE DEF n
<1>3. Len(leaves) = n
  <2> HIDE DEF leaves
  <2>1. leaves = [j \in 1 .. n |-> leaves[j]]
    BY <1>2
  <2>2. QED
    BY <1>1, <2>1, OwnSeq
<1>4. leaves[k] = TreeNodeHash(nodes[k])
  BY <1>1, <1>2
<1> HIDE DEF leaves
<1>5. n \in Nat \ {0} /\ index \in 0 .. n - 1 /\ index + 1 = k
  BY <1>1, SMT
<1> HIDE DEF index
<1>6. computed_hash(ProofOf(leaves, TRUE, index), leaves[index + 1]) = RootOf(leaves, TRUE)
  BY <1>3, <1>5, ProofLeadsToRoot
<1>7. QED
  BY <1>4, <1>5, <1>6 DEF verify, leaves, index

(* The tree of any nodes passes its validation, and names and gives what   *)
(* they do.                                                                *)
LEMMA NewTreeIs ==
    ASSUME NEW nodes, AreNodes(nodes), nodes # <<>>, NEW version
    PROVE  LET t == NewTree(nodes, version)
           IN  /\ validate(t) /\ IsTree(t) /\ t.airdrop_version = version
               /\ Names(t.tree_nodes) = Names(nodes)
               /\ \A c : \A field \in Fields :
                    TotalOf(t.tree_nodes, c, field) = TotalOf(nodes, c, field)
<1> DEFINE s == Combined(nodes)
           w == WithProofs(s)
           t == NewTree(nodes, version)
<1>1. /\ AreNodes(s)
      /\ \A j, k \in DOMAIN s : s[j].claimant = s[k].claimant => j = k
      /\ Names(s) = Names(nodes)
      /\ \A c : \A field \in Fields : TotalOf(s, c, field) = TotalOf(nodes, c, field)
  BY CombinedIs
<1>2. /\ t.tree_nodes = w /\ t.airdrop_version = version
      /\ t.merkle_root = RootOf(HashedNodes(s), TRUE)
      /\ t.max_num_nodes = Len(s)
      /\ t.total_unlocked_amount = Total(s, "amount")
      /\ t.total_locked_amount = Total(s, "locked_amount")
  BY DEF NewTree
<1> HIDE DEF s, t
<1>3. /\ AreNodes(w) /\ Len(w) = Len(s) /\ DOMAIN w = DOMAIN s
      /\ \A k \in DOMAIN s :
           /\ w[k].claimant = s[k].claimant
           /\ TreeNodeHash(w[k]) = TreeNodeHash(s[k])
           /\ w[k].proof = ProofOf(HashedNodes(s), TRUE, k - 1)
      /\ HashedNodes(w) = HashedNodes(s)
      /\ Names(w) = Names(s)
      /\ \A c : Of(w, c) = Of(s, c)
      /\ \A I : \A field \in Fields : TotalAt(w, I, field) = TotalAt(s, I, field)
  BY <1>1, WithProofsIs
<1> HIDE DEF w
<1>4. \A field \in Fields : Total(w, field) = Total(s, field) /\ Total(s, field) \in Nat
  <2>1. \A field \in Fields : Total(w, field) = Total(s, field)
    BY <1>3 DEF Total
  <2>2. \A field \in Fields : Total(s, field) \in Nat
    BY <1>1, TotalIs DEF Total
  <2>3. QED
    BY <2>1, <2>2
<1>5. "amount" \in Fields /\ "locked_amount" \in Fields
  BY DEF Fields
<1>6. w # <<>>
  <2>1. PICK k \in DOMAIN nodes : TRUE
    <3>1. /\ Len(nodes) \in Nat /\ DOMAIN nodes = 1 .. Len(nodes)
          /\ nodes # <<>> <=> Len(nodes) > 0
      BY SeqIs DEF AreNodes
    <3>2. 1 \in DOMAIN nodes
      BY <3>1, SMT
    <3>3. QED
      BY <3>2
  <2>2. nodes[k].claimant \in Names(w)
    BY <1>1, <1>3, <2>1, NamesAre
  <2>3. PICK j \in DOMAIN w : TRUE
    BY <1>3, <2>2, NamesAre
  <2>4. QED
    BY <2>3
<1>7. IsInjective([k \in DOMAIN w |-> w[k].claimant])
  BY <1>1, <1>3 DEF IsInjective
<1>8. \A k \in DOMAIN w : /\ verify(w[k].proof, t.merkle_root, TreeNodeHash(w[k]))
                          /\ w[k].proof = ProofOf(HashedNodes(w), TRUE, k - 1)
  <2>1. ASSUME NEW k \in DOMAIN s
        PROVE  verify(ProofOf(HashedNodes(s), TRUE, k - 1), t.merkle_root,
                      TreeNodeHash(s[k]))
    BY <1>1, <1>2, NodeVerifies
  <2>2. QED
    BY <1>3, <2>1
<1>9. validate(t)
  <2>1. ProofsVerify(t)
    BY <1>2, <1>8 DEF ProofsVerify
  <2>2. /\ t.total_unlocked_amount = Total(w, "amount")
        /\ t.total_locked_amount = Total(w, "locked_amount")
    BY <1>2, <1>4, <1>5
  <2>3. t.merkle_root = RootOf(HashedNodes(w), TRUE) /\ Len(w) = t.max_num_nodes
    BY <1>2, <1>3
  <2>4. QED
    BY <1>2, <1>7, <2>1, <2>2, <2>3 DEF validate
<1>10. IsTree(t)
  <2>1. get_max_total_claim(t) \in Nat
    BY <1>2, <1>4, <1>5 DEF get_max_total_claim
  <2>2. \A x \in ToSet(w) : verify(x.proof, t.merkle_root, TreeNodeHash(x))
    <3>1. \A x \in ToSet(w) : \E k \in DOMAIN w : w[k] = x
      BY <1>3, NodesAre
    <3>2. QED
      BY <1>8, <3>1
  <2>3. QED
    BY <1>2, <1>3, <1>6, <1>7, <2>1, <2>2 DEF IsTree
<1>11. \A c : \A field \in Fields : TotalOf(w, c, field) = TotalOf(nodes, c, field)
  BY <1>1, <1>3 DEF TotalOf
<1>12. QED
  BY <1>1, <1>2, <1>3, <1>9, <1>10, <1>11 DEF t

--------------------------------------------------------------------------------
(* Lines *)

LEMMA LinesAre ==
    ASSUME NEW entries, AreLines(entries)
    PROVE  /\ Len(entries) \in Nat /\ DOMAIN entries = 1 .. Len(entries)
           /\ entries = [k \in 1 .. Len(entries) |-> entries[k]]
           /\ entries # <<>> <=> Len(entries) > 0
           /\ \A k \in DOMAIN entries :
                /\ entries[k].amount \in Nat
                /\ entries[k].locked_amount \in Nat \cup {NoAmount}
                /\ entries[k].pubkey \in Claimants(entries)
           /\ \A c \in Claimants(entries) : \E k \in DOMAIN entries : entries[k].pubkey = c
<1>1. entries \in Seq(ToSet(entries))
  BY DEF AreLines
<1>2. /\ Len(entries) \in Nat /\ DOMAIN entries = 1 .. Len(entries)
      /\ entries = [k \in 1 .. Len(entries) |-> entries[k]]
      /\ \A k \in 1 .. Len(entries) : entries[k] \in ToSet(entries)
      /\ \A x \in ToSet(entries) : \E k \in 1 .. Len(entries) : entries[k] = x
      /\ entries # <<>> <=> Len(entries) > 0
  BY <1>1, SeqIs
<1>3. QED
  BY <1>2 DEF AreLines, Claimants

LEMMA LinesFrom ==
    ASSUME NEW n \in Nat, NEW entries, entries = [k \in 1 .. n |-> entries[k]],
           \A k \in 1 .. n : /\ entries[k].amount \in Nat
                             /\ entries[k].locked_amount \in Nat \cup {NoAmount}
    PROVE  AreLines(entries) /\ Len(entries) = n /\ DOMAIN entries = 1 .. n
<1>1. entries \in Seq(ToSet(entries)) /\ Len(entries) = n /\ DOMAIN entries = 1 .. n
  BY OwnSeq
<1>2. \A x \in ToSet(entries) : \E k \in 1 .. n : entries[k] = x
  BY <1>1 DEF ToSet
<1>3. QED
  BY <1>1, <1>2 DEF AreLines

LEMMA RoundedDown ==
    ASSUME NEW amount \in Nat
    PROVE  /\ ui_amount_to_token_amount(amount) \in Nat
           /\ ui_amount_to_token_amount(amount) * UiUnit <= amount
<1>1. \A u \in Nat \ {0} : amount \div u \in Nat /\ (amount \div u) * u <= amount
  BY SMT
<1>2. QED
  BY <1>1, UnitAssumption DEF ui_amount_to_token_amount

(* The node of each line.                                                  *)
LEMMA TreeNodesAre ==
    ASSUME NEW entries, AreLines(entries)
    PROVE  LET nodes == TreeNodes(entries)
           IN  /\ AreNodes(nodes) /\ Len(nodes) = Len(entries)
               /\ DOMAIN nodes = DOMAIN entries
               /\ \A k \in DOMAIN entries : nodes[k] = from_csv(entries[k])
               /\ Names(nodes) = Claimants(entries)
               /\ \A c : Of(nodes, c) = {k \in DOMAIN entries : entries[k].pubkey = c}
<1> DEFINE n == Len(entries)
           nodes == TreeNodes(entries)
<1>1. /\ n \in Nat /\ DOMAIN entries = 1 .. n
      /\ \A k \in 1 .. n : /\ entries[k].amount \in Nat
                           /\ entries[k].locked_amount \in Nat \cup {NoAmount}
                           /\ entries[k].pubkey \in Claimants(entries)
      /\ \A c \in Claimants(entries) : \E k \in 1 .. n : entries[k].pubkey = c
  BY LinesAre
<1>2. nodes = [k \in 1 .. n |-> from_csv(entries[k])]
  BY <1>1 DEF TreeNodes
<1> HIDE DEF n, nodes
<1>3. \A k \in 1 .. n : /\ nodes[k].claimant = entries[k].pubkey
                        /\ nodes[k].amount \in Nat /\ nodes[k].locked_amount \in Nat
  <2> SUFFICES ASSUME NEW k \in 1 .. n
               PROVE  /\ nodes[k].claimant = entries[k].pubkey
                      /\ nodes[k].amount \in Nat /\ nodes[k].locked_amount \in Nat
    OBVIOUS
  <2> DEFINE locked == IF entries[k].locked_amount = NoAmount THEN 0
                       ELSE ui_amount_to_token_amount(entries[k].locked_amount)
             amount == ui_amount_to_token_amount(entries[k].amount)
  <2>1. amount \in Nat
    BY <1>1, RoundedDown
  <2>2. locked \in Nat
    BY <1>1, RoundedDown
  <2>3. nodes[k] = [claimant |-> entries[k].pubkey, amount |-> amount,
                    locked_amount |-> locked]
    BY <1>2 DEF from_csv
  <2> HIDE DEF locked, amount
  <2>4. QED
    BY <2>1, <2>2, <2>3
<1>4. AreNodes(nodes) /\ Len(nodes) = n /\ DOMAIN nodes = 1 .. n
  <2>1. nodes = [k \in 1 .. n |-> nodes[k]]
    BY <1>2
  <2>2. QED
    BY <1>1, <1>3, <2>1, NodesFrom
<1>5. Names(nodes) = Claimants(entries)
  <2>1. /\ \A k \in 1 .. n : nodes[k].claimant \in Names(nodes)
        /\ \A c \in Names(nodes) : \E k \in 1 .. n : nodes[k].claimant = c
    BY <1>4, NamesAre
  <2>2. ASSUME NEW c \in Names(nodes)
        PROVE  c \in Claimants(entries)
    BY <1>1, <1>3, <2>1
  <2>3. ASSUME NEW c \in Claimants(entries)
        PROVE  c \in Names(nodes)
    BY <1>1, <1>3, <2>1
  <2>4. QED
    BY <2>2, <2>3
<1>6. \A c : Of(nodes, c) = {k \in 1 .. n : entries[k].pubkey = c}
  BY <1>3, <1>4 DEF Of
<1>7. QED
  BY <1>1, <1>2, <1>4, <1>5, <1>6 DEF nodes, n

(* The lines of the two parts that a list is cut into.                     *)
LEMMA CutAt ==
    ASSUME NEW entries, AreLines(entries), NEW i \in 0 .. Len(entries)
    PROVE  LET n == Len(entries)
               m == n - i
               u == SubSeq(entries, 1, i)
               v == SubSeq(entries, i + 1, n)
           IN  /\ i \in Nat /\ m \in Nat /\ n = i + m
               /\ \A k \in 1 .. i : k \in 1 .. n
               /\ \A k \in 1 .. m : i + k \in 1 .. n
               /\ \A k \in 1 .. n : k \in 1 .. i \/ (k - i \in 1 .. m /\ i + (k - i) = k)
               /\ u = [k \in 1 .. i |-> u[k]] /\ \A k \in 1 .. i : u[k] = entries[k]
               /\ v = [k \in 1 .. m |-> v[k]] /\ \A k \in 1 .. m : v[k] = entries[i + k]
<1> DEFINE n == Len(entries)
           m == n - i
           u == SubSeq(entries, 1, i)
           v == SubSeq(entries, i + 1, n)
<1>1. n \in Nat /\ DOMAIN entries = 1 .. n
  BY LinesAre
<1>2. /\ i \in Nat /\ m \in Nat /\ n = i + m
      /\ \A k \in 1 .. i : k \in 1 .. n
      /\ \A k \in 1 .. m : i + k \in 1 .. n
      /\ \A k \in 1 .. n : k \in 1 .. i \/ (k - i \in 1 .. m /\ i + (k - i) = k)
  <2> HIDE DEF n
  <2>1. QED
    BY <1>1, SMT DEF n
<1>3. /\ u = [k \in 1 .. i |-> u[k]] /\ \A k \in 1 .. i : u[k] = entries[k]
      /\ v = [k \in 1 .. m |-> v[k]] /\ \A k \in 1 .. m : v[k] = entries[i + k]
  <2> DEFINE S == ToSet(entries)
  <2>1. \A k \in 1 .. n : entries[k] \in S
    BY <1>1 DEF ToSet
  <2> HIDE DEF n, m, S
  <2>2. /\ u \in Seq(S) /\ Len(u) = i
        /\ \A k \in 1 .. i : u[k] = entries[k]
    <3>1. \A k \in 1 .. i : entries[k] \in S
      BY <1>2, <2>1
    <3>2. /\ 1 \in Int /\ i \in Int /\ (IF 1 <= i THEN i - 1 + 1 ELSE 0) = i
          /\ i - 1 + 1 = i /\ \A k \in 1 .. i : 1 + k - 1 = k
      BY <1>2, SMT
    <3>3. QED
      BY <3>1, <3>2, SubSeqProperties
  <2>3. /\ v \in Seq(S) /\ Len(v) = m
        /\ \A k \in 1 .. m : v[k] = entries[i + k]
    <3>1. \A k \in i + 1 .. n : entries[k] \in S
      <4>1. \A k \in i + 1 .. n : k \in 1 .. n
        BY <1>1, <1>2, SMT
      <4>2. QED
        BY <2>1, <4>1
    <3>2. /\ i + 1 \in Int /\ n \in Int /\ (IF i + 1 <= n THEN n - (i + 1) + 1 ELSE 0) = m
          /\ n - (i + 1) + 1 = m /\ \A k \in 1 .. m : (i + 1) + k - 1 = i + k
      BY <1>1, <1>2, SMT
    <3>3. QED
      BY <3>1, <3>2, SubSeqProperties
  <2> HIDE DEF u, v
  <2>4. QED
    BY <2>2, <2>3, LenProperties
<1>4. QED
  BY <1>2, <1>3

(* A list that is cut in two.                                              *)
LEMMA CutLines ==
    ASSUME NEW entries, AreLines(entries), NEW i \in 0 .. Len(entries)
    PROVE  LET sub == SubSeq(entries, 1, i)
               rest == SubSeq(entries, i + 1, Len(entries))
           IN  /\ AreLines(sub) /\ Len(sub) = i
               /\ AreLines(rest) /\ Len(rest) = Len(entries) - i
               /\ Claimants(entries) = Claimants(sub) \cup Claimants(rest)
               /\ \A c : \A field \in Fields :
                    /\ TotalOf(TreeNodes(sub), c, field) \in Nat
                    /\ TotalOf(TreeNodes(rest), c, field) \in Nat
                    /\ TotalOf(TreeNodes(entries), c, field)
                         = TotalOf(TreeNodes(sub), c, field)
                             + TotalOf(TreeNodes(rest), c, field)
<1> DEFINE n == Len(entries)
           m == n - i
           u == SubSeq(entries, 1, i)
           v == SubSeq(entries, i + 1, n)
<1>1. /\ n \in Nat /\ DOMAIN entries = 1 .. n
      /\ \A k \in 1 .. n : /\ entries[k].amount \in Nat
                           /\ entries[k].locked_amount \in Nat \cup {NoAmount}
                           /\ entries[k].pubkey \in Claimants(entries)
      /\ \A c \in Claimants(entries) : \E k \in 1 .. n : entries[k].pubkey = c
  BY LinesAre
<1>2. /\ i \in Nat /\ m \in Nat /\ n = i + m
      /\ \A k \in 1 .. i : k \in 1 .. n
      /\ \A k \in 1 .. m : i + k \in 1 .. n
      /\ \A k \in 1 .. n : k \in 1 .. i \/ (k - i \in 1 .. m /\ i + (k - i) = k)
      /\ u = [k \in 1 .. i |-> u[k]] /\ \A k \in 1 .. i : u[k] = entries[k]
      /\ v = [k \in 1 .. m |-> v[k]] /\ \A k \in 1 .. m : v[k] = entries[i + k]
  BY CutAt
<1> HIDE DEF u, v, n, m
<1>4. /\ AreLines(u) /\ Len(u) = i /\ DOMAIN u = 1 .. i
      /\ AreLines(v) /\ Len(v) = m /\ DOMAIN v = 1 .. m
  <2>1. \A k \in 1 .. i : u[k].amount \in Nat /\ u[k].locked_amount \in Nat \cup {NoAmount}
    BY <1>1, <1>2
  <2>2. \A k \in 1 .. m : v[k].amount \in Nat /\ v[k].locked_amount \in Nat \cup {NoAmount}
    BY <1>1, <1>2
  <2>3. QED
    BY <1>2, <2>1, <2>2, LinesFrom
<1>5. Claimants(entries) = Claimants(u) \cup Claimants(v)
  <2>1. /\ \A k \in 1 .. i : u[k].pubkey \in Claimants(u)
        /\ \A c \in Claimants(u) : \E k \in 1 .. i : u[k].pubkey = c
        /\ \A k \in 1 .. m : v[k].pubkey \in Claimants(v)
        /\ \A c \in Claimants(v) : \E k \in 1 .. m : v[k].pubkey = c
    BY <1>4, LinesAre, ZenonT(40)
  <2>2. ASSUME NEW c \in Claimants(u)
        PROVE  c \in Claimants(entries)
    BY <1>1, <1>2, <2>1
  <2>3. ASSUME NEW c \in Claimants(v)
        PROVE  c \in Claimants(entries)
    BY <1>1, <1>2, <2>1
  <2>4. ASSUME NEW c \in Claimants(entries)
        PROVE  c \in Claimants(u) \cup Claimants(v)
    <3>1. PICK k \in 1 .. n : entries[k].pubkey = c
      BY <1>1
    <3>2. CASE k \in 1 .. i
      BY <1>2, <2>1, <3>1, <3>2
    <3>3. CASE k - i \in 1 .. m /\ i + (k - i) = k
      <4>1. v[k - i] = entries[k]
        BY <1>2, <3>3
      <4>2. QED
        BY <2>1, <3>1, <3>3, <4>1
    <3>4. QED
      BY <1>2, <3>2, <3>3
  <2>5. QED
    BY <2>2, <2>3, <2>4
<1>6. ASSUME NEW c, NEW field \in Fields
      PROVE  /\ TotalOf(TreeNodes(u), c, field) \in Nat
             /\ TotalOf(TreeNodes(v), c, field) \in Nat
             /\ TotalOf(TreeNodes(entries), c, field)
                  = TotalOf(TreeNodes(u), c, field) + TotalOf(TreeNodes(v), c, field)
  <2> DEFINE nodes == TreeNodes(entries)
             left == TreeNodes(u)
             right == TreeNodes(v)
  <2>1. /\ AreNodes(nodes) /\ Len(nodes) = n
        /\ \A k \in 1 .. n : nodes[k] = from_csv(entries[k])
    BY <1>1, TreeNodesAre DEF n
  <2>2. /\ AreNodes(left) /\ Len(left) = i
        /\ \A k \in 1 .. i : left[k] = from_csv(u[k])
    BY <1>4, TreeNodesAre
  <2>3. /\ AreNodes(right) /\ Len(right) = m
        /\ \A k \in 1 .. m : right[k] = from_csv(v[k])
    BY <1>4, TreeNodesAre
  <2> HIDE DEF nodes, left, right
  <2>4. ASSUME NEW k \in 1 .. i
        PROVE  nodes[k] = left[k]
    <3>1. k \in 1 .. n /\ u[k] = entries[k]
      BY <1>2
    <3>2. nodes[k] = from_csv(entries[k]) /\ left[k] = from_csv(u[k])
      BY <2>1, <2>2, <3>1
    <3>3. QED
      BY <3>1, <3>2
  <2>5. ASSUME NEW k \in 1 .. m
        PROVE  nodes[i + k] = right[k]
    <3>1. i + k \in 1 .. n /\ v[k] = entries[i + k]
      BY <1>2
    <3>2. nodes[i + k] = from_csv(entries[i + k]) /\ right[k] = from_csv(v[k])
      BY <2>1, <2>3, <3>1
    <3>3. QED
      BY <3>1, <3>2
  <2>6. /\ Len(nodes) = Len(left) + Len(right)
        /\ \A k \in 1 .. Len(left) : nodes[k] = left[k]
        /\ \A k \in 1 .. Len(right) : nodes[Len(left) + k] = right[k]
    BY <1>2, <2>1, <2>2, <2>3, <2>4, <2>5
  <2>7. /\ TotalOf(left, c, field) \in Nat
        /\ TotalOf(right, c, field) \in Nat
        /\ TotalOf(nodes, c, field) = TotalOf(left, c, field) + TotalOf(right, c, field)
    <3>1. AreNodes(nodes) /\ AreNodes(left) /\ AreNodes(right)
      BY <2>1, <2>2, <2>3
    <3>2. QED
      BY <2>6, <3>1, TotalOfParts
  <2>8. QED
    BY <2>7 DEF nodes, left, right
<1>7. QED
  BY <1>4, <1>5, <1>6 DEF u, v, n, m

(* The list without the lines of test wallets names the others and gives   *)
(* them what it did.                                                       *)
LEMMA TrimmedIs ==
    ASSUME NEW entries, AreLines(entries), NEW include \in BOOLEAN
    PROVE  LET trimmed == Trimmed(entries, include)
               left_out == IF include THEN ToSet(TestList) ELSE {}
           IN  /\ AreLines(trimmed)
               /\ Claimants(trimmed) = Claimants(entries) \ left_out
               /\ \A c : \A field \in Fields : c \notin left_out =>
                    TotalOf(TreeNodes(trimmed), c, field)
                      = TotalOf(TreeNodes(entries), c, field)
<1>1. CASE ~include
  BY <1>1 DEF Trimmed
<1>2. CASE include
  <2> DEFINE n == Len(entries)
             kept == {k \in DOMAIN entries : entries[k].pubkey \notin ToSet(TestList)}
             t == Picked(entries, kept)
             b == Ascending(kept)
             m == Cardinality(kept)
  <2>1. /\ n \in Nat /\ DOMAIN entries = 1 .. n
        /\ \A k \in 1 .. n : /\ entries[k].amount \in Nat
                             /\ entries[k].locked_amount \in Nat \cup {NoAmount}
                             /\ entries[k].pubkey \in Claimants(entries)
        /\ \A c \in Claimants(entries) : \E k \in 1 .. n : entries[k].pubkey = c
    BY LinesAre
  <2>2. kept = {k \in 1 .. n : entries[k].pubkey \notin ToSet(TestList)}
    BY <2>1
  <2> HIDE DEF n, kept
  <2>3. Lists(b, m, kept) /\ t = [r \in 1 .. m |-> entries[b[r]]]
    <3>1. n \in Nat /\ kept \in SUBSET (1 .. n)
      BY <2>1, <2>2
    <3>2. QED
      BY <3>1, PickedLists
  <2> HIDE DEF t, b, m
  <2>4. /\ m \in Nat
        /\ \A q, r \in 1 .. m : b[q] = b[r] => q = r
        /\ \A k \in kept : \E r \in 1 .. m : b[r] = k
        /\ \A r \in 1 .. m : b[r] \in kept /\ b[r] \in 1 .. n /\ t[r] = entries[b[r]]
    BY <2>2, <2>3 DEF Lists
  <2>5. AreLines(t) /\ Len(t) = m /\ DOMAIN t = 1 .. m
    <3>1. t = [r \in 1 .. m |-> t[r]]
      BY <2>3
    <3>2. \A r \in 1 .. m : t[r].amount \in Nat /\ t[r].locked_amount \in Nat \cup {NoAmount}
      BY <2>1, <2>4
    <3>3. QED
      BY <2>4, <3>1, <3>2, LinesFrom
  <2>6. /\ \A r \in 1 .. m : t[r].pubkey \in Claimants(t)
        /\ \A c \in Claimants(t) : \E r \in 1 .. m : t[r].pubkey = c
    BY <2>5, LinesAre, SMTT(30)
  <2>7. Claimants(t) = Claimants(entries) \ ToSet(TestList)
    <3>1. ASSUME NEW c \in Claimants(t)
          PROVE  c \in Claimants(entries) \ ToSet(TestList)
      <4>1. PICK r \in 1 .. m : t[r].pubkey = c
        BY <2>6
      <4>2. QED
        BY <2>1, <2>2, <2>4, <4>1
    <3>2. ASSUME NEW c \in Claimants(entries) \ ToSet(TestList)
          PROVE  c \in Claimants(t)
      <4>1. PICK k \in 1 .. n : entries[k].pubkey = c
        BY <2>1
      <4>2. PICK r \in 1 .. m : b[r] = k
        BY <2>2, <2>4, <4>1
      <4>3. QED
        BY <2>4, <2>6, <4>1, <4>2
    <3>3. QED
      BY <3>1, <3>2
  <2>8. ASSUME NEW c, NEW field \in Fields, c \notin ToSet(TestList)
        PROVE  TotalOf(TreeNodes(t), c, field) = TotalOf(TreeNodes(entries), c, field)
    <3> DEFINE nodes == TreeNodes(t)
               all == TreeNodes(entries)
               I == Of(nodes, c)
               J == Of(all, c)
               a == [r \in I |-> b[r]]
    <3>1. /\ AreNodes(nodes) /\ DOMAIN nodes = 1 .. m
          /\ \A r \in 1 .. m : nodes[r] = from_csv(t[r])
          /\ I = {r \in 1 .. m : t[r].pubkey = c}
      BY <2>5, TreeNodesAre
    <3>2. /\ AreNodes(all) /\ DOMAIN all = 1 .. n
          /\ \A k \in 1 .. n : all[k] = from_csv(entries[k])
          /\ J = {k \in 1 .. n : entries[k].pubkey = c}
      BY <2>1, TreeNodesAre
    <3>3. a \in [I -> J] /\ \A r \in I : a[r] = b[r]
      BY <2>4, <3>1, <3>2
    <3> HIDE DEF nodes, all, I, J, a
    <3>4. \A q, r \in I : a[q] = a[r] => q = r
      BY <2>4, <3>1, <3>3
    <3>5. \A j \in J : \E r \in I : a[r] = j
      <4> SUFFICES ASSUME NEW j \in J
                   PROVE  \E r \in I : a[r] = j
        OBVIOUS
      <4>1. j \in kept
        BY <2>2, <2>8, <3>2
      <4>2. PICK r \in 1 .. m : b[r] = j
        BY <2>4, <4>1
      <4>3. r \in I
        BY <2>4, <3>1, <3>2, <4>2
      <4>4. QED
        BY <3>3, <4>2, <4>3
    <3>6. \A r \in I : nodes[r][field] = all[a[r]][field]
      <4>1. \A r \in I : /\ r \in 1 .. m /\ a[r] \in 1 .. n /\ t[r] = entries[a[r]]
        BY <2>4, <3>1, <3>3
      <4>2. \A r \in I : nodes[r] = all[a[r]]
        BY <3>1, <3>2, <4>1
      <4>3. QED
        BY <4>2
    <3>7. I \in SUBSET DOMAIN nodes /\ J \in SUBSET DOMAIN all
      BY <3>1, <3>2
    <3>8. AreNodes(nodes) /\ AreNodes(all)
      BY <3>1, <3>2
    <3>9. TotalAt(nodes, I, field) = TotalAt(all, J, field)
      BY <3>3, <3>4, <3>5, <3>6, <3>7, <3>8, TotalMoved
    <3>10. QED
      BY <3>9 DEF TotalOf, nodes, all, I, J
  <2>9. Trimmed(entries, include) = t
    BY <1>2 DEF Trimmed, t, kept
  <2>10. QED
    BY <1>2, <2>5, <2>7, <2>8, <2>9
<1>3. QED
  BY <1>1, <1>2

(* The lines of the test wallets.                                          *)
LEMMA TestEntriesAre ==
    /\ AreLines(TestEntries) /\ TestEntries # <<>>
    /\ Claimants(TestEntries) = ToSet(TestList)
<1> DEFINE n == Len(TestList)
           t == TestEntries
<1>1. /\ n \in Nat /\ DOMAIN TestList = 1 .. n /\ n > 0
      /\ \A k \in 1 .. n : TestList[k] \in ToSet(TestList)
      /\ \A x \in ToSet(TestList) : \E k \in 1 .. n : TestList[k] = x
  BY ServiceAssumption, SeqIs
<1>2. t = [k \in 1 .. n |-> [pubkey |-> TestList[k], amount |-> TestAmount,
                             locked_amount |-> 0]]
  BY <1>1 DEF TestEntries
<1> HIDE DEF n, t
<1>3. \A k \in 1 .. n : /\ t[k].pubkey = TestList[k]
                        /\ t[k].amount \in Nat /\ t[k].locked_amount \in Nat \cup {NoAmount}
  BY <1>2, ServiceAssumption
<1>4. AreLines(t) /\ Len(t) = n /\ DOMAIN t = 1 .. n
  <2>1. t = [k \in 1 .. n |-> t[k]]
    BY <1>2
  <2>2. QED
    BY <1>1, <1>3, <2>1, LinesFrom
<1>5. /\ t # <<>> <=> Len(t) > 0
      /\ \A k \in 1 .. n : t[k].pubkey \in Claimants(t)
      /\ \A c \in Claimants(t) : \E k \in 1 .. n : t[k].pubkey = c
  BY <1>4, LinesAre
<1>6. Claimants(t) = ToSet(TestList)
  <2>1. ASSUME NEW c \in Claimants(t)
        PROVE  c \in ToSet(TestList)
    BY <1>1, <1>3, <1>5, SMTT(30)
  <2>2. ASSUME NEW c \in ToSet(TestList)
        PROVE  c \in Claimants(t)
    BY <1>1, <1>3, <1>5, SMTT(30)
  <2>3. QED
    BY <2>1, <2>2
<1>7. QED
  BY <1>1, <1>4, <1>5, <1>6 DEF t

--------------------------------------------------------------------------------
(* Maps that are filled one after the other *)

LEMMA ExtendedIs ==
    ASSUME NEW map, NEW new
    PROVE  /\ IsMap(Extended(map, new))
           /\ DOMAIN Extended(map, new) = DOMAIN map \cup DOMAIN new
           /\ \A c \in DOMAIN new : Extended(map, new)[c] = new[c]
           /\ \A c \in DOMAIN map \ DOMAIN new : Extended(map, new)[c] = map[c]
  BY DEF Extended, IsMap

LEMMA ExtendedTwice ==
    ASSUME NEW map, NEW new, NEW newer
    PROVE  Extended(map, Extended(new, newer)) = Extended(Extended(map, new), newer)
  BY DEF Extended

LEMMA ExtendedByNothing ==
    ASSUME NEW map, IsMap(map), NEW new, DOMAIN new = {}
    PROVE  Extended(map, new) = map
<1>1. DOMAIN map \cup DOMAIN new = DOMAIN map
  OBVIOUS
<1>2. Extended(map, new) = [c \in DOMAIN map |-> map[c]]
  BY <1>1 DEF Extended
<1>3. QED
  BY <1>2 DEF IsMap

LEMMA AppendIs ==
    ASSUME NEW s, s \in Seq(ToSet(s)), NEW e
    PROVE  LET t == Append(s, e)
           IN  /\ t \in Seq(ToSet(t)) /\ Len(t) = Len(s) + 1
               /\ DOMAIN t = 1 .. Len(s) + 1
               /\ \A k \in 1 .. Len(s) : k \in 1 .. Len(s) + 1 /\ t[k] = s[k]
               /\ t[Len(s) + 1] = e /\ Len(s) + 1 \in 1 .. Len(s) + 1
               /\ \A k \in 1 .. Len(s) + 1 : k \in 1 .. Len(s) \/ k = Len(s) + 1
<1> DEFINE S == ToSet(s) \cup {e}
           t == Append(s, e)
           n == Len(s)
<1>1. n \in Nat /\ DOMAIN s = 1 .. n /\ \A k \in 1 .. n : s[k] \in ToSet(s)
  BY SeqIs
<1>2. s \in Seq(S)
  <2>1. s \in Seq(ToSet(s)) /\ ToSet(s) \in SUBSET S
    OBVIOUS
  <2> HIDE DEF S
  <2>2. QED
    BY <2>1
<1>3. e \in S
  OBVIOUS
<1> HIDE DEF S
<1>4. /\ t \in Seq(S) /\ Len(t) = n + 1
      /\ \A k \in 1 .. n : t[k] = s[k]
      /\ t[n + 1] = e
  BY <1>2, <1>3, AppendProperties
<1>5. t = [k \in 1 .. n + 1 |-> t[k]] /\ DOMAIN t = 1 .. n + 1
  <2> HIDE DEF t
  <2>1. QED
    BY <1>4, LenProperties
<1> HIDE DEF t
<1>6. t \in Seq(ToSet(t))
  <2>1. n + 1 \in Nat
    BY <1>1, SMT
  <2>2. QED
    BY <1>5, <2>1, OwnSeq
<1>7. /\ \A k \in 1 .. n : k \in 1 .. n + 1
      /\ n + 1 \in 1 .. n + 1
      /\ \A k \in 1 .. n + 1 : k \in 1 .. n \/ k = n + 1
  <2> HIDE DEF n
  <2>1. QED
    BY <1>1, SMT
<1>8. QED
  BY <1>4, <1>5, <1>6, <1>7 DEF t, n

(* A file that is loaded last replaces what the ones before it hold.       *)
LEMMA LatestAppend ==
    ASSUME NEW maps, maps \in Seq(ToSet(maps)), NEW map
    PROVE  Latest(Append(maps, map)) = Extended(Latest(maps), map)
<1> DEFINE n == Len(maps)
           all == Append(maps, map)
           In(s, c) == {k \in DOMAIN s : c \in DOMAIN s[k]}
<1>1. n \in Nat /\ DOMAIN maps = 1 .. n
  BY SeqIs
<1>2. /\ DOMAIN all = 1 .. n + 1
      /\ \A k \in 1 .. n : k \in 1 .. n + 1 /\ all[k] = maps[k]
      /\ all[n + 1] = map /\ n + 1 \in 1 .. n + 1
      /\ \A k \in 1 .. n + 1 : k \in 1 .. n \/ k = n + 1
  BY AppendIs
<1> HIDE DEF n, all
<1>3. \A c : /\ In(maps, c) = {k \in 1 .. n : c \in DOMAIN maps[k]}
             /\ In(all, c) = {k \in 1 .. n + 1 : c \in DOMAIN all[k]}
  BY <1>1, <1>2
<1>4. /\ Latest(maps) = [c \in UNION {DOMAIN m : m \in ToSet(maps)} |->
                            maps[Max(In(maps, c))][c]]
      /\ Latest(all) = [c \in UNION {DOMAIN m : m \in ToSet(all)} |->
                            all[Max(In(all, c))][c]]
  BY DEF Latest
<1> HIDE DEF In
<1>5. \A c : /\ c \in DOMAIN Latest(maps) <=> \E k \in 1 .. n : c \in DOMAIN maps[k]
             /\ c \in DOMAIN Latest(all) <=> \E k \in 1 .. n + 1 : c \in DOMAIN all[k]
  <2>1. /\ ToSet(maps) = {maps[k] : k \in 1 .. n}
        /\ ToSet(all) = {all[k] : k \in 1 .. n + 1}
    BY <1>1, <1>2 DEF ToSet
  <2>2. QED
    BY <1>4, <2>1
<1>6. DOMAIN Latest(all) = DOMAIN Latest(maps) \cup DOMAIN map
  <2>1. \A c : c \in DOMAIN Latest(all) <=> c \in DOMAIN Latest(maps) \/ c \in DOMAIN map
    BY <1>2, <1>5
  <2>2. QED
    BY <2>1
<1>7. ASSUME NEW c \in DOMAIN map
      PROVE  Latest(all)[c] = map[c]
  <2>1. n + 1 \in In(all, c) /\ In(all, c) \in SUBSET Nat /\ \A k \in In(all, c) : k <= n + 1
    <3>1. n + 1 \in In(all, c)
      BY <1>2, <1>3
    <3>2. In(all, c) \in SUBSET (1 .. n + 1)
      BY <1>3
    <3>3. \A k \in 1 .. n + 1 : k \in Nat /\ k <= n + 1
      BY <1>1, SMT
    <3>4. QED
      BY <3>1, <3>2, <3>3
  <2>2. Max(In(all, c)) = n + 1
    BY <2>1, MaxIs
  <2>3. QED
    BY <1>2, <1>4, <1>6, <2>2
<1>8. ASSUME NEW c \in DOMAIN Latest(maps) \ DOMAIN map
      PROVE  Latest(all)[c] = Latest(maps)[c]
  <2>1. In(all, c) = In(maps, c)
    BY <1>2, <1>3, ZenonT(40)
  <2>2. In(maps, c) # {} /\ In(maps, c) \in SUBSET (1 .. n)
    BY <1>3, <1>5
  <2>3. Max(In(maps, c)) \in 1 .. n
    <3>1. In(maps, c) \in SUBSET (0 .. n)
      <4>1. \A k \in 1 .. n : k \in 0 .. n
        BY <1>1, SMT
      <4>2. QED
        BY <2>2, <4>1
    <3>2. QED
      BY <1>1, <2>2, <3>1, MaxOfBounded
  <2>4. c \in DOMAIN Latest(all)
    BY <1>6
  <2>5. QED
    BY <1>2, <1>4, <2>1, <2>3, <2>4
<1>9. IsMap(Latest(all))
  BY <1>4 DEF IsMap
<1> DEFINE left == Latest(all)
           right == Extended(Latest(maps), map)
<1>10. /\ IsMap(right) /\ DOMAIN right = DOMAIN left
       /\ \A c \in DOMAIN right : right[c] = left[c]
  <2>1. /\ IsMap(right)
        /\ DOMAIN right = DOMAIN Latest(maps) \cup DOMAIN map
        /\ \A c \in DOMAIN map : right[c] = map[c]
        /\ \A c \in DOMAIN Latest(maps) \ DOMAIN map : right[c] = Latest(maps)[c]
    BY ExtendedIs
  <2> HIDE DEF left, right
  <2>2. QED
    BY <1>6, <1>7, <1>8, <2>1 DEF left
<1> HIDE DEF left, right
<1>11. left = right
  BY <1>9, <1>10 DEF IsMap, left
<1>12. QED
  BY <1>11 DEF left, right, all

--------------------------------------------------------------------------------
(* The answers of one who reads the trees                                  *)

TreesAre(trees, n) ==
    /\ n \in Nat /\ DOMAIN trees = 1 .. n
    /\ \A q \in 1 .. n : IsTree(trees[q])

Nodes(trees, q) == trees[q].tree_nodes

LEMMA TreeIs ==
    ASSUME NEW t, IsTree(t)
    PROVE  /\ AreNodes(t.tree_nodes)
           /\ Len(t.tree_nodes) \in Nat \ {0}
           /\ DOMAIN t.tree_nodes = 1 .. Len(t.tree_nodes)
           /\ \A j, k \in DOMAIN t.tree_nodes :
                t.tree_nodes[j].claimant = t.tree_nodes[k].claimant => j = k
           /\ t.max_num_nodes = Len(t.tree_nodes)
           /\ get_max_total_claim(t) \in Nat
           /\ \A k \in DOMAIN t.tree_nodes :
                verify(t.tree_nodes[k].proof, t.merkle_root, TreeNodeHash(t.tree_nodes[k]))
<1> DEFINE nodes == t.tree_nodes
<1>1. /\ AreNodes(nodes) /\ nodes # <<>>
      /\ IsInjective([k \in DOMAIN nodes |-> nodes[k].claimant])
      /\ t.max_num_nodes = Len(nodes)
      /\ get_max_total_claim(t) \in Nat
      /\ \A n \in ToSet(nodes) : verify(n.proof, t.merkle_root, TreeNodeHash(n))
  BY DEF IsTree
<1> HIDE DEF nodes
<1>2. /\ Len(nodes) \in Nat /\ DOMAIN nodes = 1 .. Len(nodes)
      /\ \A k \in DOMAIN nodes : nodes[k] \in ToSet(nodes)
  BY <1>1, NodesAre
<1>3. Len(nodes) \in Nat \ {0}
  <2>1. nodes # <<>> <=> Len(nodes) > 0
    BY <1>1, SeqIs DEF AreNodes
  <2>2. \A n \in Nat : n > 0 => n \in Nat \ {0}
    BY SMT
  <2>3. QED
    BY <1>1, <1>2, <2>1, <2>2
<1>4. \A j, k \in DOMAIN nodes : nodes[j].claimant = nodes[k].claimant => j = k
  BY <1>1 DEF IsInjective
<1>5. QED
  BY <1>1, <1>2, <1>3, <1>4 DEF nodes

(* Who has read nothing has no answers.                                    *)
LEMMA AnswersNothing ==
    ASSUME NEW trees, NEW n, TreesAre(trees, n), NEW map
    PROVE  Answers(trees, map, 0, 1) <=> IsMap(map) /\ DOMAIN map = {}
<1>1. ASSUME NEW q \in DOMAIN trees, NEW j \in DOMAIN Nodes(trees, q)
      PROVE  ~Done(q, j, 0, 1)
  <2>1. IsTree(trees[q]) /\ q \in 1 .. n /\ n \in Nat
    BY DEF TreesAre
  <2>2. Len(Nodes(trees, q)) \in Nat /\ DOMAIN Nodes(trees, q) = 1 .. Len(Nodes(trees, q))
    BY <2>1, TreeIs DEF Nodes
  <2>3. j \in Nat \ {0} /\ q \in Nat \ {0}
    BY <2>1, <2>2, SMT
  <2>4. QED
    BY <2>3, SMT DEF Done
<1>2. ASSUME Answers(trees, map, 0, 1)
      PROVE  IsMap(map) /\ DOMAIN map = {}
  <2>1. IsMap(map)
    BY <1>2 DEF Answers
  <2>2. \A c \in DOMAIN map : FALSE
    BY <1>1, <1>2 DEF Answers, Nodes
  <2>3. QED
    BY <2>1, <2>2
<1>3. ASSUME IsMap(map), DOMAIN map = {}
      PROVE  Answers(trees, map, 0, 1)
  <2>1. \A q \in DOMAIN trees : \A j \in DOMAIN Nodes(trees, q) : ~Done(q, j, 0, 1)
    BY <1>1, SMTT(30)
  <2>2. QED
    BY <1>3, <2>1 DEF Answers, Nodes
<1>4. QED
  BY <1>2, <1>3

(* Reading more nodes of the next tree.                                    *)
LEMMA AnswersExtended ==
    ASSUME NEW trees, NEW n, TreesAre(trees, n), NEW map, NEW r \in 0 .. n - 1,
           NEW i, Answers(trees, map, r, i),
           NEW s, NEW l, NEW J \in SUBSET DOMAIN Nodes(trees, r + 1),
           \A q \in DOMAIN trees : \A j \in DOMAIN Nodes(trees, q) :
               Done(q, j, s, l) <=> Done(q, j, r, i) \/ (q = r + 1 /\ j \in J),
           NEW new, DOMAIN new = {Nodes(trees, r + 1)[j].claimant : j \in J},
           \A j \in J : new[Nodes(trees, r + 1)[j].claimant] =
                          UserProof(trees[r + 1], r + 1, Nodes(trees, r + 1)[j])
    PROVE  Answers(trees, Extended(map, new), s, l)
<1> DEFINE ext == Extended(map, new)
<1>1. /\ IsMap(ext) /\ DOMAIN ext = DOMAIN map \cup DOMAIN new
      /\ \A c \in DOMAIN new : ext[c] = new[c]
      /\ \A c \in DOMAIN map \ DOMAIN new : ext[c] = map[c]
  BY DEF Extended, IsMap
<1>2. /\ \A q \in DOMAIN trees : \A j \in DOMAIN Nodes(trees, q) :
           Done(q, j, r, i) => Nodes(trees, q)[j].claimant \in DOMAIN map
      /\ \A c \in DOMAIN map : \E q \in DOMAIN trees : \E j \in DOMAIN Nodes(trees, q) :
           /\ Done(q, j, r, i)
           /\ Nodes(trees, q)[j].claimant = c
           /\ map[c] = UserProof(trees[q], q, Nodes(trees, q)[j])
           /\ \A p \in DOMAIN trees : \A k \in DOMAIN Nodes(trees, p) :
                Done(p, k, r, i) /\ Nodes(trees, p)[k].claimant = c => p <= q
  BY DEF Answers, Nodes
<1>3. r + 1 \in DOMAIN trees
  <2>1. n \in Nat /\ DOMAIN trees = 1 .. n
    BY DEF TreesAre
  <2>2. r + 1 \in 1 .. n
    BY <2>1, SMT
  <2>3. QED
    BY <2>1, <2>2
<1>4. \A p \in DOMAIN trees : \A k : Done(p, k, r, i) => p <= r + 1
  <2>1. DOMAIN trees \in SUBSET Nat /\ r \in Nat
    <3>1. n \in Nat /\ DOMAIN trees = 1 .. n
      BY DEF TreesAre
    <3>2. 1 .. n \in SUBSET Nat /\ r \in Nat
      BY <3>1, SMT
    <3>3. QED
      BY <3>1, <3>2
  <2>2. \A p \in Nat : p <= r \/ p = r + 1 => p <= r + 1
    BY <2>1, SMT
  <2>3. QED
    BY <2>1, <2>2 DEF Done
<1> HIDE DEF ext
<1>5. ASSUME NEW q \in DOMAIN trees, NEW j \in DOMAIN Nodes(trees, q), Done(q, j, s, l)
      PROVE  Nodes(trees, q)[j].claimant \in DOMAIN ext
  BY <1>1, <1>2, <1>5
<1>6. ASSUME NEW c \in DOMAIN ext
      PROVE  \E q \in DOMAIN trees : \E j \in DOMAIN Nodes(trees, q) :
               /\ Done(q, j, s, l)
               /\ Nodes(trees, q)[j].claimant = c
               /\ ext[c] = UserProof(trees[q], q, Nodes(trees, q)[j])
               /\ \A p \in DOMAIN trees : \A k \in DOMAIN Nodes(trees, p) :
                    Done(p, k, s, l) /\ Nodes(trees, p)[k].claimant = c => p <= q
  <2>1. CASE c \in DOMAIN new
    <3>1. PICK j \in J : Nodes(trees, r + 1)[j].claimant = c
      BY <2>1
    <3>2. /\ j \in DOMAIN Nodes(trees, r + 1) /\ Done(r + 1, j, s, l)
          /\ ext[c] = UserProof(trees[r + 1], r + 1, Nodes(trees, r + 1)[j])
      BY <1>1, <1>3, <2>1, <3>1
    <3>3. r + 1 <= r + 1
      BY SMT
    <3>4. \A p \in DOMAIN trees : \A k \in DOMAIN Nodes(trees, p) :
            Done(p, k, s, l) => p <= r + 1
      BY <1>4, <3>3
    <3>5. QED
      BY <1>3, <3>1, <3>2, <3>4
  <2>2. CASE c \notin DOMAIN new
    <3>1. c \in DOMAIN map
      BY <1>1, <2>2
    <3>2. PICK q \in DOMAIN trees : \E j \in DOMAIN Nodes(trees, q) :
            /\ Done(q, j, r, i)
            /\ Nodes(trees, q)[j].claimant = c
            /\ map[c] = UserProof(trees[q], q, Nodes(trees, q)[j])
            /\ \A p \in DOMAIN trees : \A k \in DOMAIN Nodes(trees, p) :
                 Done(p, k, r, i) /\ Nodes(trees, p)[k].claimant = c => p <= q
      BY <1>2, <3>1
    <3>3. PICK j \in DOMAIN Nodes(trees, q) :
            /\ Done(q, j, r, i)
            /\ Nodes(trees, q)[j].claimant = c
            /\ map[c] = UserProof(trees[q], q, Nodes(trees, q)[j])
            /\ \A p \in DOMAIN trees : \A k \in DOMAIN Nodes(trees, p) :
                 Done(p, k, r, i) /\ Nodes(trees, p)[k].claimant = c => p <= q
      BY <3>2
    <3>4. Done(q, j, s, l) /\ ext[c] = UserProof(trees[q], q, Nodes(trees, q)[j])
      BY <1>1, <2>2, <3>1, <3>3
    <3>5. ASSUME NEW p \in DOMAIN trees, NEW k \in DOMAIN Nodes(trees, p),
                 Done(p, k, s, l), Nodes(trees, p)[k].claimant = c
          PROVE  p <= q
      <4>1. ~(p = r + 1 /\ k \in J)
        BY <2>2, <3>5
      <4>2. Done(p, k, r, i)
        BY <3>5, <4>1
      <4>3. QED
        BY <3>3, <3>5, <4>2
    <3>6. QED
      BY <3>3, <3>4, <3>5
  <2>3. QED
    BY <2>1, <2>2
<1>7. QED
  BY <1>1, <1>5, <1>6 DEF Answers, Nodes, ext

(* Two who have read the same have the same answers.                       *)
LEMMA AnswersAgree ==
    ASSUME NEW trees, NEW n, TreesAre(trees, n), NEW r, NEW i,
           NEW map, Answers(trees, map, r, i), NEW other, Answers(trees, other, r, i)
    PROVE  map = other
<1> DEFINE LastOf(m, c, q, j) ==
             /\ Done(q, j, r, i)
             /\ Nodes(trees, q)[j].claimant = c
             /\ m[c] = UserProof(trees[q], q, Nodes(trees, q)[j])
             /\ \A p \in DOMAIN trees : \A k \in DOMAIN Nodes(trees, p) :
                  Done(p, k, r, i) /\ Nodes(trees, p)[k].claimant = c => p <= q
           Reads(m) ==
             /\ \A q \in DOMAIN trees : \A j \in DOMAIN Nodes(trees, q) :
                  Done(q, j, r, i) => Nodes(trees, q)[j].claimant \in DOMAIN m
             /\ \A c \in DOMAIN m : \E q \in DOMAIN trees :
                  \E j \in DOMAIN Nodes(trees, q) : LastOf(m, c, q, j)
<1>1. IsMap(map) /\ Reads(map)
  BY DEF Answers, Nodes
<1>2. IsMap(other) /\ Reads(other)
  BY DEF Answers, Nodes
<1>3. DOMAIN map = DOMAIN other
  BY <1>1, <1>2
<1>4. ASSUME NEW c \in DOMAIN map
      PROVE  map[c] = other[c]
  <2>1. PICK q \in DOMAIN trees : \E j \in DOMAIN Nodes(trees, q) : LastOf(map, c, q, j)
    BY <1>1
  <2>2. PICK j \in DOMAIN Nodes(trees, q) : LastOf(map, c, q, j)
    BY <2>1
  <2>3. PICK p \in DOMAIN trees : \E k \in DOMAIN Nodes(trees, p) : LastOf(other, c, p, k)
    BY <1>2, <1>3
  <2>4. PICK k \in DOMAIN Nodes(trees, p) : LastOf(other, c, p, k)
    BY <2>3
  <2>5. p <= q /\ q <= p
    BY <2>2, <2>4
  <2>6. p = q
    <3>1. n \in Nat /\ p \in 1 .. n /\ q \in 1 .. n
      BY DEF TreesAre
    <3>2. QED
      BY <2>5, <3>1, SMT
  <2>7. k = j
    <3>1. IsTree(trees[q])
      BY DEF TreesAre
    <3>2. \A x, y \in DOMAIN Nodes(trees, q) :
            Nodes(trees, q)[x].claimant = Nodes(trees, q)[y].claimant => x = y
      BY <3>1, TreeIs DEF Nodes
    <3>3. QED
      BY <2>2, <2>4, <2>6, <3>2
  <2>8. QED
    BY <2>2, <2>4, <2>6, <2>7
<1>5. QED
  BY <1>1, <1>2, <1>3, <1>4 DEF IsMap

(* The place of a node in the trees.                                       *)
LEMMA PlacesAre ==
    ASSUME NEW trees, NEW n, TreesAre(trees, n)
    PROVE  /\ \A q \in DOMAIN trees : \A j \in DOMAIN Nodes(trees, q) :
                q \in Nat \ {0} /\ j \in Nat \ {0} /\ j <= Len(Nodes(trees, q))
           /\ \A r \in 0 .. n - 1 : r \in Nat /\ r + 1 \in DOMAIN trees
<1>1. n \in Nat /\ DOMAIN trees = 1 .. n
  BY DEF TreesAre
<1>2. ASSUME NEW q \in DOMAIN trees, NEW j \in DOMAIN Nodes(trees, q)
      PROVE  q \in Nat \ {0} /\ j \in Nat \ {0} /\ j <= Len(Nodes(trees, q))
  <2>1. IsTree(trees[q])
    BY <1>1 DEF TreesAre
  <2>2. Len(Nodes(trees, q)) \in Nat /\ DOMAIN Nodes(trees, q) = 1 .. Len(Nodes(trees, q))
    BY <2>1, TreeIs DEF Nodes
  <2>3. \A m \in Nat : \A k \in 1 .. m : k \in Nat \ {0} /\ k <= m
    BY SMT
  <2>4. QED
    BY <1>1, <2>2, <2>3
<1>3. \A r \in 0 .. n - 1 : r \in Nat /\ r + 1 \in 1 .. n
  BY <1>1, SMT
<1>4. QED
  BY <1>1, <1>2, <1>3

(* The server takes a tree at once.                                        *)
LEMMA AnswersServed ==
    ASSUME NEW trees, NEW n, TreesAre(trees, n), NEW map, NEW r \in 0 .. n - 1,
           Answers(trees, map, r, 1)
    PROVE  Answers(trees, Extended(map, ServedBy(trees[r + 1], r + 1)), r + 1, 1)
<1> DEFINE t == trees[r + 1]
           nodes == Nodes(trees, r + 1)
           J == DOMAIN nodes
           new == ServedBy(t, r + 1)
<1>1. IsTree(t) /\ r \in Nat
  BY PlacesAre DEF TreesAre
<1>2. /\ AreNodes(nodes)
      /\ \A j, k \in J : nodes[j].claimant = nodes[k].claimant => j = k
  BY <1>1, TreeIs DEF Nodes
<1>3. /\ \A j \in J : nodes[j] \in ToSet(nodes)
      /\ \A x \in ToSet(nodes) : \E j \in J : nodes[j] = x
  BY <1>2, NodesAre
<1>4. new = [c \in {e.claimant : e \in ToSet(nodes)} |->
               UserProof(t, r + 1, CHOOSE e \in ToSet(nodes) : e.claimant = c)]
  BY DEF ServedBy, Names, Nodes
<1> HIDE DEF nodes, new, J, t
<1>5. DOMAIN new = {nodes[j].claimant : j \in J}
  <2>1. {e.claimant : e \in ToSet(nodes)} = {nodes[j].claimant : j \in J}
    BY <1>3
  <2>2. QED
    BY <1>4, <2>1
<1>6. ASSUME NEW j \in J
      PROVE  new[nodes[j].claimant] = UserProof(t, r + 1, nodes[j])
  <2> DEFINE x == CHOOSE e \in ToSet(nodes) : e.claimant = nodes[j].claimant
  <2>1. x \in ToSet(nodes) /\ x.claimant = nodes[j].claimant
    BY <1>3
  <2> HIDE DEF x
  <2>2. x = nodes[j]
    BY <1>2, <1>3, <2>1
  <2>3. nodes[j].claimant \in {e.claimant : e \in ToSet(nodes)}
    BY <1>3
  <2>4. new[nodes[j].claimant] = UserProof(t, r + 1, x)
    BY <1>4, <2>3 DEF x
  <2>5. QED
    BY <2>2, <2>4
<1>7. \A q \in DOMAIN trees : \A j \in DOMAIN Nodes(trees, q) :
        Done(q, j, r + 1, 1) <=> Done(q, j, r, 1) \/ (q = r + 1 /\ j \in J)
  <2> SUFFICES ASSUME NEW q \in DOMAIN trees, NEW j \in DOMAIN Nodes(trees, q)
               PROVE  Done(q, j, r + 1, 1) <=> Done(q, j, r, 1) \/ (q = r + 1 /\ j \in J)
    OBVIOUS
  <2>1. q \in Nat \ {0} /\ j \in Nat \ {0}
    BY PlacesAre
  <2>2. Done(q, j, r + 1, 1) <=> q <= r + 1
    BY <1>1, <2>1, SMT DEF Done
  <2>3. Done(q, j, r, 1) <=> q <= r
    BY <1>1, <2>1, SMT DEF Done
  <2>4. q <= r + 1 <=> q <= r \/ q = r + 1
    BY <1>1, <2>1, SMT
  <2>5. q = r + 1 => j \in J
    BY DEF J, nodes
  <2>6. QED
    BY <2>2, <2>3, <2>4, <2>5
<1>8. J \in SUBSET DOMAIN Nodes(trees, r + 1)
  BY DEF J, nodes
<1>9. QED
  BY <1>5, <1>6, <1>7, <1>8, AnswersExtended DEF t, nodes, new

(* generate-kv-proof takes one node after the other.                       *)
LEMMA AnswersInserted ==
    ASSUME NEW trees, NEW n, TreesAre(trees, n), NEW map, NEW r \in 0 .. n - 1,
           NEW i \in DOMAIN Nodes(trees, r + 1), Answers(trees, map, r, i),
           NEW s, NEW l,
           i < Len(Nodes(trees, r + 1)) => s = r /\ l = i + 1,
           ~(i < Len(Nodes(trees, r + 1))) => s = r + 1 /\ l = 1,
           NEW new,
           \A c : c \in DOMAIN new <=> c = Nodes(trees, r + 1)[i].claimant,
           \A c \in DOMAIN new :
               new[c] = UserProof(trees[r + 1], r + 1, Nodes(trees, r + 1)[i])
    PROVE  Answers(trees, Extended(map, new), s, l)
<1> DEFINE m == Len(Nodes(trees, r + 1))
<1>1. r \in Nat /\ r + 1 \in DOMAIN trees /\ i \in Nat \ {0} /\ i <= m
  BY PlacesAre
<1>2. ASSUME NEW q \in DOMAIN trees, NEW j \in DOMAIN Nodes(trees, q)
      PROVE  Done(q, j, s, l) <=> Done(q, j, r, i) \/ (q = r + 1 /\ j \in {i})
  <2>1. q \in Nat \ {0} /\ j \in Nat \ {0} /\ (q = r + 1 => j <= m)
    BY PlacesAre
  <2>2. m \in Nat
    <3>1. IsTree(trees[r + 1])
      BY <1>1 DEF TreesAre
    <3>2. QED
      BY <3>1, TreeIs DEF Nodes
  <2> HIDE DEF m
  <2>3. CASE i < m
    <3>1. s = r /\ l = i + 1
      BY <2>3 DEF m
    <3>2. Done(q, j, r, i + 1) <=> Done(q, j, r, i) \/ (q = r + 1 /\ j = i)
      BY <1>1, <2>1, SMT DEF Done
    <3>3. QED
      BY <3>1, <3>2
  <2>4. CASE ~(i < m)
    <3>1. s = r + 1 /\ l = 1
      BY <2>4 DEF m
    <3>2. i = m
      BY <1>1, <2>2, <2>4, SMT
    <3>3. Done(q, j, r + 1, 1) <=> Done(q, j, r, i) \/ (q = r + 1 /\ j = i)
      <4>1. Done(q, j, r + 1, 1) <=> q <= r + 1
        BY <1>1, <2>1, SMT DEF Done
      <4>2. q <= r + 1 <=> q <= r \/ q = r + 1
        BY <1>1, <2>1, SMT
      <4>3. q = r + 1 => j < i \/ j = i
        BY <1>1, <2>1, <3>2, SMT
      <4>4. QED
        BY <4>1, <4>2, <4>3 DEF Done
    <3>4. QED
      BY <3>1, <3>3
  <2>5. QED
    BY <2>3, <2>4
<1>3. /\ DOMAIN new = {Nodes(trees, r + 1)[j].claimant : j \in {i}}
      /\ \A j \in {i} : new[Nodes(trees, r + 1)[j].claimant] =
                          UserProof(trees[r + 1], r + 1, Nodes(trees, r + 1)[j])
  OBVIOUS
<1>4. {i} \in SUBSET DOMAIN Nodes(trees, r + 1)
  OBVIOUS
<1> DEFINE J == {i}
<1>5. /\ J \in SUBSET DOMAIN Nodes(trees, r + 1)
      /\ \A q \in DOMAIN trees : \A j \in DOMAIN Nodes(trees, q) :
           Done(q, j, s, l) <=> Done(q, j, r, i) \/ (q = r + 1 /\ j \in J)
      /\ DOMAIN new = {Nodes(trees, r + 1)[j].claimant : j \in J}
      /\ \A j \in J : new[Nodes(trees, r + 1)[j].claimant] =
                          UserProof(trees[r + 1], r + 1, Nodes(trees, r + 1)[j])
  BY <1>2, <1>3, <1>4
<1> HIDE DEF J
<1>6. QED
  BY <1>5, AnswersExtended

--------------------------------------------------------------------------------
(* The tree files and their paths *)

LEMMA PathKeysDiffer == \A v, w \in Nat : PathKey(v) = PathKey(w) => v = w
<1>1. ASSUME NEW v \in Nat
      PROVE  /\ v < 10 => PathKey(v) = v * 11
             /\ ~(v < 10) => PathKey(v) = (v \div 10) * 11 + (v % 10) + 1
  BY DEF PathKey
<1>2. \A v, w \in Nat : v * 11 = w * 11 => v = w
  BY SMT
<1>3. \A v, w \in Nat : v * 11 # (w \div 10) * 11 + (w % 10) + 1
  BY SMT
<1>4. \A v, w \in Nat :
        (v \div 10) * 11 + (v % 10) + 1 = (w \div 10) * 11 + (w % 10) + 1 => v = w
  BY SMT
<1>5. SUFFICES ASSUME NEW v \in Nat, NEW w \in Nat, PathKey(v) = PathKey(w)
               PROVE  v = w
  OBVIOUS
<1>6. CASE v < 10 /\ w < 10
  BY <1>1, <1>2, <1>5, <1>6
<1>7. CASE v < 10 /\ ~(w < 10)
  BY <1>1, <1>3, <1>5, <1>7
<1>8. CASE ~(v < 10) /\ w < 10
  BY <1>1, <1>3, <1>5, <1>8
<1>9. CASE ~(v < 10) /\ ~(w < 10)
  BY <1>1, <1>4, <1>5, <1>9
<1>10. QED
  BY <1>6, <1>7, <1>8, <1>9

PathOrder ==
    InOrder(DOMAIN files, [k \in DOMAIN files |-> PathKey(files[k].airdrop_version)])

(* The paths are the tree files, each once.                                *)
LEMMA PathsAre ==
    ASSUME TreesInv
    PROVE  /\ Len(files) \in Nat /\ DOMAIN files = 1 .. Len(files)
           /\ Lists(PathOrder, Len(files), 1 .. Len(files))
           /\ \A r \in 1 .. Len(files) : /\ PathOrder[r] \in 1 .. Len(files)
                                         /\ paths[r] = files[PathOrder[r]]
           /\ TreesAre(paths, Len(files))
<1> DEFINE n == Len(files)
           key == [k \in DOMAIN files |-> PathKey(files[k].airdrop_version)]
<1>1. n \in Nat /\ DOMAIN files = 1 .. n
  BY SeqIs DEF TreesInv
<1>2. /\ paths = [r \in DOMAIN PathOrder |-> files[PathOrder[r]]]
      /\ PathOrder = InOrder(1 .. n, key)
  BY <1>1 DEF paths, PathOrder
<1>3. key = [k \in 1 .. n |-> PathKey(k - 1)]
  BY <1>1 DEF TreesInv
<1> HIDE DEF n, key
<1>4. \A k \in 1 .. n : k - 1 \in Nat /\ PathKey(k - 1) \in Nat
  <2>1. \A k \in 1 .. n : k - 1 \in Nat
    BY <1>1, SMT
  <2>2. \A v \in Nat : v * 11 \in Nat /\ (v \div 10) * 11 + (v % 10) + 1 \in Nat
    BY SMT
  <2>3. QED
    BY <2>1, <2>2 DEF PathKey
<1>5. key \in [1 .. n -> Nat] /\ \A j, k \in 1 .. n : key[j] = key[k] => j = k
  <2>1. key \in [1 .. n -> Nat]
    BY <1>3, <1>4
  <2>2. \A j, k \in 1 .. n : key[j] = key[k] => j - 1 = k - 1
    BY <1>3, <1>4, PathKeysDiffer
  <2>3. \A j, k \in 1 .. n : j - 1 = k - 1 => j = k
    BY <1>1, SMT
  <2>4. QED
    BY <2>1, <2>2, <2>3
<1>6. IsFiniteSet(1 .. n) /\ Cardinality(1 .. n) = n
  BY <1>1, FS_Interval, SMT
<1>7. Lists(PathOrder, n, 1 .. n)
  BY <1>2, <1>5, <1>6, InOrderLists
<1>8. \A r \in 1 .. n : PathOrder[r] \in 1 .. n /\ paths[r] = files[PathOrder[r]]
  BY <1>2, <1>7 DEF Lists
<1>9. TreesAre(paths, n)
  <2>1. DOMAIN paths = 1 .. n
    BY <1>2, <1>7 DEF Lists
  <2>2. \A k \in 1 .. n : IsTree(files[k])
    BY <1>1 DEF TreesInv
  <2>3. QED
    BY <1>1, <1>8, <2>1, <2>2 DEF TreesAre
<1>10. QED
  BY <1>1, <1>7, <1>8, <1>9 DEF n

(* Summing up in the order of the paths makes no difference.               *)
LEMMA SumOfPaths ==
    ASSUME TreesInv
    PROVE  SumFunction([r \in 1 .. Len(files) |-> get_max_total_claim(paths[r])])
             = SumFunction([k \in DOMAIN files |-> get_max_total_claim(files[k])])
<1> DEFINE n == Len(files)
           g == [r \in 1 .. n |-> get_max_total_claim(paths[r])]
           w == [k \in 1 .. n |-> get_max_total_claim(files[k])]
<1>1. /\ n \in Nat /\ DOMAIN files = 1 .. n
      /\ Lists(PathOrder, n, 1 .. n)
      /\ \A r \in 1 .. n : PathOrder[r] \in 1 .. n /\ paths[r] = files[PathOrder[r]]
  BY PathsAre
<1>2. IsFiniteSet(1 .. n)
  BY <1>1, FS_Interval, SMT
<1>3. \A k \in 1 .. n : get_max_total_claim(files[k]) \in Nat
  BY <1>1, TreeIs DEF TreesInv
<1> HIDE DEF n
<1>4. g \in [1 .. n -> Nat] /\ w \in [1 .. n -> Nat] /\ \A r \in 1 .. n : g[r] = w[PathOrder[r]]
  BY <1>1, <1>3
<1>5. DOMAIN g = 1 .. n /\ DOMAIN w = 1 .. n
  OBVIOUS
<1> HIDE DEF g, w
<1>6. SumOf(g, 1 .. n) = SumOf(w, 1 .. n)
  <2> DEFINE b == PathOrder
             S == 1 .. n
  <2>1. /\ b \in [S -> S] /\ \A q, r \in S : b[q] = b[r] => q = r
        /\ \A k \in S : \E r \in S : b[r] = k
    BY <1>1 DEF Lists
  <2>2. IsFiniteSet(S) /\ g \in [S -> Nat] /\ w \in [S -> Nat] /\ \A r \in S : g[r] = w[b[r]]
    BY <1>2, <1>4
  <2> HIDE DEF b, S
  <2>3. SumOf(g, S) = SumOf(w, S)
    BY <2>1, <2>2, SumReindexed
  <2>4. QED
    BY <2>3 DEF S
<1>7. SumFunction(g) = SumFunction(w)
  BY <1>5, <1>6, SumFunctionIs
<1>8. QED
  BY <1>1, <1>7 DEF g, w, n

--------------------------------------------------------------------------------
(* create-merkle-tree *)

PerTree(trees, c, field) ==
    [k \in DOMAIN trees |-> TotalOf(trees[k].tree_nodes, c, field)]

LEMMA PerTreeIs ==
    ASSUME NEW trees, NEW n, TreesAre(trees, n), NEW c, NEW field \in Fields
    PROVE  /\ PerTree(trees, c, field) \in [1 .. n -> Nat]
           /\ SumFunction(PerTree(trees, c, field)) = SumOf(PerTree(trees, c, field), 1 .. n)
           /\ SumFunction(PerTree(trees, c, field)) \in Nat
<1> DEFINE g == PerTree(trees, c, field)
<1>1. n \in Nat /\ DOMAIN trees = 1 .. n /\ IsFiniteSet(1 .. n)
  <2>1. n \in Nat /\ DOMAIN trees = 1 .. n
    BY DEF TreesAre
  <2>2. QED
    BY <2>1, FS_Interval, SMT
<1>2. \A k \in 1 .. n : TotalOf(trees[k].tree_nodes, c, field) \in Nat
  <2> SUFFICES ASSUME NEW k \in 1 .. n
               PROVE  TotalOf(trees[k].tree_nodes, c, field) \in Nat
    OBVIOUS
  <2>1. AreNodes(trees[k].tree_nodes)
    BY <1>1, TreeIs DEF TreesAre
  <2>2. Of(trees[k].tree_nodes, c) \in SUBSET DOMAIN trees[k].tree_nodes
    BY <2>1, NamesAre
  <2>3. QED
    BY <2>1, <2>2, TotalIs DEF TotalOf
<1>3. g \in [1 .. n -> Nat] /\ DOMAIN g = 1 .. n
  BY <1>1, <1>2 DEF PerTree
<1> HIDE DEF g
<1>4. SumFunction(g) = SumOf(g, 1 .. n)
  BY <1>3, SumFunctionIs
<1>5. SumOf(g, 1 .. n) \in Nat
  BY <1>1, <1>3, SumStep
<1>6. QED
  BY <1>3, <1>4, <1>5 DEF g

LEMMA InTreesIs ==
    ASSUME TreesInv, NEW c, NEW field \in Fields
    PROVE  InTrees(c, field) \in Nat
<1>1. InTrees(c, field) = SumFunction(PerTree(files, c, field))
  BY DEF InTrees, PerTree
<1>2. TreesAre(files, Len(files))
  BY PathsAre DEF TreesInv, TreesAre
<1>3. QED
  BY <1>1, <1>2, PerTreeIs

InFiles == UNION {Names(files[k].tree_nodes) : k \in DOMAIN files}

LEMMA LinesToNodes ==
    ASSUME NEW entries, AreLines(entries), entries # <<>>
    PROVE  /\ AreNodes(TreeNodes(entries)) /\ TreeNodes(entries) # <<>>
           /\ Names(TreeNodes(entries)) = Claimants(entries)
<1> DEFINE nodes == TreeNodes(entries)
<1>1. AreNodes(nodes) /\ Len(nodes) = Len(entries) /\ Names(nodes) = Claimants(entries)
  BY TreeNodesAre
<1>2. entries # <<>> <=> Len(entries) > 0
  BY LinesAre
<1> HIDE DEF nodes
<1>3. nodes # <<>> <=> Len(nodes) > 0
  BY <1>1, SeqIs DEF AreNodes
<1>4. QED
  BY <1>1, <1>2, <1>3 DEF nodes

(* A tree that is written names and gives what its lines do.               *)
LEMMA WriteTreeIs ==
    ASSUME TreesInv, NEW entries, AreLines(entries), entries # <<>>, WriteTree(entries)
    PROVE  /\ TreesInv' /\ Len(files)' = Len(files) + 1
           /\ InFiles' = InFiles \cup Claimants(entries)
           /\ \A c : \A field \in Fields :
                /\ InTrees(c, field) \in Nat
                /\ TotalOf(TreeNodes(entries), c, field) \in Nat
                /\ InTrees(c, field)'
                     = InTrees(c, field) + TotalOf(TreeNodes(entries), c, field)
<1> DEFINE n == Len(files)
           nodes == TreeNodes(entries)
           t == NewTree(nodes, n)
<1>1. n \in Nat /\ DOMAIN files = 1 .. n
  BY SeqIs DEF TreesInv
<1>2. AreNodes(nodes) /\ nodes # <<>> /\ Names(nodes) = Claimants(entries)
  BY LinesToNodes
<1>3. /\ IsTree(t) /\ t.airdrop_version = n
      /\ Names(t.tree_nodes) = Claimants(entries)
      /\ \A c : \A field \in Fields :
           TotalOf(t.tree_nodes, c, field) = TotalOf(nodes, c, field)
  <2> HIDE DEF n, nodes
  <2>1. QED
    BY <1>2, NewTreeIs
<1>4. files' = Append(files, t)
  BY DEF WriteTree
<1> HIDE DEF t, nodes
<1>5. /\ files' \in Seq(ToSet(files')) /\ Len(files') = n + 1
      /\ DOMAIN files' = 1 .. n + 1
      /\ \A k \in 1 .. n : k \in 1 .. n + 1 /\ files'[k] = files[k]
      /\ files'[n + 1] = t /\ n + 1 \in 1 .. n + 1
      /\ \A k \in 1 .. n + 1 : k \in 1 .. n \/ k = n + 1
  BY <1>4, AppendIs DEF TreesInv
<1> HIDE DEF n
<1>6. TreesInv'
  <2>1. \A k \in 1 .. n + 1 : IsTree(files'[k]) /\ files'[k].airdrop_version = k - 1
    <3>1. \A k \in 1 .. n : IsTree(files[k]) /\ files[k].airdrop_version = k - 1
      BY <1>1 DEF TreesInv
    <3>2. (n + 1) - 1 = n
      BY <1>1, SMT
    <3>3. QED
      BY <1>3, <1>5, <3>1, <3>2
  <2>2. QED
    BY <1>5, <2>1 DEF TreesInv
<1>7. InFiles' = InFiles \cup Claimants(entries)
  <2>1. \A c : /\ c \in InFiles <=> \E k \in 1 .. n : c \in Names(files[k].tree_nodes)
               /\ c \in InFiles' <=> \E k \in 1 .. n + 1 : c \in Names(files'[k].tree_nodes)
    BY <1>1, <1>5 DEF InFiles
  <2>2. \A c : c \in InFiles' <=> c \in InFiles \/ c \in Claimants(entries)
    BY <1>3, <1>5, <2>1
  <2>3. QED
    BY <2>2
<1>8. ASSUME NEW c, NEW field \in Fields
      PROVE  /\ InTrees(c, field) \in Nat
             /\ TotalOf(nodes, c, field) \in Nat
             /\ InTrees(c, field)' = InTrees(c, field) + TotalOf(nodes, c, field)
  <2> DEFINE g == PerTree(files, c, field)
             h == PerTree(files', c, field)
  <2>1. /\ g \in [1 .. n -> Nat]
        /\ InTrees(c, field) = SumOf(g, 1 .. n)
        /\ InTrees(c, field) \in Nat
    <3>1. TreesAre(files, n)
      BY <1>1 DEF TreesInv, TreesAre
    <3>2. InTrees(c, field) = SumFunction(g)
      BY DEF InTrees, PerTree
    <3>3. QED
      BY <3>1, <3>2, PerTreeIs
  <2>2. /\ h \in [1 .. n + 1 -> Nat]
        /\ InTrees(c, field)' = SumOf(h, 1 .. n + 1)
    <3>1. TreesAre(files', n + 1)
      BY <1>1, <1>5, <1>6 DEF TreesInv, TreesAre
    <3>2. InTrees(c, field)' = SumFunction(h)
      BY DEF InTrees, PerTree
    <3>3. QED
      BY <3>1, <3>2, PerTreeIs
  <2>3. /\ \A k \in 1 .. n : h[k] = g[k]
        /\ h[n + 1] = TotalOf(nodes, c, field)
    BY <1>1, <1>3, <1>5 DEF PerTree
  <2> HIDE DEF g, h
  <2>4. SumOf(h, 1 .. n + 1) = SumOf(g, 1 .. n) + h[n + 1]
    BY <1>1, <2>1, <2>2, <2>3, SumOfLonger
  <2>5. TotalOf(nodes, c, field) \in Nat
    BY <1>5, <2>2, <2>3
  <2>6. QED
    BY <2>1, <2>2, <2>3, <2>4, <2>5
<1>9. QED
  BY <1>5, <1>6, <1>7, <1>8 DEF n, nodes

LEMMA PathsGood == TreesInv => Len(files) \in Nat /\ TreesAre(paths, Len(files))
  BY PathsAre

(* While no tree can be read yet, a new one changes nothing for readers.   *)
LEMMA ReadersWait ==
    ASSUME TreesInv, ServerInv, KvInv, ~complete, TreesInv',
           UNCHANGED <<api_vars, kv_vars>>
    PROVE  ServerInv' /\ KvInv'
<1> DEFINE n == Len(files)
           m == Len(files')
           map == Extended(Stored, proofs)
<1>1. n \in Nat /\ TreesAre(paths, n)
  BY PathsGood
<1>2. m \in Nat /\ TreesAre(paths', m)
  <2>1. (TreesInv => Len(files) \in Nat /\ TreesAre(paths, Len(files)))'
    BY PathsGood, PTL
  <2>2. QED
    BY <2>1
<1>3. /\ loaded = 0 /\ loaded' = 0 /\ kv_read = 0 /\ kv_read' = 0
      /\ kv_node = 1 /\ kv_node' = 1
      /\ tree' = tree /\ max_num_nodes' = max_num_nodes
      /\ max_total_claim' = max_total_claim
      /\ proofs' = proofs /\ kv_files' = kv_files
  BY DEF ServerInv, KvInv, api_vars, kv_vars
<1>4. Answers(paths', tree, 0, 1)
  <2>1. Answers(paths, tree, 0, 1)
    BY <1>3 DEF ServerInv
  <2>2. IsMap(tree) /\ DOMAIN tree = {}
    BY <1>1, <2>1, AnswersNothing
  <2>3. QED
    BY <1>2, <2>2, AnswersNothing
<1>5. map' = map
  BY <1>3 DEF Stored
<1>6. Answers(paths', map, 0, 1)
  <2>1. Answers(paths, map, 0, 1)
    BY <1>3 DEF KvInv
  <2> HIDE DEF map
  <2>2. IsMap(map) /\ DOMAIN map = {}
    BY <1>1, <2>1, AnswersNothing
  <2>3. QED
    BY <1>2, <2>2, AnswersNothing
<1>7. 0 < m => 1 \in DOMAIN paths'[1].tree_nodes
  <2> SUFFICES ASSUME 0 < m
               PROVE  1 \in DOMAIN paths'[1].tree_nodes
    OBVIOUS
  <2>1. 1 \in 1 .. m
    BY <1>2, SMT
  <2>2. IsTree(paths'[1])
    BY <1>2, <2>1 DEF TreesAre
  <2>3. /\ Len(paths'[1].tree_nodes) \in Nat \ {0}
        /\ DOMAIN paths'[1].tree_nodes = 1 .. Len(paths'[1].tree_nodes)
    BY <2>2, TreeIs
  <2>4. \A k \in Nat \ {0} : 1 \in 1 .. k
    BY SMT
  <2>5. QED
    BY <2>3, <2>4
<1>8. ServerInv'
  <2>1. /\ [r \in 1 .. 0 |-> get_max_total_claim(paths[r])] = <<>>
        /\ [r \in 1 .. 0 |-> get_max_total_claim(paths'[r])] = <<>>
    OBVIOUS
  <2>2. max_total_claim = SumFunction(<<>>)
    BY <1>3, <2>1 DEF ServerInv
  <2>3. max_total_claim' =
          SumFunction([r \in 1 .. loaded' |-> get_max_total_claim(paths'[r])])
    BY <1>3, <2>1, <2>2
  <2>4. /\ IsFiniteSet(DOMAIN tree) /\ max_num_nodes \in Nat
        /\ max_num_nodes >= Cardinality(DOMAIN tree)
    BY DEF ServerInv
  <2>5. 0 \in 0 .. m
    BY <1>2, SMT
  <2>6. QED
    BY <1>3, <1>4, <2>3, <2>4, <2>5 DEF ServerInv
<1>9. KvInv'
  <2>1. 0 \in 0 .. m
    BY <1>2, SMT
  <2>2. 0 + 1 = 1
    BY SMT
  <2>3. kv_files' \in Seq(ToSet(kv_files'))
    BY <1>3 DEF KvInv
  <2> HIDE DEF map
  <2>4. Answers(paths, Extended(Stored, proofs), kv_read, kv_node)'
    BY <1>3, <1>5, <1>6 DEF map
  <2>5. QED
    BY <1>3, <1>7, <2>1, <2>2, <2>3, <2>4 DEF KvInv
<1>10. QED
  BY <1>8, <1>9

(* Nobody is named by, or gets anything from, no lines.                    *)
LEMMA NoLines ==
    ASSUME AreLines(<<>>)
    PROVE  /\ Claimants(<<>>) = {}
           /\ \A c : \A field \in Fields : TotalOf(TreeNodes(<<>>), c, field) = 0
<1>1. Claimants(<<>>) = {}
  BY DEF Claimants, ToSet
<1>2. AreNodes(TreeNodes(<<>>)) /\ Names(TreeNodes(<<>>)) = {}
  BY <1>1, TreeNodesAre
<1>3. QED
  BY <1>1, <1>2, TotalOfNobody

LEMMA InitInv == Init => Inv
<1> SUFFICES ASSUME Init
             PROVE  Inv
  OBVIOUS
<1> DEFINE trimmed == Trimmed(csv, should_include_test_list)
<1>1. AreLines(csv) /\ NodesPerTree(list_tool, MaxNodesPerTree) \in Nat \ {0}
  BY InputAssumption DEF Init
<1>2. should_include_test_list \in BOOLEAN /\ csv_entries = trimmed /\ complete = FALSE
  BY DEF Init
<1>3. AreLines(trimmed)
  BY <1>1, <1>2, TrimmedIs
<1>4. files = <<>>
  BY DEF Init
<1>5. TreesInv /\ Len(files) = 0 /\ InFiles = {}
  <2>1. files = [k \in 1 .. 0 |-> files[k]]
    BY <1>4
  <2>2. files \in Seq(ToSet(files)) /\ Len(files) = 0 /\ DOMAIN files = 1 .. 0
    BY <2>1, OwnSeq
  <2>3. DOMAIN files = {}
    BY <2>2, SMT
  <2>4. QED
    BY <2>2, <2>3 DEF TreesInv, InFiles
<1>6. CreateInv
  BY <1>1, <1>2, <1>3 DEF CreateInv
<1>7. NamesInv
  <2> DEFINE named == UNION {Names(files[k].tree_nodes) : k \in DOMAIN files}
             tested == IF complete /\ should_include_test_list THEN ToSet(TestList) ELSE {}
  <2> SUFFICES named \cup Claimants(csv_entries) = Claimants(trimmed) \cup tested
    BY DEF NamesInv
  <2>1. named = {} /\ tested = {}
    BY <1>2, <1>5 DEF InFiles
  <2>2. Claimants(csv_entries) = Claimants(trimmed)
    BY <1>2
  <2> HIDE DEF named, tested, trimmed
  <2>3. QED
    BY <2>1, <2>2
<1>8. AmountsInv
  <2> SUFFICES ASSUME NEW c \in Everyone, NEW field \in Fields
               PROVE  InTrees(c, field) + TotalOf(TreeNodes(csv_entries), c, field)
                        = TotalOf(TreeNodes(trimmed), c, field) + 0
    BY <1>2 DEF AmountsInv
  <2>1. InTrees(c, field) = 0
    <3> DEFINE g == PerTree(files, c, field)
    <3>1. InTrees(c, field) = SumFunction(g)
      BY DEF InTrees, PerTree
    <3>2. DOMAIN g = {}
      BY <1>4 DEF PerTree
    <3> HIDE DEF g
    <3>3. InTrees(c, field) = SumOf(g, {})
      BY <3>1, <3>2, SumFunctionIs
    <3>4. g \in [{} -> Nat] /\ IsFiniteSet({})
      <4>1. TreesAre(files, 0)
        BY <1>4, <1>5 DEF TreesAre, TreesInv
      <4>2. g \in [1 .. 0 -> Nat]
        BY <4>1, PerTreeIs DEF g
      <4>3. QED
        BY <4>2, FS_EmptySet
    <3>5. QED
      BY <3>3, <3>4, SumStep
  <2>2. TotalOf(TreeNodes(trimmed), c, field) \in Nat
    <3>1. AreNodes(TreeNodes(trimmed))
      BY <1>3, TreeNodesAre
    <3>2. Of(TreeNodes(trimmed), c) \in SUBSET DOMAIN TreeNodes(trimmed)
      BY <3>1, NamesAre
    <3>3. QED
      BY <3>1, <3>2, TotalIs DEF TotalOf
  <2> HIDE DEF trimmed
  <2>3. QED
    BY <1>2, <2>1, <2>2
<1>9. TreesAre(paths, 0)
  BY <1>5, PathsGood
<1>10. ServerInv
  <2>1. /\ loaded = 0 /\ tree = <<>> /\ max_num_nodes = 0 /\ max_total_claim = 0
    BY DEF Init
  <2>2. Answers(paths, tree, 0, 1)
    <3>1. IsMap(tree) /\ DOMAIN tree = {}
      BY <2>1 DEF IsMap
    <3>2. QED
      BY <1>9, <3>1, AnswersNothing
  <2>3. IsFiniteSet(DOMAIN tree) /\ Cardinality(DOMAIN tree) = 0
    BY <2>1, FS_EmptySet
  <2>4. SumFunction([r \in 1 .. loaded |-> get_max_total_claim(paths[r])]) = 0
    <3> DEFINE g == [r \in 1 .. loaded |-> get_max_total_claim(paths[r])]
    <3>1. DOMAIN g = {} /\ g \in [{} -> Nat]
      BY <2>1
    <3> HIDE DEF g
    <3>2. SumFunction(g) = SumOf(g, {})
      BY <3>1, SumFunctionIs
    <3>3. SumOf(g, {}) = 0
      BY <3>1, FS_EmptySet, SumStep
    <3>4. QED
      BY <3>2, <3>3 DEF g
  <2>5. 0 \in 0 .. Len(files) /\ 0 >= 0
    BY <1>5, SMT
  <2>6. QED
    BY <2>1, <2>2, <2>3, <2>4, <2>5 DEF ServerInv
<1>11. KvInv
  <2>1. kv_read = 0 /\ kv_node = 1 /\ proofs = <<>> /\ kv_files = <<>>
    BY DEF Init
  <2>2. kv_files \in Seq(ToSet(kv_files))
    <3>1. kv_files = [k \in 1 .. 0 |-> kv_files[k]]
      BY <2>1
    <3>2. QED
      BY <3>1, OwnSeq
  <2>3. DOMAIN Stored = {}
    BY <2>1 DEF Stored, Latest, ToSet
  <2>4. IsMap(Extended(Stored, proofs)) /\ DOMAIN Extended(Stored, proofs) = {}
    <3>1. DOMAIN proofs = {}
      BY <2>1
    <3>2. QED
      BY <2>3, <3>1 DEF Extended, IsMap
  <2>5. Answers(paths, Extended(Stored, proofs), 0, 1)
    BY <1>9, <2>4, AnswersNothing
  <2>6. 0 \in 0 .. Len(files) /\ ~(0 < Len(files))
    BY <1>5, SMT
  <2>7. QED
    BY <2>1, <2>2, <2>5, <2>6 DEF KvInv
<1>12. QED
  BY <1>5, <1>6, <1>7, <1>8, <1>10, <1>11 DEF Inv

(* A tree gets a line at least, and no more than there are.                *)
LEMMA LastIndexIs ==
    ASSUME CreateInv, csv_entries # <<>>
    PROVE  last_index \in 0 .. Len(csv_entries) /\ last_index > 0
<1>1. /\ AreLines(csv_entries) /\ csv_entries # <<>>
      /\ NodesPerTree(list_tool, MaxNodesPerTree) \in Nat \ {0}
  BY DEF CreateInv
<1>2. last_index \in 1 .. Len(csv_entries)
  <2> DEFINE most == NodesPerTree(list_tool, MaxNodesPerTree)
             left == Len(csv_entries)
  <2>1. most \in Nat \ {0} /\ left \in Nat \ {0}
    <3>1. left \in Nat /\ left > 0
      BY <1>1, LinesAre
    <3> HIDE DEF left
    <3>2. QED
      BY <1>1, <3>1, SMT
  <2>2. last_index = Min({most, left})
    BY DEF last_index
  <2> HIDE DEF most, left
  <2>3. last_index \in {most, left} /\ last_index <= left
    BY <2>1, <2>2, MinOfPair
  <2>4. last_index \in 1 .. left
    BY <2>1, <2>3, SMT
  <2>5. QED
    BY <2>4 DEF left
<1>3. QED
  <2>1. Len(csv_entries) \in Nat
    BY <1>1, LinesAre
  <2>2. QED
    BY <1>2, <2>1, SMT

(* The lines of the next tree and the rest are what is left of the list.   *)
LEMMA CutTree ==
    ASSUME CreateInv, csv_entries # <<>>
    PROVE  /\ AreLines(SubTree) /\ SubTree # <<>> /\ AreLines(Rest)
           /\ Claimants(csv_entries) = Claimants(SubTree) \cup Claimants(Rest)
           /\ \A c : \A field \in Fields :
                /\ TotalOf(TreeNodes(SubTree), c, field) \in Nat
                /\ TotalOf(TreeNodes(Rest), c, field) \in Nat
                /\ TotalOf(TreeNodes(csv_entries), c, field)
                     = TotalOf(TreeNodes(SubTree), c, field) + TotalOf(TreeNodes(Rest), c, field)
<1>1. AreLines(csv_entries)
  BY DEF CreateInv
<1>2. last_index \in 0 .. Len(csv_entries) /\ last_index > 0
  BY LastIndexIs
<1>3. AreLines(SubTree) /\ Len(SubTree) = last_index
  BY <1>1, <1>2, CutLines DEF SubTree
<1>4. SubTree # <<>>
  BY <1>2, <1>3, LinesAre
<1>5. QED
  BY <1>1, <1>2, <1>4, CutLines DEF SubTree, Rest

(* One more tree of the list: what is left is shorter by its lines.        *)
LEMMA CreateTreeInv == Inv /\ CreateTree => Inv'
<1> SUFFICES ASSUME Inv, CreateTree
             PROVE  Inv'
  OBVIOUS
<1> DEFINE trimmed == Trimmed(csv, should_include_test_list)
           tested == IF complete /\ should_include_test_list THEN ToSet(TestList) ELSE {}
<1>1. /\ TreesInv /\ CreateInv /\ NamesInv /\ AmountsInv /\ ServerInv /\ KvInv
      /\ AreLines(csv) /\ AreLines(csv_entries) /\ complete \in BOOLEAN
      /\ NodesPerTree(list_tool, MaxNodesPerTree) \in Nat \ {0}
  BY DEF Inv, CreateInv
<1>2. /\ WriteTree(SubTree) /\ csv_entries # <<>> /\ csv_entries' = Rest
      /\ UNCHANGED <<made, complete>> /\ UNCHANGED <<api_vars, kv_vars>>
  BY DEF CreateTree
<1>3. ~complete
  BY <1>1, <1>2 DEF CreateInv
<1>4. /\ csv' = csv /\ should_include_test_list' = should_include_test_list
      /\ list_tool' = list_tool /\ source' = source /\ complete' = complete
  BY <1>2 DEF made
<1>5. /\ AreLines(SubTree) /\ SubTree # <<>> /\ AreLines(Rest)
      /\ Claimants(csv_entries) = Claimants(SubTree) \cup Claimants(Rest)
      /\ \A c : \A field \in Fields :
           /\ TotalOf(TreeNodes(SubTree), c, field) \in Nat
           /\ TotalOf(TreeNodes(Rest), c, field) \in Nat
           /\ TotalOf(TreeNodes(csv_entries), c, field)
                = TotalOf(TreeNodes(SubTree), c, field) + TotalOf(TreeNodes(Rest), c, field)
  BY <1>1, <1>2, CutTree
<1>6. /\ TreesInv'
      /\ InFiles' = InFiles \cup Claimants(SubTree)
      /\ \A c : \A field \in Fields :
           /\ InTrees(c, field) \in Nat
           /\ InTrees(c, field)'
                = InTrees(c, field) + TotalOf(TreeNodes(SubTree), c, field)
  BY <1>1, <1>2, <1>5, WriteTreeIs
<1>7. CreateInv'
  BY <1>1, <1>2, <1>3, <1>4, <1>5 DEF CreateInv
<1>8. NamesInv'
  <2>1. InFiles \cup Claimants(csv_entries) = Claimants(trimmed) \cup tested
    BY <1>1 DEF NamesInv, InFiles
  <2>2. InFiles' \cup Claimants(Rest) = Claimants(trimmed) \cup tested
    BY <1>5, <1>6, <2>1
  <2>3. QED
    BY <1>2, <1>4, <2>2 DEF NamesInv, InFiles
<1>9. AmountsInv'
  <2> SUFFICES ASSUME NEW c \in Everyone, NEW field \in Fields
               PROVE  InTrees(c, field)' + TotalOf(TreeNodes(Rest), c, field)
                        = InTrees(c, field) + TotalOf(TreeNodes(csv_entries), c, field)
    <3>1. Everyone' = Everyone
      BY <1>4 DEF Everyone
    <3>2. QED
      BY <1>1, <1>2, <1>4, <3>1 DEF AmountsInv
  <2>1. QED
    BY <1>5, <1>6, SMT
<1>10. ServerInv' /\ KvInv'
  BY <1>1, <1>2, <1>3, <1>6, ReadersWait
<1>11. QED
  BY <1>6, <1>7, <1>8, <1>9, <1>10 DEF Inv

(* The list is used up; the test wallets get the last tree, if at all.     *)
LEMMA FinishTreesInv == Inv /\ FinishTrees => Inv'
<1> SUFFICES ASSUME Inv, FinishTrees
             PROVE  Inv'
  OBVIOUS
<1> DEFINE trimmed == Trimmed(csv, should_include_test_list)
           tested == IF should_include_test_list THEN ToSet(TestList) ELSE {}
           given(c, field) == IF should_include_test_list
                              THEN TotalOf(TreeNodes(TestEntries), c, field) ELSE 0
<1>1. /\ TreesInv /\ CreateInv /\ NamesInv /\ AmountsInv /\ ServerInv /\ KvInv
      /\ AreLines(csv) /\ AreLines(csv_entries) /\ should_include_test_list \in BOOLEAN
      /\ NodesPerTree(list_tool, MaxNodesPerTree) \in Nat \ {0}
  BY DEF Inv, CreateInv
<1>2. /\ ~complete /\ csv_entries = <<>> /\ complete' = TRUE
      /\ UNCHANGED <<made, csv_entries>> /\ UNCHANGED <<api_vars, kv_vars>>
      /\ should_include_test_list => WriteTree(TestEntries)
      /\ ~should_include_test_list => files' = files
  BY DEF FinishTrees
<1>3. /\ csv' = csv /\ should_include_test_list' = should_include_test_list
      /\ list_tool' = list_tool /\ source' = source /\ csv_entries' = csv_entries
  BY <1>2 DEF made
<1>4. /\ Claimants(csv_entries) = {}
      /\ \A c : \A field \in Fields : TotalOf(TreeNodes(csv_entries), c, field) = 0
  BY <1>1, <1>2, NoLines
<1>5. /\ TreesInv' /\ InFiles' = InFiles \cup tested
      /\ \A c : \A field \in Fields :
           /\ InTrees(c, field) \in Nat /\ given(c, field) \in Nat
           /\ InTrees(c, field)' = InTrees(c, field) + given(c, field)
  <2>1. CASE should_include_test_list
    <3>1. /\ TreesInv'
          /\ InFiles' = InFiles \cup Claimants(TestEntries)
          /\ \A c : \A field \in Fields :
               /\ InTrees(c, field) \in Nat
               /\ TotalOf(TreeNodes(TestEntries), c, field) \in Nat
               /\ InTrees(c, field)'
                    = InTrees(c, field) + TotalOf(TreeNodes(TestEntries), c, field)
      BY <1>1, <1>2, <2>1, TestEntriesAre, WriteTreeIs
    <3>2. QED
      BY <2>1, <3>1, TestEntriesAre
  <2>2. CASE ~should_include_test_list
    <3>1. TreesInv' /\ InFiles' = InFiles
      BY <1>1, <1>2, <2>2 DEF TreesInv, InFiles
    <3>2. ASSUME NEW c, NEW field \in Fields
          PROVE  InTrees(c, field) \in Nat /\ InTrees(c, field)' = InTrees(c, field)
      BY <1>1, <1>2, <2>2, InTreesIs DEF InTrees
    <3>3. QED
      BY <2>2, <3>1, <3>2, SMT
  <2>3. QED
    BY <2>1, <2>2
<1>6. CreateInv'
  BY <1>1, <1>2, <1>3 DEF CreateInv
<1>7. NamesInv'
  <2>1. InFiles \cup Claimants(csv_entries) = Claimants(trimmed) \cup {}
    BY <1>1, <1>2 DEF NamesInv, InFiles
  <2>2. InFiles' \cup Claimants(csv_entries) = Claimants(trimmed) \cup tested
    BY <1>4, <1>5, <2>1
  <2>3. QED
    BY <1>2, <1>3, <2>2 DEF NamesInv, InFiles
<1>8. AmountsInv'
  <2> SUFFICES ASSUME NEW c \in Everyone, NEW field \in Fields
               PROVE  InTrees(c, field)' + TotalOf(TreeNodes(csv_entries), c, field)
                        = TotalOf(TreeNodes(trimmed), c, field) + given(c, field)
    <3>1. Everyone' = Everyone
      BY <1>3 DEF Everyone
    <3>2. QED
      BY <1>2, <1>3, <3>1 DEF AmountsInv
  <2>1. InTrees(c, field) + TotalOf(TreeNodes(csv_entries), c, field)
          = TotalOf(TreeNodes(trimmed), c, field) + 0
    BY <1>1, <1>2 DEF AmountsInv
  <2>2. TotalOf(TreeNodes(trimmed), c, field) \in Nat
    <3>1. AreLines(trimmed)
      BY <1>1, TrimmedIs
    <3>2. AreNodes(TreeNodes(trimmed))
      BY <3>1, TreeNodesAre
    <3>3. Of(TreeNodes(trimmed), c) \in SUBSET DOMAIN TreeNodes(trimmed)
      BY <3>2, NamesAre
    <3>4. QED
      BY <3>2, <3>3, TotalIs DEF TotalOf
  <2> HIDE DEF trimmed, given
  <2>3. QED
    BY <1>4, <1>5, <2>1, <2>2, SMT
<1>9. ServerInv' /\ KvInv'
  BY <1>1, <1>2, <1>5, ReadersWait
<1>10. QED
  BY <1>5, <1>6, <1>7, <1>8, <1>9 DEF Inv

--------------------------------------------------------------------------------
(* The readers                                                             *)

(* No more names than nodes.                                               *)
LEMMA FewNames ==
    ASSUME NEW nodes, AreNodes(nodes)
    PROVE  IsFiniteSet(Names(nodes)) /\ Cardinality(Names(nodes)) <= Len(nodes)
<1> DEFINE n == Len(nodes)
           name == [k \in 1 .. n |-> nodes[k].claimant]
<1>1. n \in Nat /\ DOMAIN nodes = 1 .. n
  BY NodesAre
<1>2. name \in Surjection(1 .. n, Names(nodes))
  <2>1. name \in [1 .. n -> Names(nodes)]
    BY <1>1, NamesAre
  <2>2. \A c \in Names(nodes) : \E k \in 1 .. n : name[k] = c
    BY <1>1, NamesAre
  <2> HIDE DEF name, n
  <2>3. QED
    BY <2>1, <2>2 DEF Surjection
<1> HIDE DEF name, n
<1>3. IsFiniteSet(1 .. n) /\ Cardinality(1 .. n) = n
  BY <1>1, FS_Interval, SMT
<1>4. QED
  BY <1>2, <1>3, FS_Surjection DEF n

(* Two sets together have no more elements than both.                      *)
LEMMA UnionIsBounded ==
    ASSUME NEW S, IsFiniteSet(S), NEW T, IsFiniteSet(T), NEW s \in Nat, NEW t \in Nat,
           s >= Cardinality(S), t >= Cardinality(T)
    PROVE  IsFiniteSet(S \cup T) /\ s + t >= Cardinality(S \cup T)
<1>1. /\ IsFiniteSet(S \cup T)
      /\ Cardinality(S \cup T) = Cardinality(S) + Cardinality(T) - Cardinality(S \cap T)
  BY FS_Union
<1>2. IsFiniteSet(S \cap T)
  BY FS_Subset
<1>3. Cardinality(S) \in Nat /\ Cardinality(T) \in Nat /\ Cardinality(S \cap T) \in Nat
  BY <1>2, FS_CardinalityType
<1>4. QED
  BY <1>1, <1>3, SMT

LEMMA LoadTreeInv == Inv /\ LoadTree => Inv'
<1> SUFFICES ASSUME Inv, LoadTree
             PROVE  Inv'
  OBVIOUS
<1> DEFINE n == Len(files)
           t == paths[loaded + 1]
           served == ServedBy(t, loaded + 1)
<1>1. TreesInv /\ CreateInv /\ NamesInv /\ AmountsInv /\ ServerInv /\ KvInv
  BY DEF Inv
<1>2. /\ complete /\ loaded < n /\ loaded' = loaded + 1
      /\ max_total_claim' = max_total_claim + get_max_total_claim(t)
      /\ max_num_nodes' = max_num_nodes + t.max_num_nodes
      /\ tree' = Extended(tree, served)
  BY DEF LoadTree
<1>3. UNCHANGED create_vars /\ UNCHANGED kv_vars
  BY DEF LoadTree
<1>4. n \in Nat /\ TreesAre(paths, n)
  BY <1>1, PathsGood
<1>5. loaded \in 0 .. n - 1 /\ loaded + 1 \in 0 .. n /\ loaded + 1 \in 1 .. n
      /\ loaded \in Nat
  <2>1. loaded \in 0 .. n
    BY <1>1 DEF ServerInv
  <2> HIDE DEF n
  <2>2. QED
    BY <1>2, <1>4, <2>1, SMT
<1>6. /\ csv' = csv /\ should_include_test_list' = should_include_test_list
      /\ list_tool' = list_tool /\ source' = source /\ csv_entries' = csv_entries
      /\ files' = files /\ complete' = complete /\ paths' = paths
  BY <1>3 DEF create_vars, made, paths
<1>7. /\ kv_read' = kv_read /\ kv_node' = kv_node /\ proofs' = proofs
      /\ kv_files' = kv_files /\ Stored' = Stored
  BY <1>3 DEF kv_vars, Stored
<1>8. TreesInv' /\ CreateInv' /\ NamesInv' /\ AmountsInv'
  <2>1. TreesInv' /\ CreateInv' /\ NamesInv'
    BY <1>1, <1>6 DEF TreesInv, CreateInv, NamesInv
  <2>2. AmountsInv'
    BY <1>1, <1>6 DEF AmountsInv, Everyone, InTrees
  <2>3. QED
    BY <2>1, <2>2
<1>9. KvInv'
  BY <1>1, <1>6, <1>7 DEF KvInv
<1>10. ServerInv'
  <2>1. IsTree(t)
    BY <1>4, <1>5 DEF TreesAre
  <2>2. Answers(paths, tree', loaded + 1, 1)
    <3>1. Answers(paths, tree, loaded, 1)
      BY <1>1 DEF ServerInv
    <3>2. QED
      BY <1>2, <1>4, <1>5, <3>1, AnswersServed
  <2>3. DOMAIN tree' = DOMAIN tree \cup Names(t.tree_nodes)
    BY <1>2 DEF Extended, ServedBy
  <2>4. /\ IsFiniteSet(DOMAIN tree') /\ max_num_nodes' \in Nat
        /\ max_num_nodes' >= Cardinality(DOMAIN tree')
    <3>1. /\ IsFiniteSet(Names(t.tree_nodes)) /\ t.max_num_nodes \in Nat
          /\ t.max_num_nodes >= Cardinality(Names(t.tree_nodes))
      <4>1. AreNodes(t.tree_nodes) /\ Len(t.tree_nodes) \in Nat \ {0}
            /\ t.max_num_nodes = Len(t.tree_nodes)
        BY <2>1, TreeIs
      <4>2. /\ IsFiniteSet(Names(t.tree_nodes))
            /\ Cardinality(Names(t.tree_nodes)) <= Len(t.tree_nodes)
        BY <4>1, FewNames
      <4>3. Cardinality(Names(t.tree_nodes)) \in Nat
        BY <4>2, FS_CardinalityType
      <4>4. QED
        BY <4>1, <4>2, <4>3, SMT
    <3>2. /\ IsFiniteSet(DOMAIN tree) /\ max_num_nodes \in Nat
          /\ max_num_nodes >= Cardinality(DOMAIN tree)
      BY <1>1 DEF ServerInv
    <3> HIDE DEF t
    <3>3. /\ IsFiniteSet(DOMAIN tree \cup Names(t.tree_nodes))
          /\ max_num_nodes + t.max_num_nodes
               >= Cardinality(DOMAIN tree \cup Names(t.tree_nodes))
      BY <3>1, <3>2, UnionIsBounded
    <3>4. max_num_nodes + t.max_num_nodes \in Nat
      BY <3>1, <3>2, SMT
    <3>5. QED
      BY <1>2, <2>3, <3>3, <3>4
  <2>5. max_total_claim' =
          SumFunction([r \in 1 .. loaded + 1 |-> get_max_total_claim(paths[r])])
    <3> DEFINE g == [r \in 1 .. loaded |-> get_max_total_claim(paths[r])]
               h == [r \in 1 .. loaded + 1 |-> get_max_total_claim(paths[r])]
    <3>1. \A r \in 1 .. n : get_max_total_claim(paths[r]) \in Nat
      <4>1. \A r \in 1 .. n : IsTree(paths[r])
        BY <1>4 DEF TreesAre
      <4>2. QED
        BY <4>1, TreeIs
    <3>2. /\ \A r \in 1 .. loaded : r \in 1 .. loaded + 1
          /\ \A r \in 1 .. loaded + 1 : r \in 1 .. n
      <4> HIDE DEF n
      <4>1. QED
        BY <1>4, <1>5, SMT
    <3>3. loaded + 1 \in 1 .. loaded + 1
      BY <1>5, SMT
    <3>4. h \in [1 .. loaded + 1 -> Nat]
      BY <3>1, <3>2
    <3>5. g \in [1 .. loaded -> Nat] /\ \A r \in 1 .. loaded : h[r] = g[r]
      BY <3>1, <3>2
    <3>6. h[loaded + 1] = get_max_total_claim(t)
      BY <3>3
    <3>7. DOMAIN g = 1 .. loaded /\ DOMAIN h = 1 .. loaded + 1
      OBVIOUS
    <3>8. max_total_claim = SumFunction(g)
      BY <1>1 DEF ServerInv
    <3> HIDE DEF g, h, t
    <3>9. SumFunction(g) = SumOf(g, 1 .. loaded) /\ SumFunction(h) = SumOf(h, 1 .. loaded + 1)
      BY <3>7, SumFunctionIs
    <3>10. SumOf(h, 1 .. loaded + 1) = SumOf(g, 1 .. loaded) + h[loaded + 1]
      BY <1>5, <3>4, <3>5, SumOfLonger
    <3>11. max_total_claim' = SumFunction(h)
      BY <1>2, <3>6, <3>8, <3>9, <3>10
    <3>12. QED
      BY <3>11 DEF h
  <2>6. ~complete' => loaded' = 0
    BY <1>2, <1>6
  <2>7. loaded' \in 0 .. Len(files')
    BY <1>2, <1>5, <1>6
  <2>8. QED
    BY <1>2, <1>6, <2>2, <2>4, <2>5, <2>6, <2>7 DEF ServerInv
<1>11. QED
  BY <1>8, <1>9, <1>10 DEF Inv

LEMMA InsertProofInv == Inv /\ InsertProof => Inv'
<1> SUFFICES ASSUME Inv, InsertProof
             PROVE  Inv'
  OBVIOUS
<1> DEFINE n == Len(files)
           t == paths[kv_read + 1]
           node == t.tree_nodes[kv_node]
           new == [c \in {node.claimant} |-> UserProof(t, kv_read + 1, node)]
           inserted == Extended(proofs, new)
           last == Len(t.tree_nodes)
<1>1. TreesInv /\ CreateInv /\ NamesInv /\ AmountsInv /\ ServerInv /\ KvInv
  BY DEF Inv
<1>2. /\ complete /\ kv_read < n
      /\ \/ proofs' = <<>> /\ kv_files' = Append(kv_files, inserted)
         \/ proofs' = inserted /\ kv_files' = kv_files
      /\ kv_node < last => kv_node' = kv_node + 1 /\ kv_read' = kv_read
      /\ ~(kv_node < last) => kv_node' = 1 /\ kv_read' = kv_read + 1
  BY DEF InsertProof
<1>3. UNCHANGED create_vars /\ UNCHANGED api_vars
  BY DEF InsertProof
<1>4. n \in Nat /\ TreesAre(paths, n)
  BY <1>1, PathsGood
<1>5. kv_read \in 0 .. n - 1 /\ kv_read + 1 \in 1 .. n /\ kv_read \in Nat
  <2>1. kv_read \in 0 .. n
    BY <1>1 DEF KvInv
  <2> HIDE DEF n
  <2>2. QED
    BY <1>2, <1>4, <2>1, SMT
<1>6. /\ csv' = csv /\ should_include_test_list' = should_include_test_list
      /\ list_tool' = list_tool /\ source' = source /\ csv_entries' = csv_entries
      /\ files' = files /\ complete' = complete /\ paths' = paths
  BY <1>3 DEF create_vars, made, paths
<1>7. /\ loaded' = loaded /\ tree' = tree /\ max_total_claim' = max_total_claim
      /\ max_num_nodes' = max_num_nodes
  BY <1>3 DEF api_vars
<1>8. TreesInv' /\ CreateInv' /\ NamesInv' /\ AmountsInv'
  <2>1. TreesInv' /\ CreateInv' /\ NamesInv'
    BY <1>1, <1>6 DEF TreesInv, CreateInv, NamesInv
  <2>2. AmountsInv'
    BY <1>1, <1>6 DEF AmountsInv, Everyone, InTrees
  <2>3. QED
    BY <2>1, <2>2
<1>9. ServerInv'
  BY <1>1, <1>6, <1>7 DEF ServerInv
<1>10. last \in Nat \ {0} /\ kv_node \in 1 .. last
  <2>1. IsTree(t)
    BY <1>4, <1>5 DEF TreesAre
  <2>2. kv_node \in DOMAIN t.tree_nodes
    BY <1>1, <1>2 DEF KvInv
  <2> HIDE DEF t
  <2>3. QED
    BY <2>1, <2>2, TreeIs
<1>11. Answers(paths, Extended(Extended(Stored, proofs), new), kv_read', kv_node')
  <2>1. Answers(paths, Extended(Stored, proofs), kv_read, kv_node)
    BY <1>1 DEF KvInv
  <2>2. /\ kv_node \in DOMAIN Nodes(paths, kv_read + 1)
        /\ kv_node < Len(Nodes(paths, kv_read + 1)) => kv_read' = kv_read /\ kv_node' = kv_node + 1
        /\ ~(kv_node < Len(Nodes(paths, kv_read + 1))) => kv_read' = kv_read + 1 /\ kv_node' = 1
    BY <1>1, <1>2 DEF KvInv, Nodes
  <2>3. /\ \A c : c \in DOMAIN new <=> c = Nodes(paths, kv_read + 1)[kv_node].claimant
        /\ \A c \in DOMAIN new : new[c] = UserProof(paths[kv_read + 1], kv_read + 1,
                                              Nodes(paths, kv_read + 1)[kv_node])
    BY DEF Nodes
  <2> HIDE DEF new, n
  <2>4. QED
    BY <1>4, <1>5, <2>1, <2>2, <2>3, AnswersInserted
<1>12. /\ kv_files' \in Seq(ToSet(kv_files'))
       /\ Extended(Stored', proofs') = Extended(Extended(Stored, proofs), new)
  <2>1. Extended(Extended(Stored, proofs), new) = Extended(Stored, inserted)
    BY ExtendedTwice
  <2>2. kv_files \in Seq(ToSet(kv_files))
    BY <1>1 DEF KvInv
  <2> HIDE DEF inserted
  <2>3. CASE proofs' = <<>> /\ kv_files' = Append(kv_files, inserted)
    <3>1. Stored' = Extended(Stored, inserted)
      BY <2>2, <2>3, LatestAppend DEF Stored
    <3>2. DOMAIN proofs' = {}
      BY <2>3
    <3>3. IsMap(Extended(Stored, inserted))
      BY DEF Extended, IsMap
    <3>4. Extended(Extended(Stored, inserted), proofs') = Extended(Stored, inserted)
      BY <3>2, <3>3, ExtendedByNothing
    <3>5. kv_files' \in Seq(ToSet(kv_files'))
      BY <2>2, <2>3, AppendIs
    <3>6. QED
      BY <2>1, <3>1, <3>4, <3>5
  <2>4. CASE proofs' = inserted /\ kv_files' = kv_files
    BY <2>1, <2>2, <2>4 DEF Stored
  <2>5. QED
    BY <1>2, <2>3, <2>4
<1>13. KvInv'
  <2>1. /\ kv_read' \in 0 .. n
        /\ kv_read' = n => kv_node' = 1
    <3> HIDE DEF n, last
    <3>1. QED
      BY <1>2, <1>4, <1>5, <1>10, SMT
  <2>2. ASSUME kv_read' < n
        PROVE  kv_node' \in DOMAIN paths[kv_read' + 1].tree_nodes
    <3>1. CASE kv_node < last
      <4>1. DOMAIN t.tree_nodes = 1 .. last
        <5>1. IsTree(t)
          BY <1>4, <1>5 DEF TreesAre
        <5> HIDE DEF t
        <5>2. QED
          BY <5>1, TreeIs
      <4>2. kv_node + 1 \in 1 .. last
        <5> HIDE DEF last
        <5>1. QED
          BY <1>10, <3>1, SMT
      <4>3. QED
        BY <1>2, <3>1, <4>1, <4>2
    <3>2. CASE ~(kv_node < last)
      <4>1. kv_read' + 1 \in 1 .. n
        <5>1. \A m \in Nat : \A k \in 0 .. m : k < m => k + 1 \in 1 .. m
          BY SMT
        <5> HIDE DEF n
        <5>2. QED
          BY <1>4, <2>1, <2>2, <5>1
      <4>2. IsTree(paths[kv_read' + 1])
        BY <1>4, <4>1 DEF TreesAre
      <4>3. /\ Len(paths[kv_read' + 1].tree_nodes) \in Nat \ {0}
            /\ DOMAIN paths[kv_read' + 1].tree_nodes
                 = 1 .. Len(paths[kv_read' + 1].tree_nodes)
        BY <4>2, TreeIs
      <4>4. \A k \in Nat \ {0} : 1 \in 1 .. k
        BY SMT
      <4>5. QED
        BY <1>2, <3>2, <4>3, <4>4
    <3>3. QED
      BY <3>1, <3>2
  <2>3. QED
    BY <1>2, <1>6, <1>11, <1>12, <2>1, <2>2 DEF KvInv
<1>14. QED
  BY <1>8, <1>9, <1>13 DEF Inv

LEMMA FlushProofsInv == Inv /\ FlushProofs => Inv'
<1> SUFFICES ASSUME Inv, FlushProofs
             PROVE  Inv'
  OBVIOUS
<1>1. TreesInv /\ CreateInv /\ NamesInv /\ AmountsInv /\ ServerInv /\ KvInv
  BY DEF Inv
<1>2. /\ kv_files' = Append(kv_files, proofs) /\ proofs' = <<>>
      /\ kv_read' = kv_read /\ kv_node' = kv_node
      /\ UNCHANGED create_vars /\ UNCHANGED api_vars
  BY DEF FlushProofs
<1>3. /\ csv' = csv /\ should_include_test_list' = should_include_test_list
      /\ list_tool' = list_tool /\ source' = source /\ csv_entries' = csv_entries
      /\ files' = files /\ complete' = complete /\ paths' = paths
  BY <1>2 DEF create_vars, made, paths
<1>4. /\ loaded' = loaded /\ tree' = tree /\ max_total_claim' = max_total_claim
      /\ max_num_nodes' = max_num_nodes
  BY <1>2 DEF api_vars
<1>5. TreesInv' /\ CreateInv' /\ NamesInv' /\ AmountsInv' /\ ServerInv'
  <2>1. TreesInv' /\ CreateInv' /\ NamesInv'
    BY <1>1, <1>3 DEF TreesInv, CreateInv, NamesInv
  <2>2. AmountsInv'
    BY <1>1, <1>3 DEF AmountsInv, Everyone, InTrees
  <2>3. ServerInv'
    BY <1>1, <1>3, <1>4 DEF ServerInv
  <2>4. QED
    BY <2>1, <2>2, <2>3
<1>6. kv_files' \in Seq(ToSet(kv_files')) /\ Extended(Stored', proofs') = Extended(Stored, proofs)
  <2>1. kv_files \in Seq(ToSet(kv_files))
    BY <1>1 DEF KvInv
  <2>2. Stored' = Extended(Stored, proofs)
    BY <1>2, <2>1, LatestAppend DEF Stored
  <2>3. DOMAIN proofs' = {}
    BY <1>2
  <2>4. IsMap(Extended(Stored, proofs))
    BY DEF Extended, IsMap
  <2>5. Extended(Extended(Stored, proofs), proofs') = Extended(Stored, proofs)
    BY <2>3, <2>4, ExtendedByNothing
  <2>6. kv_files' \in Seq(ToSet(kv_files'))
    BY <1>2, <2>1, AppendIs
  <2>7. QED
    BY <2>2, <2>5, <2>6
<1>7. KvInv'
  BY <1>1, <1>2, <1>3, <1>6 DEF KvInv
<1>8. QED
  BY <1>5, <1>7 DEF Inv

LEMMA StutterInv == Inv /\ UNCHANGED vars => Inv'
<1> SUFFICES ASSUME Inv, UNCHANGED vars
             PROVE  Inv'
  OBVIOUS
<1>1. TreesInv /\ CreateInv /\ NamesInv /\ AmountsInv /\ ServerInv /\ KvInv
  BY DEF Inv
<1>2. /\ csv' = csv /\ should_include_test_list' = should_include_test_list
      /\ list_tool' = list_tool /\ source' = source /\ csv_entries' = csv_entries
      /\ files' = files /\ complete' = complete /\ paths' = paths
      /\ loaded' = loaded /\ tree' = tree /\ max_total_claim' = max_total_claim
      /\ max_num_nodes' = max_num_nodes /\ kv_read' = kv_read /\ kv_node' = kv_node
      /\ proofs' = proofs /\ kv_files' = kv_files /\ Stored' = Stored
  BY DEF vars, paths, Stored
<1>3. TreesInv' /\ CreateInv' /\ NamesInv'
  BY <1>1, <1>2 DEF TreesInv, CreateInv, NamesInv
<1>4. AmountsInv'
  BY <1>1, <1>2 DEF AmountsInv, Everyone, InTrees
<1>5. ServerInv' /\ KvInv'
  BY <1>1, <1>2 DEF ServerInv, KvInv
<1>6. QED
  BY <1>3, <1>4, <1>5 DEF Inv

(* What the theorems below rest on: the trees hold with what is left of the*)
(* list what the list does, and a reader that has done some of the trees   *)
(* answers for the claimants of these, from the last that names each.      *)
THEOREM ServiceInvariance == Spec => []Inv
<1>1. Inv /\ [Next]_vars => Inv'
  BY CreateTreeInv, FinishTreesInv, LoadTreeInv, InsertProofInv, FlushProofsInv, StutterInv
     DEF Next
<1>2. QED
  BY InitInv, <1>1, PTL DEF Spec

--------------------------------------------------------------------------------
(* The properties of the run                                               *)

(* NeverRejected: create-merkle-tree never panics on the validation of a   *)
(* tree it made (AirdropMerkleTree::new, validate), for lists of any length*)
(* and any lines of a claimant in a shard.                                 *)
THEOREM CreatedTreesAreValid == Spec => []NeverRejected
<1>1. Inv => NeverRejected
  <2> SUFFICES ASSUME Inv, csv_entries # <<>>
               PROVE  validate(NewTree(TreeNodes(SubTree), Len(files)))
    BY DEF NeverRejected
  <2>1. AreLines(SubTree) /\ SubTree # <<>>
    BY CutTree DEF Inv
  <2>2. AreNodes(TreeNodes(SubTree)) /\ TreeNodes(SubTree) # <<>>
    BY <2>1, LinesToNodes
  <2>3. QED
    BY <2>2, NewTreeIs
<1>2. QED
  BY <1>1, ServiceInvariance, PTL

(* ServedProofsVerify: whatever the server has loaded, the proof it answers*)
(* leads from the claimant's leaf to the root of the tree whose version    *)
(* names the distributor (main.rs, get_user_info, verify of the program).  *)
THEOREM ServedProofsLeadToRoots == Spec => []ServedProofsVerify
<1>1. Inv => ServedProofsVerify
  <2> SUFFICES ASSUME Inv, NEW c \in DOMAIN tree
               PROVE  verify(tree[c].proof, files[tree[c].merkle_tree + 1].merkle_root,
                             LeafOf(c, tree[c]))
    BY DEF ServedProofsVerify, get_user_info
  <2>1. TreesInv /\ Answers(paths, tree, loaded, 1)
    BY DEF Inv, ServerInv
  <2>2. PICK q \in DOMAIN paths : \E j \in DOMAIN paths[q].tree_nodes :
             /\ paths[q].tree_nodes[j].claimant = c
             /\ tree[c] = UserProof(paths[q], q, paths[q].tree_nodes[j])
    BY <2>1 DEF Answers
  <2>3. PICK j \in DOMAIN paths[q].tree_nodes :
             /\ paths[q].tree_nodes[j].claimant = c
             /\ tree[c] = UserProof(paths[q], q, paths[q].tree_nodes[j])
    BY <2>2
  <2> DEFINE node == paths[q].tree_nodes[j]
             p == tree[c]
  <2>4. /\ q \in 1 .. Len(files) /\ IsTree(paths[q])
        /\ PathOrder[q] \in DOMAIN files /\ PathOrder[q] \in Nat
        /\ paths[q] = files[PathOrder[q]]
    <3>1. /\ DOMAIN files = 1 .. Len(files) /\ Len(files) \in Nat
          /\ TreesAre(paths, Len(files))
      BY <2>1, PathsAre
    <3>2. q \in 1 .. Len(files) /\ IsTree(paths[q])
      BY <3>1 DEF TreesAre
    <3>3. PathOrder[q] \in 1 .. Len(files) /\ paths[q] = files[PathOrder[q]]
      BY <2>1, <3>2, PathsAre
    <3>4. PathOrder[q] \in Nat
      BY <3>1, <3>3, SMT
    <3>5. QED
      BY <3>1, <3>2, <3>3, <3>4
  <2>5. paths[q].airdrop_version = PathOrder[q] - 1
    BY <2>1, <2>4 DEF TreesInv
  <2>6. /\ p.merkle_tree = paths[q].airdrop_version /\ p.proof = node.proof
        /\ p.amount = node.amount /\ p.locked_amount = node.locked_amount
    BY <2>3 DEF UserProof, DistributorOf
  <2>7. p.merkle_tree + 1 = PathOrder[q]
    BY <2>4, <2>5, <2>6, SMT
  <2>8. files[p.merkle_tree + 1] = paths[q]
    BY <2>4, <2>7
  <2>9. LeafOf(c, p) = TreeNodeHash(node)
    BY <2>3, <2>6 DEF LeafOf, TreeNodeHash
  <2>10. verify(node.proof, paths[q].merkle_root, TreeNodeHash(node))
    BY <2>3, <2>4, TreeIs
  <2>11. QED
    BY <2>6, <2>8, <2>9, <2>10
<1>2. QED
  BY <1>1, ServiceInvariance, PTL

(* StoreAgrees: a key value store filled with the files of generate-kv-proof*)
(* gives the answers of the server, for every limit of entries per file.   *)
THEOREM StoreIsTheServer == Spec => []StoreAgrees
<1>1. Inv => StoreAgrees
  <2> SUFFICES ASSUME Inv, AllLoaded, KvRead, ~MustFlush(proofs)
               PROVE  Stored = tree
    BY DEF StoreAgrees
  <2> DEFINE n == Len(files)
  <2>1. loaded = n /\ kv_read = n /\ kv_node = 1
    BY DEF AllLoaded, KvRead, Inv, KvInv
  <2>2. TreesAre(paths, n)
    BY PathsGood DEF Inv
  <2>3. Answers(paths, tree, n, 1)
    BY <2>1 DEF Inv, ServerInv
  <2>4. Extended(Stored, proofs) = Stored
    <3>1. IsMap(Stored)
      BY DEF Stored, Latest, IsMap
    <3>2. DOMAIN proofs = {}
      BY DEF MustFlush
    <3>3. QED
      BY <3>1, <3>2, ExtendedByNothing
  <2>5. Answers(paths, Stored, n, 1)
    BY <2>1, <2>4 DEF Inv, KvInv
  <2> HIDE DEF n
  <2>6. QED
    BY <2>2, <2>3, <2>5, AnswersAgree
<1>2. QED
  BY <1>1, ServiceInvariance, PTL

(* EveryoneServed: once the server has read the last tree it serves exactly*)
(* the claimants of the list and the test wallets, and the totals it gives *)
(* for all trees are those of the trees (main.rs).                         *)
THEOREM ServerServesTheList == Spec => []EveryoneServed
<1>1. Inv => EveryoneServed
  <2> SUFFICES ASSUME Inv, AllLoaded
               PROVE  /\ DOMAIN tree = Everyone
                      /\ max_num_nodes >= Cardinality(Everyone)
                      /\ max_total_claim =
                           SumFunction([k \in DOMAIN files |-> get_max_total_claim(files[k])])
    BY DEF EveryoneServed
  <2> DEFINE n == Len(files)
  <2>1. /\ TreesInv /\ complete /\ loaded = n /\ Answers(paths, tree, n, 1)
        /\ max_num_nodes >= Cardinality(DOMAIN tree)
        /\ max_total_claim = SumFunction([r \in 1 .. n |-> get_max_total_claim(paths[r])])
    BY DEF Inv, ServerInv, AllLoaded
  <2>2. /\ n \in Nat /\ DOMAIN files = 1 .. n /\ DOMAIN paths = 1 .. n
        /\ \A q \in 1 .. n : IsTree(paths[q])
        /\ \A r \in 1 .. n : PathOrder[r] \in 1 .. n /\ paths[r] = files[PathOrder[r]]
        /\ \A k \in 1 .. n : \E r \in 1 .. n : PathOrder[r] = k
    BY <2>1, PathsAre DEF TreesAre, Lists
  <2>3. InFiles = DOMAIN tree
    <3>1. ASSUME NEW c, c \in InFiles
          PROVE  c \in DOMAIN tree
      <4>1. PICK k \in 1 .. n : c \in Names(files[k].tree_nodes)
        BY <2>2, <3>1 DEF InFiles
      <4>2. PICK q \in 1 .. n : PathOrder[q] = k
        BY <2>2
      <4>3. AreNodes(paths[q].tree_nodes) /\ c \in Names(paths[q].tree_nodes)
        BY <2>2, <4>1, <4>2, TreeIs
      <4>4. PICK j \in DOMAIN paths[q].tree_nodes : paths[q].tree_nodes[j].claimant = c
        BY <4>3, NamesAre
      <4>5. Done(q, j, n, 1)
        <5>1. \A m \in Nat : \A r \in 1 .. m : r <= m
          BY SMT
        <5>2. QED
          BY <2>2, <5>1 DEF Done
      <4>6. QED
        BY <2>1, <2>2, <4>4, <4>5 DEF Answers
    <3>2. ASSUME NEW c \in DOMAIN tree
          PROVE  c \in InFiles
      <4>1. PICK q \in DOMAIN paths : \E j \in DOMAIN paths[q].tree_nodes :
                                          paths[q].tree_nodes[j].claimant = c
        <5>1. Answers(paths, tree, n, 1)
          BY <2>1
        <5> HIDE DEF n
        <5>2. QED
          BY <5>1 DEF Answers
      <4>2. q \in 1 .. n /\ AreNodes(paths[q].tree_nodes)
        BY <2>2, TreeIs
      <4>3. c \in Names(paths[q].tree_nodes)
        BY <4>1, <4>2, NamesAre
      <4>4. PathOrder[q] \in DOMAIN files /\ paths[q] = files[PathOrder[q]]
        BY <2>2
      <4>5. QED
        BY <4>3, <4>4 DEF InFiles
    <3>3. QED
      BY <3>1, <3>2
  <2>4. InFiles = Everyone
    <3>1. csv_entries = <<>> /\ AreLines(csv_entries) /\ AreLines(csv)
          /\ should_include_test_list \in BOOLEAN
      BY <2>1 DEF Inv, CreateInv
    <3>2. Claimants(csv_entries) = {}
      BY <3>1, NoLines
    <3> DEFINE tested == IF should_include_test_list THEN ToSet(TestList) ELSE {}
               trimmed == Trimmed(csv, should_include_test_list)
    <3>3. InFiles \cup Claimants(csv_entries) = Claimants(trimmed) \cup tested
      BY <2>1 DEF Inv, NamesInv, InFiles
    <3>4. Claimants(trimmed) = Claimants(csv) \ tested
      BY <3>1, TrimmedIs
    <3>5. Everyone = Claimants(csv) \cup tested
      BY DEF Everyone
    <3> HIDE DEF tested, trimmed
    <3>6. QED
      BY <3>2, <3>3, <3>4, <3>5
  <2>5. QED
    BY <2>1, <2>3, <2>4, SumOfPaths
<1>2. QED
  BY <1>1, ServiceInvariance, PTL

(* What the lines left out for the test wallets would give.                *)
LEMMA DueIs ==
    ASSUME CreateInv, NEW c \in Everyone, NEW field \in Fields
    PROVE  LET trimmed == Trimmed(csv, should_include_test_list)
           IN  /\ TotalOf(TreeNodes(trimmed), c, field) \in Nat
               /\ IF should_include_test_list /\ c \in ToSet(TestList)
                  THEN /\ TotalOf(TreeNodes(trimmed), c, field) = 0
                       /\ Due(c, field) = TotalOf(TreeNodes(TestEntries), c, field)
                  ELSE /\ TotalOf(TreeNodes(trimmed), c, field) = Due(c, field)
                       /\ c \in Claimants(csv)
                       /\ should_include_test_list =>
                            TotalOf(TreeNodes(TestEntries), c, field) = 0
<1> DEFINE trimmed == Trimmed(csv, should_include_test_list)
           tested == IF should_include_test_list THEN ToSet(TestList) ELSE {}
<1>1. AreLines(csv) /\ should_include_test_list \in BOOLEAN
  BY DEF CreateInv
<1>2. AreLines(trimmed) /\ Claimants(trimmed) = Claimants(csv) \ tested
  BY <1>1, TrimmedIs
<1>3. c \notin tested =>
        TotalOf(TreeNodes(trimmed), c, field) = TotalOf(TreeNodes(csv), c, field)
  BY <1>1, TrimmedIs
<1>4. Contains(TestList, c) <=> c \in ToSet(TestList)
  <2>1. TestList \in Seq(ToSet(TestList))
    BY ServiceAssumption
  <2>2. DOMAIN TestList = 1 .. Len(TestList)
    BY <2>1, SeqIs
  <2>3. QED
    BY <2>2 DEF Contains, ToSet
<1> HIDE DEF trimmed
<1>5. AreNodes(TreeNodes(trimmed)) /\ Names(TreeNodes(trimmed)) = Claimants(trimmed)
  BY <1>2, TreeNodesAre
<1>6. TotalOf(TreeNodes(trimmed), c, field) \in Nat
  <2>1. Of(TreeNodes(trimmed), c) \in SUBSET DOMAIN TreeNodes(trimmed)
    BY <1>5, NamesAre
  <2>2. QED
    BY <1>5, <2>1, TotalIs DEF TotalOf
<1>7. CASE should_include_test_list /\ c \in ToSet(TestList)
  <2>1. TotalOf(TreeNodes(trimmed), c, field) = 0
    BY <1>2, <1>5, <1>7, TotalOfNobody
  <2>2. Due(c, field) = TotalOf(TreeNodes(TestEntries), c, field)
    BY <1>4, <1>7 DEF Due
  <2>3. QED
    BY <1>6, <1>7, <2>1, <2>2 DEF trimmed
<1>8. CASE ~(should_include_test_list /\ c \in ToSet(TestList))
  <2>1. c \notin tested /\ c \in Claimants(csv)
    BY <1>8 DEF Everyone
  <2>2. Due(c, field) = TotalOf(TreeNodes(csv), c, field)
    BY <1>4, <1>8 DEF Due
  <2>3. ASSUME should_include_test_list
        PROVE  TotalOf(TreeNodes(TestEntries), c, field) = 0
    <3>1. /\ AreNodes(TreeNodes(TestEntries))
          /\ Names(TreeNodes(TestEntries)) = ToSet(TestList)
      BY TestEntriesAre, TreeNodesAre
    <3>2. QED
      BY <1>8, <2>3, <3>1, TotalOfNobody
  <2>4. QED
    BY <1>3, <1>6, <1>8, <2>1, <2>2, <2>3 DEF trimmed
<1>9. QED
  BY <1>7, <1>8

(* NothingLost: the finished trees give each claimant, of the amount and of*)
(* what is locked, the sum of his rounded lines, however they were cut into*)
(* shards, and each test wallet what get_test_list says.                   *)
THEOREM TreesGiveWhatIsDue == Spec => []NothingLost
<1>1. Inv => NothingLost
  <2> SUFFICES ASSUME Inv, complete, NEW c \in Everyone, NEW field \in Fields
               PROVE  InTrees(c, field) = Due(c, field)
    BY DEF NothingLost
  <2> DEFINE trimmed == Trimmed(csv, should_include_test_list)
             test == TotalOf(TreeNodes(TestEntries), c, field)
  <2>1. /\ CreateInv /\ csv_entries = <<>> /\ AreLines(csv_entries)
        /\ InTrees(c, field) \in Nat
    BY InTreesIs DEF Inv, CreateInv
  <2>2. InTrees(c, field) + TotalOf(TreeNodes(csv_entries), c, field)
          = TotalOf(TreeNodes(trimmed), c, field)
              + (IF should_include_test_list THEN test ELSE 0)
    BY DEF Inv, AmountsInv
  <2>3. TotalOf(TreeNodes(csv_entries), c, field) = 0
    BY <2>1, NoLines
  <2>4. test \in Nat
    <3>1. AreNodes(TreeNodes(TestEntries))
      BY TestEntriesAre, TreeNodesAre
    <3>2. Of(TreeNodes(TestEntries), c) \in SUBSET DOMAIN TreeNodes(TestEntries)
      BY <3>1, NamesAre
    <3>3. QED
      BY <3>1, <3>2, TotalIs DEF TotalOf
  <2> DEFINE mine == should_include_test_list /\ c \in ToSet(TestList)
             rest == TotalOf(TreeNodes(trimmed), c, field)
  <2>5. /\ rest \in Nat
        /\ mine => rest = 0 /\ Due(c, field) = test
        /\ ~mine => rest = Due(c, field) /\ (should_include_test_list => test = 0)
    BY <2>1, DueIs
  <2>6. mine => should_include_test_list
    OBVIOUS
  <2> HIDE DEF trimmed, test, mine, rest
  <2>7. InTrees(c, field) + 0 = rest + (IF should_include_test_list THEN test ELSE 0)
    BY <2>2, <2>3 DEF rest
  <2>8. QED
    BY <2>1, <2>4, <2>5, <2>6, <2>7, SMT
<1>2. QED
  BY <1>1, ServiceInvariance, PTL

(* What the lines of a claimant give him is no more than they say.         *)
LEMMA TotalIsListed ==
    ASSUME CreateInv, NEW c, NEW field \in Fields
    PROVE  /\ Listed(c, field) \in Nat
           /\ TotalOf(TreeNodes(Trimmed(csv, should_include_test_list)), c, field) * UiUnit
                <= Listed(c, field)
<1> DEFINE entries == Trimmed(csv, should_include_test_list)
           nodes == TreeNodes(entries)
           D == DOMAIN entries
           mine == {k \in D : entries[k].pubkey = c}
           h == [k \in D |-> IF entries[k].pubkey # c \/ entries[k][field] = NoAmount
                             THEN 0 ELSE entries[k][field]]
           g == [k \in mine |-> nodes[k][field]]
           w == [k \in mine |-> h[k]]
<1>1. AreLines(entries)
  BY TrimmedIs DEF CreateInv
<1> HIDE DEF entries
<1>2. /\ AreNodes(nodes) /\ DOMAIN nodes = D /\ Of(nodes, c) = mine
      /\ \A k \in D : nodes[k] = from_csv(entries[k])
  BY <1>1, TreeNodesAre
<1>3. \A k \in D : /\ entries[k].amount \in Nat
                   /\ entries[k].locked_amount \in Nat \cup {NoAmount}
  BY <1>1, LinesAre
<1>4. NoAmount \notin Nat /\ UiUnit \in Nat /\ field \in {"amount", "locked_amount"}
  BY ServiceAssumption, UnitAssumption DEF Fields
<1>5. IsFiniteSet(D) /\ mine \in SUBSET D
  BY <1>2, NodesAre
<1>6. IsFiniteSet(mine)
  BY <1>5, FS_Subset
<1>7. h \in [D -> Nat]
  BY <1>3, <1>4
<1>8. ASSUME NEW k \in mine
      PROVE  g[k] \in Nat /\ w[k] \in Nat /\ g[k] * UiUnit <= w[k]
  <2> DEFINE e == entries[k]
  <2>1. /\ k \in D /\ e.pubkey = c /\ e.amount \in Nat
        /\ e.locked_amount \in Nat \cup {NoAmount}
        /\ nodes[k] = from_csv(e)
    BY <1>2, <1>3
  <2>2. g[k] = from_csv(e)[field] /\ w[k] = (IF e[field] = NoAmount THEN 0 ELSE e[field])
    BY <2>1
  <2> HIDE DEF e, g, w
  <2>3. from_csv(e).amount * UiUnit <= e.amount /\ from_csv(e).amount \in Nat
    BY <2>1, RoundedDown DEF from_csv
  <2>4. ASSUME e.locked_amount # NoAmount
        PROVE  /\ from_csv(e).locked_amount * UiUnit <= e.locked_amount
               /\ from_csv(e).locked_amount \in Nat /\ e.locked_amount \in Nat
    BY <2>1, <2>4, RoundedDown DEF from_csv
  <2>5. ASSUME e.locked_amount = NoAmount
        PROVE  from_csv(e).locked_amount * UiUnit <= 0 /\ from_csv(e).locked_amount = 0
    <3>1. from_csv(e).locked_amount = 0
      BY <2>5 DEF from_csv
    <3>2. 0 * UiUnit <= 0
      BY <1>4, SMT
    <3>3. QED
      BY <3>1, <3>2
  <2>6. CASE field = "amount"
    <3>1. e.amount # NoAmount
      BY <1>4, <2>1
    <3>2. QED
      BY <2>1, <2>2, <2>3, <2>6, <3>1
  <2>7. CASE field = "locked_amount"
    <3>1. CASE e.locked_amount = NoAmount
      BY <2>2, <2>5, <2>7, <3>1
    <3>2. CASE e.locked_amount # NoAmount
      BY <2>2, <2>4, <2>7, <3>2
    <3>3. QED
      BY <3>1, <3>2
  <2>8. QED
    BY <1>4, <2>6, <2>7
<1>9. g \in [mine -> Nat] /\ w \in [mine -> Nat]
  BY <1>8
<1>10. \A k \in mine : g[k] = Values(nodes, field)[k] /\ w[k] = h[k]
  BY <1>2 DEF Values
<1>11. TotalOf(nodes, c, field) = SumOf(Values(nodes, field), mine)
       /\ Values(nodes, field) \in [D -> Nat]
  BY <1>2, <1>5, TotalIs DEF TotalOf
<1>12. Listed(c, field) = SumFunction(h)
  BY DEF Listed, entries
<1>13. DOMAIN h = D
  OBVIOUS
<1> HIDE DEF mine, g, w, h, D, nodes
<1>14. SumOf(g, mine) = TotalOf(nodes, c, field)
  BY <1>5, <1>9, <1>10, <1>11, SumAgrees
<1>15. SumOf(w, mine) = SumOf(h, mine)
  BY <1>5, <1>7, <1>9, <1>10, SumAgrees
<1>16. SumOf(g, mine) * UiUnit <= SumOf(w, mine)
  BY <1>4, <1>6, <1>8, <1>9, SumScaled
<1>17. SumOf(h, mine) <= SumOf(h, D)
  BY <1>5, <1>7, SumMonotone
<1>18. SumFunction(h) = SumOf(h, D)
  BY <1>13, SumFunctionIs
<1>19. SumOf(g, mine) \in Nat /\ SumOf(h, mine) \in Nat /\ SumOf(h, D) \in Nat
  <2>1. SumOf(g, mine) \in Nat
    BY <1>6, <1>9, SumStep
  <2>2. SumOf(h, mine) \in Nat /\ SumOf(h, D) \in Nat
    BY <1>5, <1>7, SumStep
  <2>3. QED
    BY <2>1, <2>2
<1>20. TotalOf(nodes, c, field) * UiUnit <= Listed(c, field)
  <2>1. \A a, x, y, u \in Nat : a * u <= x /\ x <= y => a * u <= y
    BY SMT
  <2>2. SumOf(g, mine) * UiUnit <= SumOf(h, mine)
    BY <1>15, <1>16
  <2>3. SumOf(g, mine) * UiUnit <= SumOf(h, D)
    BY <1>4, <1>17, <1>19, <2>1, <2>2
  <2>4. QED
    BY <1>12, <1>14, <1>18, <2>3
<1>21. QED
  BY <1>12, <1>18, <1>19, <1>20 DEF nodes, entries

(* NeverMoreThanListed: at no time do the trees give a claimant more than  *)
(* his lines say, in fractions of the smallest unit: rounding and combining*)
(* never add to what is listed.                                            *)
THEOREM TreesGiveNoMoreThanListed == Spec => []NeverMoreThanListed
<1>1. Inv => NeverMoreThanListed
  <2> SUFFICES ASSUME Inv, NEW c \in Claimants(csv) \ ToSet(TestList), NEW field \in Fields
               PROVE  InTrees(c, field) * UiUnit <= Listed(c, field)
    BY DEF NeverMoreThanListed
  <2> DEFINE all == TotalOf(TreeNodes(Trimmed(csv, should_include_test_list)), c, field)
             left == TotalOf(TreeNodes(csv_entries), c, field)
             test == TotalOf(TreeNodes(TestEntries), c, field)
  <2>1. CreateInv /\ c \in Everyone
    BY DEF Inv, Everyone
  <2>2. all \in Nat /\ (should_include_test_list => test = 0)
    BY <2>1, DueIs
  <2>3. left \in Nat /\ InTrees(c, field) \in Nat
    <3>1. AreNodes(TreeNodes(csv_entries))
      BY <2>1, TreeNodesAre DEF CreateInv
    <3>2. Of(TreeNodes(csv_entries), c) \in SUBSET DOMAIN TreeNodes(csv_entries)
      BY <3>1, NamesAre
    <3>3. left \in Nat
      BY <3>1, <3>2, TotalIs DEF TotalOf
    <3>4. InTrees(c, field) \in Nat
      BY InTreesIs DEF Inv
    <3>5. QED
      BY <3>3, <3>4
  <2>4. InTrees(c, field) + left
          = all + (IF complete /\ should_include_test_list THEN test ELSE 0)
    BY <2>1 DEF Inv, AmountsInv
  <2>5. all * UiUnit <= Listed(c, field)
    BY <2>1, TotalIsListed
  <2> HIDE DEF all, left, test
  <2>6. InTrees(c, field) <= all
    <3>1. InTrees(c, field) + left = all + 0
      BY <2>2, <2>4
    <3>2. QED
      BY <2>2, <2>3, <3>1, SMT
  <2>7. Listed(c, field) \in Nat
    BY <2>1, TotalIsListed
  <2>8. \A a, b, x, u \in Nat : a <= b /\ b * u <= x => a * u <= x
    BY SMT
  <2>9. UiUnit \in Nat
    BY UnitAssumption
  <2>10. QED
    BY <2>2, <2>3, <2>5, <2>6, <2>7, <2>8, <2>9
<1>2. QED
  BY <1>1, ServiceInvariance, PTL

--------------------------------------------------------------------------------
(* Sorting and dropping duplicates                                         *)

(* A key or text that an order holds has a place in it.                    *)
LEMMA RankIs ==
    ASSUME NEW order, order \in Seq(ToSet(order)), NEW x \in ToSet(order)
    PROVE  Rank(order, x) \in DOMAIN order /\ Rank(order, x) \in Nat /\ order[Rank(order, x)] = x
<1>1. /\ Len(order) \in Nat /\ DOMAIN order = 1 .. Len(order)
      /\ \E i \in 1 .. Len(order) : order[i] = x
  BY SeqIs
<1>2. Rank(order, x) \in 1 .. Len(order) /\ order[Rank(order, x)] = x
  BY <1>1 DEF Rank
<1>3. \A i \in 1 .. Len(order) : i \in Nat
  BY <1>1, SMT
<1>4. QED
  BY <1>1, <1>2, <1>3

\* Entries that sort_unstable has an order for.
Sortable(entries, amounts) ==
    /\ entries \in Seq(ToSet(entries))
    /\ \A e \in ToSet(entries) :
         /\ e = Entry(e.pubkey, e.amount)
         /\ e.pubkey \in ToSet(KeyOrder)
         /\ amounts[e.amount] \in Nat
    /\ \A e, f \in ToSet(entries) : amounts[e.amount] = amounts[f.amount] => e.amount = f.amount

(* Before and equality tell of any two entries which one is sorted first.  *)
LEMMA BeforeIs ==
    ASSUME NEW entries, NEW amounts, Sortable(entries, amounts)
    PROVE  \A e, f \in ToSet(entries) :
             /\ Rank(KeyOrder, e.pubkey) \in Nat /\ amounts[e.amount] \in Nat
             /\ Rank(KeyOrder, e.pubkey) = Rank(KeyOrder, f.pubkey) <=> e.pubkey = f.pubkey
             /\ e = f <=> Rank(KeyOrder, e.pubkey) = Rank(KeyOrder, f.pubkey)
                           /\ amounts[e.amount] = amounts[f.amount]
             /\ Before(e, f, amounts) <=>
                  \/ Rank(KeyOrder, e.pubkey) < Rank(KeyOrder, f.pubkey)
                  \/ /\ Rank(KeyOrder, e.pubkey) = Rank(KeyOrder, f.pubkey)
                     /\ amounts[e.amount] < amounts[f.amount]
<1> SUFFICES ASSUME NEW e \in ToSet(entries), NEW f \in ToSet(entries)
             PROVE  /\ Rank(KeyOrder, e.pubkey) \in Nat /\ amounts[e.amount] \in Nat
                    /\ Rank(KeyOrder, e.pubkey) = Rank(KeyOrder, f.pubkey)
                         <=> e.pubkey = f.pubkey
                    /\ e = f <=> Rank(KeyOrder, e.pubkey) = Rank(KeyOrder, f.pubkey)
                                  /\ amounts[e.amount] = amounts[f.amount]
                    /\ Before(e, f, amounts) <=>
                         \/ Rank(KeyOrder, e.pubkey) < Rank(KeyOrder, f.pubkey)
                         \/ /\ Rank(KeyOrder, e.pubkey) = Rank(KeyOrder, f.pubkey)
                            /\ amounts[e.amount] < amounts[f.amount]
  OBVIOUS
<1>1. /\ e.pubkey \in ToSet(KeyOrder) /\ f.pubkey \in ToSet(KeyOrder)
      /\ e = Entry(e.pubkey, e.amount) /\ f = Entry(f.pubkey, f.amount)
      /\ amounts[e.amount] \in Nat
      /\ amounts[e.amount] = amounts[f.amount] => e.amount = f.amount
  BY DEF Sortable
<1>2. /\ Rank(KeyOrder, e.pubkey) \in Nat
      /\ KeyOrder[Rank(KeyOrder, e.pubkey)] = e.pubkey
      /\ KeyOrder[Rank(KeyOrder, f.pubkey)] = f.pubkey
  BY <1>1, RankIs, ListAssumption
<1>3. Rank(KeyOrder, e.pubkey) = Rank(KeyOrder, f.pubkey) <=> e.pubkey = f.pubkey
  BY <1>2
<1>4. e.pubkey = f.pubkey /\ e.amount = f.amount => e = f
  BY <1>1
<1>5. QED
  BY <1>1, <1>2, <1>3, <1>4 DEF Before

(* The entries that are ahead of another one are fewer than those ahead of *)
(* one that it is ahead of, and of any two one is ahead of the other.      *)
LEMMA PlacesAscend ==
    ASSUME NEW entries, NEW amounts, Sortable(entries, amounts)
    PROVE  LET places == Places(entries, amounts)
               D == DOMAIN entries
           IN  /\ places \in [D -> Nat]
               /\ \A j, k \in D : j \in Ahead(entries, amounts, k) => places[j] < places[k]
               /\ \A j, k \in D : \/ j = k
                                  \/ j \in Ahead(entries, amounts, k)
                                  \/ k \in Ahead(entries, amounts, j)
<1> DEFINE n == Len(entries)
           D == DOMAIN entries
           places == Places(entries, amounts)
           x == [k \in D |-> Rank(KeyOrder, entries[k].pubkey)]
           y == [k \in D |-> amounts[entries[k].amount]]
<1>1. /\ n \in Nat /\ D = 1 .. n /\ \A k \in D : entries[k] \in ToSet(entries)
  BY SeqIs DEF Sortable
<1>2. IsFiniteSet(D) /\ \A k \in D : k \in Nat
  <2> HIDE DEF n
  <2>1. IsFiniteSet(1 .. n) /\ \A k \in 1 .. n : k \in Nat
    BY <1>1, FS_Interval, SMT
  <2>2. QED
    BY <1>1, <2>1
<1>3. x \in [D -> Nat] /\ y \in [D -> Nat]
  BY <1>1, BeforeIs
<1>4. \A j, k \in D : j \in Ahead(entries, amounts, k) <=>
        \/ x[j] < x[k]
        \/ x[j] = x[k] /\ y[j] < y[k]
        \/ x[j] = x[k] /\ y[j] = y[k] /\ j < k
  BY <1>1, BeforeIs DEF Ahead
<1>5. \A k \in D : Ahead(entries, amounts, k) \in SUBSET D
  BY DEF Ahead
<1>6. \A k \in D : places[k] = Cardinality(Ahead(entries, amounts, k))
  BY DEF Places
<1>7. DOMAIN places = D /\ places = [k \in D |-> places[k]]
  BY DEF Places
<1> HIDE DEF n, D, x, y, places
<1>8. places \in [D -> Nat]
  <2>1. \A k \in D : places[k] \in Nat
    BY <1>2, <1>5, <1>6, FS_Subset, FS_CardinalityType
  <2>2. QED
    BY <1>7, <2>1
<1>9. ASSUME NEW j \in D, NEW k \in D, j \in Ahead(entries, amounts, k)
      PROVE  places[j] < places[k]
  <2>1. Ahead(entries, amounts, j) \in SUBSET Ahead(entries, amounts, k)
    <3>1. ASSUME NEW i \in D, i \in Ahead(entries, amounts, j)
          PROVE  i \in Ahead(entries, amounts, k)
      <4>1. /\ x[i] \in Nat /\ x[j] \in Nat /\ x[k] \in Nat /\ i \in Nat
            /\ y[i] \in Nat /\ y[j] \in Nat /\ y[k] \in Nat /\ j \in Nat /\ k \in Nat
        BY <1>2, <1>3
      <4>2. /\ \/ x[j] < x[k]
               \/ x[j] = x[k] /\ y[j] < y[k]
               \/ x[j] = x[k] /\ y[j] = y[k] /\ j < k
            /\ \/ x[i] < x[j]
               \/ x[i] = x[j] /\ y[i] < y[j]
               \/ x[i] = x[j] /\ y[i] = y[j] /\ i < j
        BY <1>4, <1>9, <3>1
      <4>3. \/ x[i] < x[k]
            \/ x[i] = x[k] /\ y[i] < y[k]
            \/ x[i] = x[k] /\ y[i] = y[k] /\ i < k
        BY <4>1, <4>2, SMT
      <4>4. QED
        BY <1>4, <4>3
    <3>2. QED
      BY <1>5, <3>1
  <2>2. ~(j \in Ahead(entries, amounts, j))
    <3>1. x[j] \in Nat /\ y[j] \in Nat /\ j \in Nat
      BY <1>2, <1>3
    <3>2. \A z \in Nat : ~(z < z)
      BY SMT
    <3>3. QED
      BY <1>4, <3>1, <3>2
  <2>3. IsFiniteSet(Ahead(entries, amounts, k))
    BY <1>2, <1>5, FS_Subset
  <2>4. /\ Cardinality(Ahead(entries, amounts, j)) <= Cardinality(Ahead(entries, amounts, k))
        /\ Cardinality(Ahead(entries, amounts, j)) # Cardinality(Ahead(entries, amounts, k))
    BY <1>9, <2>1, <2>2, <2>3, FS_Subset
  <2>5. places[j] <= places[k] /\ places[j] # places[k]
    BY <1>6, <2>4
  <2>6. \A v, w \in Nat : v <= w /\ v # w => v < w
    BY SMT
  <2>7. QED
    BY <1>8, <2>5, <2>6
<1>10. ASSUME NEW j \in D, NEW k \in D, j # k
       PROVE  j \in Ahead(entries, amounts, k) \/ k \in Ahead(entries, amounts, j)
  <2>1. \A v, w \in Nat : v < w \/ w < v \/ v = w
    BY SMT
  <2>2. QED
    BY <1>2, <1>3, <1>4, <1>10, <2>1
<1>11. QED
  BY <1>8, <1>9, <1>10 DEF D, places

(* sort_unstable keeps the entries and has them in their order.            *)
LEMMA SortedIs ==
    ASSUME NEW entries, NEW amounts, Sortable(entries, amounts)
    PROVE  LET t == sort_unstable(entries, amounts)
           IN  /\ t \in Seq(ToSet(t)) /\ ToSet(t) = ToSet(entries) /\ Sortable(t, amounts)
               /\ \A q, r \in 1 .. Len(t) : q < r => t[q] = t[r] \/ Before(t[q], t[r], amounts)
<1> DEFINE n == Len(entries)
           D == DOMAIN entries
           places == Places(entries, amounts)
           order == InOrder(D, places)
           t == sort_unstable(entries, amounts)
<1>1. /\ n \in Nat /\ D = 1 .. n /\ \A k \in D : entries[k] \in ToSet(entries)
      /\ \A e \in ToSet(entries) : \E k \in D : entries[k] = e
  BY SeqIs DEF Sortable
<1>2. t = [r \in DOMAIN order |-> entries[order[r]]]
  BY DEF sort_unstable
<1>3. /\ places \in [D -> Nat]
      /\ \A j, k \in D : j \in Ahead(entries, amounts, k) => places[j] < places[k]
      /\ \A j, k \in D : \/ j = k
                         \/ j \in Ahead(entries, amounts, k)
                         \/ k \in Ahead(entries, amounts, j)
  BY PlacesAscend
<1> HIDE DEF n, t, places
<1>4. IsFiniteSet(D) /\ Cardinality(D) = n
  BY <1>1, FS_Interval, SMT
<1>5. \A v, w \in Nat : v < w => v # w /\ ~(w < v)
  BY SMT
<1>6. /\ Lists(order, n, D)
      /\ \A q, r \in 1 .. n : q < r => places[order[q]] < places[order[r]]
  <2>1. \A j, k \in D : places[j] = places[k] => j = k
    BY <1>3, <1>5
  <2> HIDE DEF D
  <2>2. QED
    BY <1>3, <1>4, <2>1, InOrderLists
<1> HIDE DEF order
<1>7. /\ DOMAIN order = 1 .. n /\ \A r \in 1 .. n : order[r] \in D
      /\ \A k \in D : \E r \in 1 .. n : order[r] = k
  BY <1>6 DEF Lists
<1>8. t = [r \in 1 .. n |-> entries[order[r]]]
  BY <1>2, <1>7
<1>9. t \in Seq(ToSet(t)) /\ Len(t) = n /\ DOMAIN t = 1 .. n
  BY <1>1, <1>8, OwnSeq
<1>10. /\ \A r \in 1 .. n : t[r] \in ToSet(t)
       /\ \A e \in ToSet(t) : \E r \in 1 .. n : t[r] = e
  BY <1>9, SeqIs
<1>11. ToSet(t) = ToSet(entries)
  <2>1. \A e \in ToSet(t) : e \in ToSet(entries)
    BY <1>1, <1>7, <1>8, <1>10
  <2>2. ASSUME NEW e \in ToSet(entries)
        PROVE  e \in ToSet(t)
    <3>1. PICK k \in D : entries[k] = e
      BY <1>1
    <3>2. PICK r \in 1 .. n : order[r] = k
      BY <1>7
    <3>3. QED
      BY <1>8, <1>10, <3>1, <3>2
  <2>3. QED
    BY <2>1, <2>2
<1>12. ASSUME NEW q \in 1 .. n, NEW r \in 1 .. n, q < r
       PROVE  t[q] = t[r] \/ Before(t[q], t[r], amounts)
  <2>1. places[order[q]] < places[order[r]] /\ order[q] \in D /\ order[r] \in D
    BY <1>6, <1>7, <1>12
  <2>2. order[q] \in Ahead(entries, amounts, order[r])
    <3>1. places[order[q]] \in Nat /\ places[order[r]] \in Nat
      BY <1>3, <2>1
    <3>2. order[q] # order[r] /\ ~(places[order[r]] < places[order[q]])
      BY <1>5, <2>1, <3>1
    <3>3. QED
      BY <1>3, <2>1, <3>2
  <2>3. QED
    BY <1>8, <2>2 DEF Ahead
<1>13. Sortable(t, amounts)
  BY <1>9, <1>11 DEF Sortable
<1>14. QED
  BY <1>9, <1>11, <1>12, <1>13 DEF t

\* What is the same stands together, and the first of each run.
Together(id, n) ==
    \A q, r, s \in 1 .. n : q <= r /\ r <= s /\ id[q] = id[s] => id[r] = id[q]
FirstOfRuns(id, n) == {k \in 1 .. n : k = 1 \/ id[k - 1] # id[k]}

(* Each run has one first.                                                 *)
LEMMA RunsAre ==
    ASSUME NEW n \in Nat, NEW id, Together(id, n)
    PROVE  /\ \A k \in 1 .. n : \E f \in FirstOfRuns(id, n) : id[f] = id[k]
           /\ \A f, g \in FirstOfRuns(id, n) : id[f] = id[g] => f = g
<1> DEFINE firsts == FirstOfRuns(id, n)
<1>0. /\ firsts \in SUBSET (1 .. n)
      /\ \A k \in 1 .. n : k \in firsts <=> k = 1 \/ id[k - 1] # id[k]
      /\ \A q, r, s \in 1 .. n : q <= r /\ r <= s /\ id[q] = id[s] => id[r] = id[q]
  BY DEF FirstOfRuns, Together
<1> HIDE DEF firsts
<1>1. ASSUME NEW k \in 1 .. n
      PROVE  \E f \in firsts : id[f] = id[k]
  <2> DEFINE same == {j \in 1 .. n : id[j] = id[k]}
  <2>1. same \in SUBSET Nat /\ same # {}
    <3>1. \A j \in 1 .. n : j \in Nat
      BY SMT
    <3>2. QED
      BY <3>1
  <2>2. PICK f \in same : \A j \in same : f <= j
    <3> HIDE DEF same
    <3>1. QED
      BY <2>1, LeastOf
  <2>3. f \in 1 .. n /\ id[f] = id[k]
    OBVIOUS
  <2>4. f # 1 => f - 1 \in 1 .. n /\ ~(f <= f - 1)
    BY <2>3, SMT
  <2>5. f # 1 => id[f - 1] # id[f]
    BY <2>2, <2>3, <2>4
  <2>6. QED
    BY <1>0, <2>3, <2>5
<1>2. ASSUME NEW f \in firsts, NEW g \in firsts, id[f] = id[g], f < g
      PROVE  FALSE
  <2>1. f \in 1 .. n /\ g \in 1 .. n /\ (g = 1 \/ id[g - 1] # id[g])
    BY <1>0
  <2>2. g # 1 /\ g - 1 \in 1 .. n /\ f <= g - 1 /\ g - 1 <= g
    BY <1>2, <2>1, SMT
  <2>3. id[g - 1] = id[f]
    BY <1>0, <1>2, <2>1, <2>2
  <2>4. QED
    BY <1>2, <2>1, <2>2, <2>3
<1>3. ASSUME NEW f \in firsts, NEW g \in firsts, id[f] = id[g]
      PROVE  f = g
  <2>1. f \in 1 .. n /\ g \in 1 .. n
    BY <1>0
  <2>2. f < g \/ g < f \/ f = g
    BY <2>1, SMT
  <2>3. QED
    BY <1>2, <1>3, <2>2
<1>4. QED
  BY <1>1, <1>3 DEF firsts

(* What Picked takes from a sequence.                                      *)
LEMMA PickedIs ==
    ASSUME NEW s, s \in Seq(ToSet(s)), NEW indices \in SUBSET DOMAIN s
    PROVE  LET p == Picked(s, indices)
           IN  /\ p \in Seq(ToSet(p)) /\ ToSet(p) = {s[k] : k \in indices}
               /\ \E b : /\ \A r \in DOMAIN p : b[r] \in indices /\ p[r] = s[b[r]]
                         /\ \A q, r \in DOMAIN p : b[q] = b[r] => q = r
<1> DEFINE n == Len(s)
           m == Cardinality(indices)
           b == Ascending(indices)
           p == Picked(s, indices)
<1>1. n \in Nat /\ DOMAIN s = 1 .. n
  BY SeqIs
<1> HIDE DEF n, m, b, p
<1>2. Lists(b, m, indices) /\ p = [r \in 1 .. m |-> s[b[r]]]
  <2>1. indices \in SUBSET (1 .. n)
    BY <1>1
  <2>2. QED
    BY <1>1, <2>1, PickedLists DEF b, m, p
<1>3. /\ m \in Nat
      /\ \A r \in 1 .. m : b[r] \in indices
      /\ \A q, r \in 1 .. m : b[q] = b[r] => q = r
      /\ \A k \in indices : \E r \in 1 .. m : b[r] = k
  BY <1>2 DEF Lists
<1>4. p \in Seq(ToSet(p)) /\ DOMAIN p = 1 .. m
  BY <1>2, <1>3, OwnSeq
<1>5. \A r \in 1 .. m : p[r] = s[b[r]]
  BY <1>2
<1>6. ToSet(p) = {s[k] : k \in indices}
  <2>1. ToSet(p) = {p[r] : r \in 1 .. m}
    BY <1>4 DEF ToSet
  <2>2. QED
    BY <1>3, <1>5, <2>1
<1>7. /\ \A r \in DOMAIN p : b[r] \in indices /\ p[r] = s[b[r]]
      /\ \A q, r \in DOMAIN p : b[q] = b[r] => q = r
  BY <1>3, <1>4, <1>5
<1>8. \E c : /\ \A r \in DOMAIN p : c[r] \in indices /\ p[r] = s[c[r]]
             /\ \A q, r \in DOMAIN p : c[q] = c[r] => q = r
  BY <1>7
<1>9. QED
  BY <1>4, <1>6, <1>8 DEF p

(* Sorted entries of the same key, or that are the same, stand together.   *)
LEMMA SortedTogether ==
    ASSUME NEW entries, NEW amounts, Sortable(entries, amounts)
    PROVE  LET t == sort_unstable(entries, amounts)
           IN  \A q, r, s \in DOMAIN t : q <= r /\ r <= s =>
                 /\ t[q].pubkey = t[s].pubkey => t[r].pubkey = t[q].pubkey
                 /\ t[q] = t[s] => t[r] = t[q]
<1> DEFINE t == sort_unstable(entries, amounts)
           n == Len(t)
<1>1. /\ t \in Seq(ToSet(t)) /\ Sortable(t, amounts)
      /\ \A q, r \in 1 .. n : q < r => t[q] = t[r] \/ Before(t[q], t[r], amounts)
  BY SortedIs
<1> HIDE DEF t
<1>2. n \in Nat /\ DOMAIN t = 1 .. n /\ \A k \in 1 .. n : t[k] \in ToSet(t)
  BY <1>1, SeqIs
<1> HIDE DEF n
<1> DEFINE x(k) == Rank(KeyOrder, t[k].pubkey)
           y(k) == amounts[t[k].amount]
<1>3. \A j, k \in 1 .. n :
        /\ x(j) \in Nat /\ y(j) \in Nat
        /\ x(j) = x(k) <=> t[j].pubkey = t[k].pubkey
        /\ t[j] = t[k] <=> x(j) = x(k) /\ y(j) = y(k)
        /\ Before(t[j], t[k], amounts) <=> x(j) < x(k) \/ (x(j) = x(k) /\ y(j) < y(k))
  BY <1>1, <1>2, BeforeIs
<1> HIDE DEF x, y
<1>4. ASSUME NEW q \in 1 .. n, NEW r \in 1 .. n, q <= r
      PROVE  x(q) < x(r) \/ (x(q) = x(r) /\ y(q) <= y(r))
  <2>1. q = r \/ q < r
    BY <1>4, SMT
  <2>2. t[q] = t[r] \/ Before(t[q], t[r], amounts)
    BY <1>1, <2>1
  <2>3. \A v, w \in Nat : v = w \/ v < w => v <= w
    BY SMT
  <2>4. QED
    BY <1>3, <2>2, <2>3
<1>5. SUFFICES ASSUME NEW q \in 1 .. n, NEW r \in 1 .. n, NEW s \in 1 .. n, q <= r, r <= s
               PROVE  /\ t[q].pubkey = t[s].pubkey => t[r].pubkey = t[q].pubkey
                      /\ t[q] = t[s] => t[r] = t[q]
  BY <1>2 DEF t
<1>6. /\ x(q) \in Nat /\ x(r) \in Nat /\ x(s) \in Nat
      /\ y(q) \in Nat /\ y(r) \in Nat /\ y(s) \in Nat
  BY <1>3
<1>7. /\ x(q) < x(r) \/ (x(q) = x(r) /\ y(q) <= y(r))
      /\ x(r) < x(s) \/ (x(r) = x(s) /\ y(r) <= y(s))
  BY <1>4, <1>5
<1>8. /\ x(q) = x(s) => x(r) = x(q)
      /\ x(q) = x(s) /\ y(q) = y(s) => x(r) = x(q) /\ y(r) = y(q)
  BY <1>6, <1>7, SMT
<1>9. QED
  BY <1>3, <1>8

(* dedup_by after sorting leaves one entry of each key.                    *)
LEMMA DedupByIs ==
    ASSUME NEW entries, NEW amounts, Sortable(entries, amounts)
    PROVE  LET d == dedup_by(sort_unstable(entries, amounts))
           IN  /\ d \in Seq(ToSet(d)) /\ ToSet(d) \subseteq ToSet(entries)
               /\ Claimants(d) = Claimants(entries) /\ Once(d)
<1> DEFINE t == sort_unstable(entries, amounts)
           n == Len(t)
           id == [k \in 1 .. n |-> t[k].pubkey]
           firsts == FirstOfRuns(id, n)
           d == Picked(t, firsts)
<1>1. t \in Seq(ToSet(t)) /\ ToSet(t) = ToSet(entries)
  BY SortedIs
<1>2. \A q, r, s \in DOMAIN t : q <= r /\ r <= s =>
        (t[q].pubkey = t[s].pubkey => t[r].pubkey = t[q].pubkey)
  BY SortedTogether
<1>3. d = dedup_by(t)
  <2>1. n \in Nat /\ DOMAIN t = 1 .. n
    BY <1>1, SeqIs
  <2> HIDE DEF t, n
  <2>2. \A k \in 1 .. n : k = 1 \/ k - 1 \in 1 .. n
    BY <2>1, SMT
  <2>3. firsts = {k \in DOMAIN t : k = 1 \/ ~SameKey(t[k - 1], t[k])}
    BY <2>1, <2>2 DEF SameKey, FirstOfRuns
  <2>4. QED
    BY <2>3 DEF dedup_by
<1> HIDE DEF t, d
<1>4. /\ n \in Nat /\ DOMAIN t = 1 .. n /\ \A k \in 1 .. n : t[k] \in ToSet(t)
      /\ \A e \in ToSet(t) : \E k \in 1 .. n : t[k] = e
  BY <1>1, SeqIs
<1> HIDE DEF n
<1>5. /\ \A k \in 1 .. n : \E f \in firsts : id[f] = id[k]
      /\ \A f, g \in firsts : id[f] = id[g] => f = g
  <2>1. \A q, r, s \in 1 .. n : q <= r /\ r <= s /\ id[q] = id[s] => id[r] = id[q]
    BY <1>2, <1>4
  <2> HIDE DEF id
  <2>2. Together(id, n)
    BY <2>1 DEF Together
  <2>3. QED
    BY <1>4, <2>2, RunsAre
<1>6. /\ firsts \in SUBSET (1 .. n)
      /\ \A k \in 1 .. n : id[k] = t[k].pubkey
  BY DEF FirstOfRuns
<1> HIDE DEF firsts, id
<1>7. /\ d \in Seq(ToSet(d)) /\ ToSet(d) = {t[k] : k \in firsts}
      /\ \E b : /\ \A r \in DOMAIN d : b[r] \in firsts /\ d[r] = t[b[r]]
                /\ \A q, r \in DOMAIN d : b[q] = b[r] => q = r
  BY <1>1, <1>4, <1>6, PickedIs DEF d
<1>8. ToSet(d) \subseteq ToSet(entries)
  BY <1>1, <1>4, <1>6, <1>7
<1>9. Claimants(d) = Claimants(entries)
  <2>1. Claimants(d) \subseteq Claimants(entries)
    BY <1>8 DEF Claimants
  <2>2. ASSUME NEW c \in Claimants(entries)
        PROVE  c \in Claimants(d)
    <3>1. PICK k \in 1 .. n : t[k].pubkey = c
      BY <1>1, <1>4 DEF Claimants
    <3>2. PICK f \in firsts : id[f] = id[k]
      BY <1>5
    <3>3. t[f] \in ToSet(d) /\ t[f].pubkey = c
      BY <1>6, <1>7, <3>1, <3>2
    <3>4. QED
      BY <3>3 DEF Claimants
  <2>3. QED
    BY <2>1, <2>2
<1>10. Once(d)
  <2>1. PICK b : /\ \A r \in DOMAIN d : b[r] \in firsts /\ d[r] = t[b[r]]
                 /\ \A q, r \in DOMAIN d : b[q] = b[r] => q = r
    BY <1>7
  <2>2. \A q, r \in DOMAIN d : d[q].pubkey = d[r].pubkey => q = r
    BY <1>5, <1>6, <2>1
  <2>3. QED
    BY <2>2 DEF Once, IsInjective
<1>11. QED
  BY <1>3, <1>7, <1>8, <1>9, <1>10 DEF t

(* dedup after sorting leaves each entry once.                             *)
LEMMA DedupIs ==
    ASSUME NEW entries, NEW amounts, Sortable(entries, amounts)
    PROVE  LET d == dedup(sort_unstable(entries, amounts))
           IN  d \in Seq(ToSet(d)) /\ ToSet(d) = ToSet(entries) /\ IsInjective(d)
<1> DEFINE t == sort_unstable(entries, amounts)
           n == Len(t)
           firsts == FirstOfRuns(t, n)
           d == Picked(t, firsts)
<1>1. t \in Seq(ToSet(t)) /\ ToSet(t) = ToSet(entries)
  BY SortedIs
<1>2. \A q, r, s \in DOMAIN t : q <= r /\ r <= s => (t[q] = t[s] => t[r] = t[q])
  BY SortedTogether
<1>3. d = dedup(t)
  <2>1. DOMAIN t = 1 .. n
    BY <1>1, SeqIs
  <2> HIDE DEF t, n
  <2>2. firsts = {k \in DOMAIN t : k = 1 \/ ~SameEntry(t[k - 1], t[k])}
    BY <2>1 DEF SameEntry, FirstOfRuns
  <2>3. QED
    BY <2>2 DEF dedup
<1> HIDE DEF t, d
<1>4. /\ n \in Nat /\ DOMAIN t = 1 .. n /\ \A k \in 1 .. n : t[k] \in ToSet(t)
      /\ \A e \in ToSet(t) : \E k \in 1 .. n : t[k] = e
  BY <1>1, SeqIs
<1> HIDE DEF n
<1>5. /\ \A k \in 1 .. n : \E f \in firsts : t[f] = t[k]
      /\ \A f, g \in firsts : t[f] = t[g] => f = g
  <2>1. Together(t, n)
    BY <1>2, <1>4 DEF Together
  <2>2. QED
    BY <1>4, <2>1, RunsAre
<1>6. firsts \in SUBSET (1 .. n)
  BY DEF FirstOfRuns
<1> HIDE DEF firsts
<1>7. /\ d \in Seq(ToSet(d)) /\ ToSet(d) = {t[k] : k \in firsts}
      /\ \E b : /\ \A r \in DOMAIN d : b[r] \in firsts /\ d[r] = t[b[r]]
                /\ \A q, r \in DOMAIN d : b[q] = b[r] => q = r
  BY <1>1, <1>4, <1>6, PickedIs DEF d
<1>8. ToSet(d) = ToSet(entries)
  <2>1. \A e \in ToSet(d) : e \in ToSet(t)
    BY <1>4, <1>6, <1>7
  <2>2. \A e \in ToSet(t) : e \in ToSet(d)
    BY <1>4, <1>5, <1>7
  <2>3. QED
    BY <1>1, <2>1, <2>2
<1>9. IsInjective(d)
  <2>1. PICK b : /\ \A r \in DOMAIN d : b[r] \in firsts /\ d[r] = t[b[r]]
                 /\ \A q, r \in DOMAIN d : b[q] = b[r] => q = r
    BY <1>7
  <2>2. \A q, r \in DOMAIN d : d[q] = d[r] => q = r
    BY <1>5, <2>1
  <2>3. QED
    BY <2>2 DEF IsInjective
<1>10. QED
  BY <1>3, <1>7, <1>8, <1>9 DEF t

--------------------------------------------------------------------------------
(* The parts the tools put together                                        *)

(* A list made from another one element by element.                        *)
LEMMA MadeFrom ==
    ASSUME NEW s, s \in Seq(ToSet(s)), NEW t, t = [k \in DOMAIN s |-> t[k]]
    PROVE  /\ t \in Seq(ToSet(t)) /\ Len(t) = Len(s) /\ DOMAIN t = DOMAIN s
           /\ ToSet(t) = {t[k] : k \in DOMAIN s}
           /\ \A k \in DOMAIN s : s[k] \in ToSet(s)
           /\ \A e \in ToSet(s) : \E k \in DOMAIN s : s[k] = e
<1>1. /\ Len(s) \in Nat /\ DOMAIN s = 1 .. Len(s)
      /\ \A k \in 1 .. Len(s) : s[k] \in ToSet(s)
      /\ \A e \in ToSet(s) : \E k \in 1 .. Len(s) : s[k] = e
  BY SeqIs
<1>2. t = [k \in 1 .. Len(s) |-> t[k]]
  BY <1>1
<1>3. t \in Seq(ToSet(t)) /\ Len(t) = Len(s) /\ DOMAIN t = 1 .. Len(s)
  BY <1>1, <1>2, OwnSeq
<1>4. ToSet(t) = {t[k] : k \in DOMAIN s}
  BY <1>1, <1>3 DEF ToSet
<1>5. QED
  BY <1>1, <1>3, <1>4

(* What stands for no key is left out.                                     *)
LEMMA ParsedIs ==
    ASSUME NEW s, s \in Seq(ToSet(s))
    PROVE  /\ Parsed(s) \in Seq(ToSet(Parsed(s)))
           /\ ToSet(Parsed(s)) = {e \in ToSet(s) : e.pubkey \notin NotAKey}
<1> DEFINE kept == {k \in DOMAIN s : s[k].pubkey \notin NotAKey}
<1>1. kept \in SUBSET DOMAIN s /\ Parsed(s) = Picked(s, kept)
  BY DEF Parsed
<1>2. \A k \in kept : k \in DOMAIN s /\ s[k].pubkey \notin NotAKey
  OBVIOUS
<1>3. \A k \in DOMAIN s : s[k].pubkey \notin NotAKey => k \in kept
  OBVIOUS
<1> HIDE DEF kept
<1>4. Picked(s, kept) \in Seq(ToSet(Picked(s, kept))) /\ ToSet(Picked(s, kept)) = {s[k] : k \in kept}
  BY <1>1, PickedIs
<1>5. {s[k] : k \in kept} = {e \in ToSet(s) : e.pubkey \notin NotAKey}
  <2>1. ToSet(s) = {s[k] : k \in DOMAIN s}
    BY DEF ToSet
  <2>2. QED
    BY <1>1, <1>2, <1>3, <2>1
<1>6. QED
  BY <1>1, <1>4, <1>5

(* The keys of a list, each with the same amount.                          *)
LEMMA WithAmountIs ==
    ASSUME NEW s, s \in Seq(ToSet(s)), NEW amount
    PROVE  LET t == WithAmount(s, amount)
           IN  /\ t \in Seq(ToSet(t))
               /\ ToSet(t) = {Entry(e.pubkey, amount) : e \in ToSet(s)}
<1> DEFINE t == WithAmount(s, amount)
<1>1. t = [k \in DOMAIN s |-> Entry(s[k].pubkey, amount)]
  BY DEF WithAmount
<1> HIDE DEF t
<1>2. \A k \in DOMAIN s : t[k] = Entry(s[k].pubkey, amount)
  BY <1>1
<1>3. /\ t \in Seq(ToSet(t)) /\ ToSet(t) = {t[k] : k \in DOMAIN s}
      /\ \A k \in DOMAIN s : s[k] \in ToSet(s)
      /\ \A e \in ToSet(s) : \E k \in DOMAIN s : s[k] = e
  <2>1. t = [k \in DOMAIN s |-> t[k]]
    BY <1>1
  <2>2. QED
    BY <2>1, MadeFrom
<1>4. \A x : x \in ToSet(t) <=> \E e \in ToSet(s) : x = Entry(e.pubkey, amount)
  BY <1>2, <1>3, SMTT(30)
<1>5. QED
  BY <1>3, <1>4 DEF t

(* The keys and amounts of a list.                                         *)
LEMMA TwoColumnsIs ==
    ASSUME NEW s, s \in Seq(ToSet(s))
    PROVE  LET t == TwoColumns(s)
           IN  /\ t \in Seq(ToSet(t))
               /\ ToSet(t) = {Entry(e.pubkey, e.amount) : e \in ToSet(s)}
<1> DEFINE t == TwoColumns(s)
<1>1. t = [k \in DOMAIN s |-> Entry(s[k].pubkey, s[k].amount)]
  BY DEF TwoColumns
<1> HIDE DEF t
<1>2. \A k \in DOMAIN s : t[k] = Entry(s[k].pubkey, s[k].amount)
  BY <1>1
<1>3. /\ t \in Seq(ToSet(t)) /\ ToSet(t) = {t[k] : k \in DOMAIN s}
      /\ \A k \in DOMAIN s : s[k] \in ToSet(s)
      /\ \A e \in ToSet(s) : \E k \in DOMAIN s : s[k] = e
  <2>1. t = [k \in DOMAIN s |-> t[k]]
    BY <1>1
  <2>2. QED
    BY <2>1, MadeFrom
<1>4. \A x : x \in ToSet(t) <=> \E e \in ToSet(s) : x = Entry(e.pubkey, e.amount)
  BY <1>2, <1>3
<1>5. QED
  BY <1>3, <1>4 DEF t

(* An entry for each key.                                                  *)
LEMMA EntriesOfIs ==
    ASSUME NEW keys, keys \in Seq(ToSet(keys)), NEW amount
    PROVE  LET t == EntriesOf(keys, amount)
           IN  /\ t \in Seq(ToSet(t)) /\ Len(t) = Len(keys)
               /\ ToSet(t) = {Entry(key, amount) : key \in ToSet(keys)}
               /\ IsInjective(keys) => Once(t)
<1> DEFINE t == EntriesOf(keys, amount)
<1>1. t = [k \in DOMAIN keys |-> Entry(keys[k], amount)]
  BY DEF EntriesOf
<1> HIDE DEF t
<1>2. \A k \in DOMAIN keys : t[k] = Entry(keys[k], amount) /\ t[k].pubkey = keys[k]
  BY <1>1 DEF Entry
<1>3. /\ t \in Seq(ToSet(t)) /\ Len(t) = Len(keys) /\ DOMAIN t = DOMAIN keys
      /\ ToSet(t) = {t[k] : k \in DOMAIN keys}
      /\ \A k \in DOMAIN keys : keys[k] \in ToSet(keys)
      /\ \A e \in ToSet(keys) : \E k \in DOMAIN keys : keys[k] = e
  <2>1. t = [k \in DOMAIN keys |-> t[k]]
    BY <1>1
  <2>2. QED
    BY <2>1, MadeFrom
<1>4. \A x : x \in ToSet(t) <=> \E key \in ToSet(keys) : x = Entry(key, amount)
  BY <1>2, <1>3
<1>5. IsInjective(keys) => Once(t)
  BY <1>2, <1>3 DEF IsInjective, Once
<1>6. QED
  BY <1>3, <1>4, <1>5 DEF t

(* Written changes neither keys nor amounts.                               *)
LEMMA WrittenIs ==
    ASSUME NEW s, s \in Seq(ToSet(s))
    PROVE  LET t == Written(s)
           IN  /\ t \in Seq(ToSet(t)) /\ DOMAIN t = DOMAIN s
               /\ \A k \in DOMAIN s : t[k].pubkey = s[k].pubkey /\ t[k].amount = s[k].amount
               /\ Claimants(t) = Claimants(s) /\ (Once(s) => Once(t))
<1> DEFINE t == Written(s)
<1>1. t = [k \in DOMAIN s |-> [pubkey |-> s[k].pubkey, amount |-> s[k].amount,
                               locked_amount |-> NoAmount]]
  BY DEF Written
<1> HIDE DEF t
<1>2. \A k \in DOMAIN s : t[k].pubkey = s[k].pubkey /\ t[k].amount = s[k].amount
  BY <1>1
<1>3. /\ t \in Seq(ToSet(t)) /\ DOMAIN t = DOMAIN s /\ ToSet(t) = {t[k] : k \in DOMAIN s}
      /\ \A k \in DOMAIN s : s[k] \in ToSet(s)
      /\ \A e \in ToSet(s) : \E k \in DOMAIN s : s[k] = e
  <2>1. t = [k \in DOMAIN s |-> t[k]]
    BY <1>1
  <2>2. QED
    BY <2>1, MadeFrom
<1>4. Claimants(t) = Claimants(s)
  <2>1. ASSUME NEW c \in Claimants(t)
        PROVE  c \in Claimants(s)
    <3>1. PICK e \in ToSet(t) : e.pubkey = c
      BY DEF Claimants
    <3>2. PICK k \in DOMAIN s : t[k] = e
      BY <1>3
    <3>3. s[k] \in ToSet(s) /\ s[k].pubkey = c
      BY <1>2, <1>3, <3>1, <3>2
    <3>4. QED
      BY <3>3 DEF Claimants
  <2>2. ASSUME NEW c \in Claimants(s)
        PROVE  c \in Claimants(t)
    <3>1. PICK e \in ToSet(s) : e.pubkey = c
      BY DEF Claimants
    <3>2. PICK k \in DOMAIN s : s[k] = e
      BY <1>3
    <3>3. t[k] \in ToSet(t) /\ t[k].pubkey = c
      BY <1>2, <1>3, <3>1, <3>2
    <3>4. QED
      BY <3>3 DEF Claimants
  <2>3. QED
    BY <2>1, <2>2
<1>5. Once(s) => Once(t)
  BY <1>2, <1>3 DEF Once, IsInjective
<1>6. QED
  BY <1>2, <1>3, <1>4, <1>5 DEF t

(* Two lists, one behind the other.                                        *)
LEMMA JoinedIs ==
    ASSUME NEW s, s \in Seq(ToSet(s)), NEW t, t \in Seq(ToSet(t))
    PROVE  s \o t \in Seq(ToSet(s \o t)) /\ ToSet(s \o t) = ToSet(s) \cup ToSet(t)
<1> DEFINE S == ToSet(s) \cup ToSet(t)
           m == Len(s)
           n == Len(t)
           u == s \o t
<1>1. /\ m \in Nat /\ n \in Nat
      /\ \A k \in 1 .. m : s[k] \in ToSet(s)
      /\ \A e \in ToSet(s) : \E k \in 1 .. m : s[k] = e
      /\ \A k \in 1 .. n : t[k] \in ToSet(t)
      /\ \A e \in ToSet(t) : \E k \in 1 .. n : t[k] = e
  BY SeqIs
<1>2. s \in Seq(S) /\ t \in Seq(S)
  BY SeqMonotonic
<1> HIDE DEF S, m, n, u
<1>3. /\ u \in Seq(S) /\ Len(u) = m + n
      /\ \A i \in 1 .. m + n : u[i] = IF i <= m THEN s[i] ELSE t[i - m]
  BY <1>2, ConcatProperties DEF m, n, u
<1>4. u = [k \in 1 .. m + n |-> u[k]] /\ m + n \in Nat
  BY <1>1, <1>3, LenProperties
<1>5. u \in Seq(ToSet(u))
  BY <1>4, OwnSeq
<1>6. /\ \A i \in 1 .. m + n : \/ i \in 1 .. m /\ i <= m
                               \/ i - m \in 1 .. n /\ ~(i <= m)
      /\ \A i \in 1 .. m : i \in 1 .. m + n /\ i <= m
      /\ \A i \in 1 .. n : i + m \in 1 .. m + n /\ ~(i + m <= m) /\ (i + m) - m = i
  BY <1>1, SMT
<1>7. ToSet(u) = {u[i] : i \in 1 .. m + n}
  <2>1. DOMAIN u = 1 .. m + n
    BY <1>4
  <2>2. QED
    BY <2>1 DEF ToSet
<1>8. \A x \in ToSet(u) : x \in ToSet(s) \cup ToSet(t)
  <2> SUFFICES ASSUME NEW x \in ToSet(u) PROVE x \in ToSet(s) \cup ToSet(t)
    OBVIOUS
  <2>1. PICK i \in 1 .. m + n : u[i] = x
    BY <1>7
  <2>2. (i \in 1 .. m /\ u[i] = s[i]) \/ (i - m \in 1 .. n /\ u[i] = t[i - m])
    BY <1>3, <1>6
  <2>3. QED
    BY <1>1, <2>1, <2>2
<1>9. \A x \in ToSet(s) : x \in ToSet(u)
  <2> SUFFICES ASSUME NEW x \in ToSet(s) PROVE x \in ToSet(u)
    OBVIOUS
  <2>1. PICK i \in 1 .. m : s[i] = x
    BY <1>1
  <2>2. i \in 1 .. m + n /\ u[i] = x
    BY <1>3, <1>6, <2>1
  <2>3. QED
    BY <1>7, <2>2
<1>10. \A x \in ToSet(t) : x \in ToSet(u)
  <2> SUFFICES ASSUME NEW x \in ToSet(t) PROVE x \in ToSet(u)
    OBVIOUS
  <2>1. PICK i \in 1 .. n : t[i] = x
    BY <1>1
  <2>2. i + m \in 1 .. m + n /\ u[i + m] = x
    BY <1>3, <1>6, <2>1
  <2>3. QED
    BY <1>7, <2>2
<1>11. QED
  BY <1>5, <1>8, <1>9, <1>10 DEF u

(* InsertAt puts one element in and keeps the others.                      *)
LEMMA InsertAtIs ==
    ASSUME NEW s, s \in Seq(ToSet(s)), NEW i \in 1 .. Len(s) + 1, NEW x
    PROVE  LET t == InsertAt(s, i, x)
           IN  /\ t \in Seq(ToSet(t)) /\ Len(t) = Len(s) + 1
               /\ \A k \in 1 .. Len(s) + 1 :
                    t[k] = IF k < i THEN s[k] ELSE IF k = i THEN x ELSE s[k - 1]
<1> DEFINE S == ToSet(s) \cup {x}
           n == Len(s)
           a == SubSeq(s, 1, i - 1)
           b == SubSeq(s, i, n)
           t == InsertAt(s, i, x)
<1>1. /\ n \in Nat /\ DOMAIN s = 1 .. n
      /\ \A k \in 1 .. n : s[k] \in ToSet(s)
      /\ \A e \in ToSet(s) : \E k \in 1 .. n : s[k] = e
  BY SeqIs
<1>2. \A k \in 1 .. n : s[k] \in S
  BY <1>1
<1> HIDE DEF S, n, t
<1>3. /\ i \in Int /\ i - 1 \in Int /\ n \in Int /\ 1 \in Int
      /\ \A k \in 1 .. i - 1 : k \in 1 .. n
      /\ \A k \in i .. n : k \in 1 .. n
      /\ i - 1 \in Nat /\ n - i + 1 \in Nat
      /\ (IF 1 <= i - 1 THEN (i - 1) - 1 + 1 ELSE 0) = i - 1
      /\ (IF i <= n THEN n - i + 1 ELSE 0) = n - i + 1
      /\ (i - 1) - 1 + 1 = i - 1
      /\ \A k \in Nat : 1 + k - 1 = k
  BY <1>1, SMT DEF n
<1>4. /\ a \in Seq(S) /\ Len(a) = i - 1
      /\ \A k \in 1 .. i - 1 : a[k] = s[1 + k - 1]
  <2>1. \A k \in 1 .. i - 1 : s[k] \in S
    BY <1>2, <1>3
  <2>2. /\ a \in Seq(S) /\ Len(a) = IF 1 <= i - 1 THEN (i - 1) - 1 + 1 ELSE 0
        /\ \A k \in 1 .. (i - 1) - 1 + 1 : a[k] = s[1 + k - 1]
    BY <1>3, <2>1, SubSeqProperties
  <2> HIDE DEF a
  <2>3. QED
    BY <1>3, <2>2
<1>5. /\ b \in Seq(S) /\ Len(b) = n - i + 1
      /\ \A k \in 1 .. n - i + 1 : b[k] = s[i + k - 1]
  <2>1. \A k \in i .. n : s[k] \in S
    BY <1>2, <1>3
  <2>2. /\ b \in Seq(S) /\ Len(b) = IF i <= n THEN n - i + 1 ELSE 0
        /\ \A k \in 1 .. n - i + 1 : b[k] = s[i + k - 1]
    BY <1>3, <2>1, SubSeqProperties
  <2> HIDE DEF b
  <2>3. QED
    BY <1>3, <2>2
<1>6. t = (a \o <<x>>) \o b
  BY DEF InsertAt, t, n
<1> HIDE DEF a, b
<1>7. <<x>> \in Seq(S) /\ Len(<<x>>) = 1 /\ <<x>>[1] = x
  BY DEF S
<1>8. /\ a \o <<x>> \in Seq(S) /\ Len(a \o <<x>>) = (i - 1) + 1
      /\ \A k \in 1 .. (i - 1) + 1 : (a \o <<x>>)[k] = IF k <= i - 1 THEN a[k] ELSE <<x>>[k - (i - 1)]
  BY <1>4, <1>7, ConcatProperties
<1> DEFINE ax == a \o <<x>>
<1> HIDE DEF ax
<1>9. ax \in Seq(S) /\ Len(ax) = i /\ \A k \in 1 .. i : ax[k] = IF k < i THEN s[k] ELSE x
  <2>1. (i - 1) + 1 = i
    BY <1>3, SMT
  <2>2. ASSUME NEW k \in 1 .. i
        PROVE  ax[k] = IF k < i THEN s[k] ELSE x
    <3>1. CASE k < i
      <4>1. k <= i - 1 /\ k \in 1 .. i - 1 /\ 1 + k - 1 = k
        BY <1>3, <3>1, SMT
      <4>2. QED
        BY <1>4, <1>8, <2>1, <3>1, <4>1 DEF ax
    <3>2. CASE ~(k < i)
      <4>1. ~(k <= i - 1) /\ k - (i - 1) = 1
        BY <1>3, <3>2, SMT
      <4>2. QED
        BY <1>7, <1>8, <2>1, <3>2, <4>1 DEF ax
    <3>3. QED
      BY <3>1, <3>2
  <2>3. QED
    BY <1>8, <2>1, <2>2 DEF ax
<1>10. /\ t \in Seq(S) /\ Len(t) = i + (n - i + 1)
       /\ \A k \in 1 .. i + (n - i + 1) : t[k] = IF k <= i THEN ax[k] ELSE b[k - i]
  <2> DEFINE m == n - i + 1
  <2>1. t = ax \o b
    BY <1>6 DEF ax
  <2>2. ax \in Seq(S) /\ Len(ax) = i /\ b \in Seq(S) /\ Len(b) = m
    BY <1>5, <1>9
  <2> HIDE DEF m
  <2>3. /\ t \in Seq(S) /\ Len(t) = i + m
        /\ \A k \in 1 .. i + m : t[k] = IF k <= i THEN ax[k] ELSE b[k - i]
    BY <2>1, <2>2, ConcatProperties
  <2>4. QED
    BY <2>3 DEF m
<1>11. /\ Len(t) = n + 1 /\ n + 1 \in Nat
       /\ \A k \in 1 .. n + 1 : t[k] = IF k < i THEN s[k] ELSE IF k = i THEN x ELSE s[k - 1]
  <2>1. i + (n - i + 1) = n + 1 /\ n + 1 \in Nat
    BY <1>1, <1>3, SMT
  <2>2. ASSUME NEW k \in 1 .. n + 1
        PROVE  t[k] = IF k < i THEN s[k] ELSE IF k = i THEN x ELSE s[k - 1]
    <3>1. CASE k <= i
      <4>1. k \in 1 .. i /\ (k < i \/ k = i) /\ (k = i => ~(k < i))
        BY <1>1, <1>3, <3>1, SMT
      <4>2. t[k] = ax[k]
        BY <1>10, <2>1, <3>1
      <4>3. QED
        BY <1>9, <4>1, <4>2
    <3>2. CASE ~(k <= i)
      <4>1. k - i \in 1 .. n - i + 1 /\ i + (k - i) - 1 = k - 1 /\ ~(k < i) /\ k # i
        BY <1>1, <1>3, <3>2, SMT
      <4>2. t[k] = b[k - i]
        BY <1>10, <2>1, <3>2
      <4>3. b[k - i] = s[k - 1]
        BY <1>5, <4>1
      <4>4. QED
        BY <4>1, <4>2, <4>3
    <3>3. QED
      BY <3>1, <3>2
  <2>3. QED
    BY <1>10, <2>1, <2>2
<1>12. DOMAIN t = 1 .. n + 1 /\ t = [k \in 1 .. n + 1 |-> t[k]]
  BY <1>10, <1>11, LenProperties
<1>13. t \in Seq(ToSet(t))
  BY <1>11, <1>12, OwnSeq
<1>14. QED
  BY <1>11, <1>13 DEF t, n

(* The same of a list that is known by name.                               *)
LEMMA InsertedIs ==
    ASSUME NEW s, s \in Seq(ToSet(s)), NEW i \in 1 .. Len(s) + 1, NEW x,
           NEW t, t = InsertAt(s, i, x)
    PROVE  /\ t \in Seq(ToSet(t)) /\ Len(t) = Len(s) + 1
           /\ \A k \in 1 .. Len(s) + 1 :
                t[k] = IF k < i THEN s[k] ELSE IF k = i THEN x ELSE s[k - 1]
BY InsertAtIs, SMTT(60)

(* A list that goes through 1 .. m goes through one more with an insertion.*)
LEMMA ListsInserted ==
    ASSUME NEW m \in Nat, NEW b, Lists(b, m, 1 .. m), NEW i \in 1 .. m + 1
    PROVE  Lists([k \in 1 .. m + 1 |-> IF k < i THEN b[k] ELSE IF k = i THEN m + 1 ELSE b[k - 1]],
                 m + 1, 1 .. m + 1)
<1> DEFINE t == [k \in 1 .. m + 1 |->
                    IF k < i THEN b[k] ELSE IF k = i THEN m + 1 ELSE b[k - 1]]
           p(l) == IF l < i THEN l ELSE l - 1
<1>1. /\ \A k \in 1 .. m : b[k] \in 1 .. m
      /\ \A q, r \in 1 .. m : b[q] = b[r] => q = r
      /\ \A k \in 1 .. m : \E r \in 1 .. m : b[r] = k
  BY DEF Lists
<1>2. /\ m + 1 \in Nat /\ m + 1 \in 1 .. m + 1
      /\ \A k \in 1 .. m : k \in 1 .. m + 1 /\ k # m + 1
      /\ \A k \in 1 .. m + 1 : k \in 1 .. m \/ k = m + 1
  BY SMT
<1>3. /\ i \in 1 .. m + 1 /\ ~(i < i)
      /\ \A k \in 1 .. m + 1 : /\ k < i => k \in 1 .. m
                               /\ ~(k < i) /\ k # i => k - 1 \in 1 .. m
      /\ \A k \in 1 .. m : /\ k < i => k \in 1 .. m + 1
                           /\ ~(k < i) => /\ k + 1 \in 1 .. m + 1 /\ ~(k + 1 < i)
                                          /\ k + 1 # i /\ (k + 1) - 1 = k
  BY SMT
<1>4. /\ t[i] = m + 1
      /\ \A k \in 1 .. m + 1 : k # i => t[k] = b[p(k)] /\ p(k) \in 1 .. m
  BY <1>3
<1> HIDE DEF t
<1>5. \A k \in 1 .. m + 1 : t[k] \in 1 .. m + 1
  BY <1>1, <1>2, <1>4
<1>6. ASSUME NEW j \in 1 .. m + 1, NEW k \in 1 .. m + 1, t[j] = t[k]
      PROVE  j = k
  <2>1. CASE j = i \/ k = i
    <3>1. \A q \in 1 .. m + 1 : q # i => t[q] \in 1 .. m
      BY <1>1, <1>4
    <3>2. \A q \in 1 .. m + 1 : q # i => t[q] # t[i]
      BY <1>2, <1>4, <3>1
    <3>3. QED
      BY <1>6, <2>1, <3>2
  <2>2. CASE j # i /\ k # i
    <3>1. p(j) = p(k)
      <4>1. /\ p(j) \in 1 .. m /\ p(k) \in 1 .. m
            /\ t[j] = b[p(j)] /\ t[k] = b[p(k)]
        BY <1>4, <2>2
      <4> HIDE DEF p
      <4>2. QED
        BY <1>1, <1>6, <4>1
    <3>2. j \in Int /\ k \in Int /\ i \in Int
      BY <1>2, SMT
    <3>3. QED
      BY <2>2, <3>1, <3>2, SMT
  <2>3. QED
    BY <2>1, <2>2
<1>7. ASSUME NEW k \in 1 .. m + 1
      PROVE  \E r \in 1 .. m + 1 : t[r] = k
  <2>1. CASE k = m + 1
    BY <1>3, <1>4, <2>1
  <2>2. CASE k # m + 1
    <3>1. PICK r \in 1 .. m : b[r] = k
      BY <1>1, <1>2, <2>2
    <3>2. CASE r < i
      <4>1. r \in 1 .. m + 1 /\ r # i /\ p(r) = r
        BY <1>3, <3>2
      <4>2. QED
        BY <1>4, <3>1, <4>1
    <3>3. CASE ~(r < i)
      <4>1. r + 1 \in 1 .. m + 1 /\ r + 1 # i /\ p(r + 1) = r
        BY <1>3, <3>3
      <4>2. QED
        BY <1>4, <3>1, <4>1
    <3>4. QED
      BY <3>2, <3>3
  <2>3. QED
    BY <2>1, <2>2
<1>8. DOMAIN t = 1 .. m + 1 /\ t = [k \in 1 .. m + 1 |-> t[k]]
  BY DEF t
<1>9. Lists(t, m + 1, 1 .. m + 1)
  BY <1>2, <1>5, <1>6, <1>7, <1>8 DEF Lists
<1>10. QED
  BY <1>9 DEF t

\* The list after each insertion of Spread.
IsSpread(f, num_node, fresh, entries) ==
    f = [i \in 0 .. Len(entries) |->
            IF i = 0 THEN fresh
            ELSE InsertAt(f[i - 1], num_node * (i - 1) + 1, entries[i])]

(* The recursive function that Spread is defined by exists.                *)
LEMMA SpreadExists ==
    ASSUME NEW num_node, NEW fresh, NEW entries, Len(entries) \in Nat
    PROVE  \E f : IsSpread(f, num_node, fresh, entries)
<1> DEFINE After(before, i) == InsertAt(before, num_node * (i - 1) + 1, entries[i])
           Step(f, n) == f = [k \in 0 .. n |-> IF k = 0 THEN fresh ELSE After(f[k - 1], k)]
           Upto == {n \in Nat : \E f : Step(f, n)}
<1>0. \A f : Step(f, Len(entries)) => IsSpread(f, num_node, fresh, entries)
  BY DEF IsSpread
<1> HIDE DEF After
<1>1. 0 \in Upto
  <2> DEFINE f == [k \in 0 .. 0 |-> fresh]
  <2>1. f = [k \in 0 .. 0 |-> IF k = 0 THEN fresh ELSE After(f[k - 1], k)]
    <3>1. \A k \in 0 .. 0 : k = 0
      BY SMT
    <3>2. QED
      BY <3>1
  <2>2. QED
    BY <2>1
<1>2. ASSUME NEW n \in Nat, n \in Upto
      PROVE  n + 1 \in Upto
  <2>1. PICK f : Step(f, n)
    BY <1>2
  <2> DEFINE h == [k \in 0 .. n + 1 |-> IF k = n + 1 THEN After(f[n], n + 1) ELSE f[k]]
  <2>2. ASSUME NEW k \in 0 .. n + 1
        PROVE  h[k] = IF k = 0 THEN fresh ELSE After(h[k - 1], k)
    <3>1. CASE k = n + 1
      <4>1. k # 0 /\ k - 1 = n /\ n \in 0 .. n + 1 /\ n # n + 1
        BY <3>1, SMT
      <4>2. h[k] = After(f[n], k) /\ h[n] = f[n]
        BY <3>1, <4>1
      <4> HIDE DEF h
      <4>3. QED
        BY <4>1, <4>2
    <3>2. CASE k # n + 1
      <4>1. k \in 0 .. n /\ (k # 0 => k - 1 \in 0 .. n + 1 /\ k - 1 # n + 1)
        BY <3>2, SMT
      <4>2. h[k] = f[k] /\ (k # 0 => h[k - 1] = f[k - 1])
        BY <3>2, <4>1
      <4> HIDE DEF h
      <4>3. f[k] = IF k = 0 THEN fresh ELSE After(f[k - 1], k)
        BY <2>1, <4>1
      <4>4. QED
        BY <4>2, <4>3
    <3>3. QED
      BY <3>1, <3>2
  <2>3. h = [k \in 0 .. n + 1 |-> h[k]]
    OBVIOUS
  <2> HIDE DEF h
  <2>4. Step(h, n + 1)
    BY <2>2, <2>3
  <2>5. QED
    BY <2>4
<1>3. Nat \subseteq Upto
  <2> HIDE DEF Upto
  <2>1. QED
    BY <1>1, <1>2, NatSetInduction
<1>4. PICK f : Step(f, Len(entries))
  BY <1>3
<1>5. QED
  BY <1>0, <1>4

(* There is room for each insertion: none is beyond the end of the list.   *)
LEMMA SpreadFits ==
    ASSUME NEW records \in Nat, NEW room \in Nat, NEW most \in Nat \ {0},
           records <= room + most, NEW i \in 0 .. most - 1
    PROVE  (records \div most) * i + 1 \in 1 .. room + i + 1
<1> DEFINE q == records \div most
<1>1. q \in Nat /\ q * most <= records
  BY SMT
<1> HIDE DEF q
<1>2. i \in Nat /\ most - i \in Nat
  BY SMT
<1>3. q * most = q * i + q * (most - i)
  BY <1>1, <1>2, SMT
<1>4. q * i \in Nat /\ q * (most - i) \in Nat
  BY <1>1, <1>2, SMT
<1>5. CASE q = 0
  BY <1>2, <1>5, SMT DEF q
<1>6. CASE q # 0
  <2>1. \A m \in Nat : m <= q * m
    <3> SUFFICES ASSUME NEW m \in Nat PROVE m <= q * m
      OBVIOUS
    <3>1. q - 1 \in Nat
      BY <1>1, <1>6, SMT
    <3>2. (q - 1) * m \in Nat /\ q * m = (q - 1) * m + m
      BY <1>1, <3>1, SMT
    <3>3. QED
      BY <3>2, SMT
  <2>2. most - i <= q * (most - i)
    BY <1>2, <2>1
  <2>3. q * i <= room + i
    <3> DEFINE a == q * i
               b == q * (most - i)
               c == q * most
    <3>1. a \in Nat /\ b \in Nat /\ c = a + b /\ c <= records /\ most - i <= b
      BY <1>1, <1>3, <1>4, <2>2
    <3> HIDE DEF a, b, c
    <3>2. a <= room + i
      BY <1>2, <3>1, SMT
    <3>3. QED
      BY <3>2 DEF a
  <2>4. q * i + 1 \in 1 .. room + i + 1
    <3> DEFINE a == q * i
    <3>1. a \in Nat /\ a <= room + i
      BY <1>4, <2>3
    <3> HIDE DEF a
    <3>2. a + 1 \in 1 .. room + i + 1
      BY <1>2, <3>1, SMT
    <3>3. QED
      BY <3>2 DEF a
  <2>5. QED
    BY <2>4 DEF q
<1>7. QED
  BY <1>5, <1>6

\* t is made of both, each element of each of them once.
Mixed(t, b, fresh, entries) ==
    /\ t \in Seq(ToSet(t)) /\ Len(t) = Len(fresh) + Len(entries)
    /\ Lists(b, Len(t), 1 .. Len(t))
    /\ \A k \in 1 .. Len(t) :
         t[k] = IF b[k] <= Len(fresh) THEN fresh[b[k]] ELSE entries[b[k] - Len(fresh)]

(* Spread leaves out neither the fresh entries nor the others.             *)
LEMMA SpreadIs ==
    ASSUME NEW records \in Nat, NEW fresh, fresh \in Seq(ToSet(fresh)),
           NEW entries, entries \in Seq(ToSet(entries)), entries # <<>>,
           records <= Len(fresh) + Len(entries)
    PROVE  \E b : Mixed(Spread(records, fresh, entries), b, fresh, entries)
<1> DEFINE n == Len(entries)
           room == Len(fresh)
           num_node == records \div n
           f == CHOOSE g : IsSpread(g, num_node, fresh, entries)
<1>1. n \in Nat \ {0} /\ DOMAIN entries = 1 .. n /\ room \in Nat
  <2>1. n \in Nat /\ DOMAIN entries = 1 .. n /\ n > 0 /\ room \in Nat
    BY SeqIs
  <2> HIDE DEF n
  <2>2. n \in Nat \ {0}
    BY <2>1, SMT
  <2>3. QED
    BY <2>1, <2>2
<1>2. Spread(records, fresh, entries) = f[n]
  BY DEF Spread, IsSpread
<1>3. IsSpread(f, num_node, fresh, entries)
  <2>1. \E g : IsSpread(g, num_node, fresh, entries)
    BY <1>1, SpreadExists
  <2>2. QED
    BY <2>1
<1> HIDE DEF f
<1>4. /\ f[0] = fresh
      /\ \A i \in 0 .. n - 1 : f[i + 1] = InsertAt(f[i], num_node * i + 1, entries[i + 1])
  <2>1. f = [i \in 0 .. n |-> IF i = 0 THEN fresh
                              ELSE InsertAt(f[i - 1], num_node * (i - 1) + 1, entries[i])]
    BY <1>3 DEF IsSpread
  <2> HIDE DEF n, num_node
  <2>2. 0 \in 0 .. n
    BY <1>1, SMT
  <2>3. \A i \in 0 .. n - 1 : i + 1 \in 0 .. n /\ i + 1 # 0 /\ (i + 1) - 1 = i
    BY <1>1, SMT
  <2>4. QED
    BY <2>1, <2>2, <2>3
<1>5. \A i \in 0 .. n - 1 : num_node * i + 1 \in 1 .. room + i + 1
  <2>1. records <= room + n
    OBVIOUS
  <2> HIDE DEF n, room
  <2>2. QED
    BY <1>1, <2>1, SpreadFits
<1> HIDE DEF n, room, num_node
<1> DEFINE value(p) == IF p <= room THEN fresh[p] ELSE entries[p - room]
           Made(t, b, m) == /\ t \in Seq(ToSet(t)) /\ Len(t) = m /\ Lists(b, m, 1 .. m)
                            /\ \A k \in 1 .. m : t[k] = value(b[k])
           Good(i) == \E b : Made(f[i], b, room + i)
           Upto == {i \in Nat : i <= n => Good(i)}
<1>6. 0 \in Upto
  <2> DEFINE b == [k \in 1 .. room |-> k]
  <2>1. f[0] \in Seq(ToSet(f[0])) /\ Len(f[0]) = room /\ f[0] = fresh
    BY <1>4 DEF room
  <2>2. room + 0 = room /\ \A k \in 1 .. room : k <= room
    BY <1>1, SMT
  <2>3. Lists(b, room, 1 .. room)
    BY <1>1 DEF Lists
  <2>4. \A k \in 1 .. room : f[0][k] = value(b[k])
    BY <2>1, <2>2
  <2> HIDE DEF b, value
  <2>5. Good(0)
    BY <2>1, <2>2, <2>3, <2>4
  <2> HIDE DEF Good
  <2>6. QED
    BY <2>5
<1>7. ASSUME NEW i \in Nat, i \in Upto
      PROVE  i + 1 \in Upto
  <2> SUFFICES ASSUME i + 1 <= n
               PROVE  Good(i + 1)
    OBVIOUS
  <2> DEFINE m == room + i
             s == f[i]
             t == f[i + 1]
             x == entries[i + 1]
             p == num_node * i + 1
  <2>1. /\ i <= n /\ i \in 0 .. n - 1 /\ m \in Nat
        /\ m + 1 = room + (i + 1) /\ ~(m + 1 <= room) /\ (m + 1) - room = i + 1
    BY <1>1, SMT
  <2>2. PICK b : Made(s, b, m)
    BY <1>7, <2>1
  <2>3. t = InsertAt(s, p, x)
    BY <1>4, <2>1
  <2>4. p \in 1 .. m + 1
    BY <1>5, <2>1
  <2>5. x = value(m + 1)
    BY <2>1
  <2> HIDE DEF s, t, x, p, m, value
  <2>6. /\ s \in Seq(ToSet(s)) /\ Len(s) = m /\ Lists(b, m, 1 .. m)
        /\ \A k \in 1 .. m : s[k] = value(b[k])
    BY <2>2
  <2>7. /\ t \in Seq(ToSet(t)) /\ Len(t) = m + 1
        /\ \A k \in 1 .. m + 1 :
             t[k] = IF k < p THEN s[k] ELSE IF k = p THEN x ELSE s[k - 1]
    <3>1. s \in Seq(ToSet(s)) /\ Len(s) = m /\ p \in 1 .. Len(s) + 1
      BY <2>4, <2>6
    <3>2. /\ t \in Seq(ToSet(t)) /\ Len(t) = Len(s) + 1
          /\ \A k \in 1 .. Len(s) + 1 :
               t[k] = IF k < p THEN s[k] ELSE IF k = p THEN x ELSE s[k - 1]
      BY <2>3, <3>1, InsertedIs
    <3>3. QED
      BY <3>1, <3>2
  <2> DEFINE c == [k \in 1 .. m + 1 |->
                      IF k < p THEN b[k] ELSE IF k = p THEN m + 1 ELSE b[k - 1]]
  <2>8. Lists(c, m + 1, 1 .. m + 1)
    BY <2>1, <2>4, <2>6, ListsInserted
  <2>9. ASSUME NEW k \in 1 .. m + 1
        PROVE  t[k] = value(c[k])
    <3>1. /\ k < p => k \in 1 .. m
          /\ ~(k < p) /\ k # p => k - 1 \in 1 .. m
      BY <2>1, <2>4, SMT
    <3>2. c[k] = IF k < p THEN b[k] ELSE IF k = p THEN m + 1 ELSE b[k - 1]
      OBVIOUS
    <3> HIDE DEF c
    <3>3. CASE k < p
      BY <2>6, <2>7, <3>1, <3>2, <3>3
    <3>4. CASE ~(k < p) /\ k = p
      BY <2>5, <2>7, <3>2, <3>4
    <3>5. CASE ~(k < p) /\ k # p
      BY <2>6, <2>7, <3>1, <3>2, <3>5
    <3>6. QED
      BY <3>3, <3>4, <3>5
  <2> HIDE DEF c
  <2>10. Made(t, c, m + 1)
    BY <2>7, <2>8, <2>9
  <2> HIDE DEF Made
  <2>11. QED
    BY <2>1, <2>10 DEF t
<1>8. Nat \subseteq Upto
  <2> HIDE DEF Upto
  <2>1. QED
    BY <1>6, <1>7, NatSetInduction
<1>9. Good(n)
  <2>1. n \in Nat /\ n <= n
    BY <1>1, SMT
  <2> HIDE DEF Good
  <2>2. QED
    BY <1>8, <2>1
<1>10. PICK b : Made(f[n], b, room + n)
  <2> HIDE DEF Made
  <2>1. QED
    BY <1>9
<1>11. Mixed(f[n], b, fresh, entries)
  BY <1>10 DEF Mixed, room, n
<1>12. QED
  BY <1>2, <1>11 DEF n

(* If they have no element in common, and none twice, nor has what is made.*)
LEMMA MixedOnce ==
    ASSUME NEW t, NEW b, NEW fresh, fresh \in Seq(ToSet(fresh)),
           NEW entries, entries \in Seq(ToSet(entries)), Mixed(t, b, fresh, entries),
           IsInjective(fresh), IsInjective(entries), ToSet(fresh) \cap ToSet(entries) = {}
    PROVE  /\ t \in Seq(ToSet(t)) /\ IsInjective(t)
           /\ ToSet(t) \subseteq ToSet(fresh) \cup ToSet(entries)
<1> DEFINE room == Len(fresh)
           n == Len(entries)
           m == Len(t)
<1>1. /\ room \in Nat /\ n \in Nat /\ DOMAIN fresh = 1 .. room /\ DOMAIN entries = 1 .. n
      /\ \A k \in 1 .. room : fresh[k] \in ToSet(fresh)
      /\ \A k \in 1 .. n : entries[k] \in ToSet(entries)
  BY SeqIs
<1>2. /\ t \in Seq(ToSet(t)) /\ m = room + n
      /\ \A k \in 1 .. m : b[k] \in 1 .. m
      /\ \A j, k \in 1 .. m : b[j] = b[k] => j = k
      /\ \A k \in 1 .. m : t[k] = IF b[k] <= room THEN fresh[b[k]] ELSE entries[b[k] - room]
  BY DEF Mixed, Lists
<1>3. DOMAIN t = 1 .. m /\ \A x \in ToSet(t) : \E k \in 1 .. m : t[k] = x
  BY <1>2, SeqIs
<1> HIDE DEF room, n, m
<1>4. \A p \in 1 .. m : IF p <= room THEN p \in 1 .. room ELSE p - room \in 1 .. n
  BY <1>1, <1>2, SMT
<1>5. \A k \in 1 .. m : IF b[k] <= room
                        THEN b[k] \in 1 .. room /\ t[k] = fresh[b[k]] /\ t[k] \in ToSet(fresh)
                        ELSE /\ b[k] - room \in 1 .. n /\ t[k] = entries[b[k] - room]
                             /\ t[k] \in ToSet(entries)
  BY <1>1, <1>2, <1>4
<1>6. ASSUME NEW j \in 1 .. m, NEW k \in 1 .. m, t[j] = t[k]
      PROVE  j = k
  <2>1. \/ b[j] <= room /\ b[k] <= room
        \/ ~(b[j] <= room) /\ ~(b[k] <= room)
    BY <1>5, <1>6
  <2>2. b[j] <= room => b[j] = b[k]
    BY <1>1, <1>5, <1>6, <2>1 DEF IsInjective
  <2>3. ~(b[j] <= room) => b[j] - room = b[k] - room
    BY <1>1, <1>5, <1>6, <2>1 DEF IsInjective
  <2>4. \A v, w \in 1 .. m : v - room = w - room => v = w
    BY <1>1, <1>2, SMT
  <2>5. QED
    BY <1>2, <2>2, <2>3, <2>4
<1>7. IsInjective(t)
  BY <1>3, <1>6 DEF IsInjective
<1>8. \A x \in ToSet(t) : x \in ToSet(fresh) \cup ToSet(entries)
  BY <1>3, <1>5
<1>9. QED
  BY <1>2, <1>7, <1>8

--------------------------------------------------------------------------------
(* What each tool makes of its list                                        *)

\* The amounts that the source lists for a key.
AmountsFor(c) == {e.amount : e \in {e \in ToSet(source) : e.pubkey = c}}

(* The tool was run with arguments that it may be run with.                *)
LEMMA ToolIs ==
    ASSUME ListInv
    PROVE  /\ list_tool.name \in {"none"} \cup FromSource \cup OfPreList
           /\ list_tool.name \in FromSource =>
                /\ source \in Seq(ToSet(source))
                /\ \A e \in ToSet(source) : /\ e.pubkey \in NotAKey \cup ToSet(KeyOrder)
                                            /\ e.amount \in ToSet(TextOrder)
           /\ list_tool.name \in FromSource \cup OfPreList => list_tool.amount \in Nat
           /\ list_tool.name = "filter_and_merge" =>
                /\ list_tool.sub \in Seq(ToSet(list_tool.sub))
                /\ ToSet(list_tool.sub) \subseteq NotAKey \cup ToSet(KeyOrder)
           /\ list_tool.name = "extend_list" =>
                /\ list_tool.amount \in ToSet(TextOrder)
                /\ list_tool.num_records \in 0 .. Len(FreshKeys)
           /\ list_tool.name = "create_dummy_csv" =>
                /\ list_tool.num_records \in Nat /\ list_tool.num_records >= Len(PreList)
                /\ list_tool.num_records - Len(PreList) <= Len(FreshKeys)
<1>1. PICK input \in Inputs : list_tool = input.list_tool /\ source = input.source
  BY DEF ListInv
<1>2. QED
  BY <1>1, ToolAssumption

(* Contains looks for a key in a list of keys.                             *)
LEMMA KeysAre ==
    ASSUME NEW keys, keys \in Seq(ToSet(keys)), NEW c
    PROVE  Contains(keys, c) <=> c \in ToSet(keys)
<1>1. Len(keys) \in Nat /\ DOMAIN keys = 1 .. Len(keys)
  BY SeqIs
<1>2. QED
  BY <1>1 DEF Contains, ToSet

(* What is offered for a key, tool by tool.                                *)
LEMMA OfferedIs ==
    ASSUME ListInv, NEW c
    PROVE  LET Adds(keys) == IF c \in ToSet(keys) THEN {list_tool.amount} ELSE {}
               Each(amount) == {amount : a \in AmountsFor(c)}
           IN  /\ list_tool.name = "filter_list" => Offered(c) = Each(list_tool.amount)
               /\ list_tool.name = "filter_list_fixed" => Offered(c) = AmountsFor(c)
               /\ list_tool.name = "filter_and_merge" =>
                    Offered(c) = Each(MergedAmount) \cup Adds(list_tool.sub) \cup Adds(PreList)
               /\ list_tool.name = "extend_list" =>
                    Offered(c) = AmountsFor(c) \cup Adds(PreList)
               /\ list_tool.name \in OfPreList =>
                    Offered(c) = Adds(PreList) \cup Adds(FreshKeys)
<1>1. /\ Contains(PreList, c) <=> c \in ToSet(PreList)
      /\ Contains(FreshKeys, c) <=> c \in ToSet(FreshKeys)
  BY ListAssumption, KeysAre
<1>2. list_tool.name = "filter_and_merge" =>
        (Contains(list_tool.sub, c) <=> c \in ToSet(list_tool.sub))
  BY ToolIs, KeysAre
<1>3. list_tool.name = "filter_list" =>
        Offered(c) = {list_tool.amount : a \in AmountsFor(c)}
  BY DEF Offered, AmountsFor
<1>4. list_tool.name = "filter_list_fixed" => Offered(c) = AmountsFor(c)
  BY DEF Offered, AmountsFor
<1>5. list_tool.name = "filter_and_merge" =>
        Offered(c) = {MergedAmount : a \in AmountsFor(c)}
                       \cup (IF c \in ToSet(list_tool.sub) THEN {list_tool.amount} ELSE {})
                       \cup (IF c \in ToSet(PreList) THEN {list_tool.amount} ELSE {})
  BY <1>1, <1>2 DEF Offered, AmountsFor
<1>6. list_tool.name = "extend_list" =>
        Offered(c) = AmountsFor(c)
                       \cup (IF c \in ToSet(PreList) THEN {list_tool.amount} ELSE {})
  BY <1>1 DEF Offered, AmountsFor
<1>7. list_tool.name \in OfPreList =>
        Offered(c) = (IF c \in ToSet(PreList) THEN {list_tool.amount} ELSE {})
                       \cup (IF c \in ToSet(FreshKeys) THEN {list_tool.amount} ELSE {})
  BY <1>1 DEF Offered, AmountsFor, OfPreList
<1>8. QED
  BY <1>3, <1>4, <1>5, <1>6, <1>7

\* A list with one line per key, of an amount that is offered for it.
OneLineEach(entries) ==
    /\ entries \in Seq(ToSet(entries)) /\ Once(entries)
    /\ \A e \in ToSet(entries) : e.amount \in Offered(e.pubkey)
\* A list of the keys of the source, but for what is no key.
KeepsKeys(entries) ==
    \A e \in ToSet(source) : e.pubkey \in Claimants(entries) <=> e.pubkey \notin NotAKey

(* The lines of the source that a tool goes on with.                       *)
LEMMA SourceIs ==
    ASSUME ListInv, list_tool.name \in FromSource
    PROVE  /\ Parsed(source) \in Seq(ToSet(Parsed(source)))
           /\ \A e \in ToSet(Parsed(source)) :
                /\ e \in ToSet(source) /\ e.pubkey \in ToSet(KeyOrder) \ NotAKey
                /\ e.amount \in ToSet(TextOrder) /\ e.amount \in AmountsFor(e.pubkey)
           /\ \A e \in ToSet(source) : e.pubkey \notin NotAKey => e \in ToSet(Parsed(source))
<1>1. /\ source \in Seq(ToSet(source))
      /\ \A e \in ToSet(source) : /\ e.pubkey \in NotAKey \cup ToSet(KeyOrder)
                                  /\ e.amount \in ToSet(TextOrder)
  BY ToolIs
<1>2. /\ Parsed(source) \in Seq(ToSet(Parsed(source)))
      /\ ToSet(Parsed(source)) = {e \in ToSet(source) : e.pubkey \notin NotAKey}
  BY <1>1, ParsedIs
<1>3. \A e \in ToSet(source) : e.amount \in AmountsFor(e.pubkey)
  BY DEF AmountsFor
<1>4. QED
  BY <1>1, <1>2, <1>3

(* Amounts are sorted by numbers, or by texts, that tell them apart.       *)
LEMMA AmountsAre ==
    /\ \A a \in Nat : AsNumbers[a] = a
    /\ \A a \in ToSet(TextOrder) : AsTexts[a] \in Nat
    /\ \A a, b \in ToSet(TextOrder) : AsTexts[a] = AsTexts[b] => a = b
<1>1. \A a \in ToSet(TextOrder) : AsTexts[a] = Rank(TextOrder, a)
  BY DEF AsTexts
<1>2. \A a \in ToSet(TextOrder) : /\ Rank(TextOrder, a) \in Nat
                                  /\ TextOrder[Rank(TextOrder, a)] = a
  BY ListAssumption, RankIs
<1>3. \A a \in Nat : AsNumbers[a] = a
  BY DEF AsNumbers
<1>4. QED
  BY <1>1, <1>2, <1>3

(* filter-list leaves each key that parses one line.                       *)
LEMMA FilterListIs ==
    ASSUME ListInv, list_tool.name = "filter_list"
    PROVE  LET L == filter_list(list_tool, source) IN  OneLineEach(L) /\ KeepsKeys(L)
<1> DEFINE p == Parsed(source)
           amount == list_tool.amount
           w == WithAmount(p, amount)
           L == dedup_by(sort_unstable(w, AsNumbers))
<1>1. L = filter_list(list_tool, source)
  BY DEF filter_list
<1>2. /\ p \in Seq(ToSet(p))
      /\ \A e \in ToSet(p) :
           /\ e \in ToSet(source) /\ e.pubkey \in ToSet(KeyOrder) \ NotAKey
           /\ e.amount \in AmountsFor(e.pubkey)
      /\ \A e \in ToSet(source) : e.pubkey \notin NotAKey => e \in ToSet(p)
  BY SourceIs DEF FromSource
<1>3. amount \in Nat
  BY ToolIs DEF FromSource
<1> HIDE DEF p, amount, L
<1>4. w \in Seq(ToSet(w)) /\ ToSet(w) = {Entry(e.pubkey, amount) : e \in ToSet(p)}
  BY <1>2, WithAmountIs
<1> HIDE DEF w
<1>5. \A x \in ToSet(w) : \E e \in ToSet(p) : x = Entry(e.pubkey, amount)
  BY <1>4
<1>6. \A x \in ToSet(w) : \E e \in ToSet(p) :
        x = Entry(x.pubkey, x.amount) /\ x.pubkey = e.pubkey /\ x.amount = amount
  BY <1>5 DEF Entry
<1>7. Sortable(w, AsNumbers)
  <2>1. AsNumbers[amount] \in Nat
    BY <1>3, AmountsAre
  <2>2. QED
    BY <1>2, <1>4, <1>6, <2>1 DEF Sortable
<1>8. /\ L \in Seq(ToSet(L)) /\ ToSet(L) \subseteq ToSet(w)
      /\ Claimants(L) = Claimants(w) /\ Once(L)
  BY <1>7, DedupByIs DEF L
<1>9. ASSUME NEW x \in ToSet(L)
      PROVE  x.amount \in Offered(x.pubkey)
  <2>1. PICK e \in ToSet(p) : x.pubkey = e.pubkey /\ x.amount = amount
    BY <1>6, <1>8
  <2>2. Offered(x.pubkey) = {amount : a \in AmountsFor(x.pubkey)}
    BY OfferedIs DEF amount
  <2>3. QED
    BY <1>2, <2>1, <2>2
<1>10. ASSUME NEW e \in ToSet(source)
       PROVE  e.pubkey \in Claimants(L) <=> e.pubkey \notin NotAKey
  <2>1. ASSUME e.pubkey \in Claimants(w)
        PROVE  e.pubkey \notin NotAKey
    <3>1. PICK x \in ToSet(w) : x.pubkey = e.pubkey
      BY <2>1 DEF Claimants
    <3>2. QED
      BY <1>2, <1>6, <3>1
  <2>2. ASSUME e.pubkey \notin NotAKey
        PROVE  e.pubkey \in Claimants(w)
    <3>1. Entry(e.pubkey, amount) \in ToSet(w)
      BY <1>2, <1>4, <2>2
    <3>2. QED
      BY <3>1 DEF Claimants, Entry
  <2>3. QED
    BY <1>8, <2>1, <2>2
<1>11. QED
  BY <1>1, <1>8, <1>9, <1>10 DEF OneLineEach, KeepsKeys

(* filter-list-fixed leaves each key that parses one of its own lines.     *)
LEMMA FilterListFixedIs ==
    ASSUME ListInv, list_tool.name = "filter_list_fixed"
    PROVE  LET L == filter_list_fixed(source) IN  OneLineEach(L) /\ KeepsKeys(L)
<1> DEFINE p == Parsed(source)
           w == TwoColumns(p)
           L == dedup_by(sort_unstable(w, AsTexts))
<1>1. L = filter_list_fixed(source)
  BY DEF filter_list_fixed
<1>2. /\ p \in Seq(ToSet(p))
      /\ \A e \in ToSet(p) :
           /\ e \in ToSet(source) /\ e.pubkey \in ToSet(KeyOrder) \ NotAKey
           /\ e.amount \in ToSet(TextOrder) /\ e.amount \in AmountsFor(e.pubkey)
      /\ \A e \in ToSet(source) : e.pubkey \notin NotAKey => e \in ToSet(p)
  BY SourceIs DEF FromSource
<1> HIDE DEF p, L
<1>3. w \in Seq(ToSet(w)) /\ ToSet(w) = {Entry(e.pubkey, e.amount) : e \in ToSet(p)}
  BY <1>2, TwoColumnsIs
<1> HIDE DEF w
<1>4. \A x \in ToSet(w) : \E e \in ToSet(p) : x = Entry(e.pubkey, e.amount)
  BY <1>3
<1>5. \A x \in ToSet(w) : \E e \in ToSet(p) :
        x = Entry(x.pubkey, x.amount) /\ x.pubkey = e.pubkey /\ x.amount = e.amount
  BY <1>4 DEF Entry
<1>6. Sortable(w, AsTexts)
  <2>1. \A x \in ToSet(w) : /\ x = Entry(x.pubkey, x.amount)
                            /\ x.pubkey \in ToSet(KeyOrder)
                            /\ x.amount \in ToSet(TextOrder)
    BY <1>2, <1>5
  <2>2. QED
    BY <1>3, <2>1, AmountsAre DEF Sortable
<1>7. /\ L \in Seq(ToSet(L)) /\ ToSet(L) \subseteq ToSet(w)
      /\ Claimants(L) = Claimants(w) /\ Once(L)
  BY <1>6, DedupByIs DEF L
<1>8. ASSUME NEW x \in ToSet(L)
      PROVE  x.amount \in Offered(x.pubkey)
  <2>1. PICK e \in ToSet(p) : x.pubkey = e.pubkey /\ x.amount = e.amount
    BY <1>5, <1>7
  <2>2. Offered(x.pubkey) = AmountsFor(x.pubkey)
    BY OfferedIs
  <2>3. QED
    BY <1>2, <2>1, <2>2
<1>9. ASSUME NEW e \in ToSet(source)
      PROVE  e.pubkey \in Claimants(L) <=> e.pubkey \notin NotAKey
  <2>1. ASSUME e.pubkey \in Claimants(w)
        PROVE  e.pubkey \notin NotAKey
    <3>1. PICK x \in ToSet(w) : x.pubkey = e.pubkey
      BY <2>1 DEF Claimants
    <3>2. QED
      BY <1>2, <1>5, <3>1
  <2>2. ASSUME e.pubkey \notin NotAKey
        PROVE  e.pubkey \in Claimants(w)
    <3>1. Entry(e.pubkey, e.amount) \in ToSet(w)
      BY <1>2, <1>3, <2>2
    <3>2. QED
      BY <3>1 DEF Claimants, Entry
  <2>3. QED
    BY <1>7, <2>1, <2>2
<1>10. QED
  BY <1>1, <1>7, <1>8, <1>9 DEF OneLineEach, KeepsKeys

(* filter-and-merge-list leaves each key one of the amounts it may get.    *)
LEMMA FilterAndMergeIs ==
    ASSUME ListInv, list_tool.name = "filter_and_merge"
    PROVE  LET L == filter_and_merge(list_tool, source) IN  OneLineEach(L) /\ KeepsKeys(L)
<1> DEFINE p == Parsed(source)
           amount == list_tool.amount
           sub == list_tool.sub
           subs == EntriesOf(sub, amount)
           u == WithAmount(p, MergedAmount)
           v == Parsed(subs)
           pre == EntriesOf(PreList, amount)
           w == u \o v \o pre
           L == dedup_by(sort_unstable(w, AsNumbers))
<1>1. L = filter_and_merge(list_tool, source)
  BY DEF filter_and_merge
<1>2. /\ p \in Seq(ToSet(p))
      /\ \A e \in ToSet(p) :
           /\ e \in ToSet(source) /\ e.pubkey \in ToSet(KeyOrder) \ NotAKey
           /\ e.amount \in AmountsFor(e.pubkey)
      /\ \A e \in ToSet(source) : e.pubkey \notin NotAKey => e \in ToSet(p)
  BY SourceIs DEF FromSource
<1>3. /\ amount \in Nat /\ MergedAmount \in Nat
      /\ sub \in Seq(ToSet(sub)) /\ ToSet(sub) \subseteq NotAKey \cup ToSet(KeyOrder)
      /\ PreList \in Seq(ToSet(PreList)) /\ ToSet(PreList) \subseteq ToSet(KeyOrder) \ NotAKey
  BY ToolIs, ListAssumption DEF FromSource
<1> HIDE DEF p, amount, sub, L
<1>4. u \in Seq(ToSet(u)) /\ ToSet(u) = {Entry(e.pubkey, MergedAmount) : e \in ToSet(p)}
  BY <1>2, WithAmountIs
<1>5. subs \in Seq(ToSet(subs)) /\ ToSet(subs) = {Entry(key, amount) : key \in ToSet(sub)}
  BY <1>3, EntriesOfIs
<1>6. pre \in Seq(ToSet(pre)) /\ ToSet(pre) = {Entry(key, amount) : key \in ToSet(PreList)}
  BY <1>3, EntriesOfIs
<1> HIDE DEF subs, pre
<1>7. v \in Seq(ToSet(v)) /\ ToSet(v) = {e \in ToSet(subs) : e.pubkey \notin NotAKey}
  BY <1>5, ParsedIs
<1> HIDE DEF u, v
<1>8. w \in Seq(ToSet(w)) /\ ToSet(w) = ToSet(u) \cup ToSet(v) \cup ToSet(pre)
  <2> DEFINE uv == u \o v
  <2>1. uv \in Seq(ToSet(uv)) /\ ToSet(uv) = ToSet(u) \cup ToSet(v)
    BY <1>4, <1>7, JoinedIs
  <2>2. w = uv \o pre
    OBVIOUS
  <2> HIDE DEF uv
  <2>3. QED
    BY <1>6, <2>1, <2>2, JoinedIs
<1> HIDE DEF w
<1>9. \A x \in ToSet(u) : \E e \in ToSet(p) :
        /\ x = Entry(x.pubkey, x.amount) /\ x.pubkey = e.pubkey /\ x.amount = MergedAmount
  BY <1>4 DEF Entry
<1>10. \A x \in ToSet(v) :
         /\ x = Entry(x.pubkey, x.amount) /\ x.pubkey \in ToSet(sub) \ NotAKey
         /\ x.amount = amount
  BY <1>5, <1>7 DEF Entry
<1>11. \A x \in ToSet(pre) :
         x = Entry(x.pubkey, x.amount) /\ x.pubkey \in ToSet(PreList) /\ x.amount = amount
  BY <1>6 DEF Entry
<1>12. ASSUME NEW x \in ToSet(w)
       PROVE  /\ x = Entry(x.pubkey, x.amount) /\ x.pubkey \in ToSet(KeyOrder) \ NotAKey
              /\ x.amount \in Nat
              /\ \/ x.amount = MergedAmount /\ AmountsFor(x.pubkey) # {}
                 \/ x.amount = amount /\ x.pubkey \in ToSet(sub)
                 \/ x.amount = amount /\ x.pubkey \in ToSet(PreList)
  <2>1. CASE x \in ToSet(u)
    <3>1. PICK e \in ToSet(p) :
            x = Entry(x.pubkey, x.amount) /\ x.pubkey = e.pubkey /\ x.amount = MergedAmount
      BY <1>9, <2>1
    <3>2. AmountsFor(x.pubkey) # {}
      BY <1>2, <3>1
    <3>3. QED
      BY <1>2, <1>3, <3>1, <3>2
  <2>2. CASE x \in ToSet(v)
    BY <1>3, <1>10, <2>2
  <2>3. CASE x \in ToSet(pre)
    BY <1>3, <1>11, <2>3
  <2>4. QED
    BY <1>8, <2>1, <2>2, <2>3
<1>13. Sortable(w, AsNumbers)
  BY <1>8, <1>12, AmountsAre DEF Sortable
<1>14. /\ L \in Seq(ToSet(L)) /\ ToSet(L) \subseteq ToSet(w)
       /\ Claimants(L) = Claimants(w) /\ Once(L)
  BY <1>13, DedupByIs DEF L
<1>15. ASSUME NEW x \in ToSet(L)
       PROVE  x.amount \in Offered(x.pubkey)
  <2>1. Offered(x.pubkey) =
          {MergedAmount : a \in AmountsFor(x.pubkey)}
            \cup (IF x.pubkey \in ToSet(sub) THEN {amount} ELSE {})
            \cup (IF x.pubkey \in ToSet(PreList) THEN {amount} ELSE {})
    BY OfferedIs DEF amount, sub
  <2>2. \/ x.amount = MergedAmount /\ AmountsFor(x.pubkey) # {}
        \/ x.amount = amount /\ x.pubkey \in ToSet(sub)
        \/ x.amount = amount /\ x.pubkey \in ToSet(PreList)
    BY <1>12, <1>14
  <2>3. QED
    BY <2>1, <2>2
<1>16. ASSUME NEW e \in ToSet(source)
       PROVE  e.pubkey \in Claimants(L) <=> e.pubkey \notin NotAKey
  <2>1. ASSUME e.pubkey \in Claimants(w)
        PROVE  e.pubkey \notin NotAKey
    <3>1. PICK x \in ToSet(w) : x.pubkey = e.pubkey
      BY <2>1 DEF Claimants
    <3>2. QED
      BY <1>12, <3>1
  <2>2. ASSUME e.pubkey \notin NotAKey
        PROVE  e.pubkey \in Claimants(w)
    <3>1. Entry(e.pubkey, MergedAmount) \in ToSet(w)
      BY <1>2, <1>4, <1>8, <2>2
    <3>2. QED
      BY <3>1 DEF Claimants, Entry
  <2>3. QED
    BY <1>14, <2>1, <2>2
<1>17. QED
  BY <1>1, <1>14, <1>15, <1>16 DEF OneLineEach, KeepsKeys

(* The keys that a tool makes, and their entries.                          *)
LEMMA FreshIs ==
    ASSUME NEW n \in 0 .. Len(FreshKeys), NEW amount
    PROVE  LET t == EntriesOf(SubSeq(FreshKeys, 1, n), amount)
           IN  /\ t \in Seq(ToSet(t)) /\ Len(t) = n /\ Once(t)
               /\ \A x \in ToSet(t) : /\ x = Entry(x.pubkey, x.amount)
                                      /\ x.pubkey \in ToSet(FreshKeys) /\ x.amount = amount
               /\ Claimants(t) = ToSet(SubSeq(FreshKeys, 1, n))
<1> DEFINE keys == SubSeq(FreshKeys, 1, n)
           t == EntriesOf(keys, amount)
<1>1. /\ Len(FreshKeys) \in Nat /\ DOMAIN FreshKeys = 1 .. Len(FreshKeys)
      /\ \A k \in 1 .. Len(FreshKeys) : FreshKeys[k] \in ToSet(FreshKeys)
  BY ListAssumption, SeqIs
<1>2. /\ n \in Nat /\ n \in Int /\ 1 \in Int
      /\ \A k \in 1 .. n : k \in 1 .. Len(FreshKeys) /\ 1 + k - 1 = k
      /\ n - 1 + 1 = n
      /\ (IF 1 <= n THEN n - 1 + 1 ELSE 0) = n
  BY <1>1, SMT
<1>3. /\ keys \in Seq(ToSet(FreshKeys)) /\ Len(keys) = n
      /\ \A k \in 1 .. n : keys[k] = FreshKeys[k]
  <2>1. \A k \in 1 .. n : FreshKeys[k] \in ToSet(FreshKeys)
    BY <1>1, <1>2
  <2>2. /\ keys \in Seq(ToSet(FreshKeys)) /\ Len(keys) = IF 1 <= n THEN n - 1 + 1 ELSE 0
        /\ \A k \in 1 .. n - 1 + 1 : keys[k] = FreshKeys[1 + k - 1]
    BY <1>2, <2>1, SubSeqProperties
  <2> HIDE DEF keys
  <2>3. QED
    BY <1>2, <2>2
<1> HIDE DEF keys
<1>4. keys = [k \in 1 .. n |-> keys[k]]
  BY <1>3, LenProperties
<1>5. keys \in Seq(ToSet(keys)) /\ DOMAIN keys = 1 .. n
  BY <1>2, <1>4, OwnSeq
<1>6. IsInjective(keys)
  BY <1>1, <1>2, <1>3, <1>5, ListAssumption DEF IsInjective
<1>7. \A key \in ToSet(keys) : key \in ToSet(FreshKeys)
  BY <1>1, <1>2, <1>3, <1>5 DEF ToSet
<1>8. /\ t \in Seq(ToSet(t)) /\ Len(t) = Len(keys)
      /\ ToSet(t) = {Entry(key, amount) : key \in ToSet(keys)} /\ Once(t)
  BY <1>5, <1>6, EntriesOfIs
<1> HIDE DEF t
<1>9. \A x \in ToSet(t) : /\ x = Entry(x.pubkey, x.amount)
                          /\ x.pubkey \in ToSet(FreshKeys) /\ x.amount = amount
  BY <1>7, <1>8 DEF Entry
<1>10. Claimants(t) = ToSet(keys)
  <2>1. ASSUME NEW c \in Claimants(t)
        PROVE  c \in ToSet(keys)
    <3>1. PICK x \in ToSet(t) : x.pubkey = c
      BY DEF Claimants
    <3>2. PICK key \in ToSet(keys) : x = Entry(key, amount)
      BY <1>8, <3>1
    <3>3. QED
      BY <3>1, <3>2 DEF Entry
  <2>2. ASSUME NEW c \in ToSet(keys)
        PROVE  c \in Claimants(t)
    <3>1. Entry(c, amount) \in ToSet(t) /\ Entry(c, amount).pubkey = c
      BY <1>8 DEF Entry
    <3>2. QED
      BY <3>1 DEF Claimants
  <2>3. QED
    BY <2>1, <2>2
<1>11. QED
  BY <1>3, <1>8, <1>9, <1>10 DEF t, keys

(* One line for each key is no line twice.                                 *)
LEMMA OnceIsInjective ==
    ASSUME NEW s, Once(s)
    PROVE  IsInjective(s)
  BY DEF Once, IsInjective

(* The keys of the pre list, and their entries.                            *)
LEMMA PreListIs ==
    ASSUME NEW amount
    PROVE  LET t == EntriesOf(PreList, amount)
           IN  /\ t \in Seq(ToSet(t)) /\ Len(t) = Len(PreList) /\ Once(t) /\ t # <<>>
               /\ \A x \in ToSet(t) : /\ x = Entry(x.pubkey, x.amount)
                                      /\ x.pubkey \in ToSet(PreList) /\ x.amount = amount
               /\ \A key \in ToSet(PreList) : Entry(key, amount) \in ToSet(t)
<1> DEFINE t == EntriesOf(PreList, amount)
<1>1. PreList \in Seq(ToSet(PreList)) /\ PreList # <<>> /\ IsInjective(PreList)
  BY ListAssumption
<1>2. /\ t \in Seq(ToSet(t)) /\ Len(t) = Len(PreList)
      /\ ToSet(t) = {Entry(key, amount) : key \in ToSet(PreList)} /\ Once(t)
  BY <1>1, EntriesOfIs
<1> HIDE DEF t
<1>3. t # <<>>
  <2>1. PreList # <<>> <=> Len(PreList) > 0
    BY <1>1, SeqIs
  <2>2. t # <<>> <=> Len(t) > 0
    BY <1>2, SeqIs
  <2>3. QED
    BY <1>1, <1>2, <2>1, <2>2
<1>4. \A x \in ToSet(t) : /\ x = Entry(x.pubkey, x.amount)
                          /\ x.pubkey \in ToSet(PreList) /\ x.amount = amount
  BY <1>2 DEF Entry
<1>5. \A key \in ToSet(PreList) : Entry(key, amount) \in ToSet(t)
  BY <1>2
<1>6. QED
  BY <1>2, <1>3, <1>4, <1>5 DEF t

(* create-test-list writes one line for each key of the pre list.          *)
LEMMA CreateTestListIs ==
    ASSUME ListInv, list_tool.name = "create_test_list"
    PROVE  OneLineEach(EntriesOf(PreList, list_tool.amount))
<1> DEFINE amount == list_tool.amount
           t == EntriesOf(PreList, amount)
<1>1. /\ t \in Seq(ToSet(t)) /\ Once(t)
      /\ \A x \in ToSet(t) : x.pubkey \in ToSet(PreList) /\ x.amount = amount
  BY PreListIs
<1>2. ASSUME NEW x \in ToSet(t)
      PROVE  x.amount \in Offered(x.pubkey)
  <2> HIDE DEF t
  <2>1. Offered(x.pubkey) = (IF x.pubkey \in ToSet(PreList) THEN {amount} ELSE {})
                              \cup (IF x.pubkey \in ToSet(FreshKeys) THEN {amount} ELSE {})
    BY OfferedIs DEF OfPreList
  <2>2. QED
    BY <1>1, <2>1
<1>3. QED
  BY <1>1, <1>2 DEF OneLineEach

(* The keys that tools make are none of the pre list.                      *)
LEMMA NewKeysAre == ToSet(FreshKeys) \cap (NotAKey \cup ToSet(PreList)) = {}
  BY ListAssumption

(* create-dummy-csv adds one line for each key that it makes.              *)
LEMMA CreateDummyIs ==
    ASSUME ListInv, list_tool.name = "create_dummy_csv"
    PROVE  OneLineEach(create_dummy_csv(list_tool))
<1> DEFINE amount == list_tool.amount
           records == list_tool.num_records
           num_fresh == records - Len(PreList)
           fresh == EntriesOf(SubSeq(FreshKeys, 1, num_fresh), amount)
           pre == EntriesOf(PreList, amount)
           L == Spread(records, fresh, pre)
<1>1. L = create_dummy_csv(list_tool)
  BY DEF create_dummy_csv
<1>2. /\ records \in Nat /\ records >= Len(PreList) /\ records - Len(PreList) <= Len(FreshKeys)
  BY ToolIs
<1>3. Len(PreList) \in Nat /\ Len(FreshKeys) \in Nat
  BY ListAssumption, SeqIs
<1> HIDE DEF amount, records
<1>4. num_fresh \in 0 .. Len(FreshKeys) /\ records <= num_fresh + Len(PreList)
  BY <1>2, <1>3, SMT
<1> HIDE DEF num_fresh
<1>5. /\ fresh \in Seq(ToSet(fresh)) /\ Len(fresh) = num_fresh /\ Once(fresh)
      /\ \A x \in ToSet(fresh) : /\ x = Entry(x.pubkey, x.amount)
                                 /\ x.pubkey \in ToSet(FreshKeys) /\ x.amount = amount
  BY <1>4, FreshIs
<1>6. /\ pre \in Seq(ToSet(pre)) /\ Len(pre) = Len(PreList) /\ Once(pre) /\ pre # <<>>
      /\ \A x \in ToSet(pre) : /\ x = Entry(x.pubkey, x.amount)
                               /\ x.pubkey \in ToSet(PreList) /\ x.amount = amount
  BY PreListIs
<1> HIDE DEF fresh, pre
<1>7. IsInjective(fresh) /\ IsInjective(pre)
  BY <1>5, <1>6, OnceIsInjective
<1>8. ToSet(fresh) \cap ToSet(pre) = {}
  BY <1>5, <1>6, NewKeysAre
<1>9. /\ L \in Seq(ToSet(L)) /\ IsInjective(L)
      /\ ToSet(L) \subseteq ToSet(fresh) \cup ToSet(pre)
  <2>1. records <= Len(fresh) + Len(pre)
    BY <1>4, <1>5, <1>6
  <2>2. PICK b : Mixed(L, b, fresh, pre)
    BY <1>2, <1>5, <1>6, <2>1, SpreadIs
  <2> HIDE DEF L
  <2>3. QED
    BY <1>5, <1>6, <1>7, <1>8, <2>2, MixedOnce
<1> HIDE DEF L
<1>10. \A x \in ToSet(L) : /\ x = Entry(x.pubkey, x.amount) /\ x.amount = amount
                           /\ x.pubkey \in ToSet(FreshKeys) \cup ToSet(PreList)
  BY <1>5, <1>6, <1>9
<1>11. Once(L)
  <2>1. DOMAIN L = 1 .. Len(L) /\ \A k \in 1 .. Len(L) : L[k] \in ToSet(L)
    BY <1>9, SeqIs
  <2>2. ASSUME NEW j \in DOMAIN L, NEW k \in DOMAIN L, L[j].pubkey = L[k].pubkey
        PROVE  j = k
    <3>1. L[j] = L[k]
      BY <1>10, <2>1, <2>2
    <3>2. QED
      BY <1>9, <3>1 DEF IsInjective
  <2>3. QED
    BY <2>2 DEF Once, IsInjective
<1>12. ASSUME NEW x \in ToSet(L)
       PROVE  x.amount \in Offered(x.pubkey)
  <2>1. Offered(x.pubkey) = (IF x.pubkey \in ToSet(PreList) THEN {amount} ELSE {})
                              \cup (IF x.pubkey \in ToSet(FreshKeys) THEN {amount} ELSE {})
    BY OfferedIs DEF OfPreList, amount
  <2>2. QED
    BY <1>10, <2>1
<1>13. QED
  BY <1>1, <1>9, <1>11, <1>12 DEF OneLineEach

\* A list that has no key twice with the same amount.
NoTwins(entries) == \A j, k \in DOMAIN entries :
    entries[j].pubkey = entries[k].pubkey /\ entries[j].amount = entries[k].amount => j = k
AmountsIn(entries, c) == {e.amount : e \in {e \in ToSet(entries) : e.pubkey = c}}

\* The two kinds of lines that extend-list writes: each amount that is offered for
\* a key, and one line for each key that it makes.
Kept(entries) ==
    /\ entries \in Seq(ToSet(entries)) /\ NoTwins(entries)
    /\ \A e \in ToSet(entries) : e.amount \in Nat /\ e.pubkey \notin NotAKey
    /\ \A c : c \notin NotAKey => AmountsIn(entries, c) = Offered(c)
MadeKeys == ToSet(SubSeq(FreshKeys, 1, list_tool.num_records))
NewLines(entries) ==
    /\ entries \in Seq(ToSet(entries)) /\ Once(entries) /\ Claimants(entries) = MadeKeys
    /\ \A e \in ToSet(entries) : e.amount = list_tool.amount /\ e.pubkey \notin NotAKey
IsExtended(entries) ==
    \E b, new, kept : Mixed(entries, b, new, kept) /\ NewLines(new) /\ Kept(kept)

(* Both kinds of lines name claimants of the mixed list, and nobody else.  *)
LEMMA MixedClaimants ==
    ASSUME NEW t, NEW b, NEW fresh, fresh \in Seq(ToSet(fresh)),
           NEW entries, entries \in Seq(ToSet(entries)), Mixed(t, b, fresh, entries)
    PROVE  Claimants(t) = Claimants(fresh) \cup Claimants(entries)
<1> DEFINE room == Len(fresh)
           n == Len(entries)
           m == Len(t)
<1>1. /\ room \in Nat /\ n \in Nat /\ DOMAIN fresh = 1 .. room /\ DOMAIN entries = 1 .. n
      /\ \A k \in 1 .. room : fresh[k] \in ToSet(fresh)
      /\ \A k \in 1 .. n : entries[k] \in ToSet(entries)
      /\ \A x \in ToSet(fresh) : \E k \in 1 .. room : fresh[k] = x
      /\ \A x \in ToSet(entries) : \E k \in 1 .. n : entries[k] = x
  BY SeqIs
<1>2. /\ t \in Seq(ToSet(t)) /\ m = room + n
      /\ \A k \in 1 .. m : b[k] \in 1 .. m
      /\ \A p \in 1 .. m : \E k \in 1 .. m : b[k] = p
      /\ \A k \in 1 .. m : t[k] = IF b[k] <= room THEN fresh[b[k]] ELSE entries[b[k] - room]
  BY DEF Mixed, Lists
<1>3. /\ \A k \in 1 .. m : t[k] \in ToSet(t)
      /\ \A x \in ToSet(t) : \E k \in 1 .. m : t[k] = x
  BY <1>2, SeqIs
<1> HIDE DEF room, n, m
<1>4. /\ \A p \in 1 .. m : IF p <= room THEN p \in 1 .. room ELSE p - room \in 1 .. n
      /\ \A p \in 1 .. room : p \in 1 .. m /\ p <= room
      /\ \A p \in 1 .. n : /\ room + p \in 1 .. m /\ ~(room + p <= room)
                           /\ (room + p) - room = p
  <2>1. room \in Nat /\ n \in Nat /\ m = room + n
    BY <1>1, <1>2
  <2>2. \A p \in 1 .. m : IF p <= room THEN p \in 1 .. room ELSE p - room \in 1 .. n
    BY <2>1, SMT
  <2>3. \A p \in 1 .. room : p \in 1 .. m /\ p <= room
    BY <2>1, SMT
  <2>4. \A p \in 1 .. n : room + p \in 1 .. m /\ ~(room + p <= room) /\ (room + p) - room = p
    BY <2>1, SMT
  <2>5. QED
    BY <2>2, <2>3, <2>4
<1>5. ASSUME NEW x \in ToSet(t)
      PROVE  x \in ToSet(fresh) \/ x \in ToSet(entries)
  <2>1. PICK k \in 1 .. m : t[k] = x
    BY <1>3
  <2>2. CASE b[k] <= room
    <3>1. b[k] \in 1 .. room /\ t[k] = fresh[b[k]]
      BY <1>2, <1>4, <2>2
    <3>2. QED
      BY <1>1, <2>1, <3>1
  <2>3. CASE ~(b[k] <= room)
    <3>1. b[k] - room \in 1 .. n /\ t[k] = entries[b[k] - room]
      BY <1>2, <1>4, <2>3
    <3>2. QED
      BY <1>1, <2>1, <3>1
  <2>4. QED
    BY <2>2, <2>3
<1>6. ASSUME NEW x \in ToSet(fresh)
      PROVE  x \in ToSet(t)
  <2>1. PICK p \in 1 .. room : fresh[p] = x
    BY <1>1
  <2>2. PICK k \in 1 .. m : b[k] = p
    BY <1>2, <1>4
  <2>3. QED
    BY <1>2, <1>3, <1>4, <2>1, <2>2
<1>7. ASSUME NEW x \in ToSet(entries)
      PROVE  x \in ToSet(t)
  <2>1. PICK p \in 1 .. n : entries[p] = x
    BY <1>1
  <2>2. room + p \in 1 .. m /\ ~(room + p <= room) /\ (room + p) - room = p
    BY <1>4
  <2>3. PICK k \in 1 .. m : b[k] = room + p
    BY <1>2, <2>2
  <2>4. t[k] = entries[(room + p) - room]
    BY <1>2, <2>2, <2>3
  <2>5. QED
    BY <1>3, <2>1, <2>2, <2>4
<1>8. ToSet(t) = ToSet(fresh) \cup ToSet(entries)
  BY <1>5, <1>6, <1>7
<1>9. QED
  BY <1>8 DEF Claimants

(* extend-list drops a line only if another has its key and its amount, and*)
(* adds one for each key it makes.                                         *)
LEMMA ExtendListIs ==
    ASSUME ListInv, list_tool.name = "extend_list"
    PROVE  IsExtended(extend_list(list_tool, source))
<1> DEFINE amount == list_tool.amount
           records == list_tool.num_records
           p == Parsed(source)
           u == TwoColumns(p)
           pre == EntriesOf(PreList, amount)
           all == u \o pre
           d == dedup(sort_unstable(all, AsTexts))
           fresh == EntriesOf(SubSeq(FreshKeys, 1, records), amount)
           L == Spread(records, fresh, d)
<1>1. L = extend_list(list_tool, source)
  BY DEF extend_list
<1>2. amount \in ToSet(TextOrder) /\ records \in 0 .. Len(FreshKeys)
  BY ToolIs
<1>3. /\ p \in Seq(ToSet(p))
      /\ \A e \in ToSet(p) :
           /\ e \in ToSet(source) /\ e.pubkey \in ToSet(KeyOrder) \ NotAKey
           /\ e.amount \in ToSet(TextOrder) /\ e.amount \in AmountsFor(e.pubkey)
      /\ \A e \in ToSet(source) : e.pubkey \notin NotAKey => e \in ToSet(p)
  BY SourceIs DEF FromSource
<1> HIDE DEF p, amount, records
<1>4. u \in Seq(ToSet(u)) /\ ToSet(u) = {Entry(e.pubkey, e.amount) : e \in ToSet(p)}
  BY <1>3, TwoColumnsIs
<1>5. /\ pre \in Seq(ToSet(pre)) /\ pre # <<>>
      /\ \A x \in ToSet(pre) : /\ x = Entry(x.pubkey, x.amount)
                               /\ x.pubkey \in ToSet(PreList) /\ x.amount = amount
      /\ \A key \in ToSet(PreList) : Entry(key, amount) \in ToSet(pre)
  BY PreListIs
<1>6. /\ fresh \in Seq(ToSet(fresh)) /\ Len(fresh) = records /\ Once(fresh)
      /\ \A x \in ToSet(fresh) : /\ x = Entry(x.pubkey, x.amount)
                                 /\ x.pubkey \in ToSet(FreshKeys) /\ x.amount = amount
      /\ Claimants(fresh) = ToSet(SubSeq(FreshKeys, 1, records))
  BY <1>2, FreshIs
<1>7. NewLines(fresh)
  BY <1>6, NewKeysAre DEF NewLines, MadeKeys, amount, records
<1> HIDE DEF u, pre, fresh
<1>8. all \in Seq(ToSet(all)) /\ ToSet(all) = ToSet(u) \cup ToSet(pre)
  BY <1>4, <1>5, JoinedIs
<1> HIDE DEF all
<1>9. \A x \in ToSet(u) : \E e \in ToSet(p) :
        x = Entry(x.pubkey, x.amount) /\ x.pubkey = e.pubkey /\ x.amount = e.amount
  <2>1. \A x \in ToSet(u) : \E e \in ToSet(p) : x = Entry(e.pubkey, e.amount)
    BY <1>4
  <2>2. QED
    BY <2>1 DEF Entry
<1>10. ToSet(PreList) \subseteq ToSet(KeyOrder) \ NotAKey /\ ToSet(TextOrder) \subseteq Nat
  BY ListAssumption
<1>11. ASSUME NEW x \in ToSet(all)
       PROVE  /\ x = Entry(x.pubkey, x.amount) /\ x.pubkey \in ToSet(KeyOrder) \ NotAKey
              /\ x.amount \in ToSet(TextOrder)
              /\ \/ x.amount \in AmountsFor(x.pubkey)
                 \/ x.amount = amount /\ x.pubkey \in ToSet(PreList)
  <2>1. CASE x \in ToSet(u)
    BY <1>3, <1>9, <2>1
  <2>2. CASE x \in ToSet(pre)
    BY <1>2, <1>5, <1>10, <2>2
  <2>3. QED
    BY <1>8, <2>1, <2>2
<1>12. Sortable(all, AsTexts)
  BY <1>8, <1>11, AmountsAre DEF Sortable
<1>13. d \in Seq(ToSet(d)) /\ ToSet(d) = ToSet(all) /\ IsInjective(d)
  BY <1>12, DedupIs
<1> HIDE DEF d
<1>14. d # <<>> /\ Len(d) \in Nat
  <2>1. PICK key \in ToSet(PreList) : TRUE
    <3>1. PreList \in Seq(ToSet(PreList)) /\ PreList # <<>>
      BY ListAssumption
    <3>2. /\ Len(PreList) \in Nat /\ Len(PreList) > 0
          /\ \A k \in 1 .. Len(PreList) : PreList[k] \in ToSet(PreList)
      BY <3>1, SeqIs
    <3>3. 1 \in 1 .. Len(PreList)
      BY <3>2, SMT
    <3>4. QED
      BY <3>2, <3>3
  <2>2. Entry(key, amount) \in ToSet(d)
    BY <1>5, <1>8, <1>13
  <2>3. \E k \in 1 .. Len(d) : d[k] = Entry(key, amount)
    BY <1>13, <2>2, SeqIs
  <2>4. Len(d) \in Nat /\ (d # <<>> <=> Len(d) > 0)
    BY <1>13, SeqIs
  <2>5. Len(d) > 0
    BY <2>3, <2>4, SMT
  <2>6. QED
    BY <2>4, <2>5
<1>15. \E b : Mixed(L, b, fresh, d)
  <2>1. records \in Nat /\ records <= Len(fresh) + Len(d)
    <3>1. Len(FreshKeys) \in Nat
      BY ListAssumption, SeqIs
    <3>2. QED
      BY <1>2, <1>6, <1>14, <3>1, SMT
  <2>2. QED
    BY <1>6, <1>13, <1>14, <2>1, SpreadIs
<1> HIDE DEF L
<1>16. NoTwins(d)
  <2>1. DOMAIN d = 1 .. Len(d) /\ \A k \in 1 .. Len(d) : d[k] \in ToSet(d)
    BY <1>13, SeqIs
  <2>2. ASSUME NEW j \in DOMAIN d, NEW k \in DOMAIN d,
               d[j].pubkey = d[k].pubkey, d[j].amount = d[k].amount
        PROVE  j = k
    <3>1. d[j] = d[k]
      BY <1>11, <1>13, <2>1, <2>2
    <3>2. QED
      BY <1>13, <3>1 DEF IsInjective
  <2>3. QED
    BY <2>2 DEF NoTwins
<1>17. ASSUME NEW c, c \notin NotAKey
       PROVE  AmountsIn(d, c) = Offered(c)
  <2> DEFINE amounts == {e.amount : e \in {e \in ToSet(d) : e.pubkey = c}}
  <2>1. Offered(c) = AmountsFor(c) \cup (IF c \in ToSet(PreList) THEN {amount} ELSE {})
    BY OfferedIs DEF amount
  <2>2. ASSUME NEW a \in amounts
        PROVE  a \in Offered(c)
    <3>1. PICK x \in ToSet(all) : x.pubkey = c /\ x.amount = a
      BY <1>13
    <3>2. QED
      BY <1>11, <2>1, <3>1
  <2>3. ASSUME NEW a \in Offered(c)
        PROVE  Entry(c, a) \in ToSet(d)
    <3>1. CASE a \in AmountsFor(c)
      <4>1. PICK e \in ToSet(source) : e.pubkey = c /\ e.amount = a
        BY <3>1 DEF AmountsFor
      <4>2. Entry(c, a) \in ToSet(u)
        BY <1>3, <1>4, <1>17, <4>1
      <4>3. QED
        BY <1>8, <1>13, <4>2
    <3>2. CASE a = amount /\ c \in ToSet(PreList)
      BY <1>5, <1>8, <1>13, <3>2
    <3>3. QED
      BY <2>1, <3>1, <3>2
  <2>4. \A a \in Offered(c) : a \in amounts
    <3>1. \A a : Entry(c, a).pubkey = c /\ Entry(c, a).amount = a
      BY DEF Entry
    <3>2. QED
      BY <2>3, <3>1
  <2>5. QED
    BY <2>2, <2>4 DEF AmountsIn
<1>18. Kept(d)
  BY <1>10, <1>11, <1>13, <1>16, <1>17 DEF Kept
<1>19. QED
  BY <1>1, <1>7, <1>15, <1>18 DEF IsExtended

(* What is written keeps the keys and the amounts of each.                 *)
LEMMA WrittenKeeps ==
    ASSUME NEW L, L \in Seq(ToSet(L))
    PROVE  /\ OneLineEach(L) => OneLineEach(Written(L))
           /\ NoTwins(L) => NoTwins(Written(L))
           /\ KeepsKeys(L) => KeepsKeys(Written(L))
           /\ \A c : AmountsIn(Written(L), c) = AmountsIn(L, c)
<1> DEFINE t == Written(L)
<1>1. /\ t \in Seq(ToSet(t)) /\ DOMAIN t = DOMAIN L
      /\ \A k \in DOMAIN L : t[k].pubkey = L[k].pubkey /\ t[k].amount = L[k].amount
      /\ Claimants(t) = Claimants(L) /\ (Once(L) => Once(t))
  BY WrittenIs
<1> HIDE DEF t
<1>2. /\ \A x \in ToSet(t) : \E k \in DOMAIN L : t[k] = x
      /\ \A k \in DOMAIN L : t[k] \in ToSet(t) /\ L[k] \in ToSet(L)
      /\ \A e \in ToSet(L) : \E k \in DOMAIN L : L[k] = e
  BY <1>1 DEF ToSet
<1>3. /\ \A x \in ToSet(t) : \E e \in ToSet(L) : e.pubkey = x.pubkey /\ e.amount = x.amount
      /\ \A e \in ToSet(L) : \E x \in ToSet(t) : e.pubkey = x.pubkey /\ e.amount = x.amount
  <2>1. ASSUME NEW x \in ToSet(t)
        PROVE  \E e \in ToSet(L) : e.pubkey = x.pubkey /\ e.amount = x.amount
    <3>1. PICK k \in DOMAIN L : t[k] = x
      BY <1>2
    <3>2. QED
      BY <1>1, <1>2, <3>1
  <2>2. ASSUME NEW e \in ToSet(L)
        PROVE  \E x \in ToSet(t) : e.pubkey = x.pubkey /\ e.amount = x.amount
    <3>1. PICK k \in DOMAIN L : L[k] = e
      BY <1>2
    <3>2. QED
      BY <1>1, <1>2, <3>1
  <2>3. QED
    BY <2>1, <2>2
<1>4. OneLineEach(L) => OneLineEach(t)
  BY <1>1, <1>3 DEF OneLineEach
<1>5. KeepsKeys(L) => KeepsKeys(t)
  BY <1>1 DEF KeepsKeys
<1>6. NoTwins(L) => NoTwins(t)
  BY <1>1 DEF NoTwins
<1>7. ASSUME NEW c
      PROVE  AmountsIn(t, c) = AmountsIn(L, c)
  <2> DEFINE xs == {x.amount : x \in {x \in ToSet(t) : x.pubkey = c}}
             es == {e.amount : e \in {e \in ToSet(L) : e.pubkey = c}}
  <2>1. ASSUME NEW a \in xs
        PROVE  a \in es
    <3>1. PICK x \in ToSet(t) : x.pubkey = c /\ x.amount = a
      OBVIOUS
    <3>2. PICK e \in ToSet(L) : e.pubkey = x.pubkey /\ e.amount = x.amount
      BY <1>3
    <3>3. QED
      BY <3>1, <3>2
  <2>2. ASSUME NEW a \in es
        PROVE  a \in xs
    <3>1. PICK e \in ToSet(L) : e.pubkey = c /\ e.amount = a
      OBVIOUS
    <3>2. PICK x \in ToSet(t) : e.pubkey = x.pubkey /\ e.amount = x.amount
      BY <1>3
    <3>3. QED
      BY <3>1, <3>2
  <2>3. xs = es
    BY <2>1, <2>2
  <2>4. QED
    BY <2>3 DEF AmountsIn
<1>8. QED
  BY <1>4, <1>5, <1>6, <1>7 DEF t

(* extend-list keeps every key that parses, and lists nothing else.        *)
LEMMA ExtendedKeepsKeys ==
    ASSUME ListInv, list_tool.name = "extend_list", NEW L, IsExtended(L)
    PROVE  /\ L \in Seq(ToSet(L)) /\ KeepsKeys(L)
           /\ \A c \in Claimants(L) : c \notin NotAKey
<1>1. PICK b, new, kept : Mixed(L, b, new, kept) /\ NewLines(new) /\ Kept(kept)
  BY DEF IsExtended
<1>2. /\ new \in Seq(ToSet(new)) /\ kept \in Seq(ToSet(kept)) /\ L \in Seq(ToSet(L))
  BY <1>1 DEF NewLines, Kept, Mixed
<1>3. Claimants(L) = Claimants(new) \cup Claimants(kept)
  BY <1>1, <1>2, MixedClaimants
<1>4. \A c \in Claimants(L) : c \notin NotAKey
  BY <1>1, <1>3 DEF NewLines, Kept, Claimants
<1>5. ASSUME NEW e \in ToSet(source), e.pubkey \notin NotAKey
      PROVE  e.pubkey \in Claimants(L)
  <2>1. e.amount \in AmountsFor(e.pubkey)
    BY DEF AmountsFor
  <2>2. e.amount \in Offered(e.pubkey)
    BY <2>1, OfferedIs
  <2>3. e.amount \in AmountsIn(kept, e.pubkey)
    BY <1>1, <1>5, <2>2 DEF Kept
  <2>4. e.pubkey \in Claimants(kept)
    BY <2>3 DEF AmountsIn, Claimants
  <2>5. QED
    BY <1>3, <2>4
<1>6. KeepsKeys(L)
  BY <1>4, <1>5 DEF KeepsKeys
<1>7. QED
  BY <1>2, <1>4, <1>6

(* The list that a tool made has every key, and one line for each of them  *)
(* or those that extend-list writes.                                       *)
LEMMA ListIs ==
    ASSUME ListInv, list_tool.name # "none"
    PROVE  /\ list_tool.name \in FromSource => KeepsKeys(csv)
           /\ list_tool.name # "extend_list" => OneLineEach(csv)
           /\ list_tool.name = "extend_list" => \E L : csv = Written(L) /\ IsExtended(L)
<1>1. list_tool.name \in FromSource \cup OfPreList
  BY ToolIs
<1>2. csv = ListOf(list_tool, source)
  BY DEF ListInv
<1>3. CASE list_tool.name = "filter_list"
  <2> DEFINE L == filter_list(list_tool, source)
  <2>1. csv = Written(L)
    BY <1>2, <1>3 DEF ListOf
  <2>2. OneLineEach(L) /\ KeepsKeys(L)
    BY <1>3, FilterListIs
  <2> HIDE DEF L
  <2>3. QED
    BY <1>3, <2>1, <2>2, WrittenKeeps DEF OneLineEach
<1>4. CASE list_tool.name = "filter_list_fixed"
  <2> DEFINE L == filter_list_fixed(source)
  <2>1. csv = Written(L)
    BY <1>2, <1>4 DEF ListOf
  <2>2. OneLineEach(L) /\ KeepsKeys(L)
    BY <1>4, FilterListFixedIs
  <2> HIDE DEF L
  <2>3. QED
    BY <1>4, <2>1, <2>2, WrittenKeeps DEF OneLineEach
<1>5. CASE list_tool.name = "filter_and_merge"
  <2> DEFINE L == filter_and_merge(list_tool, source)
  <2>1. csv = Written(L)
    BY <1>2, <1>5 DEF ListOf
  <2>2. OneLineEach(L) /\ KeepsKeys(L)
    BY <1>5, FilterAndMergeIs
  <2> HIDE DEF L
  <2>3. QED
    BY <1>5, <2>1, <2>2, WrittenKeeps DEF OneLineEach
<1>6. CASE list_tool.name = "extend_list"
  <2> DEFINE L == extend_list(list_tool, source)
  <2>1. csv = Written(L)
    BY <1>2, <1>6 DEF ListOf
  <2>2. IsExtended(L)
    BY <1>6, ExtendListIs
  <2> HIDE DEF L
  <2>3. L \in Seq(ToSet(L)) /\ KeepsKeys(L)
    BY <1>6, <2>2, ExtendedKeepsKeys
  <2>4. KeepsKeys(csv)
    BY <2>1, <2>3, WrittenKeeps
  <2>5. QED
    BY <1>6, <2>1, <2>2, <2>4
<1>7. CASE list_tool.name = "create_dummy_csv"
  <2> DEFINE L == create_dummy_csv(list_tool)
  <2>1. csv = Written(L)
    BY <1>2, <1>7 DEF ListOf
  <2>2. OneLineEach(L)
    BY <1>7, CreateDummyIs
  <2> HIDE DEF L
  <2>3. QED
    BY <1>7, <2>1, <2>2, WrittenKeeps DEF OneLineEach, FromSource
<1>8. CASE list_tool.name = "create_test_list"
  <2> DEFINE L == EntriesOf(PreList, list_tool.amount)
  <2>1. csv = Written(L)
    BY <1>2, <1>8 DEF ListOf
  <2>2. OneLineEach(L)
    BY <1>8, CreateTestListIs
  <2> HIDE DEF L
  <2>3. QED
    BY <1>8, <2>1, <2>2, WrittenKeeps DEF OneLineEach, FromSource
<1>9. QED
  BY <1>1, <1>3, <1>4, <1>5, <1>6, <1>7, <1>8 DEF FromSource, OfPreList


(* What the lines of a key add up to, if its amounts differ.               *)
LEMMA TotalOfAmounts ==
    ASSUME NEW entries, AreLines(entries), NoTwins(entries), NEW c
    PROVE  TotalOf(TreeNodes(entries), c, "amount")
             = SumFunction([a \in AmountsIn(entries, c) |-> ui_amount_to_token_amount(a)])
<1> DEFINE nodes == TreeNodes(entries)
           amounts == AmountsIn(entries, c)
           mine == Of(nodes, c)
           g == Values(nodes, "amount")
           b == [k \in mine |-> entries[k].amount]
           w == [a \in amounts |-> ui_amount_to_token_amount(a)]
<1>1. /\ Len(entries) \in Nat /\ DOMAIN entries = 1 .. Len(entries)
      /\ \A k \in DOMAIN entries : entries[k].amount \in Nat
  BY LinesAre
<1>2. /\ AreNodes(nodes) /\ DOMAIN nodes = DOMAIN entries
      /\ \A k \in DOMAIN entries : nodes[k] = from_csv(entries[k])
      /\ mine = {k \in DOMAIN entries : entries[k].pubkey = c}
  BY TreeNodesAre
<1> HIDE DEF nodes, mine
<1>3. IsFiniteSet(DOMAIN entries) /\ mine \in SUBSET DOMAIN entries /\ IsFiniteSet(mine)
  BY <1>2, NodesAre, FS_Subset
<1>4. /\ \A k \in mine : b[k] \in amounts
      /\ \A a \in amounts : \E k \in mine : b[k] = a
      /\ \A j, k \in mine : b[j] = b[k] => j = k
      /\ \A a \in amounts : a \in Nat
  <2>1. /\ \A k \in DOMAIN entries : entries[k] \in ToSet(entries)
        /\ \A e \in ToSet(entries) : \E k \in DOMAIN entries : entries[k] = e
    BY DEF AreLines, ToSet
  <2>2. QED
    BY <1>1, <1>2, <2>1 DEF NoTwins, AmountsIn
<1>5. /\ TotalOf(nodes, c, "amount") = SumOf(g, mine)
      /\ g \in [DOMAIN entries -> Nat]
      /\ \A k \in DOMAIN entries : g[k] = nodes[k].amount
  <2>1. "amount" \in Fields /\ mine \in SUBSET DOMAIN nodes
    BY <1>2, <1>3 DEF Fields
  <2>2. TotalOf(nodes, c, "amount") = TotalAt(nodes, mine, "amount")
    BY DEF TotalOf, mine
  <2> HIDE DEF amounts
  <2>3. QED
    BY <1>2, <2>1, <2>2, TotalIs DEF Values
<1>6. \A k \in mine : g[k] = w[b[k]]
  <2>1. \A k \in mine : k \in DOMAIN entries /\ nodes[k].amount = ui_amount_to_token_amount(entries[k].amount)
    BY <1>2 DEF from_csv
  <2>2. QED
    BY <1>4, <1>5, <2>1
<1>7. w \in [amounts -> Nat] /\ DOMAIN w = amounts
  <2>1. \A a \in amounts : ui_amount_to_token_amount(a) \in Nat
    BY <1>4, RoundedDown
  <2>2. QED
    BY <2>1
<1>8. b \in [mine -> amounts]
  BY <1>4
<1> HIDE DEF b, g, w, amounts
<1>9. IsFiniteSet(amounts)
  BY <1>3, <1>4, <1>8, FS_Surjection DEF Surjection
<1>10. SumOf(g, mine) = SumOf(w, amounts)
  <2>1. \A x, y \in mine : b[x] = b[y] => x = y
    BY <1>4
  <2>2. amounts \in SUBSET amounts
    OBVIOUS
  <2>3. \A y \in amounts : \E x \in mine : b[x] = y
    BY <1>4
  <2> DEFINE S == DOMAIN entries
  <2>4. IsFiniteSet(S) /\ mine \in SUBSET S /\ g \in [S -> Nat]
    BY <1>3, <1>5
  <2>5. w \in [amounts -> Nat]
    BY <1>7
  <2> HIDE DEF mine, S
  <2>6. QED
    BY <1>6, <1>8, <1>9, <2>1, <2>2, <2>3, <2>4, <2>5, SumMoved
<1>11. SumFunction(w) = SumOf(w, amounts)
  BY <1>7, SumFunctionIs
<1>12. QED
  BY <1>5, <1>10, <1>11 DEF nodes, w, amounts

(* One line gives what it says, rounded down.                              *)
LEMMA TotalOfOne ==
    ASSUME NEW entries, AreLines(entries), Once(entries), NEW k \in DOMAIN entries
    PROVE  TotalOf(TreeNodes(entries), entries[k].pubkey, "amount")
             = ui_amount_to_token_amount(entries[k].amount)
<1> DEFINE nodes == TreeNodes(entries)
           mine == Of(nodes, entries[k].pubkey)
           g == Values(nodes, "amount")
<1>1. /\ AreNodes(nodes) /\ DOMAIN nodes = DOMAIN entries
      /\ nodes[k] = from_csv(entries[k])
      /\ mine = {j \in DOMAIN entries : entries[j].pubkey = entries[k].pubkey}
  BY TreeNodesAre
<1> HIDE DEF nodes
<1>2. mine = {k}
  BY <1>1 DEF Once, IsInjective
<1>3. /\ TotalOf(nodes, entries[k].pubkey, "amount") = SumOf(g, mine)
      /\ g \in [DOMAIN entries -> Nat] /\ g[k] = nodes[k].amount
  <2>1. "amount" \in Fields /\ mine \in SUBSET DOMAIN nodes
    BY <1>1 DEF Fields
  <2>2. QED
    BY <1>1, <2>1, TotalIs DEF TotalOf, Values
<1>4. IsFiniteSet(DOMAIN entries)
  BY <1>1, NodesAre
<1> HIDE DEF g, mine
<1>5. SumOf(g, {k}) = g[k]
  BY <1>3, <1>4, SumOfSingle
<1>6. QED
  BY <1>1, <1>2, <1>3, <1>5 DEF nodes, from_csv

(* The nodes of lines as they are written.                                 *)
NodesOf(entries) == TreeNodes(Written(entries))

LEMMA NodesOfAre ==
    ASSUME NEW L, L \in Seq(ToSet(L)), \A e \in ToSet(L) : e.amount \in Nat
    PROVE  /\ AreLines(Written(L)) /\ AreNodes(NodesOf(L)) /\ Len(NodesOf(L)) = Len(L)
           /\ \A k \in 1 .. Len(L) :
                NodesOf(L)[k] = [claimant |-> L[k].pubkey, locked_amount |-> 0,
                                 amount |-> ui_amount_to_token_amount(L[k].amount)]
<1> DEFINE t == Written(L)
           n == Len(L)
<1>1. /\ n \in Nat /\ DOMAIN L = 1 .. n /\ \A k \in 1 .. n : L[k] \in ToSet(L)
  BY SeqIs
<1> HIDE DEF n
<1>2. t = [k \in 1 .. n |-> [pubkey |-> L[k].pubkey, amount |-> L[k].amount,
                             locked_amount |-> NoAmount]]
  BY <1>1 DEF Written
<1> HIDE DEF t
<1>3. \A k \in 1 .. n : /\ t[k].pubkey = L[k].pubkey /\ t[k].amount = L[k].amount
                        /\ t[k].locked_amount = NoAmount /\ t[k].amount \in Nat
  BY <1>1, <1>2
<1>4. AreLines(t) /\ Len(t) = n /\ DOMAIN t = 1 .. n
  <2>1. t = [k \in 1 .. n |-> t[k]]
    BY <1>2
  <2>2. QED
    BY <1>1, <1>3, <2>1, LinesFrom
<1>5. /\ AreNodes(TreeNodes(t)) /\ Len(TreeNodes(t)) = n
      /\ \A k \in 1 .. n : TreeNodes(t)[k] = from_csv(t[k])
  BY <1>4, TreeNodesAre
<1>6. \A k \in 1 .. n : from_csv(t[k]) =
        [claimant |-> L[k].pubkey, locked_amount |-> 0,
         amount |-> ui_amount_to_token_amount(L[k].amount)]
  BY <1>3 DEF from_csv
<1>7. QED
  BY <1>4, <1>5, <1>6 DEF NodesOf, t, n

(* The nodes of a mixed list have the totals of both its parts.            *)
LEMMA TotalOfMixed ==
    ASSUME NEW nodes, AreNodes(nodes), NEW left, AreNodes(left), NEW right, AreNodes(right),
           NEW b, Mixed(nodes, b, left, right), NEW c, NEW field \in Fields
    PROVE  TotalOf(nodes, c, field) = TotalOf(left, c, field) + TotalOf(right, c, field)
<1> DEFINE room == Len(left)
           n == Len(right)
           m == Len(nodes)
           both == [p \in 1 .. m |-> IF p <= room THEN left[p] ELSE right[p - room]]
           I == Of(nodes, c)
           J == Of(both, c)
           move == [k \in I |-> b[k]]
<1>1. /\ room \in Nat /\ n \in Nat /\ m \in Nat
      /\ DOMAIN left = 1 .. room /\ DOMAIN right = 1 .. n /\ DOMAIN nodes = 1 .. m
      /\ \A k \in 1 .. room : left[k].amount \in Nat /\ left[k].locked_amount \in Nat
      /\ \A k \in 1 .. n : right[k].amount \in Nat /\ right[k].locked_amount \in Nat
  BY NodesAre
<1>2. /\ m = room + n
      /\ \A k \in 1 .. m : b[k] \in 1 .. m
      /\ \A j, k \in 1 .. m : b[j] = b[k] => j = k
      /\ \A p \in 1 .. m : \E k \in 1 .. m : b[k] = p
      /\ \A k \in 1 .. m : nodes[k] = IF b[k] <= room THEN left[b[k]] ELSE right[b[k] - room]
  BY DEF Mixed, Lists
<1> HIDE DEF room, n, m
<1>3. /\ \A p \in 1 .. m : IF p <= room THEN p \in 1 .. room ELSE p - room \in 1 .. n
      /\ \A p \in 1 .. room : p \in 1 .. m /\ p <= room
      /\ \A p \in 1 .. n : /\ room + p \in 1 .. m /\ ~(room + p <= room)
                           /\ (room + p) - room = p
  <2>1. room \in Nat /\ n \in Nat /\ m = room + n
    BY <1>1, <1>2
  <2>2. \A p \in 1 .. m : IF p <= room THEN p \in 1 .. room ELSE p - room \in 1 .. n
    BY <2>1, SMT
  <2>3. \A p \in 1 .. room : p \in 1 .. m /\ p <= room
    BY <2>1, SMT
  <2>4. \A p \in 1 .. n : room + p \in 1 .. m /\ ~(room + p <= room) /\ (room + p) - room = p
    BY <2>1, SMT
  <2>5. QED
    BY <2>2, <2>3, <2>4
<1>4. \A p \in 1 .. m : both[p] = IF p <= room THEN left[p] ELSE right[p - room]
  OBVIOUS
<1>5. AreNodes(both) /\ Len(both) = m /\ DOMAIN both = 1 .. m
  <2>1. both = [p \in 1 .. m |-> both[p]]
    OBVIOUS
  <2> HIDE DEF both
  <2>2. \A p \in 1 .. m : both[p].amount \in Nat /\ both[p].locked_amount \in Nat
    BY <1>1, <1>3, <1>4
  <2>3. QED
    BY <1>1, <2>1, <2>2, NodesFrom
<1> HIDE DEF both
<1>6. /\ \A k \in 1 .. room : both[k] = left[k]
      /\ \A k \in 1 .. n : both[room + k] = right[k]
  BY <1>3, <1>4
<1>7. TotalOf(both, c, field) = TotalOf(left, c, field) + TotalOf(right, c, field)
  <2>1. Len(both) = Len(left) + Len(right)
    BY <1>2, <1>5 DEF room, n
  <2>2. /\ \A k \in 1 .. Len(left) : both[k] = left[k]
        /\ \A k \in 1 .. Len(right) : both[Len(left) + k] = right[k]
    BY <1>6 DEF room, n
  <2>3. AreNodes(both)
    BY <1>5
  <2> HIDE DEF I, J, move
  <2>4. QED
    BY ONLY AreNodes(left), AreNodes(right), field \in Fields, <2>1, <2>2, <2>3, TotalOfParts
<1>8. \A k \in 1 .. m : nodes[k] = both[b[k]]
  BY <1>2, <1>4
<1>9. /\ I = {k \in 1 .. m : nodes[k].claimant = c}
      /\ J = {k \in 1 .. m : both[k].claimant = c}
  BY <1>1, <1>5 DEF Of
<1> HIDE DEF I, J
<1>10. /\ move \in [I -> J] /\ \A k \in I : move[k] = b[k]
  BY <1>2, <1>8, <1>9
<1> HIDE DEF move
<1>11. /\ \A j, k \in I : move[j] = move[k] => j = k
       /\ \A p \in J : \E k \in I : move[k] = p
       /\ \A k \in I : nodes[k][field] = both[move[k]][field]
  BY <1>2, <1>8, <1>9, <1>10
<1>12. I \in SUBSET DOMAIN nodes /\ J \in SUBSET DOMAIN both
  BY <1>1, <1>5, <1>9
<1>13. TotalAt(nodes, I, field) = TotalAt(both, J, field)
  BY <1>5, <1>10, <1>11, <1>12, TotalMoved
<1>14. QED
  BY <1>7, <1>13 DEF TotalOf, I, J

(* What extend-list gives a key: each amount that is offered for it, and   *)
(* what the line for it says if the tool makes the key.                    *)
LEMMA ExtendedTotals ==
    ASSUME ListInv, list_tool.name = "extend_list", NEW L, IsExtended(L),
           NEW c \in Claimants(L)
    PROVE  TotalOf(NodesOf(L), c, "amount") =
             SumFunction([a \in Offered(c) |-> ui_amount_to_token_amount(a)])
               + (IF c \in MadeKeys THEN ui_amount_to_token_amount(list_tool.amount) ELSE 0)
<1>1. PICK b, new, kept : Mixed(L, b, new, kept) /\ NewLines(new) /\ Kept(kept)
  BY DEF IsExtended
<1>2. /\ new \in Seq(ToSet(new)) /\ kept \in Seq(ToSet(kept)) /\ L \in Seq(ToSet(L))
  BY <1>1 DEF NewLines, Kept, Mixed
<1>3. list_tool.amount \in Nat /\ c \notin NotAKey
  BY ToolIs, ExtendedKeepsKeys DEF FromSource
<1>4. /\ \A e \in ToSet(new) : e.amount = list_tool.amount
      /\ \A e \in ToSet(kept) : e.amount \in Nat
  BY <1>1 DEF NewLines, Kept
<1> DEFINE room == Len(new)
           n == Len(kept)
           m == Len(L)
<1>5. /\ room \in Nat /\ n \in Nat /\ DOMAIN new = 1 .. room /\ DOMAIN kept = 1 .. n
      /\ \A k \in 1 .. room : new[k] \in ToSet(new)
      /\ \A k \in 1 .. n : kept[k] \in ToSet(kept)
      /\ \A x \in ToSet(L) : \E k \in 1 .. m : L[k] = x
  BY <1>2, SeqIs
<1>6. /\ m = room + n /\ Lists(b, m, 1 .. m)
      /\ \A k \in 1 .. m : b[k] \in 1 .. m
      /\ \A k \in 1 .. m : L[k] = IF b[k] <= room THEN new[b[k]] ELSE kept[b[k] - room]
  BY <1>1 DEF Mixed, Lists
<1> HIDE DEF room, n, m
<1>7. \A p \in 1 .. m : IF p <= room THEN p \in 1 .. room ELSE p - room \in 1 .. n
  BY <1>5, <1>6, SMT
<1>8. \A e \in ToSet(L) : e.amount \in Nat
  <2>1. ASSUME NEW k \in 1 .. m
        PROVE  L[k].amount \in Nat
    <3>1. CASE b[k] <= room
      <4>1. b[k] \in 1 .. room /\ L[k] = new[b[k]]
        BY <1>6, <1>7, <3>1
      <4>2. QED
        BY <1>3, <1>4, <1>5, <4>1
    <3>2. CASE ~(b[k] <= room)
      <4>1. b[k] - room \in 1 .. n /\ L[k] = kept[b[k] - room]
        BY <1>6, <1>7, <3>2
      <4>2. QED
        BY <1>4, <1>5, <4>1
    <3>3. QED
      BY <3>1, <3>2
  <2>2. QED
    BY <1>5, <2>1
<1>9. /\ AreLines(Written(new)) /\ AreNodes(NodesOf(new)) /\ Len(NodesOf(new)) = room
      /\ \A k \in 1 .. room :
           NodesOf(new)[k] = [claimant |-> new[k].pubkey, locked_amount |-> 0,
                              amount |-> ui_amount_to_token_amount(new[k].amount)]
  BY <1>2, <1>3, <1>4, NodesOfAre DEF room
<1>10. /\ AreLines(Written(kept)) /\ AreNodes(NodesOf(kept)) /\ Len(NodesOf(kept)) = n
       /\ \A k \in 1 .. n :
            NodesOf(kept)[k] = [claimant |-> kept[k].pubkey, locked_amount |-> 0,
                                amount |-> ui_amount_to_token_amount(kept[k].amount)]
  BY <1>2, <1>4, NodesOfAre DEF n
<1>11. /\ AreNodes(NodesOf(L)) /\ Len(NodesOf(L)) = m
       /\ \A k \in 1 .. m :
            NodesOf(L)[k] = [claimant |-> L[k].pubkey, locked_amount |-> 0,
                             amount |-> ui_amount_to_token_amount(L[k].amount)]
  BY <1>2, <1>8, NodesOfAre DEF m
<1>12. Mixed(NodesOf(L), b, NodesOf(new), NodesOf(kept))
  <2>1. NodesOf(L) \in Seq(ToSet(NodesOf(L)))
    BY <1>11 DEF AreNodes
  <2>2. ASSUME NEW k \in 1 .. m
        PROVE  NodesOf(L)[k] = IF b[k] <= room THEN NodesOf(new)[b[k]]
                               ELSE NodesOf(kept)[b[k] - room]
    <3>1. CASE b[k] <= room
      <4>1. b[k] \in 1 .. room /\ L[k] = new[b[k]]
        BY <1>6, <1>7, <3>1
      <4>2. QED
        BY <1>9, <1>11, <3>1, <4>1
    <3>2. CASE ~(b[k] <= room)
      <4>1. b[k] - room \in 1 .. n /\ L[k] = kept[b[k] - room]
        BY <1>6, <1>7, <3>2
      <4>2. QED
        BY <1>10, <1>11, <3>2, <4>1
    <3>3. QED
      BY <3>1, <3>2
  <2>3. QED
    BY <1>6, <1>9, <1>10, <1>11, <2>1, <2>2 DEF Mixed
<1>13. TotalOf(NodesOf(L), c, "amount")
         = TotalOf(NodesOf(new), c, "amount") + TotalOf(NodesOf(kept), c, "amount")
  <2>1. "amount" \in Fields
    BY DEF Fields
  <2>2. QED
    BY <1>9, <1>10, <1>11, <1>12, <2>1, TotalOfMixed
<1>14. TotalOf(NodesOf(kept), c, "amount")
         = SumFunction([a \in Offered(c) |-> ui_amount_to_token_amount(a)])
  <2>1. NoTwins(Written(kept)) /\ AmountsIn(Written(kept), c) = Offered(c)
    BY <1>1, <1>2, <1>3, WrittenKeeps DEF Kept
  <2>2. TotalOf(TreeNodes(Written(kept)), c, "amount")
          = SumFunction([a \in AmountsIn(Written(kept), c) |-> ui_amount_to_token_amount(a)])
    BY <1>10, <2>1, TotalOfAmounts
  <2>3. QED
    BY <2>1, <2>2 DEF NodesOf
<1>15. /\ DOMAIN Written(new) = 1 .. room
       /\ \A k \in 1 .. room : /\ Written(new)[k].pubkey = new[k].pubkey
                               /\ Written(new)[k].amount = new[k].amount
       /\ Claimants(Written(new)) = MadeKeys /\ Once(Written(new))
  BY <1>1, <1>2, <1>5, WrittenIs DEF NewLines
<1>16. TotalOf(NodesOf(new), c, "amount")
         = IF c \in MadeKeys THEN ui_amount_to_token_amount(list_tool.amount) ELSE 0
  <2>1. CASE c \in MadeKeys
    <3>1. PICK k \in 1 .. room : Written(new)[k].pubkey = c
      BY <1>9, <1>15, <2>1, LinesAre
    <3>2. Written(new)[k].amount = list_tool.amount
      BY <1>4, <1>5, <1>15
    <3>3. TotalOf(TreeNodes(Written(new)), Written(new)[k].pubkey, "amount")
            = ui_amount_to_token_amount(Written(new)[k].amount)
      BY <1>9, <1>15, TotalOfOne
    <3>4. QED
      BY <2>1, <3>1, <3>2, <3>3 DEF NodesOf
  <2>2. CASE c \notin MadeKeys
    <3>1. Names(TreeNodes(Written(new))) = Claimants(Written(new))
      BY <1>9, TreeNodesAre
    <3>2. c \notin Names(NodesOf(new)) /\ "amount" \in Fields
      BY <1>15, <2>2, <3>1 DEF NodesOf, Fields
    <3>3. TotalOf(NodesOf(new), c, "amount") = 0
      BY <1>9, <3>2, TotalOfNobody
    <3>4. QED
      BY <2>2, <3>3
  <2>3. QED
    BY <2>1, <2>2
<1>17. TotalOf(NodesOf(new), c, "amount") \in Nat /\ TotalOf(NodesOf(kept), c, "amount") \in Nat
  <2>1. /\ Of(NodesOf(new), c) \in SUBSET DOMAIN NodesOf(new)
        /\ Of(NodesOf(kept), c) \in SUBSET DOMAIN NodesOf(kept)
        /\ "amount" \in Fields
    BY DEF Of, Fields
  <2>2. QED
    BY <1>9, <1>10, <2>1, TotalIs DEF TotalOf
<1> DEFINE x == TotalOf(NodesOf(new), c, "amount")
           y == TotalOf(NodesOf(kept), c, "amount")
<1>18. x + y = y + x
  <2>1. x \in Nat /\ y \in Nat
    BY <1>17
  <2> HIDE DEF x, y
  <2>2. QED
    BY <2>1, SMT
<1>19. QED
  BY <1>13, <1>14, <1>16, <1>18

--------------------------------------------------------------------------------
(* What the tools leave to be served                                       *)

(* Neither part of a list with one line for each key has a key of the other*)
LEMMA CutOnce ==
    ASSUME NEW entries, AreLines(entries), Once(entries), NEW i \in 0 .. Len(entries)
    PROVE  LET sub == SubSeq(entries, 1, i)
               rest == SubSeq(entries, i + 1, Len(entries))
           IN  Once(rest) /\ Claimants(sub) \cap Claimants(rest) = {}
<1> DEFINE n == Len(entries)
           m == n - i
           u == SubSeq(entries, 1, i)
           v == SubSeq(entries, i + 1, n)
<1>1. n \in Nat /\ DOMAIN entries = 1 .. n
  BY LinesAre
<1>2. /\ i \in Nat /\ m \in Nat /\ n = i + m
      /\ \A k \in 1 .. i : k \in 1 .. n
      /\ \A k \in 1 .. m : i + k \in 1 .. n
      /\ \A k \in 1 .. i : u[k] = entries[k]
      /\ \A k \in 1 .. m : v[k] = entries[i + k]
  BY CutAt
<1>3. /\ AreLines(u) /\ Len(u) = i /\ AreLines(v) /\ Len(v) = m
  BY CutLines
<1> HIDE DEF n, m, u, v
<1>4. /\ DOMAIN u = 1 .. i /\ \A c \in Claimants(u) : \E k \in 1 .. i : u[k].pubkey = c
      /\ DOMAIN v = 1 .. m /\ \A c \in Claimants(v) : \E k \in 1 .. m : v[k].pubkey = c
  BY <1>3, LinesAre
<1>5. \A j, k \in 1 .. n : entries[j].pubkey = entries[k].pubkey => j = k
  BY <1>1 DEF Once, IsInjective
<1>6. Once(v)
  <2>1. ASSUME NEW j \in 1 .. m, NEW k \in 1 .. m, v[j].pubkey = v[k].pubkey
        PROVE  j = k
    <3>1. i + j = i + k
      BY <1>2, <1>5, <2>1
    <3>2. QED
      BY <1>2, <3>1, SMT
  <2>2. QED
    BY <1>4, <2>1 DEF Once, IsInjective
<1>7. ASSUME NEW c \in Claimants(u), c \in Claimants(v)
      PROVE  FALSE
  <2>1. PICK j \in 1 .. i : u[j].pubkey = c
    BY <1>4
  <2>2. PICK k \in 1 .. m : v[k].pubkey = c
    BY <1>4, <1>7
  <2>3. j = i + k
    BY <1>2, <1>5, <2>1, <2>2
  <2>4. QED
    BY <1>2, <2>3, SMT
<1>8. QED
  BY <1>6, <1>7 DEF u, v, n

(* The next tree names nobody whom the rest of the list names.             *)
LEMMA CutTreeOnce ==
    ASSUME CreateInv, csv_entries # <<>>, Once(csv_entries)
    PROVE  Once(Rest) /\ Claimants(SubTree) \cap Claimants(Rest) = {}
<1>1. AreLines(csv_entries)
  BY DEF CreateInv
<1>2. last_index \in 0 .. Len(csv_entries)
  BY LastIndexIs
<1>3. QED
  BY <1>1, <1>2, CutOnce DEF SubTree, Rest

(* The lists are those that the tools make.                                *)
LEMMA InitLists == Init => ListInv /\ ShardsInv
<1> SUFFICES ASSUME Init
             PROVE  ListInv /\ ShardsInv
  OBVIOUS
<1>1. ListInv
  BY DEF Init, ListInv
<1>2. files = <<>> /\ DOMAIN files = {}
  <2>1. files = <<>> /\ files \in Seq({}) /\ Len(files) = 0
    BY EmptySeq DEF Init
  <2>2. DOMAIN files = 1 .. 0
    BY <2>1, LenProperties
  <2>3. QED
    BY <2>1, <2>2, SMT
<1>3. OneTreeEach /\ \A k \in DOMAIN files : FALSE
  BY <1>2 DEF OneTreeEach
<1>4. ~should_include_test_list => csv_entries = csv
  BY DEF Init, Trimmed
<1>5. ShardsInv
  BY <1>3, <1>4 DEF ShardsInv
<1>6. QED
  BY <1>1, <1>5

(* A tree is of keys that neither another tree nor the rest has.           *)
LEMMA CreateTreeShards == Inv /\ ShardsInv /\ CreateTree => ShardsInv'
<1> SUFFICES ASSUME Inv, ShardsInv, CreateTree, Once(csv)', ~should_include_test_list'
             PROVE  /\ OneTreeEach' /\ Once(csv_entries')
                    /\ \A k \in DOMAIN files' :
                         Names(files'[k].tree_nodes) \cap Claimants(csv_entries') = {}
  BY DEF ShardsInv
<1> DEFINE n == Len(files)
           t == NewTree(TreeNodes(SubTree), n)
<1>1. /\ TreesInv /\ CreateInv /\ csv_entries # <<>> /\ csv_entries' = Rest
      /\ files' = Append(files, t)
  BY DEF Inv, CreateTree, WriteTree
<1>2. csv' = csv /\ should_include_test_list' = should_include_test_list
  BY DEF CreateTree, made
<1>3. /\ OneTreeEach /\ Once(csv_entries)
      /\ \A k \in DOMAIN files : Names(files[k].tree_nodes) \cap Claimants(csv_entries) = {}
  BY <1>2 DEF ShardsInv, Once
<1>4. /\ AreLines(SubTree) /\ SubTree # <<>>
      /\ Claimants(csv_entries) = Claimants(SubTree) \cup Claimants(Rest)
  BY <1>1, CutTree
<1>5. Once(Rest) /\ Claimants(SubTree) \cap Claimants(Rest) = {}
  BY <1>1, <1>3, CutTreeOnce
<1>6. Names(t.tree_nodes) = Claimants(SubTree)
  <2>1. /\ AreNodes(TreeNodes(SubTree)) /\ TreeNodes(SubTree) # <<>>
        /\ Names(TreeNodes(SubTree)) = Claimants(SubTree)
    BY <1>4, LinesToNodes
  <2> HIDE DEF n
  <2>2. QED
    BY <2>1, NewTreeIs
<1>7. n \in Nat /\ DOMAIN files = 1 .. n
  BY <1>1, SeqIs DEF TreesInv
<1> HIDE DEF t
<1>8. /\ DOMAIN files' = 1 .. n + 1
      /\ \A k \in 1 .. n : files'[k] = files[k]
      /\ files'[n + 1] = t
      /\ \A k \in 1 .. n + 1 : k \in 1 .. n \/ k = n + 1
  BY <1>1, AppendIs DEF TreesInv
<1> HIDE DEF n
<1>9. ASSUME NEW k \in 1 .. n
      PROVE  /\ Names(files'[k].tree_nodes) \cap Claimants(SubTree) = {}
             /\ Names(files'[k].tree_nodes) \cap Claimants(Rest) = {}
  BY <1>3, <1>4, <1>7, <1>8
<1>10. ASSUME NEW j \in 1 .. n + 1, NEW k \in 1 .. n + 1, j # k
       PROVE  Names(files'[j].tree_nodes) \cap Names(files'[k].tree_nodes) = {}
  <2>1. CASE j \in 1 .. n /\ k \in 1 .. n
    BY <1>3, <1>7, <1>8, <1>10, <2>1 DEF OneTreeEach
  <2>2. CASE j \in 1 .. n /\ k = n + 1
    BY <1>6, <1>8, <1>9, <2>2
  <2>3. CASE j = n + 1 /\ k \in 1 .. n
    BY <1>6, <1>8, <1>9, <2>3
  <2>4. QED
    BY <1>8, <1>10, <2>1, <2>2, <2>3
<1>11. OneTreeEach'
  BY <1>8, <1>10 DEF OneTreeEach
<1>12. ASSUME NEW k \in 1 .. n + 1
       PROVE  Names(files'[k].tree_nodes) \cap Claimants(Rest) = {}
  BY <1>5, <1>6, <1>8, <1>9
<1>13. QED
  BY <1>1, <1>5, <1>8, <1>11, <1>12

(* ListInv, ShardsInv: the list is what the tool made of its source; and if*)
(* it has one line for each key, no tree names anybody whom another tree or*)
(* the rest of the list names (process_create_merkle_tree), as a tree takes*)
(* the first lines of the rest, and only lines of the list go into trees.  *)
THEOREM ShardsStayApart == Spec => [](ListInv /\ ShardsInv)
<1>1. ListInv /\ [Next]_vars => ListInv'
  <2>1. [Next]_vars => UNCHANGED made
    BY DEF Next, CreateTree, FinishTrees, LoadTree, InsertProof, FlushProofs, vars, made,
           create_vars
  <2>2. UNCHANGED made => list_tool' = list_tool /\ source' = source /\ csv' = csv
    BY DEF made
  <2>3. QED
    BY <2>1, <2>2 DEF ListInv
<1>2. Inv /\ ShardsInv /\ [Next]_vars => ShardsInv'
  <2> SUFFICES ASSUME Inv, ShardsInv, [Next]_vars
               PROVE  ShardsInv'
    OBVIOUS
  <2> DEFINE Same == /\ csv' = csv /\ should_include_test_list' = should_include_test_list
                     /\ csv_entries' = csv_entries
  <2>1. ASSUME Same, UNCHANGED files
        PROVE  ShardsInv'
    BY <2>1 DEF ShardsInv, OneTreeEach, Once, Names, Claimants
  <2>2. CASE CreateTree
    BY <2>2, CreateTreeShards
  <2>3. CASE FinishTrees
    <3>1. Same /\ (~should_include_test_list => UNCHANGED files)
      BY <2>3 DEF FinishTrees, made
    <3>2. CASE should_include_test_list
      BY <3>1, <3>2 DEF ShardsInv
    <3>3. QED
      BY <2>1, <3>1, <3>2
  <2>4. CASE LoadTree \/ InsertProof \/ FlushProofs \/ UNCHANGED vars
    <3>1. Same /\ UNCHANGED files
      BY <2>4 DEF LoadTree, InsertProof, FlushProofs, vars, create_vars, made
    <3>2. QED
      BY <2>1, <3>1
  <2>5. QED
    BY <2>2, <2>3, <2>4 DEF Next
<1>3. QED
  BY InitLists, <1>1, <1>2, ServiceInvariance, PTL DEF Spec

(* If no two trees name the same, what is served is all that the trees give*)
LEMMA ServedIsAll ==
    ASSUME Inv, OneTreeEach, NEW c \in DOMAIN tree
    PROVE  tree[c].amount = InTrees(c, "amount")
<1> DEFINE n == Len(files)
           g == PerTree(files, c, "amount")
<1>1. TreesInv /\ Answers(paths, tree, loaded, 1)
  BY DEF Inv, ServerInv
<1>2. /\ n \in Nat /\ DOMAIN files = 1 .. n /\ DOMAIN paths = 1 .. n
      /\ \A r \in 1 .. n : PathOrder[r] \in 1 .. n /\ paths[r] = files[PathOrder[r]]
  BY <1>1, PathsAre DEF TreesAre
<1>3. TreesAre(files, n)
  BY <1>1, <1>2 DEF TreesInv, TreesAre
<1>4. PICK q \in 1 .. n : \E j \in DOMAIN paths[q].tree_nodes :
        /\ paths[q].tree_nodes[j].claimant = c
        /\ tree[c] = UserProof(paths[q], q, paths[q].tree_nodes[j])
  <2> HIDE DEF n
  <2>1. QED
    BY <1>1, <1>2 DEF Answers
<1> DEFINE k == PathOrder[q]
           nodes == files[k].tree_nodes
<1>5. PICK j \in DOMAIN nodes : nodes[j].claimant = c /\ tree[c].amount = nodes[j].amount
  BY <1>2, <1>4 DEF UserProof
<1>6. k \in 1 .. n /\ IsTree(files[k])
  BY <1>2, <1>3 DEF TreesAre
<1>7. /\ AreNodes(nodes)
      /\ \A i \in DOMAIN nodes : nodes[i].claimant = nodes[j].claimant => i = j
  BY <1>6, TreeIs
<1>8. "amount" \in Fields
  BY DEF Fields
<1>9. /\ g \in [1 .. n -> Nat] /\ InTrees(c, "amount") = SumOf(g, 1 .. n)
      /\ \A i \in 1 .. n : g[i] = TotalOf(files[i].tree_nodes, c, "amount")
  <2>1. InTrees(c, "amount") = SumFunction(g)
    BY DEF InTrees, PerTree
  <2>2. \A i \in 1 .. n : g[i] = TotalOf(files[i].tree_nodes, c, "amount")
    BY <1>2 DEF PerTree
  <2> HIDE DEF n, g
  <2>3. QED
    BY <1>3, <1>8, <2>1, <2>2, PerTreeIs DEF g
<1>10. g[k] = nodes[j].amount
  <2> DEFINE v == Values(nodes, "amount")
  <2>1. Of(nodes, c) = {j}
    BY <1>5, <1>7 DEF Of
  <2> HIDE DEF nodes, k
  <2>2. /\ TotalAt(nodes, {j}, "amount") = SumOf(v, {j})
        /\ v \in [DOMAIN nodes -> Nat] /\ v[j] = nodes[j].amount
    <3>1. {j} \in SUBSET DOMAIN nodes
      OBVIOUS
    <3>2. QED
      BY <1>7, <1>8, <3>1, TotalIs DEF Values
  <2>3. SumOf(v, {j}) = v[j]
    <3>1. IsFiniteSet(DOMAIN nodes)
      BY <1>7, NodesAre
    <3> HIDE DEF v
    <3>2. QED
      BY <2>2, <3>1, SumOfSingle
  <2>4. TotalOf(nodes, c, "amount") = nodes[j].amount
    BY <2>1, <2>2, <2>3 DEF TotalOf
  <2>5. QED
    BY <1>6, <1>9, <2>4 DEF nodes
<1>11. ASSUME NEW i \in 1 .. n, i # k
       PROVE  g[i] = 0
  <2>1. c \in Names(files[k].tree_nodes)
    BY <1>5, <1>7, NamesAre
  <2>2. c \notin Names(files[i].tree_nodes)
    BY <1>2, <1>6, <1>11, <2>1 DEF OneTreeEach
  <2>3. AreNodes(files[i].tree_nodes)
    BY <1>3, TreeIs DEF TreesAre
  <2>4. QED
    BY <1>8, <1>9, <2>2, <2>3, TotalOfNobody
<1>12. SumOf(g, 1 .. n) = g[k]
  <2> DEFINE S == 1 .. n
             others == S \ {k}
             zeros == [i \in others |-> g[i]]
  <2>1. IsFiniteSet(S) /\ IsFiniteSet(others)
    <3>1. IsFiniteSet(S)
      BY <1>2, FS_Interval, SMT
    <3> HIDE DEF S
    <3>2. QED
      BY <3>1, FS_Subset
  <2>2. g \in [S -> Nat] /\ k \in S /\ S \in SUBSET S /\ others \in SUBSET S
    BY <1>6, <1>9
  <2>3. zeros \in [others -> Nat] /\ \A i \in others : zeros[i] = g[i] /\ zeros[i] = 0
    BY <1>11, <2>2
  <2> HIDE DEF S, zeros, g, k, n
  <2>4. SumOf(g, S) = g[k] + SumOf(g, others)
    BY <2>1, <2>2, SumRemove
  <2> HIDE DEF others
  <2>5. SumOf(zeros, others) = SumOf(g, others)
    BY <2>1, <2>2, <2>3, SumAgrees
  <2>6. SumOf(zeros, others) = 0
    BY <2>1, <2>3, SumOfZeros
  <2>7. g[k] \in Nat
    BY <2>2
  <2>8. QED
    BY <2>4, <2>5, <2>6, <2>7, SMT DEF S
<1>13. QED
  BY <1>5, <1>9, <1>10, <1>12

(* ToolsKeepEveryone: whatever the source holds, once all is loaded the    *)
(* server serves each key of it that parses, and what he gets in the trees *)
(* is what the tool's arguments and the source offer him: one amount, in   *)
(* one tree; or, after extend-list, each of them and one more if the tool  *)
(* made the key (process_*_list.rs to get_user_info).                      *)
THEOREM ToolsServeEveryone == Spec => []ToolsKeepEveryone
<1>1. Inv /\ ListInv /\ ShardsInv /\ EveryoneServed /\ NothingLost => ToolsKeepEveryone
  <2> SUFFICES ASSUME Inv, ListInv, ShardsInv, EveryoneServed, NothingLost,
                      AllLoaded, list_tool.name # "none", ~should_include_test_list
               PROVE  /\ list_tool.name \in FromSource => \A e \in ToSet(source) :
                           e.pubkey \in DOMAIN tree <=> e.pubkey \notin NotAKey
                      /\ \A c \in DOMAIN tree :
                           IF list_tool.name = "extend_list"
                           THEN InTrees(c, "amount") =
                                  SumFunction([a \in Offered(c) |->
                                      ui_amount_to_token_amount(a)])
                                    + (IF c \in MadeKeys
                                       THEN ui_amount_to_token_amount(list_tool.amount)
                                       ELSE 0)
                           ELSE /\ InTrees(c, "amount") = get_user_info(c).amount
                                /\ \E a \in Offered(c) :
                                     get_user_info(c).amount = ui_amount_to_token_amount(a)
    BY DEF ToolsKeepEveryone, MadeKeys
  <2>1. DOMAIN tree = Claimants(csv) /\ Everyone = Claimants(csv)
    BY DEF EveryoneServed, Everyone
  <2>2. /\ list_tool.name \in FromSource => KeepsKeys(csv)
        /\ list_tool.name # "extend_list" => OneLineEach(csv)
        /\ list_tool.name = "extend_list" => \E L : csv = Written(L) /\ IsExtended(L)
    BY ListIs
  <2>3. AreLines(csv) /\ complete
    BY DEF Inv, CreateInv, AllLoaded
  <2>4. list_tool.name \in FromSource => \A e \in ToSet(source) :
          e.pubkey \in DOMAIN tree <=> e.pubkey \notin NotAKey
    BY <2>1, <2>2 DEF KeepsKeys
  <2>5. ASSUME NEW c \in DOMAIN tree
        PROVE  InTrees(c, "amount") = TotalOf(TreeNodes(csv), c, "amount")
    BY <2>1, <2>3 DEF NothingLost, Due, Fields
  <2>6. ASSUME NEW c \in DOMAIN tree, list_tool.name = "extend_list"
        PROVE  InTrees(c, "amount") =
                 SumFunction([a \in Offered(c) |-> ui_amount_to_token_amount(a)])
                   + (IF c \in MadeKeys THEN ui_amount_to_token_amount(list_tool.amount)
                      ELSE 0)
    <3>1. PICK L : csv = Written(L) /\ IsExtended(L)
      BY <2>2, <2>6
    <3>2. L \in Seq(ToSet(L))
      BY <2>6, <3>1, ExtendedKeepsKeys
    <3>3. c \in Claimants(L)
      BY <2>1, <3>1, <3>2, WrittenIs
    <3>4. TotalOf(TreeNodes(csv), c, "amount") = TotalOf(NodesOf(L), c, "amount")
      BY <3>1 DEF NodesOf
    <3>5. QED
      BY <2>5, <2>6, <3>1, <3>3, <3>4, ExtendedTotals
  <2>7. ASSUME NEW c \in DOMAIN tree, list_tool.name # "extend_list"
        PROVE  /\ InTrees(c, "amount") = get_user_info(c).amount
               /\ \E a \in Offered(c) :
                    get_user_info(c).amount = ui_amount_to_token_amount(a)
    <3>1. Once(csv) /\ \A e \in ToSet(csv) : e.amount \in Offered(e.pubkey)
      BY <2>2, <2>7 DEF OneLineEach
    <3>2. PICK k \in DOMAIN csv : csv[k].pubkey = c
      BY <2>1, <2>3, LinesAre
    <3>3. csv[k].amount \in Offered(c)
      BY <3>1, <3>2 DEF ToSet
    <3>4. TotalOf(TreeNodes(csv), c, "amount") = ui_amount_to_token_amount(csv[k].amount)
      BY <2>3, <3>1, <3>2, TotalOfOne
    <3>5. get_user_info(c).amount = InTrees(c, "amount")
      <4>1. OneTreeEach
        BY <3>1 DEF ShardsInv
      <4>2. QED
        BY <4>1, ServedIsAll DEF get_user_info
    <3>6. QED
      BY <2>5, <3>3, <3>4, <3>5
  <2>8. QED
    BY <2>4, <2>6, <2>7
<1>2. QED
  BY <1>1, ServiceInvariance, ShardsStayApart, ServerServesTheList, TreesGiveWhatIsDue, PTL
================================================================================
