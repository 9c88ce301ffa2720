--------------------------- MODULE MerkleTreeProofs ---------------------------
(***************************************************************************)
(* Proofs about MerkleTree::new and MerkleTree::find_path, for every       *)
(* number of leaves: no index leaves the vector, and the proof made from a *)
(* path is accepted for its own leaf and for no other.                     *)
(***************************************************************************)
EXTENDS MerkleTree, DataProofs

--------------------------------------------------------------------------------
(* Hashes *)

LEMMA HashIsNotNone ==
    /\ \A k : Leaf(k) # NoHash
    /\ \A b, l, r : hash_intermediate(b, l, r) # NoHash
<1>1. \A x : hash_leaf(x) # NoHash
  BY DEF NoHash, hash_leaf
<1>2. \A l, r : Unsorted(l, r) # NoHash
  BY DEF NoHash, Unsorted
<1>3. \A l, r : Sorted(l, r) # NoHash
  BY DEF NoHash, Sorted
<1>4. QED
  BY <1>1, <1>2, <1>3 DEF Leaf, hash_intermediate

LEMMA LeavesDiffer == \A j, k : Leaf(j) = Leaf(k) => j = k
BY DEF Leaf, hash_leaf

--------------------------------------------------------------------------------
(* Levels *)

LEMMA NextLevelLen ==
    ASSUME NEW len \in Nat
    PROVE  /\ next_level_len(len) \in Nat
           /\ next_level_len(len) = 0 <=> len \in {0, 1}
           /\ \A j \in 0 .. next_level_len(len) - 1 : 2 * j < len
           /\ len > 1 => \A n \in 0 .. len - 1 : n \div 2 < next_level_len(len)
BY SMT DEF next_level_len

ParentsIn(ns, b, level, m) == \A j \in 0 .. m - 1 :
    ns[level.start + level.len + j + 1] =
        hash_intermediate(b, ns[level.start + 2 * j + 1],
            ns[level.start + (IF 2 * j + 1 < level.len THEN 2 * j + 1 ELSE 2 * j) + 1])

LEMMA ParentsAreIn ==
    /\ \A level, m : Parents(level, m) <=> ParentsIn(nodes, sorted_hashes, level, m)
    /\ \A level, m : Parents(level, m)' <=> ParentsIn(nodes', sorted_hashes', level, m)
    /\ Parents(Top, i)' <=> ParentsIn(nodes', sorted_hashes', Top', i')
BY DEF Parents, ParentsIn, Node

(* What is appended to the vector leaves the levels in it as they are.     *)
LEMMA ParentsStay ==
    ASSUME NEW n \in Nat, NEW ns, NEW ms, \A k \in 1 .. n : ms[k] = ns[k], NEW b,
           NEW level \in [start : Nat, len : Nat], NEW m \in Nat,
           m <= next_level_len(level.len), level.start + level.len + m <= n,
           ParentsIn(ns, b, level, m)
    PROVE  ParentsIn(ms, b, level, m)
<1> DEFINE start == level.start
           len == level.len
<1>1. start \in Nat /\ len \in Nat
  OBVIOUS
<1> SUFFICES ASSUME NEW j \in 0 .. m - 1
             PROVE  ms[start + len + j + 1] =
                      hash_intermediate(b, ms[start + 2 * j + 1],
                          ms[start + (IF 2 * j + 1 < len THEN 2 * j + 1 ELSE 2 * j) + 1])
  BY DEF ParentsIn
<1>2. ns[start + len + j + 1] =
          hash_intermediate(b, ns[start + 2 * j + 1],
              ns[start + (IF 2 * j + 1 < len THEN 2 * j + 1 ELSE 2 * j) + 1])
  BY DEF ParentsIn
<1> HIDE DEF start, len
<1>3. 2 * j < len /\ start + len + m <= n
  <2>1. j \in 0 .. next_level_len(len) - 1
    <3>1. next_level_len(len) \in Nat
      BY <1>1, NextLevelLen
    <3>2. m <= next_level_len(len)
      BY DEF len
    <3>3. QED
      BY <3>1, <3>2, SMT
  <2>2. QED
    BY <1>1, <2>1, NextLevelLen DEF start, len
<1>4. /\ start + len + j + 1 \in 1 .. n /\ start + 2 * j + 1 \in 1 .. n
      /\ start + (IF 2 * j + 1 < len THEN 2 * j + 1 ELSE 2 * j) + 1 \in 1 .. n
  BY <1>1, <1>3, SMT
<1>5. QED
  BY <1>2, <1>4

(* The vector with one node more.                                          *)
LEMMA AppendOwn ==
    ASSUME NEW s, s \in Seq(ToSet(s)), NEW x
    PROVE  /\ Append(s, x) \in Seq(ToSet(Append(s, x)))
           /\ ToSet(Append(s, x)) = ToSet(s) \cup {x}
           /\ Len(s) \in Nat /\ DOMAIN s = 1 .. Len(s)
           /\ Len(Append(s, x)) = Len(s) + 1
           /\ \A k \in 1 .. Len(s) : Append(s, x)[k] = s[k]
           /\ Append(s, x)[Len(s) + 1] = x
<1> DEFINE S == ToSet(s) \cup {x}
<1>1. s \in Seq(S) /\ x \in S
  BY SeqMonotonic
<1>2. /\ Append(s, x) \in Seq(S) /\ Len(Append(s, x)) = Len(s) + 1
      /\ ToSet(Append(s, x)) = ToSet(s) \cup {x}
  BY <1>1, AppendToSet
<1>3. /\ \A k \in 1 .. Len(s) : Append(s, x)[k] = s[k]
      /\ Append(s, x)[Len(s) + 1] = x
  BY <1>1, AppendProperties
<1>4. Len(s) \in Nat /\ DOMAIN s = 1 .. Len(s)
  BY LenProperties
<1>5. QED
  BY <1>2, <1>3, <1>4

LEMMA EmptyOwn == <<>> \in Seq(ToSet(<<>>)) /\ ToSet(<<>>) = {} /\ Len(<<>>) = 0
                  /\ DOMAIN <<>> = {}
<1>1. <<>> \in Seq(ToSet(<<>>)) /\ <<>> \in Seq(Nat) /\ Len(<<>>) = 0
  BY EmptySeq
<1>2. ToSet(<<>>) = {}
  BY <1>1, SeqToSet
<1>3. DOMAIN <<>> = 1 .. 0
  BY <1>1, LenProperties
<1>4. 1 .. 0 = {}
  BY SMT
<1>5. QED
  BY <1>1, <1>2, <1>3, <1>4

--------------------------------------------------------------------------------
(* MerkleTree::new *)

LEMMA TypesOf ==
    ASSUME TypeOK
    PROVE  /\ sorted_hashes \in BOOLEAN
           /\ leaf_count \in Nat /\ level_len \in Nat /\ level_start \in Nat
           /\ prev_level_len \in Nat /\ prev_level_start \in Nat /\ i \in Nat
           /\ index \in Nat /\ node_index \in Nat
           /\ nodes \in Seq(ToSet(nodes)) /\ Len(nodes) \in Nat
           /\ DOMAIN nodes = 1 .. Len(nodes)
           /\ path \in Seq(ToSet(path)) /\ Len(path) \in Nat
           /\ DOMAIN path = 1 .. Len(path)
           /\ \A level \in levels : level \in [start : Nat, len : Nat]
                                    /\ level.start \in Nat /\ level.len \in Nat
<1>1. nodes \in Seq(ToSet(nodes)) /\ path \in Seq(ToSet(path))
  BY DEF TypeOK
<1>2. QED
  BY <1>1, LenProperties DEF TypeOK

LEMMA InitInv == Init => Inv
<1> SUFFICES ASSUME Init PROVE Inv
  OBVIOUS
<1>1. /\ pc = "leaves" /\ sorted_hashes \in BOOLEAN /\ leaf_count \in 0 .. MaxLeaves
      /\ nodes = <<>> /\ level_len = 0 /\ level_start = 0 /\ prev_level_len = 0
      /\ prev_level_start = 0 /\ i = 0 /\ index = 0 /\ node_index = 0
      /\ path = <<>> /\ levels = {}
  BY DEF Init
<1>2. leaf_count \in Nat
  BY <1>1, MaxLeavesAssumption, SMT
<1>3. TypeOK
  BY <1>1, <1>2, EmptyOwn DEF TypeOK
<1>4. LaidOut /\ Growing /\ Complete /\ OnTheWay
  BY <1>1 DEF LaidOut, Growing, Complete, OnTheWay
<1>5. PathLinked
  BY <1>1, EmptyOwn DEF PathLinked
<1>6. QED
  BY <1>3, <1>4, <1>5 DEF Inv

LEMMA PushLeavesInv == Inv /\ PushLeaves => Inv'
<1> SUFFICES ASSUME Inv, PushLeaves PROVE Inv'
  OBVIOUS
<1>1. /\ pc = "leaves" /\ nodes' = Leaves /\ level_len' = next_level_len(leaf_count)
      /\ level_start' = leaf_count /\ prev_level_len' = leaf_count
      /\ prev_level_start' = 0 /\ i' = 0 /\ pc' = "parents"
      /\ levels' = {Level(0, leaf_count)}
      /\ UNCHANGED <<sorted_hashes, leaf_count, index, node_index, lsib, rsib, path>>
  BY DEF PushLeaves, FirstLevelStart, find_vars
<1>2. TypeOK /\ PathLinked
  BY DEF Inv
<1>3. leaf_count \in Nat /\ index \in Nat /\ node_index \in Nat /\ sorted_hashes \in BOOLEAN
      /\ next_level_len(leaf_count) \in Nat
  BY <1>2, TypesOf, NextLevelLen
<1>4. /\ nodes' \in Seq(ToSet(nodes')) /\ NoHash \notin ToSet(nodes')
      /\ Len(nodes') = leaf_count
      /\ \A k \in 1 .. leaf_count : nodes'[k] = Leaf(k)
  <2> DEFINE S == {Leaf(k) : k \in 1 .. leaf_count}
  <2>1. nodes' = [k \in 1 .. leaf_count |-> Leaf(k)]
    BY <1>1 DEF Leaves
  <2>2. nodes' \in Seq(S) /\ Len(nodes') = leaf_count
    BY <1>3, <2>1
  <2>3. ToSet(nodes') = S
    BY <2>1 DEF ToSet
  <2>4. NoHash \notin S
    BY HashIsNotNone
  <2>5. QED
    BY <2>1, <2>2, <2>3, <2>4
<1>5. TypeOK'
  <2>1. Level(0, leaf_count) \in [start : Nat, len : Nat]
    BY <1>3 DEF Level
  <2>2. QED
    BY <1>1, <1>2, <1>3, <1>4, <2>1 DEF TypeOK
<1>6. /\ Top' = Level(0, leaf_count) /\ Top'.start = 0 /\ Top'.len = leaf_count
      /\ Above(Top)' = Level(leaf_count, next_level_len(leaf_count))
  BY <1>1, <1>3 DEF Top, Level, Above
<1>7. LaidOut'
  BY <1>1, <1>3, <1>4, <1>6 DEF LaidOut, Leaf
<1>8. Growing'
  <2>1. Parents(Top, i)'
    <3>1. 0 .. i' - 1 = {}
      BY <1>1, SMT
    <3>2. QED
      BY <3>1 DEF Parents
  <2>2. QED
    BY <1>1, <1>3, <1>4, <1>6, <2>1 DEF Growing
<1>9. Complete' /\ OnTheWay'
  BY <1>1 DEF Complete, OnTheWay
<1>10. PathLinked'
  BY <1>1, <1>2, EmptyOwn DEF PathLinked
<1>11. QED
  BY <1>5, <1>7, <1>8, <1>9, <1>10 DEF Inv

LEMMA PushParentInv == Inv /\ PushParent => Inv'
<1> SUFFICES ASSUME Inv, PushParent PROVE Inv'
  OBVIOUS
<1> DEFINE first == 2 * i
           second == IF first + 1 < prev_level_len THEN first + 1 ELSE first
           parent == hash_intermediate(sorted_hashes, nodes[prev_level_start + first + 1],
                                       nodes[prev_level_start + second + 1])
           n == Len(nodes)
<1>1. /\ pc = "parents" /\ i < level_len /\ i' = i + 1
      /\ nodes' = Append(nodes, parent)
      /\ UNCHANGED <<pc, sorted_hashes, leaf_count, level_len, level_start,
                     prev_level_len, prev_level_start, index, node_index, lsib, rsib,
                     path, levels>>
  BY DEF PushParent, find_vars, Node, SecondChild
<1>2. TypeOK /\ LaidOut /\ Growing /\ PathLinked
  BY DEF Inv
<1>3. /\ sorted_hashes \in BOOLEAN
      /\ leaf_count \in Nat /\ level_len \in Nat /\ level_start \in Nat
      /\ prev_level_len \in Nat /\ prev_level_start \in Nat /\ i \in Nat
      /\ index \in Nat /\ node_index \in Nat /\ nodes \in Seq(ToSet(nodes))
      /\ \A level \in levels : level \in [start : Nat, len : Nat]
                               /\ level.start \in Nat /\ level.len \in Nat
  BY <1>2, TypesOf
<1>4. /\ nodes' \in Seq(ToSet(nodes')) /\ ToSet(nodes') = ToSet(nodes) \cup {parent}
      /\ n \in Nat /\ Len(nodes') = n + 1
      /\ \A k \in 1 .. n : nodes'[k] = nodes[k]
      /\ nodes'[n + 1] = parent
  BY <1>1, <1>3, AppendOwn
<1>5. parent # NoHash
  BY HashIsNotNone
<1>6. /\ Top \in [start : Nat, len : Nat]
      /\ Top.start = prev_level_start /\ Top.len = prev_level_len /\ Top' = Top
      /\ level_start = prev_level_start + prev_level_len
      /\ level_len = next_level_len(prev_level_len)
      /\ n = level_start + i /\ i <= level_len
      /\ ParentsIn(nodes, sorted_hashes, Top, i)
  <2>1. Top = Level(prev_level_start, prev_level_len) /\ Top' = Top
    BY <1>1 DEF Top, Level
  <2>2. /\ Level(level_start, level_len) = Above(Top)
        /\ n = level_start + i /\ i <= level_len /\ Parents(Top, i)
    BY <1>1, <1>2 DEF Growing
  <2>3. Top.start = prev_level_start /\ Top.len = prev_level_len
        /\ Top \in [start : Nat, len : Nat]
    BY <1>3, <2>1 DEF Level
  <2>4. level_start = prev_level_start + prev_level_len
        /\ level_len = next_level_len(prev_level_len)
    <3>1. Level(level_start, level_len) =
            Level(prev_level_start + prev_level_len, next_level_len(prev_level_len))
      BY <2>2, <2>3 DEF Above
    <3>2. QED
      BY <3>1 DEF Level
  <2>5. QED
    BY <2>1, <2>2, <2>3, <2>4, ParentsAreIn
<1> HIDE DEF n, parent
<1>7. TypeOK'
  <2>1. i' \in Nat
    BY <1>1, <1>3, SMT
  <2>2. QED
    BY <1>1, <1>2, <1>4, <1>5, <2>1 DEF TypeOK
<1>8. LaidOut'
  <2>1. /\ Level(0, leaf_count) \in levels /\ Top \in levels
        /\ \A k \in 1 .. leaf_count : nodes[k] = Leaf(k)
        /\ \A level \in levels :
             /\ level.start + level.len <= n
             /\ level # Top =>
                  /\ next_level_len(level.len) > 0
                  /\ Above(level) \in levels
                  /\ ParentsIn(nodes, sorted_hashes, level, next_level_len(level.len))
    BY <1>1, <1>2, ParentsAreIn DEF LaidOut, n
  <2>2. leaf_count <= n
    <3>1. Level(0, leaf_count).start = 0 /\ Level(0, leaf_count).len = leaf_count
      BY DEF Level
    <3>2. QED
      BY <1>3, <2>1, <3>1, SMT
  <2>3. \A k \in 1 .. leaf_count : nodes'[k] = Leaf(k)'
    <3>1. \A k \in 1 .. leaf_count : k \in 1 .. n
      BY <1>3, <1>4, <2>2, SMT
    <3>2. QED
      BY <1>4, <2>1, <3>1 DEF Leaf
  <2>4. ASSUME NEW level \in levels
        PROVE  /\ level.start + level.len <= n + 1
               /\ level # Top => Parents(level, next_level_len(level.len))'
    <3>1. level.start \in Nat /\ level.len \in Nat /\ level \in [start : Nat, len : Nat]
          /\ level.start + level.len <= n
      BY <1>3, <2>1
    <3>2. level.start + level.len <= n + 1
      BY <1>4, <3>1, SMT
    <3>3. ASSUME level # Top
          PROVE  Parents(level, next_level_len(level.len))'
      <4>1. /\ Above(level) \in levels
            /\ ParentsIn(nodes, sorted_hashes, level, next_level_len(level.len))
        BY <2>1, <3>3
      <4>2. level.start + level.len + next_level_len(level.len) <= n
        <5>1. /\ Above(level).start = level.start + level.len
              /\ Above(level).len = next_level_len(level.len)
          BY DEF Above, Level
        <5>2. QED
          BY <2>1, <4>1, <5>1
      <4>3. next_level_len(level.len) \in Nat
            /\ next_level_len(level.len) <= next_level_len(level.len)
        BY <3>1, NextLevelLen, SMT
      <4>4. ParentsIn(nodes', sorted_hashes, level, next_level_len(level.len))
        BY <1>4, <3>1, <4>1, <4>2, <4>3, ParentsStay
      <4>5. QED
        BY <1>1, <4>4, ParentsAreIn
    <3>4. QED
      BY <3>2, <3>3
  <2>5. QED
    BY <1>1, <1>4, <1>6, <2>1, <2>3, <2>4 DEF LaidOut, Above
<1>9. Growing'
  <2>1. ParentsIn(nodes', sorted_hashes, Top, i)
    <3>1. i <= next_level_len(Top.len) /\ Top.start + Top.len + i <= n
      BY <1>1, <1>3, <1>6, SMT
    <3>2. QED
      BY <1>3, <1>4, <1>6, <3>1, ParentsStay
  <2>2. ASSUME NEW j \in 0 .. (i + 1) - 1
        PROVE  nodes'[prev_level_start + prev_level_len + j + 1] =
                 hash_intermediate(sorted_hashes, nodes'[prev_level_start + 2 * j + 1],
                   nodes'[prev_level_start
                            + (IF 2 * j + 1 < prev_level_len THEN 2 * j + 1 ELSE 2 * j) + 1])
    <3>1. CASE j = i
      <4>1. prev_level_start + prev_level_len + j + 1 = n + 1
        BY <1>3, <1>6, <3>1, SMT
      <4>2. 2 * i < prev_level_len
        <5>1. i \in 0 .. next_level_len(prev_level_len) - 1
          BY <1>1, <1>3, <1>6, SMT
        <5>2. QED
          BY <1>3, <5>1, NextLevelLen
      <4>3. /\ prev_level_start + first + 1 \in 1 .. n
            /\ prev_level_start + second + 1 \in 1 .. n
        BY <1>3, <1>6, <4>2, SMT
      <4>4. QED
        BY <1>4, <3>1, <4>1, <4>3 DEF parent
    <3>2. CASE j # i
      <4>1. j \in 0 .. i - 1
        BY <1>3, <3>2, SMT
      <4>2. QED
        BY <1>6, <2>1, <4>1 DEF ParentsIn
    <3>3. QED
      BY <3>1, <3>2
  <2>3. ParentsIn(nodes', sorted_hashes, Top, i + 1)
    BY <1>6, <2>2 DEF ParentsIn
  <2>4. Parents(Top, i)'
    BY <1>1, <1>6, <2>3, ParentsAreIn
  <2>5. Level(level_start, level_len)' = Above(Top)'
    BY <1>1, <1>2, <1>6 DEF Growing, Level, Above
  <2>6. Len(nodes') = level_start' + i' /\ i' <= level_len'
    BY <1>1, <1>3, <1>4, <1>6, SMT
  <2>7. QED
    BY <2>4, <2>5, <2>6 DEF Growing
<1>10. Complete' /\ OnTheWay'
  BY <1>1 DEF Complete, OnTheWay
<1>11. PathLinked'
  BY <1>1, <1>2, EmptyOwn DEF PathLinked
<1>12. QED
  BY <1>7, <1>8, <1>9, <1>10, <1>11 DEF Inv

LEMMA NextLevelInv == Inv /\ NextLevel => Inv'
<1> SUFFICES ASSUME Inv, NextLevel PROVE Inv'
  OBVIOUS
<1>1. /\ pc = "parents" /\ pc' = "parents" /\ level_len > 0 /\ i = level_len /\ i' = 0
      /\ prev_level_start' = level_start /\ prev_level_len' = level_len
      /\ level_start' = level_start + level_len
      /\ level_len' = next_level_len(level_len)
      /\ levels' = levels \cup {Level(level_start, level_len)}
      /\ UNCHANGED <<sorted_hashes, leaf_count, nodes, index, node_index, lsib, rsib, path>>
  BY DEF NextLevel, find_vars
<1>2. TypeOK /\ LaidOut /\ Growing /\ PathLinked
  BY DEF Inv
<1>3. /\ leaf_count \in Nat /\ level_len \in Nat /\ level_start \in Nat
      /\ prev_level_len \in Nat /\ prev_level_start \in Nat
      /\ next_level_len(level_len) \in Nat
  BY <1>2, TypesOf, NextLevelLen
<1>4. /\ Level(level_start, level_len) = Above(Top)
      /\ Len(nodes) = level_start + level_len /\ Parents(Top, level_len)
  BY <1>1, <1>2 DEF Growing
<1>5. Top' = Above(Top) /\ Top'.start = level_start /\ Top'.len = level_len
  <2>1. Top' = Level(level_start, level_len)
    BY <1>1 DEF Top, Level
  <2>2. QED
    BY <1>4, <2>1 DEF Level
<1>6. TypeOK'
  <2>1. Level(level_start, level_len) \in [start : Nat, len : Nat]
    BY <1>3 DEF Level
  <2>2. level_start + level_len \in Nat
    BY <1>3, SMT
  <2>3. QED
    BY <1>1, <1>2, <1>3, <2>1, <2>2 DEF TypeOK
<1>7. LaidOut'
  <2>1. /\ Level(0, leaf_count) \in levels /\ Top \in levels
        /\ \A k \in 1 .. leaf_count : nodes[k] = Leaf(k)
        /\ \A level \in levels :
             /\ level.start + level.len <= Len(nodes)
             /\ level # Top =>
                  /\ next_level_len(level.len) > 0
                  /\ Above(level) \in levels
                  /\ Parents(level, next_level_len(level.len))
    BY <1>1, <1>2 DEF LaidOut
  <2>2. ASSUME NEW level \in levels', level # Top'
        PROVE  /\ next_level_len(level.len) > 0
               /\ Above(level) \in levels'
               /\ Parents(level, next_level_len(level.len))'
    <3>1. level \in levels
      BY <1>1, <1>4, <1>5, <2>2
    <3>2. CASE level = Top
      <4>1. next_level_len(Top.len) = level_len
        BY <1>4 DEF Above, Level
      <4>2. Parents(level, next_level_len(level.len))'
        <5>1. Parents(level, next_level_len(level.len))
          BY <1>4, <3>2, <4>1
        <5>2. QED
          BY <1>1, <5>1 DEF Parents, Node
      <4>3. QED
        BY <1>1, <1>4, <3>2, <4>1, <4>2
    <3>3. CASE level # Top
      <4>1. Parents(level, next_level_len(level.len))
        BY <2>1, <3>1, <3>3
      <4>2. Parents(level, next_level_len(level.len))'
        BY <1>1, <4>1 DEF Parents, Node
      <4>3. QED
        BY <1>1, <2>1, <3>1, <3>3, <4>2
    <3>4. QED
      BY <3>2, <3>3
  <2>3. ASSUME NEW level \in levels'
        PROVE  level.start + level.len <= Len(nodes')
    <3>1. CASE level \in levels
      BY <1>1, <2>1, <3>1
    <3>2. CASE level = Top'
      <4>1. level.start + level.len = Len(nodes')
        BY <1>1, <1>4, <1>5, <3>2
      <4>2. QED
        BY <1>1, <1>3, <1>4, <4>1, SMT
    <3>3. QED
      BY <1>1, <1>4, <1>5, <3>1, <3>2
  <2>4. Level(0, leaf_count)' \in levels' /\ Top' \in levels'
    BY <1>1, <1>4, <1>5, <2>1
  <2>5. QED
    BY <1>1, <2>1, <2>2, <2>3, <2>4 DEF LaidOut, Above, Leaf
<1>8. Growing'
  <2>1. Level(level_start, level_len)' = Above(Top)'
    BY <1>1, <1>5 DEF Level, Above
  <2>2. Parents(Top, i)'
    <3>1. 0 .. i' - 1 = {}
      BY <1>1, SMT
    <3>2. QED
      BY <3>1 DEF Parents
  <2>3. i' <= level_len' /\ Len(nodes') = level_start' + i'
    BY <1>1, <1>3, <1>4, SMT
  <2>4. QED
    BY <2>1, <2>2, <2>3 DEF Growing
<1>9. Complete' /\ OnTheWay'
  BY <1>1 DEF Complete, OnTheWay
<1>10. PathLinked'
  BY <1>1, <1>2, EmptyOwn DEF PathLinked
<1>11. QED
  BY <1>6, <1>7, <1>8, <1>9, <1>10 DEF Inv

(* Once the loop of new has ended nothing changes the tree.                *)
LEMMA TreeStays ==
    ASSUME pc # "leaves", pc' # "leaves", pc' # "parents", LaidOut, Complete,
           pc # "parents", UNCHANGED new_vars
    PROVE  LaidOut' /\ Growing' /\ (pc \in {"built", "climbing", "found"} => Complete')
<1>1. UNCHANGED <<sorted_hashes, leaf_count, nodes, prev_level_len, prev_level_start, i,
                  levels>>
  BY DEF new_vars
<1>2. Top' = Top
  BY <1>1 DEF Top, Level
<1>3. LaidOut'
  <2>1. ASSUME NEW level, NEW m, Parents(level, m)
        PROVE  Parents(level, m)'
    BY <1>1, <2>1 DEF Parents, Node
  <2>2. \A level \in levels :
             level # Top => Parents(level, next_level_len(level.len))'
    BY <2>1 DEF LaidOut
  <2>3. QED
    BY <1>1, <1>2, <2>2 DEF LaidOut, Above, Leaf
<1>4. Growing'
  BY DEF Growing
<1>5. QED
  BY <1>1, <1>2, <1>3, <1>4 DEF Complete

LEMMA BuiltInv == Inv /\ Built => Inv'
<1> SUFFICES ASSUME Inv, Built PROVE Inv'
  OBVIOUS
<1>1. /\ pc = "parents" /\ level_len = 0 /\ pc' = "built"
      /\ UNCHANGED <<level_len, level_start, sorted_hashes, leaf_count, nodes,
                     prev_level_len, prev_level_start, i, levels,
                     index, node_index, lsib, rsib, path>>
  BY DEF Built, new_vars, find_vars
<1>2. TypeOK /\ LaidOut /\ Growing /\ PathLinked
  BY DEF Inv
<1>3. /\ level_start \in Nat /\ prev_level_len \in Nat /\ prev_level_start \in Nat
      /\ i \in Nat
  BY <1>2, TypesOf
<1>4. Top' = Top /\ Top.start = prev_level_start /\ Top.len = prev_level_len
  BY <1>1 DEF Top, Level
<1>5. TypeOK'
  BY <1>1, <1>2 DEF TypeOK
<1>6. LaidOut'
  <2>1. \A level \in levels :
             level # Top => Parents(level, next_level_len(level.len))'
    BY <1>1, <1>2 DEF LaidOut, Parents, Node
  <2>2. QED
    BY <1>1, <1>2, <1>4, <2>1 DEF LaidOut, Above, Leaf
<1>7. Complete'
  <2>1. /\ Level(level_start, level_len) =
             Level(prev_level_start + prev_level_len, next_level_len(prev_level_len))
        /\ i <= level_len /\ Len(nodes) = level_start + i
    BY <1>1, <1>2, <1>4 DEF Growing, Above
  <2>2. level_start = prev_level_start + prev_level_len
        /\ next_level_len(prev_level_len) = 0
    BY <1>1, <2>1 DEF Level
  <2>3. Len(nodes) = prev_level_start + prev_level_len
    BY <1>1, <1>3, <2>1, <2>2, SMT
  <2>4. QED
    BY <1>1, <1>4, <2>2, <2>3 DEF Complete
<1>8. Growing' /\ OnTheWay'
  BY <1>1 DEF Growing, OnTheWay
<1>9. PathLinked'
  BY <1>1, <1>2, EmptyOwn DEF PathLinked
<1>10. QED
  BY <1>5, <1>6, <1>7, <1>8, <1>9 DEF Inv

--------------------------------------------------------------------------------
(* MerkleTree::find_path *)

LEMMA FindPathInv ==
    ASSUME Inv, NEW k \in 0 .. MaxLeaves, FindPath(k)
    PROVE  Inv'
<1>1. /\ pc = "built" /\ k < leaf_count /\ index' = k /\ node_index' = k
      /\ level_len' = leaf_count /\ level_start' = 0 /\ path' = <<>>
      /\ lsib' = NoHash /\ rsib' = NoHash /\ pc' = "climbing"
      /\ UNCHANGED <<sorted_hashes, leaf_count, nodes, prev_level_len, prev_level_start,
                     i, levels>>
      /\ UNCHANGED new_vars
  BY DEF FindPath, new_vars
<1>2. TypeOK /\ LaidOut /\ Complete
  BY DEF Inv
<1>3. leaf_count \in Nat /\ k \in Nat
  BY <1>2, TypesOf, MaxLeavesAssumption, SMT
<1>4. LaidOut' /\ Growing' /\ Complete'
  BY <1>1, <1>2, TreeStays
<1>5. TypeOK'
  BY <1>1, <1>2, <1>3, EmptyOwn DEF TypeOK
<1>6. PathLinked'
  BY <1>1, EmptyOwn DEF PathLinked
<1>7. OnTheWay'
  <2>1. Level(level_start, level_len)' \in levels'
    BY <1>1, <1>2 DEF LaidOut
  <2>2. level_len' # 0
    BY <1>1, <1>3, SMT
  <2>3. QED
    BY <1>1, <2>1, <2>2 DEF OnTheWay
<1>8. QED
  BY <1>4, <1>5, <1>6, <1>7 DEF Inv

(* The node the climb stands on is within its level and within the vector, *)
(* and the siblings taken are its own.                                     *)
LEMMA StandsOn ==
    ASSUME Inv, Climb
    PROVE  /\ Level(level_start, level_len) \in levels
           /\ node_index < level_len /\ level_start + level_len <= Len(nodes)
           /\ At(node_index) # NoHash
           /\ OneSibling(lsib, rsib)'
           /\ \A b : hash_intermediate(b, or(lsib', At(node_index)), or(rsib', At(node_index))) =
                LET j == node_index \div 2
                IN  hash_intermediate(b, Node(level_start + 2 * j),
                      Node(level_start + (IF 2 * j + 1 < level_len THEN 2 * j + 1 ELSE 2 * j)))
<1>1. pc = "climbing" /\ level_len > 0 /\ SiblingsFound
  BY DEF Climb
<1>2. TypeOK /\ LaidOut /\ OnTheWay
  BY DEF Inv
<1>3. /\ level_len \in Nat /\ level_start \in Nat /\ node_index \in Nat
      /\ nodes \in Seq(ToSet(nodes)) /\ Len(nodes) \in Nat
  BY <1>2, TypesOf
<1>4. Level(level_start, level_len) \in levels /\ node_index < level_len
  BY <1>1, <1>2 DEF OnTheWay
<1>5. level_start + level_len <= Len(nodes)
  <2>1. \A level \in levels : level.start + level.len <= Len(nodes)
    BY <1>1, <1>2 DEF LaidOut
  <2>2. QED
    BY <1>4, <2>1 DEF Level
<1>6. ASSUME NEW n \in Nat, n < level_len
      PROVE  At(n) # NoHash
  <2>1. level_start + n + 1 \in 1 .. Len(nodes)
    BY <1>3, <1>5, <1>6, SMT
  <2>2. nodes[level_start + n + 1] \in ToSet(nodes)
    BY <1>3, <2>1, ElementOfSeq
  <2>3. QED
    BY <1>2, <2>2 DEF TypeOK, At, Node
<1>7. At(node_index) # NoHash
  BY <1>3, <1>4, <1>6
<1> DEFINE j == node_index \div 2
<1>8. CASE node_index % 2 = 0
  <2> DEFINE right == IF node_index + 1 < level_len THEN node_index + 1 ELSE node_index
  <2>1. lsib' = NoHash /\ rsib' = At(right)
    BY <1>1, <1>8 DEF SiblingsFound
  <2>2. right \in Nat /\ right < level_len
    BY <1>3, <1>4, SMT
  <2>3. 2 * j = node_index
    BY <1>3, <1>8, SMT
  <2>4. rsib' # NoHash
    BY <1>6, <2>1, <2>2
  <2>5. /\ At(node_index) = Node(level_start + 2 * j)
        /\ rsib' = Node(level_start + (IF 2 * j + 1 < level_len THEN 2 * j + 1 ELSE 2 * j))
    BY <2>1, <2>3 DEF At
  <2> HIDE DEF right, j
  <2>6. or(lsib', At(node_index)) = At(node_index) /\ or(rsib', At(node_index)) = rsib'
    BY <2>1, <2>4 DEF or
  <2>7. OneSibling(lsib, rsib)'
    BY <2>1, <2>4 DEF OneSibling, NoHash
  <2>8. QED
    BY <1>4, <1>5, <1>7, <2>5, <2>6, <2>7 DEF j
<1>9. CASE node_index % 2 # 0
  <2>1. lsib' = At(node_index - 1) /\ rsib' = NoHash
    BY <1>1, <1>9 DEF SiblingsFound
  <2>2. node_index - 1 \in Nat /\ node_index - 1 < level_len
    BY <1>3, <1>4, <1>9, SMT
  <2>3. 2 * j = node_index - 1 /\ 2 * j + 1 = node_index
    BY <1>3, <1>9, SMT
  <2>4. lsib' # NoHash
    BY <1>6, <2>1, <2>2
  <2>5. /\ lsib' = Node(level_start + 2 * j)
        /\ At(node_index) =
             Node(level_start + (IF 2 * j + 1 < level_len THEN 2 * j + 1 ELSE 2 * j))
    BY <1>4, <2>1, <2>3 DEF At
  <2> HIDE DEF j
  <2>6. or(rsib', At(node_index)) = At(node_index) /\ or(lsib', At(node_index)) = lsib'
    BY <2>1, <2>4 DEF or
  <2>7. OneSibling(lsib, rsib)'
    BY <2>1, <2>4 DEF OneSibling, NoHash
  <2>8. QED
    BY <1>4, <1>5, <1>7, <2>5, <2>6, <2>7 DEF j
<1>10. QED
  BY <1>8, <1>9

LEMMA ClimbInv == Inv /\ Climb => Inv'
<1> SUFFICES ASSUME Inv, Climb PROVE Inv'
  OBVIOUS
<1> DEFINE here == At(node_index)
           entry == [target |-> here, left |-> lsib, right |-> rsib]
           first == lsib = NoHash /\ rsib = NoHash
           n == Len(path)
<1>1. /\ pc = "climbing" /\ pc' = "climbing" /\ level_len > 0
      /\ path' = IF first THEN path ELSE Append(path, entry)
      /\ node_index' = node_index \div 2
      /\ level_start' = level_start + level_len
      /\ level_len' = next_level_len(level_len)
      /\ UNCHANGED <<index, sorted_hashes, leaf_count, nodes, prev_level_len,
                     prev_level_start, i, levels>>
      /\ UNCHANGED new_vars
  BY DEF Climb, new_vars
<1>2. TypeOK /\ LaidOut /\ Complete /\ PathLinked /\ OnTheWay
  BY DEF Inv
<1>3. /\ leaf_count \in Nat /\ level_len \in Nat /\ level_start \in Nat
      /\ node_index \in Nat /\ index \in Nat
      /\ path \in Seq(ToSet(path)) /\ n \in Nat /\ DOMAIN path = 1 .. n
      /\ nodes \in Seq(ToSet(nodes)) /\ Len(nodes) \in Nat
      /\ next_level_len(level_len) \in Nat
  BY <1>2, TypesOf, NextLevelLen
<1>4. /\ Level(level_start, level_len) \in levels
      /\ node_index < level_len /\ level_start + level_len <= Len(nodes)
      /\ here # NoHash /\ OneSibling(lsib, rsib)'
  BY StandsOn
<1>5. LaidOut' /\ Growing' /\ Complete'
  BY <1>1, <1>2, TreeStays
<1>6. ~first => /\ path' \in Seq(ToSet(path')) /\ Len(path') = n + 1
                /\ DOMAIN path' = 1 .. n + 1
                /\ \A k \in 1 .. n : path'[k] = path[k]
                /\ path'[n + 1] = entry
  <2> SUFFICES ASSUME ~first
               PROVE  /\ path' \in Seq(ToSet(path')) /\ Len(path') = n + 1
                      /\ DOMAIN path' = 1 .. n + 1
                      /\ \A k \in 1 .. n : path'[k] = path[k]
                      /\ path'[n + 1] = entry
    OBVIOUS
  <2>1. path' = Append(path, entry)
    BY <1>1
  <2> HIDE DEF entry, first
  <2>2. /\ path' \in Seq(ToSet(path')) /\ Len(path') = n + 1
        /\ \A k \in 1 .. n : path'[k] = path[k]
        /\ path'[n + 1] = entry
    BY <1>3, <2>1, AppendOwn
  <2>3. DOMAIN path' = 1 .. n + 1
    BY <2>2, LenProperties
  <2>4. QED
    BY <2>2, <2>3
<1>7. TypeOK'
  <2>1. node_index' \in Nat /\ level_start' \in Nat
    BY <1>1, <1>3, SMT
  <2>2. path' \in Seq(ToSet(path'))
    BY <1>1, <1>3, <1>6
  <2>3. QED
    BY <1>1, <1>2, <1>3, <2>1, <2>2 DEF TypeOK
<1>8. first => /\ path = <<>> /\ path' = <<>> /\ node_index = index
               /\ level_start = 0 /\ level_len = leaf_count
  BY <1>1, <1>2 DEF OnTheWay
<1>9. ~first => OneSibling(lsib, rsib) /\ here = Joined(lsib, rsib, Reached)
  BY <1>1, <1>2 DEF OnTheWay
<1>10. Reached' = here
  <2>1. CASE first
    <3>1. Reached' = Leaf(index + 1)
      BY <1>1, <1>8, <2>1 DEF Reached, Leaf
    <3>2. here = nodes[index + 1]
      <4>1. level_start + node_index + 1 = index + 1
        BY <1>3, <1>8, <2>1, SMT
      <4>2. QED
        BY <4>1 DEF At, Node
    <3>3. index + 1 \in 1 .. leaf_count
      BY <1>3, <1>4, <1>8, <2>1, SMT
    <3>4. nodes[index + 1] = Leaf(index + 1)
      BY <1>1, <1>2, <3>3 DEF LaidOut
    <3>5. QED
      BY <3>1, <3>2, <3>4
  <2>2. CASE ~first
    <3>1. path' # <<>>
      BY <1>3, <1>6, <2>2, EmptyOwn, SMT
    <3>2. path'[n + 1].target = here
      BY <1>6, <2>2
    <3>3. QED
      BY <1>6, <2>2, <3>1, <3>2 DEF Reached
  <2>3. QED
    BY <2>1, <2>2
<1> HIDE DEF here, n
<1>11. PathLinked'
  <2>1. CASE first
    BY <1>1, <1>8, <2>1, EmptyOwn DEF PathLinked
  <2>2. CASE ~first
    <3>1. ASSUME NEW k \in 1 .. n
          PROVE  (/\ OneSibling(path[k].left, path[k].right)
                  /\ path[k].target = Joined(path[k].left, path[k].right,
                                             Before(Leaf(index + 1), k)))'
      <4>1. /\ OneSibling(path[k].left, path[k].right)
            /\ path[k].target =
                 Joined(path[k].left, path[k].right, Before(Leaf(index + 1), k))
        BY <1>2, <1>3, <3>1 DEF PathLinked
      <4>2. path'[k] = path[k] /\ (k # 1 => path'[k - 1] = path[k - 1])
        <5>1. k # 1 => k - 1 \in 1 .. n
          BY <1>3, SMT
        <5>2. QED
          BY <1>6, <2>2, <5>1
      <4>3. Before(Leaf(index + 1), k)' = Before(Leaf(index + 1), k)
        BY <1>1, <4>2 DEF Before, Leaf
      <4>4. QED
        BY <1>1, <4>1, <4>2, <4>3 DEF Joined, or, OneSibling, NoHash
    <3>2. ASSUME NEW k, k = n + 1
          PROVE  (/\ OneSibling(path[k].left, path[k].right)
                  /\ path[k].target = Joined(path[k].left, path[k].right,
                                             Before(Leaf(index + 1), k)))'
      <4>1. path'[k].left = lsib /\ path'[k].right = rsib /\ path'[k].target = here
        BY <1>6, <2>2, <3>2
      <4>2. Before(Leaf(index + 1), k)' = Reached
        <5>1. CASE n = 0
          <6>1. path = <<>>
            BY <1>3, <5>1, EmptySeq DEF n
          <6>2. k = 1
            BY <3>2, <5>1
          <6>3. QED
            BY <1>1, <6>1, <6>2 DEF Before, Reached, Leaf
        <5>2. CASE n # 0
          <6>1. k # 1 /\ k - 1 = n /\ n \in 1 .. n
            BY <1>3, <3>2, <5>2, SMT
          <6>2. path # <<>>
            BY <5>2, EmptyOwn DEF n
          <6>3. path'[k - 1].target = path[n].target
            BY <1>6, <2>2, <6>1
          <6>4. QED
            BY <6>1, <6>2, <6>3 DEF Before, Reached, n
        <5>3. QED
          BY <5>1, <5>2
      <4>3. QED
        BY <1>1, <1>9, <2>2, <4>1, <4>2 DEF Joined
    <3>3. \A k \in 1 .. n + 1 : k \in 1 .. n \/ k = n + 1
      BY <1>3, SMT
    <3>4. DOMAIN path' = 1 .. n + 1
      BY <1>6, <2>2
    <3>5. QED
      BY <1>1, <3>1, <3>2, <3>3, <3>4 DEF PathLinked
  <2>3. QED
    BY <2>1, <2>2
<1>12. OnTheWay'
  <2>1. index' < leaf_count'
    BY <1>1, <1>2 DEF OnTheWay
  <2>2. ASSUME level_len' > 0
        PROVE  /\ node_index' < level_len'
               /\ Level(level_start, level_len)' \in levels'
               /\ At(node_index)' = Joined(lsib, rsib, Reached)'
    <3> DEFINE level == Level(level_start, level_len)
               j == node_index \div 2
    <3>1. level.start = level_start /\ level.len = level_len
      BY DEF Level
    <3>2. level # Top
      BY <1>1, <1>2, <2>2, <3>1 DEF Complete
    <3>3. /\ Above(level) \in levels
          /\ Parents(level, next_level_len(level_len))
      BY <1>1, <1>2, <1>4, <3>1, <3>2 DEF LaidOut
    <3>4. Level(level_start, level_len)' \in levels'
      BY <1>1, <3>1, <3>3 DEF Above, Level
    <3>5. j \in Nat /\ j < next_level_len(level_len)
      <4>1. level_len > 1 /\ node_index \in 0 .. level_len - 1
        BY <1>1, <1>3, <1>4, <2>2, SMT DEF next_level_len
      <4>2. j < next_level_len(level_len)
        BY <1>3, <4>1, NextLevelLen
      <4>3. j \in Nat
        BY <1>3, SMT
      <4>4. QED
        BY <4>2, <4>3
    <3>6. Node(level_start + level_len + j) =
            hash_intermediate(sorted_hashes, Node(level_start + 2 * j),
              Node(level_start + (IF 2 * j + 1 < level_len THEN 2 * j + 1 ELSE 2 * j)))
      <4>1. j \in 0 .. next_level_len(level_len) - 1
        BY <1>3, <3>5, SMT
      <4> HIDE DEF j, level
      <4>2. QED
        BY <3>1, <3>3, <4>1 DEF Parents
    <3>7. Node(level_start + level_len + j) =
            hash_intermediate(sorted_hashes, or(lsib', here), or(rsib', here))
      BY <3>6, StandsOn DEF here
    <3>8. At(node_index)' = Node(level_start + level_len + j)
      BY <1>1 DEF At, Node
    <3>9. Joined(lsib, rsib, Reached)' =
            hash_intermediate(sorted_hashes, or(lsib', here), or(rsib', here))
      BY <1>1, <1>10 DEF Joined, or
    <3>10. node_index' < level_len'
      BY <1>1, <3>5
    <3>11. QED
      BY <3>4, <3>7, <3>8, <3>9, <3>10
  <2>3. ~(lsib' = NoHash /\ rsib' = NoHash)
    BY <1>4 DEF OneSibling
  <2>4. path' = <<>> => first /\ level_len' = next_level_len(leaf_count)
    <3>1. ~first => path' # <<>>
      BY <1>3, <1>6, EmptyOwn, SMT
    <3>2. QED
      BY <1>1, <1>8, <3>1
  <2>5. ASSUME level_len' = 0
        PROVE  Reached' = Last(nodes')
    <3> DEFINE level == Level(level_start, level_len)
    <3>1. level.start = level_start /\ level.len = level_len
      BY DEF Level
    <3>2. level_len = 1 /\ node_index = 0
      BY <1>1, <1>3, <1>4, <2>5, SMT DEF next_level_len
    <3>3. level = Top
      <4>1. level # Top => next_level_len(level.len) > 0
        BY <1>1, <1>2, <1>4 DEF LaidOut
      <4>2. ~(next_level_len(level.len) > 0)
        <5>1. next_level_len(level.len) = 0
          BY <1>1, <2>5, <3>1
        <5> HIDE DEF level
        <5>2. QED
          BY <5>1, SMT
      <4>3. QED
        BY <4>1, <4>2
    <3>4. Len(nodes) = level_start + level_len
      BY <1>1, <1>2, <3>1, <3>3 DEF Complete
    <3>5. level_start + node_index + 1 = Len(nodes)
      BY <1>3, <3>2, <3>4, SMT
    <3>6. here = Last(nodes)
      BY <3>5 DEF here, At, Node, Last
    <3>7. QED
      BY <1>1, <1>10, <3>6
  <2>6. level_len' = 0 /\ path' = <<>> => next_level_len(leaf_count') = 0
    BY <1>1, <2>4
  <2>7. QED
    BY <1>1, <1>4, <2>1, <2>2, <2>3, <2>4, <2>5, <2>6 DEF OnTheWay
<1>13. QED
  BY <1>5, <1>7, <1>11, <1>12 DEF Inv

LEMMA FoundInv == Inv /\ Found => Inv'
<1> SUFFICES ASSUME Inv, Found PROVE Inv'
  OBVIOUS
<1>1. /\ pc = "climbing" /\ level_len = 0 /\ pc' = "found"
      /\ UNCHANGED <<level_len, level_start, sorted_hashes, leaf_count, nodes,
                     prev_level_len, prev_level_start, i, levels,
                     index, node_index, lsib, rsib, path>>
      /\ UNCHANGED new_vars
  BY DEF Found, new_vars, find_vars
<1>2. TypeOK /\ LaidOut /\ Complete /\ PathLinked /\ OnTheWay
  BY DEF Inv
<1>3. LaidOut' /\ Growing' /\ Complete'
  BY <1>1, <1>2, TreeStays
<1>4. TypeOK'
  BY <1>1, <1>2 DEF TypeOK
<1>5. PathLinked'
  BY <1>1, <1>2 DEF PathLinked, Joined, Before, Leaf
<1>6. OnTheWay'
  BY <1>1, <1>2 DEF OnTheWay, Reached, Leaf
<1>7. QED
  BY <1>3, <1>4, <1>5, <1>6 DEF Inv

LEMMA StutterInv == Inv /\ UNCHANGED vars => Inv'
<1> SUFFICES ASSUME Inv, UNCHANGED vars PROVE Inv'
  OBVIOUS
<1>1. UNCHANGED <<pc, sorted_hashes, leaf_count, nodes, level_len, level_start,
                  prev_level_len, prev_level_start, i, index, node_index, lsib, rsib,
                  path, levels>>
  BY DEF vars
<1>2. TypeOK /\ LaidOut /\ Growing /\ Complete /\ PathLinked /\ OnTheWay
  BY DEF Inv
<1>3. Top' = Top
  BY <1>1 DEF Top, Level
<1>4. ASSUME NEW level, NEW m, Parents(level, m)
      PROVE  Parents(level, m)'
  BY <1>1, <1>4 DEF Parents, Node
<1>5. LaidOut'
  <2>1. pc # "leaves" => \A level \in levels :
             level # Top => Parents(level, next_level_len(level.len))'
    BY <1>2, <1>4 DEF LaidOut
  <2>2. QED
    BY <1>1, <1>2, <1>3, <2>1 DEF LaidOut, Above, Leaf
<1>6. Growing'
  <2>1. pc = "parents" => Parents(Top, i)'
    BY <1>1, <1>2 DEF Growing, Parents, Node, Top, Level
  <2>2. QED
    BY <1>1, <1>2, <1>3, <2>1 DEF Growing, Level, Above
<1>7. Complete' /\ TypeOK'
  BY <1>1, <1>2, <1>3 DEF Complete, TypeOK
<1>8. PathLinked'
  BY <1>1, <1>2 DEF PathLinked, Joined, Before, Leaf
<1>9. OnTheWay'
  BY <1>1, <1>2 DEF OnTheWay, Reached, Leaf, Joined, At, Node, Level
<1>10. QED
  BY <1>5, <1>6, <1>7, <1>8, <1>9 DEF Inv

--------------------------------------------------------------------------------
(* Theorems *)

\* In every state of every run of MerkleTree::new and find_path the vector is laid
\* out level after level, and the path so far leads from the leaf to the node the
\* climb stands on.
THEOREM TreeInvariance == Spec => []Inv
<1>1. Init => Inv
  BY InitInv
<1>2. Inv /\ [Next]_vars => Inv'
  BY PushLeavesInv, PushParentInv, NextLevelInv, BuiltInv, FindPathInv, ClimbInv,
     FoundInv, StutterInv DEF Next
<1>3. QED
  BY <1>1, <1>2, PTL DEF Spec

LEMMA InvNoPanic == Inv => NoPanic
<1> SUFFICES ASSUME Inv PROVE NoPanic
  OBVIOUS
<1>1. TypeOK /\ LaidOut /\ Growing /\ PathLinked /\ OnTheWay
  BY DEF Inv
<1>2. /\ level_len \in Nat /\ level_start \in Nat /\ prev_level_len \in Nat
      /\ prev_level_start \in Nat /\ i \in Nat
  BY <1>1, TypesOf
<1>3. pc = "parents" => Len(nodes) = level_start + i
  BY <1>1 DEF Growing
<1>4. ASSUME pc = "parents", i < level_len
      PROVE  prev_level_start + 2 * i < level_start
  <2>1. level_start = prev_level_start + prev_level_len
        /\ level_len = next_level_len(prev_level_len)
    BY <1>1, <1>4 DEF Growing, Above, Top, Level
  <2>2. i \in 0 .. next_level_len(prev_level_len) - 1
    BY <1>2, <1>4, <2>1, SMT
  <2>3. 2 * i < prev_level_len
    BY <1>2, <2>2, NextLevelLen
  <2>4. QED
    BY <1>2, <2>1, <2>3, SMT
<1>5. ASSUME pc = "climbing", level_len > 0
      PROVE  node_index < level_len /\ level_start + level_len <= Len(nodes)
  <2>1. Level(level_start, level_len) \in levels /\ node_index < level_len
    BY <1>1, <1>5 DEF OnTheWay
  <2>2. \A level \in levels : level.start + level.len <= Len(nodes)
    BY <1>1, <1>5 DEF LaidOut
  <2>3. QED
    BY <2>1, <2>2 DEF Level
<1>6. \A k \in DOMAIN path : (path[k].left = NoHash) # (path[k].right = NoHash)
  BY <1>1 DEF PathLinked, OneSibling
<1>7. QED
  BY <1>3, <1>4, <1>5, <1>6 DEF NoPanic

\* No index of the two loops is outside of the vector, the vector holds what the
\* slices expect, and every entry of a path has exactly one sibling: with any
\* number of leaves neither loop panics.
THEOREM NeverPanics == Spec => []NoPanic
  BY TreeInvariance, InvNoPanic, PTL

(* The verifier on chain goes through the targets of the entries.          *)
LEMMA ProofFollowsPath ==
    ASSUME Inv, pc = "found", sorted_hashes
    PROVE  /\ Len(get_proof) \in Nat
           /\ computed_hash(get_proof, Leaf(index + 1)) = Reached
<1> DEFINE n == Len(path)
           leaf == Leaf(index + 1)
<1>1. TypeOK /\ PathLinked
  BY DEF Inv
<1>2. path \in Seq(ToSet(path)) /\ n \in Nat /\ DOMAIN path = 1 .. n
  BY <1>1, TypesOf
<1>3. /\ DOMAIN get_proof = 1 .. n /\ Len(get_proof) = n
      /\ \A k \in 1 .. n : get_proof[k] =
           IF path[k].left # NoHash THEN path[k].left ELSE path[k].right
  <2>1. get_proof = [k \in 1 .. n |->
                       IF path[k].left # NoHash THEN path[k].left ELSE path[k].right]
    BY <1>2 DEF get_proof
  <2> DEFINE S == {get_proof[k] : k \in 1 .. n}
  <2>2. get_proof \in [1 .. n -> S]
    BY <2>1
  <2> HIDE DEF S, n
  <2>3. get_proof \in Seq(S) /\ Len(get_proof) = n
    BY <1>2, <2>2, SMT
  <2>4. QED
    BY <2>1, <2>3
<1> HIDE DEF n
<1>4. PICK f : /\ computed_hash(get_proof, leaf) = f[n]
               /\ f[0] = leaf
               /\ \A k \in 1 .. n : f[k] = Sorted(f[k - 1], get_proof[k])
  BY <1>2, <1>3, ComputedHash
<1> HIDE DEF leaf
<1> DEFINE Follows == {k \in Nat : k <= n => f[k] = Before(leaf, k + 1)}
<1>5. 0 \in Follows
  BY <1>4 DEF Before
<1>6. ASSUME NEW m \in Nat, m \in Follows
      PROVE  m + 1 \in Follows
  <2> SUFFICES ASSUME m + 1 <= n
               PROVE  f[m + 1] = Before(leaf, (m + 1) + 1)
    OBVIOUS
  <2> DEFINE k == m + 1
             l == path[k].left
             r == path[k].right
             hash == Before(leaf, k)
  <2>1. k \in 1 .. n /\ k - 1 = m /\ m <= n
    BY <1>2, SMT
  <2>2. f[m] = hash
    BY <1>6, <2>1
  <2>3. f[k] = Sorted(hash, get_proof[k])
    BY <1>4, <2>1, <2>2
  <2>4. get_proof[k] = IF l # NoHash THEN l ELSE r
    BY <1>3, <2>1
  <2>5. OneSibling(l, r) /\ path[k].target = Joined(l, r, hash)
    BY <1>1, <1>2, <2>1 DEF PathLinked, leaf
  <2>6. Before(leaf, k + 1) = path[k].target
    <3>1. k + 1 # 1 /\ (k + 1) - 1 = k
      BY SMT
    <3> HIDE DEF k
    <3>2. QED
      BY <3>1 DEF Before
  <2> HIDE DEF k, l, r, hash
  <2>7. Joined(l, r, hash) = Sorted(or(l, hash), or(r, hash))
    BY DEF Joined, hash_intermediate
  <2>8. CASE l = NoHash /\ r # NoHash
    <3>1. Joined(l, r, hash) = Sorted(hash, r)
      BY <2>7, <2>8 DEF or
    <3>2. QED
      BY <2>3, <2>4, <2>5, <2>6, <2>8, <3>1 DEF k
  <2>9. CASE l # NoHash /\ r = NoHash
    <3>1. Joined(l, r, hash) = Sorted(l, hash)
      BY <2>7, <2>9 DEF or
    <3>2. Sorted(l, hash) = Sorted(hash, l)
      BY SortedCancel
    <3>3. QED
      BY <2>3, <2>4, <2>5, <2>6, <2>9, <3>1, <3>2 DEF k
  <2>10. QED
    BY <2>5, <2>8, <2>9 DEF OneSibling
<1>7. Nat \subseteq Follows
  <2> HIDE DEF Follows
  <2>1. QED
    BY <1>5, <1>6, NatSetInduction
<1>8. f[n] = Before(leaf, n + 1)
  BY <1>2, <1>7
<1>9. Before(leaf, n + 1) = Reached
  <2>1. CASE path = <<>>
    <3>1. n = 0
      BY <2>1, EmptyOwn DEF n
    <3>2. QED
      BY <2>1, <3>1 DEF Before, Reached, leaf
  <2>2. CASE path # <<>>
    <3>1. n # 0
      BY <1>2, <2>2, EmptySeq DEF n
    <3>2. n + 1 # 1 /\ (n + 1) - 1 = n
      BY <1>2, <3>1, SMT
    <3>3. QED
      BY <2>2, <3>2 DEF Before, Reached, n
  <2>3. QED
    BY <2>1, <2>2
<1>10. QED
  BY <1>2, <1>3, <1>4, <1>8, <1>9 DEF leaf

LEMMA ProvesItsLeaf == Inv => PathProvesItsLeaf
<1> SUFFICES ASSUME Inv PROVE PathProvesItsLeaf
  OBVIOUS
<1> SUFFICES ASSUME pc = "found", sorted_hashes, NEW k \in 0 .. leaf_count
             PROVE  verify(get_proof, Last(nodes), Leaf(k)) <=> k = index + 1
  BY DEF PathProvesItsLeaf
<1>1. Reached = Last(nodes)
  BY DEF Inv, OnTheWay
<1>2. Len(get_proof) \in Nat /\ computed_hash(get_proof, Leaf(index + 1)) = Last(nodes)
  BY <1>1, ProofFollowsPath
<1>3. CASE k = index + 1
  BY <1>2, <1>3 DEF verify
<1>4. ASSUME verify(get_proof, Last(nodes), Leaf(k))
      PROVE  k = index + 1
  <2>1. computed_hash(get_proof, Leaf(k)) = computed_hash(get_proof, Leaf(index + 1))
    BY <1>2, <1>4 DEF verify
  <2>2. Leaf(k) = Leaf(index + 1)
    BY <1>2, <2>1, ComputedHashDiffers
  <2>3. QED
    BY <2>2, LeavesDiffer
<1>5. QED
  BY <1>3, <1>4

\* What get_proof makes of a path of find_path, the verifier on chain accepts for
\* the leaf at the index and rejects for every other leaf, of the tree or not: for
\* every number of leaves and every index.
THEOREM OnlyItsLeafIsProved == Spec => []PathProvesItsLeaf
  BY TreeInvariance, ProvesItsLeaf, PTL

LEMMA VerifiesItsLeaf == Inv => PathVerifiesItsLeaf
<1> SUFFICES ASSUME Inv PROVE PathVerifiesItsLeaf
  OBVIOUS
<1> SUFFICES ASSUME pc = "found", ~sorted_hashes, NEW k \in 1 .. leaf_count
             PROVE  ProofVerifies(Leaf(k)) <=> k = index + 1
  BY DEF PathVerifiesItsLeaf
<1>1. TypeOK /\ PathLinked /\ OnTheWay
  BY DEF Inv
<1>2. /\ path \in Seq(ToSet(path)) /\ Len(path) \in Nat /\ DOMAIN path = 1 .. Len(path)
      /\ leaf_count \in Nat /\ index \in Nat
  BY <1>1, TypesOf
<1>3. \A j \in DOMAIN path :
        LET hash == Before(Leaf(index + 1), j)
        IN  Unsorted(or(path[j].left, hash), or(path[j].right, hash)) = path[j].target
  <2>1. sorted_hashes = FALSE
    BY <1>1 DEF TypeOK
  <2>2. QED
    BY <1>1, <2>1 DEF PathLinked, Joined, hash_intermediate
<1>4. CASE k = index + 1
  BY <1>3, <1>4 DEF ProofVerifies
<1>5. ASSUME ProofVerifies(Leaf(k))
      PROVE  k = index + 1
  <2>1. CASE path = <<>>
    <3>1. next_level_len(leaf_count) = 0 /\ index < leaf_count
      BY <1>1, <2>1 DEF OnTheWay
    <3>2. leaf_count \in {0, 1}
      BY <1>2, <3>1, NextLevelLen
    <3>3. QED
      BY <1>2, <3>1, <3>2, SMT
  <2>2. CASE path # <<>>
    <3> DEFINE l == path[1].left
               r == path[1].right
    <3>1. 1 \in DOMAIN path
      <4>1. Len(path) # 0
        BY <1>2, <2>2, EmptySeq
      <4>2. QED
        BY <1>2, <4>1, SMT
    <3>2. Unsorted(or(l, Leaf(index + 1)), or(r, Leaf(index + 1))) = path[1].target
      BY <1>3, <3>1 DEF Before
    <3>3. Unsorted(or(l, Leaf(k)), or(r, Leaf(k))) = path[1].target
      BY <1>5, <3>1 DEF ProofVerifies, Before
    <3>4. OneSibling(l, r)
      BY <1>1, <3>1 DEF PathLinked
    <3> HIDE DEF l, r
    <3>5. or(l, Leaf(k)) = or(l, Leaf(index + 1)) /\ or(r, Leaf(k)) = or(r, Leaf(index + 1))
      BY <3>2, <3>3, UnsortedCancel
    <3>6. Leaf(k) = Leaf(index + 1)
      BY <3>4, <3>5 DEF or, OneSibling
    <3>7. QED
      BY <3>6, LeavesDiffer
  <2>3. QED
    BY <2>1, <2>2
<1>6. QED
  BY <1>4, <1>5

\* Proof::verify of the crate accepts a path of an unsorted tree for the leaf at
\* its index and for no other leaf of the tree.
THEOREM OnlyItsLeafVerifies == Spec => []PathVerifiesItsLeaf
  BY TreeInvariance, VerifiesItsLeaf, PTL

--------------------------------------------------------------------------------
(* The reference *)

LEMMA LeavesAre ==
    ASSUME TypeOK
    PROVE  /\ Len(Leaves) = leaf_count
           /\ \A k \in 1 .. leaf_count : Leaves[k] = Leaf(k)
<1>1. leaf_count \in Nat
  BY TypesOf
<1> DEFINE S == {Leaf(k) : k \in 1 .. leaf_count}
<1>2. Leaves \in [1 .. leaf_count -> S]
  BY DEF Leaves
<1> HIDE DEF S
<1>3. Len(Leaves) = leaf_count
  BY <1>1, <1>2, SMT
<1>4. QED
  BY <1>3 DEF Leaves

(* DataProofs on the levels of the reference, with the leaves of the tree. *)
LEMMA ReferenceIs ==
    ASSUME TypeOK, leaf_count > 0
    PROVE  /\ leaf_count \in Nat \ {0}
           /\ ReferenceLevel(0) = Leaves
           /\ \A h \in 1 .. leaf_count :
                ReferenceLevel(h) = ParentsOf(ReferenceLevel(h - 1), sorted_hashes)
           /\ \A h \in 0 .. leaf_count : Len(ReferenceLevel(h)) \in Nat \ {0}
           /\ ReferenceHeight \in 0 .. leaf_count
           /\ \A h \in 0 .. leaf_count :
                h < ReferenceHeight <=> Len(ReferenceLevel(h)) > 1
<1> DEFINE ref == LevelsOf(Leaves, sorted_hashes)
<1>1. leaf_count \in Nat \ {0} /\ Len(Leaves) = leaf_count
  <2>1. leaf_count \in Nat
    BY TypesOf
  <2>2. QED
    BY <2>1, LeavesAre, SMT
<1>2. Len(Leaves) \in Nat \ {0} /\ Len(Leaves) \in Nat
  BY <1>1
<1>3. /\ ref[0] = Leaves
      /\ \A h \in 1 .. leaf_count : ref[h] = ParentsOf(ref[h - 1], sorted_hashes)
  BY <1>1, <1>2, LevelsStep
<1>4. \A h \in 0 .. leaf_count : Len(ref[h]) \in Nat \ {0}
  BY <1>1, <1>2, LevelLens
<1>5. /\ Height(Leaves, sorted_hashes) \in 0 .. leaf_count
      /\ \A h \in 0 .. leaf_count :
           h < Height(Leaves, sorted_hashes) <=> Len(ref[h]) > 1
  BY <1>1, <1>2, HeightIs
<1>6. QED
  BY <1>1, <1>3, <1>4, <1>5 DEF ReferenceLevel, ReferenceHeight

\* A level of the vector that holds the level of the reference at height h.
Matches(level, h) ==
    /\ level.len = Len(ReferenceLevel(h))
    /\ \A j \in 1 .. level.len : nodes[level.start + j] = ReferenceLevel(h)[j]

LEMMA LeavesMatch ==
    ASSUME Inv, pc # "leaves", leaf_count > 0
    PROVE  /\ Level(0, leaf_count) \in levels
           /\ Matches(Level(0, leaf_count), 0)
<1>1. TypeOK /\ LaidOut
  BY DEF Inv
<1>2. /\ Len(Leaves) = leaf_count /\ ReferenceLevel(0) = Leaves
      /\ \A k \in 1 .. leaf_count : Leaves[k] = Leaf(k)
  BY <1>1, LeavesAre, ReferenceIs
<1>3. /\ Level(0, leaf_count) \in levels
      /\ \A k \in 1 .. leaf_count : nodes[k] = Leaf(k)
  BY <1>1 DEF LaidOut
<1>4. Level(0, leaf_count).start = 0 /\ Level(0, leaf_count).len = leaf_count
  BY DEF Level
<1>5. \A j \in 1 .. leaf_count : 0 + j = j
  <2>1. leaf_count \in Nat
    BY <1>1, TypesOf
  <2>2. QED
    BY <2>1, SMT
<1>6. QED
  BY <1>2, <1>3, <1>4, <1>5 DEF Matches

LEMMA AboveMatches ==
    ASSUME Inv, pc # "leaves", leaf_count > 0, NEW level \in levels, level # Top,
           NEW h \in Nat, h + 1 <= leaf_count, Matches(level, h)
    PROVE  Above(level) \in levels /\ Matches(Above(level), h + 1)
<1> DEFINE start == level.start
           len == level.len
           m == next_level_len(len)
           ref == ReferenceLevel(h)
<1>1. TypeOK /\ LaidOut
  BY DEF Inv
<1>2. start \in Nat /\ len \in Nat /\ m \in Nat
  BY <1>1, TypesOf, NextLevelLen
<1>3. m > 0 /\ Above(level) \in levels /\ Parents(level, m)
  BY <1>1 DEF LaidOut
<1>4. len > 1 /\ m = (len + 1) \div 2
  <2>1. len \notin {0, 1}
    <3>1. m # 0
      BY <1>2, <1>3, SMT
    <3>2. QED
      BY <1>2, <3>1, NextLevelLen
  <2>2. QED
    BY <1>2, <2>1, SMT DEF next_level_len
<1>5. len = Len(ref) /\ \A j \in 1 .. len : nodes[start + j] = ref[j]
  BY DEF Matches
<1>6. ReferenceLevel(h + 1) = ParentsOf(ref, sorted_hashes)
  <2>1. leaf_count \in Nat
    BY <1>1, TypesOf
  <2>2. h + 1 \in 1 .. leaf_count /\ (h + 1) - 1 = h
    BY <2>1, SMT
  <2>3. \A g \in 1 .. leaf_count :
            ReferenceLevel(g) = ParentsOf(ReferenceLevel(g - 1), sorted_hashes)
    BY <1>1, ReferenceIs
  <2>4. QED
    BY <2>2, <2>3
<1>7. Above(level).start = start + len /\ Above(level).len = m
  BY DEF Above, Level
<1> HIDE DEF ref
<1>8. Len(ReferenceLevel(h + 1)) = m
  BY <1>2, <1>4, <1>5, <1>6, ParentsLen
<1>9. ASSUME NEW k \in 1 .. m
      PROVE  nodes[start + len + k] = ReferenceLevel(h + 1)[k]
  <2> DEFINE second == IF 2 * k <= len THEN 2 * k ELSE 2 * k - 1
  <2>1. ReferenceLevel(h + 1)[k] =
          hash_intermediate(sorted_hashes, ref[2 * k - 1], ref[second])
    BY <1>4, <1>5, <1>6 DEF ParentsOf
  <2> DEFINE j == k - 1
  <2>2. ParentsIn(nodes, sorted_hashes, level, m)
    BY <1>3, ParentsAreIn
  <2>3. j \in 0 .. m - 1
    BY <1>2, SMT
  <2>4. nodes[start + len + j + 1] =
          hash_intermediate(sorted_hashes, nodes[start + 2 * j + 1],
            nodes[start + (IF 2 * j + 1 < len THEN 2 * j + 1 ELSE 2 * j) + 1])
    <3> HIDE DEF j, m
    <3>1. QED
      BY <2>2, <2>3 DEF ParentsIn
  <2> HIDE DEF m
  <2>5. /\ start + len + j + 1 = start + len + k
        /\ start + 2 * j + 1 = start + (2 * k - 1)
        /\ start + (IF 2 * j + 1 < len THEN 2 * j + 1 ELSE 2 * j) + 1 = start + second
        /\ 2 * k - 1 \in 1 .. len /\ second \in 1 .. len
    BY <1>2, <1>4, SMT
  <2> HIDE DEF j, second, start, len
  <2>6. nodes[start + (2 * k - 1)] = ref[2 * k - 1] /\ nodes[start + second] = ref[second]
    BY <1>5, <2>5
  <2>7. QED
    BY <2>1, <2>4, <2>5, <2>6
<1>10. QED
  BY <1>3, <1>7, <1>8, <1>9 DEF Matches

(* A level of one node is the last one, and its node the last of the       *)
(* vector.                                                                 *)
LEMMA LastIsRoot ==
    ASSUME Inv, pc \in {"built", "climbing", "found"}, leaf_count > 0
    PROVE  Last(nodes) = RootOf(Leaves, sorted_hashes)
<1> DEFINE height == ReferenceHeight
           AtHeight(h) == \E level \in levels : Matches(level, h)
           Upto == {h \in Nat : h <= height => AtHeight(h)}
<1>1. TypeOK /\ LaidOut /\ Complete /\ pc # "leaves"
  BY DEF Inv
<1>2. /\ leaf_count \in Nat \ {0} /\ height \in 0 .. leaf_count
      /\ \A h \in 0 .. leaf_count : Len(ReferenceLevel(h)) \in Nat \ {0}
      /\ \A h \in 0 .. leaf_count : h < height <=> Len(ReferenceLevel(h)) > 1
  BY <1>1, ReferenceIs
<1>3. ASSUME NEW level \in levels, NEW h \in 0 .. leaf_count, Matches(level, h)
      PROVE  level = Top <=> ~(h < height)
  <2>1. level.len = Len(ReferenceLevel(h)) /\ level.len \in Nat \ {0}
    BY <1>2, <1>3 DEF Matches
  <2>2. level = Top <=> next_level_len(level.len) = 0
    <3>1. level # Top => next_level_len(level.len) > 0
      BY <1>1 DEF LaidOut
    <3>2. next_level_len(Top.len) = 0
      BY <1>1 DEF Complete
    <3>3. ~(0 > 0)
      BY SMT
    <3>4. QED
      BY <3>1, <3>2, <3>3
  <2>3. next_level_len(level.len) = 0 <=> level.len \in {0, 1}
    BY <2>1, NextLevelLen
  <2>4. \A n \in Nat : n \in {0, 1} <=> ~(n > 1)
    BY SMT
  <2>5. level.len \in {0, 1} <=> ~(level.len > 1)
    BY <2>1, <2>4
  <2>6. QED
    BY <1>2, <2>1, <2>2, <2>3, <2>5
<1> HIDE DEF height
<1>4. 0 \in Upto
  BY LeavesMatch, <1>1
<1>5. ASSUME NEW h \in Nat, h \in Upto
      PROVE  h + 1 \in Upto
  <2> SUFFICES ASSUME h + 1 <= height
               PROVE  AtHeight(h + 1)
    OBVIOUS
  <2>1. h <= height /\ h < height /\ h \in 0 .. leaf_count /\ h + 1 <= leaf_count
    BY <1>2, SMT
  <2>2. PICK level \in levels : Matches(level, h)
    BY <1>5, <2>1
  <2>3. level # Top
    BY <1>3, <2>1, <2>2
  <2>4. Above(level) \in levels /\ Matches(Above(level), h + 1)
    BY <1>1, <2>1, <2>2, <2>3, AboveMatches
  <2>5. QED
    BY <2>4
<1>6. Nat \subseteq Upto
  <2> HIDE DEF Upto
  <2>1. QED
    BY <1>4, <1>5, NatSetInduction
<1>7. PICK level \in levels : Matches(level, height)
  <2>1. height \in Nat /\ height <= height
    BY <1>2, SMT
  <2>2. QED
    BY <1>6, <2>1
<1>8. level = Top /\ ~(height < height)
  <2>1. ~(height < height)
    BY <1>2, SMT
  <2>2. QED
    BY <1>2, <1>3, <1>7, <2>1
<1>9. level.len = 1 /\ nodes[level.start + 1] = ReferenceLevel(height)[1]
  <2>1. level.len = Len(ReferenceLevel(height))
        /\ \A j \in 1 .. level.len : nodes[level.start + j] = ReferenceLevel(height)[j]
    BY <1>7 DEF Matches
  <2>2. Len(ReferenceLevel(height)) \in Nat \ {0} /\ ~(Len(ReferenceLevel(height)) > 1)
    BY <1>2, <1>8
  <2>3. \A n \in Nat \ {0} : n > 1 \/ n = 1
    BY SMT
  <2>4. level.len = 1
    BY <2>1, <2>2, <2>3
  <2>5. 1 \in 1 .. 1
    BY SMT
  <2>6. QED
    BY <2>1, <2>4, <2>5
<1>10. Len(nodes) = level.start + 1
  BY <1>1, <1>8, <1>9 DEF Complete
<1>11. Last(nodes) = nodes[Len(nodes)]
  BY DEF Last
<1>12. RootOf(Leaves, sorted_hashes) = ReferenceLevel(height)[1]
  BY DEF RootOf, ReferenceLevel, ReferenceHeight, height
<1>13. QED
  BY <1>9, <1>10, <1>11, <1>12

(* Without a path there is nothing to compare.                             *)
LEMMA NoPathFollows ==
    ASSUME pc \notin {"climbing", "found"}, path = <<>>
    PROVE  FollowsReference
BY EmptyOwn DEF FollowsReference, PathIsReference, ClimbIsReference

LEMMA FindPathFollows ==
    ASSUME Inv, NEW k \in 0 .. MaxLeaves, FindPath(k)
    PROVE  FollowsReference'
<1>1. /\ pc = "built" /\ pc' = "climbing" /\ k < leaf_count /\ index' = k
      /\ node_index' = k /\ level_len' = leaf_count /\ level_start' = 0
      /\ path' = <<>> /\ lsib' = NoHash /\ rsib' = NoHash
      /\ UNCHANGED <<sorted_hashes, leaf_count, nodes>>
  BY DEF FindPath, new_vars
<1>2. TypeOK /\ k \in Nat
  BY SMT DEF Inv
<1>3. leaf_count \in Nat /\ leaf_count > 0
  <2>1. leaf_count \in Nat
    BY <1>2, TypesOf
  <2>2. QED
    BY <1>1, <1>2, <2>1, SMT
<1>4. /\ Matches(Level(0, leaf_count), 0) /\ ReferenceHeight \in 0 .. leaf_count
  BY <1>1, <1>2, <1>3, LeavesMatch, ReferenceIs
<1>5. /\ leaf_count = Len(ReferenceLevel(0))
      /\ \A j \in 1 .. leaf_count : nodes[0 + j] = ReferenceLevel(0)[j]
  BY <1>4 DEF Matches, Level
<1>6. PathOf(k, leaf_count)[0] = k
  BY <1>2, <1>3, PathStep
<1>7. climbed' = 0 /\ ReferenceLevel(0)' = ReferenceLevel(0)
      /\ ReferenceHeight' = ReferenceHeight
  BY <1>1 DEF climbed, ReferenceLevel, ReferenceHeight, Leaves
<1>8. 0 <= ReferenceHeight /\ ~(0 > 0) /\ leaf_count # 0
  BY <1>3, <1>4, SMT
<1>9. ClimbIsReference'
  BY <1>1, <1>5, <1>6, <1>7, <1>8 DEF ClimbIsReference
<1>10. PathIsReference'
  BY <1>1, EmptyOwn DEF PathIsReference
<1>11. QED
  BY <1>1, <1>9, <1>10 DEF FollowsReference

LEMMA ClimbFollows ==
    ASSUME Inv, FollowsReference, Climb
    PROVE  FollowsReference'
<1> DEFINE here == At(node_index)
           entry == [target |-> here, left |-> lsib, right |-> rsib]
           first == lsib = NoHash /\ rsib = NoHash
           n == Len(path)
           c == climbed
           level == Level(level_start, level_len)
           position == PathOf(index, leaf_count)
<1>1. /\ pc = "climbing" /\ pc' = "climbing" /\ level_len > 0
      /\ path' = IF first THEN path ELSE Append(path, entry)
      /\ node_index' = node_index \div 2
      /\ level_start' = level_start + level_len
      /\ level_len' = next_level_len(level_len)
      /\ SiblingsFound
      /\ UNCHANGED <<index, sorted_hashes, leaf_count, nodes>>
  BY DEF Climb, new_vars
<1>2. TypeOK /\ LaidOut /\ Complete /\ OnTheWay
  BY DEF Inv
<1>3. /\ leaf_count \in Nat /\ level_len \in Nat /\ level_start \in Nat
      /\ node_index \in Nat /\ index \in Nat
      /\ path \in Seq(ToSet(path)) /\ n \in Nat /\ DOMAIN path = 1 .. n
  BY <1>2, TypesOf
<1>4. level \in levels /\ node_index < level_len /\ OneSibling(lsib, rsib)'
  BY StandsOn
<1>5. leaf_count > 0 /\ index < leaf_count
  <2>1. index < leaf_count
    BY <1>1, <1>2 DEF OnTheWay
  <2>2. QED
    BY <1>3, <2>1, SMT
<1>6. /\ \A h \in 0 .. leaf_count : Len(ReferenceLevel(h)) \in Nat \ {0}
      /\ ReferenceHeight \in 0 .. leaf_count
      /\ \A h \in 0 .. leaf_count : h < ReferenceHeight <=> Len(ReferenceLevel(h)) > 1
  BY <1>2, <1>5, ReferenceIs
<1>7. /\ node_index = position[c]
      /\ c <= ReferenceHeight
      /\ level_len = Len(ReferenceLevel(c))
      /\ \A j \in 1 .. level_len : nodes[level_start + j] = ReferenceLevel(c)[j]
      /\ c > 0 => SiblingOf(lsib, rsib) = ReferenceSibling(c - 1)
  BY <1>1 DEF FollowsReference, ClimbIsReference
<1>8. /\ c \in Nat
      /\ IF first THEN c = 0 ELSE c = n + 1 /\ c > 0 /\ c - 1 = n
  BY <1>3, SMT DEF climbed
<1>9. /\ IF first THEN path' = <<>> /\ path = <<>>
         ELSE /\ DOMAIN path' = 1 .. n + 1
              /\ \A k \in 1 .. n : path'[k] = path[k]
              /\ path'[n + 1] = entry
      /\ Len(path') = c
  <2>1. CASE first
    <3>1. path = <<>>
      BY <1>1, <1>2, <2>1 DEF OnTheWay
    <3>2. QED
      BY <1>1, <1>8, <2>1, <3>1, EmptyOwn
  <2>2. CASE ~first
    <3> HIDE DEF entry, first
    <3>1. path' = Append(path, entry)
      BY <1>1, <2>2
    <3>2. /\ path' \in Seq(ToSet(path')) /\ Len(path') = n + 1
          /\ \A k \in 1 .. n : path'[k] = path[k]
          /\ path'[n + 1] = entry
      BY <1>3, <3>1, AppendOwn
    <3>3. DOMAIN path' = 1 .. n + 1
      BY <3>2, LenProperties
    <3>4. QED
      BY <1>8, <2>2, <3>2, <3>3
  <2>3. QED
    BY <2>1, <2>2
<1>10. climbed' = c + 1
  BY <1>4, <1>9 DEF climbed, OneSibling
<1>11. /\ \A h : ReferenceLevel(h)' = ReferenceLevel(h)
       /\ \A h : ReferenceSibling(h)' = ReferenceSibling(h)
       /\ ReferenceHeight' = ReferenceHeight
  BY <1>1 DEF ReferenceLevel, ReferenceSibling, ReferenceHeight, Leaves
<1>12. SiblingOf(lsib', rsib') = ReferenceSibling(c)
  <2> DEFINE p == node_index
             other == IF p % 2 = 1 THEN p - 1
                      ELSE IF p + 1 < level_len THEN p + 1 ELSE p
  <2>1. ReferenceSibling(c) = ReferenceLevel(c)[1 + other]
    BY <1>7 DEF ReferenceSibling, SiblingAt
  <2>2. other \in Nat /\ 1 + other \in 1 .. level_len
        /\ level_start + other + 1 = level_start + (1 + other)
    BY <1>3, <1>4, SMT
  <2>3. p % 2 = 0 \/ p % 2 = 1
    BY <1>3, SMT
  <2>4. SiblingOf(lsib', rsib') = At(other)
    <3>1. CASE p % 2 = 0
      <4>1. lsib' = NoHash /\ rsib' = At(other)
        BY <1>1, <3>1 DEF SiblingsFound
      <4> HIDE DEF other
      <4>2. QED
        BY <4>1 DEF SiblingOf
    <3>2. CASE p % 2 = 1
      <4>1. lsib' = At(other) /\ rsib' = NoHash
        BY <1>1, <3>2 DEF SiblingsFound
      <4>2. lsib' # NoHash
        BY <1>4, <4>1 DEF OneSibling
      <4> HIDE DEF other
      <4>3. QED
        BY <4>1, <4>2 DEF SiblingOf
    <3>3. QED
      BY <2>3, <3>1, <3>2
  <2> HIDE DEF other
  <2>5. At(other) = ReferenceLevel(c)[1 + other]
    BY <1>7, <2>2 DEF At, Node
  <2>6. QED
    BY <2>1, <2>4, <2>5
<1>13. PathIsReference'
  <2>1. CASE first
    BY <1>9, <2>1, EmptyOwn DEF PathIsReference
  <2>2. CASE ~first
    <3>1. \A k \in 1 .. n : SiblingOf(path[k].left, path[k].right) = ReferenceSibling(k - 1)
      BY <1>3 DEF FollowsReference, PathIsReference
    <3>2. SiblingOf(entry.left, entry.right) = ReferenceSibling(n)
      BY <1>7, <1>8, <2>2
    <3>3. \A k \in 1 .. n + 1 : k \in 1 .. n \/ (k = n + 1 /\ k - 1 = n)
      BY <1>3, SMT
    <3> HIDE DEF entry, first, n
    <3>4. ASSUME NEW k \in 1 .. n + 1
          PROVE  SiblingOf(path'[k].left, path'[k].right) = ReferenceSibling(k - 1)
      BY <1>9, <2>2, <3>1, <3>2, <3>3
    <3>5. DOMAIN path' = 1 .. n + 1
      BY <1>9, <2>2
    <3>6. QED
      BY <1>11, <3>4, <3>5 DEF PathIsReference
  <2>3. QED
    BY <2>1, <2>2
<1> HIDE DEF c, level, position
<1>14. (level_len > 1 <=> c < ReferenceHeight) /\ c \in 0 .. leaf_count
  <2>1. c \in 0 .. leaf_count
    BY <1>3, <1>6, <1>7, <1>8, SMT
  <2>2. QED
    BY <1>6, <1>7, <2>1
<1>15. /\ next_level_len(level_len) \in Nat
       /\ next_level_len(level_len) = 0 <=> ~(level_len > 1)
  <2>1. level_len \in {0, 1} <=> ~(level_len > 1)
    BY <1>3, SMT
  <2>2. QED
    BY <1>3, <2>1, NextLevelLen
<1>16. ASSUME level_len' > 0
       PROVE  /\ node_index' = position[c + 1]
              /\ c + 1 <= ReferenceHeight
              /\ level_len' = Len(ReferenceLevel(c + 1))
              /\ \A j \in 1 .. level_len' :
                   nodes'[level_start' + j] = ReferenceLevel(c + 1)[j]
  <2>1. c < ReferenceHeight
    <3>1. next_level_len(level_len) # 0
      BY <1>1, <1>15, <1>16, SMT
    <3>2. QED
      BY <1>14, <1>15, <3>1
  <2>2. c + 1 <= ReferenceHeight /\ c + 1 <= leaf_count /\ c + 1 \in 1 .. leaf_count
        /\ (c + 1) - 1 = c
    BY <1>3, <1>6, <1>8, <2>1, SMT
  <2>3. node_index' = position[c + 1]
    <3>1. \A h \in 1 .. leaf_count : position[h] = position[h - 1] \div 2
      BY <1>3, PathStep DEF position
    <3>2. QED
      BY <1>1, <1>7, <2>2, <3>1
  <2>4. level.start = level_start /\ level.len = level_len
    BY DEF level, Level
  <2>5. level # Top
    <3>1. next_level_len(Top.len) = 0
      BY <1>1, <1>2 DEF Complete
    <3>2. next_level_len(level.len) # 0
      BY <1>14, <1>15, <2>1, <2>4
    <3>3. QED
      BY <3>1, <3>2
  <2>6. Matches(level, c)
    BY <1>7, <2>4 DEF Matches
  <2>7. Matches(Above(level), c + 1)
    BY <1>1, <1>4, <1>5, <1>8, <2>2, <2>5, <2>6, AboveMatches
  <2>8. Above(level).start = level_start' /\ Above(level).len = level_len'
    BY <1>1, <2>4 DEF Above, Level
  <2>9. QED
    BY <1>1, <2>2, <2>3, <2>7, <2>8 DEF Matches
<1>17. level_len' = 0 => c + 1 = ReferenceHeight + 1
  <2>1. level_len' = 0 => ~(c < ReferenceHeight)
    BY <1>1, <1>14, <1>15
  <2>2. QED
    BY <1>6, <1>7, <1>8, <2>1, SMT
<1>18. (c + 1) - 1 = c
  BY <1>8, SMT
<1>19. ClimbIsReference'
  BY <1>1, <1>10, <1>11, <1>12, <1>16, <1>17, <1>18 DEF ClimbIsReference, position
<1>20. QED
  BY <1>1, <1>13, <1>19 DEF FollowsReference

LEMMA FoundFollows ==
    ASSUME Inv, FollowsReference, Found
    PROVE  FollowsReference'
<1>1. /\ pc = "climbing" /\ level_len = 0 /\ pc' = "found"
      /\ UNCHANGED <<sorted_hashes, leaf_count, nodes, index, lsib, rsib, path>>
  BY DEF Found, new_vars, find_vars
<1>2. TypeOK /\ OnTheWay
  BY DEF Inv
<1>3. leaf_count \in Nat /\ leaf_count > 0 /\ Len(path) \in Nat
  <2>1. index < leaf_count
    BY <1>1, <1>2 DEF OnTheWay
  <2>2. leaf_count \in Nat /\ index \in Nat /\ Len(path) \in Nat
    BY <1>2, TypesOf
  <2>3. QED
    BY <2>1, <2>2, SMT
<1>4. ReferenceHeight \in Nat
  <2>1. ReferenceHeight \in 0 .. leaf_count
    BY <1>2, <1>3, ReferenceIs
  <2>2. QED
    BY <1>3, <2>1, SMT
<1>5. climbed = ReferenceHeight + 1 /\ PathIsReference
  BY <1>1 DEF FollowsReference, ClimbIsReference
<1>6. Len(path) = ReferenceHeight
  BY <1>3, <1>4, <1>5, SMT DEF climbed
<1>7. PathIsReference'
  BY <1>1, <1>5 DEF PathIsReference, ReferenceSibling, ReferenceLevel, Leaves
<1>8. Len(path)' = ReferenceHeight'
  BY <1>1, <1>6 DEF ReferenceHeight, Leaves
<1>9. QED
  BY <1>1, <1>7, <1>8 DEF FollowsReference, ClimbIsReference

LEMMA FollowsStep == Inv /\ FollowsReference /\ [Next]_vars => FollowsReference'
<1> SUFFICES ASSUME Inv, FollowsReference, [Next]_vars
             PROVE  FollowsReference'
  OBVIOUS
<1>1. pc \notin {"climbing", "found"} => path = <<>>
  BY DEF Inv, PathLinked
<1>2. CASE PushLeaves \/ PushParent \/ NextLevel \/ Built
  <2>1. pc' \notin {"climbing", "found"} /\ path' = <<>>
    BY <1>1, <1>2 DEF PushLeaves, PushParent, NextLevel, Built, find_vars
  <2>2. QED
    BY <2>1, EmptyOwn DEF FollowsReference, PathIsReference, ClimbIsReference
<1>3. CASE \E k \in 0 .. MaxLeaves : FindPath(k)
  BY <1>3, FindPathFollows
<1>4. CASE Climb
  BY <1>4, ClimbFollows
<1>5. CASE Found
  BY <1>5, FoundFollows
<1>6. CASE UNCHANGED vars
  BY <1>6 DEF vars, FollowsReference, PathIsReference, ClimbIsReference, climbed,
     ReferenceSibling, ReferenceLevel, ReferenceHeight, Leaves
<1>7. QED
  BY <1>2, <1>3, <1>4, <1>5, <1>6 DEF Next

LEMMA FollowsIsMatch == Inv /\ FollowsReference => LoopsMatchReference
<1> SUFFICES ASSUME Inv, FollowsReference
             PROVE  LoopsMatchReference
  OBVIOUS
<1>1. pc = "built" /\ leaf_count > 0 => Last(nodes) = RootOf(Leaves, sorted_hashes)
  BY LastIsRoot
<1>2. ASSUME pc = "found"
      PROVE  get_proof = ProofOf(Leaves, sorted_hashes, index)
  <2>1. TypeOK
    BY DEF Inv
  <2>2. path \in Seq(ToSet(path)) /\ DOMAIN path = 1 .. Len(path)
    BY <2>1, TypesOf
  <2>3. Len(path) = ReferenceHeight /\ PathIsReference
    BY <1>2 DEF FollowsReference
  <2>4. get_proof = [k \in 1 .. ReferenceHeight |-> SiblingOf(path[k].left, path[k].right)]
    BY <2>2, <2>3 DEF get_proof, SiblingOf
  <2>5. get_proof = [k \in 1 .. ReferenceHeight |-> ReferenceSibling(k - 1)]
    BY <2>2, <2>3, <2>4 DEF PathIsReference
  <2>6. leaf_count = Len(Leaves)
    BY <2>1, LeavesAre
  <2>7. QED
    BY <2>5, <2>6 DEF ProofOf, ReferenceSibling, ReferenceLevel, ReferenceHeight
<1>3. QED
  BY <1>1, <1>2 DEF LoopsMatchReference

\* The vector that MerkleTree::new fills ends with the root of the tree defined by
\* recursion over its height, and find_path with get_proof gives the siblings on the
\* way to it: for every number of leaves and every index.
THEOREM LoopsAreTheReference == Spec => []LoopsMatchReference
<1>1. Init => FollowsReference
  <2>1. Init => pc \notin {"climbing", "found"} /\ path = <<>>
    BY DEF Init
  <2>2. QED
    BY <2>1, NoPathFollows
<1>2. Spec => [](Inv /\ FollowsReference)
  BY <1>1, TreeInvariance, FollowsStep, PTL DEF Spec
<1>3. QED
  BY <1>2, FollowsIsMatch, PTL
================================================================================
