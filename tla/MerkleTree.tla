------------------------------- MODULE MerkleTree -------------------------------
(***************************************************************************)
(* MerkleTree::new and MerkleTree::find_path: the loops that lay out a     *)
(* tree level after level in one vector and that climb it again. One       *)
(* action per loop body; positions in the vector count from 0.             *)
(***************************************************************************)
EXTENDS MerkleHash

CONSTANT
    MaxLeaves  \* bound: leaves of a tree

ASSUME MaxLeavesAssumption == MaxLeaves \in Nat

VARIABLES
    pc,             \* "leaves", "parents", "built", "climbing" or "found"
    sorted_hashes,  \* the argument of new
    leaf_count, nodes,                       \* the MerkleTree
    level_len, level_start,                  \* both loops
    prev_level_len, prev_level_start, i,     \* new
    index, node_index, lsib, rsib, path,     \* find_path
    \* History, read by no guard:
    levels          \* the levels that are complete

vars == <<pc, sorted_hashes, leaf_count, nodes, level_len, level_start,
          prev_level_len, prev_level_start, i, index, node_index, lsib, rsib, path,
          levels>>
new_vars == <<sorted_hashes, leaf_count, nodes, prev_level_len, prev_level_start, i,
              levels>>
find_vars == <<index, node_index, lsib, rsib, path>>

\* None; every hash is another record.
NoHash == [none |-> TRUE]

Level(start, len) == [start |-> start, len |-> len]

Node(position) == nodes[position + 1]

\* The items of a tree, all different.
Leaf(k) == hash_leaf([item |-> k])
Leaves == [k \in 1 .. leaf_count |-> Leaf(k)]

OneTooMany(len) == IF len = 1 THEN 0 ELSE (len + 2) \div 2
next_level_len(len) == IF len = 1 THEN 0 ELSE (len + 1) \div 2

Init ==
    /\ pc = "leaves"
    /\ sorted_hashes \in BOOLEAN
    /\ leaf_count \in 0 .. MaxLeaves
    /\ nodes = <<>>
    /\ level_len = 0 /\ level_start = 0
    /\ prev_level_len = 0 /\ prev_level_start = 0
    /\ i = 0
    /\ index = 0 /\ node_index = 0
    /\ lsib = NoHash /\ rsib = NoHash
    /\ path = <<>>
    /\ levels = {}

--------------------------------------------------------------------------------
(* MerkleTree::new *)

FirstLevelStart == leaf_count

PushLeaves ==
    /\ pc = "leaves"
    /\ nodes' = Leaves
    /\ level_len' = next_level_len(leaf_count)
    /\ level_start' = FirstLevelStart
    /\ prev_level_len' = leaf_count
    /\ prev_level_start' = 0
    /\ i' = 0
    /\ pc' = "parents"
    /\ levels' = {Level(0, leaf_count)}
    /\ UNCHANGED <<sorted_hashes, leaf_count, find_vars>>

\* The second child of a parent, or the first one again.
LonelyWithZero(first) == IF first + 1 < prev_level_len THEN first + 1 ELSE 0
SecondChild(first) == IF first + 1 < prev_level_len THEN first + 1 ELSE first

PushParent ==
    LET first == 2 * i
    IN  /\ pc = "parents"
        /\ i < level_len
        /\ nodes' = Append(nodes, hash_intermediate(sorted_hashes,
                              Node(prev_level_start + first),
                              Node(prev_level_start + SecondChild(first))))
        /\ i' = i + 1
        /\ UNCHANGED <<pc, sorted_hashes, leaf_count, level_len, level_start,
                       prev_level_len, prev_level_start, find_vars, levels>>

NextLevel ==
    /\ pc = "parents"
    /\ level_len > 0
    /\ i = level_len
    /\ prev_level_start' = level_start
    /\ prev_level_len' = level_len
    /\ level_start' = level_start + level_len
    /\ level_len' = next_level_len(level_len)
    /\ i' = 0
    /\ levels' = levels \cup {Level(level_start, level_len)}
    /\ UNCHANGED <<pc, sorted_hashes, leaf_count, nodes, find_vars>>

Built ==
    /\ pc = "parents"
    /\ level_len = 0
    /\ pc' = "built"
    /\ UNCHANGED <<level_len, level_start, new_vars, find_vars>>

--------------------------------------------------------------------------------
(* MerkleTree::find_path *)

\* For an index that is not a leaf's find_path returns None and nothing else.
FindPath(k) ==
    /\ pc = "built"
    /\ k < leaf_count
    /\ index' = k
    /\ node_index' = k
    /\ level_len' = leaf_count
    /\ level_start' = 0
    /\ path' = <<>>
    /\ lsib' = NoHash /\ rsib' = NoHash
    /\ pc' = "climbing"
    /\ UNCHANGED new_vars

At(position) == Node(level_start + position)

LonelyHasNone ==
    /\ lsib' = IF node_index % 2 = 1 THEN At(node_index - 1) ELSE NoHash
    /\ rsib' = IF node_index % 2 = 0 /\ node_index + 1 < level_len
               THEN At(node_index + 1) ELSE NoHash

SidesSwapped ==
    IF node_index % 2 = 0
    THEN /\ rsib' = NoHash
         /\ lsib' = At(IF node_index + 1 < level_len THEN node_index + 1 ELSE node_index)
    ELSE /\ rsib' = At(node_index - 1)
         /\ lsib' = NoHash

SiblingsFound ==
    IF node_index % 2 = 0
    THEN /\ lsib' = NoHash
         /\ rsib' = At(IF node_index + 1 < level_len THEN node_index + 1 ELSE node_index)
    ELSE /\ lsib' = At(node_index - 1)
         /\ rsib' = NoHash

Climb ==
    /\ pc = "climbing"
    /\ level_len > 0
    /\ path' = IF lsib # NoHash \/ rsib # NoHash
               THEN Append(path, [target |-> At(node_index), left |-> lsib, right |-> rsib])
               ELSE path
    /\ SiblingsFound
    /\ node_index' = node_index \div 2
    /\ level_start' = level_start + level_len
    /\ level_len' = next_level_len(level_len)
    /\ UNCHANGED <<pc, index, new_vars>>

Found ==
    /\ pc = "climbing"
    /\ level_len = 0
    /\ pc' = "found"
    /\ UNCHANGED <<level_len, level_start, new_vars, find_vars>>

Next ==
    \/ PushLeaves \/ PushParent \/ NextLevel \/ Built
    \/ \E k \in 0 .. MaxLeaves : FindPath(k)
    \/ Climb \/ Found

Spec == Init /\ [][Next]_vars

--------------------------------------------------------------------------------
(* What is made of a path *)

\* Proof::verify: with one sibling missing the hash so far takes its side, and
\* every step must arrive at the target of its entry.
or(sibling, hash) == IF sibling = NoHash THEN hash ELSE sibling
Before(candidate, k) == IF k = 1 THEN candidate ELSE path[k - 1].target

ProofVerifies(candidate) == \A k \in DOMAIN path :
    Unsorted(or(path[k].left, Before(candidate, k)), or(path[k].right, Before(candidate, k)))
        = path[k].target

\* get_proof: the sibling of each entry.
get_proof ==
    [k \in DOMAIN path |-> IF path[k].left # NoHash THEN path[k].left ELSE path[k].right]

--------------------------------------------------------------------------------
(* Properties *)

\* The vector holds exactly the levels before level_start and i nodes of the
\* present one, no index of the loops is outside of it, and every entry of a path
\* has exactly one sibling: neither a slice nor the assertion of ProofEntry::new
\* panics.
NoPanic ==
    /\ pc = "parents" => Len(nodes) = level_start + i
    /\ pc = "parents" /\ i < level_len =>
         prev_level_start + 2 * i < level_start
    /\ pc = "climbing" /\ level_len > 0 =>
         /\ node_index < level_len
         /\ level_start + level_len <= Len(nodes)
    /\ \A k \in DOMAIN path : (path[k].left = NoHash) # (path[k].right = NoHash)

\* The loops build the tree of the reference: get_root is its root, and a path
\* has the siblings of the reference.
LoopsMatchReference ==
    /\ pc = "built" /\ leaf_count > 0 => Last(nodes) = RootOf(Leaves, sorted_hashes)
    /\ pc = "found" => get_proof = ProofOf(Leaves, sorted_hashes, index)

\* The verifier on chain accepts the proof made from a path of a sorted tree
\* for its leaf and for no other leaf, neither one of the tree nor one that is
\* not in it, such as Leaf(0).
PathProvesItsLeaf == pc = "found" /\ sorted_hashes =>
    \A k \in 0 .. leaf_count : verify(get_proof, Last(nodes), Leaf(k)) <=> k = index + 1

\* Proof::verify accepts a path of an unsorted tree for its leaf and, once the
\* tree has two leaves, for no other: with one leaf the path is empty and
\* nothing is compared.
PathVerifiesItsLeaf == pc = "found" /\ ~sorted_hashes =>
    \A k \in 1 .. leaf_count : ProofVerifies(Leaf(k)) <=> k = index + 1

--------------------------------------------------------------------------------
(* The inductive invariant behind the safety properties *)

TypeOK ==
    /\ pc \in {"leaves", "parents", "built", "climbing", "found"}
    /\ sorted_hashes \in BOOLEAN
    /\ {leaf_count, level_len, level_start, prev_level_len, prev_level_start, i,
        index, node_index} \subseteq Nat
    /\ nodes \in Seq(ToSet(nodes)) /\ NoHash \notin ToSet(nodes)
    /\ path \in Seq(ToSet(path))
    /\ levels \subseteq [start : Nat, len : Nat]

\* The first m nodes above a level are the hashes of their children in it.
Parents(level, m) == \A j \in 0 .. m - 1 :
    Node(level.start + level.len + j) =
        hash_intermediate(sorted_hashes, Node(level.start + 2 * j),
            Node(level.start + (IF 2 * j + 1 < level.len THEN 2 * j + 1 ELSE 2 * j)))

Above(level) == Level(level.start + level.len, next_level_len(level.len))
Top == Level(prev_level_start, prev_level_len)

\* The vector starts with the leaves; above every level but the last complete
\* one lies the level of its parents.
LaidOut == pc # "leaves" =>
    /\ {Level(0, leaf_count), Top} \subseteq levels
    /\ \A k \in 1 .. leaf_count : nodes[k] = Leaf(k)
    /\ \A level \in levels :
         /\ level.start + level.len <= Len(nodes)
         /\ level # Top =>
              /\ next_level_len(level.len) > 0
              /\ Above(level) \in levels
              /\ Parents(level, next_level_len(level.len))

Growing == pc = "parents" =>
    /\ Level(level_start, level_len) = Above(Top)
    /\ i <= level_len
    /\ Len(nodes) = level_start + i
    /\ Parents(Top, i)

Complete == pc \in {"built", "climbing", "found"} =>
    /\ next_level_len(Top.len) = 0
    /\ Len(nodes) = Top.start + Top.len

\* Each entry of a path joins the hash so far with one sibling; Reached is what
\* the entries so far arrive at.
OneSibling(l, r) == (l = NoHash) # (r = NoHash)
Joined(l, r, hash) == hash_intermediate(sorted_hashes, or(l, hash), or(r, hash))
Reached == IF path = <<>> THEN Leaf(index + 1) ELSE path[Len(path)].target

PathLinked ==
    /\ pc \notin {"climbing", "found"} => path = <<>>
    /\ \A k \in DOMAIN path :
         /\ OneSibling(path[k].left, path[k].right)
         /\ path[k].target =
              Joined(path[k].left, path[k].right, Before(Leaf(index + 1), k))

\* While climbing, the node of the present level is what the siblings kept
\* aside make of the hash so far; at the end that hash is the root.
OnTheWay ==
    /\ pc \in {"climbing", "found"} => index < leaf_count
    /\ pc = "climbing" /\ level_len > 0 =>
         node_index < level_len /\ Level(level_start, level_len) \in levels
    /\ pc = "climbing" /\ lsib = NoHash /\ rsib = NoHash =>
         /\ path = <<>> /\ node_index = index
         /\ level_start = 0 /\ level_len = leaf_count
    /\ pc = "climbing" /\ ~(lsib = NoHash /\ rsib = NoHash) =>
         /\ OneSibling(lsib, rsib)
         /\ level_len > 0 => At(node_index) = Joined(lsib, rsib, Reached)
         /\ path = <<>> => level_len = next_level_len(leaf_count)
    /\ pc = "found" \/ (pc = "climbing" /\ level_len = 0) =>
         /\ Reached = Last(nodes)
         /\ path = <<>> => next_level_len(leaf_count) = 0

Inv == TypeOK /\ LaidOut /\ Growing /\ Complete /\ PathLinked /\ OnTheWay

\* The climb against the reference: after climbed iterations it stands on the
\* node of that height, and each sibling it has found, the last one of them not
\* yet in the path, is the reference's at its height.
climbed == IF lsib = NoHash /\ rsib = NoHash THEN 0 ELSE Len(path) + 1
SiblingOf(l, r) == IF l # NoHash THEN l ELSE r
ReferenceLevel(h) == LevelsOf(Leaves, sorted_hashes)[h]
ReferenceSibling(h) == SiblingAt(ReferenceLevel(h), PathOf(index, leaf_count)[h])
ReferenceHeight == Height(Leaves, sorted_hashes)

PathIsReference == \A k \in DOMAIN path :
    SiblingOf(path[k].left, path[k].right) = ReferenceSibling(k - 1)

ClimbIsReference == pc = "climbing" =>
    /\ level_len > 0 =>
         /\ node_index = PathOf(index, leaf_count)[climbed]
         /\ climbed <= ReferenceHeight
         /\ level_len = Len(ReferenceLevel(climbed))
         /\ \A j \in 1 .. level_len : nodes[level_start + j] = ReferenceLevel(climbed)[j]
    /\ level_len = 0 => climbed = ReferenceHeight + 1
    /\ climbed > 0 => SiblingOf(lsib, rsib) = ReferenceSibling(climbed - 1)

FollowsReference ==
    /\ PathIsReference
    /\ ClimbIsReference
    /\ pc = "found" => Len(path) = ReferenceHeight
================================================================================
