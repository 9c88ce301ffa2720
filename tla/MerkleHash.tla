------------------------------- MODULE MerkleHash -------------------------------
(***************************************************************************)
(* Hashes as terms: collision free, and those of a leaf never equal those  *)
(* of an inner node, which the prefixes 0 and 1 of the code ensure. The    *)
(* levels of a tree are defined here by recursion over their height, as    *)
(* the reference for the loops of MerkleTree::new and find_path.           *)
(***************************************************************************)
EXTENDS Naturals, SequencesExt

hash_leaf(item) == [leaf |-> item]

Unsorted(l, r) == [left |-> l, right |-> r]
Sorted(l, r) == [pair |-> {l, r}]

\* A sorted pair has one hash whatever the order its members come in.
hash_intermediate(sorted_hashes, l, r) ==
    IF sorted_hashes THEN Sorted(l, r) ELSE Unsorted(l, r)

\* jito_merkle_verify::verify, which the program on chain calls.
computed_hash(proof, leaf) ==
    LET after[k \in 0 .. Len(proof)] ==
          IF k = 0 THEN leaf ELSE Sorted(after[k - 1], proof[k])
    IN  after[Len(proof)]

verify(proof, root, leaf) == computed_hash(proof, leaf) = root

--------------------------------------------------------------------------------
(* The reference: a tree as a list of levels, the leaves at height 0. A    *)
(* level holds the parents of the one below it, and the last node of an    *)
(* odd level is joined with itself.                                        *)

ParentsOf(level, sorted_hashes) ==
    [k \in 1 .. (Len(level) + 1) \div 2 |->
        hash_intermediate(sorted_hashes, level[2 * k - 1],
            level[IF 2 * k <= Len(level) THEN 2 * k ELSE 2 * k - 1])]

LevelsOf(leaves, sorted_hashes) ==
    LET level[h \in 0 .. Len(leaves)] ==
          IF h = 0 THEN leaves ELSE ParentsOf(level[h - 1], sorted_hashes)
    IN  level

\* The height at which a single node is left.
Height(leaves, sorted_hashes) == CHOOSE h \in 0 .. Len(leaves) :
    /\ Len(LevelsOf(leaves, sorted_hashes)[h]) <= 1
    /\ \A g \in 0 .. h - 1 : Len(LevelsOf(leaves, sorted_hashes)[g]) > 1

RootOf(leaves, sorted_hashes) ==
    LevelsOf(leaves, sorted_hashes)[Height(leaves, sorted_hashes)][1]

\* Where the path of a leaf passes at each height up to last; positions count
\* from 0.
PathOf(index, last) ==
    LET position[h \in 0 .. last] == IF h = 0 THEN index ELSE position[h - 1] \div 2
    IN  position

\* What the node at a position is joined with: the other child, or itself.
SiblingAt(level, position) ==
    level[1 + (IF position % 2 = 1 THEN position - 1
               ELSE IF position + 1 < Len(level) THEN position + 1 ELSE position)]

\* The siblings on the way from leaf index to the root.
ProofOf(leaves, sorted_hashes, index) ==
    [h \in 1 .. Height(leaves, sorted_hashes) |->
        SiblingAt(LevelsOf(leaves, sorted_hashes)[h - 1],
                  PathOf(index, Len(leaves))[h - 1])]
================================================================================
