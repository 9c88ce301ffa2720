--------------------------- MODULE AirdropMerkleTree ---------------------------
(***************************************************************************)
(* AirdropMerkleTree: from the lines of a list to a tree of claimants with *)
(* their proofs. The tree itself is that of MerkleHash, which MerkleTree   *)
(* shows the loops of the code to build.                                   *)
(***************************************************************************)
EXTENDS MerkleHash

CONSTANTS
    U64Max,   \* the largest u64
    UiUnit,   \* what a ui amount counts: 1 / UiUnit of the smallest token unit
    NoAmount  \* locked_amount that is missing in a line

ASSUME UnitAssumption == U64Max \in Nat /\ UiUnit \in Nat \ {0}

\* A line is [pubkey, amount, locked_amount], the amounts as they are written.
\* ui_amount_to_token_amount drops what is below the smallest unit.
RoundedUp(amount) == (amount + UiUnit - 1) \div UiUnit
ui_amount_to_token_amount(amount) == amount \div UiUnit

from_csv(entry) ==
    [claimant |-> entry.pubkey,
     amount |-> ui_amount_to_token_amount(entry.amount),
     locked_amount |-> IF entry.locked_amount = NoAmount THEN 0
                       ELSE ui_amount_to_token_amount(entry.locked_amount)]

TreeNodes(entries) == [k \in DOMAIN entries |-> from_csv(entries[k])]

--------------------------------------------------------------------------------
(* AirdropMerkleTree::new *)

\* The elements of S, numbers or others, in the order of their keys.
InOrder(S, key) ==
    [r \in 1 .. Cardinality(S) |->
        CHOOSE k \in S : Cardinality({j \in S : key[j] <= key[k]}) = r]

\* What s holds at the indices, which are in their order.
Picked(s, indices) ==
    LET order == InOrder(indices, [k \in indices |-> k])
    IN  [r \in DOMAIN order |-> s[order[r]]]

\* The indices of a claimant's nodes, and a field of them summed up.
Of(nodes, claimant) == {k \in DOMAIN nodes : nodes[k].claimant = claimant}
TotalAt(nodes, indices, field) ==
    SumFunctionOnSet([k \in DOMAIN nodes |-> nodes[k][field]], indices)
Total(nodes, field) == TotalAt(nodes, DOMAIN nodes, field)

FirstNamed(nodes) ==
    {k \in DOMAIN nodes : \A j \in Of(nodes, nodes[k].claimant) : k <= j}

LastLineWins(nodes) ==
    [r \in DOMAIN Picked(nodes, FirstNamed(nodes)) |->
        nodes[Max(Of(nodes, Picked(nodes, FirstNamed(nodes))[r].claimant))]]

\* One node per claimant, in the order in which they are first named.
NotCombined(nodes) == nodes
Combined(nodes) ==
    LET first == Picked(nodes, FirstNamed(nodes))
        Sum(n, field) == TotalAt(nodes, Of(nodes, n.claimant), field)
    IN  [r \in DOMAIN first |->
            [claimant |-> first[r].claimant,
             amount |-> Sum(first[r], "amount"),
             locked_amount |-> Sum(first[r], "locked_amount")]]

\* None of the checked additions of new fails: each total is a u64, their sum,
\* which get_max_total_claim asks for, need not be.
NoOverflow(nodes) ==
    Total(nodes, "amount") <= U64Max /\ Total(nodes, "locked_amount") <= U64Max

TreeNodeHash(n) == hash_leaf([claimant |-> n.claimant, amount |-> n.amount,
                              locked_amount |-> n.locked_amount])
HashedNodes(nodes) == [k \in DOMAIN nodes |-> TreeNodeHash(nodes[k])]

WithProofs(nodes) ==
    [k \in DOMAIN nodes |->
        [claimant |-> nodes[k].claimant, amount |-> nodes[k].amount,
         locked_amount |-> nodes[k].locked_amount,
         proof |-> ProofOf(HashedNodes(nodes), TRUE, k - 1)]]

NewTree(nodes, version) ==
    LET tree_nodes == Combined(nodes)
    IN  [merkle_root |-> RootOf(HashedNodes(tree_nodes), TRUE),
         airdrop_version |-> version,
         max_num_nodes |-> Len(tree_nodes),
         total_unlocked_amount |-> Total(tree_nodes, "amount"),
         total_locked_amount |-> Total(tree_nodes, "locked_amount"),
         tree_nodes |-> WithProofs(tree_nodes)]

get_max_total_claim(tree) == tree.total_unlocked_amount + tree.total_locked_amount

--------------------------------------------------------------------------------
(* AirdropMerkleTree::validate and verify_proof *)

ProofsVerify(tree) == \A k \in DOMAIN tree.tree_nodes :
    verify(ProofOf(HashedNodes(tree.tree_nodes), TRUE, k - 1), tree.merkle_root,
           TreeNodeHash(tree.tree_nodes[k]))

validate(tree) ==
    LET nodes == tree.tree_nodes
    IN  /\ Len(nodes) = tree.max_num_nodes
        /\ IsInjective([k \in DOMAIN nodes |-> nodes[k].claimant])
        /\ tree.total_unlocked_amount = Total(nodes, "amount")
        /\ tree.total_locked_amount = Total(nodes, "locked_amount")
        /\ tree.merkle_root = RootOf(HashedNodes(nodes), TRUE)
        /\ ProofsVerify(tree)
================================================================================
