----------------------------- MODULE MCDistributor -----------------------------
(***************************************************************************)
(* Small instances of Distributor.                                         *)
(***************************************************************************)
EXTENDS DistributorLedger

CONSTANTS v1, v2, alice, bob, admin1, admin2, treasury

LeafOf(c, u, l) == [claimant |-> c, unlocked |-> u, locked |-> l]

\* The tree of the instances holds 8 tokens, 4 of them at once.
SmallTree == {LeafOf(alice, 2, 4), LeafOf(bob, 2, 0)}
OtherTree == {LeafOf(alice, 3, 3)}

MCLeaves == [root \in {"small", "other"} |->
                IF root = "small" THEN SmallTree ELSE OtherTree]

Args(total, bonus, clawback, type, closable) ==
    [root |-> "small", total_claim |-> total, max_num_nodes |-> 2,
     start_ts |-> 1, end_ts |-> 4, clawback_start_ts |-> clawback,
     activation_point |-> 1, activation_type |-> type, closable |-> closable,
     total_bonus |-> bonus, vesting_duration |-> 2]

\* The totals of the tree; too small ones, in a closable distributor; and a
\* clawback that would start while the tokens vest.
MatchingArgs == Args(8, 5, 4, "Timestamp", FALSE)
ClosableArgs == Args(5, 3, 4, "Slot", TRUE)
EarlyClawbackArgs == Args(8, 5, 2, "Timestamp", FALSE)

MCFixed == {MatchingArgs, EarlyClawbackArgs}
MCMatching == {MatchingArgs}
MCClosable == {ClosableArgs}
================================================================================
