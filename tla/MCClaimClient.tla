----------------------------- MODULE MCClaimClient -----------------------------
(***************************************************************************)
(* The small tree, and one of its two claimants with the command line tool.*)
(***************************************************************************)
EXTENDS MCDistributor, ClaimClient

User(command, leaf, has_account) == [how |-> command, node |-> leaf, opened |-> has_account]
Alice == LeafOf(alice, 2, 4)
Bob == LeafOf(bob, 2, 0)

\* Nothing is locked for bob, whose claim therefore never succeeds as a whole.
MCUsers ==
    {User("claim", Alice, FALSE), User("claim", Bob, TRUE),
     User("claim_from_api", Bob, TRUE)}
================================================================================
