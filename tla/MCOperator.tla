------------------------------- MODULE MCOperator -------------------------------
(***************************************************************************)
(* Two tree files, whose paths are in the other order than their versions, *)
(* and an operator with the key admin1. The second distributor is closable *)
(* and activated by time.                                                  *)
(***************************************************************************)
EXTENDS Operator, DistributorLedger

CONSTANTS admin1, admin2, treasury, savings

MCPaths == <<1, 0>>
MCLeaves == [root \in {"tree0", "tree1"} |-> {}]

ArgsOf(v) ==
    [root |-> IF v = 0 THEN "tree0" ELSE "tree1", total_claim |-> 2, max_num_nodes |-> 1,
     start_ts |-> 1, end_ts |-> 2, clawback_start_ts |-> 3 - v, activation_point |-> 0,
     activation_type |-> IF v = 0 THEN "Slot" ELSE "Timestamp", closable |-> v = 1,
     total_bonus |-> 0, vesting_duration |-> 0]

MCMeant == [v \in {0, 1} |-> ArgsOf(v)]
\* Others with the base key deploy the tree of version 0.
MCDeployArgs == {ArgsOf(0)}

Ranged(name, from, to, what) ==
    [name |-> name, from |-> from, to |-> to, signer |-> admin1, value |-> what]
OverFiles(name, only, what) ==
    [name |-> name, only |-> only, signer |-> admin1, value |-> what]
New(only, skip) ==
    [name |-> "new_distributor", only |-> only, skip_verify |-> skip,
     signer |-> admin1, value |-> treasury]
ByTime(airdrop_version, timestamp) ==
    [name |-> "by_time", airdrop_version |-> airdrop_version,
     signer |-> admin1, value |-> timestamp]

Both == {0, 1}
NewBoth == New(Both, FALSE)

Repeated == <<New({0}, TRUE), NewBoth>>

\* What is set twice, swept while a receiver changes, created without checking,
\* created again after it was closed, sent to a token account nobody has opened.
MCSessions ==
    {<<NewBoth, Ranged("set_activation_point", 0, 1, 1),
       Ranged("set_activation_point", 0, 0, 0)>>,
     <<NewBoth, Ranged("set_admin", 0, 1, admin2),
       Ranged("set_activation_point", 0, 1, 1)>>,
     <<NewBoth, OverFiles("set_clawback_receiver", Both, 0),
       Ranged("clawback", 0, 1, treasury)>>,
     Repeated,
     <<New({1}, FALSE), OverFiles("set_clawback_receiver", {1}, savings)>>,
     <<New({0}, TRUE), ByTime(0, 2)>>,
     <<NewBoth, OverFiles("close_distributor", Both, treasury), NewBoth>>,
     <<NewBoth, OverFiles("by_time", Both, 2), OverFiles("verify", {1}, treasury)>>}

\* One range of versions, for the run that shows what set-admin makes of it.
MCSetAdmin == {<<NewBoth, Ranged("set_admin", 0, 1, admin2)>>}

MCSurprises == [s \in MCSessions \cup MCSetAdmin |->
    IF s \in MCSetAdmin THEN 0 ELSE IF s = Repeated THEN 2 ELSE 1]

Sample(secs, slots) == [sample_period_secs |-> secs, num_slots |-> slots]
MCSamples ==
    {<<>>, <<Sample(60, 30)>>, <<Sample(60, 200), Sample(60, 200)>>, <<Sample(60, 0)>>}
================================================================================
