---------------------------- MODULE MCProofService ----------------------------
(***************************************************************************)
(* An instance of ProofService: every list of up to three lines, a list    *)
(* that makes three trees and one that makes twelve, whose paths are not   *)
(* in the order of their versions; and each list tool on short lists that  *)
(* repeat keys, hold a line without one, and one that a tool has made.     *)
(***************************************************************************)
EXTENDS ProofService

CONSTANTS alice, bob, carol, dave, tester, bad, fresh1, fresh2, fresh3

Line(c, amount, locked) == [pubkey |-> c, amount |-> amount, locked_amount |-> locked]

MCLines == {Line(alice, 5, 2), Line(alice, 3, NoAmount), Line(bob, 4, 3), Line(tester, 7, 2)}

\* The first line of each tree gives something to alice, in trees 2 and 10, or to
\* a wallet named by its line; the second line is below the smallest unit.
LongList ==
    [k \in 1 .. 24 |-> Line(IF k \in {5, 21} THEN alice ELSE k,
                            IF k \in {5, 7, 21} THEN 4 ELSE 1, 0)]

MCLists == UNION {[1 .. n -> MCLines] : n \in 0 .. 3}
             \cup {<<Line(alice, 5, 2), Line(bob, 4, 3), Line(carol, 5, 5),
                     Line(alice, 3, NoAmount), Line(dave, 9, 0)>>}
             \cup {LongList}
MCTestList == <<tester>>

MCKeyOrder == <<fresh1, bob, alice, tester, fresh2, carol, fresh3>>
\* As of "10" and "9", the text of the larger amount may come first.
MCTextOrder == <<5, 3, 4, 7, 2>>
MCPreList == <<tester, carol>>
MCFreshKeys == <<fresh1, fresh2, fresh3>>

Tool(name) ==
    [name |-> name, amount |-> 2, num_records |-> 3, sub |-> <<bob, bad, alice>>]
ToolLines ==
    {Line(alice, 5, 2), Line(alice, 3, NoAmount), Line(carol, 2, 0), Line(bad, 2, 0),
     Line(fresh1, 2, 0)}
ToolLists == UNION {[1 .. n -> ToolLines] : n \in 0 .. 3}

Plain(lists) == [list_tool : {Tool("none")}, source : lists]
MCPlainInputs == Plain(MCLists)
MCInputs ==
    MCPlainInputs
    \cup [list_tool : {Tool(name) : name \in FromSource}, source : ToolLists]
    \cup [list_tool : {Tool("create_dummy_csv"), Tool("create_test_list")}, source : {<<>>}]
================================================================================
