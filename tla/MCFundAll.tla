------------------------------- MODULE MCFundAll -------------------------------
(***************************************************************************)
(* Small instances of FundAll.                                             *)
(***************************************************************************)
EXTENDS FundAll, TLC

MCPaths == <<0, 1>>
MCTotals == (0 :> 2) @@ (1 :> 3)
================================================================================
