CONSTANTS
    Paths <- MCPaths
    MaxTotalClaim <- MCTotals
    SourceTokens = {9, 20}
    LoopBound = 4
    FaultKind = {"read", "blockhash", "refuse", "timeout"}
    MaxFaults = 3
    MaxSpent = 1
SPECIFICATION FairSpec
INVARIANTS
    FundedWhenDone
    FundedOnce
PROPERTIES
    FundsInTheEnd
CHECK_DEADLOCK FALSE
