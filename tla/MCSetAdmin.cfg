CONSTANTS
    admin1 = admin1
    admin2 = admin2
    treasury = treasury
    savings = savings
    NoAccount = NoAccount
    Version = {0, 1}
    Claimant = {}
    Wallet = {admin1, admin2}
    Outside = {treasury, savings}
    Funder = treasury
    Receiver = {treasury}
    Root = {"tree0", "tree1"}
    Leaves <- MCLeaves
    DeployArgs <- MCDeployArgs
    ActivationPoints = {2}
    Deposits = {}
    Supply = 2
    MaxTime = 3
    MaxSlot = 0
    U64Max = 2500
    Sessions <- MCSetAdmin
    Paths <- MCPaths
    Meant <- MCMeant
    Opened = {treasury}
    Prefunded = {{}}
    FaultKind = {"read", "send", "timeout", "drop"}
    MaxSurprises <- MCSurprises
    Samples <- MCSamples
    ClawbackAttempts = 2
    NewDistributorAttempts = 2
SPECIFICATION OperatorSpec
INVARIANT
    SetAdminReachesAll
CHECK_DEADLOCK FALSE
