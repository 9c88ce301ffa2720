CONSTANTS
    v1 = v1
    v2 = v2
    alice = alice
    bob = bob
    admin1 = admin1
    admin2 = admin2
    treasury = treasury
    NoAccount = NoAccount
    Version = {v1}
    Claimant = {alice, bob}
    Wallet = {admin1}
    Outside = {treasury}
    Funder = treasury
    Receiver = {v1, treasury}
    Root = {"small", "other"}
    Leaves <- MCLeaves
    DeployArgs <- MCFixed
    ActivationPoints = {20}
    Deposits = {5, 8}
    Supply = 13
    MaxTime = 4
    MaxSlot = 0
    U64Max = 20
    tree = v1
    Users <- MCUsers
    MaxFaults = 1
SPECIFICATION FairClientSpec
INVARIANTS
    TypeOK
    WithdrawnHasVested
    SweptAfterVesting
    ReceiptWithinLeaf
    FundedClaimsSucceed
    LedgerAgrees
PROPERTIES
    DoneMeansPaid
    
    VestingCompletes
CHECK_DEADLOCK FALSE
