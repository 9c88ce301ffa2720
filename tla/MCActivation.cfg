CONSTANTS
    v1 = v1
    v2 = v2
    alice = alice
    bob = bob
    admin1 = admin1
    admin2 = admin2
    treasury = treasury
    NoAccount = NoAccount
    Version = {v1}
    Claimant = {alice, bob}
    Wallet = {admin1, admin2}
    Outside = {treasury}
    Funder = treasury
    Receiver = {treasury}
    Root = {"small", "other"}
    Leaves <- MCLeaves
    DeployArgs <- MCMatching
    ActivationPoints = {}
    Deposits = {13}
    Supply = 13
    MaxTime = 5
    MaxSlot = 0
    U64Max = 20
SPECIFICATION Spec
PROPERTY
    ClaimOnlyAfterActivation
CHECK_DEADLOCK FALSE
