CONSTANTS
    v1 = v1
    v2 = v2
    alice = alice
    bob = bob
    admin1 = admin1
    admin2 = admin2
    treasury = treasury
    NoAccount = NoAccount
    Version = {v1, v2}
    Claimant = {alice, bob}
    Wallet = {admin1}
    Outside = {treasury}
    Funder = treasury
    Receiver = {v1, treasury}
    Root = {"small", "other"}
    Leaves <- MCLeaves
    DeployArgs <- MCMatching
    ActivationPoints = {}
    Deposits = {13}
    Supply = 26
    MaxTime = 5
    MaxSlot = 0
    U64Max = 30
SPECIFICATION Spec
PROPERTIES
    SolventUntilSwept
    ImplementsEscrow
CHECK_DEADLOCK FALSE
