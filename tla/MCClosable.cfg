CONSTANTS
    v1 = v1
    v2 = v2
    alice = alice
    bob = bob
    admin1 = admin1
    admin2 = admin2
    treasury = treasury
    NoAccount = NoAccount
    Version = {v1}
    Claimant = {alice, bob}
    Wallet = {admin1, admin2}
    Outside = {treasury}
    Funder = treasury
    Receiver = {treasury}
    Root = {"small", "other"}
    Leaves <- MCLeaves
    DeployArgs <- MCClosable
    ActivationPoints = {0}
    Deposits = {8}
    Supply = 16
    MaxTime = 4
    MaxSlot = 2
    U64Max = 20
SPECIFICATION Spec
INVARIANTS
    Inv
    BonusWithinPool
    StatusesCounted
    LedgerAgrees
PROPERTIES
    ImplementsEscrow
CHECK_DEADLOCK FALSE
