CONSTANTS
    alice = alice
    bob = bob
    carol = carol
    dave = dave
    tester = tester
    NoAmount = NoAmount
    UiUnit = 2
    TestList <- MCTestList
    TestAmount = 5
    U64Max = 12
    Inputs <- MCPlainInputs
    bad = bad
    fresh1 = fresh1
    fresh2 = fresh2
    fresh3 = fresh3
    NotAKey = {bad}
    KeyOrder <- MCKeyOrder
    TextOrder <- MCTextOrder
    PreList <- MCPreList
    FreshKeys <- MCFreshKeys
    MergedAmount = 6
    MaxNodesPerTree = 2
    MaxEntriesPerFile = 2
SPECIFICATION Spec
INVARIANTS
    OneTreeEach
CHECK_DEADLOCK FALSE
