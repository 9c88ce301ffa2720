CONSTANTS
    Status = {s1, s2, s3, s4}
    Mine = {{s1, s2, s3, s4}, {s1, s2, s3}}
    Closable = {{s1, s2, s3, s4}, {s2, s3, s4}}
    BatchSize = 2
    MaxFit = 3
    FaultKind = {"refuse", "lost_answer", "expire"}
    MaxFaults = 2
    MaxWaiting = 2
SPECIFICATION FairSpec
INVARIANTS
    NonePassedOver
    AllClosed
PROPERTIES
    ClosedInTheEnd
CHECK_DEADLOCK FALSE
