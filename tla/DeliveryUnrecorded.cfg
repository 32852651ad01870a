SPECIFICATION Spec
CONSTANTS
    Call = {c1, c2}
    Page = {p1, p2}
    None = None
    MaxRetries = 2
    Plans <- NoneOrBoth
    MaxFaults = 0
INVARIANTS
    EveryOutcomeRecorded
