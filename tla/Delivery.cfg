SPECIFICATION Spec
CONSTANTS
    Call = {c1, c2}
    Page = {p1, p2}
    None = None
    MaxRetries = 1
    Plans <- NoneOrBoth
    MaxFaults = 1
INVARIANTS
    ReturnIsRecorded
    OneDeliveryPerPage
SYMMETRY Symmetry
PROPERTIES
    RetriesOnlyTransient
