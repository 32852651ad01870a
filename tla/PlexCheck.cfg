SPECIFICATION Spec
INVARIANTS
    OKIsEarned
    VerdictIsConsistent
    HostVerdict
\* A check ends.
CHECK_DEADLOCK FALSE
