\* All boards, rates below, inside and above what the chips can do, failing
\* accesses and restarts.
SPECIFICATION Spec
CONSTANTS
    Unit = 4
    Periods = {4, 10, 24, 100, 2000}
    SysfsFails = TRUE
    Restarts = TRUE
INVARIANTS TypeOK AttributesFollow NormalIsSelected RateServed
