\* Sysfs writes that fail, and handles nobody offered.
SPECIFICATION Spec
CONSTANTS
    Unit = 4
    Periods = {8, 100}
    Latencies = {0, 50}
    Handles = {"acc", "unsupported", "invalid"}
    SysfsFails = TRUE
INVARIANTS ChipFollowsConfig
PROPERTIES ActivateRepairs
