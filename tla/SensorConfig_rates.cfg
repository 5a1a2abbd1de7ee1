\* Both sensors, periods below, inside and above the range they advertise, and
\* a latency that wraps at 2^16 samples.
SPECIFICATION Spec
CONSTANTS
    Unit = 4
    Periods = {0, 5, 16, 100, 2000}
    Latencies = {50, 262148}
    Handles = {"acc", "gyr"}
    SysfsFails = FALSE
INVARIANTS TypeOK ChipFollowsConfig RateInBand WatermarkInTime
