----------------------------- MODULE SensorConfig -----------------------------
(***************************************************************************)
(* The control path of the HAL: activate, batch, setDelay and flush change *)
(* a stored configuration per sensor, the array of active sensors (module  *)
(* ConfRef) and, through sysfs attributes, the registers of the two chips. *)
(*                                                                         *)
(* One action is one call; the framework does not make two at a time.  A   *)
(* sysfs write may fail (wr_sysfs_oneint returns -errno) and leaves the    *)
(* register as it was; the code overwrites or ignores every result.        *)
(* Chips that are not yet written hold Unknown values.                     *)
(*                                                                         *)
(* The two sensors of this build report continuously: the branches for     *)
(* one-shot, special and on-change sensors are never entered.  The stored  *)
(* max_latency and latency_unit are never read and are left out.           *)
(***************************************************************************)
EXTENDS DataRate

CONSTANTS
    Periods,        \* sampling periods the framework asks for, in ticks
    Latencies,      \* report latencies it asks for, in ticks
    Handles,        \* handles it uses
    SysfsFails      \* may a sysfs write fail?

Sensors == {"acc", "gyr"}
Unsupported == "unsupported"     \* a handle that is not in the sensor list
Invalid == "invalid"             \* BSX_SENSOR_ID_INVALID

ASSUME ConfigAssumption ==
    /\ Periods \subseteq Nat
    /\ Latencies \subseteq Nat
    /\ Handles \subseteq Sensors \cup {Unsupported, Invalid}
    /\ SysfsFails \in BOOLEAN

Registers == {"pwr", "odr", "wm"}
Unknown == -1
EINVAL == -22
None == [period |-> Unknown, latency |-> Unknown]

\* SENSORLIST_INX_ACCELEROMETER and SENSORLIST_INX_GYROSCOPE_UNCALIBRATED
ListInx(s) == IF s = "acc" THEN 1 ELSE 16

VARIABLES
    refs, cnt,   \* see ConfRef
    conf,        \* BSX_sensor_config_nonwk: data_rate and fifo_data_len
    chip,        \* the registers, by sensor
    last,        \* the result of the last call
    asked,       \* history: the last batch request, by sensor
    stale,       \* history: registers whose last write failed, or not written
    failed       \* history: registers whose write failed in the last call

vars == <<refs, cnt, conf, chip, last, asked, stale, failed>>

Ref == INSTANCE ConfRef WITH Size <- 32

Init ==
    /\ Ref!Init
    /\ conf = [s \in Sensors |-> [data_rate |-> 4, fifo_data_len |-> 7]]
    /\ chip = [s \in Sensors |-> [r \in Registers |-> Unknown]]
    /\ last = 0
    /\ asked = [s \in Sensors |-> None]
    /\ stale = [s \in Sensors |-> Registers]
    /\ failed = {}

\* batch_configref_resort looks for the sensor in the first cnt slots.
IsActive(s) == \E i \in 0..(cnt - 1) : refs[i] = ListInx(s)

Normal == 0
Suspend(s) == IF s = "acc" THEN 3 ELSE 1

Odr(s, c) ==
    IF s = "acc" THEN AccOdr(CodeRate(c.data_rate))
                 ELSE GyrOdr(CodeRate(c.data_rate))

Watermark(s, c) ==
    IF s = "acc" THEN BytesPerFrame * Frames(c.fifo_data_len, AccMaxFrames)
                 ELSE Frames(c.fifo_data_len, GyrMaxFrames)

\* What ap_send_config writes for configuration c.
Wanted(s, c) == [pwr |-> Normal, odr |-> Odr(s, c), wm |-> Watermark(s, c)]

\* Writing new values to a sensor's registers; any of the writes may fail.
Write(s, values) ==
    \E bad \in SUBSET DOMAIN values :
        /\ SysfsFails \/ bad = {}
        /\ LET done == DOMAIN values \ bad
           IN  /\ chip' = [chip EXCEPT ![s] =
                    [r \in Registers |-> IF r \in done THEN values[r] ELSE @[r]]]
               /\ stale' = [stale EXCEPT ![s] = (@ \ done) \cup bad]
        /\ failed' = bad

NoWrite == failed' = {} /\ UNCHANGED <<chip, stale>>

\* Wrong variant: the disable configuration is sent for the other sensor.
SendDisable_OtherSensor(s) ==
    LET other == IF s = "acc" THEN "gyr" ELSE "acc"
    IN  Write(other, [r \in {"pwr"} |-> Suspend(s)])

SendDisable(s) == Write(s, [r \in {"pwr"} |-> Suspend(s)])

SendConfig(s, c) == Write(s, Wanted(s, c))

Returns(value) == last' = value

-----------------------------------------------------------------------------
\* Wrong variant: the configuration is only sent if the array has changed.
Activate_OnChange(h, enabled) ==
    /\ h \in Sensors
    /\ IF enabled THEN Ref!Enable(ListInx(h)) ELSE Ref!Disable(ListInx(h))
    /\ IF refs' = refs THEN NoWrite
       ELSE IF enabled THEN SendConfig(h, conf[h]) ELSE SendDisable(h)
    /\ Returns(0)
    /\ UNCHANGED <<conf, asked>>

\* ap_activate: the array first, then the chip, whatever the array said.
Activate(h, enabled) ==
    \/ /\ h \in Sensors
       /\ IF enabled
          THEN Ref!Enable(ListInx(h)) /\ SendConfig(h, conf[h])
          ELSE Ref!Disable(ListInx(h)) /\ SendDisable(h)
       /\ Returns(0)
       /\ UNCHANGED <<conf, asked>>
    \/ /\ h \notin Sensors
       /\ Returns(IF h = Invalid THEN 0 ELSE EINVAL)
       /\ NoWrite /\ UNCHANGED <<refs, cnt, conf, asked>>

\* batch_configref_resort: what is stored for a request.
Config(p, l) ==
    LET period == ClampPeriod(p)
    IN  [data_rate |-> EncodeDatarate(period),
         fifo_data_len |-> FifoDataLen(l, period)]

\* Wrong variant: the configuration of an active sensor is stored, not sent.
Configure_Later(h, p, l) ==
    /\ h \in Sensors
    /\ conf' = [conf EXCEPT ![h] = Config(p, l)]
    /\ asked' = [asked EXCEPT ![h] = [period |-> p, latency |-> l]]
    /\ Returns(0)
    /\ UNCHANGED <<refs, cnt>> /\ NoWrite

\* ap_batch: an active sensor is reconfigured at once, any other when it is
\* activated.  For a handle that is not in the list it must succeed if the
\* latency is 0.
Configure(h, p, l) ==
    \/ /\ h \in Sensors
       /\ conf' = [conf EXCEPT ![h] = Config(p, l)]
       /\ asked' = [asked EXCEPT ![h] = [period |-> p, latency |-> l]]
       /\ \/ IsActive(h) /\ SendConfig(h, Config(p, l))
          \/ ~IsActive(h) /\ NoWrite
       /\ Returns(0)
       /\ UNCHANGED <<refs, cnt>>
    \/ /\ h \notin Sensors
       /\ Returns(IF l = 0 THEN 0 ELSE EINVAL)
       /\ NoWrite /\ UNCHANGED <<refs, cnt, conf, asked>>

Batch(h, p, l) == Configure(h, p, l)

\* setDelay is a batch without latency.
SetDelay(h, p) == Configure(h, p, 0)

\* ap_flush: the flush-complete event it sends is part of SensorPipeline.
Flush(h) ==
    /\ Returns(IF h \in Sensors THEN 0 ELSE EINVAL)
    /\ NoWrite /\ UNCHANGED <<refs, cnt, conf, asked>>

Next ==
    \E h \in Handles :
        \/ \E enabled \in BOOLEAN : Activate(h, enabled)
        \/ \E p \in Periods, l \in Latencies : Batch(h, p, l)
        \/ \E p \in Periods : SetDelay(h, p)
        \/ Flush(h)

Spec == Init /\ [][Next]_vars

-----------------------------------------------------------------------------
\* The registers only ever hold values the chip knows: the modes, the rate
\* names of its data sheet and a watermark its FIFO of 1024 bytes (or 100
\* frames) can reach; results are 0 or -EINVAL.
TypeOK ==
    /\ Ref!TypeOK
    /\ conf \in [Sensors -> [data_rate : Codes, fifo_data_len : UInt16]]
    /\ \A s \in Sensors :
        /\ DOMAIN chip[s] = Registers
        /\ chip[s].pwr \in {Unknown, Normal, Suspend(s)}
        /\ chip[s].odr \in {Unknown} \cup
              (IF s = "acc" THEN {12, 25, 50, 100, 200, 400, 800, 1600}
                            ELSE {12, 23, 47, 116, 523})
        /\ chip[s].wm \in {Unknown} \cup
              (IF s = "acc" THEN {BytesPerFrame * n : n \in 1..AccMaxFrames}
                            ELSE 1..GyrMaxFrames)
        /\ stale[s] \subseteq Registers
    /\ last \in {0, EINVAL}

\* However the calls were ordered, an active sensor runs with the stored
\* configuration and an inactive one is suspended, in every register whose
\* last write worked: no sequence of batch and activate leaves a chip with the
\* settings of an earlier request.
ChipFollowsConfig ==
    \A s \in Sensors :
        /\ IsActive(s) => \A r \in Registers \ stale[s] :
              chip[s][r] = Wanted(s, conf[s])[r]
        /\ ~IsActive(s) /\ "pwr" \notin stale[s] => chip[s].pwr = Suspend(s)

Running(s) == IsActive(s) /\ stale[s] = {} /\ asked[s] # None

ChipRate(s) ==
    IF s = "acc" THEN AccChipRate(chip[s].odr) ELSE GyrChipRate(chip[s].odr)

\* The chip samples at least as fast as the last request asked (up to the
\* 1600 Hz the accelerometer can do), and not more than two and a half times
\* as fast, apart from the gyroscope's slowest rate of 100 Hz: the chain of
\* clamp, rate code and register bands never skips a band or falls into a
\* slower one.
RateInBand ==
    \A s \in Sensors : Running(s) =>
        LET p == ClampPeriod(asked[s].period)
        IN  /\ \/ ChipRate(s) * p >= 4 * Second
               \/ s = "acc" /\ ChipRate(s) = 6400
            /\ \/ 2 * ChipRate(s) * p <= 5 * 4 * Second
               \/ s = "gyr" /\ ChipRate(s) = 400

Samples(s) == IF s = "acc" THEN chip[s].wm \div BytesPerFrame ELSE chip[s].wm

\* The FIFO interrupt comes before the report latency is over: that many
\* samples at the chip's rate take no longer than the latency asked for, unless
\* it is a single sample or the accelerometer samples slower than asked.
WatermarkInTime ==
    \A s \in Sensors : Running(s) =>
        \/ Samples(s) = 1
        \/ Samples(s) * 4 * Second <= asked[s].latency * ChipRate(s)
        \/ s = "acc" /\ ClampPeriod(asked[s].period) * 6400 < 4 * Second

\* An activate call controls the sensor "irrespective of previous state": when
\* its writes work, nothing an earlier failure left behind survives it, also
\* if the sensor counted as active already.
ActivateRepairs ==
    [][\A s \in Sensors :
         Activate(s, TRUE) /\ failed' = {} => chip'[s] = Wanted(s, conf[s])]_vars
=============================================================================
