------------------------------ MODULE DataRate -------------------------------
(***************************************************************************)
(* The arithmetic between a request for a sampling period and a report     *)
(* latency and what is written to the two chips: the clamp of ap_batch, the*)
(* rate codes the configuration is stored in, and the conversion of a code *)
(* to the output data rate register and the FIFO watermark of the SMI230.  *)
(*                                                                         *)
(* Time is counted in ticks of 500/Unit microseconds (the code counts      *)
(* nanoseconds: Unit = 500000), rates in quarters of a Hz.  The float      *)
(* division 1e9f / period is modelled as exact: Hz > k is k * p < Second.  *)
(***************************************************************************)
EXTENDS Integers

CONSTANT Unit    \* ticks of BST_SENSOR_MINDELAY_uS, half a millisecond

ASSUME UnitAssumption == Unit \in Nat \ {0}

Second   == 2000 * Unit
MinDelay == Unit             \* sensor_t.minDelay of both sensors, 500 us
MaxDelay == 400 * Unit       \* sensor_t.maxDelay of both sensors, 200 ms

\* ap_batch brings the requested period into the range of the sensor.
ClampPeriod(p) ==
    IF p < MinDelay THEN MinDelay ELSE IF p > MaxDelay THEN MaxDelay ELSE p

\* The rate that belongs to period p is above lo/den Hz, and at most hi/den.
Within(p, lo, hi, den) == lo * p < den * Second /\ den * Second <= hi * p

\* Wrong variant: a rate between two codes is rounded down, not up.
EncodeDatarate_RoundsDown(p) ==
    CASE Within(p, 400, 2000, 1) -> 1
      [] Within(p, 200, 400, 1)  -> 2
      [] OTHER -> 3

\* The code of the band a period falls in; 0 if there is none, which is the
\* case above 2000 Hz.
EncodeDatarate(p) ==
    CASE Within(p, 1600, 2000, 1) -> 18
      [] Within(p, 1000, 1600, 1) -> 17
      [] Within(p, 800, 1000, 1)  -> 16
      [] Within(p, 400, 800, 1)   -> 15
      [] Within(p, 200, 400, 1)   -> 1
      [] Within(p, 100, 200, 1)   -> 2
      [] Within(p, 50, 100, 1)    -> 3
      [] Within(p, 25, 50, 1)     -> 4
      [] Within(p, 12, 25, 1)     -> 5
      [] Within(p, 6, 12, 1)      -> 6
      [] Within(p, 1, 6, 1)       -> 7
      [] Within(p, 1, 2, 2)       -> 8
      [] Within(p, 1, 2, 4)       -> 9
      [] Within(p, 1, 2, 8)       -> 10
      [] Within(p, 1, 2, 16)      -> 11
      [] Within(p, 1, 2, 32)      -> 12
      [] Within(p, 1, 2, 64)      -> 13
      [] p # 0 /\ 64 * Second <= p -> 14
      [] OTHER                    -> 0

Codes == 0..18               \* BSX_CONFSTR_..., and 0
UInt16 == {n \in Nat : n < 65536}

\* CONVERT_DATARATE_CODE: the codes below 1 Hz have no rate.
CodeRate(code) ==
    CASE code = 18 -> 8000
      [] code = 17 -> 6400
      [] code = 16 -> 4000
      [] code = 15 -> 3200
      [] code = 1  -> 1600
      [] code = 2  -> 800
      [] code = 3  -> 400
      [] code = 4  -> 200
      [] code = 5  -> 100
      [] code = 6  -> 50
      [] code = 7  -> 25
      [] code = 8  -> 4
      [] OTHER     -> 0

-----------------------------------------------------------------------------
\* SMI230_convert_ODR for the accelerometer: the value written to "odr".
AccOdr(rate) ==
    CASE rate > 3200                 -> 1600
      [] rate > 1600 /\ rate <= 3200 -> 800
      [] rate > 800 /\ rate <= 1600  -> 400
      [] rate > 400 /\ rate <= 800   -> 200
      [] rate > 200 /\ rate <= 400   -> 100
      [] rate > 100 /\ rate <= 200   -> 50
      [] rate > 50 /\ rate <= 100    -> 25
      [] OTHER                        -> 12

\* SMI230_convert_ODR for the gyroscope: the bandwidth written to "bw_odr".
GyrOdr(rate) ==
    CASE rate > 4000                 -> 523
      [] rate > 1600 /\ rate <= 4000 -> 116
      [] rate > 800 /\ rate <= 1600  -> 47
      [] rate > 400 /\ rate <= 800   -> 23
      [] OTHER                        -> 12

\* The rates the chips sample at, as the names and the table of the register
\* values say.
AccChipRate(odr) == IF odr = 12 THEN 50 ELSE 4 * odr

GyrChipRate(odr) ==
    CASE odr = 523 -> 8000
      [] odr = 116 -> 4000
      [] odr = 47  -> 1600
      [] odr = 23  -> 800
      [] odr = 12  -> 400

-----------------------------------------------------------------------------
\* Wrong variant: the number of samples is rounded up.
FifoDataLen_RoundsUp(latency, period) ==
    ((latency + period - 1) \div period) % 65536

\* Samples that fit in the report latency, stored as uint16_t.
FifoDataLen(latency, period) == (latency \div period) % 65536

\* Wrong variant: the FIFO's capacity is not respected.
Frames_Unbounded(len, max) == IF len < 1 THEN 1 ELSE len

\* The watermark in samples: within the FIFO, and at least one.
Frames(len, max) ==
    IF len > max THEN max ELSE IF len < 1 THEN 1 ELSE len

AccMaxFrames == 146          \* SMI230_ACC_MAX_FIFO_FRAME, 1024 / 7
GyrMaxFrames == 100          \* SMI230_GYRO_MAX_FIFO_FRAME
BytesPerFrame == 7           \* SMI230_ACCEL_BYTES_PER_FIFO_SAMPLE
=============================================================================
