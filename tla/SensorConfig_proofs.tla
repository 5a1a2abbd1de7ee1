------------------------- MODULE SensorConfig_proofs -------------------------
(***************************************************************************)
(* The control path, for every set of periods, latencies and handles and   *)
(* with any pattern of failing sysfs writes.  First the arithmetic: what   *)
(* the chain of clamp, rate code and register bands does to a requested    *)
(* period, for every resolution of the clock.                              *)
(***************************************************************************)
EXTENDS SensorConfig, TLAPS

LEMMA ClampRange ==
    ASSUME NEW p \in Int
    PROVE  ClampPeriod(p) \in MinDelay..MaxDelay
BY UnitAssumption DEF ClampPeriod, MinDelay, MaxDelay

\* The eleven bands a period can be in, with the code each is given.
LEMMA Bands ==
    ASSUME NEW p \in MinDelay..MaxDelay
    PROVE  \/ EncodeDatarate(p) = 18 /\ 1600 * p < Second /\ Second <= 2000 * p
           \/ EncodeDatarate(p) = 17 /\ 1000 * p < Second /\ Second <= 1600 * p
           \/ EncodeDatarate(p) = 16 /\ 800 * p < Second /\ Second <= 1000 * p
           \/ EncodeDatarate(p) = 15 /\ 400 * p < Second /\ Second <= 800 * p
           \/ EncodeDatarate(p) = 1 /\ 200 * p < Second /\ Second <= 400 * p
           \/ EncodeDatarate(p) = 2 /\ 100 * p < Second /\ Second <= 200 * p
           \/ EncodeDatarate(p) = 3 /\ 50 * p < Second /\ Second <= 100 * p
           \/ EncodeDatarate(p) = 4 /\ 25 * p < Second /\ Second <= 50 * p
           \/ EncodeDatarate(p) = 5 /\ 12 * p < Second /\ Second <= 25 * p
           \/ EncodeDatarate(p) = 6 /\ 6 * p < Second /\ Second <= 12 * p
           \/ EncodeDatarate(p) = 7 /\ 5 * p <= Second /\ Second <= 6 * p
BY UnitAssumption DEF EncodeDatarate, Within, Second, MinDelay, MaxDelay

\* The rate the chip is set to, code by code.
AccRate(code) == AccChipRate(AccOdr(CodeRate(code)))
GyrRate(code) == GyrChipRate(GyrOdr(CodeRate(code)))

LEMMA AccRates ==
    /\ AccRate(18) = 6400
    /\ AccRate(17) = 6400
    /\ AccRate(16) = 6400
    /\ AccRate(15) = 3200
    /\ AccRate(1) = 1600
    /\ AccRate(2) = 800
    /\ AccRate(3) = 400
    /\ AccRate(4) = 200
    /\ AccRate(5) = 100
    /\ AccRate(6) = 50
    /\ AccRate(7) = 50
BY DEF AccRate, AccChipRate, AccOdr, CodeRate

LEMMA GyrRates ==
    /\ GyrRate(18) = 8000
    /\ GyrRate(17) = 8000
    /\ GyrRate(16) = 4000
    /\ GyrRate(15) = 4000
    /\ GyrRate(1) = 1600
    /\ GyrRate(2) = 800
    /\ GyrRate(3) = 400
    /\ GyrRate(4) = 400
    /\ GyrRate(5) = 400
    /\ GyrRate(6) = 400
    /\ GyrRate(7) = 400
BY DEF GyrRate, GyrChipRate, GyrOdr, CodeRate

\* The accelerometer samples at least as fast as it is asked to, unless that
\* is more than its 1600 Hz, and at most two and a half times as fast: every
\* band of encode_datarate meets a band of SMI230_convert_ODR that covers it.
THEOREM AccRateInBand ==
    ASSUME NEW p \in MinDelay..MaxDelay
    PROVE  LET rate == AccRate(EncodeDatarate(p))
           IN  /\ rate * p >= 4 * Second \/ rate = 6400
               /\ 2 * (rate * p) <= 20 * Second
<1>1. Second \in Nat /\ p \in Nat
  BY UnitAssumption DEF Second, MinDelay, MaxDelay
<1> QED BY <1>1, Bands, AccRates

\* Only a request for more than 1600 Hz is beyond the accelerometer.
THEOREM AccRateReached ==
    ASSUME NEW p \in MinDelay..MaxDelay, 1600 * p >= Second
    PROVE  AccRate(EncodeDatarate(p)) * p >= 4 * Second
<1>1. Second \in Nat /\ p \in Nat
  BY UnitAssumption DEF Second, MinDelay, MaxDelay
<1> QED BY <1>1, Bands, AccRates

\* The gyroscope always samples at least as fast as it is asked to, and at
\* most two and a half times as fast unless it runs at its slowest rate.
THEOREM GyrRateInBand ==
    ASSUME NEW p \in MinDelay..MaxDelay
    PROVE  LET rate == GyrRate(EncodeDatarate(p))
           IN  /\ rate * p >= 4 * Second
               /\ 2 * (rate * p) <= 20 * Second \/ rate = 400
<1>1. Second \in Nat /\ p \in Nat
  BY UnitAssumption DEF Second, MinDelay, MaxDelay
<1> QED BY <1>1, Bands, GyrRates

\* A FIFO of at most len samples at a period not longer than the one len was
\* computed for fills within the latency, even after len wrapped at 2^16.
THEOREM FifoFillsInTime ==
    ASSUME NEW l \in Nat, NEW p \in Nat, p > 0, NEW max \in Nat, max >= 1,
           Frames(FifoDataLen(l, p), max) # 1
    PROVE  Frames(FifoDataLen(l, p), max) * p <= l
<1> DEFINE n == l \div p
           w == n % 65536
           f == Frames(w, max)
<1>1. n \in Nat /\ n * p <= l
  OBVIOUS
<1>2. w \in Nat /\ w <= n
  BY <1>1
<1>3. f \in Nat /\ f <= w
  BY <1>2 DEF Frames, FifoDataLen
<1>4. f * p <= n * p
  <2>1. \A a, b, c \in Nat : a <= b => a * c <= b * c
    OBVIOUS
  <2> HIDE DEF f, n, w
  <2> QED BY <2>1, <1>1, <1>2, <1>3
<1> QED BY <1>1, <1>3, <1>4 DEF FifoDataLen

-----------------------------------------------------------------------------
(* The array of active sensors inside the control path.                    *)

RefProofs == INSTANCE ConfRef_proofs WITH Size <- 32

\* The definitions of the two instances are the same.
LEMMA SameActive ==
    Ref!Active = RefProofs!Active /\ Ref!Active' = RefProofs!Active'
BY DEF Ref!Active, RefProofs!Active, Ref!Index, RefProofs!Index

LEMMA SameEnable ==
    ASSUME NEW x, Ref!Enable(x)
    PROVE  RefProofs!Enable(x)
BY DEF Ref!Enable, RefProofs!Enable, Ref!Index, RefProofs!Index,
       Ref!StopsAt, RefProofs!StopsAt, Ref!AppendRef, RefProofs!AppendRef,
       Ref!InsertRef, RefProofs!InsertRef,
       Ref!Memmove, RefProofs!Memmove, Ref!Null, RefProofs!Null,
       Ref!vars, RefProofs!vars

LEMMA SameDisable ==
    ASSUME NEW x, Ref!Disable(x)
    PROVE  RefProofs!Disable(x)
BY DEF Ref!Disable, RefProofs!Disable, Ref!Index, RefProofs!Index,
       Ref!StopsAt, RefProofs!StopsAt, Ref!RemoveRef, RefProofs!RemoveRef,
       Ref!Memmove, RefProofs!Memmove, Ref!Null, RefProofs!Null,
       Ref!vars, RefProofs!vars

LEMMA EnableRef ==
    ASSUME RefProofs!IInv, NEW s \in Sensors, Ref!Enable(ListInx(s))
    PROVE  Ref!Active' = Ref!Active \cup {ListInx(s)} /\ RefProofs!IInv'
<1>1. ListInx(s) \in RefProofs!Index
  BY DEF ListInx, RefProofs!Index, Sensors
<1>2. RefProofs!Enable(ListInx(s))
  BY SameEnable
<1>3. RefProofs!Active' = RefProofs!Active \cup {ListInx(s)}
  BY <1>1, <1>2, RefProofs!EnableActive
<1>4. RefProofs!IInv'
  BY <1>1, <1>2, RefProofs!NextKeepsIInv DEF RefProofs!Next
<1> QED BY <1>3, <1>4, SameActive

LEMMA DisableRef ==
    ASSUME RefProofs!IInv, NEW s \in Sensors, Ref!Disable(ListInx(s))
    PROVE  Ref!Active' = Ref!Active \ {ListInx(s)} /\ RefProofs!IInv'
<1>1. ListInx(s) \in RefProofs!Index
  BY DEF ListInx, RefProofs!Index, Sensors
<1>2. RefProofs!Disable(ListInx(s))
  BY SameDisable
<1>3. RefProofs!Active' = RefProofs!Active \ {ListInx(s)}
  BY <1>1, <1>2, RefProofs!DisableActive
<1>4. RefProofs!IInv'
  BY <1>1, <1>2, RefProofs!NextKeepsIInv DEF RefProofs!Next
<1> QED BY <1>3, <1>4, SameActive

LEMMA UnchangedRef ==
    ASSUME RefProofs!IInv, UNCHANGED <<refs, cnt>>
    PROVE  Ref!Active' = Ref!Active /\ RefProofs!IInv'
<1>1. RefProofs!IInv'
  BY RefProofs!NextKeepsIInv DEF RefProofs!vars
<1>2. Ref!Active' = Ref!Active
  BY DEF Ref!Active, Ref!Index
<1> QED BY <1>1, <1>2

-----------------------------------------------------------------------------
\* Beyond the properties themselves the induction needs the array's own
\* invariant, and that the stored configuration of a sensor is always the one
\* computed from its last request.
Types ==
    /\ chip \in [Sensors -> [Registers -> Int]]
    /\ stale \in [Sensors -> SUBSET Registers]
    /\ conf \in [Sensors -> [data_rate : Codes, fifo_data_len : UInt16]]
    /\ asked \in [Sensors -> [period : Int, latency : Int]]

ConfIsAsked ==
    \A s \in Sensors : asked[s] # None =>
        /\ asked[s].period \in Nat /\ asked[s].latency \in Nat
        /\ conf[s] = Config(asked[s].period, asked[s].latency)

Inv == RefProofs!IInv /\ Types /\ ConfIsAsked /\ ChipFollowsConfig

\* What a group of sysfs writes does, whichever of them fail.
LEMMA WriteEffect ==
    ASSUME Types, NEW s \in Sensors, NEW D \in SUBSET Registers,
           NEW values \in [D -> Int], Write(s, values)
    PROVE  /\ chip' \in [Sensors -> [Registers -> Int]]
           /\ stale' \in [Sensors -> SUBSET Registers]
           /\ \A r \in D \ stale'[s] : chip'[s][r] = values[r]
           /\ \A t \in Sensors : t # s =>
                 chip'[t] = chip[t] /\ stale'[t] = stale[t]
<1>1. /\ DOMAIN values = D
      /\ chip \in [Sensors -> [Registers -> Int]]
      /\ stale \in [Sensors -> SUBSET Registers]
  BY DEF Types
<1>2. PICK bad \in SUBSET D :
        /\ chip' = [chip EXCEPT ![s] =
              [r \in Registers |-> IF r \in D \ bad THEN values[r] ELSE @[r]]]
        /\ stale' = [stale EXCEPT ![s] = (@ \ (D \ bad)) \cup bad]
  BY <1>1, ZenonT(40) DEF Write
<1>3. \A t \in Sensors : t # s => chip'[t] = chip[t] /\ stale'[t] = stale[t]
  BY <1>1, <1>2
<1>4. chip'[s] = [r \in Registers |-> IF r \in D \ bad THEN values[r]
                                                        ELSE chip[s][r]]
  BY <1>1, <1>2
<1>5. stale'[s] = (stale[s] \ (D \ bad)) \cup bad
  BY <1>1, <1>2
<1>6. chip'[s] \in [Registers -> Int]
  <2>1. \A r \in Registers : chip[s][r] \in Int
    BY <1>1
  <2>2. \A r \in D : values[r] \in Int
    OBVIOUS
  <2> QED BY <1>4, <2>1, <2>2
<1>7. stale'[s] \subseteq Registers
  BY <1>1, <1>5
<1>8. chip' \in [Sensors -> [Registers -> Int]]
  BY <1>1, <1>2, <1>6
<1>9. stale' \in [Sensors -> SUBSET Registers]
  BY <1>1, <1>2, <1>7
<1>10. \A r \in D \ stale'[s] : chip'[s][r] = values[r]
  BY <1>4, <1>5
<1> QED BY <1>3, <1>8, <1>9, <1>10

LEMMA FramesRange ==
    ASSUME NEW len \in Int, NEW max \in Nat, max >= 1
    PROVE  Frames(len, max) \in 1..max
BY DEF Frames

LEMMA EncodeRange ==
    ASSUME NEW p \in Int PROVE EncodeDatarate(p) \in Codes
BY DEF EncodeDatarate, Codes

LEMMA OdrRange ==
    ASSUME NEW rate \in Int
    PROVE  /\ AccOdr(rate) \in {12, 25, 50, 100, 200, 400, 800, 1600}
           /\ GyrOdr(rate) \in {12, 23, 47, 116, 523}
BY DEF AccOdr, GyrOdr

LEMMA CodeRateInt ==
    ASSUME NEW code \in Int PROVE CodeRate(code) \in Int
BY DEF CodeRate

LEMMA FifoDataLenRange ==
    ASSUME NEW l \in Nat, NEW p \in Nat \ {0}
    PROVE  FifoDataLen(l, p) \in UInt16
<1>1. l \div p \in Int
  OBVIOUS
<1>2. \A n \in Int : n % 65536 \in UInt16
  BY DEF UInt16
<1> QED BY <1>1, <1>2 DEF FifoDataLen

LEMMA ConfigType ==
    ASSUME NEW p \in Nat, NEW l \in Nat
    PROVE  Config(p, l) \in [data_rate : Codes, fifo_data_len : UInt16]
<1>1. ClampPeriod(p) \in Nat \ {0}
  BY ClampRange, UnitAssumption DEF MinDelay, MaxDelay
<1>2. EncodeDatarate(ClampPeriod(p)) \in Codes
  BY <1>1, EncodeRange
<1>3. FifoDataLen(l, ClampPeriod(p)) \in UInt16
  BY <1>1, FifoDataLenRange
<1> QED BY <1>2, <1>3 DEF Config

LEMMA WantedType ==
    ASSUME NEW s \in Sensors,
           NEW c \in [data_rate : Codes, fifo_data_len : UInt16]
    PROVE  Wanted(s, c) \in [Registers -> Int]
<1>0. c.data_rate \in Int /\ c.fifo_data_len \in Int
  <2>1. c.data_rate \in Codes /\ c.fifo_data_len \in UInt16
    OBVIOUS
  <2>2. \A n \in Codes : n \in Int
    BY DEF Codes
  <2>3. \A n \in UInt16 : n \in Int
    BY DEF UInt16
  <2> QED BY <2>1, <2>2, <2>3
<1>1. CodeRate(c.data_rate) \in Int
  BY <1>0, CodeRateInt
<1>2. Odr(s, c) \in Int
  BY <1>1, OdrRange DEF Odr
<1>3. /\ Frames(c.fifo_data_len, AccMaxFrames) \in Int
      /\ Frames(c.fifo_data_len, GyrMaxFrames) \in Int
  BY <1>0, FramesRange DEF AccMaxFrames, GyrMaxFrames
<1>4. Watermark(s, c) \in Int
  BY <1>3 DEF Watermark, BytesPerFrame
<1> QED BY <1>2, <1>4 DEF Wanted, Registers, Normal

LEMMA SendConfigEffect ==
    ASSUME Types, NEW s \in Sensors,
           NEW c \in [data_rate : Codes, fifo_data_len : UInt16], SendConfig(s, c)
    PROVE  /\ chip' \in [Sensors -> [Registers -> Int]]
           /\ stale' \in [Sensors -> SUBSET Registers]
           /\ \A r \in Registers \ stale'[s] : chip'[s][r] = Wanted(s, c)[r]
           /\ \A t \in Sensors : t # s =>
                 chip'[t] = chip[t] /\ stale'[t] = stale[t]
<1>1. Wanted(s, c) \in [Registers -> Int]
  BY WantedType
<1>2. Write(s, Wanted(s, c))
  BY DEF SendConfig
<1> HIDE DEF Wanted
<1> QED BY <1>1, <1>2, WriteEffect

LEMMA SendDisableEffect ==
    ASSUME Types, NEW s \in Sensors, SendDisable(s)
    PROVE  /\ chip' \in [Sensors -> [Registers -> Int]]
           /\ stale' \in [Sensors -> SUBSET Registers]
           /\ "pwr" \notin stale'[s] => chip'[s]["pwr"] = Suspend(s)
           /\ \A t \in Sensors : t # s =>
                 chip'[t] = chip[t] /\ stale'[t] = stale[t]
<1> DEFINE values == [r \in {"pwr"} |-> Suspend(s)]
<1>1. Suspend(s) \in Int
  BY DEF Suspend
<1>2. values \in [{"pwr"} -> Int] /\ {"pwr"} \in SUBSET Registers
  BY <1>1 DEF Registers
<1>3. values["pwr"] = Suspend(s)
  OBVIOUS
<1>4. Write(s, values)
  BY DEF SendDisable
<1> HIDE DEF values
<1> QED BY <1>2, <1>3, <1>4, WriteEffect

LEMMA SensorIndex ==
    \A s, t \in Sensors : ListInx(s) = ListInx(t) => s = t
BY DEF Sensors, ListInx

\* The search among the first cnt slots finds exactly the active sensors:
\* the array is closed up to the front.
SearchRight == \A s \in Sensors : IsActive(s) <=> ListInx(s) \in Ref!Active

LEMMA SearchFindsActive ==
    /\ RefProofs!IInv => SearchRight
    /\ RefProofs!IInv' => SearchRight'
<1>1. RefProofs!IInv => SearchRight
  <2>1. \A s \in Sensors : ListInx(s) \in 0..31
    BY DEF ListInx
  <2> QED BY <2>1, RefProofs!SizeAssumption
          DEF SearchRight, IsActive, Ref!Active, Ref!Index, RefProofs!IInv,
              RefProofs!TypeOK, RefProofs!SortedPrefix, RefProofs!Index,
              RefProofs!Null
<1> QED BY <1>1, PTL

LEMMA InitInv == Init => Inv
<1> SUFFICES ASSUME Init PROVE Inv
  OBVIOUS
<1>1. RefProofs!IInv
  <2>1. RefProofs!Init
    BY DEF Init, Ref!Init, RefProofs!Init, Ref!Index, RefProofs!Index,
           Ref!Null, RefProofs!Null
  <2> QED BY <2>1, RefProofs!InitIInv
<1>2. Types
  BY DEF Init, Types, Unknown, None, Codes, UInt16
<1>3. ConfIsAsked
  BY DEF Init, ConfIsAsked
<1>4. ChipFollowsConfig
  <2>1. \A s \in Sensors : ~IsActive(s) /\ stale[s] = Registers
    BY DEF Init, IsActive, Ref!Active, Ref!Init, Ref!Null, Ref!Index
  <2> QED BY <2>1 DEF ChipFollowsConfig, Registers
<1> QED BY <1>1, <1>2, <1>3, <1>4 DEF Inv

LEMMA UnchangedInv ==
    ASSUME Inv, UNCHANGED <<refs, cnt, conf, chip, asked, stale>>
    PROVE  Inv'
<1>1. Ref!Active' = Ref!Active /\ RefProofs!IInv'
  BY UnchangedRef DEF Inv
<1>2. Types' /\ ConfIsAsked'
  BY DEF Inv, Types, ConfIsAsked
<1>3. ChipFollowsConfig'
  BY <1>1 DEF Inv, ChipFollowsConfig, IsActive
<1> QED BY <1>1, <1>2, <1>3 DEF Inv

LEMMA ActivateInv ==
    ASSUME Inv, NEW h, NEW enabled \in BOOLEAN, Activate(h, enabled)
    PROVE  Inv'
<1>1. CASE h \notin Sensors
  BY <1>1, UnchangedInv DEF Activate, NoWrite
<1>2. CASE h \in Sensors /\ enabled
  <2>1. /\ Ref!Enable(ListInx(h)) /\ SendConfig(h, conf[h])
        /\ UNCHANGED <<conf, asked>>
    BY <1>2 DEF Activate
  <2>2. Ref!Active' = Ref!Active \cup {ListInx(h)} /\ RefProofs!IInv'
    BY <1>2, <2>1, EnableRef DEF Inv
  <2>3. conf[h] \in [data_rate : Codes, fifo_data_len : UInt16]
    BY <1>2 DEF Inv, Types
  <2>4. /\ chip' \in [Sensors -> [Registers -> Int]]
        /\ stale' \in [Sensors -> SUBSET Registers]
        /\ \A r \in Registers \ stale'[h] : chip'[h][r] = Wanted(h, conf[h])[r]
        /\ \A t \in Sensors : t # h =>
              chip'[t] = chip[t] /\ stale'[t] = stale[t]
    BY <1>2, <2>1, <2>3, SendConfigEffect DEF Inv
  <2>5. Types' /\ ConfIsAsked'
    BY <2>1, <2>4 DEF Inv, Types, ConfIsAsked
  <2>6. IsActive(h)' /\ \A t \in Sensors : t # h => (IsActive(t)' <=> IsActive(t))
    BY <1>2, <2>2, SensorIndex, SearchFindsActive DEF Inv, SearchRight
  <2>7. ChipFollowsConfig'
    BY <2>1, <2>4, <2>6 DEF Inv, ChipFollowsConfig
  <2> QED BY <2>2, <2>5, <2>7 DEF Inv
<1>3. CASE h \in Sensors /\ ~enabled
  <2>1. /\ Ref!Disable(ListInx(h)) /\ SendDisable(h)
        /\ UNCHANGED <<conf, asked>>
    BY <1>3 DEF Activate
  <2>2. Ref!Active' = Ref!Active \ {ListInx(h)} /\ RefProofs!IInv'
    BY <1>3, <2>1, DisableRef DEF Inv
  <2>3. /\ chip' \in [Sensors -> [Registers -> Int]]
        /\ stale' \in [Sensors -> SUBSET Registers]
        /\ "pwr" \notin stale'[h] => chip'[h]["pwr"] = Suspend(h)
        /\ \A t \in Sensors : t # h =>
              chip'[t] = chip[t] /\ stale'[t] = stale[t]
    BY <1>3, <2>1, SendDisableEffect DEF Inv
  <2>4. Types' /\ ConfIsAsked'
    BY <2>1, <2>3 DEF Inv, Types, ConfIsAsked
  <2>5. ~IsActive(h)' /\ \A t \in Sensors : t # h => (IsActive(t)' <=> IsActive(t))
    BY <1>3, <2>2, SensorIndex, SearchFindsActive DEF Inv, SearchRight
  <2>6. ChipFollowsConfig'
    BY <2>1, <2>3, <2>5 DEF Inv, ChipFollowsConfig
  <2> QED BY <2>2, <2>4, <2>6 DEF Inv
<1> QED BY <1>1, <1>2, <1>3

LEMMA ConfigureInv ==
    ASSUME Inv, NEW h, NEW p \in Nat, NEW l \in Nat, Configure(h, p, l)
    PROVE  Inv'
<1>1. CASE h \notin Sensors
  BY <1>1, UnchangedInv DEF Configure, NoWrite
<1>2. CASE h \in Sensors
  <2>1. /\ conf' = [conf EXCEPT ![h] = Config(p, l)]
        /\ asked' = [asked EXCEPT ![h] = [period |-> p, latency |-> l]]
        /\ \/ IsActive(h) /\ SendConfig(h, Config(p, l))
           \/ ~IsActive(h) /\ UNCHANGED <<chip, stale>>
        /\ UNCHANGED <<refs, cnt>>
    BY <1>2 DEF Configure, NoWrite
  <2>2. Config(p, l) \in [data_rate : Codes, fifo_data_len : UInt16]
    BY ConfigType
  <2>3. Ref!Active' = Ref!Active /\ RefProofs!IInv'
    BY <2>1, UnchangedRef DEF Inv
  <2>4. /\ chip' \in [Sensors -> [Registers -> Int]]
        /\ stale' \in [Sensors -> SUBSET Registers]
        /\ \A t \in Sensors : t # h =>
              chip'[t] = chip[t] /\ stale'[t] = stale[t]
    BY <1>2, <2>1, <2>2, SendConfigEffect DEF Inv, Types
  <2> HIDE DEF Config
  <2>5. conf'[h] = Config(p, l) /\ \A t \in Sensors : t # h => conf'[t] = conf[t]
    BY <1>2, <2>1 DEF Inv, Types
  <2>6. /\ asked'[h] = [period |-> p, latency |-> l]
        /\ \A t \in Sensors : t # h => asked'[t] = asked[t]
    BY <1>2, <2>1 DEF Inv, Types
  <2>7. Types'
    <3>1. conf' \in [Sensors -> [data_rate : Codes, fifo_data_len : UInt16]]
      BY <2>1, <2>2 DEF Inv, Types
    <3>2. asked' \in [Sensors -> [period : Int, latency : Int]]
      <4>1. [period |-> p, latency |-> l] \in [period : Int, latency : Int]
        OBVIOUS
      <4> QED BY <2>1, <4>1 DEF Inv, Types
    <3> QED BY <2>4, <3>1, <3>2 DEF Types
  <2>8. ConfIsAsked'
    <3> SUFFICES ASSUME NEW t \in Sensors, asked'[t] # None
                 PROVE  /\ asked'[t].period \in Nat /\ asked'[t].latency \in Nat
                        /\ conf'[t] = Config(asked'[t].period, asked'[t].latency)
      BY DEF ConfIsAsked, Config
    <3>1. CASE t = h
      BY <3>1, <2>5, <2>6
    <3>2. CASE t # h
      BY <3>2, <2>5, <2>6 DEF Inv, ConfIsAsked
    <3> QED BY <3>1, <3>2
  <2>9. ChipFollowsConfig'
    <3>1. \A t \in Sensors : IsActive(t)' <=> IsActive(t)
      BY <2>1 DEF IsActive
    <3>2. IsActive(h) => \A r \in Registers \ stale'[h] :
                            chip'[h][r] = Wanted(h, conf'[h])[r]
      BY <1>2, <2>1, <2>2, <2>5, SendConfigEffect DEF Inv
    <3>3. ~IsActive(h) /\ "pwr" \notin stale'[h] => chip'[h].pwr = Suspend(h)
      BY <1>2, <2>1 DEF Inv, ChipFollowsConfig
    <3> QED BY <2>4, <2>5, <3>1, <3>2, <3>3 DEF Inv, ChipFollowsConfig
  <2> QED BY <2>3, <2>7, <2>8, <2>9 DEF Inv
<1> QED BY <1>1, <1>2

LEMMA NextInv == Inv /\ [Next]_vars => Inv'
<1> SUFFICES ASSUME Inv, [Next]_vars PROVE Inv'
  OBVIOUS
<1>1. CASE UNCHANGED vars
  BY <1>1, UnchangedInv DEF vars
<1>2. ASSUME NEW h \in Handles, NEW enabled \in BOOLEAN, Activate(h, enabled)
      PROVE  Inv'
  BY <1>2, ActivateInv
<1>3. ASSUME NEW h \in Handles, NEW p \in Periods, NEW l \in Latencies, Batch(h, p, l)
      PROVE  Inv'
  BY <1>3, ConfigureInv, ConfigAssumption DEF Batch
<1>4. ASSUME NEW h \in Handles, NEW p \in Periods, SetDelay(h, p) PROVE Inv'
  BY <1>4, ConfigureInv, ConfigAssumption DEF SetDelay
<1>5. ASSUME NEW h \in Handles, Flush(h) PROVE Inv'
  BY <1>5, UnchangedInv DEF Flush, NoWrite
<1> QED BY <1>1, <1>2, <1>3, <1>4, <1>5 DEF Next

LEMMA InvAlways == Spec => []Inv
BY InitInv, NextInv, PTL DEF Spec

\* No order of batch, setDelay, activate and failing writes leaves a register
\* whose last write worked with anything but what ap_send_config computes from
\* the stored configuration, or an inactive sensor running.
THEOREM ConfigFollowed == Spec => []ChipFollowsConfig
<1>1. Inv => ChipFollowsConfig
  BY DEF Inv
<1> QED BY <1>1, InvAlways, PTL

\* A running sensor's registers are those of its last request.
LEMMA RunningRegisters ==
    ASSUME Inv, NEW s \in Sensors, Running(s)
    PROVE  /\ asked[s].period \in Nat /\ asked[s].latency \in Nat
           /\ ClampPeriod(asked[s].period) \in MinDelay..MaxDelay
           /\ chip[s].odr =
                Odr(s, Config(asked[s].period, asked[s].latency))
           /\ chip[s].wm =
                Watermark(s, Config(asked[s].period, asked[s].latency))
<1>1. /\ asked[s].period \in Nat /\ asked[s].latency \in Nat
      /\ conf[s] = Config(asked[s].period, asked[s].latency)
  BY DEF Inv, ConfIsAsked, Running
<1>2. ClampPeriod(asked[s].period) \in MinDelay..MaxDelay
  BY <1>1, ClampRange
<1>3. \A r \in Registers : chip[s][r] = Wanted(s, conf[s])[r]
  BY DEF Inv, ChipFollowsConfig, Running
<1>4. chip[s].odr = Odr(s, conf[s]) /\ chip[s].wm = Watermark(s, conf[s])
  BY <1>3 DEF Registers, Wanted
<1> QED BY <1>1, <1>2, <1>4

LEMMA RunningRate ==
    ASSUME Inv, NEW s \in Sensors, Running(s)
    PROVE  LET code == EncodeDatarate(ClampPeriod(asked[s].period))
           IN  /\ s = "acc" => ChipRate(s) = AccRate(code)
               /\ s = "gyr" => ChipRate(s) = GyrRate(code)
<1>1. chip[s].odr = Odr(s, Config(asked[s].period, asked[s].latency))
  BY RunningRegisters
<1>2. Config(asked[s].period, asked[s].latency).data_rate
        = EncodeDatarate(ClampPeriod(asked[s].period))
  BY DEF Config
<1> HIDE DEF Config
<1> QED BY <1>1, <1>2 DEF ChipRate, AccRate, GyrRate, Odr

\* The chip is never slower than the request, short of the accelerometer's
\* limit, and never needlessly fast: for every clock resolution, every period
\* and every history of calls and failures.
THEOREM RateFollowsRequest == Spec => []RateInBand
<1>1. Inv => RateInBand
  <2> SUFFICES ASSUME Inv, NEW s \in Sensors, Running(s)
               PROVE  LET p == ClampPeriod(asked[s].period)
                      IN  /\ \/ ChipRate(s) * p >= 4 * Second
                             \/ s = "acc" /\ ChipRate(s) = 6400
                          /\ \/ 2 * ChipRate(s) * p <= 5 * 4 * Second
                             \/ s = "gyr" /\ ChipRate(s) = 400
    BY DEF RateInBand
  <2> DEFINE p == ClampPeriod(asked[s].period)
             code == EncodeDatarate(p)
  <2>1. p \in MinDelay..MaxDelay
    BY RunningRegisters
  <2>2. p \in Nat /\ Second \in Nat
    BY <2>1, UnitAssumption DEF MinDelay, MaxDelay, Second
  <2>3. CASE s = "acc"
    <3>1. ChipRate(s) = AccRate(code)
      BY <2>3, RunningRate
    <3>2. /\ AccRate(code) * p >= 4 * Second \/ AccRate(code) = 6400
          /\ 2 * (AccRate(code) * p) <= 20 * Second
      BY <2>1, AccRateInBand
    <3>3. AccRate(code) \in Int
      BY <2>1, Bands, AccRates
    <3> HIDE DEF p, code
    <3> QED BY <2>2, <2>3, <3>1, <3>2, <3>3 DEF p
  <2>4. CASE s = "gyr"
    <3>1. ChipRate(s) = GyrRate(code)
      BY <2>4, RunningRate
    <3>2. /\ GyrRate(code) * p >= 4 * Second
          /\ 2 * (GyrRate(code) * p) <= 20 * Second \/ GyrRate(code) = 400
      BY <2>1, GyrRateInBand
    <3>3. GyrRate(code) \in Int
      BY <2>1, Bands, GyrRates
    <3> HIDE DEF p, code
    <3> QED BY <2>2, <2>4, <3>1, <3>2, <3>3 DEF p
  <2> QED BY <2>3, <2>4 DEF Sensors
<1> QED BY <1>1, InvAlways, PTL

\* If n samples fit in l at period p, and rate is no slower than p, they fit
\* at that rate too.
LEMMA FillTime ==
    ASSUME NEW n \in Nat, NEW p \in Nat, NEW l \in Nat, NEW rate \in Nat,
           NEW t \in Nat, n * p <= l, rate * p >= t
    PROVE  n * t <= l * rate
<1>1. \A a, b, c \in Nat : a <= b => c * a <= c * b
  OBVIOUS
<1>2. rate * p \in Nat /\ n * p \in Nat
  OBVIOUS
<1>3. n * t <= n * (rate * p)
  BY <1>1, <1>2
<1>4. n * (rate * p) = rate * (n * p)
  OBVIOUS
<1>5. rate * (n * p) <= rate * l
  BY <1>1, <1>2
<1> QED BY <1>3, <1>4, <1>5

\* The FIFO never takes longer to reach its watermark than the latency of the
\* last request, for every clock resolution and every request; the only
\* exception is an accelerometer asked for more than its 1600 Hz.
THEOREM WatermarkFollowsLatency == Spec => []WatermarkInTime
<1>1. Inv => WatermarkInTime
  <2> SUFFICES ASSUME Inv, NEW s \in Sensors, Running(s), Samples(s) # 1,
                      ~(s = "acc" /\ ClampPeriod(asked[s].period) * 6400 < 4 * Second)
               PROVE  Samples(s) * 4 * Second <= asked[s].latency * ChipRate(s)
    BY DEF WatermarkInTime
  <2> DEFINE p == ClampPeriod(asked[s].period)
             l == asked[s].latency
             code == EncodeDatarate(p)
             len == FifoDataLen(l, p)
             max == IF s = "acc" THEN AccMaxFrames ELSE GyrMaxFrames
  <2>1. p \in MinDelay..MaxDelay /\ l \in Nat
    BY RunningRegisters
  <2>2. p \in Nat /\ p > 0 /\ 4 * Second \in Nat
    BY <2>1, UnitAssumption DEF MinDelay, MaxDelay, Second
  <2>3. max \in Nat /\ max >= 1
    BY DEF AccMaxFrames, GyrMaxFrames
  <2>4. len \in Nat
    <3>1. len \in UInt16
      BY <2>1, <2>2, FifoDataLenRange
    <3> QED BY <3>1 DEF UInt16
  <2>5. Frames(len, max) \in Nat
    <3>1. \A n, m \in Nat : m >= 1 => Frames(n, m) \in Nat
      BY DEF Frames
    <3> HIDE DEF len, max
    <3> QED BY <3>1, <2>3, <2>4
  <2>6. Samples(s) = Frames(len, max)
    <3>1. chip[s].wm = Watermark(s, Config(asked[s].period, asked[s].latency))
      BY RunningRegisters
    <3>2. Config(asked[s].period, asked[s].latency).fifo_data_len = len
      BY DEF Config
    <3>3. chip[s].wm = IF s = "acc" THEN 7 * Frames(len, max) ELSE Frames(len, max)
      BY <3>1, <3>2 DEF Watermark, BytesPerFrame
    <3>4. \A n \in Nat : (7 * n) \div 7 = n
      OBVIOUS
    <3> HIDE DEF len, max
    <3> QED BY <3>3, <3>4, <2>5 DEF Samples, BytesPerFrame
  <2>7. Frames(len, max) * p <= l
    BY <2>1, <2>2, <2>3, <2>6, FifoFillsInTime
  <2>8. ChipRate(s) * p >= 4 * Second /\ ChipRate(s) \in Nat
    <3>1. CASE s = "acc"
      <4>1. ChipRate(s) = AccRate(code)
        BY <3>1, RunningRate
      <4>2. AccRate(code) \in Nat
        BY <2>1, Bands, AccRates
      <4>3. 1600 * p >= Second
        BY <3>1, <2>2, UnitAssumption DEF Second
      <4>4. AccRate(code) * p >= 4 * Second
        BY <2>1, <4>3, AccRateReached
      <4> QED BY <4>1, <4>2, <4>4
    <3>2. CASE s = "gyr"
      <4>1. ChipRate(s) = GyrRate(code)
        BY <3>2, RunningRate
      <4>2. GyrRate(code) \in Nat
        BY <2>1, Bands, GyrRates
      <4>3. GyrRate(code) * p >= 4 * Second
        BY <2>1, GyrRateInBand
      <4> QED BY <4>1, <4>2, <4>3
    <3> QED BY <3>1, <3>2 DEF Sensors
  <2>9. Samples(s) * (4 * Second) <= l * ChipRate(s)
    <3> HIDE DEF p, l, len, max
    <3> QED BY <2>1, <2>2, <2>5, <2>6, <2>7, <2>8, FillTime
  <2>10. Samples(s) * 4 * Second = Samples(s) * (4 * Second)
    BY <2>5, <2>6, UnitAssumption DEF Second
  <2> QED BY <2>9, <2>10
<1> QED BY <1>1, InvAlways, PTL

\* Activating a sensor once more after a failure puts every register right, as
\* ap_activate intends by ignoring what activate_configref_resort returns.
THEOREM ActivateAlwaysRepairs == Spec => ActivateRepairs
<1>1. Inv /\ [Next]_vars =>
        [\A s \in Sensors :
           Activate(s, TRUE) /\ failed' = {} => chip'[s] = Wanted(s, conf[s])]_vars
  <2> SUFFICES ASSUME Inv, NEW s \in Sensors, Activate(s, TRUE), failed' = {}
               PROVE  chip'[s] = Wanted(s, conf[s])
    OBVIOUS
  <2> DEFINE values == Wanted(s, conf[s])
  <2>1. Write(s, values)
    BY DEF Activate, SendConfig
  <2>2. conf[s] \in [data_rate : Codes, fifo_data_len : UInt16]
    BY DEF Inv, Types
  <2>3. values \in [Registers -> Int]
    BY <2>2, WantedType
  <2>4. DOMAIN values = Registers
    BY <2>3
  <2> HIDE DEF values
  <2>5. chip' = [chip EXCEPT ![s] =
             [r \in Registers |-> IF r \in Registers \ {} THEN values[r] ELSE @[r]]]
    BY <2>1, <2>4 DEF Write
  <2>6. chip'[s] = [r \in Registers |-> values[r]]
    BY <2>5 DEF Inv, Types
  <2> QED BY <2>3, <2>6 DEF values
<1> QED BY <1>1, InvAlways, PTL DEF Spec, ActivateRepairs

-----------------------------------------------------------------------------
\* The values a register may hold, as TypeOK lists them.
Legal(s, r) ==
    CASE r = "pwr" -> {Unknown, Normal, Suspend(s)}
      [] r = "odr" -> {Unknown} \cup
            (IF s = "acc" THEN {12, 25, 50, 100, 200, 400, 800, 1600}
                          ELSE {12, 23, 47, 116, 523})
      [] r = "wm"  -> {Unknown} \cup
            (IF s = "acc" THEN {BytesPerFrame * n : n \in 1..AccMaxFrames}
                          ELSE 1..GyrMaxFrames)

LegalInv ==
    /\ \A s \in Sensors, r \in Registers : chip[s][r] \in Legal(s, r)
    /\ last \in {0, EINVAL}

\* A group of writes changes a register to the value written or not at all.
LEMMA WriteOrKeep ==
    ASSUME Types, NEW s \in Sensors, NEW D \in SUBSET Registers,
           NEW values \in [D -> Int], Write(s, values)
    PROVE  \A t \in Sensors, r \in Registers :
              \/ chip'[t][r] = chip[t][r]
              \/ t = s /\ r \in D /\ chip'[t][r] = values[r]
<1>1. DOMAIN values = D /\ chip \in [Sensors -> [Registers -> Int]]
  BY DEF Types
<1>2. PICK bad \in SUBSET D :
        /\ chip' = [chip EXCEPT ![s] =
              [r \in Registers |-> IF r \in D \ bad THEN values[r] ELSE @[r]]]
        /\ stale' = [stale EXCEPT ![s] = (@ \ (D \ bad)) \cup bad]
  BY <1>1, ZenonT(40) DEF Write
<1>3. /\ \A t \in Sensors : t # s => chip'[t] = chip[t]
      /\ \A r \in Registers :
            chip'[s][r] = IF r \in D \ bad THEN values[r] ELSE chip[s][r]
  BY <1>1, <1>2
<1> QED BY <1>3

LEMMA WantedLegal ==
    ASSUME NEW s \in Sensors,
           NEW c \in [data_rate : Codes, fifo_data_len : UInt16],
           NEW r \in Registers
    PROVE  Wanted(s, c)[r] \in Legal(s, r)
<1>1. c.data_rate \in Int /\ c.fifo_data_len \in Int
  <2>1. c.data_rate \in Codes /\ c.fifo_data_len \in UInt16
    OBVIOUS
  <2>2. \A n \in UInt16 : n \in Int
    BY DEF UInt16
  <2>3. \A n \in Codes : n \in Int
    BY DEF Codes
  <2> QED BY <2>1, <2>2, <2>3
<1>2. Odr(s, c) \in Legal(s, "odr")
  BY <1>1, CodeRateInt, OdrRange DEF Odr, Legal
<1>3. /\ Frames(c.fifo_data_len, AccMaxFrames) \in 1..AccMaxFrames
      /\ Frames(c.fifo_data_len, GyrMaxFrames) \in 1..GyrMaxFrames
  <2>1. /\ AccMaxFrames \in Nat /\ AccMaxFrames >= 1
        /\ GyrMaxFrames \in Nat /\ GyrMaxFrames >= 1
    BY DEF AccMaxFrames, GyrMaxFrames
  <2> QED BY <1>1, <2>1, FramesRange
<1>4. Watermark(s, c) \in Legal(s, "wm")
  BY <1>3 DEF Watermark, Legal
<1>5. Normal \in Legal(s, "pwr")
  BY DEF Legal
<1> QED BY <1>2, <1>4, <1>5 DEF Wanted, Registers

LEMMA LegalStep == Inv /\ LegalInv /\ [Next]_vars => LegalInv'
<1> SUFFICES ASSUME Inv, LegalInv, [Next]_vars PROVE LegalInv'
  OBVIOUS
<1>1. ASSUME NEW s \in Sensors,
             NEW c \in [data_rate : Codes, fifo_data_len : UInt16], SendConfig(s, c)
      PROVE  \A t \in Sensors, r \in Registers : chip'[t][r] \in Legal(t, r)
  <2>1. Wanted(s, c) \in [Registers -> Int]
    BY WantedType
  <2>2. \A t \in Sensors, r \in Registers :
           chip'[t][r] = chip[t][r] \/ (t = s /\ chip'[t][r] = Wanted(s, c)[r])
    <3> HIDE DEF Wanted
    <3> QED BY <1>1, <2>1, WriteOrKeep DEF SendConfig, Inv
  <2> QED BY <2>2, WantedLegal DEF LegalInv
<1>2. ASSUME NEW s \in Sensors, SendDisable(s)
      PROVE  \A t \in Sensors, r \in Registers : chip'[t][r] \in Legal(t, r)
  <2> DEFINE values == [r \in {"pwr"} |-> Suspend(s)]
  <2>1. values \in [{"pwr"} -> Int] /\ {"pwr"} \in SUBSET Registers
    BY DEF Suspend, Registers
  <2>2. values["pwr"] = Suspend(s)
    OBVIOUS
  <2>3. Write(s, values)
    BY <1>2 DEF SendDisable
  <2> HIDE DEF values
  <2>4. \A t \in Sensors, r \in Registers :
           chip'[t][r] = chip[t][r] \/ (t = s /\ r = "pwr" /\ chip'[t][r] = Suspend(s))
    BY <2>1, <2>2, <2>3, WriteOrKeep DEF Inv
  <2>5. \A t \in Sensors : Suspend(t) \in Legal(t, "pwr")
    BY DEF Legal
  <2> QED BY <2>4, <2>5 DEF LegalInv
<1>3. ASSUME NoWrite
      PROVE  \A t \in Sensors, r \in Registers : chip'[t][r] \in Legal(t, r)
  BY <1>3 DEF NoWrite, LegalInv
<1>4. CASE UNCHANGED vars
  BY <1>4 DEF vars, LegalInv
<1>5. ASSUME NEW h \in Handles, NEW enabled \in BOOLEAN, Activate(h, enabled)
      PROVE  LegalInv'
  <2>1. last' \in {0, EINVAL}
    BY <1>5 DEF Activate, Returns
  <2>2. \A s \in Sensors : conf[s] \in [data_rate : Codes, fifo_data_len : UInt16]
    BY DEF Inv, Types
  <2>3. \A t \in Sensors, r \in Registers : chip'[t][r] \in Legal(t, r)
    BY <1>1, <1>2, <1>3, <1>5, <2>2 DEF Activate
  <2> QED BY <2>1, <2>3 DEF LegalInv
<1>6. ASSUME NEW h \in Handles, NEW p \in Nat, NEW l \in Nat, Configure(h, p, l)
      PROVE  LegalInv'
  <2>1. last' \in {0, EINVAL}
    BY <1>6 DEF Configure, Returns
  <2>2. Config(p, l) \in [data_rate : Codes, fifo_data_len : UInt16]
    BY ConfigType
  <2>3. \A t \in Sensors, r \in Registers : chip'[t][r] \in Legal(t, r)
    BY <1>1, <1>3, <1>6, <2>2 DEF Configure
  <2> QED BY <2>1, <2>3 DEF LegalInv
<1>7. ASSUME NEW h \in Handles, Flush(h) PROVE LegalInv'
  BY <1>3, <1>7 DEF Flush, Returns, LegalInv
<1> QED BY <1>4, <1>5, <1>6, <1>7, ConfigAssumption DEF Next, Batch, SetDelay

\* For every request and every pattern of failing writes the registers hold
\* modes, rates and watermarks their chip knows, or were never written.
THEOREM ConfigTypes == Spec => []TypeOK
<1>1. Init => LegalInv
  BY DEF Init, LegalInv, Legal, Registers
<1>2. Inv /\ LegalInv => TypeOK
  <2> SUFFICES ASSUME Inv, LegalInv PROVE TypeOK
    OBVIOUS
  <2>1. Ref!TypeOK
    BY DEF Inv, RefProofs!IInv, RefProofs!TypeOK, Ref!TypeOK, RefProofs!Index,
           Ref!Index, RefProofs!Null, Ref!Null
  <2>2. \A s \in Sensors : DOMAIN chip[s] = Registers /\ stale[s] \subseteq Registers
    BY DEF Inv, Types
  <2>3. \A s \in Sensors : /\ chip[s].pwr \in Legal(s, "pwr")
                           /\ chip[s].odr \in Legal(s, "odr")
                           /\ chip[s].wm \in Legal(s, "wm")
    BY DEF LegalInv, Registers
  <2>4. conf \in [Sensors -> [data_rate : Codes, fifo_data_len : UInt16]]
    BY DEF Inv, Types
  <2> QED BY <2>1, <2>2, <2>3, <2>4 DEF TypeOK, Legal, LegalInv
<1> QED BY <1>1, <1>2, LegalStep, InvAlways, PTL DEF Spec
=============================================================================
