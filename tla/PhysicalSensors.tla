--------------------------- MODULE PhysicalSensors ---------------------------
(***************************************************************************)
(* ap_config_phyACC and ap_config_phyGYR for the chips that a board may    *)
(* carry instead of the SMI230: the BMI160, whose two sensors share the    *)
(* attribute fifo_data_sel, the BMA2x2 and the BMG160.  For the SMI230 the *)
(* functions write every attribute at every call (see SensorConfig); here  *)
(* is_acc_open and is_gyr_open decide which attributes a call writes.      *)
(*                                                                         *)
(* A step is one access to sysfs.  An access may fail: a write leaves the  *)
(* attribute as it was, and no result is looked at.  A read of             *)
(* fifo_data_sel that fails counts as 0, and as whatever the stack held if *)
(* the attribute was empty, since rd_sysfs_oneint then returns -errno with *)
(* an errno of 0.  The process may be killed and started again at any      *)
(* point: the flags are lost and the attributes keep their values.         *)
(*                                                                         *)
(* A BMI160 gyroscope beside another accelerometer is left out: nothing    *)
(* would give the directory of fifo_data_sel its name.                     *)
(***************************************************************************)
EXTENDS DataRate, ChipRates, Sequences

CONSTANTS
    Periods,     \* sampling periods of the stored configurations, in ticks
    SysfsFails,  \* may an access to sysfs fail?
    Restarts     \* may the process be killed and started again?

ASSUME PhysicalAssumption ==
    /\ Periods \subseteq Nat
    /\ SysfsFails \in BOOLEAN
    /\ Restarts \in BOOLEAN

Sensors == {"acc", "gyr"}

\* accl_chip and gyro_chip
Boards == {<<"BMI160", "BMI160">>, <<"BMI160", "BMG160">>, <<"BMA2x2", "BMG160">>}

Attributes == {"sel", "pwr", "odr"}

Off == 0      \* SAMPLE_RATE_DISABLED

VARIABLES
    board,   \* the chips
    sel,     \* fifo_data_sel: the sensors whose bit is set
    pwr,     \* op_mode, acc_op_mode, gyro_op_mode
    odr,     \* acc_odr, gyro_odr, bandwidth
    open,    \* is_acc_open, is_gyr_open
    call,    \* the call in progress and the writes it still has to do
    asked,   \* history: the rate of a sensor's last call
    stale    \* history: attributes that were not set as intended

vars == <<board, sel, pwr, odr, open, call, asked, stale>>

attributes == <<sel, pwr, odr>>

NoCall == [sensor |-> "none", rate |-> Off, todo |-> << >>]

Chip(s) == IF s = "acc" THEN board[1] ELSE board[2]

\* The rates ap_send_config passes on, and SAMPLE_RATE_DISABLED.
Rates == {CodeRate(EncodeDatarate(ClampPeriod(p))) : p \in Periods} \cup {Off}

Normal == 0
Suspend == 3

Init ==
    /\ board \in Boards
    /\ sel = {}
    /\ pwr = [s \in Sensors |-> Suspend]
    /\ odr = [s \in Sensors |-> 0]
    /\ open = [s \in Sensors |-> FALSE]
    /\ call = NoCall
    /\ asked = [s \in Sensors |-> Off]
    /\ stale = {}

\* Wrong variant: the gyroscope's rate goes through the accelerometer's table.
Odr_OneTable(s, rate) ==
    CASE Chip(s) = "BMI160" -> Bmi160AccOdr(rate)
      [] Chip(s) = "BMA2x2" -> Bma2x2Bandwidth(rate)
      [] Chip(s) = "BMG160" -> Bmg160Bandwidth(rate)

\* The value written to the data rate or bandwidth attribute.
Odr(s, rate) ==
    CASE Chip(s) = "BMI160" -> IF s = "acc" THEN Bmi160AccOdr(rate)
                                            ELSE Bmi160GyrOdr(rate)
      [] Chip(s) = "BMA2x2" -> Bma2x2Bandwidth(rate)
      [] Chip(s) = "BMG160" -> Bmg160Bandwidth(rate)

-----------------------------------------------------------------------------
Write(attribute, value) == [attribute |-> attribute, value |-> value]

\* Wrong variant: the power mode is written before the sensor is selected.
Opening_ModeFirst(s, regval) ==
    IF Chip(s) = "BMI160"
    THEN << Write("pwr", Normal), Write("sel", regval \cup {s}) >>
    ELSE << Write("pwr", Normal) >>

\* "when opening in BMI160, set op mode at last"
Opening(s, regval) ==
    IF Chip(s) = "BMI160"
    THEN << Write("sel", regval \cup {s}), Write("pwr", Normal) >>
    ELSE << Write("pwr", Normal) >>

\* Wrong variant: the sensor that is shut down stays selected.
Closing_KeepsBit(s, regval) == << Write("pwr", Suspend) >>

\* "when closing in BMI160, set op mode firstly"
Closing(s, regval) ==
    IF Chip(s) = "BMI160"
    THEN << Write("pwr", Suspend), Write("sel", regval \ {s}) >>
    ELSE << Write("pwr", Suspend) >>

\* The writes of a call, by the flag and by the value read of fifo_data_sel.
Writes(s, rate, regval) ==
    IF rate = Off
    THEN IF open[s] THEN Closing(s, regval) ELSE << >>
    ELSE << Write("odr", Odr(s, rate)) >>
         \o (IF open[s] THEN << >> ELSE Opening(s, regval))

\* What a read of fifo_data_sel may leave in fifo_data_sel_regval.
ReadValues == IF SysfsFails THEN SUBSET Sensors ELSE {sel}

\* A call up to its first write.
Configure(s, rate) ==
    /\ call = NoCall
    /\ \E regval \in IF Chip(s) = "BMI160" THEN ReadValues ELSE {sel} :
          call' = [sensor |-> s, rate |-> rate, todo |-> Writes(s, rate, regval)]
    /\ asked' = [asked EXCEPT ![s] = rate]
    /\ UNCHANGED <<board, attributes, open, stale>>

\* The sensors whose bit a write of fifo_data_sel changes by mistake.
Disturbed(s, value) == {t \in Sensors \ {s} : (t \in value) # (t \in sel)}

WriteWorks ==
    LET s == call.sensor
        w == Head(call.todo)
    IN  /\ sel' = IF w.attribute = "sel" THEN w.value ELSE sel
        /\ pwr' = IF w.attribute = "pwr" THEN [pwr EXCEPT ![s] = w.value] ELSE pwr
        /\ odr' = IF w.attribute = "odr" THEN [odr EXCEPT ![s] = w.value] ELSE odr
        /\ stale' = (stale \ {<<s, w.attribute>>}) \cup
              (IF w.attribute = "sel" THEN Disturbed(s, w.value) \X {"sel"} ELSE {})

WriteFails ==
    /\ SysfsFails
    /\ stale' = stale \cup {<<call.sensor, Head(call.todo).attribute>>}
    /\ UNCHANGED attributes

WriteNext ==
    /\ call.todo # << >>
    /\ call' = [call EXCEPT !.todo = Tail(@)]
    /\ WriteWorks \/ WriteFails
    /\ UNCHANGED <<board, open, asked>>

\* Wrong variant: the flag is not reset when the sensor is shut down.
Finish_KeepsFlag ==
    /\ call # NoCall /\ call.todo = << >>
    /\ open' = [open EXCEPT ![call.sensor] = @ \/ call.rate # Off]
    /\ call' = NoCall
    /\ UNCHANGED <<board, attributes, asked, stale>>

\* The flag says what was asked for, whatever the writes returned.
Finish ==
    /\ call # NoCall /\ call.todo = << >>
    /\ open' = [open EXCEPT ![call.sensor] = call.rate # Off]
    /\ call' = NoCall
    /\ UNCHANGED <<board, attributes, asked, stale>>

\* The process dies and is started again, with no sensor active.
Restart ==
    /\ Restarts
    /\ open' = [s \in Sensors |-> FALSE]
    /\ call' = NoCall
    /\ asked' = [s \in Sensors |-> Off]
    /\ stale' = stale \cup (sel \X {"sel"})
                      \cup ({s \in Sensors : pwr[s] = Normal} \X {"pwr"})
    /\ UNCHANGED <<board, attributes>>

Next ==
    \/ \E s \in Sensors, rate \in Rates : Configure(s, rate)
    \/ WriteNext \/ Finish \/ Restart

Spec == Init /\ [][Next]_vars

-----------------------------------------------------------------------------
\* What the data rate or bandwidth attribute of a chip can be set to; 0 is
\* the value before the first write.
OdrValues(s) ==
    CASE Chip(s) = "BMI160" -> IF s = "acc" THEN 4..10 ELSE 6..10
      [] Chip(s) = "BMA2x2" -> 8..13
      [] Chip(s) = "BMG160" -> 3..5

ValuesOf(s, a) ==
    CASE a = "sel" -> SUBSET Sensors
      [] a = "pwr" -> {Normal, Suspend}
      [] a = "odr" -> OdrValues(s)

\* Every attribute only ever holds, and every call in progress only ever
\* writes, a value the sensor's own chip knows: no table gives the other
\* sensor's codes, and no rate falls through all bands of one.
TypeOK ==
    /\ board \in Boards
    /\ sel \subseteq Sensors
    /\ pwr \in [Sensors -> {Normal, Suspend}]
    /\ DOMAIN odr = Sensors
    /\ \A s \in Sensors : odr[s] \in OdrValues(s) \cup {0}
    /\ open \in [Sensors -> BOOLEAN]
    /\ asked \in [Sensors -> Rates]
    /\ stale \subseteq Sensors \X Attributes
    /\ \/ call = NoCall
       \/ /\ call.sensor \in Sensors
          /\ call.rate \in Rates
          /\ \A i \in DOMAIN call.todo : LET w == call.todo[i] IN
                w.attribute \in Attributes /\ w.value \in ValuesOf(call.sensor, w.attribute)

IsRunning(s) == asked[s] # Off

\* Between two calls every attribute that was set as intended agrees with the
\* last call of its sensor: the flags, which skip writes, never skip one that
\* was needed, and the two sensors never undo each other's bit.
AttributesFollow ==
    call = NoCall =>
      \A s \in Sensors :
        /\ <<s, "pwr">> \notin stale =>
              pwr[s] = IF IsRunning(s) THEN Normal ELSE Suspend
        /\ Chip(s) = "BMI160" /\ <<s, "sel">> \notin stale =>
              (s \in sel <=> IsRunning(s))
        /\ IsRunning(s) /\ <<s, "odr">> \notin stale =>
              odr[s] = Odr(s, asked[s])

\* A BMI160 sensor is in normal mode only while it is selected, also between
\* two writes of a call: it never produces samples the FIFO leaves out.
NormalIsSelected ==
    \A s \in Sensors :
        /\ Chip(s) = "BMI160" /\ pwr[s] = Normal
        /\ <<s, "pwr">> \notin stale /\ <<s, "sel">> \notin stale
        => s \in sel

ChipRate(s) ==
    CASE Chip(s) = "BMI160" -> Bmi160Rate(odr[s])
      [] Chip(s) = "BMA2x2" -> Bma2x2Rate(odr[s])
      [] Chip(s) = "BMG160" -> Bmg160Rate(odr[s])

Fastest(s) == IF Chip(s) = "BMA2x2" THEN 2000 ELSE 1600

Slowest(s) ==
    CASE Chip(s) = "BMI160" -> IF s = "acc" THEN 25 ELSE 100
      [] Chip(s) = "BMA2x2" -> 62
      [] Chip(s) = "BMG160" -> 400

\* A running sensor samples at least as fast as the stored configuration says
\* and at most two and a half times as fast, within what its chip can do.
RateServed ==
    \A s \in Sensors :
        call = NoCall /\ IsRunning(s) /\ <<s, "odr">> \notin stale =>
            /\ ChipRate(s) >= asked[s] \/ ChipRate(s) = Fastest(s)
            /\ 2 * ChipRate(s) <= 5 * asked[s] \/ ChipRate(s) = Slowest(s)
=============================================================================
