----------------------- MODULE PhysicalSensors_proofs ------------------------
(***************************************************************************)
(* What the flags and the writes of ap_config_phyACC and ap_config_phyGYR  *)
(* keep true on every board, for every set of periods, with or without     *)
(* failing accesses and restarts.  The invariant follows each attribute of *)
(* each sensor: its write is still to come, or it was not set as intended, *)
(* or it holds what the sensor's last call asked for.                      *)
(***************************************************************************)
EXTENDS PhysicalSensors, TLAPS

\* What a call may write, on any board.
AllWrites == [attribute : Attributes, value : (0..13) \cup SUBSET Sensors]

CallRecords == [sensor : Sensors, rate : Rates, todo : Seq(AllWrites)]

Types ==
    /\ board \in Boards
    /\ sel \in SUBSET Sensors
    /\ pwr \in [Sensors -> {Normal, Suspend}]
    /\ odr \in [Sensors -> 0..13]
    /\ \A s \in Sensors : odr[s] \in OdrValues(s) \cup {0}
    /\ open \in [Sensors -> BOOLEAN]
    /\ asked \in [Sensors -> Rates]
    /\ stale \in SUBSET (Sensors \X Attributes)
    /\ call \in CallRecords \cup {NoCall}

\* The write of a call sets its attribute as the call wants it.
Intended(s, rate, w) ==
    CASE w.attribute = "pwr" -> w.value = IF rate = Off THEN Suspend ELSE Normal
      [] w.attribute = "sel" -> /\ w.value \in SUBSET Sensors
                                /\ s \in w.value <=> rate # Off
      [] w.attribute = "odr" -> w.value = Odr(s, rate) /\ rate # Off

\* A sensor is selected before it is started and stopped before it is
\* deselected.
Ordered(todo, rate) ==
    \A i, j \in DOMAIN todo :
        todo[i].attribute = "sel" /\ todo[j].attribute = "pwr" =>
            IF rate = Off THEN j < i ELSE i < j

GoodWrites(s, rate, todo) ==
    /\ \A i \in DOMAIN todo : Intended(s, rate, todo[i])
    /\ Ordered(todo, rate)

Contains(todo, a) == \E i \in DOMAIN todo : todo[i].attribute = a

Pending(s, a) == call.sensor = s /\ Contains(call.todo, a)

\* The attribute agrees with the sensor's last call.
Follows(s, a) ==
    CASE a = "pwr" -> pwr[s] = IF IsRunning(s) THEN Normal ELSE Suspend
      [] a = "sel" -> Chip(s) = "BMI160" => (s \in sel <=> IsRunning(s))
      [] a = "odr" -> IsRunning(s) => odr[s] = Odr(s, asked[s])

CallInv ==
    call # NoCall =>
        /\ asked[call.sensor] = call.rate
        /\ GoodWrites(call.sensor, call.rate, call.todo)

FlagInv == \A s \in Sensors : call.sensor # s => (open[s] <=> IsRunning(s))

AttributeInv ==
    \A s \in Sensors, a \in Attributes :
        Pending(s, a) \/ <<s, a>> \in stale \/ Follows(s, a)

ChipInv == Types /\ CallInv /\ FlagInv /\ AttributeInv /\ NormalIsSelected

-----------------------------------------------------------------------------
\* What a stored configuration can ask for.
LEMMA RatesAsked ==
    ASSUME NEW rate \in Rates
    PROVE  rate \in {0, 25, 50, 100, 200, 400, 800, 1600, 3200, 4000, 6400, 8000}
<1>1. CASE rate = Off
  BY <1>1 DEF Off
<1>2. CASE \E p \in Periods : rate = CodeRate(EncodeDatarate(ClampPeriod(p)))
  <2>1. PICK p \in Periods : rate = CodeRate(EncodeDatarate(ClampPeriod(p)))
    BY <1>2
  <2>2. ClampPeriod(p) \in MinDelay..MaxDelay
    BY PhysicalAssumption, UnitAssumption DEF ClampPeriod, MinDelay, MaxDelay
  <2>3. EncodeDatarate(ClampPeriod(p)) \in {18, 17, 16, 15, 1, 2, 3, 4, 5, 6, 7}
    BY <2>2, UnitAssumption DEF EncodeDatarate, Within, Second, MinDelay, MaxDelay
  <2> QED BY <2>1, <2>3 DEF CodeRate
<1> QED BY <1>1, <1>2 DEF Rates

LEMMA OffIsRate == Off \in Rates
BY DEF Rates

\* Every rate but SAMPLE_RATE_DISABLED has a code of the sensor's own chip.
LEMMA OdrRange ==
    ASSUME board \in Boards, NEW s \in Sensors, NEW rate \in Rates, rate # Off
    PROVE  Odr(s, rate) \in OdrValues(s) /\ Odr(s, rate) \in 0..13
<1>1. rate \in {25, 50, 100, 200, 400, 800, 1600, 3200, 4000, 6400, 8000}
  BY RatesAsked DEF Off
<1>2. Bmi160AccOdr(rate) \in 4..10 /\ Bmi160GyrOdr(rate) \in 6..10
  BY <1>1 DEF Bmi160AccOdr, Bmi160GyrOdr
<1>3. Bma2x2Bandwidth(rate) \in 8..13 /\ Bmg160Bandwidth(rate) \in 3..5
  BY <1>1 DEF Bma2x2Bandwidth, Bmg160Bandwidth
<1>4. Chip(s) \in {"BMI160", "BMA2x2", "BMG160"}
  BY DEF Chip, Boards, Sensors
<1> QED BY <1>2, <1>3, <1>4 DEF Odr, OdrValues

-----------------------------------------------------------------------------
\* What is left of a call's writes when the first is done.
LEMMA TailWrites ==
    ASSUME NEW s, NEW rate, NEW todo \in Seq(AllWrites), todo # << >>,
           GoodWrites(s, rate, todo)
    PROVE  /\ Tail(todo) \in Seq(AllWrites)
           /\ GoodWrites(s, rate, Tail(todo))
<1>1. /\ Tail(todo) \in Seq(AllWrites)
      /\ \A i \in DOMAIN Tail(todo) :
            i + 1 \in DOMAIN todo /\ Tail(todo)[i] = todo[i + 1]
      /\ DOMAIN Tail(todo) \subseteq Nat
  OBVIOUS
<1>2. Ordered(Tail(todo), rate)
  <2> SUFFICES ASSUME NEW i \in DOMAIN Tail(todo), NEW j \in DOMAIN Tail(todo),
                      Tail(todo)[i].attribute = "sel",
                      Tail(todo)[j].attribute = "pwr"
               PROVE  IF rate = Off THEN j < i ELSE i < j
    BY DEF Ordered
  <2>1. IF rate = Off THEN j + 1 < i + 1 ELSE i + 1 < j + 1
    BY <1>1 DEF GoodWrites, Ordered
  <2> QED BY <2>1, <1>1
<1>3. \A i \in DOMAIN Tail(todo) : Intended(s, rate, Tail(todo)[i])
  BY <1>1 DEF GoodWrites
<1> QED BY <1>1, <1>2, <1>3 DEF GoodWrites

\* The first write sets one attribute, and the others stay pending.
LEMMA HeadWrite ==
    ASSUME NEW s, NEW rate, NEW todo \in Seq(AllWrites), todo # << >>,
           GoodWrites(s, rate, todo)
    PROVE  /\ Head(todo) \in AllWrites
           /\ Intended(s, rate, Head(todo))
           /\ \A a \in Attributes : Contains(todo, a) =>
                 a = Head(todo).attribute \/ Contains(Tail(todo), a)
           /\ rate # Off /\ Head(todo).attribute = "pwr" => ~Contains(todo, "sel")
           /\ rate = Off /\ Head(todo).attribute = "sel" => ~Contains(todo, "pwr")
<1>1. 1 \in DOMAIN todo /\ Head(todo) = todo[1] /\ Head(todo) \in AllWrites
  OBVIOUS
<1>2. DOMAIN todo \subseteq Nat \ {0}
  OBVIOUS
<1>3. ASSUME NEW a \in Attributes, Contains(todo, a), a # Head(todo).attribute
      PROVE  Contains(Tail(todo), a)
  <2>1. PICK i \in DOMAIN todo : todo[i].attribute = a
    BY <1>3 DEF Contains
  <2>2. i # 1
    BY <2>1, <1>1, <1>3
  <2>3. i - 1 \in DOMAIN Tail(todo) /\ Tail(todo)[i - 1] = todo[i]
    BY <2>1, <2>2
  <2> QED BY <2>1, <2>3 DEF Contains
<1>4. \A i, j \in DOMAIN todo :
        todo[i].attribute = "sel" /\ todo[j].attribute = "pwr" =>
            IF rate = Off THEN j < i ELSE i < j
  BY DEF GoodWrites, Ordered
<1>5. ~(1 < 1) /\ \A i \in Nat \ {0} : ~(i < 1)
  OBVIOUS
<1>6. ASSUME rate # Off, Head(todo).attribute = "pwr", Contains(todo, "sel")
      PROVE  FALSE
  BY <1>1, <1>2, <1>4, <1>5, <1>6 DEF Contains
<1>7. ASSUME rate = Off, Head(todo).attribute = "sel", Contains(todo, "pwr")
      PROVE  FALSE
  BY <1>1, <1>2, <1>4, <1>5, <1>7 DEF Contains
<1> QED BY <1>1, <1>3, <1>6, <1>7 DEF GoodWrites

-----------------------------------------------------------------------------
\* The writes of a call are as intended and in order, and an attribute they
\* leave out already is as the call wants it, as far as the flag can say.
LEMMA WritesGood ==
    ASSUME Types, NEW s \in Sensors, NEW rate \in Rates, NEW regval \in SUBSET Sensors
    PROVE  /\ Writes(s, rate, regval) \in Seq(AllWrites)
           /\ GoodWrites(s, rate, Writes(s, rate, regval))
           /\ rate # Off => Contains(Writes(s, rate, regval), "odr")
           /\ ~(open[s] <=> rate # Off) =>
                 /\ Contains(Writes(s, rate, regval), "pwr")
                 /\ Chip(s) = "BMI160" => Contains(Writes(s, rate, regval), "sel")
<1> DEFINE W == Writes(s, rate, regval)
           odrW == Write("odr", Odr(s, rate))
           on == Write("pwr", Normal)
           off == Write("pwr", Suspend)
           add == Write("sel", regval \cup {s})
           del == Write("sel", regval \ {s})
<1>1. rate # Off => odrW \in AllWrites /\ Intended(s, rate, odrW) /\ odrW.attribute = "odr"
  BY OdrRange DEF Types, AllWrites, Write, Attributes, Intended
<1>2. /\ on \in AllWrites /\ on.attribute = "pwr"
      /\ off \in AllWrites /\ off.attribute = "pwr"
      /\ add \in AllWrites /\ add.attribute = "sel"
      /\ del \in AllWrites /\ del.attribute = "sel"
  BY DEF AllWrites, Write, Attributes, Normal, Suspend, Sensors
<1>3. IF rate = Off THEN Intended(s, rate, off) /\ Intended(s, rate, del)
                    ELSE Intended(s, rate, on) /\ Intended(s, rate, add)
  BY DEF Intended, Write, Normal, Suspend
<1> HIDE DEF odrW, on, off, add, del
<1>4. CASE rate = Off /\ open[s] /\ Chip(s) = "BMI160"
  <2>1. W = << off, del >>
    BY <1>4 DEF Writes, Closing, off, del
  <2> QED BY <2>1, <1>2, <1>3, <1>4 DEF GoodWrites, Ordered, Contains
<1>5. CASE rate = Off /\ open[s] /\ Chip(s) # "BMI160"
  <2>1. W = << off >>
    BY <1>5 DEF Writes, Closing, off
  <2> QED BY <2>1, <1>2, <1>3, <1>5 DEF GoodWrites, Ordered, Contains
<1>6. CASE rate = Off /\ ~open[s]
  <2>1. W = << >>
    BY <1>6 DEF Writes
  <2> QED BY <2>1, <1>6 DEF GoodWrites, Ordered, Contains
<1>7. CASE rate # Off /\ open[s]
  <2>1. W = << odrW >>
    BY <1>7 DEF Writes, odrW
  <2> QED BY <2>1, <1>1, <1>7 DEF GoodWrites, Ordered, Contains
<1>8. CASE rate # Off /\ ~open[s] /\ Chip(s) = "BMI160"
  <2>1. W = << odrW >> \o << add, on >>
    BY <1>8 DEF Writes, Opening, odrW, add, on
  <2>2. /\ W \in Seq(AllWrites) /\ DOMAIN W = 1..3
        /\ W[1] = odrW /\ W[2] = add /\ W[3] = on
    BY <2>1, <1>1, <1>2, <1>8
  <2> HIDE DEF W
  <2>3. GoodWrites(s, rate, W)
    BY <2>2, <1>1, <1>2, <1>3, <1>8 DEF GoodWrites, Ordered
  <2> QED BY <2>2, <2>3, <1>1, <1>2, <1>8 DEF Contains, W
<1>9. CASE rate # Off /\ ~open[s] /\ Chip(s) # "BMI160"
  <2>1. W = << odrW >> \o << on >>
    BY <1>9 DEF Writes, Opening, odrW, on
  <2>2. /\ W \in Seq(AllWrites) /\ DOMAIN W = 1..2
        /\ W[1] = odrW /\ W[2] = on
    BY <2>1, <1>1, <1>2, <1>9
  <2> HIDE DEF W
  <2>3. GoodWrites(s, rate, W)
    BY <2>2, <1>1, <1>2, <1>3, <1>9 DEF GoodWrites, Ordered
  <2> QED BY <2>2, <2>3, <1>1, <1>2, <1>9 DEF Contains, W
<1>10. open[s] \in BOOLEAN
  BY DEF Types
<1> QED BY <1>4, <1>5, <1>6, <1>7, <1>8, <1>9, <1>10

-----------------------------------------------------------------------------
LEMMA NoCallSensor == \A s \in Sensors : NoCall.sensor # s
BY DEF NoCall, Sensors

LEMMA InitChip == Init => ChipInv
<1> SUFFICES ASSUME Init PROVE ChipInv
  OBVIOUS
<1>1. Types
  BY OffIsRate DEF Init, Types, OdrValues, Suspend
<1>2. ~IsRunning("acc") /\ ~IsRunning("gyr")
  BY DEF Init, IsRunning, Sensors
<1>3. FlagInv /\ CallInv
  BY <1>2 DEF Init, FlagInv, CallInv, Sensors
<1>4. AttributeInv
  BY <1>2 DEF Init, AttributeInv, Follows, Attributes, Sensors
<1>5. NormalIsSelected
  BY DEF Init, NormalIsSelected, Normal, Suspend
<1> QED BY <1>1, <1>3, <1>4, <1>5 DEF ChipInv

\* The state a restart leaves is one the flags describe, apart from what is
\* stale.
LEMMA RestartStep ==
    ASSUME ChipInv, Restart
    PROVE  ChipInv'
<1> USE DEF ChipInv
<1>1. Types'
  BY OffIsRate DEF Types, Restart, attributes, OdrValues, Chip, Attributes
<1>2. \A s \in Sensors : ~IsRunning(s)' /\ open'[s] = FALSE
  BY DEF Restart, IsRunning
<1>3. FlagInv' /\ CallInv'
  BY <1>2 DEF FlagInv, CallInv, Restart
<1>4. AttributeInv'
  <2> SUFFICES ASSUME NEW s \in Sensors, NEW a \in Attributes,
                      <<s, a>> \notin stale'
               PROVE  Follows(s, a)'
    BY DEF AttributeInv
  <2>1. CASE a = "pwr"
    <3>1. pwr[s] # Normal
      BY <2>1 DEF Restart
    <3> QED BY <3>1, <2>1, <1>2 DEF Follows, Types, Restart, attributes
  <2>2. CASE a = "sel"
    <3>1. s \notin sel
      BY <2>2 DEF Restart
    <3> QED BY <3>1, <2>2, <1>2 DEF Follows, Restart, attributes
  <2>3. CASE a = "odr"
    BY <2>3, <1>2 DEF Follows
  <2> QED BY <2>1, <2>2, <2>3 DEF Attributes
<1>5. NormalIsSelected'
  <2> SUFFICES ASSUME NEW s \in Sensors, pwr'[s] = Normal, <<s, "pwr">> \notin stale'
               PROVE  FALSE
    BY DEF NormalIsSelected
  <2> QED BY DEF Restart, attributes
<1> QED BY <1>1, <1>3, <1>4, <1>5

\* A call starts with all it may have to change among its writes.
LEMMA ConfigureStep ==
    ASSUME ChipInv, NEW s \in Sensors, NEW rate \in Rates, Configure(s, rate)
    PROVE  ChipInv'
<1> USE DEF ChipInv
<1>1. PICK regval \in SUBSET Sensors :
         call' = [sensor |-> s, rate |-> rate, todo |-> Writes(s, rate, regval)]
  BY DEF Configure, ReadValues, Types
<1> DEFINE W == Writes(s, rate, regval)
<1>2. /\ W \in Seq(AllWrites)
      /\ GoodWrites(s, rate, W)
      /\ rate # Off => Contains(W, "odr")
      /\ ~(open[s] <=> rate # Off) =>
            Contains(W, "pwr") /\ (Chip(s) = "BMI160" => Contains(W, "sel"))
  BY WritesGood
<1> HIDE DEF W
<1>3. /\ call'.sensor = s /\ call'.rate = rate /\ call'.todo = W
      /\ call' \in CallRecords
  BY <1>1, <1>2 DEF CallRecords, W
<1>4. asked' = [asked EXCEPT ![s] = rate] /\ call = NoCall
      /\ UNCHANGED <<board, sel, pwr, odr, open, stale>>
  BY DEF Configure, attributes
<1>5. Types'
  BY <1>3, <1>4 DEF Types, OdrValues, Chip
<1>6. /\ asked'[s] = rate
      /\ \A t \in Sensors : t # s => asked'[t] = asked[t]
  BY <1>4 DEF Types
<1>7. CallInv'
  <2>1. asked'[call'.sensor] = call'.rate
    BY <1>3, <1>6
  <2>2. (\A i \in DOMAIN call.todo :
            Intended(call.sensor, call.rate, call.todo[i]))'
    BY <1>2, <1>3, <1>4 DEF GoodWrites, Intended, Odr, Chip
  <2>3. Ordered(call'.todo, call'.rate)
    BY <1>2, <1>3 DEF GoodWrites
  <2> QED BY <2>1, <2>2, <2>3 DEF CallInv, GoodWrites, Ordered
<1>8. \A t \in Sensors : open[t] <=> IsRunning(t)
  BY <1>4, NoCallSensor DEF FlagInv
<1>9. FlagInv'
  BY <1>3, <1>4, <1>6, <1>8 DEF FlagInv, IsRunning
<1>10. AttributeInv'
  <2> SUFFICES ASSUME NEW t \in Sensors, NEW a \in Attributes,
                      <<t, a>> \notin stale'
               PROVE  Pending(t, a)' \/ Follows(t, a)'
    BY DEF AttributeInv
  <2>1. Follows(t, a)
    BY <1>4, NoCallSensor DEF AttributeInv, Pending
  <2>2. CASE t # s
    BY <2>1, <2>2, <1>4, <1>6 DEF Follows, IsRunning, Odr, Chip, Attributes
  <2>3. CASE t = s
    <3>1. Pending(s, a)' <=> Contains(W, a)
      BY <1>3 DEF Pending, Contains
    <3>2. CASE a = "odr"
      BY <3>1, <3>2, <2>3, <1>2, <1>6 DEF Follows, IsRunning
    <3>3. CASE a = "pwr"
      BY <3>1, <3>3, <2>1, <2>3, <1>2, <1>4, <1>6, <1>8 DEF Follows, IsRunning
    <3>4. CASE a = "sel"
      BY <3>1, <3>4, <2>1, <2>3, <1>2, <1>4, <1>6, <1>8 DEF Follows, IsRunning, Chip
    <3> QED BY <3>2, <3>3, <3>4 DEF Attributes
  <2> QED BY <2>2, <2>3
<1>11. NormalIsSelected'
  BY <1>4 DEF NormalIsSelected, Chip
<1> QED BY <1>5, <1>7, <1>9, <1>10, <1>11

\* A call that has no write left has set its sensor's flag to what it asked.
LEMMA FinishStep ==
    ASSUME ChipInv, Finish
    PROVE  ChipInv'
<1> USE DEF ChipInv
<1>1. /\ call.sensor \in Sensors /\ call.todo = << >>
      /\ open' = [open EXCEPT ![call.sensor] = call.rate # Off]
      /\ call' = NoCall
      /\ UNCHANGED <<board, sel, pwr, odr, asked, stale>>
  BY DEF Finish, Types, CallRecords, attributes
<1>2. (call.rate # Off) \in BOOLEAN
  OBVIOUS
<1>3. Types'
  BY <1>1, <1>2 DEF Types, OdrValues, Chip
<1>4. CallInv'
  BY <1>1 DEF CallInv
<1>5. asked[call.sensor] = call.rate
  BY DEF CallInv, Finish
<1>6. FlagInv'
  BY <1>1, <1>5 DEF FlagInv, IsRunning, Types
<1>7. AttributeInv'
  <2>1. \A s \in Sensors, a \in Attributes : ~Pending(s, a)
    BY <1>1 DEF Pending, Contains
  <2>2. \A s \in Sensors, a \in Attributes : Follows(s, a)' <=> Follows(s, a)
    BY <1>1 DEF Follows, IsRunning, Odr, Chip, Attributes
  <2> QED BY <2>1, <2>2, <1>1 DEF AttributeInv
<1>8. NormalIsSelected'
  BY <1>1 DEF NormalIsSelected, Chip
<1> QED BY <1>3, <1>4, <1>6, <1>7, <1>8

-----------------------------------------------------------------------------
\* What a write leaves of its call, whether it works or not.
LEMMA CallAfterWrite ==
    ASSUME ChipInv, WriteNext
    PROVE  /\ call \in CallRecords
           /\ call' \in CallRecords
           /\ call'.sensor = call.sensor
           /\ call'.rate = call.rate
           /\ call'.todo = Tail(call.todo)
           /\ CallInv' /\ FlagInv'
<1> USE DEF ChipInv
<1>1. call \in CallRecords /\ call.todo \in Seq(AllWrites) /\ call.todo # << >>
  BY DEF Types, WriteNext, NoCall, CallRecords
<1>2. call # NoCall
  BY <1>1 DEF WriteNext, NoCall
<1>3. GoodWrites(call.sensor, call.rate, call.todo) /\ asked[call.sensor] = call.rate
  BY <1>2 DEF CallInv
<1>4. /\ Tail(call.todo) \in Seq(AllWrites)
      /\ GoodWrites(call.sensor, call.rate, Tail(call.todo))
  BY <1>1, <1>3, TailWrites
<1>5. /\ call' \in CallRecords /\ call'.sensor = call.sensor
      /\ call'.rate = call.rate /\ call'.todo = Tail(call.todo)
  BY <1>1, <1>4 DEF WriteNext, CallRecords
<1>6. UNCHANGED <<board, open, asked>>
  BY DEF WriteNext
<1>7. CallInv'
  <2>1. (\A i \in DOMAIN call.todo :
            Intended(call.sensor, call.rate, call.todo[i]))'
    BY <1>4, <1>5, <1>6 DEF GoodWrites, Intended, Odr, Chip
  <2>2. Ordered(call'.todo, call'.rate)
    BY <1>4, <1>5 DEF GoodWrites
  <2> QED BY <1>3, <1>5, <1>6, <2>1, <2>2 DEF CallInv, GoodWrites, Ordered
<1>8. FlagInv'
  BY <1>5, <1>6 DEF FlagInv, IsRunning
<1> QED BY <1>1, <1>5, <1>7, <1>8

\* A write that fails leaves its attribute stale and everything else as it was.
LEMMA WriteFailsStep ==
    ASSUME ChipInv, WriteNext, WriteFails
    PROVE  ChipInv'
<1> USE DEF ChipInv
<1> DEFINE s == call.sensor
           w == Head(call.todo)
<1>1. /\ s \in Sensors /\ call.todo \in Seq(AllWrites) /\ call.todo # << >>
      /\ call # NoCall /\ GoodWrites(s, call.rate, call.todo)
  <2>1. /\ call \in CallRecords /\ call.todo \in Seq(AllWrites)
        /\ s \in Sensors /\ call.rate \in Rates
    BY CallAfterWrite DEF CallRecords
  <2>2. call.todo # << >> /\ call # NoCall
    BY <2>1, NoCallSensor DEF WriteNext
  <2> QED BY <2>1, <2>2 DEF CallInv
<1>2. /\ w \in AllWrites
      /\ \A a \in Attributes : Contains(call.todo, a) =>
            a = w.attribute \/ Contains(Tail(call.todo), a)
  BY <1>1, HeadWrite
<1>3. /\ stale' = stale \cup {<<s, w.attribute>>}
      /\ UNCHANGED <<board, sel, pwr, odr, open, asked>>
  BY DEF WriteFails, WriteNext, attributes
<1>4. call' \in CallRecords /\ call'.sensor = s /\ call'.todo = Tail(call.todo)
  BY CallAfterWrite
<1> HIDE DEF s, w
<1>5. Types'
  <2>1. w.attribute \in Attributes
    BY <1>2 DEF AllWrites
  <2>2. stale' \in SUBSET (Sensors \X Attributes)
    BY <2>1, <1>1, <1>3 DEF Types
  <2> QED BY <2>2, <1>3, <1>4 DEF Types, OdrValues, Chip
<1>6. AttributeInv'
  <2> SUFFICES ASSUME NEW t \in Sensors, NEW a \in Attributes,
                      <<t, a>> \notin stale', ~Follows(t, a)'
               PROVE  Pending(t, a)'
    BY DEF AttributeInv
  <2>1. ~Follows(t, a)
    BY <1>3 DEF Follows, IsRunning, Odr, Chip, Attributes
  <2>2. Pending(t, a)
    BY <2>1, <1>3 DEF AttributeInv
  <2>3. t = s /\ Contains(call.todo, a)
    BY <2>2 DEF Pending, s
  <2>4. Contains(Tail(call.todo), a)
    BY <2>3, <1>2, <1>3
  <2> QED BY <2>3, <2>4, <1>4 DEF Pending, Contains
<1>7. NormalIsSelected'
  BY <1>3 DEF NormalIsSelected, Chip
<1> QED BY <1>5, <1>6, <1>7, CallAfterWrite

\* A write that works gives its attribute the value the call wants; what it
\* does to the other sensor's bit by mistake becomes stale.
LEMMA WriteWorksStep ==
    ASSUME ChipInv, WriteNext, WriteWorks
    PROVE  ChipInv'
<1> USE DEF ChipInv
<1> DEFINE s == call.sensor
           w == Head(call.todo)
<1>1. /\ s \in Sensors /\ call.todo \in Seq(AllWrites) /\ call.todo # << >>
      /\ call # NoCall /\ GoodWrites(s, call.rate, call.todo)
      /\ asked[s] = call.rate /\ call.rate \in Rates
  <2>1. /\ call \in CallRecords /\ call.todo \in Seq(AllWrites)
        /\ s \in Sensors /\ call.rate \in Rates
    BY CallAfterWrite DEF CallRecords
  <2>2. call.todo # << >> /\ call # NoCall
    BY <2>1, NoCallSensor DEF WriteNext
  <2> QED BY <2>1, <2>2 DEF CallInv
<1>2. /\ w \in AllWrites /\ Intended(s, call.rate, w)
      /\ \A a \in Attributes : Contains(call.todo, a) =>
            a = w.attribute \/ Contains(Tail(call.todo), a)
      /\ call.rate # Off /\ w.attribute = "pwr" => ~Contains(call.todo, "sel")
      /\ call.rate = Off /\ w.attribute = "sel" => ~Contains(call.todo, "pwr")
  BY <1>1, HeadWrite
<1>3. /\ sel' = IF w.attribute = "sel" THEN w.value ELSE sel
      /\ pwr' = IF w.attribute = "pwr" THEN [pwr EXCEPT ![s] = w.value] ELSE pwr
      /\ odr' = IF w.attribute = "odr" THEN [odr EXCEPT ![s] = w.value] ELSE odr
      /\ stale' = (stale \ {<<s, w.attribute>>}) \cup
            (IF w.attribute = "sel" THEN Disturbed(s, w.value) \X {"sel"} ELSE {})
      /\ UNCHANGED <<board, open, asked>>
  BY DEF WriteWorks, WriteNext
<1>4. call' \in CallRecords /\ call'.sensor = s /\ call'.todo = Tail(call.todo)
  BY CallAfterWrite
<1> HIDE DEF s, w
<1>5. IsRunning(s) <=> call.rate # Off
  BY <1>1 DEF IsRunning
<1>6. CASE w.attribute = "pwr"
  <2>1. /\ sel' = sel /\ odr' = odr /\ stale' = stale \ {<<s, "pwr">>}
        /\ pwr' = [pwr EXCEPT ![s] = w.value]
        /\ w.value = IF IsRunning(s) THEN Normal ELSE Suspend
    BY <1>2, <1>3, <1>5, <1>6 DEF Intended
  <2>2. Types'
    BY <2>1, <1>1, <1>3, <1>4 DEF Types, OdrValues, Chip
  <2>3. AttributeInv'
    <3> SUFFICES ASSUME NEW t \in Sensors, NEW a \in Attributes
                 PROVE  (Pending(t, a) \/ <<t, a>> \in stale \/ Follows(t, a))'
      BY DEF AttributeInv
    <3>1. CASE t = s /\ a = "pwr"
      BY <3>1, <2>1, <1>3 DEF Follows, IsRunning, Types
    <3>2. CASE ~(t = s /\ a = "pwr")
      <4>1. Follows(t, a) => Follows(t, a)'
        BY <3>2, <2>1, <1>3 DEF Follows, IsRunning, Odr, Chip, Attributes, Types
      <4>2. Pending(t, a) => Pending(t, a)'
        BY <3>2, <1>2, <1>4, <1>6 DEF Pending, Contains, s
      <4> QED BY <4>1, <4>2, <3>2, <2>1 DEF AttributeInv
    <3> QED BY <3>1, <3>2
  <2>4. NormalIsSelected'
    <3> SUFFICES ASSUME NEW t \in Sensors, Chip(t) = "BMI160", pwr'[t] = Normal,
                        <<t, "pwr">> \notin stale', <<t, "sel">> \notin stale'
                 PROVE  t \in sel
      BY <2>1, <1>3 DEF NormalIsSelected, Chip
    <3>1. CASE t # s
      BY <3>1, <2>1 DEF NormalIsSelected, Types
    <3>2. CASE t = s
      <4>1. IsRunning(s)
        BY <3>2, <2>1, <1>1 DEF Types, Normal, Suspend
      <4>2. ~Pending(s, "sel") /\ <<s, "sel">> \notin stale
        BY <4>1, <3>2, <2>1, <1>2, <1>5, <1>6 DEF Pending
      <4>3. Follows(s, "sel")
        BY <4>2, <1>1 DEF AttributeInv, Attributes
      <4> QED BY <4>1, <4>3, <3>2 DEF Follows
    <3> QED BY <3>1, <3>2
  <2> QED BY <2>2, <2>3, <2>4, CallAfterWrite
<1>7. CASE w.attribute = "sel"
  <2>1. /\ sel' = w.value /\ odr' = odr /\ pwr' = pwr
        /\ stale' = (stale \ {<<s, "sel">>}) \cup (Disturbed(s, w.value) \X {"sel"})
        /\ w.value \in SUBSET Sensors
        /\ s \in w.value <=> IsRunning(s)
    BY <1>2, <1>3, <1>5, <1>7 DEF Intended
  <2>2. \A t \in Sensors : t # s /\ <<t, "sel">> \notin stale' => (t \in sel' <=> t \in sel)
    BY <2>1 DEF Disturbed
  <2>3. Types'
    BY <2>1, <1>1, <1>3, <1>4 DEF Types, OdrValues, Chip, Disturbed, Attributes
  <2>4. AttributeInv'
    <3> SUFFICES ASSUME NEW t \in Sensors, NEW a \in Attributes, <<t, a>> \notin stale'
                 PROVE  (Pending(t, a) \/ Follows(t, a))'
      BY DEF AttributeInv
    <3>1. CASE t = s /\ a = "sel"
      BY <3>1, <2>1, <1>3 DEF Follows, IsRunning
    <3>2. CASE ~(t = s /\ a = "sel")
      <4>1. Follows(t, a) => Follows(t, a)'
        BY <3>2, <2>1, <2>2, <1>3 DEF Follows, IsRunning, Odr, Chip, Attributes
      <4>2. Pending(t, a) => Pending(t, a)'
        BY <3>2, <1>2, <1>4, <1>7 DEF Pending, Contains, s
      <4>3. <<t, a>> \notin stale
        BY <3>2, <2>1
      <4> QED BY <4>1, <4>2, <4>3 DEF AttributeInv
    <3> QED BY <3>1, <3>2
  <2>5. NormalIsSelected'
    <3> SUFFICES ASSUME NEW t \in Sensors, Chip(t) = "BMI160", pwr[t] = Normal,
                        <<t, "pwr">> \notin stale, <<t, "sel">> \notin stale'
                 PROVE  t \in sel'
      BY <2>1, <1>3 DEF NormalIsSelected, Chip
    <3>1. CASE t # s
      BY <3>1, <2>1, <2>2 DEF NormalIsSelected
    <3>2. CASE t = s
      <4>1. CASE IsRunning(s)
        BY <4>1, <3>2, <2>1
      <4>2. CASE ~IsRunning(s)
        <5>1. ~Pending(s, "pwr")
          BY <4>2, <1>2, <1>5, <1>7 DEF Pending
        <5>2. Follows(s, "pwr")
          BY <5>1, <3>2, <1>1 DEF AttributeInv, Attributes
        <5> QED BY <5>2, <4>2, <3>2 DEF Follows, Normal, Suspend
      <4> QED BY <4>1, <4>2
    <3> QED BY <3>1, <3>2
  <2> QED BY <2>3, <2>4, <2>5, CallAfterWrite
<1>8. CASE w.attribute = "odr"
  <2>1. /\ sel' = sel /\ pwr' = pwr /\ stale' = stale \ {<<s, "odr">>}
        /\ odr' = [odr EXCEPT ![s] = w.value]
        /\ w.value = Odr(s, asked[s]) /\ call.rate # Off
    BY <1>1, <1>2, <1>3, <1>8 DEF Intended
  <2>2. w.value \in OdrValues(s) /\ w.value \in 0..13
    BY <2>1, <1>1, OdrRange DEF Types
  <2>3. Types'
    BY <2>1, <2>2, <1>1, <1>3, <1>4 DEF Types, OdrValues, Chip
  <2>4. AttributeInv'
    <3> SUFFICES ASSUME NEW t \in Sensors, NEW a \in Attributes, <<t, a>> \notin stale'
                 PROVE  (Pending(t, a) \/ Follows(t, a))'
      BY DEF AttributeInv
    <3>1. CASE t = s /\ a = "odr"
      BY <3>1, <2>1, <1>3 DEF Follows, IsRunning, Odr, Chip, Types
    <3>2. CASE ~(t = s /\ a = "odr")
      <4>1. Follows(t, a) => Follows(t, a)'
        BY <3>2, <2>1, <1>3 DEF Follows, IsRunning, Odr, Chip, Attributes, Types
      <4>2. Pending(t, a) => Pending(t, a)'
        BY <3>2, <1>2, <1>4, <1>8 DEF Pending, Contains, s
      <4>3. <<t, a>> \notin stale
        BY <3>2, <2>1
      <4> QED BY <4>1, <4>2, <4>3 DEF AttributeInv
    <3> QED BY <3>1, <3>2
  <2>5. NormalIsSelected'
    BY <2>1, <1>3 DEF NormalIsSelected, Chip
  <2> QED BY <2>3, <2>4, <2>5, CallAfterWrite
<1> QED BY <1>2, <1>6, <1>7, <1>8 DEF AllWrites, Attributes

-----------------------------------------------------------------------------
LEMMA ChipStep == ChipInv /\ [Next]_vars => ChipInv'
<1> SUFFICES ASSUME ChipInv, [Next]_vars PROVE ChipInv'
  OBVIOUS
<1>1. CASE \E s \in Sensors, rate \in Rates : Configure(s, rate)
  BY <1>1, ConfigureStep
<1>2. CASE WriteNext
  BY <1>2, WriteWorksStep, WriteFailsStep DEF WriteNext
<1>3. CASE Finish
  BY <1>3, FinishStep
<1>4. CASE Restart
  BY <1>4, RestartStep
<1>5. CASE UNCHANGED vars
  <2>1. UNCHANGED <<board, sel, pwr, odr, open, call, asked, stale>>
    BY <1>5 DEF vars
  <2>2. Types'
    BY <2>1 DEF ChipInv, Types, OdrValues, Chip
  <2>3. CallInv'
    BY <2>1 DEF ChipInv, CallInv, GoodWrites, Ordered, Intended, Odr, Chip
  <2>4. FlagInv'
    BY <2>1 DEF ChipInv, FlagInv, IsRunning
  <2>5. \A s \in Sensors, a \in Attributes :
           /\ Pending(s, a)' <=> Pending(s, a)
           /\ Follows(s, a)' <=> Follows(s, a)
    BY <2>1 DEF Pending, Contains, Follows, IsRunning, Odr, Chip, Attributes
  <2>6. AttributeInv'
    BY <2>1, <2>5 DEF ChipInv, AttributeInv
  <2>7. NormalIsSelected'
    BY <2>1 DEF ChipInv, NormalIsSelected, Chip
  <2> QED BY <2>2, <2>3, <2>4, <2>6, <2>7 DEF ChipInv
<1> QED BY <1>1, <1>2, <1>3, <1>4, <1>5 DEF Next

THEOREM ChipInvariant == Spec => []ChipInv
BY InitChip, ChipStep, PTL DEF Spec

\* On every board and for every set of periods, each attribute only holds, and
\* each call in progress only writes, values the sensor's own chip knows.
THEOREM ChipTypes == Spec => []TypeOK
<1>1. ChipInv => TypeOK
  <2> SUFFICES ASSUME ChipInv PROVE TypeOK
    OBVIOUS
  <2>1. Types
    BY DEF ChipInv
  <2>2. CASE call = NoCall
    BY <2>1, <2>2 DEF Types, TypeOK
  <2>3. CASE call # NoCall
    <3>1. /\ call.sensor \in Sensors /\ call.rate \in Rates
          /\ call.todo \in Seq(AllWrites)
      BY <2>1, <2>3 DEF Types, CallRecords
    <3>2. ASSUME NEW i \in DOMAIN call.todo
          PROVE  /\ call.todo[i].attribute \in Attributes
                 /\ call.todo[i].value \in ValuesOf(call.sensor, call.todo[i].attribute)
      <4>1. call.todo[i] \in AllWrites
        BY <3>1
      <4>2. call.todo[i].attribute \in Attributes
        BY <4>1 DEF AllWrites
      <4>3. Intended(call.sensor, call.rate, call.todo[i])
        BY <2>3 DEF ChipInv, CallInv, GoodWrites
      <4>4. call.rate # Off => Odr(call.sensor, call.rate) \in OdrValues(call.sensor)
        BY <3>1, <2>1, OdrRange DEF Types
      <4> QED BY <4>2, <4>3, <4>4 DEF Intended, ValuesOf, Attributes
    <3> QED BY <3>1, <3>2, <2>1 DEF Types, TypeOK
  <2> QED BY <2>2, <2>3
<1> QED BY <1>1, ChipInvariant, PTL

\* Between two calls every attribute that was set as intended agrees with its
\* sensor's last call, however accesses fail and the process is restarted.
THEOREM ChipFollowsCalls == Spec => []AttributesFollow
<1>1. ChipInv => AttributesFollow
  <2> SUFFICES ASSUME ChipInv, call = NoCall, NEW s \in Sensors, NEW a \in Attributes,
                      <<s, a>> \notin stale
               PROVE  Follows(s, a)
    BY DEF AttributesFollow, Follows, Attributes
  <2> QED BY NoCallSensor DEF ChipInv, AttributeInv, Pending
<1> QED BY <1>1, ChipInvariant, PTL

\* A BMI160 sensor in normal mode is selected, after every single write.
THEOREM ChipSelected == Spec => []NormalIsSelected
BY ChipInvariant, PTL DEF ChipInv

\* For every set of periods a running sensor samples at least as fast as the
\* stored configuration says and at most two and a half times as fast, within
\* what its chip can do.
THEOREM ChipRateServed == Spec => []RateServed
<1>1. ChipInv => RateServed
  <2> SUFFICES ASSUME ChipInv, NEW s \in Sensors,
                      call = NoCall, IsRunning(s), <<s, "odr">> \notin stale
               PROVE  /\ ChipRate(s) >= asked[s] \/ ChipRate(s) = Fastest(s)
                      /\ 2 * ChipRate(s) <= 5 * asked[s] \/ ChipRate(s) = Slowest(s)
    BY DEF RateServed
  <2>1. odr[s] = Odr(s, asked[s])
    BY NoCallSensor DEF ChipInv, AttributeInv, Pending, Follows, Attributes
  <2>2. asked[s] \in {25, 50, 100, 200, 400, 800, 1600, 3200, 4000, 6400, 8000}
    BY RatesAsked DEF ChipInv, Types, IsRunning, Off
  <2>3. CASE Chip(s) = "BMI160" /\ s = "acc"
    BY <2>1, <2>2, <2>3 DEF Odr, ChipRate, Fastest, Slowest, Bmi160AccOdr, Bmi160Rate
  <2>4. CASE Chip(s) = "BMI160" /\ s # "acc"
    BY <2>1, <2>2, <2>4 DEF Odr, ChipRate, Fastest, Slowest, Bmi160GyrOdr, Bmi160Rate
  <2>5. CASE Chip(s) = "BMA2x2"
    BY <2>1, <2>2, <2>5 DEF Odr, ChipRate, Fastest, Slowest, Bma2x2Bandwidth, Bma2x2Rate
  <2>6. CASE Chip(s) = "BMG160"
    BY <2>1, <2>2, <2>6 DEF Odr, ChipRate, Fastest, Slowest, Bmg160Bandwidth, Bmg160Rate
  <2>7. Chip(s) \in {"BMI160", "BMA2x2", "BMG160"}
    BY DEF ChipInv, Types, Chip, Boards, Sensors
  <2> QED BY <2>3, <2>4, <2>5, <2>6, <2>7
<1> QED BY <1>1, ChipInvariant, PTL
=============================================================================
