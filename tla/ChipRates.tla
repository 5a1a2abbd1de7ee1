------------------------------ MODULE ChipRates ------------------------------
(***************************************************************************)
(* The conversions of a rate for the chips other than the SMI230: the      *)
(* value of the data rate or bandwidth register, and the rate the chip     *)
(* then samples at.  Rates are in quarters of a Hz, as in module DataRate; *)
(* the BMA2x2's lowest rate, 15.63 Hz, is rounded down to 62.              *)
(***************************************************************************)
EXTENDS Integers

\* Wrong variant: the bands begin one rate too high.
Bmi160AccOdr_LateBands(rate) ==
    CASE rate > 1600                -> 10
      [] rate > 800 /\ rate <= 1600 -> 9
      [] rate > 400 /\ rate <= 800  -> 8
      [] rate > 200 /\ rate <= 400  -> 7
      [] OTHER                      -> 6

\* BMI160_convert_ODR for the accelerometer.
Bmi160AccOdr(rate) ==
    CASE rate > 800                -> 10
      [] rate > 400 /\ rate <= 800 -> 9
      [] rate > 200 /\ rate <= 400 -> 8
      [] rate > 100 /\ rate <= 200 -> 7
      [] rate > 50 /\ rate <= 100  -> 6
      [] rate > 25 /\ rate <= 50   -> 5
      [] rate > 4 /\ rate <= 25    -> 4
      [] rate > 0 /\ rate <= 4     -> 1
      [] OTHER                     -> 0

\* BMI160_convert_ODR for the gyroscope, whose slowest rate is 25 Hz.
Bmi160GyrOdr(rate) ==
    CASE rate > 800                -> 10
      [] rate > 400 /\ rate <= 800 -> 9
      [] rate > 200 /\ rate <= 400 -> 8
      [] rate > 100 /\ rate <= 200 -> 7
      [] rate > 0 /\ rate <= 100   -> 6
      [] OTHER                     -> 0

\* BMA2x2_convert_ODR; at 1 Hz and below the bandwidth stays 0.
Bma2x2Bandwidth(rate) ==
    CASE rate > 800                -> 13
      [] rate > 400 /\ rate <= 800 -> 12
      [] rate > 200 /\ rate <= 400 -> 11
      [] rate > 100 /\ rate <= 200 -> 10
      [] rate > 50 /\ rate <= 100  -> 9
      [] rate > 4 /\ rate <= 50    -> 8
      [] OTHER                     -> 0

\* BMG160_convert_ODR
Bmg160Bandwidth(rate) ==
    CASE rate > 800                -> 3
      [] rate > 400 /\ rate <= 800 -> 4
      [] rate > 4 /\ rate <= 400   -> 5
      [] OTHER                     -> 0

\* The rates the names of the register values give.
Bmi160Rate(odr) ==
    CASE odr = 10 -> 1600
      [] odr = 9  -> 800
      [] odr = 8  -> 400
      [] odr = 7  -> 200
      [] odr = 6  -> 100
      [] odr = 5  -> 50
      [] odr = 4  -> 25
      [] OTHER    -> 0

Bma2x2Rate(bandwidth) ==
    CASE bandwidth = 13 -> 2000
      [] bandwidth = 12 -> 1000
      [] bandwidth = 11 -> 500
      [] bandwidth = 10 -> 250
      [] bandwidth = 9  -> 125
      [] bandwidth = 8  -> 62
      [] OTHER          -> 0

Bmg160Rate(bandwidth) ==
    CASE bandwidth = 3 -> 1600
      [] bandwidth = 4 -> 800
      [] bandwidth = 5 -> 400
      [] OTHER         -> 0
=============================================================================
