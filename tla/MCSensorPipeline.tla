-------------------------- MODULE MCSensorPipeline --------------------------
(* Values for the constants of SensorPipeline on small instances.          *)
EXTENDS SensorPipeline

\* Both sensors sample at the same rate and at the same moments.
SameRate == [s \in Sensor |-> [n \in 1..MaxSamples |-> n]]

\* Stamps 2, 4, 6 of the accelerometer and 1, 4, 5 of the gyroscope: each is
\* ahead of the other once, and once they are equal.
Crossing ==
    [s \in Sensor |-> [n \in 1..MaxSamples |->
        IF s = Acc THEN 2 * n ELSE IF n = 1 THEN 1 ELSE n + 2]]
=============================================================================
