------------------------------ MODULE AxisRemap ------------------------------
(***************************************************************************)
(* The axes of a sample are turned to the way its chip is mounted on the   *)
(* board: one of eight placements, each a possible exchange of x and y     *)
(* followed by changes of sign.                                            *)
(***************************************************************************)
EXTENDS Integers

Placements == 0..7

\* axis_remap_matrix: are x and y exchanged, and which axes change sign?
Exchanges(position) == position \in {4, 5, 6, 7}

Negated(position) ==
    CASE position = 0 -> {}
      [] position = 1 -> {1, 3}
      [] position = 2 -> {1, 2}
      [] position = 3 -> {2, 3}
      [] position = 4 -> {1}
      [] position = 5 -> {2}
      [] position = 6 -> {3}
      [] position = 7 -> {1, 2, 3}

\* Wrong variant: the sign of z is never looked at.
Remap_KeepsZ(v, position) ==
    LET w == IF Exchanges(position) THEN <<v[2], v[1], v[3]>> ELSE v
    IN  [i \in 1..3 |-> IF i \in Negated(position) \ {3} THEN -w[i] ELSE w[i]]

\* hw_remap_sensor_data
Remap(v, position) ==
    LET w == IF Exchanges(position) THEN <<v[2], v[1], v[3]>> ELSE v
    IN  [i \in 1..3 |-> IF i \in Negated(position) THEN -w[i] ELSE w[i]]

Dot(u, v) == u[1] * v[1] + u[2] * v[2] + u[3] * v[3]

Cross(u, v) == <<u[2] * v[3] - u[3] * v[2],
                 u[3] * v[1] - u[1] * v[3],
                 u[1] * v[2] - u[2] * v[1]>>
=============================================================================
