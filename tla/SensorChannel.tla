---------------------------- MODULE SensorChannel ----------------------------
(***************************************************************************)
(* What the data path promises the framework, without threads, lists or    *)
(* locks: a channel per sensor that may lose samples but neither invents,  *)
(* duplicates nor reorders them.  `out' is everything written to the       *)
(* framework, in order; flush-complete events may appear in it anywhere.   *)
(***************************************************************************)
EXTENDS Naturals, Sequences

CONSTANTS Sensor, MaxSamples

VARIABLES
    made,      \* made[s]: samples the device of s has taken
    inflight,  \* samples neither lost nor passed on
    out        \* what the framework gets to see

vars == <<made, inflight, out>>

Sample(s, n) == [kind |-> "data", sensor |-> s, seq |-> n]
FlushEvent(s, n) == [kind |-> "flush", sensor |-> s, seq |-> n]

Init ==
    /\ made = [s \in Sensor |-> 0]
    /\ inflight = {}
    /\ out = << >>

Emit(s) ==
    /\ made[s] < MaxSamples
    /\ made' = [made EXCEPT ![s] = @ + 1]
    /\ inflight' = inflight \cup {Sample(s, made[s] + 1)}
    /\ UNCHANGED out

\* Some samples are given up, from anywhere in the channel.
Lose ==
    /\ inflight' \in SUBSET inflight
    /\ UNCHANGED <<made, out>>

\* Only the oldest sample of its sensor can be passed on.
Pass(x) ==
    /\ \A y \in inflight : y.sensor = x.sensor => x.seq <= y.seq
    /\ inflight' = inflight \ {x}
    /\ out' = Append(out, x)
    /\ UNCHANGED made

AnswerFlush(s) ==
    /\ \E n \in 0..made[s] : out' = Append(out, FlushEvent(s, n))
    /\ UNCHANGED <<made, inflight>>

Next ==
    \/ \E s \in Sensor : Emit(s) \/ AnswerFlush(s)
    \/ Lose
    \/ \E x \in inflight : Pass(x)

Spec == Init /\ [][Next]_vars
=============================================================================
