----------------------------- MODULE InputFrames -----------------------------
(***************************************************************************)
(* How a reader of the hwcntl thread cuts the events of its input device   *)
(* into samples.  A driver reports a frame as a fixed number of events:    *)
(* seconds, nanoseconds, the axes and a closing SYN_REPORT.  Nothing in    *)
(* the stream marks a frame's beginning: ap_hw_poll_... reads as many      *)
(* events as a frame has into a buffer on its stack and takes them for a   *)
(* frame if the last place holds an event of type EV_SYN.                  *)
(*                                                                         *)
(* The kernel gives events away only in whole frames, until its buffer for *)
(* this reader overflows: it then drops everything that was not read and   *)
(* leaves SYN_DROPPED in front of the newest event.  The rest of the frame *)
(* and all later ones follow out of step with the reads, up to the end of  *)
(* the queue, where a read is shorter than a frame and leaves old events   *)
(* in the buffer.                                                          *)
(*                                                                         *)
(* `kind' is the reader: of the accelerometer, of the gyroscope, or of     *)
(* both at once in a build with SMI230_DATA_SYNC.                          *)
(***************************************************************************)
EXTENDS AxisRemap, Sequences, SequencesExt

CONSTANTS
    Kinds,          \* the readers considered
    BufSizes,       \* sizes of the kernel's event buffer, in events
    Positions,      \* values of g_place_g
    EarlyFrames,    \* frames stamped before the clock's first full second
    MaxFrames       \* frames the driver reports

ASSUME InputAssumption ==
    /\ Kinds \subseteq {"acc", "gyr", "sync"}
    /\ BufSizes \subseteq Nat \ (0..12)
    /\ Positions \subseteq Placements
    /\ EarlyFrames \in Nat
    /\ MaxFrames \in Nat

VARIABLES
    kind,      \* the reader
    bufsize,   \* the kernel's buffer
    position,  \* g_place_g, which only the gyroscope's reader looks at
    queue,     \* events the device holds for the reader
    event,     \* the buffer on the stack of the reader
    reading,   \* is the reader inside its loop of reads?
    sent,      \* frames reported
    samples,   \* samples made so far
    clean,     \* history: no overflow since the queue was last empty
    forgone    \* history: frames the kernel spoiled or memory failed for

vars == <<kind, bufsize, position, queue, event, reading, sent, samples,
          clean, forgone>>

config == <<kind, bufsize, position>>

\* The entries of the array of events.
FrameLen == IF kind = "sync" THEN 12 ELSE 6

Event(n, i) == [frame |-> n, part |-> i]
Frame(n) == [i \in 1..FrameLen |-> Event(n, i)]

Dropped == Event(0, 1)       \* SYN_DROPPED, whose value is 0
Junk == Event(0, 2)          \* what the stack held, not of type EV_SYN
JunkSyn == Event(0, 3)       \* what the stack held, of type EV_SYN

IsSyn(e) == e \in {Dropped, JunkSyn} \/ e.part = FrameLen

\* Every event has a value of its own; only seconds may be 0.
Value(e) ==
    IF e = Dropped \/ (e.part = 1 /\ e.frame <= EarlyFrames)
    THEN 0 ELSE 100 * e.frame + e.part

Init ==
    /\ kind \in Kinds
    /\ bufsize \in BufSizes
    /\ position \in IF kind = "gyr" THEN Positions ELSE {0}
    /\ queue = << >>
    /\ event = [i \in 1..FrameLen |-> Junk]
    /\ reading = FALSE
    /\ sent = 0
    /\ samples = << >>
    /\ clean = TRUE
    /\ forgone = {}

-----------------------------------------------------------------------------
\* The kernel's buffer is full with the last free place taken.
Push(q, e) ==
    IF Len(q) + 1 = bufsize THEN <<Dropped, e>> ELSE Append(q, e)

\* The queue after each of the events of frame n.
PushFrame(n) ==
    LET q[k \in 0..FrameLen] ==
          IF k = 0 THEN queue ELSE Push(q[k - 1], Event(n, k))
    IN  q[FrameLen]

Overflows == Len(queue) + FrameLen >= bufsize

FramesIn(q) == {e.frame : e \in ToSet(q)} \ {0}

\* The driver reports a frame; no read comes between its events.
Report ==
    /\ sent < MaxFrames
    /\ sent' = sent + 1
    /\ queue' = PushFrame(sent + 1)
    /\ clean' = (clean /\ ~Overflows)
    /\ forgone' = forgone \cup (IF Overflows THEN FramesIn(queue) ELSE {})
                          \cup (IF clean' THEN {} ELSE {sent + 1})
    /\ UNCHANGED <<config, event, reading, samples>>

\* poll returns, the reader is called: its buffer is not initialised.
Call ==
    /\ ~reading /\ queue # << >>
    /\ reading' = TRUE
    /\ \E last \in {Junk, JunkSyn} :
          event' = [i \in 1..FrameLen |-> IF i = FrameLen THEN last ELSE Junk]
    /\ UNCHANGED <<config, queue, sent, samples, clean, forgone>>

-----------------------------------------------------------------------------
\* Wrong variant: the accelerometer's reader takes a frame without seconds.
Accepts_NoSeconds(buf) == IsSyn(buf[FrameLen])

\* Wrong variant: the gyroscope's reader has the accelerometer's test, too.
Accepts_SameTests(buf) == IsSyn(buf[FrameLen]) /\ Value(buf[1]) # 0

\* The tests before a sample is made.
Accepts(buf) ==
    /\ IsSyn(buf[FrameLen])
    /\ kind = "acc" => Value(buf[1]) # 0

Axes(buf, i) == [j \in 1..3 |-> Value(buf[i + j - 1])]

Sample(sensor, buf, axes) ==
    [sensor |-> sensor, stamp |-> <<Value(buf[1]), Value(buf[2])>>,
     axes |-> axes]

\* What the reader makes of its buffer: the gyroscope's own reader turns the
\* axes, the two others do not.
SamplesOf(buf) ==
    CASE kind = "acc"  -> << Sample("acc", buf, Axes(buf, 3)) >>
      [] kind = "gyr"  -> << Sample("gyr", buf, Remap(Axes(buf, 3), position)) >>
      [] kind = "sync" -> << Sample("acc", buf, Axes(buf, 3)),
                             Sample("gyr", buf, Axes(buf, 6)) >>

Fill(n) == [i \in 1..FrameLen |-> IF i <= n THEN queue[i] ELSE event[i]]

\* One turn of the loop.  Memory may run out for any of the samples: if calloc
\* fails, the rest of the frame is skipped with it; if list_add_rear has none
\* for its node, the sample is freed and the reader goes on to the next.
Read ==
    /\ reading /\ queue # << >>
    /\ LET n == IF Len(queue) < FrameLen THEN Len(queue) ELSE FrameLen
       IN  /\ event' = Fill(n)
           /\ queue' = SubSeq(queue, n + 1, Len(queue))
    /\ \/ /\ Accepts(event')
          /\ LET all == SamplesOf(event')
             IN  \E i \in 1..Len(all) : \E k \in (i - 1)..Len(all) :
                    /\ samples' = samples \o SubSeq(all, i, k)
                    /\ forgone' = IF i = 1 /\ k = Len(all) THEN forgone
                                  ELSE forgone \cup {event'[1].frame}
       \/ /\ ~Accepts(event')
          /\ UNCHANGED <<samples, forgone>>
    /\ clean' = (clean \/ queue' = << >>)
    /\ UNCHANGED <<config, reading, sent>>

\* The device is empty: read returns -1, and the reader with it.
Return ==
    /\ reading /\ queue = << >>
    /\ reading' = FALSE
    /\ event' = [i \in 1..FrameLen |-> Junk]
    /\ UNCHANGED <<config, queue, sent, samples, clean, forgone>>

Next == Report \/ Call \/ Read \/ Return

Spec == Init /\ [][Next]_vars

-----------------------------------------------------------------------------
Whole(n) == SamplesOf(Frame(n))

\* Places of the samples of frame n among those made.
PlacesOf(n) ==
    LET w == Whole(n)
    IN  {i \in 1..Len(samples) : \E j \in 1..Len(w) : samples[i] = w[j]}

\* Frame n is in the queue as it was reported, with the later ones behind it.
IsQueued(n) ==
    LET start == Len(queue) - (sent - n + 1) * FrameLen
    IN  start >= 0 /\ SubSeq(queue, start + 1, start + FrameLen) = Frame(n)

\* Until the kernel's buffer overflows, and again from the moment the queue
\* has run empty, no frame is lost, split, merged with another, read twice or
\* overtaken: it is queued as it was reported, or its samples have been made
\* (except for an accelerometer's frame without seconds), behind those of all
\* earlier frames.
FramesKept ==
    /\ \A n \in (1..sent) \ forgone :
        \/ IsQueued(n) /\ PlacesOf(n) = {}
        \/ n \notin FramesIn(queue)
           /\ IF kind = "acc" /\ n <= EarlyFrames
              THEN PlacesOf(n) = {}
              ELSE \E i \in 1..Len(samples) :
                     /\ PlacesOf(n) = i..(i + Len(Whole(n)) - 1)
                     /\ SubSeq(samples, i, i + Len(Whole(n)) - 1) = Whole(n)
    /\ \A m, n \in (1..sent) \ forgone :
        m < n => \A i \in PlacesOf(m) : \A j \in PlacesOf(n) : i < j

IsReported(s) == \E n \in 1..sent : s \in ToSet(Whole(n))

\* An overflow may make a reader take events of two frames, or left over from
\* another turn, for one.  All that passes has SYN_DROPPED, whose value is 0,
\* in the place of the seconds, and in that of the nanoseconds an event of a
\* frame that is forgone, so its stamp is not that of a frame that was kept.
\* The accelerometer's own reader tests for seconds of 0 and makes no such
\* sample.  The two other readers have no such test: the gyroscope's makes
\* torn samples, and that of both sensors torn samples of both.
TornHasNoSeconds ==
    \A i \in 1..Len(samples) :
        \/ IsReported(samples[i])
        \/ /\ kind # "acc"
           /\ \E n \in forgone \cap 1..sent : \E p \in 1..FrameLen :
                 samples[i].stamp = <<0, Value(Event(n, p))>>

\* Every placement is a rotation: it keeps lengths and angles, and a right-
\* handed system of axes right-handed.
RemapIsRotation ==
    LET Unit(i) == [j \in 1..3 |-> IF i = j THEN 1 ELSE 0]
        Turned(i) == Remap(Unit(i), position)
    IN  \A i, j \in 1..3 :
          /\ Dot(Turned(i), Turned(j)) = Dot(Unit(i), Unit(j))
          /\ Cross(Turned(i), Turned(j)) = Remap(Cross(Unit(i), Unit(j)), position)
=============================================================================
