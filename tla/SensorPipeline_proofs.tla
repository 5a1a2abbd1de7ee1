------------------------ MODULE SensorPipeline_proofs ------------------------
(***************************************************************************)
(* Theorems about the data path, for every number of samples and flushes,  *)
(* every list limit, pipe capacity and poll count, and every assignment of *)
(* time stamps that respects StampAssumption.                              *)
(***************************************************************************)
EXTENDS SensorPipeline, Integers, SequenceTheorems, TLAPS

-----------------------------------------------------------------------------
(* What the list operations preserve, whatever the elements and the limit: *)
(* the type of the list, its limit, and the origin of what is freed.       *)

\* A truncation keeps at most `uplimit' elements, all of them of the list.
LEMMA KeepRearType ==
    ASSUME NEW S, NEW list \in Seq(S), NEW uplimit \in Nat
    PROVE  /\ KeepRear(list, uplimit) \in Seq(S)
           /\ Len(KeepRear(list, uplimit)) <= uplimit
<1>1. Len(list) \in Nat /\ list \in [1..Len(list) -> S]
    BY LenProperties
<1>2. CASE Len(list) > uplimit
    <2>1. \A i \in Len(list) - uplimit + 1 .. Len(list) : list[i] \in S
        BY <1>1, <1>2
    <2>2. /\ SubSeq(list, Len(list) - uplimit + 1, Len(list)) \in Seq(S)
          /\ Len(SubSeq(list, Len(list) - uplimit + 1, Len(list)))
                = IF Len(list) - uplimit + 1 <= Len(list)
                  THEN Len(list) - (Len(list) - uplimit + 1) + 1 ELSE 0
        BY <1>1, <2>1, SubSeqProperties
    <2> QED BY <1>1, <1>2, <2>2 DEF KeepRear
<1>3. CASE ~(Len(list) > uplimit)
    BY <1>1, <1>3 DEF KeepRear
<1> QED BY <1>2, <1>3

\* A truncation frees elements of the list only, and none if they all fit.
LEMMA TruncatedType ==
    ASSUME NEW S, NEW list \in Seq(S), NEW uplimit \in Nat
    PROVE  /\ Truncated(list, uplimit) \subseteq S
           /\ Len(list) <= uplimit => Truncated(list, uplimit) = {}
<1>1. /\ Len(list) \in Nat /\ list \in [1..Len(list) -> S]
      /\ DOMAIN list = 1..Len(list)
    BY LenProperties
<1>2. Truncated(list, uplimit) \subseteq S
    BY <1>1 DEF Truncated
<1>3. ASSUME Len(list) <= uplimit, NEW j \in DOMAIN list
      PROVE  ~(j + uplimit <= Len(list))
    BY <1>1, <1>3
<1> QED BY <1>2, <1>3 DEF Truncated

\* Adding an element to a list within its limit keeps it within its limit.
LEMMA AddRearType ==
    ASSUME NEW S, NEW list \in Seq(S), NEW x \in S, NEW uplimit \in Nat \ {0},
           Len(list) <= uplimit
    PROVE  /\ AddRear(list, x, uplimit) \in Seq(S)
           /\ Len(AddRear(list, x, uplimit)) <= uplimit
           /\ AddRearDrops(list, uplimit) \subseteq S
           /\ Len(list) < uplimit =>
                /\ AddRear(list, x, uplimit) = Append(list, x)
                /\ AddRearDrops(list, uplimit) = {}
<1>1. Len(list) \in Nat
    BY LenProperties
<1>2. CASE Len(list) = uplimit
    <2>1. list # << >>
        BY <1>1, <1>2
    <2>2. /\ Head(list) \in S /\ Tail(list) \in Seq(S)
          /\ Len(Tail(list)) = Len(list) - 1
        BY <2>1, HeadTailProperties
    <2> QED BY <1>1, <1>2, <2>2 DEF AddRear, AddRearDrops
<1>3. CASE Len(list) # uplimit
    BY <1>1, <1>3 DEF AddRear, AddRearDrops
<1> QED BY <1>2, <1>3

\* Mounting keeps a list within its limit and frees only what was in one of
\* the two lists; nothing is freed if both fit.
LEMMA MountRearType ==
    ASSUME NEW S, NEW list \in Seq(S), NEW src \in Seq(S), NEW uplimit \in Nat,
           Len(list) <= uplimit
    PROVE  /\ MountRear(list, src, uplimit) \in Seq(S)
           /\ Len(MountRear(list, src, uplimit)) <= uplimit
           /\ MountRearDrops(list, src, uplimit) \subseteq S
           /\ Len(list) + Len(src) <= uplimit =>
                MountRearDrops(list, src, uplimit) = {}
<1>1. list \o src \in Seq(S) /\ Len(list \o src) = Len(list) + Len(src)
    BY ConcatProperties
<1>2. /\ KeepRear(list \o src, uplimit) \in Seq(S)
      /\ Len(KeepRear(list \o src, uplimit)) <= uplimit
    BY <1>1, KeepRearType
<1>3. /\ Truncated(list \o src, uplimit) \subseteq S
      /\ Len(list \o src) <= uplimit => Truncated(list \o src, uplimit) = {}
    BY <1>1, TruncatedType
<1>4. CASE src = << >>
    BY <1>4 DEF MountRear, MountRearDrops
<1>5. CASE src # << >>
    <2>1. /\ MountRear(list, src, uplimit) = KeepRear(list \o src, uplimit)
          /\ MountRearDrops(list, src, uplimit) = Truncated(list \o src, uplimit)
        BY <1>5 DEF MountRear, MountRearDrops
    <2> QED BY <1>1, <1>2, <1>3, <2>1
<1> QED BY <1>4, <1>5

-----------------------------------------------------------------------------
(* The two threads and their lock.                                         *)

\* The lock discipline holds in every initial state and is kept by every
\* step on its own.
LEMMA LockStep ==
    /\ Init => LockDiscipline
    /\ LockDiscipline /\ [Next]_vars => LockDiscipline'
<1> USE DEF LockDiscipline, driverVars, hwVars, sdVars, flushVars, readerVars,
            Acc, Gyro
<1>1. Init => LockDiscipline
    BY DEF Init
<1>2. SUFFICES ASSUME LockDiscipline, [Next]_vars
               PROVE  LockDiscipline'
    BY <1>1
<1>3. ASSUME NEW s \in Sensor, Produce(s) \/ Flush(s)
      PROVE  LockDiscipline'
    BY <1>2, <1>3 DEF Produce, Flush
<1>4. CASE Hwcntl
    <2>1. CASE PollDevices \/ SkipPublish \/ Signal
        BY <1>2, <2>1 DEF PollDevices, SkipPublish, Signal, ReadPc
    <2>2. CASE HwLock
        BY <1>2, <2>2 DEF HwLock, MountPc
    <2>3. CASE HwUnlock
        BY <1>2, <2>3 DEF HwUnlock
    <2>4. ASSUME NEW s \in Sensor, ReadSample(s) \/ EndRead(s) \/ Mount(s)
          PROVE  LockDiscipline'
        BY <1>2, <2>4 DEF ReadSample, EndRead, Mount, ReadPc, MountPc, Sensor
    <2> QED BY <1>4, <2>1, <2>2, <2>3, <2>4 DEF Hwcntl
<1>5. CASE Sensord \/ SpuriousWakeup
    <2>1. CASE SdLock \/ SdRelock
        BY <1>2, <2>1 DEF SdLock, SdRelock
    <2>2. CASE SdTest \/ SdWait \/ SdUnlock
        BY <1>2, <2>2 DEF SdTest, SdWait, SdUnlock
    <2>3. CASE Drain \/ SpuriousWakeup
        BY <1>2, <2>3 DEF Drain, SpuriousWakeup
    <2>4. CASE LoadNothing \/ Load \/ LoadFailsGyro \/ LoadFailsAlign
        BY <1>2, <2>4 DEF LoadNothing, Load, LoadFailsGyro, LoadFailsAlign
    <2>5. CASE SortSlot \/ SortDone \/ Deliver \/ DeliverFails \/ DeliverDone
        BY <1>2, <2>5 DEF SortSlot, SortDone, Deliver, DeliverFails,
                          DeliverDone
    <2> QED BY <1>5, <2>1, <2>2, <2>3, <2>4, <2>5 DEF Sensord
<1>6. CASE FlushStep \/ Reader
    BY <1>2, <1>6 DEF FlushStep, SendFlushEvent, SendFlushFails, Reader,
                      PollEvents, PollReady, PollTimeout, ReadEvents
<1>7. CASE UNCHANGED vars
    BY <1>2, <1>7 DEF vars
<1> QED BY <1>2, <1>3, <1>4, <1>5, <1>6, <1>7 DEF Next

\* Mutual exclusion: each thread is in its critical section exactly while it
\* holds the mutex, whatever the two threads are blocked on otherwise.
THEOREM PathLocks == Spec => []LockDiscipline
BY LockStep, PTL DEF Spec

\* Between the test and the wait the list stays empty, because the hwcntl
\* thread needs the mutex to mount a list.  This is what rules out a lost
\* wakeup: NoLostWakeup alone is not inductive.
TestedEmpty == sdPc = "wait" => shmem = << >>

LEMMA WakeupStep ==
    /\ Init => TestedEmpty /\ NoLostWakeup
    /\ TestedEmpty /\ NoLostWakeup /\ LockDiscipline /\ [Next]_vars
            => TestedEmpty' /\ NoLostWakeup'
<1> USE DEF TestedEmpty, NoLostWakeup, driverVars, hwVars, sdVars, flushVars,
            readerVars, Acc, Gyro
<1>1. Init => TestedEmpty /\ NoLostWakeup
    BY DEF Init
<1>2. SUFFICES ASSUME TestedEmpty, NoLostWakeup, LockDiscipline, [Next]_vars
               PROVE  TestedEmpty' /\ NoLostWakeup'
    BY <1>1
<1>3. ASSUME NEW s \in Sensor, Produce(s) \/ Flush(s)
      PROVE  TestedEmpty' /\ NoLostWakeup'
    BY <1>2, <1>3 DEF Produce, Flush
<1>4. CASE Hwcntl
    <2>1. CASE PollDevices \/ SkipPublish \/ HwLock \/ HwUnlock
        BY <1>2, <2>1 DEF PollDevices, SkipPublish, HwLock, HwUnlock
    <2>2. CASE Signal
        BY <1>2, <2>2 DEF Signal
    <2>3. ASSUME NEW s \in Sensor, ReadSample(s) \/ EndRead(s)
          PROVE  TestedEmpty' /\ NoLostWakeup'
        BY <1>2, <2>3 DEF ReadSample, EndRead, ReadPc
    <2>4. ASSUME NEW s \in Sensor, Mount(s)
          PROVE  TestedEmpty' /\ NoLostWakeup'
        <3>1. hwPc \in {"mountAcc", "mountGyro"}
            BY <2>4 DEF Mount, MountPc
        <3>2. sdPc # "wait"
            BY <1>2, <3>1 DEF LockDiscipline
        <3> QED BY <2>4, <3>1, <3>2 DEF Mount, MountPc
    <2> QED BY <1>4, <2>1, <2>2, <2>3, <2>4 DEF Hwcntl
<1>5. CASE Sensord \/ SpuriousWakeup
    <2>1. CASE SdLock \/ SdRelock \/ SdTest \/ SdWait \/ SdUnlock
        BY <1>2, <2>1 DEF SdLock, SdRelock, SdTest, SdWait, SdUnlock
    <2>2. CASE Drain \/ SpuriousWakeup
        BY <1>2, <2>2 DEF Drain, SpuriousWakeup
    <2>3. CASE LoadNothing \/ Load \/ LoadFailsGyro \/ LoadFailsAlign
        BY <1>2, <2>3 DEF LoadNothing, Load, LoadFailsGyro, LoadFailsAlign
    <2>4. CASE SortSlot \/ SortDone \/ Deliver \/ DeliverFails \/ DeliverDone
        BY <1>2, <2>4 DEF SortSlot, SortDone, Deliver, DeliverFails,
                          DeliverDone
    <2> QED BY <1>5, <2>1, <2>2, <2>3, <2>4 DEF Sensord
<1>6. CASE FlushStep \/ Reader
    BY <1>2, <1>6 DEF FlushStep, SendFlushEvent, SendFlushFails, Reader,
                      PollEvents, PollReady, PollTimeout, ReadEvents
<1>7. CASE UNCHANGED vars
    BY <1>2, <1>7 DEF vars
<1> QED BY <1>2, <1>3, <1>4, <1>5, <1>6, <1>7 DEF Next

\* No sample is ever left in the shared list with the sensord thread asleep
\* and nobody about to wake it.
THEOREM PathWakesUp == Spec => []NoLostWakeup
BY LockStep, WakeupStep, PTL DEF Spec
-----------------------------------------------------------------------------
(* Types and list limits.                                                  *)

\* What the types of events have to do with each other.
LEMMA EventTypes ==
    /\ \A s \in Sensor : SamplesOf(s) \subseteq SampleSet
    /\ SampleSet \subseteq Event
    /\ \A x \in SampleSet : x.sensor \in Sensor /\ x \in SamplesOf(x.sensor)
    /\ \A s \in Sensor : Seq(SamplesOf(s)) \subseteq Seq(SampleSet)
    /\ Seq(SampleSet) \subseteq Seq(Event)
    /\ \A s \in Sensor : \A n \in 0..MaxSamples :
            Sample(s, n) \in SamplesOf(s) /\ FlushEvent(s, n) \in Event
<1>1. \A s \in Sensor : SamplesOf(s) \subseteq SampleSet
    BY DEF SamplesOf
<1>2. SampleSet \subseteq Event
    BY DEF SampleSet
<1>3. \A x \in SampleSet : x.sensor \in Sensor /\ x \in SamplesOf(x.sensor)
    BY DEF SampleSet, Event, SamplesOf
<1>4. \A s \in Sensor : Seq(SamplesOf(s)) \subseteq Seq(SampleSet)
    BY <1>1, SeqMonotonic
<1>5. Seq(SampleSet) \subseteq Seq(Event)
    BY <1>2, SeqMonotonic
<1>6. \A s \in Sensor : \A n \in 0..MaxSamples :
          Sample(s, n) \in SamplesOf(s) /\ FlushEvent(s, n) \in Event
    BY DEF Sample, FlushEvent, SamplesOf, SampleSet, Event
<1> QED BY <1>1, <1>2, <1>3, <1>4, <1>5, <1>6

\* Queues per sensor: the empty ones, and the replacement of one of them.
LEMMA PerSensorQueues ==
    /\ Empty \in PerSensor
    /\ \A s \in Sensor : Empty[s] = << >> /\ Len(Empty[s]) = 0
    /\ \A f \in PerSensor : \A s \in Sensor :
            /\ f[s] \in Seq(SamplesOf(s)) /\ f[s] \in Seq(SampleSet)
            /\ Len(f[s]) \in Nat
    /\ \A f \in PerSensor : \A s \in Sensor : \A q \in Seq(SamplesOf(s)) :
            /\ [f EXCEPT ![s] = q] \in PerSensor
            /\ [f EXCEPT ![s] = q][s] = q
            /\ \A r \in Sensor \ {s} : [f EXCEPT ![s] = q][r] = f[r]
<1>1. \A s \in Sensor : Empty[s] = << >> /\ Len(Empty[s]) = 0
    BY DEF Empty
<1>2. \A S : << >> \in Seq(S)
    BY EmptySeq
<1>3. Empty \in PerSensor
    BY <1>1, <1>2 DEF Empty, PerSensor
<1>4. \A f \in PerSensor : \A s \in Sensor :
            /\ f[s] \in Seq(SamplesOf(s)) /\ f[s] \in Seq(SampleSet)
            /\ Len(f[s]) \in Nat
    BY LenProperties DEF PerSensor
<1>5. ASSUME NEW f \in PerSensor, NEW s \in Sensor,
             NEW q \in Seq(SamplesOf(s))
      PROVE  /\ [f EXCEPT ![s] = q] \in PerSensor
             /\ [f EXCEPT ![s] = q][s] = q
             /\ \A r \in Sensor \ {s} : [f EXCEPT ![s] = q][r] = f[r]
    <2>1. q \in Seq(SampleSet)
        BY EventTypes
    <2> QED BY <2>1 DEF PerSensor
<1> QED BY <1>1, <1>3, <1>4, <1>5

\* Replacing one list by another within the limit keeps all within it.
LEMMA LimitedQueues ==
    ASSUME NEW f \in PerSensor, \A r \in Sensor : Len(f[r]) <= ListCap,
           NEW s \in Sensor, NEW q \in Seq(SamplesOf(s)), Len(q) <= ListCap
    PROVE  /\ [f EXCEPT ![s] = q] \in PerSensor
           /\ \A r \in Sensor : Len([f EXCEPT ![s] = q][r]) <= ListCap
<1> DEFINE g == [f EXCEPT ![s] = q]
<1>1. g \in PerSensor /\ g[s] = q /\ \A r \in Sensor \ {s} : g[r] = f[r]
    BY PerSensorQueues
<1> HIDE DEF g
<1>2. \A r \in Sensor : Len(g[r]) <= ListCap
    BY <1>1
<1> QED BY <1>1, <1>2 DEF g

\* The steps of the driver and of the hwcntl thread keep the types.
LEMMA HwcntlTypes ==
    ASSUME TypeOK, Hwcntl \/ \E s \in Sensor : Produce(s)
    PROVE  TypeOK'
<1> USE BoundsAssumption DEF driverVars, hwVars, sdVars, flushVars,
        readerVars
<1>1. ASSUME NEW s \in Sensor, Produce(s)
      PROVE  TypeOK'
    <2>1. made[s] \in 0..MaxSamples /\ made[s] < MaxSamples
        BY <1>1 DEF TypeOK, Produce
    <2>2. made' \in [Sensor -> 0..MaxSamples]
        BY <1>1, <2>1 DEF TypeOK, Produce
    <2>3. Append(evdev[s], Sample(s, made[s] + 1)) \in Seq(SamplesOf(s))
        BY <2>1, EventTypes, PerSensorQueues DEF TypeOK
    <2>4. evdev' \in PerSensor
        BY <1>1, <2>3, PerSensorQueues DEF TypeOK, Produce
    <2> QED BY <1>1, <2>2, <2>4 DEF TypeOK, Produce
<1>2. CASE PollDevices \/ SkipPublish \/ HwLock \/ HwUnlock
    BY <1>2 DEF TypeOK, PollDevices, SkipPublish, HwLock, HwUnlock, ReadPc,
                MountPc, HwPcs
<1>3. CASE Signal
    BY <1>3 DEF TypeOK, Signal, HwPcs, SdPcs
<1>4. ASSUME NEW s \in Sensor, ReadSample(s)
      PROVE  TypeOK'
    <2> DEFINE x == Head(evdev[s])
    <2>1. evdev[s] \in Seq(SamplesOf(s)) /\ evdev[s] # << >>
        BY <1>4, PerSensorQueues DEF TypeOK, ReadSample
    <2>2. x \in SamplesOf(s) /\ Tail(evdev[s]) \in Seq(SamplesOf(s))
        BY <2>1, HeadTailProperties
    <2>3. evdev' \in PerSensor
        BY <1>4, <2>2, PerSensorQueues DEF TypeOK, ReadSample
    <2>4. hwList[s] \in Seq(SamplesOf(s)) /\ Len(hwList[s]) <= ListCap
        BY PerSensorQueues DEF TypeOK
    <2>5. /\ AddRear(hwList[s], x, ListCap) \in Seq(SamplesOf(s))
          /\ Len(AddRear(hwList[s], x, ListCap)) <= ListCap
          /\ AddRearDrops(hwList[s], ListCap) \subseteq SamplesOf(s)
        BY <2>2, <2>4, AddRearType
    <2>6. /\ hwList' \in PerSensor
          /\ \A r \in Sensor : Len(hwList'[r]) <= ListCap
        <3> DEFINE g == [hwList EXCEPT ![s] = AddRear(hwList[s], x, ListCap)]
        <3>1. hwList' = hwList \/ hwList' = g
            BY <1>4 DEF ReadSample
        <3>2. g \in PerSensor /\ \A r \in Sensor : Len(g[r]) <= ListCap
            BY <2>5, LimitedQueues DEF TypeOK
        <3> HIDE DEF g
        <3> QED BY <3>1, <3>2 DEF TypeOK
    <2>7. lost' \in SUBSET SampleSet
        BY <1>4, <2>2, <2>5, EventTypes DEF TypeOK, ReadSample
    <2> QED BY <1>4, <2>3, <2>6, <2>7 DEF TypeOK, ReadSample
<1>5. ASSUME NEW s \in Sensor, EndRead(s)
      PROVE  TypeOK'
    BY <1>5 DEF TypeOK, EndRead, ReadPc, HwPcs
<1>6. ASSUME NEW s \in Sensor, Mount(s)
      PROVE  TypeOK'
    <2>1. hwList[s] \in Seq(SampleSet)
        BY PerSensorQueues DEF TypeOK
    <2>2. shmem' \in Seq(SampleSet) /\ Len(shmem') <= ListCap
        BY <1>6, <2>1, MountRearType DEF TypeOK, Mount
    <2>3. lost' \in SUBSET SampleSet
        <3>1. MountRearDrops(shmem, hwList[s], ListCap) \subseteq SampleSet
            BY <2>1, MountRearType DEF TypeOK
        <3> QED BY <1>6, <3>1 DEF TypeOK, Mount
    <2>4. << >> \in Seq(SamplesOf(s)) /\ Len(<< >>) = 0
        BY EmptySeq
    <2>5. /\ hwList' \in PerSensor
          /\ \A r \in Sensor : Len(hwList'[r]) <= ListCap
        <3>1. hwList' = [hwList EXCEPT ![s] = << >>] /\ 0 <= ListCap
            BY <1>6, BoundsAssumption DEF Mount
        <3> QED BY <3>1, <2>4, LimitedQueues DEF TypeOK
    <2>6. hwPc' \in HwPcs
        BY <1>6 DEF Mount, MountPc, HwPcs
    <2> QED BY <1>6, <2>2, <2>3, <2>5, <2>6 DEF TypeOK, Mount
<1> QED BY <1>1, <1>2, <1>3, <1>4, <1>5, <1>6 DEF Hwcntl

\* What goes into an alignment slot leaves the arrays.
LEMMA SlotTypes ==
    ASSUME TypeOK, NEW s \in Sensor
    PROVE  /\ SlotOf(s) \in Seq(SampleSet)
           /\ (IF SlotOf(s) = << >> THEN arr[s] ELSE Tail(arr[s]))
                    \in Seq(SamplesOf(s))
<1>1. arr[s] \in Seq(SamplesOf(s))
    BY PerSensorQueues DEF TypeOK
<1>2. CASE arr[s] # << >> /\ StampOf(Head(arr[s])) = BaseStamp
    <2>1. Head(arr[s]) \in SamplesOf(s) /\ Tail(arr[s]) \in Seq(SamplesOf(s))
        BY <1>1, <1>2, HeadTailProperties
    <2>2. SlotOf(s) = << Head(arr[s]) >>
        BY <1>2 DEF SlotOf
    <2>3. << Head(arr[s]) >> \in Seq(SampleSet)
        BY <2>1, EventTypes
    <2> QED BY <1>1, <2>1, <2>2, <2>3
<1>3. CASE ~(arr[s] # << >> /\ StampOf(Head(arr[s])) = BaseStamp)
    <2>1. SlotOf(s) = << >>
        BY <1>3 DEF SlotOf
    <2> QED BY <1>1, <2>1, EmptySeq
<1> QED BY <1>2, <1>3

\* The steps of the sensord thread keep the types.
LEMMA SensordTypes ==
    ASSUME TypeOK, Sensord \/ SpuriousWakeup
    PROVE  TypeOK'
<1> USE BoundsAssumption DEF driverVars, hwVars, sdVars, flushVars,
        readerVars
<1>1. CASE SdLock \/ SdTest \/ SdWait \/ SpuriousWakeup \/ SdRelock \/ SdUnlock
    BY <1>1 DEF TypeOK, SdLock, SdTest, SdWait, SpuriousWakeup, SdRelock,
                SdUnlock, SdPcs
<1>2. CASE Drain
    <2> DEFINE x == Head(shmem)
    <2>1. shmem \in Seq(SampleSet) /\ shmem # << >>
        BY <1>2 DEF TypeOK, Drain
    <2>2. /\ x \in SampleSet /\ Tail(shmem) \in Seq(SampleSet)
          /\ Len(Tail(shmem)) = Len(shmem) - 1 /\ Len(shmem) \in Nat
        BY <2>1, HeadTailProperties, LenProperties
    <2>3. shmem' \in Seq(SampleSet) /\ Len(shmem') <= ListCap
        BY <1>2, <2>1, <2>2 DEF TypeOK, Drain, GetHead
    <2>4. x.sensor \in Sensor /\ x \in SamplesOf(x.sensor)
        BY <2>2, EventTypes
    <2>5. /\ sdList[x.sensor] \in Seq(SamplesOf(x.sensor))
          /\ Len(sdList[x.sensor]) <= ListCap
        BY <2>4, PerSensorQueues DEF TypeOK
    <2>6. /\ AddRear(sdList[x.sensor], x, ListCap) \in Seq(SamplesOf(x.sensor))
          /\ Len(AddRear(sdList[x.sensor], x, ListCap)) <= ListCap
          /\ AddRearDrops(sdList[x.sensor], ListCap)
                \subseteq SamplesOf(x.sensor)
        BY <2>4, <2>5, AddRearType
    <2>7. /\ sdList' \in PerSensor
          /\ \A r \in Sensor : Len(sdList'[r]) <= ListCap
        <3> DEFINE g == [sdList EXCEPT ![x.sensor] =
                            AddRear(sdList[x.sensor], x, ListCap)]
        <3>1. sdList' = sdList \/ sdList' = g
            BY <1>2 DEF Drain
        <3>2. g \in PerSensor /\ \A r \in Sensor : Len(g[r]) <= ListCap
            BY <2>4, <2>6, LimitedQueues DEF TypeOK
        <3> HIDE DEF g
        <3> QED BY <3>1, <3>2 DEF TypeOK
    <2>8. lost' \in SUBSET SampleSet
        BY <1>2, <2>2, <2>4, <2>6, EventTypes DEF TypeOK, Drain
    <2> QED BY <1>2, <2>3, <2>7, <2>8 DEF TypeOK, Drain
<1>3. CASE LoadNothing
    BY <1>3 DEF TypeOK, LoadNothing, SdPcs
<1>4. CASE Load
    <2>1. sdList' \in PerSensor /\ \A s \in Sensor : Len(sdList'[s]) <= ListCap
        BY <1>4, PerSensorQueues DEF Load
    <2> QED BY <1>4, <2>1 DEF TypeOK, Load, SdPcs
<1>5. CASE LoadFailsGyro \/ LoadFailsAlign
    <2>1. \A s \in Sensor : Truncated(sdList[s], 0) \subseteq SampleSet
        BY PerSensorQueues, TruncatedType DEF TypeOK
    <2>2. Acc \in Sensor /\ Gyro \in Sensor
        BY DEF Sensor
    <2>3. lost' \in SUBSET SampleSet
        BY <1>5, <2>1, <2>2 DEF TypeOK, LoadFailsGyro, LoadFailsAlign
    <2>4. << >> \in Seq(SamplesOf(Acc)) /\ Len(<< >>) = 0
        BY EmptySeq
    <2>5. sdList' \in PerSensor /\ \A s \in Sensor : Len(sdList'[s]) <= ListCap
        <3> DEFINE g == [sdList EXCEPT ![Acc] = << >>]
        <3>1. sdList' = Empty \/ sdList' = g
            BY <1>5 DEF LoadFailsGyro, LoadFailsAlign
        <3>2. Empty \in PerSensor /\ \A s \in Sensor : Len(Empty[s]) <= ListCap
            BY PerSensorQueues, BoundsAssumption
        <3>3. g \in PerSensor /\ \A s \in Sensor : Len(g[s]) <= ListCap
            <4>1. /\ sdList \in PerSensor /\ Len(<< >>) <= ListCap
                  /\ \A s \in Sensor : Len(sdList[s]) <= ListCap
                BY <2>4, BoundsAssumption DEF TypeOK
            <4> QED BY <4>1, <2>2, <2>4, LimitedQueues
        <3> HIDE DEF g
        <3> QED BY <3>1, <3>2, <3>3
    <2> QED BY <1>5, <2>3, <2>5 DEF TypeOK, LoadFailsGyro, LoadFailsAlign,
                                    SdPcs
<1>6. CASE SortSlot
    <2>1. Acc \in Sensor /\ Gyro \in Sensor
        BY DEF Sensor
    <2>2. batch' \in Seq(SampleSet)
        BY <1>6, <2>1, SlotTypes, ConcatProperties DEF TypeOK, SortSlot, AddPackage
    <2>3. arr' \in PerSensor
        BY <1>6, SlotTypes, EventTypes DEF SortSlot, PerSensor
    <2> QED BY <1>6, <2>2, <2>3 DEF TypeOK, SortSlot
<1>7. CASE SortDone \/ DeliverDone
    BY <1>7 DEF TypeOK, SortDone, DeliverDone, SdPcs
<1>8. CASE Deliver \/ DeliverFails
    <2>1. batch \in Seq(SampleSet) /\ batch # << >>
        BY <1>8 DEF TypeOK, Deliver, DeliverFails
    <2>2. Head(batch) \in SampleSet /\ Tail(batch) \in Seq(SampleSet)
        BY <2>1, HeadTailProperties
    <2>3. Head(batch) \in Event
        BY <2>2, EventTypes
    <2>4. pipe' \in Seq(Event) /\ Len(pipe') <= PipeCap
        <3>1. /\ pipe \in Seq(Event) /\ Len(pipe) \in Nat
              /\ Len(pipe) <= PipeCap
            BY LenProperties DEF TypeOK
        <3>2. CASE Deliver
            BY <3>1, <3>2, <2>3 DEF Deliver
        <3>3. CASE DeliverFails
            BY <3>1, <3>3 DEF DeliverFails
        <3> QED BY <1>8, <3>2, <3>3
    <2>5. lost' \in SUBSET SampleSet
        BY <1>8, <2>2 DEF TypeOK, Deliver, DeliverFails
    <2> QED BY <1>8, <2>2, <2>4, <2>5 DEF TypeOK, Deliver, DeliverFails
<1> QED BY <1>1, <1>2, <1>3, <1>4, <1>5, <1>6, <1>7, <1>8 DEF Sensord

\* The steps of the framework's threads keep the types.
LEMMA FrameworkTypes ==
    ASSUME TypeOK, FlushStep \/ Reader \/ \E s \in Sensor : Flush(s)
    PROVE  TypeOK'
<1> USE BoundsAssumption DEF driverVars, hwVars, sdVars, flushVars,
        readerVars
<1>1. ASSUME NEW s \in Sensor, Flush(s)
      PROVE  TypeOK'
    <2>1. FlushEvent(s, made[s]) \in Event
        BY EventTypes DEF TypeOK
    <2>2. flushing' \in Seq(Event) /\ Len(flushing') <= 1
        BY <1>1, <2>1 DEF Flush
    <2> QED BY <1>1, <2>2 DEF TypeOK, Flush
<1>2. CASE SendFlushEvent
    <2>1. pipe' \in Seq(Event) /\ Len(pipe') <= PipeCap
        BY <1>2, ConcatProperties, LenProperties DEF TypeOK, SendFlushEvent
    <2>2. flushing' \in Seq(Event) /\ Len(flushing') <= 1
        BY <1>2, EmptySeq DEF SendFlushEvent
    <2> QED BY <1>2, <2>1, <2>2 DEF TypeOK, SendFlushEvent
<1>3. CASE SendFlushFails
    BY <1>3, EmptySeq DEF TypeOK, SendFlushFails
<1>4. CASE PollEvents \/ PollReady \/ PollTimeout
    BY <1>4 DEF TypeOK, PollEvents, PollReady, PollTimeout
<1>5. CASE ReadEvents
    <2> DEFINE room == PollCount - nbEvents
               n == IF Len(pipe) < room THEN Len(pipe) ELSE room
    <2>1. pipe \in Seq(Event) /\ delivered \in Seq(Event)
        BY DEF TypeOK
    <2>2. Len(pipe) \in Nat /\ Len(pipe) <= PipeCap
        BY LenProperties DEF TypeOK
    <2>3. n \in 0..Len(pipe) /\ nbEvents + n \in 0..PollCount
        BY <2>2 DEF TypeOK
    <2>4. /\ delivered' = delivered \o SubSeq(pipe, 1, n)
          /\ pipe' = SubSeq(pipe, n + 1, Len(pipe))
          /\ nbEvents' = nbEvents + n
          /\ rdPc' \in {"idle", "poll"}
        BY <1>5 DEF ReadEvents
    <2> HIDE DEF n
    <2>5. \A i \in 1..Len(pipe) : pipe[i] \in Event
        BY <2>1, ElementOfSeq
    <2>6. SubSeq(pipe, 1, n) \in Seq(Event)
        BY <2>2, <2>3, <2>5, SubSeqProperties
    <2>7. /\ pipe' \in Seq(Event)
          /\ Len(pipe') = IF n + 1 <= Len(pipe)
                          THEN Len(pipe) - (n + 1) + 1 ELSE 0
        BY <2>2, <2>3, <2>4, <2>5, SubSeqProperties
    <2>8. Len(pipe') <= PipeCap
        BY <2>2, <2>3, <2>7
    <2>9. delivered' \in Seq(Event)
        BY <2>1, <2>4, <2>6, ConcatProperties
    <2> QED BY <1>5, <2>3, <2>4, <2>7, <2>8, <2>9 DEF TypeOK, ReadEvents
<1> QED BY <1>1, <1>2, <1>3, <1>4, <1>5 DEF FlushStep, Reader

\* All lists and queues are empty to begin with.
LEMMA InitTypes == Init => TypeOK
<1> SUFFICES ASSUME Init PROVE TypeOK
    OBVIOUS
<1>1. \A S : << >> \in Seq(S)
    BY EmptySeq
<1>2. Len(<< >>) = 0
    BY EmptySeq
<1>3. evdev \in PerSensor /\ arr \in PerSensor
      /\ hwList \in PerSensor /\ sdList \in PerSensor
      /\ \A s \in Sensor : Len(hwList[s]) <= ListCap /\ Len(sdList[s]) <= ListCap
    BY PerSensorQueues, BoundsAssumption DEF Init
<1>4. made \in [Sensor -> 0..MaxSamples]
    BY BoundsAssumption DEF Init
<1> QED BY <1>1, <1>2, <1>3, <1>4, BoundsAssumption
        DEF Init, TypeOK, HwPcs, SdPcs

\* Every variable has its type, every list keeps to its limit and to its
\* sensor, the pipe to its capacity and pollEvents to the caller's array,
\* whatever the constants are.
THEOREM PathTypes == Spec => []TypeOK
<1>1. TypeOK /\ UNCHANGED vars => TypeOK'
    BY DEF TypeOK, vars, driverVars, hwVars, sdVars, flushVars, readerVars
<1>2. TypeOK /\ [Next]_vars => TypeOK'
    BY <1>1, HwcntlTypes, SensordTypes, FrameworkTypes DEF Next
<1> QED BY <1>2, InitTypes, PTL DEF Spec

-----------------------------------------------------------------------------
(* Where samples can be given up.                                          *)

\* The sensord thread begins to drain with its own lists empty: they were
\* handed on in the round before, unless memory ran out.
HandedOn == ~AllocFails /\ sdPc \notin {"drain", "load"} => sdList = Empty

\* Unless memory runs out, the sensord thread's own lists cannot overflow:
\* what is left in the shared list always fits behind what was taken out.
DrainFits ==
    ~AllocFails /\ sdPc = "drain" =>
        Len(sdList[Acc]) + Len(sdList[Gyro]) + Len(shmem) <= ListCap

\* The arithmetic of the drain loop: one element less here, one more there.
LEMMA SumWithin ==
    ASSUME NEW a \in Nat, NEW b \in Nat, NEW c \in Nat \ {0}, NEW n \in Nat,
           a + b + c <= n
    PROVE  /\ a < n /\ b < n
           /\ (a + 1) + b + (c - 1) <= n /\ a + (b + 1) + (c - 1) <= n
OBVIOUS

\* Before each turn of the drain loop both lists of the sensord thread have
\* room, and the head of the shared list belongs to one of the sensors.
LEMMA DrainRoom ==
    ASSUME TypeOK, DrainFits, ~AllocFails, Drain
    PROVE  /\ Head(shmem) \in SampleSet
           /\ Head(shmem).sensor \in Sensor
           /\ Len(shmem) \in Nat \ {0}
           /\ Len(GetHead(shmem)) = Len(shmem) - 1
           /\ \A s \in Sensor : /\ Len(sdList[s]) \in Nat
                               /\ Len(sdList[s]) < ListCap
<1>1. shmem \in Seq(SampleSet) /\ shmem # << >> /\ sdPc = "drain"
    BY DEF Drain, TypeOK
<1>2. /\ Head(shmem) \in SampleSet /\ Len(shmem) \in Nat \ {0}
      /\ Len(Tail(shmem)) = Len(shmem) - 1
    BY <1>1, HeadTailProperties, EmptySeq
<1>3. Head(shmem).sensor \in Sensor
    BY <1>2, EventTypes
<1>4. Len(GetHead(shmem)) = Len(shmem) - 1
    BY <1>1, <1>2 DEF GetHead
<1>5. Acc \in Sensor /\ Gyro \in Sensor
    BY DEF Sensor
<1>6. Len(sdList[Acc]) \in Nat /\ Len(sdList[Gyro]) \in Nat
    BY <1>5, PerSensorQueues DEF TypeOK
<1>7. Len(sdList[Acc]) + Len(sdList[Gyro]) + Len(shmem) <= ListCap
    BY <1>1 DEF DrainFits
<1>8. Len(sdList[Acc]) < ListCap /\ Len(sdList[Gyro]) < ListCap
    BY <1>2, <1>6, <1>7, BoundsAssumption, SumWithin
<1> QED BY <1>2, <1>3, <1>4, <1>6, <1>8 DEF Sensor

\* Draining moves samples within a sum that was within the limit when the
\* mutex was taken, and the hwcntl thread cannot add to it meanwhile.
LEMMA DrainStep ==
    /\ Init => HandedOn /\ DrainFits
    /\ TypeOK /\ LockDiscipline /\ HandedOn /\ DrainFits /\ [Next]_vars
            => HandedOn' /\ DrainFits'
<1> USE DEF HandedOn, DrainFits, driverVars, hwVars, sdVars, flushVars,
            readerVars
<1>1. Init => HandedOn /\ DrainFits
    BY DEF Init
<1>2. SUFFICES ASSUME TypeOK, LockDiscipline, HandedOn, DrainFits,
                      [Next]_vars, ~AllocFails
               PROVE  HandedOn' /\ DrainFits'
    BY <1>1
<1>3. Acc \in Sensor /\ Gyro \in Sensor /\ Acc # Gyro
      /\ \A s \in Sensor : s = Acc \/ s = Gyro
    BY DEF Sensor, Acc, Gyro
<1>4. /\ Len(sdList[Acc]) \in Nat /\ Len(sdList[Gyro]) \in Nat
      /\ shmem \in Seq(SampleSet)
      /\ Len(shmem) \in Nat /\ Len(shmem) <= ListCap
    BY <1>2, <1>3, PerSensorQueues, LenProperties DEF TypeOK
<1>5. ASSUME NEW s \in Sensor, Produce(s) \/ Flush(s)
      PROVE  HandedOn' /\ DrainFits'
    BY <1>2, <1>5 DEF Produce, Flush
<1>6. CASE Hwcntl
    <2>1. CASE PollDevices \/ SkipPublish \/ HwLock \/ HwUnlock
        BY <1>2, <2>1 DEF PollDevices, SkipPublish, HwLock, HwUnlock
    <2>2. CASE Signal
        BY <1>2, <2>2 DEF Signal
    <2>3. ASSUME NEW s \in Sensor, ReadSample(s) \/ EndRead(s)
          PROVE  HandedOn' /\ DrainFits'
        BY <1>2, <2>3 DEF ReadSample, EndRead
    <2>4. ASSUME NEW s \in Sensor, Mount(s)
          PROVE  HandedOn' /\ DrainFits'
        <3>1. sdPc # "drain"
            BY <1>2, <2>4 DEF Mount, MountPc, LockDiscipline
        <3> QED BY <1>2, <2>4, <3>1 DEF Mount
    <2> QED BY <1>6, <2>1, <2>2, <2>3, <2>4 DEF Hwcntl
<1>7. CASE Sensord \/ SpuriousWakeup
    <2>1. CASE SdLock \/ SdWait \/ SpuriousWakeup \/ SdUnlock
        BY <1>2, <2>1 DEF SdLock, SdWait, SpuriousWakeup, SdUnlock
    <2>2. CASE SdTest \/ SdRelock
        <3>1. sdList' = Empty /\ shmem' = shmem
            BY <1>2, <2>2 DEF SdTest, SdRelock
        <3>2. Len(sdList'[Acc]) = 0 /\ Len(sdList'[Gyro]) = 0
            BY <1>3, <3>1, PerSensorQueues
        <3> QED BY <1>4, <3>1, <3>2
    <2>3. CASE Drain
        <3> DEFINE x == Head(shmem)
                   r == x.sensor
                   longer == Append(sdList[r], x)
        <3>1. sdPc = "drain" /\ sdPc' = sdPc /\ shmem' = GetHead(shmem)
            BY <2>3 DEF Drain
        <3>2. /\ x \in SampleSet /\ r \in Sensor
              /\ Len(shmem) \in Nat \ {0}
              /\ Len(GetHead(shmem)) = Len(shmem) - 1
              /\ Len(sdList[r]) \in Nat /\ Len(sdList[r]) < ListCap
            BY <1>2, <2>3, DrainRoom
        <3>3. x \in SamplesOf(r) /\ sdList[r] \in Seq(SamplesOf(r))
            BY <1>2, <3>2, EventTypes, PerSensorQueues DEF TypeOK
        <3>4. longer \in Seq(SamplesOf(r)) /\ Len(longer) = Len(sdList[r]) + 1
            BY <3>3
        <3>5. AddRear(sdList[r], x, ListCap) = longer
            <4>1. Len(sdList[r]) # ListCap
                BY <3>2, BoundsAssumption
            <4> QED BY <4>1 DEF AddRear
        <3>6. sdList' = [sdList EXCEPT ![r] = longer]
            BY <1>2, <2>3, <3>5 DEF Drain
        <3> HIDE DEF longer, r
        <3>7. sdList'[r] = longer /\ \A q \in Sensor \ {r} : sdList'[q] = sdList[q]
            BY <1>2, <3>2, <3>4, <3>6, PerSensorQueues DEF TypeOK
        <3>10. Len(sdList[Acc]) + Len(sdList[Gyro]) + Len(shmem) <= ListCap
            BY <1>2, <3>1 DEF DrainFits
        <3>8. CASE r = Acc
            <4>1. /\ Len(sdList'[Acc]) = Len(sdList[Acc]) + 1
                  /\ Len(sdList'[Gyro]) = Len(sdList[Gyro])
                BY <1>3, <3>4, <3>7, <3>8
            <4>2. Len(sdList'[Acc]) + Len(sdList'[Gyro]) + Len(shmem') <= ListCap
                BY <1>4, <3>10, <3>1, <3>2, <4>1, BoundsAssumption, SumWithin
            <4> QED BY <3>1, <4>2
        <3>9. CASE r = Gyro
            <4>1. /\ Len(sdList'[Gyro]) = Len(sdList[Gyro]) + 1
                  /\ Len(sdList'[Acc]) = Len(sdList[Acc])
                BY <1>3, <3>4, <3>7, <3>9
            <4>2. Len(sdList'[Acc]) + Len(sdList'[Gyro]) + Len(shmem') <= ListCap
                BY <1>4, <3>10, <3>1, <3>2, <4>1, BoundsAssumption, SumWithin
            <4> QED BY <3>1, <4>2
        <3> QED BY <1>3, <3>2, <3>8, <3>9
    <2>4. CASE LoadNothing \/ Load \/ LoadFailsGyro \/ LoadFailsAlign
        BY <1>2, <2>4 DEF LoadNothing, Load, LoadFailsGyro, LoadFailsAlign
    <2>5. CASE SortSlot \/ SortDone \/ Deliver \/ DeliverFails \/ DeliverDone
        BY <1>2, <2>5 DEF SortSlot, SortDone, Deliver, DeliverFails,
                          DeliverDone
    <2> QED BY <1>7, <2>1, <2>2, <2>3, <2>4, <2>5 DEF Sensord
<1>8. CASE FlushStep \/ Reader
    BY <1>2, <1>8 DEF FlushStep, SendFlushEvent, SendFlushFails, Reader,
                      PollEvents, PollReady, PollTimeout, ReadEvents
<1>9. CASE UNCHANGED vars
    BY <1>2, <1>9 DEF vars
<1> QED BY <1>2, <1>5, <1>6, <1>7, <1>8, <1>9 DEF Next

\* The invariant the drain argument is about, put together.
PathInv == TypeOK /\ LockDiscipline /\ HandedOn /\ DrainFits

LEMMA PathInvAlways == Spec => []PathInv
<1>1. Init => PathInv
    BY InitTypes, LockStep, DrainStep DEF PathInv
<1>2. TypeOK /\ UNCHANGED vars => TypeOK'
    BY DEF TypeOK, vars, driverVars, hwVars, sdVars, flushVars, readerVars
<1>3. TypeOK /\ [Next]_vars => TypeOK'
    BY <1>2, HwcntlTypes, SensordTypes, FrameworkTypes DEF Next
<1>4. PathInv /\ [Next]_vars => PathInv'
    BY <1>3, LockStep, DrainStep DEF PathInv
<1> QED BY <1>1, <1>4, PTL DEF Spec

\* With memory to be had, the sensord thread's own lists never overflow: the
\* limit of the shared list bounds what one round takes out of it.
THEOREM PathDrainFits == Spec => []DrainFits
<1>1. PathInv => DrainFits
    BY DEF PathInv
<1> QED BY <1>1, PathInvAlways, PTL

\* With memory to be had, a sample is given up in three places only: by the
\* accelerometer's test for a zero time, by a full list of the hwcntl thread,
\* and by a shared list that cannot take all of what is mounted on it.
THEOREM PathLosesOnlyWhenFull == Spec => LossOnlyWhenFull
<1> DEFINE Excused ==
        \/ \E x \in lost' \ lost : x.sensor = Acc /\ StampOf(x) < SecTicks
        \/ \E s \in Sensor : hwPc = ReadPc(s) /\ Len(hwList[s]) = ListCap
        \/ \E s \in Sensor : /\ hwPc = MountPc(s)
                             /\ Len(shmem) + Len(hwList[s]) > ListCap
<1>1. ASSUME PathInv, Next, ~AllocFails, lost' # lost
      PROVE  Excused
    <2> USE DEF driverVars, hwVars, sdVars, flushVars, readerVars
    <2>1. TypeOK /\ DrainFits
        BY <1>1 DEF PathInv
    <2>2. ASSUME NEW s \in Sensor, ReadSample(s)
          PROVE  Excused
        <3>1. hwPc = ReadPc(s)
            BY <2>2 DEF ReadSample
        <3>2. CASE Discarded(Head(evdev[s])) /\ lost' = lost \cup {Head(evdev[s])}
            BY <1>1, <3>2 DEF Discarded
        <3>3. CASE lost' = lost \cup AddRearDrops(hwList[s], ListCap)
            BY <1>1, <2>2, <3>1, <3>3 DEF AddRearDrops
        <3> QED BY <1>1, <2>2, <3>2, <3>3 DEF ReadSample
    <2>3. ASSUME NEW s \in Sensor, Mount(s)
          PROVE  Excused
        <3>1. /\ shmem \in Seq(SampleSet) /\ hwList[s] \in Seq(SampleSet)
              /\ Len(shmem) \in Nat /\ Len(hwList[s]) \in Nat
              /\ Len(shmem) <= ListCap /\ ListCap \in Nat
            BY <2>1, PerSensorQueues, LenProperties, BoundsAssumption DEF TypeOK
        <3>2. MountRearDrops(shmem, hwList[s], ListCap) # {}
            BY <1>1, <2>3 DEF Mount
        <3>3. Len(shmem) + Len(hwList[s]) > ListCap
            <4> HIDE DEF Excused
            <4>1. Len(shmem) + Len(hwList[s]) <= ListCap =>
                    MountRearDrops(shmem, hwList[s], ListCap) = {}
                BY <3>1, MountRearType
            <4> QED BY <3>1, <3>2, <4>1
        <3> QED BY <2>3, <3>3 DEF Mount
    <2>4. CASE Drain
        <3>1. /\ Head(shmem).sensor \in Sensor
              /\ \A s \in Sensor : Len(sdList[s]) \in Nat /\ Len(sdList[s]) < ListCap
            BY <1>1, <2>1, <2>4, DrainRoom
        <3>2. AddRearDrops(sdList[Head(shmem).sensor], ListCap) = {}
            BY <3>1, BoundsAssumption DEF AddRearDrops
        <3>3. lost' = lost
            BY <1>1, <2>4, <3>2 DEF Drain
        <3> QED BY <1>1, <3>3
    <2>5. ASSUME NEW s \in Sensor, Produce(s) \/ EndRead(s) \/ Flush(s)
          PROVE  lost' = lost
        BY <2>5 DEF Produce, EndRead, Flush
    <2>6. CASE PollDevices \/ SkipPublish \/ HwLock \/ Signal \/ HwUnlock
        BY <1>1, <2>6 DEF PollDevices, SkipPublish, HwLock, Signal, HwUnlock
    <2>7. CASE SdLock \/ SdTest \/ SdWait \/ SpuriousWakeup \/ SdRelock \/ SdUnlock
        BY <1>1, <2>7 DEF SdLock, SdTest, SdWait, SpuriousWakeup, SdRelock,
                          SdUnlock
    <2>8. CASE LoadNothing \/ Load \/ LoadFailsGyro \/ LoadFailsAlign
        BY <1>1, <2>8 DEF LoadNothing, Load, LoadFailsGyro, LoadFailsAlign
    <2>9. CASE SortSlot \/ SortDone \/ Deliver \/ DeliverFails \/ DeliverDone
        BY <1>1, <2>9 DEF SortSlot, SortDone, Deliver, DeliverFails,
                          DeliverDone
    <2>10. CASE FlushStep \/ Reader
        BY <1>1, <2>10 DEF FlushStep, SendFlushEvent, SendFlushFails, Reader,
                           PollEvents, PollReady, PollTimeout, ReadEvents
    <2> QED BY <1>1, <2>2, <2>3, <2>4, <2>5, <2>6, <2>7, <2>8, <2>9, <2>10
            DEF Next, Hwcntl, Sensord
<1>2. PathInv /\ [Next]_vars => [~AllocFails /\ lost' # lost => Excused]_vars
    BY <1>1
<1> QED BY <1>2, PathInvAlways, PTL DEF Spec, LossOnlyWhenFull
=============================================================================
