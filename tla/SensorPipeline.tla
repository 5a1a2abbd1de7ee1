--------------------------- MODULE SensorPipeline ---------------------------
(***************************************************************************)
(* The data path of the HAL in the default build (FIFO solution, SMI230    *)
(* accelerometer and gyroscope, no data synchronisation):                  *)
(*                                                                         *)
(*   driver -> evdev -> hwcntl thread -> shared list -> sensord thread     *)
(*          -> HAL pipe -> pollEvents of the framework's poll thread       *)
(*                                                                         *)
(* and the flush call, which writes to the HAL pipe from a framework       *)
(* thread.  The hwcntl and the sensord thread share one list, guarded by   *)
(* shmem_hwcntl.mutex and announced with shmem_hwcntl.cond.                *)
(*                                                                         *)
(* A sample is named by its sensor and its number; payload, unit           *)
(* conversion and logging are left out.  The two kernel queues (evdev      *)
(* buffers, pipe) are external and modelled from how they are used.        *)
(***************************************************************************)
EXTENDS Integers, Sequences, FiniteSets, BoschSimpleList

CONSTANTS
    MaxSamples,  \* samples each device emits (bounds the model)
    MaxFlushes,  \* flush calls the framework makes (bounds the model)
    ListCap,     \* uplimit of every BoschSimpleList (DEFAULT_LIST_LEN, 128)
    PipeCap,     \* events the HAL pipe holds before a write blocks
    PollCount,   \* the `count' the framework passes to pollEvents
    Stamp,       \* Stamp[s][n]: time stamp of the n-th sample of sensor s
    SecTicks,    \* time-stamp ticks in one second
    AllocFails   \* TRUE if malloc and calloc may return NULL

Acc == "acc"
Gyro == "gyro"
Sensor == {Acc, Gyro}

ASSUME BoundsAssumption ==
    /\ MaxSamples \in Nat /\ MaxFlushes \in Nat
    /\ ListCap \in Nat \ {0} /\ PipeCap \in Nat \ {0}
    /\ PollCount \in Nat \ {0}
    /\ SecTicks \in Nat \ {0}
    /\ AllocFails \in BOOLEAN

\* A device stamps its own samples in the order it takes them.
ASSUME StampAssumption ==
    /\ Stamp \in [Sensor -> [1..MaxSamples -> Nat]]
    /\ \A s \in Sensor : \A m, n \in 1..MaxSamples :
            m < n => Stamp[s][m] < Stamp[s][n]

(***************************************************************************)
(* Events.  The `seq' of a flush event is a ghost: how many samples of the *)
(* sensor existed when flush was called.                                   *)
(***************************************************************************)
Event == [kind : {"data", "flush"}, sensor : Sensor, seq : 0..MaxSamples]
Sample(s, n) == [kind |-> "data", sensor |-> s, seq |-> n]
FlushEvent(s, n) == [kind |-> "flush", sensor |-> s, seq |-> n]
StampOf(x) == Stamp[x.sensor][x.seq]

VARIABLES
    made,       \* made[s]: number of samples device s has emitted
    evdev,      \* evdev[s]: samples waiting in the input device of s
    hwPc,       \* where the hwcntl thread is
    revents,    \* the devices the last poll of the hwcntl thread reported
    hwList,     \* tmplist_hwcntl_acclraw and tmplist_hwcntl_gyroraw
    mutex,      \* who holds shmem_hwcntl.mutex
    shmem,      \* shmem_hwcntl.p_list
    sdPc,       \* where the sensord thread is
    sdList,     \* tmplist_sensord_acclraw and tmplist_sensord_gyroraw
    arr,        \* pp_ACC_hwdata and pp_GYRO_hwdata from their current index on
    batch,      \* the sorted samples sensord_algo_process has yet to deliver
    flushing,   \* the flush event a framework thread is about to write
    flushes,    \* number of flush calls made
    pipe,       \* the HAL pipe
    rdPc,       \* where the framework's poll thread is in pollEvents
    nbEvents,   \* events the current pollEvents call has collected
    delivered,  \* history: every event handed to the framework, in order
    lost        \* history: every sample that was freed without delivery

driverVars == <<made, evdev>>
hwVars == <<hwPc, revents, hwList>>
sdVars == <<sdPc, sdList, arr, batch>>
flushVars == <<flushing, flushes>>
readerVars == <<rdPc, nbEvents, delivered>>
vars == <<driverVars, hwVars, mutex, shmem, sdVars, flushVars, pipe,
          readerVars, lost>>

Empty == [s \in Sensor |-> << >>]

Init ==
    /\ made = [s \in Sensor |-> 0]
    /\ evdev = Empty
    /\ hwPc = "poll" /\ revents = {} /\ hwList = Empty
    /\ mutex = "free" /\ shmem = << >>
    /\ sdPc = "lock" /\ sdList = Empty /\ arr = Empty /\ batch = << >>
    /\ flushing = << >> /\ flushes = 0
    /\ pipe = << >>
    /\ rdPc = "idle" /\ nbEvents = 0 /\ delivered = << >>
    /\ lost = {}

-----------------------------------------------------------------------------
(* The driver (external): a device queues one sample.                      *)
Produce(s) ==
    /\ made[s] < MaxSamples
    /\ made' = [made EXCEPT ![s] = @ + 1]
    /\ evdev' = [evdev EXCEPT ![s] = Append(@, Sample(s, made[s] + 1))]
    /\ UNCHANGED <<hwVars, mutex, shmem, sdVars, flushVars, pipe, readerVars,
                   lost>>

-----------------------------------------------------------------------------
(* The hwcntl thread: IMU_hw_deliver_sensordata in an endless loop.        *)

ReadPc(s) == IF s = Acc THEN "readAcc" ELSE "readGyro"
MountPc(s) == IF s = Acc THEN "mountAcc" ELSE "mountGyro"

\* poll(poll_fds, 2, -1) returns as soon as a device has data, and tells
\* which ones have some at that moment.
PollDevices ==
    /\ hwPc = "poll"
    /\ \E s \in Sensor : evdev[s] # << >>
    /\ revents' = {s \in Sensor : evdev[s] # << >>}
    /\ hwPc' = ReadPc(Acc)
    /\ UNCHANGED <<driverVars, hwList, mutex, shmem, sdVars, flushVars, pipe,
                   readerVars, lost>>

\* Wrong variant: the gyroscope's reader discards them too.
Discarded_BothSensors(x) == StampOf(x) < SecTicks

\* The accelerometer's reader discards frames whose seconds field is zero;
\* the gyroscope's reader has no such test.
Discarded(x) == x.sensor = Acc /\ StampOf(x) < SecTicks

\* One turn of the read loop of device s.
ReadSample(s) ==
    /\ hwPc = ReadPc(s) /\ s \in revents /\ evdev[s] # << >>
    /\ evdev' = [evdev EXCEPT ![s] = Tail(@)]
    /\ \/ /\ ~Discarded(Head(evdev[s]))
          /\ hwList' = [hwList EXCEPT
                            ![s] = AddRear(@, Head(evdev[s]), ListCap)]
          /\ lost' = lost \cup AddRearDrops(hwList[s], ListCap)
       \/ /\ Discarded(Head(evdev[s])) \/ AllocFails
          /\ lost' = lost \cup {Head(evdev[s])}
          /\ UNCHANGED hwList
    /\ UNCHANGED <<made, hwPc, revents, mutex, shmem, sdVars, flushVars, pipe,
                   readerVars>>

\* The device was not reported ready, or its read loop has emptied it.
EndRead(s) ==
    /\ hwPc = ReadPc(s)
    /\ s \in revents => evdev[s] = << >>
    /\ hwPc' = IF s = Acc THEN ReadPc(Gyro) ELSE "publish"
    /\ UNCHANGED <<driverVars, revents, hwList, mutex, shmem, sdVars,
                   flushVars, pipe, readerVars, lost>>

\* Nothing was kept: go back to poll without touching the shared list.
SkipPublish ==
    /\ hwPc = "publish" /\ hwList = Empty
    /\ hwPc' = "poll"
    /\ UNCHANGED <<driverVars, revents, hwList, mutex, shmem, sdVars,
                   flushVars, pipe, readerVars, lost>>

HwLock ==
    /\ hwPc = "publish" /\ hwList # Empty
    /\ mutex = "free" /\ mutex' = "hwcntl"
    /\ hwPc' = MountPc(Acc)
    /\ UNCHANGED <<driverVars, revents, hwList, shmem, sdVars, flushVars,
                   pipe, readerVars, lost>>

\* Wrong variant: the mounted list is not emptied.
Mount_KeepsSource(s) ==
    /\ hwPc = MountPc(s)
    /\ shmem' = MountRear(shmem, hwList[s], ListCap)
    /\ lost' = lost \cup MountRearDrops(shmem, hwList[s], ListCap)
    /\ hwPc' = IF s = Acc THEN MountPc(Gyro) ELSE "signal"
    /\ UNCHANGED <<driverVars, revents, hwList, mutex, sdVars, flushVars, pipe,
                   readerVars>>

\* list_mount_rear of the list of s onto the shared list.
Mount(s) ==
    /\ hwPc = MountPc(s)
    /\ shmem' = MountRear(shmem, hwList[s], ListCap)
    /\ lost' = lost \cup MountRearDrops(shmem, hwList[s], ListCap)
    /\ hwList' = [hwList EXCEPT ![s] = << >>]
    /\ hwPc' = IF s = Acc THEN MountPc(Gyro) ELSE "signal"
    /\ UNCHANGED <<driverVars, revents, mutex, sdVars, flushVars, pipe,
                   readerVars>>

\* Wrong variant: the signal is forgotten.
Signal_Omitted ==
    /\ hwPc = "signal"
    /\ hwPc' = "unlock"
    /\ UNCHANGED <<driverVars, revents, hwList, mutex, shmem, sdVars,
                   flushVars, pipe, readerVars, lost>>

\* pthread_cond_signal wakes the sensord thread if it is waiting.
Signal ==
    /\ hwPc = "signal"
    /\ sdPc' = IF sdPc = "waiting" THEN "woken" ELSE sdPc
    /\ hwPc' = "unlock"
    /\ UNCHANGED <<driverVars, revents, hwList, mutex, shmem, sdList, arr,
                   batch, flushVars, pipe, readerVars, lost>>

HwUnlock ==
    /\ hwPc = "unlock"
    /\ mutex' = "free"
    /\ hwPc' = "poll"
    /\ UNCHANGED <<driverVars, revents, hwList, shmem, sdVars, flushVars,
                   pipe, readerVars, lost>>

Hwcntl ==
    \/ PollDevices \/ SkipPublish \/ HwLock \/ Signal \/ HwUnlock
    \/ \E s \in Sensor : ReadSample(s) \/ EndRead(s) \/ Mount(s)

-----------------------------------------------------------------------------
(* The sensord thread: sensord_read_rawdata, then sensord_algo_process.    *)

SdLock ==
    /\ sdPc = "lock"
    /\ mutex = "free" /\ mutex' = "sensord"
    /\ sdPc' = "test"
    /\ UNCHANGED <<driverVars, hwVars, shmem, sdList, arr, batch, flushVars,
                   pipe, readerVars, lost>>

\* The one test of list_len.
SdTest ==
    /\ sdPc = "test"
    /\ sdPc' = IF shmem = << >> THEN "wait" ELSE "drain"
    /\ UNCHANGED <<driverVars, hwVars, mutex, shmem, sdList, arr, batch,
                   flushVars, pipe, readerVars, lost>>

\* pthread_cond_wait releases the mutex and begins to wait in one step.
SdWait ==
    /\ sdPc = "wait"
    /\ sdPc' = "waiting" /\ mutex' = "free"
    /\ UNCHANGED <<driverVars, hwVars, shmem, sdList, arr, batch, flushVars,
                   pipe, readerVars, lost>>

\* POSIX lets pthread_cond_wait return without a signal.
SpuriousWakeup ==
    /\ sdPc = "waiting"
    /\ sdPc' = "woken"
    /\ UNCHANGED <<driverVars, hwVars, mutex, shmem, sdList, arr, batch,
                   flushVars, pipe, readerVars, lost>>

\* Wrong variant: the wait returns without the mutex.
SdRelock_NoLock ==
    /\ sdPc = "woken"
    /\ sdPc' = "drain"
    /\ UNCHANGED <<driverVars, hwVars, mutex, shmem, sdList, arr, batch,
                   flushVars, pipe, readerVars, lost>>

\* pthread_cond_wait returns with the mutex held; there is no second test.
SdRelock ==
    /\ sdPc = "woken"
    /\ mutex = "free" /\ mutex' = "sensord"
    /\ sdPc' = "drain"
    /\ UNCHANGED <<driverVars, hwVars, shmem, sdList, arr, batch, flushVars,
                   pipe, readerVars, lost>>

\* One turn of the loop that sorts the shared list by sensor.
Drain ==
    /\ sdPc = "drain" /\ shmem # << >>
    /\ LET x == Head(shmem) IN
       \/ /\ sdList' = [sdList EXCEPT ![x.sensor] = AddRear(@, x, ListCap)]
          /\ lost' = lost \cup AddRearDrops(sdList[x.sensor], ListCap)
       \/ /\ AllocFails
          /\ lost' = lost \cup {x}
          /\ UNCHANGED sdList
    /\ shmem' = GetHead(shmem)
    /\ UNCHANGED <<driverVars, hwVars, mutex, sdPc, arr, batch, flushVars,
                   pipe, readerVars>>

\* Wrong variant: the mutex is kept while events are delivered.
SdUnlock_Forgotten ==
    /\ sdPc = "drain" /\ shmem = << >>
    /\ sdPc' = "load"
    /\ UNCHANGED <<driverVars, hwVars, mutex, shmem, sdList, arr, batch,
                   flushVars, pipe, readerVars, lost>>

SdUnlock ==
    /\ sdPc = "drain" /\ shmem = << >>
    /\ mutex' = "free"
    /\ sdPc' = "load"
    /\ UNCHANGED <<driverVars, hwVars, shmem, sdList, arr, batch, flushVars,
                   pipe, readerVars, lost>>

\* Wrong variant: processing is put off until both sensors have samples.
LoadNothing_UntilBoth ==
    /\ sdPc = "load"
    /\ \E s \in Sensor : sdList[s] = << >>
    /\ sdPc' = "lock"
    /\ UNCHANGED <<driverVars, hwVars, mutex, shmem, sdList, arr, batch,
                   flushVars, pipe, readerVars, lost>>

\* sensord_algo_process with nothing to do, or without memory for the
\* accelerometer's array: it returns and leaves the lists as they are.
LoadNothing ==
    /\ sdPc = "load"
    /\ \/ sdList = Empty
       \/ AllocFails /\ sdList[Acc] # << >>
    /\ sdPc' = "lock"
    /\ UNCHANGED <<driverVars, hwVars, mutex, shmem, sdList, arr, batch,
                   flushVars, pipe, readerVars, lost>>

\* The lists are moved to the arrays and can be aligned.
Load ==
    /\ sdPc = "load" /\ sdList # Empty
    /\ arr' = sdList
    /\ sdList' = Empty
    /\ sdPc' = "sort"
    /\ UNCHANGED <<driverVars, hwVars, mutex, shmem, batch, flushVars, pipe,
                   readerVars, lost>>

\* Wrong variant: the accelerometer's samples are leaked.
LoadFailsGyro_Leaks ==
    /\ AllocFails
    /\ sdPc = "load" /\ sdList[Gyro] # << >>
    /\ sdList' = [sdList EXCEPT ![Acc] = << >>]
    /\ sdPc' = "lock"
    /\ UNCHANGED <<driverVars, hwVars, mutex, shmem, arr, batch, flushVars,
                   pipe, readerVars, lost>>

\* No memory for the gyroscope's array: the accelerometer's samples, already
\* moved, are destroyed.
LoadFailsGyro ==
    /\ AllocFails
    /\ sdPc = "load" /\ sdList[Gyro] # << >>
    /\ lost' = lost \cup Truncated(sdList[Acc], 0)
    /\ sdList' = [sdList EXCEPT ![Acc] = << >>]
    /\ sdPc' = "lock"
    /\ UNCHANGED <<driverVars, hwVars, mutex, shmem, arr, batch, flushVars,
                   pipe, readerVars>>

\* No memory for the alignment array: everything moved is destroyed.
LoadFailsAlign ==
    /\ AllocFails
    /\ sdPc = "load" /\ sdList # Empty
    /\ lost' = lost \cup Truncated(sdList[Acc], 0)
                    \cup Truncated(sdList[Gyro], 0)
    /\ sdList' = Empty
    /\ sdPc' = "lock"
    /\ UNCHANGED <<driverVars, hwVars, mutex, shmem, arr, batch, flushVars,
                   pipe, readerVars>>

\* Wrong variant: the gyroscope's stamp is the base whenever it has one.
BaseStamp_GyroFirst ==
    StampOf(Head(IF arr[Gyro] = << >> THEN arr[Acc] ELSE arr[Gyro]))

\* cur_base_tm of sort_input_samples: the smaller of the two head stamps,
\* where a gyroscope stamp of 0 counts as "no stamp yet".
BaseStamp ==
    LET g == IF arr[Gyro] = << >> THEN 0 ELSE StampOf(Head(arr[Gyro]))
    IN  IF arr[Acc] = << >> \/ (g # 0 /\ g <= StampOf(Head(arr[Acc])))
        THEN g
        ELSE StampOf(Head(arr[Acc]))

\* The samples of s that go into the current alignment slot: none or one.
SlotOf(s) ==
    IF arr[s] # << >> /\ StampOf(Head(arr[s])) = BaseStamp
    THEN << Head(arr[s]) >> ELSE << >>

\* library_in_package: a slot is delivered as a package, the accelerometer's
\* sample first.
AddPackage(b) == b \o SlotOf(Acc) \o SlotOf(Gyro)

\* One turn of the alignment loop.  The slots are delivered in this order.
SortSlot ==
    /\ sdPc = "sort" /\ arr # Empty
    /\ batch' = AddPackage(batch)
    /\ arr' = [s \in Sensor |->
                  IF SlotOf(s) = << >> THEN arr[s] ELSE Tail(arr[s])]
    /\ UNCHANGED <<driverVars, hwVars, mutex, shmem, sdPc, sdList, flushVars,
                   pipe, readerVars, lost>>

SortDone ==
    /\ sdPc = "sort" /\ arr = Empty
    /\ sdPc' = "deliver"
    /\ UNCHANGED <<driverVars, hwVars, mutex, shmem, sdList, arr, batch,
                   flushVars, pipe, readerVars, lost>>

\* sensord_deliver_event: the write blocks while the pipe is full.
Deliver ==
    /\ sdPc = "deliver" /\ batch # << >>
    /\ Len(pipe) < PipeCap
    /\ pipe' = Append(pipe, Head(batch))
    /\ batch' = Tail(batch)
    /\ UNCHANGED <<driverVars, hwVars, mutex, shmem, sdPc, sdList, arr,
                   flushVars, readerVars, lost>>

\* No memory for the event: the sample is skipped.
DeliverFails ==
    /\ AllocFails
    /\ sdPc = "deliver" /\ batch # << >>
    /\ lost' = lost \cup {Head(batch)}
    /\ batch' = Tail(batch)
    /\ UNCHANGED <<driverVars, hwVars, mutex, shmem, sdPc, sdList, arr,
                   flushVars, pipe, readerVars>>

DeliverDone ==
    /\ sdPc = "deliver" /\ batch = << >>
    /\ sdPc' = "lock"
    /\ UNCHANGED <<driverVars, hwVars, mutex, shmem, sdList, arr, batch,
                   flushVars, pipe, readerVars, lost>>

Sensord ==
    \/ SdLock \/ SdTest \/ SdWait \/ SdRelock \/ Drain \/ SdUnlock
    \/ LoadNothing \/ Load \/ LoadFailsGyro \/ LoadFailsAlign
    \/ SortSlot \/ SortDone
    \/ Deliver \/ DeliverFails \/ DeliverDone

-----------------------------------------------------------------------------
(* flush, called by a framework thread: ap_flush answers at once with a    *)
(* flush-complete event, whatever is still queued.                         *)

Flush(s) ==
    /\ flushing = << >> /\ flushes < MaxFlushes
    /\ flushes' = flushes + 1
    /\ flushing' = << FlushEvent(s, made[s]) >>
    /\ UNCHANGED <<driverVars, hwVars, mutex, shmem, sdVars, pipe, readerVars,
                   lost>>

SendFlushEvent ==
    /\ flushing # << >>
    /\ Len(pipe) < PipeCap
    /\ pipe' = pipe \o flushing
    /\ flushing' = << >>
    /\ UNCHANGED <<driverVars, hwVars, mutex, shmem, sdVars, flushes,
                   readerVars, lost>>

\* Wrong variant: the event is given up when the pipe is full.
SendFlushFails_WhenFull ==
    /\ Len(pipe) = PipeCap
    /\ flushing # << >>
    /\ flushing' = << >>
    /\ UNCHANGED <<driverVars, hwVars, mutex, shmem, sdVars, flushes, pipe,
                   readerVars, lost>>

\* No memory for the event: flush still reports success to its caller.
SendFlushFails ==
    /\ AllocFails
    /\ flushing # << >>
    /\ flushing' = << >>
    /\ UNCHANGED <<driverVars, hwVars, mutex, shmem, sdVars, flushes, pipe,
                   readerVars, lost>>

FlushStep == SendFlushEvent \/ SendFlushFails

-----------------------------------------------------------------------------
(* The framework's poll thread inside pollEvents(data, PollCount).         *)

PollEvents ==
    /\ rdPc = "idle"
    /\ rdPc' = "poll" /\ nbEvents' = 0
    /\ UNCHANGED <<driverVars, hwVars, mutex, shmem, sdVars, flushVars, pipe,
                   delivered, lost>>

\* poll() reports the pipe readable.
PollReady ==
    /\ rdPc = "poll" /\ pipe # << >>
    /\ rdPc' = "read"
    /\ UNCHANGED <<driverVars, hwVars, mutex, shmem, sdVars, flushVars, pipe,
                   nbEvents, delivered, lost>>

\* With events in hand poll() has a timeout of 0: the call returns.
PollTimeout ==
    /\ rdPc = "poll" /\ pipe = << >> /\ nbEvents > 0
    /\ rdPc' = "idle"
    /\ UNCHANGED <<driverVars, hwVars, mutex, shmem, sdVars, flushVars, pipe,
                   nbEvents, delivered, lost>>

\* Wrong variant: what does not fit is thrown away.
ReadEvents_DropsRest ==
    /\ rdPc = "read"
    /\ LET room == PollCount - nbEvents
           n == IF Len(pipe) < room THEN Len(pipe) ELSE room
       IN  /\ delivered' = delivered \o SubSeq(pipe, 1, n)
           /\ pipe' = << >>
           /\ nbEvents' = nbEvents + n
           /\ rdPc' = IF n = room THEN "idle" ELSE "poll"
    /\ UNCHANGED <<driverVars, hwVars, mutex, shmem, sdVars, flushVars, lost>>

\* Wrong variant: the room left by an earlier turn is not accounted for.
ReadEvents_FullCount ==
    /\ rdPc = "read"
    /\ LET n == IF Len(pipe) < PollCount THEN Len(pipe) ELSE PollCount
       IN  /\ delivered' = delivered \o SubSeq(pipe, 1, n)
           /\ pipe' = SubSeq(pipe, n + 1, Len(pipe))
           /\ nbEvents' = nbEvents + n
           /\ rdPc' = IF n = PollCount THEN "idle" ELSE "poll"
    /\ UNCHANGED <<driverVars, hwVars, mutex, shmem, sdVars, flushVars, lost>>

\* read_events: as many events as there are and fit.
ReadEvents ==
    /\ rdPc = "read"
    /\ LET room == PollCount - nbEvents
           n == IF Len(pipe) < room THEN Len(pipe) ELSE room
       IN  /\ delivered' = delivered \o SubSeq(pipe, 1, n)
           /\ pipe' = SubSeq(pipe, n + 1, Len(pipe))
           /\ nbEvents' = nbEvents + n
           /\ rdPc' = IF n = room THEN "idle" ELSE "poll"
    /\ UNCHANGED <<driverVars, hwVars, mutex, shmem, sdVars, flushVars, lost>>

Reader == PollEvents \/ PollReady \/ PollTimeout \/ ReadEvents

-----------------------------------------------------------------------------
Next ==
    \/ \E s \in Sensor : Produce(s)
    \/ Hwcntl
    \/ Sensord
    \/ SpuriousWakeup
    \/ \E s \in Sensor : Flush(s)
    \/ FlushStep
    \/ Reader

Spec == Init /\ [][Next]_vars

(***************************************************************************)
(* Fairness.  The scheduler runs both HAL threads and a framework thread   *)
(* that is inside flush; a thread blocked on the mutex gets it if it is    *)
(* released again and again.  Nothing obliges a device to produce, the     *)
(* framework to flush, or the C library to wake a waiter spuriously or     *)
(* not to.  That the framework keeps calling pollEvents is a hypothesis of *)
(* the properties that need it.                                            *)
(***************************************************************************)
Fairness ==
    /\ WF_vars(Hwcntl) /\ SF_vars(HwLock)
    /\ WF_vars(Sensord) /\ SF_vars(SdLock) /\ SF_vars(SdRelock)
    /\ WF_vars(FlushStep)

FairSpec == Spec /\ Fairness

KeepsPolling == WF_vars(Reader)

-----------------------------------------------------------------------------
HwPcs == {"poll", "readAcc", "readGyro", "publish", "mountAcc", "mountGyro",
          "signal", "unlock"}
SdPcs == {"lock", "test", "wait", "waiting", "woken", "drain", "load",
          "sort", "deliver"}
SampleSet == {e \in Event : e.kind = "data"}
SamplesOf(s) == {e \in SampleSet : e.sensor = s}

\* One queue per sensor, each with samples of its own sensor only.
PerSensor == {f \in [Sensor -> Seq(SampleSet)] :
                 \A s \in Sensor : f[s] \in Seq(SamplesOf(s))}

\* Every variable has its type; every BoschSimpleList respects its uplimit
\* and holds samples of its own sensor; pollEvents never collects more
\* events than the caller's array holds.
TypeOK ==
    /\ made \in [Sensor -> 0..MaxSamples]
    /\ evdev \in PerSensor /\ arr \in PerSensor
    /\ hwList \in PerSensor /\ sdList \in PerSensor
    /\ \A s \in Sensor : Len(hwList[s]) <= ListCap /\ Len(sdList[s]) <= ListCap
    /\ hwPc \in HwPcs /\ revents \in SUBSET Sensor
    /\ mutex \in {"free", "hwcntl", "sensord"}
    /\ shmem \in Seq(SampleSet) /\ Len(shmem) <= ListCap
    /\ sdPc \in SdPcs
    /\ batch \in Seq(SampleSet)
    /\ flushing \in Seq(Event) /\ Len(flushing) <= 1
    /\ flushes \in 0..MaxFlushes
    /\ pipe \in Seq(Event) /\ Len(pipe) <= PipeCap
    /\ rdPc \in {"idle", "poll", "read"}
    /\ nbEvents \in 0..PollCount
    /\ delivered \in Seq(Event)
    /\ lost \in SUBSET SampleSet

\* The shared list is only touched by the thread that holds the mutex, and
\* no thread holds it outside its critical section: in particular not while
\* it blocks in poll() or in a write to a full pipe.
LockDiscipline ==
    /\ mutex = "hwcntl" <=>
            hwPc \in {"mountAcc", "mountGyro", "signal", "unlock"}
    /\ mutex = "sensord" <=> sdPc \in {"test", "wait", "drain"}

\* No lost wakeup: if samples are in the shared list while the sensord
\* thread waits, the hwcntl thread has yet to send its signal.
NoLostWakeup ==
    sdPc = "waiting" /\ shmem # << >> => hwPc \in {"mountGyro", "signal"}

\* All that was ever queued for s and not lost, from the oldest stage of the
\* path to the youngest.
Line(s) == delivered \o pipe \o batch \o arr[s] \o sdList[s] \o shmem
           \o hwList[s] \o evdev[s]

\* Every sample a device emitted is either lost or in exactly one place:
\* handing lists over between threads neither drops nor duplicates one.
SampleAccounting ==
    \A s \in Sensor : \A n \in 1..made[s] :
        LET x == Sample(s, n)
            places == {i \in DOMAIN Line(s) : Line(s)[i] = x}
        IN  Cardinality(places) = IF x \in lost THEN 0 ELSE 1

\* The samples of one sensor never overtake each other, through three lists,
\* two threads, the merge of the sensors and the pipe.
InOrder ==
    \A s \in Sensor : \A i, j \in DOMAIN Line(s) :
        /\ i < j
        /\ Line(s)[i] \in SamplesOf(s) /\ Line(s)[j] \in SamplesOf(s)
        => Line(s)[i].seq < Line(s)[j].seq

\* What sensord_algo_process delivers in one go is sorted by time stamp, the
\* accelerometer first among equals, provided no gyroscope stamp is 0.
MergedByTime ==
    (\A n \in 1..MaxSamples : Stamp[Gyro][n] # 0) =>
    \A i, j \in DOMAIN batch : i < j =>
        \/ StampOf(batch[i]) < StampOf(batch[j])
        \/ /\ StampOf(batch[i]) = StampOf(batch[j])
           /\ batch[i].sensor = Acc /\ batch[j].sensor = Gyro

\* No thread has anything to do: the hwcntl thread is in poll() with empty
\* devices, the sensord thread in pthread_cond_wait, no thread inside flush, and
\* the framework has read the pipe.
Asleep ==
    /\ hwPc = "poll" /\ evdev = Empty
    /\ sdPc = "waiting"
    /\ flushing = << >> /\ pipe = << >>

Answers == Cardinality({i \in DOMAIN delivered : delivered[i].kind = "flush"})

\* When all sleep, nothing is stranded: every sample was handed to the framework
\* or lost, and every flush answered.  Only memory that ran out can leave
\* samples behind, in the sensord thread's own lists and nowhere else, or a
\* flush without its answer; no flush is ever answered twice.
NothingStranded ==
    Asleep =>
        /\ \A s \in Sensor : \A n \in 1..made[s] :
              LET x == Sample(s, n)
              IN  \/ x \in lost
                  \/ \E i \in DOMAIN delivered : delivered[i] = x
                  \/ AllocFails /\ \E i \in DOMAIN sdList[s] : sdList[s][i] = x
        /\ Answers <= flushes
        /\ ~AllocFails => Answers = flushes

\* Unless memory runs out, a sample is given up only by the accelerometer's
\* test for a zero time or when a list would exceed its limit.
LossOnlyWhenFull ==
    [][~AllocFails /\ lost' # lost =>
        \/ \E x \in lost' \ lost : x.sensor = Acc /\ StampOf(x) < SecTicks
        \/ \E s \in Sensor : hwPc = ReadPc(s) /\ Len(hwList[s]) = ListCap
        \/ \E s \in Sensor : /\ hwPc = MountPc(s)
                             /\ Len(shmem) + Len(hwList[s]) > ListCap]_vars

\* The channel the path stands for: what is on its way is all that is queued
\* before the pipe.
Channel == INSTANCE SensorChannel WITH
    inflight <- UNION {{q[i] : i \in DOMAIN q} :
                    q \in {batch, shmem} \cup
                          UNION {{arr[s], sdList[s], hwList[s], evdev[s]} :
                                 s \in Sensor}},
    out <- delivered \o pipe

\* The path implements a channel per sensor that may lose samples but never
\* invents, duplicates or reorders them.
ImplementsChannel == Channel!Spec

\* While the framework keeps polling, every sample is eventually handed to it
\* or lost; none is stranded in a list with both threads asleep.
EverySampleSettles ==
    KeepsPolling =>
    \A s \in Sensor : \A n \in 1..MaxSamples :
        made[s] >= n ~>
            \/ Sample(s, n) \in lost
            \/ \E i \in DOMAIN delivered : delivered[i] = Sample(s, n)

\* While the framework keeps polling, every flush is eventually answered: as
\* many flush-complete events reach the framework as it asked for.
EveryFlushAnswered ==
    KeepsPolling =>
    \A k \in 1..MaxFlushes :
        flushes >= k ~>
            Cardinality({i \in DOMAIN delivered :
                             delivered[i].kind = "flush"}) >= k

\* Also when the framework has stopped polling, which fills the pipe and blocks
\* the sensord thread for good, the hwcntl thread still empties the devices.
DevicesDrained ==
    \A s \in Sensor : evdev[s] # << >> ~> evdev[s] = << >>

-----------------------------------------------------------------------------
(* A statement of the documentation the code does not keep.                *)

\* hardware/sensors.h, flush: the flush-complete event is added at the end
\* of the FIFO, so every sample taken before the call comes first.
FlushAfterData ==
    \A j \in DOMAIN delivered : delivered[j].kind = "flush" =>
        \A n \in 1..delivered[j].seq :
            LET x == Sample(delivered[j].sensor, n)
            IN  x \in lost \/ \E i \in 1..j : delivered[i] = x
=============================================================================
