# SMI230 Android HAL: a verification project

TLA+ models of the Android sensor HAL for the Bosch SMI230 (an accelerometer
and a gyroscope in one package), model-checked with TLC, with theorems proved
by TLAPS. The code is under `src/smi230`; paths below are relative to it.

Most modules describe the default build: the `SMI230_FIFO` solution without
`SMI230_DATA_SYNC` (`sensord/inc/sensord_cfg.h:41-43`), both chips SMI230, no
magnetometer. Two go beyond it: `InputFrames` has the reader of
`SMI230_DATA_SYNC` beside the two of the default build, and `PhysicalSensors`
the configuration of the other chips (BMI160, BMA2x2, BMG160). Other branches the
default build never takes are not modelled, and the modules say so where it
matters.

## 1. The system

    driver --> evdev devices --> hwcntl thread --> shared list --> sensord thread
                                                   (mutex, cond)       |
    framework: activate, batch, setDelay           HAL pipe <----------+
         |                                           |   ^
         v                                           v   | flush-complete event
    configuration + sysfs registers              pollEvents / flush (framework threads)

| component | state | operations | interacts with |
|---|---|---|---|
| `BoschSimpleList` (`boschsimple_list.cpp`) | head, tail, length, limit | add at the rear, take the head, mount one list on another, clean | used by both threads |
| hwcntl thread (`hwcntl_main`, `IMU_hw_deliver_sensordata`) | two private lists | poll the devices, read frames, mount on the shared list, signal | input devices; shared list, mutex, condition variable |
| readers of the input devices (`ap_hw_poll_smi230_*`) | a buffer of events on the stack | cut the stream of events into samples | kernel's event buffer; hwcntl thread |
| sensord thread (`sensord_main`, `sensord_read_rawdata`, `sensord_algo_process`) | two private lists, arrays, alignment table | wait, drain the shared list by sensor, merge by time stamp, write events | shared list; HAL pipe |
| HAL pipe and `pollEvents` (`sensors.cpp`, `BoschSensor::read_events`) | pipe, caller's array and count | poll, read as much as fits | framework's poll thread |
| configuration calls (`ap_activate`, `ap_batch`, `ap_flush`) | stored configuration per sensor, array of active sensors | activate, batch, setDelay, flush | sysfs attributes of the chips; `flush` also writes to the pipe |
| array of active sensors (`activate_configref_resort`) | references and a count | insert and remove in order with `memmove` | configuration calls |
| rate arithmetic (`encode_datarate`, `SMI230_convert_ODR`, ...) | none | period to code to register; latency to watermark | configuration calls |
| life cycle (`open_sensors`, `BoschSensor` constructor and destructor, signals) | singleton, threads, global sensor list | open, close | everything |
| discovery (`init_ACC`, `init_GYRO`, `ap_get_sensorlist`) | file descriptors, sensor list | scan `/dev` and sysfs | life cycle |
| axis remapping (`axis_remap.c`) | placement | signed permutation of the payload | the gyroscope's reader |
| other chips (`ap_config_phyACC`, `ap_config_phyGYR`) | `is_acc_open`, `is_gyr_open` | write the attributes the flags call for | sysfs attributes, one of them shared by two sensors |

What is hard about it:

- two threads share a list, and the consumer tests it once before it waits;
- every list is bounded and drops from its head, so a burst loses samples and
  three stages can each be the one that loses;
- the pipe blocks: a framework that stops reading stops the sensord thread, and
  a flush call with it;
- a flush is answered from another thread than the samples;
- memory may run out at eight places, each with its own clean-up;
- nothing marks the beginning of a frame in the stream of input events, so a
  buffer that overflows in the kernel puts every later read out of step;
- configuration is stored or sent depending on what came before, in three
  register writes whose results nobody looks at;
- flags in memory stand for what earlier calls wrote to a chip that keeps running
  when the process dies;
- the arithmetic passes through tables, 16-bit fields and clamps;
- the threads are ended by a signal wherever they are, the constructor may stop
  halfway, and parts of what `open` makes are global and outlive `close`.

## 2. Modules

| module | models | lines of the code |
|---|---|---|
| `BoschSimpleList` | what the list operations do, as operators on sequences; `AddRearDrops` and `MountRearDrops` are what they free | `boschsimple_list.cpp` |
| `BoschSimpleListHeap` | the same operations on nodes, `next` pointers, a head, a tail and a heap with `alloc` | `boschsimple_list.cpp` |
| `BoundedLists` | abstract: a sequence per list, one action per operator of `BoschSimpleList` | |
| `SensorPipeline` | the data path with its three kinds of threads; `MCSensorPipeline` gives the stamps for TLC | `sensord_hwcntl_implement.cpp:1431-1652`, `sensord.cpp`, `sensord_algo.cpp:165-651`, `sensors.cpp:88-129` |
| `SensorChannel` | abstract: a channel per sensor that loses but never invents, duplicates or reorders | |
| `ConfRef` | the array of active sensors, slot by slot, with `Memmove` | `sensord_hwcntl.cpp:1265-1354` |
| `ActiveSet` | abstract: a set with two actions | |
| `DataRate` | rate codes, bands, registers, watermarks | `sensord_hwcntl.cpp:1138-1225`, `sensord_hwcntl_implement.cpp:548-612`, `802-808` |
| `SensorConfig` | the four calls, the stored configuration, the registers; uses `DataRate` and an instance of `ConfRef` | `sensord_hwcntl_implement.cpp:1048-1351`, `sensord_hwcntl.cpp:1360-1412` |
| `HalLifecycle` | open and close: the singleton, the constructor and destructor statement by statement, two threads and the signal that ends them, the list of sensors | `BoschSensor.cpp:39-180`, `sensors.cpp:42-65`, `150-231`, `sensord.cpp:162-191`, `sensord_hwcntl_implement.cpp:247-438`, `1936-2138` |
| `InputFrames` | the readers of the input devices, event by event, against a kernel buffer that overflows | `sensord_hwcntl_implement.cpp:1354-1533`, `1604-1629` |
| `AxisRemap` | the eight placements and what they do to a vector; used by `InputFrames` | `axis_remap.c` |
| `PhysicalSensors` | the configuration of the chips other than the SMI230, one access to sysfs per step | `sensord_hwcntl_implement.cpp:687-774`, `815-900`, `sensord_hwcntl_iio.h:119-181` |
| `ChipRates` | the tables of rates of these chips; used by `PhysicalSensors` | `sensord_hwcntl_implement.cpp:69-165`, `440-685` |
| `SensorPipeline_proofs`, `SensorPipeline_order_proofs`, `BoschSimpleListHeap_proofs`, `ConfRef_proofs`, `SensorConfig_proofs`, `InputFrames_proofs`, `PhysicalSensors_proofs`, `HalLifecycle_proofs` | theorems | |

### SensorPipeline

State and code: `evdev[s]` is the input device of sensor `s`; `hwList[s]` is
`tmplist_hwcntl_acclraw` or `_gyroraw`; `shmem` and `mutex` are
`shmem_hwcntl`; `sdList[s]` is `tmplist_sensord_acclraw` or `_gyroraw`;
`arr[s]` is `pp_ACC_hwdata` or `pp_GYRO_hwdata` from its current index on;
`batch` is what the alignment table has put in order and is still to be
delivered; `flushing` is the event a framework thread is writing inside
`ap_flush`; `pipe` is `HALpipe_fd`. `hwPc`, `sdPc` and `rdPc` say where a
thread is. `delivered` and `lost` are histories.

The condition variable has one waiter, so it is the value `"waiting"` of
`sdPc`. `SdWait` gives up the mutex and starts waiting in one step, as POSIX
promises; `Signal` turns `"waiting"` into `"woken"`; `SpuriousWakeup` does so
without reason; `SdRelock` returns with the mutex, and goes on to drain without
a second test, as the code does. Blocking is a guard: `HwLock` on the mutex,
`Deliver` and `SendFlushEvent` on a place in the pipe.

A step is one access to something another thread can see, or one turn of a
loop. `Mount` covers all of `list_mount_rear` because the mutex is held;
`ReadSample` covers reading a frame and appending it to a list no one else
sees. What a thread does to its own data between two such points is part of
the step before.

`Discarded` looks odd and is in the code: the accelerometer's reader throws
away a frame whose seconds field is 0 (`:1449`), the gyroscope's does not.
`BaseStamp` is the choice of `cur_base_tm` in `sort_input_samples`, in which a
gyroscope stamp of 0 counts as none.

`AllocFails` turns on every failure of `malloc` and `calloc` in the path, with
the clean-up the code has: `ReadSample` and `Drain` free one sample,
`LoadNothing` leaves the lists as they are, `LoadFailsGyro` destroys the
accelerometer's samples, `LoadFailsAlign` both, `DeliverFails` skips an event,
`SendFlushFails` gives up the answer to a flush.

External and modelled from their use: the driver (`Produce`), the kernel's
queues, `pthread_cond_wait`. A device's own samples carry increasing stamps
(`StampAssumption`).

### InputFrames

A driver reports a sample as a frame of six events (twelve with
`SMI230_DATA_SYNC`), the last of type `EV_SYN`. A reader of the hwcntl thread reads
as many events as a frame has into an array on its stack and looks at the type
of the last place; the accelerometer's reader also at the seconds. The module
follows single events: `queue` is what the device holds, `event` the array,
`reading` whether the reader is in its loop, `samples` what it has made. `Read` is
one turn of the loop: a read that returns fewer events than a frame overwrites
only the front of the array (`Fill`). A `calloc` that fails for a sample
drops the rest of the frame; a `list_add_rear` that fails drops only its sample, so
the reader of `SMI230_DATA_SYNC` goes on to the gyroscope's. `Call` leaves the array uninitialised, so its last
place may look like an `EV_SYN` or not.

External and modelled from their use: the driver, which reports a frame in one
go, and the kernel's buffer per reader (`Push`), which on overflow keeps only the
newest event behind a `SYN_DROPPED`. `clean` and `forgone` are histories: whether
the reads are in step, and which frames were spoiled or had no memory.

### PhysicalSensors

A step is one access to sysfs, since the process may be killed between any two
(`Restart`) and any may fail. `board` is the pair of chips, `sel`, `pwr` and `odr`
the attributes, `open` the flags `is_acc_open` and `is_gyr_open`, `call` the
call in progress with the writes it still has to do. `Opening` and `Closing` are
the two orders in which a BMI160 sensor is selected and started, and stopped and
deselected. A failing read of `fifo_data_sel` gives 0, or what the stack held
when the attribute was empty, because `rd_sysfs_oneint` then returns `-errno`
with an errno of 0; so `ReadValues` is any set of bits. `asked` and `stale` are
histories: the rate of the last call, and the attributes not set as intended (a
write that failed, a bit the other sensor's write destroyed, what a restart
found running).

The board with a BMI160 gyroscope beside another accelerometer is left out: its
code would write `fifo_data_sel` in a directory nobody names. The magnetometer's
code exists but no list of sensors contains its handle, so no call reaches it.

### SensorConfig

One action is one call; the framework's sensor service makes them one after the
other. `conf` is `BSX_sensor_config_nonwk` with the two fields that reach the
chip, `refs` and `cnt` are the array of active sensors, `chip[s]` holds the
attributes `pwr_cfg`, `odr`/`bw_odr` and `fifo_wm`. `Write` lets any set of
writes fail when `SysfsFails` is true: the register keeps its value, the call
goes on and returns 0, as the code does. `stale` remembers the registers whose
last write failed or that were never written; `asked` the last request. The
"wakeup" half of the tables stays empty in this build and is left out.

Time is counted in ticks of 500/`Unit` microseconds and rates in quarters of a
Hertz, so that all comparisons are between integers. `encode_datarate` compares
a `float`; the model takes the quotient as exact, which moves a band's edge by
less than one part in ten million.

### HalLifecycle

`fw` is the statement the framework's thread executes next, inside
`open_sensors` or `poll__close`; every statement that another thread can notice
or that may fail is an action. `ctx[c]` is a `sensors_poll_context_t`: closed,
bound to the instance, or stale because another context's close has deleted it.
`routes` are the `pfun_` pointers, `objects` the pipe, the mutex and the lists,
`devs` the open input devices, `list` the global `bosch_sensorlist` with the
`sensorsNum` of the module, `handler` and `oldact` the disposition of SIGTERM
and the saved one. `at[t]` and `mutex` are the two threads as far as a signal
can tell their places apart: outside (working on its own lists, or blocked in
`poll` or `write`), waiting for the mutex, in the critical section, in
`pthread_cond_wait`, or gone. `Die` is `sensord_sighandler`, which ends the
thread where it is: the mutex stays with it, and a list it was changing may be
`torn`.

Undefined behaviour ends a behaviour in `"undefined"`: signalling a thread that
was never created (its identifier is not initialised), freeing the list of
sensors twice, destroying a torn list, calling through a stale context. What
happens from there on nobody can say, but when it may come to that is a
property, `UndefinedHasCause`. The history `past` serves it: it collects a failed
step that the destructor relies on (`Needs`: the pipe, a thread, the gyroscope,
the second allocation of the list), a context opened beside another or after a
close (`RememberOpen`), and a signal that left a list torn (`Die`). Destroying a mutex that a dead thread holds is
undefined by POSIX too; bionic and glibc return an error, the result is not
looked at, and the model goes on.

The statement of the code that is not there matters as much: nothing resets
`bosch_sensorlist`, nothing closes the devices.

## 3. What TLC checks

| run | instance | states | time |
|---|---|---|---|
| `SensorPipeline_safety` | 3 samples per sensor, lists of 2, pipe of 1, `pollEvents` with room for 2 | 262,315 | 15 s |
| `SensorPipeline_memory` | 2 samples per sensor and a flush, lists and pipe of 2, failing memory | 860,040 | 35 s |
| `SensorPipeline_live` | a sample per sensor and a flush, lists and pipe of 1, fair threads | 25,802 | 20 s |
| `BoschSimpleListHeap` | 2 lists of limit 2, 4 nodes, 2 values | 93,057 | 12 s |
| `ConfRef` | 7 sensors | 128 | 1 s |
| `SensorConfig_rates` | both sensors, 5 periods, 2 latencies and `setDelay` without one | 45,571 | 20 s |
| `SensorConfig_faults` | the accelerometer and two handles not in the list, failing writes | 3,162 | 7 s |
| `HalLifecycle` | 2 contexts, every step of the initialisation failing or not | 12,441 | 2 s |
| `InputFrames` | three readers, kernel buffers of 16 and 32 events, 8 placements, 7 frames, the first without seconds, failing memory | 373,875 | 110 s |
| `PhysicalSensors` | three boards, 5 periods, failing accesses, restarts | 2,565,357 | 50 s |

Why these bounds are enough. Overflow needs a list shorter than what is
produced: three samples into lists of two overflow the reader's list, and two
lists of two mounted on a third overflow that. The order of the sensors in the
merge needs both to be ahead once and equal once: the stamps of `Crossing`. The
wakeup needs a second publication while the sensord thread is anywhere in its
loop: two samples of different sensors give it. The accounting of `pollEvents`
needs a call that reads twice and one that finds more than fits: `PollCount` 2
with a pipe of 1, and 1 with a pipe of 2. Blocking in a write needs a pipe of 1.
The limits of the code (128, a pipe of 64 KiB) change none of these cases; the
theorems of section 4 hold for all of them. Two lists are enough for the heap
because `list_mount_rear` is the only operation with two. For `ConfRef` the
number of sensors only changes how far `memmove` reaches, and the theorems hold
for all of them. Periods and latencies in `SensorConfig_rates` lie below, inside
(in the accelerometer's unreachable band and beside it) and above the
advertised range; all others are covered by the theorems. Two contexts are
enough for the life cycle because the code tells no more apart than the one
being closed and the others, and the theorems hold for any set; opening and
closing may go on for ever. In `InputFrames` a buffer whose size is a power of
two, as the kernel makes it, leaves 2 or 4 events behind the last whole frame
of six, and 4 or 8 behind one of twelve: 16 and 32 give all these cases, as the
usual 64 would, and seven frames overflow both and bring the reader back into
step. The periods of `PhysicalSensors` give rates below, inside and above the
tables of every chip. Deadlock is checked in every run but `InputFrames`, whose
driver stops after `MaxFrames`: `pollEvents` and the configuration calls can always
be made again, and a life cycle in undefined behaviour turns in place.

What the properties say:

- `LockDiscipline`: the mutex is held exactly in the two critical sections, not
  in `poll` nor in a write to a full pipe.
- `NoLostWakeup`: while the sensord thread waits and the list is not empty, the
  signal is still to come. This is what the single `if` before the wait rests
  on.
- `SampleAccounting`: a sample is lost or in exactly one place, through every
  handing over and every clean-up.
- `InOrder`, `MergedByTime`: samples of a sensor never overtake each other;
  what is delivered in one go is sorted by time, the accelerometer first.
- `LossOnlyWhenFull`: while memory lasts every loss is the zero-time test or a
  full list of the hwcntl thread; those of the sensord thread never overflow.
- `NothingStranded`: when both threads sleep and the pipe is read (`Asleep`),
  every sample was delivered or lost, and as many flushes are answered as were
  asked for. When memory ran out (`SensorPipeline_memory`) samples may also be left
  in the sensord thread's own lists, where `sensord_algo.cpp:318-323` leaves them
  until the next burst, and nowhere else, and flushes unanswered; a clean-up that
  forgot to free would show here.
- `ImplementsChannel`: all of the path refines `SensorChannel`, also when memory
  fails.
- `EverySampleSettles`, `EveryFlushAnswered`, `DevicesDrained`: see fairness.
- `TailIsLast`, `HeapIsTheLists`, `ImplementsLists`: the tail pointer, left
  dangling when a list runs empty, is never used; no node is leaked, shared or
  freed twice; the nodes behave as the sequences `SensorPipeline` uses.
- `MemmoveInBounds`, `PlaceFound`, `ImplementsActiveSet`: the array of active
  sensors needs no spare slot, although the comment at `sensord_hwcntl.cpp:1062`
  sees one. (`SortedPrefix`, on which they rest, is proved and not run.)
- `ChipFollowsConfig`: whatever the order of calls, each register whose last
  write worked holds what the last request implies; `ActivateRepairs`: an
  activate call repairs what failed before.
- `RateInBand`, `WatermarkInTime`: the chip samples at least as fast as asked,
  as far as it can, and the FIFO interrupts within the latency, 16-bit wrap
  included.

- `ThreadsHaveObjects`: whatever part of the initialisation failed, a thread
  that runs has the pipe, the mutex and the lists, and the hwcntl thread the
  gyroscope (not the accelerometer: that result is overwritten).
- `SignalsFindHandler`, `ClosedLeavesNothing`: the disposition of SIGTERM belongs
  to the process; it is the HAL's until both threads are gone and the
  framework's again after every close that returns, in any order of opening and
  closing. A close need not return if it ends in undefined behaviour.
- `UndefinedHasCause`: undefined behaviour comes only after one of four things.
  A process that opens one context once, and in which the pipe, the threads, the
  gyroscope and the list come about, may close it, provided no thread is at work
  on a list when the signal arrives. Each of the four is needed: without any one
  of them TLC finds a way into undefined behaviour. The accelerometer, whose result
  `hwcntl_init` overwrites, is not among them.
- `FramesKept`: until the kernel's buffer overflows, and again from the moment
  the queue ran empty, every frame is queued as it was reported or its samples
  were made, once, next to each other, and behind those of all earlier frames.
- `TornHasNoSeconds`: the array may hold events of two frames, or of an earlier
  turn; whatever passes the reader's tests in that state has 0 in its seconds,
  and as nanoseconds an event of a frame already given up, so it never has the
  stamp of a frame that was kept. The accelerometer's own reader tests the
  seconds and makes no torn sample. The gyroscope's reader makes some, and that
  of `SMI230_DATA_SYNC`, which tests nothing either, torn samples of both sensors:
  theirs are stamped in the first second. Frames reported in that second have 0
  in their seconds too; only the nanoseconds tell them from torn ones.
- `RemapIsRotation`: each of the eight entries of the table keeps lengths, angles
  and handedness.
- `AttributesFollow`: the flags never skip a write that was needed, and the two
  sensors of a BMI160 never undo each other's bit, as far as accesses worked;
  `NormalIsSelected`: also between two writes, a running BMI160 sensor is
  selected for the FIFO.
- `RateServed`: each chip's own table serves the rate, rounded up.
- `JoinReturns`: the destructor's joins return although a dead thread may hold
  the mutex the other one wants.

### Fairness

`FairSpec` assumes weak fairness of each HAL thread and of a framework thread
inside `flush`: the scheduler runs a thread that can run. The three places where
a thread waits for the mutex have strong fairness: a mutex that is released
again and again is eventually got, as with any Linux mutex whose holders block
elsewhere in between. `FlushStep` needs no more than weak fairness although it
competes for the pipe: after finitely many samples the sensord thread has none
left to write. That the framework keeps calling `pollEvents` is not an
assumption of `FairSpec`; `EverySampleSettles` and `EveryFlushAnswered` have it
as a hypothesis (`KeepsPolling`), `DevicesDrained` does without. Devices need
not produce, nobody needs to flush, and spurious wakeups may happen or not.

`HalLifecycle` assumes that a call goes on when it can and that a signal sent to
a thread arrives; of the threads themselves it assumes nothing.

The liveness run has no memory failures: when the accelerometer's array cannot
be allocated (`sensord_algo.cpp:318-323`) the samples stay where they are until
the next burst, and flush reports success without an event. What is certain then
is the safety property `NothingStranded`.

### Disagreements between code and documents

Two runs are meant to fail:

| run | the code | the document |
|---|---|---|
| `SensorPipeline_v_flush` | the flush-complete event goes straight to the pipe, before samples still queued | `hardware/sensors.h:631-633`: it is added to the end of the FIFO |
| `HalLifecycle_v_list` | after close and open the list handed out is memory that close has freed, because `list_len` and the pointer stay (`BoschSensor.cpp:144-152`) | `sensors.h:400-401`: the list of all available sensors is returned |

Smaller ones are not kept as runs. A minimum period of 500 us is advertised and
accepted (`hardware/sensors.h:455`: the minimum sample period allowed), and sampled
at 1600 Hz, the accelerometer's fastest rate; `AccRateReached` says from which period
on the promise holds. `activate` returns 0 when a sysfs write failed, where
`hardware/sensors.h:587` wants a negative errno. `flush` of an inactive sensor is
answered with an event and 0 (`sensord_hwcntl_implement.cpp:1317-1351` never looks
at the array of active sensors), where `hardware/sensors.h:639-640` wants -EINVAL. The comment at
`sensord_hwcntl_implement.cpp:1282-1284` wants a short period clamped to
max(minDelay, 1 ms), the code below it clamps to minDelay, 500 us. The message
at `boschsimple_list.cpp:149` says that the oldest data is dropped, which is true
of the position in the list but not of the time stamps when the gyroscope's
burst follows the accelerometer's.

## 4. What is proved

All theorems hold for every value of the constants that satisfies the named
assumptions: `BoundsAssumption` and `StampAssumption` of `SensorPipeline`,
`HeapAssumption` of `BoschSimpleListHeap`, `SizeAssumption` of `ConfRef`, `UnitAssumption` of `DataRate`,
`InputAssumption` of `InputFrames`,
`ConfigAssumption` of `SensorConfig`, `PhysicalAssumption` of `PhysicalSensors`,
`LifecycleAssumption` of `HalLifecycle`.

- **Data path** (`SensorPipeline_proofs`). `PathLocks` and `PathWakesUp` come
  first: `LockDiscipline` is inductive alone, `NoLostWakeup` needs it and
  `TestedEmpty` (between the test and the wait the list is still empty, because
  the mutex is held). `PathInv` is `TypeOK`, `LockDiscipline`, `HandedOn` and
  `DrainFits`: that the sensord thread's lists cannot overflow holds because
  they are empty whenever it does not hold the mutex, unless memory failed
  (`HandedOn`), and what it takes out of the shared list was counted there
  before (`SumWithin`). `DrainFits` speaks of the drain loop only and is defined
  with the proof. `PathTypes` and `PathDrainFits` follow, and
  `PathLosesOnlyWhenFull` rests on `PathDrainFits`, which rules out the one loss
  its statement does not list. The lemmas it starts with say what the list
  operators return.
- **Order on the data path** (`SensorPipeline_order_proofs`). `Line(s)` is the
  concatenation of the eight queues a sample of `s` passes. The invariant
  `LineInv` says that its samples ascend, that they are those the device has
  emitted and not lost, and that only emitted ones are lost. Every step replaces
  one queue or two neighbours; `Loses(T, p, p1, D)` says that `p1` is `p` without
  the elements of `D`, and `LineSteps` carries it from the neighbours to the
  whole line, so each action needs one lemma about two queues. `Idle` closes the
  gaps: the arrays are empty outside the merge, and the flush event is no sample.
  `PathInOrder` and `PathAccounts` follow. `PathMergesByTime` adds `MergeInv`: all
  that is still to be sorted is younger than what is sorted, which holds because
  the base stamp is the least of both heads (`BaseIsLeast`) and the arrays ascend
  (`ArraysAscend`, from `LineInv`). `PathIsChannel` proves the refinement of
  `SensorChannel`: by `LineInv`, what is on its way is what was emitted, is not
  lost and has not been seen (`OnTheWayIs`), and what has been seen is older
  (`SeenIsElder`); so producing is `Emit`, delivering is `Pass` of the oldest, the
  answer to a flush is `AnswerFlush`, and all other steps are `Lose`.
  `PathStrandsNothing` is the safety half of liveness: when all sleep, the
  wakeup invariant says that the shared list is empty, `AtRest` that each thread
  emptied its own queues before it left the part of its loop that fills them,
  and `HandedOn` that the sensord thread's lists are empty unless memory failed;
  so `Line(s)` is what was delivered and at most one list (`SleepingLine`), and by
  `LineInv` it holds every sample that is not lost. `FlushCount` counts the flush
  events in the line against the calls.
- **Linked list** (`BoschSimpleListHeap_proofs`). The properties speak of the
  nodes a walk along `next` meets. `Shape(P, ...)` names them: `P[l]` lists the
  nodes of `l` in order (`Linked`), no node is in two places (`Apart`), and no
  other node is allocated (`Allocated`). The invariant is `TypeOK` and that such
  a `P` exists. Each operation changes `P`: `list_add_rear` puts a node behind the
  last and takes the first of a full list (`AddKeeps`), `list_get_headdata` and
  `list_clean` take nodes from the front (`DropShape`), `list_mount_rear` splices
  (`SpliceShape`) and then takes from the front. `StepsFollow`, by induction over
  a set of naturals, says that the walk meets `P`. `HeapTailIsLast`,
  `HeapHoldsTheLists` and the refinement `HeapIsLists` follow.
- **Array of active sensors** (`ConfRef_proofs`). The invariant is `TypeOK`,
  `SortedPrefix` and `Spread` (an entry is at least its position, so a full
  array holds every sensor and there is a place for each). `LeastElement` supplies
  the least slot at which the search stops. Bounds of `memmove`, the place found
  and the refinement of `ActiveSet` follow.
- **Arithmetic** (first part of `SensorConfig_proofs`). The bands of `encode_datarate` cover the
  advertised range (`Bands`), each meets a band of the chip that is as fast
  (`AccRateInBand`, `GyrRateInBand`), and the FIFO's fill time is within the
  latency for every 16-bit wrap (`FifoFillsInTime`).
- **Configuration** (`SensorConfig_proofs`). The invariant joins that of
  `ConfRef` with `ConfIsAsked` (what is stored is the encoding of the last
  request) and `ChipFollowsConfig`; with the arithmetic it gives `TypeOK`,
  `RateInBand` and `WatermarkInTime` after any sequence of calls.
- **Input readers** (`InputFrames_proofs`). The kernel's buffer is followed event
  by event, so what a report makes of it is proved by induction over a set of
  naturals: `PushFrameIs` says that the frame is behind what was there, or its last
  events are behind a `SYN_DROPPED`. `ReaderInv` is inductive: the queue is a run of
  consecutive events behind at most one `SYN_DROPPED`, the newest of them the last of
  the last frame (`Fits`); reads that are in step start at a frame's first event,
  while they are out of step every queued event belongs to a frame already given up,
  and inside the loop neither the queue nor the last place of the array can pass
  for the end of a frame (`Phases`); each sample has the stamp of a frame, or seconds of 0 and an event of a frame
  given up as nanoseconds (`Origins`); each frame that was not given up is queued
  as reported with no sample made, or made completely (`Kept`), and its samples are
  behind those of earlier frames (`Ascending`, since what is still queued is later:
  `LaterQueued`). `InputFramesKept` and `InputTornHasNoSeconds` follow, for any
  number of frames and any size of the kernel's buffer that holds a frame. That a
  rotation keeps dot and cross product is proved for all integer vectors and the
  eight placements (`RemapKeepsDot`, `RemapKeepsCross`), where the run tries three
  vectors; `InputRemapIsRotation` is the invariant of the run.
- **Other chips** (`PhysicalSensors_proofs`). `ChipInv` says of each attribute of
  each sensor that its write is still to come in the call in progress, or it is
  stale, or it holds what the last call asked for; that the flags agree with the
  calls (`FlagInv`), which is what makes skipping a write right; and that the
  writes to come select a sensor before they start it and stop it before they
  deselect it (`Ordered`), without which `NormalIsSelected` would not be
  inductive. `AttributesFollow` and `RateServed` follow with the tables.
- **Life cycle** (`HalLifecycle_proofs`). The properties speak of running threads
  and of a closed HAL; the invariant adds, for each statement of the constructor
  and the destructor, which threads are not there yet or no longer
  (`ThreadPhase`), what it may use (`ObjectPhase`), whose handler is installed
  (`HandlerPhase`), and that a signal is on its way only to a live thread while
  close waits (`SignalPhase`). `LifecycleUndefinedHasCause` adds `CauseInv`: while
  `past` holds none of the causes (`Innocent`), the threads of the constructor's
  progress exist (`ThreadsMade`), no list is torn nor freed before the first
  close (`ListsWhole`), and at most one context is open and none stale
  (`OneContext`); each step that could break one of them adds a cause.

Every invariant, action property and refinement the runs check is a theorem. Only
model-checked are the liveness properties `EveryFlushAnswered`,
`EverySampleSettles`, `DevicesDrained` and `JoinReturns`: they rest on fairness, which
is out of the prover's reach; `PathStrandsNothing` is what can be proved of the
first two. Nothing
is claimed of which samples are lost when memory fails: `LossOnlyWhenFull` is
about a system whose memory lasts.

## 5. What is not modelled

- `POLLERR` and `POLLHUP` on an input device or on the pipe, `EINTR`: no code
  handles them. Removal of a device.
- In the life cycle: a SIGTERM sent from outside (the handler would end
  whichever thread takes it), a close while another thread polls, and the files:
  `sensord_trace_init` always opens `sensord.log`, or takes stdout if it cannot, and
  `sensord_trace_clearup` closes it; those of the samples are opened only with
  `data_log` or `bsx_datalog`, which no build of the repository sets.
- The scanning of `/dev/input` and sysfs itself; what it leaves behind is in
  `HalLifecycle`. Setting up the ranges and devices of the other chips, which is
  I/O of the same kind.
- Samples that survive a deactivation: `SensorConfig` and `SensorPipeline` are not
  composed.
- Payload apart from the axes: unit conversion, calibration fields.
- The magnetometer (no list of sensors contains it), one-shot and on-change
  sensors (none exists in the tables), the timer branch (`poll_timer_fd`) of
  `sensord_hwcntl_implement.cpp`.
- Parsing of settings, text helpers, the vendored headers.

## 6. Plan

1. Composition of `SensorConfig` and `SensorPipeline`: samples of an earlier
   activation after a new one.
2. `sort_input_samples` against a reference merge, also with gyroscope stamps
   of 0.
3. The data path with failing memory and liveness: that samples left for the
   next burst go with it.
