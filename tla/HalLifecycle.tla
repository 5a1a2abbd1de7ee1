----------------------------- MODULE HalLifecycle -----------------------------
(***************************************************************************)
(* Opening and closing the HAL: the BoschSensor singleton, its two threads *)
(* and the signal that ends them, the objects they share, the input        *)
(* devices and the global list of sensors.                                 *)
(*                                                                         *)
(* The framework makes one call at a time and closes no context while a    *)
(* poll on it is in progress (main.cpp); fw is the statement it executes   *)
(* next.  What the threads compute is in SensorPipeline; here they only    *)
(* take and release the mutex, because SIGTERM may end them anywhere.      *)
(*                                                                         *)
(* Undefined behaviour in the code (joining a thread that was never        *)
(* created, freeing memory twice, walking a list cut off in the middle of  *)
(* an update, calling through a dangling pointer) ends the model in        *)
(* "undefined"; what has to happen before is UndefinedHasCause.            *)
(***************************************************************************)
EXTENDS Naturals

CONSTANTS
    Contexts,       \* contexts the framework opens, sensors_poll_context_t
    InitFails       \* may a step of the initialisation fail?

ASSUME LifecycleAssumption == InitFails \in BOOLEAN

Threads == {"sensord", "hwcntl"}
Devices == {"acc", "gyr"}
Length == 2                 \* sensors this build offers
Free == "free"              \* the mutex is not held

VARIABLES
    fw,             \* the framework's next statement
    ctx,            \* contexts: closed, bound to the instance, or stale
    instance,       \* is there a BoschSensor::instance?
    routes,         \* are the pfun_ pointers of the instance set?
    objects,        \* do the pipe, the mutex and the lists exist?
    handler, oldact,\* disposition of SIGTERM, and the one saved
    devs,           \* devices whose file descriptor is open
    list,           \* bosch_sensorlist and the sensorsNum of the module
    at,             \* where each thread is
    mutex,          \* its owner, or Free
    pending,        \* threads with a SIGTERM to come
    torn,           \* was a list left in the middle of an update?
    past            \* history: what happened since the library was loaded

\* What may end in undefined behaviour: a step of the initialisation that the
\* destructor needs failed, a context was opened beside another, or after a
\* close, or a signal caught a thread at work on a list.
Causes == {"incomplete", "shared", "reopened", "caught"}

framework == <<ctx, instance, routes, objects, handler, oldact, devs, list>>
threads == <<at, mutex, pending, torn>>
vars == <<fw, framework, threads, past>>

Init ==
    /\ fw = "idle"
    /\ ctx = [c \in Contexts |-> "closed"]
    /\ instance = FALSE /\ routes = FALSE /\ objects = FALSE
    /\ handler = "default" /\ oldact = "default"
    /\ devs = {}
    /\ list = [len |-> 0, ptr |-> "null", num |-> 0]
    /\ at = [t \in Threads |-> "none"]
    /\ mutex = Free /\ pending = {} /\ torn = FALSE
    /\ past = {}

Alive(t) == at[t] \notin {"none", "gone"}

\* What a step of the initialisation may return.
Results == IF InitFails THEN {TRUE, FALSE} ELSE {TRUE}

Needs(ok) == past' = past \cup (IF ok THEN {} ELSE {"incomplete"})

-----------------------------------------------------------------------------
\* sensord_sigact_enable saves what it replaces.
InstallHandler == oldact' = handler /\ handler' = "hal"

RememberOpen ==
    past' = past \cup {x \in {"shared", "reopened"} :
                IF x = "shared" THEN \E c \in Contexts : ctx[c] # "closed"
                                ELSE "closed" \in past}

\* Wrong variant: the singleton is built anew for every context.
Open_NoSingleton(c) ==
    /\ fw = "idle" /\ ctx[c] = "closed"
    /\ ctx' = [ctx EXCEPT ![c] = "bound"]
    /\ fw' = "pipe"
    /\ routes' = FALSE /\ InstallHandler /\ torn' = FALSE
    /\ RememberOpen
    /\ UNCHANGED <<instance, objects, devs, list, at, mutex, pending>>

\* open_sensors: getInstance runs the constructor only if there is no
\* instance; its first steps clear the routes and install the handler.
Open(c) ==
    /\ fw = "idle" /\ ctx[c] = "closed"
    /\ ctx' = [ctx EXCEPT ![c] = "bound"]
    /\ \/ /\ instance
          /\ fw' = "list"
          /\ UNCHANGED <<routes, handler, oldact, torn>>
       \/ /\ ~instance
          /\ fw' = "pipe"
          /\ routes' = FALSE /\ InstallHandler /\ torn' = FALSE
    /\ RememberOpen
    /\ UNCHANGED <<instance, objects, devs, list, at, mutex, pending>>

\* pipe, and with it the mutex and the lists; without it nothing more is made.
CreatePipe ==
    /\ fw = "pipe"
    /\ objects' \in Results
    /\ fw' = IF objects' THEN "sensord" ELSE "list"
    /\ Needs(objects')
    /\ UNCHANGED <<ctx, instance, routes, handler, oldact, devs, list, threads>>

\* pthread_create; its result is not looked at.
Create(t) == \E ok \in Results :
    /\ at' = IF ok THEN [at EXCEPT ![t] = "out"] ELSE at
    /\ Needs(ok)

CreateSensord ==
    /\ fw = "sensord" /\ fw' = "init"
    /\ Create("sensord")
    /\ UNCHANGED <<framework, mutex, pending, torn>>

\* A device is found and takes its range, is not found, or refuses the range.
Outcomes == IF InitFails THEN {"ready", "absent", "refused"} ELSE {"ready"}

\* ap_hwcntl_init_ACC and ap_hwcntl_init_GYRO: a device that is found is opened
\* (an earlier descriptor of it is not closed), and must take its range.
OpenDevices(out) == devs' = {d \in Devices : out[d] # "absent"}

\* Wrong variant: without the accelerometer, too, the initialisation fails.
GyroReady_Both(out) == out["acc"] = "ready" /\ out["gyr"] = "ready"

GyroReady(out) == out["gyr"] = "ready"

\* hwcntl_init: the gyroscope's result overwrites the accelerometer's.
InitHwcntl ==
    /\ fw = "init"
    /\ routes' = TRUE
    /\ \E out \in [Devices -> Outcomes] :
        /\ OpenDevices(out)
        /\ fw' = IF GyroReady(out) THEN "hwcntl" ELSE "list"
        /\ Needs(out["gyr"] = "ready")
    /\ UNCHANGED <<ctx, instance, objects, handler, oldact, list, threads>>

CreateHwcntl ==
    /\ fw = "hwcntl" /\ fw' = "list"
    /\ Create("hwcntl")
    /\ UNCHANGED <<framework, mutex, pending, torn>>

\* ap_get_sensorlist: the list is made once, in two allocations; the second
\* failing frees the first.  The length decides whether it is there.
MakeList ==
    \/ list.len > 0 /\ list' = [list EXCEPT !.num = list.len]
    \/ /\ list.len = 0
       /\ \/ list' = [len |-> Length, ptr |-> "alive", num |-> Length]
          \/ /\ InitFails
             /\ \E p \in {"null", "freed"} :
                   list' = [len |-> 0, ptr |-> p, num |-> 0]

\* The constructor has returned; the context asks the instance for its list,
\* and gets none if the route was not set.
GetSensorlist ==
    /\ fw = "list" /\ fw' = "idle"
    /\ instance' = TRUE
    /\ IF routes THEN MakeList ELSE list' = [list EXCEPT !.num = 0]
    /\ Needs(list'.len > 0 \/ list'.ptr # "freed")
    /\ UNCHANGED <<ctx, routes, objects, handler, oldact, devs, threads>>

-----------------------------------------------------------------------------
\* poll__close, delete of the context: destroy() looks at the instance, not
\* at the context.
Close(c) ==
    /\ fw = "idle" /\ ctx[c] # "closed"
    /\ ctx' = [ctx EXCEPT ![c] = "closed"]
    /\ fw' = IF instance THEN "kill" ELSE "idle"
    /\ UNCHANGED <<instance, routes, objects, handler, oldact, devs, list,
                   threads, past>>

\* Wrong variants: only one thread is signalled; the old disposition is
\* restored as soon as the signals are sent.
KillThreads_OnlySensord ==
    /\ fw = "kill"
    /\ IF \E t \in Threads : at[t] = "none"
       THEN fw' = "undefined" /\ UNCHANGED pending
       ELSE fw' = "join" /\ pending' = {"sensord"}
    /\ UNCHANGED <<framework, at, mutex, torn, past>>

KillThreads_Restores ==
    /\ fw = "kill"
    /\ IF \E t \in Threads : at[t] = "none"
       THEN fw' = "undefined" /\ UNCHANGED <<pending, handler>>
       ELSE fw' = "join" /\ pending' = Threads /\ handler' = oldact
    /\ UNCHANGED <<ctx, instance, routes, objects, oldact, devs, list, at,
                   mutex, torn, past>>

\* pthread_kill; the identifier of a thread that was not created is not
\* initialised.
KillThreads ==
    /\ fw = "kill"
    /\ IF \E t \in Threads : at[t] = "none"
       THEN fw' = "undefined" /\ UNCHANGED pending
       ELSE fw' = "join" /\ pending' = Threads
    /\ UNCHANGED <<framework, at, mutex, torn, past>>

\* Wrong variant: only one thread is joined.
JoinThreads_OnlySensord ==
    /\ fw = "join" /\ fw' = "free"
    /\ at["sensord"] = "gone"
    /\ at' = [at EXCEPT !["sensord"] = "none"]
    /\ handler' = oldact
    /\ UNCHANGED <<ctx, instance, routes, objects, oldact, devs, list, mutex,
                   pending, torn, past>>

\* pthread_join of both, then the saved disposition is restored.
JoinThreads ==
    /\ fw = "join" /\ fw' = "free"
    /\ \A t \in Threads : at[t] = "gone"
    /\ at' = [t \in Threads |-> "none"]
    /\ handler' = oldact
    /\ UNCHANGED <<ctx, instance, routes, objects, oldact, devs, list, mutex,
                   pending, torn, past>>

\* The rest of the destructor.  The mutex goes even if a dead thread holds it,
\* the list of sensors is freed but neither its pointer nor its length reset,
\* and the descriptors of the devices stay open.
FreeAll ==
    /\ fw = "free"
    /\ fw' = IF torn \/ list.ptr = "freed" THEN "undefined" ELSE "idle"
    /\ objects' = FALSE /\ mutex' = Free /\ torn' = FALSE
    /\ list' = IF list.ptr = "alive" THEN [list EXCEPT !.ptr = "freed"] ELSE list
    /\ instance' = FALSE
    /\ ctx' = [c \in Contexts |-> IF ctx[c] = "bound" THEN "stale" ELSE ctx[c]]
    /\ past' = past \cup {"closed"}
    /\ UNCHANGED <<routes, handler, oldact, devs, at, pending>>

\* A call on a context whose instance another one has deleted.
CallStale(c) ==
    /\ fw = "idle" /\ fw' = "undefined"
    /\ ctx[c] = "stale"
    /\ UNCHANGED <<framework, threads, past>>

Crashed == fw = "undefined" /\ UNCHANGED vars

-----------------------------------------------------------------------------
Move(t, from, to) == at[t] = from /\ at' = [at EXCEPT ![t] = to]

Rest == UNCHANGED <<fw, framework, pending, torn, past>>

WantMutex(t) == Move(t, "out", "lock") /\ UNCHANGED mutex /\ Rest

\* Wrong variant: the mutex is entered though a thread holds it.
Acquire_Unchecked(t) == Move(t, "lock", "crit") /\ mutex' = t /\ Rest

Acquire(t) == Move(t, "lock", "crit") /\ mutex = Free /\ mutex' = t /\ Rest

Release(t) == Move(t, "crit", "out") /\ mutex' = Free /\ Rest

\* pthread_cond_wait, of the sensord thread only.
Wait == Move("sensord", "crit", "wait") /\ mutex' = Free /\ Rest

Wake == Move("sensord", "wait", "lock") /\ UNCHANGED mutex /\ Rest

\* sensord_sighandler, run by the thread wherever it is: no lock is released,
\* and a list the thread was working on may be left as it was.
Die(t) ==
    /\ t \in pending /\ pending' = pending \ {t}
    /\ Alive(t) /\ at' = [at EXCEPT ![t] = "gone"]
    /\ \/ UNCHANGED <<torn, past>>
       \/ /\ at[t] \in {"out", "crit"}
          /\ torn' = TRUE /\ past' = past \cup {"caught"}
    /\ UNCHANGED <<fw, framework, mutex>>

Constructor ==
    CreatePipe \/ CreateSensord \/ InitHwcntl \/ CreateHwcntl \/ GetSensorlist

Destructor == KillThreads \/ JoinThreads \/ FreeAll

Next ==
    \/ \E c \in Contexts : Open(c) \/ Close(c) \/ CallStale(c)
    \/ Constructor
    \/ Destructor
    \/ Crashed
    \/ /\ fw # "undefined"
       /\ \/ \E t \in Threads : WantMutex(t) \/ Acquire(t) \/ Release(t) \/ Die(t)
          \/ Wait
          \/ Wake

\* The threads may stop anywhere, but a call goes on when it can and a signal
\* arrives.
Fairness ==
    /\ WF_vars(Constructor \/ Destructor)
    /\ \A t \in Threads : WF_vars(fw # "undefined" /\ Die(t))

Spec == Init /\ [][Next]_vars /\ Fairness

-----------------------------------------------------------------------------
\* Until it is destroyed the mutex belongs to a thread inside the
\* critical section or to one the signal ended there.
TypeOK ==
    /\ fw \in {"idle", "pipe", "sensord", "init", "hwcntl", "list",
               "kill", "join", "free", "undefined"}
    /\ ctx \in [Contexts -> {"closed", "bound", "stale"}]
    /\ instance \in BOOLEAN /\ routes \in BOOLEAN /\ objects \in BOOLEAN
    /\ handler \in {"default", "hal"} /\ oldact \in {"default", "hal"}
    /\ devs \subseteq Devices
    /\ list \in [len : {0, Length}, ptr : {"null", "alive", "freed"}, num : {0, Length}]
    /\ at \in [Threads -> {"none", "out", "lock", "crit", "wait", "gone"}]
    /\ mutex \in Threads \cup {Free}
    /\ pending \subseteq Threads
    /\ torn \in BOOLEAN /\ past \subseteq Causes \cup {"closed"}
    /\ mutex # Free => at[mutex] \in {"crit", "gone"} \/ fw = "free"
    /\ \A t \in Threads : at[t] = "crit" => mutex = t

\* A thread of the HAL never runs without the pipe, the mutex and the lists it
\* uses, and the hwcntl thread never without the gyroscope: neither a failed
\* initialisation nor the destructor takes them away from a running thread.
ThreadsHaveObjects ==
    \A t \in Threads : Alive(t) =>
        /\ objects
        /\ t = "hwcntl" => routes /\ "gyr" \in devs

\* A SIGTERM the HAL sends itself always finds the HAL's own handler: with the
\* default disposition it would end the whole process.
SignalsFindHandler == pending # {} => handler = "hal"

\* After a close that returns no thread is left, no object, no owner of the
\* mutex, and SIGTERM does what it did before the first open, also if further
\* contexts were open or memory or a device was missing.  (A close that joins
\* a thread that was never created, or frees what is free, need not return.)
ClosedLeavesNothing ==
    fw = "idle" /\ ~instance =>
        /\ \A t \in Threads : at[t] = "none"
        /\ ~objects /\ mutex = Free /\ pending = {}
        /\ handler = "default"

\* A process that opens one context once, with a gyroscope, a pipe, threads and
\* memory for the list's second part, may close it whenever no thread is at
\* work on a list: no call goes through a dangling pointer, no thread is joined
\* that was not created, no list is freed twice or walked in pieces.  That the
\* accelerometer is missing or refuses its range does no harm.
UndefinedHasCause == fw = "undefined" => past \cap Causes # {}

\* close() returns from its joins: each thread is ended by the signal where it
\* is, also one that sleeps, or waits for a mutex a dead thread still holds.
JoinReturns == fw = "join" ~> fw = "free"

\* "Enumerate all available sensors. The list is returned in "list"": while a
\* context is open the list that get_sensors_list hands out exists.
ListExists ==
    fw = "idle" /\ list.num > 0 /\ (\E c \in Contexts : ctx[c] = "bound")
        => list.ptr = "alive"
=============================================================================
