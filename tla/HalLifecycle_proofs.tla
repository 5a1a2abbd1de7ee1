------------------------- MODULE HalLifecycle_proofs -------------------------
(***************************************************************************)
(* What holds of opening and closing for any number of contexts, whatever  *)
(* fails on the way.  The properties say what is there when a thread runs  *)
(* or when nothing is open; IInv adds what each statement of the           *)
(* constructor and of the destructor may rely on.  CauseInv is about the   *)
(* histories without a cause of undefined behaviour.                       *)
(***************************************************************************)
EXTENDS HalLifecycle, TLAPS

\* No context has an instance, and none is being made.
Closed == fw = "idle" /\ ~instance

\* The handler is installed from the first statement of the constructor to
\* the last join, and what it replaced is remembered.
HandlerPhase ==
    /\ Closed \/ fw = "free" => handler = "default"
    /\ ~Closed /\ fw \notin {"free", "undefined"} =>
          handler = "hal" /\ oldact = "default"

\* Which threads cannot be there yet, or no longer.
ThreadPhase ==
    /\ Closed \/ fw \in {"pipe", "sensord", "free"} =>
          \A t \in Threads : at[t] = "none"
    /\ fw \in {"init", "hwcntl"} => at["hwcntl"] = "none"
    /\ \A t \in Threads : at[t] = "gone" => fw = "join"

\* Which objects are there for the statement to come.
ObjectPhase ==
    /\ Closed \/ fw = "pipe" => ~objects /\ mutex = Free
    /\ fw \in {"sensord", "init", "hwcntl"} => objects
    /\ fw = "hwcntl" => routes /\ "gyr" \in devs

\* A signal is on its way only while close waits, and only to a live thread.
SignalPhase ==
    /\ pending # {} => fw = "join"
    /\ \A t \in pending : Alive(t)

IInv ==
    /\ TypeOK
    /\ ThreadsHaveObjects
    /\ HandlerPhase
    /\ ThreadPhase
    /\ ObjectPhase
    /\ SignalPhase

\* The parts of TypeOK that the threads' own steps touch.
MutexOK ==
    /\ at \in [Threads -> {"none", "out", "lock", "crit", "wait", "gone"}]
    /\ mutex \in Threads \cup {Free}
    /\ mutex # Free => at[mutex] \in {"crit", "gone"} \/ fw = "free"
    /\ \A t \in Threads : at[t] = "crit" => mutex = t

\* What the framework's calls add to the history.
LEMMA PastSteps ==
  /\ \A ok : Needs(ok) => past' \in {past, past \cup {"incomplete"}}
  /\ RememberOpen => past' \subseteq past \cup {"shared", "reopened"}
  /\ {"incomplete", "shared", "reopened", "caught"} = Causes
  BY DEF Needs, RememberOpen, Causes

LEMMA InitIInv == Init => IInv
  <1> SUFFICES ASSUME Init PROVE IInv
    OBVIOUS
  <1>1. TypeOK
    <2>1. MutexOK
      BY DEF Init, MutexOK, Threads, Free
    <2>2. list \in [len : {0, Length}, ptr : {"null", "alive", "freed"}, num : {0, Length}]
      BY DEF Init
    <2> QED BY <2>1, <2>2 DEF Init, TypeOK, MutexOK
  <1>2. ThreadsHaveObjects /\ HandlerPhase /\ ThreadPhase /\ ObjectPhase /\ SignalPhase
    BY DEF Init, ThreadsHaveObjects, HandlerPhase, ThreadPhase, ObjectPhase,
           SignalPhase, Closed, Alive, Threads
  <1> QED BY <1>1, <1>2 DEF IInv

\* Opening, up to the statement that creates a thread.
LEMMA OpenKeeps ==
  ASSUME IInv, NEW c \in Contexts, Open(c)
  PROVE  IInv'
  <1>1. TypeOK'
    <2>1. ctx' \in [Contexts -> {"closed", "bound", "stale"}]
      BY DEF IInv, TypeOK, Open, InstallHandler
    <2>2. fw = "idle" /\ UNCHANGED <<instance, objects, devs, list, at, mutex, pending>>
      BY DEF Open, InstallHandler
    <2>3. CASE instance
      BY <2>1, <2>2, <2>3, PastSteps DEF IInv, TypeOK, Open, InstallHandler
    <2>4. CASE ~instance
      BY <2>1, <2>2, <2>4, PastSteps DEF IInv, TypeOK, Open, InstallHandler
    <2> QED BY <2>3, <2>4
  <1>2. (ThreadsHaveObjects /\ SignalPhase)'
    <2>1. CASE instance
      BY <2>1 DEF IInv, ThreadsHaveObjects, SignalPhase, Open, InstallHandler, Alive
    <2>2. CASE ~instance
      BY <2>2 DEF IInv, ThreadsHaveObjects, SignalPhase, ThreadPhase, Closed, Open, InstallHandler,
                  Alive, Threads
    <2> QED BY <2>1, <2>2
  <1>3. (HandlerPhase /\ ThreadPhase /\ ObjectPhase)'
    <2>1. CASE instance
      BY <2>1 DEF IInv, TypeOK, HandlerPhase, ThreadPhase, ObjectPhase, Closed, Open, InstallHandler
    <2>2. CASE ~instance
      BY <2>2 DEF IInv, TypeOK, HandlerPhase, ThreadPhase, ObjectPhase, Closed, Open, InstallHandler
    <2> QED BY <2>1, <2>2
  <1> QED BY <1>1, <1>2, <1>3 DEF IInv

LEMMA ConstructorKeeps ==
  ASSUME IInv, Constructor
  PROVE  IInv'
  <1> USE LifecycleAssumption DEF IInv, threads, framework
  <1>1. CASE CreatePipe
    <2>1. TypeOK'
      <3>1. objects' \in BOOLEAN /\ fw' \in {"sensord", "list"}
        BY <1>1 DEF CreatePipe, Results
      <3>2. UNCHANGED <<ctx, instance, routes, handler, oldact, devs, list,
                        threads>>
        BY <1>1 DEF CreatePipe
      <3> QED BY <1>1, <3>1, <3>2, PastSteps DEF TypeOK, CreatePipe
    <2>2. (ThreadsHaveObjects /\ ThreadPhase)'
      BY <1>1 DEF CreatePipe, ThreadsHaveObjects, ThreadPhase, Alive, Threads
    <2>3. (HandlerPhase /\ ObjectPhase /\ SignalPhase)'
      BY <1>1 DEF CreatePipe, HandlerPhase, ThreadPhase, ObjectPhase,
                  SignalPhase, Closed, Alive, Threads
    <2> QED BY <2>1, <2>2, <2>3
  <1>2. CASE CreateSensord
    <2>1. TypeOK'
      BY <1>2, PastSteps DEF TypeOK, CreateSensord, Create, ThreadPhase, Threads, Free
    <2>2. (ThreadsHaveObjects /\ HandlerPhase /\ ThreadPhase /\ ObjectPhase
             /\ SignalPhase)'
      BY <1>2 DEF TypeOK, CreateSensord, Create, ThreadsHaveObjects, HandlerPhase,
                  ThreadPhase, ObjectPhase, SignalPhase, Closed, Alive, Threads
    <2> QED BY <2>1, <2>2
  <1>3. CASE InitHwcntl
    <2>1. TypeOK'
      BY <1>3, PastSteps DEF TypeOK, InitHwcntl, OpenDevices, Devices
    <2>2. (ThreadsHaveObjects /\ HandlerPhase /\ ThreadPhase /\ ObjectPhase
             /\ SignalPhase)'
      BY <1>3 DEF InitHwcntl, OpenDevices, GyroReady, ThreadsHaveObjects, HandlerPhase, ThreadPhase,
                  ObjectPhase, SignalPhase, Closed, Alive, Threads, Devices
    <2> QED BY <2>1, <2>2
  <1>4. CASE CreateHwcntl
    <2>1. TypeOK'
      BY <1>4, PastSteps DEF TypeOK, CreateHwcntl, Create, ThreadPhase, Threads, Free
    <2>2. (ThreadsHaveObjects /\ HandlerPhase /\ ThreadPhase /\ ObjectPhase
             /\ SignalPhase)'
      BY <1>4 DEF TypeOK, CreateHwcntl, Create, ThreadsHaveObjects, HandlerPhase,
                  ThreadPhase, ObjectPhase, SignalPhase, Closed, Alive, Threads
    <2> QED BY <2>1, <2>2
  <1>5. CASE GetSensorlist
    <2>1. TypeOK'
      BY <1>5, PastSteps DEF TypeOK, GetSensorlist, MakeList, Length
    <2>2. (ThreadsHaveObjects /\ HandlerPhase /\ ThreadPhase /\ ObjectPhase
             /\ SignalPhase)'
      BY <1>5 DEF GetSensorlist, ThreadsHaveObjects, HandlerPhase, ThreadPhase,
                  ObjectPhase, SignalPhase, Closed, Alive, Threads
    <2> QED BY <2>1, <2>2
  <1> QED BY <1>1, <1>2, <1>3, <1>4, <1>5 DEF Constructor

LEMMA CloseKeeps ==
  ASSUME IInv, NEW c \in Contexts, Close(c) \/ CallStale(c)
  PROVE  IInv'
  <1> USE DEF IInv, threads, framework
  <1>1. TypeOK'
    BY DEF TypeOK, Close, CallStale
  <1>2. (ThreadsHaveObjects /\ HandlerPhase /\ ThreadPhase /\ ObjectPhase
           /\ SignalPhase)'
    BY DEF TypeOK, Close, CallStale, ThreadsHaveObjects, HandlerPhase, ThreadPhase,
           ObjectPhase, SignalPhase, Closed, Alive, Threads
  <1> QED BY <1>1, <1>2

LEMMA DestructorKeeps ==
  ASSUME IInv, Destructor
  PROVE  IInv'
  <1> USE DEF IInv, threads, framework
  <1>1. CASE KillThreads
    <2>1. TypeOK'
      BY <1>1 DEF TypeOK, KillThreads
    <2>2. (ThreadsHaveObjects /\ HandlerPhase /\ ThreadPhase /\ ObjectPhase
             /\ SignalPhase)'
      BY <1>1 DEF KillThreads, ThreadsHaveObjects, HandlerPhase, ThreadPhase,
                  ObjectPhase, SignalPhase, Closed, Alive, Threads
    <2> QED BY <2>1, <2>2
  <1>2. CASE JoinThreads
    <2>1. TypeOK'
      BY <1>2 DEF TypeOK, JoinThreads, HandlerPhase, Closed, Threads
    <2>2. pending = {}
      BY <1>2 DEF JoinThreads, SignalPhase, Alive, TypeOK
    <2>3. (ThreadsHaveObjects /\ HandlerPhase /\ ThreadPhase /\ ObjectPhase
             /\ SignalPhase)'
      BY <1>2, <2>2 DEF JoinThreads, ThreadsHaveObjects, HandlerPhase, ThreadPhase,
                  ObjectPhase, SignalPhase, Closed, Alive, Threads
    <2> QED BY <2>1, <2>3
  <1>3. CASE FreeAll
    <2>1. TypeOK'
      BY <1>3 DEF TypeOK, FreeAll, ThreadPhase, Threads, Free
    <2>2. (ThreadsHaveObjects /\ HandlerPhase /\ ThreadPhase /\ ObjectPhase
             /\ SignalPhase)'
      BY <1>3 DEF FreeAll, ThreadsHaveObjects, HandlerPhase, ThreadPhase,
                  ObjectPhase, SignalPhase, Closed, Alive, Threads
    <2> QED BY <2>1, <2>2
  <1> QED BY <1>1, <1>2, <1>3 DEF Destructor

\* What the threads do to the mutex and to themselves changes nothing the
\* framework's statements rely on.
LEMMA ThreadsKeep ==
  ASSUME IInv, fw # "undefined",
         \/ \E t \in Threads : WantMutex(t) \/ Acquire(t) \/ Release(t)
         \/ Wait
         \/ Wake
  PROVE  IInv'
  <1> USE DEF IInv, framework
  <1>1. PICK t \in Threads, to \in {"lock", "crit", "out", "wait"} :
          /\ Alive(t) /\ at' = [at EXCEPT ![t] = to]
          /\ UNCHANGED <<fw, framework, pending>>
    BY DEF WantMutex, Acquire, Release, Wait, Wake, Move, Rest, Alive, Threads
  <1>2. TypeOK'
    <2>1. MutexOK'
      <3> USE DEF TypeOK, MutexOK, Move, Rest, Threads, Free
      <3>1. ASSUME NEW u \in Threads, WantMutex(u) \/ Acquire(u)
            PROVE  MutexOK'
        BY <3>1 DEF WantMutex, Acquire
      <3>2. ASSUME NEW u \in Threads, Release(u)
            PROVE  MutexOK'
        BY <3>2 DEF Release
      <3>3. CASE Wait
        BY <3>3 DEF Wait
      <3>4. CASE Wake
        BY <3>4 DEF Wake
      <3> QED BY <3>1, <3>2, <3>3, <3>4
    <2>2. UNCHANGED <<fw, framework, pending, torn, past>>
      BY DEF WantMutex, Acquire, Release, Wait, Wake, Rest
    <2> QED BY <2>1, <2>2 DEF TypeOK, MutexOK
  <1>3. (ThreadsHaveObjects /\ HandlerPhase /\ ThreadPhase /\ SignalPhase)'
    BY <1>1 DEF TypeOK, ThreadsHaveObjects, HandlerPhase, ThreadPhase, SignalPhase,
                Closed, Alive, Threads
  <1>4. ObjectPhase'
    BY <1>1 DEF ObjectPhase, ThreadsHaveObjects, ThreadPhase, Closed, Alive
  <1> QED BY <1>2, <1>3, <1>4

LEMMA DieKeeps ==
  ASSUME IInv, fw # "undefined", NEW t \in Threads, Die(t)
  PROVE  IInv'
  <1> USE DEF IInv, framework
  <1>1. fw = "join"
    BY DEF Die, SignalPhase
  <1>2. TypeOK'
    <2>1. MutexOK'
      BY DEF TypeOK, MutexOK, Die, Threads, Free
    <2>2. torn' \in BOOLEAN /\ past' \subseteq Causes \cup {"closed"}
      BY DEF TypeOK, Die, Causes
    <2> QED BY <2>1, <2>2 DEF TypeOK, MutexOK, Die
  <1>3. (ThreadsHaveObjects /\ HandlerPhase /\ ThreadPhase /\ ObjectPhase)'
    BY <1>1 DEF TypeOK, Die, ThreadsHaveObjects, HandlerPhase, ThreadPhase,
                ObjectPhase, Closed, Alive, Threads
  <1>4. SignalPhase'
    BY <1>1 DEF TypeOK, Die, SignalPhase, Alive, Threads
  <1> QED BY <1>2, <1>3, <1>4

LEMMA StutterKeeps ==
  ASSUME IInv, UNCHANGED vars
  PROVE  IInv'
  BY DEF IInv, TypeOK, ThreadsHaveObjects, HandlerPhase, ThreadPhase, ObjectPhase,
         SignalPhase, Closed, Alive, vars, framework, threads

LEMMA StepKeeps == IInv /\ [Next]_vars => IInv'
  BY OpenKeeps, ConstructorKeeps, CloseKeeps, DestructorKeeps, ThreadsKeep,
     DieKeeps, StutterKeeps DEF Next, Crashed

LEMMA Inductive == Spec => []IInv
  <1> QED BY InitIInv, StepKeeps, PTL DEF Spec

\* Type correctness, and with it that the mutex belongs to a thread inside the
\* critical section or to one that was ended there.
THEOREM LifecycleTypes == Spec => []TypeOK
  <1>1. IInv => TypeOK
    BY DEF IInv
  <1> QED BY <1>1, Inductive, PTL

\* No thread runs without the objects it uses, whatever part of the
\* initialisation failed and however often the HAL is opened and closed.
THEOREM LifecycleObjects == Spec => []ThreadsHaveObjects
  <1>1. IInv => ThreadsHaveObjects
    BY DEF IInv
  <1> QED BY <1>1, Inductive, PTL

\* A signal of the destructor never meets the default disposition.
THEOREM LifecycleSignals == Spec => []SignalsFindHandler
  <1>1. IInv => SignalsFindHandler
    BY DEF IInv, SignalsFindHandler, SignalPhase, HandlerPhase, Closed
  <1> QED BY <1>1, Inductive, PTL

\* The last close leaves no thread, no object and no handler behind.
THEOREM LifecycleLeavesNothing == Spec => []ClosedLeavesNothing
  <1>1. IInv => ClosedLeavesNothing
    BY DEF IInv, ClosedLeavesNothing, ThreadPhase, ObjectPhase, SignalPhase,
           HandlerPhase, Closed
  <1> QED BY <1>1, Inductive, PTL

-----------------------------------------------------------------------------
(* Undefined behaviour and what leads to it.                               *)

Innocent == past \cap Causes = {}

\* Until one of the causes is there, the destructor finds both threads and
\* whole lists, and it runs at most once, for the only context.
ThreadsMade ==
    /\ fw \in {"init", "hwcntl"} => at["sensord"] # "none"
    /\ fw \in {"list", "kill", "join"} \/ (fw = "idle" /\ instance) =>
          \A t \in Threads : at[t] # "none"

ListsWhole ==
    /\ ~torn
    /\ list.ptr = "freed" => "closed" \in past
    /\ "closed" \in past => Closed

OneContext ==
    /\ \A c \in Contexts : ctx[c] # "stale"
    /\ \A c, d \in Contexts : ctx[c] # "closed" /\ ctx[d] # "closed" => c = d
    /\ fw \in {"kill", "join", "free"} => \A c \in Contexts : ctx[c] = "closed"

Sound == fw # "undefined" /\ ThreadsMade /\ ListsWhole /\ OneContext

CauseInv == Innocent => Sound

LEMMA InitCause == Init => CauseInv
  BY DEF Init, CauseInv, Innocent, Sound, ThreadsMade, ListsWhole, OneContext, Closed

\* In an innocent history, nothing that was needed was missing.
LEMMA NeedsMet ==
  ASSUME NEW ok \in BOOLEAN, Needs(ok), Innocent'
  PROVE  ok /\ past' = past /\ Innocent
  BY DEF Needs, Innocent, Causes

LEMMA OpenSound ==
  ASSUME IInv, CauseInv, NEW c \in Contexts, Open(c), Innocent'
  PROVE  Sound'
  <1>1. past' = past /\ Innocent /\ \A d \in Contexts : ctx[d] = "closed"
    <2>1. RememberOpen
      BY DEF Open
    <2> QED BY <2>1 DEF RememberOpen, Innocent, Causes
  <1>2. "closed" \notin past
    <2>1. RememberOpen
      BY DEF Open
    <2> QED BY <2>1 DEF RememberOpen, Innocent, Causes
  <1>3. Sound
    BY <1>1 DEF CauseInv
  <1>4. OneContext'
    <2>1. ctx' = [ctx EXCEPT ![c] = "bound"] /\ fw' \in {"list", "pipe"}
      BY DEF Open
    <2>2. ctx \in [Contexts -> {"closed", "bound", "stale"}]
      BY DEF IInv, TypeOK
    <2> QED BY <2>1, <2>2, <1>1 DEF OneContext
  <1>5. ThreadsMade'
    BY <1>3 DEF Open, Sound, ThreadsMade
  <1>6. ListsWhole'
    BY <1>1, <1>2, <1>3 DEF Open, Sound, ListsWhole, InstallHandler
  <1>7. fw' # "undefined"
    BY DEF Open
  <1> QED BY <1>4, <1>5, <1>6, <1>7 DEF Sound

LEMMA ConstructorSound ==
  ASSUME IInv, CauseInv, Constructor, Innocent'
  PROVE  Sound'
  <1> USE LifecycleAssumption DEF threads, framework
  <1>1. TypeOK /\ ThreadPhase
    BY DEF IInv
  <1>2. CASE CreatePipe
    <2>1. objects' = TRUE /\ past' = past /\ Innocent
      <3>1. objects' \in BOOLEAN /\ Needs(objects')
        BY <1>2 DEF CreatePipe, Results
      <3> QED BY <3>1, NeedsMet
    <2>2. Sound
      BY <2>1 DEF CauseInv
    <2>3. fw = "pipe" /\ fw' = "sensord"
      BY <2>1, <1>2 DEF CreatePipe
    <2> QED BY <1>2, <2>1, <2>2, <2>3
         DEF CreatePipe, Sound, ThreadsMade, ListsWhole, OneContext, Closed
  <1>3. CASE CreateSensord
    <2>1. PICK ok \in Results :
            at' = (IF ok THEN [at EXCEPT !["sensord"] = "out"] ELSE at) /\ Needs(ok)
      BY <1>3 DEF CreateSensord, Create
    <2>2. ok /\ past' = past /\ Innocent
      <3>1. ok \in BOOLEAN
        BY DEF Results
      <3> QED BY <3>1, <2>1, NeedsMet
    <2>3. Sound
      BY <2>2 DEF CauseInv
    <2>4. at'["sensord"] # "none" /\ fw = "sensord" /\ fw' = "init"
      BY <1>1, <1>3, <2>1, <2>2 DEF CreateSensord, TypeOK, Threads
    <2> QED BY <1>3, <2>2, <2>3, <2>4
         DEF CreateSensord, Sound, ThreadsMade, ListsWhole, OneContext, Closed
  <1>4. CASE InitHwcntl
    <2>1. PICK out \in [Devices -> Outcomes] :
            /\ fw' = IF GyroReady(out) THEN "hwcntl" ELSE "list"
            /\ Needs(out["gyr"] = "ready")
      BY <1>4 DEF InitHwcntl
    <2>2. out["gyr"] = "ready" /\ past' = past /\ Innocent
      BY <2>1, NeedsMet
    <2>3. Sound
      BY <2>2 DEF CauseInv
    <2>4. fw = "init" /\ fw' = "hwcntl"
      BY <1>4, <2>1, <2>2 DEF InitHwcntl, GyroReady
    <2> QED BY <1>4, <2>2, <2>3, <2>4
         DEF InitHwcntl, Sound, ThreadsMade, ListsWhole, OneContext, Closed
  <1>5. CASE CreateHwcntl
    <2>1. PICK ok \in Results :
            at' = (IF ok THEN [at EXCEPT !["hwcntl"] = "out"] ELSE at) /\ Needs(ok)
      BY <1>5 DEF CreateHwcntl, Create
    <2>2. ok /\ past' = past /\ Innocent
      <3>1. ok \in BOOLEAN
        BY DEF Results
      <3> QED BY <3>1, <2>1, NeedsMet
    <2>3. Sound
      BY <2>2 DEF CauseInv
    <2>4. fw = "hwcntl" /\ fw' = "list" /\ \A t \in Threads : at'[t] # "none"
      BY <1>1, <1>5, <2>1, <2>2, <2>3
         DEF CreateHwcntl, TypeOK, Threads, Sound, ThreadsMade
    <2> QED BY <1>5, <2>2, <2>3, <2>4
         DEF CreateHwcntl, Sound, ThreadsMade, ListsWhole, OneContext, Closed
  <1>6. CASE GetSensorlist
    <2>1. (list'.len > 0 \/ list'.ptr # "freed") /\ past' = past /\ Innocent
      <3>1. Needs(list'.len > 0 \/ list'.ptr # "freed")
        BY <1>6 DEF GetSensorlist
      <3> QED BY <3>1, NeedsMet
    <2>2. Sound
      BY <2>1 DEF CauseInv
    <2>3. fw = "list" /\ fw' = "idle" /\ "closed" \notin past
      BY <1>6, <2>2 DEF GetSensorlist, Sound, ListsWhole, Closed
    <2>4. list'.ptr # "freed"
      BY <1>1, <1>6, <2>1, <2>2, <2>3
         DEF GetSensorlist, MakeList, TypeOK, Sound, ListsWhole, Length
    <2> QED BY <1>6, <2>1, <2>2, <2>3, <2>4
         DEF GetSensorlist, Sound, ThreadsMade, ListsWhole, OneContext, Closed
  <1> QED BY <1>2, <1>3, <1>4, <1>5, <1>6 DEF Constructor

LEMMA CloseSound ==
  ASSUME IInv, CauseInv, NEW c \in Contexts, Close(c) \/ CallStale(c), Innocent'
  PROVE  Sound'
  <1> USE DEF threads, framework
  <1>1. past' = past
    BY DEF Close, CallStale
  <1>2. Sound
    BY <1>1 DEF Innocent, CauseInv
  <1>3. Close(c)
    BY <1>2 DEF CallStale, Sound, OneContext
  <1>4. OneContext'
    <2>1. /\ ctx \in [Contexts -> {"closed", "bound", "stale"}]
          /\ ctx[c] # "closed" /\ ctx' = [ctx EXCEPT ![c] = "closed"]
      BY <1>3 DEF IInv, TypeOK, Close
    <2> QED BY <2>1, <1>2 DEF Sound, OneContext
  <1>5. ThreadsMade' /\ ListsWhole' /\ fw' # "undefined"
    BY <1>1, <1>2, <1>3 DEF Close, Sound, ThreadsMade, ListsWhole, Closed
  <1> QED BY <1>4, <1>5 DEF Sound

LEMMA DestructorSound ==
  ASSUME IInv, CauseInv, Destructor, Innocent'
  PROVE  Sound'
  <1> USE DEF threads, framework
  <1>1. Innocent
    BY DEF Innocent, Destructor, KillThreads, JoinThreads, FreeAll
  <1>2. Sound
    BY <1>1 DEF CauseInv
  <1>3. CASE KillThreads
    BY <1>2, <1>3 DEF KillThreads, Sound, ThreadsMade, ListsWhole, OneContext, Closed
  <1>4. CASE JoinThreads
    BY <1>2, <1>4 DEF JoinThreads, Sound, ThreadsMade, ListsWhole, OneContext, Closed
  <1>5. CASE FreeAll
    <2>1. fw = "free" /\ "closed" \notin past
      BY <1>2, <1>5 DEF FreeAll, Sound, ListsWhole, Closed
    <2>2. ~torn /\ list.ptr # "freed"
      BY <1>2, <2>1 DEF Sound, ListsWhole
    <2>3. fw' = "idle" /\ ~instance' /\ ~torn' /\ "closed" \in past'
      BY <1>5, <2>2 DEF FreeAll
    <2>4. \A c \in Contexts : ctx'[c] = "closed"
      BY <1>2, <1>5, <2>1 DEF FreeAll, Sound, OneContext
    <2> QED BY <2>3, <2>4 DEF Sound, ThreadsMade, ListsWhole, OneContext, Closed
  <1> QED BY <1>3, <1>4, <1>5 DEF Destructor

LEMMA ThreadsSound ==
  ASSUME IInv, CauseInv, Innocent', fw # "undefined",
         \/ \E t \in Threads : WantMutex(t) \/ Acquire(t) \/ Release(t) \/ Die(t)
         \/ Wait
         \/ Wake
  PROVE  Sound'
  <1> USE DEF framework
  <1>1. PICK t \in Threads, to \in {"lock", "crit", "out", "wait", "gone"} :
          at' = [at EXCEPT ![t] = to] /\ UNCHANGED <<fw, framework, torn, past>>
    BY DEF WantMutex, Acquire, Release, Wait, Wake, Move, Rest, Die, Threads,
           Innocent, Causes
  <1>2. Sound
    BY <1>1 DEF Innocent, CauseInv
  <1>3. \A u \in Threads : at[u] # "none" => at'[u] # "none"
    BY <1>1 DEF IInv, TypeOK
  <1> QED BY <1>1, <1>2, <1>3
       DEF Sound, ThreadsMade, ListsWhole, OneContext, Closed, Threads

LEMMA CauseStep == IInv /\ CauseInv /\ [Next]_vars => CauseInv'
  <1> SUFFICES ASSUME IInv, CauseInv, [Next]_vars, Innocent'
               PROVE  Sound'
    BY DEF CauseInv
  <1>1. CASE UNCHANGED vars
    BY <1>1 DEF vars, framework, threads, CauseInv, Innocent, Sound, ThreadsMade,
                ListsWhole, OneContext, Closed
  <1>2. CASE Next
    BY <1>1, <1>2, OpenSound, ConstructorSound, CloseSound, DestructorSound,
       ThreadsSound DEF Next, Crashed
  <1> QED BY <1>1, <1>2

\* No sequence of calls, failures and signals ends in undefined behaviour unless
\* a step of the initialisation that the destructor needs failed, a context was
\* opened beside another or after a close, or a signal met a thread at work on
\* a list.
THEOREM LifecycleUndefinedHasCause == Spec => []UndefinedHasCause
  <1>1. CauseInv => UndefinedHasCause
    BY DEF CauseInv, Innocent, Sound, UndefinedHasCause
  <1> QED BY <1>1, InitIInv, InitCause, StepKeeps, CauseStep, PTL DEF Spec
=============================================================================
