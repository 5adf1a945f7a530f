-------------------------------- MODULE Mutex --------------------------------
(***************************************************************************)
(* Threads::Mutex (TeensyThreads.cpp, 626-679) on the scheduler of         *)
(* Threads: one mutex that any task may lock, try and unlock.              *)
(*                                                                         *)
(* The mutex has no owner: unlock() frees a locked mutex whoever calls it, *)
(* and does nothing to a free one.  Who has it is kept beside the code, in *)
(* the variable has.                                                       *)
(*                                                                         *)
(* lock() and unlock() keep the processor by stop() and give it back by    *)
(* start(); here those are steps of their own, so that whether the code    *)
(* between them is safe from the timer follows from the scheduler.         *)
(***************************************************************************)
EXTENDS Threads

CONSTANTS
    Lockers,     \* the tasks that use the mutex
    Environment  \* other calls the tasks make: "kill", "scope", and "unlock"
                 \* without having the mutex

ASSUME MutexAssumption ==
    /\ Lockers \subseteq 0 .. MaxAdds
    /\ Environment \subseteq {"kill", "scope", "unlock"}

VARIABLES
    state,       \* 1 while the mutex is locked
    waitthread,  \* slot of the thread suspended until unlock, or -1
    mpc,         \* where each task is in the mutex code
    site,        \* who called try_lock: a task, lock() on entry, or its loop
    timed,       \* lock() was given a timeout
    saved,       \* local p: the threading state stop() returned
    has,         \* auxiliary: tasks that locked it since it was last freed
    foreign      \* auxiliary: a task that did not have it called unlock()

mutexVars == << state, waitthread, mpc, site, timed, saved, has, foreign >>
allVars   == << vars, mutexVars >>

Outside == {"out"}
\* Between stop() and start() of try_lock, of lock's registration, of unlock.
Stopped == {"test", "set", "got", "miss", "register", "registered",
            "release", "released", "wake"}
Locking == {"try", "test", "set", "got", "miss", "timeout", "check",
            "suspend", "register", "registered", "yield"}
PCs == Outside \cup Stopped \cup Locking \cup {"unlock"}

MutexTypeOK ==
    /\ TypeOK
    /\ state \in {0, 1}
    /\ waitthread \in Ids \cup {-1}
    /\ mpc \in [Tasks -> PCs]
    /\ site \in [Tasks -> {"caller", "entry", "loop"}]
    /\ timed \in [Tasks -> BOOLEAN]
    /\ saved \in [Tasks -> Active]
    /\ has \subseteq Tasks
    /\ foreign \in BOOLEAN

MutexInit ==
    /\ Init
    /\ state = 0
    /\ waitthread = -1
    /\ mpc = [t \in Tasks |-> "out"]
    /\ site = [t \in Tasks |-> "caller"]
    /\ timed = [t \in Tasks |-> FALSE]
    /\ saved = [t \in Tasks |-> "ZERO"]
    /\ has = {}
    /\ foreign = FALSE

-----------------------------------------------------------------------------
(* The steps of the task that has the processor. *)

At(loc)   == Calling /\ mpc[cpu] = loc
GoTo(loc) == mpc' = [mpc EXCEPT ![cpu] = loc]

\* p = stop() and start(p).  StopNot and StartSkipped are faulty variants that
\* leave currentActive as it is.
StopNot ==
    /\ saved' = [saved EXCEPT ![cpu] = currentActive]
    /\ UNCHANGED << currentActive, tableVars, cpuVars, taskVars >>
Stop ==
    /\ saved' = [saved EXCEPT ![cpu] = currentActive]
    /\ currentActive' = "STOPPED"
    /\ UNCHANGED << tableVars, cpuVars, taskVars >>
StartSkipped == UNCHANGED << currentActive, tableVars, cpuVars, taskVars, saved >>
StartAgain ==
    /\ currentActive' = saved[cpu]
    /\ UNCHANGED << tableVars, cpuVars, taskVars, saved >>

\* try_lock() called by a task; lock(timeout_ms), which tries on entry.
TryLockCall ==
    /\ cpu \in Lockers /\ At("out")
    /\ GoTo("try")
    /\ site' = [site EXCEPT ![cpu] = "caller"]
    /\ UNCHANGED << vars, state, waitthread, timed, saved, has, foreign >>

LockCall ==
    /\ cpu \in Lockers /\ At("out")
    /\ GoTo("try")
    /\ site' = [site EXCEPT ![cpu] = "entry"]
    /\ \E b \in BOOLEAN : timed' = [timed EXCEPT ![cpu] = b]
    /\ UNCHANGED << vars, state, waitthread, saved, has, foreign >>

\* try_lock: stop, test, set, start.
TryStop ==
    /\ At("try")
    /\ Stop
    /\ GoTo("test")
    /\ UNCHANGED << state, waitthread, site, timed, has, foreign >>

TryTest ==
    /\ At("test")
    /\ GoTo(IF state = 0 THEN "set" ELSE "miss")
    /\ UNCHANGED << vars, state, waitthread, site, timed, saved, has, foreign >>

TrySet ==
    /\ At("set")
    /\ state' = 1
    /\ has' = has \cup {cpu}
    /\ GoTo("got")
    /\ UNCHANGED << vars, waitthread, site, timed, saved, foreign >>

TryGot ==
    /\ At("got")
    /\ StartAgain
    /\ GoTo("out")
    /\ UNCHANGED << state, waitthread, site, timed, has, foreign >>

\* A miss returns to the task, enters lock's loop, or goes on in it.
TryMiss ==
    /\ At("miss")
    /\ StartAgain
    /\ GoTo(CASE site[cpu] = "caller" -> "out"
              [] site[cpu] = "entry" -> "try"
              [] site[cpu] = "loop" -> "timeout")
    /\ site' = IF site[cpu] = "entry" THEN [site EXCEPT ![cpu] = "loop"] ELSE site
    /\ UNCHANGED << state, waitthread, timed, has, foreign >>

\* The loop of lock: give up after the timeout ...
LockTimeout ==
    /\ At("timeout")
    /\ \/ timed[cpu] /\ GoTo("out")
       \/ GoTo("check")
    /\ UNCHANGED << vars, state, waitthread, site, timed, saved, has, foreign >>

\* ... test whether the place of the waiter is free ...
LockCheck ==
    /\ At("check")
    /\ GoTo(IF waitthread = -1 THEN "suspend" ELSE "yield")
    /\ UNCHANGED << vars, state, waitthread, site, timed, saved, has, foreign >>

\* ... take it and suspend oneself ...
LockStop ==
    /\ At("suspend")
    /\ Stop
    /\ GoTo("register")
    /\ UNCHANGED << state, waitthread, site, timed, has, foreign >>

LockRegister ==
    /\ At("register")
    /\ waitthread' = current_thread
    /\ flags' = [flags EXCEPT ![current_thread] = "SUSPENDED"]
    /\ GoTo("registered")
    /\ UNCHANGED << ticks, loaded, sp, nextTask, cpuVars, currentActive, taskVars,
                    state, site, timed, saved, has, foreign >>

LockRegistered ==
    /\ At("registered")
    /\ StartAgain
    /\ GoTo("yield")
    /\ UNCHANGED << state, waitthread, site, timed, has, foreign >>

\* ... and yield.
LockYield ==
    /\ At("yield")
    /\ GoTo("try")
    /\ TrapYield
    /\ UNCHANGED << currentActive, state, waitthread, site, timed, saved, has, foreign >>

\* unlock: stop, free the mutex if it is locked, restart the waiter or start
\* again.  Nothing asks who calls it.
UnlockCall ==
    /\ cpu \in Lockers /\ At("out")
    /\ cpu \in has \/ "unlock" \in Environment
    /\ foreign' = (foreign \/ cpu \notin has)
    /\ GoTo("unlock")
    /\ UNCHANGED << vars, state, waitthread, site, timed, saved, has >>

UnlockStop ==
    /\ At("unlock")
    /\ Stop
    /\ GoTo("release")
    /\ UNCHANGED << state, waitthread, site, timed, has, foreign >>

\* The faulty variant is -1 in a byte.
WaiterAsByte == 255
WaiterAfterUnlock == -1

UnlockRelease ==
    /\ At("release")
    /\ \/ /\ state = 1 /\ waitthread >= 0
          /\ state' = 0 /\ has' = {}
          /\ flags' = [flags EXCEPT ![waitthread] = "RUNNING"]
          /\ waitthread' = WaiterAfterUnlock
          /\ GoTo("wake")
       \/ /\ state = 1 /\ waitthread = -1
          /\ state' = 0 /\ has' = {}
          /\ GoTo("released")
          /\ UNCHANGED << flags, waitthread >>
       \/ /\ state # 1
          /\ GoTo("released")
          /\ UNCHANGED << flags, waitthread, state, has >>
    /\ UNCHANGED << ticks, loaded, sp, nextTask, cpuVars, currentActive, taskVars,
                    site, timed, saved, foreign >>

UnlockStart ==
    /\ At("released")
    /\ StartAgain
    /\ GoTo("out")
    /\ UNCHANGED << state, waitthread, site, timed, has, foreign >>

\* yield_and_start: the trap handler sets STARTED and switches at once.
UnlockWake ==
    /\ At("wake")
    /\ GoTo("out")
    /\ currentActive' = "STARTED"
    /\ SwitchContext
    /\ UNCHANGED << state, waitthread, site, timed, saved, has, foreign >>

-----------------------------------------------------------------------------
(* The scheduler and the other calls of the tasks. *)

OtherCall ==
    \/ AddThread
    \/ Yield
    \/ "kill" \in Environment /\ \E id \in Ids : Kill(id)
    \/ "scope" \in Environment /\ (EnterScope \/ LeaveScope)

TimerTick == Tick /\ UNCHANGED mutexVars

EnvironmentStep == mpc[cpu] \in Outside /\ OtherCall /\ UNCHANGED mutexVars

TryLock == TryStop \/ TryTest \/ TrySet \/ TryGot \/ TryMiss
Lock    == LockTimeout \/ LockCheck \/ LockStop \/ LockRegister
           \/ LockRegistered \/ LockYield
Unlock  == UnlockStop \/ UnlockRelease \/ UnlockStart \/ UnlockWake

MutexNext ==
    \/ TimerTick
    \/ EnvironmentStep
    \/ TryLockCall \/ LockCall \/ UnlockCall
    \/ TryLock \/ Lock \/ Unlock

MutexSpec == MutexInit /\ [][MutexNext]_allVars

\* The timer interrupts, and a task that is in the mutex code and gets the
\* processor again and again takes its next step.
InMutexCode(t) == cpu = t /\ (TryLock \/ Lock \/ Unlock)
MutexFairSpec ==
    /\ MutexSpec
    /\ WF_allVars(TimerTick)
    /\ \A t \in Tasks : SF_allVars(InMutexCode(t))

-----------------------------------------------------------------------------
(* Properties. *)

\* However the timer cuts into try_lock and unlock, lock and try_lock give the
\* mutex to one task between two frees of it, and it is locked exactly while a
\* task has it.  A task that has it keeps it until its own unlock() frees it,
\* unless a task that did not have it called unlock(), which the code allows.
MutualExclusion ==
    /\ \A t, u \in has : t = u
    /\ state = 1 <=> has # {}
    /\ ~ foreign => \A t \in Tasks : mpc[t] \in {"unlock", "release"} => t \in has

\* The code between stop() and start() keeps the processor, and outside of it
\* the threading system is on.
StopsBalanced ==
    /\ \A t \in Tasks : mpc[t] \in Stopped => t = cpu
    /\ mpc[cpu] \notin Stopped /\ scopes[cpu] = <<>> => currentActive # "STOPPED"

\* waitthread only ever names a thread that is still inside lock(): unlock
\* never restarts a thread that was suspended for another reason.
WaiterIsInLock ==
    waitthread # -1 => /\ mpc[loaded[waitthread]] \in Locking
                       /\ flags[waitthread] = "SUSPENDED"

\* The thread lock() has suspended.
AsleepIn(i) == flags[i] = "SUSPENDED" /\ mpc[loaded[i]] = "yield"

\* "can hold 1 thread suspend until unlock": the mutex can reach every thread
\* that lock() has suspended.
SuspendedIsRegistered ==
    \A i \in Ids : AsleepIn(i) => waitthread = i

\* "reanimate a suspended thread waiting for unlock": a thread lock() has
\* suspended has an unlock to wait for.
SuspendedMeansLocked ==
    \A i \in Ids : AsleepIn(i) /\ i # current_thread => state = 1

\* "lock, optionally waiting up to timeout_ms milliseconds": a lock with a
\* timeout returns.
TimedLockReturns ==
    \A t \in Tasks :
        mpc[t] \in Locking /\ timed[t] ~> mpc[t] \in Outside
=============================================================================
