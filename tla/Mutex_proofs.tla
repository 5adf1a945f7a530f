----------------------------- MODULE Mutex_proofs -----------------------------
(***************************************************************************)
(* Mutual exclusion of Threads::Mutex, for every number of slots, tasks,   *)
(* nested scopes and callers, whatever else the tasks call meanwhile, an   *)
(* unlock() by a task that does not have the mutex included.               *)
(***************************************************************************)
EXTENDS Mutex, Threads_proofs

-----------------------------------------------------------------------------
(* Types. *)

\* What the tasks do outside the mutex is a step of the scheduler module.
LEMMA EnvironmentIsNext ==
    ASSUME EnvironmentStep \/ TimerTick
    PROVE  Next /\ UNCHANGED mutexVars
BY DEF EnvironmentStep, TimerTick, OtherCall, Next

\* stop(), start() and the other steps of the mutex code keep the scheduler's
\* types; the switch of yield_and_start does, too.
LEMMA StopStartTypes ==
    ASSUME TypeOK, currentActive' \in Active, UNCHANGED << tableVars, cpuVars, taskVars >>
    PROVE  TypeOK'
BY DEF TypeOK, tableVars, cpuVars, taskVars

LEMMA SwitchTypes ==
    ASSUME TypeOK, currentActive' \in Active, SwitchContext
    PROVE  TypeOK'
BY SwitchContextTypes DEF TypeOK, taskVars

LEMMA MutexTypeStep ==
    ASSUME MutexTypeOK, [MutexNext]_allVars
    PROVE  MutexTypeOK'
<1> DEFINE Locs == /\ mpc' \in [Tasks -> PCs]
                   /\ site' \in [Tasks -> {"caller", "entry", "loop"}]
                   /\ timed' \in [Tasks -> BOOLEAN]
<1>0. /\ TypeOK /\ cpu \in Tasks /\ current_thread \in Ids
      /\ "STOPPED" \in Active /\ "STARTED" \in Active
      /\ saved[cpu] \in Active /\ currentActive \in Active
  BY DEF MutexTypeOK, TypeOK, Active
<1>1. CASE EnvironmentStep \/ TimerTick
  BY <1>1, EnvironmentIsNext, TypeStep DEF MutexTypeOK, mutexVars
<1>2. CASE TryLockCall \/ LockCall \/ UnlockCall
  <2>1. TypeOK'
    BY <1>0, <1>2, TypeStep DEF TryLockCall, LockCall, UnlockCall
  <2>2. Locs
    BY <1>2 DEF TryLockCall, LockCall, UnlockCall, GoTo, MutexTypeOK, PCs,
                Outside, Stopped, Locking
  <2> QED
    BY <1>2, <2>1, <2>2 DEF TryLockCall, LockCall, UnlockCall, MutexTypeOK
<1>3. CASE TryLock
  <2>1. Locs
    BY <1>3 DEF TryLock, TryStop, TryTest, TrySet, TryGot, TryMiss, GoTo,
                MutexTypeOK, PCs, Outside, Stopped, Locking
  <2>2. CASE TryStop
    BY <1>0, <2>1, <2>2, StopStartTypes DEF TryStop, Stop, MutexTypeOK
  <2>3. CASE TryTest \/ TrySet
    BY <1>0, <2>1, <2>3, TypeStep DEF TryTest, TrySet, MutexTypeOK
  <2>4. CASE TryGot \/ TryMiss
    BY <1>0, <2>1, <2>4, StopStartTypes DEF TryGot, TryMiss, StartAgain, MutexTypeOK
  <2> QED
    BY <1>3, <2>2, <2>3, <2>4 DEF TryLock
<1>4. CASE Lock
  <2>1. Locs
    BY <1>4 DEF Lock, LockTimeout, LockCheck, LockStop, LockRegister,
                LockRegistered, LockYield, GoTo, MutexTypeOK, PCs, Outside,
                Stopped, Locking
  <2>2. CASE LockTimeout \/ LockCheck
    BY <1>0, <2>1, <2>2, TypeStep DEF LockTimeout, LockCheck, MutexTypeOK
  <2>3. CASE LockStop
    BY <1>0, <2>1, <2>3, StopStartTypes DEF LockStop, Stop, MutexTypeOK
  <2>4. CASE LockRegister
    <3>1. TypeOK'
      BY <2>4, <1>0 DEF LockRegister, TypeOK, Flags, cpuVars, taskVars
    <3> QED
      BY <1>0, <2>1, <2>4, <3>1 DEF LockRegister, MutexTypeOK
  <2>5. CASE LockRegistered
    BY <1>0, <2>1, <2>5, StopStartTypes DEF LockRegistered, StartAgain, MutexTypeOK
  <2>6. CASE LockYield
    BY <1>0, <2>1, <2>6, TrapYieldTypes DEF LockYield, MutexTypeOK
  <2> QED
    BY <1>4, <2>2, <2>3, <2>4, <2>5, <2>6 DEF Lock
<1>5. CASE Unlock
  <2>1. Locs
    BY <1>5 DEF Unlock, UnlockStop, UnlockRelease, UnlockStart, UnlockWake,
                GoTo, MutexTypeOK, PCs, Outside, Stopped, Locking
  <2>2. CASE UnlockStop
    BY <1>0, <2>1, <2>2, StopStartTypes DEF UnlockStop, Stop, MutexTypeOK
  <2>3. CASE UnlockRelease
    <3>1. TypeOK'
      BY <2>3, <1>0 DEF UnlockRelease, TypeOK, Flags, cpuVars, taskVars
    <3> QED
      BY <2>1, <2>3, <3>1 DEF UnlockRelease, WaiterAfterUnlock, MutexTypeOK
  <2>4. CASE UnlockStart
    BY <1>0, <2>1, <2>4, StopStartTypes DEF UnlockStart, StartAgain, MutexTypeOK
  <2>5. CASE UnlockWake
    BY <1>0, <2>1, <2>5, SwitchTypes DEF UnlockWake, MutexTypeOK
  <2> QED
    BY <1>5, <2>2, <2>3, <2>4, <2>5 DEF Unlock
<1>6. CASE UNCHANGED allVars
  BY <1>6, <1>0, TypeStep DEF allVars, mutexVars, MutexTypeOK
<1> QED
  BY <1>1, <1>2, <1>3, <1>4, <1>5, <1>6 DEF MutexNext

LEMMA MutexInitTypes == MutexInit => MutexTypeOK
<1> SUFFICES ASSUME MutexInit PROVE MutexTypeOK
  OBVIOUS
<1>1. TypeOK
  BY InitTypes DEF MutexInit
<1> QED
  BY <1>1 DEF MutexInit, MutexTypeOK, PCs, Outside, Active

-----------------------------------------------------------------------------
(* Mutual exclusion. *)

\* A task between stop() and start() has the processor and keeps it, because
\* the system is STOPPED; so nobody stores in state between try_lock's test of
\* it and its store of 1.
MutexInv ==
    /\ \A t \in Tasks : mpc[t] \in Stopped => t = cpu /\ currentActive = "STOPPED"
    /\ \A t \in Tasks : mpc[t] = "set" => state = 0
    /\ MutualExclusion

\* A step that stays outside the mutex leaves the processor where it is unless
\* the system is STARTED.
LEMMA OutsideStep ==
    ASSUME MutexTypeOK, MutexInv, EnvironmentStep \/ TimerTick \/ LockYield
    PROVE  \A t \in Tasks : mpc[t] \in Stopped => cpu' = cpu /\ currentActive' = currentActive
<1> SUFFICES ASSUME NEW t \in Tasks, mpc[t] \in Stopped
             PROVE  cpu' = cpu /\ currentActive' = currentActive
  OBVIOUS
<1>1. t = cpu /\ currentActive = "STOPPED"
  BY DEF MutexInv
<1>2. CASE EnvironmentStep
  BY <1>1, <1>2 DEF EnvironmentStep, Stopped, Outside
<1>3. CASE TimerTick
  BY <1>1, <1>3 DEF TimerTick, Tick, TrapYield, cpuVars
<1>4. CASE LockYield
  BY <1>1, <1>4 DEF LockYield, At, Stopped
<1> QED
  BY <1>2, <1>3, <1>4

\* A step of the task on the processor that moves it from one place of the
\* mutex code to another and neither locks nor frees the mutex.
LEMMA OwnStep ==
    ASSUME MutexTypeOK, MutexInv, NEW to \in PCs, GoTo(to), UNCHANGED << state, has >>,
           foreign => foreign',
           to \in {"unlock", "release"} => foreign' \/ cpu \in has,
           to # "set",
           mpc[cpu] \in Stopped \/ currentActive' = currentActive \/ currentActive' = "STOPPED",
           to \in Stopped => cpu' = cpu /\ currentActive' = "STOPPED"
    PROVE  MutexInv'
<1>1. cpu \in Tasks /\ \A t \in Tasks : mpc'[t] = IF t = cpu THEN to ELSE mpc[t]
  BY DEF GoTo, MutexTypeOK, TypeOK
<1>2. MutualExclusion'
  BY <1>1 DEF MutexInv, MutualExclusion
<1> QED
  BY <1>1, <1>2 DEF MutexInv

LEMMA MutexStep ==
    ASSUME MutexTypeOK, MutexInv, [MutexNext]_allVars
    PROVE  MutexInv'
<1> USE DEF Stopped, tableVars, cpuVars
<1>0. /\ cpu \in Tasks /\ state \in {0, 1} /\ has \subseteq Tasks
      /\ mpc \in [Tasks -> PCs]
      /\ mpc[cpu] \in Stopped => currentActive = "STOPPED"
  BY DEF MutexTypeOK, TypeOK, MutexInv
<1>1. CASE EnvironmentStep \/ TimerTick
  <2>1. UNCHANGED << mpc, state, has, foreign >>
    BY <1>1 DEF EnvironmentStep, TimerTick, mutexVars
  <2>2. \A t \in Tasks : mpc[t] \in Stopped => cpu' = cpu /\ currentActive' = currentActive
    BY <1>1, OutsideStep
  <2> QED
    BY <2>1, <2>2 DEF MutexInv, MutualExclusion
<1>2. CASE TryLockCall \/ LockCall
  <2>1. GoTo("try") /\ UNCHANGED << state, has, foreign, cpu, currentActive >>
    BY <1>2 DEF TryLockCall, LockCall, vars
  <2> QED
    BY <2>1, OwnStep DEF PCs, Locking
<1>3. CASE UnlockCall
  <2>1. /\ GoTo("unlock") /\ UNCHANGED << state, has, cpu, currentActive >>
        /\ foreign' = (foreign \/ cpu \notin has)
    BY <1>3 DEF UnlockCall, vars
  <2> QED
    BY <2>1, OwnStep DEF PCs
<1>4. CASE TryLock
  <2>1. CASE TryStop
    <3>1. /\ GoTo("test") /\ UNCHANGED << state, has, foreign, cpu >>
          /\ currentActive' = "STOPPED"
      BY <2>1 DEF TryStop, Stop
    <3> QED
      BY <3>1, OwnStep DEF PCs
  <2>2. CASE TryTest
    <3>1. /\ UNCHANGED << state, has, foreign, cpu, currentActive >> /\ mpc[cpu] = "test"
          /\ GoTo(IF state = 0 THEN "set" ELSE "miss")
      BY <2>2 DEF TryTest, At, vars
    <3>2. CASE state = 0
      <4>1. \A t \in Tasks : mpc'[t] = IF t = cpu THEN "set" ELSE mpc[t]
        BY <1>0, <3>1, <3>2 DEF GoTo
      <4> QED
        BY <1>0, <3>1, <3>2, <4>1 DEF MutexInv, MutualExclusion
    <3>3. CASE state # 0
      BY <1>0, <3>1, <3>3, OwnStep DEF PCs
    <3> QED
      BY <3>2, <3>3
  <2>3. CASE TrySet
    <3>1. /\ UNCHANGED << cpu, currentActive, foreign >> /\ mpc[cpu] = "set"
          /\ state' = 1 /\ has' = has \cup {cpu}
          /\ \A t \in Tasks : mpc'[t] = IF t = cpu THEN "got" ELSE mpc[t]
      BY <1>0, <2>3 DEF TrySet, At, vars, GoTo
    <3>2. has' = {cpu}
      BY <1>0, <3>1 DEF MutexInv, MutualExclusion
    <3>3. \A t \in Tasks : mpc[t] \in Stopped => t = cpu
      BY DEF MutexInv
    <3>4. \A t \in Tasks : mpc'[t] \in {"unlock", "release"} => foreign
      BY <1>0, <3>1, <3>3 DEF MutexInv, MutualExclusion
    <3> QED
      BY <1>0, <3>1, <3>2, <3>3, <3>4 DEF MutexInv, MutualExclusion
  <2>4. CASE TryGot
    <3>1. GoTo("out") /\ UNCHANGED << state, has, foreign, cpu >> /\ mpc[cpu] = "got"
      BY <2>4 DEF TryGot, StartAgain, At
    <3> QED
      BY <3>1, OwnStep DEF PCs, Outside
  <2>5. CASE TryMiss
    <3>1. PICK to \in {"out", "try", "timeout"} : GoTo(to)
      BY <2>5 DEF TryMiss, MutexTypeOK, TypeOK
    <3>2. UNCHANGED << state, has, foreign, cpu >> /\ mpc[cpu] = "miss"
      BY <2>5 DEF TryMiss, StartAgain, At
    <3> QED
      BY <3>1, <3>2, OwnStep DEF PCs, Outside, Locking
  <2> QED
    BY <1>4, <2>1, <2>2, <2>3, <2>4, <2>5 DEF TryLock
<1>5. CASE Lock
  <2>1. CASE LockTimeout \/ LockCheck
    <3>1. PICK to \in {"out", "check", "suspend", "yield"} : GoTo(to)
      BY <2>1 DEF LockTimeout, LockCheck
    <3>2. UNCHANGED << state, has, foreign, cpu, currentActive >>
      BY <2>1 DEF LockTimeout, LockCheck, vars
    <3> QED
      BY <3>1, <3>2, OwnStep DEF PCs, Outside, Locking
  <2>2. CASE LockStop
    <3>1. /\ GoTo("register") /\ UNCHANGED << state, has, foreign, cpu >>
          /\ currentActive' = "STOPPED"
      BY <2>2 DEF LockStop, Stop
    <3> QED
      BY <3>1, OwnStep DEF PCs
  <2>3. CASE LockRegister
    <3>1. /\ GoTo("registered") /\ UNCHANGED << state, has, foreign, cpu, currentActive >>
          /\ mpc[cpu] = "register"
      BY <2>3 DEF LockRegister, At
    <3> QED
      BY <1>0, <3>1, OwnStep DEF PCs
  <2>4. CASE LockRegistered
    <3>1. /\ GoTo("yield") /\ UNCHANGED << state, has, foreign, cpu >>
          /\ mpc[cpu] = "registered"
      BY <2>4 DEF LockRegistered, StartAgain, At
    <3> QED
      BY <3>1, OwnStep DEF PCs, Locking
  <2>5. CASE LockYield
    <3>1. GoTo("try") /\ UNCHANGED << state, has, foreign, currentActive >>
      BY <2>5 DEF LockYield
    <3> QED
      BY <3>1, OwnStep DEF PCs, Locking
  <2> QED
    BY <1>5, <2>1, <2>2, <2>3, <2>4, <2>5 DEF Lock
<1>6. CASE Unlock
  <2>1. CASE UnlockStop
    <3>1. /\ GoTo("release") /\ UNCHANGED << state, has, foreign, cpu >>
          /\ mpc[cpu] = "unlock" /\ currentActive' = "STOPPED"
      BY <2>1 DEF UnlockStop, Stop, At
    <3>2. foreign \/ cpu \in has
      BY <1>0, <3>1 DEF MutexInv, MutualExclusion
    <3> QED
      BY <3>1, <3>2, OwnStep DEF PCs
  <2>2. CASE UnlockRelease
    <3>1. PICK to \in {"wake", "released"} : GoTo(to)
      BY <2>2 DEF UnlockRelease
    <3>2. /\ UNCHANGED << cpu, currentActive, foreign >> /\ mpc[cpu] = "release"
          /\ \/ state' = 0 /\ has' = {} /\ state = 1
             \/ UNCHANGED << state, has >>
      BY <2>2 DEF UnlockRelease, At
    <3>3. \A t \in Tasks : mpc'[t] = IF t = cpu THEN to ELSE mpc[t]
      BY <1>0, <3>1 DEF GoTo
    <3>4. CASE UNCHANGED << state, has >>
      BY <1>0, <3>1, <3>2, <3>4, OwnStep DEF PCs
    <3>5. CASE state' = 0 /\ has' = {} /\ state = 1
      <4>1. ~ foreign => \A t \in Tasks : mpc'[t] \notin {"unlock", "release"}
        BY <1>0, <3>2, <3>3 DEF MutexInv, MutualExclusion
      <4> QED
        BY <1>0, <3>2, <3>3, <3>5, <4>1 DEF MutexInv, MutualExclusion
    <3> QED
      BY <3>2, <3>4, <3>5
  <2>3. CASE UnlockStart \/ UnlockWake
    <3>1. /\ GoTo("out") /\ UNCHANGED << state, has, foreign >>
          /\ mpc[cpu] \in {"released", "wake"}
      BY <2>3 DEF UnlockStart, UnlockWake, At
    <3> QED
      BY <3>1, OwnStep DEF PCs, Outside
  <2> QED
    BY <1>6, <2>1, <2>2, <2>3 DEF Unlock
<1>7. CASE UNCHANGED allVars
  BY <1>7 DEF allVars, vars, mutexVars, MutexInv, MutualExclusion
<1> QED
  BY <1>1, <1>2, <1>3, <1>4, <1>5, <1>6, <1>7 DEF MutexNext

\* The mutex and the scheduler below it stay in their types.
THEOREM MutexTypeCorrect == MutexSpec => []MutexTypeOK
<1>1. MutexTypeOK /\ [MutexNext]_allVars => MutexTypeOK'
  BY MutexTypeStep
<1> QED
  BY <1>1, MutexInitTypes, PTL DEF MutexSpec

\* Between two frees of the mutex one task gets it, and state is 1 exactly while
\* a task has it: stop() and start() make try_lock and unlock atomic, even where
\* tasks open Suspend scopes, kill each other, overflow their stacks or kill
\* themselves.  As long as no task unlocks a mutex it does not have, the one
\* that has it keeps it until its own unlock().
THEOREM MutexExcludes == MutexSpec => []MutualExclusion
<1>1. MutexInit => MutexInv
  BY DEF MutexInit, MutexInv, MutualExclusion, Stopped
<1>2. MutexTypeOK /\ MutexInv /\ [MutexNext]_allVars => MutexInv'
  BY MutexStep
<1>3. MutexInv => MutualExclusion
  BY DEF MutexInv
<1> QED
  BY <1>1, <1>2, <1>3, MutexTypeCorrect, PTL DEF MutexSpec

-----------------------------------------------------------------------------
(* Threading is on outside the mutex code and the Suspend scopes. *)

On == {"STARTED", "FIRST_RUN"}

\* The outermost scope of a task saved a state that is on, and only main saw
\* FIRST_RUN, before it opened any scope.
ScopesInv ==
    /\ \A t \in Tasks : scopes[t] # <<>> => scopes[t][1] \in On
    /\ \A t \in Tasks : \A k \in 2 .. Len(scopes[t]) : scopes[t][k] # "FIRST_RUN"
    /\ \A t \in Tasks : scopes[t] # <<>> /\ scopes[t][1] = "FIRST_RUN" => t = 0

\* So did stop(), when it was called outside every scope.
StateInv ==
    /\ mpc[cpu] \notin Stopped /\ scopes[cpu] = <<>> => currentActive \in On
    /\ \A t \in Tasks : mpc[t] \in Stopped =>
          IF scopes[t] = <<>> THEN saved[t] \in On ELSE saved[t] # "FIRST_RUN"
    /\ currentActive = "FIRST_RUN" => scopes[cpu] = <<>>

\* The slots of main, of the running thread and of the waiter are filled, and
\* slot 0 is main's.
SlotInv ==
    /\ flags[0] # "NULL" /\ flags[current_thread] # "NULL"
    /\ waitthread # -1 => flags[waitthread] # "NULL"
    /\ sp[0] = 0
    /\ current_thread = 0 => cpu = 0

\* The system is in FIRST_RUN, or a scope or start() will restore it.
FirstRunAhead ==
    \/ currentActive = "FIRST_RUN"
    \/ \E t \in Tasks : scopes[t] # <<>> /\ scopes[t][1] = "FIRST_RUN"
    \/ \E t \in Tasks : mpc[t] \in Stopped /\ saved[t] = "FIRST_RUN"

\* Until then no slot but main's is filled, so that addThread never finds the
\* table full in FIRST_RUN, which would leave the system STOPPED.
Alone == \A i \in Ids \ {0} : flags[i] = "NULL"

OnInv == ScopesInv /\ StateInv /\ SlotInv /\ (FirstRunAhead => Alone)

LEMMA SlotsFilled ==
    ASSUME MutexTypeOK, SlotInv, FirstRunAhead, Alone
    PROVE  current_thread = 0 /\ cpu = 0
BY DEF MutexTypeOK, TypeOK, SlotInv, Alone

\* The switch fills and empties no slot, and lands on a filled one.
LEMMA SwitchSlots ==
    ASSUME MutexTypeOK, SlotInv, SwitchContext, waitthread' = waitthread
    PROVE  SlotInv' /\ \A i \in Ids : flags[i] = "NULL" <=> flags'[i] = "NULL"
<1>0. 0 \in Ids /\ current_thread \in Ids /\ TypeOK
  BY ThreadsAssumption DEF MutexTypeOK, TypeOK, Ids
<1>1. \A i \in Ids : flags[i] = "NULL" <=> flags'[i] = "NULL"
  BY <1>0 DEF SwitchContext, SlotInv, TypeOK
<1>2. /\ current_thread' \in Ids
      /\ current_thread' # 0 => flags'[current_thread'] = "RUNNING"
  BY <1>0, SwitchLandsOnRunnable
<1>3. sp'[0] = 0
  BY <1>0 DEF SwitchContext, SlotInv, TypeOK
<1>4. current_thread' = 0 => cpu' = 0
  BY <1>3 DEF SwitchContext
<1>5. waitthread # -1 => flags'[waitthread] # "NULL"
  BY <1>1 DEF SlotInv, MutexTypeOK
<1> QED
  BY <1>0, <1>1, <1>2, <1>3, <1>4, <1>5 DEF SlotInv

\* Every step keeps the filled slots filled; addThread alone fills one.
LEMMA SlotStep ==
    ASSUME MutexTypeOK, SlotInv, [MutexNext]_allVars
    PROVE  /\ SlotInv'
           /\ (EnvironmentStep /\ AddThread) \/ (Alone => Alone')
<1> USE DEF tableVars, cpuVars, mutexVars
<1> DEFINE Keeps == SlotInv' /\ (Alone => Alone')
<1>0. /\ 0 \in Ids /\ current_thread \in Ids /\ waitthread \in Ids \cup {-1}
      /\ flags \in [Ids -> Flags] /\ -1 \notin Ids
  BY ThreadsAssumption DEF MutexTypeOK, TypeOK, Ids
<1>1. ASSUME UNCHANGED << current_thread, cpu, flags, sp, waitthread >>
      PROVE  Keeps
  BY <1>1 DEF SlotInv, Alone
<1>2. ASSUME SwitchContext, waitthread' = waitthread
      PROVE  Keeps
  BY <1>2, SwitchSlots DEF Alone
<1>3. ASSUME TrapYield, waitthread' = waitthread
      PROVE  Keeps
  BY <1>1, <1>2, <1>3 DEF TrapYield
<1>4. ASSUME NEW id \in Ids, flags[id] # "NULL", NEW st \in Flags \ {"NULL"},
             flags' = [flags EXCEPT ![id] = st],
             UNCHANGED << current_thread, cpu, sp >>,
             waitthread' \in {waitthread, -1, current_thread}
      PROVE  Keeps
  <2>1. \A i \in Ids : flags'[i] = "NULL" <=> flags[i] = "NULL"
    BY <1>0, <1>4
  <2>2. waitthread' # -1 => waitthread' \in Ids /\ flags[waitthread'] # "NULL"
    BY <1>0, <1>4 DEF SlotInv
  <2> QED
    BY <1>0, <1>4, <2>1, <2>2 DEF SlotInv, Alone
<1>5. CASE TimerTick
  BY <1>1, <1>3, <1>5 DEF TimerTick, Tick
<1>6. CASE EnvironmentStep
  <2>1. CASE AddThread
    <3>1. /\ \A i \in Ids : flags[i] # "NULL" => flags'[i] # "NULL"
          /\ sp'[0] = sp[0]
      BY <1>0, <2>1 DEF AddThread, Free, MutexTypeOK, TypeOK
    <3>2. UNCHANGED << current_thread, cpu, waitthread >>
      BY <1>6, <2>1 DEF AddThread, EnvironmentStep
    <3> QED
      BY <1>0, <1>6, <2>1, <3>1, <3>2 DEF SlotInv
  <2>2. CASE Yield
    BY <1>3, <1>6, <2>2 DEF Yield, EnvironmentStep
  <2>3. ASSUME NEW id \in Ids, Kill(id)
        PROVE  Keeps
    BY <1>4, <1>6, <2>3 DEF Kill, SetFlags, EnvironmentStep, Flags
  <2>4. CASE EnterScope \/ LeaveScope
    BY <1>1, <1>6, <2>4 DEF EnterScope, LeaveScope, EnvironmentStep
  <2> QED
    BY <1>6, <2>1, <2>2, <2>3, <2>4 DEF EnvironmentStep, OtherCall
<1>7. CASE TryLockCall \/ LockCall \/ UnlockCall
  BY <1>1, <1>7 DEF TryLockCall, LockCall, UnlockCall, vars
<1>8. CASE TryLock
  BY <1>1, <1>8 DEF TryLock, TryStop, TryTest, TrySet, TryGot, TryMiss, Stop,
                    StartAgain, vars
<1>9. CASE Lock
  <2>1. CASE LockTimeout \/ LockCheck \/ LockStop \/ LockRegistered
    BY <1>1, <2>1 DEF LockTimeout, LockCheck, LockStop, LockRegistered, Stop,
                      StartAgain, vars
  <2>2. CASE LockRegister
    BY <1>0, <1>4, <2>2 DEF LockRegister, SlotInv, Flags
  <2>3. CASE LockYield
    BY <1>3, <2>3 DEF LockYield
  <2> QED
    BY <1>9, <2>1, <2>2, <2>3 DEF Lock
<1>10. CASE Unlock
  <2>1. CASE UnlockStop \/ UnlockStart
    BY <1>1, <2>1 DEF UnlockStop, UnlockStart, Stop, StartAgain, vars
  <2>2. CASE UnlockRelease
    <3>1. CASE UNCHANGED << flags, waitthread >>
      BY <1>1, <2>2, <3>1 DEF UnlockRelease
    <3>2. CASE /\ waitthread >= 0
               /\ flags' = [flags EXCEPT ![waitthread] = "RUNNING"]
               /\ waitthread' = WaiterAfterUnlock
      <4>1. waitthread \in Ids /\ flags[waitthread] # "NULL"
        BY <1>0, <3>2 DEF SlotInv
      <4> QED
        BY <1>4, <2>2, <3>2, <4>1 DEF UnlockRelease, WaiterAfterUnlock, Flags
    <3> QED
      BY <2>2, <3>1, <3>2 DEF UnlockRelease
  <2>3. CASE UnlockWake
    BY <1>2, <2>3 DEF UnlockWake
  <2> QED
    BY <1>10, <2>1, <2>2, <2>3 DEF Unlock
<1>11. CASE UNCHANGED allVars
  BY <1>1, <1>11 DEF allVars, vars
<1> QED
  BY <1>5, <1>6, <1>7, <1>8, <1>9, <1>10, <1>11 DEF MutexNext

\* Only the constructor and the destructor of a Suspend object change scopes.
LEMMA ScopesKept ==
    ASSUME [MutexNext]_allVars, ~ (EnvironmentStep /\ (EnterScope \/ LeaveScope))
    PROVE  scopes' = scopes
<1> USE DEF taskVars
<1>1. TrapYield => scopes' = scopes
  BY DEF TrapYield, SwitchContext
<1>2. CASE EnvironmentStep \/ TimerTick
  BY <1>1, <1>2 DEF EnvironmentStep, TimerTick, OtherCall, Tick, AddThread, Yield,
                    Kill, SetFlags
<1>3. CASE TryLockCall \/ LockCall \/ UnlockCall \/ TryLock
  BY <1>3 DEF TryLockCall, LockCall, UnlockCall, TryLock, TryStop, TryTest, TrySet,
              TryGot, TryMiss, Stop, StartAgain, vars
<1>4. CASE Lock
  BY <1>1, <1>4 DEF Lock, LockTimeout, LockCheck, LockStop, LockRegister,
                    LockRegistered, LockYield, Stop, StartAgain, vars
<1>5. CASE Unlock
  BY <1>5 DEF Unlock, UnlockStop, UnlockRelease, UnlockStart, UnlockWake,
              SwitchContext, Stop, StartAgain, vars
<1>6. CASE UNCHANGED allVars
  BY <1>6 DEF allVars, vars
<1> QED
  BY <1>2, <1>3, <1>4, <1>5, <1>6 DEF MutexNext

\* The scope that is opened saves a state as the invariant wants it ...
LEMMA EnterScopes ==
    ASSUME MutexTypeOK, OnInv, EnvironmentStep, EnterScope
    PROVE  /\ ScopesInv' /\ scopes'[cpu] # <<>>
           /\ \A t \in Tasks : scopes'[t] # <<>> /\ scopes'[t][1] = "FIRST_RUN" => FirstRunAhead
<1> DEFINE s == scopes[cpu]
           a == Append(s, currentActive)
<1>1. s \in Seq(Active) /\ currentActive \in Active /\ cpu \in Tasks
  BY DEF MutexTypeOK, TypeOK
<1>2. /\ Len(a) = Len(s) + 1 /\ a[Len(s) + 1] = currentActive
      /\ \A k \in 1 .. Len(s) : a[k] = s[k]
      /\ Len(s) \in Nat /\ (s = <<>> <=> Len(s) = 0)
  BY <1>1, AppendProperties
<1>3. \A t \in Tasks : scopes'[t] = IF t = cpu THEN a ELSE scopes[t]
  BY DEF EnterScope, MutexTypeOK, TypeOK
<1>4. s = <<>> => currentActive \in On
  BY DEF EnvironmentStep, OnInv, StateInv, Outside, Stopped
<1>5. currentActive = "FIRST_RUN" => cpu = 0
  BY SlotsFilled DEF FirstRunAhead, OnInv
<1>6. currentActive = "FIRST_RUN" => s = <<>>
  BY DEF OnInv, StateInv
<1> HIDE DEF a, s
<1>7. /\ a # <<>> /\ a[1] \in On
      /\ a[1] = "FIRST_RUN" => cpu = 0 /\ FirstRunAhead
  <2>0. a # <<>>
    BY <1>1, AppendProperties DEF a, s
  <2>1. CASE s = <<>>
    BY <1>2, <1>4, <1>5, <2>0, <2>1 DEF FirstRunAhead
  <2>2. CASE s # <<>>
    <3>1. 1 \in 1 .. Len(s)
      BY <1>2, <2>2
    <3> QED
      BY <1>1, <1>2, <2>0, <2>2, <3>1 DEF OnInv, ScopesInv, FirstRunAhead, s
  <2> QED
    BY <2>1, <2>2
<1>8. ASSUME NEW k \in 2 .. Len(a)
      PROVE  a[k] # "FIRST_RUN"
  <2>1. CASE k = Len(s) + 1
    <3>1. s # <<>>
      BY <1>2, <1>8, <2>1
    <3> QED
      BY <1>2, <1>6, <2>1, <3>1
  <2>2. CASE k # Len(s) + 1
    <3>1. k \in 2 .. Len(s) /\ k \in 1 .. Len(s)
      BY <1>2, <1>8, <2>2
    <3> QED
      BY <1>1, <1>2, <3>1 DEF OnInv, ScopesInv, s
  <2> QED
    BY <2>1, <2>2
<1>9. ScopesInv'
  BY <1>1, <1>3, <1>7, <1>8 DEF OnInv, ScopesInv
<1> QED
  BY <1>1, <1>3, <1>7, <1>9 DEF FirstRunAhead

\* ... and the one that is closed leaves the others as they were.
LEMMA LeaveScopes ==
    ASSUME MutexTypeOK, OnInv, EnvironmentStep, LeaveScope
    PROVE  /\ ScopesInv'
           /\ \A t \in Tasks : scopes'[t] # <<>> => scopes[t] # <<>> /\ scopes'[t][1] = scopes[t][1]
           /\ IF scopes'[cpu] = <<>> THEN currentActive' = scopes[cpu][1]
              ELSE currentActive' # "FIRST_RUN"
<1> DEFINE s == scopes[cpu]
           r == SubSeq(s, 1, Len(s) - 1)
<1>1. s \in Seq(Active) /\ s # <<>> /\ cpu \in Tasks
  BY DEF LeaveScope, MutexTypeOK, TypeOK
<1>2. /\ r \in Seq(Active) /\ Len(r) = Len(s) - 1
      /\ \A k \in 1 .. Len(r) : r[k] = s[k]
      /\ Len(s) \in Nat /\ Len(s) >= 1
  BY <1>1
<1>3. \A t \in Tasks : scopes'[t] = IF t = cpu THEN r ELSE scopes[t]
  BY DEF LeaveScope, MutexTypeOK, TypeOK
<1>4. currentActive' = s[Len(s)]
  BY DEF LeaveScope
<1> HIDE DEF r, s
<1>5. r = <<>> <=> Len(r) = 0
  BY <1>2, EmptySeq
<1>6. r # <<>> => r[1] = s[1]
  BY <1>2, <1>5
<1>7. \A k \in 2 .. Len(s) : s[k] # "FIRST_RUN"
  BY <1>1 DEF OnInv, ScopesInv, s
<1>8. \A k \in 2 .. Len(r) : r[k] # "FIRST_RUN"
  <2>1. ASSUME NEW k \in 2 .. Len(r)
        PROVE  k \in 2 .. Len(s) /\ k \in 1 .. Len(r)
    BY <1>2
  <2> QED
    BY <1>2, <1>7, <2>1
<1>9. IF r = <<>> THEN currentActive' = s[1] ELSE currentActive' # "FIRST_RUN"
  <2>1. CASE r = <<>>
    <3>1. Len(s) = 1
      BY <1>2, <1>5, <2>1
    <3> QED
      BY <1>4, <2>1, <3>1
  <2>2. CASE r # <<>>
    <3>1. Len(s) \in 2 .. Len(s)
      BY <1>2, <1>5, <2>2
    <3> QED
      BY <1>4, <1>7, <2>2, <3>1
  <2> QED
    BY <2>1, <2>2
<1>10. \A t \in Tasks : scopes'[t] # <<>> => scopes[t] # <<>> /\ scopes'[t][1] = scopes[t][1]
  BY <1>1, <1>3, <1>6 DEF s
<1>11. ScopesInv'
  BY <1>3, <1>8, <1>10 DEF OnInv, ScopesInv
<1> QED
  BY <1>1, <1>3, <1>9, <1>10, <1>11 DEF s

LEMMA ScopesStep ==
    ASSUME MutexTypeOK, OnInv, [MutexNext]_allVars
    PROVE  ScopesInv'
<1>1. CASE EnvironmentStep /\ EnterScope
  BY <1>1, EnterScopes
<1>2. CASE EnvironmentStep /\ LeaveScope
  BY <1>2, LeaveScopes
<1>3. CASE scopes' = scopes
  BY <1>3 DEF OnInv, ScopesInv
<1> QED
  BY <1>1, <1>2, <1>3, ScopesKept

\* A step that leaves the scopes, the processor and the threading state alone,
\* outside the code between stop() and start().
LEMMA QuietState ==
    ASSUME MutexTypeOK, StateInv, UNCHANGED << scopes, cpu, currentActive, saved >>,
           NEW to \in PCs \ Stopped, GoTo(to), mpc[cpu] \notin Stopped
    PROVE  StateInv' /\ (FirstRunAhead' => FirstRunAhead)
<1>1. cpu \in Tasks /\ \A t \in Tasks : mpc'[t] = IF t = cpu THEN to ELSE mpc[t]
  BY DEF GoTo, MutexTypeOK, TypeOK
<1> QED
  BY <1>1 DEF StateInv, FirstRunAhead

\* stop() keeps the state it finds, start() restores it, and the steps between
\* them leave both alone.
LEMMA StopState ==
    ASSUME MutexTypeOK, MutexInv, StateInv, Stop, NEW to \in Stopped, GoTo(to),
           mpc[cpu] \notin Stopped
    PROVE  StateInv' /\ (FirstRunAhead' => FirstRunAhead)
<1>1. /\ cpu \in Tasks
      /\ \A t \in Tasks : mpc'[t] = IF t = cpu THEN to ELSE mpc[t]
      /\ \A t \in Tasks : saved'[t] = IF t = cpu THEN currentActive ELSE saved[t]
  BY DEF GoTo, Stop, MutexTypeOK, TypeOK
<1>2. cpu' = cpu /\ scopes' = scopes /\ currentActive' = "STOPPED"
  BY DEF Stop, cpuVars, taskVars
<1>3. \A t \in Tasks : t # cpu => mpc[t] \notin Stopped
  BY DEF MutexInv
<1>4. IF scopes[cpu] = <<>> THEN currentActive \in On ELSE currentActive # "FIRST_RUN"
  BY DEF StateInv
<1>5. StateInv'
  BY <1>1, <1>2, <1>3, <1>4 DEF StateInv
<1>6. FirstRunAhead' => FirstRunAhead
  BY <1>1, <1>2, <1>3 DEF FirstRunAhead
<1> QED
  BY <1>5, <1>6

LEMMA InsideState ==
    ASSUME MutexTypeOK, StateInv, UNCHANGED << scopes, cpu, currentActive, saved >>,
           NEW to \in Stopped, GoTo(to), mpc[cpu] \in Stopped
    PROVE  StateInv' /\ (FirstRunAhead' => FirstRunAhead)
<1>1. cpu \in Tasks /\ \A t \in Tasks : mpc'[t] = IF t = cpu THEN to ELSE mpc[t]
  BY DEF GoTo, MutexTypeOK, TypeOK
<1> QED
  BY <1>1 DEF StateInv, FirstRunAhead

LEMMA StartState ==
    ASSUME MutexTypeOK, MutexInv, StateInv, StartAgain, NEW to \in PCs \ Stopped,
           GoTo(to), mpc[cpu] \in Stopped
    PROVE  StateInv' /\ (FirstRunAhead' => FirstRunAhead)
<1>1. cpu \in Tasks /\ \A t \in Tasks : mpc'[t] = IF t = cpu THEN to ELSE mpc[t]
  BY DEF GoTo, MutexTypeOK, TypeOK
<1>2. cpu' = cpu /\ scopes' = scopes /\ saved' = saved /\ currentActive' = saved[cpu]
  BY DEF StartAgain, cpuVars, taskVars
<1>3. \A t \in Tasks : mpc'[t] \notin Stopped
  BY <1>1 DEF MutexInv
<1>4. IF scopes[cpu] = <<>> THEN saved[cpu] \in On ELSE saved[cpu] # "FIRST_RUN"
  BY <1>1 DEF StateInv
<1> QED
  BY <1>1, <1>2, <1>3, <1>4 DEF StateInv, FirstRunAhead

\* A switch lands on a system that is STARTED: nobody is between stop() and
\* start() but the caller of yield_and_start, who is done.
LEMMA SwitchState ==
    ASSUME MutexTypeOK, MutexInv, StateInv, SwitchContext, currentActive' = "STARTED",
           saved' = saved, \A t \in Tasks : mpc'[t] \notin Stopped
    PROVE  StateInv' /\ (FirstRunAhead' => FirstRunAhead)
<1>1. scopes' = scopes
  BY DEF SwitchContext, taskVars
<1> QED
  BY <1>1 DEF StateInv, FirstRunAhead, On

LEMMA TrapYieldState ==
    ASSUME MutexTypeOK, MutexInv, StateInv, TrapYield, UNCHANGED << currentActive, saved >>,
           \A t \in Tasks : mpc'[t] \in Stopped <=> mpc[t] \in Stopped
    PROVE  StateInv' /\ (FirstRunAhead' => FirstRunAhead)
<1>0. cpu \in Tasks
  BY DEF MutexTypeOK, TypeOK
<1>1. CASE currentActive = "STARTED" /\ SwitchContext
  <2>1. \A t \in Tasks : mpc'[t] \notin Stopped
    BY <1>1 DEF MutexInv
  <2> QED
    BY <1>1, <2>1, SwitchState
<1>2. CASE UNCHANGED << cpuVars, taskVars >>
  BY <1>0, <1>2 DEF cpuVars, taskVars, StateInv, FirstRunAhead
<1> QED
  BY <1>1, <1>2 DEF TrapYield

\* What the tasks call outside the mutex.
LEMMA EnvironmentState ==
    ASSUME MutexTypeOK, MutexInv, OnInv, EnvironmentStep,
           "addBeforeStart" \notin Liberties
    PROVE  /\ StateInv' /\ (FirstRunAhead' => FirstRunAhead)
           /\ AddThread => ~ FirstRunAhead'
<1> USE DEF tableVars, cpuVars, taskVars
<1>0. /\ cpu \in Tasks /\ currentActive \in Active
      /\ mpc' = mpc /\ saved' = saved
      /\ \A t \in Tasks : mpc[t] \notin Stopped
  BY DEF MutexTypeOK, TypeOK, EnvironmentStep, mutexVars, MutexInv, Outside, Stopped
<1>1. ASSUME AddThread
      PROVE  StateInv' /\ ~ FirstRunAhead'
  <2>1. UNCHANGED << scopes, cpu >>
    BY <1>1 DEF AddThread
  <2>2. currentActive = "FIRST_RUN" => cpu = 0 /\ Alone
    BY SlotsFilled DEF OnInv, FirstRunAhead
  <2>3. currentActive = "FIRST_RUN" => Free # {}
    <3>1. 1 \in Ids \ {0}
      BY ThreadsAssumption DEF Ids
    <3> QED
      BY <2>2, <3>1 DEF Alone, Free
  <2>4. /\ currentActive' # "FIRST_RUN"
        /\ currentActive \in On => currentActive' = "STARTED"
    BY <1>1, <2>3 DEF AddThread, AfterAdd, AfterFullTable, On
  <2>5. \A t \in Tasks : ~ (scopes[t] # <<>> /\ scopes[t][1] = "FIRST_RUN")
    <3> SUFFICES ASSUME NEW t \in Tasks, scopes[t] # <<>>, scopes[t][1] = "FIRST_RUN"
                 PROVE  FALSE
      OBVIOUS
    <3>1. t = 0 /\ cpu = 0
      BY SlotsFilled DEF OnInv, ScopesInv, FirstRunAhead
    <3> QED
      BY <1>1, <3>1 DEF AddThread, AddAllowed
  <2> QED
    BY <1>0, <2>1, <2>4, <2>5 DEF OnInv, StateInv, FirstRunAhead, On
<1>2. CASE Yield
  BY <1>0, <1>1, <1>2, TrapYieldState DEF Yield, OnInv
<1>3. ASSUME NEW id \in Ids, Kill(id)
      PROVE  StateInv' /\ (FirstRunAhead' => FirstRunAhead)
  <2>1. UNCHANGED << scopes, cpu, currentActive >>
    BY <1>3 DEF Kill, SetFlags
  <2> QED
    BY <1>0, <2>1 DEF OnInv, StateInv, FirstRunAhead
<1>4. CASE EnterScope
  <2>1. scopes'[cpu] # <<>> /\ cpu' = cpu /\ currentActive' = "ZERO"
    BY <1>0, <1>4, EnterScopes DEF EnterScope
  <2>2. \A t \in Tasks : scopes'[t] # <<>> /\ scopes'[t][1] = "FIRST_RUN" => FirstRunAhead
    BY <1>4, EnterScopes
  <2>3. StateInv'
    BY <1>0, <2>1 DEF StateInv
  <2>4. FirstRunAhead' => FirstRunAhead
    <3> SUFFICES ASSUME FirstRunAhead'
                 PROVE  \E t \in Tasks : scopes'[t] # <<>> /\ scopes'[t][1] = "FIRST_RUN"
      BY <2>2
    <3> QED
      BY <1>0, <2>1 DEF FirstRunAhead
  <2> QED
    BY <1>1, <2>3, <2>4
<1>5. CASE LeaveScope
  <2>1. /\ \A t \in Tasks : scopes'[t] # <<>> =>
                               scopes[t] # <<>> /\ scopes'[t][1] = scopes[t][1]
        /\ IF scopes'[cpu] = <<>> THEN currentActive' = scopes[cpu][1]
           ELSE currentActive' # "FIRST_RUN"
    BY <1>5, LeaveScopes
  <2>2. cpu' = cpu /\ scopes[cpu] # <<>> /\ scopes[cpu][1] \in On
    BY <1>0, <1>5 DEF LeaveScope, OnInv, ScopesInv
  <2>3. StateInv'
    BY <1>0, <2>1, <2>2 DEF StateInv
  <2>4. FirstRunAhead' => FirstRunAhead
    BY <1>0, <2>1, <2>2 DEF FirstRunAhead
  <2> QED
    BY <1>1, <2>3, <2>4
<1> QED
  BY <1>1, <1>2, <1>3, <1>4, <1>5 DEF EnvironmentStep, OtherCall

LEMMA StateStep ==
    ASSUME MutexTypeOK, MutexInv, OnInv, [MutexNext]_allVars,
           "addBeforeStart" \notin Liberties
    PROVE  /\ StateInv' /\ (FirstRunAhead' => FirstRunAhead)
           /\ EnvironmentStep /\ AddThread => ~ FirstRunAhead'
<1> DEFINE Keeps == StateInv' /\ (FirstRunAhead' => FirstRunAhead)
<1> USE DEF Stopped, Outside, Locking, PCs
<1>0. StateInv /\ cpu \in Tasks /\ mpc \in [Tasks -> PCs]
  BY DEF OnInv, MutexTypeOK, TypeOK
<1>1. ASSUME EnvironmentStep
      PROVE  Keeps
  BY <1>1, EnvironmentState
<1>2. ASSUME TimerTick
      PROVE  Keeps
  <2>1. UNCHANGED << currentActive, saved, mpc >>
    BY <1>2 DEF TimerTick, Tick, mutexVars
  <2>2. CASE TrapYield
    BY <1>0, <2>1, <2>2, TrapYieldState
  <2>3. CASE ~ TrapYield
    <3>1. UNCHANGED << cpu, scopes >>
      BY <1>2, <2>3 DEF TimerTick, Tick, taskVars
    <3> QED
      BY <1>0, <2>1, <3>1 DEF StateInv, FirstRunAhead
  <2> QED
    BY <2>2, <2>3
<1>3. ASSUME TryLockCall \/ LockCall \/ UnlockCall \/ LockTimeout \/ LockCheck
      PROVE  Keeps
  <2>1. PICK to \in {"try", "unlock", "out", "check", "suspend", "yield"} : GoTo(to)
    BY <1>3 DEF TryLockCall, LockCall, UnlockCall, LockTimeout, LockCheck
  <2>2. /\ UNCHANGED << scopes, cpu, currentActive, saved >>
        /\ mpc[cpu] \in {"out", "timeout", "check"}
    BY <1>3 DEF TryLockCall, LockCall, UnlockCall, LockTimeout, LockCheck, At, vars
  <2> QED
    BY <1>0, <2>1, <2>2, QuietState
<1>4. ASSUME TryStop \/ LockStop \/ UnlockStop
      PROVE  Keeps
  <2>1. PICK to \in {"test", "register", "release"} : GoTo(to)
    BY <1>4 DEF TryStop, LockStop, UnlockStop
  <2>2. Stop /\ mpc[cpu] \in {"try", "suspend", "unlock"}
    BY <1>4 DEF TryStop, LockStop, UnlockStop, At
  <2> QED
    BY <1>0, <2>1, <2>2, StopState
<1>5. ASSUME TryTest \/ TrySet \/ LockRegister \/ UnlockRelease
      PROVE  Keeps
  <2>1. PICK to \in {"set", "miss", "got", "registered", "wake", "released"} : GoTo(to)
    BY <1>5 DEF TryTest, TrySet, LockRegister, UnlockRelease
  <2>2. /\ UNCHANGED << scopes, cpu, currentActive, saved >>
        /\ mpc[cpu] \in {"test", "set", "register", "release"}
    BY <1>5 DEF TryTest, TrySet, LockRegister, UnlockRelease, At, vars, cpuVars, taskVars
  <2> QED
    BY <1>0, <2>1, <2>2, InsideState
<1>6. ASSUME TryGot \/ TryMiss \/ LockRegistered \/ UnlockStart
      PROVE  Keeps
  <2>1. PICK to \in {"out", "try", "timeout", "yield"} : GoTo(to)
    BY <1>6 DEF TryGot, TryMiss, LockRegistered, UnlockStart, MutexTypeOK, TypeOK
  <2>2. StartAgain /\ mpc[cpu] \in {"got", "miss", "registered", "released"}
    BY <1>6 DEF TryGot, TryMiss, LockRegistered, UnlockStart, At
  <2> QED
    BY <1>0, <2>1, <2>2, StartState
<1>7. ASSUME LockYield
      PROVE  Keeps
  <2>1. /\ TrapYield /\ UNCHANGED << currentActive, saved >>
        /\ mpc[cpu] = "yield" /\ mpc' = [mpc EXCEPT ![cpu] = "try"]
    BY <1>7 DEF LockYield, At, GoTo
  <2>2. \A t \in Tasks : mpc'[t] \in Stopped <=> mpc[t] \in Stopped
    BY <1>0, <2>1
  <2> QED
    BY <1>0, <2>1, <2>2, TrapYieldState
<1>8. ASSUME UnlockWake
      PROVE  Keeps
  <2>1. /\ SwitchContext /\ currentActive' = "STARTED" /\ saved' = saved
        /\ mpc[cpu] = "wake" /\ mpc' = [mpc EXCEPT ![cpu] = "out"]
    BY <1>8 DEF UnlockWake, At, GoTo
  <2>2. \A t \in Tasks : mpc'[t] \notin Stopped
    BY <1>0, <2>1 DEF MutexInv
  <2> QED
    BY <1>0, <2>1, <2>2, SwitchState
<1>9. ASSUME UNCHANGED allVars
      PROVE  Keeps
  BY <1>0, <1>9 DEF allVars, vars, mutexVars, StateInv, FirstRunAhead
<1>10. Keeps
  BY <1>1, <1>2, <1>3, <1>4, <1>5, <1>6, <1>7, <1>8, <1>9
     DEF MutexNext, TryLock, Lock, Unlock
<1> QED
  BY <1>10, EnvironmentState

LEMMA OnStep ==
    ASSUME MutexTypeOK, MutexInv, OnInv, [MutexNext]_allVars,
           "addBeforeStart" \notin Liberties
    PROVE  OnInv'
BY ScopesStep, StateStep, SlotStep DEF OnInv

LEMMA OnInit == MutexInit => OnInv
<1> SUFFICES ASSUME MutexInit PROVE OnInv
  OBVIOUS
<1>1. 0 \in Ids /\ 0 \in Tasks
  BY ThreadsAssumption DEF Ids, Tasks
<1>2. ScopesInv
  BY DEF MutexInit, Init, ScopesInv
<1>3. StateInv
  BY <1>1 DEF MutexInit, Init, StateInv, On, Stopped
<1>4. SlotInv
  BY <1>1 DEF MutexInit, Init, SlotInv
<1>5. Alone
  BY DEF MutexInit, Init, Alone
<1> QED
  BY <1>2, <1>3, <1>4, <1>5 DEF OnInv

\* The code between stop() and start() keeps the processor, and outside of it
\* and of the Suspend scopes threading is on: no order of locks, unlocks in a
\* scope, nested scopes and full tables leaves it stopped, unless the first
\* thread was added inside a scope (see NeverStuck).
THEOREM StopsAreBalanced ==
    "addBeforeStart" \notin Liberties => (MutexSpec => []StopsBalanced)
<1> SUFFICES ASSUME "addBeforeStart" \notin Liberties
             PROVE  MutexSpec => []StopsBalanced
  OBVIOUS
<1>1. MutexInit => MutexInv
  BY DEF MutexInit, MutexInv, MutualExclusion, Stopped
<1>2. MutexTypeOK /\ MutexInv /\ OnInv /\ [MutexNext]_allVars => MutexInv' /\ OnInv'
  BY MutexStep, OnStep
<1>3. MutexInv /\ OnInv => StopsBalanced
  BY DEF MutexInv, OnInv, StateInv, StopsBalanced, On
<1> QED
  BY <1>1, <1>2, <1>3, OnInit, MutexTypeCorrect, PTL DEF MutexSpec
===============================================================================
