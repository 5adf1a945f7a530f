---------------------------- MODULE Threads_proofs ----------------------------
(***************************************************************************)
(* Proofs about the scheduler, for every number of slots, slice length,    *)
(* number of added threads and nesting depth.                              *)
(***************************************************************************)
EXTENDS Threads, TLAPS, NaturalsInduction, WellFoundedInduction,
        SequenceTheorems

-----------------------------------------------------------------------------
(* The search of getNextThread. *)

\* A set of naturals that is not empty has a least element.
LEMMA LeastNat ==
    ASSUME NEW S \in SUBSET Nat, S # {}
    PROVE  \E i \in S : \A j \in S : i <= j
<1>1. PICK i \in S : \A j \in S : <<j, i>> \notin OpToRel(<, Nat)
  BY WFMin, NatLessThanWellFounded, Zenon
<1>2. \A j \in S : ~ (j < i)
  BY <1>1, Zenon DEF OpToRel
<1> QED
  BY <1>2

\* The search returns slot 0 or the first RUNNING slot after the current one,
\* so that the switch never lands on a slot that ended or is suspended.
LEMMA NextThreadRunnable ==
    ASSUME NEW fl, NEW from \in Ids
    PROVE  /\ NextThread(fl, from) \in Ids
           /\ NextThread(fl, from) # 0 => fl[NextThread(fl, from)] = "RUNNING"
<1>1. 0 \in Ids /\ Ids \subseteq Nat
  BY ThreadsAssumption DEF Ids
<1>2. CASE RunnableAfter(fl, from) = {}
  BY <1>1, <1>2 DEF NextThread
<1>3. CASE RunnableAfter(fl, from) # {}
  <2> DEFINE S == RunnableAfter(fl, from)
  <2>1. S \in SUBSET Nat
    BY <1>1 DEF RunnableAfter
  <2>2. \E i \in S : \A j \in S : i <= j
    BY <2>1, <1>3, LeastNat
  <2>3. NextThread(fl, from) \in S
    BY <2>2, <1>3 DEF NextThread
  <2> QED
    BY <2>3 DEF RunnableAfter
<1> QED
  BY <1>2, <1>3

-----------------------------------------------------------------------------
(* Type correctness. *)

\* A switch keeps the types of what it changes.
LEMMA SwitchContextTypes ==
    ASSUME TypeOK, SwitchContext
    PROVE  /\ flags' \in [Ids -> Flags]
           /\ sp' \in [Ids -> Tasks]
           /\ current_thread' \in Ids
           /\ cpu' \in Tasks
           /\ currentCount' \in 0 .. TickMod - 1
           /\ UNCHANGED << ticks, loaded, nextTask, taskVars >>
<1>1. flags' \in [Ids -> Flags] /\ sp' \in [Ids -> Tasks]
  BY DEF TypeOK, SwitchContext, Flags
<1>2. current_thread' \in Ids
  BY NextThreadRunnable DEF TypeOK, SwitchContext
<1> QED
  BY <1>1, <1>2 DEF TypeOK, SwitchContext

LEMMA TrapYieldTypes ==
    ASSUME TypeOK, TrapYield, UNCHANGED currentActive
    PROVE  TypeOK'
<1>1. CASE SwitchContext
  BY <1>1, SwitchContextTypes DEF TypeOK, taskVars
<1>2. CASE UNCHANGED << tableVars, cpuVars, taskVars >>
  BY <1>2 DEF TypeOK, tableVars, cpuVars, taskVars
<1> QED
  BY <1>1, <1>2 DEF TrapYield

LEMMA InitTypes == Init => TypeOK
<1> SUFFICES ASSUME Init PROVE TypeOK
  OBVIOUS
<1>1. 0 \in Ids /\ 0 \in Tasks /\ NoWait \in Waits
  BY ThreadsAssumption DEF Ids, Tasks, Waits
<1>2. 1 \in 1 .. MaxAdds + 1
  BY ThreadsAssumption
<1>3. scopes \in [Tasks -> Seq(Active)]
  BY DEF Init
<1> QED
  BY <1>1, <1>2, <1>3, ThreadsAssumption DEF Init, TypeOK, Flags, Active

LEMMA TypeStep ==
    ASSUME TypeOK, [Next]_vars
    PROVE  TypeOK'
<1> USE DEF tableVars, cpuVars, taskVars
<1>1. CASE Tick
  <2>1. CASE currentCount = 0 /\ TrapYield
    BY <1>1, <2>1, TrapYieldTypes DEF Tick
  <2>2. CASE currentCount # 0 /\ UNCHANGED << tableVars, current_thread, cpu, taskVars >>
             /\ currentCount' = currentCount - 1
    BY <1>1, <2>2, ThreadsAssumption DEF Tick, TypeOK
  <2> QED
    BY <1>1, <2>1, <2>2 DEF Tick
<1>2. CASE AddThread
  <2>1. currentActive' \in Active
    BY <1>2 DEF AddThread, AfterAdd, AfterFullTable, TypeOK, Active
  <2>2. CASE nextTask <= MaxAdds
    <3>1. nextTask \in Tasks /\ nextTask + 1 \in 1 .. MaxAdds + 1
      BY <2>2, ThreadsAssumption DEF TypeOK, Tasks
    <3>2. CASE /\ \E i \in Free :
                    /\ loaded' = [loaded EXCEPT ![i] = nextTask]
                    /\ sp' = [sp EXCEPT ![i] = nextTask]
                    /\ ticks' = [ticks EXCEPT ![i] = DEFAULT_TICKS]
                    /\ flags' = [flags EXCEPT ![i] = "RUNNING"]
               /\ nextTask' = nextTask + 1
               /\ UNCHANGED << cpuVars, taskVars >>
      <4>1. PICK i \in Free :
              /\ loaded' = [loaded EXCEPT ![i] = nextTask]
              /\ sp' = [sp EXCEPT ![i] = nextTask]
              /\ ticks' = [ticks EXCEPT ![i] = DEFAULT_TICKS]
              /\ flags' = [flags EXCEPT ![i] = "RUNNING"]
        BY <3>2
      <4>2. i \in Ids /\ DEFAULT_TICKS \in 0 .. TickMod - 1
        BY ThreadsAssumption DEF Free
      <4>3. /\ loaded' \in [Ids -> Tasks] /\ sp' \in [Ids -> Tasks]
            /\ ticks' \in [Ids -> 0 .. TickMod - 1]
            /\ flags' \in [Ids -> Flags]
        BY <4>1, <4>2, <3>1 DEF TypeOK, Flags
      <4> QED
        BY <4>3, <3>1, <3>2, <2>1 DEF TypeOK
    <3>3. CASE UNCHANGED << tableVars, cpuVars, taskVars >>
      BY <2>1, <3>3 DEF TypeOK
    <3> QED
      BY <1>2, <3>2, <3>3 DEF AddThread
  <2>3. CASE ~ (nextTask <= MaxAdds)
    BY <1>2, <2>1, <2>3 DEF AddThread, TypeOK
  <2> QED
    BY <2>2, <2>3
<1>3. ASSUME NEW id \in Ids, NEW st \in Flags, SetFlags(id, st)
      PROVE  TypeOK'
  BY <1>3 DEF SetFlags, TypeOK
<1>4. ASSUME NEW id \in Ids, Kill(id) \/ Suspend(id) \/ Restart(id)
      PROVE  TypeOK'
  BY <1>3, <1>4 DEF Kill, Suspend, Restart, Flags
<1>5. ASSUME NEW id \in Ids, NEW n \in Slices, SetTimeSlice(id, n)
      PROVE  TypeOK'
  <2>1. SliceTicks(n) \in 0 .. TickMod - 1
    BY ThreadsAssumption DEF SliceTicks
  <2> QED
    BY <1>5, <2>1 DEF SetTimeSlice, TypeOK
<1>6. CASE Yield
  BY <1>6, TrapYieldTypes DEF Yield
<1>7. CASE EnterScope
  BY <1>7 DEF EnterScope, TypeOK, Active
<1>8. CASE LeaveScope
  <2>1. scopes[cpu] \in Seq(Active) /\ scopes[cpu] # <<>>
    BY <1>8 DEF LeaveScope, TypeOK
  <2>2. /\ scopes[cpu][Len(scopes[cpu])] \in Active
        /\ SubSeq(scopes[cpu], 1, Len(scopes[cpu]) - 1) \in Seq(Active)
    BY <2>1
  <2> QED
    BY <1>8, <2>2 DEF LeaveScope, TypeOK
<1>9. CASE ThreadReturn
  BY <1>9 DEF ThreadReturn, TypeOK, Flags
<1>10. ASSUME NEW id \in Waited, NEW timed \in BOOLEAN, WaitCall(id, timed)
       PROVE  TypeOK'
  <2>1. [id |-> id, timed |-> timed] \in Waits
    BY ThreadsAssumption DEF Waits, Ids
  <2> QED
    BY <1>10, <2>1 DEF WaitCall, TypeOK
<1>11. CASE Wait
  <2>1. NoWait \in Waits
    BY DEF Waits
  <2>2. CASE WaitReturn
    BY <2>1, <2>2 DEF WaitReturn, TypeOK
  <2>3. CASE WaitYield
    BY <2>3, TrapYieldTypes DEF WaitYield
  <2> QED
    BY <1>11, <2>2, <2>3 DEF Wait
<1>12. CASE UNCHANGED vars
  BY <1>12 DEF vars, TypeOK
<1> QED
  BY <1>1, <1>2, <1>4, <1>5, <1>6, <1>7, <1>8, <1>9, <1>10, <1>11, <1>12
     DEF Next

\* Type correctness: in particular the slices and the tick count stay in the
\* range of the counter, and every saved stack pointer is a task's.
THEOREM TypeCorrect == Spec => []TypeOK
<1>1. TypeOK /\ [Next]_vars => TypeOK'
  BY TypeStep
<1> QED
  BY <1>1, InitTypes, PTL DEF Spec

-----------------------------------------------------------------------------
(* Suspend scopes. *)

\* While a task has a live Suspend object it is the one running and the system
\* is off; what the objects after its first one saved is off as well, so that
\* destroying them leaves the system off.
SectionInv ==
    /\ \A t \in Tasks : scopes[t] # <<>> => t = cpu /\ currentActive \in {"ZERO", "STOPPED"}
    /\ \A t \in Tasks : \A k \in 2 .. Len(scopes[t]) : scopes[t][k] \in {"ZERO", "STOPPED"}

\* The switch only happens with every scope closed.
LEMMA TrapYieldSection ==
    ASSUME TypeOK, SectionInv, TrapYield, UNCHANGED currentActive
    PROVE  SectionInv'
<1>1. CASE currentActive = "STARTED" /\ SwitchContext
  <2>1. scopes' = scopes /\ \A t \in Tasks : scopes[t] = <<>>
    BY <1>1 DEF SwitchContext, taskVars, SectionInv
  <2> QED
    BY <2>1 DEF SectionInv
<1>2. CASE UNCHANGED << tableVars, cpuVars, taskVars >>
  BY <1>2 DEF cpuVars, taskVars, SectionInv
<1> QED
  BY <1>1, <1>2 DEF TrapYield

LEMMA SectionStep ==
    ASSUME TypeOK, SectionInv, [Next]_vars
    PROVE  SectionInv'
<1> USE DEF tableVars, cpuVars, taskVars
<1>1. CASE Tick
  <2>1. CASE TrapYield
    BY <1>1, <2>1, TrapYieldSection DEF Tick
  <2>2. CASE UNCHANGED << tableVars, current_thread, cpu, taskVars >>
    BY <1>1, <2>2 DEF Tick, SectionInv
  <2> QED
    BY <1>1, <2>1, <2>2 DEF Tick
<1>2. CASE AddThread
  <2>1. currentActive \in {"ZERO", "STOPPED"} => currentActive' \in {"ZERO", "STOPPED"}
    BY <1>2 DEF AddThread, AfterAdd, AfterFullTable
  <2> QED
    BY <1>2, <2>1 DEF AddThread, SectionInv
<1>3. ASSUME NEW id \in Ids, Kill(id) \/ Suspend(id) \/ Restart(id)
      PROVE  SectionInv'
  BY <1>3 DEF Kill, Suspend, Restart, SetFlags, SectionInv
<1>4. ASSUME NEW id \in Ids, NEW n \in Slices, SetTimeSlice(id, n)
      PROVE  SectionInv'
  BY <1>4 DEF SetTimeSlice, SectionInv
<1>5. CASE Yield
  BY <1>5, TrapYieldSection DEF Yield
<1>6. CASE EnterScope
  <2> DEFINE s == scopes[cpu]
  <2>1. s \in Seq(Active) /\ currentActive \in Active /\ cpu \in Tasks
    BY DEF TypeOK
  <2>2. Append(s, currentActive) # <<>> /\ Len(Append(s, currentActive)) = Len(s) + 1
    BY <2>1, AppendProperties
  <2>3. ASSUME NEW k \in 2 .. Len(s) + 1
        PROVE  Append(s, currentActive)[k] \in {"ZERO", "STOPPED"}
    <3>1. CASE k = Len(s) + 1
      <4>1. Append(s, currentActive)[k] = currentActive /\ s # <<>>
        BY <2>1, <3>1, AppendProperties
      <4> QED
        BY <2>1, <4>1 DEF SectionInv
    <3>2. CASE k \in 2 .. Len(s)
      <4>1. Append(s, currentActive)[k] = s[k]
        BY <2>1, <3>2, AppendProperties
      <4> QED
        BY <2>1, <3>2, <4>1 DEF SectionInv
    <3> QED
      BY <2>1, <3>1, <3>2
  <2>4. /\ \A t \in Tasks : scopes'[t] = IF t = cpu THEN Append(s, currentActive) ELSE scopes[t]
        /\ cpu' = cpu /\ currentActive' = "ZERO"
    BY <1>6 DEF EnterScope, TypeOK
  <2> QED
    BY <2>1, <2>2, <2>3, <2>4 DEF SectionInv
<1>7. CASE LeaveScope
  <2> DEFINE s == scopes[cpu]
             r == SubSeq(s, 1, Len(s) - 1)
  <2>1. s \in Seq(Active) /\ s # <<>> /\ cpu \in Tasks
    BY <1>7 DEF LeaveScope, TypeOK
  <2>2. /\ r \in Seq(Active) /\ Len(r) = Len(s) - 1
        /\ \A k \in 1 .. Len(r) : r[k] = s[k]
        /\ Len(s) \in 1 .. Len(s)
    BY <2>1
  <2>3. r # <<>> => Len(s) \in 2 .. Len(s)
    BY <2>1, <2>2
  <2>4. \A t \in Tasks : scopes'[t] = IF t = cpu THEN r ELSE scopes[t]
    BY <1>7 DEF LeaveScope, TypeOK
  <2>5. cpu' = cpu /\ currentActive' = s[Len(s)]
    BY <1>7 DEF LeaveScope
  <2>6. \A t \in Tasks : scopes'[t] # <<>> => t = cpu' /\ currentActive' \in {"ZERO", "STOPPED"}
    BY <2>1, <2>3, <2>4, <2>5 DEF SectionInv
  <2>7. \A t \in Tasks : \A k \in 2 .. Len(scopes'[t]) : scopes'[t][k] \in {"ZERO", "STOPPED"}
    <3> SUFFICES ASSUME NEW t \in Tasks, NEW k \in 2 .. Len(scopes'[t])
                 PROVE  scopes'[t][k] \in {"ZERO", "STOPPED"}
      OBVIOUS
    <3>1. CASE t = cpu
      <4> HIDE DEF r
      <4>1. scopes'[t] = r
        BY <2>4, <3>1
      <4>2. k \in 2 .. Len(r)
        BY <4>1
      <4>3. k \in 2 .. Len(s) /\ r[k] = s[k]
        BY <2>2, <4>2
      <4> QED
        BY <2>1, <4>1, <4>3 DEF SectionInv
    <3>2. CASE t # cpu
      BY <2>4, <3>2 DEF SectionInv
    <3> QED
      BY <3>1, <3>2
  <2> QED
    BY <2>6, <2>7 DEF SectionInv
<1>8. CASE ThreadReturn
  BY <1>8 DEF ThreadReturn, SectionInv
<1>9. ASSUME NEW id \in Waited, NEW timed \in BOOLEAN, WaitCall(id, timed)
      PROVE  SectionInv'
  BY <1>9 DEF WaitCall, SectionInv
<1>10. CASE Wait
  BY <1>10, TrapYieldSection DEF Wait, WaitReturn, WaitYield, SectionInv
<1>11. CASE UNCHANGED vars
  BY <1>11 DEF vars, SectionInv
<1> QED
  BY <1>1, <1>2, <1>3, <1>4, <1>5, <1>6, <1>7, <1>8, <1>9, <1>10, <1>11
     DEF Next

\* A live Suspend object keeps the processor for its owner, for any nesting of
\* scopes and any calls made inside them (addThread included).
THEOREM SectionsExclude == Spec => []SectionExclusive
<1>1. Init => SectionInv
  BY DEF Init, SectionInv
<1>2. TypeOK /\ SectionInv /\ [Next]_vars => SectionInv'
  BY SectionStep
<1>3. SectionInv => SectionExclusive
  BY DEF SectionInv, SectionExclusive
<1> QED
  BY <1>1, <1>2, <1>3, TypeCorrect, PTL DEF Spec

-----------------------------------------------------------------------------
(* The contexts of the threads. *)

\* ContextIntact with what its induction needs: tasks are numbered in the
\* order of their creation, slot 0 is main's, and the slot of the running
\* thread becomes free only once its task is past its last call.
ContextInv ==
    /\ ContextIntact
    /\ loaded[0] = 0
    /\ \A i \in Ids : loaded[i] < nextTask
    /\ current_thread \in Free => cpu \in returned

\* After a switch the current slot is 0 or one that is RUNNING.
LEMMA SwitchLandsOnRunnable ==
    ASSUME TypeOK, SwitchContext
    PROVE  /\ current_thread' \in Ids
           /\ current_thread' # 0 => flags'[current_thread'] = "RUNNING"
<1>1. current_thread' = NextThread(flags', current_thread) /\ current_thread \in Ids
  BY DEF TypeOK, SwitchContext
<1> QED
  BY <1>1, NextThreadRunnable

LEMMA SwitchContextContext ==
    ASSUME TypeOK, ContextInv, SwitchContext
    PROVE  ContextInv'
<1> USE DEF taskVars
<1>1. /\ current_thread' \in Ids
      /\ current_thread' # 0 => flags'[current_thread'] = "RUNNING"
  BY SwitchLandsOnRunnable
<1>2. \A i \in Ids : sp'[i] = loaded[i]
  BY DEF TypeOK, SwitchContext, ContextInv, ContextIntact
<1>3. cpu' = loaded[current_thread'] /\ loaded' = loaded /\ nextTask' = nextTask
  BY <1>1, <1>2 DEF SwitchContext
<1>4. current_thread' \notin Free'
  BY <1>1 DEF Free
<1> QED
  BY <1>2, <1>3, <1>4 DEF ContextInv, ContextIntact

LEMMA TrapYieldContext ==
    ASSUME TypeOK, ContextInv, TrapYield
    PROVE  ContextInv'
<1>1. CASE UNCHANGED << tableVars, cpuVars, taskVars >>
  BY <1>1 DEF tableVars, cpuVars, taskVars, ContextInv, ContextIntact, Free
<1> QED
  BY <1>1, SwitchContextContext DEF TrapYield

LEMMA ContextStep ==
    ASSUME TypeOK, ContextInv, "selfKill" \notin Liberties, [Next]_vars
    PROVE  ContextInv'
<1> USE DEF tableVars, cpuVars, taskVars
<1>1. CASE Tick
  BY <1>1, TrapYieldContext DEF Tick, ContextInv, ContextIntact, Free
<1>2. CASE AddThread
  <2>1. CASE UNCHANGED tableVars
    BY <1>2, <2>1 DEF AddThread, ContextInv, ContextIntact, Free
  <2>2. CASE ~ UNCHANGED tableVars
    <3>1. PICK i \in Free :
            /\ loaded' = [loaded EXCEPT ![i] = nextTask]
            /\ sp' = [sp EXCEPT ![i] = nextTask]
            /\ flags' = [flags EXCEPT ![i] = "RUNNING"]
      BY <1>2, <2>2 DEF AddThread
    <3>2. nextTask' = nextTask + 1 /\ UNCHANGED << cpuVars, taskVars >>
      BY <1>2, <2>2 DEF AddThread
    <3>3. current_thread \notin Free
      BY <1>2 DEF AddThread, Calling, ContextInv
    <3>4. i \in Ids /\ i # 0 /\ i # current_thread
      BY <3>1, <3>3 DEF Free
    <3>5. nextTask \in Nat /\ 0 < nextTask /\ \A j \in Ids : loaded[j] \in Int
      BY ThreadsAssumption DEF TypeOK, Tasks
    <3>6. \A j \in Ids : loaded'[j] = IF j = i THEN nextTask ELSE loaded[j]
      BY <3>1, <3>4 DEF TypeOK
    <3>7. \A j \in Ids : sp'[j] = IF j = i THEN nextTask ELSE sp[j]
      BY <3>1, <3>4 DEF TypeOK
    <3>8. 0 \in Ids /\ current_thread \in Ids
      BY ThreadsAssumption DEF TypeOK, Ids
    <3>9. ContextIntact'
      <4>1. cpu' = loaded'[current_thread']
        BY <3>2, <3>4, <3>6, <3>8 DEF ContextInv, ContextIntact
      <4>2. \A j \in Ids : sp'[j] = loaded'[j]
        BY <3>6, <3>7 DEF ContextInv, ContextIntact
      <4>3. \A j, k \in Ids : loaded'[j] = loaded'[k] /\ loaded'[j] # 0 => j = k
        BY <3>5, <3>6 DEF ContextInv, ContextIntact
      <4> QED
        BY <4>1, <4>2, <4>3 DEF ContextIntact
    <3>10. loaded'[0] = 0
      BY <3>4, <3>6, <3>8 DEF ContextInv
    <3>11. \A j \in Ids : loaded'[j] < nextTask'
      BY <3>2, <3>5, <3>6 DEF ContextInv
    <3>12. flags'[current_thread] = flags[current_thread]
      BY <3>1, <3>4, <3>8 DEF TypeOK
    <3> QED
      BY <3>2, <3>3, <3>9, <3>10, <3>11, <3>12 DEF ContextInv, Free
  <2> QED
    BY <2>1, <2>2
<1>3. ASSUME NEW id \in Ids, NEW st \in Flags, SetFlags(id, st),
             st \in {"NULL", "ENDED"} => id # current_thread
      PROVE  ContextInv'
  <2>1. flags' = [flags EXCEPT ![id] = st]
    BY <1>3 DEF SetFlags
  <2>2. current_thread \in Free' => current_thread \in Free
    BY <1>3, <2>1 DEF Free, TypeOK
  <2> QED
    BY <1>3, <2>2 DEF SetFlags, ContextInv, ContextIntact, Free
<1>4. ASSUME NEW id \in Ids, Kill(id) \/ Suspend(id) \/ Restart(id)
      PROVE  ContextInv'
  <2>1. CASE Kill(id)
    BY <1>3, <2>1 DEF Kill, Flags
  <2>2. CASE Suspend(id)
    BY <1>3, <2>2 DEF Suspend, Flags
  <2>3. CASE Restart(id)
    BY <1>3, <2>3 DEF Restart, Flags
  <2> QED
    BY <1>4, <2>1, <2>2, <2>3
<1>5. ASSUME NEW id \in Ids, NEW n \in Slices, SetTimeSlice(id, n)
      PROVE  ContextInv'
  BY <1>5 DEF SetTimeSlice, ContextInv, ContextIntact, Free
<1>6. CASE Yield
  BY <1>6, TrapYieldContext DEF Yield
<1>7. CASE EnterScope
  BY <1>7 DEF EnterScope, ContextInv, ContextIntact, Free
<1>8. CASE LeaveScope
  BY <1>8 DEF LeaveScope, ContextInv, ContextIntact, Free
<1>9. CASE ThreadReturn
  BY <1>9 DEF ThreadReturn, ContextInv, ContextIntact, TypeOK
<1>10. ASSUME NEW id \in Waited, NEW timed \in BOOLEAN, WaitCall(id, timed)
      PROVE  ContextInv'
  BY <1>10 DEF WaitCall, ContextInv, ContextIntact, Free
<1>11. CASE Wait
  BY <1>11, TrapYieldContext DEF Wait, WaitReturn, WaitYield, ContextInv, ContextIntact, Free
<1>12. CASE UNCHANGED vars
  BY <1>12 DEF vars, ContextInv, ContextIntact, Free
<1> QED
  BY <1>1, <1>2, <1>4, <1>5, <1>6, <1>7, <1>8, <1>9, <1>10, <1>11, <1>12
     DEF Next

LEMMA ContextInvariant ==
    "selfKill" \notin Liberties => (Spec => []ContextInv)
<1> SUFFICES ASSUME "selfKill" \notin Liberties
             PROVE  Spec => []ContextInv
  OBVIOUS
<1>1. Init => ContextInv
  BY ThreadsAssumption DEF Init, ContextInv, ContextIntact, Free, Ids
<1>2. TypeOK /\ ContextInv /\ [Next]_vars => ContextInv'
  BY ContextStep
<1> QED
  BY <1>1, <1>2, TypeCorrect, PTL DEF Spec

\* Slot reuse never mixes two threads' code, stacks and slots, as long as no
\* thread kills itself and goes on.
THEOREM ContextsIntact ==
    "selfKill" \notin Liberties => (Spec => []ContextIntact)
<1>1. ContextInv => ContextIntact
  BY DEF ContextInv
<1> QED
  BY <1>1, ContextInvariant, PTL

\* A thread that ended never gets the processor back, if no thread kills
\* itself and no caller suspends or restarts a thread that ended.
THEOREM KilledForGood ==
    Liberties \cap {"selfKill", "revive"} = {} => (Spec => KillIsFinal)
<1> SUFFICES ASSUME Liberties \cap {"selfKill", "revive"} = {}
             PROVE  Spec => KillIsFinal
  OBVIOUS
<1> DEFINE Final == \A t \in Tasks \ {0} :
                       t < nextTask /\ ~Alive(t) => ~Alive(t)' /\ (cpu # t => cpu' # t)
<1>1. TypeOK /\ ContextInv /\ ContextInv' /\ [Next]_vars => [Final]_vars
  <2> SUFFICES ASSUME TypeOK, ContextInv, ContextInv', Next
               PROVE  Final
    BY DEF vars
  <2> SUFFICES ASSUME NEW t \in Tasks \ {0}, t < nextTask, ~Alive(t)
               PROVE  ~Alive(t)' /\ (cpu # t => cpu' # t)
    OBVIOUS
  <2> USE DEF tableVars, cpuVars, taskVars
  <2>1. ASSUME SwitchContext
        PROVE  ~Alive(t)' /\ (cpu # t => cpu' # t)
    <3>1. loaded' = loaded /\ \A i \in Ids : flags'[i] = flags[i] \/ flags'[i] = "ENDED"
      BY <2>1 DEF SwitchContext, TypeOK
    <3>2. ~Alive(t)'
      BY <3>1 DEF Alive
    <3>3. /\ current_thread' \in Ids
          /\ current_thread' # 0 => flags'[current_thread'] = "RUNNING"
      BY <2>1, SwitchLandsOnRunnable
    <3>4. cpu' = loaded'[current_thread'] /\ loaded'[0] = 0
      BY DEF ContextInv, ContextIntact
    <3> QED
      BY <3>2, <3>3, <3>4 DEF Alive
  <2>2. ASSUME UNCHANGED << flags, loaded, cpu >>
        PROVE  ~Alive(t)' /\ (cpu # t => cpu' # t)
    BY <2>2 DEF Alive
  <2>3. ASSUME TrapYield
        PROVE  ~Alive(t)' /\ (cpu # t => cpu' # t)
    BY <2>1, <2>2, <2>3 DEF TrapYield
  <2>4. CASE AddThread
    <3>1. CASE UNCHANGED tableVars
      BY <2>2, <2>4, <3>1 DEF AddThread
    <3>2. CASE ~ UNCHANGED tableVars
      <4>1. PICK i \in Free :
              /\ loaded' = [loaded EXCEPT ![i] = nextTask]
              /\ flags' = [flags EXCEPT ![i] = "RUNNING"]
        BY <2>4, <3>2 DEF AddThread
      <4>2. \A j \in Ids : loaded'[j] = t => j # i /\ loaded[j] = t /\ flags'[j] = flags[j]
        BY <4>1 DEF TypeOK, Tasks, Free
      <4> QED
        BY <2>4, <4>2 DEF AddThread, Alive
    <3> QED
      BY <3>1, <3>2
  <2>5. ASSUME NEW id \in Ids, Kill(id) \/ Suspend(id) \/ Restart(id)
        PROVE  ~Alive(t)' /\ (cpu # t => cpu' # t)
    <3>1. /\ loaded' = loaded /\ cpu' = cpu
          /\ flags[id] # "NULL"
          /\ \A i \in Ids : i # id => flags'[i] = flags[i]
          /\ flags[id] = "ENDED" => flags'[id] = "ENDED"
      BY <2>5 DEF Kill, Suspend, Restart, SetFlags, TypeOK
    <3>2. flags[id] \in {"ENDED", "RUNNING", "SUSPENDED"}
      BY <3>1 DEF TypeOK, Flags
    <3> QED
      BY <3>1, <3>2 DEF Alive
  <2>6. ASSUME NEW id \in Ids, NEW n \in Slices, SetTimeSlice(id, n)
        PROVE  ~Alive(t)' /\ (cpu # t => cpu' # t)
    BY <2>2, <2>6 DEF SetTimeSlice
  <2>7. CASE ThreadReturn
    BY <2>7 DEF ThreadReturn, Alive, TypeOK
  <2>8. ASSUME NEW id \in Waited, NEW timed \in BOOLEAN, WaitCall(id, timed)
        PROVE  ~Alive(t)' /\ (cpu # t => cpu' # t)
    BY <2>2, <2>8 DEF WaitCall
  <2>9. CASE Tick \/ Yield \/ Wait
    BY <2>2, <2>3, <2>9 DEF Tick, Yield, Wait, WaitReturn, WaitYield
  <2>10. CASE EnterScope \/ LeaveScope
    BY <2>2, <2>10 DEF EnterScope, LeaveScope
  <2> QED
    BY <2>4, <2>5, <2>6, <2>7, <2>8, <2>9, <2>10 DEF Next
<1>2. "selfKill" \notin Liberties
  OBVIOUS
<1>3. Spec => []ContextInv
  BY <1>2, ContextInvariant
<1>4. Spec => [][Final]_vars
  BY <1>1, <1>3, TypeCorrect, PTL DEF Spec
<1> QED
  BY <1>4, PTL DEF KillIsFinal

-----------------------------------------------------------------------------
(* The threading state. *)

\* Nothing was added yet: the system is in FIRST_RUN, or a scope will restore it.
BeforeFirst ==
    \/ currentActive = "FIRST_RUN"
    \/ \E t \in Tasks : scopes[t] # <<>> /\ scopes[t][1] = "FIRST_RUN"

\* NeverStuckStopped with what its induction needs: the outermost scope saved
\* a state that is on, and before the first addThread every slot but main's is
\* empty, so that addThread cannot find the table full and leave STOPPED.
StartInv ==
    /\ NeverStuckStopped
    /\ \A t \in Tasks : scopes[t] # <<>> => scopes[t][1] \in {"STARTED", "FIRST_RUN"}
    /\ BeforeFirst => \A i \in Ids \ {0} : flags[i] = "NULL"
    /\ flags[current_thread] # "NULL"
    /\ flags[0] # "NULL"

LEMMA TrapYieldStart ==
    ASSUME TypeOK, SectionInv, StartInv, TrapYield, UNCHANGED currentActive
    PROVE  StartInv'
<1> USE DEF tableVars, cpuVars, taskVars
<1>1. CASE currentActive = "STARTED" /\ SwitchContext
  <2>1. scopes' = scopes /\ \A t \in Tasks : scopes[t] = <<>>
    BY <1>1 DEF SwitchContext, SectionInv
  <2>2. 0 \in Ids /\ \A i \in Ids : flags'[i] = flags[i] \/ flags'[i] = "ENDED"
    BY <1>1, ThreadsAssumption DEF SwitchContext, TypeOK, Ids
  <2>3. /\ current_thread' \in Ids
        /\ current_thread' # 0 => flags'[current_thread'] = "RUNNING"
    BY <1>1, SwitchLandsOnRunnable
  <2> QED
    BY <1>1, <2>1, <2>2, <2>3 DEF StartInv, NeverStuckStopped, BeforeFirst
<1>2. CASE UNCHANGED << tableVars, cpuVars, taskVars >>
  BY <1>2 DEF StartInv, NeverStuckStopped, BeforeFirst
<1> QED
  BY <1>1, <1>2 DEF TrapYield

\* A call that leaves the threading state and the scopes alone, and stores
\* flags only in slots that were filled, preserves the invariant.
LEMMA FlagStoreStart ==
    ASSUME StartInv, UNCHANGED << currentActive, scopes, cpu, current_thread >>,
           \A i \in Ids : flags[i] = "NULL" <=> flags'[i] = "NULL",
           current_thread \in Ids, 0 \in Ids
    PROVE  StartInv'
BY DEF StartInv, NeverStuckStopped, BeforeFirst

LEMMA StartStep ==
    ASSUME TypeOK, SectionInv, StartInv, "addBeforeStart" \notin Liberties,
           [Next]_vars
    PROVE  StartInv'
<1> USE DEF tableVars, cpuVars, taskVars
<1>0. 0 \in Ids /\ 1 \in Ids /\ current_thread \in Ids /\ cpu \in Tasks
  BY ThreadsAssumption DEF TypeOK, Ids
<1>1. CASE Tick
  <2>1. CASE TrapYield
    BY <1>1, <2>1, TrapYieldStart DEF Tick
  <2>2. CASE UNCHANGED << tableVars, current_thread, cpu, taskVars >>
    BY <1>0, <1>1, <2>2, FlagStoreStart DEF Tick
  <2> QED
    BY <1>1, <2>1, <2>2 DEF Tick
<1>2. CASE AddThread
  <2>1. ~ (scopes[cpu] # <<>> /\ scopes[cpu][1] = "FIRST_RUN")
    BY <1>2 DEF AddThread, AddAllowed
  <2>2. \A t \in Tasks : ~ (scopes[t] # <<>> /\ scopes[t][1] = "FIRST_RUN")
    BY <2>1 DEF SectionInv
  <2>3. scopes' = scopes /\ cpu' = cpu /\ current_thread' = current_thread
    BY <1>2 DEF AddThread
  <2>4. CASE Free = {} /\ UNCHANGED tableVars
            /\ currentActive' = AfterFullTable(currentActive)
    <3>1. currentActive # "FIRST_RUN"
      BY <1>0, <2>4 DEF StartInv, BeforeFirst, Free
    <3>2. currentActive' # "FIRST_RUN"
      BY <2>4 DEF AfterFullTable
    <3> QED
      BY <2>2, <2>3, <2>4, <3>1, <3>2
         DEF StartInv, NeverStuckStopped, BeforeFirst, AfterFullTable
  <2>5. CASE /\ \E i \in Free : flags' = [flags EXCEPT ![i] = "RUNNING"]
             /\ currentActive' = AfterAdd(currentActive)
    <3>1. currentActive' # "FIRST_RUN"
      BY <2>5 DEF AfterAdd
    <3>2. flags'[0] # "NULL" /\ flags'[current_thread] # "NULL"
      BY <1>0, <2>5 DEF StartInv, TypeOK, Free
    <3> QED
      BY <2>2, <2>3, <2>5, <3>1, <3>2
         DEF StartInv, NeverStuckStopped, BeforeFirst, AfterAdd
  <2> QED
    BY <1>2, <2>4, <2>5 DEF AddThread
<1>3. ASSUME NEW id \in Ids, Kill(id) \/ Suspend(id) \/ Restart(id)
      PROVE  StartInv'
  <2>1. /\ UNCHANGED << currentActive, scopes, cpu, current_thread >>
        /\ \A i \in Ids : flags[i] = "NULL" <=> flags'[i] = "NULL"
    BY <1>3 DEF Kill, Suspend, Restart, SetFlags, TypeOK
  <2> QED
    BY <1>0, <2>1, FlagStoreStart
<1>4. ASSUME NEW id \in Ids, NEW n \in Slices, SetTimeSlice(id, n)
      PROVE  StartInv'
  BY <1>0, <1>4, FlagStoreStart DEF SetTimeSlice
<1>5. CASE Yield
  BY <1>5, TrapYieldStart DEF Yield
<1>6. CASE EnterScope
  <2> DEFINE s == scopes[cpu]
             a == Append(s, currentActive)
  <2>1. s \in Seq(Active) /\ currentActive \in Active
    BY <1>0 DEF TypeOK
  <2>2. a # <<>> /\ a[1] = IF s = <<>> THEN currentActive ELSE s[1]
    <3>1. CASE s = <<>>
      BY <2>1, <3>1, AppendProperties
    <3>2. CASE s # <<>>
      <4>1. 1 \in 1 .. Len(s)
        BY <2>1, <3>2
      <4> QED
        BY <2>1, <3>2, <4>1, AppendProperties
    <3> QED
      BY <3>1, <3>2
  <2>3. \A t \in Tasks : scopes'[t] = IF t = cpu THEN a ELSE scopes[t]
    BY <1>6 DEF EnterScope, TypeOK
  <2>4. /\ cpu' = cpu /\ currentActive' = "ZERO"
        /\ flags' = flags /\ current_thread' = current_thread
    BY <1>6 DEF EnterScope
  <2>5. \A t \in Tasks : scopes'[t] # <<>> => scopes'[t][1] \in {"STARTED", "FIRST_RUN"}
    BY <1>0, <2>2, <2>3 DEF StartInv, NeverStuckStopped
  <2>6. BeforeFirst' => BeforeFirst
    BY <1>0, <2>2, <2>3, <2>4 DEF BeforeFirst
  <2> QED
    BY <1>0, <2>2, <2>3, <2>4, <2>5, <2>6 DEF StartInv, NeverStuckStopped
<1>7. CASE LeaveScope
  <2> DEFINE s == scopes[cpu]
             r == SubSeq(s, 1, Len(s) - 1)
  <2>1. s \in Seq(Active) /\ s # <<>>
    BY <1>0, <1>7 DEF LeaveScope, TypeOK
  <2>2. /\ r = <<>> => Len(s) = 1
        /\ r # <<>> => r[1] = s[1] /\ Len(s) \in 2 .. Len(s)
    <3>1. /\ r \in Seq(Active) /\ Len(r) = Len(s) - 1
          /\ \A k \in 1 .. Len(r) : r[k] = s[k]
          /\ Len(s) \in Nat /\ Len(s) >= 1
      BY <2>1
    <3> HIDE DEF r, s
    <3>2. r = <<>> <=> Len(r) = 0
      BY <3>1, EmptySeq
    <3> QED
      BY <3>1, <3>2
  <2>3. \A t \in Tasks : scopes'[t] = IF t = cpu THEN r ELSE scopes[t]
    BY <1>7 DEF LeaveScope, TypeOK
  <2>4. /\ cpu' = cpu /\ currentActive' = s[Len(s)]
        /\ flags' = flags /\ current_thread' = current_thread
    BY <1>7 DEF LeaveScope
  <2>5. s[1] \in {"STARTED", "FIRST_RUN"}
    BY <1>0, <2>1 DEF StartInv
  <2>6. r # <<>> => s[Len(s)] \in {"ZERO", "STOPPED"}
    BY <1>0, <2>2 DEF SectionInv
  <2> HIDE DEF r
  <2>7. BeforeFirst' => BeforeFirst
    BY <1>0, <2>1, <2>2, <2>3, <2>4, <2>6 DEF BeforeFirst
  <2>8. \A t \in Tasks : scopes'[t] # <<>> => scopes'[t][1] \in {"STARTED", "FIRST_RUN"}
    BY <2>2, <2>3, <2>5 DEF StartInv
  <2>9. NeverStuckStopped'
    BY <1>0, <2>2, <2>3, <2>4, <2>5 DEF NeverStuckStopped
  <2> QED
    BY <2>4, <2>7, <2>8, <2>9 DEF StartInv
<1>8. CASE ThreadReturn
  <2>1. /\ UNCHANGED << currentActive, scopes, cpu, current_thread >>
        /\ \A i \in Ids : flags[i] = "NULL" <=> flags'[i] = "NULL"
    BY <1>8 DEF ThreadReturn, StartInv, TypeOK
  <2> QED
    BY <1>0, <2>1, FlagStoreStart
<1>9. ASSUME NEW id \in Waited, NEW timed \in BOOLEAN, WaitCall(id, timed)
      PROVE  StartInv'
  BY <1>0, <1>9, FlagStoreStart DEF WaitCall
<1>10. CASE Wait
  <2>1. CASE WaitReturn
    BY <1>0, <2>1, FlagStoreStart DEF WaitReturn
  <2>2. CASE WaitYield
    BY <2>2, TrapYieldStart DEF WaitYield
  <2> QED
    BY <1>10, <2>1, <2>2 DEF Wait
<1>11. CASE UNCHANGED vars
  BY <1>0, <1>11, FlagStoreStart DEF vars
<1> QED
  BY <1>1, <1>2, <1>3, <1>4, <1>5, <1>6, <1>7, <1>8, <1>9, <1>10, <1>11
     DEF Next

\* Outside its Suspend scopes a task never finds threading switched off for
\* good, and FIRST_RUN never keeps a thread waiting, unless the first thread
\* was added inside a scope.
THEOREM NeverStuck ==
    "addBeforeStart" \notin Liberties
        => (Spec => [](NeverStuckStopped /\ FirstRunMeansAlone))
<1> SUFFICES ASSUME "addBeforeStart" \notin Liberties
             PROVE  Spec => [](NeverStuckStopped /\ FirstRunMeansAlone)
  OBVIOUS
<1>1. Init => SectionInv /\ StartInv
  BY ThreadsAssumption
     DEF Init, SectionInv, StartInv, NeverStuckStopped, BeforeFirst, Ids, Tasks
<1>2. TypeOK /\ SectionInv /\ StartInv /\ [Next]_vars => SectionInv' /\ StartInv'
  BY SectionStep, StartStep
<1>3. StartInv => NeverStuckStopped /\ FirstRunMeansAlone
  BY DEF StartInv, BeforeFirst, FirstRunMeansAlone
<1> QED
  BY <1>1, <1>2, <1>3, TypeCorrect, PTL DEF Spec
=============================================================================
