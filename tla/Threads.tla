------------------------------- MODULE Threads -------------------------------
(***************************************************************************)
(* The TeensyThreads scheduler of main/src/TeensyThreads: the slot table   *)
(* threadp, the round-robin context switch driven by the GPT timer and by  *)
(* the yield trap, and the calls a thread makes on it.                     *)
(*                                                                         *)
(* One processor executes one task at a time.  A task is one call of       *)
(* addThread (task 0 is main, running on the MSP); the slot it was given   *)
(* is its thread id and is reused after it ends, so that the code on the   *)
(* processor (cpu), the task a slot was loaded with (loaded) and the task  *)
(* whose stack pointer the slot saves (sp) are three different things.     *)
(*                                                                         *)
(* The code between Threads::stop() and Threads::start() cannot lose the   *)
(* processor, so a call that runs inside such a section is one action.     *)
(***************************************************************************)
EXTENDS Integers, Sequences

CONSTANTS
    MAX_THREADS,     \* number of slots; slot 0 is the main thread
    TickMod,         \* number of values of a tick counter (2^32 in the code)
    DEFAULT_TICKS,   \* ticks field given to a new thread
    Slices,          \* arguments callers give to setTimeSlice
    Waited,          \* slots callers pass to wait
    MaxAdds,         \* bound: successful calls of addThread in a behaviour
    MaxDepth,        \* bound: nested Suspend objects of a task
    Liberties        \* caller habits the library does not guard against:
                     \* a thread kills itself, a caller suspends or restarts
                     \* a thread that ended, a caller adds the first thread
                     \* inside a Suspend scope, a thread overflows its stack

ASSUME ThreadsAssumption ==
    /\ MAX_THREADS \in Nat /\ MAX_THREADS >= 2
    /\ TickMod \in Nat /\ TickMod >= 1
    /\ DEFAULT_TICKS \in 0 .. TickMod - 1
    /\ Slices \subseteq 0 .. TickMod - 1
    /\ Waited \subseteq 0 .. MAX_THREADS - 1
    /\ MaxAdds \in Nat
    /\ MaxDepth \in Nat
    /\ Liberties \subseteq {"selfKill", "revive", "addBeforeStart", "overflow"}

VARIABLES
    current_thread,  \* slot of the thread that has the processor
    cpu,             \* task whose code and stack the processor is using
    flags,           \* flags of each slot ("NULL": threadp[i] is NULL)
    ticks,           \* slice length of each slot, as the counter's start value
    loaded,          \* task whose stack and entry point the slot was given
    sp,              \* task into whose stack the slot's saved sp points
    currentActive,   \* state of the threading system
    currentCount,    \* ticks left in the current slice
    nextTask,        \* next task to be created
    scopes,          \* save_state of each task's live Suspend objects
    returned,        \* tasks that returned and spin in del_process
    waiting          \* pending wait(id, timeout) of each task

vars == << current_thread, cpu, flags, ticks, loaded, sp, currentActive,
           currentCount, nextTask, scopes, returned, waiting >>

tableVars == << flags, ticks, loaded, sp, nextTask >>
cpuVars   == << current_thread, cpu, currentCount >>
taskVars  == << scopes, returned, waiting >>

Ids    == 0 .. MAX_THREADS - 1
Tasks  == 0 .. MaxAdds
Flags  == {"NULL", "RUNNING", "ENDED", "SUSPENDED"}
\* STARTED, STOPPED, FIRST_RUN, and the 0 a Suspend object stores.
Active == {"STARTED", "STOPPED", "FIRST_RUN", "ZERO"}
NoWait == [id |-> -1, timed |-> FALSE]
Waits  == [id : Ids, timed : BOOLEAN] \cup {NoWait}

TypeOK ==
    /\ current_thread \in Ids
    /\ cpu \in Tasks
    /\ flags \in [Ids -> Flags]
    /\ ticks \in [Ids -> 0 .. TickMod - 1]
    /\ loaded \in [Ids -> Tasks]
    /\ sp \in [Ids -> Tasks]
    /\ currentActive \in Active
    /\ currentCount \in 0 .. TickMod - 1
    /\ nextTask \in 1 .. MaxAdds + 1
    /\ scopes \in [Tasks -> Seq(Active)]
    /\ returned \subseteq Tasks
    /\ waiting \in [Tasks -> Waits]

Init ==
    /\ current_thread = 0
    /\ cpu = 0
    /\ flags = [i \in Ids |-> IF i = 0 THEN "RUNNING" ELSE "NULL"]
    /\ ticks = [i \in Ids |-> DEFAULT_TICKS]
    /\ loaded = [i \in Ids |-> 0]
    /\ sp = [i \in Ids |-> 0]
    /\ currentActive = "FIRST_RUN"
    /\ currentCount = DEFAULT_TICKS
    /\ nextTask = 1
    /\ scopes = [t \in Tasks |-> <<>>]
    /\ returned = {}
    /\ waiting = [t \in Tasks |-> NoWait]

-----------------------------------------------------------------------------
(* The context switch. *)

\* The slots the search can pick before it falls back on slot 0.  The two
\* definitions before it are faulty variants: one drops the test of RUNNING,
\* one starts the search at the current slot.
RunnableAfterNotNull(fl, from) == {i \in Ids : i > from /\ fl[i] # "NULL"}
RunnableAfterSelf(fl, from) == {i \in Ids : i >= from /\ fl[i] = "RUNNING"}
RunnableAfter(fl, from) == {i \in Ids : i > from /\ fl[i] = "RUNNING"}

NextThread(fl, from) ==
    IF RunnableAfter(fl, from) = {} THEN 0
    ELSE CHOOSE i \in RunnableAfter(fl, from) :
            \A j \in RunnableAfter(fl, from) : i <= j

\* getNextThread: save the stack pointer, end a thread that overflowed its
\* stack, pick the next runnable slot and load its context.  The main thread
\* has no saved stack pointer of its own: the MSP is never switched.
SwitchContext ==
    \E overflow \in (IF current_thread = 0 \/ "overflow" \notin Liberties
                    THEN {FALSE} ELSE BOOLEAN) :
      /\ flags' = IF overflow THEN [flags EXCEPT ![current_thread] = "ENDED"]
                  ELSE flags
      /\ sp' = IF current_thread = 0 THEN sp
               ELSE [sp EXCEPT ![current_thread] = cpu]
      /\ current_thread' = NextThread(flags', current_thread)
      /\ cpu' = sp'[current_thread']
      /\ currentCount' = ticks[current_thread']
      /\ UNCHANGED << ticks, loaded, nextTask, taskVars >>

\* Faulty variant: the forced switch forgets to look at currentActive.
TrapYieldUnchecked == SwitchContext

\* call_direct: a forced switch, skipped unless threading is started.
TrapYield ==
    \/ /\ currentActive = "STARTED"
       /\ SwitchContext
    \/ /\ currentActive # "STARTED"
       /\ UNCHANGED << tableVars, cpuVars, taskVars >>

\* The GPT interrupt: count the slice down and switch when it is used up.
Tick ==
    /\ \/ /\ currentCount = 0
          /\ TrapYield
       \/ /\ currentCount # 0
          /\ currentCount' = currentCount - 1
          /\ UNCHANGED << tableVars, current_thread, cpu, taskVars >>
    /\ UNCHANGED currentActive

-----------------------------------------------------------------------------
(* The calls of the task that has the processor. *)

\* The task can make a call: it is neither spinning in del_process nor
\* inside wait().
Calling == cpu \notin returned /\ waiting[cpu] = NoWait

\* Faulty variant: every thread that is not running counts as free.
FreeNotRunning == {i \in Ids \ {0} : flags[i] # "RUNNING"}

Free == {i \in Ids \ {0} : flags[i] \in {"NULL", "ENDED"}}

\* currentActive after addThread succeeded or failed with the threading state
\* old on entry: start() is called for STARTED and FIRST_RUN after a success
\* and for STARTED alone after a failure, which otherwise leaves the STOPPED
\* that stop() stored.
\* The first is a faulty variant, without "currentActive = old_state".
AfterAddStartedOnly(old) == IF old = "STARTED" THEN "STARTED" ELSE "STOPPED"
AfterAdd(old) == IF old \in {"STARTED", "FIRST_RUN"} THEN "STARTED" ELSE old
AfterFullTable(old) == IF old = "STARTED" THEN "STARTED" ELSE "STOPPED"

\* A caller that adds a thread inside a Suspend scope opened before the first
\* thread was started gets FIRST_RUN back when the scope closes.
AddAllowed ==
    \/ "addBeforeStart" \in Liberties
    \/ ~(scopes[cpu] # <<>> /\ scopes[cpu][1] = "FIRST_RUN")

\* addThread fills the first free slot, deleting the stack the slot still
\* owns, or returns -1 when there is none.
AddThread ==
    /\ Calling
    /\ AddAllowed
    /\ \/ /\ nextTask <= MaxAdds
          /\ \E i \in Free :
               /\ \A j \in Free : i <= j
               /\ loaded' = [loaded EXCEPT ![i] = nextTask]
               /\ sp' = [sp EXCEPT ![i] = nextTask]
               /\ ticks' = [ticks EXCEPT ![i] = DEFAULT_TICKS]
               /\ flags' = [flags EXCEPT ![i] = "RUNNING"]
          /\ nextTask' = nextTask + 1
          /\ currentActive' = AfterAdd(currentActive)
       \/ /\ Free = {}
          /\ currentActive' = AfterFullTable(currentActive)
          /\ UNCHANGED tableVars
    /\ UNCHANGED << cpuVars, taskVars >>

SetFlags(id, st) ==
    /\ flags[id] # "NULL"
    /\ flags' = [flags EXCEPT ![id] = st]
    /\ UNCHANGED << ticks, loaded, sp, nextTask, cpuVars,
                    currentActive, taskVars >>

\* kill, suspend, restart (and setState with their values) are one store.
Kill(id) ==
    /\ Calling
    /\ id # current_thread \/ "selfKill" \in Liberties
    /\ SetFlags(id, "ENDED")

Suspend(id) ==
    /\ Calling
    /\ flags[id] # "ENDED" \/ "revive" \in Liberties
    /\ SetFlags(id, "SUSPENDED")

Restart(id) ==
    /\ Calling
    /\ flags[id] # "ENDED" \/ "revive" \in Liberties
    /\ SetFlags(id, "RUNNING")

\* ticks is unsigned: a slice of 0 wraps to the longest one.  The first
\* definition is a faulty variant on a counter that does not wrap.
SliceTicksSigned(n) == n - 1
SliceTicks(n) == (n - 1) % TickMod

SetTimeSlice(id, n) ==
    /\ Calling
    /\ flags[id] # "NULL"
    /\ ticks' = [ticks EXCEPT ![id] = SliceTicks(n)]
    /\ UNCHANGED << flags, loaded, sp, nextTask, cpuVars,
                    currentActive, taskVars >>

Yield ==
    /\ Calling
    /\ TrapYield
    /\ UNCHANGED currentActive

\* A Suspend object: its constructor and its destructor.
EnterScope ==
    /\ Calling
    /\ Len(scopes[cpu]) < MaxDepth
    /\ scopes' = [scopes EXCEPT ![cpu] = Append(@, currentActive)]
    /\ currentActive' = "ZERO"
    /\ UNCHANGED << tableVars, cpuVars, returned, waiting >>

LeaveScope ==
    /\ Calling
    /\ scopes[cpu] # <<>>
    /\ currentActive' = scopes[cpu][Len(scopes[cpu])]
    /\ scopes' = [scopes EXCEPT ![cpu] = SubSeq(@, 1, Len(@) - 1)]
    /\ UNCHANGED << tableVars, cpuVars, returned, waiting >>

\* The thread function returns into del_process, which frees the slot and
\* spins until the switch that never comes back.  Its stop()/start(old_state)
\* leaves currentActive as it was.
ThreadReturn ==
    /\ Calling
    /\ current_thread # 0
    /\ scopes[cpu] = <<>>
    /\ flags' = [flags EXCEPT ![current_thread] = "ENDED"]
    /\ returned' = returned \cup {cpu}
    /\ UNCHANGED << ticks, loaded, sp, nextTask, cpuVars, currentActive,
                    scopes, waiting >>

\* wait(id, timeout_ms), with timed false for a timeout of 0.
WaitCall(id, timed) ==
    /\ Calling
    /\ flags[id] # "NULL"
    /\ waiting' = [waiting EXCEPT ![cpu] = [id |-> id, timed |-> timed]]
    /\ UNCHANGED << tableVars, cpuVars, currentActive, scopes, returned >>

\* One turn of the loop of wait().
WaitReturn ==
    /\ cpu \notin returned
    /\ waiting[cpu] # NoWait
    /\ waiting[cpu].timed \/ flags[waiting[cpu].id] # "RUNNING"
    /\ waiting' = [waiting EXCEPT ![cpu] = NoWait]
    /\ UNCHANGED << tableVars, cpuVars, currentActive, scopes, returned >>

WaitYield ==
    /\ cpu \notin returned
    /\ waiting[cpu] # NoWait
    /\ flags[waiting[cpu].id] = "RUNNING"
    /\ TrapYield
    /\ UNCHANGED currentActive

Wait == WaitReturn \/ WaitYield

Next ==
    \/ Tick
    \/ AddThread
    \/ \E id \in Ids : Kill(id) \/ Suspend(id) \/ Restart(id)
    \/ \E id \in Ids, n \in Slices : SetTimeSlice(id, n)
    \/ Yield
    \/ EnterScope
    \/ LeaveScope
    \/ ThreadReturn
    \/ \E id \in Waited, timed \in BOOLEAN : WaitCall(id, timed)
    \/ Wait

Spec == Init /\ [][Next]_vars

\* The timer keeps interrupting; nothing is assumed of what the threads do.
FairSpec == Spec /\ WF_vars(Tick)

-----------------------------------------------------------------------------
(* Properties. *)

\* A Suspend object gives its owner the processor for its whole life: a task
\* with a live object is the one running, and the system is not STARTED.
SectionExclusive ==
    \A t \in Tasks : scopes[t] # <<>> => t = cpu /\ currentActive # "STARTED"

\* Slot reuse never mixes two threads: the code on the processor is the task
\* its slot was loaded with, and every saved stack pointer points into the
\* stack of the task its slot was loaded with; no task sits in two slots.
ContextIntact ==
    /\ cpu = loaded[current_thread]
    /\ \A i \in Ids : sp[i] = loaded[i]
    /\ \A i, j \in Ids : loaded[i] = loaded[j] /\ loaded[i] # 0 => i = j

\* Outside every Suspend scope the threading system is on, or has not seen its
\* first thread: no order of nested scopes and addThread leaves it stopped.
NeverStuckStopped ==
    scopes[cpu] = <<>> => currentActive \in {"STARTED", "FIRST_RUN"}

\* Before the first thread is added there is nothing but slot 0, so that the
\* FIRST_RUN state never keeps a thread from running.
FirstRunMeansAlone ==
    currentActive = "FIRST_RUN" => \A i \in Ids \ {0} : flags[i] = "NULL"

Alive(t) == \E i \in Ids : loaded[i] = t /\ flags[i] \in {"RUNNING", "SUSPENDED"}

\* A thread that ended by kill, return or stack overflow stays ended, loses the
\* processor at the next switch and never gets it back.
KillIsFinal ==
    [][\A t \in Tasks \ {0} :
          t < nextTask /\ ~Alive(t) => ~Alive(t)' /\ (cpu # t => cpu' # t)]_vars

\* wait(id) without a timeout returns when the thread has returned.
WaitMeansReturned ==
    [][\A t \in Tasks :
          waiting[t] # NoWait /\ ~waiting[t].timed /\ waiting'[t] = NoWait
            => flags[waiting[t].id] = "ENDED"]_vars

\* Round robin: a slot that stays RUNNING while threading stays STARTED gets
\* the processor again and again, whatever the slice lengths and however the
\* other threads yield, end, are suspended or are added.
RoundRobin ==
    \A i \in Ids :
        <>[](flags[i] = "RUNNING" /\ currentActive = "STARTED")
            => []<>(current_thread = i)
=============================================================================
