------------------------------ MODULE Scheduler ------------------------------
(***************************************************************************)
(* The preemptive scheduler of DedOS: scheduler/scheduler.c, the thread    *)
(* calls of scheduler/thread.c, the vector-32 path of isr_handler and the  *)
(* tail of kmain that creates the first threads.                           *)
(*                                                                         *)
(* One CPU.  A handler runs with interrupts off, so isr_handler is one     *)
(* action; a cli ... sti section is one action; everything else is split   *)
(* where an interrupt can fall between two accesses to shared state.       *)
(*                                                                         *)
(* Data abstractions:                                                      *)
(*  - run_queue, a list linked through thread_t.next, is a sequence;       *)
(*  - timer_ticks and thread_t.wake_tick only ever meet in the comparison  *)
(*    timer_ticks >= wake_tick, so wake_in[t] is the number of ticks that  *)
(*    are missing, max(0, wake_tick - timer_ticks);                        *)
(*  - the registers are the program point (rip) and the owner of the stack *)
(*    rsp points into; kmain and idle_fn share the boot stack, IDLE's.     *)
(***************************************************************************)
EXTENDS Naturals, Sequences, SequencesExt, FiniteSetsExt

CONSTANTS
  Threads,    \* the thread_t objects kmain creates
  IDLE,       \* &idle_thread
  NULL,       \* the null thread_t pointer
  QUANTUM,    \* SCHEDULER_QUANTUM
  MaxSleep    \* largest argument of thread_sleep (bounds the model)

ASSUME ThreadsAssumption == IDLE \notin Threads /\ NULL \notin Threads /\ IDLE # NULL
ASSUME QuantumAssumption == QUANTUM \in 1..255     \* thread_t.quantum is a uint8_t
ASSUME SleepAssumption == MaxSleep \in Nat

VARIABLES
  run_queue,  \* static thread_t* run_queue
  current,    \* static thread_t* current
  locked,     \* static uint8_t locked
  state,      \* thread_t.state, "none" before thread_create
  quantum,    \* thread_t.quantum
  wake_in,    \* ticks missing to thread_t.wake_tick
  context,    \* thread_t.context
  allocated,  \* threads whose thread_t and stack are on the heap
  cpu,        \* the registers of the CPU
  th,         \* the thread kmain is adding (its local th_a, th_b) or NULL
  th_next     \* th->next as scheduler_add_thread has set it

vars == <<run_queue, current, locked, state, quantum, wake_in, context,
          allocated, cpu, th, th_next>>

schedVars == <<run_queue, current, state, quantum, context, allocated>>
bootVars  == <<locked, th, th_next>>

ThreadObjects == Threads \cup {IDLE}

ThreadStates == {"none", "ready", "running", "blocked", "dead"}

\* Program points.  The thread's own code is the single point "run": what
\* it computes there is not visible to the scheduler.
KmainPoints == {"scheduler_init", "scheduler_lock", "create", "link", "publish",
                "scheduler_unlock", "hang"}
ThreadPoints == {"run", "yield", "int", "exit_yield", "exit_int", "hlt"}
Points == KmainPoints \cup ThreadPoints \cup {"idle_fn", "halted"}

Registers == [rip : Points, stack : ThreadObjects]

TypeOK ==
  /\ run_queue \in Seq(Threads)
  /\ current \in ThreadObjects \cup {NULL}
  /\ locked \in BOOLEAN
  /\ state \in [ThreadObjects -> ThreadStates]
  /\ quantum \in [ThreadObjects -> 0..QUANTUM]
  /\ wake_in \in [Threads -> 0..MaxSleep]
  /\ context \in [ThreadObjects -> Registers]
  /\ allocated \in SUBSET Threads
  /\ cpu \in Registers
  /\ th \in Threads \cup {NULL}
  /\ th_next \in Seq(Threads)

\* kmain about to call scheduler_init; the statics are zero.
Init ==
  /\ run_queue = <<>>
  /\ current = NULL
  /\ locked = FALSE
  /\ state = [t \in ThreadObjects |-> "none"]
  /\ quantum = [t \in ThreadObjects |-> 0]
  /\ wake_in = [t \in Threads |-> 0]
  /\ context = [t \in ThreadObjects |-> [rip |-> "halted", stack |-> t]]
  /\ allocated = {}
  /\ cpu = [rip |-> "scheduler_init", stack |-> IDLE]
  /\ th = NULL
  /\ th_next = <<>>

GoTo(point) == cpu' = [cpu EXCEPT !.rip = point]

-----------------------------------------------------------------------------
(***************************************************************************)
(* The timer interrupt, vector 32: isr_handler and scheduler_tick_irq.     *)
(***************************************************************************)

\* timer_ticks++
TicksLeft == [t \in Threads |-> IF wake_in[t] > 0 THEN wake_in[t] - 1 ELSE 0]

\* Mutant of Woken: the loop that wakes blocked threads is missing.
NeverWoken == state

\* The first loop: every blocked thread of the queue whose time has come.
Woken ==
  [t \in ThreadObjects |->
     IF /\ t \in ToSet(run_queue)
        /\ state[t] = "blocked"
        /\ TicksLeft[t] = 0
     THEN "ready"
     ELSE state[t]]

\* The second loop: the dead threads of the queue are unlinked and destroyed.
DeadInQueue == {t \in ToSet(run_queue) : state[t] = "dead"}

LiveQueue ==
  IF DeadInQueue = {} THEN run_queue
  ELSE SelectSeq(run_queue, LAMBDA t : t \notin DeadInQueue)

\* current->quantum after "if (current->quantum > 0) current->quantum--"
QuantumLeft == IF quantum[current] > 0 THEN quantum[current] - 1 ELSE 0

\* The third loop: the positions it would stop at, and the thread it picks.
ReadyPositions == {i \in 1..Len(LiveQueue) : Woken[LiveQueue[i]] = "ready"}

\* Mutant of Picked: with nothing ready, "next = current", not the idle thread.
PickedOrCurrent ==
  IF ReadyPositions = {} THEN current ELSE LiveQueue[Min(ReadyPositions)]

Picked == IF ReadyPositions = {} THEN IDLE ELSE LiveQueue[Min(ReadyPositions)]

QueueWithoutPicked ==
  IF ReadyPositions = {} THEN LiveQueue
  ELSE RemoveAt(LiveQueue, Min(ReadyPositions))

\* Mutant of Requeued: "case THREAD_DEAD" falls through to the insertion.
RequeuedEvenDead ==
  IF current # IDLE THEN <<current>> \o QueueWithoutPicked ELSE QueueWithoutPicked

\* Mutant of Requeued: a break after "case THREAD_RUNNING", so that a blocked
\* thread is not inserted.
RequeuedIfRunning ==
  IF current # IDLE /\ state[current] = "running"
  THEN <<current>> \o QueueWithoutPicked
  ELSE QueueWithoutPicked

\* A thread that loses the CPU goes to the FRONT of the queue; the idle
\* thread and a dead thread go nowhere.
Requeued ==
  IF current # IDLE /\ state[current] # "dead"
  THEN <<current>> \o QueueWithoutPicked
  ELSE QueueWithoutPicked

\* "if (!current || locked) return", and isr_handler's own test of current.
TickIgnored(frame) ==
  /\ current = NULL \/ locked
  /\ cpu' = frame
  /\ wake_in' = TicksLeft
  /\ UNCHANGED <<schedVars, bootVars>>

\* Mutant of TickContinues: the decrement of the quantum is not stored.
TickContinuesForever(frame) ==
  /\ current # NULL /\ ~locked
  /\ QuantumLeft > 0
  /\ cpu' = frame
  /\ wake_in' = TicksLeft
  /\ state' = Woken
  /\ run_queue' = LiveQueue
  /\ allocated' = allocated \ DeadInQueue
  /\ UNCHANGED <<current, quantum, context, bootVars>>

\* The quantum of current is not used up: it goes on.
TickContinues(frame) ==
  /\ current # NULL /\ ~locked
  /\ QuantumLeft > 0
  /\ cpu' = frame
  /\ wake_in' = TicksLeft
  /\ state' = Woken
  /\ run_queue' = LiveQueue
  /\ allocated' = allocated \ DeadInQueue
  /\ quantum' = [quantum EXCEPT ![current] = QuantumLeft]
  /\ UNCHANGED <<current, context, bootVars>>

\* The state of current as it is put away, of the picked thread as it starts.
SwitchedState ==
  [[Woken EXCEPT ![current] = IF current # IDLE /\ @ = "running" THEN "ready" ELSE @]
     EXCEPT ![Picked] = "running"]

SwitchedQuantum ==
  [[quantum EXCEPT ![current] = IF current # IDLE /\ state[current] = "running"
                                THEN QUANTUM ELSE 0]
     EXCEPT ![Picked] = QUANTUM]

\* Mutant of SavedContext: the frame is saved after current = next.
SavedInNext(frame) ==
  IF current # IDLE THEN [context EXCEPT ![Picked] = frame] ELSE context

\* The frame is saved in current's context, unless current is the idle thread.
SavedContext(frame) ==
  IF current # IDLE THEN [context EXCEPT ![current] = frame] ELSE context

TickSwitches(frame) ==
  /\ current # NULL /\ ~locked
  /\ QuantumLeft = 0
  /\ wake_in' = TicksLeft
  /\ allocated' = allocated \ DeadInQueue
  /\ run_queue' = Requeued
  /\ state' = SwitchedState
  /\ quantum' = SwitchedQuantum
  /\ context' = SavedContext(frame)
  /\ current' = Picked
  /\ cpu' = context'[Picked]
  /\ UNCHANGED bootVars

\* isr_handler for vector 32, entered with the interrupted registers in frame.
Vector32(frame) ==
  \/ TickIgnored(frame)
  \/ TickContinues(frame)
  \/ TickSwitches(frame)

\* The LAPIC timer fires.  Interrupts are on between any two actions.
TimerInterrupt ==
  /\ cpu.rip # "halted"
  /\ Vector32(cpu)

-----------------------------------------------------------------------------
(***************************************************************************)
(* The calls a thread makes: thread_sleep, thread_exit, scheduler_yield.   *)
(***************************************************************************)

\* The running thread is at one of these points of its code.
At(points) == current \in Threads /\ cpu.rip \in points

\* thread_sleep up to its sti; scheduler_yield comes next.
ThreadSleep(ms) ==
  /\ At({"run"})
  /\ state' = [state EXCEPT ![current] = "blocked"]
  /\ wake_in' = [wake_in EXCEPT ![current] = ms]
  /\ GoTo("yield")
  /\ UNCHANGED <<run_queue, current, quantum, context, allocated, bootVars>>

\* The entry function returns into thread_exit: up to its sti.
ThreadExit ==
  /\ At({"run"})
  /\ state' = [state EXCEPT ![current] = "dead"]
  /\ GoTo("exit_yield")
  /\ UNCHANGED <<run_queue, current, quantum, wake_in, context, allocated, bootVars>>

\* A plain call of scheduler_yield.
CallYield ==
  /\ At({"run"})
  /\ GoTo("yield")
  /\ UNCHANGED <<schedVars, wake_in, bootVars>>

\* Mutant of YieldClearsQuantum: the quantum is left as it is.
YieldKeepsQuantum ==
  /\ At({"yield", "exit_yield"})
  /\ GoTo(IF cpu.rip = "yield" THEN "int" ELSE "exit_int")
  /\ UNCHANGED <<schedVars, wake_in, bootVars>>

\* scheduler_yield: scheduler_current()->quantum = 0
YieldClearsQuantum ==
  /\ At({"yield", "exit_yield"})
  /\ quantum' = [quantum EXCEPT ![current] = 0]
  /\ GoTo(IF cpu.rip = "yield" THEN "int" ELSE "exit_int")
  /\ UNCHANGED <<run_queue, current, state, wake_in, context, allocated, bootVars>>

\* Where the interrupt of scheduler_yield returns to: the thread's own code,
\* or the hlt loop of thread_exit.
AfterInt == [cpu EXCEPT !.rip = IF @ = "int" THEN "run" ELSE "hlt"]

\* scheduler_yield: int $0x20
YieldInterrupt ==
  /\ At({"int", "exit_int"})
  /\ Vector32(AfterInt)

ThreadStep ==
  \/ \E ms \in 0..MaxSleep : ThreadSleep(ms)
  \/ ThreadExit
  \/ CallYield
  \/ YieldClearsQuantum
  \/ YieldInterrupt

-----------------------------------------------------------------------------
(***************************************************************************)
(* kmain from scheduler_init to its final hlt loop.                        *)
(***************************************************************************)

KmainAt(point) == cpu.rip = point

\* idle_thread is filled in, current is set last; the rest is a log line.
SchedulerInit ==
  /\ KmainAt("scheduler_init")
  /\ state' = [state EXCEPT ![IDLE] = "ready"]
  /\ quantum' = [quantum EXCEPT ![IDLE] = QUANTUM]
  /\ context' = [context EXCEPT ![IDLE] = [rip |-> "idle_fn", stack |-> IDLE]]
  /\ current' = IDLE
  /\ GoTo("scheduler_lock")
  /\ UNCHANGED <<run_queue, wake_in, allocated, bootVars>>

SchedulerLock ==
  /\ KmainAt("scheduler_lock")
  /\ locked' = TRUE
  /\ GoTo("create")
  /\ UNCHANGED <<schedVars, wake_in, th, th_next>>

\* process_create and thread_create succeed: a fresh thread_t and its stack,
\* whose context starts at the entry function.
ThreadCreate(t) ==
  /\ KmainAt("create")
  /\ state[t] = "none"
  /\ state' = [state EXCEPT ![t] = "ready"]
  /\ quantum' = [quantum EXCEPT ![t] = QUANTUM]
  /\ wake_in' = [wake_in EXCEPT ![t] = 0]
  /\ context' = [context EXCEPT ![t] = [rip |-> "run", stack |-> t]]
  /\ allocated' = allocated \cup {t}
  /\ th' = t
  /\ GoTo("link")
  /\ UNCHANGED <<run_queue, current, locked, th_next>>

\* thread_create returns NULL when either kmalloc fails (its thread_t is freed
\* again).  kmain passes the pointer on unchecked: the store to thread->next
\* faults and isr_handler stops the CPU with cli; hlt.
ThreadCreateFails ==
  /\ KmainAt("create")
  /\ \E t \in Threads : state[t] = "none"
  /\ GoTo("halted")
  /\ UNCHANGED <<schedVars, wake_in, bootVars>>

\* scheduler_add_thread: thread->next = run_queue
AddThreadLinks ==
  /\ KmainAt("link")
  /\ th_next' = run_queue
  /\ GoTo("publish")
  /\ UNCHANGED <<schedVars, wake_in, locked, th>>

\* scheduler_add_thread: run_queue = thread
AddThreadPublishes ==
  /\ KmainAt("publish")
  /\ run_queue' = <<th>> \o th_next
  /\ th' = NULL
  /\ th_next' = <<>>
  /\ GoTo(IF \E t \in Threads : state[t] = "none" THEN "create" ELSE "scheduler_unlock")
  /\ UNCHANGED <<current, state, quantum, wake_in, context, allocated, locked>>

SchedulerUnlock ==
  /\ KmainAt("scheduler_unlock")
  /\ locked' = FALSE
  /\ GoTo("hang")
  /\ UNCHANGED <<schedVars, wake_in, th, th_next>>

KmainStep ==
  \/ SchedulerInit
  \/ SchedulerLock
  \/ \E t \in Threads : ThreadCreate(t)
  \/ ThreadCreateFails
  \/ AddThreadLinks
  \/ AddThreadPublishes
  \/ SchedulerUnlock

Next ==
  \/ TimerInterrupt
  \/ ThreadStep
  \/ KmainStep

Spec == Init /\ [][Next]_vars

\* The LAPIC timer is periodic, so ticks keep coming; the CPU executes
\* instructions between two ticks, so kmain goes on while it has the CPU and
\* a thread that gets the CPU again and again gets through scheduler_yield.
\* Nothing is assumed of the thread's own code: it may compute for ever.
Fairness ==
  /\ WF_vars(TimerInterrupt)
  /\ WF_vars(KmainStep)
  /\ \A t \in Threads : SF_vars(current = t /\ cpu.rip # "run" /\ ThreadStep)

FairSpec == Spec /\ Fairness

-----------------------------------------------------------------------------
(***************************************************************************)
(* Properties.                                                             *)
(***************************************************************************)

Alive(t) == state[t] \in {"ready", "running", "blocked"}

\* The list that scheduler_tick_irq walks three times is well formed: no
\* thread is linked twice, the thread that runs is not linked, and only ready
\* and blocked threads are, so the reaping loop (scheduler.c:81-94) never
\* finds a dead one.
QueueIsSound ==
  /\ IsInjective(run_queue)
  /\ current \notin ToSet(run_queue)
  /\ \A t \in ToSet(run_queue) : state[t] \in {"ready", "blocked"}

\* No switch, sleep or insertion drops a thread: a live thread runs, or is in
\* the queue, or is the one kmain is just inserting.
NoThreadLost ==
  \A t \in Threads : Alive(t) =>
    \/ current = t
    \/ t \in ToSet(run_queue)
    \/ th = t /\ cpu.rip \in {"link", "publish"}

\* scheduler_lock protects kmain's insertions: while it is held kmain is the
\* code on the CPU, so it is never abandoned with the lock taken.
LockHeldByKmain ==
  locked =>
    /\ current = IDLE
    /\ cpu.rip \in {"create", "link", "publish", "scheduler_unlock", "halted"}

\* What a switch loads belongs to the thread it makes current: the CPU always
\* runs current's code on current's stack, kmain and idle_fn on the boot stack.
RunsOnOwnStack ==
  /\ cpu.stack = IF current = NULL THEN IDLE ELSE current
  /\ current \in Threads => cpu.rip \in ThreadPoints
  /\ current = IDLE => cpu.rip \notin ThreadPoints

\* thread_sleep does not return before its wake tick and thread_exit does not
\* return at all: a thread executes its own code only while its state is
\* RUNNING, with no tick missing, whatever interrupts fell into
\* scheduler_yield, and never reaches the hlt loop behind it.
SleepAndExitHold ==
  current \in Threads =>
    /\ cpu.rip = "run" => state[current] = "running" /\ wake_in[current] = 0
    /\ cpu.rip # "hlt"

\* Whatever the scheduler or the CPU may still touch has not been freed by
\* thread_destroy: the queue, current, and the stack the CPU is on.
NoUseAfterFree ==
  ToSet(run_queue) \cup ({current, cpu.stack} \cap Threads) \subseteq allocated

\* An exited thread is never destroyed: it is current when it dies and a dead
\* current is not put back into the queue, the only place thread_destroy looks.
ExitedThreadsLeak ==
  \A t \in Threads : state[t] = "dead" => t \in allocated

\* What the properties above rest on, inductive together with them.

\* A thread that waits for the CPU will resume its own code or scheduler_yield,
\* on its own stack, and the idle thread idle_fn.
SavedContexts ==
  /\ \A t \in Threads :
       t \in ToSet(run_queue) \/ (th = t /\ cpu.rip \in {"link", "publish"}) =>
         context[t] \in [rip : {"run", "yield", "int"}, stack : {t}]
  /\ current # NULL => context[IDLE] = [rip |-> "idle_fn", stack |-> IDLE]

AwakeHasNoTicks ==
  \A t \in Threads : state[t] \in {"ready", "running"} => wake_in[t] = 0

\* How far the running thread is and what its state and quantum then are.
CurrentPoint ==
  current \in Threads =>
    /\ state[current] \in {"running", "blocked", "dead"}
    /\ state[current] = "dead" <=> cpu.rip \in {"exit_yield", "exit_int"}
    /\ cpu.rip = "run" => state[current] = "running"
    /\ cpu.rip = "int" /\ state[current] = "blocked" => quantum[current] = 0
    /\ cpu.rip = "exit_int" => quantum[current] = 0

\* How far kmain is and what it has done.
KmainPoint ==
  /\ current = NULL => cpu.rip = "scheduler_init"
  /\ cpu.rip \in {"create", "link", "publish", "scheduler_unlock"} => locked
  /\ cpu.rip \in {"link", "publish"} =>
       th \in allocated \ ToSet(run_queue) /\ state[th] = "ready"
  /\ cpu.rip = "publish" => th_next = run_queue

\* The inductive invariant of the scheduler: every safety property at once.
Inv ==
  /\ TypeOK
  /\ QueueIsSound
  /\ NoThreadLost
  /\ LockHeldByKmain
  /\ RunsOnOwnStack
  /\ SleepAndExitHold
  /\ NoUseAfterFree
  /\ ExitedThreadsLeak
  /\ SavedContexts
  /\ AwakeHasNoTicks
  /\ CurrentPoint
  /\ KmainPoint

\* Once a thread has exited it stays dead, and once it has lost the CPU it
\* never gets it back.
ExitIsFinal ==
  [][\A t \in Threads : state[t] = "dead" =>
       state'[t] = "dead" /\ (current # t => current' # t)]_vars

\* Threads are picked and put back at the head of the queue (scheduler.c:131), so
\* two that only compute may take turns before a third for ever.
Outrun(t) ==
  current \in Threads \ {t} /\ Cardinality({u \in Threads \ {t} : Alive(u)}) >= 2

\* A ready thread of the queue gets the CPU, unless one of two others that are alive
\* has it (kmain creates two threads in all) or the boot stops the machine.
ReadyRuns ==
  \A t \in Threads :
    (state[t] = "ready" /\ t \in ToSet(run_queue))
      ~> (current = t \/ Outrun(t) \/ cpu.rip = "halted")

\* Every call of thread_sleep returns, unless one of two others that are alive has
\* the CPU.
SleepReturns ==
  \A t \in Threads : state[t] = "blocked" ~> (current = t /\ cpu.rip = "run") \/ Outrun(t)

\* A thread that has called thread_exit leaves the CPU for good.
ExitLeavesCpu ==
  \A t \in Threads : state[t] = "dead" ~> [](current # t)

\* kmain gives up the CPU only when it is done, as its last comment says
\* (main.c:209): every thread is created and queued, and the lock is free.
KmainFinishes ==
  current \in Threads \/ cpu.rip = "idle_fn" =>
    \A t \in Threads : state[t] # "none"
=============================================================================
