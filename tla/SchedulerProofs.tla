--------------------------- MODULE SchedulerProofs ---------------------------
(***************************************************************************)
(* TLAPS proofs about Scheduler, for every set of threads, every quantum   *)
(* and every bound on thread_sleep.                                        *)
(***************************************************************************)
EXTENDS Scheduler, Lemmas, FiniteSetTheorems

-----------------------------------------------------------------------------
(***************************************************************************)
(* What the loops of scheduler_tick_irq compute.                           *)
(***************************************************************************)

\* The elements of the queue are threads.
LEMMA QueuedAreThreads ==
  ASSUME TypeOK
  PROVE  ToSet(run_queue) \subseteq Threads
BY DEF TypeOK, ToSet

\* The second loop finds nothing: no dead thread is ever linked.
LEMMA NothingToReap ==
  ASSUME QueueIsSound
  PROVE  DeadInQueue = {} /\ LiveQueue = run_queue
BY DEF QueueIsSound, DeadInQueue, LiveQueue

\* The first loop turns blocked threads of the queue into ready ones, no
\* other state changes, and who is ready or running afterwards has no tick left.
LEMMA WakingFacts ==
  ASSUME TypeOK, QueueIsSound, AwakeHasNoTicks
  PROVE  /\ TicksLeft \in [Threads -> 0..MaxSleep]
         /\ \A t \in Threads : wake_in[t] = 0 => TicksLeft[t] = 0
         /\ Woken \in [ThreadObjects -> ThreadStates]
         /\ \A t \in ThreadObjects : t \notin ToSet(run_queue) => Woken[t] = state[t]
         /\ \A t \in ToSet(run_queue) : Woken[t] \in {"ready", "blocked"}
         /\ \A t \in Threads : Woken[t] \in {"ready", "running"} => TicksLeft[t] = 0
         /\ \A t \in ThreadObjects : Woken[t] = "dead" <=> state[t] = "dead"
         /\ \A t \in ThreadObjects : Woken[t] = "none" <=> state[t] = "none"
<1>1. TicksLeft \in [Threads -> 0..MaxSleep]
  BY SleepAssumption DEF TypeOK, TicksLeft
<1>2. \A t \in Threads : wake_in[t] = 0 => TicksLeft[t] = 0
  BY DEF TicksLeft
<1>3. Woken \in [ThreadObjects -> ThreadStates]
  BY DEF TypeOK, Woken, ThreadStates
<1>4. \A t \in ThreadObjects :
        Woken[t] = IF t \in ToSet(run_queue) /\ state[t] = "blocked" /\ TicksLeft[t] = 0
                   THEN "ready" ELSE state[t]
  BY DEF Woken
<1> HIDE DEF Woken, TicksLeft
<1>5. \A t \in ToSet(run_queue) : Woken[t] \in {"ready", "blocked"}
  BY <1>4, QueuedAreThreads DEF QueueIsSound, ThreadObjects
<1>6. \A t \in Threads : Woken[t] \in {"ready", "running"} => TicksLeft[t] = 0
  BY <1>2, <1>4 DEF AwakeHasNoTicks, ThreadObjects
<1>7. /\ \A t \in ThreadObjects : Woken[t] = "dead" <=> state[t] = "dead"
      /\ \A t \in ThreadObjects : Woken[t] = "none" <=> state[t] = "none"
  BY <1>4
<1>8. \A t \in ThreadObjects : t \notin ToSet(run_queue) => Woken[t] = state[t]
  BY <1>4
<1> QED BY <1>1, <1>2, <1>3, <1>5, <1>6, <1>7, <1>8

\* The third loop picks the idle thread or a ready thread of the queue, and
\* takes exactly that thread out of it.
LEMMA PickFacts ==
  ASSUME TypeOK, QueueIsSound
  PROVE  /\ Picked \in ThreadObjects
         /\ Picked # IDLE => Picked \in ToSet(run_queue) /\ Woken[Picked] = "ready"
         /\ QueueWithoutPicked \in Seq(Threads)
         /\ IsInjective(QueueWithoutPicked)
         /\ ToSet(QueueWithoutPicked) = ToSet(run_queue) \ {Picked}
<1>0. run_queue \in Seq(Threads) /\ IsInjective(run_queue) /\ LiveQueue = run_queue
  BY NothingToReap DEF TypeOK, QueueIsSound
<1>1. IDLE \notin ToSet(run_queue)
  BY QueuedAreThreads, ThreadsAssumption
<1>2. CASE ReadyPositions = {}
  BY <1>0, <1>1, <1>2 DEF Picked, QueueWithoutPicked, ThreadObjects
<1>3. CASE ReadyPositions # {}
  <2> DEFINE i == Min(ReadyPositions)
  <2>1. ReadyPositions = {k \in 1..Len(run_queue) : Woken[run_queue[k]] = "ready"}
    BY <1>0 DEF ReadyPositions
  <2>2. ReadyPositions \in SUBSET Nat
    BY <2>1
  <2>3. i \in ReadyPositions
    BY <1>3, <2>2, MinIsMember
  <2>4. i \in 1..Len(run_queue) /\ Woken[run_queue[i]] = "ready"
    BY <2>1, <2>3
  <2>5. Picked = run_queue[i] /\ QueueWithoutPicked = RemoveAt(run_queue, i)
    BY <1>0, <1>3 DEF Picked, QueueWithoutPicked
  <2> HIDE DEF i
  <2>6. run_queue[i] \in ToSet(run_queue) /\ run_queue[i] \in Threads
    BY <1>0, <2>4 DEF ToSet
  <2>7. /\ QueueWithoutPicked \in Seq(Threads)
        /\ IsInjective(QueueWithoutPicked)
        /\ ToSet(QueueWithoutPicked) = ToSet(run_queue) \ {Picked}
    BY <1>0, <2>4, <2>5, Unlink
  <2> QED BY <2>4, <2>5, <2>6, <2>7 DEF ThreadObjects
<1> QED BY <1>2, <1>3

\* After a switch the queue holds what it held, without the picked thread and
\* with the thread that lost the CPU if that is alive.
LEMMA RequeueFacts ==
  ASSUME TypeOK, QueueIsSound, current # NULL
  PROVE  /\ Requeued \in Seq(Threads)
         /\ IsInjective(Requeued)
         /\ ToSet(Requeued) = (ToSet(run_queue) \ {Picked})
              \cup {t \in Threads : t = current /\ state[t] # "dead"}
<1>1. CASE current # IDLE /\ state[current] # "dead"
  <2>1. current \in Threads /\ current \notin ToSet(QueueWithoutPicked)
    BY <1>1, PickFacts DEF TypeOK, ThreadObjects, QueueIsSound
  <2>2. Requeued = <<current>> \o QueueWithoutPicked
    BY <1>1 DEF Requeued
  <2>3. /\ Requeued \in Seq(Threads)
        /\ IsInjective(Requeued)
        /\ ToSet(Requeued) = ToSet(QueueWithoutPicked) \cup {current}
    BY <2>1, <2>2, PickFacts, PushFront
  <2> QED BY <1>1, <2>1, <2>3, PickFacts
<1>2. CASE ~(current # IDLE /\ state[current] # "dead")
  <2>1. Requeued = QueueWithoutPicked
    BY <1>2 DEF Requeued
  <2>2. {t \in Threads : t = current /\ state[t] # "dead"} = {}
    BY <1>2, ThreadsAssumption
  <2> QED BY <2>1, <2>2, PickFacts
<1> QED BY <1>1, <1>2

-----------------------------------------------------------------------------
(***************************************************************************)
(* The invariant is preserved: the timer interrupt.                        *)
(***************************************************************************)

\* What isr_handler may find in the frame it is entered with.
FrameOK(f) ==
  /\ f \in Registers
  /\ f.stack = cpu.stack
  /\ current \notin Threads => f = cpu /\ cpu.rip # "halted"
  /\ current \in Threads =>
       /\ state[current] # "dead" => f.rip \in {"run", "yield", "int"}
       /\ quantum[current] > 0 =>
            /\ f.rip \in {"run", "yield", "int", "exit_yield"}
            /\ state[current] = "dead" <=> f.rip = "exit_yield"
            /\ f.rip \in {"run", "int"} => state[current] = "running"

\* The timer interrupts the code on the CPU.
LEMMA TimerFrame ==
  ASSUME Inv, cpu.rip # "halted"
  PROVE  FrameOK(cpu)
<1> USE DEF Inv, FrameOK
<1>1. cpu \in Registers
  BY DEF TypeOK
<1>2. current \in Threads => cpu.rip \in ThreadPoints \ {"hlt"}
  BY DEF RunsOnOwnStack, SleepAndExitHold
<1>3. current \in Threads => quantum[current] \in Nat /\ state[current] \in {"running", "blocked", "dead"}
  BY DEF TypeOK, ThreadObjects, CurrentPoint
<1> QED BY <1>1, <1>2, <1>3 DEF CurrentPoint, ThreadPoints

\* scheduler_yield's interrupt returns to the thread's code, or to the hlt
\* loop of thread_exit, in both cases with a quantum that is used up unless the
\* thread is running again.
LEMMA YieldFrame ==
  ASSUME Inv, At({"int", "exit_int"})
  PROVE  FrameOK(AfterInt)
<1> USE DEF Inv, At
<1>1. cpu \in [rip : Points, stack : ThreadObjects]
  BY DEF TypeOK, Registers
<1>2. AfterInt \in Registers /\ AfterInt.stack = cpu.stack
      /\ AfterInt.rip = IF cpu.rip = "int" THEN "run" ELSE "hlt"
  BY <1>1 DEF AfterInt, Registers, Points, ThreadPoints
<1>3. quantum[current] \in Nat /\ state[current] \in {"running", "blocked", "dead"}
  BY DEF TypeOK, ThreadObjects, CurrentPoint
<1> QED BY <1>2, <1>3 DEF FrameOK, CurrentPoint

\* Interrupts before scheduler_init or with the lock taken.
LEMMA IgnoredKeepsInv ==
  ASSUME Inv, NEW f, FrameOK(f), TickIgnored(f)
  PROVE  Inv'
<1> USE DEF Inv, TickIgnored, schedVars, bootVars
<1>1. current \notin Threads
  BY ThreadsAssumption DEF LockHeldByKmain
<1>2. cpu' = cpu /\ wake_in' = TicksLeft
  BY <1>1 DEF FrameOK
<1>3. TypeOK'
  BY <1>2, WakingFacts DEF TypeOK
<1>4. QueueIsSound' /\ NoThreadLost'
  BY <1>2 DEF QueueIsSound, NoThreadLost, Alive
<1>5. LockHeldByKmain' /\ RunsOnOwnStack' /\ NoUseAfterFree' /\ ExitedThreadsLeak'
  BY <1>2 DEF LockHeldByKmain, RunsOnOwnStack, NoUseAfterFree, ExitedThreadsLeak
<1>6. SleepAndExitHold' /\ CurrentPoint'
  BY <1>1 DEF SleepAndExitHold, CurrentPoint
<1>7. SavedContexts' /\ KmainPoint'
  BY <1>2 DEF SavedContexts, KmainPoint
<1>8. AwakeHasNoTicks'
  BY <1>2, WakingFacts DEF AwakeHasNoTicks
<1> QED BY <1>3, <1>4, <1>5, <1>6, <1>7, <1>8

\* Interrupts that leave current on the CPU.
LEMMA ContinuesKeepsInv ==
  ASSUME Inv, NEW f, FrameOK(f), TickContinues(f)
  PROVE  Inv'
<1> USE DEF Inv, bootVars
<1>1. /\ current # NULL /\ ~locked
      /\ cpu' = f
      /\ wake_in' = TicksLeft
      /\ state' = Woken
      /\ run_queue' = run_queue
      /\ allocated' = allocated
      /\ quantum' = [quantum EXCEPT ![current] = QuantumLeft]
      /\ UNCHANGED <<current, context, bootVars>>
  BY NothingToReap DEF TickContinues
<1>2. current \in ThreadObjects /\ quantum[current] \in 1..QUANTUM /\ QuantumLeft \in 1..QUANTUM
  BY <1>1, QuantumAssumption DEF TypeOK, TickContinues, QuantumLeft
<1>3. Woken[current] = state[current]
  BY <1>2, WakingFacts DEF QueueIsSound
<1>4. TypeOK'
  BY <1>1, <1>2, WakingFacts DEF TypeOK, FrameOK
<1>5. QueueIsSound'
  BY <1>1, WakingFacts DEF QueueIsSound
<1>6. NoThreadLost'
  <2>1. \A t \in Threads : Alive(t)' => Alive(t)
    BY <1>1, WakingFacts DEF Alive, ThreadObjects, TypeOK, ThreadStates
  <2>2. cpu.rip \in {"link", "publish"} => FALSE
    BY <1>1 DEF KmainPoint
  <2> QED BY <1>1, <2>1, <2>2 DEF NoThreadLost
<1>7. LockHeldByKmain' /\ NoUseAfterFree'
  BY <1>1 DEF LockHeldByKmain, NoUseAfterFree, FrameOK
<1>8. RunsOnOwnStack'
  BY <1>1, <1>2 DEF RunsOnOwnStack, FrameOK, ThreadPoints, ThreadObjects
<1>9. current \in Threads =>
        /\ f.rip \in {"run", "yield", "int", "exit_yield"}
        /\ state[current] = "dead" <=> f.rip = "exit_yield"
        /\ f.rip \in {"run", "int"} => state[current] = "running"
  BY <1>2 DEF FrameOK
<1>10. CurrentPoint'
  BY <1>1, <1>3, <1>9 DEF CurrentPoint
<1>11. SleepAndExitHold'
  BY <1>1, <1>3, <1>9, WakingFacts DEF SleepAndExitHold, AwakeHasNoTicks
<1>12. ExitedThreadsLeak'
  BY <1>1, WakingFacts DEF ExitedThreadsLeak, ThreadObjects
<1>13. AwakeHasNoTicks'
  BY <1>1, WakingFacts DEF AwakeHasNoTicks
<1>14. f.rip \notin {"create", "link", "publish", "scheduler_unlock"}
  <2>1. CASE current \in Threads
    BY <2>1, <1>9
  <2>2. CASE current \notin Threads
    BY <2>2, <1>1 DEF FrameOK, KmainPoint
  <2> QED BY <2>1, <2>2
<1>15. SavedContexts' /\ KmainPoint'
  BY <1>1, <1>14 DEF SavedContexts, KmainPoint
<1> QED BY <1>4, <1>5, <1>6, <1>7, <1>8, <1>10, <1>11, <1>12, <1>13, <1>15

\* Interrupts that switch threads.
LEMMA SwitchKeepsInv ==
  ASSUME Inv, NEW f, FrameOK(f), TickSwitches(f)
  PROVE  Inv'
<1> USE DEF Inv, bootVars
<1>1. /\ current # NULL /\ ~locked
      /\ wake_in' = TicksLeft
      /\ allocated' = allocated
      /\ run_queue' = Requeued
      /\ state' = SwitchedState
      /\ quantum' = SwitchedQuantum
      /\ context' = SavedContext(f)
      /\ current' = Picked
      /\ cpu' = context'[Picked]
      /\ locked' = locked /\ th' = th /\ th_next' = th_next
  BY NothingToReap DEF TickSwitches
<1>2. current \in ThreadObjects /\ Picked \in ThreadObjects
  BY <1>1, PickFacts DEF TypeOK
<1>3. /\ Picked # IDLE => Picked \in ToSet(run_queue) /\ Picked \in Threads /\ Picked # current
      /\ IDLE \notin Threads
  BY PickFacts, QueuedAreThreads, ThreadsAssumption DEF QueueIsSound
<1>4. cpu.rip \notin {"create", "link", "publish", "scheduler_unlock"}
  BY <1>1 DEF KmainPoint
<1>5. context' \in [ThreadObjects -> Registers]
  BY <1>1, <1>2 DEF SavedContext, TypeOK, FrameOK
<1>6. context'[Picked] = context[Picked] /\ context'[IDLE] = context[IDLE]
  BY <1>1, <1>2, <1>3 DEF SavedContext, TypeOK
<1>7. current \in Threads => context'[current] = f
  BY <1>1, <1>2, <1>3 DEF SavedContext, TypeOK
<1>8. \A t \in Threads : t # current => context'[t] = context[t]
  BY <1>1, <1>2 DEF SavedContext, TypeOK
<1>9. /\ state' \in [ThreadObjects -> ThreadStates]
      /\ state'[Picked] = "running"
      /\ \A t \in ThreadObjects : t # Picked =>
           state'[t] = IF t = current /\ t # IDLE /\ Woken[t] = "running" THEN "ready" ELSE Woken[t]
  <2>1. Woken \in [ThreadObjects -> ThreadStates]
    BY WakingFacts
  <2> QED BY <1>1, <1>2, <2>1 DEF SwitchedState, ThreadStates
<1>10. quantum' \in [ThreadObjects -> 0..QUANTUM]
  BY <1>1, <1>2, QuantumAssumption DEF SwitchedQuantum, TypeOK
<1>11. /\ cpu' \in Registers
       /\ Picked = IDLE => cpu' = [rip |-> "idle_fn", stack |-> IDLE]
       /\ Picked # IDLE => cpu' \in [rip : {"run", "yield", "int"}, stack : {Picked}]
  <2>1. cpu' \in Registers
    BY <1>1, <1>2, <1>5
  <2>2. Picked = IDLE => cpu' = [rip |-> "idle_fn", stack |-> IDLE]
    BY <1>1, <1>6 DEF SavedContexts
  <2>3. Picked # IDLE => cpu' \in [rip : {"run", "yield", "int"}, stack : {Picked}]
    BY <1>1, <1>3, <1>6 DEF SavedContexts
  <2> QED BY <2>1, <2>2, <2>3
<1>12. cpu'.stack = Picked
       /\ cpu'.rip \in (IF Picked = IDLE THEN {"idle_fn"} ELSE {"run", "yield", "int"})
  BY <1>11
<1>13. TypeOK'
  BY <1>1, <1>2, <1>5, <1>9, <1>10, <1>11, WakingFacts, RequeueFacts DEF TypeOK
<1>14. current \in Threads => Woken[current] = state[current]
  BY <1>2, WakingFacts DEF QueueIsSound
<1>15. QueueIsSound'
  <2>1. IsInjective(run_queue')
    BY <1>1, RequeueFacts
  <2>2. Picked \notin ToSet(run_queue')
    BY <1>1, <1>3, RequeueFacts
  <2>3. ASSUME NEW t \in ToSet(run_queue')
        PROVE  state'[t] \in {"ready", "blocked"}
    <3>1. CASE t = current
      <4>1. t \in Threads /\ state[t] # "dead" /\ state[t] \in {"running", "blocked", "dead"}
        BY <3>1, <1>1, <2>3, RequeueFacts, QueuedAreThreads DEF CurrentPoint, QueueIsSound
      <4> QED BY <4>1, <3>1, <1>1, <1>3, <1>9, <1>14, <2>2, <2>3 DEF ThreadObjects
    <3>2. CASE t # current
      <4>1. t \in ToSet(run_queue) /\ t \in Threads /\ t # Picked
        BY <3>2, <1>1, <2>2, <2>3, RequeueFacts, QueuedAreThreads
      <4> QED BY <4>1, <3>2, <1>9, WakingFacts DEF ThreadObjects
    <3> QED BY <3>1, <3>2
  <2> QED BY <1>1, <2>1, <2>2, <2>3 DEF QueueIsSound
<1>16. \A t \in Threads : (t \in ToSet(run_queue) \/ (t = current /\ state[t] # "dead")) =>
         t = Picked \/ t \in ToSet(run_queue')
  BY <1>1, RequeueFacts
<1>17. NoThreadLost'
  <2>1. SUFFICES ASSUME NEW t \in Threads, Alive(t)', t # Picked
                 PROVE  t \in ToSet(run_queue')
    BY <1>1 DEF NoThreadLost
  <2>2. Alive(t) /\ state[t] # "dead"
    <3>1. state[t] \in ThreadStates /\ Woken[t] \in ThreadStates /\ t \in ThreadObjects
      BY WakingFacts DEF TypeOK, ThreadObjects
    <3>2. Woken[t] \notin {"dead", "none"}
      BY <3>1, <2>1, <1>9 DEF Alive
    <3> QED BY <3>1, <3>2, WakingFacts DEF Alive, ThreadStates
  <2> QED BY <2>1, <2>2, <1>4, <1>16 DEF NoThreadLost
<1>18. LockHeldByKmain'
  BY <1>1 DEF LockHeldByKmain
<1>19. RunsOnOwnStack'
  BY <1>1, <1>2, <1>3, <1>12, ThreadsAssumption DEF RunsOnOwnStack, ThreadPoints, ThreadObjects
<1>20. AwakeHasNoTicks'
  <2>1. SUFFICES ASSUME NEW t \in Threads, state'[t] \in {"ready", "running"}
                 PROVE  TicksLeft[t] = 0
    BY <1>1 DEF AwakeHasNoTicks
  <2>2. CASE t = Picked
    BY <2>2, <1>3, PickFacts, WakingFacts
  <2>3. CASE t # Picked
    <3>1. Woken[t] \in {"ready", "running"}
      BY <2>1, <2>3, <1>9 DEF ThreadObjects
    <3> QED BY <3>1, WakingFacts
  <2> QED BY <2>2, <2>3
<1>21. SleepAndExitHold' /\ CurrentPoint'
  <2>1. SUFFICES ASSUME Picked \in Threads
                 PROVE  SleepAndExitHold' /\ CurrentPoint'
    BY <1>1 DEF SleepAndExitHold, CurrentPoint
  <2>2. cpu'.rip \in {"run", "yield", "int"} /\ state'[Picked] = "running" /\ wake_in'[Picked] = 0
    BY <2>1, <1>3, <1>9, <1>12, <1>20 DEF AwakeHasNoTicks
  <2> QED BY <1>1, <2>2 DEF SleepAndExitHold, CurrentPoint
<1>22. NoUseAfterFree'
  <2>1. ToSet(run_queue') \subseteq ToSet(run_queue) \cup ({current} \cap Threads)
    BY <1>1, RequeueFacts
  <2>2. {current', cpu'.stack} \cap Threads \subseteq ToSet(run_queue)
    BY <1>1, <1>3, <1>12
  <2> QED BY <1>1, <2>1, <2>2 DEF NoUseAfterFree
<1>23. ExitedThreadsLeak'
  <2>1. SUFFICES ASSUME NEW t \in Threads, state'[t] = "dead"
                 PROVE  t \in allocated
    BY <1>1 DEF ExitedThreadsLeak
  <2>2. state[t] = "dead"
    BY <2>1, <1>9, WakingFacts DEF ThreadObjects
  <2> QED BY <2>2 DEF ExitedThreadsLeak
<1>24. SavedContexts'
  <2>1. SUFFICES ASSUME NEW t \in Threads, t \in ToSet(run_queue')
                 PROVE  context'[t] \in [rip : {"run", "yield", "int"}, stack : {t}]
    BY <1>1, <1>6, <1>12 DEF SavedContexts
  <2>2. CASE t = current
    <3>1. state[current] # "dead"
      BY <2>1, <2>2, <1>1, RequeueFacts DEF QueueIsSound
    <3>2. f.rip \in {"run", "yield", "int"} /\ f.stack = current /\ f \in [rip : Points, stack : ThreadObjects]
      BY <2>2, <3>1, <1>1 DEF FrameOK, RunsOnOwnStack, Registers
    <3> QED BY <2>2, <3>2, <1>7
  <2>3. CASE t # current
    <3>1. t \in ToSet(run_queue)
      BY <2>1, <2>3, <1>1, RequeueFacts
    <3> QED BY <2>3, <3>1, <1>8 DEF SavedContexts
  <2> QED BY <2>2, <2>3
<1>25. KmainPoint'
  BY <1>1, <1>2, <1>12, ThreadsAssumption DEF KmainPoint, ThreadObjects
<1> QED BY <1>13, <1>15, <1>17, <1>18, <1>19, <1>20, <1>21, <1>22, <1>23, <1>24, <1>25

\* isr_handler, whatever it interrupted.
LEMMA Vector32KeepsInv ==
  ASSUME Inv, NEW f, FrameOK(f), Vector32(f)
  PROVE  Inv'
BY IgnoredKeepsInv, ContinuesKeepsInv, SwitchKeepsInv DEF Vector32

-----------------------------------------------------------------------------
(***************************************************************************)
(* The invariant is preserved: the calls of a thread and the steps of      *)
(* kmain.                                                                  *)
(***************************************************************************)

\* What is known of the running thread at its own code or in scheduler_yield.
LEMMA ThreadAtWork ==
  ASSUME Inv, current \in Threads
  PROVE  /\ current \in ThreadObjects /\ current \notin ToSet(run_queue)
         /\ current # IDLE /\ current # NULL /\ ~locked
         /\ cpu.stack = current /\ cpu \in [rip : Points, stack : ThreadObjects]
         /\ cpu.rip \notin {"create", "link", "publish", "scheduler_unlock"}
         /\ current \in allocated
BY ThreadsAssumption DEF Inv, TypeOK, Registers, QueueIsSound, LockHeldByKmain,
   RunsOnOwnStack, KmainPoint, ThreadObjects, NoUseAfterFree

\* thread_sleep, thread_exit and the first half of scheduler_yield.
LEMMA ThreadCallsKeepInv ==
  ASSUME Inv,
         (\E ms \in 0..MaxSleep : ThreadSleep(ms)) \/ ThreadExit \/ CallYield \/ YieldClearsQuantum
  PROVE  Inv'
<1> USE DEF Inv, schedVars, bootVars
<1>1. /\ current \in Threads
      /\ cpu.rip \in {"run", "yield", "exit_yield"}
      /\ UNCHANGED <<run_queue, current, context, allocated, locked, th, th_next>>
  BY DEF ThreadSleep, ThreadExit, CallYield, YieldClearsQuantum, At
<1>2. cpu' \in Registers /\ cpu'.stack = current
      /\ cpu'.rip \in {"yield", "exit_yield", "int", "exit_int"}
  <2>1. cpu \in [rip : Points, stack : ThreadObjects] /\ cpu.stack = current
    BY <1>1, ThreadAtWork
  <2>2. \E p \in {"yield", "exit_yield", "int", "exit_int"} : cpu' = [cpu EXCEPT !.rip = p]
    BY DEF ThreadSleep, ThreadExit, CallYield, YieldClearsQuantum, GoTo
  <2> QED BY <2>1, <2>2 DEF Registers, Points, ThreadPoints
<1>3. /\ state' \in [ThreadObjects -> ThreadStates]
      /\ quantum' \in [ThreadObjects -> 0..QUANTUM]
      /\ wake_in' \in [Threads -> 0..MaxSleep]
  <2>1. 0 \in 0..QUANTUM /\ current \in ThreadObjects
    BY <1>1, ThreadAtWork, QuantumAssumption
  <2>2. state' \in [ThreadObjects -> ThreadStates]
    BY <1>1 DEF TypeOK, ThreadSleep, ThreadExit, CallYield, YieldClearsQuantum, ThreadStates
  <2>3. quantum' \in [ThreadObjects -> 0..QUANTUM]
    BY <2>1 DEF TypeOK, ThreadSleep, ThreadExit, CallYield, YieldClearsQuantum
  <2>4. wake_in' \in [Threads -> 0..MaxSleep]
    BY <1>1 DEF TypeOK, ThreadSleep, ThreadExit, CallYield, YieldClearsQuantum
  <2> QED BY <2>2, <2>3, <2>4
<1>4. \A t \in ThreadObjects : t # current => state'[t] = state[t]
  BY <1>1 DEF TypeOK, ThreadSleep, ThreadExit, CallYield, YieldClearsQuantum
<1>5. \A t \in Threads : t # current => wake_in'[t] = wake_in[t]
  BY <1>1 DEF TypeOK, ThreadSleep, ThreadExit, CallYield, YieldClearsQuantum
<1>6. TypeOK'
  BY <1>1, <1>2, <1>3 DEF TypeOK
<1>7. QueueIsSound'
  BY <1>1, <1>4, QueuedAreThreads, ThreadAtWork DEF QueueIsSound, ThreadObjects
<1>8. NoThreadLost'
  BY <1>1, <1>4, ThreadAtWork DEF NoThreadLost, Alive, ThreadObjects
<1>9. LockHeldByKmain' /\ RunsOnOwnStack' /\ NoUseAfterFree' /\ SavedContexts' /\ KmainPoint'
  BY <1>1, <1>2, ThreadAtWork, ThreadsAssumption DEF LockHeldByKmain, RunsOnOwnStack, ThreadPoints,
     NoUseAfterFree, SavedContexts, KmainPoint
<1>10. SleepAndExitHold'
  BY <1>1, <1>2 DEF SleepAndExitHold
<1>11. ExitedThreadsLeak'
  BY <1>1, <1>4, ThreadAtWork DEF ExitedThreadsLeak, ThreadObjects
<1>12. AwakeHasNoTicks'
  <2>1. \A t \in Threads : t # current => (state'[t] \in {"ready", "running"} => wake_in'[t] = 0)
    BY <1>4, <1>5 DEF AwakeHasNoTicks, ThreadObjects
  <2>2. state'[current] \in {"ready", "running"} => wake_in'[current] = 0
    BY <1>1, ThreadAtWork DEF AwakeHasNoTicks, TypeOK, ThreadSleep, ThreadExit, CallYield, YieldClearsQuantum
  <2> QED BY <2>1, <2>2 DEF AwakeHasNoTicks
<1>13. CurrentPoint'
  <2>1. CASE \E ms \in 0..MaxSleep : ThreadSleep(ms)
    BY <2>1, <1>1, ThreadAtWork DEF ThreadSleep, GoTo, CurrentPoint, TypeOK, Registers
  <2>2. CASE ThreadExit
    BY <2>2, <1>1, ThreadAtWork DEF ThreadExit, GoTo, CurrentPoint, TypeOK, Registers
  <2>3. CASE CallYield
    BY <2>3, <1>1, ThreadAtWork DEF CallYield, At, GoTo, CurrentPoint, TypeOK, Registers
  <2>4. CASE YieldClearsQuantum
    <3>1. quantum'[current'] = 0 /\ state' = state
      BY <2>4, <1>1, ThreadAtWork DEF YieldClearsQuantum, TypeOK
    <3>2. cpu.rip \in {"yield", "exit_yield"}
          /\ cpu'.rip = IF cpu.rip = "yield" THEN "int" ELSE "exit_int"
      BY <2>4, <1>1, ThreadAtWork DEF YieldClearsQuantum, At, GoTo
    <3> QED BY <1>1, <3>1, <3>2 DEF CurrentPoint
  <2> QED BY <2>1, <2>2, <2>3, <2>4
<1> QED BY <1>6, <1>7, <1>8, <1>9, <1>10, <1>11, <1>12, <1>13

\* While kmain has the CPU no thread is current.
LEMMA KmainAtWork ==
  ASSUME Inv, cpu.rip \in KmainPoints
  PROVE  /\ current \notin Threads
         /\ cpu.rip # "scheduler_init" => current = IDLE
         /\ cpu.stack = IDLE /\ cpu \in [rip : Points, stack : ThreadObjects]
         /\ IDLE \in ThreadObjects /\ IDLE \notin ToSet(run_queue)
<1>1. current \notin Threads
  BY DEF Inv, RunsOnOwnStack, KmainPoints, ThreadPoints
<1>2. cpu.rip # "scheduler_init" => current = IDLE
  BY <1>1 DEF Inv, KmainPoint, TypeOK, ThreadObjects
<1>3. cpu.stack = IDLE
  BY <1>1, <1>2, ThreadsAssumption DEF Inv, RunsOnOwnStack, TypeOK, ThreadObjects
<1> QED BY <1>1, <1>2, <1>3, ThreadsAssumption, QueuedAreThreads DEF Inv, TypeOK, Registers, ThreadObjects

\* A step of kmain to point p that touches no thread but possibly idle_thread.
LEMMA BootStepKeepsInv ==
  ASSUME Inv, NEW p \in {"scheduler_lock", "create", "hang", "halted"}, GoTo(p),
         SchedulerInit \/ SchedulerLock \/ ThreadCreateFails \/ SchedulerUnlock
  PROVE  Inv'
<1> USE DEF Inv, schedVars, bootVars, KmainAt
<1>1. cpu.rip \in KmainPoints
  BY DEF SchedulerInit, SchedulerLock, ThreadCreateFails, SchedulerUnlock, KmainPoints
<1>2. cpu' \in Registers /\ cpu'.rip = p /\ cpu'.stack = IDLE
  BY <1>1, KmainAtWork DEF GoTo, Registers, Points, KmainPoints
<1>3. /\ UNCHANGED <<run_queue, wake_in, allocated, th, th_next>>
      /\ \A t \in Threads : state'[t] = state[t] /\ context'[t] = context[t]
      /\ state' \in [ThreadObjects -> ThreadStates]
      /\ quantum' \in [ThreadObjects -> 0..QUANTUM]
      /\ context' \in [ThreadObjects -> Registers]
  <2>1. UNCHANGED <<run_queue, wake_in, allocated, th, th_next>>
    BY DEF SchedulerInit, SchedulerLock, ThreadCreateFails, SchedulerUnlock
  <2>2. CASE SchedulerInit
    <3>1. IDLE \in ThreadObjects /\ IDLE \notin Threads /\ QUANTUM \in 0..QUANTUM
      BY ThreadsAssumption, QuantumAssumption DEF ThreadObjects
    <3>2. [rip |-> "idle_fn", stack |-> IDLE] \in Registers
      BY <3>1 DEF Registers, Points
    <3> QED BY <2>1, <2>2, <3>1, <3>2 DEF SchedulerInit, TypeOK, ThreadStates, ThreadObjects
  <2>3. CASE ~SchedulerInit
    BY <2>1, <2>3 DEF SchedulerLock, ThreadCreateFails, SchedulerUnlock, TypeOK
  <2> QED BY <2>2, <2>3
<1>4. /\ current' = IDLE
      /\ context'[IDLE] = [rip |-> "idle_fn", stack |-> IDLE]
  <2>1. CASE SchedulerInit
    BY <2>1 DEF SchedulerInit, TypeOK, ThreadObjects
  <2>2. CASE ~SchedulerInit
    <3>1. current' = current /\ context' = context /\ current = IDLE
      BY <2>2, <1>1, KmainAtWork DEF SchedulerLock, ThreadCreateFails, SchedulerUnlock
    <3> QED BY <3>1, ThreadsAssumption DEF SavedContexts
  <2> QED BY <2>1, <2>2
<1>5. /\ locked' \in BOOLEAN
      /\ locked' => p \in {"create", "halted"}
      /\ p = "create" => locked'
      /\ cpu.rip \notin {"link", "publish"}
  <2>0. \A x \in Points : GoTo(x) => x = p
    BY <1>1, <1>2, KmainAtWork DEF GoTo
  <2>1. CASE SchedulerInit
    <3>1. p = "scheduler_lock" /\ locked' = locked /\ cpu.rip = "scheduler_init"
      BY <2>0, <2>1 DEF SchedulerInit, Points, KmainPoints
    <3> QED BY <3>1 DEF LockHeldByKmain, TypeOK
  <2>2. CASE SchedulerLock
    <3>1. p = "create" /\ locked' = TRUE /\ cpu.rip = "scheduler_lock"
      BY <2>0, <2>2 DEF SchedulerLock, Points, KmainPoints
    <3> QED BY <3>1
  <2>3. CASE ThreadCreateFails
    <3>1. p = "halted" /\ locked' = locked /\ cpu.rip = "create"
      BY <2>0, <2>3 DEF ThreadCreateFails, Points
    <3> QED BY <3>1 DEF TypeOK
  <2>4. CASE SchedulerUnlock
    <3>1. p = "hang" /\ locked' = FALSE /\ cpu.rip = "scheduler_unlock"
      BY <2>0, <2>4 DEF SchedulerUnlock, Points, KmainPoints
    <3> QED BY <3>1
  <2> QED BY <2>1, <2>2, <2>3, <2>4
<1>6. TypeOK'
  BY <1>2, <1>3, <1>4, <1>5 DEF TypeOK, ThreadObjects
<1>7. QueueIsSound'
  BY <1>1, <1>3, <1>4, KmainAtWork, QueuedAreThreads DEF QueueIsSound
<1>8. NoThreadLost'
  BY <1>1, <1>3, <1>5, KmainAtWork DEF NoThreadLost, Alive
<1>9. LockHeldByKmain' /\ RunsOnOwnStack'
  BY <1>2, <1>4, <1>5, ThreadsAssumption DEF LockHeldByKmain, RunsOnOwnStack, ThreadPoints
<1>10. SleepAndExitHold' /\ CurrentPoint'
  BY <1>4, ThreadsAssumption DEF SleepAndExitHold, CurrentPoint
<1>11. NoUseAfterFree'
  BY <1>2, <1>3, <1>4, ThreadsAssumption DEF NoUseAfterFree
<1>12. ExitedThreadsLeak' /\ AwakeHasNoTicks'
  BY <1>3 DEF ExitedThreadsLeak, AwakeHasNoTicks
<1>13. SavedContexts'
  BY <1>2, <1>3, <1>4 DEF SavedContexts
<1>14. KmainPoint'
  BY <1>2, <1>4, <1>5, ThreadsAssumption DEF KmainPoint
<1> QED BY <1>6, <1>7, <1>8, <1>9, <1>10, <1>11, <1>12, <1>13, <1>14

\* kmain gets a new thread from thread_create.
LEMMA ThreadCreateKeepsInv ==
  ASSUME Inv, NEW u \in Threads, ThreadCreate(u)
  PROVE  Inv'
<1> USE DEF Inv, KmainAt
<1>1. /\ cpu.rip = "create" /\ locked /\ current = IDLE /\ current' = IDLE
      /\ state[u] = "none" /\ u \notin ToSet(run_queue) /\ u # IDLE
      /\ u \in ThreadObjects
  BY KmainAtWork, ThreadsAssumption DEF ThreadCreate, KmainPoint, KmainPoints, QueueIsSound, ThreadObjects
<1>2. cpu' \in Registers /\ cpu'.rip = "link" /\ cpu'.stack = IDLE
  BY <1>1, KmainAtWork DEF ThreadCreate, GoTo, Registers, Points, KmainPoints
<1>3. /\ UNCHANGED <<run_queue, locked, th_next>>
      /\ th' = u /\ allocated' = allocated \cup {u}
  BY DEF ThreadCreate
<1>4. /\ \A t \in ThreadObjects : t # u => state'[t] = state[t] /\ context'[t] = context[t]
      /\ \A t \in Threads : t # u => wake_in'[t] = wake_in[t]
      /\ state'[u] = "ready" /\ wake_in'[u] = 0
      /\ context'[u] = [rip |-> "run", stack |-> u]
  BY <1>1 DEF ThreadCreate, TypeOK
<1>5. TypeOK'
  <2>1. [rip |-> "run", stack |-> u] \in Registers /\ QUANTUM \in 0..QUANTUM /\ 0 \in 0..MaxSleep
    BY <1>1, QuantumAssumption, SleepAssumption DEF Registers, Points, ThreadPoints
  <2>2. state' \in [ThreadObjects -> ThreadStates] /\ quantum' \in [ThreadObjects -> 0..QUANTUM]
    BY <2>1 DEF ThreadCreate, TypeOK, ThreadStates
  <2>3. wake_in' \in [Threads -> 0..MaxSleep] /\ context' \in [ThreadObjects -> Registers]
    BY <2>1 DEF ThreadCreate, TypeOK
  <2> QED BY <1>1, <1>2, <1>3, <2>2, <2>3 DEF TypeOK, ThreadObjects
<1>6. QueueIsSound'
  BY <1>1, <1>3, <1>4, QueuedAreThreads DEF QueueIsSound, ThreadObjects
<1>7. NoThreadLost'
  BY <1>1, <1>2, <1>3, <1>4, ThreadsAssumption DEF NoThreadLost, Alive, ThreadObjects
<1>8. LockHeldByKmain' /\ RunsOnOwnStack'
  BY <1>1, <1>2, <1>3, ThreadsAssumption DEF LockHeldByKmain, RunsOnOwnStack, ThreadPoints
<1>9. SleepAndExitHold' /\ CurrentPoint'
  BY <1>1, ThreadsAssumption DEF SleepAndExitHold, CurrentPoint
<1>10. NoUseAfterFree'
  BY <1>1, <1>2, <1>3, ThreadsAssumption DEF NoUseAfterFree
<1>11. ExitedThreadsLeak' /\ AwakeHasNoTicks'
  BY <1>3, <1>4 DEF ExitedThreadsLeak, AwakeHasNoTicks, ThreadObjects
<1>12. SavedContexts'
  <2>1. ASSUME NEW t \in Threads, t \in ToSet(run_queue) \/ t = u
        PROVE  context'[t] \in [rip : {"run", "yield", "int"}, stack : {t}]
    BY <2>1, <1>1, <1>4 DEF SavedContexts, ThreadObjects
  <2>2. context'[IDLE] = [rip |-> "idle_fn", stack |-> IDLE]
    BY <1>1, <1>4, ThreadsAssumption DEF SavedContexts, ThreadObjects
  <2> QED BY <1>3, <2>1, <2>2 DEF SavedContexts
<1>13. KmainPoint'
  BY <1>1, <1>2, <1>3, <1>4, ThreadsAssumption DEF KmainPoint
<1> QED BY <1>5, <1>6, <1>7, <1>8, <1>9, <1>10, <1>11, <1>12, <1>13

\* The two stores of scheduler_add_thread.
LEMMA AddThreadKeepsInv ==
  ASSUME Inv, AddThreadLinks \/ AddThreadPublishes
  PROVE  Inv'
<1> USE DEF Inv, KmainAt, schedVars
<1>1. /\ cpu.rip \in {"link", "publish"} /\ locked /\ current = IDLE
      /\ th \in Threads /\ th \in allocated /\ th \notin ToSet(run_queue) /\ state[th] = "ready"
      /\ UNCHANGED <<current, state, quantum, wake_in, context, allocated, locked>>
  BY KmainAtWork DEF AddThreadLinks, AddThreadPublishes, KmainPoint, KmainPoints, TypeOK
<1>2. cpu' \in Registers /\ cpu'.stack = IDLE
      /\ cpu'.rip \in {"publish", "create", "scheduler_unlock"}
  <2>1. \E p \in {"publish", "create", "scheduler_unlock"} : cpu' = [cpu EXCEPT !.rip = p]
    BY DEF AddThreadLinks, AddThreadPublishes, GoTo
  <2> QED BY <2>1, <1>1, KmainAtWork DEF Registers, Points, KmainPoints
<1>3. LockHeldByKmain' /\ RunsOnOwnStack' /\ SleepAndExitHold' /\ CurrentPoint'
  BY <1>1, <1>2, ThreadsAssumption
     DEF LockHeldByKmain, RunsOnOwnStack, ThreadPoints, SleepAndExitHold, CurrentPoint
<1>4. ExitedThreadsLeak' /\ AwakeHasNoTicks'
  BY <1>1 DEF ExitedThreadsLeak, AwakeHasNoTicks
<1>5. CASE AddThreadLinks
  <2>1. run_queue' = run_queue /\ th' = th /\ th_next' = run_queue /\ cpu.rip = "link" /\ cpu'.rip = "publish"
    BY <1>5, <1>1, KmainAtWork DEF AddThreadLinks, GoTo, KmainPoints
  <2>2. TypeOK' /\ QueueIsSound' /\ NoThreadLost'
    BY <1>1, <1>2, <2>1 DEF TypeOK, QueueIsSound, NoThreadLost, Alive
  <2>3. NoUseAfterFree' /\ SavedContexts' /\ KmainPoint'
    BY <1>1, <1>2, <2>1, ThreadsAssumption DEF NoUseAfterFree, SavedContexts, KmainPoint
  <2> QED BY <1>3, <1>4, <2>2, <2>3
<1>6. CASE AddThreadPublishes
  <2>1. /\ run_queue' = <<th>> \o run_queue /\ th' = NULL /\ th_next' = <<>>
        /\ cpu'.rip \in {"create", "scheduler_unlock"} /\ cpu.rip = "publish"
    <3>1. run_queue' = <<th>> \o run_queue /\ th' = NULL /\ th_next' = <<>> /\ cpu.rip = "publish"
      BY <1>6 DEF AddThreadPublishes, KmainPoint
    <3>2. \E p \in {"create", "scheduler_unlock"} : cpu' = [cpu EXCEPT !.rip = p]
      BY <1>6 DEF AddThreadPublishes, GoTo
    <3> QED BY <3>1, <3>2, <1>1, KmainAtWork DEF KmainPoints
  <2>2. /\ run_queue' \in Seq(Threads) /\ IsInjective(run_queue')
        /\ ToSet(run_queue') = ToSet(run_queue) \cup {th}
    BY <1>1, <2>1, PushFront DEF TypeOK, QueueIsSound
  <2>3. TypeOK'
    BY <1>1, <1>2, <2>1, <2>2 DEF TypeOK
  <2>4. QueueIsSound'
    BY <1>1, <2>2, ThreadsAssumption DEF QueueIsSound
  <2>5. NoThreadLost'
    BY <1>1, <2>2 DEF NoThreadLost, Alive
  <2>6. NoUseAfterFree'
    BY <1>1, <1>2, <2>2, ThreadsAssumption DEF NoUseAfterFree
  <2>7. SavedContexts' /\ KmainPoint'
    BY <1>1, <2>1, <2>2, ThreadsAssumption DEF SavedContexts, KmainPoint
  <2> QED BY <1>3, <1>4, <2>3, <2>4, <2>5, <2>6, <2>7
<1> QED BY <1>5, <1>6

-----------------------------------------------------------------------------
(***************************************************************************)
(* The theorems.                                                           *)
(***************************************************************************)

\* The statics before scheduler_init satisfy the invariant.
LEMMA InitEstablishesInv == Init => Inv
<1> SUFFICES ASSUME Init PROVE Inv
  OBVIOUS
<1> USE DEF Init
<1>1. ToSet(run_queue) = {} /\ IsInjective(run_queue)
  BY DEF ToSet, IsInjective
<1>2. 0 \in 0..QUANTUM /\ 0 \in 0..MaxSleep /\ IDLE \in ThreadObjects
  BY QuantumAssumption, SleepAssumption DEF ThreadObjects
<1>3. TypeOK
  <2>1. cpu \in Registers /\ \A t \in ThreadObjects : [rip |-> "halted", stack |-> t] \in Registers
    BY <1>2 DEF Registers, Points, KmainPoints
  <2>2. run_queue \in Seq(Threads) /\ th_next \in Seq(Threads)
    OBVIOUS
  <2>3. /\ state \in [ThreadObjects -> ThreadStates]
        /\ quantum \in [ThreadObjects -> 0..QUANTUM]
        /\ wake_in \in [Threads -> 0..MaxSleep]
        /\ context \in [ThreadObjects -> Registers]
    BY <1>2, <2>1 DEF ThreadStates
  <2> QED BY <2>1, <2>2, <2>3 DEF TypeOK
<1>4. /\ QueueIsSound /\ NoThreadLost /\ LockHeldByKmain /\ RunsOnOwnStack
      /\ SleepAndExitHold /\ NoUseAfterFree /\ ExitedThreadsLeak
  BY <1>1, ThreadsAssumption DEF QueueIsSound, NoThreadLost, Alive, LockHeldByKmain, RunsOnOwnStack,
     SleepAndExitHold, NoUseAfterFree, ExitedThreadsLeak, ThreadObjects
<1>5. SavedContexts /\ AwakeHasNoTicks /\ CurrentPoint /\ KmainPoint
  BY <1>1, ThreadsAssumption DEF SavedContexts, AwakeHasNoTicks, CurrentPoint, KmainPoint
<1> QED BY <1>3, <1>4, <1>5 DEF Inv

\* Every step keeps the invariant.
LEMMA NextKeepsInv == Inv /\ [Next]_vars => Inv'
<1> SUFFICES ASSUME Inv, [Next]_vars PROVE Inv'
  OBVIOUS
<1>1. CASE TimerInterrupt
  BY <1>1, TimerFrame, Vector32KeepsInv DEF TimerInterrupt
<1>2. CASE ThreadStep
  <2>1. CASE YieldInterrupt
    BY <2>1, YieldFrame, Vector32KeepsInv DEF YieldInterrupt
  <2>2. CASE ~YieldInterrupt
    BY <1>2, <2>2, ThreadCallsKeepInv DEF ThreadStep
  <2> QED BY <2>1, <2>2
<1>3. CASE KmainStep
  <2>1. CASE SchedulerInit
    BY <2>1, BootStepKeepsInv DEF SchedulerInit
  <2>2. CASE SchedulerLock
    BY <2>2, BootStepKeepsInv DEF SchedulerLock
  <2>3. CASE ThreadCreateFails
    BY <2>3, BootStepKeepsInv DEF ThreadCreateFails
  <2>4. CASE SchedulerUnlock
    BY <2>4, BootStepKeepsInv DEF SchedulerUnlock
  <2>5. CASE \E t \in Threads : ThreadCreate(t)
    BY <2>5, ThreadCreateKeepsInv
  <2>6. CASE AddThreadLinks \/ AddThreadPublishes
    BY <2>6, AddThreadKeepsInv
  <2> QED BY <1>3, <2>1, <2>2, <2>3, <2>4, <2>5, <2>6 DEF KmainStep
<1>4. CASE UNCHANGED vars
  BY <1>4 DEF vars, Inv, TypeOK, QueueIsSound, NoThreadLost, Alive, LockHeldByKmain, RunsOnOwnStack,
     SleepAndExitHold, NoUseAfterFree, ExitedThreadsLeak, SavedContexts, AwakeHasNoTicks,
     CurrentPoint, KmainPoint
<1> QED BY <1>1, <1>2, <1>3, <1>4 DEF Next

\* The invariant holds in every state the scheduler and its threads reach.
THEOREM InvHolds == Spec => []Inv
<1> QED BY InitEstablishesInv, NextKeepsInv, PTL DEF Spec

\* Every variable of the scheduler keeps its type; in particular the uint8_t
\* quantum never wraps below 0 nor exceeds SCHEDULER_QUANTUM.
THEOREM TypeCorrect == Spec => []TypeOK
<1>1. Inv => TypeOK
  BY DEF Inv
<1> QED BY <1>1, InvHolds, PTL

\* The run queue stays a list without repetition of ready and blocked threads,
\* current is not in it, and no thread that is alive is ever dropped.
THEOREM NoThreadIsLost == Spec => [](QueueIsSound /\ NoThreadLost)
<1>1. Inv => QueueIsSound /\ NoThreadLost
  BY DEF Inv
<1> QED BY <1>1, InvHolds, PTL

\* The CPU runs the code of current on the stack of current, and kmain is
\* never abandoned with the lock taken.
THEOREM SwitchesAreSound == Spec => [](RunsOnOwnStack /\ LockHeldByKmain)
<1>1. Inv => RunsOnOwnStack /\ LockHeldByKmain
  BY DEF Inv
<1> QED BY <1>1, InvHolds, PTL

\* thread_sleep returns only after its wake tick, thread_exit never.
THEOREM CallsHold == Spec => []SleepAndExitHold
<1>1. Inv => SleepAndExitHold
  BY DEF Inv
<1> QED BY <1>1, InvHolds, PTL

\* Nothing in use is freed, and no exited thread is ever freed.
THEOREM MemoryOfThreads == Spec => [](NoUseAfterFree /\ ExitedThreadsLeak)
<1>1. Inv => NoUseAfterFree /\ ExitedThreadsLeak
  BY DEF Inv
<1> QED BY <1>1, InvHolds, PTL

\* A step of the interrupt handler neither revives a dead thread nor gives it
\* the CPU back.
LEMMA Vector32ExitIsFinal ==
  ASSUME Inv, NEW f, Vector32(f), NEW t \in Threads, state[t] = "dead"
  PROVE  state'[t] = "dead" /\ (current # t => current' # t)
<1> USE DEF Inv
<1>1. t \in ThreadObjects /\ t \notin ToSet(run_queue) /\ Woken[t] = "dead" /\ t # IDLE
  BY WakingFacts, ThreadsAssumption DEF QueueIsSound, ThreadObjects
<1>2. CASE TickIgnored(f)
  BY <1>2 DEF TickIgnored, schedVars
<1>3. CASE TickContinues(f)
  BY <1>1, <1>3 DEF TickContinues
<1>4. CASE TickSwitches(f)
  <2>1. t # Picked
    BY <1>1, PickFacts
  <2>2. Woken \in [ThreadObjects -> ThreadStates]
    BY WakingFacts
  <2> QED BY <1>1, <1>4, <2>1, <2>2 DEF TickSwitches, SwitchedState
<1> QED BY <1>2, <1>3, <1>4 DEF Vector32

\* Once thread_exit has marked a thread dead, it stays dead, and once switched
\* away it never gets the CPU again.
THEOREM ExitFinal == Spec => ExitIsFinal
<1>1. ASSUME Inv, [Next]_vars, NEW t \in Threads, state[t] = "dead"
      PROVE  state'[t] = "dead" /\ (current # t => current' # t)
  <2> USE DEF Inv
  <2>1. CASE TimerInterrupt
    BY <1>1, <2>1, Vector32ExitIsFinal DEF TimerInterrupt
  <2>2. CASE YieldInterrupt
    BY <1>1, <2>2, Vector32ExitIsFinal DEF YieldInterrupt
  <2>3. CASE ThreadStep /\ ~YieldInterrupt
    <3>1. current' = current /\ (cpu.rip = "run" => state[current] # "dead" \/ current \notin Threads)
      BY <1>1, <2>3 DEF ThreadStep, ThreadSleep, ThreadExit, CallYield, YieldClearsQuantum, schedVars,
         CurrentPoint
    <3> QED BY <1>1, <2>3, <3>1 DEF ThreadStep, ThreadSleep, ThreadExit, CallYield,
           YieldClearsQuantum, schedVars, At, TypeOK, ThreadObjects
  <2>4. CASE KmainStep
    <3>1. t # IDLE
      BY ThreadsAssumption
    <3>2. current' = current \/ current' = IDLE
      BY <2>4 DEF KmainStep, SchedulerInit, SchedulerLock, ThreadCreate, ThreadCreateFails,
         AddThreadLinks, AddThreadPublishes, SchedulerUnlock, schedVars
    <3>3. state'[t] = "dead"
      BY <1>1, <2>4, <3>1 DEF KmainStep, SchedulerInit, SchedulerLock, ThreadCreate, ThreadCreateFails,
         AddThreadLinks, AddThreadPublishes, SchedulerUnlock, schedVars, TypeOK, ThreadObjects
    <3> QED BY <3>1, <3>2, <3>3
  <2>5. CASE UNCHANGED vars
    BY <1>1, <2>5 DEF vars
  <2> QED BY <1>1, <2>1, <2>2, <2>3, <2>4, <2>5 DEF Next, ThreadStep
<1>2. Inv /\ [Next]_vars =>
        [\A t \in Threads : state[t] = "dead" =>
           state'[t] = "dead" /\ (current # t => current' # t)]_vars
  BY <1>1
<1> QED BY <1>2, InvHolds, PTL DEF Spec, ExitIsFinal

-----------------------------------------------------------------------------
(***************************************************************************)
(* The list itself: module RunQueue, whose steps are the turns of the      *)
(* loops of the tick on thread_t.next.  For every finite set of threads    *)
(* the list stays sound at each turn, and the whole tick is one step on a  *)
(* sequence.                                                               *)
(***************************************************************************)

VARIABLES
  head, next, status, running,       \* run_queue, next, state and current
  created, pc, t, prev, due, expired, picked, before

R == INSTANCE RunQueue WITH run_queue <- head, state <- status, current <- running

Pointers == IsFiniteSet(Threads) /\ IDLE \notin Threads /\ NULL \notin Threads \cup {IDLE}

States == {"ready", "running", "blocked", "dead"}

\* q is the list that begins at p.
Chain(q, p, nx) ==
  /\ q \in Seq(Threads) /\ IsInjective(q)
  /\ p = IF q = <<>> THEN NULL ELSE q[1]
  /\ \A k \in 1..Len(q) : nx[q[k]] = IF k = Len(q) THEN NULL ELSE q[k + 1]

\* Cardinality is the same operator in RunQueue.
LEMMA SameCardinality == \A C : R!Cardinality(C) = Cardinality(C)
BY Zenon DEF R!Cardinality, Cardinality

\* The walk of ListFrom, as the function its recursion defines.
WalkTurn(w, nx) == IF w[Len(w)] = NULL THEN w ELSE Append(w, nx[w[Len(w)]])
IsListWalk(w, nx, p) ==
  w = [k \in 0 .. R!Cardinality(Threads) |->
         IF k = 0 THEN <<p>>
         ELSE IF w[k - 1][Len(w[k - 1])] = NULL THEN w[k - 1]
         ELSE Append(w[k - 1], nx[w[k - 1][Len(w[k - 1])]])]

\* What a walk of k turns has collected: the first k + 1 of the list and its NULL.
Collected(q, k) == [j \in 1 .. (IF k < Len(q) THEN k + 1 ELSE Len(q) + 1) |->
                      IF j = Len(q) + 1 THEN NULL ELSE q[j]]

LEMMA CollectedFacts ==
  ASSUME Pointers, NEW q \in Seq(Threads), NEW k \in Nat
  PROVE  /\ Collected(q, k) \in Seq(Threads \cup {NULL})
         /\ Len(Collected(q, k)) = IF k < Len(q) THEN k + 1 ELSE Len(q) + 1
         /\ Collected(q, k)[Len(Collected(q, k))] = IF k < Len(q) THEN q[k + 1] ELSE NULL
<1>1. Len(q) \in Nat /\ \A j \in 1..Len(q) : q[j] \in Threads
  OBVIOUS
<1> DEFINE m == IF k < Len(q) THEN k + 1 ELSE Len(q) + 1
           w == Collected(q, k)
<1>2. m \in Nat /\ m >= 1 /\ m <= Len(q) + 1 /\ (m = Len(q) + 1 <=> ~(k < Len(q)))
  BY <1>1
<1>3. w = [j \in 1..m |-> IF j = Len(q) + 1 THEN NULL ELSE q[j]]
  BY DEF Collected
<1>m. m = IF k < Len(q) THEN k + 1 ELSE Len(q) + 1
  OBVIOUS
<1> HIDE DEF m, w
<1>4. ASSUME NEW j \in 1..m PROVE (IF j = Len(q) + 1 THEN NULL ELSE q[j]) \in Threads \cup {NULL}
  <2>1. j # Len(q) + 1 => j \in 1..Len(q)
    BY <1>1, <1>2
  <2> QED BY <2>1, <1>1
<1>5. w \in [1..m -> Threads \cup {NULL}]
  BY <1>3, <1>4
<1>6. w \in Seq(Threads \cup {NULL}) /\ Len(w) = m
  BY <1>2, <1>5
<1>7. w[m] = IF k < Len(q) THEN q[k + 1] ELSE NULL
  BY <1>2, <1>3, <1>m
<1> QED BY <1>6, <1>7, <1>m DEF w

\* A turn of the walk collects one more, until the NULL.
LEMMA CollectedTurn ==
  ASSUME Pointers, NEW q, NEW p, NEW nx, Chain(q, p, nx), NEW k \in Nat
  PROVE  /\ WalkTurn(Collected(q, k), nx) = Collected(q, k + 1)
         /\ Collected(q, 0) = <<p>>
<1>1. q \in Seq(Threads) /\ Len(q) \in Nat /\ \A j \in 1..Len(q) : q[j] \in Threads
  BY DEF Chain
<1>2. \A j \in 1..Len(q) : nx[q[j]] = IF j = Len(q) THEN NULL ELSE q[j + 1]
  BY DEF Chain
<1>3. p = IF q = <<>> THEN NULL ELSE q[1]
  BY DEF Chain
<1>4. NULL \notin Threads
  BY DEF Pointers
<1> DEFINE w == Collected(q, k)
           v == Collected(q, k + 1)
           T == Threads \cup {NULL}
<1>5. /\ w \in Seq(T) /\ Len(w) = (IF k < Len(q) THEN k + 1 ELSE Len(q) + 1)
      /\ w[Len(w)] = IF k < Len(q) THEN q[k + 1] ELSE NULL
  BY <1>1, CollectedFacts
<1>6. /\ v \in Seq(T) /\ Len(v) = (IF k + 1 < Len(q) THEN (k + 1) + 1 ELSE Len(q) + 1)
  BY <1>1, CollectedFacts
<1>7. \A j \in 1..Len(w) : w[j] = IF j = Len(q) + 1 THEN NULL ELSE q[j]
  BY <1>5 DEF Collected
<1>8. \A j \in 1..Len(v) : v[j] = IF j = Len(q) + 1 THEN NULL ELSE q[j]
  BY <1>6 DEF Collected
<1> HIDE DEF w, v, T
<1>9. WalkTurn(w, nx) = v
  <2>1. CASE k < Len(q)
    <3>1. k + 1 \in 1..Len(q) /\ w[Len(w)] = q[k + 1] /\ Len(w) = k + 1
      BY <1>1, <1>5, <2>1
    <3>2. w[Len(w)] # NULL
      BY <3>1, <1>1, <1>4
    <3> DEFINE e == nx[q[k + 1]]
               u == Append(w, e)
    <3>3. WalkTurn(w, nx) = u
      BY <3>1, <3>2 DEF WalkTurn
    <3>4. e = IF (k + 1) + 1 = Len(q) + 1 THEN NULL ELSE q[(k + 1) + 1]
      <4>1. e = IF k + 1 = Len(q) THEN NULL ELSE q[(k + 1) + 1]
        BY <3>1, <1>2
      <4>2. k + 1 = Len(q) <=> (k + 1) + 1 = Len(q) + 1
        BY <1>1
      <4> QED BY <4>1, <4>2
    <3>5. e \in T
      <4>1. k + 1 # Len(q) => (k + 1) + 1 \in 1..Len(q)
        BY <3>1, <1>1
      <4>2. k + 1 = Len(q) => e = NULL
        BY <3>1, <1>2
      <4>3. k + 1 # Len(q) => e = q[(k + 1) + 1]
        BY <3>1, <1>2
      <4> QED BY <4>1, <4>2, <4>3, <1>1 DEF T
    <3> HIDE DEF e
    <3>6. /\ u \in Seq(T) /\ Len(u) = Len(w) + 1
          /\ \A j \in 1..Len(w) : u[j] = w[j]
          /\ u[Len(w) + 1] = e
      BY <1>5, <3>5, AppendProperties
    <3>7. Len(u) = Len(v) /\ Len(u) = (k + 1) + 1
      BY <1>1, <1>6, <2>1, <3>1, <3>6
    <3> HIDE DEF u
    <3>8. ASSUME NEW j \in 1..Len(u) PROVE u[j] = v[j]
      <4>1. v[j] = IF j = Len(q) + 1 THEN NULL ELSE q[j]
        BY <3>7, <1>8
      <4>2. CASE j = (k + 1) + 1
        <5>1. u[j] = e
          BY <3>1, <3>6, <4>2
        <5> QED BY <5>1, <4>1, <4>2, <3>4
      <4>3. CASE j # (k + 1) + 1
        <5>1. j \in 1..Len(w)
          BY <3>1, <3>7, <4>3
        <5> QED BY <5>1, <3>6, <1>7, <4>1
      <4> QED BY <4>2, <4>3
    <3>9. u = v
      BY <1>6, <3>6, <3>7, <3>8, SeqEqual
    <3> QED BY <3>3, <3>9
  <2>2. CASE ~(k < Len(q))
    <3>1. w[Len(w)] = NULL
      BY <1>5, <2>2
    <3>2. WalkTurn(w, nx) = w
      BY <3>1 DEF WalkTurn
    <3>3. Len(w) = Len(v)
      BY <1>1, <1>5, <1>6, <2>2
    <3>4. \A j \in 1..Len(w) : w[j] = v[j]
      BY <3>3, <1>7, <1>8
    <3>5. w = v
      BY <1>5, <1>6, <3>3, <3>4, SeqEqual
    <3> QED BY <3>2, <3>5
  <2> QED BY <2>1, <2>2
<1>10. Collected(q, 0) = <<p>>
  <2> DEFINE s == Collected(q, 0)
  <2>1. s \in Seq(T) /\ Len(s) = (IF 0 < Len(q) THEN 0 + 1 ELSE Len(q) + 1)
    BY <1>1, CollectedFacts DEF T
  <2> HIDE DEF s
  <2>2. Len(s) = 1
    BY <1>1, <2>1
  <2>3. s[1] = IF 1 = Len(q) + 1 THEN NULL ELSE q[1]
    BY <2>2, <1>1 DEF Collected, s
  <2>4. q = <<>> <=> 1 = Len(q) + 1
    BY <1>1
  <2>5. s[1] = p
    BY <2>3, <2>4, <1>3
  <2>6. p \in T
    BY <2>1, <2>2, <2>5
  <2>7. s = <<s[1]>>
    BY <2>1, <2>2
  <2> QED BY <2>5, <2>7 DEF s
<1> QED BY <1>9, <1>10 DEF w, v

\* ListFrom finds the list whose first thread it is given.
LEMMA ListIsChain ==
  ASSUME Pointers, NEW q, NEW p, NEW nx, Chain(q, p, nx), Len(q) <= Cardinality(Threads),
         NEW w, IsListWalk(w, nx, p)
  PROVE  LET all == w[R!Cardinality(Threads)]
         IN (IF all[Len(all)] = NULL THEN SubSeq(all, 1, Len(all) - 1) ELSE all) = q
<1> DEFINE N == R!Cardinality(Threads)
           bad == {k \in 0..N : w[k] # Collected(q, k)}
           m == Min(bad)
<1>1. N \in Nat /\ Len(q) <= N
  BY FS_CardinalityType, SameCardinality DEF Pointers
<1>2. w[0] = <<p>> /\ \A k \in 0..N : k # 0 => w[k] = WalkTurn(w[k - 1], nx)
  <2>1. \A k \in 0..N : w[k] = IF k = 0 THEN <<p>>
         ELSE IF w[k - 1][Len(w[k - 1])] = NULL THEN w[k - 1]
         ELSE Append(w[k - 1], nx[w[k - 1][Len(w[k - 1])]])
    BY Zenon DEF IsListWalk
  <2>2. 0 \in 0..N
    BY <1>1
  <2> QED BY <2>1, <2>2, Zenon DEF WalkTurn
<1>3. bad = {}
  <2> SUFFICES ASSUME bad # {} PROVE FALSE
    OBVIOUS
  <2>1. m \in bad /\ \A k \in bad : m =< k
    <3>1. bad \in SUBSET Nat
      BY <1>1
    <3> HIDE DEF bad
    <3> QED BY <3>1, MinIsMember
  <2>2. m \in 0..N /\ w[m] # Collected(q, m)
    BY <2>1
  <2> HIDE DEF m
  <2>3. m # 0
    <3>1. Collected(q, 0) = <<p>>
      BY <1>1, CollectedTurn
    <3> QED BY <3>1, <1>2, <2>2
  <2>4. m - 1 \in 0..N /\ m - 1 \in Nat /\ (m - 1) + 1 = m /\ ~(m =< m - 1)
    BY <1>1, <2>2, <2>3
  <2>5. w[m - 1] = Collected(q, m - 1)
    BY <2>1, <2>4
  <2>6. WalkTurn(w[m - 1], nx) = Collected(q, m)
    BY <2>4, <2>5, CollectedTurn
  <2> QED BY <1>2, <2>2, <2>3, <2>6
<1>4. w[N] = Collected(q, N)
  <2>1. N \in 0..N
    BY <1>1
  <2> QED BY <1>3, <2>1
<1> DEFINE all == w[N]
           T == Threads \cup {NULL}
<1>5. q \in Seq(Threads) /\ Len(q) \in Nat /\ ~(N < Len(q))
  BY <1>1 DEF Chain
<1>6. all \in Seq(T) /\ Len(all) = Len(q) + 1 /\ all[Len(all)] = NULL
  BY <1>1, <1>4, <1>5, CollectedFacts
<1>7. \A j \in 1..Len(q) : all[j] = q[j]
  BY <1>4, <1>5, <1>1 DEF Collected
<1> HIDE DEF all, T
<1> DEFINE s == SubSeq(all, 1, Len(all) - 1)
<1>8. s = q
  <2>1. Len(all) - 1 = Len(q)
    BY <1>5, <1>6
  <2>2. \A j \in 1..Len(q) : all[j] \in Threads
    BY <1>5, <1>7
  <2> DEFINE r == SubSeq(all, 1, Len(q))
  <2>3. /\ r \in Seq(Threads)
        /\ Len(r) = IF 1 <= Len(q) THEN Len(q) - 1 + 1 ELSE 0
        /\ \A j \in 1 .. (Len(q) - 1 + 1) : r[j] = all[1 + j - 1]
    BY <1>5, <2>2, SubSeqProperties
  <2>e. r = s
    BY <2>1
  <2> HIDE DEF r, s
  <2>4. Len(r) = Len(q)
    BY <1>5, <2>3
  <2>5. \A j \in 1..Len(q) : r[j] = q[j]
    <3> TAKE j \in 1..Len(q)
    <3>1. j \in 1 .. (Len(q) - 1 + 1) /\ 1 + j - 1 = j
      BY <1>5
    <3> QED BY <3>1, <2>3, <1>7
  <2>6. r = q
    BY <1>5, <2>3, <2>4, <2>5, SeqEqual
  <2> QED BY <2>e, <2>6
<1> QED BY <1>6, <1>8 DEF s, all, N

ListOf(w) == LET all == w[R!Cardinality(Threads)]
             IN IF all[Len(all)] = NULL THEN SubSeq(all, 1, Len(all) - 1) ELSE all

LEMMA ListOfChain ==
  ASSUME Pointers, NEW q, NEW p, NEW nx, Chain(q, p, nx), Len(q) <= Cardinality(Threads)
  PROVE  ListOf(CHOOSE v : IsListWalk(v, nx, p)) = q
<1> DEFINE N == R!Cardinality(Threads)
           w == CHOOSE v : IsListWalk(v, nx, p)
<1>1. N \in Nat
  BY FS_CardinalityType, SameCardinality DEF Pointers
<1>2. \E v : IsListWalk(v, nx, p)
  <2> DEFINE v == [k \in 0..N |-> Collected(q, k)]
             turn(k) == IF k = 0 THEN <<p>>
                        ELSE IF v[k - 1][Len(v[k - 1])] = NULL THEN v[k - 1]
                        ELSE Append(v[k - 1], nx[v[k - 1][Len(v[k - 1])]])
  <2>1. ASSUME NEW k \in 0..N PROVE v[k] = turn(k)
    <3>1. CASE k = 0
      <4>1. Collected(q, 0) = <<p>>
        BY <1>1, CollectedTurn
      <4> QED BY <3>1, <4>1
    <3>2. CASE k # 0
      <4>1. k - 1 \in Nat /\ (k - 1) + 1 = k /\ k - 1 \in 0..N
        BY <1>1, <3>2
      <4>2. WalkTurn(Collected(q, k - 1), nx) = Collected(q, k)
        BY <4>1, CollectedTurn
      <4>3. v[k - 1] = Collected(q, k - 1) /\ v[k] = Collected(q, k)
        BY <4>1
      <4>4. turn(k) = WalkTurn(v[k - 1], nx)
        BY <3>2, Zenon DEF WalkTurn
      <4> HIDE DEF v, turn
      <4> QED BY <4>2, <4>3, <4>4
    <3> QED BY <3>1, <3>2
  <2>2. v = [k \in 0..N |-> v[k]]
    OBVIOUS
  <2>3. v = [k \in 0..N |-> turn(k)]
    <3> HIDE DEF v, turn
    <3> QED BY <2>1, <2>2
  <2>4. IsListWalk(v, nx, p)
    <3> HIDE DEF v
    <3> QED BY <2>3, Zenon DEF IsListWalk
  <2> QED BY <2>4
<1>3. IsListWalk(w, nx, p)
  BY <1>2
<1> HIDE DEF w
<1>4. ListOf(w) = q
  BY <1>3, ListIsChain DEF ListOf
<1> QED BY <1>4 DEF w

\* ListFrom in this state and in the next.
LEMMA ListFromChain ==
  ASSUME Pointers, NEW q, Chain(q, head, next), Len(q) <= Cardinality(Threads)
  PROVE  R!ListFrom(head) = q
<1>1. ListOf(CHOOSE v : IsListWalk(v, next, head)) = q
  BY ListOfChain
<1>2. R!ListFrom(head) = ListOf(CHOOSE v : IsListWalk(v, next, head))
  BY Zenon DEF R!ListFrom, IsListWalk, ListOf
<1> QED BY <1>1, <1>2, Zenon

LEMMA ListFromNextChain ==
  ASSUME Pointers, NEW q, Chain(q, head', next'), Len(q) <= Cardinality(Threads)
  PROVE  R!ListFrom(head)' = q
<1>1. ListOf(CHOOSE v : IsListWalk(v, next', head')) = q
  BY ListOfChain
<1>2. R!ListFrom(head)' = ListOf(CHOOSE v : IsListWalk(v, next', head'))
  BY Zenon DEF R!ListFrom, IsListWalk, ListOf
<1> QED BY <1>1, <1>2, Zenon

\* A list without repetition is at most as long as there are threads in it.
LEMMA ChainIsShort ==
  ASSUME Pointers, NEW q \in Seq(Threads), IsInjective(q), NEW C \in SUBSET Threads,
         ToSet(q) \subseteq C
  PROVE  Len(q) <= Cardinality(C) /\ Cardinality(C) <= Cardinality(Threads)
         /\ Len(q) <= Cardinality(Threads)
<1>1. Len(q) \in Nat /\ DOMAIN q = 1..Len(q) /\ q \in [1..Len(q) -> Threads]
  OBVIOUS
<1>2. /\ IsFiniteSet(C) /\ Cardinality(C) <= Cardinality(Threads)
      /\ Cardinality(C) \in Nat /\ Cardinality(Threads) \in Nat
  BY FS_Subset, FS_CardinalityType DEF Pointers
<1>3. q \in Injection(1..Len(q), C)
  <2>1. q \in [1..Len(q) -> C]
    BY <1>1 DEF ToSet
  <2> QED BY <1>1, <2>1 DEF Injection, IsInjective
<1>4. Cardinality(1..Len(q)) <= Cardinality(C)
  BY <1>2, <1>3, FS_Injection
<1>5. Cardinality(1..Len(q)) = Len(q)
  BY <1>1, FS_Interval
<1> QED BY <1>1, <1>2, <1>4, <1>5

\* The first j - 1 turns of the loop that wakes threads.
WokenTo(st, q, d, j) ==
  [x \in R!Objects |-> IF x \in d /\ (\E k \in 1 .. (j - 1) : q[k] = x) /\ st[x] = "blocked"
                       THEN "ready" ELSE st[x]]

\* Where in q the pointers of a loop are.
Reached(q, j) == t = IF j = Len(q) + 1 THEN NULL ELSE q[j]
Behind(q, j) == prev = IF j = 1 THEN NULL ELSE q[j - 1]
Places(q) == 1 .. (Len(q) + 1)
NoneReady(st, q, j) == \A k \in 1 .. (j - 1) : st[q[k]] # "ready"

\* The list is a chain of threads that exist and are not dead.
Linked(q) ==
  /\ Chain(q, head, next)
  /\ ToSet(q) \subseteq created \ {running, picked}
  /\ \A x \in ToSet(q) : status[x] # "dead"

Known ==
  /\ running \in created \cup {IDLE} /\ picked \in created \cup {IDLE, NULL}
  /\ pc = "out" => picked \in {NULL, running}
  /\ pc = "switch" => picked # NULL
  /\ pc \in {"wake", "reap", "pick"} => picked = NULL

\* In a tick: q and st are the list and the states it began with.
Began(q, st) ==
  /\ q \in Seq(Threads) /\ IsInjective(q) /\ running \notin ToSet(q)
  /\ st \in [R!Objects -> States] /\ \A x \in ToSet(q) : st[x] # "dead"
  /\ before = <<q, st, running>>

InTick(q, st) ==
  LET woken == WokenTo(st, q, due, Len(q) + 1) IN
  /\ pc \in {"wake", "reap", "pick"} => Linked(q)
  /\ pc = "wake" => \E j \in Places(q) : Reached(q, j) /\ status = WokenTo(st, q, due, j)
  /\ pc = "reap" => status = woken /\ \E j \in Places(q) : Reached(q, j) /\ Behind(q, j)
  /\ pc = "pick" =>
       /\ status = woken /\ expired
       /\ \E j \in Places(q) : Reached(q, j) /\ Behind(q, j) /\ NoneReady(woken, q, j)
  /\ pc = "switch" =>
       /\ status = woken /\ expired
       /\ \/ picked = IDLE /\ Linked(q) /\ NoneReady(woken, q, Len(q) + 1)
          \/ \E j \in 1..Len(q) :
               /\ picked = q[j] /\ woken[q[j]] = "ready" /\ NoneReady(woken, q, j)
               /\ Linked(RemoveAt(q, j))

ListInv ==
  /\ R!TypeOK /\ Known
  /\ \E q : Linked(q)
  /\ pc # "out" => \E q, st : Began(q, st) /\ InTick(q, st)

\* The list that ListFrom finds is the one that is linked.
LEMMA LinkedIsList ==
  ASSUME Pointers, R!TypeOK, NEW q, Linked(q)
  PROVE  /\ q \in Seq(Threads) /\ IsInjective(q) /\ Len(q) <= Cardinality(created)
         /\ R!ListFrom(head) = q
         /\ Len(q) \in Nat /\ DOMAIN q = 1..Len(q) /\ \A k \in 1..Len(q) : q[k] \in Threads
<1>1. Chain(q, head, next) /\ q \in Seq(Threads) /\ IsInjective(q)
  BY DEF Linked, Chain
<1>2. created \in SUBSET Threads /\ ToSet(q) \subseteq created
  BY DEF R!TypeOK, Linked
<1>3. Len(q) <= Cardinality(created) /\ Len(q) <= Cardinality(Threads)
  BY <1>1, <1>2, ChainIsShort
<1>4. R!ListFrom(head) = q
  BY <1>1, <1>3, ListFromChain
<1>5. Len(q) \in Nat /\ DOMAIN q = 1..Len(q) /\ \A k \in 1..Len(q) : q[k] \in Threads
  BY <1>1
<1> QED BY <1>1, <1>3, <1>4, <1>5

\* The invariant says that the list is sound.
LEMMA ListInvIsSound ==
  ASSUME Pointers, ListInv
  PROVE  R!ListIsSound
<1>1. PICK q : Linked(q)
  BY DEF ListInv
<1>2. /\ R!TypeOK /\ q \in Seq(Threads) /\ IsInjective(q) /\ Len(q) <= Cardinality(created)
      /\ R!ListFrom(head) = q /\ DOMAIN q = 1..Len(q)
  BY <1>1, LinkedIsList DEF ListInv
<1>3. \A j, k \in DOMAIN q : q[j] = q[k] => j = k
  BY <1>2 DEF IsInjective
<1>4. \A j \in DOMAIN q : q[j] \in created \ {running, picked}
  BY <1>1, <1>2 DEF Linked, ToSet
<1>5. Len(q) <= R!Cardinality(created)
  BY <1>2, SameCardinality
<1> QED BY <1>2, <1>3, <1>4, <1>5 DEF R!ListIsSound

LEMMA EmptyLinked ==
  ASSUME R!Init
  PROVE  Linked(<<>>)
<1>1. <<>> \in Seq(Threads) /\ IsInjective(<<>>) /\ Len(<<>>) = 0 /\ ToSet(<<>>) = {}
  BY DEF IsInjective, ToSet
<1>2. head = NULL
  BY DEF R!Init
<1>3. 1..0 = {}
  OBVIOUS
<1> QED BY <1>1, <1>2, <1>3 DEF Linked, Chain

LEMMA ListInit ==
  ASSUME Pointers, R!Init
  PROVE  ListInv
<1>1. R!TypeOK
  BY DEF R!Init, R!TypeOK, R!Objects, Pointers
<1>2. Known /\ pc = "out"
  BY DEF R!Init, Known
<1>3. Linked(<<>>)
  BY EmptyLinked
<1> QED BY <1>1, <1>2, <1>3 DEF ListInv

\* The places of a list: no NULL, no thread twice.
LEMMA ChainFacts ==
  ASSUME Pointers, NEW q, NEW p, NEW nx, Chain(q, p, nx)
  PROVE  /\ q \in Seq(Threads) /\ IsInjective(q)
         /\ Len(q) \in Nat /\ DOMAIN q = 1..Len(q) /\ NULL \notin Threads
         /\ \A k \in 1..Len(q) : q[k] \in Threads /\ q[k] \in ToSet(q)
         /\ \A x \in ToSet(q) : \E k \in 1..Len(q) : x = q[k]
         /\ \A k, l \in 1..Len(q) : q[k] = q[l] => k = l
         /\ p = IF Len(q) = 0 THEN NULL ELSE q[1]
         /\ \A k \in 1..Len(q) : nx[q[k]] = IF k = Len(q) THEN NULL ELSE q[k + 1]
<1>1. q \in Seq(Threads) /\ IsInjective(q)
  BY DEF Chain
<1>2. Len(q) \in Nat /\ DOMAIN q = 1..Len(q) /\ \A k \in 1..Len(q) : q[k] \in Threads
  BY <1>1
<1>3. q = <<>> <=> Len(q) = 0
  BY <1>1
<1>4. \A x : x \in ToSet(q) <=> \E k \in 1..Len(q) : x = q[k]
  BY <1>2 DEF ToSet
<1> QED BY <1>1, <1>2, <1>3, <1>4 DEF Chain, IsInjective, Pointers

IsNext(nx) == nx \in [Threads -> Threads \cup {NULL}]

LEMMA FromOne == \A k \in Nat : k >= 1 => (k # 1 => 1 \in 1 .. (k - 1) /\ ~(1 < 1))
OBVIOUS

\* Linking a thread in front.
LEMMA ChainPush ==
  ASSUME Pointers, NEW q, NEW p, NEW nx, IsNext(nx), Chain(q, p, nx),
         NEW x \in Threads, x \notin ToSet(q)
  PROVE  Chain(<<x>> \o q, x, [nx EXCEPT ![x] = p]) /\ ToSet(<<x>> \o q) = ToSet(q) \cup {x}
<1> DEFINE r == <<x>> \o q
           ny == [nx EXCEPT ![x] = p]
<1>1. q \in Seq(Threads) /\ Len(q) \in Nat /\ p = IF Len(q) = 0 THEN NULL ELSE q[1]
  BY ChainFacts
<1>2. r \in Seq(Threads) /\ IsInjective(r) /\ ToSet(r) = ToSet(q) \cup {x}
  BY <1>1, PushFront DEF Chain
<1>3. Len(r) = Len(q) + 1 /\ r[1] = x /\ \A k \in 1..Len(q) : r[k + 1] = q[k]
  BY <1>1
<1>4. ny[x] = p /\ \A y \in Threads : y # x => ny[y] = nx[y]
  BY DEF IsNext
<1> HIDE DEF r, ny
<1>5. r # <<>>
  BY <1>1, <1>2, <1>3
<1>6. ASSUME NEW k \in 1..Len(r) PROVE ny[r[k]] = IF k = Len(r) THEN NULL ELSE r[k + 1]
  <2>1. CASE k = 1
    <3>1. ny[r[k]] = p
      BY <1>3, <1>4, <2>1
    <3>2. CASE Len(q) = 0
      BY <1>1, <1>3, <2>1, <3>1, <3>2
    <3>3. CASE Len(q) # 0
      <4>1. 1 \in 1..Len(q) /\ k # Len(r)
        BY <1>1, <1>3, <2>1, <3>3
      <4>2. r[k + 1] = q[1]
        BY <1>3, <4>1, <2>1
      <4> QED BY <1>1, <3>1, <3>3, <4>1, <4>2
    <3> QED BY <3>2, <3>3
  <2>2. CASE k # 1
    <3> DEFINE l == k - 1
    <3>1. l \in 1..Len(q) /\ k = l + 1 /\ (k = Len(r) <=> l = Len(q))
      BY <1>1, <1>3, <2>2
    <3> HIDE DEF l
    <3>2. r[k] = q[l] /\ q[l] \in Threads /\ q[l] \in ToSet(q)
      BY <1>3, <3>1, ChainFacts
    <3>3. ny[r[k]] = IF l = Len(q) THEN NULL ELSE q[l + 1]
      BY <1>4, <3>1, <3>2, ChainFacts
    <3>4. CASE l = Len(q)
      BY <3>1, <3>3, <3>4
    <3>5. CASE l # Len(q)
      <4>1. l + 1 \in 1..Len(q)
        BY <1>1, <3>1, <3>5
      <4>2. r[k + 1] = q[l + 1]
        BY <1>3, <3>1, <4>1
      <4> QED BY <3>1, <3>3, <3>5, <4>2
    <3> QED BY <3>4, <3>5
  <2> QED BY <2>1, <2>2
<1>7. Chain(r, x, ny)
  BY <1>2, <1>3, <1>5, <1>6 DEF Chain
<1> QED BY <1>2, <1>7 DEF r, ny

\* Unlinking the thread at place j, the head or the one behind q[j - 1].
LEMMA ChainUnlink ==
  ASSUME Pointers, NEW q \in Seq(Threads), NEW p, NEW nx, IsNext(nx), Chain(q, p, nx),
         NEW j \in 1..Len(q)
  PROVE  /\ ToSet(RemoveAt(q, j)) = ToSet(q) \ {q[j]}
         /\ j = 1 => Chain(RemoveAt(q, j), nx[q[j]], nx)
         /\ j # 1 => Chain(RemoveAt(q, j), p, [nx EXCEPT ![q[j - 1]] = nx[q[j]]])
<1> DEFINE r == RemoveAt(q, j)
<1>1. /\ q \in Seq(Threads) /\ IsInjective(q) /\ Len(q) \in Nat
      /\ \A k \in 1..Len(q) : q[k] \in Threads
      /\ \A k, l \in 1..Len(q) : q[k] = q[l] => k = l
      /\ p = IF Len(q) = 0 THEN NULL ELSE q[1]
      /\ \A k \in 1..Len(q) : nx[q[k]] = IF k = Len(q) THEN NULL ELSE q[k + 1]
  <2>1. \A k \in 1..Len(q) : nx[q[k]] = IF k = Len(q) THEN NULL ELSE q[k + 1]
    BY DEF Chain
  <2>2. /\ q \in Seq(Threads) /\ IsInjective(q) /\ Len(q) \in Nat
        /\ \A k \in 1..Len(q) : q[k] \in Threads
        /\ \A k, l \in 1..Len(q) : q[k] = q[l] => k = l
        /\ p = IF Len(q) = 0 THEN NULL ELSE q[1]
    BY ChainFacts, Zenon
  <2> QED BY <2>1, <2>2, Zenon
<1>0. Len(q) \in Nat /\ Len(q) >= 1
  BY <1>1
<1>2. /\ r \in Seq(Threads) /\ Len(r) = Len(q) - 1
      /\ \A k \in 1 .. (Len(q) - 1) : r[k] = IF k < j THEN q[k] ELSE q[k + 1]
  BY <1>1, RemovedAt
<1>3. IsInjective(r) /\ ToSet(r) = ToSet(q) \ {q[j]}
  BY <1>1, Unlink
<1> HIDE DEF r
<1>4. r = <<>> <=> Len(q) = 1
  BY <1>1, <1>2
<1>5. ASSUME j = 1 PROVE Chain(r, nx[q[j]], nx)
  <2>1. nx[q[j]] = IF r = <<>> THEN NULL ELSE r[1]
    <3>1. nx[q[1]] = IF 1 = Len(q) THEN NULL ELSE q[1 + 1]
      BY <1>1, <1>5
    <3>2. Len(q) # 1 => 1 \in 1 .. (Len(q) - 1) /\ ~(1 < 1)
      BY <1>0, FromOne, Zenon
    <3>3. Len(q) # 1 => r[1] = q[1 + 1]
      BY <3>2, <1>2, <1>5
    <3> QED BY <1>4, <1>5, <3>1, <3>3
  <2>2. ASSUME NEW k \in 1..Len(r) PROVE nx[r[k]] = IF k = Len(r) THEN NULL ELSE r[k + 1]
    <3>1. k + 1 \in 1..Len(q) /\ k \in 1 .. (Len(q) - 1) /\ ~(k < j) /\ (k = Len(r) <=> k + 1 = Len(q))
      BY <1>1, <1>2, <1>5
    <3>2. nx[r[k]] = IF k + 1 = Len(q) THEN NULL ELSE q[(k + 1) + 1]
      BY <1>1, <1>2, <3>1
    <3>3. k + 1 # Len(q) => k + 1 \in 1 .. (Len(q) - 1) /\ ~(k + 1 < j)
      BY <1>1, <1>5, <3>1
    <3>4. k + 1 # Len(q) => r[k + 1] = q[(k + 1) + 1]
      BY <1>2, <3>3
    <3> QED BY <3>1, <3>2, <3>4
  <2> QED BY <1>2, <1>3, <2>1, <2>2 DEF Chain
<1>6. ASSUME j # 1 PROVE Chain(r, p, [nx EXCEPT ![q[j - 1]] = nx[q[j]]])
  <2> DEFINE ny == [nx EXCEPT ![q[j - 1]] = nx[q[j]]]
  <2>0. j - 1 \in 1..Len(q) /\ j - 1 \in 1 .. (Len(q) - 1) /\ Len(q) # 1 /\ 1 < j
    BY <1>1, <1>6
  <2>1. p = IF r = <<>> THEN NULL ELSE r[1]
    <3>1. 1 \in 1 .. (Len(q) - 1) /\ Len(q) # 0
      BY <1>1, <2>0
    <3>2. r[1] = q[1]
      BY <1>2, <2>0, <3>1
    <3> QED BY <1>1, <1>4, <2>0, <3>1, <3>2
  <2>2. /\ ny[q[j - 1]] = IF j = Len(q) THEN NULL ELSE q[j + 1]
        /\ \A k \in 1..Len(q) : k # j - 1 => ny[q[k]] = nx[q[k]]
    BY <1>1, <2>0 DEF IsNext
  <2> HIDE DEF ny
  <2>3. ASSUME NEW k \in 1..Len(r) PROVE ny[r[k]] = IF k = Len(r) THEN NULL ELSE r[k + 1]
    <3>1. k \in 1 .. (Len(q) - 1) /\ k \in 1..Len(q) /\ k + 1 \in 1..Len(q)
          /\ (k = Len(r) <=> k + 1 = Len(q)) /\ (k # Len(r) => k + 1 \in 1 .. (Len(q) - 1))
      BY <1>1, <1>2
    <3>2. CASE k = j - 1
      <4>1. k < j /\ ~(k + 1 < j) /\ k + 1 = j
        BY <2>0, <3>2
      <4>2. r[k] = q[j - 1]
        BY <1>2, <3>1, <3>2, <4>1
      <4>3. k # Len(r) => r[k + 1] = q[j + 1]
        BY <1>2, <3>1, <4>1
      <4> QED BY <2>2, <3>1, <4>1, <4>2, <4>3
    <3>3. CASE k < j - 1
      <4>1. k < j /\ k + 1 < j /\ k # j - 1 /\ k # Len(q) /\ k # Len(r)
        BY <1>1, <1>2, <2>0, <3>1, <3>3
      <4>2. r[k] = q[k] /\ r[k + 1] = q[k + 1]
        BY <1>2, <3>1, <4>1
      <4>3. ny[q[k]] = q[k + 1]
        BY <1>1, <2>2, <3>1, <4>1
      <4> QED BY <4>1, <4>2, <4>3
    <3>4. CASE j - 1 < k
      <4>1. ~(k < j) /\ ~(k + 1 < j) /\ k + 1 # j - 1
        BY <2>0, <3>1, <3>4
      <4>2. r[k] = q[k + 1] /\ (k # Len(r) => r[k + 1] = q[(k + 1) + 1])
        BY <1>2, <3>1, <4>1
      <4>3. ny[q[k + 1]] = IF k + 1 = Len(q) THEN NULL ELSE q[(k + 1) + 1]
        BY <1>1, <2>2, <3>1, <4>1
      <4> QED BY <3>1, <4>2, <4>3
    <3> QED BY <2>0, <3>1, <3>2, <3>3, <3>4
  <2>4. Chain(r, p, ny)
    BY <1>2, <1>3, <2>1, <2>3 DEF Chain
  <2> QED BY <2>4 DEF ny
<1> QED BY <1>3, <1>5, <1>6 DEF r

\* The list is still linked if the pointers stay and no thread of it dies or is picked.
LEMMA StaysLinked ==
  ASSUME NEW q, Linked(q), UNCHANGED <<head, next, created, running>>,
         picked' \notin ToSet(q), \A x \in ToSet(q) : status'[x] # "dead"
  PROVE  Linked(q)'
BY DEF Linked

\* Facts about a linked list that the steps use.
LEMMA LinkedFacts ==
  ASSUME Pointers, R!TypeOK, Known, NEW q, Linked(q)
  PROVE  /\ q \in Seq(Threads) /\ IsInjective(q) /\ Chain(q, head, next) /\ IsNext(next)
         /\ Len(q) \in Nat /\ ToSet(q) \subseteq Threads /\ ToSet(q) \subseteq created
         /\ NULL \notin ToSet(q) /\ IDLE \notin ToSet(q)
         /\ running \notin ToSet(q) /\ picked \notin ToSet(q)
         /\ \A k \in 1..Len(q) : q[k] \in ToSet(q) /\ q[k] # NULL
         /\ \A k \in 1..Len(q) : next[q[k]] = IF k = Len(q) THEN NULL ELSE q[k + 1]
         /\ \A k, l \in 1..Len(q) : q[k] = q[l] => k = l
<1>1. Chain(q, head, next) /\ ToSet(q) \subseteq created \ {running, picked}
  BY DEF Linked
<1>2. created \subseteq Threads /\ IsNext(next)
  BY DEF R!TypeOK, IsNext
<1>3. NULL \notin Threads /\ IDLE \notin Threads
  BY DEF Pointers
<1>4. /\ q \in Seq(Threads) /\ IsInjective(q) /\ Len(q) \in Nat
      /\ \A k \in 1..Len(q) : q[k] \in ToSet(q)
      /\ \A k, l \in 1..Len(q) : q[k] = q[l] => k = l
  BY <1>1, ChainFacts, Zenon
<1>5. \A k \in 1..Len(q) : next[q[k]] = IF k = Len(q) THEN NULL ELSE q[k + 1]
  BY <1>1 DEF Chain
<1>6. ToSet(q) \subseteq Threads /\ NULL \notin ToSet(q)
  BY <1>1, <1>2, <1>3, Zenon
<1>7. \A k \in 1..Len(q) : q[k] # NULL
  BY <1>4, <1>6, Zenon
<1> QED BY <1>1, <1>2, <1>3, <1>4, <1>5, <1>6, <1>7

LEMMA AddLinks ==
  ASSUME Pointers, ListInv, NEW x \in Threads, R!scheduler_add_thread(x)
  PROVE  /\ R!TypeOK' /\ Known' /\ x # running
         /\ \E q, r : Linked(q) /\ x \notin ToSet(q) /\ r = <<x>> \o q /\ Linked(r)'
<1>0. /\ R!TypeOK /\ Known /\ pc = "out" /\ x \notin created
      /\ created' = created \cup {x} /\ status' = [status EXCEPT ![x] = "ready"]
      /\ next' = [next EXCEPT ![x] = head] /\ head' = x
      /\ UNCHANGED <<running, pc, t, prev, due, expired, picked, before>>
  BY DEF ListInv, R!scheduler_add_thread, R!loopVars
<1>1. PICK q : Linked(q)
  BY DEF ListInv
<1>2. /\ Chain(q, head, next) /\ IsNext(next) /\ ToSet(q) \subseteq created
      /\ running \notin ToSet(q) /\ picked \notin ToSet(q) /\ \A y \in ToSet(q) : status[y] # "dead"
  BY <1>0, <1>1, LinkedFacts, Zenon DEF Linked
<1>3. x # IDLE /\ x # NULL /\ x # running /\ x # picked
  BY <1>0 DEF Pointers, Known
<1> DEFINE r == <<x>> \o q
<1>n. x \notin ToSet(q)
  BY <1>0, <1>2, Zenon
<1>4. Chain(r, x, [next EXCEPT ![x] = head]) /\ ToSet(r) = ToSet(q) \cup {x}
  BY <1>2, <1>n, ChainPush
<1> HIDE DEF r
<1>5. Linked(r)'
  <2>1. \A y \in ToSet(r) : status'[y] # "dead"
    <3>1. status \in [R!Objects -> States] /\ x \in R!Objects
      BY <1>0 DEF R!TypeOK, R!Objects, States
    <3>2. status'[x] = "ready" /\ \A y \in R!Objects : y # x => status'[y] = status[y]
      BY <1>0, <3>1
    <3>3. ToSet(q) \subseteq R!Objects
      BY <1>0, <1>2 DEF R!TypeOK, R!Objects
    <3> QED BY <1>2, <1>4, <3>2, <3>3
  <2>2. ToSet(r) \subseteq created' \ {running', picked'}
    BY <1>0, <1>2, <1>3, <1>4
  <2>3. Chain(r, head', next')
    BY <1>0, <1>4
  <2> QED BY <2>1, <2>2, <2>3 DEF Linked
<1>6. R!TypeOK'
  BY <1>0 DEF R!TypeOK, R!Objects
<1>7. Known'
  BY <1>0 DEF Known
<1>8. \E k, l : Linked(k) /\ x \notin ToSet(k) /\ l = <<x>> \o k /\ Linked(l)'
  BY <1>1, <1>n, <1>5 DEF r
<1> QED BY <1>3, <1>6, <1>7, <1>8

LEMMA AddKeepsList ==
  ASSUME Pointers, ListInv, NEW x \in Threads, R!scheduler_add_thread(x)
  PROVE  ListInv'
<1>1. pc' = "out"
  BY DEF R!scheduler_add_thread, R!loopVars
<1> QED BY <1>1, AddLinks DEF ListInv

LEMMA LeaveLinks ==
  ASSUME Pointers, ListInv, NEW s \in {"blocked", "dead"}, R!Leave(s)
  PROVE  R!TypeOK' /\ Known' /\ \E q : Linked(q) /\ Linked(q)'
<1>0. /\ R!TypeOK /\ Known /\ pc = "out" /\ status' = [status EXCEPT ![running] = s]
      /\ UNCHANGED <<head, next, running, created, pc, t, prev, due, expired, picked, before>>
  BY DEF ListInv, R!Leave, R!loopVars
<1>1. PICK q : Linked(q)
  BY DEF ListInv
<1>2. /\ running \notin ToSet(q) /\ picked' \notin ToSet(q) /\ ToSet(q) \subseteq R!Objects
      /\ \A x \in ToSet(q) : status[x] # "dead"
  BY <1>0, <1>1, LinkedFacts DEF Linked, R!Objects
<1>3. \A x \in ToSet(q) : status'[x] # "dead"
  <2>1. \A x \in R!Objects : x # running => status'[x] = status[x]
    BY <1>0 DEF R!TypeOK
  <2> QED BY <1>2, <2>1
<1>4. Linked(q)'
  BY <1>0, <1>1, <1>2, <1>3, StaysLinked
<1>5. R!TypeOK'
  BY <1>0 DEF R!TypeOK
<1>6. Known'
  BY <1>0 DEF Known
<1> QED BY <1>1, <1>4, <1>5, <1>6

LEMMA LeaveKeepsList ==
  ASSUME Pointers, ListInv, NEW s \in {"blocked", "dead"}, R!Leave(s)
  PROVE  ListInv'
<1>1. pc' = "out"
  BY DEF R!Leave, R!loopVars
<1> QED BY <1>1, LeaveLinks DEF ListInv

\* The loop that wakes threads: before its first turn, what it may change, and one
\* more turn.
LEMMA WokenNone ==
  ASSUME NEW st \in [R!Objects -> States], NEW q, NEW d
  PROVE  WokenTo(st, q, d, 1) = st
<1>1. 1 .. (1 - 1) = {}
  OBVIOUS
<1>2. st = [x \in R!Objects |-> st[x]]
  OBVIOUS
<1> QED BY <1>1, <1>2 DEF WokenTo

LEMMA WokenType ==
  ASSUME NEW st \in [R!Objects -> States], NEW q, NEW d, NEW j
  PROVE  /\ WokenTo(st, q, d, j) \in [R!Objects -> States]
         /\ \A x \in R!Objects : WokenTo(st, q, d, j)[x] = "dead" <=> st[x] = "dead"
BY DEF WokenTo, States

Wake(w, x, d) == [w EXCEPT ![x] = IF @ = "blocked" /\ x \in d THEN "ready" ELSE @]

LEMMA WokenOne ==
  ASSUME NEW st \in [R!Objects -> States], NEW q \in Seq(Threads), IsInjective(q), NEW d,
         NEW j \in 1..Len(q)
  PROVE  WokenTo(st, q, d, j + 1) = Wake(WokenTo(st, q, d, j), q[j], d)
<1> DEFINE w == WokenTo(st, q, d, j)
           v == WokenTo(st, q, d, j + 1)
           y == q[j]
           u == [w EXCEPT ![y] = IF @ = "blocked" /\ y \in d THEN "ready" ELSE @]
           seen(x, k) == \E l \in 1 .. (k - 1) : q[l] = x
<1>1. Len(q) \in Nat /\ y \in Threads /\ y \in R!Objects
  BY DEF R!Objects
<1>2. \A x : seen(x, j + 1) <=> seen(x, j) \/ x = y
  <2>1. \A l \in 1 .. ((j + 1) - 1) : l = j \/ l \in 1 .. (j - 1)
    BY <1>1
  <2>2. j \in 1 .. ((j + 1) - 1) /\ \A l \in 1 .. (j - 1) : l \in 1 .. ((j + 1) - 1)
    BY <1>1
  <2> QED BY <2>1, <2>2
<1>3. ~seen(y, j)
  <2>1. \A l \in 1 .. (j - 1) : l # j /\ l \in DOMAIN q
    BY <1>1
  <2> QED BY <2>1 DEF IsInjective
<1>4. /\ w = [x \in R!Objects |-> IF x \in d /\ seen(x, j) /\ st[x] = "blocked"
                                  THEN "ready" ELSE st[x]]
      /\ v = [x \in R!Objects |-> IF x \in d /\ seen(x, j + 1) /\ st[x] = "blocked"
                                  THEN "ready" ELSE st[x]]
  BY DEF WokenTo
<1>5. w \in [R!Objects -> States] /\ v \in [R!Objects -> States]
  BY WokenType, Zenon
<1> HIDE DEF seen, w, v, y
<1>6. w[y] = st[y]
  BY <1>1, <1>3, <1>4
<1>7. ASSUME NEW x \in R!Objects PROVE v[x] = u[x]
  <2>1. CASE x = y
    <3>1. u[x] = IF st[y] = "blocked" /\ y \in d THEN "ready" ELSE st[y]
      BY <1>1, <1>5, <1>6, <2>1
    <3>2. v[x] = IF y \in d /\ st[y] = "blocked" THEN "ready" ELSE st[y]
      BY <1>1, <1>2, <1>4, <2>1
    <3> QED BY <3>1, <3>2
  <2>2. CASE x # y
    <3>1. u[x] = w[x]
      BY <1>1, <1>5, <2>2
    <3>2. v[x] = w[x]
      BY <1>2, <1>4, <2>2
    <3> QED BY <3>1, <3>2
  <2> QED BY <2>1, <2>2
<1>8. u = [x \in R!Objects |-> u[x]] /\ v = [x \in R!Objects |-> v[x]]
  BY <1>5
<1>9. v = u
  <2> HIDE DEF u
  <2> QED BY <1>7, <1>8
<1> QED BY <1>9 DEF v, u, w, y, Wake

\* The next place of a loop.
LEMMA NextPlace ==
  ASSUME Pointers, R!TypeOK, Known, NEW q, Linked(q), NEW j \in Places(q), Reached(q, j)
  PROVE  /\ t = NULL <=> j = Len(q) + 1
         /\ t # NULL => /\ j \in 1..Len(q) /\ j + 1 \in Places(q) /\ t = q[j] /\ t \in ToSet(q)
                        /\ next[t] = (IF j + 1 = Len(q) + 1 THEN NULL ELSE q[j + 1])
                        /\ (j + 1) - 1 = j /\ j + 1 # 1
         /\ 1 \in Places(q) /\ head = (IF 1 = Len(q) + 1 THEN NULL ELSE q[1])
<1>1. /\ q \in Seq(Threads) /\ Len(q) \in Nat
      /\ \A k \in 1..Len(q) : q[k] \in ToSet(q) /\ q[k] # NULL
      /\ \A k \in 1..Len(q) : next[q[k]] = IF k = Len(q) THEN NULL ELSE q[k + 1]
  BY LinkedFacts
<1>2. head = IF Len(q) = 0 THEN NULL ELSE q[1]
  BY ChainFacts DEF Linked
<1>3. j \in Nat /\ j >= 1 /\ j <= Len(q) + 1 /\ 1 \in Places(q)
  BY <1>1 DEF Places
<1>4. j # Len(q) + 1 => j \in 1..Len(q)
  BY <1>1, <1>3
<1>5. t = IF j = Len(q) + 1 THEN NULL ELSE q[j]
  BY DEF Reached
<1>6. t = NULL <=> j = Len(q) + 1
  BY <1>1, <1>4, <1>5
<1>7. 1 = Len(q) + 1 <=> Len(q) = 0
  BY <1>1
<1>8. ASSUME t # NULL
      PROVE  /\ j \in 1..Len(q) /\ j + 1 \in Places(q) /\ t = q[j] /\ t \in ToSet(q)
             /\ next[t] = (IF j + 1 = Len(q) + 1 THEN NULL ELSE q[j + 1])
             /\ (j + 1) - 1 = j /\ j + 1 # 1
  <2>1. j \in 1..Len(q) /\ t = q[j]
    BY <1>4, <1>5, <1>6, <1>8
  <2>2. /\ j + 1 \in Places(q) /\ (j = Len(q) <=> j + 1 = Len(q) + 1)
        /\ (j + 1) - 1 = j /\ j + 1 # 1
    BY <1>1, <2>1 DEF Places
  <2> QED BY <2>1, <2>2, <1>1
<1> QED BY <1>2, <1>3, <1>6, <1>7, <1>8

LEMMA TickBeginsKeepsList ==
  ASSUME Pointers, ListInv, R!TickBegins
  PROVE  ListInv'
<1>0. /\ R!TypeOK /\ Known /\ pc' = "wake" /\ due' \in SUBSET Threads /\ expired' \in BOOLEAN
      /\ t' = head /\ prev' = NULL /\ picked' = NULL
      /\ before' = <<R!ListFrom(head), status, running>>
      /\ UNCHANGED <<head, next, status, running, created>>
  BY DEF ListInv, R!TickBegins
<1>1. PICK q : Linked(q)
  BY DEF ListInv
<1>2. /\ q \in Seq(Threads) /\ IsInjective(q) /\ NULL \notin ToSet(q) /\ running \notin ToSet(q)
      /\ Len(q) \in Nat /\ \A x \in ToSet(q) : status[x] # "dead"
  BY <1>0, <1>1, LinkedFacts, Zenon DEF Linked
<1>3. R!ListFrom(head) = q
  BY <1>0, <1>1, LinkedIsList
<1>4. Linked(q)'
  BY <1>0, <1>1, <1>2, StaysLinked
<1>5. R!TypeOK'
  BY <1>0 DEF R!TypeOK
<1>6. Known'
  BY <1>0 DEF Known
<1>s. PICK st : st = status
  OBVIOUS
<1>7. st \in [R!Objects -> States]
  BY <1>0, <1>s DEF R!TypeOK, States
<1>8. Began(q, st)'
  BY <1>0, <1>2, <1>3, <1>7, <1>s DEF Began
<1>9. \E j \in Places(q) : Reached(q, j)' /\ status' = WokenTo(st, q, due', j)
  <2>1. 1 \in Places(q) /\ (1 = Len(q) + 1 <=> Len(q) = 0)
    BY <1>2 DEF Places
  <2>2. head = IF Len(q) = 0 THEN NULL ELSE q[1]
    BY <1>1, ChainFacts DEF Linked
  <2>3. Reached(q, 1)'
    BY <1>0, <2>1, <2>2 DEF Reached
  <2>4. WokenTo(st, q, due', 1) = st
    BY <1>7, WokenNone
  <2> QED BY <1>0, <1>s, <2>1, <2>3, <2>4
<1>10. InTick(q, st)'
  BY <1>0, <1>4, <1>9 DEF InTick
<1> QED BY <1>4, <1>5, <1>6, <1>8, <1>10 DEF ListInv

\* What a turn of a loop has in hand.
LEMMA InLoop ==
  ASSUME Pointers, ListInv, pc \in {"wake", "reap", "pick"}
  PROVE  \E q, st : /\ Began(q, st) /\ InTick(q, st) /\ Linked(q) /\ R!TypeOK /\ Known
                    /\ q \in Seq(Threads) /\ IsInjective(q) /\ st \in [R!Objects -> States]
                    /\ Len(q) \in Nat /\ picked = NULL /\ ToSet(q) \subseteq R!Objects
                    /\ NULL \notin ToSet(q) /\ IDLE \notin ToSet(q)
                    /\ \A x \in ToSet(q) : status[x] # "dead" /\ st[x] # "dead"
<1>1. PICK q, st : Began(q, st) /\ InTick(q, st)
  BY DEF ListInv
<1>2. R!TypeOK /\ Known /\ picked = NULL
  BY DEF ListInv, Known
<1>3. Linked(q)
  BY <1>1 DEF InTick
<1>4. /\ q \in Seq(Threads) /\ IsInjective(q) /\ Len(q) \in Nat /\ NULL \notin ToSet(q)
      /\ IDLE \notin ToSet(q) /\ ToSet(q) \subseteq R!Objects
  BY <1>2, <1>3, LinkedFacts DEF R!Objects
<1>5. st \in [R!Objects -> States] /\ \A x \in ToSet(q) : status[x] # "dead" /\ st[x] # "dead"
  BY <1>1, <1>3 DEF Began, Linked
<1> QED BY <1>1, <1>2, <1>3, <1>4, <1>5

LEMMA WakeTurnKeepsList ==
  ASSUME Pointers, ListInv, R!WakeTurn
  PROVE  ListInv'
<1>0. /\ pc = "wake" /\ t # NULL /\ t' = next[t]
      /\ status' = [status EXCEPT ![t] = IF @ = "blocked" /\ t \in due THEN "ready" ELSE @]
      /\ UNCHANGED <<head, next, running, created, pc, prev, due, expired, picked, before>>
  BY DEF R!WakeTurn
<1>1. PICK q, st : /\ Began(q, st) /\ InTick(q, st) /\ Linked(q) /\ R!TypeOK /\ Known
                   /\ q \in Seq(Threads) /\ IsInjective(q) /\ st \in [R!Objects -> States]
                   /\ Len(q) \in Nat /\ picked = NULL /\ ToSet(q) \subseteq R!Objects
                   /\ NULL \notin ToSet(q) /\ IDLE \notin ToSet(q)
                   /\ \A x \in ToSet(q) : status[x] # "dead" /\ st[x] # "dead"
  BY <1>0, InLoop
<1>2. PICK j \in Places(q) : Reached(q, j) /\ status = WokenTo(st, q, due, j)
  BY <1>0, <1>1 DEF InTick
<1>3. /\ j \in 1..Len(q) /\ j + 1 \in Places(q) /\ t = q[j] /\ t \in ToSet(q)
      /\ next[t] = (IF j + 1 = Len(q) + 1 THEN NULL ELSE q[j + 1])
  BY <1>0, <1>1, <1>2, NextPlace
<1>4. status' = WokenTo(st, q, due', j + 1)
  <2>1. WokenTo(st, q, due, j + 1) = Wake(WokenTo(st, q, due, j), q[j], due)
    BY <1>1, <1>3, WokenOne, Zenon
  <2>2. status' = Wake(WokenTo(st, q, due, j), q[j], due)
    <3>1. status' = Wake(status, t, due)
      BY <1>0, Zenon DEF Wake
    <3> QED BY <1>2, <1>3, <3>1, Zenon
  <2> QED BY <1>0, <2>1, <2>2, Zenon
<1>5. /\ status' \in [R!Objects -> States]
      /\ \A x \in R!Objects : status'[x] = "dead" <=> st[x] = "dead"
  <2>1. st \in [R!Objects -> States] /\ q \in Seq(Threads)
    BY <1>1
  <2> QED BY <1>4, <2>1, WokenType, ZenonT(40)
<1>6. Reached(q, j + 1)'
  BY <1>0, <1>3 DEF Reached
<1>7. Linked(q)'
  <2>1. \A x \in ToSet(q) : status'[x] # "dead"
    BY <1>1, <1>5
  <2>2. picked' \notin ToSet(q)
    BY <1>0, <1>1
  <2> QED BY <1>0, <1>1, <2>1, <2>2, StaysLinked
<1>8. R!TypeOK'
  <2>1. t' \in Threads \cup {NULL}
    BY <1>0, <1>1, <1>3 DEF R!TypeOK
  <2> QED BY <1>0, <1>1, <1>5, <2>1 DEF R!TypeOK, States
<1>9. Known'
  BY <1>0, <1>1 DEF Known
<1>10. Began(q, st)'
  BY <1>0, <1>1 DEF Began
<1>11. InTick(q, st)'
  BY <1>0, <1>3, <1>4, <1>6, <1>7 DEF InTick
<1> QED BY <1>7, <1>8, <1>9, <1>10, <1>11 DEF ListInv

\* The end of a loop: all of the list has been passed, the next loop begins at its head.
LEMMA LoopEndsKeepsList ==
  ASSUME Pointers, ListInv,
         R!LoopEnds("wake", "reap") \/ (expired /\ R!LoopEnds("reap", "pick"))
  PROVE  ListInv'
<1>0. /\ pc \in {"wake", "reap"} /\ t = NULL /\ t' = head /\ prev' = NULL
      /\ pc' \in {"reap", "pick"} /\ (pc' = "reap" <=> pc = "wake") /\ (pc' = "pick" => expired)
      /\ UNCHANGED <<head, next, status, running, created, due, expired, picked, before>>
  BY DEF R!LoopEnds
<1>1. PICK q, st : /\ Began(q, st) /\ InTick(q, st) /\ Linked(q) /\ R!TypeOK /\ Known
                   /\ q \in Seq(Threads) /\ IsInjective(q) /\ st \in [R!Objects -> States]
                   /\ Len(q) \in Nat /\ picked = NULL /\ ToSet(q) \subseteq R!Objects
                   /\ NULL \notin ToSet(q) /\ IDLE \notin ToSet(q)
                   /\ \A x \in ToSet(q) : status[x] # "dead" /\ st[x] # "dead"
  BY <1>0, InLoop
<1>2. \E j \in Places(q) : Reached(q, j) /\ (pc = "wake" => status = WokenTo(st, q, due, j))
  BY <1>0, <1>1 DEF InTick
<1>3. PICK j \in Places(q) : Reached(q, j) /\ (pc = "wake" => status = WokenTo(st, q, due, j))
  BY <1>2
<1>4. /\ j = Len(q) + 1 /\ 1 \in Places(q)
      /\ head = (IF 1 = Len(q) + 1 THEN NULL ELSE q[1])
  BY <1>0, <1>1, <1>3, NextPlace
<1>5. status' = WokenTo(st, q, due', Len(q) + 1)
  <2>1. CASE pc = "wake"
    BY <1>0, <1>3, <1>4, <2>1
  <2>2. CASE pc = "reap"
    BY <1>0, <1>1, <2>2 DEF InTick
  <2> QED BY <1>0, <2>1, <2>2
<1>6. Reached(q, 1)' /\ Behind(q, 1)' /\ NoneReady(WokenTo(st, q, due', Len(q) + 1), q, 1)
  <2>1. 1 .. (1 - 1) = {}
    OBVIOUS
  <2> QED BY <1>0, <1>4, <2>1 DEF Reached, Behind, NoneReady
<1>7. Linked(q)'
  <2>1. picked' \notin ToSet(q) /\ \A x \in ToSet(q) : status'[x] # "dead"
    BY <1>0, <1>1
  <2> QED BY <1>0, <1>1, <2>1, StaysLinked
<1>8. R!TypeOK'
  <2>1. t' \in Threads \cup {NULL} /\ prev' \in Threads \cup {NULL}
    BY <1>0, <1>1 DEF R!TypeOK
  <2> QED BY <1>0, <1>1, <2>1 DEF R!TypeOK
<1>9. Known'
  BY <1>0, <1>1 DEF Known
<1>10. Began(q, st)'
  BY <1>0, <1>1 DEF Began
<1>11. InTick(q, st)'
  BY <1>0, <1>4, <1>5, <1>6, <1>7 DEF InTick
<1> QED BY <1>7, <1>8, <1>9, <1>10, <1>11 DEF ListInv

\* The loop that reaps finds no dead thread.
LEMMA ReapTurnKeepsList ==
  ASSUME Pointers, ListInv, R!ReapTurn
  PROVE  ListInv'
<1>0. pc = "reap" /\ t # NULL
  BY DEF R!ReapTurn
<1>1. PICK q, st : /\ Began(q, st) /\ InTick(q, st) /\ Linked(q) /\ R!TypeOK /\ Known
                   /\ q \in Seq(Threads) /\ IsInjective(q) /\ st \in [R!Objects -> States]
                   /\ Len(q) \in Nat /\ picked = NULL /\ ToSet(q) \subseteq R!Objects
                   /\ NULL \notin ToSet(q) /\ IDLE \notin ToSet(q)
                   /\ \A x \in ToSet(q) : status[x] # "dead" /\ st[x] # "dead"
  BY <1>0, InLoop
<1>2. status = WokenTo(st, q, due, Len(q) + 1) /\ \E j \in Places(q) : Reached(q, j) /\ Behind(q, j)
  BY <1>0, <1>1 DEF InTick
<1>3. PICK j \in Places(q) : Reached(q, j) /\ Behind(q, j)
  BY <1>2
<1>4. /\ j \in 1..Len(q) /\ j + 1 \in Places(q) /\ t = q[j] /\ t \in ToSet(q)
      /\ next[t] = (IF j + 1 = Len(q) + 1 THEN NULL ELSE q[j + 1])
      /\ (j + 1) - 1 = j /\ j + 1 # 1
  BY <1>0, <1>1, <1>3, NextPlace
<1>5. /\ t' = next[t] /\ prev' = t
      /\ UNCHANGED <<head, next, created, status, running, pc, due, expired, picked, before>>
  <2>1. status[t] # "dead"
    BY <1>1, <1>4
  <2> QED BY <2>1 DEF R!ReapTurn
<1>6. Reached(q, j + 1)' /\ Behind(q, j + 1)'
  BY <1>4, <1>5 DEF Reached, Behind
<1>7. Linked(q)'
  <2>1. picked' \notin ToSet(q) /\ \A x \in ToSet(q) : status'[x] # "dead"
    BY <1>1, <1>5
  <2> QED BY <1>1, <1>5, <2>1, StaysLinked
<1>8. R!TypeOK'
  <2>1. t' \in Threads \cup {NULL} /\ prev' \in Threads \cup {NULL}
    BY <1>0, <1>1, <1>5 DEF R!TypeOK
  <2> QED BY <1>1, <1>5, <2>1 DEF R!TypeOK
<1>9. Known'
  BY <1>1, <1>5 DEF Known
<1>10. Began(q, st)'
  BY <1>1, <1>5 DEF Began
<1>11. InTick(q, st)'
  BY <1>0, <1>2, <1>4, <1>5, <1>6, <1>7 DEF InTick
<1> QED BY <1>7, <1>8, <1>9, <1>10, <1>11 DEF ListInv

LEMMA TickReturnsKeepsList ==
  ASSUME Pointers, ListInv, R!TickReturns
  PROVE  ListInv'
<1>0. /\ pc = "reap" /\ pc' = "out" /\ R!TypeOK /\ Known
      /\ UNCHANGED <<head, next, status, running, created, t, prev, due, expired, picked, before>>
  BY DEF ListInv, R!TickReturns
<1>1. PICK q : Linked(q)
  BY DEF ListInv
<1>2. Linked(q)'
  BY <1>0, <1>1 DEF Linked
<1>3. R!TypeOK'
  BY <1>0 DEF R!TypeOK
<1>4. Known'
  BY <1>0 DEF Known
<1> QED BY <1>0, <1>2, <1>3, <1>4 DEF ListInv

\* The loop that picks takes the first ready thread out of the list.
LEMMA PickTurnKeepsList ==
  ASSUME Pointers, ListInv, R!PickTurn
  PROVE  ListInv'
<1>0. pc = "pick" /\ t # NULL /\ UNCHANGED <<status, running, created, due, expired, before>>
  BY DEF R!PickTurn
<1>1. PICK q, st : /\ Began(q, st) /\ InTick(q, st) /\ Linked(q) /\ R!TypeOK /\ Known
                   /\ q \in Seq(Threads) /\ IsInjective(q) /\ st \in [R!Objects -> States]
                   /\ Len(q) \in Nat /\ picked = NULL /\ ToSet(q) \subseteq R!Objects
                   /\ NULL \notin ToSet(q) /\ IDLE \notin ToSet(q)
                   /\ \A x \in ToSet(q) : status[x] # "dead" /\ st[x] # "dead"
  BY <1>0, InLoop
<1> DEFINE woken == WokenTo(st, q, due, Len(q) + 1)
<1>2. /\ status = woken /\ expired
      /\ \E j \in Places(q) : Reached(q, j) /\ Behind(q, j) /\ NoneReady(woken, q, j)
  BY <1>0, <1>1 DEF InTick
<1>3. PICK j \in Places(q) : Reached(q, j) /\ Behind(q, j) /\ NoneReady(woken, q, j)
  BY <1>2
<1>4. /\ j \in 1..Len(q) /\ j + 1 \in Places(q) /\ t = q[j] /\ t \in ToSet(q)
      /\ next[t] = (IF j + 1 = Len(q) + 1 THEN NULL ELSE q[j + 1])
      /\ (j + 1) - 1 = j /\ j + 1 # 1
  BY <1>0, <1>1, <1>3, NextPlace
<1>w. woken' = woken
  BY <1>0
<1>10. Began(q, st)'
  BY <1>0, <1>1 DEF Began
<1> HIDE DEF woken
<1>5. CASE status[t] = "ready"
  <2>1. /\ picked' = t /\ pc' = "switch" /\ UNCHANGED <<t, prev>>
        /\ IF prev # NULL THEN next' = [next EXCEPT ![prev] = next[t]] /\ UNCHANGED head
           ELSE head' = next[t] /\ UNCHANGED next
    BY <1>5 DEF R!PickTurn, R!Taken, R!Unlink
  <2> DEFINE r == RemoveAt(q, j)
  <2>2. Chain(q, head, next) /\ IsNext(next) /\ ToSet(q) \subseteq created \ {running, picked}
    BY <1>1, LinkedFacts DEF Linked
  <2>3. /\ ToSet(r) = ToSet(q) \ {q[j]}
        /\ j = 1 => Chain(r, next[q[j]], next)
        /\ j # 1 => Chain(r, head, [next EXCEPT ![q[j - 1]] = next[q[j]]])
    BY <1>1, <1>4, <2>2, ChainUnlink
  <2> HIDE DEF r
  <2>4. Chain(r, head', next')
    <3>1. CASE j = 1
      <4>1. prev = NULL
        BY <1>3, <3>1 DEF Behind
      <4> QED BY <1>4, <2>1, <2>3, <3>1, <4>1
    <3>2. CASE j # 1
      <4>1. prev = q[j - 1]
        BY <1>3, <3>2 DEF Behind
      <4>2. j - 1 \in 1..Len(q)
        BY <1>1, <1>4, <3>2
      <4>3. prev # NULL
        BY <1>1, <4>1, <4>2, LinkedFacts
      <4> QED BY <1>4, <2>1, <2>3, <3>2, <4>1, <4>3
    <3> QED BY <3>1, <3>2
  <2>5. Linked(r)'
    <3>1. ToSet(r) \subseteq created' \ {running', picked'}
      BY <1>0, <1>4, <2>1, <2>2, <2>3
    <3>2. \A x \in ToSet(r) : status'[x] # "dead"
      BY <1>0, <1>1, <2>3
    <3> QED BY <2>4, <3>1, <3>2 DEF Linked
  <2>6. R!TypeOK'
    <3>1. t \in Threads /\ t \in R!Objects
      BY <1>0, <1>1 DEF R!TypeOK, R!Objects
    <3>2. next' \in [Threads -> Threads \cup {NULL}] /\ head' \in Threads \cup {NULL}
      <4>1. next \in [Threads -> Threads \cup {NULL}] /\ head \in Threads \cup {NULL}
        BY <1>1 DEF R!TypeOK
      <4> QED BY <2>1, <3>1, <4>1
    <3> QED BY <1>0, <1>1, <2>1, <3>1, <3>2 DEF R!TypeOK
  <2>7. Known'
    <3>1. t \in created
      BY <1>4, <2>2
    <3> QED BY <1>0, <1>1, <2>1, <3>1 DEF Known
  <2>8. InTick(q, st)'
    <3>1. woken[q[j]] = "ready" /\ picked' = q[j] /\ status' = woken /\ expired'
      BY <1>0, <1>2, <1>4, <1>5, <2>1
    <3>2. \E l \in 1..Len(q) :
               /\ picked' = q[l] /\ woken[q[l]] = "ready" /\ NoneReady(woken, q, l)
               /\ Linked(RemoveAt(q, l))'
      BY <1>3, <1>4, <2>5, <3>1 DEF r
    <3> QED BY <1>w, <2>1, <3>1, <3>2 DEF InTick, woken
  <2> QED BY <1>10, <2>5, <2>6, <2>7, <2>8 DEF ListInv
<1>6. CASE status[t] # "ready"
  <2>1. prev' = t /\ t' = next[t] /\ UNCHANGED <<head, next, picked, pc>>
    BY <1>6 DEF R!PickTurn
  <2>2. Reached(q, j + 1)' /\ Behind(q, j + 1)'
    BY <1>4, <2>1 DEF Reached, Behind
  <2>3. NoneReady(woken, q, j + 1)
    <3>1. \A k \in 1 .. ((j + 1) - 1) : k = j \/ k \in 1 .. (j - 1)
      BY <1>4
    <3>2. woken[q[j]] # "ready"
      BY <1>2, <1>4, <1>6
    <3> QED BY <1>3, <3>1, <3>2, Zenon DEF NoneReady
  <2>4. Linked(q)'
    <3>1. picked' \notin ToSet(q) /\ \A x \in ToSet(q) : status'[x] # "dead"
      BY <1>0, <1>1, <2>1
    <3> QED BY <1>0, <1>1, <2>1, <3>1, StaysLinked
  <2>5. R!TypeOK'
    <3>1. t' \in Threads \cup {NULL} /\ prev' \in Threads \cup {NULL}
      BY <1>0, <1>1, <2>1 DEF R!TypeOK
    <3> QED BY <1>0, <1>1, <2>1, <3>1 DEF R!TypeOK
  <2>6. Known'
    BY <1>0, <1>1, <2>1 DEF Known
  <2>7. InTick(q, st)'
    <3>1. pc' = "pick" /\ status' = woken /\ expired'
      BY <1>0, <1>2, <2>1
    <3> QED BY <1>4, <1>w, <2>2, <2>3, <2>4, <3>1 DEF InTick, woken
  <2> QED BY <1>10, <2>4, <2>5, <2>6, <2>7 DEF ListInv
<1> QED BY <1>5, <1>6

LEMMA PickNoneKeepsList ==
  ASSUME Pointers, ListInv, R!PickNone
  PROVE  ListInv'
<1>0. /\ pc = "pick" /\ t = NULL /\ picked' = IDLE /\ pc' = "switch"
      /\ UNCHANGED <<head, next, status, running, created, t, prev, due, expired, before>>
  BY DEF R!PickNone
<1>1. PICK q, st : /\ Began(q, st) /\ InTick(q, st) /\ Linked(q) /\ R!TypeOK /\ Known
                   /\ q \in Seq(Threads) /\ IsInjective(q) /\ st \in [R!Objects -> States]
                   /\ Len(q) \in Nat /\ picked = NULL /\ ToSet(q) \subseteq R!Objects
                   /\ NULL \notin ToSet(q) /\ IDLE \notin ToSet(q)
                   /\ \A x \in ToSet(q) : status[x] # "dead" /\ st[x] # "dead"
  BY <1>0, InLoop
<1> DEFINE woken == WokenTo(st, q, due, Len(q) + 1)
<1>2. /\ status = woken /\ expired
      /\ \E j \in Places(q) : Reached(q, j) /\ Behind(q, j) /\ NoneReady(woken, q, j)
  BY <1>0, <1>1 DEF InTick
<1>3. PICK j \in Places(q) : Reached(q, j) /\ Behind(q, j) /\ NoneReady(woken, q, j)
  BY <1>2
<1>4. j = Len(q) + 1
  BY <1>0, <1>1, <1>3, NextPlace
<1>w. woken' = woken
  BY <1>0
<1>5. Began(q, st)'
  BY <1>0, <1>1 DEF Began
<1> HIDE DEF woken
<1>6. Linked(q)'
  <2>1. picked' \notin ToSet(q) /\ \A x \in ToSet(q) : status'[x] # "dead"
    BY <1>0, <1>1
  <2> QED BY <1>0, <1>1, <2>1, StaysLinked
<1>7. R!TypeOK'
  BY <1>0, <1>1 DEF R!TypeOK, R!Objects
<1>8. Known'
  BY <1>0, <1>1 DEF Known, Pointers
<1>9. InTick(q, st)'
  <2>1. status' = woken /\ expired' /\ NoneReady(woken, q, Len(q) + 1)
    BY <1>0, <1>2, <1>3, <1>4
  <2> QED BY <1>0, <1>w, <1>6, <2>1 DEF InTick, woken
<1> QED BY <1>5, <1>6, <1>7, <1>8, <1>9 DEF ListInv

\* What the loop that picks finds in q with the states w: p, and the list l it leaves.
PickedFrom(q, w, p, l) ==
  \/ p = IDLE /\ l = q /\ NoneReady(w, q, Len(q) + 1)
  \/ \E j \in 1..Len(q) :
       p = q[j] /\ w[q[j]] = "ready" /\ NoneReady(w, q, j) /\ l = RemoveAt(q, j)

\* The old thread c is put back in front of l, unless it is IDLE or dead.
Stays(c, w) == c # IDLE /\ w[c] # "dead"
InFront(c, w, l) == (IF Stays(c, w) THEN <<c>> ELSE <<>>) \o l
SwitchedTo(p, c, w) ==
  [x \in R!Objects |-> IF x = p THEN "running"
                       ELSE IF x = c /\ Stays(c, w) /\ w[x] = "running" THEN "ready" ELSE w[x]]

\* The switch links the old thread in front of what is left, unless it is dead or IDLE.
LEMMA SwitchLinks ==
  ASSUME Pointers, ListInv, R!Switch
  PROVE  /\ status' = SwitchedTo(picked, running, status)
         /\ \E q, st, l, after :
              /\ Began(q, st) /\ PickedFrom(q, status, picked, l) /\ expired
              /\ status = WokenTo(st, q, due, Len(q) + 1)
              /\ after = InFront(running, status, l) /\ Linked(after)' /\ R!TypeOK' /\ Known'
<1>0. /\ pc = "switch" /\ pc' = "out" /\ running' = picked
      /\ IF Stays(running, status) THEN next' = [next EXCEPT ![running] = head] /\ head' = running
                  ELSE UNCHANGED <<next, head>>
      /\ status' = [[status EXCEPT ![running] = IF Stays(running, status) /\ @ = "running" THEN "ready" ELSE @]
                      EXCEPT ![picked] = "running"]
      /\ UNCHANGED <<created, t, prev, due, expired, picked, before>>
  BY DEF R!Switch, R!Pushed, Stays
<1>1. PICK q, st : Began(q, st) /\ InTick(q, st)
  BY <1>0 DEF ListInv
<1>2. R!TypeOK /\ Known
  BY DEF ListInv
<1>3. status = WokenTo(st, q, due, Len(q) + 1) /\ expired
  BY <1>0, <1>1 DEF InTick
<1>4. PICK l : Linked(l) /\ PickedFrom(q, status, picked, l)
  <2>1. CASE picked = IDLE /\ Linked(q) /\ NoneReady(WokenTo(st, q, due, Len(q) + 1), q, Len(q) + 1)
    BY <1>3, <2>1 DEF PickedFrom
  <2>2. CASE \E j \in 1..Len(q) :
               /\ picked = q[j] /\ WokenTo(st, q, due, Len(q) + 1)[q[j]] = "ready"
               /\ NoneReady(WokenTo(st, q, due, Len(q) + 1), q, j)
               /\ Linked(RemoveAt(q, j))
    BY <1>3, <2>2 DEF PickedFrom
  <2> QED BY <1>0, <1>1, <2>1, <2>2 DEF InTick
<1>5. /\ l \in Seq(Threads) /\ Chain(l, head, next) /\ IsNext(next)
      /\ running \notin ToSet(l) /\ picked \notin ToSet(l) /\ ToSet(l) \subseteq created
      /\ ToSet(l) \subseteq Threads
  BY <1>2, <1>4, LinkedFacts
<1>6. running \in R!Objects /\ picked \in R!Objects /\ picked # NULL /\ picked \in created \cup {IDLE}
  BY <1>0, <1>2 DEF R!TypeOK, Known, R!Objects
<1>7. Stays(running, status) => running \in Threads /\ running \in created /\ picked # running
  <2>1. Stays(running, status) => running \in Threads /\ running \in created /\ running # IDLE
    BY <1>2, <1>6 DEF Stays, Known, R!Objects
  <2>2. picked = IDLE \/ picked \in ToSet(q)
    <3>1. q \in Seq(Threads)
      BY <1>1 DEF Began
    <3>2. \A k \in 1..Len(q) : q[k] \in ToSet(q)
      BY <3>1 DEF ToSet
    <3> QED BY <1>4, <3>2 DEF PickedFrom
  <2>3. running \notin ToSet(q)
    BY <1>1 DEF Began
  <2> QED BY <2>1, <2>2, <2>3
<1>8. /\ status' \in [R!Objects -> States] /\ (Stays(running, status) => status'[running] # "dead")
      /\ \A x \in R!Objects : x # running /\ x # picked => status'[x] = status[x]
      /\ status' = SwitchedTo(picked, running, status)
  <2>1. status \in [R!Objects -> States]
    BY <1>2 DEF R!TypeOK, States
  <2>2. status' = SwitchedTo(picked, running, status)
    BY <1>0, <1>6, <2>1 DEF SwitchedTo
  <2>3. Stays(running, status) => status[running] # "dead"
    BY DEF Stays
  <2> QED BY <1>6, <1>7, <2>1, <2>2, <2>3 DEF States, SwitchedTo
<1>9. PICK after : after = InFront(running, status, l)
  OBVIOUS
<1>10. Chain(after, head', next') /\ ToSet(after) = ToSet(l) \cup (IF Stays(running, status) THEN {running} ELSE {})
  <2>1. CASE Stays(running, status)
    <3>1. after = <<running>> \o l
      BY <1>9, <2>1 DEF InFront
    <3>2. Chain(<<running>> \o l, running, [next EXCEPT ![running] = head])
          /\ ToSet(<<running>> \o l) = ToSet(l) \cup {running}
      BY <1>5, <1>7, <2>1, ChainPush
    <3> QED BY <1>0, <2>1, <3>1, <3>2
  <2>2. CASE ~Stays(running, status)
    <3>1. after = l
      <4>1. after = <<>> \o l
        BY <1>9, <2>2 DEF InFront
      <4> QED BY <1>5, <4>1
    <3> QED BY <1>0, <1>5, <2>2, <3>1
  <2> QED BY <2>1, <2>2
<1>11. Linked(after)'
  <2>1. ToSet(after) \subseteq created' \ {running', picked'}
    BY <1>0, <1>5, <1>7, <1>10
  <2>2. \A x \in ToSet(after) : status'[x] # "dead"
    <3>1. \A x \in ToSet(l) : status[x] # "dead"
      BY <1>4 DEF Linked
    <3>2. ToSet(l) \subseteq R!Objects
      BY <1>5 DEF R!Objects
    <3>3. \A x \in ToSet(l) : status'[x] # "dead"
      BY <1>5, <1>8, <3>1, <3>2
    <3> QED BY <1>8, <1>10, <3>3
  <2> QED BY <1>10, <2>1, <2>2 DEF Linked
<1>12. R!TypeOK'
  <2>1. next' \in [Threads -> Threads \cup {NULL}] /\ head' \in Threads \cup {NULL}
    BY <1>0, <1>2, <1>7 DEF R!TypeOK
  <2> QED BY <1>0, <1>2, <1>6, <1>8, <2>1 DEF R!TypeOK, States
<1>13. Known'
  BY <1>0, <1>6 DEF Known
<1>14. status' = SwitchedTo(picked, running, status)
  BY <1>8
<1> QED BY <1>1, <1>3, <1>4, <1>9, <1>11, <1>12, <1>13, <1>14

LEMMA SwitchKeepsList ==
  ASSUME Pointers, ListInv, R!Switch
  PROVE  ListInv'
<1>1. pc' = "out"
  BY DEF R!Switch
<1>2. R!TypeOK' /\ Known' /\ \E q : Linked(q)'
  BY SwitchLinks
<1> QED BY <1>1, <1>2 DEF ListInv

LEMMA StutterKeepsList ==
  ASSUME ListInv, UNCHANGED R!vars
  PROVE  ListInv'
<1>0. UNCHANGED <<head, next, status, running, created, pc, t, prev, due, expired, picked, before>>
  BY DEF R!vars
<1>1. PICK q : Linked(q)
  BY DEF ListInv
<1>2. Linked(q)'
  BY <1>0, <1>1 DEF Linked
<1>3. R!TypeOK' /\ Known'
  BY <1>0 DEF ListInv, R!TypeOK, Known
<1>4. ASSUME pc' # "out" PROVE \E r, st : Began(r, st)' /\ InTick(r, st)'
  <2>1. PICK r, st : Began(r, st) /\ InTick(r, st)
    BY <1>0, <1>4 DEF ListInv
  <2>2. Began(r, st)'
    BY <1>0, <2>1 DEF Began
  <2>3. InTick(r, st)'
    BY <1>0, <2>1 DEF InTick, Linked, Reached, Behind
  <2> QED BY <2>2, <2>3
<1> QED BY <1>2, <1>3, <1>4 DEF ListInv

LEMMA StepKeepsList ==
  ASSUME Pointers, ListInv, [R!Next]_(R!vars)
  PROVE  ListInv'
<1>1. CASE \E x \in Threads : R!scheduler_add_thread(x)
  BY <1>1, AddKeepsList
<1>2. CASE \E s \in {"blocked", "dead"} : R!Leave(s)
  BY <1>2, LeaveKeepsList
<1>3. CASE R!TickBegins
  BY <1>3, TickBeginsKeepsList
<1>4. CASE R!Turn
  <2>1. CASE R!WakeTurn
    BY <2>1, WakeTurnKeepsList
  <2>2. CASE R!LoopEnds("wake", "reap") \/ (expired /\ R!LoopEnds("reap", "pick"))
    BY <2>2, LoopEndsKeepsList
  <2>3. CASE R!ReapTurn
    BY <2>3, ReapTurnKeepsList
  <2>4. CASE R!TickReturns
    BY <2>4, TickReturnsKeepsList
  <2>5. CASE R!PickTurn
    BY <2>5, PickTurnKeepsList
  <2>6. CASE R!PickNone
    BY <2>6, PickNoneKeepsList
  <2>7. CASE R!Switch
    BY <2>7, SwitchKeepsList
  <2> QED BY <1>4, <2>1, <2>2, <2>3, <2>4, <2>5, <2>6, <2>7 DEF R!Turn
<1>5. CASE UNCHANGED R!vars
  BY <1>5, StutterKeepsList
<1> QED BY <1>1, <1>2, <1>3, <1>4, <1>5 DEF R!Next

\* The list of scheduler.c:69-150 for any number of threads: at every turn of every
\* loop, and between the stores that unlink and link, it ends, has no thread twice,
\* and holds neither the running thread nor the one that is about to run.
THEOREM ListStaysSound == Pointers => (R!Spec => []R!ListIsSound)
<1> SUFFICES ASSUME Pointers PROVE R!Spec => []R!ListIsSound
  OBVIOUS
<1>1. R!Init => ListInv
  BY ListInit
<1>2. ListInv /\ [R!Next]_(R!vars) => ListInv'
  BY StepKeepsList
<1>3. ListInv => R!ListIsSound
  BY ListInvIsSound
<1> QED BY <1>1, <1>2, <1>3, PTL DEF R!Spec

-----------------------------------------------------------------------------
\* The tick as one step on a sequence: what is seen outside a tick is the list, inside
\* one what it began with.

LEMMA SeenOutside ==
  ASSUME Pointers, R!TypeOK, pc = "out", NEW q, Linked(q)
  PROVE  R!Seen[1] = q /\ R!Seen[2] = status /\ R!Seen[3] = running
<1>1. R!ListFrom(head) = q
  BY LinkedIsList
<1>2. R!Seen = <<q, status, running>>
  BY <1>1 DEF R!Seen
<1> QED BY <1>2

LEMMA SeenOutsideNext ==
  ASSUME Pointers, R!TypeOK', pc' = "out", NEW q, Linked(q)'
  PROVE  (R!Seen[1])' = q /\ (R!Seen[2])' = status' /\ (R!Seen[3])' = running'
<1>1. Chain(q, head', next') /\ q \in Seq(Threads) /\ IsInjective(q)
  BY DEF Linked, Chain
<1>2. created' \in SUBSET Threads /\ ToSet(q) \subseteq created'
  BY DEF R!TypeOK, Linked
<1>3. Len(q) <= Cardinality(Threads)
  BY <1>1, <1>2, ChainIsShort
<1>4. R!ListFrom(head)' = q
  BY <1>1, <1>3, ListFromNextChain
<1>5. R!Seen' = <<q, status', running'>>
  BY <1>4 DEF R!Seen
<1> QED BY <1>5

LEMMA SeenInside ==
  ASSUME pc # "out", NEW q, NEW st, Began(q, st)
  PROVE  R!Seen[1] = q /\ R!Seen[2] = st /\ R!Seen[3] = running
BY DEF R!Seen, Began

\* The whole of the loop that wakes threads.
LEMMA WokenAll ==
  ASSUME NEW q \in Seq(Threads), NEW st \in [R!Objects -> States], NEW d
  PROVE  WokenTo(st, q, d, Len(q) + 1) =
           [x \in DOMAIN st |-> IF x \in d \cap ToSet(q) /\ st[x] = "blocked" THEN "ready" ELSE st[x]]
<1>1. (Len(q) + 1) - 1 = Len(q) /\ DOMAIN q = 1..Len(q) /\ DOMAIN st = R!Objects
  OBVIOUS
<1>2. \A x : x \in ToSet(q) <=> \E k \in 1..Len(q) : q[k] = x
  BY <1>1 DEF ToSet
<1> QED BY <1>1, <1>2 DEF WokenTo

\* The first ready thread, as ReadyQueue chooses it.
LEMMA FirstReady ==
  ASSUME NEW q \in Seq(Threads), NEW w, NEW j \in 1..Len(q), w[q[j]] = "ready", NoneReady(w, q, j)
  PROVE  LET ready == {k \in DOMAIN q : w[q[k]] = "ready"}
         IN ready # {} /\ (CHOOSE k \in ready : \A h \in ready : k <= h) = j
<1> DEFINE ready == {k \in DOMAIN q : w[q[k]] = "ready"}
<1>1. DOMAIN q = 1..Len(q) /\ j \in ready /\ Len(q) \in Nat
  OBVIOUS
<1>2. \A k \in ready : k \in Nat /\ j <= k
  <2> TAKE k \in ready
  <2>1. k \in 1..Len(q) /\ w[q[k]] = "ready"
    BY <1>1
  <2>2. ~(k \in 1 .. (j - 1))
    BY <2>1 DEF NoneReady
  <2> QED BY <1>1, <2>1, <2>2
<1> HIDE DEF ready
<1>3. \A k \in ready : (\A h \in ready : k <= h) => k = j
  BY <1>1, <1>2
<1>4. \E k \in ready : \A h \in ready : k <= h
  BY <1>1, <1>2
<1>5. (CHOOSE k \in ready : \A h \in ready : k <= h) = j
  BY <1>3, <1>4
<1> QED BY <1>1, <1>5 DEF ready

LEMMA NoReady ==
  ASSUME NEW q \in Seq(Threads), NEW w, NoneReady(w, q, Len(q) + 1)
  PROVE  {k \in DOMAIN q : w[q[k]] = "ready"} = {}
<1>1. DOMAIN q = 1..Len(q) /\ (Len(q) + 1) - 1 = Len(q)
  OBVIOUS
<1> QED BY <1>1 DEF NoneReady

\* ReadyQueue's tick on q with the states st and c running: with the quantum left and
\* with the quantum used up.
LEMMA TickPromised ==
  ASSUME NEW q \in Seq(Threads), NEW st \in [R!Objects -> States], NEW c \in R!Objects,
         NEW d, NEW e \in BOOLEAN, \A x \in ToSet(q) : st[x] # "dead",
         R!Seen[1] = q, R!Seen[2] = st, R!Seen[3] = c,
         NEW w, w = WokenTo(st, q, d, Len(q) + 1),
         \/ ~e /\ (R!Seen[1])' = q /\ (R!Seen[2])' = w /\ (R!Seen[3])' = c
         \/ e /\ \E p, l : /\ PickedFrom(q, w, p, l)
                           /\ (R!Seen[1])' = InFront(c, w, l)
                           /\ (R!Seen[2])' = SwitchedTo(p, c, w) /\ (R!Seen[3])' = p
  PROVE  R!Promise!Tick(d, e)
<1> DEFINE Q == R!Seen[1]
           S == R!Seen[2]
           C == R!Seen[3]
           live == IF \A x \in R!Promise!ToSet(Q) : S[x] # "dead" THEN Q
                   ELSE SelectSeq(Q, LAMBDA x : S[x] # "dead")
           woken == [x \in DOMAIN S |-> IF x \in d \cap R!Promise!ToSet(Q) /\ S[x] = "blocked"
                                        THEN "ready" ELSE S[x]]
<1>0. Q = q /\ S = st /\ C = c
  OBVIOUS
<1>s. \A s : R!Promise!ToSet(s) = ToSet(s)
  BY Zenon DEF R!Promise!ToSet, ToSet
<1>r. \A s, k : R!Promise!RemoveAt(s, k) = RemoveAt(s, k)
  BY Zenon DEF R!Promise!RemoveAt, RemoveAt
<1> HIDE DEF Q, S, C
<1>1. woken = w
  BY <1>0, <1>s, WokenAll
<1>2. live = q
  BY <1>0, <1>s
<1>d. DOMAIN st = R!Objects
  OBVIOUS
<1> HIDE DEF live, woken
<1>3. CASE ~e /\ (R!Seen[1])' = q /\ (R!Seen[2])' = w /\ (R!Seen[3])' = c
  <2>1. (R!Seen[1])' = live /\ (R!Seen[2])' = woken /\ (R!Seen[3])' = C /\ ~e
    BY <1>0, <1>1, <1>2, <1>3
  <2> QED BY <2>1, Zenon DEF R!Promise!Tick, live, woken, Q, S, C
<1>4. CASE e /\ \E p, l : /\ PickedFrom(q, w, p, l)
                           /\ (R!Seen[1])' = InFront(c, w, l)
                           /\ (R!Seen[2])' = SwitchedTo(p, c, w) /\ (R!Seen[3])' = p
  <2> DEFINE ready == {k \in DOMAIN live : woken[live[k]] = "ready"}
             first == CHOOSE k \in ready : \A h \in ready : k <= h
             p == IF ready = {} THEN IDLE ELSE live[first]
             l == IF ready = {} THEN live ELSE R!Promise!RemoveAt(live, first)
             stays == C # IDLE /\ woken[C] # "dead"
  <2>1. PICK a, b : /\ PickedFrom(q, w, a, b)
                    /\ (R!Seen[1])' = InFront(c, w, b)
                    /\ (R!Seen[2])' = SwitchedTo(a, c, w) /\ (R!Seen[3])' = a
    BY <1>4
  <2>2. p = a /\ l = b
    <3>1. CASE a = IDLE /\ b = q /\ NoneReady(w, q, Len(q) + 1)
      <4>1. ready = {}
        BY <1>1, <1>2, <3>1, NoReady
      <4> HIDE DEF ready
      <4> QED BY <1>2, <3>1, <4>1
    <3>2. CASE \E j \in 1..Len(q) :
                 a = q[j] /\ w[q[j]] = "ready" /\ NoneReady(w, q, j) /\ b = RemoveAt(q, j)
      <4>1. PICK j \in 1..Len(q) :
                 a = q[j] /\ w[q[j]] = "ready" /\ NoneReady(w, q, j) /\ b = RemoveAt(q, j)
        BY <3>2
      <4>2. ready # {} /\ first = j
        BY <1>1, <1>2, <4>1, FirstReady
      <4> HIDE DEF ready, first
      <4> QED BY <1>r, <1>2, <4>1, <4>2
    <3> QED BY <2>1, <3>1, <3>2 DEF PickedFrom
  <2> HIDE DEF p, l
  <2>3. (R!Seen[1])' = (IF stays THEN <<C>> ELSE <<>>) \o l
    BY <1>0, <1>1, <2>1, <2>2 DEF InFront, Stays
  <2>4. (R!Seen[2])' = [x \in DOMAIN S |->
               IF x = p THEN "running"
               ELSE IF x = C /\ stays /\ woken[x] = "running" THEN "ready" ELSE woken[x]]
    BY <1>0, <1>1, <1>d, <2>1, <2>2 DEF SwitchedTo, Stays
  <2>5. (R!Seen[3])' = p /\ e
    BY <1>4, <2>1, <2>2
  <2> QED BY <2>3, <2>4, <2>5, Zenon DEF R!Promise!Tick, p, l, live, woken, Q, S, C
<1> QED BY <1>3, <1>4

LEMMA AddPromised ==
  ASSUME Pointers, ListInv, NEW x \in Threads, R!scheduler_add_thread(x)
  PROVE  R!Promise!Add(x)
<1>1. PICK q, r : Linked(q) /\ x \notin ToSet(q) /\ r = <<x>> \o q /\ Linked(r)'
  BY AddLinks
<1>2. /\ R!TypeOK /\ R!TypeOK' /\ pc = "out" /\ pc' = "out" /\ x # running
      /\ status' = [status EXCEPT ![x] = "ready"] /\ running' = running
  BY AddLinks DEF ListInv, R!scheduler_add_thread, R!loopVars
<1>3. R!Seen[1] = q /\ R!Seen[2] = status /\ R!Seen[3] = running
  BY <1>1, <1>2, SeenOutside
<1>4. (R!Seen[1])' = r /\ (R!Seen[2])' = status' /\ (R!Seen[3])' = running'
  BY <1>1, <1>2, SeenOutsideNext
<1>5. R!Promise!ToSet(q) = ToSet(q)
  BY Zenon DEF R!Promise!ToSet, ToSet
<1> QED BY <1>1, <1>2, <1>3, <1>4, <1>5 DEF R!Promise!Add

LEMMA LeavePromised ==
  ASSUME Pointers, ListInv, NEW s \in {"blocked", "dead"}, R!Leave(s)
  PROVE  R!Promise!Leave(s)
<1>1. PICK q : Linked(q) /\ Linked(q)'
  BY LeaveLinks
<1>2. /\ R!TypeOK /\ R!TypeOK' /\ pc = "out" /\ pc' = "out" /\ running # IDLE
      /\ status' = [status EXCEPT ![running] = s] /\ running' = running
  BY LeaveLinks DEF ListInv, R!Leave, R!loopVars
<1>3. R!Seen[1] = q /\ R!Seen[2] = status /\ R!Seen[3] = running
  BY <1>1, <1>2, SeenOutside
<1>4. (R!Seen[1])' = q /\ (R!Seen[2])' = status' /\ (R!Seen[3])' = running'
  BY <1>1, <1>2, SeenOutsideNext
<1> QED BY <1>2, <1>3, <1>4 DEF R!Promise!Leave

\* The return with the quantum left: threads are woken and nothing else.
LEMMA ReturnPromised ==
  ASSUME Pointers, ListInv, R!TickReturns
  PROVE  R!Promise!Tick(due, FALSE)
<1>1. PICK q, st : /\ Began(q, st) /\ InTick(q, st) /\ Linked(q) /\ R!TypeOK
                   /\ q \in Seq(Threads) /\ st \in [R!Objects -> States]
                   /\ \A x \in ToSet(q) : st[x] # "dead"
  <2>1. pc = "reap"
    BY DEF R!TickReturns
  <2> QED BY <2>1, InLoop
<1>2. /\ pc = "reap" /\ pc' = "out"
      /\ UNCHANGED <<head, next, status, running, created, t, prev, due, expired, picked, before>>
  BY DEF R!TickReturns
<1>3. status = WokenTo(st, q, due, Len(q) + 1)
  BY <1>1, <1>2 DEF InTick
<1>4. R!Seen[1] = q /\ R!Seen[2] = st /\ R!Seen[3] = running
  BY <1>1, <1>2, SeenInside
<1>5. (R!Seen[1])' = q /\ (R!Seen[2])' = status' /\ (R!Seen[3])' = running'
  <2>1. Linked(q)'
    BY <1>1, <1>2 DEF Linked
  <2>2. R!TypeOK'
    BY <1>1, <1>2 DEF R!TypeOK
  <2> QED BY <1>2, <2>1, <2>2, SeenOutsideNext
<1>6. running \in R!Objects
  BY <1>1 DEF R!TypeOK
<1>7. (R!Seen[1])' = q /\ (R!Seen[2])' = status /\ (R!Seen[3])' = running
  BY <1>2, <1>5
<1> QED BY <1>1, <1>3, <1>4, <1>6, <1>7, TickPromised

\* The switch: the first ready thread, or IDLE, runs, and the old one is in front.
LEMMA SwitchPromised ==
  ASSUME Pointers, ListInv, R!Switch
  PROVE  R!Promise!Tick(due, TRUE)
<1>1. PICK q, st, l, after :
           /\ Began(q, st) /\ PickedFrom(q, status, picked, l)
           /\ status = WokenTo(st, q, due, Len(q) + 1)
           /\ after = InFront(running, status, l) /\ Linked(after)' /\ R!TypeOK'
  BY SwitchLinks
<1>2. /\ pc = "switch" /\ pc' = "out" /\ running' = picked
      /\ status' = SwitchedTo(picked, running, status)
  BY SwitchLinks DEF R!Switch
<1>3. R!Seen[1] = q /\ R!Seen[2] = st /\ R!Seen[3] = running
  BY <1>1, <1>2, SeenInside
<1>4. /\ (R!Seen[1])' = after /\ (R!Seen[2])' = status' /\ (R!Seen[3])' = running'
  BY <1>1, <1>2, SeenOutsideNext
<1>5. /\ (R!Seen[1])' = InFront(running, status, l)
      /\ (R!Seen[2])' = SwitchedTo(picked, running, status) /\ (R!Seen[3])' = picked
  BY <1>1, <1>2, <1>4
<1>6. running \in R!Objects
  BY DEF ListInv, R!TypeOK
<1>7. q \in Seq(Threads) /\ st \in [R!Objects -> States] /\ \A x \in ToSet(q) : st[x] # "dead"
  BY <1>1 DEF Began
<1> QED BY <1>1, <1>3, <1>5, <1>6, <1>7, TickPromised

\* The beginning of a tick and the turns of its loops are not seen.
LEMMA TurnsUnseen ==
  ASSUME Pointers, ListInv,
         \/ R!TickBegins \/ R!WakeTurn \/ R!LoopEnds("wake", "reap") \/ R!ReapTurn
         \/ (expired /\ R!LoopEnds("reap", "pick")) \/ R!PickTurn \/ R!PickNone
         \/ UNCHANGED R!vars
  PROVE  UNCHANGED R!Promise!vars
<1>1. CASE R!TickBegins
  <2>1. R!Seen = <<R!ListFrom(head), status, running>> /\ before' = <<R!ListFrom(head), status, running>>
    BY <1>1 DEF R!TickBegins, R!Seen
  <2>2. R!Seen' = before'
    BY <1>1 DEF R!TickBegins, R!Seen
  <2> QED BY <2>1, <2>2 DEF R!Promise!vars
<1>2. CASE pc # "out" /\ pc' # "out" /\ before' = before
  <2>1. R!Seen = before /\ R!Seen' = before'
    BY <1>2 DEF R!Seen
  <2> QED BY <1>2, <2>1 DEF R!Promise!vars
<1>3. CASE R!WakeTurn \/ R!ReapTurn \/ R!PickTurn
  <2>1. pc # "out" /\ pc' # "out" /\ before' = before
    BY <1>3 DEF R!WakeTurn, R!ReapTurn, R!PickTurn
  <2> QED BY <1>2, <2>1
<1>4. CASE R!LoopEnds("wake", "reap") \/ (expired /\ R!LoopEnds("reap", "pick")) \/ R!PickNone
  <2>1. pc # "out" /\ pc' # "out" /\ before' = before
    BY <1>4 DEF R!LoopEnds, R!PickNone
  <2> QED BY <1>2, <2>1
<1>5. CASE UNCHANGED R!vars
  <2>1. UNCHANGED <<head, next, status, running, pc, before>>
    BY <1>5 DEF R!vars
  <2>2. CASE pc # "out"
    BY <1>2, <2>1, <2>2
  <2>3. CASE pc = "out"
    <3>1. PICK q : Linked(q)
      BY DEF ListInv
    <3>2. Linked(q)' /\ R!TypeOK /\ R!TypeOK'
      BY <1>5, <3>1 DEF R!vars, ListInv, Linked, R!TypeOK
    <3>3. R!Seen[1] = q /\ R!Seen[2] = status /\ R!Seen[3] = running
      BY <2>3, <3>1, <3>2, SeenOutside
    <3>4. (R!Seen[1])' = q /\ (R!Seen[2])' = status' /\ (R!Seen[3])' = running'
      BY <2>1, <2>3, <3>2, SeenOutsideNext
    <3> QED BY <2>1, <3>3, <3>4 DEF R!Promise!vars
  <2> QED BY <2>2, <2>3
<1> QED BY <1>1, <1>3, <1>4, <1>5

LEMMA StepPromised ==
  ASSUME Pointers, ListInv, [R!Next]_(R!vars)
  PROVE  [R!Promise!Next]_(R!Promise!vars)
<1>1. CASE \E x \in Threads : R!scheduler_add_thread(x)
  BY <1>1, AddPromised DEF R!Promise!Next
<1>2. CASE \E s \in {"blocked", "dead"} : R!Leave(s)
  BY <1>2, LeavePromised DEF R!Promise!Next
<1>d. due \in SUBSET Threads /\ TRUE \in BOOLEAN /\ FALSE \in BOOLEAN
  BY DEF ListInv, R!TypeOK
<1>3. CASE R!TickReturns
  BY <1>d, <1>3, ReturnPromised DEF R!Promise!Next
<1>4. CASE R!Switch
  BY <1>d, <1>4, SwitchPromised DEF R!Promise!Next
<1>5. CASE \/ R!TickBegins \/ R!WakeTurn \/ R!LoopEnds("wake", "reap") \/ R!ReapTurn
           \/ (expired /\ R!LoopEnds("reap", "pick")) \/ R!PickTurn \/ R!PickNone
           \/ UNCHANGED R!vars
  BY <1>5, TurnsUnseen
<1> QED BY <1>1, <1>2, <1>3, <1>4, <1>5 DEF R!Next, R!Turn

\* scheduler_tick_irq for any number of threads: from outside, the three loops and the
\* switch are one step on a sequence, which is how module Scheduler has the tick.
THEOREM LoopsAreOneTick == Pointers => (R!Spec => R!ImplementsReadyQueue)
<1> SUFFICES ASSUME Pointers PROVE R!Spec => R!ImplementsReadyQueue
  OBVIOUS
<1>1. R!Init => ListInv
  BY ListInit
<1>2. ListInv /\ [R!Next]_(R!vars) => ListInv'
  BY StepKeepsList
<1>3. R!Init => R!Promise!Init
  <2> SUFFICES ASSUME R!Init PROVE R!Promise!Init
    OBVIOUS
  <2>1. pc = "out" /\ running = IDLE /\ status = [x \in Threads \cup {IDLE} |-> "running"]
    BY DEF R!Init, R!Objects
  <2>2. R!TypeOK /\ Linked(<<>>)
    BY ListInit, EmptyLinked DEF ListInv
  <2>3. R!Seen[1] = <<>> /\ R!Seen[2] = status /\ R!Seen[3] = running
    BY <2>1, <2>2, SeenOutside
  <2> QED BY <2>1, <2>3 DEF R!Promise!Init
<1>4. ListInv /\ [R!Next]_(R!vars) => [R!Promise!Next]_(R!Promise!vars)
  BY StepPromised
<1> QED BY <1>1, <1>2, <1>3, <1>4, PTL DEF R!Spec, R!ImplementsReadyQueue, R!Promise!Spec
=============================================================================
