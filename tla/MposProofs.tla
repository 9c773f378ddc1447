---------------------------- MODULE MposProofs ----------------------------
(***************************************************************************)
(* Proofs about the MiniprocOS kernel, for every size of the process table *)
(* and every set of exit statuses.  IKernel holds whatever the programs    *)
(* call; what sys_wait promises also needs programs that never call        *)
(* sys_kill, which clears neither the p_waiting of the process the victim  *)
(* waits for nor the %eax of the process waiting for the victim.           *)
(***************************************************************************)
EXTENDS Mpos, TLAPS

IKernel == TypeOK /\ RunsTheRunnable /\ DeadHasNoWaiter

USE UsageAssumption, SizeAssumption, ValueAssumption
    DEF UsageAssumption, SizeAssumption, ValueAssumption

LEMMA PidsAreSlots == Pids = Slots \ {0} /\ Pids \subseteq Int /\ 0 \in Slots /\ 1 \in Pids
  BY DEF Pids, Slots

(* schedule() leaves the processor with a runnable process, or spins *)
LEMMA ScheduleRuns ==
    ASSUME NEW st, st \in [Slots -> States], st[0] = "EMPTY",
           current \in Pids, spinning \in BOOLEAN, ~ spinning,
           schedule(st)
    PROVE  /\ current' \in Pids /\ spinning' \in BOOLEAN
           /\ IF spinning' THEN Runnable(st) = {} ELSE st[current'] = "RUNNABLE"
<1>1. CASE Runnable(st) = {} /\ spinning' = TRUE /\ UNCHANGED current
  BY <1>1
<1>2. CASE \E q \in Runnable(st) : current' = q /\ UNCHANGED spinning
  BY <1>2, PidsAreSlots DEF Runnable
<1> QED BY <1>1, <1>2 DEF schedule

LEMMA InitKernel == Init => IKernel
<1> SUFFICES ASSUME Init PROVE IKernel
  OBVIOUS
<1> USE PidsAreSlots DEF Init
<1>1. TypeOK
  <2>1. 0 \in -1 .. NPROCS - 1
    OBVIOUS
  <2>2. p_state \in [Slots -> States]
    BY DEF States
  <2>3. p_waiting \in [Slots -> -1 .. NPROCS - 1]
    BY <2>1
  <2>4. p_exit_status \in [Slots -> Int] /\ eax \in [Slots -> Int]
    OBVIOUS
  <2> QED BY <2>2, <2>3, <2>4 DEF TypeOK
<1>2. RunsTheRunnable
  BY DEF RunsTheRunnable
<1>3. DeadHasNoWaiter
  BY DEF DeadHasNoWaiter
<1> QED BY <1>1, <1>2, <1>3 DEF IKernel

LEMMA NextKernel == IKernel /\ [Next]_vars => IKernel'
<1> SUFFICES ASSUME IKernel, [Next]_vars PROVE IKernel'
  OBVIOUS
<1> USE PidsAreSlots DEF IKernel, TypeOK, States
<1>u. usage' \in Usages
  BY DEF Next, vars
<1> USE <1>u
<1>0. ~ spinning => p_state[current] = "RUNNABLE"
  BY DEF RunsTheRunnable
<1>1. CASE UNCHANGED vars
  BY <1>1 DEF vars, table, RunsTheRunnable, DeadHasNoWaiter, Runnable
<1>2. CASE GetPid
  BY <1>2 DEF GetPid, table, Returns, RunCurrent, RunsTheRunnable, DeadHasNoWaiter, Runnable
<1>3. CASE Fork
  <2>1. p_state' \in [Slots -> States] /\ eax' \in [Slots -> Int]
    BY <1>3 DEF Fork, Returns
  <2>2. RunsTheRunnable'
    BY <1>3, <1>0 DEF Fork, Free, RunCurrent, RunsTheRunnable
  <2>3. DeadHasNoWaiter'
    BY <1>3, <2>1 DEF Fork, DeadHasNoWaiter
  <2> QED BY <1>3, <2>1, <2>2, <2>3 DEF Fork, RunCurrent
<1>4. CASE NewThread
  <2>1. /\ p_state' \in [Slots -> States] /\ eax' \in [Slots -> Int]
        /\ p_waiting' \in [Slots -> -1 .. NPROCS - 1]
        /\ p_state'[0] = "EMPTY"
    BY <1>4 DEF NewThread, Returns, RunsTheRunnable, Free
  <2>2. DeadHasNoWaiter'
    BY <1>4, <2>1 DEF NewThread, DeadHasNoWaiter
  <2>3. schedule(p_state') /\ ~ spinning
    BY <1>4 DEF NewThread
  <2> QED BY <1>4, <2>1, <2>2, <2>3, ScheduleRuns DEF NewThread, RunsTheRunnable
<1>5. CASE Yield
  <2>1. schedule(p_state) /\ ~ spinning /\ p_state[0] = "EMPTY"
    BY <1>5 DEF Yield, table, RunsTheRunnable
  <2> QED BY <1>5, <2>1, ScheduleRuns DEF Yield, table, RunsTheRunnable, DeadHasNoWaiter, Runnable
<1>6. ASSUME NEW status \in Statuses, Exit(status) PROVE IKernel'
  <2>1. status \in Int
    OBVIOUS
  <2>2. p_waiting[current] \in -1 .. NPROCS - 1 /\ (p_waiting[current] > 0 => p_waiting[current] \in Pids)
    BY DEF Pids
  <2>3. /\ p_state' \in [Slots -> States] /\ eax' \in [Slots -> Int]
        /\ p_waiting' \in [Slots -> -1 .. NPROCS - 1]
        /\ p_exit_status' \in [Slots -> Int]
        /\ p_state'[0] = "EMPTY"
    BY <1>6, <2>1, <2>2 DEF Exit, Returns, DropWaiter, RunsTheRunnable
  <2>4. DeadHasNoWaiter'
    BY <1>6, <2>2, <2>3 DEF Exit, DropWaiter, DeadHasNoWaiter
  <2>5. schedule(p_state') /\ ~ spinning
    BY <1>6 DEF Exit
  <2>6. /\ current' \in Pids /\ spinning' \in BOOLEAN
        /\ IF spinning' THEN Runnable(p_state') = {} ELSE p_state'[current'] = "RUNNABLE"
    BY <2>3, <2>5, ScheduleRuns
  <2> QED BY <2>3, <2>4, <2>6 DEF RunsTheRunnable, Runnable
<1>7. ASSUME NEW p \in -1 .. NPROCS, Wait(p) PROVE IKernel'
  <2>a. current \in -1 .. NPROCS - 1
    BY DEF Pids
  <2>b. p_state' \in [Slots -> States] /\ p_state'[0] = "EMPTY"
    BY <1>7 DEF Wait, Reaped, Exists, RunsTheRunnable
  <2>c. p_waiting' \in [Slots -> -1 .. NPROCS - 1]
    BY <1>7, <2>a DEF Wait, Exists
  <2>d. eax' \in [Slots -> Int]
    BY <1>7 DEF Wait, Returns, Exists
  <2>1. /\ p_state' \in [Slots -> States] /\ eax' \in [Slots -> Int]
        /\ p_waiting' \in [Slots -> -1 .. NPROCS - 1]
        /\ p_state'[0] = "EMPTY"
    BY <2>b, <2>c, <2>d
  <2>2. DeadHasNoWaiter'
    BY <1>7, <2>1, <1>0 DEF Wait, Reaped, Exists, DeadHasNoWaiter
  <2>3. schedule(p_state') /\ ~ spinning
    BY <1>7 DEF Wait
  <2> QED BY <1>7, <2>1, <2>2, <2>3, ScheduleRuns DEF Wait, RunsTheRunnable
<1>8. ASSUME NEW p \in -1 .. NPROCS, Kill(p) PROVE IKernel'
  <2>1. Exists(p) => /\ p \in Pids
                     /\ p_waiting[p] > 0 => p_waiting[p] \in Pids
    BY DEF Exists, Pids
  <2>2. /\ p_state' \in [Slots -> States] /\ eax' \in [Slots -> Int]
        /\ p_waiting' \in [Slots -> -1 .. NPROCS - 1]
        /\ p_state'[0] = "EMPTY"
    BY <1>8, <2>1 DEF Kill, Returns, RunsTheRunnable
  <2>3. DeadHasNoWaiter'
    BY <1>8, <2>1, <2>2 DEF Kill, DeadHasNoWaiter
  <2>4. schedule(p_state') /\ ~ spinning
    BY <1>8 DEF Kill
  <2> QED BY <1>8, <2>2, <2>3, <2>4, ScheduleRuns DEF Kill, RunsTheRunnable
<1> QED BY <1>1, <1>2, <1>3, <1>4, <1>5, <1>6, <1>7, <1>8 DEF Next

(* Every variable keeps its type, the processor runs a runnable process or *)
(* spins because there is none, and no dead process has a waiter.          *)
THEOREM Kernel == Spec => []IKernel
  BY InitKernel, NextKernel, PTL DEF Spec

(* The type invariant of the runs *)
THEOREM TypeCorrect == Spec => []TypeOK
  BY Kernel, PTL DEF IKernel

(* interrupt and schedule() give the processor only to runnable processes, *)
(* and schedule() spins only when there is none.                           *)
THEOREM RunsTheRunnableCorrect == Spec => []RunsTheRunnable
  BY Kernel, PTL DEF IKernel

(* do_fork may leave p_waiting as it is: the slots it takes have none *)
THEOREM DeadHasNoWaiterCorrect == Spec => []DeadHasNoWaiter
  BY Kernel, PTL DEF IKernel

---------------------------------------------------------------------------
(* Programs that never call sys_kill *)

NoKill == "kill" \notin usage
IWait == IKernel /\ WaiterIsBlocked

LEMMA NextWait == IWait /\ [Next]_vars => WaiterIsBlocked'
<1>u. [Next]_vars => usage' = usage
  BY DEF Next, vars
<1> SUFFICES ASSUME NoKill, IWait, [Next]_vars
             PROVE  \A q \in Pids : p_waiting'[q] > 0 =>
                        /\ p_waiting'[q] # q /\ p_state'[p_waiting'[q]] = "BLOCKED"
                        /\ eax'[p_waiting'[q]] = q /\ Alive(q)'
  BY <1>u DEF WaiterIsBlocked, NoKill
<1> USE PidsAreSlots DEF IWait, IKernel, TypeOK, States, WaiterIsBlocked, Alive, NoKill
<1> DEFINE Waiting == \A q \in Pids : p_waiting'[q] > 0 =>
                        /\ p_waiting'[q] # q /\ p_state'[p_waiting'[q]] = "BLOCKED"
                        /\ eax'[p_waiting'[q]] = q /\ Alive(q)'
<1>0. ~ spinning => p_state[current] = "RUNNABLE"
  BY DEF RunsTheRunnable
<1>1. CASE UNCHANGED vars
  BY <1>1 DEF vars, table
<1>2. CASE GetPid
  BY <1>2, <1>0 DEF GetPid, table, Returns
<1>3. CASE Fork
  BY <1>3, <1>0 DEF Fork, Free, Returns, DeadHasNoWaiter, Pids
<1>4. CASE NewThread
  BY <1>4, <1>0 DEF NewThread, Free, Returns, DeadHasNoWaiter, Pids
<1>5. CASE Yield
  BY <1>5 DEF Yield, table
<1>6. ASSUME NEW status \in Statuses, Exit(status) PROVE Waiting
  <2>1. \A q \in Pids : p_waiting[q] > 0 => p_waiting[q] \in Pids
    BY DEF Pids
  <2>2. ~ spinning
    BY <1>6 DEF Exit
  <2>3. SUFFICES ASSUME NEW q \in Pids, p_waiting'[q] > 0
                 PROVE  /\ p_waiting'[q] # q /\ p_state'[p_waiting'[q]] = "BLOCKED"
                        /\ eax'[p_waiting'[q]] = q /\ Alive(q)'
    OBVIOUS
  <2>4. q # current /\ p_waiting'[q] = p_waiting[q]
    BY <1>6, <2>3 DEF Exit, DropWaiter
  <2>5. /\ p_waiting[q] # q /\ p_state[p_waiting[q]] = "BLOCKED"
        /\ eax[p_waiting[q]] = q /\ Alive(q) /\ p_waiting[q] # current
    BY <2>3, <2>4, <2>2, <1>0
  <2>6. p_waiting[current] > 0 => p_waiting[current] # p_waiting[q]
    BY <2>4, <2>5
  <2> QED BY <1>6, <2>1, <2>3, <2>4, <2>5, <2>6 DEF Exit, Returns, DropWaiter
<1>7. ASSUME NEW p \in -1 .. NPROCS, Wait(p) PROVE Waiting
  <2>1. \A q \in Pids : p_waiting[q] > 0 => p_waiting[q] \in Pids
    BY DEF Pids
  <2>2. ~ spinning
    BY <1>7 DEF Wait
  <2>3. \A q \in Pids : p_waiting[q] # current
    BY <1>0, <2>2 DEF Pids
  <2>4. CASE ~ Exists(p)
    BY <1>7, <2>1, <2>3, <2>4 DEF Wait, Returns
  <2>5. CASE Exists(p) /\ p_state[p] = "ZOMBIE"
    BY <1>7, <2>1, <2>2, <2>3, <2>5, <1>0 DEF Wait, Returns, Reaped, Exists, DeadHasNoWaiter
  <2>6. CASE Exists(p) /\ p_state[p] # "ZOMBIE"
    BY <1>7, <2>1, <2>2, <2>3, <2>6, <1>0 DEF Wait, Returns, Exists
  <2> QED BY <2>4, <2>5, <2>6
<1>8. ASSUME NEW p \in -1 .. NPROCS, Kill(p) PROVE FALSE
  BY <1>8 DEF Kill
<1> QED BY <1>1, <1>2, <1>3, <1>4, <1>5, <1>6, <1>7, <1>8 DEF Next

LEMMA Waiters == Spec => []IWait
<1>1. Init => WaiterIsBlocked
  BY DEF Init, WaiterIsBlocked, Pids, Slots
<1>2. IWait /\ [Next]_vars => IWait'
  BY NextWait, NextKernel DEF IWait
<1>3. Init => IWait
  BY <1>1, InitKernel DEF IWait
<1> QED BY <1>2, <1>3, PTL DEF Spec

(* The process that exit will wake waits for exactly this process *)
THEOREM WaiterIsBlockedCorrect == Spec => []WaiterIsBlocked
  BY Waiters, PTL DEF IWait

LEMMA StepsOfWait ==
    ASSUME NoKill, IWait, Next
    PROVE  \A w \in Pids : p_state[w] = "BLOCKED" /\ p_state'[w] = "RUNNABLE" =>
               /\ eax[w] = current
               /\ eax'[w] = p_exit_status'[eax[w]]
               /\ p_state'[eax[w]] = "EMPTY"
<1> SUFFICES ASSUME NEW w \in Pids, p_state[w] = "BLOCKED", p_state'[w] = "RUNNABLE"
             PROVE  /\ eax[w] = current
                    /\ eax'[w] = p_exit_status'[eax[w]]
                    /\ p_state'[eax[w]] = "EMPTY"
  OBVIOUS
<1> USE PidsAreSlots DEF IWait, IKernel, TypeOK, States, NoKill
<1>0. ~ spinning => p_state[current] = "RUNNABLE"
  BY DEF RunsTheRunnable
<1>1. CASE GetPid \/ Fork \/ NewThread \/ Yield
  BY <1>1 DEF GetPid, Fork, NewThread, Yield, Free, table
<1>2. ASSUME NEW status \in Statuses, Exit(status)
      PROVE  /\ eax[w] = current
             /\ eax'[w] = p_exit_status'[eax[w]]
             /\ p_state'[eax[w]] = "EMPTY"
  <2>1. w # current /\ p_waiting[current] = w
    BY <1>0, <1>2 DEF Exit
  <2> QED BY <1>2, <2>1 DEF Exit, Returns, WaiterIsBlocked
<1>3. ASSUME NEW p \in -1 .. NPROCS, Wait(p) PROVE FALSE
  BY <1>0, <1>3 DEF Wait, Reaped, Exists
<1>4. ASSUME NEW p \in -1 .. NPROCS, Kill(p) PROVE FALSE
  BY <1>4 DEF Kill, NoKill
<1> QED BY <1>1, <1>2, <1>3, <1>4 DEF Next

(* A blocked sys_wait returns only when the process it waits for exits,    *)
(* and returns that process's status; the slot is free from then on.       *)
THEOREM WaitGivesStatusCorrect == Spec => WaitGivesStatus
<1>1. IWait /\ [Next]_vars =>
          ["kill" \notin usage => \A w \in Pids : p_state[w] = "BLOCKED" /\ p_state'[w] = "RUNNABLE" =>
               /\ eax[w] = current
               /\ eax'[w] = p_exit_status'[eax[w]]
               /\ p_state'[eax[w]] = "EMPTY"]_vars
  BY StepsOfWait DEF NoKill
<1> QED BY <1>1, Waiters, PTL DEF Spec, WaitGivesStatus

LEMMA StepsOfCreation ==
    ASSUME NoKill, IWait, Next
    PROVE  \A p \in Slots : p_state[p] = "EMPTY" /\ p_state'[p] # "EMPTY" =>
               eax'[current] = p /\ eax'[p] = 0
<1> SUFFICES ASSUME NEW n \in Slots, p_state[n] = "EMPTY", p_state'[n] # "EMPTY"
             PROVE  eax'[current] = n /\ eax'[n] = 0
  OBVIOUS
<1> USE PidsAreSlots DEF IWait, IKernel, TypeOK, States, NoKill
<1>0. ~ spinning => p_state[current] = "RUNNABLE"
  BY DEF RunsTheRunnable
<1>1. CASE GetPid \/ Yield
  BY <1>1 DEF GetPid, Yield, table
<1>2. CASE Fork \/ NewThread
  BY <1>0, <1>2 DEF Fork, NewThread, Free, Returns
<1>3. ASSUME NEW status \in Statuses, Exit(status) PROVE FALSE
  <2>1. n # current /\ p_waiting[current] = n /\ n > 0
    BY <1>0, <1>3 DEF Exit
  <2>2. p_state[n] = "BLOCKED"
    BY <2>1 DEF WaiterIsBlocked
  <2> QED BY <2>2
<1>4. ASSUME NEW p \in -1 .. NPROCS, Wait(p) PROVE FALSE
  BY <1>0, <1>4 DEF Wait, Reaped, Exists
<1>5. ASSUME NEW p \in -1 .. NPROCS, Kill(p) PROVE FALSE
  BY <1>5 DEF Kill, NoKill
<1> QED BY <1>1, <1>2, <1>3, <1>4, <1>5 DEF Next

(* Nothing but sys_fork and sys_newthread brings a slot to life: no late   *)
(* exit wakes a process that is gone.                                      *)
THEOREM OnlyCreatedComeAliveCorrect == Spec => OnlyCreatedComeAlive
<1>1. IWait /\ [Next]_vars =>
          ["kill" \notin usage => \A p \in Slots : p_state[p] = "EMPTY" /\ p_state'[p] # "EMPTY" =>
               eax'[current] = p /\ eax'[p] = 0]_vars
  BY StepsOfCreation DEF NoKill
<1> QED BY <1>1, Waiters, PTL DEF Spec, OnlyCreatedComeAlive

LEMMA StepsOfReaping ==
    ASSUME NoKill, IWait, Next
    PROVE  \A z \in Pids : p_state[z] = "ZOMBIE" =>
               \/ p_state'[z] = "ZOMBIE"
               \/ p_state'[z] = "EMPTY" /\ eax'[current] = p_exit_status[z]
<1> SUFFICES ASSUME NEW z \in Pids, p_state[z] = "ZOMBIE"
             PROVE  \/ p_state'[z] = "ZOMBIE"
                    \/ p_state'[z] = "EMPTY" /\ eax'[current] = p_exit_status[z]
  OBVIOUS
<1> USE PidsAreSlots DEF IWait, IKernel, TypeOK, States, NoKill
<1>0. ~ spinning => p_state[current] = "RUNNABLE"
  BY DEF RunsTheRunnable
<1>1. CASE GetPid \/ Yield
  BY <1>1 DEF GetPid, Yield, table
<1>2. CASE Fork \/ NewThread
  BY <1>2 DEF Fork, NewThread, Free
<1>3. ASSUME NEW status \in Statuses, Exit(status) PROVE p_state'[z] = "ZOMBIE"
  <2>1. z # current
    BY <1>0, <1>3 DEF Exit
  <2>2. p_waiting[current] > 0 => p_waiting[current] # z
    BY DEF WaiterIsBlocked
  <2> QED BY <1>3, <2>1, <2>2 DEF Exit
<1>4. ASSUME NEW p \in -1 .. NPROCS, Wait(p)
      PROVE  \/ p_state'[z] = "ZOMBIE"
             \/ p_state'[z] = "EMPTY" /\ eax'[current] = p_exit_status[z]
  <2>1. z # current
    BY <1>0, <1>4 DEF Wait
  <2> QED BY <1>4, <2>1 DEF Wait, Reaped, Exists, Returns
<1>5. ASSUME NEW p \in -1 .. NPROCS, Kill(p) PROVE FALSE
  BY <1>5 DEF Kill, NoKill
<1> QED BY <1>1, <1>2, <1>3, <1>4, <1>5 DEF Next

(* The status of a zombie goes to one sys_wait, and the slot with it. *)
THEOREM ZombieReapedOnceCorrect == Spec => ZombieReapedOnce
<1>1. IWait /\ [Next]_vars =>
          ["kill" \notin usage => \A z \in Pids : p_state[z] = "ZOMBIE" =>
               \/ p_state'[z] = "ZOMBIE"
               \/ p_state'[z] = "EMPTY" /\ eax'[current] = p_exit_status[z]]_vars
  BY StepsOfReaping DEF NoKill
<1> QED BY <1>1, Waiters, PTL DEF Spec, ZombieReapedOnce

---------------------------------------------------------------------------
(* Programs in which, besides, nobody waits for a process already waited for *)

IBlocked == IWait /\ BlockedWillBeWoken

LEMMA NextBlocked == IBlocked /\ [Next]_vars => BlockedWillBeWoken'
<1>u. [Next]_vars => usage' = usage
  BY DEF Next, vars
<1> DEFINE Woken == \A w \in Pids : p_state'[w] = "BLOCKED" =>
                        eax'[w] \in Pids /\ p_waiting'[eax'[w]] = w
<1> SUFFICES ASSUME usage = {}, IBlocked, [Next]_vars PROVE Woken
  BY <1>u DEF BlockedWillBeWoken
<1> USE PidsAreSlots DEF IBlocked, IWait, IKernel, TypeOK, States
<1>0. ~ spinning => p_state[current] = "RUNNABLE"
  BY DEF RunsTheRunnable
<1>b. \A w \in Pids : p_state[w] = "BLOCKED" => eax[w] \in Pids /\ p_waiting[eax[w]] = w /\ w > 0
  BY DEF BlockedWillBeWoken, Pids
<1>1. CASE UNCHANGED vars
  BY <1>1, <1>b DEF vars, table
<1>2. CASE GetPid \/ Yield
  BY <1>2, <1>0, <1>b DEF GetPid, Yield, table, Returns
<1>3. CASE Fork
  BY <1>3, <1>0, <1>b DEF Fork, Free, Returns
<1>4. CASE NewThread
  <2>1. CASE Full
    BY <1>4, <2>1, <1>0, <1>b DEF NewThread, Free, Full, Returns
  <2>2. ASSUME NEW p \in Slots, Free(p), ~ spinning,
               p_state' = [p_state EXCEPT ![p] = "RUNNABLE"],
               p_waiting' = [p_waiting EXCEPT ![p] = -1],
               eax' = [Returns(p) EXCEPT ![p] = 0]
        PROVE  Woken
    <3>1. p_waiting[p] <= 0 /\ p_state[p] = "EMPTY"
      BY <2>2 DEF DeadHasNoWaiter, Free
    <3>2. \A w \in Pids : p_state'[w] = "BLOCKED" =>
             p_state[w] = "BLOCKED" /\ w # p /\ w # current /\ eax[w] # p
      BY <2>2, <3>1, <1>0, <1>b
    <3> QED BY <2>2, <3>2, <1>b DEF Returns
  <2> QED BY <1>4, <2>1, <2>2 DEF NewThread
<1>5. ASSUME NEW status \in Statuses, Exit(status) PROVE Woken
  <2>1. \A w \in Pids : p_state'[w] = "BLOCKED" =>
             /\ p_state[w] = "BLOCKED" /\ w # current
             /\ p_waiting[current] > 0 => w # p_waiting[current]
             /\ eax'[w] = eax[w]
    BY <1>5, <1>0 DEF Exit, Returns
  <2>2. \A w \in Pids : p_state'[w] = "BLOCKED" => eax[w] # current
    BY <2>1, <1>b
  <2> QED BY <1>5, <2>1, <2>2, <1>b DEF Exit, DropWaiter
<1>6. ASSUME NEW p \in -1 .. NPROCS, Wait(p) PROVE Woken
  <2>0. ~ spinning
    BY <1>6 DEF Wait
  <2>1. CASE ~ Exists(p)
    BY <1>6, <2>0, <2>1, <1>0, <1>b DEF Wait, Returns
  <2>2. CASE Exists(p) /\ p_state[p] = "ZOMBIE"
    BY <1>6, <2>0, <2>2, <1>0, <1>b DEF Wait, Returns, Reaped, Exists
  <2>3. CASE Exists(p) /\ p_state[p] # "ZOMBIE"
    <3>1. p_waiting[p] <= 0 /\ p \in Pids
      BY <1>6, <2>3 DEF Wait, MayWait, WaitedFor, Exists, Pids
    <3> QED BY <1>6, <2>0, <2>3, <3>1, <1>0, <1>b DEF Wait, Returns, Exists
  <2> QED BY <2>1, <2>2, <2>3
<1>7. ASSUME NEW p \in -1 .. NPROCS, Kill(p) PROVE FALSE
  BY <1>7 DEF Kill
<1> QED BY <1>1, <1>2, <1>3, <1>4, <1>5, <1>6, <1>7 DEF Next

(* A process blocked in sys_wait is the one that the process it waits for  *)
(* will wake: with one waiter for each process nobody is forgotten.        *)
THEOREM BlockedWillBeWokenCorrect == Spec => []BlockedWillBeWoken
<1>1. Init => BlockedWillBeWoken
  BY PidsAreSlots DEF Init, BlockedWillBeWoken
<1>2. IWait /\ BlockedWillBeWoken /\ [Next]_vars => BlockedWillBeWoken'
  BY NextBlocked DEF IBlocked
<1> QED BY <1>1, <1>2, Waiters, PTL DEF Spec
=============================================================================
