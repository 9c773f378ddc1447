-------------------------------- MODULE Mpos --------------------------------
(***************************************************************************)
(* The MiniprocOS kernel of WeensyOS1/mpos-kern.c: the process table, the  *)
(* system calls and the round-robin scheduler.  The kernel is cooperative: *)
(* `current' runs in user mode until it makes a system call, and interrupt *)
(* runs that call to its end, run() or schedule() included; so each action *)
(* is one system call of the current process, whichever call its program   *)
(* makes.  Registers are reduced to %eax, which carries a call's argument  *)
(* in and its result out; a blocked process's eax is still the pid it      *)
(* waits for.                                                              *)
(***************************************************************************)
EXTENDS Integers, FiniteSets

CONSTANTS
    NPROCS,     \* slots of proc_array; slot 0 is never used
    Statuses,   \* the exit statuses programs use
    FnAddr,     \* the address a program passes to sys_newthread
    Usages      \* what programs may do besides the plain calls, see below

(* "kill"    a program calls sys_kill                                      *)
(* "double"  a program waits for a process another one is waiting for      *)
ASSUME UsageAssumption == Usages \subseteq SUBSET {"kill", "double"}
ASSUME SizeAssumption == NPROCS \in Nat /\ NPROCS > 1
ASSUME ValueAssumption == Statuses \subseteq Int /\ FnAddr \in Int

VARIABLES
    p_state,        \* EMPTY, RUNNABLE, BLOCKED or ZOMBIE
    p_waiting,      \* the pid waiting for this process, or <= 0
    p_exit_status,
    eax,            \* p_registers.reg_eax
    current,        \* the pid of the running process
    spinning,       \* schedule() found nobody to run and loops for ever
    usage           \* what the programs of this behaviour do, never changed

table == <<p_state, p_waiting, p_exit_status>>
vars == <<table, eax, current, spinning, usage>>

Slots == 0 .. NPROCS - 1
Pids  == 1 .. NPROCS - 1

(* start() *)
Init ==
    /\ p_state = [p \in Slots |-> IF p = 1 THEN "RUNNABLE" ELSE "EMPTY"]
    /\ p_waiting = [p \in Slots |-> 0]
    /\ p_exit_status = [p \in Slots |-> 0]
    /\ eax = [p \in Slots |-> 0]
    /\ current = 1
    /\ spinning = FALSE
    /\ usage \in Usages

---------------------------------------------------------------------------
(* schedule(): from current + 1 on, modulo NPROCS, the first runnable      *)
(* process; the caller itself comes last.                                  *)
Runnable(st) == {q \in Slots : st[q] = "RUNNABLE"}
ScanFromSelf(q) == (q - current) % NPROCS               \* mutant of Distance
Distance(q) == (q - current - 1) % NPROCS

schedule(st) ==
    \/ /\ \E q \in Runnable(st) :
             /\ \A r \in Runnable(st) : Distance(q) <= Distance(r)
             /\ current' = q
       /\ UNCHANGED spinning
    \/ /\ Runnable(st) = {}
       /\ spinning' = TRUE
       /\ UNCHANGED current

RunCurrent == UNCHANGED <<current, spinning>>

(* The slot do_fork and sys_newthread take: the first empty one, not 0 *)
FromZero(p) == /\ p \in Slots /\ p_state[p] = "EMPTY"  \* mutants of Free
               /\ \A q \in 0 .. p - 1 : p_state[q] # "EMPTY"
NotLive(p) == p \in Pids /\ p_state[p] \in {"EMPTY", "ZOMBIE"}
Free(p) == /\ p \in Pids /\ p_state[p] = "EMPTY"
           /\ \A q \in 1 .. p - 1 : p_state[q] # "EMPTY"
Full == \A p \in Pids : p_state[p] # "EMPTY"

Returns(v) == [eax EXCEPT ![current] = v]
OrCurrent(p) == p \in Pids /\ p_state[p] # "EMPTY"     \* mutants of Exists
OrEmpty(p) == p \in Pids \ {current}
Exists(p) == p \in Pids \ {current} /\ p_state[p] # "EMPTY"

---------------------------------------------------------------------------
GetPid ==
    /\ ~ spinning
    /\ eax' = Returns(current)
    /\ RunCurrent
    /\ UNCHANGED table

(* do_fork, with the parent's return value; p_waiting is not set *)
Fork ==
    /\ ~ spinning
    /\ \/ \E p \in Slots :
             /\ Free(p)
             /\ p_state' = [p_state EXCEPT ![p] = "RUNNABLE"]
             /\ eax' = [Returns(p) EXCEPT ![p] = 0]
       \/ Full /\ eax' = Returns(-1) /\ UNCHANGED p_state
    /\ RunCurrent
    /\ UNCHANGED <<p_waiting, p_exit_status>>

(* With no free slot eax still holds the function's address *)
NewThread ==
    /\ ~ spinning
    /\ \/ \E p \in Slots :
             /\ Free(p)
             /\ p_state' = [p_state EXCEPT ![p] = "RUNNABLE"]
             /\ p_waiting' = [p_waiting EXCEPT ![p] = -1]
             /\ eax' = [Returns(p) EXCEPT ![p] = 0]
       \/ Full /\ eax' = Returns(FnAddr) /\ UNCHANGED <<p_state, p_waiting>>
    /\ schedule(p_state')
    /\ UNCHANGED p_exit_status

Yield ==
    /\ ~ spinning
    /\ schedule(p_state)
    /\ UNCHANGED <<table, eax>>

(* The process that waits for current gets the status and current's slot   *)
(* is free at once; otherwise current stays a zombie.                      *)
KeepWaiter == p_waiting                                \* mutant of DropWaiter
DropWaiter == [p_waiting EXCEPT ![current] = -1]
Exit(status) ==
    /\ ~ spinning
    /\ p_exit_status' = [p_exit_status EXCEPT ![current] = status]
    /\ LET w == p_waiting[current] IN
       \/ /\ w > 0
          /\ p_state' = [p_state EXCEPT ![w] = "RUNNABLE", ![current] = "EMPTY"]
          /\ eax' = [Returns(status) EXCEPT ![w] = status]
          /\ p_waiting' = DropWaiter
       \/ /\ w <= 0
          /\ p_state' = [p_state EXCEPT ![current] = "ZOMBIE"]
          /\ eax' = Returns(status)
          /\ UNCHANGED p_waiting
    /\ schedule(p_state')

(* sys_wait(p): the three cases of INT_SYS_WAIT.  A second waiter replaces *)
(* the first in p_waiting.                                                 *)
WaitedFor(p) == Exists(p) /\ p_state[p] # "ZOMBIE" /\ p_waiting[p] > 0
MayWait(p) == WaitedFor(p) => "double" \in usage
Reaped(p) == [p_state EXCEPT ![p] = "EMPTY", ![current] = "RUNNABLE"]
Wait(p) ==
    /\ ~ spinning /\ MayWait(p)
    /\ \/ /\ ~ Exists(p)
          /\ eax' = Returns(-1)
          /\ UNCHANGED <<p_state, p_waiting>>
       \/ /\ Exists(p) /\ p_state[p] = "ZOMBIE"
          /\ eax' = Returns(p_exit_status[p])
          /\ p_state' = Reaped(p)
          /\ UNCHANGED p_waiting
       \/ /\ Exists(p) /\ p_state[p] # "ZOMBIE"
          /\ eax' = Returns(p)
          /\ p_state' = [p_state EXCEPT ![current] = "BLOCKED"]
          /\ p_waiting' = [p_waiting EXCEPT ![p] = current]
    /\ schedule(p_state')
    /\ UNCHANGED p_exit_status

(* sys_kill(p): the waiter of p becomes runnable, its eax is left alone;   *)
(* if p itself waits for somebody, that p_waiting stays.                   *)
Kill(p) ==
    /\ ~ spinning /\ "kill" \in usage
    /\ \/ /\ ~ Exists(p)
          /\ eax' = Returns(-1)
          /\ UNCHANGED <<p_state, p_waiting>>
       \/ /\ Exists(p)
          /\ eax' = Returns(0)
          /\ IF p_waiting[p] > 0
             THEN /\ p_state' = [p_state EXCEPT ![p] = "EMPTY",
                                                ![p_waiting[p]] = "RUNNABLE"]
                  /\ p_waiting' = [p_waiting EXCEPT ![p] = -1]
             ELSE /\ p_state' = [p_state EXCEPT ![p] = "EMPTY"]
                  /\ UNCHANGED p_waiting
    /\ schedule(p_state')
    /\ UNCHANGED p_exit_status

Next == /\ \/ GetPid \/ Fork \/ NewThread \/ Yield
           \/ \E status \in Statuses : Exit(status)
           \/ \E p \in -1 .. NPROCS : Wait(p) \/ Kill(p)
        /\ UNCHANGED usage

Spec == Init /\ [][Next]_vars

(* A cooperative program that keeps the processor yields sooner or later *)
FairSpec == Spec /\ WF_vars(Yield /\ UNCHANGED usage)

---------------------------------------------------------------------------
(* Properties *)

States == {"EMPTY", "RUNNABLE", "BLOCKED", "ZOMBIE"}
Alive(p) == p_state[p] \in {"RUNNABLE", "BLOCKED"}

\* What every field of the process table and the kernel holds.
TypeOK ==
    /\ p_state \in [Slots -> States]
    /\ p_waiting \in [Slots -> -1 .. NPROCS - 1]
    /\ p_exit_status \in [Slots -> Int]
    /\ eax \in [Slots -> Int]
    /\ current \in Pids
    /\ spinning \in BOOLEAN
    /\ usage \in Usages

(* The processor runs a runnable process (run() is called for no other),   *)
(* schedule() spins only when nobody is runnable, and slot 0 stays unused  *)
(* (mpos-kern.c:50 "proc_array[0] is never used").                         *)
RunsTheRunnable ==
    /\ IF spinning THEN Runnable(p_state) = {} ELSE p_state[current] = "RUNNABLE"
    /\ p_state[0] = "EMPTY"

(* A dead process has no waiter: do_fork leaves p_waiting as it finds it,  *)
(* so a leftover would wake a process that waits for something else.       *)
DeadHasNoWaiter ==
    \A q \in Slots : p_state[q] \in {"EMPTY", "ZOMBIE"} => p_waiting[q] <= 0

(* The process in p_waiting is blocked on this very process, which is      *)
(* alive (programs without sys_kill).                                      *)
WaiterIsBlocked == "kill" \notin usage =>
    \A q \in Pids : p_waiting[q] > 0 =>
        LET w == p_waiting[q] IN
        w # q /\ p_state[w] = "BLOCKED" /\ eax[w] = q /\ Alive(q)

(* A blocked process is the one its target will wake (programs without     *)
(* sys_kill in which nobody waits for a process already waited for).       *)
BlockedWillBeWoken == usage = {} =>
    \A w \in Pids : p_state[w] = "BLOCKED" =>
        eax[w] \in Pids /\ p_waiting[eax[w]] = w

(* A process comes to life only when the running one creates it: the call  *)
(* returns its pid, and the new process sees 0 (programs without sys_kill: *)
(* a process killed while it is blocked comes back when the process it     *)
(* waited for exits, since nothing clears that p_waiting).                 *)
OnlyCreatedComeAlive == [][ "kill" \notin usage =>
    \A p \in Slots : p_state[p] = "EMPTY" /\ p_state'[p] # "EMPTY" =>
        eax'[current] = p /\ eax'[p] = 0 ]_vars

(* sys_wait answers with the status of the process waited for: a zombie's  *)
(* at once, and a blocked caller's when that process exits (programs        *)
(* without sys_kill, which leaves the waiter's eax as it was).             *)
WaitGivesStatus == [][ "kill" \notin usage =>
    \A w \in Pids : p_state[w] = "BLOCKED" /\ p_state'[w] = "RUNNABLE" =>
        /\ eax[w] = current
        /\ eax'[w] = p_exit_status'[eax[w]]
        /\ p_state'[eax[w]] = "EMPTY" ]_vars

(* Exactly one sys_wait returns the status of a zombie: its slot is freed  *)
(* only by the call of the running process, which gets the status        *)
(* (programs without sys_kill).                                            *)
ZombieReapedOnce == [][ "kill" \notin usage =>
    \A z \in Pids : p_state[z] = "ZOMBIE" =>
        \/ p_state'[z] = "ZOMBIE"
        \/ p_state'[z] = "EMPTY" /\ eax'[current] = p_exit_status[z] ]_vars

(* Round robin: a runnable process runs, or stops being runnable *)
EveryoneRuns == \A p \in Pids :
    p_state[p] = "RUNNABLE" ~> (current = p \/ p_state[p] # "RUNNABLE")

---------------------------------------------------------------------------
(* What the comments say and the code does not do *)

(* mpos-app.h:175 "Returns -1 if 'pid' does not exist": nobody stays       *)
(* blocked on a process that is gone.                                      *)
NobodyWaitsForTheDead ==
    \A w \in Pids : p_state[w] = "BLOCKED" => p_state[eax[w]] # "EMPTY"
=============================================================================
