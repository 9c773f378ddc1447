------------------------------ MODULE Schedos ------------------------------
(***************************************************************************)
(* WeensyOS2: the SchedOS kernel (schedos-kern.c) with its five scheduling *)
(* algorithms, and the four applications (schedos-1.c), which print their  *)
(* digit RUNCOUNT times through the shared cursor.  The clock may preempt  *)
(* an application between any two instructions that touch shared memory;   *)
(* the kernel itself is not interrupted.  SYN selects how applications     *)
(* print: 0 unsynchronised, 1 under a compare-and-swap lock, 2 by a system *)
(* call.                                                                   *)
(***************************************************************************)
EXTENDS Integers, Sequences, FiniteSets

CONSTANTS
    NPROCS,         \* slots of proc_array; slot 0 is never used
    RUNCOUNT,       \* how often each application prints
    Builds,         \* the builds considered, records [SYN, clock, algorithm]
    PRIORITY, SHARE, COUNTER,       \* what start() gives each process
    USER_PRIORITY, USER_SHARE       \* what each application asks for

Procs == 1 .. NPROCS - 1

ASSUME SizeAssumption == NPROCS \in Nat /\ NPROCS > 1 /\ RUNCOUNT \in Nat
ASSUME BuildAssumption ==
    Builds \subseteq [SYN : 0 .. 2, clock : BOOLEAN, algorithm : 0 .. 4]
ASSUME ParameterAssumption ==
    /\ PRIORITY \in [Procs -> Int] /\ SHARE \in [Procs -> Int] /\ COUNTER \in [Procs -> Int]
    /\ USER_PRIORITY \in [Procs -> Int] /\ USER_SHARE \in [Procs -> Int]

VARIABLES
    p_state, p_priority, p_share, p_counter,    \* the process descriptors
    current, spinning,      \* the running process; a schedule() that never returns
    build,                  \* SYN, whether the clock is on, scheduling_algorithm
    pc, i, pos,             \* per application: place, loop variable, cursor read
    cursorpos, console,     \* the shared cursor and the screen
    mutex

kernel == <<p_state, p_priority, p_share, p_counter, current, spinning>>
screen == <<cursorpos, console, mutex>>
vars == <<kernel, build, pc, i, pos, screen>>

\* a cell for each character there is to print
Total == (NPROCS - 1) * RUNCOUNT
Cells == 0 .. Total - 1
Blank == 0

(* start(); mutex is memory nobody initialises, zero after a boot *)
Init ==
    /\ p_state = [p \in Procs |-> "RUNNABLE"]
    /\ p_priority = PRIORITY /\ p_share = SHARE /\ p_counter = COUNTER
    /\ current = 1 /\ spinning = FALSE
    /\ build \in Builds
    /\ pc = [p \in Procs |-> "priority"]
    /\ i = [p \in Procs |-> 0] /\ pos = [p \in Procs |-> 0]
    /\ cursorpos = 0 /\ console = [c \in Cells |-> Blank] /\ mutex = 0

---------------------------------------------------------------------------
(* schedule(), for the set R of runnable processes *)

FirstFrom(R, from) ==
    CHOOSE q \in R : \A r \in R : (q - from) % NPROCS <= (r - from) % NPROCS

Run(q) == current' = q /\ UNCHANGED spinning
Spin == spinning' = TRUE /\ UNCHANGED current

RoundRobin(R) ==
    IF R = {} THEN Spin ELSE Run(FirstFrom(R, current + 1))

Lowest(R) ==
    IF R = {} THEN Spin ELSE Run(FirstFrom(R, 0))

(* With nobody eligible the scan leaves process = pid: current runs again *)
Eligible(R) == {q \in R : p_priority[q] < 100}
Best(R) == {q \in Eligible(R) : \A r \in Eligible(R) : p_priority[q] <= p_priority[r]}
Priority(R) ==
    Run(IF Best(R) = {} THEN current ELSE FirstFrom(Best(R), current + 1))

(* From current on, the first process with some of its share left; a       *)
(* process that has used its share gets it back when it is passed over.    *)
(* With no share left anywhere that is everybody's, and a second pass.     *)
Left(R) == {q \in R : p_counter[q] < p_share[q]}
Used(R) == {q \in R : p_counter[q] = p_share[q]}
Passed(R, q) == {r \in Used(R) : (r - current) % NPROCS < (q - current) % NPROCS}
FromNext == current + 1                                \* mutant of FromSelf
FromSelf == current
NoRestore(R, q) == p_counter                             \* mutant of Restored
Restored(R, q) ==
    LET reset == IF Left(R) # {} THEN Passed(R, q) ELSE Used(R)
    IN  [r \in Procs |-> IF r \in reset THEN 0 ELSE p_counter[r]]
Share(R) ==
    LET again == {q \in Used(R) : p_share[q] > 0}
        q == FirstFrom(IF Left(R) # {} THEN Left(R) ELSE again, FromSelf)
    IN  IF Left(R) = {} /\ again = {}
        THEN Spin /\ UNCHANGED p_counter
        ELSE Run(q) /\ p_counter' = [Restored(R, q) EXCEPT ![q] = @ + 1]

(* getRandNum() is a free choice; a draw of a process that is not runnable *)
(* (or of an index out of range, the draw being signed) is drawn again.    *)
Lottery(R) == IF R = {} THEN Spin ELSE \E q \in R : Run(q)

schedule(R) ==
    \/ build.algorithm = 0 /\ RoundRobin(R) /\ UNCHANGED p_counter
    \/ build.algorithm = 1 /\ Lowest(R) /\ UNCHANGED p_counter
    \/ build.algorithm = 2 /\ Priority(R) /\ UNCHANGED p_counter
    \/ build.algorithm = 3 /\ Share(R)
    \/ build.algorithm = 4 /\ Lottery(R) /\ UNCHANGED p_counter

RunnableProcs == {q \in Procs : p_state[q] = "RUNNABLE"}

---------------------------------------------------------------------------
(* Applications.  At(p, l): p has the processor and is at l. *)
At(p, l) == current = p /\ ~ spinning /\ pc[p] = l
Goto(p, l) == pc' = [pc EXCEPT ![p] = l]
InUser == UNCHANGED <<kernel, build>>

(* for (i = 0; i < RUNCOUNT; i++), entered or continued with i = n *)
Body == <<"read", "lock", "print">>[build.SYN + 1]
OneTooMany(p, n) == Goto(p, IF n <= RUNCOUNT THEN Body ELSE "exit")  \* mutant of Loop
Loop(p, n) == Goto(p, IF n < RUNCOUNT THEN Body ELSE "exit")

SysPriority(p) ==
    /\ At(p, "priority") /\ Goto(p, "share")
    /\ p_priority' = [p_priority EXCEPT ![p] = USER_PRIORITY[p]]
    /\ UNCHANGED <<p_state, p_share, p_counter, current, spinning, build, i, pos, screen>>

SysShare(p) ==
    /\ At(p, "share") /\ Loop(p, 0)
    /\ p_share' = [p_share EXCEPT ![p] = USER_SHARE[p]]
    /\ UNCHANGED <<p_state, p_priority, p_counter, current, spinning, build, i, pos, screen>>

(* while (compare_and_swap(&mutex, 0, 1) != 0); a failed attempt goes on *)
AnyValue == mutex \in {0, 1}                            \* mutant of Enters
Enters == mutex = 0
Lock(p) ==
    /\ At(p, "lock") /\ Enters
    /\ mutex' = 1 /\ Goto(p, "read")
    /\ InUser /\ UNCHANGED <<i, pos, cursorpos, console>>

(* *cursorpos++ = PRINTCHAR: load the cursor, store it moved, write *)
ReadCursor(p) ==
    /\ At(p, "read") /\ Goto(p, "move")
    /\ pos' = [pos EXCEPT ![p] = cursorpos]
    /\ InUser /\ UNCHANGED <<i, screen>>

MoveCursor(p) ==
    /\ At(p, "move") /\ Goto(p, "write")
    /\ cursorpos' = pos[p] + 1
    /\ InUser /\ UNCHANGED <<i, pos, console, mutex>>

WriteChar(p) ==
    /\ At(p, "write") /\ Goto(p, IF build.SYN = 1 THEN "unlock" ELSE "yield")
    /\ console' = [console EXCEPT ![pos[p]] = p]
    /\ InUser /\ UNCHANGED <<i, pos, cursorpos, mutex>>

StillHeld == 1                                         \* mutant of Released
Released == IF mutex = 1 THEN 0 ELSE mutex
Unlock(p) ==
    /\ At(p, "unlock") /\ Goto(p, "yield")
    /\ mutex' = Released
    /\ InUser /\ UNCHANGED <<i, pos, cursorpos, console>>

SysPrint(p) ==
    /\ At(p, "print") /\ Goto(p, "yield")
    /\ console' = [console EXCEPT ![cursorpos] = p]
    /\ cursorpos' = cursorpos + 1
    /\ InUser /\ UNCHANGED <<i, pos, mutex>>

SysYield(p) ==
    /\ At(p, "yield") /\ Loop(p, i[p] + 1)
    /\ i' = [i EXCEPT ![p] = @ + 1]
    /\ schedule(RunnableProcs)
    /\ UNCHANGED <<p_state, p_priority, p_share, build, pos, screen>>

(* sys_exit never returns; if the kernel runs the process all the same it  *)
(* spins in the loop behind the system call.                               *)
Exited(p) == [p_state EXCEPT ![p] = "ZOMBIE"]
SysExit(p) ==
    /\ At(p, "exit") /\ Goto(p, "loop")
    /\ p_state' = Exited(p)
    /\ schedule(RunnableProcs \ {p})
    /\ UNCHANGED <<p_priority, p_share, build, i, pos, screen>>

Step(p) ==
    \/ SysPriority(p) \/ SysShare(p) \/ Lock(p) \/ ReadCursor(p) \/ MoveCursor(p)
    \/ WriteChar(p) \/ Unlock(p) \/ SysPrint(p) \/ SysYield(p) \/ SysExit(p)

(* INT_CLOCK *)
Tick ==
    /\ build.clock /\ ~ spinning
    /\ schedule(RunnableProcs)
    /\ UNCHANGED <<p_state, p_priority, p_share, build, pc, i, pos, screen>>

Next == Tick \/ \E p \in Procs : Step(p)

Spec == Init /\ [][Next]_vars

(* A quantum of 10 ms is long enough for an application to get on, and the *)
(* clock goes on ticking if it is allowed at all.  Nothing is assumed of   *)
(* the lottery's draws.                                                    *)
FairSpec == Spec /\ WF_vars(Tick) /\ \A p \in Procs : SF_vars(Step(p))

---------------------------------------------------------------------------
(* Properties *)

\* What every field of the kernel and every application holds.
TypeOK ==
    /\ p_state \in [Procs -> {"RUNNABLE", "ZOMBIE"}]
    /\ p_priority \in [Procs -> Int] /\ p_share \in [Procs -> Int]
    /\ p_counter \in [Procs -> Int]
    /\ current \in Procs /\ spinning \in BOOLEAN /\ build \in Builds
    /\ pc \in [Procs -> {"priority", "share", "lock", "read", "move", "write",
                         "unlock", "print", "yield", "exit", "loop"}]
    /\ i \in [Procs -> 0 .. RUNCOUNT] /\ pos \in [Procs -> Cells \cup {0}]
    /\ cursorpos \in 0 .. Total
    /\ console \in [Cells -> Procs \cup {Blank}] /\ mutex \in {0, 1}

(* No character is lost or overwritten: the screen holds as many of each   *)
(* digit as its application has printed, from the first cell on.  The      *)
(* unsynchronised build needs applications that are not preempted.         *)
Printed(p) == i[p] + (IF pc[p] \in {"unlock", "yield"} THEN 1 ELSE 0)
CharactersKept == ~ (build.SYN = 0 /\ build.clock) =>
    /\ \A p \in Procs : Cardinality({c \in Cells : console[c] = p}) = Printed(p)
    /\ \A c \in Cells : console[c] # Blank => c < cursorpos

(* Each step leaves the processor where the algorithm's rule says: with a  *)
(* runnable process, unless schedule() spins because there is none         *)
(* (algorithm 2 runs a zombie then); algorithm 2 passes it only to one as  *)
(* urgent as any; under algorithm 3 one that could go on loses it only     *)
(* when its share is used up, and then starts a new one.                   *)
SchedulesByRule == [][
    /\ build.algorithm # 2 =>
         IF spinning' THEN RunnableProcs' = {} ELSE p_state'[current'] = "RUNNABLE"
    /\ build.algorithm = 2 /\ current' # current =>
         \A q \in Procs : p_state'[q] = "RUNNABLE" => p_priority[current'] <= p_priority[q]
    /\ build.algorithm = 3 /\ current' # current /\ p_state'[current] = "RUNNABLE" =>
         p_counter[current] = p_share[current] /\ p_counter'[current] = 0 ]_vars

(* Algorithms 0 and 3: every runnable process gets the processor again *)
NobodyStarves == \A p \in Procs :
    build.algorithm \in {0, 3} /\ p_state[p] = "RUNNABLE" ~> current = p

(* Every application prints all its characters and exits.  With a clock,   *)
(* priorities and the spin lock together that can fail: an application     *)
(* that lowers its priority is preempted while it holds the lock, and the  *)
(* more urgent ones spin for it for ever; and a lottery may never draw the *)
(* holder.                                                                 *)
MayStarve == build.SYN = 1 /\ build.clock /\ build.algorithm \in {2, 4}
EveryoneFinishes ==
    ~ MayStarve ~> \A p \in Procs : p_state[p] = "ZOMBIE" /\ i[p] = RUNCOUNT
=============================================================================
