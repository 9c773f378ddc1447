------------------------------ MODULE MposApp ------------------------------
(***************************************************************************)
(* The programs of WeensyOS1 over the kernel of Mpos: mpos-app (one child  *)
(* made by sys_fork, or by sys_newthread in the EXTRA_CREDIT_EXERCISE_6    *)
(* build) and mpos-app2 (children made in batches as large as the process  *)
(* table; in the EXTRA_CREDIT_EXERCISE_7 build they also kill the odd      *)
(* pids).  A step is the code of the current process from one system call  *)
(* to the next, together with what the kernel does for that call.          *)
(***************************************************************************)
EXTENDS Mpos

CONSTANTS
    Apps,       \* the builds the user may choose: subset of the four below
    LIMIT,      \* processes mpos-app2 starts in total
    YIELDS      \* how often the child of mpos-app yields

ASSUME AppAssumption == /\ Apps \subseteq {"fork", "thread", "many", "killing"}
                        /\ LIMIT \in Nat /\ YIELDS \in Nat

VARIABLES
    app,        \* which program start() loaded
    local,      \* per slot: the stack and program counter
    counter     \* mpos-app2's global, shared by all processes

appVars == <<vars, app, local, counter>>

(* at: the call the process returns from; n: n_started; i: a loop variable *)
(* or the child's pid; input: input_counter                                *)
Fresh(at) == [at |-> at, n |-> 0, i |-> 0, input |-> 0]

AppInit ==
    /\ Init
    /\ app \in Apps
    /\ local = [p \in Slots |-> Fresh("start")]
    /\ counter = 0

---------------------------------------------------------------------------
(* Steps of the current process.  Me is its stack, Goes(l) its new one;    *)
(* Splits(l, c) also gives the slot sys_fork or sys_newthread took one.    *)
Me == local[current]
At(x) == ~ spinning /\ Me.at = x
Created == {p \in Slots : p_state[p] = "EMPTY" /\ p_state'[p] = "RUNNABLE"}
Goes(l) == local' = [local EXCEPT ![current] = l]
Splits(l, c) == local' = [p \in Slots |-> IF p = current THEN l
                                          ELSE IF p \in Created THEN c
                                          ELSE local[p]]

Leave(status) == Exit(status) /\ Goes([Me EXCEPT !.at = "gone"])
Forking(l) == Fork /\ Splits(l, l)
Waiting(l) == Wait(l.i) /\ Goes(l)

---------------------------------------------------------------------------
(* mpos-app *)
StartOne ==
    /\ At("start")
    /\ \/ app = "fork" /\ Forking([Me EXCEPT !.at = "forked"])
       \/ /\ app = "thread" /\ NewThread
          /\ Splits([Me EXCEPT !.at = "forked"], Fresh("function"))
    /\ UNCHANGED <<app, counter>>

ChildStarts ==
    /\ \/ At("forked") /\ app = "fork" /\ eax[current] = 0
       \/ At("function")
    /\ GetPid /\ Goes(Fresh("child"))
    /\ UNCHANGED <<app, counter>>

ParentStarts ==
    /\ At("forked") /\ app \in {"fork", "thread"} /\ eax[current] > 0
    /\ GetPid /\ Goes([Me EXCEPT !.at = "main", !.i = eax[current]])
    /\ UNCHANGED <<app, counter>>

(* WAIT_TRYAGAIN is -2; the blocking sys_wait never returns it *)
ParentWaits ==
    /\ At("main") \/ (At("waited") /\ eax[current] = -2)
    /\ Waiting([Me EXCEPT !.at = "waited"])
    /\ UNCHANGED <<app, counter>>

ParentLeaves ==
    /\ \/ At("waited") /\ eax[current] # -2 /\ Leave(0)
       \/ At("forked") /\ app \in {"fork", "thread"} /\ eax[current] < 0 /\ Leave(1)
    /\ UNCHANGED <<app, counter>>

ChildRuns ==
    /\ At("child") /\ app \in {"fork", "thread"}
    /\ \/ Me.i < YIELDS /\ Yield /\ Goes([Me EXCEPT !.i = @ + 1])
       \/ Me.i >= YIELDS /\ Leave(1000)
    /\ UNCHANGED <<app, counter>>

---------------------------------------------------------------------------
(* mpos-app2.  Round(n) is the head of the inner loop with n started.      *)
Many == app \in {"many", "killing"}
MoreToStart(n) == counter + n < LIMIT
FirstWait(n) == Waiting([Me EXCEPT !.at = "waits", !.n = n, !.i = 1])
Round(n) ==
    \/ MoreToStart(n) /\ Forking([Me EXCEPT !.at = "forked", !.n = n])
    \/ ~ MoreToStart(n) /\ FirstWait(n)

StartMany ==
    /\ At("start") /\ Many
    /\ IF counter < LIMIT THEN Round(0) ELSE Leave(0)
    /\ UNCHANGED <<app, counter>>

AnotherStarted ==
    /\ At("forked") /\ Many
    /\ \/ eax[current] > 0 /\ Round(Me.n + 1)
       \/ eax[current] < 0 /\ IF Me.n = 0 THEN Leave(0) ELSE FirstWait(Me.n)
    /\ UNCHANGED <<app, counter>>

Counted == counter + 1

(* counter++ in the shared address space, then sys_getpid or the kills *)
ManyChildStarts ==
    /\ At("forked") /\ Many /\ eax[current] = 0
    /\ counter' = Counted
    /\ \/ /\ app = "many" /\ GetPid
          /\ Goes([Me EXCEPT !.at = "child", !.input = counter])
       \/ /\ app = "killing" /\ Kill(3)
          /\ Goes([Me EXCEPT !.at = "kills", !.i = 3, !.input = counter])
    /\ UNCHANGED app

ManyChildKills ==
    /\ At("kills")
    /\ IF Me.i + 2 < NPROCS
       THEN Kill(Me.i + 2) /\ Goes([Me EXCEPT !.i = @ + 2])
       ELSE GetPid /\ Goes([Me EXCEPT !.at = "child"])
    /\ UNCHANGED <<app, counter>>

ManyChildLeaves ==
    /\ At("child") /\ Many
    /\ Leave(Me.input)
    /\ UNCHANGED <<app, counter>>

IsPid(p) == p < NPROCS
WaitForAll ==
    /\ At("waits")
    /\ \/ IsPid(Me.i + 1) /\ Waiting([Me EXCEPT !.i = @ + 1])
       \/ ~ IsPid(Me.i + 1) /\ IF counter < LIMIT THEN Round(0) ELSE Leave(0)
    /\ UNCHANGED <<app, counter>>

AppNext ==
    /\ \/ StartOne \/ ChildStarts \/ ParentStarts \/ ParentWaits \/ ParentLeaves
       \/ ChildRuns \/ StartMany \/ AnotherStarted \/ ManyChildStarts
       \/ ManyChildKills \/ ManyChildLeaves \/ WaitForAll
    /\ UNCHANGED usage

AppSpec == AppInit /\ [][AppNext]_appVars

(* The processor keeps running the current process *)
AppFairSpec == AppSpec /\ WF_appVars(AppNext)

---------------------------------------------------------------------------
(* Properties *)

Children == {p \in Pids \ {1} : p_state[p] # "EMPTY"}

(* The program ends: every process was reaped but the first, which exited  *)
(* with 0; mpos-app has waited for its child, mpos-app2 has started LIMIT. *)
Done == /\ spinning
        /\ p_state[1] = "ZOMBIE" /\ p_exit_status[1] = 0 /\ Children = {}
        /\ app \in {"fork", "thread"} => local[1].at = "gone" /\ local[1].i = 2
        /\ Many => counter >= LIMIT
Finishes == <>[]Done
=============================================================================
