--------------------------- MODULE SchedosProofs ---------------------------
(***************************************************************************)
(* Proofs about the WeensyOS2 kernel and its applications, for any number  *)
(* of applications, characters, priorities and shares, and all builds:     *)
(* types, the rule of each scheduling algorithm, and that no character is  *)
(* lost under the lock, by the system call, or without a clock.            *)
(***************************************************************************)
EXTENDS Schedos, FiniteSetTheorems, WellFoundedInduction, TLAPS

---------------------------------------------------------------------------
(* Whom schedule() finds first *)

LEMMA Distance == ASSUME NEW n \in Int PROVE (n % NPROCS) \in 0 .. NPROCS - 1
  BY SizeAssumption

LEMMA NoDistance ==
    ASSUME NEW q \in Procs, NEW r \in Procs, (q - r) % NPROCS = 0 PROVE q = r
  BY SizeAssumption DEF Procs

LEMMA DistanceZero ==
    ASSUME NEW q \in Procs, NEW r \in Procs PROVE (q - r) % NPROCS = 0 <=> q = r
<1>1. ASSUME (q - r) % NPROCS = 0 PROVE q = r
  BY <1>1, NoDistance
<1>2. ASSUME q = r PROVE (q - r) % NPROCS = 0
  <2>1. q - r = 0 /\ 0 % NPROCS = 0
    BY <1>2, SizeAssumption DEF Procs
  <2> QED BY <2>1
<1> QED BY <1>1, <1>2

USE SizeAssumption, BuildAssumption, ParameterAssumption

LEMMA LeastNat == ASSUME NEW T \in SUBSET Nat, T # {} PROVE \E x \in T : \A y \in T : x <= y
<1> DEFINE R == OpToRel(<, Nat)
<1>1. IsWellFoundedOn(R, Nat)
  BY NatLessThanWellFounded
<1> HIDE DEF R
<1>2. PICK x \in T : \A y \in T : ~ (<<y, x>> \in R)
  BY <1>1, WFMin
<1>3. \A y \in Nat, z \in Nat : y < z => <<y, z>> \in R
  BY DEF R, OpToRel
<1>4. ASSUME NEW y \in T PROVE x <= y
  <2>1. x \in Nat /\ y \in Nat
    OBVIOUS
  <2>2. ~ (y < x)
    BY <1>2, <1>3, <2>1
  <2> QED BY <2>1, <2>2
<1> QED BY <1>4

(* The scan from a slot on stops at a runnable process if there is one.    *)
LEMMA FirstFound ==
    ASSUME NEW R \in SUBSET Procs, R # {}, NEW from \in Int
    PROVE  /\ FirstFrom(R, from) \in R
           /\ \A r \in R : (FirstFrom(R, from) - from) % NPROCS <= (r - from) % NPROCS
<1> DEFINE T == {(r - from) % NPROCS : r \in R}
<1>1. T \in SUBSET Nat /\ T # {}
  <2>1. ASSUME NEW r \in R PROVE (r - from) % NPROCS \in Nat
    <3>1. r - from \in Int
      BY DEF Procs
    <3> QED BY SMTT(30), <3>1, Distance
  <2> QED BY <2>1
<1> HIDE DEF T
<1>2. PICK x \in T : \A y \in T : x <= y
  BY <1>1, LeastNat
<1>3. \E q \in R : \A r \in R : (q - from) % NPROCS <= (r - from) % NPROCS
  BY <1>2 DEF T
<1> QED BY <1>3 DEF FirstFrom

(* A scan that begins at a process it is looking for stays with it. *)
LEMMA FirstIsSelf ==
    ASSUME NEW R \in SUBSET Procs, NEW r \in R PROVE FirstFrom(R, r) = r
<1> DEFINE q == FirstFrom(R, r)
<1>1. r \in Int /\ R # {}
  BY DEF Procs
<1>2. q \in R /\ (q - r) % NPROCS <= (r - r) % NPROCS
  BY <1>1, FirstFound
<1> HIDE DEF q
<1>3. (r - r) % NPROCS = 0 /\ (q - r) % NPROCS \in 0 .. NPROCS - 1
  <2>1. q \in Procs /\ r \in Procs /\ q - r \in Int
    BY <1>2 DEF Procs
  <2> QED BY <2>1, Distance, DistanceZero
<1>4. (q - r) % NPROCS = 0
  BY <1>2, <1>3
<1> QED BY <1>2, <1>4, DistanceZero DEF q

---------------------------------------------------------------------------
(* What schedule() does with the processor *)

ITypes == TypeOK /\ build \in [SYN : 0 .. 2, clock : BOOLEAN, algorithm : 0 .. 4]

Kept == current' \in Procs /\ spinning' \in BOOLEAN /\ p_counter' \in [Procs -> Int]

LEMMA ScheduleType ==
    ASSUME ITypes, NEW R \in SUBSET Procs, schedule(R)
    PROVE  Kept
<1> USE DEF ITypes, TypeOK, Kept, Run, Spin
<1>0. current \in Int /\ current + 1 \in Int /\ 0 \in Int
  BY DEF Procs
<1>1. CASE RoundRobin(R) /\ UNCHANGED p_counter
  BY <1>0, <1>1, FirstFound DEF RoundRobin
<1>2. CASE Lowest(R) /\ UNCHANGED p_counter
  BY <1>0, <1>2, FirstFound DEF Lowest
<1>3. CASE Priority(R) /\ UNCHANGED p_counter
  <2>1. Best(R) \in SUBSET Procs
    BY DEF Best, Eligible
  <2> QED BY <1>0, <1>3, <2>1, FirstFound DEF Priority
<1>4. CASE Share(R)
  <2> DEFINE again == {q \in Used(R) : p_share[q] > 0}
             S == IF Left(R) # {} THEN Left(R) ELSE again
             q == FirstFrom(S, current)
  <2>1. CASE Left(R) = {} /\ again = {}
    BY <1>4, <2>1 DEF Share
  <2>2. CASE ~ (Left(R) = {} /\ again = {})
    <3>1. S \in SUBSET Procs /\ S # {}
      BY <2>2 DEF Left, Used
    <3>2. q \in Procs
      BY <1>0, <3>1, FirstFound
    <3>3. Run(q) /\ p_counter' = [Restored(R, q) EXCEPT ![q] = @ + 1]
      BY <1>4, <2>2 DEF Share, FromSelf
    <3>4. Restored(R, q) \in [Procs -> Int]
      BY DEF Restored
    <3> HIDE DEF q
    <3> QED BY <3>2, <3>3, <3>4
  <2> QED BY <2>1, <2>2
<1>5. CASE Lottery(R) /\ UNCHANGED p_counter
  BY <1>5 DEF Lottery
<1> QED BY <1>1, <1>2, <1>3, <1>4, <1>5 DEF schedule
---------------------------------------------------------------------------
(* Each algorithm's rule *)

(* Nobody has used more than its share, and every share can be used.       *)
Shares == \A p \in Procs : /\ p_share[p] \in {SHARE[p], USER_SHARE[p]}
                           /\ p_share[p] > 0 /\ p_counter[p] <= p_share[p]

(* Applications are given a share, and ask for no less than they have used.*)
SharesSuffice == \A p \in Procs : /\ SHARE[p] > 0 /\ COUNTER[p] <= SHARE[p]
                                  /\ USER_SHARE[p] >= SHARE[p]

(* Among runnable processes R the algorithms move the processor by rule.   *)
RuleFor(R) ==
    /\ build.algorithm # 2 => IF spinning' THEN R = {} ELSE current' \in R
    /\ build.algorithm = 2 /\ current' # current =>
         \A q \in R : p_priority[current'] <= p_priority[q]
    /\ build.algorithm = 3 /\ current' # current /\ current \in R =>
         p_counter[current] = p_share[current] /\ p_counter'[current] = 0

LEMMA ShareRule ==
    ASSUME ITypes, Shares, ~ spinning, NEW R \in SUBSET Procs, Share(R)
    PROVE  /\ IF spinning' THEN R = {} ELSE current' \in R
           /\ current' # current /\ current \in R =>
                p_counter[current] = p_share[current] /\ p_counter'[current] = 0
           /\ \A p \in Procs : p_counter'[p] <= p_share[p]
<1> USE DEF ITypes, TypeOK
<1> DEFINE again == {q \in Used(R) : p_share[q] > 0}
           S == IF Left(R) # {} THEN Left(R) ELSE again
           q == FirstFrom(S, current)
<1>1. /\ R = Left(R) \cup Used(R) /\ again = Used(R) /\ Used(R) \in SUBSET Procs
      /\ Left(R) \in SUBSET Procs
  BY DEF Left, Used, Shares
<1>2. CASE R = {}
  <2>1. Left(R) = {} /\ again = {}
    BY <1>1, <1>2
  <2> QED BY <1>2, <2>1 DEF Share, Spin, Shares
<1>3. CASE R # {}
  <2>1. S \in SUBSET Procs /\ S # {} /\ S \subseteq R
    BY <1>1, <1>3
  <2>2. ~ (Left(R) = {} /\ again = {})
    BY <1>1, <1>3
  <2>3. Run(q) /\ p_counter' = [Restored(R, q) EXCEPT ![q] = @ + 1]
    BY <2>2 DEF Share, FromSelf
  <2>4. q \in S /\ q \in Procs /\ q \in R /\ current \in Int
    <3>1. current \in Int
      BY DEF Procs
    <3> QED BY <2>1, <3>1, FirstFound
  <2>5. Restored(R, q) \in [Procs -> Int]
    BY DEF Restored
  <2>6. \A r \in Procs : Restored(R, q)[r] \in {0, p_counter[r]}
    BY DEF Restored
  <2>7. ASSUME current # q, current \in R
        PROVE  current \notin S /\ current \in Used(R) /\ Restored(R, q)[current] = 0
    <3>1. current \notin S
      BY <2>1, <2>7, FirstIsSelf
    <3>2. current \in Used(R)
      BY <1>1, <2>7, <3>1
    <3>3. Left(R) # {}
      BY <1>1, <3>1, <3>2
    <3>4. (current - current) % NPROCS < (q - current) % NPROCS
      <4> HIDE DEF q
      <4>1. q - current \in Int
        BY <2>4 DEF Procs
      <4>2. (current - current) % NPROCS = 0
        BY DistanceZero
      <4>3. (q - current) % NPROCS # 0
        BY <2>4, <2>7, DistanceZero
      <4>4. (q - current) % NPROCS \in 0 .. NPROCS - 1
        BY <4>1, Distance
      <4> QED BY <4>2, <4>3, <4>4
    <3>5. current \in Passed(R, q)
      BY <3>2, <3>4 DEF Passed
    <3> QED BY <3>1, <3>2, <3>3, <3>5 DEF Restored
  <2>8. Restored(R, q)[q] < p_share[q]
    <3>1. CASE Left(R) # {}
      <4>1. q \in Left(R)
        BY <2>4, <3>1
      <4> QED BY <2>4, <2>6, <4>1 DEF Left, Shares
    <3>2. CASE Left(R) = {}
      <4>1. q \in Used(R)
        BY <1>1, <2>4, <3>2
      <4>2. Restored(R, q)[q] = 0
        BY <3>2, <4>1, <2>4 DEF Restored
      <4> QED BY <2>4, <4>2 DEF Shares
    <3> QED BY <3>1, <3>2
  <2> HIDE DEF q, S, again
  <2>9. ASSUME NEW p \in Procs PROVE p_counter'[p] <= p_share[p]
    <3>1. CASE p = q
      BY <2>3, <2>5, <2>8, <3>1
    <3>2. CASE p # q
      BY <2>3, <2>5, <2>6, <3>2 DEF Shares
    <3> QED BY <3>1, <3>2
  <2>10. ASSUME current' # current, current \in R
         PROVE  p_counter[current] = p_share[current] /\ p_counter'[current] = 0
    <3>1. current # q
      BY <2>3, <2>10 DEF Run
    <3> QED BY <2>3, <2>5, <2>7, <2>10, <3>1 DEF Used
  <2> QED BY <2>3, <2>4, <2>9, <2>10 DEF Run
<1> QED BY <1>2, <1>3

LEMMA ScheduleRule ==
    ASSUME ITypes, Shares, ~ spinning, NEW R \in SUBSET Procs, schedule(R)
    PROVE  RuleFor(R) /\ \A p \in Procs : p_counter'[p] <= p_share[p]
<1> USE DEF ITypes, TypeOK, RuleFor, Run, Spin, Shares
<1>0. current \in Int /\ current + 1 \in Int /\ 0 \in Int
  BY DEF Procs
<1>1. CASE build.algorithm = 0 /\ RoundRobin(R) /\ UNCHANGED p_counter
  BY <1>0, <1>1, FirstFound DEF RoundRobin
<1>2. CASE build.algorithm = 1 /\ Lowest(R) /\ UNCHANGED p_counter
  BY <1>0, <1>2, FirstFound DEF Lowest
<1>3. CASE build.algorithm = 2 /\ Priority(R) /\ UNCHANGED p_counter
  <2>1. Best(R) \in SUBSET Procs
    BY DEF Best, Eligible
  <2>2. ASSUME current' # current PROVE current' \in Best(R)
    BY <1>0, <1>3, <2>1, <2>2, FirstFound DEF Priority
  <2>3. ASSUME current' # current, NEW r \in R PROVE p_priority[current'] <= p_priority[r]
    <3>1. current' \in Best(R)
      BY <2>2, <2>3
    <3>2. CASE r \in Eligible(R)
      BY <3>1, <3>2 DEF Best
    <3>3. CASE r \notin Eligible(R)
      BY <3>1, <3>3 DEF Best, Eligible
    <3> QED BY <3>2, <3>3
  <2> QED BY <1>3, <2>3
<1>4. CASE build.algorithm = 3 /\ Share(R)
  BY <1>4, ShareRule
<1>5. CASE build.algorithm = 4 /\ Lottery(R) /\ UNCHANGED p_counter
  BY <1>5 DEF Lottery
<1> QED BY <1>1, <1>2, <1>3, <1>4, <1>5 DEF schedule

---------------------------------------------------------------------------
(* Where the applications are *)

LEMMA BodyIs ==
    ASSUME ITypes
    PROVE  /\ build.SYN \in 0 .. 2
           /\ Body = (IF build.SYN = 0 THEN "read" ELSE IF build.SYN = 1 THEN "lock" ELSE "print")
  BY DEF ITypes, Body

(* Which steps belong to which way of printing, and how far the loops are. *)
InLoop ==
    \A p \in Procs :
        /\ pc[p] \in {"priority", "share"} => i[p] = 0
        /\ pc[p] \notin {"priority", "share", "exit", "loop"} => i[p] < RUNCOUNT
        /\ pc[p] \in {"lock", "unlock"} => build.SYN = 1
        /\ pc[p] \in {"read", "move", "write"} => build.SYN \in {0, 1}
        /\ pc[p] = "print" => build.SYN = 2

(* How often each application has moved the cursor, and as many marks.     *)
Moves == [p \in Procs |-> i[p] + (IF pc[p] \in {"write", "unlock", "yield"} THEN 1 ELSE 0)]
Marks(m) == {x \in Procs \X (1 .. RUNCOUNT) : x[2] <= m[x[1]]}

LEMMA MarksFit ==
    ASSUME NEW m \in [Procs -> 0 .. RUNCOUNT]
    PROVE  /\ IsFiniteSet(Marks(m)) /\ Cardinality(Marks(m)) \in Nat
           /\ Cardinality(Marks(m)) <= Total
<1>1. /\ IsFiniteSet(Procs) /\ Cardinality(Procs) = NPROCS - 1
      /\ IsFiniteSet(1 .. RUNCOUNT) /\ Cardinality(1 .. RUNCOUNT) = RUNCOUNT
  <2>1. 1 \in Int /\ NPROCS - 1 \in Int /\ RUNCOUNT \in Int
    OBVIOUS
  <2> QED BY <2>1, FS_Interval DEF Procs
<1>2. /\ IsFiniteSet(Procs \X (1 .. RUNCOUNT))
      /\ Cardinality(Procs \X (1 .. RUNCOUNT)) = Total
  <2> DEFINE P == Procs
             K == 1 .. RUNCOUNT
  <2>1. IsFiniteSet(P) /\ IsFiniteSet(K)
    BY <1>1
  <2> HIDE DEF P, K
  <2>2. IsFiniteSet(P \X K) /\ Cardinality(P \X K) = Cardinality(P) * Cardinality(K)
    BY <2>1, FS_Product
  <2> QED BY <1>1, <2>2 DEF P, K, Total
<1>3. Marks(m) \in SUBSET (Procs \X (1 .. RUNCOUNT))
  BY DEF Marks
<1>4. /\ IsFiniteSet(Marks(m))
      /\ Cardinality(Marks(m)) <= Cardinality(Procs \X (1 .. RUNCOUNT))
  BY <1>2, <1>3, FS_Subset
<1>5. Cardinality(Marks(m)) \in Nat
  BY <1>4, FS_CardinalityType
<1> QED BY <1>2, <1>4, <1>5

LEMMA OneMoreMark ==
    ASSUME NEW m \in [Procs -> 0 .. RUNCOUNT], NEW p \in Procs, m[p] < RUNCOUNT
    PROVE  /\ [m EXCEPT ![p] = m[p] + 1] \in [Procs -> 0 .. RUNCOUNT]
           /\ Cardinality(Marks([m EXCEPT ![p] = m[p] + 1])) = Cardinality(Marks(m)) + 1
<1> DEFINE n == [m EXCEPT ![p] = m[p] + 1]
           x == <<p, m[p] + 1>>
<1>1. n \in [Procs -> 0 .. RUNCOUNT]
  OBVIOUS
<1>2. x \in Marks(n) /\ x \notin Marks(m)
  BY DEF Marks
<1>3. ASSUME NEW y \in Procs \X (1 .. RUNCOUNT), y # x PROVE y \in Marks(n) <=> y \in Marks(m)
  <2>1. PICK q \in Procs, k \in 1 .. RUNCOUNT : y = <<q, k>>
    OBVIOUS
  <2>2. q # p \/ k # m[p] + 1
    BY <1>3, <2>1
  <2>3. k <= n[q] <=> k <= m[q]
    BY <2>2
  <2> QED BY <2>1, <2>3 DEF Marks
<1>4. Marks(n) = Marks(m) \cup {x}
  <2>1. Marks(n) \subseteq Procs \X (1 .. RUNCOUNT) /\ Marks(m) \subseteq Procs \X (1 .. RUNCOUNT)
    BY DEF Marks
  <2> HIDE DEF n, x
  <2> QED BY <1>2, <1>3, <2>1
<1> HIDE DEF x
<1> QED BY <1>1, <1>2, <1>4, MarksFit, FS_AddElement

---------------------------------------------------------------------------
(* Types.  The cursor never gets ahead of the characters printed, even     *)
(* when one application stores an old value of it.                         *)

CursorFits ==
    /\ cursorpos \in Nat /\ cursorpos <= Cardinality(Marks(Moves))
    /\ \A p \in Procs : pc[p] = "move" => pos[p] <= Cardinality(Marks(Moves))

IType == ITypes /\ InLoop /\ CursorFits

LEMMA CellsAre == Total \in Nat
<1>1. \A a \in Nat, b \in Nat : a * b \in Nat
  OBVIOUS
<1> QED BY <1>1 DEF Total

LEMMA MovesType == ASSUME ITypes, InLoop PROVE Moves \in [Procs -> 0 .. RUNCOUNT]
  BY DEF ITypes, TypeOK, InLoop, Moves

Another(p) == [Moves EXCEPT ![p] = Moves[p] + 1]

(* An application in its loop has a character left, and room for it.       *)
LEMMA RoomLeft ==
    ASSUME IType, NEW p \in Procs, pc[p] \in {"read", "move", "print"}
    PROVE  /\ Cardinality(Marks(Moves)) \in Nat /\ Cardinality(Marks(Moves)) < Total
           /\ Another(p) \in [Procs -> 0 .. RUNCOUNT]
           /\ Cardinality(Marks(Another(p))) = Cardinality(Marks(Moves)) + 1
<1>0. ITypes /\ InLoop
  BY DEF IType
<1>1. Moves \in [Procs -> 0 .. RUNCOUNT]
  BY <1>0, MovesType
<1>2. Moves[p] < RUNCOUNT
  BY <1>0 DEF InLoop, Moves, ITypes, TypeOK
<1>3. /\ Another(p) \in [Procs -> 0 .. RUNCOUNT]
      /\ Cardinality(Marks(Another(p))) = Cardinality(Marks(Moves)) + 1
  BY <1>1, <1>2, OneMoreMark DEF Another
<1>4. Cardinality(Marks(Another(p))) <= Total /\ Cardinality(Marks(Moves)) \in Nat
  BY <1>1, <1>3, MarksFit
<1> QED BY <1>3, <1>4, CellsAre

LEMMA InitType == Init => IType
<1> SUFFICES ASSUME Init PROVE IType
  OBVIOUS
<1>1. ITypes
  <2>1. Total \in Nat /\ 0 \in 0 .. Total
    BY CellsAre
  <2>2. 1 \in Procs
    BY DEF Procs
  <2>3. build \in [SYN : 0 .. 2, clock : BOOLEAN, algorithm : 0 .. 4]
    BY DEF Init
  <2>4. /\ i = [p \in Procs |-> 0] /\ pos = [p \in Procs |-> 0] /\ cursorpos = 0
        /\ console = [c \in Cells |-> Blank] /\ pc = [p \in Procs |-> "priority"]
    BY DEF Init
  <2>5. i \in [Procs -> 0 .. RUNCOUNT] /\ pos \in [Procs -> Cells \cup {0}]
        /\ console \in [Cells -> Procs \cup {Blank}] /\ cursorpos \in 0 .. Total
    BY <2>1, <2>4
  <2> QED BY <2>2, <2>3, <2>5 DEF Init, ITypes, TypeOK
<1>2. InLoop
  BY DEF Init, InLoop
<1>3. Cardinality(Marks(Moves)) \in Nat
  BY <1>1, <1>2, MovesType, MarksFit
<1> QED BY <1>1, <1>2, <1>3 DEF Init, IType, CursorFits

(* schedule() leaves the applications as they are.                         *)
LEMMA NextControl ==
    ASSUME IType, NEW p \in Procs,
           \/ SysPriority(p) \/ SysShare(p) \/ Lock(p) \/ ReadCursor(p) \/ WriteChar(p)
           \/ Unlock(p) \/ SysYield(p) \/ SysExit(p) 
    PROVE  ITypes' /\ InLoop' /\ Moves' = Moves
<1>0. ITypes /\ InLoop /\ CursorFits /\ Total \in Nat
  BY CellsAre DEF IType
<1>a. ASSUME ReadCursor(p) PROVE cursorpos \in Cells
  <2>1. pc[p] = "read"
    BY <1>a DEF ReadCursor, At
  <2>2. Cardinality(Marks(Moves)) \in Nat /\ Cardinality(Marks(Moves)) < Total
    BY <2>1, RoomLeft
  <2> QED BY <1>0, <2>2 DEF CursorFits, Cells
<1>b. ASSUME SysYield(p) \/ SysExit(p) PROVE Kept
  BY <1>0, <1>b, ScheduleType DEF SysYield, SysExit, RunnableProcs
<1>c. /\ build.SYN \in 0 .. 2
      /\ Body = (IF build.SYN = 0 THEN "read" ELSE IF build.SYN = 1 THEN "lock" ELSE "print")
  BY <1>0, BodyIs
<1> USE <1>0 DEF ITypes, TypeOK, InLoop, Moves, At, Goto, InUser, kernel, screen, Loop
<1>1. CASE SysPriority(p) BY <1>1 DEF SysPriority
<1>2. CASE SysShare(p) BY <1>2, <1>c DEF SysShare
<1>3. CASE Lock(p) BY <1>3 DEF Lock
<1>4. CASE ReadCursor(p) BY <1>4, <1>a DEF ReadCursor
<1>5. CASE WriteChar(p) BY <1>5 DEF WriteChar
<1>6. CASE Unlock(p) BY <1>6 DEF Unlock, Released
<1>7. CASE SysYield(p)
  <2>1. /\ Kept /\ UNCHANGED <<p_state, p_priority, p_share, build, pos, cursorpos, console, mutex>>
        /\ pc[p] = "yield" /\ i' = [i EXCEPT ![p] = i[p] + 1]
        /\ pc' = [pc EXCEPT ![p] = IF i[p] + 1 < RUNCOUNT THEN Body ELSE "exit"]
    BY <1>7, <1>b DEF SysYield
  <2>2. ITypes'
    BY <2>1, <1>c DEF Kept
  <2>3. InLoop'
    BY <2>1, <1>c
  <2>4. Moves' = Moves
    BY <2>1, <1>c
  <2> QED BY <2>2, <2>3, <2>4
<1>8. CASE SysExit(p) BY <1>8, <1>b DEF SysExit, Kept, Exited
<1> QED BY <1>1, <1>2, <1>3, <1>4, <1>5, <1>6, <1>7, <1>8

LEMMA NextMoves ==
    ASSUME IType, NEW p \in Procs, MoveCursor(p) \/ SysPrint(p)
    PROVE  ITypes' /\ InLoop' /\ Moves' = Another(p)
<1>0. ITypes /\ InLoop /\ CursorFits /\ Total \in Nat
  BY CellsAre DEF IType
<1>1. pc[p] \in {"move", "print"}
  BY DEF MoveCursor, SysPrint, At
<1>2. Cardinality(Marks(Moves)) \in Nat /\ Cardinality(Marks(Moves)) < Total
  BY <1>1, RoomLeft
<1>3. ASSUME MoveCursor(p) PROVE pos[p] + 1 \in 0 .. Total
  <2>1. pos[p] \in Nat /\ pos[p] <= Cardinality(Marks(Moves))
    BY <1>0, <1>3 DEF MoveCursor, At, CursorFits, Cells, ITypes, TypeOK
  <2> QED BY <1>0, <1>2, <2>1
<1>4. cursorpos + 1 \in 0 .. Total
  BY <1>0, <1>2 DEF CursorFits
<1>a. /\ i \in [Procs -> 0 .. RUNCOUNT] /\ i' = i /\ build' = build
      /\ pc \in [Procs -> {"priority", "share", "lock", "read", "move", "write",
                           "unlock", "print", "yield", "exit", "loop"}]
      /\ \E l \in {"write", "yield"} :
            pc' = [pc EXCEPT ![p] = l] /\ l = (IF MoveCursor(p) THEN "write" ELSE "yield")
  BY <1>0 DEF MoveCursor, SysPrint, ITypes, TypeOK, At, Goto, InUser, kernel
<1>b. ITypes'
  <2>1. CASE MoveCursor(p)
    BY <1>0, <1>3, <2>1 DEF MoveCursor, ITypes, TypeOK, Goto, InUser, kernel
  <2>2. CASE SysPrint(p)
    <3>1. console' \in [Cells -> Procs \cup {Blank}]
      BY <1>0, <2>2 DEF SysPrint, ITypes, TypeOK
    <3> QED BY <1>0, <1>4, <2>2, <3>1 DEF SysPrint, ITypes, TypeOK, Goto, InUser, kernel
  <2> QED BY <2>1, <2>2
<1>5. InLoop'
  <2>1. build.SYN \in {0, 1} \/ ~ MoveCursor(p)
    BY <1>0 DEF MoveCursor, InLoop, At
  <2>2. \A q \in Procs \ {p} : pc'[q] = pc[q]
    BY <1>a
  <2>3. i[p] < RUNCOUNT
    BY <1>0, <1>1 DEF InLoop
  <2> QED BY <1>0, <1>a, <2>1, <2>2, <2>3 DEF InLoop
<1>6. Moves' = Another(p)
  <2>1. ASSUME NEW q \in Procs PROVE Moves'[q] = Another(p)[q]
    <3>1. CASE q = p
      BY <1>1, <1>a, <3>1 DEF Moves, Another
    <3>2. CASE q # p
      BY <1>1, <1>a, <3>2 DEF Moves, Another
    <3> QED BY <3>1, <3>2
  <2>2. Moves' = [q \in Procs |-> Moves'[q]] /\ Another(p) = [q \in Procs |-> Another(p)[q]]
    BY DEF Moves, Another
  <2> QED BY <2>1, <2>2
<1> QED BY <1>b, <1>5, <1>6

LEMMA NextType == ASSUME IType, [Next]_vars PROVE IType'
<1> USE DEF IType
<1>0. Moves \in [Procs -> 0 .. RUNCOUNT] /\ Cardinality(Marks(Moves)) \in Nat
  BY MovesType, MarksFit
<1>1. CASE UNCHANGED vars
  BY <1>1 DEF vars, kernel, screen, ITypes, TypeOK, InLoop, CursorFits, Moves
<1>2. CASE Tick
  <2>1. Kept
    BY <1>2, ScheduleType DEF Tick, RunnableProcs
  <2> QED BY <1>2, <2>1 DEF Tick, Kept, screen, ITypes, TypeOK, InLoop, CursorFits, Moves
<1>3. ASSUME NEW p \in Procs,
             \/ SysPriority(p) \/ SysShare(p) \/ Lock(p) \/ ReadCursor(p) \/ WriteChar(p)
             \/ Unlock(p) \/ SysYield(p) \/ SysExit(p)
      PROVE  IType'
  <2>1. ITypes' /\ InLoop' /\ Moves' = Moves
    BY <1>3, NextControl
  <2>2. cursorpos' = cursorpos
    BY <1>3 DEF SysPriority, SysShare, Lock, ReadCursor, WriteChar, Unlock, SysYield, SysExit, screen
  <2>3. ASSUME NEW q \in Procs, pc'[q] = "move"
        PROVE  pos'[q] <= Cardinality(Marks(Moves))
    <3>1. /\ pos \in [Procs -> Cells \cup {0}]
          /\ pc \in [Procs -> {"priority", "share", "lock", "read", "move", "write",
                               "unlock", "print", "yield", "exit", "loop"}]
      BY DEF ITypes, TypeOK
    <3>2. CASE pc[q] = "move" /\ pos'[q] = pos[q]
      BY <3>2 DEF CursorFits
    <3>3. CASE pos'[q] = cursorpos
      BY <3>3 DEF CursorFits
    <3> QED BY <1>3, <2>3, <3>1, <3>2, <3>3, BodyIs
            DEF SysPriority, SysShare, Lock, ReadCursor, WriteChar, Unlock, SysYield, SysExit,
                screen, Goto, Loop
  <2> QED BY <2>1, <2>2, <2>3 DEF CursorFits
<1>4. ASSUME NEW p \in Procs, MoveCursor(p) \/ SysPrint(p) PROVE IType'
  <2>1. ITypes' /\ InLoop' /\ Moves' = Another(p)
    BY <1>4, NextMoves
  <2>2. pc[p] \in {"move", "print"}
    BY <1>4 DEF MoveCursor, SysPrint, At
  <2>3. Cardinality(Marks(Moves)') = Cardinality(Marks(Moves)) + 1
    <3>1. Marks(Moves)' = Marks(Another(p))
      BY <2>1 DEF Marks
    <3> QED BY <2>2, <3>1, RoomLeft
  <2>4. \A q \in Procs : pc'[q] = "move" => pc[q] = "move" /\ pos'[q] = pos[q]
    BY <1>4 DEF MoveCursor, SysPrint, Goto, ITypes, TypeOK
  <2>5. \A q \in Procs : pos[q] \in Nat
    <3>1. pos \in [Procs -> Cells \cup {0}] /\ Total \in Nat
      BY CellsAre DEF ITypes, TypeOK
    <3> QED BY <3>1 DEF Cells
  <2>6. cursorpos' \in Nat /\ cursorpos' <= Cardinality(Marks(Moves)) + 1
    BY <1>0, <1>4, <2>2, <2>5 DEF MoveCursor, SysPrint, At, CursorFits
  <2> QED BY <1>0, <2>1, <2>3, <2>4, <2>5, <2>6 DEF CursorFits
<1> QED BY <1>1, <1>2, <1>3, <1>4 DEF Next, Step

(* The types hold in every build: no application prints outside the        *)
(* screen's first (NPROCS - 1) * RUNCOUNT cells, interrupted or not.       *)
THEOREM TypeCorrect == Spec => []TypeOK
<1>1. IType /\ [Next]_vars => IType'
  BY NextType
<1>2. IType => TypeOK
  BY DEF IType, ITypes
<1> QED BY InitType, <1>1, <1>2, PTL DEF Spec

---------------------------------------------------------------------------
(* The rules of the algorithms, step by step *)

\* Whoever has the processor can run; schedule() spins when nobody can.
Running == build.algorithm # 2 =>
    IF spinning THEN RunnableProcs = {} ELSE p_state[current] = "RUNNABLE"

IRule == IType /\ Shares /\ Running

ByRule ==
    /\ build.algorithm # 2 =>
         IF spinning' THEN RunnableProcs' = {} ELSE p_state'[current'] = "RUNNABLE"
    /\ build.algorithm = 2 /\ current' # current =>
         \A q \in Procs : p_state'[q] = "RUNNABLE" => p_priority[current'] <= p_priority[q]
    /\ build.algorithm = 3 /\ current' # current /\ p_state'[current] = "RUNNABLE" =>
         p_counter[current] = p_share[current] /\ p_counter'[current] = 0

(* A step that calls schedule() for the processes that can run afterwards. *)
LEMMA RuleOfCall ==
    ASSUME IRule, ~ spinning, NEW R, R = RunnableProcs', schedule(R), IType',
           build' = build, p_share' = p_share
    PROVE  ByRule /\ Shares' /\ Running'
<1>1. R \in SUBSET Procs /\ \A q \in Procs : q \in R <=> p_state'[q] = "RUNNABLE"
  BY DEF RunnableProcs
<1>2. RuleFor(R) /\ \A p \in Procs : p_counter'[p] <= p_share[p]
  BY <1>1, ScheduleRule DEF IRule, IType
<1>3. current \in Procs /\ current' \in Procs
  BY DEF IRule, IType, ITypes, TypeOK
<1>4. ByRule
  BY <1>1, <1>2, <1>3 DEF RuleFor, ByRule
<1>5. Shares'
  BY <1>2 DEF IRule, Shares
<1>6. Running'
  BY <1>4 DEF ByRule, Running
<1> QED BY <1>4, <1>5, <1>6

(* A step that leaves the processor where it is.                           *)
LEMMA RuleOfOthers ==
    ASSUME IRule, UNCHANGED <<p_state, p_counter, current, spinning, build>>, Shares'
    PROVE  ByRule /\ Running'
  BY DEF IRule, Running, ByRule, RunnableProcs

LEMMA NextRule ==
    ASSUME SharesSuffice, IRule, [Next]_vars PROVE ByRule /\ Shares' /\ Running'
<1>0. IType /\ IType' /\ ITypes
  BY NextType DEF IRule, IType
<1>1. CASE UNCHANGED vars \/ \E p \in Procs : \/ SysPriority(p) \/ Lock(p) \/ ReadCursor(p)
            \/ MoveCursor(p) \/ WriteChar(p) \/ Unlock(p) \/ SysPrint(p)
  <2>1. UNCHANGED <<p_state, p_counter, current, spinning, build, p_share>>
    BY <1>1 DEF vars, kernel, InUser, SysPriority, Lock, ReadCursor, MoveCursor, WriteChar,
                Unlock, SysPrint
  <2>2. Shares'
    BY <2>1 DEF Shares, IRule
  <2> QED BY <2>1, <2>2, RuleOfOthers
<1>2. ASSUME NEW p \in Procs, SysShare(p) PROVE ByRule /\ Shares' /\ Running'
  <2>1. /\ UNCHANGED <<p_state, p_counter, current, spinning, build>>
        /\ p_share' = [p_share EXCEPT ![p] = USER_SHARE[p]]
    BY <1>2 DEF SysShare
  <2>2. Shares'
    BY <1>0, <2>1 DEF Shares, IRule, SharesSuffice, ITypes, TypeOK
  <2> QED BY <2>1, <2>2, RuleOfOthers
<1>3. CASE Tick
  <2>1. RunnableProcs' = RunnableProcs
    BY <1>3 DEF Tick, RunnableProcs
  <2> QED BY <1>0, <1>3, <2>1, RuleOfCall DEF Tick
<1>4. ASSUME NEW p \in Procs, SysYield(p) PROVE ByRule /\ Shares' /\ Running'
  <2>1. RunnableProcs' = RunnableProcs
    BY <1>4 DEF SysYield, RunnableProcs
  <2> QED BY <1>0, <1>4, <2>1, RuleOfCall DEF SysYield, At
<1>5. ASSUME NEW p \in Procs, SysExit(p) PROVE ByRule /\ Shares' /\ Running'
  <2>1. RunnableProcs' = RunnableProcs \ {p}
    BY <1>0, <1>5 DEF SysExit, Exited, RunnableProcs, ITypes, TypeOK
  <2> QED BY <1>0, <1>5, <2>1, RuleOfCall DEF SysExit, At
<1> QED BY <1>1, <1>2, <1>3, <1>4, <1>5 DEF Next, Step

(* schedule() follows its algorithm's rule whenever it is called, by the   *)
(* clock, by sys_yield or by sys_exit, if shares can be used up and no     *)
(* application asks for less than it was given.                            *)
THEOREM SchedulesByRuleCorrect == ASSUME SharesSuffice PROVE Spec => SchedulesByRule
<1>1. Init => Shares /\ Running
  BY DEF Init, Shares, Running, SharesSuffice, Procs
<1>2. IType /\ Shares /\ Running /\ [Next]_vars => Shares' /\ Running'
  BY NextRule DEF IRule
<1>3. IType /\ [Next]_vars => IType'
  BY NextType
<1>4. IType /\ Shares /\ Running /\ [Next]_vars =>
        [/\ build.algorithm # 2 =>
              IF spinning' THEN RunnableProcs' = {} ELSE p_state'[current'] = "RUNNABLE"
         /\ build.algorithm = 2 /\ current' # current =>
              \A q \in Procs : p_state'[q] = "RUNNABLE" => p_priority[current'] <= p_priority[q]
         /\ build.algorithm = 3 /\ current' # current /\ p_state'[current] = "RUNNABLE" =>
              p_counter[current] = p_share[current] /\ p_counter'[current] = 0 ]_vars
  BY NextRule DEF IRule, ByRule
<1> QED BY InitType, <1>1, <1>2, <1>3, <1>4, PTL DEF Spec, SchedulesByRule

---------------------------------------------------------------------------
(* No character is lost *)

Protected == ~ (build.SYN = 0 /\ build.clock)

(* One application at a time is at the cursor: the one that has the lock,  *)
(* or the current one when nothing can take the processor from it.         *)
Section == {"read", "move", "write", "unlock"}
OneAtCursor ==
    /\ build.SYN = 1 =>
         /\ \A p \in Procs : pc[p] \in Section => mutex = 1
         /\ \A p, q \in Procs : pc[p] \in Section /\ pc[q] \in Section => p = q
    /\ build.SYN = 0 => \A p \in Procs : pc[p] \in {"move", "write"} => current = p

(* The cursor is where the next character goes, or just behind the one     *)
(* that is being written, and all cells from there on are blank.           *)
AtCursor ==
    /\ \A p \in Procs : pc[p] = "move" => pos[p] = cursorpos
    /\ \A p \in Procs : pc[p] = "write" =>
          pos[p] + 1 = cursorpos /\ console[pos[p]] = Blank
    /\ \A c \in Cells : c >= cursorpos => console[c] = Blank

On(p) == {c \in Cells : console[c] = p}
Counted == \A p \in Procs : Cardinality(On(p)) = Printed(p)

ICursor == OneAtCursor /\ AtCursor /\ Counted

LEMMA Alone ==
    ASSUME IType, Protected, OneAtCursor, NEW p \in Procs, NEW q \in Procs,
           pc[p] \in {"move", "write"}, pc[q] \in {"move", "write"}
    PROVE  p = q
  BY DEF IType, InLoop, Protected, OneAtCursor, Section

(* Steps after which the screen is as before *)
LEMMA SameScreen ==
    ASSUME AtCursor, Counted, UNCHANGED <<cursorpos, console>>,
           \A q \in Procs : /\ pc'[q] = "move" => pc[q] = "move" /\ pos'[q] = pos[q]
                            /\ pc'[q] = "write" => pc[q] = "write" /\ pos'[q] = pos[q]
                            /\ Printed(q)' = Printed(q)
    PROVE  AtCursor' /\ Counted'
<1>1. \A q \in Procs : On(q)' = On(q)
  BY DEF On
<1>2. Counted'
  BY <1>1 DEF Counted
<1>3. AtCursor'
  BY DEF AtCursor
<1> QED BY <1>2, <1>3

(* A character in a blank cell is one more of its application's, and of no *)
(* other's.                                                                *)
LEMMA OneMoreChar ==
    ASSUME IType, Counted, NEW p \in Procs, NEW c \in Cells, console[c] = Blank,
           console' = [console EXCEPT ![c] = p],
           \A q \in Procs : Printed(q)' = Printed(q) + (IF q = p THEN 1 ELSE 0),
           \A q \in Procs : Printed(q) \in Int
    PROVE  Counted'
<1>1. console \in [Cells -> Procs \cup {Blank}] /\ Total \in Nat
  BY CellsAre DEF IType, ITypes, TypeOK
<1>2. Blank \notin Procs
  BY DEF Blank, Procs
<1>3. IsFiniteSet(Cells)
  <2>1. 0 \in Int /\ Total - 1 \in Int
    BY <1>1
  <2> QED BY <2>1, FS_Interval DEF Cells
<1>4. ASSUME NEW q \in Procs PROVE Cardinality(On(q)') = Printed(q)'
  <2>1. IsFiniteSet(On(q)) /\ Cardinality(On(q)) = Printed(q)
    <3>1. On(q) \in SUBSET Cells
      BY DEF On
    <3> QED BY <1>3, <3>1, FS_Subset DEF Counted
  <2>2. CASE q = p
    <3>1. c \notin On(p) /\ On(p)' = On(p) \cup {c}
      BY <1>1, <1>2 DEF On
    <3> QED BY ZenonT(60), <2>1, <2>2, <3>1, FS_AddElement
  <2>3. CASE q # p
    <3>1. On(q)' = On(q)
      BY <1>1, <1>2, <2>3 DEF On
    <3> QED BY <2>1, <2>3, <3>1
  <2> QED BY <2>2, <2>3
<1> QED BY <1>4 DEF Counted

LEMMA PrintedType == ASSUME ITypes PROVE \A q \in Procs : Printed(q) \in Int
  BY DEF ITypes, TypeOK, Printed

LEMMA NextCursor ==
    ASSUME IType, Protected, ICursor, [Next]_vars PROVE ICursor'
<1> USE DEF ICursor
<1>0. /\ ITypes /\ InLoop /\ Total \in Nat
      /\ i \in [Procs -> 0 .. RUNCOUNT] /\ pos \in [Procs -> Cells \cup {0}]
      /\ console \in [Cells -> Procs \cup {Blank}] /\ cursorpos \in 0 .. Total
      /\ mutex \in {0, 1} /\ current \in Procs
      /\ pc \in [Procs -> {"priority", "share", "lock", "read", "move", "write",
                           "unlock", "print", "yield", "exit", "loop"}]
  BY CellsAre DEF IType, ITypes, TypeOK
<1>b. /\ build.SYN \in 0 .. 2
      /\ Body = (IF build.SYN = 0 THEN "read" ELSE IF build.SYN = 1 THEN "lock" ELSE "print")
  BY <1>0, BodyIs
<1>1. CASE UNCHANGED vars
  <2>1. UNCHANGED <<cursorpos, console, build, current, pc, pos, i, mutex>>
    BY <1>1 DEF vars, kernel, screen
  <2>2. OneAtCursor'
    BY <2>1 DEF OneAtCursor
  <2>3. \A q \in Procs : Printed(q)' = Printed(q)
    BY <2>1 DEF Printed
  <2> QED BY <2>1, <2>2, <2>3, SameScreen
<1>2. CASE Tick
  <2>1. UNCHANGED <<cursorpos, console, build, pc, pos, i, mutex>> /\ build.clock
    BY <1>2 DEF Tick, screen
  <2>2. OneAtCursor'
    BY <2>1 DEF OneAtCursor, Protected
  <2>3. \A q \in Procs : Printed(q)' = Printed(q)
    BY <2>1 DEF Printed
  <2> QED BY <2>1, <2>2, <2>3, SameScreen
<1>3. ASSUME NEW p \in Procs, SysPriority(p) \/ SysShare(p) PROVE ICursor'
  <2>1. /\ UNCHANGED <<cursorpos, console, build, current, pos, i, mutex>>
        /\ \E l \in {"share", Body, "exit"} : pc' = [pc EXCEPT ![p] = l]
        /\ pc[p] \in {"priority", "share"} /\ i[p] = 0
    BY <1>0, <1>3 DEF SysPriority, SysShare, screen, At, Goto, Loop, InLoop
  <2>2. OneAtCursor'
    BY <1>0, <1>b, <2>1 DEF OneAtCursor, Section
  <2>3. \A q \in Procs : Printed(q)' = Printed(q)
    BY <1>0, <1>b, <2>1 DEF Printed
  <2> QED BY <1>0, <1>b, <2>1, <2>2, <2>3, SameScreen
<1>4. ASSUME NEW p \in Procs, Lock(p) PROVE ICursor'
  <2>1. /\ UNCHANGED <<cursorpos, console, build, current, pos, i>> /\ build.SYN = 1
        /\ pc' = [pc EXCEPT ![p] = "read"] /\ pc[p] = "lock" /\ mutex = 0 /\ mutex' = 1
    BY <1>0, <1>4 DEF Lock, InUser, kernel, At, Goto, Enters, InLoop
  <2>2. OneAtCursor'
    BY <1>0, <2>1 DEF OneAtCursor, Section
  <2>3. \A q \in Procs : Printed(q)' = Printed(q)
    BY <1>0, <2>1 DEF Printed
  <2> QED BY <1>0, <2>1, <2>2, <2>3, SameScreen
<1>5. ASSUME NEW p \in Procs, ReadCursor(p) PROVE ICursor'
  <2>1. /\ UNCHANGED <<cursorpos, console, build, current, mutex, i>> /\ current = p
        /\ pc' = [pc EXCEPT ![p] = "move"] /\ pc[p] = "read"
        /\ pos' = [pos EXCEPT ![p] = cursorpos] /\ build.SYN \in {0, 1}
    BY <1>0, <1>5 DEF ReadCursor, InUser, kernel, screen, At, Goto, InLoop
  <2>2. OneAtCursor'
    BY <1>0, <2>1 DEF OneAtCursor, Section
  <2>3. \A q \in Procs : Printed(q)' = Printed(q)
    BY <1>0, <2>1 DEF Printed
  <2>4. Counted'
    BY <2>1, <2>3 DEF Counted, On
  <2>5. AtCursor'
    BY <1>0, <2>1 DEF AtCursor
  <2> QED BY <2>2, <2>4, <2>5
<1>6. ASSUME NEW p \in Procs, MoveCursor(p) PROVE ICursor'
  <2>1. /\ UNCHANGED <<console, build, current, mutex, i, pos>> /\ current = p
        /\ pc' = [pc EXCEPT ![p] = "write"] /\ pc[p] = "move"
        /\ cursorpos' = pos[p] + 1
    BY <1>0, <1>6 DEF MoveCursor, InUser, kernel, At, Goto
  <2>2. OneAtCursor'
    BY <1>0, <2>1 DEF OneAtCursor, Section
  <2>3. \A q \in Procs : Printed(q)' = Printed(q)
    BY <1>0, <2>1 DEF Printed
  <2>4. Counted'
    BY <2>1, <2>3 DEF Counted, On
  <2>5. \A q \in Procs \ {p} : pc'[q] \notin {"move", "write"}
    <3>1. \A q \in Procs \ {p} : pc[q] \notin {"move", "write"}
      BY <2>1, Alone
    <3> QED BY <1>0, <2>1, <3>1
  <2>6. pos[p] = cursorpos /\ pos[p] \in Nat /\ cursorpos < Total
    <3>1. Cardinality(Marks(Moves)) \in Nat /\ Cardinality(Marks(Moves)) < Total
      BY <2>1, RoomLeft
    <3> QED BY <1>0, <2>1, <3>1 DEF AtCursor, IType, CursorFits
  <2>7. AtCursor'
    <3>1. pc'[p] = "write" /\ pos'[p] + 1 = cursorpos' /\ console'[pos'[p]] = Blank
      BY <1>0, <2>1, <2>6 DEF AtCursor, Cells
    <3>2. \A c \in Cells : c >= cursorpos' => console'[c] = Blank
      BY <1>0, <2>1, <2>6 DEF AtCursor, Cells
    <3> QED BY <2>5, <3>1, <3>2 DEF AtCursor
  <2> QED BY <2>2, <2>4, <2>7
<1>7. ASSUME NEW p \in Procs, WriteChar(p) PROVE ICursor'
  <2>1. /\ UNCHANGED <<cursorpos, build, current, mutex, i, pos>> /\ current = p
        /\ pc' = [pc EXCEPT ![p] = IF build.SYN = 1 THEN "unlock" ELSE "yield"]
        /\ pc[p] = "write" /\ console' = [console EXCEPT ![pos[p]] = p]
    BY <1>0, <1>7 DEF WriteChar, InUser, kernel, At, Goto
  <2>2. OneAtCursor'
    BY <1>0, <2>1 DEF OneAtCursor, Section
  <2>3. \A q \in Procs : Printed(q)' = Printed(q) + (IF q = p THEN 1 ELSE 0)
    BY <1>0, <2>1 DEF Printed
  <2>4. /\ pos[p] \in Cells /\ console[pos[p]] = Blank /\ pos[p] + 1 = cursorpos
        /\ pos[p] \in Nat
    BY <1>0, <2>1 DEF AtCursor, Cells
  <2>5. Counted'
    BY <1>0, <2>1, <2>3, <2>4, PrintedType, OneMoreChar
  <2>6. \A q \in Procs : pc'[q] \notin {"move", "write"}
    <3>1. \A q \in Procs \ {p} : pc[q] \notin {"move", "write"}
      BY <2>1, Alone
    <3> QED BY <1>0, <2>1, <3>1
  <2>7. \A c \in Cells : c >= cursorpos' => console'[c] = Blank
    BY <1>0, <2>1, <2>4 DEF AtCursor, Cells
  <2>8. AtCursor'
    BY <2>6, <2>7 DEF AtCursor
  <2> QED BY <2>2, <2>5, <2>8
<1>8. ASSUME NEW p \in Procs, Unlock(p) PROVE ICursor'
  <2>1. /\ UNCHANGED <<cursorpos, console, build, current, pos, i>> /\ build.SYN = 1
        /\ pc' = [pc EXCEPT ![p] = "yield"] /\ pc[p] = "unlock"
    BY <1>0, <1>8 DEF Unlock, InUser, kernel, At, Goto, InLoop
  <2>2. OneAtCursor'
    BY <1>0, <2>1 DEF OneAtCursor, Section
  <2>3. \A q \in Procs : Printed(q)' = Printed(q)
    BY <1>0, <2>1 DEF Printed
  <2> QED BY <1>0, <2>1, <2>2, <2>3, SameScreen
<1>9. ASSUME NEW p \in Procs, SysPrint(p) PROVE ICursor'
  <2>1. /\ UNCHANGED <<build, current, mutex, i, pos>> /\ build.SYN = 2
        /\ pc' = [pc EXCEPT ![p] = "yield"] /\ pc[p] = "print"
        /\ console' = [console EXCEPT ![cursorpos] = p] /\ cursorpos' = cursorpos + 1
    BY <1>0, <1>9 DEF SysPrint, InUser, kernel, At, Goto, InLoop
  <2>2. OneAtCursor'
    BY <1>0, <2>1 DEF OneAtCursor
  <2>3. \A q \in Procs : Printed(q)' = Printed(q) + (IF q = p THEN 1 ELSE 0)
    BY <1>0, <2>1 DEF Printed
  <2>4. cursorpos \in Cells /\ console[cursorpos] = Blank /\ cursorpos \in Nat
    <3>1. Cardinality(Marks(Moves)) \in Nat /\ Cardinality(Marks(Moves)) < Total
      BY <2>1, RoomLeft
    <3>2. cursorpos \in Cells
      BY <1>0, <3>1 DEF IType, CursorFits, Cells
    <3> QED BY <1>0, <3>2 DEF AtCursor
  <2>5. Counted'
    BY <1>0, <2>1, <2>3, <2>4, PrintedType, OneMoreChar
  <2>6. \A q \in Procs : pc'[q] \notin {"move", "write"}
    BY <1>0, <2>1 DEF InLoop
  <2>7. \A c \in Cells : c >= cursorpos' => console'[c] = Blank
    BY <1>0, <2>1, <2>4 DEF AtCursor, Cells
  <2>8. AtCursor'
    BY <2>6, <2>7 DEF AtCursor
  <2> QED BY <2>2, <2>5, <2>8
<1>10. ASSUME NEW p \in Procs, SysYield(p) \/ SysExit(p) PROVE ICursor'
  <2>1. /\ UNCHANGED <<cursorpos, console, build, mutex, pos>> /\ current = p
        /\ \/ /\ pc[p] = "yield" /\ i' = [i EXCEPT ![p] = i[p] + 1]
              /\ \E l \in {Body, "exit"} : pc' = [pc EXCEPT ![p] = l]
           \/ pc[p] = "exit" /\ pc' = [pc EXCEPT ![p] = "loop"] /\ i' = i
    BY <1>0, <1>10 DEF SysYield, SysExit, At, Goto, screen, Loop
  <2>2. OneAtCursor'
    <3>1. pc'[p] \notin {"move", "write", "unlock"} /\ (build.SYN = 1 => pc'[p] # "read")
      BY <1>0, <1>b, <2>1
    <3>2. \A q \in Procs \ {p} : pc'[q] = pc[q]
      BY <1>0, <2>1
    <3>3. build.SYN = 0 => \A q \in Procs : pc'[q] \notin {"move", "write"}
      BY <2>1, <3>1, <3>2 DEF OneAtCursor
    <3> QED BY <2>1, <3>1, <3>2, <3>3 DEF OneAtCursor, Section
  <2>3. \A q \in Procs : Printed(q)' = Printed(q)
    <3>1. \A q \in Procs \ {p} : pc'[q] = pc[q] /\ i'[q] = i[q]
      BY <1>0, <2>1
    <3>2. Printed(p)' = Printed(p)
      <4>1. pc'[p] \notin {"unlock", "yield"}
        BY <1>0, <1>b, <2>1
      <4>2. CASE pc[p] = "yield" /\ i' = [i EXCEPT ![p] = i[p] + 1]
        BY <1>0, <4>1, <4>2 DEF Printed
      <4>3. CASE pc[p] = "exit" /\ i' = i
        BY <1>0, <4>1, <4>3 DEF Printed
      <4> QED BY <2>1, <4>2, <4>3
    <3> QED BY <3>1, <3>2 DEF Printed
  <2>4. /\ \A q \in Procs : pc'[q] \in {"move", "write"} => pc'[q] = pc[q]
        /\ UNCHANGED <<cursorpos, console, pos>>
    BY <1>0, <1>b, <2>1
  <2>5. AtCursor' /\ Counted'
    BY <2>3, <2>4, SameScreen
  <2> QED BY <2>2, <2>5
<1> QED BY <1>1, <1>2, <1>3, <1>4, <1>5, <1>6, <1>7, <1>8, <1>9, <1>10 DEF Next, Step

(* Under the compare-and-swap lock and by the system call, and without     *)
(* either when the clock is off, the screen holds exactly what has been    *)
(* printed, whatever the algorithm and the number of applications.         *)
THEOREM CharactersKeptCorrect == Spec => []CharactersKept
<1> DEFINE SafeScreen == Protected => ICursor
<1>1. Init => SafeScreen
  <2> SUFFICES ASSUME Init PROVE ICursor
    OBVIOUS
  <2>1. \A q \in Procs : On(q) = {}
    BY DEF Init, On, Blank, Procs
  <2>2. \A q \in Procs : Printed(q) = 0
    BY DEF Printed, Init
  <2>3. Counted
    BY <2>1, <2>2, FS_EmptySet DEF Counted
  <2> QED BY <2>3 DEF Init, ICursor, OneAtCursor, AtCursor, Section
<1>2. IType /\ SafeScreen /\ [Next]_vars => SafeScreen'
  <2>1. [Next]_vars => build' = build
    BY DEF Next, Step, vars, Tick, InUser, SysPriority, SysShare, Lock, ReadCursor, MoveCursor,
           WriteChar, Unlock, SysPrint, SysYield, SysExit
  <2> QED BY <2>1, NextCursor DEF Protected
<1>3. IType /\ [Next]_vars => IType'
  BY NextType
<1>4. IType /\ SafeScreen => CharactersKept
  <2> SUFFICES ASSUME IType, Protected, ICursor PROVE CharactersKept
    BY DEF CharactersKept, Protected
  <2>1. \A c \in Cells : c \in Int /\ cursorpos \in Int
    BY CellsAre DEF Cells, IType, ITypes, TypeOK
  <2> QED BY <2>1 DEF CharactersKept, ICursor, Counted, AtCursor, On
<1> HIDE DEF SafeScreen
<1> QED BY InitType, <1>1, <1>2, <1>3, <1>4, PTL DEF Spec
=============================================================================
