----------------------------- MODULE OsprdProofs ----------------------------
(***************************************************************************)
(* Proofs about the ramdisk lock, for every set of processes and files and *)
(* every bound.  ITyped and MutexHeldInside hold in every build and        *)
(* whatever the programs do; the count of readers needs a kernel that does *)
(* not preempt the code, or files that are not shared; the order of        *)
(* tickets needs the former, and exclusion also programs that do not close *)
(* another holder's lock.                                                  *)
(*                                                                         *)
(* The part before the last is about programs that share no file and       *)
(* request a lock only on a file that has none: then the counts say which  *)
(* files are locked; and if besides each process has one file and gets no  *)
(* signals, no ticket is ever lost.  The last part is about processes that *)
(* would wait for their own lock.                                          *)
(***************************************************************************)
EXTENDS OsprdRefinement, FiniteSetTheorems, TLAPS

(* The file of a process that is inside ACQUIRE is an open file of its own *)
(* on this ramdisk.                                                        *)
InCall == \A p \in Procs : pc[p] # "user" =>
              filp[p] \in open \ OtherDisk /\ p \in Users[filp[p]]
ITyped == TypeOK /\ InCall

USE FilesAssumption, EnvAssumption, BoundAssumption, NoProcAssumption
    DEF FilesAssumption, EnvAssumption, BoundAssumption, NoProcAssumption

LEMMA WrapType == \A n \in 0 .. Word - 1 : Inc(n) \in 0 .. Word - 1 /\ Dec(n) \in 0 .. Word - 1
  BY DEF Inc, Dec

LEMMA InitTyped == Init => ITyped
<1>1. AnyFile \in Files
  BY DEF AnyFile
<1> SUFFICES ASSUME Init PROVE ITyped
  OBVIOUS
<1>2. /\ ticket_head \in Nat /\ ticket_tail \in Nat
      /\ write_locks \in 0 .. Word - 1 /\ read_locks \in Int
  BY DEF Init
<1>3. /\ pc \in [Procs -> PCs] /\ filp \in [Procs -> Files]
      /\ ticket_cur \in [Procs -> Nat]
  BY <1>1 DEF Init, PCs
<1>4. InCall
  BY DEF Init, InCall
<1>5. /\ open \subseteq Files /\ locked \subseteq open \ OtherDisk
      /\ asleep \subseteq {p \in Procs : pc[p] = "wait"}
      /\ sig \subseteq {p \in Procs : pc[p] = "wait"}
  BY DEF Init
<1> QED BY <1>2, <1>3, <1>4, <1>5 DEF Init, ITyped, TypeOK

LEMMA NextTyped == ITyped /\ [Next]_vars => ITyped'
<1> SUFFICES ASSUME ITyped, [Next]_vars PROVE ITyped'
  OBVIOUS
<1> USE DEF ITyped, TypeOK, InCall, PCs
<1>1. CASE UNCHANGED vars
  BY <1>1 DEF vars, disk, files
<1>2. ASSUME NEW p \in Procs, Continue(p) PROVE ITyped'
  <2> USE DEF GoesOn, Blocks, disk, files, FlagCleared
  <2>1. CASE WriteHead(p)
    <3>1. ticket_head' \in Nat
      BY <2>1 DEF WriteHead
    <3> QED BY <2>1, <3>1 DEF WriteHead
  <2>2. CASE ScanFiles(p) BY <2>2 DEF ScanFiles
  <2>3. CASE CheckDeadlock(p) BY <2>3 DEF CheckDeadlock
  <2>4. CASE CheckGrant(p) BY <2>4 DEF CheckGrant
  <2>5. CASE CheckWait(p) BY <2>5 DEF CheckWait
  <2>6. CASE WaitOver(p) BY <2>6 DEF WaitOver
  <2>7. CASE WaitSleep(p) BY <2>7 DEF WaitSleep
  <2>8. CASE WaitInterrupted(p) BY <2>8 DEF WaitInterrupted
  <2>9. CASE ReturnInterrupted(p) BY <2>9 DEF ReturnInterrupted, TailAfterInterrupt
  <2>10. CASE GrantTicket(p) BY <2>10 DEF GrantTicket, ServeNext
  <2>11. CASE GrantCount(p) BY <2>11, WrapType DEF GrantCount
  <2>12. CASE ReleaseClear(p) BY <2>12 DEF ReleaseClear
  <2>13. CASE ReleaseCount(p) BY <2>13, WrapType DEF ReleaseCount, WakeAll
  <2> QED BY <1>2, <2>1, <2>2, <2>3, <2>4, <2>5, <2>6, <2>7, <2>8, <2>9, <2>10, <2>11,
             <2>12, <2>13
          DEF Continue, Checking, Waiting
<1>3. ASSUME NEW p \in Procs, Signal(p) PROVE ITyped'
  BY <1>3 DEF Signal, disk, files
<1>4. ASSUME NEW p \in Procs, NEW f \in Files,
             \/ OpenFile(p, f) \/ CloseLast(p, f) \/ CloseOther(p, f)
             \/ ReadHead(p, f) \/ TryAcquire(p, f) \/ ReleaseTest(p, f)
      PROVE ITyped'
  <2> USE DEF GoesOn, disk, files, FlagCleared, Idle, Calls, WakeAll
  <2>1. CASE OpenFile(p, f) BY <2>1 DEF OpenFile
  <2>2. CASE CloseLast(p, f) BY <2>2 DEF CloseLast
  <2>3. CASE CloseOther(p, f) BY <2>3 DEF CloseOther
  <2>4. CASE ReadHead(p, f) BY <2>4 DEF ReadHead
  <2>5. CASE TryAcquire(p, f) BY <2>5, WrapType DEF TryAcquire
  <2>6. CASE ReleaseTest(p, f) BY <2>6 DEF ReleaseTest
  <2> QED BY <1>4, <2>1, <2>2, <2>3, <2>4, <2>5, <2>6
<1> QED BY <1>1, <1>2, <1>3, <1>4 DEF Next

(* Every variable keeps its type: write_locks stays an unsigned number     *)
(* whatever closes and releases do to it, only open files are locked, and  *)
(* only processes in wait_event_interruptible sleep or have signals.       *)
THEOREM Typed == Spec => []ITyped
<1>1. ITyped /\ [Next]_vars => ITyped'
  BY NextTyped
<1> QED BY InitTyped, <1>1, PTL DEF Spec

(* The type invariant of the runs *)
THEOREM TypeCorrect == Spec => []TypeOK
<1>1. ITyped => TypeOK
  BY DEF ITyped
<1> QED BY Typed, <1>1, PTL

---------------------------------------------------------------------------
(* d->mutex *)

LEMMA NextMutex == ITyped /\ MutexHeldInside /\ [Next]_vars => MutexHeldInside'
<1> SUFFICES ASSUME ITyped, MutexHeldInside, [Next]_vars PROVE MutexHeldInside'
  OBVIOUS
<1> USE DEF ITyped, TypeOK, MutexHeldInside, PCs, MutexFree
<1>1. CASE UNCHANGED vars
  BY <1>1 DEF vars, disk, files
<1>2. ASSUME NEW p \in Procs, Continue(p) PROVE MutexHeldInside'
  <2> USE DEF GoesOn, Blocks, MayRun, disk, files, FlagCleared
  <2>1. CASE WriteHead(p) BY <2>1 DEF WriteHead
  <2>2. CASE ScanFiles(p) BY <2>2 DEF ScanFiles
  <2>3. CASE CheckDeadlock(p) BY <2>3 DEF CheckDeadlock
  <2>4. CASE CheckGrant(p) BY <2>4 DEF CheckGrant
  <2>5. CASE CheckWait(p) BY <2>5 DEF CheckWait
  <2>6. CASE WaitOver(p) BY <2>6 DEF WaitOver
  <2>7. CASE WaitSleep(p) BY <2>7 DEF WaitSleep
  <2>8. CASE WaitInterrupted(p) BY <2>8 DEF WaitInterrupted
  <2>9. CASE ReturnInterrupted(p) BY <2>9 DEF ReturnInterrupted, TailAfterInterrupt
  <2>10. CASE GrantTicket(p) BY <2>10 DEF GrantTicket, ServeNext
  <2>11. CASE GrantCount(p) BY <2>11 DEF GrantCount
  <2>12. CASE ReleaseClear(p) BY <2>12 DEF ReleaseClear
  <2>13. CASE ReleaseCount(p) BY <2>13 DEF ReleaseCount
  <2> QED BY <1>2, <2>1, <2>2, <2>3, <2>4, <2>5, <2>6, <2>7, <2>8, <2>9, <2>10, <2>11,
             <2>12, <2>13
          DEF Continue, Checking, Waiting
<1>3. ASSUME NEW p \in Procs, Signal(p) PROVE MutexHeldInside'
  BY <1>3 DEF Signal, disk, files
<1>4. ASSUME NEW p \in Procs, NEW f \in Files,
             \/ OpenFile(p, f) \/ CloseLast(p, f) \/ CloseOther(p, f)
             \/ ReadHead(p, f) \/ TryAcquire(p, f) \/ ReleaseTest(p, f)
      PROVE MutexHeldInside'
  <2> USE DEF GoesOn, disk, files, FlagCleared, Idle, Calls, MayRun
  <2>1. CASE OpenFile(p, f) BY <2>1 DEF OpenFile
  <2>2. CASE CloseLast(p, f) BY <2>2 DEF CloseLast
  <2>3. CASE CloseOther(p, f) BY <2>3 DEF CloseOther
  <2>4. CASE ReadHead(p, f) BY <2>4 DEF ReadHead
  <2>5. CASE TryAcquire(p, f) BY <2>5 DEF TryAcquire
  <2>6. CASE ReleaseTest(p, f) BY <2>6 DEF ReleaseTest
  <2> QED BY <1>4, <2>1, <2>2, <2>3, <2>4, <2>5, <2>6
<1> QED BY <1>1, <1>2, <1>3, <1>4 DEF Next

(* In every build d->mutex is held by the process in its critical section  *)
(* and by nobody else; in particular no process sleeps holding it.         *)
THEOREM MutexCorrect == Spec => []MutexHeldInside
<1>1. Init => MutexHeldInside
  BY DEF Init, MutexHeldInside
<1>2. ITyped /\ MutexHeldInside /\ [Next]_vars => MutexHeldInside'
  BY NextMutex
<1> QED BY Typed, <1>1, <1>2, PTL DEF Spec

---------------------------------------------------------------------------
(* Without preemption a process between two blocking points has the CPU *)

Inside(p) == pc[p] \in {"take", "scan", "check", "intr", "count", "release", "uncount"}
CpuInside == ~ Preemptible => \A p \in Procs : Inside(p) => cpu = p

LEMMA NextCpu == ITyped /\ CpuInside /\ [Next]_vars => CpuInside'
<1> SUFFICES ASSUME ITyped, CpuInside, ~ Preemptible, [Next]_vars PROVE CpuInside'
  BY DEF vars, CpuInside
<1> USE DEF ITyped, TypeOK, CpuInside, Inside, PCs
<1>1. CASE UNCHANGED vars
  BY <1>1 DEF vars, disk, files
<1>2. ASSUME NEW p \in Procs, Continue(p) PROVE CpuInside'
  <2> USE DEF GoesOn, Blocks, MayRun, disk, files, FlagCleared
  <2>1. CASE WriteHead(p) BY <2>1 DEF WriteHead
  <2>2. CASE ScanFiles(p) BY <2>2 DEF ScanFiles
  <2>3. CASE CheckDeadlock(p) BY <2>3 DEF CheckDeadlock
  <2>4. CASE CheckGrant(p) BY <2>4 DEF CheckGrant
  <2>5. CASE CheckWait(p) BY <2>5 DEF CheckWait
  <2>6. CASE WaitOver(p) BY <2>6 DEF WaitOver
  <2>7. CASE WaitSleep(p) BY <2>7 DEF WaitSleep
  <2>8. CASE WaitInterrupted(p) BY <2>8 DEF WaitInterrupted
  <2>9. CASE ReturnInterrupted(p) BY <2>9 DEF ReturnInterrupted, TailAfterInterrupt
  <2>10. CASE GrantTicket(p) BY <2>10 DEF GrantTicket, ServeNext
  <2>11. CASE GrantCount(p) BY <2>11 DEF GrantCount
  <2>12. CASE ReleaseClear(p) BY <2>12 DEF ReleaseClear
  <2>13. CASE ReleaseCount(p) BY <2>13 DEF ReleaseCount
  <2> QED BY <1>2, <2>1, <2>2, <2>3, <2>4, <2>5, <2>6, <2>7, <2>8, <2>9, <2>10, <2>11,
             <2>12, <2>13
          DEF Continue, Checking, Waiting
<1>3. ASSUME NEW p \in Procs, Signal(p) PROVE CpuInside'
  BY <1>3 DEF Signal, disk, files
<1>4. ASSUME NEW p \in Procs, NEW f \in Files,
             \/ OpenFile(p, f) \/ CloseLast(p, f) \/ CloseOther(p, f)
             \/ ReadHead(p, f) \/ TryAcquire(p, f) \/ ReleaseTest(p, f)
      PROVE CpuInside'
  <2> USE DEF GoesOn, disk, files, FlagCleared, Idle, Calls, MayRun
  <2>1. CASE OpenFile(p, f) BY <2>1 DEF OpenFile
  <2>2. CASE CloseLast(p, f) BY <2>2 DEF CloseLast
  <2>3. CASE CloseOther(p, f) BY <2>3 DEF CloseOther
  <2>4. CASE ReadHead(p, f) BY <2>4 DEF ReadHead
  <2>5. CASE TryAcquire(p, f) BY <2>5 DEF TryAcquire
  <2>6. CASE ReleaseTest(p, f) BY <2>6 DEF ReleaseTest
  <2> QED BY <1>4, <2>1, <2>2, <2>3, <2>4, <2>5, <2>6
<1> QED BY <1>1, <1>2, <1>3, <1>4 DEF Next

LEMMA CpuCorrect == Spec => []CpuInside
<1>1. Init => CpuInside
  BY DEF Init, CpuInside, Inside
<1>2. ITyped /\ CpuInside /\ [Next]_vars => CpuInside'
  BY NextCpu
<1> QED BY Typed, <1>1, <1>2, PTL DEF Spec

---------------------------------------------------------------------------
(* Tickets *)

(* The strengthening of TicketOrder: a ticket read but not yet taken is    *)
(* the next one, and a process about to record its grant is being served.  *)
TicketInv ==
    /\ ticket_tail <= ticket_head
    /\ \A p \in Procs : pc[p] = "take"  => ticket_cur[p] = ticket_head
    /\ \A p \in Procs : pc[p] = "grant" => ticket_cur[p] = ticket_tail
    /\ TicketOrder

LEMMA NextTicket == ~ Preemptible /\ ITyped /\ CpuInside /\ TicketInv /\ [Next]_vars => TicketInv'
<1> SUFFICES ASSUME ~ Preemptible, ITyped, CpuInside, TicketInv, [Next]_vars PROVE TicketInv'
  OBVIOUS
<1> USE DEF ITyped, TypeOK, CpuInside, Inside, TicketInv, TicketOrder, Queued, PCs, Condition
<1>1. CASE UNCHANGED vars
  BY <1>1 DEF vars, disk, files
<1>2. ASSUME NEW p \in Procs, Continue(p) PROVE TicketInv'
  <2> USE DEF GoesOn, Blocks, MayRun, disk, files, FlagCleared
  <2>1. CASE WriteHead(p) BY <2>1 DEF WriteHead
  <2>2. CASE ScanFiles(p) BY <2>2 DEF ScanFiles
  <2>3. CASE CheckDeadlock(p) BY <2>3 DEF CheckDeadlock
  <2>4. CASE CheckGrant(p) BY <2>4 DEF CheckGrant
  <2>5. CASE CheckWait(p) BY <2>5 DEF CheckWait
  <2>6. CASE WaitOver(p) BY <2>6 DEF WaitOver
  <2>7. CASE WaitSleep(p) BY <2>7 DEF WaitSleep
  <2>8. CASE WaitInterrupted(p) BY <2>8 DEF WaitInterrupted
  <2>9. CASE ReturnInterrupted(p) BY SMTT(30), <2>9 DEF ReturnInterrupted, TailAfterInterrupt
  <2>10. CASE GrantTicket(p) BY <2>10 DEF GrantTicket, ServeNext
  <2>11. CASE GrantCount(p) BY <2>11 DEF GrantCount
  <2>12. CASE ReleaseClear(p) BY <2>12 DEF ReleaseClear
  <2>13. CASE ReleaseCount(p) BY <2>13 DEF ReleaseCount
  <2> QED BY <1>2, <2>1, <2>2, <2>3, <2>4, <2>5, <2>6, <2>7, <2>8, <2>9, <2>10, <2>11,
             <2>12, <2>13
          DEF Continue, Checking, Waiting
<1>3. ASSUME NEW p \in Procs, Signal(p) PROVE TicketInv'
  BY <1>3 DEF Signal, disk, files
<1>4. ASSUME NEW p \in Procs, NEW f \in Files,
             \/ OpenFile(p, f) \/ CloseLast(p, f) \/ CloseOther(p, f)
             \/ ReadHead(p, f) \/ TryAcquire(p, f) \/ ReleaseTest(p, f)
      PROVE TicketInv'
  <2> USE DEF GoesOn, disk, files, FlagCleared, Idle, Calls, MayRun
  <2>1. CASE OpenFile(p, f) BY <2>1 DEF OpenFile
  <2>2. CASE CloseLast(p, f) BY <2>2 DEF CloseLast
  <2>3. CASE CloseOther(p, f) BY <2>3 DEF CloseOther
  <2>4. CASE ReadHead(p, f) BY <2>4 DEF ReadHead
  <2>5. CASE TryAcquire(p, f) BY <2>5 DEF TryAcquire
  <2>6. CASE ReleaseTest(p, f) BY <2>6 DEF ReleaseTest
  <2> QED BY <1>4, <2>1, <2>2, <2>3, <2>4, <2>5, <2>6
<1> QED BY <1>1, <1>2, <1>3, <1>4 DEF Next

LEMMA TicketInvariant == ASSUME ~ Preemptible PROVE Spec => []TicketInv
<1>1. Init => TicketInv
  BY DEF Init, TicketInv, TicketOrder, Queued
<1>2. ITyped /\ CpuInside /\ TicketInv /\ [Next]_vars => TicketInv'
  BY NextTicket
<1> QED BY Typed, CpuCorrect, <1>1, <1>2, PTL DEF Spec

(* Whatever signals, closes and -EDEADLK do, no ticket is issued twice and *)
(* no process in ACQUIRE is passed over, as long as the code runs          *)
(* unpreempted between the points where it blocks.                         *)
THEOREM TicketsCorrect == ASSUME ~ Preemptible PROVE Spec => []TicketOrder
<1>1. TicketInv => TicketOrder
  BY DEF TicketInv
<1> QED BY TicketInvariant, <1>1, PTL

---------------------------------------------------------------------------
(* The read locks are counted *)

LEMMA FewerFiles ==
    ASSUME NEW A, NEW B, A \subseteq B, B \subseteq Files
    PROVE  Cardinality(A) \in Nat /\ Cardinality(B) \in Nat
           /\ Cardinality(A) <= Cardinality(B)
<1>1. IsFiniteSet(B)
  BY FS_Subset
<1> QED BY <1>1, FS_Subset, FS_CardinalityType

LEMMA OneMoreFile ==
    ASSUME NEW A, NEW B, NEW f \in Files, A \subseteq B \cup {f}, B \subseteq Files
    PROVE  Cardinality(A) \in Nat /\ Cardinality(B) \in Nat
           /\ Cardinality(A) <= Cardinality(B) + 1
<1>1. IsFiniteSet(B)
  BY FS_Subset
<1>2. Cardinality(B \cup {f}) <= Cardinality(B) + 1
  <2>1. Cardinality(B) \in Nat
    BY <1>1, FS_CardinalityType
  <2>2. Cardinality(B \cup {f})
            = IF f \in B THEN Cardinality(B) ELSE Cardinality(B) + 1
    BY <1>1, FS_AddElement
  <2> QED BY <2>1, <2>2
<1>3. Cardinality(A) <= Cardinality(B \cup {f})
  BY FewerFiles
<1> QED BY <1>1, <1>2, <1>3, FewerFiles, FS_CardinalityType

LEMMA OneFileLess ==
    ASSUME NEW A, NEW B, NEW f \in B, A \subseteq B \ {f}, B \subseteq Files
    PROVE  Cardinality(A) \in Nat /\ Cardinality(B) \in Nat
           /\ Cardinality(A) <= Cardinality(B) - 1
<1>1. IsFiniteSet(B)
  BY FS_Subset
<1>2. Cardinality(B \ {f}) = Cardinality(B) - 1
  BY <1>1, FS_RemoveElement
<1>3. Cardinality(A) <= Cardinality(B \ {f})
  BY FewerFiles
<1> QED BY <1>1, <1>2, <1>3, FewerFiles, FS_CardinalityType

(* No file is shared *)
Unshared == \A f \in Files : \E p \in Procs : Users[f] = {p}

(* A process that may run next to one that is between the flag of a file   *)
(* and its count has no descriptor of that file.                           *)
LEMMA Guarded ==
    ASSUME ~ Preemptible \/ Unshared, ITyped, CpuInside,
           NEW p \in Procs, pc[p] \in {"count", "release", "uncount"},
           NEW q \in Users[filp[p]], MayRun(q)
    PROVE  q = p
<1>1. filp[p] \in Files /\ p \in Users[filp[p]] /\ p # NoProc
  BY DEF ITyped, TypeOK, InCall
<1>2. CASE ~ Preemptible
  BY <1>1, <1>2 DEF CpuInside, Inside, MayRun
<1>3. CASE Unshared
  BY <1>1, <1>3 DEF Unshared
<1> QED BY <1>2, <1>3

(* The read-only files that read_locks has to count: those locked past     *)
(* their grant, and those whose release has not taken the count back.      *)
Uncounting == {f \in Files \ Writable :
                  \E p \in Procs : pc[p] = "uncount" /\ filp[p] = f}
Held == CountedReaders \cup Uncounting

FlagInv == \A p \in Procs : /\ pc[p] = "release" => filp[p] \in locked
                            /\ pc[p] = "uncount" => filp[p] \notin locked
ReadInv == FlagInv /\ read_locks >= Cardinality(Held)

LEMMA HeldFiles == ITyped => Held \subseteq Files
  BY DEF Held, CountedReaders, Uncounting, ReadHolders, ITyped, TypeOK

LEMMA NextFlag ==
    ASSUME ~ Preemptible \/ Unshared, ITyped, CpuInside, MutexHeldInside, FlagInv, [Next]_vars
    PROVE  FlagInv'
<1> USE DEF ITyped, TypeOK, InCall, MutexHeldInside, PCs, FlagInv, MutexFree
<1>1. CASE UNCHANGED vars
  BY <1>1 DEF vars, disk, files
<1>2. ASSUME NEW p \in Procs, Continue(p) PROVE FlagInv'
  <2> USE DEF GoesOn, Blocks, disk, files, FlagCleared
  <2>1. CASE WriteHead(p) BY <2>1 DEF WriteHead
  <2>2. CASE ScanFiles(p) BY <2>2 DEF ScanFiles
  <2>3. CASE CheckDeadlock(p) BY <2>3 DEF CheckDeadlock
  <2>4. CASE CheckGrant(p) BY <2>4 DEF CheckGrant
  <2>5. CASE CheckWait(p) BY <2>5 DEF CheckWait
  <2>6. CASE WaitOver(p) BY <2>6 DEF WaitOver
  <2>7. CASE WaitSleep(p) BY <2>7 DEF WaitSleep
  <2>8. CASE WaitInterrupted(p) BY <2>8 DEF WaitInterrupted
  <2>9. CASE ReturnInterrupted(p) BY <2>9 DEF ReturnInterrupted
  <2>10. CASE GrantTicket(p)
    <3>1. \A q \in Procs : pc[q] = "uncount" => filp[q] # filp[p]
      BY <2>10, Guarded DEF GrantTicket
    <3> QED BY <2>10, <3>1 DEF GrantTicket
  <2>11. CASE GrantCount(p) BY <2>11 DEF GrantCount
  <2>12. CASE ReleaseClear(p)
    <3>1. \A q \in Procs : pc[q] = "release" /\ filp[q] = filp[p] => q = p
      BY <2>12, Guarded DEF ReleaseClear
    <3> QED BY <2>12, <3>1 DEF ReleaseClear
  <2>13. CASE ReleaseCount(p) BY <2>13 DEF ReleaseCount
  <2> QED BY <1>2, <2>1, <2>2, <2>3, <2>4, <2>5, <2>6, <2>7, <2>8, <2>9, <2>10, <2>11,
             <2>12, <2>13
          DEF Continue, Checking, Waiting
<1>3. ASSUME NEW p \in Procs, Signal(p) PROVE FlagInv'
  BY <1>3 DEF Signal, disk, files
<1>4. ASSUME NEW p \in Procs, NEW f \in Files,
             \/ OpenFile(p, f) \/ CloseLast(p, f) \/ CloseOther(p, f)
             \/ ReadHead(p, f) \/ TryAcquire(p, f) \/ ReleaseTest(p, f)
      PROVE FlagInv'
  <2> USE DEF GoesOn, disk, files, FlagCleared, Idle, Calls
  <2>1. CASE OpenFile(p, f) BY <2>1 DEF OpenFile
  <2>2. CASE CloseLast(p, f) BY <2>2 DEF CloseLast
  <2>3. CASE CloseOther(p, f) BY <2>3 DEF CloseOther
  <2>4. CASE ReadHead(p, f) BY <2>4 DEF ReadHead
  <2>5. CASE TryAcquire(p, f)
    <3>1. \A q \in Procs : pc[q] = "uncount" => filp[q] # f
      BY <2>5, Guarded DEF TryAcquire
    <3> QED BY <2>5, <3>1 DEF TryAcquire
  <2>6. CASE ReleaseTest(p, f) BY <2>6 DEF ReleaseTest
  <2> QED BY <1>4, <2>1, <2>2, <2>3, <2>4, <2>5, <2>6
<1> QED BY <1>1, <1>2, <1>3, <1>4 DEF Next

ReadersKept == Held' \subseteq Held /\ read_locks' = read_locks
ReadersMore == \E f \in Files : Held' \subseteq Held \cup {f} /\ read_locks' = read_locks + 1
ReadersLess == \E f \in Held : Held' \subseteq Held \ {f} /\ read_locks' = read_locks - 1

(* What a step does to the files that count and to the count               *)
LEMMA ReadersStep ==
    ASSUME ~ Preemptible \/ Unshared, ITyped, CpuInside, MutexHeldInside, FlagInv, [Next]_vars
    PROVE  ReadersKept \/ ReadersMore \/ ReadersLess
<1> DEFINE Goal == ReadersKept \/ ReadersMore \/ ReadersLess
<1> USE DEF ITyped, TypeOK, InCall, MutexHeldInside, PCs, Held, Uncounting, CountedReaders, ReadHolders, FlagInv,
            MutexFree, ReadersKept
<1>1. CASE UNCHANGED vars
  BY <1>1 DEF vars, disk, files
<1>2. ASSUME NEW p \in Procs, Continue(p) PROVE Goal
  <2> USE DEF GoesOn, Blocks, disk, files, FlagCleared
  <2>1. CASE WriteHead(p) BY <2>1 DEF WriteHead
  <2>2. CASE ScanFiles(p) BY <2>2 DEF ScanFiles
  <2>3. CASE CheckDeadlock(p) BY <2>3 DEF CheckDeadlock
  <2>4. CASE CheckGrant(p) BY <2>4 DEF CheckGrant
  <2>5. CASE CheckWait(p) BY <2>5 DEF CheckWait
  <2>6. CASE WaitOver(p) BY <2>6 DEF WaitOver
  <2>7. CASE WaitSleep(p) BY <2>7 DEF WaitSleep
  <2>8. CASE WaitInterrupted(p) BY <2>8 DEF WaitInterrupted
  <2>9. CASE ReturnInterrupted(p) BY <2>9 DEF ReturnInterrupted
  <2>10. CASE GrantTicket(p) BY <2>10 DEF GrantTicket
  <2>11. CASE GrantCount(p)
    <3>1. CASE filp[p] \in Writable
      BY <2>11, <3>1 DEF GrantCount
    <3>2. CASE filp[p] \notin Writable
      <4>1. Held' \subseteq Held \cup {filp[p]} /\ read_locks' = read_locks + 1
        BY <2>11, <3>2 DEF GrantCount
      <4> QED BY <4>1 DEF ReadersMore
    <3> QED BY <3>1, <3>2
  <2>12. CASE ReleaseClear(p)
    <3>1. CASE filp[p] \in Writable
      BY <2>12, <3>1 DEF ReleaseClear
    <3>2. CASE filp[p] \notin Writable
      <4>1. \A q \in Procs : pc[q] = "count" => filp[q] # filp[p]
        BY <2>12, Guarded DEF ReleaseClear
      <4>2. filp[p] \in Held
        BY <2>12, <3>2, <4>1 DEF ReleaseClear
      <4> QED BY <2>12, <4>2 DEF ReleaseClear
    <3> QED BY <3>1, <3>2
  <2>13. CASE ReleaseCount(p)
    <3>1. CASE filp[p] \in Writable
      BY <2>13, <3>1 DEF ReleaseCount
    <3>2. CASE filp[p] \notin Writable
      <4>1. \A q \in Procs : pc[q] = "uncount" /\ filp[q] = filp[p] => q = p
        BY <2>13, Guarded DEF ReleaseCount
      <4>2. filp[p] \in Held /\ filp[p] \notin Held' /\ read_locks' = read_locks - 1
        BY <2>13, <3>2, <4>1 DEF ReleaseCount
      <4>3. Held' \subseteq Held
        BY <2>13 DEF ReleaseCount
      <4> QED BY <4>2, <4>3 DEF ReadersLess
    <3> QED BY <3>1, <3>2
  <2> QED BY <1>2, <2>1, <2>2, <2>3, <2>4, <2>5, <2>6, <2>7, <2>8, <2>9, <2>10, <2>11,
             <2>12, <2>13
          DEF Continue, Checking, Waiting
<1>3. ASSUME NEW p \in Procs, Signal(p) PROVE Goal
  BY <1>3 DEF Signal, disk, files
<1>4. ASSUME NEW p \in Procs, NEW f \in Files,
             \/ OpenFile(p, f) \/ CloseLast(p, f) \/ CloseOther(p, f)
             \/ ReadHead(p, f) \/ TryAcquire(p, f) \/ ReleaseTest(p, f)
      PROVE Goal
  <2> USE DEF GoesOn, disk, files, FlagCleared, Idle, Calls
  <2>1. CASE OpenFile(p, f) BY <2>1 DEF OpenFile
  <2>2. CASE CloseLast(p, f)
    <3>1. CASE ClosesRead(f) /\ read_locks' = read_locks - 1
      <4>1. f \in Held /\ f \notin Held' /\ Held' \subseteq Held
        BY <2>2, <3>1 DEF CloseLast, ClosesRead
      <4> QED BY <3>1, <4>1 DEF ReadersLess
    <3>2. CASE read_locks' = read_locks
      BY <2>2, <3>2 DEF CloseLast
    <3> QED BY <2>2, <3>1, <3>2 DEF CloseLast
  <2>3. CASE CloseOther(p, f) BY <2>3 DEF CloseOther
  <2>4. CASE ReadHead(p, f) BY <2>4 DEF ReadHead
  <2>5. CASE TryAcquire(p, f)
    <3>1. CASE f \in Writable
      BY <2>5, <3>1 DEF TryAcquire
    <3>2. CASE f \notin Writable
      <4>1. Held' \subseteq Held \cup {f} /\ read_locks' = read_locks + 1
        BY <2>5, <3>2 DEF TryAcquire
      <4> QED BY <4>1 DEF ReadersMore
    <3> QED BY <3>1, <3>2
  <2>6. CASE ReleaseTest(p, f) BY <2>6 DEF ReleaseTest
  <2> QED BY <1>4, <2>1, <2>2, <2>3, <2>4, <2>5, <2>6
<1> QED BY <1>1, <1>2, <1>3, <1>4 DEF Next

LEMMA NextReaders ==
    ASSUME ~ Preemptible \/ Unshared, ITyped, CpuInside, MutexHeldInside, ReadInv, [Next]_vars
    PROVE  ReadInv'
<1>1. FlagInv /\ FlagInv'
  BY NextFlag DEF ReadInv
<1>2. Held \subseteq Files /\ read_locks \in Int /\ read_locks >= Cardinality(Held)
  BY HeldFiles DEF ReadInv, ITyped, TypeOK
<1>3. CASE ReadersKept
  BY <1>1, <1>2, <1>3, FewerFiles DEF ReadInv, ReadersKept
<1>4. CASE ReadersMore
  <2>1. PICK f \in Files : Held' \subseteq Held \cup {f} /\ read_locks' = read_locks + 1
    BY <1>4 DEF ReadersMore
  <2>2. /\ Cardinality(Held') \in Nat /\ Cardinality(Held) \in Nat
        /\ Cardinality(Held') <= Cardinality(Held) + 1
    BY <1>2, <2>1, OneMoreFile
  <2> QED BY <1>1, <1>2, <2>1, <2>2 DEF ReadInv
<1>5. CASE ReadersLess
  <2>1. PICK f \in Held : Held' \subseteq Held \ {f} /\ read_locks' = read_locks - 1
    BY <1>5 DEF ReadersLess
  <2>2. /\ Cardinality(Held') \in Nat /\ Cardinality(Held) \in Nat
        /\ Cardinality(Held') <= Cardinality(Held) - 1
    BY <1>2, <2>1, OneFileLess
  <2> QED BY <1>1, <1>2, <2>1, <2>2 DEF ReadInv
<1> QED BY <1>1, <1>3, <1>4, <1>5, ReadersStep

LEMMA ReadInvariant == ASSUME ~ Preemptible \/ Unshared PROVE Spec => []ReadInv
<1>1. Init => ReadInv
  <2>1. Init => Held = {} /\ FlagInv
    BY DEF Init, Held, Uncounting, CountedReaders, ReadHolders, FlagInv
  <2> QED BY <2>1, FS_EmptySet DEF Init, ReadInv
<1>2. ITyped /\ CpuInside /\ MutexHeldInside /\ ReadInv /\ [Next]_vars => ReadInv'
  BY NextReaders
<1> QED BY Typed, CpuCorrect, MutexCorrect, <1>1, <1>2, PTL DEF Spec

LEMMA HeldAreCounted == ITyped /\ ReadInv => ReadersCounted
<1> SUFFICES ASSUME ITyped, ReadInv PROVE ReadersCounted
  OBVIOUS
<1>1. CountedReaders \subseteq Held /\ Held \subseteq Files
  BY HeldFiles DEF Held
<1>2. /\ Cardinality(CountedReaders) \in Nat /\ Cardinality(Held) \in Nat
      /\ Cardinality(CountedReaders) <= Cardinality(Held)
  BY <1>1, FewerFiles
<1> QED BY <1>2 DEF ReadInv, ReadersCounted, ITyped, TypeOK

(* read_locks is at least the number of files that hold a read lock and    *)
(* never lets a writer in early, whatever else programs do, if the code    *)
(* is not preempted or no file is shared.  One of the two is needed: else  *)
(* two processes may both find F_OSPRD_LOCKED set and release the same     *)
(* read lock twice.                                                        *)
THEOREM ReadersCorrect ==
    ASSUME ~ Preemptible \/ Unshared PROVE Spec => []ReadersCounted
<1>1. ITyped /\ ReadInv => ReadersCounted
  BY HeldAreCounted
<1> QED BY Typed, ReadInvariant, <1>1, PTL

---------------------------------------------------------------------------
(* Order and exclusion *)

NoReaders == ReadHolders = {}

LEMMA ZeroMeansNoReaders ==
    ASSUME ITyped, MutexHeldInside, ReadersCounted, mutex = NoProc, read_locks = 0
    PROVE  NoReaders
<1>1. CountedReaders = ReadHolders
  BY DEF CountedReaders, MutexHeldInside
<1>2. IsFiniteSet(ReadHolders)
  BY FS_Subset DEF ReadHolders, ITyped, TypeOK
<1>3. Cardinality(ReadHolders) = 0
  BY <1>1, <1>2, FS_CardinalityType DEF ReadersCounted
<1> QED BY <1>2, <1>3, FS_EmptySet DEF NoReaders

(* Between the end of its wait and its grant a process keeps the lock      *)
(* free: no later ticket and no TRYACQUIRE can be granted in between.      *)
GrantPending ==
    /\ \A p, q \in Procs : pc[p] = "count" => pc[q] # "grant"
    /\ \A p \in Procs : pc[p] = "grant" /\ filp[p] \in Writable => read_locks = 0

\* A read lock that is being released is still counted.
LEMMA HeldPositive ==
    ASSUME ITyped, ReadInv, NEW p \in Procs, pc[p] = "uncount", filp[p] \notin Writable
    PROVE  read_locks > 0
<1>1. filp[p] \in Held
  BY DEF Held, Uncounting, ITyped, TypeOK
<1>2. IsFiniteSet(Held)
  BY HeldFiles, FS_Subset
<1> QED BY <1>1, <1>2, FS_EmptySet, FS_CardinalityType DEF ReadInv, ITyped, TypeOK

LEMMA NextPending ==
    ASSUME ~ Preemptible, ITyped, CpuInside, TicketInv, MutexHeldInside, ReadInv, GrantPending, [Next]_vars
    PROVE  GrantPending'
<1> USE DEF ITyped, TypeOK, CpuInside, Inside, TicketInv, TicketOrder, Queued, PCs, MutexHeldInside, MutexFree, GrantPending, Condition
<1>1. CASE UNCHANGED vars
  BY <1>1 DEF vars, disk, files
<1>2. ASSUME NEW p \in Procs, Continue(p) PROVE GrantPending'
  <2> USE DEF GoesOn, Blocks, MayRun, disk, files, FlagCleared
  <2>1. CASE WriteHead(p) BY <2>1 DEF WriteHead
  <2>2. CASE ScanFiles(p) BY <2>2 DEF ScanFiles
  <2>3. CASE CheckDeadlock(p) BY <2>3 DEF CheckDeadlock
  <2>4. CASE CheckGrant(p) BY <2>4 DEF CheckGrant
  <2>5. CASE CheckWait(p) BY <2>5 DEF CheckWait
  <2>6. CASE WaitOver(p) BY <2>6 DEF WaitOver
  <2>7. CASE WaitSleep(p) BY <2>7 DEF WaitSleep
  <2>8. CASE WaitInterrupted(p) BY <2>8 DEF WaitInterrupted
  <2>9. CASE ReturnInterrupted(p) BY <2>9 DEF ReturnInterrupted, TailAfterInterrupt
  <2>10. CASE GrantTicket(p) BY <2>10 DEF GrantTicket, ServeNext
  <2>11. CASE GrantCount(p) BY <2>11 DEF GrantCount
  <2>12. CASE ReleaseClear(p) BY <2>12 DEF ReleaseClear
  <2>13. CASE ReleaseCount(p)
    <3>1. filp[p] \notin Writable => read_locks > 0
      BY <2>13, HeldPositive DEF ReleaseCount
    <3>2. \A q \in Procs : pc[q] = "grant" /\ filp[q] \in Writable => read_locks' = 0
      BY <2>13, <3>1 DEF ReleaseCount
    <3> QED BY <2>13, <3>2 DEF ReleaseCount
  <2> QED BY <1>2, <2>1, <2>2, <2>3, <2>4, <2>5, <2>6, <2>7, <2>8, <2>9, <2>10, <2>11,
             <2>12, <2>13
          DEF Continue, Checking, Waiting
<1>3. ASSUME NEW p \in Procs, Signal(p) PROVE GrantPending'
  BY <1>3 DEF Signal, disk, files
<1>4. ASSUME NEW p \in Procs, NEW f \in Files,
             \/ OpenFile(p, f) \/ CloseLast(p, f) \/ CloseOther(p, f)
             \/ ReadHead(p, f) \/ TryAcquire(p, f) \/ ReleaseTest(p, f)
      PROVE GrantPending'
  <2> USE DEF GoesOn, disk, files, FlagCleared, Idle, Calls, MayRun
  <2>1. CASE OpenFile(p, f) BY <2>1 DEF OpenFile
  <2>2. CASE CloseLast(p, f)
    <3>1. read_locks = 0 => read_locks' = 0
      BY <2>2 DEF CloseLast, ClosesRead
    <3> QED BY <2>2, <3>1 DEF CloseLast
  <2>3. CASE CloseOther(p, f) BY <2>3 DEF CloseOther
  <2>4. CASE ReadHead(p, f) BY <2>4 DEF ReadHead
  <2>5. CASE TryAcquire(p, f) BY <2>5 DEF TryAcquire, NotBusy
  <2>6. CASE ReleaseTest(p, f) BY <2>6 DEF ReleaseTest
  <2> QED BY <1>4, <2>1, <2>2, <2>3, <2>4, <2>5, <2>6
<1> QED BY <1>1, <1>2, <1>3, <1>4 DEF Next

LEMMA PendingInvariant == ASSUME ~ Preemptible PROVE Spec => []GrantPending
<1>1. Init => GrantPending
  BY DEF Init, GrantPending
<1>2. ITyped /\ CpuInside /\ TicketInv /\ MutexHeldInside /\ ReadInv
        /\ GrantPending /\ [Next]_vars => GrantPending'
  BY NextPending
<1> QED BY Typed, CpuCorrect, TicketInvariant, MutexCorrect, ReadInvariant,
           <1>1, <1>2, PTL DEF Spec

LEMMA LockingStep ==
    ASSUME ITyped, [Next]_vars, NEW f \in locked' \ locked
    PROVE  \E p \in Procs : \/ GrantTicket(p) /\ f = filp[p] /\ p \in Users[f]
                            \/ TryAcquire(p, f) /\ p \in Users[f]
<1> DEFINE Goal == \E p \in Procs : \/ GrantTicket(p) /\ f = filp[p] /\ p \in Users[f]
                                    \/ TryAcquire(p, f) /\ p \in Users[f]
<1>1. CASE UNCHANGED vars
  BY <1>1 DEF vars, files
<1>2. ASSUME NEW p \in Procs, Continue(p) PROVE Goal
  <2>1. CASE GrantTicket(p)
    <3>1. f = filp[p] /\ p \in Users[f]
      BY <2>1 DEF GrantTicket, ITyped, InCall
    <3> QED BY <2>1, <3>1
  <2>2. CASE ~ GrantTicket(p)
    <3>1. locked' \subseteq locked
      BY <1>2, <2>2 DEF Continue, Checking, Waiting, files, WriteHead, ScanFiles,
         CheckDeadlock, CheckGrant, CheckWait, WaitOver, WaitSleep,
         WaitInterrupted, ReturnInterrupted, GrantCount, ReleaseClear,
         ReleaseCount, FlagCleared
    <3> QED BY <3>1
  <2> QED BY <2>1, <2>2
<1>3. ASSUME NEW p \in Procs, Signal(p) PROVE Goal
  BY <1>3 DEF Signal, files
<1>4. ASSUME NEW p \in Procs, NEW g \in Files,
             \/ OpenFile(p, g) \/ CloseLast(p, g) \/ CloseOther(p, g)
             \/ ReadHead(p, g) \/ TryAcquire(p, g) \/ ReleaseTest(p, g)
      PROVE Goal
  <2>1. CASE TryAcquire(p, g)
    <3>1. f = g /\ p \in Users[f]
      BY <2>1 DEF TryAcquire, Calls
    <3> QED BY <2>1, <3>1
  <2>2. CASE ~ TryAcquire(p, g)
    <3>1. locked' \subseteq locked
      BY <1>4, <2>2 DEF OpenFile, CloseLast, CloseOther, ReadHead, ReleaseTest, FlagCleared, files
    <3> QED BY <3>1
  <2> QED BY <2>1, <2>2
<1> QED BY <1>1, <1>2, <1>3, <1>4 DEF Next

(* Locks are granted in ticket order and TRYACQUIRE overtakes nobody,      *)
(* whatever signals, -EDEADLK and stray closes happen in between.          *)
THEOREM ServedInOrderCorrect == ASSUME ~ Preemptible PROVE Spec => ServedInOrder
<1> DEFINE Ordered == \A f \in locked' \ locked : \E p \in Users[f] : \A q \in Procs \ {p} :
        Queued(q) => /\ pc[p] = "grant" /\ filp[p] = f
                     /\ ticket_cur[p] < ticket_cur[q]
<1>1. ASSUME ITyped, TicketInv, [Next]_vars PROVE Ordered
  <2> SUFFICES ASSUME NEW f \in locked' \ locked
               PROVE  \E p \in Users[f] : \A q \in Procs \ {p} :
                         Queued(q) => /\ pc[p] = "grant" /\ filp[p] = f
                                      /\ ticket_cur[p] < ticket_cur[q]
    OBVIOUS
  <2> USE DEF ITyped, TypeOK, TicketInv, TicketOrder, Queued
  <2>1. PICK p \in Procs : \/ GrantTicket(p) /\ f = filp[p] /\ p \in Users[f]
                           \/ TryAcquire(p, f) /\ p \in Users[f]
    BY <1>1, LockingStep
  <2>2. SUFFICES ASSUME NEW q \in Procs \ {p}, Queued(q)
                 PROVE  pc[p] = "grant" /\ filp[p] = f /\ ticket_cur[p] < ticket_cur[q]
    BY <2>1
  <2>3. CASE GrantTicket(p) /\ f = filp[p]
    BY <1>1, <2>2, <2>3 DEF GrantTicket
  <2>4. CASE TryAcquire(p, f)
    BY <1>1, <2>2, <2>4 DEF TryAcquire, NotBusy
  <2> QED BY <2>1, <2>3, <2>4
<1>2. ITyped /\ TicketInv /\ [Next]_vars => [Ordered]_vars
  BY <1>1
<1> QED BY Typed, TicketInvariant, <1>2, PTL DEF Spec, ServedInOrder

(* A write lock is never granted while a read lock is held, even when      *)
(* stray closes have left write_locks wrong.                               *)
THEOREM WriterNeverJoinsReadersCorrect ==
    ASSUME ~ Preemptible PROVE Spec => WriterNeverJoinsReaders
<1> DEFINE Alone == \A f \in (locked' \ locked) \cap Writable : ReadHolders = {}
<1>1. ASSUME ITyped, MutexHeldInside, ReadersCounted, GrantPending, [Next]_vars
      PROVE  Alone
  <2> SUFFICES ASSUME NEW f \in (locked' \ locked) \cap Writable PROVE NoReaders
    BY DEF NoReaders
  <2>1. PICK p \in Procs : \/ GrantTicket(p) /\ f = filp[p] /\ p \in Users[f]
                           \/ TryAcquire(p, f) /\ p \in Users[f]
    BY <1>1, LockingStep
  <2>2. mutex = NoProc /\ read_locks = 0
    BY <1>1, <2>1 DEF GrantTicket, TryAcquire, NotBusy, MutexFree, GrantPending
  <2> QED BY <1>1, <2>2, ZeroMeansNoReaders
<1>2. ITyped /\ MutexHeldInside /\ ReadersCounted /\ GrantPending /\ [Next]_vars
        => [Alone]_vars
  BY <1>1
<1> QED BY Typed, MutexCorrect, ReadersCorrect, PendingInvariant, <1>2, PTL
        DEF Spec, WriterNeverJoinsReaders

(* The strengthening of WriteExclusion: outside grants and releases the    *)
(* write count says whether a writable file holds the lock, it is 0 from   *)
(* the end of a wait until the grant is counted, and it is 1 while the     *)
(* only holder is released.                                                *)
WriteCount == write_locks = IF WriteHolders = {} THEN 0 ELSE 1
ExclusionInv ==
    /\ WriteExclusion
    /\ Settled => WriteCount
    /\ \A p \in Procs : pc[p] = "grant" => write_locks = 0
    /\ \A p \in Procs : pc[p] = "count" =>
          /\ write_locks = 0 /\ filp[p] \in locked
          /\ filp[p] \notin Writable => WriteHolders = {}
    /\ \A p \in Procs : pc[p] = "uncount" =>
          IF filp[p] \in Writable THEN locked = {} /\ write_locks = 1 ELSE WriteCount

\* Without preemption whoever may run finds the counts settled, if it is
\* not itself in a grant or a release.
LEMMA SettledFor ==
    ASSUME ~ Preemptible, ITyped, CpuInside, NEW p \in Procs, MayRun(p),
           pc[p] \notin {"count", "uncount"}
    PROVE  Settled
  BY DEF Settled, CpuInside, Inside, MayRun, ITyped, TypeOK

LEMMA NextExclusion ==
    ASSUME ~ Preemptible, "stray" \notin Env, ITyped, CpuInside, TicketInv, MutexHeldInside, ReadInv, GrantPending, ExclusionInv, [Next]_vars
    PROVE  ExclusionInv'
<1> USE DEF ITyped, TypeOK, CpuInside, Inside, TicketInv, TicketOrder, Queued, PCs, MutexHeldInside, MutexFree, GrantPending, Condition, ExclusionInv, WriteExclusion, WriteHolders, WriteCount, Settled
<1>1. CASE UNCHANGED vars
  BY <1>1 DEF vars, disk, files
<1>2. ASSUME NEW p \in Procs, Continue(p) PROVE ExclusionInv'
  <2> USE DEF GoesOn, Blocks, MayRun, disk, files, FlagCleared
  <2>1. CASE WriteHead(p) BY <2>1 DEF WriteHead
  <2>2. CASE ScanFiles(p) BY <2>2 DEF ScanFiles
  <2>3. CASE CheckDeadlock(p) BY <2>3 DEF CheckDeadlock
  <2>4. CASE CheckGrant(p) BY <2>4 DEF CheckGrant
  <2>5. CASE CheckWait(p) BY <2>5 DEF CheckWait
  <2>6. CASE WaitOver(p) BY <2>6 DEF WaitOver
  <2>7. CASE WaitSleep(p) BY <2>7 DEF WaitSleep
  <2>8. CASE WaitInterrupted(p) BY <2>8 DEF WaitInterrupted
  <2>9. CASE ReturnInterrupted(p) BY <2>9 DEF ReturnInterrupted, TailAfterInterrupt
  <2>10. CASE GrantTicket(p)
    <3>1. filp[p] \in Writable => locked = {}
      BY <2>10, ZeroMeansNoReaders, HeldAreCounted, SettledFor DEF GrantTicket, NoReaders, ReadHolders
    <3>2. Settled
      BY <2>10, SettledFor DEF GrantTicket
    <3> QED BY <2>10, <3>1, <3>2 DEF GrantTicket
  <2>11. CASE GrantCount(p) BY <2>11 DEF GrantCount, Inc
  <2>12. CASE ReleaseClear(p)
    <3>1. Settled /\ filp[p] \in locked
      BY <2>12, SettledFor DEF ReleaseClear, ReadInv, FlagInv
    <3>2. CASE filp[p] \in Writable
      <4>1. locked = {filp[p]} /\ write_locks = 1
        BY <3>1, <3>2
      <4> QED BY <2>12, <3>1, <3>2, <4>1 DEF ReleaseClear
    <3>3. CASE filp[p] \notin Writable
      BY <2>12, <3>1, <3>3 DEF ReleaseClear
    <3> QED BY <3>2, <3>3
  <2>13. CASE ReleaseCount(p)
    <3>1. \A q \in Procs \ {p} : pc[q] \notin {"count", "uncount"}
      BY <2>13 DEF ReleaseCount
    <3>2. CASE filp[p] \in Writable
      <4>1. write_locks' = 0
        BY <2>13, <3>2 DEF ReleaseCount, Dec
      <4> QED BY <2>13, <3>1, <3>2, <4>1 DEF ReleaseCount
    <3>3. CASE filp[p] \notin Writable
      BY <2>13, <3>1, <3>3 DEF ReleaseCount
    <3> QED BY <3>2, <3>3
  <2> QED BY <1>2, <2>1, <2>2, <2>3, <2>4, <2>5, <2>6, <2>7, <2>8, <2>9, <2>10, <2>11,
             <2>12, <2>13
          DEF Continue, Checking, Waiting
<1>3. ASSUME NEW p \in Procs, Signal(p) PROVE ExclusionInv'
  BY <1>3 DEF Signal, disk, files
<1>4. ASSUME NEW p \in Procs, NEW f \in Files,
             \/ OpenFile(p, f) \/ CloseLast(p, f) \/ CloseOther(p, f)
             \/ ReadHead(p, f) \/ TryAcquire(p, f) \/ ReleaseTest(p, f)
      PROVE ExclusionInv'
  <2> USE DEF GoesOn, disk, files, FlagCleared, Idle, Calls, MayRun
  <2>1. CASE OpenFile(p, f) BY <2>1 DEF OpenFile
  <2>2. CASE CloseLast(p, f)
    <3>1. CASE f \in Writable
      <4>1. f \in locked \/ WriteHolders = {}
        BY <2>2, <3>1 DEF CloseLast
      <4>2. (locked \ {f}) \cap Writable = {}
        BY <3>1, <4>1
      <4>3. write_locks' = 0 /\ locked' = locked \ {f}
        BY <2>2, <3>1 DEF CloseLast, ClosesRead, ReadHolders
      <4>4. /\ pc' = pc /\ filp' = filp
            /\ \A q \in Procs : pc[q] \notin {"count", "uncount"}
        BY <2>2 DEF CloseLast
      <4> QED BY <4>2, <4>3, <4>4
    <3>2. CASE f \notin Writable
      <4>1. write_locks' = write_locks /\ WriteHolders' = WriteHolders
        BY <2>2, <3>2 DEF CloseLast
      <4> QED BY <2>2, <3>2, <4>1 DEF CloseLast
    <3> QED BY <3>1, <3>2
  <2>3. CASE CloseOther(p, f) BY <2>3 DEF CloseOther
  <2>4. CASE ReadHead(p, f) BY <2>4 DEF ReadHead
  <2>5. CASE TryAcquire(p, f)
    <3>1. f \in Writable => locked = {}
      BY <2>5, ZeroMeansNoReaders, HeldAreCounted, SettledFor DEF TryAcquire, NotBusy, NoReaders, ReadHolders
    <3>2. \A q \in Procs : pc[q] \notin {"grant", "count", "uncount"}
      BY <2>5 DEF TryAcquire, NotBusy
    <3>3. /\ write_locks = 0 /\ WriteHolders = {}
          /\ pc' = pc /\ locked' = locked \cup {f}
      BY <2>5 DEF TryAcquire, NotBusy
    <3>4. WriteExclusion'
      BY <3>1, <3>3
    <3>5. write_locks' = IF WriteHolders' = {} THEN 0 ELSE 1
      BY <2>5, <3>3 DEF TryAcquire, Inc
    <3> QED BY <3>2, <3>3, <3>4, <3>5
  <2>6. CASE ReleaseTest(p, f) BY <2>6 DEF ReleaseTest
  <2> QED BY <1>4, <2>1, <2>2, <2>3, <2>4, <2>5, <2>6
<1> QED BY <1>1, <1>2, <1>3, <1>4 DEF Next

LEMMA ExclusionInvariant ==
    ASSUME ~ Preemptible, "stray" \notin Env PROVE Spec => []ExclusionInv
<1>1. Init => ExclusionInv
  BY DEF Init, ExclusionInv, WriteExclusion, WriteHolders, WriteCount
<1>2. ITyped /\ CpuInside /\ TicketInv /\ MutexHeldInside /\ ReadInv
        /\ GrantPending /\ ExclusionInv /\ [Next]_vars => ExclusionInv'
  BY NextExclusion
<1> QED BY Typed, CpuCorrect, TicketInvariant, MutexCorrect, ReadInvariant,
           PendingInvariant, <1>1, <1>2, PTL DEF Spec

(* A write lock is exclusive in a kernel that does not preempt the code,   *)
(* for programs that close a writable file only when it holds the lock or  *)
(* nobody holds the write lock.                                            *)
THEOREM WriteExclusionCorrect ==
    ASSUME ~ Preemptible, "stray" \notin Env PROVE Spec => []WriteExclusion
<1>1. ExclusionInv => WriteExclusion
  BY DEF ExclusionInv
<1> QED BY ExclusionInvariant, <1>1, PTL

---------------------------------------------------------------------------
(* Osprd implements RWLock *)

AllInv == /\ ITyped /\ CpuInside /\ TicketInv /\ MutexHeldInside
          /\ ReadInv /\ GrantPending /\ ExclusionInv

absVars == <<locked, Requested, Arrival>>

(* A step that leaves the queue and the locked files alone is a stutter *)
LEMMA QueueKept ==
    ASSUME locked' = locked,
           \A p \in Procs : /\ Queued(p)' = Queued(p)
                            /\ Queued(p) => /\ filp'[p] = filp[p]
                                            /\ ticket_cur'[p] = ticket_cur[p]
    PROVE  absVars' = absVars
<1>1. Requested' = Requested
  BY DEF Requested
<1>2. Arrival' = Arrival
  BY DEF Arrival
<1> QED BY <1>1, <1>2 DEF absVars

(* A process that leaves the queue is forgotten by the abstract lock *)
LEMMA QueueLeft ==
    ASSUME NEW p \in Procs, ITyped, Queued(p), ~ Queued(p)', filp' = filp,
           ticket_cur' = ticket_cur,
           \A q \in Procs \ {p} : Queued(q)' = Queued(q)
    PROVE  Abstract!Forget(p) /\ Requested[p] # NoFile
<1>1. Requested' = [Requested EXCEPT ![p] = NoFile]
  BY DEF Requested
<1>2. Arrival' = {e \in Arrival : e[1] # p /\ e[2] # p}
  BY DEF Arrival
<1>3. Requested[p] # NoFile
  BY NoFileAssumption DEF Requested, ITyped, TypeOK
<1> QED BY <1>1, <1>2, <1>3 DEF Abstract!Forget

(* The file a process is granted is compatible with the holders *)
LEMMA GrantCompatible ==
    ASSUME ~ Preemptible, AllInv, NEW p \in Procs, GrantTicket(p)
    PROVE  Abstract!Compatible(filp[p])
<1> USE DEF AllInv, GrantTicket, MutexFree, ExclusionInv, GrantPending
<1>1. WriteHolders = {}
  BY SettledFor DEF WriteCount
<1>2. filp[p] \in Writable => NoReaders
  BY ZeroMeansNoReaders, HeldAreCounted
<1> QED BY <1>1, <1>2 DEF Abstract!Compatible, NoReaders, WriteHolders, ReadHolders

LEMMA RefinesStep ==
    ~ Preemptible /\ AllInv /\ [Next]_vars => [Abstract!Next]_absVars
<1> SUFFICES ASSUME ~ Preemptible, AllInv, [Next]_vars PROVE Abstract!Next \/ absVars' = absVars
  OBVIOUS
<1> DEFINE Goal == Abstract!Next \/ absVars' = absVars
<1> USE DEF AllInv, ITyped, TypeOK, PCs
<1>1. CASE UNCHANGED vars
  BY <1>1, QueueKept DEF vars, disk, files, Queued
<1>2. ASSUME NEW p \in Procs, Continue(p) PROVE Goal
  <2> USE DEF GoesOn, Blocks, disk, files, FlagCleared
  <2>1. CASE WriteHead(p)
    <3>1. ~ Queued(p) /\ Queued(p)' /\ \A q \in Procs \ {p} : Queued(q)' = Queued(q)
      BY <2>1 DEF WriteHead, Queued
    <3>2. \A q \in Procs : Queued(q) => ticket_cur[q] < ticket_cur[p]
      BY <2>1, <3>1 DEF WriteHead, TicketInv, TicketOrder
    <3>3. Requested' = [Requested EXCEPT ![p] = filp[p]] /\ Requested[p] = NoFile
      BY <2>1, <3>1 DEF WriteHead, Requested
    <3>4. Abstract!Blocked = {q \in Procs : Queued(q)}
      BY NoFileAssumption DEF Abstract!Blocked, Requested
    <3>5. Arrival' = Arrival \cup (Abstract!Blocked \X {p})
      <4>1. ticket_cur' = ticket_cur
        BY <2>1 DEF WriteHead
      <4>2. \A e \in Procs \X Procs :
               e \in Arrival' <=> e \in Arrival \cup (Abstract!Blocked \X {p})
        BY <3>1, <3>2, <3>4, <4>1 DEF Arrival
      <4>3. Arrival \cup (Abstract!Blocked \X {p}) \subseteq Procs \X Procs
        BY <3>4 DEF Arrival
      <4>4. Arrival' \subseteq Procs \X Procs
        BY DEF Arrival
      <4> QED BY <4>2, <4>3, <4>4
    <3>6. Abstract!Ask(p, filp[p])
      BY <2>1, <3>3, <3>5 DEF Abstract!Ask, WriteHead, InCall
    <3> QED BY <3>6 DEF Abstract!Next
  <2>2. CASE ScanFiles(p) \/ CheckGrant(p) \/ CheckWait(p)
    BY <2>2, QueueKept DEF ScanFiles, CheckGrant, CheckWait, Queued
  <2>3. CASE CheckDeadlock(p) \/ ReturnInterrupted(p)
    <3>1. /\ Queued(p) /\ ~ Queued(p)' /\ filp' = filp /\ ticket_cur' = ticket_cur
          /\ \A q \in Procs \ {p} : Queued(q)' = Queued(q)
      BY <2>3 DEF CheckDeadlock, ReturnInterrupted, Queued
    <3>2. locked' = locked
      BY <2>3 DEF CheckDeadlock, ReturnInterrupted
    <3>3. Abstract!GiveUp(p)
      BY <3>1, <3>2, QueueLeft DEF Abstract!GiveUp
    <3> QED BY <3>3 DEF Abstract!Next
  <2>4. CASE WaitOver(p) \/ WaitSleep(p) \/ WaitInterrupted(p)
    BY <2>4, QueueKept DEF WaitOver, WaitSleep, WaitInterrupted, Queued
  <2>5. CASE GrantTicket(p)
    <3>1. /\ Queued(p) /\ ~ Queued(p)' /\ filp' = filp /\ ticket_cur' = ticket_cur
          /\ \A q \in Procs \ {p} : Queued(q)' = Queued(q)
      BY <2>5 DEF GrantTicket, Queued
    <3>2. Requested[p] = filp[p]
      BY <3>1 DEF Requested
    <3>3. \A q \in Procs : <<q, p>> \notin Arrival
      BY <2>5 DEF Arrival, GrantTicket, TicketInv, TicketOrder
    <3>4. Abstract!Compatible(Requested[p]) /\ locked' = locked \cup {Requested[p]}
      BY <2>5, <3>2, GrantCompatible DEF GrantTicket
    <3>5. Abstract!Grant(p)
      BY <3>1, <3>3, <3>4, QueueLeft DEF Abstract!Grant
    <3> QED BY <3>5 DEF Abstract!Next
  <2>6. CASE GrantCount(p) \/ ReleaseCount(p)
    BY <2>6, QueueKept DEF GrantCount, ReleaseCount, Queued
  <2>7. CASE ReleaseClear(p)
    <3>1. /\ locked' = locked \ {filp[p]} /\ filp[p] \in locked
          /\ filp' = filp /\ ticket_cur' = ticket_cur
      BY <2>7 DEF ReleaseClear, ReadInv, FlagInv
    <3>2. \A q \in Procs : Queued(q)' = Queued(q)
      BY <2>7 DEF ReleaseClear, Queued
    <3>3. Requested' = Requested /\ Arrival' = Arrival
      BY <3>1, <3>2 DEF Requested, Arrival
    <3> QED BY <3>1, <3>3 DEF Abstract!Next, Abstract!Unlock
  <2> QED BY <1>2, <2>1, <2>2, <2>3, <2>4, <2>5, <2>6, <2>7 DEF Continue, Checking, Waiting
<1>3. ASSUME NEW p \in Procs, Signal(p) PROVE Goal
  BY <1>3, QueueKept DEF Signal, disk, files, Queued
<1>4. ASSUME NEW p \in Procs, NEW f \in Files,
             \/ OpenFile(p, f) \/ CloseLast(p, f) \/ CloseOther(p, f)
             \/ ReadHead(p, f) \/ TryAcquire(p, f) \/ ReleaseTest(p, f)
      PROVE Goal
  <2> USE DEF GoesOn, disk, files, FlagCleared, Idle, Calls
  <2>1. CASE OpenFile(p, f) \/ CloseOther(p, f)
    BY <2>1, QueueKept DEF OpenFile, CloseOther, Queued
  <2>2. CASE ReadHead(p, f) \/ ReleaseTest(p, f)
    BY <2>2, QueueKept DEF ReadHead, ReleaseTest, Queued
  <2>3. CASE CloseLast(p, f)
    <3>1. /\ locked' = locked \ {f} /\ filp' = filp /\ ticket_cur' = ticket_cur
          /\ pc' = pc
      BY <2>3 DEF CloseLast
    <3>2. Requested' = Requested /\ Arrival' = Arrival
      BY <3>1 DEF Requested, Arrival, Queued
    <3>3. CASE f \in locked
      BY <3>1, <3>2, <3>3 DEF Abstract!Next, Abstract!Unlock
    <3>4. CASE f \notin locked
      BY <3>1, <3>2, <3>4 DEF absVars
    <3> QED BY <3>3, <3>4
  <2>4. CASE TryAcquire(p, f)
    <3>1. /\ locked' = locked \cup {f} /\ filp' = filp /\ ticket_cur' = ticket_cur
          /\ pc' = pc
      BY <2>4 DEF TryAcquire
    <3>2. Requested' = Requested /\ Arrival' = Arrival
      BY <3>1 DEF Requested, Arrival, Queued
    <3>3. Abstract!Blocked = {}
      <4>1. \A q \in Procs : ~ Queued(q)
        BY <2>4 DEF TryAcquire, NotBusy, TicketInv, TicketOrder
      <4> QED BY <4>1 DEF Abstract!Blocked, Requested
    <3>4. Abstract!Compatible(f)
      <4>1. WriteHolders = {}
        BY <2>4, SettledFor DEF TryAcquire, NotBusy, MutexFree, ExclusionInv, WriteCount
      <4>2. f \in Writable => NoReaders
        BY <2>4, ZeroMeansNoReaders, HeldAreCounted DEF TryAcquire, NotBusy, MutexFree
      <4> QED BY <4>1, <4>2 DEF Abstract!Compatible, NoReaders, WriteHolders, ReadHolders
    <3>5. Abstract!Attempt(f)
      BY <3>1, <3>2, <3>3, <3>4 DEF Abstract!Attempt
    <3> QED BY <3>5 DEF Abstract!Next
  <2> QED BY <1>4, <2>1, <2>2, <2>3, <2>4
<1> QED BY <1>1, <1>2, <1>3, <1>4 DEF Next

(* Under the same assumptions the driver implements the abstract FIFO      *)
(* readers/writer lock of module RWLock.                                   *)
THEOREM ImplementsRWLockCorrect ==
    ASSUME ~ Preemptible, "stray" \notin Env PROVE Spec => ImplementsRWLock
<1>1. Init => Abstract!Init
  BY DEF Init, Abstract!Init, Requested, Arrival, Queued
<1>2. AllInv /\ [Next]_vars => [Abstract!Next]_(Abstract!vars)
  BY RefinesStep DEF absVars, Abstract!vars
<1>3. Spec => []AllInv
  BY Typed, CpuCorrect, TicketInvariant, MutexCorrect, ReadInvariant,
     PendingInvariant, ExclusionInvariant, PTL DEF AllInv
<1> QED BY <1>1, <1>2, <1>3, PTL DEF Spec, ImplementsRWLock, Abstract!Spec

---------------------------------------------------------------------------
(* Programs that lock a file once *)

(* The file of a request is not locked before the grant and is locked in   *)
(* the critical section.                                                   *)
FreshRequests ==
    \A p \in Procs : /\ Queued(p) \/ pc[p] = "take" => filp[p] \notin locked
                     /\ pc[p] = "count" => filp[p] \in locked

LEMMA NextFresh ==
    ASSUME Unshared, "relock" \notin Env, ITyped, MutexHeldInside, FreshRequests, [Next]_vars
    PROVE  FreshRequests'
<1> USE DEF ITyped, TypeOK, InCall, PCs, FreshRequests, Queued, MutexHeldInside, MutexFree
<1>1. CASE UNCHANGED vars
  BY <1>1 DEF vars, disk, files
<1>2. ASSUME NEW p \in Procs, Continue(p) PROVE FreshRequests'
  <2> USE DEF GoesOn, Blocks, disk, files, FlagCleared
  <2>1. CASE WriteHead(p) BY <2>1 DEF WriteHead
  <2>2. CASE ScanFiles(p) BY <2>2 DEF ScanFiles
  <2>3. CASE CheckDeadlock(p) BY <2>3 DEF CheckDeadlock
  <2>4. CASE CheckGrant(p) BY <2>4 DEF CheckGrant
  <2>5. CASE CheckWait(p) BY <2>5 DEF CheckWait
  <2>6. CASE WaitOver(p) BY <2>6 DEF WaitOver
  <2>7. CASE WaitSleep(p) BY <2>7 DEF WaitSleep
  <2>8. CASE WaitInterrupted(p) BY <2>8 DEF WaitInterrupted
  <2>9. CASE ReturnInterrupted(p) BY <2>9 DEF ReturnInterrupted
  <2>10. CASE GrantTicket(p)
    <3>1. ASSUME NEW q \in Procs, q # p, pc[q] # "user"
          PROVE  filp[q] # filp[p]
      BY <2>10, <3>1 DEF GrantTicket, Unshared
    <3> QED BY <2>10, <3>1 DEF GrantTicket
  <2>11. CASE GrantCount(p) BY <2>11 DEF GrantCount
  <2>12. CASE ReleaseClear(p)
    <3>1. ASSUME NEW q \in Procs, q # p, pc[q] # "user"
          PROVE  filp[q] # filp[p]
      BY <2>12, <3>1 DEF ReleaseClear, Unshared
    <3> QED BY <2>12, <3>1 DEF ReleaseClear
  <2>13. CASE ReleaseCount(p) BY <2>13 DEF ReleaseCount
  <2> QED BY <1>2, <2>1, <2>2, <2>3, <2>4, <2>5, <2>6, <2>7, <2>8, <2>9, <2>10, <2>11,
             <2>12, <2>13
          DEF Continue, Checking, Waiting
<1>3. ASSUME NEW p \in Procs, Signal(p) PROVE FreshRequests'
  BY <1>3 DEF Signal, disk, files
<1>4. ASSUME NEW p \in Procs, NEW f \in Files,
             \/ OpenFile(p, f) \/ CloseLast(p, f) \/ CloseOther(p, f)
             \/ ReadHead(p, f) \/ TryAcquire(p, f) \/ ReleaseTest(p, f)
      PROVE FreshRequests'
  <2> USE DEF GoesOn, disk, files, FlagCleared, Idle, Calls, MayLock
  <2>1. CASE OpenFile(p, f) BY <2>1 DEF OpenFile
  <2>2. CASE CloseLast(p, f) BY <2>2 DEF CloseLast
  <2>3. CASE CloseOther(p, f) BY <2>3 DEF CloseOther
  <2>4. CASE ReadHead(p, f) BY <2>4 DEF ReadHead
  <2>5. CASE TryAcquire(p, f)
    <3>1. \A q \in Procs : pc[q] # "user" => filp[q] # f
      BY <2>5 DEF TryAcquire, Unshared
    <3> QED BY <2>5, <3>1 DEF TryAcquire
  <2>6. CASE ReleaseTest(p, f) BY <2>6 DEF ReleaseTest
  <2> QED BY <1>4, <2>1, <2>2, <2>3, <2>4, <2>5, <2>6
<1> QED BY <1>1, <1>2, <1>3, <1>4 DEF Next

LEMMA FreshInvariant ==
    ASSUME Unshared, "relock" \notin Env PROVE Spec => []FreshRequests
<1>1. Init => FreshRequests
  BY DEF Init, FreshRequests, Queued
<1>2. ITyped /\ MutexHeldInside /\ FreshRequests /\ [Next]_vars => FreshRequests'
  BY NextFresh
<1> QED BY Typed, MutexCorrect, <1>1, <1>2, PTL DEF Spec

---------------------------------------------------------------------------
(* The read count is exact *)

ReadersExact == read_locks = Cardinality(Held)

LEMMA ExactPositive == ASSUME ITyped, ReadersExact, NEW f \in Held PROVE read_locks > 0
<1>1. IsFiniteSet(Held)
  BY HeldFiles, FS_Subset
<1> QED BY <1>1, FS_EmptySet, FS_CardinalityType DEF ReadersExact

ExactlyKept == Held' = Held /\ read_locks' = read_locks
ExactlyMore == \E f \in Files \ Held : Held' = Held \cup {f} /\ read_locks' = read_locks + 1
ExactlyLess == \E f \in Held : Held' = Held \ {f} /\ read_locks' = read_locks - 1

\* What a step does to the files that count and to the count, exactly.
LEMMA ExactStep ==
    ASSUME Unshared, "relock" \notin Env, ITyped, MutexHeldInside, FlagInv, FreshRequests,
           ReadersExact, [Next]_vars
    PROVE  ExactlyKept \/ ExactlyMore \/ ExactlyLess
<1> DEFINE Goal == ExactlyKept \/ ExactlyMore \/ ExactlyLess
<1> USE DEF ITyped, TypeOK, InCall, MutexHeldInside, PCs, Held, Uncounting, CountedReaders, ReadHolders,
            FlagInv, FreshRequests, Queued, MutexFree, ExactlyKept
<1>0. \A p, q \in Procs : pc[p] # "user" /\ pc[q] # "user" /\ filp[p] = filp[q] => p = q
  BY DEF Unshared
<1>1. CASE UNCHANGED vars
  BY <1>1 DEF vars, disk, files
<1>2. ASSUME NEW p \in Procs, Continue(p) PROVE Goal
  <2> USE DEF GoesOn, Blocks, disk, files, FlagCleared
  <2>1. CASE WriteHead(p) BY <2>1 DEF WriteHead
  <2>2. CASE ScanFiles(p) BY <2>2 DEF ScanFiles
  <2>3. CASE CheckDeadlock(p) BY <2>3 DEF CheckDeadlock
  <2>4. CASE CheckGrant(p) BY <2>4 DEF CheckGrant
  <2>5. CASE CheckWait(p) BY <2>5 DEF CheckWait
  <2>6. CASE WaitOver(p) BY <2>6 DEF WaitOver
  <2>7. CASE WaitSleep(p) BY <2>7 DEF WaitSleep
  <2>8. CASE WaitInterrupted(p) BY <2>8 DEF WaitInterrupted
  <2>9. CASE ReturnInterrupted(p) BY <2>9 DEF ReturnInterrupted
  <2>10. CASE GrantTicket(p) BY <2>10 DEF GrantTicket
  <2>11. CASE GrantCount(p)
    <3>0. \A q \in Procs : pc'[q] = "count" <=> pc[q] = "count" /\ q # p
      BY <2>11 DEF GrantCount
    <3>1. CASE filp[p] \in Writable
      BY <2>11, <3>0, <3>1 DEF GrantCount
    <3>2. CASE filp[p] \notin Writable
      <4>1. filp[p] \in Files \ Held /\ Held' = Held \cup {filp[p]}
        BY <1>0, <2>11, <3>0, <3>2 DEF GrantCount
      <4>2. read_locks' = read_locks + 1
        BY <2>11, <3>2 DEF GrantCount
      <4> QED BY <4>1, <4>2 DEF ExactlyMore
    <3> QED BY <3>1, <3>2
  <2>12. CASE ReleaseClear(p) BY <1>0, <2>12 DEF ReleaseClear
  <2>13. CASE ReleaseCount(p)
    <3>1. CASE filp[p] \in Writable
      BY <2>13, <3>1 DEF ReleaseCount
    <3>2. CASE filp[p] \notin Writable
      <4>1. filp[p] \in Held /\ Held' = Held \ {filp[p]}
        BY <1>0, <2>13, <3>2 DEF ReleaseCount
      <4>2. read_locks' = read_locks - 1
        BY <2>13, <3>2 DEF ReleaseCount
      <4> QED BY <4>1, <4>2 DEF ExactlyLess
    <3> QED BY <3>1, <3>2
  <2> QED BY <1>2, <2>1, <2>2, <2>3, <2>4, <2>5, <2>6, <2>7, <2>8, <2>9, <2>10, <2>11,
             <2>12, <2>13
          DEF Continue, Checking, Waiting
<1>3. ASSUME NEW p \in Procs, Signal(p) PROVE Goal
  BY <1>3 DEF Signal, disk, files
<1>4. ASSUME NEW p \in Procs, NEW f \in Files,
             \/ OpenFile(p, f) \/ CloseLast(p, f) \/ CloseOther(p, f)
             \/ ReadHead(p, f) \/ TryAcquire(p, f) \/ ReleaseTest(p, f)
      PROVE Goal
  <2> USE DEF GoesOn, disk, files, FlagCleared, Idle, Calls, MayLock
  <2>1. CASE OpenFile(p, f) BY <2>1 DEF OpenFile
  <2>2. CASE CloseLast(p, f)
    <3>1. CASE f \in ReadHolders
      <4>1. f \in Held /\ Held' = Held \ {f}
        BY <2>2, <3>1 DEF CloseLast
      <4>3. read_locks > 0
        BY <4>1, ExactPositive
      <4>4. read_locks' = read_locks - 1
        BY <2>2, <3>1, <4>3 DEF CloseLast, ClosesRead
      <4> QED BY <4>1, <4>4 DEF ExactlyLess
    <3>2. CASE f \notin ReadHolders
      BY <2>2, <3>2 DEF CloseLast, ClosesRead
    <3> QED BY <3>1, <3>2
  <2>3. CASE CloseOther(p, f) BY <2>3 DEF CloseOther
  <2>4. CASE ReadHead(p, f) BY <2>4 DEF ReadHead
  <2>5. CASE TryAcquire(p, f)
    <3>0. \A q \in Procs : pc[q] # "user" => filp[q] # f
      BY <2>5 DEF TryAcquire, Unshared
    <3>1. CASE f \in Writable
      BY <2>5, <3>1 DEF TryAcquire
    <3>2. CASE f \notin Writable
      <4>1. f \in Files \ Held /\ Held' = Held \cup {f}
        BY <2>5, <3>0, <3>2 DEF TryAcquire
      <4>2. read_locks' = read_locks + 1
        BY <2>5, <3>2 DEF TryAcquire
      <4> QED BY <4>1, <4>2 DEF ExactlyMore
    <3> QED BY <3>1, <3>2
  <2>6. CASE ReleaseTest(p, f) BY <2>6 DEF ReleaseTest
  <2> QED BY <1>4, <2>1, <2>2, <2>3, <2>4, <2>5, <2>6
<1> QED BY <1>1, <1>2, <1>3, <1>4 DEF Next

LEMMA NextExact ==
    ASSUME Unshared, "relock" \notin Env, ITyped, MutexHeldInside, ReadInv, FreshRequests,
           ReadersExact, [Next]_vars
    PROVE  ReadersExact'
<1>1. IsFiniteSet(Held)
  BY HeldFiles, FS_Subset
<1>2. CASE ExactlyKept
  BY <1>2 DEF ExactlyKept, ReadersExact
<1>3. CASE ExactlyMore
  <2>1. PICK f \in Files \ Held : Held' = Held \cup {f} /\ read_locks' = read_locks + 1
    BY <1>3 DEF ExactlyMore
  <2>2. Cardinality(Held \cup {f}) = Cardinality(Held) + 1
    BY <1>1, FS_AddElement
  <2> QED BY <2>1, <2>2 DEF ReadersExact
<1>4. CASE ExactlyLess
  <2>1. PICK f \in Held : Held' = Held \ {f} /\ read_locks' = read_locks - 1
    BY <1>4 DEF ExactlyLess
  <2>2. Cardinality(Held \ {f}) = Cardinality(Held) - 1
    BY <1>1, FS_RemoveElement
  <2> QED BY <2>1, <2>2 DEF ReadersExact
<1> QED BY <1>2, <1>3, <1>4, ExactStep DEF ReadInv

LEMMA ExactInvariant ==
    ASSUME Unshared, "relock" \notin Env PROVE Spec => []ReadersExact
<1>1. Init => ReadersExact
  <2>1. Init => Held = {}
    BY DEF Init, Held, Uncounting, CountedReaders, ReadHolders
  <2> QED BY <2>1, FS_EmptySet DEF Init, ReadersExact
<1>2. ITyped /\ MutexHeldInside /\ ReadInv /\ FreshRequests /\ ReadersExact /\ [Next]_vars
        => ReadersExact'
  BY NextExact
<1> QED BY Typed, MutexCorrect, ReadInvariant, FreshInvariant, <1>1, <1>2, PTL DEF Spec

---------------------------------------------------------------------------
(* write_owner names a process that may use the file that holds the write  *)
(* lock.  In the critical section of a grant it still says that nobody has *)
(* it, and in a release that the holder has.                               *)

OwnerKnown == IF WriteHolders = {} THEN write_owner = NoProc
              ELSE \A w \in WriteHolders : write_owner \in Users[w]
OwnerInv ==
    /\ Settled => OwnerKnown
    /\ \A p \in Procs : pc[p] = "count" => write_owner = NoProc
    /\ \A p \in Procs : pc[p] = "uncount" /\ filp[p] \notin Writable => OwnerKnown

LEMMA NextOwner ==
    ASSUME ~ Preemptible, "stray" \notin Env, ITyped, CpuInside, MutexHeldInside, ReadInv,
           ExclusionInv, OwnerInv, [Next]_vars
    PROVE  OwnerInv'
<1> USE DEF ITyped, TypeOK, InCall, CpuInside, Inside, MutexHeldInside, MutexFree, PCs, WriteHolders,
            ExclusionInv, WriteExclusion, WriteCount, OwnerInv, OwnerKnown, Settled
<1>1. CASE UNCHANGED vars
  BY <1>1 DEF vars, disk, files
<1>2. ASSUME NEW p \in Procs, Continue(p) PROVE OwnerInv'
  <2> USE DEF GoesOn, Blocks, MayRun, disk, files, FlagCleared
  <2>1. CASE WriteHead(p) BY <2>1 DEF WriteHead
  <2>2. CASE ScanFiles(p) BY <2>2 DEF ScanFiles
  <2>3. CASE CheckDeadlock(p) BY <2>3 DEF CheckDeadlock
  <2>4. CASE CheckGrant(p) BY <2>4 DEF CheckGrant
  <2>5. CASE CheckWait(p) BY <2>5 DEF CheckWait
  <2>6. CASE WaitOver(p) BY <2>6 DEF WaitOver
  <2>7. CASE WaitSleep(p) BY <2>7 DEF WaitSleep
  <2>8. CASE WaitInterrupted(p) BY <2>8 DEF WaitInterrupted
  <2>9. CASE ReturnInterrupted(p) BY <2>9 DEF ReturnInterrupted
  <2>10. CASE GrantTicket(p)
    <3>1. WriteHolders = {} /\ write_owner = NoProc
      BY <2>10, SettledFor DEF GrantTicket
    <3> QED BY <2>10, <3>1 DEF GrantTicket
  <2>11. CASE GrantCount(p)
    <3>1. \A q \in Procs \ {p} : pc[q] \notin {"count", "uncount"}
      BY <2>11 DEF GrantCount
    <3>2. CASE filp[p] \in Writable
      BY <2>11, <3>1, <3>2 DEF GrantCount
    <3>3. CASE filp[p] \notin Writable
      BY <2>11, <3>1, <3>3 DEF GrantCount
    <3> QED BY <3>2, <3>3
  <2>12. CASE ReleaseClear(p)
    <3>1. Settled
      BY <2>12, SettledFor DEF ReleaseClear
    <3> QED BY <2>12, <3>1 DEF ReleaseClear
  <2>13. CASE ReleaseCount(p)
    <3>1. \A q \in Procs \ {p} : pc[q] \notin {"count", "uncount"}
      BY <2>13 DEF ReleaseCount
    <3>2. CASE filp[p] \in Writable
      BY <2>13, <3>1, <3>2 DEF ReleaseCount
    <3>3. CASE filp[p] \notin Writable
      BY <2>13, <3>1, <3>3 DEF ReleaseCount
    <3> QED BY <3>2, <3>3
  <2> QED BY <1>2, <2>1, <2>2, <2>3, <2>4, <2>5, <2>6, <2>7, <2>8, <2>9, <2>10, <2>11,
             <2>12, <2>13
          DEF Continue, Checking, Waiting
<1>3. ASSUME NEW p \in Procs, Signal(p) PROVE OwnerInv'
  BY <1>3 DEF Signal, disk, files
<1>4. ASSUME NEW p \in Procs, NEW f \in Files,
             \/ OpenFile(p, f) \/ CloseLast(p, f) \/ CloseOther(p, f)
             \/ ReadHead(p, f) \/ TryAcquire(p, f) \/ ReleaseTest(p, f)
      PROVE OwnerInv'
  <2> USE DEF GoesOn, disk, files, FlagCleared, Idle, Calls, MayRun
  <2>1. CASE OpenFile(p, f) BY <2>1 DEF OpenFile
  <2>2. CASE CloseLast(p, f)
    <3>1. CASE f \in Writable
      <4>1. (locked \ {f}) \cap Writable = {}
        BY <2>2, <3>1 DEF CloseLast
      <4> QED BY <2>2, <3>1, <4>1 DEF CloseLast, ClosesRead, ReadHolders
    <3>2. CASE f \notin Writable
      BY <2>2, <3>2 DEF CloseLast
    <3> QED BY <3>1, <3>2
  <2>3. CASE CloseOther(p, f) BY <2>3 DEF CloseOther
  <2>4. CASE ReadHead(p, f) BY <2>4 DEF ReadHead
  <2>5. CASE TryAcquire(p, f)
    <3>1. WriteHolders = {} /\ \A q \in Procs : pc[q] \notin {"count", "uncount"}
      BY <2>5, SettledFor DEF TryAcquire, NotBusy
    <3> QED BY <2>5, <3>1 DEF TryAcquire
  <2>6. CASE ReleaseTest(p, f) BY <2>6 DEF ReleaseTest
  <2> QED BY <1>4, <2>1, <2>2, <2>3, <2>4, <2>5, <2>6
<1> QED BY <1>1, <1>2, <1>3, <1>4 DEF Next

LEMMA OwnerInvariant ==
    ASSUME ~ Preemptible, "stray" \notin Env PROVE Spec => []OwnerInv
<1>1. Init => OwnerInv
  BY DEF Init, OwnerInv, OwnerKnown, WriteHolders
<1>2. ITyped /\ CpuInside /\ MutexHeldInside /\ ReadInv /\ ExclusionInv /\ OwnerInv
        /\ [Next]_vars => OwnerInv'
  BY NextOwner
<1> QED BY Typed, CpuCorrect, MutexCorrect, ReadInvariant, ExclusionInvariant, <1>1, <1>2, PTL
        DEF Spec

(* Outside grants and releases the counts and write_owner say exactly      *)
(* which files hold a lock, for programs that share no file, request a     *)
(* lock only on a file without and close no stray file; signals and        *)
(* -EDEADLK do not matter.                                                 *)
THEOREM CountsAgreeCorrect ==
    ASSUME ~ Preemptible, Unshared, Env \cap {"stray", "relock"} = {}
    PROVE  Spec => []CountsAgree
<1>1. ITyped /\ ReadersExact /\ ExclusionInv /\ OwnerInv => CountsAgree
  <2> SUFFICES ASSUME ITyped, ReadersExact, ExclusionInv, OwnerInv, Settled
               PROVE  CountsAgree
    BY DEF CountsAgree
  <2>1. Held = ReadHolders
    BY DEF Held, Uncounting, CountedReaders, Settled
  <2>2. write_locks = Cardinality(WriteHolders)
    <3>1. CASE WriteHolders = {}
      BY <3>1, FS_EmptySet DEF ExclusionInv, WriteCount
    <3>2. CASE WriteHolders # {}
      <4>1. PICK w \in WriteHolders : TRUE
        BY <3>2
      <4>2. WriteHolders = {w}
        BY <4>1 DEF ExclusionInv, WriteExclusion, WriteHolders
      <4> QED BY <3>2, <4>2, FS_Singleton DEF ExclusionInv, WriteCount
    <3> QED BY <3>1, <3>2
  <2> QED BY <2>1, <2>2 DEF ReadersExact, OwnerInv, OwnerKnown, CountsAgree
<1>2. "stray" \notin Env /\ "relock" \notin Env
  OBVIOUS
<1>3. Spec => []ReadersExact
  BY <1>2, ExactInvariant
<1>4. Spec => []ExclusionInv
  BY <1>2, ExclusionInvariant
<1>5. Spec => []OwnerInv
  BY <1>2, OwnerInvariant
<1> QED BY Typed, <1>1, <1>3, <1>4, <1>5, PTL

---------------------------------------------------------------------------
(* No ticket is lost *)

(* What the scan of the process's files finds: a process with one file     *)
(* finds no file in the other mode.                                        *)
ScanAgrees ==
    \A p \in Procs :
        /\ pc[p] = "scan" => ~ read_ids /\ ~ write_ids
        /\ pc[p] = "check" => IF filp[p] \in Writable THEN ~ read_ids ELSE ~ write_ids

OneFileEach == Unshared /\ \A f, g \in Files : Users[f] = Users[g] => f = g

LEMMA OnlyFile ==
    ASSUME OneFileEach, NEW f \in Files, NEW g \in Files, NEW p \in Users[f] \cap Users[g]
    PROVE  f = g
<1>1. Users[f] = {p} /\ Users[g] = {p}
  BY DEF OneFileEach, Unshared
<1> QED BY <1>1 DEF OneFileEach

LEMMA NextScan ==
    ASSUME ~ Preemptible, OneFileEach, ITyped, CpuInside, ScanAgrees, [Next]_vars
    PROVE  ScanAgrees'
<1> USE DEF ITyped, TypeOK, InCall, CpuInside, Inside, PCs, ScanAgrees
<1>1. CASE UNCHANGED vars
  BY <1>1 DEF vars, disk, files
<1>2. ASSUME NEW p \in Procs, Continue(p) PROVE ScanAgrees'
  <2> USE DEF GoesOn, Blocks, MayRun, disk, files, FlagCleared
  <2>1. CASE WriteHead(p) BY <2>1 DEF WriteHead
  <2>2. CASE ScanFiles(p)
    <3>1. FilesOf(p) = {filp[p]}
      BY <2>2, OnlyFile DEF ScanFiles, FilesOf
    <3> QED BY <2>2, <3>1 DEF ScanFiles
  <2>3. CASE CheckDeadlock(p) BY <2>3 DEF CheckDeadlock
  <2>4. CASE CheckGrant(p) BY <2>4 DEF CheckGrant
  <2>5. CASE CheckWait(p) BY <2>5 DEF CheckWait
  <2>6. CASE WaitOver(p) BY <2>6 DEF WaitOver
  <2>7. CASE WaitSleep(p) BY <2>7 DEF WaitSleep
  <2>8. CASE WaitInterrupted(p) BY <2>8 DEF WaitInterrupted
  <2>9. CASE ReturnInterrupted(p) BY <2>9 DEF ReturnInterrupted
  <2>10. CASE GrantTicket(p) BY <2>10 DEF GrantTicket
  <2>11. CASE GrantCount(p) BY <2>11 DEF GrantCount
  <2>12. CASE ReleaseClear(p) BY <2>12 DEF ReleaseClear
  <2>13. CASE ReleaseCount(p) BY <2>13 DEF ReleaseCount
  <2> QED BY <1>2, <2>1, <2>2, <2>3, <2>4, <2>5, <2>6, <2>7, <2>8, <2>9, <2>10, <2>11,
             <2>12, <2>13
          DEF Continue, Checking, Waiting
<1>3. ASSUME NEW p \in Procs, Signal(p) PROVE ScanAgrees'
  BY <1>3 DEF Signal, disk, files
<1>4. ASSUME NEW p \in Procs, NEW f \in Files,
             \/ OpenFile(p, f) \/ CloseLast(p, f) \/ CloseOther(p, f)
             \/ ReadHead(p, f) \/ TryAcquire(p, f) \/ ReleaseTest(p, f)
      PROVE ScanAgrees'
  <2> USE DEF GoesOn, disk, files, FlagCleared, Idle, Calls
  <2>1. CASE OpenFile(p, f) BY <2>1 DEF OpenFile
  <2>2. CASE CloseLast(p, f) BY <2>2 DEF CloseLast
  <2>3. CASE CloseOther(p, f) BY <2>3 DEF CloseOther
  <2>4. CASE ReadHead(p, f) BY <2>4 DEF ReadHead
  <2>5. CASE TryAcquire(p, f) BY <2>5 DEF TryAcquire
  <2>6. CASE ReleaseTest(p, f) BY <2>6 DEF ReleaseTest
  <2> QED BY <1>4, <2>1, <2>2, <2>3, <2>4, <2>5, <2>6
<1> QED BY <1>1, <1>2, <1>3, <1>4 DEF Next

LEMMA ScanInvariant ==
    ASSUME ~ Preemptible, OneFileEach PROVE Spec => []ScanAgrees
<1>1. Init => ScanAgrees
  BY DEF Init, ScanAgrees
<1>2. ITyped /\ CpuInside /\ ScanAgrees /\ [Next]_vars => ScanAgrees'
  BY NextScan
<1> QED BY Typed, CpuCorrect, <1>1, <1>2, PTL DEF Spec

(* So -EDEADLK is never the answer.                                        *)
LEMMA NoVerdict ==
    ASSUME ~ Preemptible, OneFileEach, ITyped, CpuInside, FreshRequests,
           ScanAgrees, OwnerInv, NEW p \in Procs, CheckDeadlock(p)
    PROVE  FALSE
<1>1. pc[p] = "check" /\ cpu = p /\ filp[p] \notin locked /\ p \in Users[filp[p]]
  BY DEF CheckDeadlock, CpuInside, Inside, FreshRequests, Queued, ITyped, InCall
<1>2. Settled
  BY <1>1, SettledFor DEF CheckDeadlock
<1>3. write_owner # p
  <2>1. ASSUME NEW w \in WriteHolders PROVE p \notin Users[w]
    BY <1>1, <2>1, OnlyFile DEF WriteHolders, ITyped, TypeOK
  <2> QED BY <1>2, <2>1 DEF OwnerInv, OwnerKnown
<1> QED BY <1>1, <1>3 DEF CheckDeadlock, LooksDeadlocked, ScanAgrees

NothingLost ==
    /\ \A t \in Nat : ticket_tail <= t /\ t < ticket_head =>
          \E p \in Procs : Queued(p) /\ ticket_cur[p] = t
    /\ sig = {} /\ \A p \in Procs : pc[p] # "intr"

LEMMA NextNothingLost ==
    ASSUME ~ Preemptible, Env = {}, OneFileEach, ITyped, CpuInside, TicketInv,
           FreshRequests, ScanAgrees, OwnerInv, NothingLost, [Next]_vars
    PROVE  NothingLost'
<1> DEFINE Owned(t) == \E p \in Procs : Queued(p) /\ ticket_cur[p] = t
<1> USE DEF ITyped, TypeOK, PCs, NothingLost
<1>1. CASE UNCHANGED vars
  BY <1>1 DEF vars, disk, files, Queued
<1>2. ASSUME NEW p \in Procs, Continue(p) PROVE NothingLost'
  <2> USE DEF GoesOn, Blocks, disk, files, FlagCleared
  <2>1. CASE WriteHead(p)
    <3>1. /\ ticket_head' = ticket_head + 1 /\ ticket_tail' = ticket_tail
          /\ ticket_cur' = ticket_cur /\ Queued(p)' /\ ticket_cur[p] = ticket_head
      BY <2>1 DEF WriteHead, TicketInv, Queued
    <3>2. \A q \in Procs : Queued(q) => Queued(q)'
      BY <2>1 DEF WriteHead, Queued
    <3> QED BY <2>1, <3>1, <3>2 DEF WriteHead
  <2>2. CASE ScanFiles(p) BY <2>2 DEF ScanFiles, Queued
  <2>3. CASE CheckDeadlock(p) BY <2>3, NoVerdict
  <2>4. CASE CheckGrant(p) BY <2>4 DEF CheckGrant, Queued
  <2>5. CASE CheckWait(p) BY <2>5 DEF CheckWait, Queued
  <2>6. CASE WaitOver(p) BY <2>6 DEF WaitOver, Queued
  <2>7. CASE WaitSleep(p) BY <2>7 DEF WaitSleep, Queued
  <2>8. CASE WaitInterrupted(p) BY <2>8 DEF WaitInterrupted
  <2>9. CASE ReturnInterrupted(p) BY <2>9 DEF ReturnInterrupted
  <2>10. CASE GrantTicket(p)
    <3>1. /\ ticket_head' = ticket_head /\ ticket_tail' = ticket_tail + 1
          /\ ticket_cur' = ticket_cur /\ ticket_cur[p] = ticket_tail /\ sig' = sig
      BY <2>10 DEF GrantTicket, ServeNext, TicketInv
    <3>2. \A q \in Procs \ {p} : Queued(q) => Queued(q)'
      BY <2>10 DEF GrantTicket, Queued
    <3>3. ASSUME NEW t \in Nat, ticket_tail + 1 <= t, t < ticket_head
          PROVE  \E q \in Procs : Queued(q)' /\ ticket_cur[q] = t
      <4>1. PICK q \in Procs : Queued(q) /\ ticket_cur[q] = t
        BY <3>3
      <4>2. q # p
        BY <3>1, <3>3, <4>1
      <4> QED BY <3>2, <4>1, <4>2
    <3>4. \A q \in Procs : pc'[q] # "intr"
      BY <2>10 DEF GrantTicket
    <3> QED BY <3>1, <3>3, <3>4
  <2>11. CASE GrantCount(p) BY <2>11 DEF GrantCount, Queued
  <2>12. CASE ReleaseClear(p) BY <2>12 DEF ReleaseClear, Queued
  <2>13. CASE ReleaseCount(p) BY <2>13 DEF ReleaseCount, Queued
  <2> QED BY <1>2, <2>1, <2>2, <2>3, <2>4, <2>5, <2>6, <2>7, <2>8, <2>9, <2>10, <2>11,
             <2>12, <2>13
          DEF Continue, Checking, Waiting
<1>3. ASSUME NEW p \in Procs, Signal(p) PROVE FALSE
  BY <1>3 DEF Signal
<1>4. ASSUME NEW p \in Procs, NEW f \in Files,
             \/ OpenFile(p, f) \/ CloseLast(p, f) \/ CloseOther(p, f)
             \/ ReadHead(p, f) \/ TryAcquire(p, f) \/ ReleaseTest(p, f)
      PROVE NothingLost'
  <2> USE DEF GoesOn, disk, files, FlagCleared, Idle, Calls, Queued
  <2>1. CASE OpenFile(p, f) BY <2>1 DEF OpenFile
  <2>2. CASE CloseLast(p, f) BY <2>2 DEF CloseLast
  <2>3. CASE CloseOther(p, f) BY <2>3 DEF CloseOther
  <2>4. CASE ReadHead(p, f) BY <2>4 DEF ReadHead
  <2>5. CASE TryAcquire(p, f) BY <2>5 DEF TryAcquire
  <2>6. CASE ReleaseTest(p, f) BY <2>6 DEF ReleaseTest
  <2> QED BY <1>4, <2>1, <2>2, <2>3, <2>4, <2>5, <2>6
<1> QED BY <1>1, <1>2, <1>3, <1>4 DEF Next

(* The ticket being served always belongs to a process still in ACQUIRE,   *)
(* in the lab's build, for processes with one file each that are sent no   *)
(* signals and misuse nothing.  Each assumption is needed: -EDEADLK and,   *)
(* under preemption, ticket_head++ lose tickets.                           *)
THEOREM ServedTicketHasOwnerCorrect ==
    ASSUME ~ Preemptible, Env = {}, OneFileEach PROVE Spec => []ServedTicketHasOwner
<1>1. Init => NothingLost
  BY DEF Init, NothingLost
<1>2. ITyped /\ CpuInside /\ TicketInv /\ FreshRequests /\ ScanAgrees
        /\ OwnerInv /\ NothingLost /\ [Next]_vars => NothingLost'
  BY NextNothingLost
<1>3. "relock" \notin Env /\ "stray" \notin Env /\ Unshared
  BY DEF OneFileEach
<1>4. Spec => []FreshRequests
  BY <1>3, FreshInvariant
<1>5. Spec => []ScanAgrees
  BY ScanInvariant
<1>6. Spec => []OwnerInv
  BY <1>3, OwnerInvariant
<1>7. Spec => []CpuInside
  BY CpuCorrect
<1>8. Spec => []TicketInv
  BY TicketInvariant
<1>9. Spec => []NothingLost
  BY Typed, <1>1, <1>2, <1>4, <1>5, <1>6, <1>7, <1>8, PTL DEF Spec
<1>10. ITyped /\ NothingLost => ServedTicketHasOwner
  BY DEF NothingLost, ServedTicketHasOwner, ITyped, TypeOK
<1> QED BY Typed, <1>9, <1>10, PTL
---------------------------------------------------------------------------
(* Nobody waits for its own lock *)

(* The process that checks has read of d->read_ids and d->write_ids what   *)
(* its own scan found, and its open files are still those: nobody else ran *)
(* in between.                                                             *)
ScanFound ==
    \A p \in Procs : pc[p] = "check" =>
        /\ FilesOf(p) \ Writable # {} => read_ids
        /\ FilesOf(p) \cap Writable # {} => write_ids

LEMMA NextFound ==
    ASSUME ~ Preemptible, ITyped, CpuInside, ScanFound, [Next]_vars PROVE ScanFound'
<1> USE DEF ITyped, TypeOK, CpuInside, Inside, PCs, ScanFound, FilesOf
<1>1. CASE UNCHANGED vars
  BY <1>1 DEF vars, disk, files
<1>2. ASSUME NEW p \in Procs, Continue(p) PROVE ScanFound'
  <2> USE DEF GoesOn, Blocks, MayRun, disk, files, FlagCleared
  <2>1. CASE WriteHead(p) BY <2>1 DEF WriteHead
  <2>2. CASE ScanFiles(p)
    <3>1. \A q \in Procs : pc'[q] = "check" => q = p
      BY <2>2 DEF ScanFiles
    <3>2. /\ FilesOf(p) \cap Writable # {} => write_ids'
          /\ FilesOf(p) \ Writable # {} => read_ids'
      BY <2>2 DEF ScanFiles
    <3>3. FilesOf(p)' = FilesOf(p)
      BY <2>2 DEF ScanFiles
    <3> QED BY <3>1, <3>2, <3>3
  <2>3. CASE CheckDeadlock(p) BY <2>3 DEF CheckDeadlock
  <2>4. CASE CheckGrant(p) BY <2>4 DEF CheckGrant
  <2>5. CASE CheckWait(p) BY <2>5 DEF CheckWait
  <2>6. CASE WaitOver(p) BY <2>6 DEF WaitOver
  <2>7. CASE WaitSleep(p) BY <2>7 DEF WaitSleep
  <2>8. CASE WaitInterrupted(p) BY <2>8 DEF WaitInterrupted
  <2>9. CASE ReturnInterrupted(p) BY <2>9 DEF ReturnInterrupted
  <2>10. CASE GrantTicket(p) BY <2>10 DEF GrantTicket
  <2>11. CASE GrantCount(p) BY <2>11 DEF GrantCount
  <2>12. CASE ReleaseClear(p) BY <2>12 DEF ReleaseClear
  <2>13. CASE ReleaseCount(p) BY <2>13 DEF ReleaseCount
  <2> QED BY <1>2, <2>1, <2>2, <2>3, <2>4, <2>5, <2>6, <2>7, <2>8, <2>9, <2>10, <2>11,
             <2>12, <2>13
          DEF Continue, Checking, Waiting
<1>3. ASSUME NEW p \in Procs, Signal(p) PROVE ScanFound'
  BY <1>3 DEF Signal, disk, files
<1>4. ASSUME NEW p \in Procs, NEW f \in Files,
             \/ OpenFile(p, f) \/ CloseLast(p, f) \/ CloseOther(p, f)
             \/ ReadHead(p, f) \/ TryAcquire(p, f) \/ ReleaseTest(p, f)
      PROVE ScanFound'
  <2> USE DEF GoesOn, disk, files, FlagCleared, Idle, Calls, MayRun
  <2>0. \A q \in Procs : pc[q] \notin {"scan", "check"}
    <3>1. pc[p] = "user" /\ cpu \in {p, NoProc}
      BY <1>4 DEF OpenFile, CloseLast, CloseOther, ReadHead, TryAcquire, ReleaseTest
    <3> QED BY <3>1
  <2>1. \A q \in Procs : pc'[q] \notin {"scan", "check"}
    BY <1>4, <2>0 DEF OpenFile, CloseLast, CloseOther, ReadHead, TryAcquire, ReleaseTest
  <2> QED BY <2>1
<1> QED BY <1>1, <1>2, <1>3, <1>4 DEF Next

LEMMA FoundInvariant == ASSUME ~ Preemptible PROVE Spec => []ScanFound
<1>1. Init => ScanFound
  BY DEF Init, ScanFound
<1>2. ITyped /\ CpuInside /\ ScanFound /\ [Next]_vars => ScanFound'
  BY NextFound
<1> QED BY Typed, CpuCorrect, <1>1, <1>2, PTL DEF Spec

\* A process enters the wait from the check only, with its file.
LEMMA WaitStep ==
    ASSUME ITyped, [Next]_vars, NEW p \in Procs, pc'[p] = "wait"
    PROVE  /\ pc[p] \in {"check", "wait"} /\ filp'[p] = filp[p]
           /\ pc[p] = "check" => CheckWait(p)
<1> DEFINE Goal == /\ pc[p] \in {"check", "wait"} /\ filp'[p] = filp[p]
                   /\ pc[p] = "check" => CheckWait(p)
<1> USE DEF ITyped, TypeOK, PCs, disk, files
<1>1. CASE UNCHANGED vars
  BY <1>1 DEF vars
<1>2. ASSUME NEW q \in Procs, Continue(q) PROVE Goal
  BY <1>2 DEF Continue, Checking, Waiting, GoesOn, Blocks, WriteHead, ScanFiles,
     CheckDeadlock, CheckGrant, CheckWait, WaitOver, WaitSleep, WaitInterrupted,
     ReturnInterrupted, GrantTicket, GrantCount, ReleaseClear, ReleaseCount
<1>3. ASSUME NEW q \in Procs, Signal(q) PROVE Goal
  BY <1>3 DEF Signal
<1>4. ASSUME NEW q \in Procs, NEW f \in Files,
             \/ OpenFile(q, f) \/ CloseLast(q, f) \/ CloseOther(q, f)
             \/ ReadHead(q, f) \/ TryAcquire(q, f) \/ ReleaseTest(q, f)
      PROVE Goal
  BY <1>4 DEF OpenFile, CloseLast, CloseOther, ReadHead, TryAcquire, ReleaseTest, GoesOn, Calls
<1> QED BY <1>1, <1>2, <1>3, <1>4 DEF Next

LEMMA NextOwnLock ==
    ASSUME ~ Preemptible, ITyped, CpuInside, ScanFound, OwnerInv, OwnLockRefused, [Next]_vars
    PROVE  OwnLockRefused'
<1> SUFFICES ASSUME NEW p \in Procs, pc'[p] = "wait", NEW f \in Mine(p)'
             PROVE  f \notin Writable /\ filp'[p] \notin Writable
  BY DEF OwnLockRefused
<1> USE DEF ITyped, TypeOK, InCall, PCs
<1>1. pc[p] \in {"check", "wait"} /\ filp'[p] = filp[p] /\ (pc[p] = "check" => CheckWait(p))
  BY WaitStep
<1>2. f \in Mine(p)
  <2>1. f \in locked' /\ Users[f] = {p}
    BY DEF Mine
  <2>2. ASSUME f \notin locked PROVE FALSE
    <3>1. PICK q \in Procs : \/ GrantTicket(q) /\ f = filp[q] /\ q \in Users[f]
                             \/ TryAcquire(q, f) /\ q \in Users[f]
      BY <2>1, <2>2, LockingStep
    <3>2. q = p
      BY <2>1, <3>1
    <3> QED BY <1>1, <3>1, <3>2 DEF GrantTicket, TryAcquire, Calls
  <2> QED BY <2>1, <2>2 DEF Mine
<1>3. CASE pc[p] = "wait"
  BY <1>1, <1>2, <1>3 DEF OwnLockRefused
<1>4. CASE pc[p] = "check"
  <2>1. ~ LooksDeadlocked(p) /\ Settled
    BY <1>1, <1>4, SettledFor DEF CheckWait
  <2>2. f \in FilesOf(p) /\ f \in locked /\ Users[f] = {p}
    BY <1>2 DEF FilesOf, Mine
  <2>3. CASE filp[p] \in Writable
    <3>1. f \in Writable /\ write_owner # p
      BY <1>4, <2>1, <2>2, <2>3 DEF ScanFound, LooksDeadlocked
    <3>2. write_owner \in Users[f]
      BY <2>1, <2>2, <3>1 DEF OwnerInv, OwnerKnown, WriteHolders
    <3> QED BY <2>2, <3>1, <3>2
  <2>4. CASE filp[p] \notin Writable
    BY <1>1, <1>4, <2>1, <2>2, <2>4 DEF ScanFound, LooksDeadlocked
  <2> QED BY <2>3, <2>4
<1> QED BY <1>1, <1>3, <1>4

(* Without preemption, and if writable files are closed only by those that *)
(* hold the lock, no process ever waits in ACQUIRE for a lock that only it *)
(* can give back, signals, repeated requests and shared files included:    *)
(* what the scan of its files wrote to the fields all processes share is   *)
(* still there when it decides, and write_owner is not out of date.        *)
THEOREM OwnLockRefusedCorrect ==
    ASSUME ~ Preemptible, "stray" \notin Env PROVE Spec => []OwnLockRefused
<1>1. Init => OwnLockRefused
  BY DEF Init, OwnLockRefused
<1>2. ITyped /\ CpuInside /\ ScanFound /\ OwnerInv /\ OwnLockRefused /\ [Next]_vars
        => OwnLockRefused'
  BY NextOwnLock
<1> QED BY Typed, CpuCorrect, FoundInvariant, OwnerInvariant, <1>1, <1>2, PTL DEF Spec
=============================================================================
