------------------------------- MODULE Osprd -------------------------------
(***************************************************************************)
(* The read/write lock of one ramdisk of Lab2/osprd.c: the ticket order,   *)
(* the wait queue d->blockq, the lock counts, F_OSPRD_LOCKED and the three *)
(* ioctl commands, with signals and with files that are opened and closed. *)
(*                                                                         *)
(* A process runs osprd_ioctl one piece at a time; pc says where it is:    *)
(*   "user"   in user mode                                                 *)
(*   "take"   d->ticket_head has been read, not yet written back           *)
(*   "scan"   d->read_ids and d->write_ids are cleared, the process's      *)
(*            files are not yet scanned                                    *)
(*   "check"  about to decide between -EDEADLK, waiting and the grant      *)
(*   "wait"   in wait_event_interruptible (asleep iff it is in `asleep')   *)
(*   "intr"   wait_event_interruptible returned -ERESTARTSYS               *)
(*   "grant"  the lock is to be recorded, under d->mutex                   *)
(*   "count"  inside that critical section, the ticket is already given up *)
(* and in OSPRDIOCRELEASE                                                  *)
(*   "release" F_OSPRD_LOCKED was found set, d->mutex is not yet taken     *)
(*   "uncount" the flag is cleared, d->mutex is still not taken            *)
(*                                                                         *)
(* Preemptible = FALSE is a kernel in which the code runs without a switch *)
(* between two points where it blocks (spinlock.h's CONFIG_OSP_SPINLOCK,   *)
(* the build this lab runs in): `cpu' is the process between two such      *)
(* points.  Preemptible = TRUE is any other build: only d->mutex excludes. *)
(***************************************************************************)
EXTENDS Integers, FiniteSets

CONSTANTS
    Procs,        \* the processes that use the ramdisk
    Files,        \* the `struct file's they may hold open
    Users,        \* Users[f]: the processes with a descriptor of f, below
    Writable,     \* the files opened with FMODE_WRITE
    OtherDisk,    \* files on another ramdisk: seen by in_progress only
    Env,          \* what user programs do, see below
    Preemptible,  \* see above
    Word,         \* the unsigned counts wrap at Word
    MaxTicket,    \* bound: ACQUIRE is called while ticket_head < MaxTicket
    MaxReads,     \* bound: a read TRYACQUIRE needs read_locks < MaxReads
    NoProc        \* write_owner == -1; also "nobody" for mutex and cpu

(* A `struct file' belongs to the process that opens it, and after a fork  *)
(* to several: Users[f] are all that ever have a descriptor of f.  It is   *)
(* open from its first open to the close of the last descriptor, the only  *)
(* one the driver hears of; closes of single copies are left out, so a     *)
(* process that may use f may use it while it is open.                     *)
(*                                                                         *)
(* Env is what the environment may do besides well-behaved calls:          *)
(*   "signal"   deliver a signal to a process blocked in ACQUIRE           *)
(*   "stray"    close a writable file that does not hold the lock while    *)
(*              another file holds the write lock                          *)
(*   "relock"   request a lock on a file that already holds one            *)
EnvKinds == {"signal", "stray", "relock"}

ASSUME FilesAssumption ==
    /\ Users \in [Files -> SUBSET Procs \ {{}}]
    /\ Writable \subseteq Files
    /\ OtherDisk \subseteq Files
    /\ Files # {} /\ IsFiniteSet(Files)
ASSUME EnvAssumption == Env \subseteq EnvKinds /\ Preemptible \in BOOLEAN
ASSUME BoundAssumption ==
    /\ Word \in Nat /\ Word > 1
    /\ MaxTicket \in Nat
    /\ MaxReads \in Nat
ASSUME NoProcAssumption == NoProc \notin Procs

VARIABLES
    ticket_head, ticket_tail, read_ids, write_ids,
    write_locks, read_locks, write_owner,
    mutex,        \* the holder of d->mutex, or NoProc
    asleep,       \* the processes sleeping on d->blockq
    open,         \* the open files
    locked,       \* the files with F_OSPRD_LOCKED
    pc, filp,     \* where each process is, and the file of its ioctl
    ticket_cur,   \* its local variable ticket_cur
    sig,          \* the blocked processes with a pending signal
    cpu

disk == <<ticket_head, ticket_tail, read_ids, write_ids,
          write_locks, read_locks, write_owner>>
files == <<open, locked>>
vars == <<disk, mutex, asleep, files, pc, filp, ticket_cur, sig, cpu>>

(* unsigned ++ and -- on the write count, which close_last resets to 0     *)
Inc(n) == (n + 1) % Word
Dec(n) == (n - 1) % Word

WriteHolders == locked \cap Writable
ReadHolders  == locked \ Writable

AnyFile == CHOOSE f \in Files : TRUE

(* osprd_setup; no file is open when the module is loaded *)
Init ==
    /\ ticket_head = 0 /\ ticket_tail = 0
    /\ read_ids = FALSE /\ write_ids = FALSE
    /\ write_locks = 0 /\ read_locks = 0 /\ write_owner = NoProc
    /\ mutex = NoProc /\ asleep = {}
    /\ open = {} /\ locked = {}
    /\ pc = [p \in Procs |-> "user"]
    /\ filp = [p \in Procs |-> AnyFile]
    /\ ticket_cur = [p \in Procs |-> 0]
    /\ sig = {} /\ cpu = NoProc

(* Scheduling: p may run, goes on running, or is at a point where another  *)
(* process may be switched to.                                             *)
MayRun(p) == Preemptible \/ cpu \in {p, NoProc}
GoesOn(p, l) == /\ pc' = [pc EXCEPT ![p] = l]
                /\ cpu' = IF Preemptible THEN NoProc ELSE p
Blocks(p, l) == /\ pc' = [pc EXCEPT ![p] = l]
                /\ cpu' = NoProc

(* A system call p makes on its open file f of this ramdisk *)
Calls(p, f) == /\ pc[p] = "user" /\ MayRun(p)
               /\ p \in Users[f] /\ f \in open \ OtherDisk
MutexFree == mutex = NoProc

(* No process is in a system call on f, so that the close of the last      *)
(* descriptor is the end of the file                                       *)
Idle(f) == \A q \in Procs : pc[q] # "user" => filp[q] # f

(* filp->f_flags & ~F_OSPRD_LOCKED *)
FlagKept(f) == locked                             \* mutant of FlagCleared
FlagCleared(f) == locked \ {f}

(* wake_up_all(&d->blockq): what is left asleep *)
WakeOne == {p \in asleep : p # CHOOSE q \in asleep : TRUE}  \* mutant of WakeAll
WakeAll == {}
MayLock(f) == f \notin locked \/ "relock" \in Env

OpenFile(p, f) ==
    /\ pc[p] = "user" /\ MayRun(p) /\ p \in Users[f] /\ f \notin open
    /\ open' = open \cup {f}
    /\ UNCHANGED <<disk, mutex, asleep, locked, pc, filp, ticket_cur, sig, cpu>>

CountedReader(f) == f \notin Writable /\ read_locks > 0  \* mutant of ClosesRead
ClosesRead(f) == f \in ReadHolders /\ read_locks > 0

(* osprd_close_last: a writable file resets the write lock whether or not  *)
(* it holds it; a read-only file gives up its own lock only.               *)
CloseLast(p, f) ==
    /\ Calls(p, f) /\ MutexFree /\ Idle(f)
    /\ "stray" \in Env \/ f \notin Writable \/ f \in locked \/ WriteHolders = {}
    /\ \/ /\ f \in Writable
          /\ write_owner' = NoProc /\ write_locks' = 0 /\ asleep' = WakeAll
          /\ UNCHANGED read_locks
       \/ /\ ClosesRead(f)
          /\ read_locks' = read_locks - 1 /\ asleep' = WakeAll
          /\ UNCHANGED <<write_owner, write_locks>>
       \/ /\ f \notin Writable /\ ~ ClosesRead(f)
          /\ UNCHANGED <<write_owner, write_locks, read_locks, asleep>>
    /\ locked' = FlagCleared(f) /\ open' = open \ {f}
    /\ UNCHANGED <<ticket_head, ticket_tail, read_ids, write_ids,
                   mutex, pc, filp, ticket_cur, sig, cpu>>

(* Closing a file of another ramdisk does nothing to this one *)
CloseOther(p, f) ==
    /\ pc[p] = "user" /\ MayRun(p) /\ p \in Users[f] /\ f \in open \cap OtherDisk
    /\ open' = open \ {f}
    /\ UNCHANGED <<disk, mutex, asleep, locked, pc, filp, ticket_cur, sig, cpu>>

---------------------------------------------------------------------------
(* OSPRDIOCACQUIRE *)

(* unsigned ticket_cur = d->ticket_head++ -- the read ... *)
ReadHead(p, f) ==
    /\ Calls(p, f) /\ MayLock(f) /\ ticket_head < MaxTicket
    /\ filp' = [filp EXCEPT ![p] = f]
    /\ ticket_cur' = [ticket_cur EXCEPT ![p] = ticket_head]
    /\ GoesOn(p, "take")
    /\ UNCHANGED <<disk, mutex, asleep, files, sig>>

(* ... and the write; then d->read_ids = d->write_ids = 0 *)
WriteHead(p) ==
    /\ pc[p] = "take" /\ MayRun(p)
    /\ ticket_head' = ticket_cur[p] + 1
    /\ read_ids' = FALSE /\ write_ids' = FALSE
    /\ GoesOn(p, "scan")
    /\ UNCHANGED <<ticket_tail, write_locks, read_locks, write_owner,
                   mutex, asleep, files, filp, ticket_cur, sig>>

(* for_each_open_file(current, in_progress, d): every open file of the     *)
(* process that is on a ramdisk, whichever ramdisk                         *)
FilesOf(p) == {f \in open : p \in Users[f]}
ScanFiles(p) ==
    /\ pc[p] = "scan" /\ MayRun(p)
    /\ write_ids' = (write_ids \/ FilesOf(p) \cap Writable # {})
    /\ read_ids'  = (read_ids  \/ FilesOf(p) \ Writable # {})
    /\ GoesOn(p, "check")
    /\ UNCHANGED <<ticket_head, ticket_tail, write_locks, read_locks,
                   write_owner, mutex, asleep, files, filp, ticket_cur, sig>>

LooksAtOwner(p) ==                                \* mutant of LooksDeadlocked
    IF filp[p] \in Writable THEN write_owner = p ELSE write_ids
LooksDeadlocked(p) ==
    IF filp[p] \in Writable THEN read_ids \/ write_owner = p ELSE write_ids

(* condition(d, ticket_cur, filp_writable), after a mutant of it *)
ConditionNoTicket(p) == /\ write_locks = 0
                        /\ filp[p] \in Writable => read_locks = 0
Condition(p) == /\ write_locks = 0
                /\ filp[p] \in Writable => read_locks = 0
                /\ ticket_cur[p] = ticket_tail

CheckDeadlock(p) ==
    /\ pc[p] = "check" /\ MayRun(p) /\ LooksDeadlocked(p)
    /\ Blocks(p, "user")
    /\ UNCHANGED <<disk, mutex, asleep, files, filp, ticket_cur, sig>>
CheckGrant(p) ==
    /\ pc[p] = "check" /\ MayRun(p) /\ ~ LooksDeadlocked(p) /\ Condition(p)
    /\ GoesOn(p, "grant")
    /\ UNCHANGED <<disk, mutex, asleep, files, filp, ticket_cur, sig>>
CheckWait(p) ==
    /\ pc[p] = "check" /\ MayRun(p) /\ ~ LooksDeadlocked(p) /\ ~ Condition(p)
    /\ GoesOn(p, "wait")
    /\ UNCHANGED <<disk, mutex, asleep, files, filp, ticket_cur, sig>>

(* wait_event_interruptible evaluates the condition, without d->mutex, on  *)
(* entry and whenever it is woken.  When it is true the code calls         *)
(* schedule(), so another process may run before the grant.                *)
WaitOver(p) ==
    /\ pc[p] = "wait" /\ p \notin asleep /\ MayRun(p) /\ Condition(p)
    /\ Blocks(p, "grant")
    /\ sig' = sig \ {p}
    /\ UNCHANGED <<disk, mutex, asleep, files, filp, ticket_cur>>
WaitSleep(p) ==
    /\ pc[p] = "wait" /\ p \notin asleep /\ MayRun(p) /\ ~ Condition(p)
    /\ p \notin sig
    /\ asleep' = asleep \cup {p}
    /\ Blocks(p, "wait")
    /\ UNCHANGED <<disk, mutex, files, filp, ticket_cur, sig>>
WaitInterrupted(p) ==
    /\ pc[p] = "wait" /\ p \notin asleep /\ MayRun(p) /\ ~ Condition(p)
    /\ p \in sig
    /\ sig' = sig \ {p}
    /\ GoesOn(p, "intr")
    /\ UNCHANGED <<disk, mutex, asleep, files, filp, ticket_cur>>

(* check == -ERESTARTSYS: give the ticket up only if it is being served *)
TailAlwaysMoves(p) == ticket_tail + 1          \* mutant of TailAfterInterrupt
TailAfterInterrupt(p) ==
    IF ticket_cur[p] = ticket_tail THEN ticket_tail + 1 ELSE ticket_tail
ReturnInterrupted(p) ==
    /\ pc[p] = "intr" /\ MayRun(p)
    /\ ticket_tail' = TailAfterInterrupt(p)
    /\ Blocks(p, "user")
    /\ UNCHANGED <<ticket_head, read_ids, write_ids, write_locks, read_locks,
                   write_owner, mutex, asleep, files, filp, ticket_cur, sig>>

(* The grant, under d->mutex: the flag and the ticket ... *)
KeepServing == ticket_tail                        \* mutant of ServeNext
ServeNext == ticket_tail + 1
GrantTicket(p) ==
    /\ pc[p] = "grant" /\ MayRun(p) /\ MutexFree
    /\ mutex' = p
    /\ locked' = locked \cup {filp[p]}
    /\ ticket_tail' = ServeNext
    /\ GoesOn(p, "count")
    /\ UNCHANGED <<ticket_head, read_ids, write_ids, write_locks, read_locks,
                   write_owner, asleep, open, filp, ticket_cur, sig>>

(* ... then the owner and the count; nobody is woken *)
GrantCount(p) ==
    /\ pc[p] = "count" /\ MayRun(p)
    /\ IF filp[p] \in Writable
       THEN /\ write_owner' = p /\ write_locks' = Inc(write_locks)
            /\ UNCHANGED read_locks
       ELSE /\ read_locks' = read_locks + 1
            /\ UNCHANGED <<write_owner, write_locks>>
    /\ mutex' = NoProc
    /\ Blocks(p, "user")
    /\ UNCHANGED <<ticket_head, ticket_tail, read_ids, write_ids, asleep,
                   files, filp, ticket_cur, sig>>

---------------------------------------------------------------------------
(* OSPRDIOCTRYACQUIRE: all under d->mutex, no ticket is taken.  A refusal  *)
(* (-EBUSY) changes nothing.                                               *)
NotBusyNoReaders(f) ==                            \* mutant of NotBusy
    write_locks = 0 /\ ticket_head = ticket_tail
NotBusy(f) == /\ write_locks = 0 /\ ticket_head = ticket_tail
              /\ f \in Writable => read_locks = 0
TryAcquire(p, f) ==
    /\ Calls(p, f) /\ MayLock(f) /\ MutexFree /\ NotBusy(f)
    /\ IF f \in Writable
       THEN /\ write_owner' = p /\ write_locks' = Inc(write_locks)
            /\ UNCHANGED read_locks
       ELSE /\ read_locks < MaxReads
            /\ read_locks' = read_locks + 1
            /\ UNCHANGED <<write_owner, write_locks>>
    /\ locked' = locked \cup {f}
    /\ UNCHANGED <<ticket_head, ticket_tail, read_ids, write_ids, mutex,
                   asleep, open, pc, filp, ticket_cur, sig, cpu>>

---------------------------------------------------------------------------
(* OSPRDIOCRELEASE on a file that holds a lock (else -EINVAL, no change):  *)
(* F_OSPRD_LOCKED is tested ...                                            *)
ReleaseTest(p, f) ==
    /\ Calls(p, f) /\ f \in locked
    /\ filp' = [filp EXCEPT ![p] = f]
    /\ GoesOn(p, "release")
    /\ UNCHANGED <<disk, mutex, asleep, files, ticket_cur, sig>>

(* ... and cleared, both without d->mutex; ...                             *)
ReleaseClear(p) ==
    /\ pc[p] = "release" /\ MayRun(p)
    /\ locked' = FlagCleared(filp[p])
    /\ GoesOn(p, "uncount")
    /\ UNCHANGED <<disk, mutex, asleep, open, filp, ticket_cur, sig>>

(* ... then, under d->mutex, the owner and the count, and all are woken    *)
ReleaseCount(p) ==
    /\ pc[p] = "uncount" /\ MayRun(p) /\ MutexFree
    /\ IF filp[p] \in Writable
       THEN /\ write_owner' = NoProc /\ write_locks' = Dec(write_locks)
            /\ UNCHANGED read_locks
       ELSE /\ read_locks' = read_locks - 1
            /\ UNCHANGED <<write_owner, write_locks>>
    /\ asleep' = WakeAll
    /\ Blocks(p, "user")
    /\ UNCHANGED <<ticket_head, ticket_tail, read_ids, write_ids, mutex,
                   files, filp, ticket_cur, sig>>

(* A signal for a process blocked in ACQUIRE wakes it *)
Signal(p) ==
    /\ "signal" \in Env /\ pc[p] = "wait" /\ p \notin sig /\ cpu # p
    /\ sig' = sig \cup {p} /\ asleep' = asleep \ {p}
    /\ UNCHANGED <<disk, mutex, files, pc, filp, ticket_cur, cpu>>

---------------------------------------------------------------------------
(* The steps of p inside osprd_ioctl, once it has called ACQUIRE, and of   *)
(* RELEASE, once it has found the flag set                                 *)
Waiting(p)    == WaitOver(p) \/ WaitSleep(p) \/ WaitInterrupted(p)
Checking(p)   == CheckDeadlock(p) \/ CheckGrant(p) \/ CheckWait(p)
Continue(p)   == \/ WriteHead(p) \/ ScanFiles(p) \/ Checking(p) \/ Waiting(p)
                 \/ ReturnInterrupted(p) \/ GrantTicket(p) \/ GrantCount(p)
                 \/ ReleaseClear(p) \/ ReleaseCount(p)
GiveBack(p)   == \E f \in locked : ReleaseTest(p, f) \/ CloseLast(p, f)

Next == \E p \in Procs :
    \/ Continue(p)
    \/ Signal(p)
    \/ \E f \in Files : \/ OpenFile(p, f) \/ CloseLast(p, f) \/ CloseOther(p, f)
                        \/ ReadHead(p, f) \/ TryAcquire(p, f) \/ ReleaseTest(p, f)

Spec == Init /\ [][Next]_vars

(* The scheduler runs every runnable process again and again (each time    *)
(* another one blocks or returns it may be chosen, hence strong fairness), *)
(* and a program that holds a lock releases it or closes the file.         *)
Fairness == \A p \in Procs : SF_vars(Continue(p)) /\ SF_vars(GiveBack(p))
FairSpec == Spec /\ Fairness

---------------------------------------------------------------------------
(* Properties *)

PCs == {"user", "take", "scan", "check", "wait", "intr", "grant", "count",
        "release", "uncount"}

\* What every field of the driver holds (osprd_info_t).
TypeOK ==
    /\ ticket_head \in Nat /\ ticket_tail \in Nat
    /\ read_ids \in BOOLEAN /\ write_ids \in BOOLEAN
    /\ write_locks \in 0 .. Word - 1 /\ read_locks \in Int
    /\ write_owner \in Procs \cup {NoProc}
    /\ mutex \in Procs \cup {NoProc}
    /\ cpu \in Procs \cup {NoProc}
    /\ open \subseteq Files /\ locked \subseteq open \ OtherDisk
    /\ pc \in [Procs -> PCs]
    /\ filp \in [Procs -> Files]
    /\ ticket_cur \in [Procs -> Nat]
    /\ asleep \subseteq {p \in Procs : pc[p] = "wait"}
    /\ sig \subseteq {p \in Procs : pc[p] = "wait"}

(* The processes between taking a ticket and giving it up *)
Queued(p) == pc[p] \in {"scan", "check", "wait", "intr", "grant"}

(* No two processes in ACQUIRE hold the same ticket, and ticket_tail never *)
(* passes the ticket of a process still in ACQUIRE: ticket_cur == tail is  *)
(* the only way out of the wait, so a process passed over waits forever.   *)
TicketOrder ==
    \A p \in Procs : Queued(p) =>
        /\ ticket_tail <= ticket_cur[p] /\ ticket_cur[p] < ticket_head
        /\ \A q \in Procs \ {p} : Queued(q) => ticket_cur[q] # ticket_cur[p]

(* A write lock is exclusive: while a writable file has F_OSPRD_LOCKED set *)
(* no other file has (Lab2/README.md:103).                                 *)
WriteExclusion == \A w \in WriteHolders : locked = {w}

(* No process is between the flag of a file and the counts *)
Settled == \A p \in Procs : pc[p] \notin {"count", "uncount"}

(* Outside grants and releases the counts and write_owner say exactly      *)
(* which files have F_OSPRD_LOCKED set: what a condition() that reads only *)
(* the counts relies on.                                                   *)
CountsAgree == Settled =>
    /\ write_locks = Cardinality(WriteHolders)
    /\ read_locks = Cardinality(ReadHolders)
    /\ IF WriteHolders = {} THEN write_owner = NoProc
                            ELSE \A w \in WriteHolders : write_owner \in Users[w]

(* The read-only files that hold a lock and are past their grant *)
CountedReaders == {f \in ReadHolders :
                      ~ \E p \in Procs : pc[p] = "count" /\ filp[p] = f}

(* Every read lock is counted: a writer, that looks at read_locks only, is *)
(* not let in early.  RELEASE tests and clears the flag before it takes    *)
(* d->mutex (osprd.c:382-386), so this needs a build that does not preempt *)
(* the code, or files that are not shared: otherwise two processes with    *)
(* descriptors of one file may both find the flag set and both decrement.  *)
ReadersCounted == read_locks >= Cardinality(CountedReaders)

(* d->mutex is held exactly by the process in its critical section, and    *)
(* never by one that sleeps on d->blockq.                                  *)
MutexHeldInside ==
    \A p \in Procs : (mutex = p) <=> (pc[p] = "count")

(* While a ticket is outstanding the one being served belongs to a process *)
(* still in ACQUIRE; otherwise ticket_tail can never move again.           *)
ServedTicketHasOwner ==
    (ticket_tail < ticket_head /\ \A p \in Procs : pc[p] # "take") =>
        \E p \in Procs : Queued(p) /\ ticket_cur[p] = ticket_tail

(* Locks are granted in ticket order (osprd.c:267): when a file is locked  *)
(* nobody else in ACQUIRE holds an earlier ticket, and TRYACQUIRE does not *)
(* overtake anybody.                                                       *)
ServedInOrder == [][
    \A f \in locked' \ locked : \E p \in Users[f] : \A q \in Procs \ {p} :
        Queued(q) => /\ pc[p] = "grant" /\ filp[p] = f
                     /\ ticket_cur[p] < ticket_cur[q] ]_vars

(* A write lock is never granted while a read lock is held, even if stray  *)
(* closes have made write_locks wrong.                                     *)
WriterNeverJoinsReaders == [][
    \A f \in (locked' \ locked) \cap Writable : ReadHolders = {} ]_vars

(* The locked files that only p can unlock *)
Mine(p) == {f \in locked : Users[f] = {p}}

(* Nobody goes to sleep for a lock that only it can give back: a process   *)
(* that waits to write has no read lock of its own, and one that waits for *)
(* anything has no write lock (osprd.c:278, "If the lock request would     *)
(* cause a deadlock, return -EDEADLK").  The other direction, that the     *)
(* error is only said when a deadlock threatens, does not hold of the      *)
(* code, nor are cycles of several processes noticed.                      *)
OwnLockRefused ==
    \A p \in Procs : pc[p] = "wait" =>
        \A f \in Mine(p) : f \notin Writable /\ filp[p] \notin Writable

(* Every ACQUIRE returns if holders give their locks back *)
EveryAcquireReturns == \A p \in Procs : pc[p] # "user" ~> pc[p] = "user"
=============================================================================
