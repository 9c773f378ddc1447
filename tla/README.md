# Formal models of the CS 111 labs

The repository holds six small systems programs: a shell (Lab1), a Linux ramdisk
driver with a read/write lock (Lab2), an in-memory file system (Lab3), a
peer-to-peer file server (Lab4), and two toy operating systems (WeensyOS1, a
cooperative kernel; WeensyOS2, a kernel with five schedulers). They share no code
and never talk to each other, so each has models of its own. This directory models
the parts whose correctness depends on order, sharing or failure.

## Inventory

| Component | State | Operations | What is hard | What makes it correct |
|---|---|---|---|---|
| Lab2 `osprd.c`, the lock | tickets, lock counts, `write_owner`, `read_ids`/`write_ids`, wait queue, per-file flag | ACQUIRE, TRYACQUIRE, RELEASE, open, close, signals | unlocked reads, blocking in the middle, lost tickets, missed wakeups | exclusion, first come first served, no lost wakeup, counts that match the flags |
| WeensyOS1 `mpos-kern.c` | process table, `current` | getpid, fork, newthread, yield, exit, wait, kill, schedule | stale `p_waiting`, two waiters, reuse of slots, everyone blocked | a waiter is woken by the process it waits for and by no other, a zombie is reaped once |
| WeensyOS1 `mpos-app.c`, `mpos-app2.c` | counters, loop variables | fork or thread one child; many batches of children | a process table that fills up again and again | every child is reaped, the program ends |
| WeensyOS2 `schedos-kern.c`, `schedos-1.c` | process table, priorities, shares, counters, cursor, lock word | yield, exit, five schedulers, two setters, clock; three ways of printing | starvation, a scan that never ends, preemption inside the critical section | scheduling promises, no lost character, everybody finishes |
| Lab3 `ospfsmod.c` | bitmap, inodes, directory, indirect blocks | create, link, symlink, unlink, truncate, read, write, readdir | failure half-way through growth, leaks, dangling blocks, link counts, a directory that changes while it is listed | each block has one owner, a failure leaves no trace, a file holds what was written, a listing misses nothing that stays |
| Lab1 `read-command.c` | token stream, command heap, root/current/subshell pointers | tokenise, check the grammar, build one tree per call | what an operator takes from the trees built so far; newlines and comments | it builds the grammar's trees and refuses what is wrong, but for the exceptions below |
| Lab1 `execute-command.c`, `main.c` | status of each node, descriptors, children, the dependency graph, counts and running set of `-t` | run a tree (`&&`, `\|\|`, `;`, pipes, subshells, redirections), time travel | children that end in any order, open pipe ends, dependencies lost or counted twice, mutual waiting | files and success are those of `sh`, but for the exceptions below; in parallel too |
| Lab4 `osppeer.c` | task buffer, peer list, digest, child count, one tracker connection | register, download with retry, upload, fork and wait | a bounded buffer, partial transfers, children that share a connection, a limit on children | a file that is kept is whole unless an earlier peer broke off, everybody ends who is not kept waiting, children are counted |

Interaction is inside each program: ioctl callers meet in the driver's wait queue
and under `d->mutex`; applications enter the two kernels by traps, and the clock
enters the second one by itself; Linux calls the file system's operations; the
shell's processes meet in pipes, files and `wait()`; the peer's children inherit the
tracker connection and share a directory.

## Modules

```
RWLock     <--implements-- Osprd   (OsprdRefinement; MCOsprd)   OsprdProofs
Mpos       <--extended by- MposApp (MCMpos, MCMposApp)          MposProofs
Schedos                            (MCSchedos)                  SchedosProofs
FileSystem <--implements-- Ospfs   (MCOspfs)                    OspfsBlockProofs <- OspfsProofs
ReadCommand <- ExecuteCommand <- CommandMeaning <- TimeTravel <- Shell   (MCShell)           ShellProofs
TaskBuffer  <- Transfer <- Peer    (MCPeer)                     PeerProofs <- PeerTransferProofs
```

(`<-` stands for EXTENDS.)

| Module | Models |
|---|---|
| `Osprd` | `osprd_ioctl`, `osprd_open`, `osprd_close_last` and `for_each_open_file` as it uses it, one piece of code between two points where another process may run at a time |
| `RWLock` | what the lock promises: readers or one writer, granted in arrival order; no tickets, counts or queues |
| `OsprdRefinement` | the mapping from the first to the second |
| `Mpos` | the WeensyOS1 kernel; one action per system call, `schedule()` included |
| `MposApp` | the two programs of WeensyOS1 in their four builds, over `Mpos` |
| `Schedos` | the WeensyOS2 kernel, its clock and its applications |
| `Ospfs` | the file system's data structures and operations |
| `FileSystem` | what it promises: names, files, words; no blocks or pointers |
| `ReadCommand` | the shell's reader: characters to tokens, the grammar check, tokens to trees |
| `ExecuteCommand` | the processes that run a tree: forks, pipes, redirections, waits, statuses |
| `CommandMeaning` | what a tree means to `sh`: a function from files and input to a result; no processes |
| `TimeTravel` | `-t`: the dependency graph and `execute_tcmd` |
| `Shell` | `main`, which composes the four, and their properties |
| `TaskBuffer` | the bounded buffer of a task |
| `Transfer` | a child of the peer: `task_download` and `task_upload` |
| `Peer` | `main`, the tracker's answers, and the properties of the whole |
| `MC*` | constants for TLC; `MCShell` builds scripts, `MCPeer` the scenes |
| `*Proofs` | theorems with their proofs |

### Lab2: `Osprd`

`pc` says where in `osprd_ioctl` a process is; the comment at the head of the
module lists the places. ACQUIRE is the interesting path: read `ticket_head`
(`ReadHead`) and write it back (`WriteHead`), scan the caller's files
(`ScanFiles`), decide between `-EDEADLK`, waiting and the grant
(`CheckDeadlock`, `CheckWait`, `CheckGrant`), sleep (`WaitSleep`, `WaitOver`,
`WaitInterrupted`), and take the lock (`GrantTicket`, `GrantCount`). Between
those steps another process may run only where the build allows it:
`Preemptible = FALSE` is the lab's own build, `spinlock.h` with
`CONFIG_OSP_SPINLOCK`, on one processor, where a process runs until it blocks or
returns; `Preemptible = TRUE` is any other, where only `d->mutex` excludes. RELEASE is three
steps, because the code tests `F_OSPRD_LOCKED` (382, `ReleaseTest`) and clears it (385, `ReleaseClear`)
before it takes the mutex and counts (386, `ReleaseCount`).
`wait_event_interruptible` evaluates the condition, and a process that finds it
false goes to `asleep`; `wake_up_all` empties that set, and a woken process
evaluates the condition again.

`Users[f]` are the processes with a descriptor of `f`: one, or several that share a `struct file`
after a fork. The driver hears of the close of the last descriptor only, which is what `CloseLast` is.

`Env` says what user programs do besides well-behaved calls: deliver signals,
close a writable file that does not hold the lock, and request a lock twice on one
file. The last two are how the driver's state comes apart.

### WeensyOS1: `Mpos`, `MposApp`

The kernel is not interrupted, so a system call is one step. `eax` carries the
argument and the result; a blocked caller's `eax` is the pid it waits for.
`usage` says, once for each behaviour, whether programs call `sys_kill` and
whether two of them wait for the same third. `MposApp` replaces arbitrary programs
by the repository's own: `local` is each process's stack, and a step is the
code from one system call to the next. It has only one behaviour for each of the
four builds, and runs with the sizes of the program: 16 slots, 1025 children.

### WeensyOS2: `Schedos`

`build` is chosen once: the way of printing (`SYN`), whether the clock
interrupts, and the scheduling algorithm. The loads and stores of the unsynchronised
`*cursorpos++ = ...` are separate steps, and the clock may come between any two.
The lottery's draw is a free choice among runnable processes.

### Lab3: `Ospfs`

`fs` is the disk: free blocks, contents of blocks, inodes. A word stands for a
pointer, a directory entry or a value, and `BLKSIZE` words are a block, so the
module's index arithmetic is that of the code, including `% UINT` where `oi_size`
wraps. Every operation is one step, as none sleeps in the middle, but for a
write, which may sleep in `copy_from_user` after it has looked up the block it
will copy into (`write`, then `CopyChunk` or `CopyFault`). `readdir` is one call
of `ospfs_dir_readdir` after another until it says that it has listed everything;
`listing` holds `f_pos` and what has been handed out, and names come and go between
two calls. There is one directory: the module has no `mkdir`, and every operation
works within one.

A habit `[blocks, most, does]` is the size of the disk, the largest file in
blocks, and what the programs do: `fill` (ask for blocks that may be lacking),
`shrink` (truncate or remove a file that has blocks), `list` (call readdir). `Careful(h)` says
which habits the file system can bear; `ospfs_shrink` runs one that it cannot.

### Lab1: `ReadCommand`, `ExecuteCommand`, `CommandMeaning`, `TimeTravel`, `Shell`

A script is a sequence of characters in which the letters of a word are one member
of `Words`. `ReadCommand` takes it through the phases of the code: `tokens`
(`make_command_stream`, one character a step, with the merging of operators and
newlines), `grammar` (the walk that rejects scripts), `ready` and `build`
(`read_command_stream`: one token a step, with the root, the command being built and
the pointers used inside a subshell). A dereference of a null pointer is the phase `crash`.

Each node of a tree is run at most once, so nodes stand for the processes that run them.
`pc[n]` says how far node `n` is; a process that has called `exit` and one that has been
waited for are told apart. `fd` holds descriptors 0 and 1 as the node that opened them.
What flows through files and pipes is the set of programs whose output it is, which
tells apart results that lost, mixed or misdirected something; programs are external.
`TimeTravel` has the graph, the counts `W`, and the loop of `execute_tcmd`; `main`
returns without waiting for the commands of the last round, which live on.

`CommandMeaning` is the abstract specification, translated from what `sh` does and not from the code:
`Meaning[n, F, v]` is the result of a tree on files `F` and input `v`, by recursion on the tree. A result says whether
the command succeeds (a pipe as its right side, a subshell as what is inside it; a missing input or program is a
failure), the files, the output and the unread input. Two more fields say where `execute_command` is known to part from
`sh`: `told`, the status the code keeps is 0 exactly for success, and `departs`, the code may leave other files.

### Lab4: `TaskBuffer`, `Transfer`, `Peer`

`TaskBuffer` has the head and the tail that only grow and the arithmetic that says how
much one `read` may bring and one `write` may take. `job[c]` is the task of child `c`
after `fork`, its `pc` the place in `task_download` or `task_upload`; `dir` maps names to
files, which outlive their names. A digest is the sequence of bytes it was given. The
tracker is two queues: `toTracker`, requests in the order they were written by any
process, and `fromTracker`, answers that nobody has read; a read takes all that are
there, whoever asked, as on the one inherited descriptor. `main` registers, asks for
each file, forks, and serves connections. Peers, the tracker and the directory are
external: a scene says what they do.

## Runs

| Run | Question | Bounds |
|---|---|---|
| `osprd_calm` | Do well-behaved programs always get the lock, in order, and do counts and flags agree? | 4 processes, one file each, 2 of them writable, 3 tickets |
| `osprd_clean` | Do exclusion, the count of readers, the refusal of one's own lock and `RWLock`'s promise survive signals and repeated requests? | 3 processes, 5 files, one shared by two of them and one on another ramdisk, 3 tickets |
| `osprd_stray` | Is a write lock exclusive if a file that does not hold it is closed? No. | 2 processes, 2 writable files |
| `mpos_kernel` | What do arbitrary programs of each kind of usage leave intact? | 3 processes |
| `mpos_app` | Do the repository's programs run to the end? | none: the program's own sizes |
| `mpos_two_waiters` | Does everyone who waits hear of the exit? No. | 3 processes |
| `schedos_all` | Does each algorithm keep its promise with each way of printing? | 3 applications, 2 characters each |
| `ospfs_careful` | Are blocks, links, contents and listings right, on a full disk too? | three habits, see below |
| `ospfs_shrink` | Does a file keep its blocks when it loses another one? No. | 5 data blocks |
| `shell` | Are scripts read as the grammar says, and do they do what they mean, one after the other and in parallel? | 14 nodes; the scripts below |
| `shell_sh` | Does a script always leave the files that `sh` leaves? No. | one script |
| `peer` | Are the files that are kept the right ones, uploads complete, children counted, and does everybody end? | 15 scenes, 3 children at a limit of 2, a buffer of 2 cells |

Why these bounds are enough. *Osprd*: two readers and two writers let a writer wait
behind readers, readers behind a writer and each behind an interrupted request; a read-only
file shared by two processes lets one release what the other has locked; three
tickets let one be lost in the middle of the queue; `Word = 4` is small enough for the
unsigned count to wrap. *Mpos*: three processes are a waiter, its target and the one
that takes a slot over or waits too. *Schedos*: two processes of equal and one of
another priority, shares 1, 2 and 3, and two characters so that a share runs out between
them. *Ospfs*: blocks of two words and one direct pointer put a directory and a file across
the border to the indirect block; 4 data blocks run out between an indirect block and the
block under it, and with 5 a file fills its indirect block. Three inodes besides number 0
and two names make a file outlive a name, and a number be used again. No operation tells one
name from another, so the runs take names as interchangeable (symmetry). *Shell*: `MCShell`
puts together, from the grammar of Lab1's README, the text of a script and the shape of its
trees, so that the two are independent of the reader: lists of and-or chains of pipes, subshells
and redirections, blank lines and comments (printed), the lines of `test-p-ok.sh`, those of `test-p-bad.sh` (refused, and so not run
either: `SidesAreThere`), pairs of commands joined by every operator and followed by a third (run serially), and every three commands out
of five that write, read and pass on the same files (in parallel). *Peer*: a scene for each
path through `task_download` (good, broken, wrong, slow, empty, silent and unreachable peers,
one that is ourselves), for each that `main` takes when fork or the tracker fails, for uploads,
for a connection that never asks or stops reading half-way, for a file fetched twice, and for the limit; three children are one more than the limit. Files of
four bytes pass twice through a buffer of two, and the same sizes make a file too large.

Deadlock is checked in the runs of the labs. The kernels really stop: when
every process has exited or waits, `schedule()` loops for ever (`spinning`). `Shell` and
`Peer` say in `Gone` and `Resting` where they may come to rest.

### What the runs show

*Lab2.* In the lab's build, programs that close a writable file only when it holds the
write lock or nobody's does get a fair lock: it is exclusive, granted in ticket order, TRYACQUIRE overtakes nobody,
nobody goes to sleep for a lock that only it can give back (`OwnLockRefused`), every read lock is counted, and every
ACQUIRE returns. With signals all but the last still hold (see below). No run is of a preemptible build; what holds
there is in the theorems: types, the mutex, and the count of readers for files that are not shared.

*WeensyOS1.* Without `sys_kill`, `p_waiting` always names a process that is blocked
on exactly that slot although no slot resets it when it is taken, a blocked
`sys_wait` returns the right status, and a zombie is reaped once. Both of the repository's
programs end in every build, with every child reaped.

*WeensyOS2.* Every algorithm moves the processor by its rule (`SchedulesByRule`: what it picks is
runnable, first in turn, of the best priority or within its share; number 2 has an exception, below),
round robin and shares starve nobody, characters are kept under
the lock and by the system call, and everybody finishes except where `MayStarve` says.

*Lab3.* As long as a file does not shrink below several blocks of its indirect block, every
data block is free or has one owner, link counts agree with names and decide when blocks go
(`BlocksAccounted`), a full disk leaves no trace, a sleeping write copies into the block of its file and
a read of whole blocks brings what is there (`RightBlocks`), a listing names once each entry that was there
all the time (`ListsWhatStays`), and the whole behaves as `FileSystem` says.

*Lab1.* Of the scripts tried, which leave out the exceptions below, the reader builds the trees of the grammar's and refuses
the wrong ones with a message, but for `a <(b)`, where it follows a null pointer (`NoFileName`). A script run serially
leaves the files that `sh` leaves and its last command has status 0 when `sh` says success (`MeansWhatItSays`), in every order its
processes can run in, unless its result hangs on one of the three things that `CommandMeaning` names: a missing input, the
failure of a subshell or of a pipe, a left side that may be killed. That is so for 19 of the 173 scripts that are
run serially, 18 of them because of a failed subshell or pipe before `&&` or `||`. No process is left unwaited for
when `execute_command` returns. With `-t`, no running
command touches the first file that another running one writes, and a script whose commands write one
file each and only name files that earlier commands write leaves what `sh` leaves. Everything
ends unless commands wait for each other.

*Lab4.* A file that is kept is the one asked for unless an earlier peer broke off half-way, and it keeps
its name unless a file that was too large was unlinked twice; files there before are never touched. A
good first peer suffices as long as no other child has used the tracker connection. An upload that ends
without an error has sent everything and nothing else. `pid_counter` is right but for failed forks.
Everybody ends, except those the model can name a reason for (`Stuck`, `MainRests`): an answer read by another, a peer that
is silent or reads no more, children that fill the limit.

### Findings

- `osprd_stray` (`osprd.c:199`): closing any writable file clears the write lock, whoever holds it.
- `mpos_two_waiters` (`mpos-kern.c:207`): the second `sys_wait` replaces the first waiter, which is never woken.
- `ospfs_shrink` (`ospfsmod.c:892`): a file that loses one block under its indirect block loses the indirect block.
- `shell_sh` (`execute-command.c:154`): the failure of a subshell becomes a success, so that `(no) && echo >f` writes `f`;
  `src/Lab1/README.md:30` says that timetrash behaves like `sh`.

### Other behaviour the models made visible

Read from the code while modelling it; where a run excludes it, its environment or a
property's antecedent says so.

- *Lab2.* A preemptible build can give two processes one ticket, for `ticket_head++` is outside
  the mutex. There, two processes that share a file may also both find its flag set (382) before either clears it,
  and give back one lock twice: `read_locks` is then less than the locks held. A request interrupted before its turn and one
  refused with `-EDEADLK` keep their tickets, and everybody behind them waits for ever. Nobody is woken when `ticket_tail`
  moves. A file that locks twice counts twice and releases once.
  `-EDEADLK` is not what the comment at 278 asks for, "If the lock request would cause a deadlock": it is said to every process
  that has a file open for the other mode with a lock on it, on this ramdisk or on another, though no deadlock threatens (297),
  and it is not said to a reader that asks again behind a waiting writer, who waits for that reader, nor to a cycle of several
  processes. TRYACQUIRE does not look for it at all (341).
- *WeensyOS1.* A process killed while it waits comes back to life when its target exits;
  the waiter of a killed process gets the pid for a status; `sys_newthread` with a full table
  returns the function's address; `mpos-app2.c:8` says 1024 processes and the program
  starts 1025; processes that wait for each other stop the machine.
- *WeensyOS2.* Algorithm 2 never runs a process of priority 100 or more unless it is the current
  one, and runs the last zombie again; with the lock, the clock and priorities the lock's holder
  may be preempted for ever. A share set below the counter starves its owner. `getRandNum()`
  is signed and a negative draw indexes before `proc_array` (301). `mutex` is never initialised.
- *Lab3.* The first block under the doubly indirect block is written through an index beyond the
  end of the block, into the superblock (line 710). On a full disk, growing under an indirect
  block that exists stores block 0 and succeeds (825). A failure under the doubly indirect
  block leaves `oi_indirect2` behind. `ospfs_read` ignores the offset in the block, and a read
  from beyond the end makes the count wrap (1085). Removing one name of a link clears the
  text of the others (553). A file's blocks go with its last name even while it is open
  (562). `-ENOMEM` from create or symlink comes after the entry is made (1395). Following a
  conditional link cuts its text, and the second time there is no colon left to find (1496).
  Bytes beyond the end of file reappear when the file
  grows again within its last block: `FileSystem` allows it (`InOldBlock`).
- *Lab1, reading.* A `#` right behind a word begins a comment, against Lab1's README (61), a newline before `<` or `>` is taken for a blank
  (62), and `a (b)` is accepted.
  Where `;`, an and-or operator and a pipe follow each other (`a ; b && c | d`) the tree groups wrongly;
  so does a subshell that begins with a subshell and goes on (`( (a) ; b)`), and `(a)<b >c` gives the output to `a`.
  `a && (b)` with a newline before the bracket leaves the right side empty, so does a `;` at the end (60), and so does `a <(b)`, which the
  grammar check lets through: main then reads through a null pointer (`crash`, line 827), where an error message is required (63).
  A newline inside a subshell ends the command. None of these is among the scripts but `a <(b)`, whose crash `ReadsWhatIsWritten`
  names as its exception.
- *Lab1, running.* A child passes on a status as `exit(status)`, which keeps the low 8 bits of an
  encoded status: the failure of a subshell or of a side of a pipe becomes 0 (the finding above), and so does that of the
  whole script, for main returns the encoded status (81, 107). The status of a pipe is that of the side reaped second. A command
  whose input is not there is run all the same, on the shell's own input and with its output truncated (145, 181). A program that is not found
  gives 255 where `sh` says 127. With `-t` only the first output of a
  command is looked for (`check_constrain` does not set `j` back to 0), redirections of subshells are not
  recorded, a later writer holds up an earlier reader, two commands that write what the other names never
  start and main spins, and the last round is not waited for. Fields `running` and `next` are read
  before they are set.
- *Lab4.* Answers on the shared connection go to whoever reads first: main may take an MD5 for a list of
  peers and die, and the process whose answer was taken waits for ever. The digest is not started again
  after a failed attempt, so the next peer's good copy is refused, or a mere rest is accepted as the whole.
  A digest that begins with three digits (the first not 2) is read as an error; after an error the
  checksum is whatever was in memory. A file that is too large is unlinked at 711 and again at 762. `waitpid`
  with no child (980) still lowers `pid_counter`. A connection accepted at the limit is dropped
  unclosed. Silent peers block a child for ever. An upload of a file that is still being fetched stops where the
  file ends then. Head and tail wrap as `unsigned`, without harm because 4096 divides 2^32.

## Fairness

- `Osprd!FairSpec`: strong fairness for each process's steps inside ACQUIRE and for giving a
  lock back. Linux runs every runnable process again and again, but a step may be disabled each
  time another process holds the processor, hence strong. That a program gives its lock back
  is an assumption on users; without it nobody can promise anything to the next one.
- `Mpos!FairSpec`: a program yields sooner or later. The kernel is cooperative; only
  programs can give the processor up. `MposApp!AppFairSpec`: the processor goes on.
- `Schedos!FairSpec`: the clock ticks if it is on, and a quantum is long enough for the
  current process to get on (strong, since a process may lose the processor before each
  step). Nothing is assumed about the lottery's draws, so `MayStarve` includes it.
- `Shell!Spec`: the operating system goes on running some process that can run (`WF_vars(Next)`).
- `Peer!Spec`: main and each child get their turn, and the tracker answers what it reads. Nothing is
  assumed of other peers: one that falls silent stays silent, and one that stops reading (`takes`) keeps the upload in `write()`
  for ever, which `Stuck` names.

## Proofs

`OsprdProofs`, for any number of processes and files, any word size and any limits:

- types (`TypeCorrect`) and mutex discipline (`MutexCorrect`) in every build and environment,
  and, in a build that does not preempt the code or for files that are not shared, that read locks are counted
  (`ReadersCorrect`), by an induction that relates `read_locks` to the cardinality of the read-only files past their grant.
  The assumption is needed: without it TLC finds the double release described above;
- in the build that is not preemptible, ticket order (`TicketsCorrect`), service in order
  (`ServedInOrderCorrect`), and that a writer never joins readers, all three whatever programs do, stray closes included;
- besides, with programs that close no stray file, `WriteExclusionCorrect` and
  `ImplementsRWLockCorrect`: the driver implements `RWLock`, and nobody waits for a lock that only it can give back
  (`OwnLockRefusedCorrect`).

`TicketOrder` is not inductive: the read and the write of `ticket_head` are two steps. The
strengthening `CpuInside` says that whoever is between two blocking points has the processor,
`TicketInv` that nobody else changes the head meanwhile, `GrantPending` that the condition a
process found true is still true at its grant, and `ExclusionInv` that the counts are zero
when no file holds a lock in that mode. `AllInv` is their conjunction; each step of the
driver under it is a step of `RWLock` or a stutter, one case for each action.

The last part of the module builds on `AllInv`, still without preemption. `CountsAgreeCorrect` (no stray close, no repeated
request, no shared file; signals and `-EDEADLK` allowed): `FreshRequests` says that a file under request holds
nothing, `ReadersExact` that the read count is the number of read files past their grant, no more and no less,
and `OwnerInv` that `write_owner` is a process of the one write lock. `ServedTicketHasOwnerCorrect`
(besides, no signals and one file for each process): with one file the scan finds none that is locked in the other mode, so
`-EDEADLK` is never said (`OneFileEach`, `ScanAgrees`), and every ticket from `ticket_tail` to `ticket_head` has an owner inside ACQUIRE
(`NothingLost`); a grant advances the tail by exactly its own ticket. For `OwnLockRefusedCorrect`, `ScanFound`
says that `d->read_ids` and `d->write_ids`, which all processes share, are what the process that checks has found itself;
with `OwnerInv`, the check leaves no lock of the caller's own that could stop it, and nobody else can give it one while it waits.

`MposProofs`, for any table size and any statuses: `IKernel` (types, only runnable processes
run, dead slots have no waiter) is inductive as it stands; `IWait` adds `WaiterIsBlocked`.
From them follow `WaitGivesStatusCorrect`, `ZombieReapedOnceCorrect` and `OnlyCreatedComeAliveCorrect`.
`BlockedWillBeWokenCorrect` is the converse of `WaiterIsBlocked` and needs that no two processes wait for the same third.
Those about waiting are for behaviours without `sys_kill`, as the properties say.

`SchedosProofs`, for any number of applications and characters, any priorities and shares:

- `TypeCorrect`. That the cursor stays on the screen is not inductive by itself, for an
  unsynchronised application may store back an old value: `CursorFits` says that neither the cursor nor any value an
  application has loaded exceeds the number of characters moved so far, counted as the cardinality of a set
  of marks, one for each application and each of its characters;
- `SchedulesByRuleCorrect`, under `SharesSuffice`: shares are positive, counters start within them, and no
  application lowers its share. `FirstFound` says that the scan from a slot stops at the nearest runnable process: the
  least element of a set of distances modulo the table;
- `CharactersKeptCorrect`: with the lock, the system call, or no clock, at most one application is between
  its load and its write (`OneAtCursor`), the cells from the cursor on are blank (`AtCursor`), and so each application
  is on the screen as often as it has printed (`Counted`).

`OspfsBlockProofs` and `OspfsProofs`, for any number of blocks, inodes, words in a block, direct pointers, names and
processes, any width of `oi_size`, and any habits that are `Careful` (`CarefulHabits`): `TypeCorrect`,
`BlocksAccountedFor`, `BlocksThere`, `LeavesNoTrace`, `ListsCorrectly` and `ReadsRight`, which are all the safety
invariants of the run, and `ImplementsFileSystem`, its refinement. `Careful` excludes what the code is known to do wrong and no more: sizes within `NDIRECT +
BLKSIZE` blocks (beyond, the doubly indirect block is written past its end) and a block away from the largest
unsigned number, at most one block under the indirect block of a file that may shrink (`ospfs_shrink`) or may find
the disk full (line 825), and no file that shrinks while it is being written. `MCOspfs` assumes it of the habits it runs, so
that TLC evaluates it.

- *Blocks.* `Sound` is the strengthening of `BlocksAccounted` and `EveryBlockThere`: it speaks of places (a direct
  pointer, the indirect pointer, a pointer under it) instead of counting them. A file has a block in exactly the places that
  its size asks for, the indirect block being one of them, no block is in two places, and one that is in none is free. `add_block()` and
  `remove_block()` each lead from a sound disk to a sound one on which the file is `Larger` or `Smaller` by a block, one lemma for
  each of their paths (`AddStep`, `RemoveStep`); the arithmetic of `ospfs_size2nblocks`, which wraps for a file of less
  than a block that shrinks, is in `CountGrown` and `CountShrunk`.
- *Loops.* The loops of `change_size()` are recursive functions; `Chained` and the two `Repeat` lemmas unfold them a step
  at a time, and `SetInduction`, which is about sets of numbers and needs no operator for a parameter, does the induction. `NoTrace`: when the
  disk fills up after any number of steps, the loop that gives blocks back ends with as many blocks as the file
  had at the start, in the same places, so that inodes and bitmap are the old ones. A failure needs a full disk, and then
  `Careful` allows at most one block under the indirect block, so the way back cannot hit line 892.
- *Directory.* `Named` says that entries name files, no name twice, and that each file has as many entries as
  links. Each operation of the code leads to a disk that `Follows` the one it found: it is `Good` (`Sound`, within bounds, `Named`), a file that is being
  written keeps its blocks and does not shrink, the directory does not shrink, and its entries change only by one name
  that comes or goes. `IInv` says that the disk is good, a write that sleeps holds the block of its position, and the lister has been
  given what it should: each name that stayed lies either before `f_pos` and has been handed out once, or behind it and
  has not. `OperationKeeps` shows once that whatever `Follows` keeps `IInv`; the steps of a write and of readdir have lemmas of their own.
- *Reads.* `ospfs_read` and the content of a file are two recursive functions, one that goes from block to block and one
  from word to word. `ReadsRight` shows by `SetInduction` that the first gives a piece of the second whenever it
  starts at a block.
- *Refinement.* `ImplementsFileSystem` is a step simulation: from a disk that satisfies `IInv`, each operation is a step of
  `FileSystem` under the mapping of `Promised`, or changes nothing of it (`Promising`). A block that `add_block()` gives
  is blank (`Gained` in `Larger`), so a file that grows shows its old words and then zeroes, but for what lies in its last
  old block, which `InOldBlock` allows; a file that shrinks keeps a prefix; a copied piece changes the words of one range of one
  file, because no block is in two places; and names change by the one entry that the operation writes. Each file the
  operation does not name keeps kind, size and words (`FileStays`). It needs one assumption more, `NoRelink`: nobody makes a
  second name for a symbolic link, whose text `ospfs_unlink` clears with the first name that goes (553), whereas
  `FileSystem` keeps the content of a file that still has a name. `LinksSingle`, a symbolic link has at most one name, is the
  invariant that follows from it.

The first part of `PeerProofs`, for every `TASKBUFSIZ` and any bytes: a read is offered free cells only and a write held
cells only, each in one piece, and none exactly when the buffer is full or empty (`RoomFits`, `SpanFits`); reading
appends to what the buffer holds and writing takes from its front, however little is accepted
(`ReadAppends`, `WriteTakesFront`). Here the boundary of the buffer is dealt with for all sizes; the run uses
two cells.

`PeerProofs` (types) and `PeerTransferProofs` (uploads, the count of children, downloads), for
any files, peers, connections, limits and scenes that satisfy `TransferAssumption` and `SceneAssumption` (each
connection comes once, there is a child for each fork that may succeed, a peer's own files are among the names; bytes
are numbers from 1 on, and the marks of a free and of an older file are not those of a file a child makes):

- `TypeCorrect`. `IStages` says what a task has at each of its stages (a peer while it talks to one, an open file
  while it sends one), `InOrder` that children are forked in the order of their numbers, and `IMade` that a name or an
  open file stands for one that was made; every step of a child changes its own task only and lets files only grow
  (`TaskStep`);
- `UploadsWholeCorrect`. `Faithful` says where every byte is: what the other peer has received and then what the
  buffer holds are the first `pos` bytes of the file, by `ReadAppends` and `WriteTakesFront`. A file that is still being
  downloaded grows under the upload (`FaithfulGrows`). `IConns` says that no connection is served twice;
- `ChildrenCountedCorrect`. `Booked` keeps the books of the forks that failed: `main` waits without a child only after
  such a fork, because at the limit there is a child, and each such wait costs `pid_counter` one;
- `FilesKeptCorrect`. The digest is of more than the file: a peer that fails half-way leaves its bytes in it, and the
  next one starts another file. `FetchOK` says so: the digest is some bytes of earlier peers, then the newest file, then
  what the buffer holds. So a file whose digest is the checksum ends the contents it was to have, and is all of them if no
  earlier peer sent a byte; bytes are numbers from 1 on, so a checksum left unset matches nothing. `ISums` says
  that a checksum is empty, unset, or of some file; `ISure`, that it is of the right one as long as no child has
  reported a file: till then the queues to and from the tracker hold `main`'s one request or its answer and no more.
  `INames` says that no child takes a name that another has, unless one fetched a file that was too large and
  removed its name twice;
- `FirstPeerCorrect`. `Going` follows a download to the good peer: the peers left are the first ones of the tracker's list
  (main turns the list round, `MainFirst`), as many as the good one's place or more while none has been reached, with a
  digest that is still empty; once it is reached the digest is as much of the file as has been read (`FrontGrows`), the
  buffer's tail is that far, and the download can only go on to the end of the file, where digest and checksum agree. Bytes
  written never exceed those read, so the file is not taken for one that is too large.

`ShellProofs`, for any scripts, words and programs:

- `ChildrenWaitedForCorrect`, that `execute_command` leaves no child behind, and `NeverRacesCorrect`, that `-t` respects
  the dependencies it has recorded. Both are for behaviours in which the heap is large enough for the script's nodes
  (`Fitting`, the bound `MaxNodes`, part of `TypeOK`); the first one besides for those in which no process runs a command
  that lacks a side (`SidesAreThere`), since the shell itself crashes there;
- `SidesCorrect`, that no process does, and `TypeCorrect`, that of every variable `TypeOK` is true, of which
  `SidesAreThere` is a part. Both need `Fitting` and, because the shell does crash on some scripts, `Filled`: there is an operand
  in the three places where `make_command_stream` does not look for one, which are behind a `;`, inside a bracket, and after an
  operator that a newline and a bracket follow (the newline becomes the end of the command). `Filled` speaks of the tokens
  only, and no script of the run lacks it; that the operators of such a script get their sides, and all else that the
  shell follows a pointer to, is what is proved.
- *Reading.* `Reading` says that the heap holds trees (`IsTree`: no node is on two sides, what is simple has none), that what
  main has been given are different roots (`Roots`), and that the node in hand is a leaf (`InHand`). Whatever
  an operator takes, it is one of two surgeries, `Rooted` or `Inserted`, and each keeps the trees; so do a
  subshell that is opened and a redirection that goes to the wrong command. `Acyclic` is shown by ranks, which are
  there for the proof only: a node that is put in between gets one in between.
- *Running.* `SidesFit` is the invariant: for each of the stages of a node, how far its sides are. Since no node is on two sides, a step of a
  node concerns itself and the side it calls or waits for (`Takes`), so that all other nodes fit as before (`OthersFit`). `Started`
  adds that a command not called yet has not been started, and that a tree in hand is apart from all that runs.
  `EveryChildWaitedFor` speaks of all that is below a node, a recursive function: `BelowIs` shows that it exists, as the
  least sets closed under sides, and `Downward` that what goes down from each node to its sides goes all the way, since among the nodes where it
  does not, one would have the lowest rank.
- *Sides.* `Grammatical` says what the checking loop has seen of each token up to `at` (`Checked`): an operand before an operator, and
  after it an operand or a newline. It stays so when tokens are cleared behind a finished command, because none of those that
  stay stands next to them. `Built` says that while a tree grows all its nodes have their sides (`Complete`) but for the one in hand,
  and that one too if the token before `at` ends an operand. So an operator finds complete nodes to take, and a command that is
  finished has none that is not.
- *Types.* `Opening` says what a descriptor can be: a node that has been started, and that is a pipe or has the redirection; the
  reader changes none of those, since what it builds is apart from what runs. `Leaving` is about files, pipes and statuses,
  `Keeping` about what main and the reader hold.
- *Time travel.* `Edges`: every dependency is an edge of the graph or leads to a command that has been reaped, `W` is the
  cardinality of the edges of a row, and who runs has none. That a row is counted down once for each edge and not more is what makes
  `W = 0` mean that all it waits for is over.

Theorems without a run of their own: `MutexCorrect`, `TicketsCorrect`, `WriterNeverJoinsReadersCorrect`,
`RunsTheRunnableCorrect`, `DeadHasNoWaiterCorrect`, `WaiterIsBlockedCorrect`, `OnlyCreatedComeAliveCorrect`,
`SidesCorrect` (checked as part of `TypeOK`), and those about the buffer.

Assumptions are the named ASSUMEs of the modules; `ASSUME ~ Preemptible`,
`"stray" \notin Env` and the like appear in the theorems that need them.

Only model-checked: everything about liveness (`EveryAcquireReturns`, `EveryoneRuns`,
`Finishes`, `NobodyStarves`, `EveryoneFinishes`, `EndsUnlessCircular`, `EveryoneEnds`), out of the prover's
reach; and of `Shell`, `ReadsWhatIsWritten`, `MeansWhatItSays` and `TravelAsSerial`, which compare what happens
with what recursive functions of a tree compute (its shape, its meaning) and would need induction over trees.

## Not modelled

- Pure computation or I/O, with no order or sharing to get wrong: the MD5
  implementations and `writescan.c`, boot loaders, interrupt entry and x86 set-up, the disk image
  tools (`mkbootdisk.c`, `ospfsformat.c` but for the image it leaves, `fsimgtoc.c`), `alloc.c`
  and `print-command.c`, testers and scripts.
- Of the ramdisk: the data requests and module loading.
- Of the file system: lookup and mounting, which
  change nothing on the disk, the text of symbolic links, permissions, the doubly indirect block.
- Of the shell: the letters of words, the growth of buffers and commands of more than 100 words, scripts of 160
  tokens or more (memory that is allocated twice would not read as zero), empty scripts and those without a last newline,
  and failures of fork and pipe.
- Of the peer: its attack modes, by choice; answers of the tracker that are torn or longer than the buffer,
  disk errors, and failures of `getsockname`.

## Plan

1. Done: `Osprd` with `RWLock`, `Mpos` and `MposApp`, `Schedos`, each with proofs; `Ospfs` with
   `FileSystem`, and proofs of its invariants; the shell with its meaning; the peer, with proofs about
   its buffer, its uploads, its downloads and its children, and about the shell's trees, types, children and dependencies.
2. `Ospfs`: the doubly indirect block, and links with text.
3. `Peer`: answers of the tracker in pieces.
