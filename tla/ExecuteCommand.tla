-------------------------- MODULE ExecuteCommand ---------------------------
(***************************************************************************)
(* src/Lab1/execute-command.c, execute_command and what it calls: how a    *)
(* command tree is run by processes.                                       *)
(*                                                                         *)
(* A process runs each node of a tree at most once, so the processes are   *)
(* told apart by the nodes: pc[n] says how far the execution of node n is, *)
(* in the process that called execute_command on n or in the child that    *)
(* it forked for n.  The sides of a pipe and the inside of a subshell run  *)
(* in a forked child; when their pc is "returned" that child has called    *)
(* exit and is a zombie until its parent has waited for it ("reaped").     *)
(*                                                                         *)
(* A file descriptor is the node that opened it: a PIPE node stands for    *)
(* its pipe, a SIMPLE or SUBSHELL node for the file it redirects to or     *)
(* from, 0 for what the shell itself was started with.  What flows through *)
(* descriptors is the set of the programs whose output it is.  Programs    *)
(* are external: Program says whether one reads its standard input when it *)
(* has no arguments, whether it prints, and its exit code.                 *)
(***************************************************************************)
EXTENDS ReadCommand

CONSTANTS MaxNodes,   \* the most nodes the trees of one script have
          Program     \* [a word -> [reads, prints : BOOLEAN, code : 0..255]]

ASSUME ProgramAssumption ==
    /\ MaxNodes \in Nat
    /\ DOMAIN Program \subseteq Words
    /\ \A w \in DOMAIN Program :
          Program[w] \in [reads : BOOLEAN, prints : BOOLEAN, code : 0..255]

Nodes == 1..MaxNodes

VARIABLES
    pc,        \* how far the execution of a node is
    status,    \* the status field of a node, as waitpid encodes it
    fd,        \* the descriptors 0 and 1 of the process that runs the node
    files,     \* what is in a file; Absent when there is none
    pipe,      \* what was written to the pipe of a PIPE node
    drained    \* the descriptors that have been read to their end

execVars == <<pc, status, fd, files, pipe, drained>>

Stages == {"idle", "called", "left", "right", "forked", "inside", "ended", "killed",
           "forkright", "closing", "waiting", "waitpid", "returned", "reaped"}

Absent == {NoWord}

\* A child that calls exit(s) keeps the low 8 bits; wait() shows them shifted.
AllBits(s) == s * 256                              \* mutant of ExitStatus
ExitStatus(s) == (s % 256) * 256

SIGPIPE == 13

Over(n) == pc[n] \in {"returned", "reaped"}

\* execute_command(n) in a process that has these descriptors.
Calls(f, n, desc) == /\ pc' = [f EXCEPT ![n] = "called"]
                     /\ fd' = [fd EXCEPT ![n] = desc]

Returns(f, n, s) == /\ pc' = [f EXCEPT ![n] = "returned"]
                    /\ status' = [status EXCEPT ![n] = s]

---------------------------------------------------------------------------
(* execute_and_command, execute_or_command, execute_sequence_command.      *)

Lists == {"AND", "OR", "SEQUENCE"}

\* Whether the right side runs after the left one ended with status s.
GoesOnAnyway(type, s) == type = "OR" => s # 0      \* mutant of GoesOn
GoesOn(type, s) == CASE type = "AND" -> s = 0 [] type = "OR" -> s # 0
                     [] type = "SEQUENCE" -> TRUE

CallLeft(n) ==
    /\ pc[n] = "called" /\ node[n].type \in Lists
    /\ Calls([pc EXCEPT ![n] = "left"], node[n].left, fd[n])
    /\ UNCHANGED <<status, files, pipe, drained>>

LeftReturns(n) ==
    /\ pc[n] = "left" /\ pc[node[n].left] = "returned"
    /\ \E s \in {status[node[n].left]} :
          \/ /\ GoesOn(node[n].type, s)
             /\ Calls([pc EXCEPT ![n] = "right"], node[n].right, fd[n])
             /\ UNCHANGED status
          \/ /\ ~GoesOn(node[n].type, s)
             /\ Returns(pc, n, s)
             /\ UNCHANGED fd
    /\ UNCHANGED <<files, pipe, drained>>

RightReturns(n) ==
    /\ pc[n] = "right" /\ pc[node[n].right] = "returned"
    /\ Returns(pc, n, status[node[n].right])
    /\ UNCHANGED <<fd, files, pipe, drained>>

---------------------------------------------------------------------------
(* execute_pipe_command. *)

ForkLeft(n) ==
    /\ pc[n] = "called" /\ node[n].type = "PIPE"
    /\ Calls([pc EXCEPT ![n] = "forkright"], node[n].left, [fd[n] EXCEPT !.out = n])
    /\ UNCHANGED <<status, files, pipe, drained>>

ForkRight(n) ==
    /\ pc[n] = "forkright"
    /\ Calls([pc EXCEPT ![n] = "closing"], node[n].right, [fd[n] EXCEPT !.in = n])
    /\ UNCHANGED <<status, files, pipe, drained>>

\* The parent closes its two ends of the pipe.
ClosePipe(n) ==
    /\ pc[n] = "closing"
    /\ pc' = [pc EXCEPT ![n] = "waiting"]
    /\ UNCHANGED <<status, fd, files, pipe, drained>>

\* wait(): whichever side is found first; its status is overwritten below.
WaitAny(n) ==
    /\ pc[n] = "waiting"
    /\ \E c \in {node[n].left, node[n].right} :
          /\ pc[c] = "returned"
          /\ pc' = [pc EXCEPT ![n] = "waitpid", ![c] = "reaped"]
    /\ UNCHANGED <<status, fd, files, pipe, drained>>

OnlyOneWait(n) ==                                  \* mutant of WaitOther
    /\ pc[n] = "waitpid"
    /\ \E c \in {node[n].left, node[n].right} :
          pc[c] # "reaped" /\ Returns(pc, n, ExitStatus(status[c]))
    /\ UNCHANGED <<fd, files, pipe, drained>>

\* waitpid() for the other side, whose status becomes the pipe's.
WaitOther(n) ==
    /\ pc[n] = "waitpid"
    /\ \E c \in {node[n].left, node[n].right} :
          /\ pc[c] = "returned"
          /\ Returns([pc EXCEPT ![c] = "reaped"], n, ExitStatus(status[c]))
    /\ UNCHANGED <<fd, files, pipe, drained>>

---------------------------------------------------------------------------
(* execute_subshell_command and execute_simple_command. *)

Fork(n) ==
    /\ pc[n] = "called" /\ node[n].type \in {"SIMPLE", "SUBSHELL"}
    /\ pc' = [pc EXCEPT ![n] = "forked"]
    /\ UNCHANGED <<status, fd, files, pipe, drained>>

(* The child opens its redirections.  A missing input leaves descriptor 0  *)
(* as it was: neither open nor dup2 is checked.  An output is created or   *)
(* truncated.  In a subshell the child then runs what is inside.           *)
Redirected(n) ==
    [in  |-> IF node[n].input # NoWord /\ files[node[n].input] # Absent
             THEN n ELSE fd[n].in,
     out |-> IF node[n].output # NoWord THEN n ELSE fd[n].out]

OpenFiles(n) ==
    /\ pc[n] = "forked"
    /\ IF node[n].type = "SUBSHELL"
       THEN Calls([pc EXCEPT ![n] = "inside"], node[n].left, Redirected(n))
       ELSE /\ pc' = [pc EXCEPT ![n] = "inside"]
            /\ fd' = [fd EXCEPT ![n] = Redirected(n)]
    /\ files' = IF node[n].output = NoWord THEN files
                ELSE [files EXCEPT ![node[n].output] = {}]
    /\ UNCHANGED <<status, pipe, drained>>

Programs(n) == {w \in DOMAIN Program : w = node[n].word[1]}

\* execvp fails: exit(-1).
NotFound(n) ==
    /\ pc[n] = "inside" /\ node[n].type = "SIMPLE" /\ Programs(n) = {}
    /\ pc' = [pc EXCEPT ![n] = "ended"]
    /\ UNCHANGED <<status, fd, files, pipe, drained>>

IsPipe(d) == d # 0 /\ node[d].type = "PIPE"

\* No process can write to the pipe any more: read returns 0 at its end.
AtEnd(d) == Over(node[d].left) /\ pc[d] \notin {"forkright", "closing"}

\* No process can read from the pipe any more: write raises SIGPIPE.
Broken(d) == IsPipe(d) /\ Over(node[d].right) /\ pc[d] # "closing"

\* What is read from descriptor d.
Contents(d) == IF d = 0 \/ d \in drained THEN {}
               ELSE IF IsPipe(d) THEN pipe[d] ELSE files[node[d].input] \ Absent

\* What is in the files that the arguments of n name.
Arguments(n) ==
    UNION {files[w] \ Absent :
             w \in DOMAIN files \cap {node[n].word[i] : i \in 2..Len(node[n].word)}}

(* The program runs: it reads its input to the end, prints and exits, or   *)
(* is killed by writing to a pipe that nobody reads.                       *)
RunProgram(n) ==
    /\ pc[n] = "inside" /\ node[n].type = "SIMPLE"
    /\ \E w \in Programs(n), in \in {fd[n].in}, out \in {fd[n].out} :
       \E stdin \in {Program[w].reads /\ Len(node[n].word) = 1} :
       \E text \in {{w} \cup Arguments(n) \cup IF stdin THEN Contents(in) ELSE {}} :
          /\ stdin /\ IsPipe(in) => AtEnd(in)
          /\ drained' = IF stdin THEN drained \cup ({in} \ {0}) ELSE drained
          /\ pc' = [pc EXCEPT ![n] =
                      IF Program[w].prints /\ Broken(out) THEN "killed" ELSE "ended"]
          /\ \/ /\ ~Program[w].prints \/ out = 0 \/ Broken(out)
                /\ UNCHANGED <<files, pipe>>
             \/ /\ Program[w].prints /\ IsPipe(out) /\ ~Broken(out)
                /\ pipe' = [pipe EXCEPT ![out] = @ \cup text]
                /\ UNCHANGED files
             \/ /\ Program[w].prints /\ out # 0 /\ ~IsPipe(out)
                /\ files' = [files EXCEPT ![node[out].output] = @ \cup text]
                /\ UNCHANGED pipe
    /\ UNCHANGED <<status, fd>>

\* The code of the program, or 255 when there is none.
ExitCode(n) == IF Programs(n) = {} THEN 255 ELSE Program[node[n].word[1]].code

\* wait() in the parent of a simple command or of a subshell's child.
WaitSimple(n) ==
    /\ pc[n] \in {"ended", "killed"}
    /\ Returns(pc, n, IF pc[n] = "killed" THEN SIGPIPE ELSE ExitStatus(ExitCode(n)))
    /\ UNCHANGED <<fd, files, pipe, drained>>

WaitSubshell(n) ==
    /\ pc[n] = "inside" /\ node[n].type = "SUBSHELL" /\ pc[node[n].left] = "returned"
    /\ Returns([pc EXCEPT ![node[n].left] = "reaped"], n,
               ExitStatus(status[node[n].left]))
    /\ UNCHANGED <<fd, files, pipe, drained>>

---------------------------------------------------------------------------
ExecInit(store) ==
    /\ pc = [n \in Nodes |-> "idle"]
    /\ status = [n \in Nodes |-> 0]
    /\ fd = [n \in Nodes |-> [in |-> 0, out |-> 0]]
    /\ files = store
    /\ pipe = [n \in Nodes |-> {}]
    /\ drained = {}

\* execute_command on node n: the branch its type selects.
execute_command(n) ==
    \/ CallLeft(n) \/ LeftReturns(n) \/ RightReturns(n)
    \/ ForkLeft(n) \/ ForkRight(n) \/ ClosePipe(n) \/ WaitAny(n) \/ WaitOther(n)
    \/ Fork(n) \/ OpenFiles(n) \/ NotFound(n) \/ RunProgram(n)
    \/ WaitSimple(n) \/ WaitSubshell(n)
=============================================================================
