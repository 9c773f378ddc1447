------------------------------- MODULE Shell -------------------------------
(***************************************************************************)
(* src/Lab1/main.c: timetrash, which composes the command reader, the      *)
(* execution of a command and time travel.                                 *)
(*                                                                         *)
(* With -p main reads every command and prints its tree; without options   *)
(* it reads a command, runs it and reads the next one; with -t it reads    *)
(* them all and runs them in parallel.  The three modes are the variable   *)
(* mode.                                                                   *)
(***************************************************************************)
EXTENDS TimeTravel

CONSTANTS Scripts,   \* the scripts: their text, the trees it stands for, and
                     \* the modes they are run in
          Store      \* the files there are at the start

VARIABLES script,        \* the script this run is about
          mode,          \* print_tree, time_travel or neither
          called,        \* how many commands main has called execute_command on
          exit_status    \* what main returned; -1 before that

mainVars == <<script, mode, called, exit_status>>
vars == <<readVars, execVars, travelVars, mainVars>>

Modes == {"print", "serial", "travel"}

\* Every word can be the name of a file, most of them of one that is not there.
ASSUME ShellAssumption ==
    /\ \A s \in Scripts : s.modes \subseteq Modes
    /\ Store \in [Words -> SUBSET (Words \cup {NoWord})]

Init ==
    /\ script \in Scripts
    /\ mode \in script.modes
    /\ ReadInit(script.text)
    /\ ExecInit(Store)
    /\ TravelInit
    /\ called = 0
    /\ exit_status = -1

Running == exit_status = -1

(* read_command_stream is called again: at once with -p and -t, otherwise  *)
(* after the command read before has been executed.                        *)
ReadNext == mode # "serial" \/ called = Len(commands)

Read ==
    /\ Running
    /\ \/ MakeStream
       \/ BuildCommand
       \/ ReadNext /\ StartCommand
    /\ UNCHANGED <<execVars, travelVars, mainVars>>

\* error (1, ...) ends the program; so does reading through a null pointer.
Stop ==
    /\ Running /\ phase \in {"error", "crash"}
    /\ exit_status' = IF phase = "error" THEN 1 ELSE 139
    /\ UNCHANGED <<readVars, execVars, travelVars, script, mode, called>>

\* execute_command (command, 0), called by main itself.
Execute ==
    /\ Running /\ mode = "serial" /\ phase = "ready" /\ called < Len(commands)
    /\ called' = called + 1
    /\ Calls(pc, commands[called'], fd[commands[called']])
    /\ phase' = "running"
    /\ UNCHANGED <<textVars, stream, first, at, end, buildVars, commands,
                   status, files, pipe, drained, travelVars, script, mode,
                   exit_status>>

Executed ==
    /\ phase = "running" /\ pc[commands[called]] = "returned"
    /\ phase' = "ready"
    /\ UNCHANGED <<textVars, stream, first, at, end, buildVars, commands,
                   execVars, travelVars, mainVars>>

\* Any process of the shell takes a step; some may outlive main with -t.
Process ==
    /\ \E n \in DOMAIN node : execute_command(n)
    /\ UNCHANGED <<readVars, travelVars, mainVars>>

\* main in execute_timetravel_cmd.
Travel ==
    /\ Running /\ mode = "travel" /\ AllRead
    /\ execute_timetravel_cmd
    /\ UNCHANGED <<readVars, mainVars>>

\* print_tree || !last_command ? 0 : command_status (last_command)
LastStatus == IF called = 0 THEN 0 ELSE status[commands[called]]

\* main returns; the system keeps the low 8 bits of what it returns.
Return ==
    /\ Running /\ AllRead /\ ReadNext
    /\ \/ /\ mode = "print"
          /\ exit_status' = 0
       \/ /\ mode = "serial"
          /\ exit_status' = LastStatus % 256
       \/ /\ mode = "travel" /\ round = "over"
          /\ exit_status' = tstatus % 256
    /\ UNCHANGED <<readVars, execVars, travelVars, script, mode, called>>

\* Nothing of the shell is left.
Gone ==
    /\ ~Running
    /\ \A n \in DOMAIN node : pc[n] \in {"idle", "returned", "reaped"}
    /\ UNCHANGED vars

Next == Read \/ Stop \/ Execute \/ Executed \/ Process \/ Travel \/ Return \/ Gone

\* The operating system goes on running some process that can run.
Spec == Init /\ [][Next]_vars /\ WF_vars(Next)

---------------------------------------------------------------------------
(* No process gets to run a pipe or a list one of whose sides is missing,  *)
(* so that execute_command follows no null pointer: a script whose         *)
(* operators lack a side is refused, and the trees of the others have it   *)
(* (check_twosides, read_command_stream), but for those with a newline     *)
(* between an operator and a bracket, or with nothing behind a ; or inside *)
(* a bracket, which are not among the scripts.                             *)
SidesAreThere ==
    \A n \in DOMAIN node :
       pc[n] # "idle" /\ node[n].type \in Lists \cup {"PIPE"} =>
          node[n].left # 0 /\ node[n].right # 0

(* What every variable holds: no process, file or node is used that is not *)
(* there (the heap, descriptors and counts of main, execute_command and    *)
(* execute_tcmd).                                                          *)
TypeOK ==
    /\ mode \in Modes /\ script \in Scripts
    /\ phase \in ReadPhases \cup {"running"}
    /\ word_buffer \in Words \cup {NoWord} /\ is_comments \in BOOLEAN
    /\ \A i \in DOMAIN stream : stream[i] \in [token : TokenTypes,
                                               content : Words \cup {NoWord}]
    /\ Len(node) <= MaxNodes
    /\ \A n \in DOMAIN node :
          /\ node[n].type \in CommandTypes
          /\ node[n].left \in 0..Len(node) /\ node[n].right \in 0..Len(node)
          /\ node[n].input \in Words \cup {NoWord}
          /\ node[n].output \in Words \cup {NoWord}
    /\ {command_root, parse_command, subshell_root} \subseteq 0..Len(node)
    /\ is_subshell \in {0, 1}
    /\ pc \in [Nodes -> Stages]
    /\ status \in [Nodes -> 0..(256 * 256 - 1)]
    /\ fd \in [Nodes -> [in : 0..Len(node), out : 0..Len(node)]]
    /\ pipe \in [Nodes -> SUBSET Words] /\ drained \subseteq Nodes
    /\ files \in [Words -> SUBSET (Words \cup {NoWord})]
    /\ running \subseteq DOMAIN commands /\ round \in Rounds
    /\ called \in 0..Len(commands) /\ exit_status \in -1..255
    /\ SidesAreThere

---------------------------------------------------------------------------
(* The shape of a tree: its types, words and redirections in prefix order. *)
Shape[n \in 0..MaxNodes] ==
    IF n = 0 THEN <<>>
    ELSE <<node[n].type>> \o node[n].word
            \o (IF node[n].input = NoWord THEN <<>> ELSE <<"<", node[n].input>>)
            \o (IF node[n].output = NoWord THEN <<>> ELSE <<">", node[n].output>>)
            \o Shape[node[n].left] \o Shape[node[n].right]

\* The nodes below n.
Below[n \in DOMAIN node] ==
    UNION {{m} \cup Below[m] : m \in {node[n].left, node[n].right} \ {0}}

\* A < or > right before a bracket.
NoFileName == \E i \in 1..(Len(script.text) - 1) :
                 script.text[i] \in {"<", ">"} /\ script.text[i + 1] \in {"(", ")"}

(* The scripts of the grammar are read and build the trees they were       *)
(* written for, whatever blanks, newlines and comments there are: every    *)
(* operator binds and groups as in the grammar, and every word and file    *)
(* name ends up in its command.  The wrong ones are refused with a message *)
(* (make_command_stream and read_command_stream).  With < or > before a    *)
(* bracket there is no message but a null dereference (strlen, line 827).  *)
(* Not among the scripts are those for which the reader is known to part   *)
(* from the grammar (src/Lab1/README.md, lines 58 to 63).  It takes a #    *)
(* right behind a word for a comment, a newline before < or > for a blank, *)
(* and a bracket behind a word.  It groups wrongly a pipe behind && or ||  *)
(* behind a ; and what follows a bracket within a bracket, gives the       *)
(* output of (a)<b >c to a, and builds half a tree of a ; at the end or a  *)
(* newline between an operator and a bracket; and it ends a command at a   *)
(* newline within brackets.                                                *)
ReadsWhatIsWritten ==
    /\ phase = "error" => script.wrong
    /\ phase = "crash" => script.wrong /\ NoFileName
    /\ phase = "ready" /\ ReadNext /\ AllRead =>
          /\ ~script.wrong
          /\ [i \in DOMAIN commands |-> Shape[commands[i]]] = script.trees

(* Run without -t, a script leaves the files that sh would leave, and its  *)
(* last command has status 0 when sh says that it succeeds: the processes  *)
(* of pipes and subshells, in whatever order they run and are waited for,  *)
(* do what the tree says (execute_command).  Left out are the results for  *)
(* which execute_command is known to part from sh, which Meaning names: a  *)
(* missing input does not keep a command from being run (lines 145, 181),  *)
(* and children exit with an encoded status (lines 75, 95 and 154), so     *)
(* that the failure of a subshell or of a side of a pipe is lost.          *)
MeansWhatItSays ==
    mode = "serial" /\ exit_status # -1 /\ phase = "ready" =>
       LET sh == Serially(Store)
       IN ~sh.departs => /\ files = sh.files
                         /\ sh.told => (LastStatus = 0 <=> sh.ok)

(* Run without -t, a script always leaves the files that sh would leave,   *)
(* as src/Lab1/README.md, line 30, says.  The code departs from it when a  *)
(* subshell fails: its child calls exit with the status that wait encoded  *)
(* (execute_subshell_command), which keeps 8 bits and so says success.     *)
BehavesAsSh ==
    mode = "serial" /\ exit_status # -1 /\ phase = "ready" => files = Serially(Store).files

(* When execute_command returns, every process forked below it has ended   *)
(* and has been waited for: a later wait() can only find the right child.  *)
EveryChildWaitedFor ==
    \A n \in DOMAIN node : Over(n) =>
       /\ \A m \in Below[n] : pc[m] \in {"idle", "returned", "reaped"}
       /\ node[n].type \in {"PIPE", "SUBSHELL"} =>
             \A m \in {node[n].left, node[n].right} \ {0} : pc[m] = "reaped"

InFlight(i) == i \in running /\ ~Over(commands[i])

(* With -t, the first file that a running command writes is not one that   *)
(* any other running command reads or writes, as far as get_constrains has *)
(* recorded it: dependencies are neither lost nor counted off too early.   *)
FirstOutputNeverRaces ==
    \A i, j \in running : i # j /\ InFlight(i) /\ InFlight(j) =>
       \A o \in {Outputs[commands[i]]} :
          o # <<>> => o[1] \notin Range1(Inputs[commands[j]]) \cup Range1(Outputs[commands[j]])

\* The files that a tree writes and the names that occur in it.
Written(n) == {node[m].output : m \in Below[n] \cup {n}} \ {NoWord}
Named(n) ==
    UNION {Range1(node[m].word) \cup {node[m].input, node[m].output} :
             m \in Below[n] \cup {n}} \ {NoWord}

(* A script whose dependencies all point backwards and are all recorded:   *)
(* one output for each command, no redirected subshell, and no command     *)
(* that writes what an earlier one names.                                  *)
Orderly ==
    /\ \A i \in DOMAIN commands :
          /\ \A f \in Written(commands[i]) : Outputs[commands[i]] = <<f>>
          /\ Named(commands[i]) = Range1(Inputs[commands[i]]) \cup Range1(Outputs[commands[i]])
    /\ \A i, j \in DOMAIN commands :
          i < j => Written(commands[j]) \cap Named(commands[i]) = {}

(* With -t, an orderly script leaves the files that sh leaves, running one *)
(* command after the other, once the commands that main did not wait for   *)
(* have ended as well; but for what Meaning says departs from sh.          *)
TravelAsSerial ==
    mode = "travel" /\ exit_status # -1 /\ phase = "ready" /\ Orderly
       /\ (\A i \in running : Over(commands[i])) =>
          LET sh == Serially(Store) IN ~sh.departs => files = sh.files

\* Commands that wait for each other, so that none of them is ever started.
Circular ==
    \E S \in SUBSET (DOMAIN commands \ running) :
       S # {} /\ \A i \in S : \E j \in S : <<i, j>> \in constrain_graph

(* The shell ends, in every mode and whatever its children do, unless      *)
(* commands wait for each other with -t: no pipe, wait or lost dependency  *)
(* holds it up.                                                            *)
EndsUnlessCircular == <>(exit_status # -1 \/ Circular)
=============================================================================
