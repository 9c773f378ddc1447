---------------------------- MODULE TimeTravel -----------------------------
(***************************************************************************)
(* src/Lab1/execute-command.c from get_constrains on: with -t the commands *)
(* of a script run in parallel, held back by a graph of dependencies.      *)
(*                                                                         *)
(* execute_timetravel_cmd records which files each command writes and      *)
(* which words it may read, draws an edge <<row, col>> when command row    *)
(* must wait for command col, and counts the edges of a row in W.          *)
(* execute_tcmd then repeats: fork every command with nothing to wait for, *)
(* wait for one child and remove the edges to it, until all have been      *)
(* started.  It does not wait for those that are left.                     *)
(***************************************************************************)
EXTENDS CommandMeaning

VARIABLES
    constrain_graph,   \* the edges <<row, col>> that are 1
    W,                 \* for each command, how many it still waits for
    running,           \* the commands that have been forked
    round,             \* where execute_tcmd is
    tstatus            \* the status that execute_timetravel_cmd returns

travelVars == <<constrain_graph, W, running, round, tstatus>>

Rounds == {"none", "start", "wait", "over"}

Range1(s) == {s[i] : i \in DOMAIN s}

If(w) == IF w = NoWord THEN <<>> ELSE <<w>>

(* get_constrains: the outputs and the inputs of the simple commands in a  *)
(* tree, in order; every word counts as an input.  The redirections of a   *)
(* subshell are not recorded.                                              *)
Outputs[n \in 0..MaxNodes] ==
    IF n = 0 THEN <<>>
    ELSE IF node[n].type = "SIMPLE" THEN If(node[n].output)
    ELSE Outputs[node[n].left] \o Outputs[node[n].right]

Inputs[n \in 0..MaxNodes] ==
    IF n = 0 THEN <<>>
    ELSE IF node[n].type = "SIMPLE" THEN If(node[n].input) \o node[n].word
    ELSE Inputs[node[n].left] \o Inputs[node[n].right]

(* check_constrain: j is not set back to 0 for the second output, so only  *)
(* the first one is looked for.                                            *)
OneAgainstOne(o, i) == o # <<>> /\ i # <<>> /\ o[1] = i[1]     \* mutant of check_constrain
check_constrain(o, i) == o # <<>> /\ o[1] \in Range1(i)

OnlyReaders(row, col) ==                           \* mutant of Constrained
    row # col /\ check_constrain(Outputs[commands[col]], Inputs[commands[row]])

\* Whether command row waits for command col; which comes first does not matter.
Constrained(row, col) ==
    /\ row # col
    /\ \/ check_constrain(Outputs[commands[col]], Inputs[commands[row]])
       \/ check_constrain(Outputs[commands[col]], Outputs[commands[row]])

\* The first half of execute_timetravel_cmd.
BuildGraph ==
    /\ round = "none"
    /\ constrain_graph' = {e \in (DOMAIN commands) \X (DOMAIN commands) :
                              Constrained(e[1], e[2])}
    /\ W' = [row \in DOMAIN commands |-> Cardinality({e \in constrain_graph' : e[1] = row})]
    /\ round' = "start"
    /\ UNCHANGED <<execVars, running, tstatus>>

\* execute_tcmd forks every command that waits for nothing.
StartReady ==
    /\ round = "start" /\ running # DOMAIN commands
    /\ \E ready \in {{i \in DOMAIN commands : W[i] = 0 /\ i \notin running}} :
          /\ running' = running \cup ready
          /\ pc' = [n \in Nodes |-> IF \E i \in ready : commands[i] = n
                                    THEN "called" ELSE pc[n]]
    /\ round' = "wait"
    /\ UNCHANGED <<status, fd, files, pipe, drained, constrain_graph, W, tstatus>>

Unreaped == {i \in running : pc[commands[i]] # "reaped"}

\* The counts after child i has ended: (*(W+row))-- where the edge is.
StillWaits(i) == W                                 \* mutant of CountedOff
CountedOff(i) == [row \in DOMAIN W |-> IF <<row, i>> \in constrain_graph
                                       THEN W[row] - 1 ELSE W[row]]

(* wait() returns child i: the edges to it are removed.  The first status  *)
(* that is not 0 is kept.                                                  *)
ReapChild(i) ==
    /\ round = "wait" /\ i \in running /\ pc[commands[i]] = "returned"
    /\ pc' = [pc EXCEPT ![commands[i]] = "reaped"]
    /\ constrain_graph' = {e \in constrain_graph : e[2] # i}
    /\ W' = CountedOff(i)
    /\ tstatus' = IF tstatus # 0 THEN tstatus ELSE ExitStatus(status[commands[i]])
    /\ round' = "start"
    /\ UNCHANGED <<status, fd, files, pipe, drained, running>>

\* wait() finds no child and returns -1: nothing changes, and it is called again.
NoChild ==
    /\ round = "wait" /\ Unreaped = {}
    /\ round' = "start"
    /\ UNCHANGED <<execVars, constrain_graph, W, running, tstatus>>

AllStarted ==
    /\ round = "start" /\ running = DOMAIN commands
    /\ round' = "over"
    /\ UNCHANGED <<execVars, constrain_graph, W, running, tstatus>>

TravelInit ==
    /\ constrain_graph = {}
    /\ W = <<>>
    /\ running = {}
    /\ round = "none"
    /\ tstatus = 0

execute_timetravel_cmd ==
    \/ BuildGraph \/ StartReady \/ NoChild \/ AllStarted
    \/ \E i \in DOMAIN commands : ReapChild(i)
=============================================================================
