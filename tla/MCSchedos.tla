----------------------------- MODULE MCSchedos -----------------------------
(* Instances of Schedos for TLC: the values of schedos-kern.h for the      *)
(* first three processes, priorities of the user's choice                  *)
EXTENDS Schedos

ByNumber  == [p \in Procs |-> p]
FirstUsed == [p \in Procs |-> IF p = 1 THEN 1 ELSE 0]
(* processes 2 and 3 ask for the same priority, the first for less *)
Equals    == [p \in Procs |-> IF p = 1 THEN 5 ELSE 3]
AllBuilds == [SYN : 0 .. 2, clock : BOOLEAN, algorithm : 0 .. 4]
\* without the clock the ways of printing differ only in their steps
MCBuilds == {b \in AllBuilds : b.clock = (b.SYN # 0)}
=============================================================================
