----------------------------- MODULE MCMposApp -----------------------------
(* MposApp with the sizes of the program itself: 16 slots, 1025 processes, *)
(* 20 yields.  Everything but the choice of program is deterministic.      *)
EXTENDS MposApp

MCStatuses == {0, 1}
MCFnAddr   == 30
WithKill   == {{"kill"}}
AllApps    == {"fork", "thread", "many", "killing"}
=============================================================================
