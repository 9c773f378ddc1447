------------------------------- MODULE MCMpos -------------------------------
(* Instances of Mpos for TLC *)
EXTENDS Mpos

(* values that %eax holds anyway, to keep the state space small *)
MCStatuses == {-1}
MCFnAddr   == -1
AllUsages  == {{}, {"double"}, {"kill"}}
Double     == {{"double"}}
=============================================================================
