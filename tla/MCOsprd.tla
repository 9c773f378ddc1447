------------------------------ MODULE MCOsprd ------------------------------
(***************************************************************************)
(* Instances of Osprd for TLC.  Files are named by their process, their    *)
(* mode and a number; which of them exist is chosen in each configuration. *)
(***************************************************************************)
EXTENDS OsprdRefinement

CONSTANTS p1, p2, p3, p4,         \* processes
          w1, w2, r2, r3, w4, r1, \* p_i's writable or read-only file
          r23,                    \* a read-only file that p2 and p3 share
          x1                      \* a writable file of p1 on another ramdisk

MCUsers == [f \in Files |-> CASE f \in {w1, r1, x1} -> {p1}
                              [] f \in {w2, r2} -> {p2}
                              [] f = r3 -> {p3}
                              [] f = w4 -> {p4}
                              [] f = r23 -> {p2, p3}]
MCWritable  == Files \cap {w1, w2, w4, x1}
MCOtherDisk == Files \cap {x1}

(* who opens what *)
FourFiles  == {w1, r2, r3, w4}
TwoWriters == {w1, w2}
SharedTwoDisks == {w1, r1, x1, w2, r23}

NoEnv    == {}
CleanEnv == {"signal", "relock"}
StrayEnv == {"stray"}
=============================================================================
