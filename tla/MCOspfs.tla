------------------------------ MODULE MCOspfs ------------------------------
EXTENDS Ospfs, TLC
CONSTANTS hello, world, none  \* names, and the mark of an empty entry
MCNames == {hello, world}
\* no operation tells one name from another
Interchangeable == Permutations(MCNames)
MCProcs == {1}
(* Files of one pointer more than fit the inode, with full disks, removals *)
(* and truncations; files that fill their indirect block, only growing;    *)
(* and a directory that changes while it is listed.                        *)
MCCareful == {[blocks |-> 4, most |-> NDIRECT + 1, does |-> {"fill", "shrink"}],
              [blocks |-> 5, most |-> NDIRECT + BLKSIZE, does |-> {}],
              [blocks |-> 4, most |-> NDIRECT + 1, does |-> {"list"}]}
ASSUME CarefulAssumption == \A h \in MCCareful : Careful(h)
(* The same programs, with larger files.                                   *)
MCLarger == {[blocks |-> 5, most |-> NDIRECT + 2, does |-> {"shrink"}]}
=============================================================================
