--------------------------- MODULE OsprdRefinement ---------------------------
(***************************************************************************)
(* Osprd implements RWLock: a file holds the abstract lock while its flag  *)
(* F_OSPRD_LOCKED is set, a process is blocked from the moment its ticket  *)
(* is taken until it is granted or abandoned, and arrival order is ticket  *)
(* order.                                                                  *)
(***************************************************************************)
EXTENDS Osprd

CONSTANT NoFile
ASSUME NoFileAssumption == NoFile \notin Files

Requested == [p \in Procs |-> IF Queued(p) THEN filp[p] ELSE NoFile]
Arrival   == {e \in Procs \X Procs :
                 /\ Queued(e[1]) /\ Queued(e[2])
                 /\ ticket_cur[e[1]] < ticket_cur[e[2]]}

Abstract == INSTANCE RWLock WITH
    None <- NoFile, holders <- locked, request <- Requested, before <- Arrival

(* Every behaviour of the driver is one of the abstract lock, as long as   *)
(* writable files are closed by those who hold the lock (no "stray") and   *)
(* the code runs unpreempted between the points where it blocks.           *)
ImplementsRWLock == Abstract!Spec
=============================================================================
