------------------------------- MODULE RWLock -------------------------------
(***************************************************************************)
(* What Lab2's ramdisk lock promises its users: any number of readers or   *)
(* one writer hold the lock, blocked requests are granted in the order in  *)
(* which they arrived, a request that is not granted at once may be given  *)
(* up (a signal, -EDEADLK), and an attempt that would have to wait, or to  *)
(* overtake a waiting request, fails.  No ticket, count or wait queue      *)
(* appears here: Osprd is shown to implement this specification.           *)
(***************************************************************************)

CONSTANTS Procs, Files, Users, Writable, None

VARIABLES
    holders,   \* the files that hold the lock
    request,   \* the file for which each process is blocked, or None
    before     \* <<p, q>>: p's request arrived before q's

vars == <<holders, request, before>>

Blocked == {p \in Procs : request[p] # None}
Compatible(f) == IF f \in Writable THEN holders = {}
                                   ELSE holders \cap Writable = {}

Init == /\ holders = {}
        /\ request = [p \in Procs |-> None]
        /\ before = {}

Ask(p, f) ==
    /\ request[p] = None /\ p \in Users[f]
    /\ request' = [request EXCEPT ![p] = f]
    /\ before' = before \cup (Blocked \X {p})
    /\ UNCHANGED holders

Forget(p) ==
    /\ request' = [request EXCEPT ![p] = None]
    /\ before' = {e \in before : e[1] # p /\ e[2] # p}

Grant(p) ==
    /\ request[p] # None /\ Compatible(request[p])
    /\ \A q \in Procs : <<q, p>> \notin before
    /\ holders' = holders \cup {request[p]}
    /\ Forget(p)

GiveUp(p) ==
    /\ request[p] # None
    /\ Forget(p)
    /\ UNCHANGED holders

Attempt(f) ==
    /\ Blocked = {} /\ Compatible(f)
    /\ holders' = holders \cup {f}
    /\ UNCHANGED <<request, before>>

Unlock(f) ==
    /\ f \in holders
    /\ holders' = holders \ {f}
    /\ UNCHANGED <<request, before>>

Next == \/ \E p \in Procs : Grant(p) \/ GiveUp(p) \/ \E f \in Files : Ask(p, f)
        \/ \E f \in Files : Attempt(f) \/ Unlock(f)

Spec == Init /\ [][Next]_vars
=============================================================================
