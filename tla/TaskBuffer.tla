---------------------------- MODULE TaskBuffer -----------------------------
(***************************************************************************)
(* src/Lab4/osppeer.c, the bounded buffer of a task: TASKBUFSIZ cells, a   *)
(* head and a tail that only grow, and their positions modulo TASKBUFSIZ.  *)
(* A buffer is a record; read and write each move one contiguous piece.    *)
(***************************************************************************)
EXTENDS Integers, Sequences

CONSTANT TASKBUFSIZ

ASSUME BufferAssumption == TASKBUFSIZ \in Nat \ {0}

NewBuffer == [head |-> 0, tail |-> 0, total_written |-> 0,
              buf |-> [i \in 0..TASKBUFSIZ - 1 |-> 0]]

\* task_pop_peer empties the buffer and keeps the bytes in its cells.
Emptied(b) == [b EXCEPT !.head = 0, !.tail = 0, !.total_written = 0]

headpos(b) == b.head % TASKBUFSIZ
tailpos(b) == b.tail % TASKBUFSIZ

\* mutant of Room
RoomToEnd(b) == TASKBUFSIZ - tailpos(b)

\* How much one read may bring; 0 when the buffer is full.
Room(b) == IF b.head = b.tail \/ headpos(b) < tailpos(b)
           THEN TASKBUFSIZ - tailpos(b) ELSE headpos(b) - tailpos(b)

\* How much one write may take; 0 when the buffer is empty.
Span(b) == IF b.head = b.tail THEN 0
           ELSE IF headpos(b) < tailpos(b) THEN tailpos(b) - headpos(b)
           ELSE TASKBUFSIZ - headpos(b)

\* The buffer after read put the bytes s into it (Len(s) <= Room(b)).
ReadInto(b, s) ==
    [b EXCEPT !.tail = @ + Len(s),
              !.buf = [i \in DOMAIN @ |->
                         IF i - tailpos(b) \in 0..Len(s) - 1
                         THEN s[i - tailpos(b) + 1] ELSE @[i]]]

\* The k bytes that write takes (k <= Span(b)) and the buffer after it.
Piece(b, k) == [i \in 1..k |-> b.buf[headpos(b) + i - 1]]
WriteOut(b, k) == [b EXCEPT !.head = @ + k, !.total_written = @ + k]
=============================================================================
