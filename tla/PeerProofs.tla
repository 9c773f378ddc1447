----------------------------- MODULE PeerProofs ----------------------------
(***************************************************************************)
(* Proofs about one run of the peer, for any number of files, peers,       *)
(* connections and children, any sizes and any scenes: every variable keeps*)
(* its type.  The invariant adds what a task has at each of its stages,    *)
(* that children are forked in their order, and that a name stands only    *)
(* for a file some child has made and that files only grow.                *)
(*                                                                         *)
(* First, the bounded buffer of a task is a queue, whatever its size and   *)
(* whatever bytes go through it: read_to_taskbuf and write_from_taskbuf    *)
(* stay inside its cells, a read appends to what the buffer holds, and a   *)
(* write takes from the front of it.                                       *)
(***************************************************************************)
EXTENDS Peer, SequenceTheorems, FiniteSetTheorems, TLAPS

---------------------------------------------------------------------------
(* The buffer of a task *)

(* The buffers that reads and writes can make of a new one, holding values *)
(* of V.                                                                   *)
Buffers(V) ==
    {b \in [head : Nat, tail : Nat, total_written : Nat, buf : [0..TASKBUFSIZ - 1 -> V]] :
        b.head <= b.tail /\ b.tail <= b.head + TASKBUFSIZ /\ b.total_written = b.head}

(* What a buffer holds, in the order in which it was read. *)
Cell(b, i) == (b.head + i) % TASKBUFSIZ
Held(b) == [i \in 1..b.tail - b.head |-> b.buf[Cell(b, i - 1)]]

---------------------------------------------------------------------------
(* Positions modulo TASKBUFSIZ *)

LEMMA ModRange ==
  ASSUME NEW x \in Nat
  PROVE  /\ (x % TASKBUFSIZ) \in 0..TASKBUFSIZ - 1
         /\ (x \div TASKBUFSIZ) \in Nat
         /\ x = (x \div TASKBUFSIZ) * TASKBUFSIZ + (x % TASKBUFSIZ)
BY BufferAssumption, SMT

LEMMA ModUnique ==
  ASSUME NEW q \in Nat, NEW r \in 0..TASKBUFSIZ - 1
  PROVE  ((q * TASKBUFSIZ + r) % TASKBUFSIZ) = r
<1> DEFINE x == q * TASKBUFSIZ + r
           d == x \div TASKBUFSIZ
           s == x % TASKBUFSIZ
<1>1. x \in Nat
  BY BufferAssumption, SMT
<1>2. d \in Nat /\ s \in 0..TASKBUFSIZ - 1 /\ x = d * TASKBUFSIZ + s
  BY <1>1, ModRange
<1>3. \A a \in Nat \ {0} : a * TASKBUFSIZ >= TASKBUFSIZ
  BY BufferAssumption, SMT
<1>4. q * TASKBUFSIZ - d * TASKBUFSIZ = s - r
  BY <1>2, BufferAssumption, SMT
<1>5. (q - d) * TASKBUFSIZ = s - r /\ (d - q) * TASKBUFSIZ = r - s
  BY <1>2, <1>4, BufferAssumption, SMT
<1>6. ~ (q - d \in Nat \ {0}) /\ ~ (d - q \in Nat \ {0})
  BY <1>2, <1>3, <1>5, BufferAssumption, SMT
<1>7. q = d
  BY <1>2, <1>6
<1> QED BY <1>2, <1>4, <1>7, BufferAssumption, SMT

LEMMA ModNext ==
  ASSUME NEW x \in Nat, NEW y \in Nat, (x % TASKBUFSIZ) + y < TASKBUFSIZ
  PROVE  ((x + y) % TASKBUFSIZ) = (x % TASKBUFSIZ) + y
<1> DEFINE d == x \div TASKBUFSIZ
           s == x % TASKBUFSIZ
<1>1. d \in Nat /\ s \in Nat /\ x = d * TASKBUFSIZ + s
  BY ModRange
<1>2. s + y \in 0..TASKBUFSIZ - 1
  BY <1>1, BufferAssumption
<1>3. d * TASKBUFSIZ \in Nat
  BY <1>1, BufferAssumption, SMT
<1> DEFINE e == d * TASKBUFSIZ
<1>4. x + y = e + (s + y)
  <2>1. e \in Nat /\ x = e + s
    BY <1>1, <1>3
  <2> HIDE DEF e, s, d
  <2> QED BY <1>1, <2>1
<1>5. ((d * TASKBUFSIZ + (s + y)) % TASKBUFSIZ) = s + y
  <2> HIDE DEF d, s
  <2> QED BY <1>1, <1>2, ModUnique
<1> QED BY <1>4, <1>5

LEMMA ModWrap ==
  ASSUME NEW x \in Nat, NEW y \in Nat, y <= TASKBUFSIZ, (x % TASKBUFSIZ) + y >= TASKBUFSIZ
  PROVE  ((x + y) % TASKBUFSIZ) = (x % TASKBUFSIZ) + y - TASKBUFSIZ
<1> DEFINE d == x \div TASKBUFSIZ
           q == d + 1
           r == (x % TASKBUFSIZ) + y - TASKBUFSIZ
<1>1. q \in Nat /\ r \in 0..TASKBUFSIZ - 1
  BY ModRange, BufferAssumption
<1>2. x + y = q * TASKBUFSIZ + r
  <2>1. d \in Nat /\ x = d * TASKBUFSIZ + (x % TASKBUFSIZ) /\ (x % TASKBUFSIZ) \in Nat
    BY ModRange
  <2>2. (d + 1) * TASKBUFSIZ = d * TASKBUFSIZ + TASKBUFSIZ
    BY <2>1, BufferAssumption, SMT
  <2>3. d * TASKBUFSIZ \in Nat
    BY <2>1, BufferAssumption, SMT
  <2> QED BY <2>1, <2>2, <2>3, BufferAssumption
<1>3. ((q * TASKBUFSIZ + r) % TASKBUFSIZ) = r
  BY <1>1, ModUnique
<1> QED BY <1>2, <1>3

(* Where head and tail are in the buffer, by how much it holds. *)
LEMMA Positions ==
  ASSUME NEW V, NEW b \in Buffers(V)
  PROVE  /\ headpos(b) \in 0..TASKBUFSIZ - 1 /\ tailpos(b) \in 0..TASKBUFSIZ - 1
         /\ headpos(b) + (b.tail - b.head) < TASKBUFSIZ =>
               tailpos(b) = headpos(b) + (b.tail - b.head)
         /\ headpos(b) + (b.tail - b.head) >= TASKBUFSIZ =>
               tailpos(b) = headpos(b) + (b.tail - b.head) - TASKBUFSIZ
<1> DEFINE n == b.tail - b.head
<1>1. n \in Nat /\ n <= TASKBUFSIZ /\ b.tail = b.head + n /\ b.head \in Nat /\ b.tail \in Nat
  BY BufferAssumption DEF Buffers
<1>2. (b.head % TASKBUFSIZ) \in 0..TASKBUFSIZ - 1 /\ (b.tail % TASKBUFSIZ) \in 0..TASKBUFSIZ - 1
  BY <1>1, ModRange
<1>3. headpos(b) + n < TASKBUFSIZ => tailpos(b) = headpos(b) + n
  BY <1>1, ModNext DEF headpos, tailpos
<1>4. headpos(b) + n >= TASKBUFSIZ => tailpos(b) = headpos(b) + n - TASKBUFSIZ
  BY <1>1, ModWrap DEF headpos, tailpos
<1> QED BY <1>2, <1>3, <1>4 DEF headpos, tailpos

LEMMA Counts ==
  ASSUME NEW V, NEW b \in Buffers(V)
  PROVE  b.head \in Nat /\ b.tail \in Nat /\ b.head <= b.tail
         /\ b.tail <= b.head + TASKBUFSIZ
BY DEF Buffers

(* What read_to_taskbuf asks of read() stays inside the cells and leaves   *)
(* alone those that hold something; it is nothing only for a full buffer.  *)
THEOREM RoomFits ==
  ASSUME NEW V, NEW b \in Buffers(V)
  PROVE  /\ Room(b) \in 0..TASKBUFSIZ - (b.tail - b.head)
         /\ tailpos(b) + Room(b) <= TASKBUFSIZ
         /\ Room(b) = 0 <=> b.tail - b.head = TASKBUFSIZ
<1>1. CASE b.head = b.tail
  BY <1>1, Positions, Counts, BufferAssumption DEF Room
<1>2. CASE b.head # b.tail /\ headpos(b) < tailpos(b)
  BY <1>2, Positions, Counts, BufferAssumption DEF Room
<1>3. CASE b.head # b.tail /\ ~ (headpos(b) < tailpos(b))
  <2>1. tailpos(b) = headpos(b) + (b.tail - b.head) - TASKBUFSIZ
    BY <1>3, Positions, Counts, BufferAssumption
  <2>2. Room(b) = headpos(b) - tailpos(b)
    BY <1>3 DEF Room
  <2> QED BY <1>3, <2>1, <2>2, Positions, Counts, BufferAssumption
<1> QED BY <1>1, <1>2, <1>3

(* What write_from_taskbuf gives to write() stays inside the cells and     *)
(* inside what the buffer holds; it is nothing only for an empty buffer.   *)
THEOREM SpanFits ==
  ASSUME NEW V, NEW b \in Buffers(V)
  PROVE  /\ Span(b) \in 0..b.tail - b.head
         /\ headpos(b) + Span(b) <= TASKBUFSIZ
         /\ Span(b) = 0 <=> b.tail = b.head
BY Positions, Counts, BufferAssumption DEF Span

LEMMA CellOf ==
  ASSUME NEW V, NEW b \in Buffers(V), NEW i \in 0..TASKBUFSIZ
  PROVE  Cell(b, i) = IF headpos(b) + i < TASKBUFSIZ THEN headpos(b) + i
                      ELSE headpos(b) + i - TASKBUFSIZ
<1>1. b.head \in Nat /\ i \in Nat /\ i <= TASKBUFSIZ /\ headpos(b) = b.head % TASKBUFSIZ
      /\ headpos(b) \in Nat /\ TASKBUFSIZ \in Nat
  BY Counts, Positions, BufferAssumption DEF headpos
<1>2. CASE headpos(b) + i < TASKBUFSIZ
  BY <1>1, <1>2, ModNext DEF Cell
<1>3. CASE headpos(b) + i >= TASKBUFSIZ
  BY <1>1, <1>3, ModWrap DEF Cell
<1> QED BY <1>1, <1>2, <1>3

LEMMA HeldType ==
  ASSUME NEW V, NEW b \in Buffers(V)
  PROVE  Held(b) \in Seq(V) /\ Len(Held(b)) = b.tail - b.head
<1>1. b.tail - b.head \in Nat /\ b.tail - b.head <= TASKBUFSIZ
  BY Counts, BufferAssumption
<1>2. ASSUME NEW i \in 1..b.tail - b.head
      PROVE  b.buf[Cell(b, i - 1)] \in V
  <2>1. b.head + (i - 1) \in Nat
    BY <1>1, Counts
  <2>2. Cell(b, i - 1) \in 0..TASKBUFSIZ - 1
    BY <2>1, ModRange DEF Cell
  <2> QED BY <2>2 DEF Buffers
<1> QED BY <1>1, <1>2 DEF Held

LEMMA Concat ==
  ASSUME NEW V, NEW s \in Seq(V), NEW t \in Seq(V)
  PROVE  s \o t = [i \in 1..Len(s) + Len(t) |-> IF i <= Len(s) THEN s[i] ELSE t[i - Len(s)]]
<1> DEFINE u == s \o t
<1>1. /\ u \in Seq(V) /\ Len(u) = Len(s) + Len(t)
      /\ \A i \in 1..Len(s) + Len(t) : u[i] = IF i <= Len(s) THEN s[i] ELSE t[i - Len(s)]
  BY ConcatProperties
<1>2. u = [i \in 1..Len(u) |-> u[i]]
  <2> HIDE DEF u
  <2> QED BY <1>1
<1> HIDE DEF u
<1>3. u = [i \in 1..Len(s) + Len(t) |-> IF i <= Len(s) THEN s[i] ELSE t[i - Len(s)]]
  BY <1>1, <1>2
<1> QED BY <1>3 DEF u

(* The cells that hold something and those that a read fills.              *)
LEMMA Apart ==
  ASSUME NEW m \in Nat, NEW h \in 0..m - 1, NEW t \in 0..m - 1,
         NEW n \in Nat, NEW k \in Nat, n + k <= m,
         h + n < m => t = h + n, h + n >= m => t = h + n - m,
         NEW i \in 0..n - 1,
         NEW c, c = IF h + i < m THEN h + i ELSE h + i - m
  PROVE  c \in 0..m - 1 /\ (c < t \/ t + k <= c)
<1>1. CASE h + i < m
  BY <1>1
<1>2. CASE h + i >= m
  BY <1>2
<1> QED BY <1>1, <1>2

(* read_to_taskbuf appends what it read to what the buffer holds, at any   *)
(* wrapping of head and tail.                                              *)
THEOREM ReadAppends ==
  ASSUME NEW V, NEW b \in Buffers(V), NEW s \in Seq(V), Len(s) <= Room(b)
  PROVE  /\ ReadInto(b, s) \in Buffers(V)
         /\ Held(ReadInto(b, s)) = Held(b) \o s
<1> DEFINE a == ReadInto(b, s)
           n == b.tail - b.head
           t == tailpos(b)
<1>0. Len(s) \in Nat /\ TASKBUFSIZ \in Nat \ {0}
  BY BufferAssumption
<1>1. n \in Nat /\ b.tail = b.head + n /\ b.head \in Nat /\ b.tail \in Nat
  BY Counts
<1>2. n + Len(s) <= TASKBUFSIZ /\ t + Len(s) <= TASKBUFSIZ /\ t \in 0..TASKBUFSIZ - 1
  <2>1. Room(b) \in 0..TASKBUFSIZ - n /\ t + Room(b) <= TASKBUFSIZ /\ t \in 0..TASKBUFSIZ - 1
    BY RoomFits, Positions
  <2> HIDE DEF n, t
  <2> QED BY <1>0, <1>1, <2>1
<1> DEFINE new == [i \in 0..TASKBUFSIZ - 1 |->
                    IF i - t \in 0..Len(s) - 1 THEN s[i - t + 1] ELSE b.buf[i]]
<1>3. /\ b \in [head : Nat, tail : Nat, total_written : Nat, buf : [0..TASKBUFSIZ - 1 -> V]]
      /\ DOMAIN b.buf = 0..TASKBUFSIZ - 1
  BY DEF Buffers
<1>4. a = [b EXCEPT !.tail = b.tail + Len(s), !.buf = new]
  BY <1>3 DEF ReadInto
<1>5. a.head = b.head /\ a.tail = b.tail + Len(s) /\ a.buf = new
  BY <1>3, <1>4
<1>6. a \in Buffers(V)
  <2>1. new \in [0..TASKBUFSIZ - 1 -> V]
    <3>1. ASSUME NEW i \in 0..TASKBUFSIZ - 1, i - t \in 0..Len(s) - 1
          PROVE  s[i - t + 1] \in V
      <4>1. i - t + 1 \in 1..Len(s)
        BY <1>0, <1>2, <3>1
      <4> QED BY <4>1
    <3> QED BY <1>3, <3>1
  <2>2. b.tail + Len(s) \in Nat /\ b.head <= b.tail + Len(s)
        /\ b.tail + Len(s) <= b.head + TASKBUFSIZ
    BY SMTT(30), <1>0, <1>1, <1>2
  <2> HIDE DEF new, a
  <2> QED BY <1>3, <1>4, <2>1, <2>2 DEF Buffers
<1>7. ASSUME NEW i \in 1..n
      PROVE  new[Cell(b, i - 1)] = b.buf[Cell(b, i - 1)]
  <2>1. /\ i - 1 \in 0..n - 1 /\ i - 1 \in 0..TASKBUFSIZ
        /\ headpos(b) \in 0..TASKBUFSIZ - 1
        /\ headpos(b) + n < TASKBUFSIZ => t = headpos(b) + n
        /\ headpos(b) + n >= TASKBUFSIZ => t = headpos(b) + n - TASKBUFSIZ
    BY <1>0, <1>1, <1>2, Positions
  <2>2. Cell(b, i - 1) \in 0..TASKBUFSIZ - 1
        /\ (Cell(b, i - 1) < t \/ t + Len(s) <= Cell(b, i - 1))
    <3>1. Cell(b, i - 1) = IF headpos(b) + (i - 1) < TASKBUFSIZ THEN headpos(b) + (i - 1)
                           ELSE headpos(b) + (i - 1) - TASKBUFSIZ
      BY <2>1, CellOf
    <3> HIDE DEF n, t
    <3> QED BY SMTT(30), <1>0, <1>1, <1>2, <2>1, <3>1, Apart
  <2> HIDE DEF t
  <2>3. ~ (Cell(b, i - 1) - t \in 0..Len(s) - 1)
    BY <1>0, <1>2, <2>2
  <2> QED BY <2>2, <2>3
<1>8. ASSUME NEW i \in n + 1..n + Len(s)
      PROVE  new[Cell(b, i - 1)] = s[i - n]
  <2>1. /\ i - n - 1 \in Nat /\ b.head + (i - 1) = b.tail + (i - n - 1)
        /\ t + (i - n - 1) < TASKBUFSIZ
    <3> HIDE DEF t, n
    <3> QED BY <1>0, <1>1, <1>2
  <2>2. Cell(b, i - 1) = t + (i - n - 1)
    BY <1>1, <2>1, ModNext DEF Cell, tailpos
  <2> HIDE DEF t, n
  <2>3. /\ t + (i - n - 1) \in 0..TASKBUFSIZ - 1
        /\ (t + (i - n - 1)) - t \in 0..Len(s) - 1
        /\ (t + (i - n - 1)) - t + 1 = i - n
    BY <1>0, <1>1, <1>2, <2>1
  <2> QED BY <2>2, <2>3
<1>9. Held(a) = [i \in 1..n + Len(s) |-> new[Cell(b, i - 1)]]
  <2>1. a.tail - a.head = n + Len(s)
    BY <1>0, <1>1, <1>5
  <2> QED BY <1>5, <2>1 DEF Held, Cell
<1>10. Held(b) \o s = [i \in 1..n + Len(s) |-> IF i <= n THEN Held(b)[i] ELSE s[i - n]]
  <2>1. Held(b) \in Seq(V) /\ Len(Held(b)) = n
    BY HeldType
  <2>2. Held(b) \o s = [i \in 1..Len(Held(b)) + Len(s) |->
                          IF i <= Len(Held(b)) THEN Held(b)[i] ELSE s[i - Len(Held(b))]]
    BY <2>1, Concat
  <2> QED BY <2>1, <2>2
<1>11. ASSUME NEW i \in 1..n + Len(s)
       PROVE  new[Cell(b, i - 1)] = IF i <= n THEN Held(b)[i] ELSE s[i - n]
  <2>1. ASSUME i <= n PROVE Held(b)[i] = b.buf[Cell(b, i - 1)] /\ i \in 1..n
    BY <1>0, <1>1, <2>1 DEF Held
  <2>2. ASSUME i > n PROVE i \in n + 1..n + Len(s)
    BY <1>0, <1>1, <2>2
  <2> HIDE DEF new, n
  <2> QED BY <1>0, <1>1, <1>7, <1>8, <2>1, <2>2
<1>12. Held(a) = Held(b) \o s
  <2> HIDE DEF new, n, a
  <2> QED BY <1>9, <1>10, <1>11
<1> QED BY <1>6, <1>12

(* write_from_taskbuf writes the front of what the buffer holds, and the   *)
(* rest stays, however much of the piece write() took.                     *)
THEOREM WriteTakesFront ==
  ASSUME NEW V, NEW b \in Buffers(V), NEW k \in 0..Span(b)
  PROVE  /\ WriteOut(b, k) \in Buffers(V)
         /\ Held(b) = Piece(b, k) \o Held(WriteOut(b, k))
<1> DEFINE a == WriteOut(b, k)
           n == b.tail - b.head
<1>0. k \in Nat /\ TASKBUFSIZ \in Nat \ {0}
  <2>1. Span(b) \in Int
    BY SpanFits, Counts
  <2> QED BY <2>1, BufferAssumption
<1>1. n \in Nat /\ b.tail = b.head + n /\ b.head \in Nat /\ b.tail \in Nat
      /\ n <= TASKBUFSIZ /\ headpos(b) \in 0..TASKBUFSIZ - 1
  BY Counts, Positions, BufferAssumption
<1>2. k <= n /\ headpos(b) + k <= TASKBUFSIZ
  <2>1. Span(b) \in 0..n /\ headpos(b) + Span(b) <= TASKBUFSIZ
    BY SpanFits
  <2> HIDE DEF n
  <2> QED BY <1>0, <1>1, <2>1
<1>3. b \in [head : Nat, tail : Nat, total_written : Nat, buf : [0..TASKBUFSIZ - 1 -> V]]
  BY DEF Buffers
<1>4. a.head = b.head + k /\ a.tail = b.tail /\ a.buf = b.buf
  BY <1>3 DEF WriteOut
<1>5. a \in Buffers(V)
  <2>1. b.head + k \in Nat /\ b.total_written + k \in Nat
        /\ b.head + k <= b.tail /\ b.tail <= b.head + k + TASKBUFSIZ
    BY <1>0, <1>1, <1>2, <1>3
  <2> QED BY <1>3, <1>4, <2>1 DEF WriteOut, Buffers
<1>6. Piece(b, k) = [i \in 1..k |-> Held(b)[i]]
  <2>1. ASSUME NEW i \in 1..k
        PROVE  Held(b)[i] = b.buf[headpos(b) + i - 1]
    <3>1. /\ i \in 1..n /\ i - 1 \in 0..TASKBUFSIZ
          /\ headpos(b) + (i - 1) < TASKBUFSIZ /\ headpos(b) + (i - 1) = headpos(b) + i - 1
      <4> HIDE DEF n
      <4> QED BY <1>0, <1>1, <1>2
    <3>2. Cell(b, i - 1) = headpos(b) + i - 1
      BY <3>1, CellOf
    <3> QED BY <3>1, <3>2 DEF Held
  <2> QED BY <2>1 DEF Piece
<1>7. Held(a) = [i \in 1..n - k |-> Held(b)[k + i]]
  <2>1. a.tail - a.head = n - k
    BY <1>0, <1>1, <1>4
  <2>2. ASSUME NEW i \in 1..n - k
        PROVE  a.buf[Cell(a, i - 1)] = Held(b)[k + i]
    <3>1. k + i \in 1..n /\ b.head + k + (i - 1) = b.head + (k + i - 1)
      <4> HIDE DEF n
      <4> QED BY <1>0, <1>1, <1>2
    <3> QED BY <1>4, <3>1 DEF Held, Cell
  <2> QED BY <2>1, <2>2 DEF Held
<1>8. Held(b) \in Seq(V) /\ Len(Held(b)) = n
  BY HeldType
<1>10. Held(a) \in Seq(V) /\ Len(Held(a)) = n - k
  <2>1. a.tail - a.head = n - k
    BY <1>0, <1>1, <1>4
  <2> HIDE DEF a
  <2> QED BY <1>5, <2>1, HeldType
<1> HIDE DEF n, a
<1>9. Piece(b, k) \in Seq(V) /\ Len(Piece(b, k)) = k
  BY <1>0, <1>1, <1>2, <1>6, <1>8
<1>11. Piece(b, k) \o Held(a) = [i \in 1..k + (n - k) |->
                                  IF i <= k THEN Piece(b, k)[i] ELSE Held(a)[i - k]]
  <2>1. Piece(b, k) \o Held(a)
          = [i \in 1..Len(Piece(b, k)) + Len(Held(a)) |->
               IF i <= Len(Piece(b, k)) THEN Piece(b, k)[i] ELSE Held(a)[i - Len(Piece(b, k))]]
    BY <1>9, <1>10, Concat
  <2> QED BY <1>9, <1>10, <2>1
<1>12. ASSUME NEW i \in 1..n
       PROVE  Held(b)[i] = IF i <= k THEN Piece(b, k)[i] ELSE Held(a)[i - k]
  <2>1. CASE i <= k
    <3>1. i \in 1..k
      BY <1>0, <1>1, <2>1
    <3> QED BY <1>6, <2>1, <3>1
  <2>2. CASE i > k
    <3>1. i - k \in 1..n - k /\ k + (i - k) = i /\ ~ (i <= k)
      BY <1>0, <1>1, <1>2, <2>2
    <3> QED BY <1>7, <3>1
  <2> QED BY <1>0, <1>1, <2>1, <2>2
<1>13. Held(b) = [i \in 1..n |-> Held(b)[i]]
  BY <1>8
<1>14. k + (n - k) = n
  BY <1>0, <1>1
<1>15. Held(b) = Piece(b, k) \o Held(a)
  BY <1>11, <1>12, <1>13, <1>14
<1> QED BY <1>5, <1>15 DEF a

---------------------------------------------------------------------------
(* Types *)

Inodes == {Free, Old} \cup (Children \X (Nat \ {0}))

Complaints == {"no peers", "names", "read error", "size", "slow", "empty", "digest",
               "request", "write error"}

Tasks ==
    [pc : Stages, buffer : Buffers(Digits), filename : FileNames \cup {NoName},
     peers : Seq(Peers), checksum : Seq(Digits), digest : Seq(Digits),
     disk : Names \cup {<<>>}, data : Seq(Seq(Digits)), pos : Nat,
     tries : 0..LocalNames, rate : [0..SAMPLESIZE - 1 -> Nat], j : Nat,
     conn : Conns \cup {0}, file : Inodes, opened : Nat, said : SUBSET Complaints]

Requests == {r \in [from : Children \cup {"main"},
                    what : {"a connection", "ADDR", "HAVE", "WANT", "MD5SUM"},
                    file : FileNames \cup {NoName}] :
                r.what \in {"HAVE", "WANT", "MD5SUM"} => r.file \in FileNames}

Answers == [ok : BOOLEAN, peers : Seq(Peers), sum : Seq(Digits)]

Mains == [pc : MainStages, argv : Seq(FileNames), task : Tasks,
          files : SUBSET FileNames, port : 0..Ports]

(* A file that a name stands for, or an upload has open, was made.         *)
Made(ino) == ino \in {Free, Old} \/
             (ino[1] \in Children /\ ino[2] \in DOMAIN job[ino[1]].data)

ITypes ==
    /\ scene \in Scenes /\ main \in Mains /\ job \in [Children -> Tasks]
    /\ dir \in [Names -> Inodes]
    /\ toTracker \in Seq(Requests) /\ fromTracker \in Seq(Answers)
    /\ received \in [Conns -> Seq(Digits)]
    /\ pid_counter \in Int /\ fails \in 0..scene.forkFails
    /\ waiting \in Seq(Conns) /\ dropped \subseteq Conns /\ advertised \subseteq FileNames

(* What a task is at each stage. *)
Talking == {"open", "read", "write", "check", "unlink", "retry"}
Downloading == Talking \cup {"connect", "have"}
Uploading == {"request", "send", "fill"}

StageOK(j) ==
    /\ j.pc \in Downloading => j.filename \in FileNames
    /\ j.pc \in Talking => j.peers # <<>>
    /\ j.pc \in Uploading => j.conn \in Conns
    /\ j.pc \in {"send", "fill"} => j.filename \in FileNames /\ j.file # Free
    /\ j.pc \in {"none", "await"} \cup Downloading => j.conn = 0

Fresh(j) == j.data = <<>> /\ j.buffer = NewBuffer /\ j.file = Free /\ j.pos = 0 /\ j.said = {}

\* The task of main while it is getting it ready for a child.
MainOK(m) ==
    /\ m.pc \in {"want?", "sum", "sum?", "fork"} => m.argv # <<>>
    /\ m.pc \in {"sum", "sum?", "fork"} =>
          Fresh(m.task) /\ m.task.pc = "connect" /\ StageOK(m.task)
    /\ m.pc = "serve" => Fresh(m.task) /\ m.task.pc = "request" /\ StageOK(m.task)

IStages ==
    /\ \A c \in Children : StageOK(job[c]) /\ (job[c].pc = "none" => job[c].data = <<>>)
    /\ MainOK(main)

(* Children are numbered in the order in which they were forked. *)
InOrder == \E k \in Nat : Started = 1..k

(* Names stand for files that were made, and such files are opened. *)
IMade == (\A n \in Names : Made(dir[n])) /\ (\A c \in Children : Made(job[c].file))

IType == ITypes /\ IStages /\ InOrder /\ IMade

---------------------------------------------------------------------------
(* The constants *)

LEMMA Bytes1 ==
    /\ 0 \in Digits
    /\ \A f \in FileNames : Content[f] \in Seq(Digits)
    /\ \A p \in Peers, f \in FileNames : Serves[p][f].stream \in Seq(Digits)
<1> DEFINE All == {Content[f] : f \in FileNames} \cup {Serves[p][f].stream : p \in Peers, f \in FileNames}
<1>1. \A s \in All : s \in Seq(Nat)
  BY TransferAssumption
<1>2. ASSUME NEW s \in All PROVE s \in Seq(Digits)
  <2>1. s \in Seq(Nat)
    BY <1>1
  <2>2. \A i \in 1..Len(s) : s[i] \in Digits
    <3>1. {s[i] : i \in DOMAIN s} \subseteq Digits
      BY DEF Digits
    <3>2. DOMAIN s = 1..Len(s)
      BY <2>1
    <3>3. ASSUME NEW i \in 1..Len(s) PROVE s[i] \in Digits
      <4>1. s[i] \in {s[k] : k \in DOMAIN s}
        BY <3>2
      <4> QED BY <3>1, <4>1
    <3> QED BY <3>3
  <2>3. s = [i \in 1..Len(s) |-> s[i]]
    BY <2>1
  <2> QED BY <2>1, <2>2, SeqDef
<1>3. 0 \in Digits
  BY DEF Digits
<1> QED BY <1>2, <1>3

LEMMA SceneIs ==
    ASSUME ITypes
    PROVE  /\ scene.registers \in BOOLEAN /\ scene.forkFails \in Nat
           /\ scene.lists \in [FileNames -> Seq(Peers)]
           /\ scene.knows \subseteq FileNames /\ scene.sums \subseteq FileNames
  BY SceneAssumption, Zenon DEF ITypes

LEMMA NewTask ==
    ASSUME NEW pc \in Stages
    PROVE  task_new(pc) \in Tasks /\ Fresh(task_new(pc)) /\ task_new(pc).conn = 0
           /\ task_new(pc).pc = pc
<1>1. NewBuffer \in Buffers(Digits)
  BY Bytes1, BufferAssumption DEF NewBuffer, Buffers
<1>2. NewSamples \in [0..SAMPLESIZE - 1 -> Nat]
  <2>1. \A a \in Nat, b \in Nat : a * b \in Nat
    OBVIOUS
  <2> QED BY <2>1, TransferAssumption DEF NewSamples
<1>3. <<>> \in Seq(Peers) /\ <<>> \in Seq(Digits) /\ <<>> \in Seq(Seq(Digits))
  OBVIOUS
<1> QED BY <1>1, <1>2, <1>3, TransferAssumption DEF task_new, Tasks, Fresh, Inodes

---------------------------------------------------------------------------
(* A step of a child *)

(* What a child's file holds after a step begins with what it held.        *)
Extends(s, t) == Len(s) <= Len(t) /\ \A i \in 1..Len(s) : t[i] = s[i]

Grown(old, new) ==
    /\ Len(old) <= Len(new)
    /\ \A k \in 1..Len(old) : Extends(old[k], new[k])

LEMMA SameGrown == ASSUME NEW d \in Seq(Seq(Digits)) PROVE Grown(d, d)
<1>1. \A k \in 1..Len(d) : d[k] \in Seq(Digits)
  OBVIOUS
<1> QED BY <1>1 DEF Grown, Extends

(* What every step of a child does to the task it works on. *)
TaskStep(c) ==
    /\ job' = [job EXCEPT ![c] = job'[c]]
    /\ job'[c] \in Tasks /\ StageOK(job'[c])
    /\ job[c].pc # "none" /\ job'[c].pc # "none"
    /\ Grown(job[c].data, job'[c].data) /\ Made(job'[c].file)

LEMMA ByBecoming ==
    ASSUME ITypes, NEW c \in Children, job[c].pc # "none", NEW t \in Tasks,
           StageOK(t), t.pc # "none", Made(t.file), Grown(job[c].data, t.data),
           Becomes(c, t)
    PROVE  TaskStep(c)
  BY DEF ITypes, Becomes, TaskStep

(* The stages that may follow each other as long as the task stays the same. *)
Goes(p, q) ==
    \/ q = "ended"
    \/ p \in Talking /\ q \in Talking \cup {"have"}
    \/ p = "have" /\ q = "await"
    \/ p \in {"send", "fill"} /\ q \in {"send", "fill"}

SameTask(t, u) ==
    u.filename = t.filename /\ u.conn = t.conn /\ u.peers = t.peers /\ u.file = t.file

LEMMA StageKept ==
    ASSUME NEW t \in Tasks, NEW u \in Tasks, StageOK(t), SameTask(t, u), Goes(t.pc, u.pc)
    PROVE  StageOK(u) /\ u.pc # "none"
  BY DEF StageOK, SameTask, Goes, Talking, Downloading, Uploading

LEMMA PlainStep ==
    ASSUME ITypes, IStages, IMade, NEW c \in Children, job[c].pc # "none", NEW u \in Tasks,
           SameTask(job[c], u), Goes(job[c].pc, u.pc), Grown(job[c].data, u.data),
           Becomes(c, u)
    PROVE  TaskStep(c)
<1>1. job[c] \in Tasks /\ StageOK(job[c])
  BY DEF ITypes, IStages
<1>2. StageOK(u) /\ u.pc # "none"
  BY <1>1, StageKept
<1>3. Made(u.file)
  BY DEF IMade, SameTask
<1> QED BY <1>2, <1>3, ByBecoming

LEMMA PcTask ==
    ASSUME NEW t \in Tasks, NEW p \in Stages
    PROVE  LET u == [t EXCEPT !.pc = p] IN
           u \in Tasks /\ u.pc = p /\ u.data = t.data /\ SameTask(t, u)
  BY DEF Tasks, SameTask

LEMMA SaysTask ==
    ASSUME NEW t \in Tasks, NEW w \in Complaints, NEW p \in Stages
    PROVE  LET u == [Says(t, w) EXCEPT !.pc = p] IN
           u \in Tasks /\ u.pc = p /\ u.data = t.data /\ SameTask(t, u)
<1>1. t.said \cup {w} \in SUBSET Complaints
  BY DEF Tasks
<1> QED BY <1>1 DEF Tasks, Says, SameTask

LEMMA Unchanging == ASSUME ITypes, NEW c \in Children PROVE Grown(job[c].data, job[c].data)
  BY SameGrown DEF ITypes, Tasks

LEMMA MovesOn ==
    ASSUME ITypes, IStages, IMade, NEW c \in Children, job[c].pc # "none", NEW p \in Stages,
           Goes(job[c].pc, p), Becomes(c, [job[c] EXCEPT !.pc = p])
    PROVE  TaskStep(c)
<1> DEFINE u == [job[c] EXCEPT !.pc = p]
<1>1. u \in Tasks /\ u.pc = p /\ u.data = job[c].data /\ SameTask(job[c], u) /\ Becomes(c, u)
  BY PcTask DEF ITypes
<1> HIDE DEF u
<1> QED BY <1>1, PlainStep, Unchanging

LEMMA Complains ==
    ASSUME ITypes, IStages, IMade, NEW c \in Children, job[c].pc # "none", NEW p \in Stages,
           NEW w \in Complaints, Goes(job[c].pc, p),
           Becomes(c, [Says(job[c], w) EXCEPT !.pc = p])
    PROVE  TaskStep(c)
<1> DEFINE u == [Says(job[c], w) EXCEPT !.pc = p]
<1>1. u \in Tasks /\ u.pc = p /\ u.data = job[c].data /\ SameTask(job[c], u) /\ Becomes(c, u)
  BY SaysTask DEF ITypes
<1> HIDE DEF u
<1> QED BY <1>1, PlainStep, Unchanging

LEMMA SampleNumber == ASSUME NEW x \in Nat PROVE (x % SAMPLESIZE) \in 0..SAMPLESIZE - 1
<1>1. SAMPLESIZE \in Nat \ {0}
  BY TransferAssumption
<1> QED BY <1>1

LEMMA SamplesType == NewSamples \in [0..SAMPLESIZE - 1 -> Nat]
<1>1. \A a \in Nat, b \in Nat : a * b \in Nat
  OBVIOUS
<1> QED BY <1>1, TransferAssumption DEF NewSamples

LEMMA PieceType ==
    ASSUME NEW b \in Buffers(Digits), NEW k \in 0..Span(b) PROVE Piece(b, k) \in Seq(Digits)
<1>1. headpos(b) \in 0..TASKBUFSIZ - 1 /\ Span(b) \in Nat /\ headpos(b) + Span(b) <= TASKBUFSIZ
  BY Positions, SpanFits, Counts
<1>2. \A i \in 1..k : headpos(b) + i - 1 \in 0..TASKBUFSIZ - 1
  BY <1>1, BufferAssumption
<1>3. \A i \in 1..k : b.buf[headpos(b) + i - 1] \in Digits
  BY <1>2 DEF Buffers
<1> QED BY <1>1, <1>3 DEF Piece

LEMMA ConnectStep ==
    ASSUME ITypes, IStages, IMade, NEW c \in Children, Connect(c) PROVE TaskStep(c)
<1> DEFINE t == job[c]
<1>0. t \in Tasks /\ StageOK(t) /\ t.pc = "connect" /\ Made(t.file)
  BY DEF ITypes, IStages, IMade, Connect, At
<1>1. CASE Becomes(c, [Says(t, "no peers") EXCEPT !.pc = "ended"])
  BY <1>0, <1>1, Complains DEF Stages, Complaints, Goes
<1>2. CASE t.peers # <<>> /\ Becomes(c, [t EXCEPT !.pc = "retry"])
  <2> DEFINE u == [t EXCEPT !.pc = "retry"]
  <2>1. u \in Tasks /\ u.pc = "retry" /\ u.data = t.data /\ SameTask(t, u)
    BY <1>0, PcTask DEF Stages
  <2>2. StageOK(u) /\ Made(u.file)
    BY <1>0, <1>2, <2>1 DEF StageOK, Downloading, Uploading, Talking, SameTask
  <2>3. Becomes(c, u)
    BY <1>2
  <2> HIDE DEF u
  <2> QED BY <1>0, <2>1, <2>2, <2>3, ByBecoming, Unchanging
<1>3. CASE t.peers # <<>> /\ Becomes(c, [t EXCEPT !.pc = "open", !.tries = 0, !.pos = 0,
                                                 !.rate = NewSamples, !.j = 0])
  <2> DEFINE u == [t EXCEPT !.pc = "open", !.tries = 0, !.pos = 0, !.rate = NewSamples, !.j = 0]
  <2>1. u \in Tasks /\ u.pc = "open" /\ u.data = t.data /\ SameTask(t, u)
    <3>1. "open" \in Stages /\ 0 \in 0..LocalNames /\ 0 \in Nat
      BY TransferAssumption DEF Stages
    <3> HIDE DEF t
    <3> QED BY <1>0, <3>1, SamplesType DEF Tasks, SameTask
  <2>2. StageOK(u) /\ Made(u.file)
    BY <1>0, <1>3, <2>1 DEF StageOK, Downloading, Uploading, Talking, SameTask
  <2>3. Becomes(c, u)
    BY <1>3
  <2> HIDE DEF u
  <2> QED BY <1>0, <2>1, <2>2, <2>3, ByBecoming, Unchanging
<1> QED BY <1>1, <1>2, <1>3 DEF Connect

LEMMA OpenStep ==
    ASSUME ITypes, IStages, IMade, NEW c \in Children, OpenDisk(c) PROVE TaskStep(c)
<1> DEFINE t == job[c]
<1>0. t \in Tasks /\ StageOK(t) /\ t.pc = "open" /\ t.filename \in FileNames
  BY DEF ITypes, IStages, OpenDisk, At, StageOK, Downloading, Talking
<1> DEFINE i == t.tries
           n == <<t.filename, i>>
<1>1. i \in 0..LocalNames /\ (i < LocalNames => n \in Names /\ i + 1 \in 0..LocalNames)
  <2>1. i \in 0..LocalNames
    BY <1>0 DEF Tasks
  <2> HIDE DEF i
  <2>2. LocalNames \in Nat
    BY TransferAssumption
  <2>3. i < LocalNames => i \in 0..LocalNames - 1 /\ i + 1 \in 0..LocalNames
    BY <2>1, <2>2
  <2> QED BY <1>0, <2>1, <2>3 DEF Names
<1>2. CASE i < LocalNames /\ Becomes(c, [t EXCEPT !.tries = i + 1, !.disk = n])
  <2> DEFINE u == [t EXCEPT !.tries = i + 1, !.disk = n]
  <2>1. u \in Tasks /\ u.pc = t.pc /\ u.data = t.data /\ SameTask(t, u)
    <3>1. i + 1 \in 0..LocalNames /\ n \in Names
      BY <1>1, <1>2
    <3> HIDE DEF t, n, i
    <3> QED BY <1>0, <3>1 DEF Tasks, SameTask
  <2>2. Goes(t.pc, u.pc) /\ t.pc # "none"
    BY <1>0, <2>1 DEF Goes, Talking
  <2>3. Becomes(c, u)
    BY <1>2
  <2> HIDE DEF u
  <2> QED BY <2>1, <2>2, <2>3, PlainStep, Unchanging
<1>3. CASE i < LocalNames /\ Becomes(c, [t EXCEPT !.pc = "read", !.disk = n, !.data = Append(@, <<>>)])
  <2> DEFINE u == [t EXCEPT !.pc = "read", !.disk = n, !.data = Append(t.data, <<>>)]
  <2>0. t.data \in Seq(Seq(Digits)) /\ <<>> \in Seq(Digits)
    BY <1>0 DEF Tasks
  <2>1. u \in Tasks /\ u.pc = "read" /\ u.data = Append(t.data, <<>>) /\ SameTask(t, u)
    <3>1. "read" \in Stages /\ n \in Names
      BY <1>1, <1>3 DEF Stages
    <3>2. Append(t.data, <<>>) \in Seq(Seq(Digits))
      BY <2>0
    <3> HIDE DEF t, n, i
    <3> QED BY <1>0, <3>1, <3>2 DEF Tasks, SameTask
  <2>2. Goes(t.pc, u.pc) /\ t.pc # "none"
    BY <1>0, <2>1 DEF Goes, Talking
  <2>3. Becomes(c, u)
    BY <1>3
  <2>4. Grown(t.data, u.data)
    <3> HIDE DEF t, u
    <3>1. \A k \in 1..Len(t.data) : t.data[k] \in Seq(Digits) /\ u.data[k] = t.data[k]
      BY <2>0, <2>1
    <3>2. Len(u.data) = Len(t.data) + 1
      BY <2>0, <2>1
    <3> QED BY <2>0, <3>1, <3>2 DEF Grown, Extends
  <2> HIDE DEF u
  <2> QED BY <2>1, <2>2, <2>3, <2>4, PlainStep
<1>4. CASE Becomes(c, [Says(t, "names") EXCEPT !.pc = "ended", !.disk = <<>>])
  <2> DEFINE v == [Says(t, "names") EXCEPT !.pc = "ended"]
             u == [v EXCEPT !.disk = <<>>]
  <2>0. "names" \in Complaints /\ "ended" \in Stages
    BY DEF Stages, Complaints
  <2>1. v \in Tasks /\ v.pc = "ended" /\ v.data = t.data /\ SameTask(t, v)
    BY <1>0, <2>0, SaysTask
  <2>2. u \in Tasks /\ u.pc = "ended" /\ u.data = t.data /\ SameTask(t, u)
    <3> HIDE DEF v, t
    <3> QED BY <2>1 DEF Tasks, SameTask
  <2>3. Becomes(c, u)
    BY <1>4
  <2>4. Goes(t.pc, u.pc) /\ t.pc # "none"
    BY <1>0, <2>2 DEF Goes
  <2> HIDE DEF u
  <2> QED BY <2>2, <2>3, <2>4, PlainStep, Unchanging
<1> QED BY <1>2, <1>3, <1>4 DEF OpenDisk

(* What is left of a peer's stream, and a piece of it. *)
LEMMA RestType ==
    ASSUME NEW s \in Seq(Digits), NEW m \in Nat
    PROVE  /\ SubSeq(s, m + 1, Len(s)) \in Seq(Digits)
           /\ Len(SubSeq(s, m + 1, Len(s))) = IF m < Len(s) THEN Len(s) - m ELSE 0
           /\ \A i \in 1..Len(s) - m : SubSeq(s, m + 1, Len(s))[i] = s[m + i]
<1>1. CASE m + 1 <= Len(s)
  BY <1>1, SubSeqProperties
<1>2. CASE m + 1 > Len(s)
  BY <1>2, SubSeqProperties
<1> QED BY <1>1, <1>2

LEMMA FrontType ==
    ASSUME NEW s \in Seq(Digits), NEW n \in 0..Len(s)
    PROVE  /\ SubSeq(s, 1, n) \in Seq(Digits) /\ Len(SubSeq(s, 1, n)) = n
           /\ \A i \in 1..n : SubSeq(s, 1, n)[i] = s[i]
<1>1. CASE n = 0
  BY <1>1, SubSeqProperties
<1>2. CASE n > 0
  BY <1>2, SubSeqProperties
<1> QED BY <1>1, <1>2

LEMMA ReadStep ==
    ASSUME ITypes, IStages, IMade, NEW c \in Children, ReadPeer(c) PROVE TaskStep(c)
<1> DEFINE t == job[c]
           left == Rest(t)
<1>0. t \in Tasks /\ StageOK(t) /\ t.pc = "read" /\ t.filename \in FileNames
      /\ t.peers # <<>> /\ t.peers \in Seq(Peers)
  BY DEF ITypes, IStages, ReadPeer, At, StageOK, Downloading, Talking, Tasks
<1>1. left \in Seq(Digits)
  <2>1. Peer(t) \in Peers
    BY <1>0 DEF Peer
  <2>2. Sends(t).stream \in Seq(Digits)
    BY <1>0, <2>1, Bytes1 DEF Sends
  <2>3. t.pos \in Nat
    BY <1>0 DEF Tasks
  <2> QED BY <2>2, <2>3, RestType DEF Rest
<1>2. ASSUME NEW n \in 1..Len(left), n <= Room(t.buffer),
             Becomes(c, [t EXCEPT !.pc = "write", !.pos = @ + n,
                                  !.buffer = ReadInto(t.buffer, SubSeq(left, 1, n)),
                                  !.digest = Hashed(t, SubSeq(left, 1, n))])
      PROVE  TaskStep(c)
  <2> DEFINE s == SubSeq(left, 1, n)
             u == [t EXCEPT !.pc = "write", !.pos = @ + n, !.buffer = ReadInto(t.buffer, s),
                            !.digest = Hashed(t, s)]
  <2>1. s \in Seq(Digits) /\ Len(s) = n
    BY <1>1, FrontType
  <2>2. ReadInto(t.buffer, s) \in Buffers(Digits)
    BY <1>0, <1>2, <2>1, ReadAppends DEF Tasks
  <2>3. Hashed(t, s) \in Seq(Digits) /\ t.pos + n \in Nat
    BY SMTT(30), <1>0, <2>1 DEF Hashed, Tasks
  <2>4. u \in Tasks /\ u.pc = "write" /\ u.data = t.data /\ SameTask(t, u)
    <3>1. "write" \in Stages
      BY DEF Stages
    <3> HIDE DEF t, s
    <3> QED BY <1>0, <2>2, <2>3, <3>1 DEF Tasks, SameTask
  <2>5. Goes(t.pc, u.pc) /\ t.pc # "none"
    BY <1>0, <2>4 DEF Goes, Talking
  <2>6. Becomes(c, u)
    BY <1>2
  <2> HIDE DEF u
  <2> QED BY <2>4, <2>5, <2>6, PlainStep, Unchanging
<1>3. ASSUME NEW p \in {"check", "write"}, Becomes(c, [t EXCEPT !.pc = p]) PROVE TaskStep(c)
  <2>1. p \in Stages /\ Goes(t.pc, p) /\ t.pc # "none"
    BY <1>0 DEF Goes, Talking, Stages
  <2> QED BY <1>3, <2>1, MovesOn
<1>4. CASE Becomes(c, [Says(t, "read error") EXCEPT !.pc = "retry"])
  <2>1. "retry" \in Stages /\ "read error" \in Complaints /\ Goes(t.pc, "retry") /\ t.pc # "none"
    BY <1>0 DEF Goes, Talking, Stages, Complaints
  <2> QED BY <1>4, <2>1, Complains
<1> QED BY <1>2, <1>3, <1>4 DEF ReadPeer

LEMMA WriteStep ==
    ASSUME ITypes, IStages, IMade, NEW c \in Children, WriteDisk(c) PROVE TaskStep(c)
<1> DEFINE t == job[c]
           b == t.buffer
           n == Span(b)
           r == [t.rate EXCEPT ![t.j % SAMPLESIZE] = n]
           d == [t.data EXCEPT ![Len(t.data)] = @ \o Piece(b, n)]
           next == [t EXCEPT !.buffer = WriteOut(b, n), !.data = d, !.rate = r, !.j = (@ % SAMPLESIZE) + 1]
<1>0. t \in Tasks /\ StageOK(t) /\ t.pc = "write"
  BY DEF ITypes, IStages, WriteDisk, At
<1>1. b \in Buffers(Digits) /\ t.data \in Seq(Seq(Digits)) /\ t.j \in Nat
      /\ t.rate \in [0..SAMPLESIZE - 1 -> Nat]
  BY <1>0 DEF Tasks
<1>2. n \in Nat /\ n \in 0..Span(b) /\ Piece(b, n) \in Seq(Digits) /\ WriteOut(b, n) \in Buffers(Digits)
  <2>1. n \in Nat
    BY <1>1, SpanFits, Counts
  <2>2. n \in 0..Span(b)
    BY <2>1
  <2> QED BY <1>1, <2>1, <2>2, PieceType, WriteTakesFront
<1>3. d \in Seq(Seq(Digits)) /\ Grown(t.data, d)
  <2> DEFINE o == t.data
             p == Piece(b, n)
  <2>1. o \in Seq(Seq(Digits)) /\ p \in Seq(Digits)
    BY <1>1, <1>2
  <2>2. d = [o EXCEPT ![Len(o)] = @ \o p]
    OBVIOUS
  <2> HIDE DEF o, p, d
  <2>3. ASSUME NEW k \in 1..Len(o)
        PROVE  d[k] \in Seq(Digits) /\ Extends(o[k], d[k])
    <3>1. o[k] \in Seq(Digits) /\ (o[k] \o p) \in Seq(Digits)
      BY <2>1
    <3>2. d[k] = IF k = Len(o) THEN o[k] \o p ELSE o[k]
      BY <2>1, <2>2
    <3> QED BY <2>1, <3>1, <3>2, ConcatProperties DEF Extends
  <2>4. DOMAIN d = 1..Len(o) /\ d = [k \in 1..Len(o) |-> d[k]]
    <3>1. DOMAIN o = 1..Len(o)
      BY <2>1
    <3>2. d = [k \in DOMAIN o |-> IF k = Len(o) THEN o[k] \o p ELSE o[k]]
      BY <2>2
    <3> QED BY <3>1, <3>2
  <2>5. d \in Seq(Seq(Digits)) /\ Len(d) = Len(o)
    BY <2>1, <2>3, <2>4
  <2> QED BY <2>1, <2>3, <2>5 DEF Grown, o
<1>4. r \in [0..SAMPLESIZE - 1 -> Nat] /\ (t.j % SAMPLESIZE) + 1 \in Nat
  <2> DEFINE x == t.j % SAMPLESIZE
             s == t.rate
  <2>1. x \in 0..SAMPLESIZE - 1 /\ s \in [0..SAMPLESIZE - 1 -> Nat] /\ r = [s EXCEPT ![x] = n]
    BY <1>1, SampleNumber
  <2> HIDE DEF x, s, n, r
  <2>2. x \in Nat
    BY <2>1, TransferAssumption
  <2>3. r \in [0..SAMPLESIZE - 1 -> Nat] /\ x + 1 \in Nat
    BY <1>2, <2>1, <2>2
  <2> QED BY <2>3 DEF x
<1>5. next \in Tasks /\ next.pc = t.pc /\ next.data = d /\ SameTask(t, next)
  <2> HIDE DEF t, d, r
  <2> QED BY <1>0, <1>2, <1>3, <1>4 DEF Tasks, SameTask
<1>6. Becomes(c, IF next.buffer.total_written > MAX_FILESIZE
                 THEN [Says(next, "size") EXCEPT !.pc = "unlink"]
                 ELSE IF Total(r) \div SAMPLESIZE < MIN_TRANSRATE
                 THEN [Says(next, "slow") EXCEPT !.pc = "retry"]
                 ELSE [next EXCEPT !.pc = "read"])
  <2> DEFINE nx == [t EXCEPT !.buffer = WriteOut(b, n), !.data[Len(t.data)] = @ \o Piece(b, n),
                             !.rate = r, !.j = (@ % SAMPLESIZE) + 1]
  <2>1. Becomes(c, IF nx.buffer.total_written > MAX_FILESIZE
                   THEN [Says(nx, "size") EXCEPT !.pc = "unlink"]
                   ELSE IF Total(r) \div SAMPLESIZE < MIN_TRANSRATE
                   THEN [Says(nx, "slow") EXCEPT !.pc = "retry"]
                   ELSE [nx EXCEPT !.pc = "read"])
    BY Zenon DEF WriteDisk
  <2>2. nx = next
    OBVIOUS
  <2> HIDE DEF nx, next
  <2> QED BY <2>1, <2>2
<1> HIDE DEF next
<1>7. ASSUME NEW w \in Complaints, NEW p \in {"unlink", "retry"},
             Becomes(c, [Says(next, w) EXCEPT !.pc = p])
      PROVE  TaskStep(c)
  <2> DEFINE u == [Says(next, w) EXCEPT !.pc = p]
  <2>0. p \in Stages
    BY DEF Stages
  <2>1. u \in Tasks /\ u.pc = p /\ u.data = next.data /\ SameTask(next, u) /\ Becomes(c, u)
    BY <1>5, <1>7, <2>0, SaysTask
  <2> HIDE DEF u, t
  <2>2. SameTask(t, u) /\ Goes(t.pc, u.pc) /\ t.pc # "none" /\ Grown(t.data, u.data)
    BY <1>0, <1>3, <1>5, <2>1 DEF Goes, Talking, SameTask
  <2> QED BY <2>1, <2>2, PlainStep DEF t
<1>8. CASE Becomes(c, [next EXCEPT !.pc = "read"])
  <2> DEFINE u == [next EXCEPT !.pc = "read"]
  <2>0. "read" \in Stages
    BY DEF Stages
  <2>1. u \in Tasks /\ u.pc = "read" /\ u.data = next.data /\ SameTask(next, u) /\ Becomes(c, u)
    BY <1>5, <1>8, <2>0, PcTask
  <2> HIDE DEF u, t
  <2>2. SameTask(t, u) /\ Goes(t.pc, u.pc) /\ t.pc # "none" /\ Grown(t.data, u.data)
    BY <1>0, <1>3, <1>5, <2>1 DEF Goes, Talking, SameTask
  <2> QED BY <2>1, <2>2, PlainStep DEF t
<1>9. "size" \in Complaints /\ "slow" \in Complaints
  BY DEF Complaints
<1> QED BY <1>6, <1>7, <1>8, <1>9

LEMMA CheckStep ==
    ASSUME ITypes, IStages, IMade, NEW c \in Children, CheckDigest(c) PROVE TaskStep(c)
<1> DEFINE t == job[c]
<1>0. t \in Tasks /\ StageOK(t) /\ t.pc = "check"
  BY DEF ITypes, IStages, CheckDigest, At
<1>1. CASE Becomes(c, [Says(t, "empty") EXCEPT !.pc = "retry"])
  <2>1. "empty" \in Complaints /\ "retry" \in Stages /\ Goes(t.pc, "retry") /\ t.pc # "none"
    BY <1>0 DEF Complaints, Stages, Goes, Talking
  <2> QED BY <1>1, <2>1, Complains
<1>2. CASE Becomes(c, [Says(t, "digest") EXCEPT !.pc = "retry", !.digest = Finished(@)])
  <2> DEFINE v == [Says(t, "digest") EXCEPT !.pc = "retry"]
             u == [v EXCEPT !.digest = Finished(@)]
  <2>0. "digest" \in Complaints /\ "retry" \in Stages
    BY DEF Complaints, Stages
  <2>1. v \in Tasks /\ v.pc = "retry" /\ v.data = t.data /\ SameTask(t, v)
    BY <1>0, <2>0, SaysTask
  <2>2. u \in Tasks /\ u.pc = "retry" /\ u.data = t.data /\ SameTask(t, u)
    <3> HIDE DEF v, t
    <3>1. Finished(v.digest) \in Seq(Digits)
      <4>1. v.digest \in Seq(Digits)
        BY <2>1 DEF Tasks
      <4> QED BY <4>1, Bytes1 DEF Finished
    <3> QED BY <2>1, <3>1 DEF Tasks, SameTask
  <2>3. Becomes(c, u)
    BY <1>2
  <2>4. Goes(t.pc, u.pc) /\ t.pc # "none"
    BY <1>0, <2>2 DEF Goes, Talking
  <2> HIDE DEF u
  <2> QED BY <2>2, <2>3, <2>4, PlainStep, Unchanging
<1>3. ASSUME NEW p \in {"have", "ended"}, Becomes(c, [t EXCEPT !.pc = p]) PROVE TaskStep(c)
  <2>1. p \in Stages /\ Goes(t.pc, p) /\ t.pc # "none"
    BY <1>0 DEF Goes, Talking, Stages
  <2> QED BY <1>3, <2>1, MovesOn
<1> QED BY <1>1, <1>2, <1>3 DEF CheckDigest

LEMMA HaveStep ==
    ASSUME ITypes, IStages, IMade, NEW c \in Children, SendHave(c) \/ AwaitHave(c) \/ UnlinkLarge(c)
    PROVE  TaskStep(c)
<1> DEFINE t == job[c]
<1>1. PICK p \in {"await", "ended", "retry"} :
         /\ Becomes(c, [t EXCEPT !.pc = p])
         /\ \/ p = "await" /\ t.pc = "have"
            \/ p = "ended" /\ t.pc = "await"
            \/ p = "retry" /\ t.pc = "unlink"
  BY DEF SendHave, AwaitHave, UnlinkLarge, At
<1>2. p \in Stages /\ Goes(t.pc, p) /\ t.pc # "none"
  BY <1>1 DEF Goes, Talking, Stages
<1> QED BY <1>1, <1>2, MovesOn

LEMMA EmptiedType ==
    ASSUME NEW b \in Buffers(Digits) PROVE Emptied(b) \in Buffers(Digits)
<1> DEFINE e == Emptied(b)
<1>1. e = [b EXCEPT !.head = 0, !.tail = 0, !.total_written = 0]
  BY DEF Emptied
<1>2. b \in [head : Nat, tail : Nat, total_written : Nat, buf : [0..TASKBUFSIZ - 1 -> Digits]]
  BY DEF Buffers
<1> HIDE DEF e
<1>3. e \in [head : Nat, tail : Nat, total_written : Nat, buf : [0..TASKBUFSIZ - 1 -> Digits]]
      /\ e.head = 0 /\ e.tail = 0 /\ e.total_written = 0
  BY <1>1, <1>2
<1>4. e.head <= e.tail /\ e.tail <= e.head + TASKBUFSIZ /\ e.total_written = e.head
  BY <1>3, BufferAssumption
<1> QED BY <1>3, <1>4 DEF Buffers, e

LEMMA RetryStep ==
    ASSUME ITypes, IStages, IMade, NEW c \in Children, TryAgain(c) PROVE TaskStep(c)
<1> DEFINE t == job[c]
           u == [task_pop_peer(t) EXCEPT !.pc = "connect"]
<1>0. t \in Tasks /\ StageOK(t) /\ t.pc = "retry" /\ t.peers # <<>> /\ Made(t.file)
  BY DEF ITypes, IStages, IMade, TryAgain, At, StageOK, Talking
<1>1. u \in Tasks /\ u.pc = "connect" /\ u.data = t.data /\ u.filename = t.filename /\ u.conn = t.conn
      /\ u.file = t.file
  <2>1. "connect" \in Stages
    BY DEF Stages
  <2>2. t.peers \in Seq(Peers) /\ Tail(t.peers) \in Seq(Peers)
    BY <1>0 DEF Tasks
  <2>3. Emptied(t.buffer) \in Buffers(Digits)
    <3>1. t.buffer \in Buffers(Digits)
      BY <1>0 DEF Tasks
    <3> QED BY <3>1, EmptiedType
  <2> HIDE DEF t
  <2> QED BY <1>0, <2>1, <2>2, <2>3 DEF Tasks, task_pop_peer
<1>2. StageOK(u) /\ Made(u.file)
  BY <1>0, <1>1 DEF StageOK, Downloading, Uploading, Talking
<1>3. Becomes(c, u)
  BY DEF TryAgain
<1> HIDE DEF u
<1> QED BY <1>0, <1>1, <1>2, <1>3, ByBecoming, Unchanging

LEMMA BytesType ==
    ASSUME ITypes, NEW f \in FileNames, NEW ino \in Inodes, ino # Free, Made(ino)
    PROVE  Bytes(f, ino) \in Seq(Digits)
<1>1. CASE ino = Old
  BY <1>1, Bytes1 DEF Bytes
<1>2. CASE ino # Old
  <2>1. ino[1] \in Children /\ ino[2] \in DOMAIN job[ino[1]].data
    BY <1>2 DEF Made
  <2>2. job[ino[1]].data \in Seq(Seq(Digits))
    BY <2>1 DEF ITypes, Tasks
  <2>3. job[ino[1]].data[ino[2]] \in Seq(Digits)
    BY <2>1, <2>2
  <2> QED BY <1>2, <2>3 DEF Bytes
<1> QED BY <1>1, <1>2

(* The plain name of a requested file. *)
LEMMA PlainName ==
    ASSUME ITypes, IMade, NEW f \in FileNames
    PROVE  dir[<<f, 0>>] \in Inodes /\ Made(dir[<<f, 0>>])
<1>1. 0 \in 0..LocalNames - 1
  BY TransferAssumption
<1>2. <<f, 0>> \in Names
  BY <1>1 DEF Names
<1> QED BY <1>2 DEF ITypes, IMade

(* What task_upload makes of the task when it opens the file. *)
Opened(t, f, ino) ==
    [t EXCEPT !.pc = "send", !.filename = f, !.file = ino, !.opened = Len(Bytes(f, ino))]

LEMMA RequestStep ==
    ASSUME ITypes, IStages, IMade, NEW c \in Children, ReadRequest(c) PROVE TaskStep(c)
<1> DEFINE t == job[c]
           f == Asks[t.conn].file
           ino == dir[<<f, 0>>]
<1>0. t \in Tasks /\ StageOK(t) /\ t.pc = "request" /\ t.conn \in Conns
  BY DEF ITypes, IStages, ReadRequest, At, StageOK, Uploading
<1>1. f \in FileNames
  BY <1>0, TransferAssumption
<1>2. CASE ino # Free /\ Becomes(c, Opened(t, f, ino))
  <2> DEFINE u == Opened(t, f, ino)
  <2>1. ino \in Inodes /\ Made(ino)
    BY <1>1, PlainName
  <2>2. Bytes(f, ino) \in Seq(Digits)
    <3> HIDE DEF ino, f
    <3> QED BY <1>1, <1>2, <2>1, BytesType
  <2>3. Len(Bytes(f, ino)) \in Nat /\ "send" \in Stages
    BY <2>2 DEF Stages
  <2>4. u \in Tasks /\ u.pc = "send" /\ u.filename = f /\ u.conn = t.conn /\ u.data = t.data
        /\ u.file = ino
    <3> HIDE DEF t, ino, f
    <3> QED BY <1>0, <1>1, <2>1, <2>3 DEF Tasks, Opened
  <2>5. StageOK(u)
    BY <1>0, <1>1, <1>2, <2>4 DEF StageOK, Downloading, Talking, Uploading
  <2>6. Becomes(c, u)
    BY <1>2
  <2> HIDE DEF u
  <2> QED BY <1>0, <2>1, <2>4, <2>5, <2>6, ByBecoming, Unchanging
<1>3. CASE Becomes(c, [Says(t, "request") EXCEPT !.pc = "ended"])
  <2>1. "request" \in Complaints /\ "ended" \in Stages /\ Goes(t.pc, "ended") /\ t.pc # "none"
    BY <1>0 DEF Complaints, Stages, Goes
  <2> QED BY <1>3, <2>1, Complains
<1> QED BY <1>2, <1>3 DEF ReadRequest, Opened

LEMMA SendStep ==
    ASSUME ITypes, IStages, IMade, NEW c \in Children, SendPeer(c)
    PROVE  TaskStep(c) /\ received' \in [Conns -> Seq(Digits)]
<1> DEFINE t == job[c]
           b == t.buffer
<1>0. t \in Tasks /\ StageOK(t) /\ t.pc = "send" /\ b \in Buffers(Digits) /\ t.conn \in Conns
      /\ received \in [Conns -> Seq(Digits)]
  BY DEF ITypes, IStages, SendPeer, At, Tasks, StageOK, Uploading
<1>1. CASE UNCHANGED received /\ Becomes(c, [t EXCEPT !.pc = "fill"])
  <2>1. "fill" \in Stages /\ Goes(t.pc, "fill") /\ t.pc # "none"
    BY <1>0 DEF Stages, Goes
  <2> QED BY <1>0, <1>1, <2>1, MovesOn
<1>2. ASSUME NEW n \in 1..Span(b), Becomes(c, [t EXCEPT !.pc = "fill", !.buffer = WriteOut(b, n)]),
             received' = [received EXCEPT ![t.conn] = @ \o Piece(b, n)]
      PROVE  TaskStep(c) /\ received' \in [Conns -> Seq(Digits)]
  <2> DEFINE u == [t EXCEPT !.pc = "fill", !.buffer = WriteOut(b, n)]
  <2>1. Span(b) \in Nat /\ n \in 0..Span(b)
    BY <1>0, SpanFits, Counts
  <2>2. WriteOut(b, n) \in Buffers(Digits) /\ Piece(b, n) \in Seq(Digits) /\ "fill" \in Stages
    BY <1>0, <2>1, WriteTakesFront, PieceType DEF Stages
  <2>3. u \in Tasks /\ u.pc = "fill" /\ u.data = t.data /\ SameTask(t, u)
    <3> HIDE DEF t
    <3> QED BY <1>0, <2>2 DEF Tasks, SameTask
  <2>4. Goes(t.pc, u.pc) /\ t.pc # "none" /\ Becomes(c, u)
    BY <1>0, <1>2, <2>3 DEF Goes
  <2>5. received' \in [Conns -> Seq(Digits)]
    <3>1. received[t.conn] \o Piece(b, n) \in Seq(Digits)
      BY <1>0, <2>2
    <3> QED BY <1>0, <1>2, <3>1
  <2> HIDE DEF u
  <2> QED BY <2>3, <2>4, <2>5, PlainStep, Unchanging
<1>3. CASE UNCHANGED received /\ Becomes(c, [Says(t, "write error") EXCEPT !.pc = "ended"])
  <2>1. "write error" \in Complaints /\ "ended" \in Stages /\ Goes(t.pc, "ended") /\ t.pc # "none"
    BY <1>0 DEF Complaints, Stages, Goes
  <2> QED BY <1>0, <1>3, <2>1, Complains
<1> QED BY <1>1, <1>2, <1>3 DEF SendPeer

LEMMA FillStep ==
    ASSUME ITypes, IStages, IMade, NEW c \in Children, FillBuffer(c) PROVE TaskStep(c)
<1> DEFINE t == job[c]
           b == t.buffer
           left == Unread(t)
           n == Smaller(Len(left), Room(b))
           s == SubSeq(left, 1, n)
<1>0. t \in Tasks /\ StageOK(t) /\ t.pc = "fill" /\ b \in Buffers(Digits) /\ t.pos \in Nat
  BY DEF ITypes, IStages, FillBuffer, At, Tasks
<1>1. left \in Seq(Digits)
  <2>1. t.filename \in FileNames /\ t.file \in Inodes /\ t.file # Free /\ Made(t.file)
    BY <1>0 DEF StageOK, Tasks, IMade
  <2>2. Bytes(t.filename, t.file) \in Seq(Digits)
    BY <2>1, BytesType
  <2> QED BY <1>0, <2>2, RestType DEF Unread
<1>2. n \in 0..Len(left) /\ n <= Room(b) /\ s \in Seq(Digits) /\ Len(s) = n
  <2>1. Room(b) \in Nat /\ Len(left) \in Nat
    <3>1. Room(b) \in 0..TASKBUFSIZ - (b.tail - b.head) /\ b.tail - b.head \in Int
      BY <1>0, RoomFits, Counts
    <3> QED BY <1>1, <3>1, BufferAssumption
  <2>2. n \in 0..Len(left) /\ n <= Room(b)
    <3> HIDE DEF left, b
    <3> QED BY <2>1 DEF Smaller
  <2> HIDE DEF left, n
  <2> QED BY <1>1, <2>2, FrontType
<1>3. CASE Becomes(c, [t EXCEPT !.pc = "ended"])
  <2>1. "ended" \in Stages /\ Goes(t.pc, "ended") /\ t.pc # "none"
    BY <1>0 DEF Stages, Goes
  <2> QED BY <1>0, <1>3, <2>1, MovesOn
<1>4. CASE Becomes(c, [t EXCEPT !.pc = "send", !.pos = @ + n, !.buffer = ReadInto(b, s)])
  <2> DEFINE u == [t EXCEPT !.pc = "send", !.pos = @ + n, !.buffer = ReadInto(b, s)]
  <2>1. ReadInto(b, s) \in Buffers(Digits) /\ t.pos + n \in Nat /\ "send" \in Stages
    <3> HIDE DEF left, n, s
    <3> QED BY <1>0, <1>2, ReadAppends DEF Stages
  <2>2. u \in Tasks /\ u.pc = "send" /\ u.data = t.data /\ SameTask(t, u)
    <3> HIDE DEF t, n, s
    <3> QED BY <1>0, <2>1 DEF Tasks, SameTask
  <2>3. Goes(t.pc, u.pc) /\ t.pc # "none" /\ Becomes(c, u)
    BY <1>0, <1>4, <2>2 DEF Goes
  <2> HIDE DEF u
  <2> QED BY <2>2, <2>3, PlainStep, Unchanging
<1>5. Becomes(c, IF Drained(n, b) THEN [t EXCEPT !.pc = "ended"]
                 ELSE [t EXCEPT !.pc = "send", !.pos = @ + n, !.buffer = ReadInto(b, s)])
  BY Zenon DEF FillBuffer
<1> QED BY <1>3, <1>4, <1>5, Zenon

LEMMA ChildTask ==
    ASSUME ITypes, IStages, IMade, NEW c \in Children, Child(c) PROVE TaskStep(c)
  BY ConnectStep, OpenStep, ReadStep, WriteStep, CheckStep, HaveStep, RetryStep, RequestStep,
     SendStep, FillStep
  DEF Child, task_download, task_upload

(* What a step of a child does to everything that is shared. *)
SharedStep(c) ==
    /\ dir' \in [Names -> Inodes]
    /\ \A n \in Names : \/ dir'[n] \in {dir[n], Free}
                        \/ dir'[n] = <<c, Len(job'[c].data)>> /\ Len(job'[c].data) # 0
    /\ toTracker' \in Seq(Requests) /\ fromTracker' \in Seq(Answers)
    /\ received' \in [Conns -> Seq(Digits)]

LEMMA ChildShared ==
    ASSUME ITypes, IStages, IMade, NEW c \in Children, Child(c) PROVE SharedStep(c)
<1>0. /\ dir \in [Names -> Inodes] /\ toTracker \in Seq(Requests) /\ fromTracker \in Seq(Answers)
      /\ received \in [Conns -> Seq(Digits)]
  BY DEF ITypes
<1>1. CASE Connect(c) \/ ReadPeer(c) \/ WriteDisk(c) \/ CheckDigest(c) \/ ReadRequest(c) \/ FillBuffer(c)
  <2>1. UNCHANGED <<dir, toTracker, fromTracker, received>>
    BY <1>1 DEF Connect, ReadPeer, WriteDisk, CheckDigest, ReadRequest, FillBuffer
  <2> QED BY <1>0, <2>1 DEF SharedStep
<1>2. CASE OpenDisk(c)
  <2> DEFINE t == job[c]
             n == <<t.filename, t.tries>>
             d == t.data
  <2>1. UNCHANGED <<toTracker, fromTracker, received>>
    BY <1>2 DEF OpenDisk
  <2>2. CASE UNCHANGED dir
    BY <1>0, <2>1, <2>2 DEF SharedStep
  <2>3. CASE dir' = [dir EXCEPT ![n] = <<c, Len(d) + 1>>]
             /\ Becomes(c, [t EXCEPT !.pc = "read", !.disk = n, !.data = Append(@, <<>>)])
    <3>1. t \in Tasks /\ d \in Seq(Seq(Digits)) /\ job \in [Children -> Tasks]
      BY DEF ITypes, Tasks
    <3>2. job'[c] = [t EXCEPT !.pc = "read", !.disk = n, !.data = Append(@, <<>>)]
      BY <2>3, <3>1 DEF Becomes
    <3>3. job'[c].data = Append(d, <<>>)
      <4> HIDE DEF n
      <4> QED BY <3>1, <3>2 DEF Tasks
    <3>4. Len(job'[c].data) = Len(d) + 1 /\ Len(d) \in Nat
      <4> HIDE DEF t, d
      <4> QED BY <3>1, <3>3
    <3>5. <<c, Len(d) + 1>> \in Inodes
      BY <3>4 DEF Inodes
    <3> DEFINE new == <<c, Len(d) + 1>>
    <3>6. new = <<c, Len(job'[c].data)>> /\ Len(job'[c].data) # 0
      BY <3>4
    <3> HIDE DEF n, d, new
    <3>7. dir' = [dir EXCEPT ![n] = new] /\ new \in Inodes
      BY <2>3, <3>5 DEF new
    <3>8. dir' \in [Names -> Inodes] /\ \A m \in Names : dir'[m] \in {dir[m], new}
      BY <1>0, <3>7
    <3> QED BY <1>0, <2>1, <3>6, <3>8 DEF SharedStep
  <2> QED BY <1>2, <2>2, <2>3 DEF OpenDisk
<1>3. CASE SendHave(c)
  <2>1. UNCHANGED <<dir, fromTracker, received>>
        /\ toTracker' = Append(toTracker, Request(c, "HAVE", job[c].filename))
    BY <1>3 DEF SendHave
  <2>2. job[c].filename \in FileNames
    BY <1>3 DEF SendHave, At, IStages, StageOK, Downloading
  <2>3. Request(c, "HAVE", job[c].filename) \in Requests
    BY <2>2 DEF Request, Requests
  <2>4. toTracker' \in Seq(Requests)
    BY <1>0, <2>1, <2>3
  <2> QED BY <1>0, <2>1, <2>4 DEF SharedStep
<1>4. CASE AwaitHave(c)
  <2>1. UNCHANGED <<dir, toTracker, received>> /\ fromTracker' = <<>>
    BY <1>4 DEF AwaitHave, TakeAnswers
  <2> QED BY <1>0, <2>1 DEF SharedStep
<1>5. CASE UnlinkLarge(c) \/ TryAgain(c)
  <2>1. UNCHANGED <<toTracker, fromTracker, received>> /\ dir' = Unlinked(c)
    BY <1>5 DEF UnlinkLarge, TryAgain
  <2>2. \A n \in Names : dir'[n] \in {dir[n], Free}
    BY <2>1 DEF Unlinked
  <2>3. dir' \in [Names -> Inodes]
    BY <1>0, <2>1 DEF Unlinked, Inodes
  <2> QED BY <1>0, <2>1, <2>2, <2>3 DEF SharedStep
<1>6. CASE SendPeer(c)
  <2>1. UNCHANGED <<dir, toTracker, fromTracker>> /\ received' \in [Conns -> Seq(Digits)]
    BY <1>6, SendStep DEF SendPeer
  <2> QED BY <1>0, <2>1 DEF SharedStep
<1> QED BY <1>1, <1>2, <1>3, <1>4, <1>5, <1>6 DEF Child, task_download, task_upload

LEMMA StillMade ==
    ASSUME ITypes, NEW c \in Children, TaskStep(c), NEW ino, Made(ino)
    PROVE  Made(ino)'
<1>1. CASE ino \in {Free, Old}
  BY <1>1 DEF Made
<1>2. CASE ino[1] \in Children /\ ino[2] \in DOMAIN job[ino[1]].data
  <2> DEFINE d == ino[1]
             k == ino[2]
  <2>1. job[d].data \in Seq(Seq(Digits))
    BY <1>2 DEF ITypes, Tasks
  <2>2. k \in 1..Len(job[d].data)
    BY <1>2, <2>1
  <2>3. CASE d = c
    <3>1. job'[c].data \in Seq(Seq(Digits))
      BY DEF TaskStep, Tasks
    <3>2. Len(job[c].data) <= Len(job'[c].data)
      BY DEF TaskStep, Grown
    <3>3. k \in DOMAIN job'[c].data
      <4> HIDE DEF k, d
      <4> QED BY <2>1, <2>2, <2>3, <3>1, <3>2
    <3> QED BY <1>2, <2>3, <3>3 DEF Made
  <2>4. CASE d # c
    <3>1. job'[d] = job[d]
      BY <1>2, <2>4 DEF TaskStep, ITypes
    <3> QED BY <1>2, <3>1 DEF Made
  <2> QED BY <2>3, <2>4
<1> QED BY <1>1, <1>2 DEF Made

LEMMA ChildTypes ==
    ASSUME IType, NEW c \in Children, Child(c), UNCHANGED peerVars PROVE IType'
<1> USE DEF IType
<1>1. TaskStep(c) /\ SharedStep(c)
  BY ChildTask, ChildShared
<1>2. job' \in [Children -> Tasks] /\ \A d \in Children : d # c => job'[d] = job[d]
  <2>1. job \in [Children -> Tasks] /\ job'[c] \in Tasks /\ job' = [job EXCEPT ![c] = job'[c]]
    BY <1>1 DEF ITypes, TaskStep
  <2> DEFINE v == job'[c]
  <2> HIDE DEF v
  <2>2. job' = [job EXCEPT ![c] = v] /\ v \in Tasks
    BY <2>1 DEF v
  <2> QED BY <2>1, <2>2
<1>3. ITypes'
  BY <1>1, <1>2 DEF ITypes, SharedStep, peerVars
<1>4. IStages'
  <2>1. \A d \in Children : StageOK(job'[d]) /\ (job'[d].pc = "none" => job'[d].data = <<>>)
    BY <1>1, <1>2 DEF IStages, TaskStep
  <2> QED BY <2>1 DEF IStages, peerVars, MainOK, StageOK, Fresh
<1>5. InOrder'
  <2>1. Started' = Started
    BY <1>1, <1>2 DEF Started, TaskStep
  <2> QED BY <2>1 DEF InOrder
<1>6. IMade'
  <2>1. ASSUME NEW n \in Names PROVE Made(dir[n])'
    <3>1. CASE dir'[n] = dir[n]
      BY <1>1, <3>1, StillMade DEF IMade, Made
    <3>2. CASE dir'[n] = Free
      BY <3>2 DEF Made
    <3>3. CASE dir'[n] = <<c, Len(job'[c].data)>> /\ Len(job'[c].data) # 0
      <4>1. job'[c].data \in Seq(Seq(Digits))
        BY <1>2 DEF Tasks
      <4>2. Len(job'[c].data) \in DOMAIN job'[c].data
        BY <3>3, <4>1
      <4> QED BY <3>3, <4>2 DEF Made
    <3> QED BY <1>1, <3>1, <3>2, <3>3 DEF SharedStep
  <2>2. ASSUME NEW d \in Children PROVE Made(job[d].file)'
    <3>1. Made(job'[d].file)
      BY <1>1, <1>2 DEF TaskStep, IMade
    <3> QED BY <1>1, <3>1, StillMade DEF Made
  <2> QED BY <2>1, <2>2 DEF IMade
<1> QED BY <1>3, <1>4, <1>5, <1>6

---------------------------------------------------------------------------
(* A step of main or of the tracker *)

LEMMA MainMoves ==
    ASSUME IType, NEW m \in Mains, MainOK(m), main' = m, Unstirred,
           toTracker' \in Seq(Requests), fromTracker' \in Seq(Answers)
    PROVE  IType'
<1> USE DEF IType, Unstirred
<1>1. ITypes'
  BY DEF ITypes
<1>2. IStages'
  BY DEF IStages, MainOK, StageOK, Fresh
<1>3. InOrder' /\ IMade'
  BY DEF InOrder, Started, IMade, Made
<1> QED BY <1>1, <1>2, <1>3

LEMMA AppendSeq ==
    ASSUME NEW S, NEW s \in Seq(S), NEW e \in S PROVE Append(s, e) \in Seq(S)
  OBVIOUS

LEMMA MainAsks ==
    ASSUME IType, NEW f \in FileNames \cup {NoName}, NEW pc \in MainStages,
           NEW what \in {"a connection", "ADDR", "HAVE", "WANT", "MD5SUM"},
           what \in {"HAVE", "WANT", "MD5SUM"} => f \in FileNames,
           MainOK([main EXCEPT !.pc = pc]), Sends1(what, f, pc)
    PROVE  IType'
<1>1. Request("main", what, f) \in Requests
  BY DEF Request, Requests
<1>2. [main EXCEPT !.pc = pc] \in Mains
  BY DEF IType, ITypes, Mains
<1>3. /\ toTracker \in Seq(Requests) /\ fromTracker \in Seq(Answers)
      /\ toTracker' = Append(toTracker, Request("main", what, f)) /\ fromTracker' = fromTracker
  BY DEF Sends1, IType, ITypes
<1>4. toTracker' \in Seq(Requests) /\ fromTracker' \in Seq(Answers)
  BY <1>1, <1>3, AppendSeq
<1> QED BY <1>2, <1>4, MainMoves DEF Sends1

LEMMA MainHears ==
    ASSUME IType, NEW m \in Mains, MainOK(m), Takes(m) PROVE IType'
<1>1. toTracker \in Seq(Requests) /\ toTracker' = toTracker /\ fromTracker' = <<>>
  BY DEF Takes, TakeAnswers, IType, ITypes
<1>2. toTracker' \in Seq(Requests) /\ fromTracker' \in Seq(Answers)
  BY <1>1
<1> QED BY <1>2, MainMoves DEF Takes

LEMMA MainStays ==
    ASSUME IType, NEW m \in Mains, MainOK(m), main' = m, Unstirred,
           UNCHANGED <<toTracker, fromTracker>>
    PROVE  IType'
  BY MainMoves DEF IType, ITypes

\* Stages of main that ask nothing of its task or its names.
Free1 == MainStages \ {"want?", "sum", "sum?", "fork", "serve"}

LEMMA MainFree ==
    ASSUME IType, NEW pc \in Free1
    PROVE  [main EXCEPT !.pc = pc] \in Mains /\ MainOK([main EXCEPT !.pc = pc])
  BY DEF IType, ITypes, Mains, MainOK, Free1

LEMMA Begins ==
    ASSUME IType, StartTracker \/ Greeting \/ StartListen \/ RegisterAddress \/ FileAnswer
    PROVE  IType'
<1> USE DEF MainStages
<1>1. CASE StartTracker
  <2>1. "greet?" \in Free1 /\ "dead" \in Free1
    BY DEF Free1
  <2>2. CASE Sends1("a connection", NoName, "greet?")
    BY <2>1, <2>2, MainFree, MainAsks DEF Free1
  <2>3. CASE main' = [main EXCEPT !.pc = "dead"] /\ Unstirred /\ UNCHANGED <<toTracker, fromTracker>>
    BY <2>1, <2>3, MainFree, MainStays
  <2> QED BY <1>1, <2>2, <2>3 DEF StartTracker
<1>2. CASE Greeting
  <2>1. "listen" \in Free1
    BY DEF Free1
  <2> QED BY <1>2, <2>1, MainFree, MainHears DEF Greeting
<1>3. CASE StartListen
  <2>1. "dead" \in Free1 /\ "addr" \in Free1
    BY DEF Free1
  <2>2. ASSUME main.port # Ports
        PROVE  [main EXCEPT !.port = @ + 1] \in Mains
    <3>1. main.port \in 0..Ports /\ Ports \in Nat
      BY PeerAssumption DEF IType, ITypes, Mains
    <3>2. main.port + 1 \in 0..Ports
      BY <2>2, <3>1
    <3> QED BY <3>2 DEF IType, ITypes, Mains
  <2>3. MainOK([main EXCEPT !.port = @ + 1])
    BY DEF IType, IStages, ITypes, Mains, MainOK
  <2>4. UNCHANGED <<toTracker, fromTracker>> /\ Unstirred
    BY <1>3 DEF StartListen
  <2>5. CASE main' = [main EXCEPT !.pc = "dead"]
    BY <2>1, <2>4, <2>5, MainFree, MainStays
  <2>6. CASE main.port # Ports /\ main' = [main EXCEPT !.port = @ + 1]
    BY <2>2, <2>3, <2>4, <2>6, MainStays
  <2>7. CASE main' = [main EXCEPT !.pc = "addr"]
    BY <2>1, <2>4, <2>7, MainFree, MainStays
  <2> QED BY <1>3, <2>5, <2>6, <2>7 DEF StartListen
<1>4. CASE RegisterAddress
  <2>1. "addr?" \in Free1
    BY DEF Free1
  <2> QED BY <1>4, <2>1, MainFree, MainAsks DEF RegisterAddress
<1>5. CASE FileAnswer
  <2>1. "files" \in Free1
    BY DEF Free1
  <2> QED BY <1>5, <2>1, MainFree, MainHears DEF FileAnswer
<1> QED BY <1>1, <1>2, <1>3, <1>4, <1>5

LEMMA Registers ==
    ASSUME IType, AddressAnswer \/ RegisterFile \/ StartServing PROVE IType'
<1>0. main \in Mains /\ toTracker \in Seq(Requests) /\ fromTracker \in Seq(Answers)
  BY DEF IType, ITypes
<1>1. CASE AddressAnswer
  <2>1. ASSUME NEW S \in SUBSET FileNames
        PROVE  LET m == [main EXCEPT !.pc = "files", !.files = S] IN m \in Mains /\ MainOK(m)
    BY <1>0 DEF Mains, MainStages, MainOK
  <2>2. "want" \in Free1
    BY DEF Free1, MainStages
  <2>3. CASE Takes([main EXCEPT !.pc = "files", !.files = {f \in FileNames : dir[<<f, 0>>] # Free}])
    BY <2>1, <2>3, MainHears
  <2>4. CASE Takes([main EXCEPT !.pc = "want"])
    BY <2>2, <2>4, MainFree, MainHears
  <2> QED BY <1>1, <2>3, <2>4 DEF AddressAnswer
<1>2. CASE RegisterFile
  <2>1. ASSUME NEW f \in main.files, toTracker' = Append(toTracker, Request("main", "HAVE", f)),
               main' = [main EXCEPT !.pc = "file?", !.files = @ \ {f}], UNCHANGED fromTracker, Unstirred
        PROVE  IType'
    <3>1. f \in FileNames
      BY <1>0 DEF Mains
    <3>2. Request("main", "HAVE", f) \in Requests
      BY <3>1 DEF Request, Requests
    <3>3. toTracker' \in Seq(Requests)
      BY <1>0, <2>1, <3>2
    <3>4. main' \in Mains /\ MainOK(main')
      BY <1>0, <2>1 DEF Mains, MainStages, MainOK
    <3> QED BY <1>0, <2>1, <3>3, <3>4, MainMoves
  <2>2. "want" \in Free1
    BY DEF Free1, MainStages
  <2>3. CASE main' = [main EXCEPT !.pc = "want"] /\ UNCHANGED <<toTracker, fromTracker>> /\ Unstirred
    BY <2>2, <2>3, MainFree, MainStays
  <2> QED BY <1>2, <2>1, <2>3 DEF RegisterFile
<1>3. CASE StartServing
  <2>1. "accept" \in Free1
    BY DEF Free1, MainStages
  <2> QED BY <1>3, <2>1, MainFree, MainStays DEF StartServing
<1> QED BY <1>1, <1>2, <1>3

LEMMA AnswerType ==
    ASSUME IType, fromTracker # <<>> PROVE First \in Answers
<1>1. fromTracker \in Seq(Answers)
  BY DEF IType, ITypes
<1> QED BY <1>1 DEF First

LEMMA ReverseType ==
    ASSUME NEW S, NEW s \in Seq(S) PROVE Reverse(s) \in Seq(S)
<1>1. \A i \in 1..Len(s) : s[(Len(s) - i) + 1] \in S
  OBVIOUS
<1> QED BY <1>1 DEF Reverse

LEMMA Downloads ==
    ASSUME IType, Want \/ WantAnswer \/ AskSum \/ SumAnswer PROVE IType'
<1>0. main \in Mains /\ MainOK(main) /\ toTracker \in Seq(Requests) /\ fromTracker \in Seq(Answers)
      /\ main.argv \in Seq(FileNames) /\ main.task \in Tasks
  BY DEF IType, ITypes, IStages, Mains
<1>1. CASE Want
  <2>1. main.argv # <<>> /\ Head(main.argv) \in FileNames
    BY <1>0, <1>1 DEF Want
  <2>2. MainOK([main EXCEPT !.pc = "want?"]) /\ "want?" \in MainStages
    BY <1>0, <2>1 DEF MainOK, Mains, MainStages
  <2> QED BY <1>1, <2>1, <2>2, MainAsks DEF Want
<1>2. CASE AskSum
  <2>1. main.argv # <<>> /\ Head(main.argv) \in FileNames
    BY <1>0, <1>2 DEF AskSum, MainAt, MainOK
  <2>2. MainOK([main EXCEPT !.pc = "sum?"]) /\ "sum?" \in MainStages
    BY <1>0, <1>2 DEF AskSum, MainAt, MainOK, Mains, MainStages
  <2> QED BY <1>2, <2>1, <2>2, MainAsks DEF AskSum
<1>3. CASE WantAnswer
  <2>0. main.argv # <<>> /\ Head(main.argv) \in FileNames /\ First \in Answers
    BY <1>0, <1>3, AnswerType DEF WantAnswer, MainAt, MainOK
  <2>1. NextName(main) \in Mains /\ MainOK(NextName(main))
    <3>1. Tail(main.argv) \in Seq(FileNames)
      BY <1>0, <2>0
    <3> QED BY <1>0, <3>1 DEF NextName, Mains, MainStages, MainOK
  <2>2. "dead" \in Free1
    BY DEF Free1, MainStages
  <2> DEFINE new == task_new("connect")
             t == [new EXCEPT !.filename = Head(main.argv), !.peers = Reverse(First.peers)]
             m == [main EXCEPT !.pc = "sum", !.task = t]
  <2>3. t \in Tasks /\ t.pc = "connect" /\ Fresh(t) /\ StageOK(t)
    <3>1. "connect" \in Stages
      BY DEF Stages
    <3>2. new \in Tasks /\ Fresh(new) /\ new.conn = 0 /\ new.pc = "connect"
      BY <3>1, NewTask
    <3>3. Reverse(First.peers) \in Seq(Peers)
      BY <2>0, ReverseType DEF Answers
    <3> HIDE DEF new
    <3>4. t \in Tasks /\ t.pc = "connect" /\ Fresh(t) /\ t.filename = Head(main.argv) /\ t.conn = 0
      BY <2>0, <3>2, <3>3 DEF Tasks, Fresh
    <3> HIDE DEF t
    <3> QED BY <2>0, <3>4 DEF StageOK, Talking, Uploading
  <2>4. m \in Mains /\ MainOK(m)
    <3> HIDE DEF t
    <3> QED BY <1>0, <2>0, <2>3 DEF Mains, MainStages, MainOK
  <2>5. CASE Takes(NextName(main))
    BY <2>1, <2>5, MainHears
  <2>6. CASE Takes([main EXCEPT !.pc = "dead"])
    BY <2>2, <2>6, MainFree, MainHears
  <2>7. CASE Takes(m)
    <3> HIDE DEF m
    <3> QED BY <2>4, <2>7, MainHears
  <2> QED BY <1>3, <2>5, <2>6, <2>7 DEF WantAnswer
<1>4. CASE SumAnswer
  <2>0. First \in Answers /\ main.pc = "sum?"
    BY <1>4, AnswerType DEF SumAnswer, MainAt
  <2>1. NoDigest \in Seq(Digits)
    BY Bytes1 DEF NoDigest
  <2>2. Leftovers \subseteq Seq(Digits)
    BY <2>1 DEF Leftovers, IType, ITypes, Tasks
  <2>3. PICK s \in Seq(Digits) : Takes([main EXCEPT !.pc = "fork", !.task.checksum = s])
    <3>1. First.sum \in Seq(Digits)
      BY <2>0 DEF Answers
    <3>2. (IF ~First.ok THEN Leftovers ELSE IF First.sum = <<>> THEN {NoDigest} ELSE {First.sum})
             \subseteq Seq(Digits)
      BY <2>1, <2>2, <3>1
    <3> QED BY <1>4, <3>2 DEF SumAnswer
  <2> DEFINE t == [main.task EXCEPT !.checksum = s]
             m == [main EXCEPT !.pc = "fork", !.task = t]
  <2>4. t \in Tasks /\ t.pc = "connect" /\ Fresh(t) /\ StageOK(t)
    BY <1>0, <2>0 DEF Tasks, MainOK, Fresh, StageOK
  <2>5. m \in Mains /\ MainOK(m)
    <3> HIDE DEF t
    <3> QED BY <1>0, <2>0, <2>4 DEF Mains, MainStages, MainOK
  <2>6. Takes(m)
    BY <2>3
  <2> HIDE DEF m
  <2> QED BY <2>5, <2>6, MainHears
<1> QED BY <1>1, <1>2, <1>3, <1>4

---------------------------------------------------------------------------
(* Forks, waits and the tracker *)

LEMMA StartedIs ==
    ASSUME IType
    PROVE  /\ IsFiniteSet(Started) /\ Cardinality(Started) \in Nat
           /\ Started = 1..Cardinality(Started)
           /\ NextChild \in Nat \ {0} /\ NextChild \notin Started
<1>1. PICK k \in Nat : Started = 1..k
  BY DEF IType, InOrder
<1>2. IsFiniteSet(Started) /\ Cardinality(Started) = k
  <2>1. IsFiniteSet(1..k) /\ Cardinality(1..k) = k
    BY FS_Interval
  <2> QED BY <1>1, <2>1
<1> QED BY <1>1, <1>2 DEF NextChild

(* A child gets the task of main, at the next number. *)
LEMMA ForkTypes ==
    ASSUME IType, main.task \in Tasks, Fresh(main.task), StageOK(main.task),
           main.task.pc \in {"connect", "request"},
           job' = [job EXCEPT ![NextChild] = main.task], UNCHANGED dir
    PROVE  /\ job' \in [Children -> Tasks] /\ InOrder' /\ IMade'
           /\ \A c \in Children : StageOK(job'[c]) /\ (job'[c].pc = "none" => job'[c].data = <<>>)
           /\ Started' = IF NextChild \in Children THEN Started \cup {NextChild} ELSE Started
<1> DEFINE n == NextChild
           t == main.task
<1>1. n \in Nat \ {0} /\ Started = 1..n - 1 /\ n \notin Started
  <2>1. Cardinality(Started) = n - 1
    BY StartedIs DEF NextChild
  <2> QED BY <2>1, StartedIs
<1>2. job \in [Children -> Tasks] /\ job' = [job EXCEPT ![n] = t]
  BY DEF IType, ITypes
<1> HIDE DEF n, t
<1>3. job' \in [Children -> Tasks] /\ \A c \in Children : job'[c] = IF c = n THEN t ELSE job[c]
  BY <1>2 DEF t
<1>4. \A c \in Children : StageOK(job'[c]) /\ (job'[c].pc = "none" => job'[c].data = <<>>)
  BY <1>3 DEF IType, IStages, t
<1>5. Started' = IF n \in Children THEN Started \cup {n} ELSE Started
  BY <1>3 DEF Started, t
<1>6. InOrder'
  <2>1. CASE n \in Children
    <3>1. Started' = 1..n
      BY <1>1, <1>5, <2>1
    <3> QED BY <1>1, <3>1 DEF InOrder
  <2>2. CASE n \notin Children
    BY <1>5, <2>2 DEF InOrder, IType
  <2> QED BY <2>1, <2>2
<1>7. ASSUME NEW ino, Made(ino) PROVE Made(ino)'
  <2>1. CASE ino \in {Free, Old}
    BY <2>1 DEF Made
  <2>2. CASE ino[1] \in Children /\ ino[2] \in DOMAIN job[ino[1]].data
    <3>1. CASE ino[1] = n
      <4>1. job[n].pc = "none"
        BY <1>1, <2>2, <3>1 DEF Started
      <4>2. job[n].data = <<>>
        BY <2>2, <3>1, <4>1 DEF IType, IStages
      <4> QED BY <2>2, <3>1, <4>2
    <3>2. CASE ino[1] # n
      BY <1>3, <2>2, <3>2 DEF Made
    <3> QED BY <3>1, <3>2
  <2> QED BY <1>7, <2>1, <2>2 DEF Made
<1>8. IMade'
  <2>1. \A m \in Names : Made(dir[m])'
    <3>1. \A m \in Names : Made(dir[m])
      BY DEF IType, IMade
    <3>2. dir' = dir
      OBVIOUS
    <3> QED BY <1>7, <3>1, <3>2 DEF Made
  <2>2. ASSUME NEW c \in Children PROVE Made(job[c].file)'
    <3>1. CASE c = n
      BY <1>3, <3>1 DEF Made, Fresh, t
    <3>2. CASE c # n
      <4>1. Made(job[c].file)
        BY DEF IType, IMade
      <4>2. job'[c] = job[c]
        BY <1>3, <3>2
      <4> QED BY <1>7, <4>1, <4>2 DEF Made
    <3> QED BY <3>1, <3>2
  <2> QED BY <2>1, <2>2 DEF IMade
<1> QED BY <1>3, <1>4, <1>5, <1>6, <1>8 DEF n

LEMMA Forks ==
    ASSUME IType, ForkDownload \/ ForkUpload PROVE IType'
<1>0. /\ main \in Mains /\ MainOK(main) /\ main.task \in Tasks /\ pid_counter \in Int
      /\ fails \in 0..scene.forkFails /\ dropped \subseteq Conns
  BY DEF IType, ITypes, IStages, Mains
<1>1. Fresh(main.task) /\ StageOK(main.task) /\ main.task.pc \in {"connect", "request"}
  BY <1>0 DEF ForkDownload, ForkUpload, MainAt, MainOK
<1>2. PICK m \in Mains : Fork(m) /\ MainOK(m)
  <2>1. CASE ForkDownload
    <3>1. main.argv # <<>> /\ main.argv \in Seq(FileNames)
      BY <1>0, <2>1 DEF ForkDownload, MainAt, MainOK, Mains
    <3>2. Tail(main.argv) \in Seq(FileNames)
      BY <3>1
    <3>3. NextName(main) \in Mains /\ MainOK(NextName(main))
      BY <1>0, <3>2 DEF NextName, Mains, MainStages, MainOK
    <3> QED BY <2>1, <3>3 DEF ForkDownload
  <2>2. CASE ForkUpload
    <3>1. "accept" \in Free1
      BY DEF Free1, MainStages
    <3> QED BY <2>2, <3>1, MainFree DEF ForkUpload
  <2> QED BY <2>1, <2>2
<1>3. UNCHANGED <<scene, waiting, advertised, dir, toTracker, fromTracker, received>>
  BY DEF ForkDownload, ForkUpload
<1>4. "wait" \in Free1
  BY DEF Free1, MainStages
<1>5. CASE job' = [job EXCEPT ![NextChild] = main.task] /\ pid_counter' = pid_counter + 1
           /\ main' = m /\ UNCHANGED <<fails, dropped>>
  <2>1. /\ job' \in [Children -> Tasks] /\ InOrder' /\ IMade'
        /\ \A c \in Children : StageOK(job'[c]) /\ (job'[c].pc = "none" => job'[c].data = <<>>)
    BY <1>0, <1>1, <1>3, <1>5, ForkTypes
  <2>2. ITypes'
    BY <1>0, <1>3, <1>5, <2>1 DEF IType, ITypes
  <2>3. MainOK(main)'
    BY <1>2, <1>5 DEF MainOK, StageOK, Fresh
  <2>4. IStages'
    BY <2>1, <2>3 DEF IStages, StageOK
  <2> QED BY <2>1, <2>2, <2>4 DEF IType
<1>6. CASE main' = [main EXCEPT !.pc = "wait"] /\ fails' \in {fails, fails - 1} /\ (fails' = fails \/ fails > 0)
           /\ dropped' = dropped \cup ({main.task.conn} \cap Conns) /\ UNCHANGED <<job, pid_counter>>
  <2>0. scene.forkFails \in Nat
    BY SceneIs DEF IType
  <2>1. fails' \in 0..scene.forkFails /\ dropped' \subseteq Conns
    BY <1>0, <1>6, <2>0
  <2>2. main' \in Mains /\ MainOK(main)'
    BY <1>4, <1>6, MainFree DEF MainOK, StageOK, Fresh
  <2>3. ITypes'
    BY <1>0, <1>3, <1>6, <2>1, <2>2 DEF IType, ITypes
  <2>4. IStages' /\ InOrder' /\ IMade'
    BY <1>3, <1>6, <2>2 DEF IType, IStages, StageOK, InOrder, Started, IMade, Made
  <2> QED BY <2>3, <2>4 DEF IType
<1> QED BY <1>2, <1>5, <1>6 DEF Fork

LEMMA Waits == ASSUME IType, WaitForOne PROVE IType'
<1> DEFINE p == IF main.argv = <<>> THEN "accept" ELSE "want"
<1>0. /\ p \in Free1 /\ main' = [main EXCEPT !.pc = p] /\ pid_counter' = pid_counter - 1
      /\ UNCHANGED <<scene, waiting, fails, dropped, advertised, dir, toTracker, fromTracker, received>>
  BY DEF WaitForOne, Free1, MainStages
<1>1. main' \in Mains /\ MainOK(main)'
  <2> HIDE DEF p
  <2> QED BY <1>0, MainFree DEF MainOK, StageOK, Fresh
<1>2. /\ job' \in [Children -> Tasks] /\ Started' = Started
      /\ \A d \in Children : StageOK(job'[d]) /\ (job'[d].pc = "none" => job'[d].data = <<>>)
                             /\ job'[d].data = job[d].data /\ job'[d].file = job[d].file
  <2>1. CASE UNCHANGED job
    BY <2>1 DEF IType, ITypes, IStages, Started, StageOK
  <2>2. CASE \E c \in Unreaped : job[c].pc = "ended" /\ job' = [job EXCEPT ![c].pc = "reaped"]
    <3>1. PICK c \in Children : job[c].pc = "ended" /\ job' = [job EXCEPT ![c].pc = "reaped"]
      BY <2>2 DEF Unreaped, Started
    <3> DEFINE u == [job[c] EXCEPT !.pc = "reaped"]
    <3>2. u \in Tasks /\ u.pc = "reaped" /\ u.data = job[c].data /\ u.file = job[c].file
      <4>1. job[c] \in Tasks /\ "reaped" \in Stages
        BY DEF IType, ITypes, Stages
      <4> QED BY <4>1, PcTask DEF SameTask
    <3>3. StageOK(u)
      BY <3>2 DEF StageOK, Talking, Downloading, Uploading
    <3>4. job' = [job EXCEPT ![c] = u]
      BY <3>1
    <3> HIDE DEF u
    <3>5. job' \in [Children -> Tasks] /\ \A d \in Children : job'[d] = IF d = c THEN u ELSE job[d]
      BY <3>2, <3>4 DEF IType, ITypes
    <3> QED BY <3>1, <3>2, <3>3, <3>5 DEF IType, IStages, Started
  <2> QED BY <2>1, <2>2 DEF WaitForOne
<1>3. ITypes'
  <2> HIDE DEF p
  <2>1. pid_counter' \in Int
    BY <1>0 DEF IType, ITypes
  <2> QED BY <1>0, <1>1, <1>2, <2>1 DEF IType, ITypes
<1>4. IStages' /\ InOrder'
  BY <1>1, <1>2 DEF IType, IStages, InOrder, StageOK
<1>5. \A ino : Made(ino) => Made(ino)'
  BY <1>2 DEF Made
<1>6. IMade'
  BY <1>0, <1>2, <1>5 DEF IType, IMade, Made
<1> QED BY <1>3, <1>4, <1>6 DEF IType

LEMMA Accepts == ASSUME IType, Accept PROVE IType'
<1> DEFINE new == task_new("request")
           t == [new EXCEPT !.conn = Head(waiting)]
           m == [main EXCEPT !.pc = "serve", !.task = t]
<1>0. /\ waiting # <<>> /\ waiting' = Tail(waiting) /\ main' = m
      /\ UNCHANGED <<scene, pid_counter, fails, dropped, advertised, transferVars>>
  BY DEF Accept
<1>1. waiting \in Seq(Conns) /\ Head(waiting) \in Conns /\ Tail(waiting) \in Seq(Conns)
  <2>1. waiting \in Seq(Conns)
    BY DEF IType, ITypes
  <2> QED BY <1>0, <2>1
<1>2. t \in Tasks /\ t.pc = "request" /\ Fresh(t) /\ StageOK(t)
  <2>1. new \in Tasks /\ Fresh(new) /\ new.pc = "request"
    <3>1. "request" \in Stages
      BY DEF Stages
    <3> QED BY <3>1, NewTask
  <2> HIDE DEF new
  <2>2. t \in Tasks /\ t.pc = "request" /\ Fresh(t) /\ t.conn \in Conns
    BY <1>1, <2>1 DEF Tasks, Fresh
  <2> HIDE DEF t
  <2> QED BY <2>2 DEF StageOK, Talking, Downloading, Uploading
<1>3. m \in Mains /\ m.pc = "serve" /\ m.task = t
  <2> HIDE DEF t
  <2> QED BY <1>2 DEF IType, ITypes, Mains, MainStages
<1>4. MainOK(m)
  <2> HIDE DEF t, m
  <2> QED BY <1>2, <1>3 DEF MainOK
<1> HIDE DEF t, m
<1>5. ITypes'
  BY <1>0, <1>1, <1>3 DEF IType, ITypes, transferVars
<1>6. IStages' /\ InOrder' /\ IMade'
  BY <1>0, <1>4 DEF IType, IStages, InOrder, IMade, Made, Started, transferVars, StageOK, MainOK, Fresh
<1> QED BY <1>5, <1>6 DEF IType

LEMMA AnswersType == ASSUME IType, NEW r \in Requests PROVE Answer(r) \in Answers
<1> DEFINE ok == CASE r.what = "ADDR" -> scene.registers
                   [] r.what \in {"HAVE", "a connection"} -> TRUE
                   [] r.what = "WANT" -> r.file \in scene.knows
                   [] r.what = "MD5SUM" -> r.file \in scene.sums
           peers == IF r.what = "WANT" /\ r.file \in scene.knows THEN scene.lists[r.file] ELSE <<>>
           sum == IF r.what = "MD5SUM" /\ r.file \in scene.sums THEN Content[r.file] ELSE <<>>
<1>1. Answer(r) = [ok |-> ok, peers |-> peers, sum |-> sum]
  BY Zenon DEF Answer
<1>2. r.what \in {"a connection", "ADDR", "HAVE", "WANT", "MD5SUM"}
      /\ (r.what \in {"HAVE", "WANT", "MD5SUM"} => r.file \in FileNames)
  BY DEF Requests
<1>3. scene.registers \in BOOLEAN /\ scene.lists \in [FileNames -> Seq(Peers)]
  BY SceneIs DEF IType
<1>4. ok \in BOOLEAN
  <2>1. CASE r.what = "ADDR"
    <3>1. ok = scene.registers
      BY <2>1, Zenon
    <3> QED BY <1>3, <3>1
  <2>2. CASE r.what \in {"HAVE", "a connection"}
    <3>1. ok = TRUE
      BY <2>2
    <3> QED BY <3>1
  <2>3. CASE r.what = "WANT"
    <3>1. ok = (r.file \in scene.knows)
      BY <2>3
    <3>2. (r.file \in scene.knows) \in BOOLEAN
      OBVIOUS
    <3> HIDE DEF ok
    <3> QED BY <3>1, <3>2, Zenon
  <2>4. CASE r.what = "MD5SUM"
    <3>1. ok = (r.file \in scene.sums)
      BY <2>4
    <3>2. (r.file \in scene.sums) \in BOOLEAN
      OBVIOUS
    <3> HIDE DEF ok
    <3> QED BY <3>1, <3>2, Zenon
  <2> QED BY <1>2, <2>1, <2>2, <2>3, <2>4
<1>5. peers \in Seq(Peers)
  <2>1. CASE r.what = "WANT" /\ r.file \in scene.knows
    <3>1. peers = scene.lists[r.file]
      BY <2>1, Zenon
    <3> HIDE DEF peers
    <3> QED BY <1>2, <1>3, <2>1, <3>1
  <2>2. CASE ~(r.what = "WANT" /\ r.file \in scene.knows)
    <3>1. peers = <<>>
      BY <2>2, Zenon
    <3> HIDE DEF peers
    <3> QED BY <3>1
  <2> QED BY <2>1, <2>2
<1>6. sum \in Seq(Digits)
  <2>1. CASE r.what = "MD5SUM" /\ r.file \in scene.sums
    <3>1. sum = Content[r.file]
      BY <2>1, Zenon
    <3> HIDE DEF sum
    <3> QED BY <1>2, <2>1, <3>1, Bytes1
  <2>2. CASE ~(r.what = "MD5SUM" /\ r.file \in scene.sums)
    <3>1. sum = <<>>
      BY <2>2, Zenon
    <3> HIDE DEF sum
    <3> QED BY <3>1
  <2> QED BY <2>1, <2>2
<1> HIDE DEF ok, peers, sum
<1> QED BY <1>1, <1>4, <1>5, <1>6 DEF Answers

LEMMA TrackerTypes == ASSUME IType, Tracker PROVE IType'
<1>0. toTracker \in Seq(Requests) /\ fromTracker \in Seq(Answers) /\ toTracker # <<>>
  BY DEF IType, ITypes, Tracker
<1>1. Head(toTracker) \in Requests /\ Tail(toTracker) \in Seq(Requests)
  BY <1>0
<1> DEFINE r == Head(toTracker)
           a == Answer(r)
<1>2. a \in Answers
  BY <1>1, AnswersType
<1>3. fromTracker' \in Seq(Answers)
  <2>1. fromTracker' = Append(fromTracker, a)
    BY DEF Tracker
  <2> HIDE DEF a
  <2> QED BY <1>0, <1>2, <2>1, AppendSeq
<1>4. advertised' \subseteq FileNames
  <2>1. advertised \subseteq FileNames /\ (r.what = "HAVE" => r.file \in FileNames)
    BY <1>1 DEF IType, ITypes, Requests
  <2> QED BY <2>1 DEF Tracker
<1>5. toTracker' \in Seq(Requests)
      /\ UNCHANGED <<scene, main, pid_counter, waiting, fails, dropped, job, dir, received>>
  BY <1>1 DEF Tracker
<1>6. ITypes'
  BY <1>3, <1>4, <1>5 DEF IType, ITypes
<1>7. IStages' /\ InOrder' /\ IMade'
  BY <1>5 DEF IType, IStages, InOrder, IMade, Made, Started, StageOK, MainOK, Fresh
<1> QED BY <1>6, <1>7 DEF IType

---------------------------------------------------------------------------
(* Every behaviour *)

LEMMA InitTypes == ASSUME Init PROVE IType
<1> DEFINE none == task_new("none")
           t == task_new("connect")
<1>1. none \in Tasks /\ Fresh(none) /\ none.conn = 0 /\ none.pc = "none"
      /\ t \in Tasks /\ t.pc = "connect"
  <2>1. "none" \in Stages /\ "connect" \in Stages
    BY DEF Stages
  <2> QED BY <2>1, NewTask
<1>2. StageOK(none)
  BY <1>1 DEF StageOK, Talking, Downloading, Uploading
<1>3. scene \in Scenes /\ job = [c \in Children |-> none]
      /\ main = [pc |-> "start", argv |-> scene.wanted, task |-> t, files |-> {}, port |-> 0]
  BY DEF Init
<1> HIDE DEF none, t
<1>4. /\ scene.forkFails \in Nat /\ scene.wanted \in Seq(FileNames) /\ scene.conns \in Seq(Conns)
  BY <1>3, SceneAssumption, Zenon
<1>5. main \in Mains
  <2>1. 0 \in 0..Ports
    BY PeerAssumption
  <2> QED BY <1>1, <1>3, <1>4, <2>1 DEF Mains, MainStages
<1>6. dir \in [Names -> Inodes] /\ \A n \in Names : dir[n] \in {Free, Old}
  BY DEF Init, Inodes
<1>7. ITypes
  <2>1. job \in [Children -> Tasks] /\ received \in [Conns -> Seq(Digits)]
    BY <1>1, <1>3 DEF Init
  <2>2. toTracker \in Seq(Requests) /\ fromTracker \in Seq(Answers)
    BY DEF Init
  <2>3. pid_counter \in Int /\ fails \in 0..scene.forkFails /\ waiting \in Seq(Conns)
        /\ dropped \subseteq Conns /\ advertised \subseteq FileNames
    BY <1>4 DEF Init
  <2> QED BY <1>3, <1>5, <1>6, <2>1, <2>2, <2>3 DEF ITypes
<1>8. IStages
  BY <1>1, <1>2, <1>3 DEF IStages, MainOK, Fresh
<1>9. InOrder
  <2>1. Started = {}
    BY <1>1, <1>3 DEF Started
  <2>2. Started = 1..0
    BY <2>1
  <2> QED BY <2>2 DEF InOrder
<1>10. IMade
  BY <1>1, <1>3, <1>6 DEF IMade, Made, Fresh
<1> QED BY <1>7, <1>8, <1>9, <1>10 DEF IType

LEMMA NextTypes == ASSUME IType, [Next]_vars PROVE IType'
<1>1. CASE Main
  BY <1>1, Begins, Registers, Downloads, Forks, Waits, Accepts DEF Main
<1>2. CASE AChild
  BY <1>2, ChildTypes DEF AChild
<1>3. CASE Tracker
  BY <1>3, TrackerTypes
<1>4. CASE UNCHANGED vars
  BY <1>4 DEF IType, ITypes, IStages, InOrder, IMade, Made, Started, StageOK, MainOK, Fresh,
              vars, peerVars, transferVars
<1> QED BY <1>1, <1>2, <1>3, <1>4 DEF Next, Resting

LEMMA Typed == Spec => []IType
BY InitTypes, NextTypes, PTL DEF Spec

LEMMA TasksOK ==
    ASSUME NEW t \in Tasks PROVE TaskOK(t)
<1>1. t.buffer \in Buffers(Digits)
  BY DEF Tasks
<1> DEFINE b == t.buffer
<1>2. /\ b.head \in Nat /\ b.tail \in Nat /\ b.total_written = b.head
      /\ b.head <= b.tail /\ b.tail <= b.head + TASKBUFSIZ /\ b.buf \in [0..TASKBUFSIZ - 1 -> Digits]
  BY <1>1 DEF Buffers
<1>3. BufferOK(b)
  <2> HIDE DEF b
  <2>1. b.tail - b.head \in 0..TASKBUFSIZ /\ b.total_written \in 0..b.head
    BY <1>2, BufferAssumption
  <2> QED BY <1>2, <2>1 DEF BufferOK
<1> QED BY <1>3 DEF TaskOK, Tasks

(* Every variable keeps its type: above all, no read and no write goes     *)
(* outside the buffer of a task (read_to_taskbuf, write_from_taskbuf), and *)
(* a name stands only for a file that some child has made.                 *)
THEOREM TypeCorrect == Spec => []TypeOK
<1>1. ASSUME IType PROVE TypeOK
  <2>1. TaskOK(main.task) /\ \A c \in Children : TaskOK(job[c])
    BY <1>1, TasksOK DEF IType, ITypes, Mains
  <2>2. \A n \in Names : dir[n] \in {Free, Old} \/
          (dir[n][1] \in Children /\ dir[n][2] \in DOMAIN job[dir[n][1]].data)
    BY <1>1 DEF IType, IMade, Made
  <2> QED BY <1>1, <2>1, <2>2 DEF TypeOK, IType, ITypes, Mains
<1> QED BY <1>1, Typed, PTL
=============================================================================
