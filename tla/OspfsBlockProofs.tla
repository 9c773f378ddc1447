------------------------- MODULE OspfsBlockProofs -------------------------
(***************************************************************************)
(* Proofs about the blocks of the file system, for disks, blocks and       *)
(* inodes of any size: what add_block(), remove_block() and change_size()  *)
(* do to a disk on which every block is accounted for, when they succeed   *)
(* and when the disk is full.  The lemmas lead to what OspfsProofs needs:  *)
(* change_size() changes one file and keeps the blocks that the file       *)
(* keeps, or leaves no trace.                                              *)
(***************************************************************************)
EXTENDS Ospfs, FiniteSetTheorems, WellFoundedInduction, TLAPS

---------------------------------------------------------------------------
(* Arithmetic *)

(* A word of a file is a word of one of its blocks.                        *)
LEMMA DivMod ==
  ASSUME NEW x \in Nat
  PROVE  /\ (x % BLKSIZE) \in Index /\ (x \div BLKSIZE) \in Nat
         /\ x = (x \div BLKSIZE) * BLKSIZE + (x % BLKSIZE)
BY SizeAssumption, SMT DEF Index

LEMMA DivIs ==
  ASSUME NEW q \in Nat, NEW r \in Index
  PROVE  ((q * BLKSIZE + r) \div BLKSIZE) = q /\ ((q * BLKSIZE + r) % BLKSIZE) = r
<1> DEFINE x == q * BLKSIZE + r
           d == x \div BLKSIZE
           s == x % BLKSIZE
<1>1. x \in Nat
  BY SizeAssumption, SMT DEF Index
<1>2. d \in Nat /\ s \in 0..BLKSIZE - 1 /\ x = d * BLKSIZE + s
  BY <1>1, DivMod DEF Index
<1>3. r \in 0..BLKSIZE - 1
  BY DEF Index
<1> SUFFICES d = q /\ s = r
  OBVIOUS
<1> HIDE DEF d, s
<1>4. CASE d = q
  BY <1>2, <1>4, <1>3, SizeAssumption, SMT
<1>5. CASE d > q
  <2>1. (d - q) * BLKSIZE = r - s
    BY <1>2, <1>3, SizeAssumption, SMT
  <2>2. (d - q) * BLKSIZE >= BLKSIZE
    BY <1>2, <1>5, SizeAssumption, SMT
  <2> QED BY <2>1, <2>2, <1>2, <1>3, SizeAssumption, SMT
<1>6. CASE d < q
  <2>1. (q - d) * BLKSIZE = s - r
    BY <1>2, <1>3, SizeAssumption, SMT
  <2>2. (q - d) * BLKSIZE >= BLKSIZE
    BY <1>2, <1>6, SizeAssumption, SMT
  <2> QED BY <2>1, <2>2, <1>2, <1>3, SizeAssumption, SMT
<1> QED BY <1>2, <1>4, <1>5, <1>6

LEMMA Small ==
  ASSUME NEW w \in Index
  PROVE  (w \div BLKSIZE) = 0 /\ (w % BLKSIZE) = w
<1>1. 0 * BLKSIZE + w = w
  BY SizeAssumption DEF Index
<1> QED BY DivIs, <1>1

(* Unsigned arithmetic wraps at most once here.                            *)
LEMMA ModOnce ==
  ASSUME NEW x \in Int
  PROVE  /\ x \in 0..UINT - 1 => (x % UINT) = x
         /\ x \in UINT..2 * UINT - 1 => (x % UINT) = x - UINT
         /\ x \in -UINT..-1 => (x % UINT) = x + UINT
<1> DEFINE d == x \div UINT
           s == x % UINT
<1>1. d \in Int /\ s \in 0..UINT - 1 /\ x = d * UINT + s
  BY SizeAssumption, SMT
<1> HIDE DEF d, s
<1> SUFFICES /\ x \in 0..UINT - 1 => d = 0
             /\ x \in UINT..2 * UINT - 1 => d = 1
             /\ x \in -UINT..-1 => d = -1
  BY <1>1, SizeAssumption DEF s
<1>2. ASSUME NEW k \in Int, d > k PROVE x >= (k + 1) * UINT
  <2>1. (d - (k + 1)) * UINT >= 0
    BY <1>1, <1>2, SizeAssumption, SMT
  <2> QED BY <2>1, <1>1, SizeAssumption, SMT
<1>3. ASSUME NEW k \in Int, d < k PROVE x < k * UINT
  <2>1. (k - 1 - d) * UINT >= 0
    BY <1>1, <1>3, SizeAssumption, SMT
  <2> QED BY <2>1, <1>1, SizeAssumption, SMT
<1>4. /\ d > 0 => x >= UINT
      /\ d > 1 => x >= 2 * UINT
      /\ d > -1 => x >= 0
      /\ d < 0 => x < 0
      /\ d < 1 => x < UINT
      /\ d < -1 => x < -UINT
  BY <1>2, <1>3, SizeAssumption
<1> QED BY <1>1, <1>4, SizeAssumption

---------------------------------------------------------------------------
(* How many blocks a size needs *)

(* A size rounded up as the macro rounds it, so that the sum may wrap.     *)
RoundedUp(size) == (size + BLKSIZE - 1) % UINT

LEMMA BlockBound == BLKSIZE <= UINT
<1>1. UINT = (UINT \div BLKSIZE) * BLKSIZE /\ (UINT \div BLKSIZE) \in Nat
  BY SizeAssumption, DivMod
<1>2. (UINT \div BLKSIZE) # 0
  BY <1>1, SizeAssumption
<1> QED BY <1>1, <1>2, SizeAssumption, SMT

(* The count of blocks of a size, in terms of the rounded size.            *)
LEMMA RoundedType ==
  ASSUME NEW size \in 0..UINT - 1
  PROVE  /\ RoundedUp(size) \in 0..UINT - 1
         /\ NBlocks(size) = RoundedUp(size) \div BLKSIZE
         /\ NBlocks(size) \in Nat
         /\ NBlocks(size) * BLKSIZE <= RoundedUp(size)
         /\ RoundedUp(size) < (NBlocks(size) + 1) * BLKSIZE
<1>1. RoundedUp(size) \in 0..UINT - 1
  BY SizeAssumption, SMT DEF RoundedUp
<1>2. NBlocks(size) = RoundedUp(size) \div BLKSIZE
  BY DEF NBlocks, RoundedUp
<1>3. RoundedUp(size) \in Nat
  BY <1>1, SizeAssumption
<1> HIDE DEF RoundedUp, NBlocks
<1>4. /\ NBlocks(size) \in Nat /\ (RoundedUp(size) % BLKSIZE) \in Index
      /\ RoundedUp(size) = NBlocks(size) * BLKSIZE + (RoundedUp(size) % BLKSIZE)
  BY <1>2, <1>3, DivMod
<1>5. (NBlocks(size) + 1) * BLKSIZE = NBlocks(size) * BLKSIZE + BLKSIZE
      /\ NBlocks(size) * BLKSIZE \in Nat
  BY <1>4, SizeAssumption, SMT
<1>6. NBlocks(size) * BLKSIZE <= RoundedUp(size) /\ RoundedUp(size) < (NBlocks(size) + 1) * BLKSIZE
  <2> DEFINE x == RoundedUp(size)
             y == NBlocks(size) * BLKSIZE
             z == (NBlocks(size) + 1) * BLKSIZE
             w == RoundedUp(size) % BLKSIZE
  <2>1. x = y + w /\ w \in 0..BLKSIZE - 1 /\ y \in Nat /\ z = y + BLKSIZE /\ BLKSIZE \in Nat
    BY <1>4, <1>5, SizeAssumption DEF Index
  <2> HIDE DEF x, y, z, w
  <2>2. y <= x /\ x < z
    BY <2>1
  <2> QED BY <2>2 DEF x, y, z
<1> QED BY <1>1, <1>2, <1>4, <1>6

LEMMA Quotient ==
  ASSUME NEW x \in Nat, NEW q \in Nat, q * BLKSIZE <= x, x < (q + 1) * BLKSIZE
  PROVE  (x \div BLKSIZE) = q
<1> DEFINE r == x - q * BLKSIZE
<1>1. q * BLKSIZE \in Int /\ (q + 1) * BLKSIZE = q * BLKSIZE + BLKSIZE
  BY SizeAssumption, SMT
<1>2. r \in Index /\ x = q * BLKSIZE + r
  BY <1>1, SizeAssumption DEF Index
<1> HIDE DEF r
<1> QED BY <1>2, DivIs

LEMMA RoundedGrown ==
  ASSUME NEW size \in 0..UINT - 1, RoundedUp(size) + BLKSIZE < UINT
  PROVE  /\ ((size + BLKSIZE) % UINT) \in 0..UINT - 1
         /\ RoundedUp((size + BLKSIZE) % UINT) = RoundedUp(size) + BLKSIZE
<1>1. size \in Int /\ BLKSIZE \in Int /\ UINT \in Int /\ 0 < BLKSIZE /\ BLKSIZE <= UINT
  BY SizeAssumption, BlockBound
<1>2. CASE size + BLKSIZE - 1 < UINT
  <2>1. RoundedUp(size) = size + BLKSIZE - 1
    BY <1>1, <1>2, ModOnce DEF RoundedUp
  <2>2. ((size + BLKSIZE) % UINT) = size + BLKSIZE
    BY <1>1, <1>2, <2>1, ModOnce
  <2>3. ((size + BLKSIZE + BLKSIZE - 1) % UINT) = size + BLKSIZE + BLKSIZE - 1
    BY <1>1, <2>1, ModOnce
  <2> QED BY <1>1, <2>1, <2>2, <2>3 DEF RoundedUp
<1>3. CASE size + BLKSIZE - 1 >= UINT
  <2>1. RoundedUp(size) = size + BLKSIZE - 1 - UINT
    BY <1>1, <1>3, ModOnce DEF RoundedUp
  <2>2. ((size + BLKSIZE) % UINT) = size + BLKSIZE - UINT
    BY <1>1, <1>3, <2>1, ModOnce
  <2>3. ((size + BLKSIZE - UINT + BLKSIZE - 1) % UINT) = size + BLKSIZE - UINT + BLKSIZE - 1
    BY <1>1, <1>3, <2>1, ModOnce
  <2> QED BY <1>1, <1>3, <2>1, <2>2, <2>3 DEF RoundedUp
<1> QED BY <1>1, <1>2, <1>3

LEMMA RoundedShrunk ==
  ASSUME NEW size \in 0..UINT - 1, RoundedUp(size) >= BLKSIZE
  PROVE  /\ ((size - BLKSIZE) % UINT) \in 0..UINT - 1
         /\ RoundedUp((size - BLKSIZE) % UINT) = RoundedUp(size) - BLKSIZE
<1>1. size \in Int /\ BLKSIZE \in Int /\ UINT \in Int /\ 0 < BLKSIZE /\ BLKSIZE <= UINT
  BY SizeAssumption, BlockBound
<1>2. CASE size + BLKSIZE - 1 < UINT
  <2>1. RoundedUp(size) = size + BLKSIZE - 1
    BY <1>1, <1>2, ModOnce DEF RoundedUp
  <2>2. CASE size >= BLKSIZE
    <3>1. ((size - BLKSIZE) % UINT) = size - BLKSIZE
      BY <1>1, <2>2, ModOnce
    <3>2. ((size - BLKSIZE + BLKSIZE - 1) % UINT) = size - 1
      BY <1>1, <2>2, ModOnce
    <3> QED BY <1>1, <2>1, <2>2, <3>1, <3>2 DEF RoundedUp
  <2>3. CASE size < BLKSIZE
    <3>1. ((size - BLKSIZE) % UINT) = size - BLKSIZE + UINT
      BY <1>1, <2>3, ModOnce
    <3>2. ((size - BLKSIZE + UINT + BLKSIZE - 1) % UINT) = size - 1
      BY <1>1, <2>3, <2>1, ModOnce
    <3> QED BY <1>1, <2>1, <2>3, <3>1, <3>2 DEF RoundedUp
  <2> QED BY <1>1, <2>2, <2>3
<1>3. CASE size + BLKSIZE - 1 >= UINT
  <2>1. RoundedUp(size) = size + BLKSIZE - 1 - UINT
    BY <1>1, <1>3, ModOnce DEF RoundedUp
  <2> QED BY <1>1, <1>3, <2>1
<1> QED BY <1>1, <1>2, <1>3

(* A size that grows by a block counts one block more, unless it wraps.    *)
LEMMA CountGrown ==
  ASSUME NEW size \in 0..UINT - 1, (NBlocks(size) + 2) * BLKSIZE <= UINT
  PROVE  /\ ((size + BLKSIZE) % UINT) \in 0..UINT - 1
         /\ NBlocks((size + BLKSIZE) % UINT) = NBlocks(size) + 1
<1> DEFINE n == NBlocks(size)
           m == RoundedUp(size)
<1>1. n \in Nat /\ m \in Nat /\ n * BLKSIZE <= m /\ m < (n + 1) * BLKSIZE
  BY RoundedType, SizeAssumption
<1>2. (n + 2) * BLKSIZE = n * BLKSIZE + 2 * BLKSIZE /\ (n + 1) * BLKSIZE = n * BLKSIZE + BLKSIZE
      /\ n * BLKSIZE \in Nat
  BY <1>1, SizeAssumption, SMT
<1>3. m + BLKSIZE < UINT
  BY <1>1, <1>2, SizeAssumption
<1>4. /\ ((size + BLKSIZE) % UINT) \in 0..UINT - 1
      /\ RoundedUp((size + BLKSIZE) % UINT) = m + BLKSIZE
  BY <1>3, RoundedGrown
<1>5. (n + 1) * BLKSIZE <= m + BLKSIZE /\ m + BLKSIZE < ((n + 1) + 1) * BLKSIZE
  BY <1>1, <1>2, SizeAssumption
<1>6. NBlocks((size + BLKSIZE) % UINT) = (m + BLKSIZE) \div BLKSIZE
  BY <1>4, RoundedType
<1> HIDE DEF n, m
<1>7. m + BLKSIZE \in Nat /\ n + 1 \in Nat
  BY <1>1, SizeAssumption
<1>8. ((m + BLKSIZE) \div BLKSIZE) = n + 1
  BY <1>5, <1>7, Quotient
<1> QED BY <1>4, <1>6, <1>8 DEF n

(* A size that shrinks by a block counts one block less, even when it      *)
(* wraps.                                                                  *)
LEMMA CountShrunk ==
  ASSUME NEW size \in 0..UINT - 1, NBlocks(size) > 0
  PROVE  /\ ((size - BLKSIZE) % UINT) \in 0..UINT - 1
         /\ NBlocks((size - BLKSIZE) % UINT) = NBlocks(size) - 1
<1> DEFINE n == NBlocks(size)
           m == RoundedUp(size)
<1>1. n \in Nat /\ m \in Nat /\ n * BLKSIZE <= m /\ m < (n + 1) * BLKSIZE
  BY RoundedType, SizeAssumption
<1>2. (n - 1) * BLKSIZE = n * BLKSIZE - BLKSIZE /\ (n + 1) * BLKSIZE = n * BLKSIZE + BLKSIZE
      /\ n * BLKSIZE \in Nat /\ (n - 1) * BLKSIZE \in Nat
  BY <1>1, SizeAssumption, SMT
<1>3. m >= BLKSIZE
  BY <1>1, <1>2, SizeAssumption
<1>4. /\ ((size - BLKSIZE) % UINT) \in 0..UINT - 1
      /\ RoundedUp((size - BLKSIZE) % UINT) = m - BLKSIZE
  BY <1>3, RoundedShrunk
<1>5. (n - 1) * BLKSIZE <= m - BLKSIZE /\ m - BLKSIZE < ((n - 1) + 1) * BLKSIZE
  BY <1>1, <1>2, SizeAssumption
<1>6. NBlocks((size - BLKSIZE) % UINT) = (m - BLKSIZE) \div BLKSIZE
  BY <1>4, RoundedType
<1> HIDE DEF m
<1>7. m - BLKSIZE \in Nat /\ n - 1 \in Nat
  BY <1>1, <1>3, SizeAssumption
<1> HIDE DEF n
<1>8. ((m - BLKSIZE) \div BLKSIZE) = n - 1
  BY <1>5, <1>7, Quotient
<1> QED BY <1>4, <1>6, <1>8 DEF n

(* Sizes that stay away from the largest integer.                          *)
LEMMA CountOf ==
  ASSUME NEW size \in Nat, size + BLKSIZE <= UINT
  PROVE  /\ size \in 0..UINT - 1
         /\ NBlocks(size) \in Nat
         /\ size <= NBlocks(size) * BLKSIZE
         /\ NBlocks(size) * BLKSIZE < size + BLKSIZE
<1>1. size + BLKSIZE - 1 \in 0..UINT - 1 /\ size \in 0..UINT - 1
  BY SizeAssumption
<1>2. RoundedUp(size) = size + BLKSIZE - 1
  BY <1>1, ModOnce DEF RoundedUp
<1>3. (NBlocks(size) + 1) * BLKSIZE = NBlocks(size) * BLKSIZE + BLKSIZE
        /\ NBlocks(size) * BLKSIZE \in Nat
  BY <1>1, RoundedType, SizeAssumption, SMT
<1> QED BY <1>1, <1>2, <1>3, RoundedType, SizeAssumption

LEMMA Below ==
  ASSUME NEW a \in Int, NEW b \in Int
  PROVE  a * BLKSIZE < b * BLKSIZE <=> a < b
<1>1. BLKSIZE \in Int /\ BLKSIZE > 0
  BY SizeAssumption
<1>2. a < b => a * BLKSIZE < b * BLKSIZE
  <2> SUFFICES ASSUME a < b PROVE a * BLKSIZE < b * BLKSIZE
    OBVIOUS
  <2>1. (b - a - 1) * BLKSIZE >= 0
    BY <1>1, SMT
  <2> QED BY <1>1, <2>1, SMT
<1>3. a >= b => a * BLKSIZE >= b * BLKSIZE
  <2> SUFFICES ASSUME a >= b PROVE a * BLKSIZE >= b * BLKSIZE
    OBVIOUS
  <2>1. (a - b) * BLKSIZE >= 0
    BY <1>1, SMT
  <2> QED BY <1>1, <2>1, SMT
<1>4. a * BLKSIZE \in Int /\ b * BLKSIZE \in Int
  BY <1>1
<1> QED BY <1>2, <1>3, <1>4

(* A larger size has no fewer blocks.                                      *)
LEMMA CountMonotone ==
  ASSUME NEW s \in Nat, NEW t \in Nat, s <= t, t + BLKSIZE <= UINT
  PROVE  NBlocks(s) <= NBlocks(t)
<1> DEFINE m == NBlocks(s)
           n == NBlocks(t)
<1>1. m \in Nat /\ n \in Nat /\ m * BLKSIZE < s + BLKSIZE /\ t <= n * BLKSIZE
  BY CountOf, SizeAssumption
<1>2. (n + 1) * BLKSIZE = n * BLKSIZE + BLKSIZE /\ m * BLKSIZE \in Int /\ n * BLKSIZE \in Int
  BY <1>1, SizeAssumption, SMT
<1>3. m * BLKSIZE < (n + 1) * BLKSIZE
  BY <1>1, <1>2, SizeAssumption
<1> HIDE DEF m, n
<1>4. m < n + 1
  BY <1>1, <1>3, Below
<1> QED BY <1>1, <1>4 DEF m, n

LEMMA CountBound ==
  ASSUME NEW s \in Nat, NEW k \in Nat, s <= k * BLKSIZE, s + BLKSIZE <= UINT
  PROVE  NBlocks(s) <= k
<1> DEFINE m == NBlocks(s)
<1>1. m \in Nat /\ m * BLKSIZE < s + BLKSIZE
  BY CountOf
<1>2. (k + 1) * BLKSIZE = k * BLKSIZE + BLKSIZE /\ m * BLKSIZE \in Int /\ k * BLKSIZE \in Int
  BY <1>1, SizeAssumption, SMT
<1>3. m * BLKSIZE < (k + 1) * BLKSIZE
  BY <1>1, <1>2, SizeAssumption
<1> HIDE DEF m
<1>4. m < k + 1
  BY <1>1, <1>3, Below
<1> QED BY <1>1, <1>4 DEF m

LEMMA OffsetBelow ==
  ASSUME NEW s \in Nat, s + BLKSIZE <= UINT, NEW off \in Nat, off < s
  PROVE  (off \div BLKSIZE) \in Nat /\ (off \div BLKSIZE) < NBlocks(s)
<1> DEFINE q == off \div BLKSIZE
           m == NBlocks(s)
<1>1. q \in Nat /\ off = q * BLKSIZE + (off % BLKSIZE) /\ (off % BLKSIZE) \in Index
  BY DivMod
<1>2. m \in Nat /\ s <= m * BLKSIZE
  BY CountOf
<1>3. q * BLKSIZE \in Int /\ m * BLKSIZE \in Int
  BY <1>1, <1>2, SizeAssumption
<1>4. q * BLKSIZE < m * BLKSIZE
  BY <1>1, <1>2, <1>3, SizeAssumption DEF Index
<1> HIDE DEF q, m
<1> QED BY <1>1, <1>2, <1>4, Below DEF q, m

LEMMA FirstOfBlock ==
  ASSUME NEW s \in Nat, s + BLKSIZE <= UINT, NEW b \in Nat, b < NBlocks(s)
  PROVE  /\ b * BLKSIZE \in Nat /\ b * BLKSIZE < s
         /\ ((b * BLKSIZE) \div BLKSIZE) = b /\ ((b * BLKSIZE) % BLKSIZE) = 0
<1> DEFINE m == NBlocks(s)
<1>1. m \in Nat /\ m * BLKSIZE < s + BLKSIZE
  BY CountOf
<1>2. (b + 1) * BLKSIZE = b * BLKSIZE + BLKSIZE /\ m * BLKSIZE \in Int /\ b * BLKSIZE \in Nat
  BY <1>1, SizeAssumption, SMT
<1>3. ~((m) * BLKSIZE < (b + 1) * BLKSIZE)
  <2> HIDE DEF m
  <2> QED BY <1>1, Below DEF m
<1>4. 0 \in Index /\ b * BLKSIZE + 0 = b * BLKSIZE
  BY <1>2, SizeAssumption DEF Index
<1>5. ((b * BLKSIZE + 0) \div BLKSIZE) = b /\ ((b * BLKSIZE + 0) % BLKSIZE) = 0
  BY <1>4, DivIs
<1>6. ((b * BLKSIZE) \div BLKSIZE) = b /\ ((b * BLKSIZE) % BLKSIZE) = 0
  BY <1>4, <1>5
<1>7. b * BLKSIZE < s
  <2> DEFINE x == b * BLKSIZE
             y == m * BLKSIZE
  <2>1. x \in Nat /\ y \in Int /\ y < s + BLKSIZE /\ ~(y < x + BLKSIZE) /\ BLKSIZE \in Nat
    BY <1>1, <1>2, <1>3, SizeAssumption
  <2> HIDE DEF x, y
  <2>2. x < s
    BY <2>1
  <2> QED BY <2>2 DEF x
<1> QED BY <1>2, <1>6, <1>7

LEMMA NoneForZero == NBlocks(0) = 0
<1>1. 0 + BLKSIZE <= UINT /\ 0 <= 0 * BLKSIZE
  BY BlockBound, SizeAssumption
<1>2. NBlocks(0) \in Nat /\ NBlocks(0) <= 0
  BY <1>1, CountOf, CountBound
<1> QED BY <1>2

---------------------------------------------------------------------------
(* Natural numbers *)

(* A set of natural numbers has a least element.                           *)
LEMMA LeastElement ==
  ASSUME NEW S \in SUBSET Nat, S # {}
  PROVE  \E x \in S : \A y \in S : ~(y < x)
<1> DEFINE T == {0..x : x \in S}
<1> DEFINE R == StrictSubsetOrdering(Nat)
<1>1. IsWellFoundedOn(R, FiniteSubsetsOf(Nat))
  BY FS_StrictSubsetOrderingWellFounded
<1>2. T \subseteq FiniteSubsetsOf(Nat)
  <2>1. ASSUME NEW x \in S PROVE 0..x \in FiniteSubsetsOf(Nat)
    <3>1. x \in Int /\ 0 \in Int
      OBVIOUS
    <3>2. IsFiniteSet(0..x)
      BY <3>1, FS_Interval
    <3> QED BY <3>2 DEF FiniteSubsetsOf
  <2> QED BY <2>1
<1>3. T # {}
  OBVIOUS
<1>4. \E u \in T : \A v \in T : <<v, u>> \notin R
  <2> HIDE DEF R, T
  <2> QED BY <1>1, <1>2, <1>3, WFMin
<1>5. PICK x \in S : \A v \in T : <<v, 0..x>> \notin R
  BY <1>4
<1>6. ASSUME NEW y \in S, y < x PROVE FALSE
  <2>1. 0..y \in T
    OBVIOUS
  <2>2. <<0..y, 0..x>> \notin R
    BY <2>1, <1>5
  <2>3. 0..y \subseteq Nat /\ 0..x \subseteq Nat /\ 0..y \subseteq 0..x /\ x \in 0..x
          /\ x \notin 0..y
    BY <1>6
  <2>4. 0..y \in FiniteSubsetsOf(Nat) /\ 0..x \in FiniteSubsetsOf(Nat)
    BY <1>2
  <2> QED BY <2>2, <2>3, <2>4 DEF StrictSubsetOrdering
<1> QED BY <1>6

(* Induction, as a fact about sets.                                        *)
LEMMA SetInduction ==
  ASSUME NEW S \in SUBSET Nat, 0 \in S, \A n \in S : n + 1 \in S
  PROVE  S = Nat
<1> DEFINE T == Nat \ S
<1>1. SUFFICES ASSUME T # {} PROVE FALSE
  OBVIOUS
<1>2. PICK x \in T : \A y \in T : ~(y < x)
  BY <1>1, LeastElement
<1>3. x # 0 /\ x - 1 \in Nat
  OBVIOUS
<1>4. x - 1 \in S
  BY <1>2, <1>3
<1> QED BY <1>3, <1>4

(* The least element is one, and is least.                                 *)
LEMMA MinIs ==
  ASSUME NEW S \in SUBSET Nat, S # {}
  PROVE  Min(S) \in S /\ \A x \in S : Min(S) <= x
<1>1. \E x \in S : \A y \in S : x <= y
  BY LeastElement
<1> QED BY <1>1 DEF Min

LEMMA MaxWithZero ==
  ASSUME NEW x \in Int
  PROVE  Max({0, x}) = IF x > 0 THEN x ELSE 0
<1>1. \E y \in {0, x} : \A z \in {0, x} : y >= z
  OBVIOUS
<1> QED BY <1>1 DEF Max

---------------------------------------------------------------------------
(* Types *)

(* The types of a word, of an inode, and of a disk.                        *)
Cells == [n : Nat, name : Names \cup {NoName}]

Inodes == [size : 0..UINT - 1, ftype : {"reg", "dir", "symlink"}, nlink : Nat,
           direct : [0..NDIRECT - 1 -> Nat], indirect : Nat, indirect2 : Nat]

Disks == [free : SUBSET DataBlocks, disk : [0..NBLOCKS + 2 -> [Index -> Cells]],
          inode : [Inos -> Inodes]]

(* A word that is a block number or a value.                               *)
Number(n) == [n |-> n, name |-> NoName]

(* No data block is block 0, and all lie on the disk.                      *)
LEMMA DataRange ==
  ASSUME Careful(habit)
  PROVE  \A b \in DataBlocks : b \in Nat /\ b # 0 /\ b \in 0..NBLOCKS + 2
BY SizeAssumption DEF Careful, DataBlocks

LEMMA ZeroIndex == 0 \in Index /\ 0 \in 0..NDIRECT - 1 /\ Blank \in [Index -> Cells]
BY SizeAssumption DEF Index, Blank, Zero, Cells

LEMMA Fields ==
  ASSUME NEW f \in Disks
  PROVE  /\ f.free \subseteq DataBlocks
         /\ f.disk \in [0..NBLOCKS + 2 -> [Index -> Cells]]
         /\ f.inode \in [Inos -> Inodes]
BY DEF Disks

(* allocate_block() gives a free block, or 0.                              *)
LEMMA AllocatedIs ==
  ASSUME NEW f \in Disks, Careful(habit)
  PROVE  IF f.free = {} THEN Allocated(f) = 0 ELSE Allocated(f) \in f.free
<1>1. f.free \in SUBSET Nat
  BY Fields, DataRange
<1> QED BY <1>1, MinIs DEF Allocated

(* What taking and erasing a block does.                                   *)
LEMMA ErasedIs ==
  ASSUME NEW f \in Disks, Careful(habit), f.free # {}
  PROVE  /\ Allocated(f) \in f.free
         /\ Erased(f) \in Disks
         /\ Erased(f).free = f.free \ {Allocated(f)}
         /\ Erased(f).inode = f.inode
         /\ Erased(f).disk[Allocated(f)] = Blank
         /\ \A b \in 0..NBLOCKS + 2 : b # Allocated(f) => Erased(f).disk[b] = f.disk[b]
<1> DEFINE a == Allocated(f)
           g == Erased(f)
<1>1. a \in f.free /\ a \in 0..NBLOCKS + 2
  BY AllocatedIs, Fields, DataRange
<1>2. g = [free |-> f.free \ {a}, disk |-> [f.disk EXCEPT ![a] = Blank], inode |-> f.inode]
  <2>1. f = [free |-> f.free, disk |-> f.disk, inode |-> f.inode]
    BY DEF Disks
  <2>2. g = [f EXCEPT !.free = @ \ {a}, !.disk[a] = Blank]
    BY DEF Erased
  <2> HIDE DEF a, g
  <2> QED BY <2>1, <2>2
<1> HIDE DEF a, g
<1>3. /\ g.free = f.free \ {a} /\ g.inode = f.inode
      /\ g.disk = [f.disk EXCEPT ![a] = Blank]
  BY <1>2
<1>4. g \in Disks
  BY <1>1, <1>2, Fields, ZeroIndex DEF Disks
<1>5. g.disk[a] = Blank /\ \A b \in 0..NBLOCKS + 2 : b # a => g.disk[b] = f.disk[b]
  BY <1>1, <1>3, Fields
<1> QED BY <1>1, <1>3, <1>4, <1>5 DEF a, g

(* What storing a number in a block does.                                  *)
LEMMA StoredIs ==
  ASSUME NEW f \in Disks, NEW b \in DataBlocks, NEW w \in Index, NEW n \in Nat, Careful(habit)
  PROVE  /\ Stored(f, b, w, n) \in Disks
         /\ Stored(f, b, w, n).free = f.free
         /\ Stored(f, b, w, n).inode = f.inode
         /\ Stored(f, b, w, n).disk[b][w].n = n
         /\ \A v \in Index : v # w => Stored(f, b, w, n).disk[b][v] = f.disk[b][v]
         /\ \A c \in 0..NBLOCKS + 2 : c # b => Stored(f, b, w, n).disk[c] = f.disk[c]
<1> DEFINE g == Stored(f, b, w, n)
<1>1. b \in 0..NBLOCKS + 2 /\ b + 0 = b
  BY DataRange
<1>2. g = [free |-> f.free, disk |-> [f.disk EXCEPT ![b] = [f.disk[b] EXCEPT ![w] = Number(n)]],
           inode |-> f.inode]
  BY <1>1, Small DEF Stored, Disks, Number
<1>3. Number(n) \in Cells
  BY DEF Number, Cells
<1>4. [f.disk[b] EXCEPT ![w] = Number(n)] \in [Index -> Cells]
  BY <1>1, <1>3, Fields
<1> HIDE DEF g
<1>5. g \in Disks
  BY <1>1, <1>2, <1>4, Fields DEF Disks
<1>6. g.disk[b] = [f.disk[b] EXCEPT ![w] = Number(n)]
      /\ \A c \in 0..NBLOCKS + 2 : c # b => g.disk[c] = f.disk[c]
  BY <1>1, <1>2, Fields
<1>7. f.disk[b] \in [Index -> Cells]
  BY <1>1, Fields
<1>8. g.disk[b][w] = Number(n) /\ \A v \in Index : v # w => g.disk[b][v] = f.disk[b][v]
  BY <1>6, <1>7
<1>9. g.disk[b][w].n = n
  BY <1>8 DEF Number
<1>10. g.free = f.free /\ g.inode = f.inode
  BY <1>2
<1> QED BY <1>5, <1>6, <1>8, <1>9, <1>10 DEF g

LEMMA WordIs ==
  ASSUME NEW f, NEW b \in Nat, NEW w \in Index
  PROVE  Word(f, b, w) = f.disk[b][w].n
BY Small DEF Word

(* What free_block() does.                                                 *)
LEMMA FreedIs ==
  ASSUME NEW f \in Disks, NEW b \in DataBlocks
  PROVE  /\ Freed(f, b) \in Disks
         /\ Freed(f, b).free = f.free \cup {b}
         /\ Freed(f, b).inode = f.inode
         /\ Freed(f, b).disk = f.disk
BY DEF Freed, Disks

(* An inode that is changed.                                               *)
Put(f, i, oi) == [f EXCEPT !.inode[i] = oi]

(* What changing an inode does.                                            *)
LEMMA PutIs ==
  ASSUME NEW f \in Disks, NEW i \in Inos, NEW oi \in Inodes
  PROVE  /\ Put(f, i, oi) \in Disks
         /\ Put(f, i, oi).free = f.free
         /\ Put(f, i, oi).disk = f.disk
         /\ Put(f, i, oi).inode[i] = oi
         /\ \A j \in Inos : j # i => Put(f, i, oi).inode[j] = f.inode[j]
BY DEF Put, Disks

LEMMA GrownIs ==
  ASSUME NEW f \in Disks, NEW i \in Inos
  PROVE  /\ Grown(f, i).r = "ok"
         /\ Grown(f, i).fs = Put(f, i, [f.inode[i] EXCEPT !.size = (@ + BLKSIZE) % UINT])
BY DEF Grown, Put, Disks, Inodes

LEMMA ShrunkIs ==
  ASSUME NEW f \in Disks, NEW i \in Inos
  PROVE  /\ Shrunk(f, i).r = "ok"
         /\ Shrunk(f, i).fs = Put(f, i, [f.inode[i] EXCEPT !.size = (@ - BLKSIZE) % UINT])
BY DEF Shrunk, Put, Disks, Inodes

---------------------------------------------------------------------------
(* Where a file of n blocks has block numbers, and what it means that the  *)
(* blocks of a disk are accounted for.                                     *)

(* The slots that a file of n blocks has in use.                           *)
Used(n) ==
  {s \in Slots : \/ s[1] = "direct" /\ s[2] < n
                 \/ s[1] = "indirect" /\ NDIRECT < n
                 \/ s[1] = "under" /\ NDIRECT + s[2] < n}

(* The slot of block k of a file.                                          *)
Place(k) == IF k < NDIRECT THEN <<"direct", k>> ELSE <<"under", k - NDIRECT>>

(* How many blocks a file has; a link has none.                            *)
Count(f, i) == IF f.inode[i].ftype = "symlink" THEN 0 ELSE NBlocksOf(f, i)

(* File i has blocks in the slots that n blocks take, and nothing          *)
(* elsewhere.                                                              *)
Whole(f, i, n) ==
  \A s \in Slots : IF s \in Used(n) THEN Held(f, i, s) \in DataBlocks \ f.free
                                    ELSE Held(f, i, s) = 0

(* No block is in two places.                                              *)
Apart(f) ==
  \A i, j \in Inos, s, t \in Slots :
    (Held(f, i, s) = Held(f, j, t) /\ Held(f, i, s) # 0) => (i = j /\ s = t)

(* A block that is not free is in some place.                              *)
Owned(f) == \A b \in DataBlocks \ f.free : \E i \in Inos, s \in Slots : Held(f, i, s) = b

(* A disk on which every file has the blocks its size asks for, and no     *)
(* block is lost.                                                          *)
Sound(f) == f \in Disks /\ (\A i \in Inos : Whole(f, i, Count(f, i))) /\ Apart(f) /\ Owned(f)

(* Disk g is disk f with blocks taken from the free ones into the slots    *)
(* fresh of file i.                                                        *)
Joined(f, g, i, fresh) ==
  /\ g.free \subseteq f.free
  /\ \A j \in Inos, s \in Slots : (j = i /\ s \in fresh) \/ Held(g, j, s) = Held(f, j, s)
  /\ \A s \in fresh : Held(f, i, s) = 0 /\ Held(g, i, s) \in f.free \ g.free
  /\ \A s, t \in fresh : Held(g, i, s) = Held(g, i, t) => s = t
  /\ \A b \in f.free \ g.free : \E s \in fresh : Held(g, i, s) = b

(* The slots that file i has in use on disk g and not on disk f.           *)
Fresh(f, g, i) == Used(Count(g, i)) \ Used(Count(f, i))

LEMMA UsedIn ==
  /\ \A n : Used(n) \subseteq Slots
  /\ \A m, n \in Int : m <= n => Used(m) \subseteq Used(n)
<1>1. ASSUME NEW m \in Int, NEW n \in Int, m <= n, NEW s \in Slots, s \in Used(m)
        PROVE s \in Used(n)
  <2>1. s[1] = "direct" => s[2] \in Int
    BY SizeAssumption DEF Slots, Index
  <2>2. s[1] = "under" => s[2] \in Int
    BY SizeAssumption DEF Slots, Index
  <2> QED BY <1>1, <2>1, <2>2, SizeAssumption DEF Used
<1> QED BY <1>1 DEF Used

LEMMA SlotIs ==
  ASSUME NEW s \in Slots
  PROVE  \/ \E k \in 0..NDIRECT - 1 : s = <<"direct", k>>
         \/ \E k \in Index : s = <<"under", k>>
         \/ s = <<"indirect", 0>>
         \/ s = <<"indirect2", 0>>
BY DEF Slots

LEMMA SlotsAre ==
  /\ \A k \in 0..NDIRECT - 1 : <<"direct", k>> \in Slots
  /\ \A k \in Index : <<"under", k>> \in Slots
  /\ <<"indirect", 0>> \in Slots /\ <<"indirect2", 0>> \in Slots
BY DEF Slots

LEMMA UsedIs ==
  ASSUME NEW n \in Int
  PROVE  /\ \A k \in 0..NDIRECT - 1 : <<"direct", k>> \in Used(n) <=> k < n
         /\ \A k \in Index : <<"under", k>> \in Used(n) <=> NDIRECT + k < n
         /\ <<"indirect", 0>> \in Used(n) <=> NDIRECT < n
         /\ <<"indirect2", 0>> \notin Used(n)
BY SlotsAre DEF Used

LEMMA HeldIs ==
  ASSUME NEW f, NEW i
  PROVE  /\ \A k : Held(f, i, <<"direct", k>>) = f.inode[i].direct[k]
         /\ Held(f, i, <<"indirect", 0>>) = f.inode[i].indirect
         /\ Held(f, i, <<"indirect2", 0>>) = f.inode[i].indirect2
         /\ f.inode[i].indirect \in Nat => \A k \in Index :
              Held(f, i, <<"under", k>>) =
                IF f.inode[i].indirect = 0 THEN 0 ELSE f.disk[f.inode[i].indirect][k].n
BY WordIs DEF Held

LEMMA HeldSame ==
  ASSUME NEW f, NEW g, NEW i,
         f.inode[i].indirect \in Nat,
         g.inode[i].direct = f.inode[i].direct,
         g.inode[i].indirect = f.inode[i].indirect,
         g.inode[i].indirect2 = f.inode[i].indirect2,
         f.inode[i].indirect # 0 => g.disk[f.inode[i].indirect] = f.disk[f.inode[i].indirect],
         NEW s \in Slots
  PROVE  Held(g, i, s) = Held(f, i, s)
<1>1. CASE \E k \in 0..NDIRECT - 1 : s = <<"direct", k>>
  BY <1>1, HeldIs, SMTT(30)
<1>2. CASE \E k \in Index : s = <<"under", k>>
  BY <1>2, HeldIs, SMTT(30)
<1>3. CASE s = <<"indirect", 0>> \/ s = <<"indirect2", 0>>
  BY <1>3, HeldIs
<1> QED BY <1>1, <1>2, <1>3, SlotIs

LEMMA CountType ==
  ASSUME NEW f \in Disks, NEW i \in Inos
  PROVE  Count(f, i) \in Nat /\ NBlocksOf(f, i) \in Nat /\ f.inode[i].size \in 0..UINT - 1
<1>1. f.inode[i].size \in 0..UINT - 1
  BY Fields DEF Inodes
<1> QED BY <1>1, RoundedType DEF Count, NBlocksOf

(* Blocks that were free and now are where the size asks for them leave a  *)
(* disk sound,                                                             *)
LEMMA JoinSound ==
  ASSUME NEW f, NEW g \in Disks, NEW i \in Inos, Sound(f), Careful(habit),
         \A j \in Inos : j # i => Count(g, j) = Count(f, j),
         Count(f, i) <= Count(g, i),
         Joined(f, g, i, Fresh(f, g, i))
  PROVE  Sound(g)
<1> DEFINE N == Fresh(f, g, i)
<1>1. /\ f \in Disks /\ f.free \subseteq DataBlocks /\ g.free \subseteq f.free
           /\ 0 \notin DataBlocks
      /\ N \subseteq Slots
  BY Fields, DataRange, UsedIn DEF Sound, Joined, Fresh
<1>2. Count(f, i) \in Nat /\ Count(g, i) \in Nat
  BY <1>1, CountType
<1>3. /\ Used(Count(f, i)) \subseteq Used(Count(g, i)) /\ Used(Count(g, i)) \subseteq Slots
      /\ N = Used(Count(g, i)) \ Used(Count(f, i))
  BY <1>2, UsedIn DEF Fresh
<1>4. \A j \in Inos, s \in Slots : Held(f, j, s) \in (DataBlocks \ f.free) \cup {0}
  BY DEF Sound, Whole
<1> HIDE DEF N
<1>5. /\ \A j \in Inos, s \in Slots : (j = i /\ s \in N) \/ Held(g, j, s) = Held(f, j, s)
      /\ \A s \in N : Held(f, i, s) = 0 /\ Held(g, i, s) \in f.free \ g.free
      /\ \A s, t \in N : Held(g, i, s) = Held(g, i, t) => s = t
      /\ \A b \in f.free \ g.free : \E s \in N : Held(g, i, s) = b
  BY DEF Joined, N
<1>6. ASSUME NEW j \in Inos PROVE Whole(g, j, Count(g, j))
  <2>1. Whole(f, j, Count(f, j))
    BY DEF Sound
  <2>2. CASE j # i
    <3>1. Count(g, j) = Count(f, j)
      BY <2>2
    <3> QED BY <1>1, <1>5, <2>1, <2>2, <3>1 DEF Whole
  <2>3. CASE j = i
    <3> SUFFICES ASSUME NEW s \in Slots
                 PROVE  IF s \in Used(Count(g, i)) THEN Held(g, i, s) \in DataBlocks \ g.free
                        ELSE Held(g, i, s) = 0
      BY <2>3 DEF Whole
    <3>1. CASE s \in N
      BY <3>1, <1>1, <1>3, <1>5
    <3>2. CASE s \notin N
      <4>1. Held(g, i, s) = Held(f, i, s)
        BY <3>2, <1>5
      <4>2. s \in Used(Count(g, i)) <=> s \in Used(Count(f, i))
        BY <3>2, <1>3
      <4> QED BY <4>1, <4>2, <2>1, <2>3, <1>1 DEF Whole
    <3> QED BY <3>1, <3>2
  <2> QED BY <2>2, <2>3
<1>7. Apart(g)
  <2> SUFFICES ASSUME NEW j \in Inos, NEW k \in Inos, NEW s \in Slots, NEW t \in Slots,
                      Held(g, j, s) = Held(g, k, t), Held(g, j, s) # 0
               PROVE  j = k /\ s = t
    BY DEF Apart
  <2>1. CASE (j = i /\ s \in N) /\ (k = i /\ t \in N)
    BY <2>1, <1>5
  <2>2. CASE (j = i /\ s \in N) /\ ~(k = i /\ t \in N)
    BY <2>2, <1>4, <1>5
  <2>3. CASE ~(j = i /\ s \in N) /\ (k = i /\ t \in N)
    BY <2>3, <1>4, <1>5
  <2>4. CASE ~(j = i /\ s \in N) /\ ~(k = i /\ t \in N)
    <3>1. Held(g, j, s) = Held(f, j, s) /\ Held(g, k, t) = Held(f, k, t)
      BY <2>4, <1>5
    <3>2. Apart(f)
      BY DEF Sound
    <3>3. Held(f, j, s) = Held(f, k, t) /\ Held(f, j, s) # 0
      BY <3>1
    <3> QED BY <3>2, <3>3 DEF Apart
  <2> QED BY <2>1, <2>2, <2>3, <2>4
<1>8. Owned(g)
  <2> SUFFICES ASSUME NEW b \in DataBlocks \ g.free
               PROVE  \E j \in Inos, s \in Slots : Held(g, j, s) = b
    BY DEF Owned
  <2>1. CASE b \in f.free
    BY <2>1, <1>1, <1>5
  <2>2. CASE b \notin f.free
    <3>1. PICK j \in Inos, s \in Slots : Held(f, j, s) = b
      BY <2>2 DEF Sound, Owned
    <3>2. ~(j = i /\ s \in N)
      BY <3>1, <1>1, <1>5
    <3> QED BY <3>1, <3>2, <1>5
  <2> QED BY <2>1, <2>2
<1> QED BY <1>6, <1>7, <1>8 DEF Sound

(* and so does giving them back.                                           *)
LEMMA LeaveSound ==
  ASSUME NEW f \in Disks, NEW g, NEW i \in Inos, Sound(g), Careful(habit),
         \A j \in Inos : j # i => Count(g, j) = Count(f, j),
         Count(f, i) <= Count(g, i),
         Joined(f, g, i, Fresh(f, g, i))
  PROVE  Sound(f)
<1> DEFINE N == Fresh(f, g, i)
<1>1. /\ g \in Disks /\ f.free \subseteq DataBlocks /\ g.free \subseteq f.free
           /\ 0 \notin DataBlocks
      /\ N \subseteq Slots
  BY Fields, DataRange, UsedIn DEF Sound, Joined, Fresh
<1>2. Count(f, i) \in Nat /\ Count(g, i) \in Nat
  BY <1>1, CountType
<1>3. /\ Used(Count(f, i)) \subseteq Used(Count(g, i)) /\ Used(Count(g, i)) \subseteq Slots
      /\ N = Used(Count(g, i)) \ Used(Count(f, i))
  BY <1>2, UsedIn DEF Fresh
<1>4. \A j \in Inos, s \in Slots : Held(g, j, s) \in (DataBlocks \ g.free) \cup {0}
  BY DEF Sound, Whole
<1> HIDE DEF N
<1>5. /\ \A j \in Inos, s \in Slots : (j = i /\ s \in N) \/ Held(g, j, s) = Held(f, j, s)
      /\ \A s \in N : Held(f, i, s) = 0 /\ Held(g, i, s) \in f.free \ g.free
      /\ \A s, t \in N : Held(g, i, s) = Held(g, i, t) => s = t
      /\ \A b \in f.free \ g.free : \E s \in N : Held(g, i, s) = b
  BY DEF Joined, N
<1>6. ASSUME NEW j \in Inos, NEW s \in Slots, ~(j = i /\ s \in N) PROVE Held(f, j, s) \notin f.free
  <2>1. Held(f, j, s) = Held(g, j, s)
    BY <1>5, <1>6
  <2>2. CASE Held(f, j, s) \in f.free \ g.free
    <3>1. PICK t \in N : Held(g, i, t) = Held(f, j, s)
      BY <2>2, <1>5
    <3>2. Held(g, i, t) # 0 /\ t \in Slots
      BY <3>1, <2>2, <1>1
    <3> QED BY <3>1, <3>2, <2>1, <1>6 DEF Sound, Apart
  <2> QED BY <2>1, <2>2, <1>1, <1>4
<1>7. ASSUME NEW j \in Inos PROVE Whole(f, j, Count(f, j))
  <2>1. Whole(g, j, Count(g, j))
    BY DEF Sound
  <2>2. CASE j # i
    <3>1. Count(g, j) = Count(f, j)
      BY <2>2
    <3> QED BY <1>5, <1>6, <2>1, <2>2, <3>1 DEF Whole
  <2>3. CASE j = i
    <3> SUFFICES ASSUME NEW s \in Slots
                 PROVE  IF s \in Used(Count(f, i)) THEN Held(f, i, s) \in DataBlocks \ f.free
                        ELSE Held(f, i, s) = 0
      BY <2>3 DEF Whole
    <3>1. CASE s \in N
      BY <3>1, <1>3, <1>5
    <3>2. CASE s \notin N
      <4>1. Held(g, i, s) = Held(f, i, s) /\ Held(f, i, s) \notin f.free
        BY <3>2, <1>5, <1>6
      <4>2. s \in Used(Count(g, i)) <=> s \in Used(Count(f, i))
        BY <3>2, <1>3
      <4> QED BY <4>1, <4>2, <2>1, <2>3 DEF Whole
    <3> QED BY <3>1, <3>2
  <2> QED BY <2>2, <2>3
<1>8. Apart(f)
  <2> SUFFICES ASSUME NEW j \in Inos, NEW k \in Inos, NEW s \in Slots, NEW t \in Slots,
                      Held(f, j, s) = Held(f, k, t), Held(f, j, s) # 0
               PROVE  j = k /\ s = t
    BY DEF Apart
  <2>1. ~(j = i /\ s \in N) /\ ~(k = i /\ t \in N)
    BY <1>5
  <2>2. Held(g, j, s) = Held(f, j, s) /\ Held(g, k, t) = Held(f, k, t)
    BY <2>1, <1>5
  <2> QED BY <2>2 DEF Sound, Apart
<1>9. Owned(f)
  <2> SUFFICES ASSUME NEW b \in DataBlocks \ f.free
               PROVE  \E j \in Inos, s \in Slots : Held(f, j, s) = b
    BY DEF Owned
  <2>1. PICK j \in Inos, s \in Slots : Held(g, j, s) = b
    BY <1>1 DEF Sound, Owned
  <2>2. ~(j = i /\ s \in N)
    BY <2>1, <1>5
  <2> QED BY <2>1, <2>2, <1>5
<1> QED BY <1>7, <1>8, <1>9 DEF Sound

---------------------------------------------------------------------------
(* One block more: f without it, g with it                                 *)

(* Inode j points where it pointed.                                        *)
SameInode(f, g, j) ==
  /\ f.inode[j].indirect \in Nat
  /\ g.inode[j].direct = f.inode[j].direct
  /\ g.inode[j].indirect = f.inode[j].indirect
  /\ g.inode[j].indirect2 = f.inode[j].indirect2

(* The indirect block of file j holds what it held.                        *)
SameIndirect(f, g, j) ==
  f.inode[j].indirect # 0 => g.disk[f.inode[j].indirect] = f.disk[f.inode[j].indirect]

(* The slots that one block more takes: one, or two when it is the first   *)
(* under the indirect block.                                               *)
LEMMA FreshIs ==
  ASSUME NEW n \in Nat, n < NDIRECT + BLKSIZE
  PROVE  Used(n + 1) \ Used(n) =
           IF n < NDIRECT THEN {<<"direct", n>>}
           ELSE IF n = NDIRECT THEN {<<"indirect", 0>>, <<"under", 0>>}
           ELSE {<<"under", n - NDIRECT>>}
<1> DEFINE D == IF n < NDIRECT THEN {<<"direct", n>>}
                ELSE IF n = NDIRECT THEN {<<"indirect", 0>>, <<"under", 0>>}
                ELSE {<<"under", n - NDIRECT>>}
<1>1. NDIRECT \in Nat \ {0} /\ BLKSIZE \in Nat \ {0} /\ n + 1 \in Int /\ n \in Int
  BY SizeAssumption
<1>2. \A s \in Slots : (s \in Used(n + 1) /\ s \notin Used(n)) <=> s \in D
  <2> SUFFICES ASSUME NEW s \in Slots PROVE (s \in Used(n + 1) /\ s \notin Used(n)) <=> s \in D
    OBVIOUS
  <2>1. CASE \E k \in 0..NDIRECT - 1 : s = <<"direct", k>>
    BY <2>1, <1>1, UsedIs
  <2>2. CASE \E k \in Index : s = <<"under", k>>
    BY <2>2, <1>1, UsedIs DEF Index
  <2>3. CASE s = <<"indirect", 0>>
    BY <2>3, <1>1, UsedIs
  <2>4. CASE s = <<"indirect2", 0>>
    BY <2>4, <1>1, UsedIs
  <2> QED BY <2>1, <2>2, <2>3, <2>4, SlotIs
<1>3. D \subseteq Slots
  BY <1>1, SlotsAre DEF Index
<1>4. Used(n + 1) \subseteq Slots
  BY UsedIn
<1> HIDE DEF D
<1>5. Used(n + 1) \ Used(n) = D
  BY <1>2, <1>3, <1>4
<1> QED BY <1>5 DEF D

(* A block in a direct pointer.                                            *)
LEMMA JoinedDirect ==
  ASSUME NEW f, NEW g, NEW i \in Inos, NEW n \in 0..NDIRECT - 1, NEW a \in f.free,
         g.free = f.free \ {a},
         \A j \in Inos : j # i => SameInode(f, g, j),
         \A j \in Inos : SameIndirect(f, g, j),
         f.inode[i].indirect \in Nat,
         f.inode[i].direct[n] = 0, g.inode[i].direct[n] = a,
         \A k \in 0..NDIRECT - 1 : k # n => g.inode[i].direct[k] = f.inode[i].direct[k],
         g.inode[i].indirect = f.inode[i].indirect,
         g.inode[i].indirect2 = f.inode[i].indirect2
  PROVE  Joined(f, g, i, {<<"direct", n>>})
<1>1. ASSUME NEW j \in Inos, NEW s \in Slots, ~(j = i /\ s = <<"direct", n>>)
      PROVE  Held(g, j, s) = Held(f, j, s)
  <2>1. CASE j # i
    <3>1. SameInode(f, g, j) /\ SameIndirect(f, g, j)
      BY <2>1
    <3> QED BY <3>1, HeldSame DEF SameInode, SameIndirect
  <2>2. CASE j = i
    <3>1. SameIndirect(f, g, i)
      OBVIOUS
    <3>2. CASE \E k \in 0..NDIRECT - 1 : s = <<"direct", k>>
      BY <3>2, <1>1, <2>2, HeldIs
    <3>3. CASE \E k \in Index : s = <<"under", k>>
      BY <3>3, <3>1, <2>2, HeldIs, SMTT(30) DEF SameIndirect
    <3>4. CASE s = <<"indirect", 0>> \/ s = <<"indirect2", 0>>
      BY <3>4, <2>2, HeldIs
    <3> QED BY <3>2, <3>3, <3>4, SlotIs
  <2> QED BY <2>1, <2>2
<1>2. Held(f, i, <<"direct", n>>) = 0 /\ Held(g, i, <<"direct", n>>) = a
  BY HeldIs
<1> QED BY <1>1, <1>2 DEF Joined

(* The indirect block and the first block under it.                        *)
LEMMA JoinedFirst ==
  ASSUME NEW f, NEW g, NEW i \in Inos, NEW a \in f.free, NEW b \in f.free, a # b, a \in Nat \ {0},
         g.free = f.free \ {a, b},
         \A j \in Inos : j # i => SameInode(f, g, j),
         \A j \in Inos : SameIndirect(f, g, j),
         f.inode[i].indirect = 0, g.inode[i].indirect = a,
         g.inode[i].direct = f.inode[i].direct,
         g.inode[i].indirect2 = f.inode[i].indirect2,
         g.disk[a][0].n = b, \A w \in Index : w # 0 => g.disk[a][w].n = 0
  PROVE  Joined(f, g, i, {<<"indirect", 0>>, <<"under", 0>>})
<1>1. ASSUME NEW j \in Inos, NEW s \in Slots, ~(j = i /\ s \in {<<"indirect", 0>>, <<"under", 0>>})
      PROVE  Held(g, j, s) = Held(f, j, s)
  <2>1. CASE j # i
    <3>1. SameInode(f, g, j) /\ SameIndirect(f, g, j)
      BY <2>1
    <3> QED BY <3>1, HeldSame DEF SameInode, SameIndirect
  <2>2. CASE j = i
    <3>1. CASE \E k \in 0..NDIRECT - 1 : s = <<"direct", k>>
      BY <3>1, <2>2, HeldIs
    <3>2. CASE \E k \in Index : s = <<"under", k>>
      <4>1. PICK k \in Index : s = <<"under", k>>
        BY <3>2
      <4>2. k # 0
        BY <4>1, <1>1, <2>2
      <4>3. Held(f, i, s) = 0
        BY <4>1, HeldIs
      <4>4. Held(g, i, s) = g.disk[a][k].n
        BY <4>1, HeldIs
      <4> QED BY <4>2, <4>3, <4>4, <2>2
    <3>3. CASE s = <<"indirect", 0>> \/ s = <<"indirect2", 0>>
      <4>1. s = <<"indirect2", 0>>
        BY <3>3, <1>1, <2>2
      <4> QED BY <4>1, <2>2, HeldIs
    <3> QED BY <3>1, <3>2, <3>3, SlotIs
  <2> QED BY <2>1, <2>2
<1>2. /\ Held(f, i, <<"indirect", 0>>) = 0 /\ Held(g, i, <<"indirect", 0>>) = a
      /\ Held(f, i, <<"under", 0>>) = 0 /\ Held(g, i, <<"under", 0>>) = b
  BY HeldIs, ZeroIndex
<1> QED BY <1>1, <1>2 DEF Joined

(* A further block under the indirect block.                               *)
LEMMA JoinedUnder ==
  ASSUME NEW f, NEW g, NEW i \in Inos, NEW a \in f.free, NEW c \in Nat \ {0}, NEW k \in Index,
         g.free = f.free \ {a},
         \A j \in Inos : SameInode(f, g, j),
         \A j \in Inos : j # i => SameIndirect(f, g, j),
         f.inode[i].indirect = c,
         f.disk[c][k].n = 0, g.disk[c][k].n = a,
         \A w \in Index : w # k => g.disk[c][w].n = f.disk[c][w].n
  PROVE  Joined(f, g, i, {<<"under", k>>})
<1>1. ASSUME NEW j \in Inos, NEW s \in Slots, ~(j = i /\ s = <<"under", k>>)
      PROVE  Held(g, j, s) = Held(f, j, s)
  <2>1. CASE j # i
    <3>1. SameInode(f, g, j) /\ SameIndirect(f, g, j)
      BY <2>1
    <3> QED BY <3>1, HeldSame DEF SameInode, SameIndirect
  <2>2. CASE j = i
    <3>0. SameInode(f, g, i)
      OBVIOUS
    <3>1. CASE \E d \in 0..NDIRECT - 1 : s = <<"direct", d>>
      BY <3>0, <3>1, <2>2, HeldIs DEF SameInode
    <3>2. CASE \E w \in Index : s = <<"under", w>>
      <4>1. PICK w \in Index : s = <<"under", w>>
        BY <3>2
      <4>2. w # k
        BY <4>1, <1>1, <2>2
      <4>3. Held(f, i, s) = f.disk[c][w].n
        BY <4>1, HeldIs
      <4>4. g.inode[i].indirect = c
        BY <3>0 DEF SameInode
      <4>5. Held(g, i, s) = g.disk[c][w].n
        BY <4>1, <4>4, HeldIs
      <4> QED BY <4>2, <4>3, <4>5, <2>2
    <3>3. CASE s = <<"indirect", 0>> \/ s = <<"indirect2", 0>>
      BY <3>0, <3>3, <2>2, HeldIs DEF SameInode
    <3> QED BY <3>1, <3>2, <3>3, SlotIs
  <2> QED BY <2>1, <2>2
<1>2. Held(f, i, <<"under", k>>) = 0 /\ Held(g, i, <<"under", k>>) = a
  <2>1. SameInode(f, g, i)
    OBVIOUS
  <2> QED BY <2>1, HeldIs DEF SameInode
<1> QED BY <1>1, <1>2 DEF Joined

---------------------------------------------------------------------------
(* add_block() *)

(* What a sound disk says of the fields of an inode.                       *)
LEMMA SoundMeans ==
  ASSUME NEW f, Sound(f), NEW i \in Inos, Careful(habit)
  PROVE  /\ \A k \in 0..NDIRECT - 1 :
              IF k < Count(f, i) THEN f.inode[i].direct[k] \in DataBlocks \ f.free
              ELSE f.inode[i].direct[k] = 0
         /\ Count(f, i) <= NDIRECT => f.inode[i].indirect = 0
         /\ Count(f, i) > NDIRECT => f.inode[i].indirect \in DataBlocks \ f.free
         /\ f.inode[i].indirect \in Nat
         /\ f.inode[i].indirect2 = 0
         /\ \A k \in Index : Count(f, i) > NDIRECT =>
              IF NDIRECT + k < Count(f, i)
              THEN f.disk[f.inode[i].indirect][k].n \in DataBlocks \ f.free
              ELSE f.disk[f.inode[i].indirect][k].n = 0
         /\ \A j \in Inos : (j # i /\ f.inode[j].indirect # 0)
                               => f.inode[j].indirect # f.inode[i].indirect
<1> DEFINE n == Count(f, i)
<1>1. Whole(f, i, n) /\ Apart(f) /\ f \in Disks
  BY DEF Sound
<1>2. n \in Nat /\ NDIRECT \in Nat /\ \A b \in DataBlocks : b \in Nat /\ b # 0
  BY <1>1, CountType, DataRange, SizeAssumption
<1> HIDE DEF n
<1>3. \A s \in Slots : IF s \in Used(n) THEN Held(f, i, s) \in DataBlocks \ f.free
                       ELSE Held(f, i, s) = 0
  BY <1>1 DEF Whole
<1>4. \A k \in 0..NDIRECT - 1 : IF k < n THEN f.inode[i].direct[k] \in DataBlocks \ f.free
                                ELSE f.inode[i].direct[k] = 0
  <2> SUFFICES ASSUME NEW k \in 0..NDIRECT - 1
               PROVE  IF k < n THEN f.inode[i].direct[k] \in DataBlocks \ f.free
                      ELSE f.inode[i].direct[k] = 0
    OBVIOUS
  <2>1. <<"direct", k>> \in Slots /\ (<<"direct", k>> \in Used(n) <=> k < n)
    BY <1>2, SlotsAre, UsedIs
  <2> QED BY <2>1, <1>3, HeldIs
<1>5. /\ n <= NDIRECT => f.inode[i].indirect = 0
      /\ n > NDIRECT => f.inode[i].indirect \in DataBlocks \ f.free
      /\ f.inode[i].indirect2 = 0
  <2>1. <<"indirect", 0>> \in Slots /\ (<<"indirect", 0>> \in Used(n) <=> NDIRECT < n)
        /\ <<"indirect2", 0>> \in Slots /\ <<"indirect2", 0>> \notin Used(n)
    BY <1>2, SlotsAre, UsedIs
  <2> QED BY <2>1, <1>2, <1>3, HeldIs
<1>6. f.inode[i].indirect \in Nat
  <2>1. n <= NDIRECT \/ n > NDIRECT
    BY <1>2
  <2> QED BY <2>1, <1>2, <1>5
<1>7. ASSUME NEW k \in Index, n > NDIRECT
      PROVE  IF NDIRECT + k < n
             THEN f.disk[f.inode[i].indirect][k].n \in DataBlocks \ f.free
             ELSE f.disk[f.inode[i].indirect][k].n = 0
  <2>1. <<"under", k>> \in Slots /\ (<<"under", k>> \in Used(n) <=> NDIRECT + k < n)
    BY <1>2, SlotsAre, UsedIs
  <2>2. f.inode[i].indirect # 0
    BY <1>2, <1>5, <1>7
  <2>3. Held(f, i, <<"under", k>>) = f.disk[f.inode[i].indirect][k].n
    BY <2>2, <1>6, HeldIs
  <2> QED BY <2>1, <2>3, <1>3
<1>8. ASSUME NEW j \in Inos, j # i, f.inode[j].indirect # 0
      PROVE  f.inode[j].indirect # f.inode[i].indirect
  <2>1. Held(f, j, <<"indirect", 0>>) = f.inode[j].indirect
        /\ Held(f, i, <<"indirect", 0>>) = f.inode[i].indirect
    BY HeldIs
  <2> QED BY <2>1, <1>1, <1>8, SlotsAre DEF Apart
<1> QED BY <1>4, <1>5, <1>6, <1>7, <1>8 DEF n

(* The blocks that file i has on disk g and had not on disk f are blank.   *)
Gained(f, g, i) ==
  \A k \in Nat : (Count(f, i) <= k /\ k < Count(g, i)) => g.disk[Held(g, i, Place(k))] = Blank

(* Disk g is disk f with one block more for file i.                        *)
Larger(f, g, i) ==
  /\ Sound(g)
  /\ \A j \in Inos : j # i => g.inode[j] = f.inode[j]
  /\ g.inode[i].ftype = f.inode[i].ftype /\ g.inode[i].nlink = f.inode[i].nlink
  /\ NBlocksOf(g, i) = NBlocksOf(f, i) + 1
  /\ Joined(f, g, i, Fresh(f, g, i)) /\ Gained(f, g, i)
  /\ \A b \in DataBlocks \ f.free : b # f.inode[i].indirect => g.disk[b] = f.disk[b]

LEMMA IsLarger ==
  ASSUME NEW f, NEW g \in Disks, NEW i \in Inos, NEW n \in Nat, Sound(f), Careful(habit),
         f.inode[i].ftype # "symlink",
         NBlocksOf(f, i) = n, NBlocksOf(g, i) = n + 1,
         \A j \in Inos : j # i => g.inode[j] = f.inode[j],
         g.inode[i].ftype = f.inode[i].ftype, g.inode[i].nlink = f.inode[i].nlink,
         Joined(f, g, i, Used(n + 1) \ Used(n)), g.disk[Held(g, i, Place(n))] = Blank,
         \A b \in DataBlocks \ f.free : b # f.inode[i].indirect => g.disk[b] = f.disk[b]
  PROVE  Larger(f, g, i)
<1>1. Count(f, i) = n /\ Count(g, i) = n + 1
  BY DEF Count
<1>2. \A j \in Inos : j # i => Count(g, j) = Count(f, j)
  BY DEF Count, NBlocksOf
<1>3. Joined(f, g, i, Fresh(f, g, i))
  BY <1>1 DEF Fresh
<1>4. Sound(g)
  BY <1>1, <1>2, <1>3, JoinSound
<1>5. Gained(f, g, i)
  <2>1. \A k \in Nat : (n <= k /\ k < n + 1) => k = n
    OBVIOUS
  <2> QED BY <1>1, <2>1 DEF Gained
<1> QED BY <1>3, <1>4, <1>5 DEF Larger

(* An inode whose size alone is changed.                                   *)
Sizing(oi, size) == [oi EXCEPT !.size = size]

LEMMA SizingIs ==
  ASSUME NEW oi \in Inodes, NEW size \in 0..UINT - 1
  PROVE  /\ Sizing(oi, size) \in Inodes
         /\ Sizing(oi, size).size = size
         /\ Sizing(oi, size).ftype = oi.ftype /\ Sizing(oi, size).nlink = oi.nlink
         /\ Sizing(oi, size).direct = oi.direct
         /\ Sizing(oi, size).indirect = oi.indirect
         /\ Sizing(oi, size).indirect2 = oi.indirect2
BY DEF Sizing, Inodes

(* The inode with a direct pointer set.                                    *)
Directing(oi, n, a) == [oi EXCEPT !.direct[n] = a]

Directed(u, oi, n, a) ==
  /\ u \in Inodes /\ u.size = oi.size /\ u.ftype = oi.ftype /\ u.nlink = oi.nlink
  /\ u.direct[n] = a
  /\ \A k \in 0..NDIRECT - 1 : k # n => u.direct[k] = oi.direct[k]
  /\ u.indirect = oi.indirect /\ u.indirect2 = oi.indirect2

LEMMA DirectingIs ==
  ASSUME NEW oi \in Inodes, NEW n \in 0..NDIRECT - 1, NEW a \in Nat
  PROVE  Directed(Directing(oi, n, a), oi, n, a)
BY DEF Directed, Directing, Inodes

(* The inode with its indirect pointer set.                                *)
Indirecting(oi, a) == [oi EXCEPT !.indirect = a]

LEMMA IndirectingIs ==
  ASSUME NEW oi \in Inodes, NEW a \in Nat
  PROVE  /\ Indirecting(oi, a) \in Inodes
         /\ Indirecting(oi, a).size = oi.size
         /\ Indirecting(oi, a).ftype = oi.ftype /\ Indirecting(oi, a).nlink = oi.nlink
         /\ Indirecting(oi, a).direct = oi.direct
         /\ Indirecting(oi, a).indirect = a
         /\ Indirecting(oi, a).indirect2 = oi.indirect2
BY DEF Indirecting, Inodes

(* What the last step of add_block() does.                                 *)
LEMMA GrownTo ==
  ASSUME NEW f \in Disks, NEW i \in Inos, (NBlocksOf(f, i) + 2) * BLKSIZE <= UINT
  PROVE  /\ Grown(f, i).r = "ok"
         /\ Grown(f, i).fs \in Disks
         /\ Grown(f, i).fs.free = f.free
         /\ Grown(f, i).fs.disk = f.disk
         /\ \A j \in Inos : j # i => Grown(f, i).fs.inode[j] = f.inode[j]
         /\ Grown(f, i).fs.inode[i].ftype = f.inode[i].ftype
         /\ Grown(f, i).fs.inode[i].nlink = f.inode[i].nlink
         /\ Grown(f, i).fs.inode[i].direct = f.inode[i].direct
         /\ Grown(f, i).fs.inode[i].indirect = f.inode[i].indirect
         /\ Grown(f, i).fs.inode[i].indirect2 = f.inode[i].indirect2
         /\ NBlocksOf(Grown(f, i).fs, i) = NBlocksOf(f, i) + 1
<1> DEFINE size == (f.inode[i].size + BLKSIZE) % UINT
           oi == Sizing(f.inode[i], size)
<1>1. f.inode[i] \in Inodes /\ f.inode[i].size \in 0..UINT - 1
  BY Fields, CountType
<1>2. size \in 0..UINT - 1 /\ NBlocks(size) = NBlocksOf(f, i) + 1
  BY <1>1, CountGrown DEF NBlocksOf
<1>3. Grown(f, i).r = "ok" /\ Grown(f, i).fs = Put(f, i, oi)
  BY GrownIs DEF Sizing
<1> HIDE DEF size
<1>4. oi \in Inodes /\ oi.size = size
  BY <1>1, <1>2, SizingIs
<1>5. /\ oi.ftype = f.inode[i].ftype /\ oi.nlink = f.inode[i].nlink /\ oi.direct = f.inode[i].direct
      /\ oi.indirect = f.inode[i].indirect /\ oi.indirect2 = f.inode[i].indirect2
  BY <1>1, <1>2, SizingIs
<1> HIDE DEF oi
<1>6. /\ Put(f, i, oi) \in Disks /\ Put(f, i, oi).free = f.free /\ Put(f, i, oi).disk = f.disk
      /\ Put(f, i, oi).inode[i] = oi /\ \A j \in Inos : j # i => Put(f, i, oi).inode[j] = f.inode[j]
  <2>1. oi \in Inodes
    BY <1>4
  <2> QED BY <2>1, PutIs
<1>7. NBlocksOf(Put(f, i, oi), i) = NBlocksOf(f, i) + 1
  BY <1>2, <1>4, <1>6 DEF NBlocksOf
<1> QED BY <1>3, <1>5, <1>6, <1>7

(* What the last step of remove_block() does.                              *)
LEMMA ShrunkTo ==
  ASSUME NEW f \in Disks, NEW i \in Inos, NBlocksOf(f, i) > 0
  PROVE  /\ Shrunk(f, i).r = "ok"
         /\ Shrunk(f, i).fs \in Disks
         /\ Shrunk(f, i).fs.free = f.free
         /\ Shrunk(f, i).fs.disk = f.disk
         /\ \A j \in Inos : j # i => Shrunk(f, i).fs.inode[j] = f.inode[j]
         /\ Shrunk(f, i).fs.inode[i].ftype = f.inode[i].ftype
         /\ Shrunk(f, i).fs.inode[i].nlink = f.inode[i].nlink
         /\ Shrunk(f, i).fs.inode[i].direct = f.inode[i].direct
         /\ Shrunk(f, i).fs.inode[i].indirect = f.inode[i].indirect
         /\ Shrunk(f, i).fs.inode[i].indirect2 = f.inode[i].indirect2
         /\ NBlocksOf(Shrunk(f, i).fs, i) = NBlocksOf(f, i) - 1
<1> DEFINE size == (f.inode[i].size - BLKSIZE) % UINT
           oi == Sizing(f.inode[i], size)
<1>1. f.inode[i] \in Inodes /\ f.inode[i].size \in 0..UINT - 1
  BY Fields, CountType
<1>2. size \in 0..UINT - 1 /\ NBlocks(size) = NBlocksOf(f, i) - 1
  BY <1>1, CountShrunk DEF NBlocksOf
<1>3. Shrunk(f, i).r = "ok" /\ Shrunk(f, i).fs = Put(f, i, oi)
  BY ShrunkIs DEF Sizing
<1> HIDE DEF size
<1>4. oi \in Inodes /\ oi.size = size
  BY <1>1, <1>2, SizingIs
<1>5. /\ oi.ftype = f.inode[i].ftype /\ oi.nlink = f.inode[i].nlink /\ oi.direct = f.inode[i].direct
      /\ oi.indirect = f.inode[i].indirect /\ oi.indirect2 = f.inode[i].indirect2
  BY <1>1, <1>2, SizingIs
<1> HIDE DEF oi
<1>6. /\ Put(f, i, oi) \in Disks /\ Put(f, i, oi).free = f.free /\ Put(f, i, oi).disk = f.disk
      /\ Put(f, i, oi).inode[i] = oi /\ \A j \in Inos : j # i => Put(f, i, oi).inode[j] = f.inode[j]
  <2>1. oi \in Inodes
    BY <1>4
  <2> QED BY <2>1, PutIs
<1>7. NBlocksOf(Put(f, i, oi), i) = NBlocksOf(f, i) - 1
  BY <1>2, <1>4, <1>6 DEF NBlocksOf
<1> QED BY <1>3, <1>5, <1>6, <1>7

---------------------------------------------------------------------------
(* add_block(), case by case                                               *)

(* Where block n of a file is that has no doubly indirect block.           *)
LEMMA Indices ==
  ASSUME NEW n \in Nat, n < NDIRECT + BLKSIZE
  PROVE  /\ Indir2Index(n) = -1
         /\ IndirIndex(n) = IF n < NDIRECT THEN -1 ELSE 0
         /\ DirectIndex(n) = IF n < NDIRECT THEN n ELSE n - NDIRECT
         /\ n >= NDIRECT => n - NDIRECT \in Index
<1>1. NDIRECT \in Nat /\ BLKSIZE \in Nat
  BY SizeAssumption
<1>2. Indir2Index(n) = -1
  BY <1>1 DEF Indir2Index
<1>3. IndirIndex(n) = IF n < NDIRECT THEN -1 ELSE 0
  BY <1>1, <1>2 DEF IndirIndex
<1>4. DirectIndex(n) = IF n < NDIRECT THEN n ELSE n - NDIRECT
  BY <1>1, <1>3 DEF DirectIndex
<1> QED BY <1>1, <1>2, <1>3, <1>4 DEF Index

LEMMA SameIn ==
  ASSUME NEW f, NEW g, Sound(f), Careful(habit),
         \A b \in DataBlocks \ f.free : g.disk[b] = f.disk[b]
  PROVE  \A j \in Inos : SameIndirect(f, g, j)
<1> SUFFICES ASSUME NEW j \in Inos PROVE SameIndirect(f, g, j)
  OBVIOUS
<1>1. f.inode[j].indirect = 0 \/ f.inode[j].indirect \in DataBlocks \ f.free
  <2>1. Count(f, j) \in Nat /\ NDIRECT \in Nat
    BY CountType, SizeAssumption DEF Sound
  <2> QED BY <2>1, SoundMeans
<1> QED BY <1>1 DEF SameIndirect

(* add_block() with a direct pointer: a block more, or no change.          *)
LEMMA AddDirectStep ==
  ASSUME NEW f, Sound(f), Careful(habit), NEW i \in Inos,
         f.inode[i].ftype # "symlink",
         NEW n \in 0..NDIRECT - 1, NBlocksOf(f, i) = n, (n + 2) * BLKSIZE <= UINT
  PROVE  \/ /\ f.free # {}
            /\ AddDirect(f, i, n).r = "ok"
            /\ Larger(f, AddDirect(f, i, n).fs, i)
            /\ \E a \in f.free : AddDirect(f, i, n).fs.free = f.free \ {a}
            /\ \A b \in DataBlocks \ f.free : AddDirect(f, i, n).fs.disk[b] = f.disk[b]
         \/ /\ f.free = {}
            /\ AddDirect(f, i, n) = [fs |-> f, r |-> "ENOSPC"]
<1>1. f \in Disks /\ n \in Nat /\ Count(f, i) = n
  BY DEF Sound, Count
<1>2. CASE f.free = {}
  BY <1>1, <1>2, AllocatedIs DEF AddDirect, Failed
<1>3. CASE f.free # {}
  <2> DEFINE a == Allocated(f)
             e == Erased(f)
             u == Directing(e.inode[i], n, a)
             h == Put(e, i, u)
             g == Grown(h, i).fs
  <2>1. /\ a \in f.free /\ e \in Disks /\ e.free = f.free \ {a} /\ e.inode = f.inode
        /\ e.disk[a] = Blank
        /\ \A b \in 0..NBLOCKS + 2 : b # a => e.disk[b] = f.disk[b]
    BY <1>1, <1>3, ErasedIs
  <2>2. a \in DataBlocks /\ a \in Nat /\ a # 0
    BY <2>1, <1>1, Fields, DataRange
  <2>3. AddDirect(f, i, n) = Grown(h, i)
    <3>1. [e EXCEPT !.inode[i].direct[n] = a] = h
      BY <2>1 DEF Put, Directing, Disks, Inodes
    <3>2. AddDirect(f, i, n) = Grown([e EXCEPT !.inode[i].direct[n] = a], i)
      BY <2>2 DEF AddDirect
    <3> QED BY <3>1, <3>2
  <2> HIDE DEF a, e
  <2>4. /\ u \in Inodes /\ u.size = f.inode[i].size
        /\ u.ftype = f.inode[i].ftype /\ u.nlink = f.inode[i].nlink
        /\ u.direct[n] = a
        /\ \A k \in 0..NDIRECT - 1 : k # n => u.direct[k] = f.inode[i].direct[k]
        /\ u.indirect = f.inode[i].indirect /\ u.indirect2 = f.inode[i].indirect2
    <3> DEFINE o == f.inode[i]
    <3>1. o \in Inodes
      BY <1>1, Fields
    <3>2. u = Directing(o, n, a) /\ a \in Nat
      BY <2>1, <2>2
    <3> HIDE DEF u, o
    <3>3. Directed(u, o, n, a)
      BY <3>1, <3>2, DirectingIs
    <3> QED BY <3>3 DEF Directed, o
  <2> HIDE DEF u
  <2>5. /\ h \in Disks /\ h.free = e.free /\ h.disk = e.disk /\ h.inode[i] = u
        /\ \A j \in Inos : j # i => h.inode[j] = f.inode[j]
    BY <2>1, <2>4, PutIs
  <2> HIDE DEF h
  <2>6. NBlocksOf(h, i) = n
    BY <2>4, <2>5 DEF NBlocksOf
  <2>7. /\ g \in Disks /\ g.free = h.free /\ g.disk = h.disk
        /\ \A j \in Inos : j # i => g.inode[j] = h.inode[j]
        /\ g.inode[i].ftype = u.ftype /\ g.inode[i].nlink = u.nlink /\ g.inode[i].direct = u.direct
        /\ g.inode[i].indirect = u.indirect /\ g.inode[i].indirect2 = u.indirect2
        /\ NBlocksOf(g, i) = n + 1 /\ Grown(h, i).r = "ok"
    <3>1. (NBlocksOf(h, i) + 2) * BLKSIZE <= UINT
      BY <2>6
    <3> QED BY <2>5, <2>6, <3>1, GrownTo
  <2> HIDE DEF g
  <2>8. \A b \in DataBlocks \ f.free : g.disk[b] = f.disk[b]
    BY <2>1, <2>5, <2>7, DataRange
  <2>9. g.free = f.free \ {a}
    BY <2>1, <2>5, <2>7
  <2>10. \A j \in Inos : SameIndirect(f, g, j)
    BY <2>8, SameIn
  <2>11. \A j \in Inos : j # i => g.inode[j] = f.inode[j]
    BY <2>5, <2>7
  <2>12. \A j \in Inos : j # i => SameInode(f, g, j)
    BY <2>11, SoundMeans DEF SameInode
  <2>13. f.inode[i].indirect \in Nat /\ f.inode[i].direct[n] = 0
    BY <1>1, SoundMeans
  <2>14. Joined(f, g, i, {<<"direct", n>>})
    <3>1. /\ g.inode[i].direct[n] = a
          /\ \A k \in 0..NDIRECT - 1 : k # n => g.inode[i].direct[k] = f.inode[i].direct[k]
          /\ g.inode[i].indirect = f.inode[i].indirect
          /\ g.inode[i].indirect2 = f.inode[i].indirect2
      BY <2>4, <2>7
    <3> QED BY <2>1, <2>9, <2>10, <2>12, <2>13, <3>1, JoinedDirect
  <2>15. Used(n + 1) \ Used(n) = {<<"direct", n>>}
    BY SizeAssumption, FreshIs
  <2>16. Larger(f, g, i)
    <3>1. g.inode[i].ftype = f.inode[i].ftype /\ g.inode[i].nlink = f.inode[i].nlink
      BY <2>4, <2>7
    <3>2. Joined(f, g, i, Used(n + 1) \ Used(n))
      BY <2>14, <2>15
    <3>3. g \in Disks /\ NBlocksOf(g, i) = n + 1
      BY <2>7
    <3>4. g.disk[Held(g, i, Place(n))] = Blank
      <4>1. Place(n) = <<"direct", n>> /\ Held(g, i, <<"direct", n>>) = g.inode[i].direct[n]
        BY HeldIs, SizeAssumption DEF Place
      <4>2. g.inode[i].direct[n] = a /\ g.disk[a] = Blank
        BY <2>1, <2>4, <2>5, <2>7
      <4> QED BY <4>1, <4>2
    <3> QED BY <1>1, <2>8, <2>11, <3>1, <3>2, <3>3, <3>4, IsLarger
  <2>17. AddDirect(f, i, n).r = "ok" /\ AddDirect(f, i, n).fs = g
    BY <2>3, <2>7 DEF g
  <2> QED BY <1>3, <2>1, <2>8, <2>9, <2>16, <2>17
<1> QED BY <1>2, <1>3

(* A disk whose free blocks alone may hold something else.                 *)
Like(f, g) ==
  /\ g \in Disks /\ g.free = f.free /\ g.inode = f.inode
  /\ \A b \in DataBlocks \ f.free : g.disk[b] = f.disk[b]

(* The contents of free blocks do not matter.                              *)
LEMMA LikeSound ==
  ASSUME NEW f, NEW g, Sound(f), Like(f, g), Careful(habit)
  PROVE  /\ Sound(g)
         /\ \A j \in Inos, s \in Slots : Held(g, j, s) = Held(f, j, s)
         /\ \A j \in Inos : Count(g, j) = Count(f, j) /\ NBlocksOf(g, j) = NBlocksOf(f, j)
<1>1. g \in Disks /\ g.free = f.free /\ g.inode = f.inode
  BY DEF Like
<1>2. \A j \in Inos : SameIndirect(f, g, j)
  BY SameIn DEF Like
<1>3. \A j \in Inos, s \in Slots : Held(g, j, s) = Held(f, j, s)
  <2> SUFFICES ASSUME NEW j \in Inos, NEW s \in Slots PROVE Held(g, j, s) = Held(f, j, s)
    OBVIOUS
  <2>1. SameIndirect(f, g, j) /\ f.inode[j].indirect \in Nat
    BY <1>2, SoundMeans
  <2> QED BY <1>1, <2>1, HeldSame DEF SameIndirect
<1>4. \A j \in Inos : Count(g, j) = Count(f, j) /\ NBlocksOf(g, j) = NBlocksOf(f, j)
  BY <1>1 DEF Count, NBlocksOf
<1>5. \A j \in Inos : Whole(g, j, Count(g, j))
  BY <1>1, <1>3, <1>4 DEF Sound, Whole
<1>6. Apart(g)
  <2>1. Apart(f)
    BY DEF Sound
  <2> QED BY <2>1, <1>3 DEF Apart
<1>7. Owned(g)
  <2>1. Owned(f)
    BY DEF Sound
  <2> QED BY <2>1, <1>1, <1>3 DEF Owned
<1> QED BY <1>1, <1>3, <1>4, <1>5, <1>6, <1>7 DEF Sound

(* add_block() under the indirect block, when there is a free block.       *)
LEMMA AddUnderStep ==
  ASSUME NEW f, Sound(f), Careful(habit), NEW i \in Inos,
         f.inode[i].ftype # "symlink", f.free # {},
         NEW n \in Nat, NDIRECT < n, n < NDIRECT + BLKSIZE,
         NBlocksOf(f, i) = n, (n + 2) * BLKSIZE <= UINT
  PROVE  /\ AddIndirect(f, i, n).r = "ok"
         /\ Larger(f, AddIndirect(f, i, n).fs, i)
         /\ \E a \in f.free : AddIndirect(f, i, n).fs.free = f.free \ {a}
<1> DEFINE a == Allocated(f)
           e == Erased(f)
           c == f.inode[i].indirect
           k == n - NDIRECT
           h == Stored(e, c, k, a)
           g == Grown(h, i).fs
<1>1. f \in Disks /\ Count(f, i) = n /\ NDIRECT \in Nat
  BY SizeAssumption DEF Sound, Count
<1>2. c \in DataBlocks \ f.free /\ c \in Nat /\ c # 0 /\ c \in 0..NBLOCKS + 2
  <2>1. c \in DataBlocks \ f.free
    BY <1>1, SoundMeans
  <2> HIDE DEF c
  <2> QED BY <2>1, DataRange
<1>3. k \in Index /\ DirectIndex(n) = k
  BY <1>1, Indices
<1>4. /\ a \in f.free /\ e \in Disks /\ e.free = f.free \ {a} /\ e.inode = f.inode
      /\ e.disk[a] = Blank
      /\ \A b \in 0..NBLOCKS + 2 : b # a => e.disk[b] = f.disk[b]
  BY <1>1, ErasedIs
<1>5. a \in DataBlocks /\ a \in Nat /\ a # 0
  BY <1>4, <1>1, Fields, DataRange
<1>6. AddIndirect(f, i, n) = Grown(h, i)
  BY <1>2, <1>3 DEF AddIndirect
<1> HIDE DEF a, e, c, k
<1>7. /\ h \in Disks /\ h.free = f.free \ {a} /\ h.inode = f.inode
      /\ h.disk[c][k].n = a /\ h.disk[a] = Blank
      /\ \A w \in Index : w # k => h.disk[c][w] = f.disk[c][w]
      /\ \A b \in 0..NBLOCKS + 2 : (b # a /\ b # c) => h.disk[b] = f.disk[b]
  <2>1. /\ h \in Disks /\ h.free = e.free /\ h.inode = e.inode /\ h.disk[c][k].n = a
        /\ \A w \in Index : w # k => h.disk[c][w] = e.disk[c][w]
        /\ \A b \in 0..NBLOCKS + 2 : b # c => h.disk[b] = e.disk[b]
    <3>1. h = Stored(e, c, k, a)
      OBVIOUS
    <3> HIDE DEF h
    <3>2. e \in Disks /\ c \in DataBlocks /\ k \in Index /\ a \in Nat
      BY <1>2, <1>3, <1>4, <1>5
    <3> QED BY <3>1, <3>2, StoredIs
  <2> HIDE DEF h
  <2>2. c # a /\ a \in 0..NBLOCKS + 2
    BY <1>2, <1>4, <1>5, DataRange
  <2> QED BY <2>1, <2>2, <1>2, <1>4
<1> HIDE DEF h
<1>8. NBlocksOf(h, i) = n
  BY <1>7 DEF NBlocksOf
<1>9. /\ g \in Disks /\ g.free = h.free /\ g.disk = h.disk
      /\ \A j \in Inos : j # i => g.inode[j] = h.inode[j]
      /\ g.inode[i].ftype = h.inode[i].ftype /\ g.inode[i].nlink = h.inode[i].nlink
      /\ g.inode[i].direct = h.inode[i].direct
      /\ g.inode[i].indirect = h.inode[i].indirect /\ g.inode[i].indirect2 = h.inode[i].indirect2
      /\ NBlocksOf(g, i) = n + 1 /\ Grown(h, i).r = "ok"
  <2>1. (NBlocksOf(h, i) + 2) * BLKSIZE <= UINT
    BY <1>8
  <2> QED BY <1>7, <1>8, <2>1, GrownTo
<1> HIDE DEF g
<1>10. \A b \in DataBlocks \ f.free : b # c => g.disk[b] = f.disk[b]
  BY <1>4, <1>7, <1>9, DataRange
<1>11. \A j \in Inos : j # i => g.inode[j] = f.inode[j]
  BY <1>7, <1>9
<1>12. \A j \in Inos : SameInode(f, g, j)
  BY <1>7, <1>9, <1>11, SoundMeans DEF SameInode
<1>13. \A j \in Inos : j # i => SameIndirect(f, g, j)
  <2> SUFFICES ASSUME NEW j \in Inos, j # i, f.inode[j].indirect # 0
               PROVE  g.disk[f.inode[j].indirect] = f.disk[f.inode[j].indirect]
    BY DEF SameIndirect
  <2>1. f.inode[j].indirect # c
    BY SoundMeans DEF c
  <2>2. f.inode[j].indirect \in DataBlocks \ f.free
    <3>1. Count(f, j) \in Nat
      BY <1>1, CountType
    <3>2. Count(f, j) <= NDIRECT \/ Count(f, j) > NDIRECT
      BY <3>1, <1>1
    <3> QED BY <3>2, SoundMeans
  <2> QED BY <2>1, <2>2, <1>10
<1>14. f.disk[c][k].n = 0
  <2>1. NDIRECT + k = n
    BY <1>1 DEF k
  <2>2. ~(NDIRECT + k < Count(f, i)) /\ Count(f, i) > NDIRECT
    BY <1>1, <2>1
  <2> QED BY <1>3, <2>2, SoundMeans DEF c
<1>15. Joined(f, g, i, {<<"under", k>>})
  <2>1. g.free = f.free \ {a} /\ f.inode[i].indirect = c /\ c \in Nat \ {0}
    BY <1>2, <1>7, <1>9 DEF c
  <2>2. g.disk[c][k].n = a /\ \A w \in Index : w # k => g.disk[c][w].n = f.disk[c][w].n
    BY <1>7, <1>9
  <2> QED BY <1>3, <1>4, <1>12, <1>13, <1>14, <2>1, <2>2, JoinedUnder
<1>16. Used(n + 1) \ Used(n) = {<<"under", k>>}
  <2>1. ~(n < NDIRECT) /\ n # NDIRECT
    BY <1>1
  <2> QED BY <2>1, FreshIs DEF k
<1>17. Larger(f, g, i)
  <2>1. g.inode[i].ftype = f.inode[i].ftype /\ g.inode[i].nlink = f.inode[i].nlink
    BY <1>7, <1>9
  <2>2. Joined(f, g, i, Used(n + 1) \ Used(n))
    BY <1>15, <1>16
  <2>3. g \in Disks /\ NBlocksOf(g, i) = n + 1
    BY <1>9
  <2>4. \A b \in DataBlocks \ f.free : b # f.inode[i].indirect => g.disk[b] = f.disk[b]
    BY <1>10 DEF c
  <2>5. g.disk[Held(g, i, Place(n))] = Blank
    <3>1. Place(n) = <<"under", k>>
      BY <1>1 DEF Place, k
    <3>2. g.inode[i].indirect = c
      BY <1>7, <1>9 DEF c
    <3>3. Held(g, i, <<"under", k>>) = g.disk[c][k].n
      BY <1>2, <1>3, <3>2, HeldIs
    <3> QED BY <1>7, <1>9, <3>1, <3>3
  <2> QED BY <1>1, <1>11, <2>1, <2>2, <2>3, <2>4, <2>5, IsLarger
<1>18. AddIndirect(f, i, n).r = "ok" /\ AddIndirect(f, i, n).fs = g
  BY <1>6, <1>9 DEF g
<1>19. g.free = f.free \ {a}
  BY <1>7, <1>9
<1> QED BY <1>4, <1>17, <1>18, <1>19

(* add_block() when the indirect block is missing: two blocks, or the one  *)
(* it got is freed again.                                                  *)
LEMMA AddFirstStep ==
  ASSUME NEW f, Sound(f), Careful(habit), NEW i \in Inos,
         f.inode[i].ftype # "symlink", NBlocksOf(f, i) = NDIRECT,
         (NDIRECT + 2) * BLKSIZE <= UINT
  PROVE  \/ /\ AddIndirect(f, i, NDIRECT).r = "ok"
            /\ Larger(f, AddIndirect(f, i, NDIRECT).fs, i)
            /\ \E a, b \in f.free : a # b /\ AddIndirect(f, i, NDIRECT).fs.free = f.free \ {a, b}
         \/ /\ f.free = {} \/ \E a : f.free = {a}
            /\ AddIndirect(f, i, NDIRECT).r = "ENOSPC"
            /\ Like(f, AddIndirect(f, i, NDIRECT).fs)
<1> DEFINE n == NDIRECT
           R == AddIndirect(f, i, n)
           o == f.inode[i]
           a == Allocated(f)
           e == Erased(f)
           u == Indirecting(o, a)
           p == Put(e, i, u)
<1>1. f \in Disks /\ Count(f, i) = n /\ NDIRECT \in Nat /\ n \in Nat /\ BLKSIZE \in Nat \ {0}
      /\ n < NDIRECT + BLKSIZE
  BY SizeAssumption DEF Sound, Count
<1>2. o.indirect = 0 /\ o \in Inodes
  BY <1>1, SoundMeans, Fields
<1>3. CASE f.free = {}
  <2>1. R = [fs |-> f, r |-> "ENOSPC"]
    BY <1>1, <1>2, <1>3, AllocatedIs DEF AddIndirect, Failed
  <2>2. Like(f, f)
    BY <1>1 DEF Like
  <2> QED BY <1>3, <2>1, <2>2
<1>4. CASE f.free # {}
  <2>1. /\ a \in f.free /\ e \in Disks /\ e.free = f.free \ {a} /\ e.inode = f.inode
        /\ e.disk[a] = Blank
        /\ \A b \in 0..NBLOCKS + 2 : b # a => e.disk[b] = f.disk[b]
    BY <1>1, <1>4, ErasedIs
  <2>2. a \in DataBlocks /\ a \in Nat /\ a # 0 /\ a \in 0..NBLOCKS + 2
    BY <2>1, <1>1, Fields, DataRange
  <2> HIDE DEF o
  <2>3. [e EXCEPT !.inode[i].indirect = a] = p
    BY <2>1 DEF Put, Indirecting, Disks, o
  <2> HIDE DEF a, e
  <2>4. /\ u \in Inodes /\ u.size = o.size /\ u.ftype = o.ftype /\ u.nlink = o.nlink
        /\ u.direct = o.direct /\ u.indirect = a /\ u.indirect2 = o.indirect2
    BY <1>2, <2>2, IndirectingIs
  <2> HIDE DEF u
  <2>5. /\ p \in Disks /\ p.free = f.free \ {a} /\ p.disk = e.disk /\ p.inode[i] = u
        /\ \A j \in Inos : j # i => p.inode[j] = f.inode[j]
    BY <2>1, <2>4, PutIs
  <2> HIDE DEF p
  <2>6. CASE p.free = {}
    <3> DEFINE q == Freed(p, a)
               v == Indirecting(u, 0)
               z == Put(q, i, v)
    <3>1. /\ q \in Disks /\ q.free = f.free /\ q.disk = e.disk /\ q.inode = p.inode
      <4>1. q = Freed(p, a) /\ p \in Disks /\ a \in DataBlocks
        BY <2>2, <2>5
      <4> HIDE DEF q
      <4>2. q \in Disks /\ q.free = p.free \cup {a} /\ q.disk = p.disk /\ q.inode = p.inode
        BY <4>1, FreedIs
      <4>3. (f.free \ {a}) \cup {a} = f.free
        BY <2>1
      <4> QED BY <4>2, <4>3, <2>5
    <3>2. v = o
      BY <1>2, <2>4 DEF Indirecting, Inodes
    <3>3. [q EXCEPT !.inode[i].indirect = 0] = z
      <4> HIDE DEF q
      <4>1. q.inode[i] = u /\ q.inode \in [Inos -> Inodes]
        BY <2>5, <3>1, Fields
      <4> QED BY <3>1, <4>1 DEF Put, Indirecting, Disks
    <3>4. R = Failed(z, "ENOSPC")
      <4>1. Allocated(p) = 0
        BY <2>5, <2>6, AllocatedIs
      <4>2. f.inode[i].indirect = 0 /\ a # 0 /\ p.inode[i].indirect = a
        BY <1>2, <2>2, <2>4, <2>5 DEF o
      <4> HIDE DEF z
      <4>3. [Freed(p, a) EXCEPT !.inode[i].indirect = 0] = z
        BY <3>3
      <4>4. a = Allocated(f) /\ [Erased(f) EXCEPT !.inode[i].indirect = Allocated(f)] = p
        BY <2>3 DEF a, e
      <4>5. R = Failed([Freed(p, p.inode[i].indirect) EXCEPT !.inode[i].indirect = 0], "ENOSPC")
        BY <4>1, <4>2, <4>4 DEF AddIndirect
      <4> QED BY <4>2, <4>3, <4>5
    <3>5. /\ z \in Disks /\ z.free = f.free /\ z.disk = e.disk /\ z.inode[i] = o
          /\ \A j \in Inos : j # i => z.inode[j] = f.inode[j]
      <4> HIDE DEF q, v
      <4> QED BY <1>2, <2>5, <3>1, <3>2, PutIs
    <3> HIDE DEF z
    <3>6. z.inode = f.inode
      <4>1. z.inode \in [Inos -> Inodes] /\ f.inode \in [Inos -> Inodes]
        BY <1>1, <3>5, Fields
      <4>2. \A j \in Inos : z.inode[j] = f.inode[j]
        BY <3>5 DEF o
      <4> QED BY <4>1, <4>2
    <3>7. \A b \in DataBlocks \ f.free : z.disk[b] = f.disk[b]
      BY <2>1, <3>5, DataRange
    <3>8. Like(f, z)
      BY <3>5, <3>6, <3>7 DEF Like
    <3>9. f.free = {a}
      BY <2>1, <2>5, <2>6
    <3>10. R.r = "ENOSPC" /\ R.fs = z
      BY <3>4 DEF Failed
    <3> QED BY <3>8, <3>9, <3>10
  <2>7. CASE p.free # {}
    <3> DEFINE b == Allocated(p)
               d == Erased(p)
               h == Stored(d, a, 0, b)
               g == Grown(h, i).fs
    <3>1. /\ b \in p.free /\ d \in Disks /\ d.free = p.free \ {b} /\ d.inode = p.inode
          /\ d.disk[b] = Blank
          /\ \A c \in 0..NBLOCKS + 2 : c # b => d.disk[c] = p.disk[c]
      BY <2>5, <2>7, ErasedIs
    <3>2. b \in f.free /\ b # a /\ b \in DataBlocks /\ b \in Nat /\ b # 0
      <4>1. b \in f.free /\ b # a
        BY <2>5, <3>1
      <4> QED BY <4>1, <1>1, Fields, DataRange
    <3>3. R = Grown(h, i)
      <4>1. DirectIndex(n) = 0
        BY <1>1, Indices
      <4>2. f.inode[i].indirect = 0 /\ a # 0 /\ p.inode[i].indirect = a
        BY <1>2, <2>2, <2>4, <2>5 DEF o
      <4>3. a = Allocated(f) /\ [Erased(f) EXCEPT !.inode[i].indirect = Allocated(f)] = p
        BY <2>3 DEF a, e
      <4> QED BY <3>2, <4>1, <4>2, <4>3 DEF AddIndirect
    <3> HIDE DEF b, d
    <3>4. /\ h \in Disks /\ h.free = f.free \ {a, b} /\ h.inode = p.inode
          /\ h.disk[a][0].n = b /\ h.disk[b] = Blank
          /\ \A w \in Index : w # 0 => h.disk[a][w] = Blank[w]
          /\ \A c \in 0..NBLOCKS + 2 : (c # a /\ c # b) => h.disk[c] = f.disk[c]
      <4>1. h = Stored(d, a, 0, b) /\ d \in Disks /\ a \in DataBlocks /\ 0 \in Index /\ b \in Nat
        BY <2>2, <3>1, <3>2, ZeroIndex
      <4> HIDE DEF h
      <4>2. /\ h \in Disks /\ h.free = d.free /\ h.inode = d.inode /\ h.disk[a][0].n = b
            /\ \A w \in Index : w # 0 => h.disk[a][w] = d.disk[a][w]
            /\ \A c \in 0..NBLOCKS + 2 : c # a => h.disk[c] = d.disk[c]
        BY <4>1, StoredIs
      <4>3. d.disk[a] = Blank /\ d.free = f.free \ {a, b}
        BY <2>1, <2>2, <2>5, <3>1, <3>2
      <4>4. h.disk[b] = Blank
        BY <3>1, <3>2, <4>2, DataRange
      <4> QED BY <4>2, <4>3, <4>4, <2>1, <2>5, <3>1
    <3> HIDE DEF h
    <3>5. NBlocksOf(h, i) = n
      BY <2>4, <2>5, <3>4 DEF NBlocksOf, o
    <3>6. /\ g \in Disks /\ g.free = h.free /\ g.disk = h.disk
          /\ \A j \in Inos : j # i => g.inode[j] = h.inode[j]
          /\ g.inode[i].ftype = h.inode[i].ftype /\ g.inode[i].nlink = h.inode[i].nlink
          /\ g.inode[i].direct = h.inode[i].direct
          /\ g.inode[i].indirect = h.inode[i].indirect
               /\ g.inode[i].indirect2 = h.inode[i].indirect2
          /\ NBlocksOf(g, i) = n + 1 /\ Grown(h, i).r = "ok"
      <4>1. (NBlocksOf(h, i) + 2) * BLKSIZE <= UINT
        BY <3>5
      <4> QED BY <3>4, <3>5, <4>1, GrownTo
    <3>7. R.r = "ok" /\ R.fs = g
      BY <3>3, <3>6
    <3> HIDE DEF g
    <3>8. \A c \in DataBlocks \ f.free : g.disk[c] = f.disk[c]
      BY <2>1, <3>2, <3>4, <3>6, DataRange
    <3>9. \A j \in Inos : j # i => g.inode[j] = f.inode[j]
      BY <2>5, <3>4, <3>6
    <3>10. \A j \in Inos : j # i => SameInode(f, g, j)
      BY <3>9, SoundMeans DEF SameInode
    <3>11. \A j \in Inos : SameIndirect(f, g, j)
      BY <3>8, SameIn
    <3>12. /\ g.inode[i].direct = f.inode[i].direct /\ g.inode[i].indirect = a
           /\ g.inode[i].indirect2 = f.inode[i].indirect2
           /\ g.inode[i].ftype = f.inode[i].ftype /\ g.inode[i].nlink = f.inode[i].nlink
      BY <2>4, <2>5, <3>4, <3>6 DEF o
    <3>13. g.disk[a][0].n = b /\ \A w \in Index : w # 0 => g.disk[a][w].n = 0
      BY <3>4, <3>6 DEF Blank, Zero
    <3>14. Joined(f, g, i, {<<"indirect", 0>>, <<"under", 0>>})
      <4>1. g.free = f.free \ {a, b} /\ f.inode[i].indirect = 0 /\ a \in Nat \ {0} /\ a # b
            /\ a \in f.free /\ b \in f.free
        BY <1>2, <2>1, <2>2, <3>2, <3>4, <3>6 DEF o
      <4> QED BY <4>1, <3>10, <3>11, <3>12, <3>13, JoinedFirst
    <3>15. Used(n + 1) \ Used(n) = {<<"indirect", 0>>, <<"under", 0>>}
      BY <1>1, FreshIs
    <3>16. Larger(f, g, i)
      <4>1. Joined(f, g, i, Used(n + 1) \ Used(n))
        BY <3>14, <3>15
      <4>2. g \in Disks /\ NBlocksOf(g, i) = n + 1
        BY <3>6
      <4>3. g.disk[Held(g, i, Place(n))] = Blank
        <5>1. Place(n) = <<"under", 0>>
          BY <1>1 DEF Place
        <5>2. Held(g, i, <<"under", 0>>) = g.disk[a][0].n
          BY SMTT(30), <2>2, <3>12, ZeroIndex, HeldIs
        <5> QED BY <3>4, <3>6, <5>1, <5>2
      <4> QED BY <1>1, <3>8, <3>9, <3>12, <4>1, <4>2, <4>3, IsLarger
    <3>17. g.free = f.free \ {a, b}
      BY <3>4, <3>6
    <3> QED BY <2>1, <3>2, <3>7, <3>16, <3>17
  <2> QED BY <2>6, <2>7
<1> QED BY <1>3, <1>4

---------------------------------------------------------------------------
(* remove_block()                                                          *)

(* add_block().                                                            *)
LEMMA AddStep ==
  ASSUME NEW f, Sound(f), Careful(habit), NEW i \in Inos,
         f.inode[i].ftype # "symlink", NEW n \in Nat, NBlocksOf(f, i) = n,
         n < NDIRECT + BLKSIZE, (n + 2) * BLKSIZE <= UINT,
         n <= NDIRECT \/ f.free # {}
  PROVE  \/ /\ AddBlock(f, i).r = "ok"
            /\ Larger(f, AddBlock(f, i).fs, i)
            /\ \/ \E a \in f.free : AddBlock(f, i).fs.free = f.free \ {a}
               \/ n = NDIRECT /\ \E a, b \in f.free : a # b
                    /\ AddBlock(f, i).fs.free = f.free \ {a, b}
         \/ /\ n <= NDIRECT
            /\ f.free = {} \/ (n = NDIRECT /\ \E a : f.free = {a})
            /\ AddBlock(f, i).r = "ENOSPC"
            /\ Like(f, AddBlock(f, i).fs)
<1>1. NDIRECT \in Nat /\ f \in Disks
  BY SizeAssumption DEF Sound
<1>2. NBlocks(f.inode[i].size) = n
  BY DEF NBlocksOf
<1>3. Indir2Index(n) = -1 /\ IndirIndex(n) = IF n < NDIRECT THEN -1 ELSE 0
  BY Indices
<1>4. CASE n < NDIRECT
  <2>1. n \in 0..NDIRECT - 1
    BY <1>1, <1>4
  <2>2. AddBlock(f, i) = AddDirect(f, i, n)
    BY <1>2, <1>3, <1>4 DEF AddBlock
  <2> HIDE DEF AddBlock
  <2>3. CASE f.free = {}
    <3>1. AddBlock(f, i).r = "ENOSPC" /\ AddBlock(f, i).fs = f
      BY <2>1, <2>2, <2>3, AddDirectStep
    <3> QED BY <1>1, <1>4, <2>3, <3>1 DEF Like
  <2>4. CASE f.free # {}
    <3>1. /\ AddBlock(f, i).r = "ok" /\ Larger(f, AddBlock(f, i).fs, i)
          /\ \E a \in f.free : AddBlock(f, i).fs.free = f.free \ {a}
      BY <2>1, <2>2, <2>4, AddDirectStep
    <3> QED BY <3>1
  <2> QED BY <2>3, <2>4
<1>5. CASE n = NDIRECT
  <2>1. AddBlock(f, i) = AddIndirect(f, i, NDIRECT)
    BY <1>1, <1>2, <1>3, <1>5 DEF AddBlock
  <2>2. NBlocksOf(f, i) = NDIRECT /\ (NDIRECT + 2) * BLKSIZE <= UINT /\ n <= NDIRECT
    BY <1>1, <1>5
  <2> QED BY <1>5, <2>1, <2>2, AddFirstStep
<1>6. CASE n > NDIRECT
  <2>1. AddBlock(f, i) = AddIndirect(f, i, n)
    BY <1>1, <1>2, <1>3, <1>6 DEF AddBlock
  <2>2. f.free # {} /\ NDIRECT < n
    BY <1>1, <1>6
  <2> QED BY <2>1, <2>2, AddUnderStep
<1>7. n < NDIRECT \/ n = NDIRECT \/ n > NDIRECT
  BY <1>1
<1> QED BY <1>4, <1>5, <1>6, <1>7

---------------------------------------------------------------------------
(* remove_block() *)

(* Disk g is disk f with one block less for file i.                        *)
Smaller(f, g, i) ==
  /\ Sound(g)
  /\ \A j \in Inos : j # i => g.inode[j] = f.inode[j]
  /\ g.inode[i].ftype = f.inode[i].ftype /\ g.inode[i].nlink = f.inode[i].nlink
  /\ NBlocksOf(f, i) = NBlocksOf(g, i) + 1
  /\ Joined(g, f, i, Fresh(g, f, i))
  /\ \A b \in DataBlocks \ g.free : g.disk[b] = f.disk[b]

LEMMA IsSmaller ==
  ASSUME NEW f, NEW g \in Disks, NEW i \in Inos, NEW n \in Nat, Sound(f), Careful(habit),
         f.inode[i].ftype # "symlink",
         NBlocksOf(f, i) = n + 1, NBlocksOf(g, i) = n,
         \A j \in Inos : j # i => g.inode[j] = f.inode[j],
         g.inode[i].ftype = f.inode[i].ftype, g.inode[i].nlink = f.inode[i].nlink,
         Joined(g, f, i, Used(n + 1) \ Used(n)),
         \A b \in DataBlocks \ g.free : g.disk[b] = f.disk[b]
  PROVE  Smaller(f, g, i)
<1>1. Count(f, i) = n + 1 /\ Count(g, i) = n
  BY DEF Count
<1>2. \A j \in Inos : j # i => Count(f, j) = Count(g, j)
  BY DEF Count, NBlocksOf
<1>3. Joined(g, f, i, Fresh(g, f, i))
  BY <1>1 DEF Fresh
<1>4. Count(g, i) <= Count(f, i)
  BY <1>1
<1>5. Sound(g)
  BY <1>2, <1>3, <1>4, LeaveSound
<1> QED BY <1>3, <1>5 DEF Smaller

(* remove_block() with a direct pointer.                                   *)
LEMMA RemoveDirectStep ==
  ASSUME NEW f, Sound(f), Careful(habit), NEW i \in Inos,
         f.inode[i].ftype # "symlink",
         NEW n \in 1..NDIRECT, NBlocksOf(f, i) = n
  PROVE  /\ RemoveBlock(f, i).r = "ok"
         /\ Smaller(f, RemoveBlock(f, i).fs, i)
<1> DEFINE R == RemoveBlock(f, i)
           o == f.inode[i]
           b == o.direct[n - 1]
           p == Freed(f, b)
           u == Directing(o, n - 1, 0)
           q == Put(p, i, u)
           g == Shrunk(q, i).fs
<1>1. f \in Disks /\ Count(f, i) = n /\ NDIRECT \in Nat /\ n \in Nat /\ n - 1 \in 0..NDIRECT - 1
      /\ n - 1 < n
  BY SizeAssumption DEF Sound, Count
<1>2. o \in Inodes
  BY <1>1, Fields
<1>3. b \in DataBlocks \ f.free
  BY <1>1, SoundMeans
<1>4. b \in DataBlocks /\ b \notin f.free /\ b # 0 /\ b \in Nat
  <2> HIDE DEF b
  <2> QED BY <1>3, DataRange
<1>5. R = Shrunk([p EXCEPT !.inode[i].direct[n - 1] = 0], i)
  <2>1. NBlocks(f.inode[i].size) = n /\ n # 0
    BY DEF NBlocksOf
  <2>2. ~(n \in (NDIRECT + 1)..(NDIRECT + BLKSIZE)) /\ ~(n > NDIRECT + BLKSIZE) /\ n \in 1..NDIRECT
    BY SizeAssumption
  <2> QED BY <1>4, <2>1, <2>2 DEF RemoveBlock
<1>6. p \in Disks /\ p.free = f.free \cup {b} /\ p.inode = f.inode /\ p.disk = f.disk
  <2>1. p = Freed(f, b)
    OBVIOUS
  <2> HIDE DEF p, b
  <2> QED BY <1>1, <1>4, <2>1, FreedIs
<1> HIDE DEF p, b
<1>7. [p EXCEPT !.inode[i].direct[n - 1] = 0] = q
  BY <1>6 DEF Put, Directing, Disks
<1>8. /\ u \in Inodes /\ u.size = o.size /\ u.ftype = o.ftype /\ u.nlink = o.nlink
      /\ u.direct[n - 1] = 0
      /\ \A k \in 0..NDIRECT - 1 : k # n - 1 => u.direct[k] = o.direct[k]
      /\ u.indirect = o.indirect /\ u.indirect2 = o.indirect2
  <2> DEFINE m == n - 1
  <2>1. u = Directing(o, m, 0) /\ 0 \in Nat /\ m \in 0..NDIRECT - 1
    BY <1>1
  <2> HIDE DEF u, o, m
  <2>2. Directed(u, o, m, 0)
    BY <1>2, <2>1, DirectingIs
  <2> QED BY <2>2 DEF Directed, m
<1> HIDE DEF u
<1>9. /\ q \in Disks /\ q.free = p.free /\ q.disk = f.disk /\ q.inode[i] = u
      /\ \A j \in Inos : j # i => q.inode[j] = f.inode[j]
  BY <1>6, <1>8, PutIs
<1> HIDE DEF q
<1>10. NBlocksOf(q, i) = n
  BY <1>8, <1>9 DEF NBlocksOf
<1>11. /\ g \in Disks /\ g.free = q.free /\ g.disk = q.disk
       /\ \A j \in Inos : j # i => g.inode[j] = q.inode[j]
       /\ g.inode[i].ftype = u.ftype /\ g.inode[i].nlink = u.nlink /\ g.inode[i].direct = u.direct
       /\ g.inode[i].indirect = u.indirect /\ g.inode[i].indirect2 = u.indirect2
       /\ NBlocksOf(g, i) = n - 1 /\ Shrunk(q, i).r = "ok"
  <2>1. NBlocksOf(q, i) > 0
    BY <1>10
  <2> QED BY <1>9, <1>10, <2>1, ShrunkTo
<1>12. R.r = "ok" /\ R.fs = g
  BY <1>5, <1>7, <1>11
<1> HIDE DEF g, R
<1>13. g.disk = f.disk /\ g.free = f.free \cup {b}
  BY <1>6, <1>9, <1>11
<1>14. \A j \in Inos : j # i => g.inode[j] = f.inode[j]
  BY <1>9, <1>11
<1>15. \A j \in Inos : SameIndirect(g, f, j)
  BY <1>13 DEF SameIndirect
<1>16. \A j \in Inos : j # i => SameInode(g, f, j)
  BY <1>14, SoundMeans DEF SameInode
<1>17. Joined(g, f, i, {<<"direct", n - 1>>})
  <2>1. b \in g.free /\ f.free = g.free \ {b}
    BY <1>4, <1>13
  <2>2. /\ g.inode[i].indirect = f.inode[i].indirect /\ g.inode[i].indirect2 = f.inode[i].indirect2
        /\ g.inode[i].direct[n - 1] = 0
        /\ \A k \in 0..NDIRECT - 1 : k # n - 1 => g.inode[i].direct[k] = f.inode[i].direct[k]
    BY <1>8, <1>11
  <2>3. f.inode[i].direct[n - 1] = b /\ g.inode[i].indirect \in Nat
    BY <2>2, SoundMeans DEF b
  <2> QED BY <1>1, <1>15, <1>16, <2>1, <2>2, <2>3, JoinedDirect
<1>18. Used((n - 1) + 1) \ Used(n - 1) = {<<"direct", n - 1>>}
  <2>1. n - 1 \in Nat /\ n - 1 < NDIRECT /\ n - 1 < NDIRECT + BLKSIZE
    BY <1>1, SizeAssumption
  <2> QED BY <2>1, FreshIs
<1>19. Smaller(f, g, i)
  <2>1. Joined(g, f, i, Used((n - 1) + 1) \ Used(n - 1))
    BY <1>17, <1>18
  <2>2. /\ n - 1 \in Nat /\ NBlocksOf(f, i) = (n - 1) + 1 /\ NBlocksOf(g, i) = n - 1
        /\ g.inode[i].ftype = f.inode[i].ftype /\ g.inode[i].nlink = f.inode[i].nlink
        /\ g \in Disks /\ \A c \in DataBlocks \ g.free : g.disk[c] = f.disk[c]
    BY <1>1, <1>8, <1>11, <1>13
  <2> QED BY <1>14, <2>1, <2>2, IsSmaller
<1> QED BY <1>12, <1>19 DEF R

---------------------------------------------------------------------------
(* change_size(): the loops                                                *)

(* remove_block() with the only block under the indirect block, which goes *)
(* too.                                                                    *)
LEMMA RemoveIndirectStep ==
  ASSUME NEW f, Sound(f), Careful(habit), NEW i \in Inos,
         f.inode[i].ftype # "symlink", NBlocksOf(f, i) = NDIRECT + 1
  PROVE  /\ RemoveBlock(f, i).r = "ok"
         /\ Smaller(f, RemoveBlock(f, i).fs, i)
<1> DEFINE n == NDIRECT
           R == RemoveBlock(f, i)
           o == f.inode[i]
           c == o.indirect
           w == f.disk[c][0].n
           p == Freed(f, w)
           s == Stored(p, c, 0, 0)
           t == Freed(s, c)
           u == Indirecting(o, 0)
           q == Put(t, i, u)
           g == Shrunk(q, i).fs
<1>1. f \in Disks /\ Count(f, i) = n + 1 /\ n \in Nat /\ BLKSIZE \in Nat /\ BLKSIZE > 0
  BY SizeAssumption DEF Sound, Count
<1>2. o \in Inodes
  BY <1>1, Fields
<1>3. c \in DataBlocks \ f.free /\ w \in DataBlocks \ f.free
  <2>1. Count(f, i) > NDIRECT /\ NDIRECT + 0 < Count(f, i)
    BY <1>1
  <2> QED BY <2>1, SoundMeans, ZeroIndex
<1>4. \A k \in Index : k # 0 => f.disk[c][k].n = 0
  <2> SUFFICES ASSUME NEW k \in Index, k # 0 PROVE f.disk[c][k].n = 0
    OBVIOUS
  <2>1. Count(f, i) > NDIRECT /\ ~(NDIRECT + k < Count(f, i))
    BY <1>1 DEF Index
  <2> QED BY <2>1, SoundMeans
<1>5. /\ c \in Nat /\ c # 0 /\ c \in 0..NBLOCKS + 2 /\ c \in DataBlocks /\ c \notin f.free
      /\ w \in Nat /\ w # 0 /\ w \in DataBlocks /\ w \notin f.free
  <2> HIDE DEF c, w
  <2> QED BY <1>3, DataRange, SMTT(30)
<1>6. c # w
  <2>1. Held(f, i, <<"indirect", 0>>) = c
    BY HeldIs
  <2>2. Held(f, i, <<"under", 0>>) = w
    BY ZenonT(60), <1>5, ZeroIndex, HeldIs
  <2>3. <<"indirect", 0>> # <<"under", 0>> /\ Apart(f)
    BY DEF Sound
  <2>4. <<"indirect", 0>> \in Slots /\ <<"under", 0>> \in Slots
    BY SlotsAre, ZeroIndex
  <2> HIDE DEF c, w
  <2>5. SUFFICES ASSUME c = w PROVE FALSE
    OBVIOUS
  <2>6. Held(f, i, <<"indirect", 0>>) = Held(f, i, <<"under", 0>>)
          /\ Held(f, i, <<"indirect", 0>>) # 0
    BY <1>5, <2>1, <2>2, <2>5
  <2>7. <<"indirect", 0>> = <<"under", 0>>
    BY <2>3, <2>4, <2>6 DEF Apart
  <2> QED BY <2>3, <2>7
<1>7. p \in Disks /\ p.free = f.free \cup {w} /\ p.inode = f.inode /\ p.disk = f.disk
  <2>1. p = Freed(f, w)
    OBVIOUS
  <2> HIDE DEF p, w
  <2> QED BY <1>1, <1>5, <2>1, FreedIs, Zenon
<1>8. /\ s \in Disks /\ s.free = p.free /\ s.inode = p.inode
      /\ \A b \in 0..NBLOCKS + 2 : b # c => s.disk[b] = f.disk[b]
  <2>1. s = Stored(p, c, 0, 0) /\ 0 \in Index /\ 0 \in Nat /\ p \in Disks /\ c \in DataBlocks
    BY <1>5, <1>7, ZeroIndex
  <2> HIDE DEF p, c, s, w
  <2>2. /\ s \in Disks /\ s.free = p.free /\ s.inode = p.inode
        /\ \A b \in 0..NBLOCKS + 2 : b # c => s.disk[b] = p.disk[b]
    BY <2>1, StoredIs
  <2> QED BY <2>2, <1>7
<1>9. t \in Disks /\ t.free = f.free \cup {c, w} /\ t.inode = f.inode /\ t.disk = s.disk
  <2>1. t = Freed(s, c)
    OBVIOUS
  <2> HIDE DEF t, s, c, w, p
  <2>2. t \in Disks /\ t.free = s.free \cup {c} /\ t.inode = s.inode /\ t.disk = s.disk
    BY <1>5, <1>8, <2>1, FreedIs
  <2> QED BY <2>2, <1>7, <1>8
<1>10. R = Shrunk([t EXCEPT !.inode[i].indirect = 0], i)
  <2>1. NBlocks(f.inode[i].size) = n + 1 /\ n + 1 # 0 /\ (n + 1) - 1 = NDIRECT
    BY <1>1 DEF NBlocksOf
  <2>2. (n + 1) \in (NDIRECT + 1)..(NDIRECT + BLKSIZE) /\ ~(n + 1 > NDIRECT + BLKSIZE)
        /\ n + 1 \notin 1..NDIRECT
    BY <1>1, SizeAssumption
  <2>3. R = RemoveIndirect(f, i, NDIRECT)
    BY <2>1, <2>2 DEF RemoveBlock
  <2>4. DirectIndex(NDIRECT) = 0
    BY <1>1, Indices
  <2>5. Word(f, c, 0) = w
    BY <1>5, ZeroIndex, WordIs
  <2> HIDE DEF R
  <2>6. RemoveIndirect(f, i, NDIRECT) =
          Shrunk([Freed(Stored(Freed(f, Word(f, c, 0)), c, 0, 0), c)
                   EXCEPT !.inode[i].indirect = 0], i)
    BY <2>4, Zenon DEF RemoveIndirect
  <2> QED BY <2>3, <2>5, <2>6
<1> HIDE DEF t, s, p
<1>11. [t EXCEPT !.inode[i].indirect = 0] = q
  BY <1>9 DEF Put, Indirecting, Disks
<1>12. /\ u \in Inodes /\ u.size = o.size /\ u.ftype = o.ftype /\ u.nlink = o.nlink
       /\ u.direct = o.direct /\ u.indirect = 0 /\ u.indirect2 = o.indirect2
  <2>1. u = Indirecting(o, 0) /\ 0 \in Nat
    OBVIOUS
  <2> HIDE DEF u, o
  <2> QED BY <1>2, <2>1, IndirectingIs
<1> HIDE DEF u
<1>13. /\ q \in Disks /\ q.free = t.free /\ q.disk = s.disk /\ q.inode[i] = u
       /\ \A j \in Inos : j # i => q.inode[j] = f.inode[j]
  BY <1>9, <1>12, PutIs
<1> HIDE DEF q
<1>14. NBlocksOf(q, i) = n + 1
  BY <1>12, <1>13 DEF NBlocksOf
<1>15. /\ g \in Disks /\ g.free = q.free /\ g.disk = q.disk
       /\ \A j \in Inos : j # i => g.inode[j] = q.inode[j]
       /\ g.inode[i].ftype = u.ftype /\ g.inode[i].nlink = u.nlink /\ g.inode[i].direct = u.direct
       /\ g.inode[i].indirect = u.indirect /\ g.inode[i].indirect2 = u.indirect2
       /\ NBlocksOf(g, i) = n /\ Shrunk(q, i).r = "ok"
  <2>1. NBlocksOf(q, i) > 0 /\ NBlocksOf(q, i) - 1 = n
    BY <1>1, <1>14
  <2> QED BY <1>13, <2>1, ShrunkTo
<1>16. R.r = "ok" /\ R.fs = g
  BY <1>10, <1>11, <1>15
<1> HIDE DEF g, R
<1>17. g.free = f.free \cup {c, w} /\ \A b \in 0..NBLOCKS + 2 : b # c => g.disk[b] = f.disk[b]
  BY SMTT(30), <1>8, <1>9, <1>13, <1>15
<1>18. \A j \in Inos : j # i => g.inode[j] = f.inode[j]
  BY <1>13, <1>15
<1>19. /\ g.inode[i].indirect = 0 /\ g.inode[i].direct = f.inode[i].direct
       /\ g.inode[i].indirect2 = f.inode[i].indirect2
       /\ g.inode[i].ftype = f.inode[i].ftype /\ g.inode[i].nlink = f.inode[i].nlink
  BY <1>12, <1>15
<1>20. \A j \in Inos : SameIndirect(g, f, j)
  <2> SUFFICES ASSUME NEW j \in Inos, g.inode[j].indirect # 0
               PROVE  f.disk[g.inode[j].indirect] = g.disk[g.inode[j].indirect]
    BY DEF SameIndirect
  <2>1. j # i /\ g.inode[j].indirect = f.inode[j].indirect
    BY <1>18, <1>19
  <2>2. f.inode[j].indirect # c
    BY <2>1, SoundMeans
  <2>3. f.inode[j].indirect \in DataBlocks
    <3>1. Count(f, j) \in Nat
      BY <1>1, CountType
    <3>2. Count(f, j) <= NDIRECT \/ Count(f, j) > NDIRECT
      BY <3>1, <1>1
    <3> QED BY <3>2, <2>1, SoundMeans
  <2> HIDE DEF c
  <2> QED BY <1>17, <2>1, <2>2, <2>3, DataRange
<1>21. \A j \in Inos : j # i => SameInode(g, f, j)
  BY <1>18, SoundMeans, Zenon DEF SameInode
<1>22. Joined(g, f, i, {<<"indirect", 0>>, <<"under", 0>>})
  <2>1. c \in g.free /\ w \in g.free /\ f.free = g.free \ {c, w} /\ c \in Nat \ {0}
    BY <1>5, <1>17
  <2>2. f.inode[i].indirect = c /\ f.disk[c][0].n = w
    OBVIOUS
  <2> HIDE DEF c, w
  <2> QED BY <1>4, <1>6, <1>19, <1>20, <1>21, <2>1, <2>2, JoinedFirst
<1>23. Used(n + 1) \ Used(n) = {<<"indirect", 0>>, <<"under", 0>>}
  <2>1. n < NDIRECT + BLKSIZE
    BY <1>1
  <2> QED BY <1>1, <2>1, FreshIs
<1>24. \A b \in DataBlocks \ g.free : g.disk[b] = f.disk[b]
  <2> HIDE DEF c, w
  <2> QED BY <1>17, DataRange
<1>25. Smaller(f, g, i)
  <2>1. Joined(g, f, i, Used(n + 1) \ Used(n))
    BY <1>22, <1>23
  <2>2. g \in Disks /\ NBlocksOf(g, i) = n /\ NBlocksOf(f, i) = n + 1
    BY <1>15
  <2> QED BY <1>1, <1>18, <1>19, <1>24, <2>1, <2>2, IsSmaller
<1> QED BY <1>16, <1>25 DEF R

(* remove_block() of a file with at most one block under its indirect      *)
(* block.                                                                  *)
LEMMA RemoveStep ==
  ASSUME NEW f, Sound(f), Careful(habit), NEW i \in Inos,
         f.inode[i].ftype # "symlink", NBlocksOf(f, i) \in 1..NDIRECT + 1
  PROVE  /\ RemoveBlock(f, i).r = "ok"
         /\ Smaller(f, RemoveBlock(f, i).fs, i)
<1>1. NBlocksOf(f, i) \in 1..NDIRECT \/ NBlocksOf(f, i) = NDIRECT + 1
  BY SizeAssumption
<1> QED BY <1>1, RemoveDirectStep, RemoveIndirectStep

---------------------------------------------------------------------------
(* Repetition *)

(* One step of a loop that adds blocks or removes them.                    *)
Stepped(add, f, i) == IF add THEN AddBlock(f, i) ELSE RemoveBlock(f, i)

(* What the loop has after each of m steps, as a function that refers to   *)
(* itself.                                                                 *)
Chain(add, f, i, after, m) ==
  after = [j \in 0..m |->
             IF j = 0 THEN [fs |-> f, r |-> "ok"]
             ELSE IF after[j - 1].r # "ok" THEN after[j - 1]
             ELSE Stepped(add, after[j - 1].fs, i)]

(* The function that refers to itself exists.                              *)
LEMMA Chained ==
  ASSUME NEW add, NEW f, NEW i, NEW k \in Nat
  PROVE  \E after : Chain(add, f, i, after, k)
<1> DEFINE S == {m \in Nat : \E after : Chain(add, f, i, after, m)}
<1>1. 0 \in S
  <2>1. Chain(add, f, i, [j \in 0..0 |-> [fs |-> f, r |-> "ok"]], 0)
    BY DEF Chain
  <2> QED BY <2>1
<1>2. ASSUME NEW m \in S PROVE m + 1 \in S
  <2>1. PICK a : Chain(add, f, i, a, m)
    OBVIOUS
  <2> DEFINE b == [j \in 0..m + 1 |->
                     IF j <= m THEN a[j]
                     ELSE IF a[m].r # "ok" THEN a[m] ELSE Stepped(add, a[m].fs, i)]
  <2>2. m \in Nat
    OBVIOUS
  <2>3. \A j \in 0..m : b[j] = a[j]
    BY <2>2
  <2>4. Chain(add, f, i, b, m + 1)
    <3>1. \A j \in 0..m + 1 :
            b[j] = IF j = 0 THEN [fs |-> f, r |-> "ok"]
                   ELSE IF b[j - 1].r # "ok" THEN b[j - 1]
                   ELSE Stepped(add, b[j - 1].fs, i)
      <4> SUFFICES ASSUME NEW j \in 0..m + 1
                   PROVE  b[j] = IF j = 0 THEN [fs |-> f, r |-> "ok"]
                                 ELSE IF b[j - 1].r # "ok" THEN b[j - 1]
                                 ELSE Stepped(add, b[j - 1].fs, i)
        OBVIOUS
      <4>1. CASE j = 0
        BY <2>1, <2>2, <2>3, <4>1 DEF Chain
      <4>2. CASE j \in 1..m
        <5>1. j - 1 \in 0..m /\ j \in 0..m /\ j # 0
          BY <2>2, <4>2
        <5>2. b[j] = a[j] /\ b[j - 1] = a[j - 1]
          BY <2>3, <5>1
        <5> HIDE DEF b
        <5> QED BY <2>1, <5>1, <5>2 DEF Chain
      <4>3. CASE j = m + 1
        <5>1. b[m] = a[m] /\ j - 1 = m /\ j # 0 /\ ~(j <= m)
          BY <2>2, <2>3, <4>3
        <5>2. b[j] = IF a[m].r # "ok" THEN a[m] ELSE Stepped(add, a[m].fs, i)
          BY <5>1
        <5> HIDE DEF b
        <5> QED BY <5>1, <5>2
      <4> QED BY <2>2, <4>1, <4>2, <4>3
    <3>2. b = [j \in 0..m + 1 |-> b[j]]
      OBVIOUS
    <3> HIDE DEF b
    <3> QED BY <3>1, <3>2 DEF Chain
  <2> HIDE DEF b
  <2> QED BY <2>2, <2>4
<1>3. S = Nat
  <2>1. S \in SUBSET Nat
    OBVIOUS
  <2> HIDE DEF S
  <2> QED BY <1>1, <1>2, <2>1, SetInduction
<1> QED BY <1>3

(* The same step by step.                                                  *)
Links(add, f, i, after, k) ==
  /\ after[0] = [fs |-> f, r |-> "ok"]
  /\ \A j \in 1..k : after[j] = IF after[j - 1].r # "ok" THEN after[j - 1]
                                ELSE Stepped(add, after[j - 1].fs, i)

LEMMA ChainLinks ==
  ASSUME NEW add, NEW f, NEW i, NEW k \in Nat, NEW after, Chain(add, f, i, after, k)
  PROVE  Links(add, f, i, after, k)
<1>1. after[0] = [fs |-> f, r |-> "ok"]
  BY DEF Chain
<1>2. ASSUME NEW j \in 1..k
      PROVE  after[j] = IF after[j - 1].r # "ok" THEN after[j - 1]
                        ELSE Stepped(add, after[j - 1].fs, i)
  BY DEF Chain
<1> QED BY <1>1, <1>2 DEF Links

(* The loop of change_size() that adds, unfolded.                          *)
LEMMA RepeatAdd ==
  ASSUME NEW f, NEW i, NEW k \in Nat
  PROVE  \E after : Repeat(AddBlock, f, i, k) = after[k] /\ Links(TRUE, f, i, after, k)
<1> DEFINE Is(after) ==
      after = [j \in 0..k |->
                 IF j = 0 THEN [fs |-> f, r |-> "ok"]
                 ELSE IF after[j - 1].r # "ok" THEN after[j - 1]
                 ELSE AddBlock(after[j - 1].fs, i)]
           after == CHOOSE a : Is(a)
<1>1. \A a : Is(a) <=> Chain(TRUE, f, i, a, k)
  BY DEF Chain, Stepped
<1>2. Repeat(AddBlock, f, i, k) = after[k]
  BY DEF Repeat
<1> HIDE DEF Is
<1>3. Is(after)
  BY <1>1, Chained
<1> HIDE DEF after
<1> QED BY <1>1, <1>2, <1>3, ChainLinks

(* The loop of change_size() that removes, unfolded.                       *)
LEMMA RepeatRemove ==
  ASSUME NEW f, NEW i, NEW k \in Nat
  PROVE  \E after : Repeat(RemoveBlock, f, i, k) = after[k] /\ Links(FALSE, f, i, after, k)
<1> DEFINE Is(after) ==
      after = [j \in 0..k |->
                 IF j = 0 THEN [fs |-> f, r |-> "ok"]
                 ELSE IF after[j - 1].r # "ok" THEN after[j - 1]
                 ELSE RemoveBlock(after[j - 1].fs, i)]
           after == CHOOSE a : Is(a)
<1>1. \A a : Is(a) <=> Chain(FALSE, f, i, a, k)
  BY DEF Chain, Stepped
<1>2. Repeat(RemoveBlock, f, i, k) = after[k]
  BY DEF Repeat
<1> HIDE DEF Is
<1>3. Is(after)
  BY <1>1, Chained
<1> HIDE DEF after
<1> QED BY <1>1, <1>2, <1>3, ChainLinks

---------------------------------------------------------------------------
(* What several steps leave alone                                          *)

(* The blocks that a file keeps are where they were and hold what they held.*)
Kept(f, g) ==
  \A j \in Inos : \A k \in Nat : (k < Count(f, j) /\ k < Count(g, j)) =>
    /\ Held(g, j, Place(k)) = Held(f, j, Place(k))
    /\ g.disk[Held(f, j, Place(k))] = f.disk[Held(f, j, Place(k))]

(* File j is as it was but for its size and its blocks.                    *)
SameFile(f, g, j) ==
  g.inode[j].ftype = f.inode[j].ftype /\ g.inode[j].nlink = f.inode[j].nlink

(* Disk g is reached from disk f by steps that change the size and the     *)
(* blocks of file i alone.                                                 *)
Reached(f, g, i) ==
  /\ Sound(g) /\ Kept(f, g) /\ Gained(f, g, i)
  /\ \A j \in Inos : SameFile(f, g, j)
  /\ \A j \in Inos : j # i => (/\ g.inode[j] = f.inode[j]
                              /\ \A s \in Slots : Held(g, j, s) = Held(f, j, s))

(* Files are no larger than their pointers can hold.                       *)
Fits(f) == \A j \in Inos : Count(f, j) <= NDIRECT + BLKSIZE

(* The slot of a block below the size is in use.                           *)
LEMMA PlaceUsed ==
  ASSUME NEW n \in Nat, n <= NDIRECT + BLKSIZE, NEW k \in Nat, k < n
  PROVE  Place(k) \in Slots /\ Place(k) \in Used(n) /\ Place(k) # <<"indirect", 0>>
<1>1. NDIRECT \in Nat /\ BLKSIZE \in Nat
  BY SizeAssumption
<1>2. CASE k < NDIRECT
  BY <1>1, <1>2, SlotsAre, UsedIs DEF Place
<1>3. CASE k >= NDIRECT
  <2>1. k - NDIRECT \in Index /\ NDIRECT + (k - NDIRECT) < n
    BY <1>1, <1>3 DEF Index
  <2> QED BY <1>1, <1>3, <2>1, SlotsAre, UsedIs DEF Place
<1> QED BY <1>1, <1>2, <1>3

LEMMA CountOther ==
  ASSUME NEW f, NEW g, NEW j, g.inode[j] = f.inode[j]
  PROVE  Count(g, j) = Count(f, j) /\ NBlocksOf(g, j) = NBlocksOf(f, j)
BY DEF Count, NBlocksOf

(* A block more is such a step,                                            *)
LEMMA LargerReached ==
  ASSUME NEW f, NEW g, NEW i \in Inos, Sound(f), Larger(f, g, i), Careful(habit),
         Fits(f)
  PROVE  Reached(f, g, i)
<1>1. f \in Disks
  BY DEF Sound
<1>2. \A j \in Inos : SameFile(f, g, j)
  BY DEF Larger, SameFile
<1>3. \A j \in Inos : j # i => (/\ g.inode[j] = f.inode[j]
                              /\ \A s \in Slots : Held(g, j, s) = Held(f, j, s))
  BY DEF Larger, Joined
<1>4. ASSUME NEW j \in Inos, NEW k \in Nat, k < Count(f, j)
      PROVE  /\ Held(g, j, Place(k)) = Held(f, j, Place(k))
             /\ g.disk[Held(f, j, Place(k))] = f.disk[Held(f, j, Place(k))]
  <2>1. Place(k) \in Slots /\ Place(k) \in Used(Count(f, j)) /\ Place(k) # <<"indirect", 0>>
    BY <1>1, <1>4, CountType, PlaceUsed DEF Fits
  <2>2. ~(j = i /\ Place(k) \in Fresh(f, g, i))
    BY <2>1 DEF Fresh
  <2>3. Held(g, j, Place(k)) = Held(f, j, Place(k))
    BY <2>1, <2>2 DEF Larger, Joined
  <2>4. Held(f, j, Place(k)) \in DataBlocks \ f.free
    BY <2>1 DEF Sound, Whole
  <2>5. Held(f, j, Place(k)) # f.inode[i].indirect
    <3>1. Held(f, i, <<"indirect", 0>>) = f.inode[i].indirect /\ <<"indirect", 0>> \in Slots
      BY HeldIs, SlotsAre
    <3>2. Held(f, j, Place(k)) # 0 /\ Apart(f)
      BY <2>4, DataRange DEF Sound
    <3> QED BY <2>1, <3>1, <3>2 DEF Apart
  <2> QED BY <2>3, <2>4, <2>5 DEF Larger
<1>5. Kept(f, g)
  BY <1>4 DEF Kept
<1> QED BY <1>2, <1>3, <1>5 DEF Larger, Reached

(* a block less is,                                                        *)
LEMMA SmallerReached ==
  ASSUME NEW f, NEW g, NEW i \in Inos, Sound(f), Smaller(f, g, i), Careful(habit), Fits(f)
  PROVE  Reached(f, g, i)
<1>1. f \in Disks /\ g \in Disks /\ Sound(g)
  BY DEF Sound, Smaller
<1>2. \A j \in Inos : SameFile(f, g, j)
  BY DEF Smaller, SameFile
<1>3. \A j \in Inos : j # i => (/\ g.inode[j] = f.inode[j]
                              /\ \A s \in Slots : Held(g, j, s) = Held(f, j, s))
  BY DEF Smaller, Joined
<1>4. ASSUME NEW j \in Inos, NEW k \in Nat, k < Count(g, j), k < Count(f, j)
      PROVE  /\ Held(g, j, Place(k)) = Held(f, j, Place(k))
             /\ g.disk[Held(f, j, Place(k))] = f.disk[Held(f, j, Place(k))]
  <2>1. Count(g, j) \in Nat /\ Count(f, j) \in Nat /\ Count(f, j) <= NDIRECT + BLKSIZE
        /\ NDIRECT + BLKSIZE \in Nat
    BY <1>1, CountType, SizeAssumption DEF Fits
  <2>2. Count(g, j) <= NDIRECT + BLKSIZE
    <3>1. Count(g, j) <= Count(f, j)
      <4>1. CASE j = i
        <5>1. NBlocksOf(f, i) = NBlocksOf(g, i) + 1 /\ g.inode[i].ftype = f.inode[i].ftype
              /\ NBlocksOf(g, i) \in Nat
          BY <1>1, CountType DEF Smaller
        <5> QED BY <4>1, <5>1 DEF Count
      <4>2. CASE j # i
        BY <2>1, <4>2, CountOther DEF Smaller
      <4> QED BY <4>1, <4>2
    <3> QED BY <2>1, <3>1
  <2>3. Place(k) \in Slots /\ Place(k) \in Used(Count(g, j))
    BY <1>4, <2>1, <2>2, PlaceUsed
  <2>4. ~(j = i /\ Place(k) \in Fresh(g, f, i))
    BY <2>3 DEF Fresh
  <2>5. Held(g, j, Place(k)) = Held(f, j, Place(k))
    BY <2>3, <2>4 DEF Smaller, Joined
  <2>6. Held(g, j, Place(k)) \in DataBlocks \ g.free
    BY <1>1, <2>3 DEF Sound, Whole
  <2> QED BY <2>5, <2>6 DEF Smaller
<1>5. Kept(f, g)
  BY <1>4 DEF Kept
<1>6. Gained(f, g, i)
  <2>1. NBlocksOf(f, i) = NBlocksOf(g, i) + 1 /\ g.inode[i].ftype = f.inode[i].ftype
        /\ NBlocksOf(g, i) \in Nat
    BY <1>1, CountType DEF Smaller
  <2>2. Count(g, i) <= Count(f, i) /\ Count(g, i) \in Nat /\ Count(f, i) \in Nat
    BY <2>1 DEF Count
  <2> QED BY <2>2 DEF Gained
<1> QED BY <1>1, <1>2, <1>3, <1>5, <1>6 DEF Reached

(* and so is a change of free blocks only.                                 *)
LEMMA LikeReached ==
  ASSUME NEW f, NEW g, NEW i \in Inos, Sound(f), Like(f, g), Careful(habit), Fits(f)
  PROVE  Reached(f, g, i)
<1>1. f \in Disks /\ Sound(g) /\ g.inode = f.inode
  BY LikeSound DEF Sound, Like
<1>2. /\ \A j \in Inos : SameFile(f, g, j)
      /\ \A j \in Inos : j # i => (/\ g.inode[j] = f.inode[j]
                                  /\ \A s \in Slots : Held(g, j, s) = Held(f, j, s))
  BY <1>1, LikeSound DEF SameFile
<1>3. ASSUME NEW j \in Inos, NEW k \in Nat, k < Count(f, j)
      PROVE  /\ Held(g, j, Place(k)) = Held(f, j, Place(k))
             /\ g.disk[Held(f, j, Place(k))] = f.disk[Held(f, j, Place(k))]
  <2>1. Place(k) \in Slots /\ Place(k) \in Used(Count(f, j))
    BY <1>1, <1>3, CountType, PlaceUsed DEF Fits
  <2>2. Held(f, j, Place(k)) \in DataBlocks \ f.free
    BY <2>1 DEF Sound, Whole
  <2> QED BY <2>1, <2>2, LikeSound DEF Like
<1>4. Gained(f, g, i)
  BY <1>1, LikeSound, CountType DEF Gained
<1> QED BY <1>1, <1>2, <1>3, <1>4 DEF Kept, Reached

LEMMA ReachedItself ==
  ASSUME NEW f, NEW i \in Inos, Sound(f)
  PROVE  Reached(f, f, i)
<1>1. Gained(f, f, i)
  BY CountType DEF Gained, Sound
<1> QED BY <1>1 DEF Reached, Kept, SameFile

(* Two such steps are one, if what the first adds the second does not      *)
(* take.                                                                   *)
LEMMA ReachedOn ==
  ASSUME NEW f, NEW g, NEW h, NEW i \in Inos, f \in Disks,
         Reached(f, g, i), Reached(g, h, i),
         Count(f, i) <= Count(g, i) \/ Count(h, i) <= Count(g, i)
  PROVE  Reached(f, h, i)
<1>1. g \in Disks /\ h \in Disks /\ Sound(h)
  BY DEF Reached, Sound
<1>2. \A j \in Inos : SameFile(f, h, j)
  BY DEF Reached, SameFile
<1>3. \A j \in Inos : j # i =>
        (/\ h.inode[j] = g.inode[j] /\ g.inode[j] = f.inode[j]
         /\ \A s \in Slots : Held(h, j, s) = Held(g, j, s) /\ Held(g, j, s) = Held(f, j, s))
  BY DEF Reached
<1>4. \A j \in Inos : /\ Count(f, j) \in Nat /\ Count(g, j) \in Nat /\ Count(h, j) \in Nat
                      /\ Count(f, j) <= Count(g, j) \/ Count(h, j) <= Count(g, j)
  <2> SUFFICES ASSUME NEW j \in Inos
               PROVE  /\ Count(f, j) \in Nat /\ Count(g, j) \in Nat /\ Count(h, j) \in Nat
                      /\ Count(f, j) <= Count(g, j) \/ Count(h, j) <= Count(g, j)
    OBVIOUS
  <2>1. Count(f, j) \in Nat /\ Count(g, j) \in Nat /\ Count(h, j) \in Nat
    BY <1>1, CountType
  <2>2. CASE j # i
    <3>1. Count(g, j) = Count(f, j)
      BY <1>3, <2>2, CountOther
    <3> QED BY <2>1, <3>1
  <2> QED BY <2>1, <2>2
<1>5. ASSUME NEW j \in Inos, NEW k \in Nat, k < Count(f, j), k < Count(h, j)
      PROVE  /\ Held(h, j, Place(k)) = Held(f, j, Place(k))
             /\ h.disk[Held(f, j, Place(k))] = f.disk[Held(f, j, Place(k))]
  <2>1. k < Count(g, j)
    BY <1>4, <1>5
  <2>2. Kept(f, g) /\ Kept(g, h)
    BY DEF Reached
  <2> QED BY <1>5, <2>1, <2>2 DEF Kept
<1>6. Kept(f, h)
  BY <1>5 DEF Kept
<1>7. Gained(f, h, i)
  <2> SUFFICES ASSUME NEW k \in Nat, Count(f, i) <= k, k < Count(h, i)
               PROVE  h.disk[Held(h, i, Place(k))] = Blank
    BY DEF Gained
  <2>1. Kept(g, h) /\ Gained(f, g, i) /\ Gained(g, h, i)
    BY DEF Reached
  <2>2. CASE k < Count(g, i)
    <3>1. g.disk[Held(g, i, Place(k))] = Blank
      BY <2>1, <2>2 DEF Gained
    <3> QED BY <2>1, <2>2, <3>1 DEF Kept
  <2>3. CASE ~(k < Count(g, i))
    <3>1. Count(g, i) <= k
      BY <1>4, <2>3
    <3> QED BY <2>1, <3>1 DEF Gained
  <2> QED BY <2>2, <2>3
<1> QED BY <1>1, <1>2, <1>3, <1>6, <1>7 DEF Reached

(* Counting the free blocks.                                               *)
LEMMA FreeFinite ==
  ASSUME NEW f \in Disks, Careful(habit)
  PROVE  /\ IsFiniteSet(f.free) /\ Cardinality(f.free) \in Nat
         /\ (f.free = {}) <=> (Cardinality(f.free) = 0)
         /\ \A a \in f.free : Cardinality(f.free \ {a}) = Cardinality(f.free) - 1
         /\ \A a, b \in f.free : a # b => Cardinality(f.free \ {a, b}) = Cardinality(f.free) - 2
<1>1. IsFiniteSet(DataBlocks)
  <2>1. 2 \in Int /\ habit.blocks + 1 \in Int
    BY SizeAssumption DEF Careful
  <2>2. \A a, b \in Int : IsFiniteSet(a..b)
    BY FS_Interval
  <2>3. IsFiniteSet(2..(habit.blocks + 1))
    BY <2>1, <2>2
  <2> QED BY <2>3 DEF DataBlocks
<1>2. IsFiniteSet(f.free)
  BY <1>1, Fields, FS_Subset
<1>3. Cardinality(f.free) \in Nat /\ ((f.free = {}) <=> (Cardinality(f.free) = 0))
  BY <1>2, FS_CardinalityType, FS_EmptySet
<1>4. \A S : IsFiniteSet(S) => \A a \in S : IsFiniteSet(S \ {a})
        /\ Cardinality(S \ {a}) = Cardinality(S) - 1
  BY FS_RemoveElement
<1>5. ASSUME NEW a \in f.free, NEW b \in f.free, a # b
      PROVE  Cardinality(f.free \ {a, b}) = Cardinality(f.free) - 2
  <2>1. f.free \ {a, b} = (f.free \ {a}) \ {b} /\ b \in f.free \ {a}
    BY <1>5
  <2>2. IsFiniteSet(f.free \ {a}) /\ Cardinality(f.free \ {a}) = Cardinality(f.free) - 1
    BY <1>2, <1>4
  <2>3. Cardinality((f.free \ {a}) \ {b}) = Cardinality(f.free \ {a}) - 1
    BY <1>4, <2>1, <2>2
  <2> QED BY <1>3, <2>1, <2>2, <2>3
<1> QED BY <1>2, <1>3, <1>4, <1>5

(* Beyond the direct blocks add_block() does not see a full disk.          *)
LEMMA AddLoose ==
  ASSUME NEW f \in Disks, Careful(habit), NEW i \in Inos,
         NEW n \in Nat, NDIRECT < n, n < NDIRECT + BLKSIZE,
         NBlocksOf(f, i) = n, (n + 2) * BLKSIZE <= UINT,
         f.inode[i].indirect \in DataBlocks
  PROVE  /\ AddBlock(f, i).r = "ok"
         /\ AddBlock(f, i).fs \in Disks
         /\ NBlocksOf(AddBlock(f, i).fs, i) = n + 1
         /\ AddBlock(f, i).fs.inode[i].indirect \in DataBlocks
<1> DEFINE a == Allocated(f)
           e == Erased(f)
           c == f.inode[i].indirect
           k == n - NDIRECT
           h == Stored(e, c, k, a)
           R == AddBlock(f, i)
<1>1. c \in Nat /\ c # 0 /\ k \in Index /\ DirectIndex(n) = k
  BY DataRange, Indices, SizeAssumption
<1>2. R = Grown(h, i)
  <2>1. R = AddIndirect(f, i, n)
    <3>1. NBlocks(f.inode[i].size) = n /\ Indir2Index(n) = -1 /\ IndirIndex(n) = 0
      BY Indices, SizeAssumption DEF NBlocksOf
    <3> QED BY <3>1 DEF AddBlock
  <2> HIDE DEF R
  <2> QED BY <1>1, <2>1 DEF AddIndirect
<1>3. a \in Nat /\ e \in Disks /\ e.inode = f.inode
  <2>1. CASE f.free # {}
    BY <2>1, ErasedIs, DataRange, Fields
  <2>2. CASE f.free = {}
    <3>1. a = 0
      BY <2>2 DEF Allocated
    <3>2. e = [f EXCEPT !.free = @ \ {0}, !.disk[0] = Blank]
      BY <3>1 DEF Erased
    <3>3. 0 \in 0..NBLOCKS + 2
      BY SizeAssumption
    <3> HIDE DEF e, a
    <3> QED BY <3>1, <3>2, <3>3, ZeroIndex DEF Disks
  <2> QED BY <2>1, <2>2
<1>4. h \in Disks /\ h.inode = f.inode
  <2>1. h = Stored(e, c, k, a) /\ c \in DataBlocks
    OBVIOUS
  <2> HIDE DEF h, e, c, k, a
  <2> QED BY <1>1, <1>3, <2>1, StoredIs
<1> HIDE DEF h, R
<1>5. NBlocksOf(h, i) = n
  BY <1>4 DEF NBlocksOf
<1>6. /\ Grown(h, i).r = "ok" /\ Grown(h, i).fs \in Disks
      /\ Grown(h, i).fs.inode[i].indirect = h.inode[i].indirect
      /\ NBlocksOf(Grown(h, i).fs, i) = n + 1
  BY <1>4, <1>5, GrownTo
<1> QED BY <1>2, <1>4, <1>6 DEF R

(* What a file may ask for without running into the end of its pointers.   *)
Bounded(f) == \A j \in Inos : Count(f, j) <= habit.most

LEMMA BoundedFits ==
  ASSUME NEW f \in Disks, Bounded(f), Careful(habit)
  PROVE  Fits(f)
<1> SUFFICES ASSUME NEW j \in Inos PROVE Count(f, j) <= NDIRECT + BLKSIZE
  BY DEF Fits
<1>1. Count(f, j) \in Nat /\ Count(f, j) <= habit.most /\ habit.most \in 1..NDIRECT + BLKSIZE
  BY CountType DEF Bounded, Careful
<1> QED BY <1>1, SizeAssumption

(* What the programs may rely on.                                          *)
LEMMA CarefulMeans ==
  ASSUME Careful(habit)
  PROVE  /\ habit.most \in Nat /\ habit.most > 0 /\ habit.most <= NDIRECT + BLKSIZE
         /\ \A n \in Nat : n < habit.most => (n + 2) * BLKSIZE <= UINT
         /\ NDIRECT \in Nat /\ BLKSIZE \in Nat /\ UINT \in Nat /\ NDIRECT > 0 /\ BLKSIZE > 0
<1>1. habit.most \in Nat /\ habit.most > 0 /\ habit.most <= NDIRECT + BLKSIZE
      /\ (habit.most + 1) * BLKSIZE <= UINT
  BY SizeAssumption DEF Careful
<1>2. NDIRECT \in Nat /\ BLKSIZE \in Nat /\ UINT \in Nat /\ NDIRECT > 0 /\ BLKSIZE > 0
  BY SizeAssumption
<1>3. ASSUME NEW n \in Nat, n < habit.most PROVE (n + 2) * BLKSIZE <= UINT
  <2> DEFINE x == (n + 2) * BLKSIZE
             y == (habit.most + 1) * BLKSIZE
  <2>1. ~((habit.most + 1) * BLKSIZE < (n + 2) * BLKSIZE)
    <3>1. n + 2 \in Int /\ habit.most + 1 \in Int /\ ~(habit.most + 1 < n + 2)
      BY <1>1, <1>3
    <3> QED BY <3>1, Below
  <2>2. x \in Int /\ y \in Int
    BY <1>1, <1>2
  <2>3. ~(y < x) /\ y <= UINT
    BY <1>1, <2>1
  <2> HIDE DEF x, y
  <2>4. x <= UINT
    BY <1>2, <2>2, <2>3
  <2> QED BY <2>4 DEF x
<1> QED BY <1>1, <1>2, <1>3

---------------------------------------------------------------------------
(* change_size() that grows                                                *)

(* There are blocks enough for k more, and an indirect block.              *)
Plenty(f, k) == Cardinality(f.free) >= k + 1

(* A disk on which a file may run out of blocks under its indirect block.  *)
Loose(f, k) == habit.most > NDIRECT + 1 /\ ~Plenty(f, k)

(* Where file i of disk f, of n blocks, stands after asking j times of k   *)
(* for a block more.                                                       *)
Added(f, i, n, k, j, a) ==
  \/ /\ a.r = "ok" /\ NBlocksOf(a.fs, i) = n + j
     /\ Reached(f, a.fs, i) \/ (Loose(f, k) /\ n + j > NDIRECT)
     /\ n + j > NDIRECT => (a.fs \in Disks /\ a.fs.inode[i].indirect \in DataBlocks)
     /\ Plenty(f, k) =>
          Cardinality(a.fs.free) >= (k - j) + (IF n + j <= NDIRECT THEN 1 ELSE 0)
  \/ /\ a.r = "ENOSPC" /\ ~Plenty(f, k)
     /\ Reached(f, a.fs, i) /\ NBlocksOf(a.fs, i) \in n..NDIRECT
     /\ NBlocksOf(a.fs, i) <= n + k

LEMMA BoundedOn ==
  ASSUME NEW f, NEW g, NEW i \in Inos, Reached(f, g, i), Bounded(f), Count(g, i) <= habit.most
  PROVE  Bounded(g)
BY CountOther DEF Bounded, Reached

LEMMA ReachedType ==
  ASSUME NEW f, NEW g, NEW i \in Inos, Reached(f, g, i)
  PROVE  g \in Disks /\ Sound(g) /\ g.inode[i].ftype = f.inode[i].ftype
BY DEF Reached, Sound, SameFile

(* One more step of the loop that adds,                                    *)
LEMMA AddedStep ==
  ASSUME NEW f, Sound(f), Careful(habit), Bounded(f), NEW i \in Inos,
         f.inode[i].ftype # "symlink", NEW n \in Nat, NBlocksOf(f, i) = n,
         NEW k \in Nat, n + k <= habit.most, NEW j \in Nat, j < k,
         NEW a, Added(f, i, n, k, j, a), a.r = "ok"
  PROVE  Added(f, i, n, k, j + 1, AddBlock(a.fs, i))
<1> DEFINE g == a.fs
           m == n + j
           R == AddBlock(g, i)
           h == R.fs
           C == Cardinality(g.free)
<1>1. /\ NBlocksOf(g, i) = m
      /\ Reached(f, g, i) \/ (Loose(f, k) /\ m > NDIRECT)
      /\ m > NDIRECT => (g \in Disks /\ g.inode[i].indirect \in DataBlocks)
      /\ Plenty(f, k) => C >= (k - j) + (IF m <= NDIRECT THEN 1 ELSE 0)
  BY DEF Added
<1>2. /\ m \in Nat /\ m < habit.most /\ m < NDIRECT + BLKSIZE /\ (m + 2) * BLKSIZE <= UINT
      /\ m + 1 = n + (j + 1) /\ n <= m /\ m + 1 <= habit.most
  <2>1. m \in Nat /\ m < habit.most /\ m + 1 <= habit.most /\ m + 1 = n + (j + 1) /\ n <= m
    BY CarefulMeans
  <2>2. m < NDIRECT + BLKSIZE
    BY <2>1, CarefulMeans
  <2> QED BY <2>1, <2>2, CarefulMeans
<1>3. NDIRECT \in Nat /\ NDIRECT > 0 /\ habit.most \in Nat
  BY CarefulMeans
<1> HIDE DEF g, R, h, m
<1>4. ASSUME Loose(f, k), m > NDIRECT
      PROVE  Added(f, i, n, k, j + 1, R)
  <2>1. /\ AddBlock(g, i).r = "ok" /\ AddBlock(g, i).fs \in Disks
        /\ NBlocksOf(AddBlock(g, i).fs, i) = m + 1
        /\ AddBlock(g, i).fs.inode[i].indirect \in DataBlocks
    BY <1>1, <1>2, <1>4, AddLoose
  <2>2. n + (j + 1) > NDIRECT /\ ~Plenty(f, k)
    BY <1>2, <1>3, <1>4 DEF Loose
  <2>3. /\ R.r = "ok" /\ R.fs \in Disks /\ R.fs.inode[i].indirect \in DataBlocks
        /\ NBlocksOf(R.fs, i) = n + (j + 1)
    BY <1>2, <2>1 DEF R
  <2> HIDE DEF Loose, Plenty
  <2> QED BY <1>4, <2>2, <2>3 DEF Added
<1>5. ASSUME Reached(f, g, i), ~(Loose(f, k) /\ m > NDIRECT)
      PROVE  Added(f, i, n, k, j + 1, R)
  <2>1. Sound(g) /\ g \in Disks /\ g.inode[i].ftype # "symlink"
    BY <1>5, ReachedType
  <2>2. C \in Nat /\ ((g.free = {}) <=> (C = 0))
    BY <2>1, FreeFinite
  <2>3. Count(g, i) = m /\ Count(f, i) = n
    BY <1>1, <2>1 DEF Count
  <2>4. Bounded(g) /\ Fits(g)
    <3>1. Count(g, i) <= habit.most
      BY <1>2, <1>3, <2>3
    <3> QED BY <1>5, <2>1, <3>1, BoundedOn, BoundedFits
  <2>5. m <= NDIRECT \/ g.free # {}
    <3>1. CASE Plenty(f, k)
      BY <1>1, <1>2, <1>3, <2>2, <3>1
    <3>2. CASE ~Plenty(f, k)
      BY <1>2, <1>3, <1>5, <3>2 DEF Loose
    <3> QED BY <3>1, <3>2
  <2>6. \/ /\ R.r = "ok"
           /\ Larger(g, R.fs, i)
           /\ \/ \E b \in g.free : R.fs.free = g.free \ {b}
              \/ m = NDIRECT /\ \E b, c \in g.free : b # c /\ R.fs.free = g.free \ {b, c}
        \/ /\ m <= NDIRECT
           /\ g.free = {} \/ (m = NDIRECT /\ \E b : g.free = {b})
           /\ R.r = "ENOSPC"
           /\ Like(g, R.fs)
    BY <1>1, <1>2, <2>1, <2>5, AddStep DEF R
  <2>7. CASE /\ R.r = "ok"
             /\ Larger(g, R.fs, i)
             /\ \/ \E b \in g.free : R.fs.free = g.free \ {b}
                \/ m = NDIRECT /\ \E b, c \in g.free : b # c /\ R.fs.free = g.free \ {b, c}
    <3>1. Reached(g, R.fs, i)
      BY <2>1, <2>4, <2>7, LargerReached
    <3>2. Reached(f, R.fs, i)
      <4>1. f \in Disks /\ Count(f, i) <= Count(g, i)
        BY <1>2, <2>3 DEF Sound
      <4> QED BY <1>5, <3>1, <4>1, ReachedOn
    <3>3. NBlocksOf(R.fs, i) = n + (j + 1)
      BY <1>1, <1>2, <2>7 DEF Larger
    <3>4. R.fs \in Disks /\ Sound(R.fs) /\ R.fs.inode[i].ftype # "symlink"
      BY <3>2, ReachedType
    <3>5. n + (j + 1) > NDIRECT => R.fs.inode[i].indirect \in DataBlocks
      <4>1. Count(R.fs, i) = n + (j + 1)
        BY <3>3, <3>4 DEF Count
      <4>2. n + (j + 1) > NDIRECT => R.fs.inode[i].indirect \in DataBlocks \ R.fs.free
        BY <3>4, <4>1, SoundMeans
      <4> QED BY <4>2
    <3>6. Plenty(f, k) =>
            Cardinality(R.fs.free) >= (k - (j + 1)) + (IF n + (j + 1) <= NDIRECT THEN 1 ELSE 0)
      <4> SUFFICES ASSUME Plenty(f, k)
                   PROVE  Cardinality(R.fs.free) >=
                     (k - (j + 1)) + (IF n + (j + 1) <= NDIRECT THEN 1 ELSE 0)
        OBVIOUS
      <4>1. C >= (k - j) + (IF m <= NDIRECT THEN 1 ELSE 0)
        BY <1>1
      <4>2. Cardinality(R.fs.free) = C - 1 \/ (m = NDIRECT /\ Cardinality(R.fs.free) = C - 2)
        <5>1. /\ \A b \in g.free : Cardinality(g.free \ {b}) = C - 1
              /\ \A b, c \in g.free : b # c => Cardinality(g.free \ {b, c}) = C - 2
          BY <2>1, FreeFinite
        <5> HIDE DEF C
        <5>2. CASE \E b \in g.free : R.fs.free = g.free \ {b}
          BY <5>1, <5>2
        <5>3. CASE m = NDIRECT /\ \E b, c \in g.free : b # c /\ R.fs.free = g.free \ {b, c}
          <6>1. PICK b \in g.free, c \in g.free : b # c /\ R.fs.free = g.free \ {b, c}
            BY <5>3
          <6> QED BY <5>1, <5>3, <6>1
        <5> QED BY <2>7, <5>2, <5>3
      <4> HIDE DEF C
      <4> QED BY <1>2, <1>3, <2>2, <4>1, <4>2
    <3> QED BY <2>7, <3>2, <3>3, <3>4, <3>5, <3>6 DEF Added
  <2>8. CASE /\ m <= NDIRECT
             /\ g.free = {} \/ (m = NDIRECT /\ \E b : g.free = {b})
             /\ R.r = "ENOSPC"
             /\ Like(g, R.fs)
    <3>1. Reached(g, R.fs, i)
      BY <2>1, <2>4, <2>8, LikeReached
    <3>2. Reached(f, R.fs, i)
      <4>1. f \in Disks /\ Count(f, i) <= Count(g, i)
        BY <1>2, <2>3 DEF Sound
      <4> QED BY <1>5, <3>1, <4>1, ReachedOn
    <3>3. NBlocksOf(R.fs, i) = m
      BY <1>1, <2>1, <2>8, LikeSound
    <3>4. NBlocksOf(R.fs, i) \in n..NDIRECT /\ NBlocksOf(R.fs, i) <= n + k
      <4>1. m \in n..NDIRECT
        BY <1>2, <1>3, <2>8
      <4>2. m <= n + k
        BY DEF m
      <4> QED BY <3>3, <4>1, <4>2
    <3>5. ~Plenty(f, k)
      <4>1. SUFFICES ASSUME Plenty(f, k) PROVE FALSE
        OBVIOUS
      <4>2. C >= (k - j) + 1
        BY <1>1, <2>8, <4>1
      <4>3. C >= 2
        BY <2>2, <4>2
      <4>4. C = 0 \/ C = 1
        BY <2>2, <2>8, FS_Singleton
      <4> QED BY <4>3, <4>4
    <3> QED BY <2>8, <3>2, <3>4, <3>5 DEF Added
  <2> QED BY <2>6, <2>7, <2>8
<1>6. Added(f, i, n, k, j + 1, R)
  BY <1>1, <1>4, <1>5
<1> QED BY <1>6 DEF R, g

(* and all of them.                                                        *)
LEMMA Adds ==
  ASSUME NEW f, Sound(f), Careful(habit), Bounded(f), NEW i \in Inos,
         f.inode[i].ftype # "symlink", NEW n \in Nat, NBlocksOf(f, i) = n,
         NEW k \in Nat, n + k <= habit.most
  PROVE  Added(f, i, n, k, k, Repeat(AddBlock, f, i, k))
<1>1. PICK after : Repeat(AddBlock, f, i, k) = after[k] /\ Links(TRUE, f, i, after, k)
  BY RepeatAdd
<1> DEFINE S == {j \in Nat : j <= k => Added(f, i, n, k, j, after[j])}
<1>2. 0 \in S
  <2>1. after[0].r = "ok" /\ after[0].fs = f
    BY <1>1 DEF Links
  <2>2. Reached(f, f, i) /\ f \in Disks
    BY ReachedItself DEF Sound
  <2>3. Count(f, i) = n
    BY DEF Count
  <2>4. n > NDIRECT => f.inode[i].indirect \in DataBlocks
    <3>1. n > NDIRECT => f.inode[i].indirect \in DataBlocks \ f.free
      BY <2>3, SoundMeans
    <3> QED BY <3>1
  <2>5. Plenty(f, k) => Cardinality(f.free) >= (k - 0) + (IF n + 0 <= NDIRECT THEN 1 ELSE 0)
    <3>1. Cardinality(f.free) \in Nat
      BY <2>2, FreeFinite
    <3> QED BY <3>1 DEF Plenty
  <2>6. n + 0 = n
    OBVIOUS
  <2>7. Added(f, i, n, k, 0, after[0])
    BY <2>1, <2>2, <2>4, <2>5, <2>6 DEF Added
  <2> QED BY <2>7
<1>3. ASSUME NEW j \in S PROVE j + 1 \in S
  <2> SUFFICES ASSUME j + 1 <= k PROVE Added(f, i, n, k, j + 1, after[j + 1])
    OBVIOUS
  <2>1. j \in Nat /\ j < k /\ Added(f, i, n, k, j, after[j])
    OBVIOUS
  <2>2. after[j + 1] = IF after[j].r # "ok" THEN after[j] ELSE AddBlock(after[j].fs, i)
    <3>1. j + 1 \in 1..k /\ (j + 1) - 1 = j
      BY <2>1
    <3> QED BY <1>1, <3>1 DEF Links, Stepped
  <2>3. CASE after[j].r = "ok"
    <3>1. Added(f, i, n, k, j + 1, AddBlock(after[j].fs, i))
      BY <2>1, <2>3, AddedStep
    <3> QED BY <2>2, <2>3, <3>1
  <2>4. CASE after[j].r # "ok"
    BY <2>1, <2>2, <2>4 DEF Added
  <2> QED BY <2>3, <2>4
<1>4. S = Nat
  <2>1. S \in SUBSET Nat
    OBVIOUS
  <2> HIDE DEF S
  <2> QED BY <1>2, <1>3, <2>1, SetInduction
<1>5. Added(f, i, n, k, k, after[k])
  BY <1>4
<1> QED BY <1>1, <1>5

LEMMA RepeatNone ==
  ASSUME NEW f, NEW i
  PROVE  /\ Repeat(AddBlock, f, i, 0) = [fs |-> f, r |-> "ok"]
         /\ Repeat(RemoveBlock, f, i, 0) = [fs |-> f, r |-> "ok"]
<1>1. 0 \in Nat
  OBVIOUS
<1>2. PICK a : Repeat(AddBlock, f, i, 0) = a[0] /\ Links(TRUE, f, i, a, 0)
  BY <1>1, RepeatAdd
<1>3. PICK b : Repeat(RemoveBlock, f, i, 0) = b[0] /\ Links(FALSE, f, i, b, 0)
  BY <1>1, RepeatRemove
<1> QED BY <1>2, <1>3 DEF Links

---------------------------------------------------------------------------
(* change_size() that shrinks                                              *)

(* Where file i of disk f, of n blocks, stands after giving up j of them.  *)
Removed(f, i, n, j, a) ==
  a.r = "ok" /\ NBlocksOf(a.fs, i) = n - j /\ Reached(f, a.fs, i)

(* All the steps of the loop that removes.                                 *)
LEMMA Removes ==
  ASSUME NEW f, Sound(f), Careful(habit), Bounded(f), NEW i \in Inos,
         f.inode[i].ftype # "symlink", NEW n \in Nat, NBlocksOf(f, i) = n, n <= NDIRECT + 1,
         NEW k \in Nat, k <= n
  PROVE  Removed(f, i, n, k, Repeat(RemoveBlock, f, i, k))
<1>1. PICK after : Repeat(RemoveBlock, f, i, k) = after[k] /\ Links(FALSE, f, i, after, k)
  BY RepeatRemove
<1> DEFINE S == {j \in Nat : j <= k => Removed(f, i, n, j, after[j])}
<1>2. 0 \in S
  <2>1. after[0].r = "ok" /\ after[0].fs = f /\ n - 0 = n
    BY <1>1 DEF Links
  <2> QED BY <2>1, ReachedItself DEF Removed
<1>3. ASSUME NEW j \in S PROVE j + 1 \in S
  <2> SUFFICES ASSUME j + 1 <= k PROVE Removed(f, i, n, j + 1, after[j + 1])
    OBVIOUS
  <2> DEFINE g == after[j].fs
             R == RemoveBlock(g, i)
  <2>1. j \in Nat /\ j < k /\ Removed(f, i, n, j, after[j])
    OBVIOUS
  <2>2. after[j].r = "ok" /\ NBlocksOf(g, i) = n - j /\ Reached(f, g, i)
    BY <2>1 DEF Removed
  <2>3. after[j + 1] = R
    <3>1. j + 1 \in 1..k /\ (j + 1) - 1 = j
      BY <2>1
    <3> QED BY <1>1, <2>2, <3>1 DEF Links, Stepped
  <2> HIDE DEF g, R
  <2>4. Sound(g) /\ g \in Disks /\ g.inode[i].ftype # "symlink" /\ f \in Disks
    BY <2>2, ReachedType DEF Sound
  <2>5. n - j \in 1..NDIRECT + 1 /\ n - j <= n /\ (n - j) - 1 = n - (j + 1)
    BY <2>1, CarefulMeans
  <2>6. R.r = "ok" /\ Smaller(g, R.fs, i)
    BY <2>2, <2>4, <2>5, RemoveStep DEF R
  <2>7. Count(g, i) = n - j /\ Count(f, i) = n
    BY <2>2, <2>4 DEF Count
  <2>8. Fits(g)
    <3>1. n <= habit.most /\ habit.most \in Nat
      BY <2>7, CarefulMeans DEF Bounded
    <3>2. Count(g, i) <= habit.most
      BY <2>5, <2>7, <3>1, CarefulMeans
    <3>3. Bounded(g)
      BY <2>2, <3>2, BoundedOn
    <3> QED BY <2>4, <3>3, BoundedFits
  <2>9. Reached(g, R.fs, i)
    BY <2>4, <2>6, <2>8, SmallerReached
  <2>10. R.fs \in Disks /\ R.fs.inode[i].ftype # "symlink"
    BY <2>4, <2>9, ReachedType
  <2>11. NBlocksOf(R.fs, i) = n - (j + 1)
    <3>1. NBlocksOf(g, i) = NBlocksOf(R.fs, i) + 1 /\ NBlocksOf(R.fs, i) \in Nat
      BY <2>6, <2>10, CountType DEF Smaller
    <3> QED BY <2>2, <2>5, <3>1
  <2>12. Count(R.fs, i) <= Count(g, i)
    BY <2>1, <2>7, <2>10, <2>11 DEF Count
  <2>13. Reached(f, R.fs, i)
    BY <2>2, <2>4, <2>9, <2>12, ReachedOn
  <2> QED BY <2>3, <2>6, <2>11, <2>13 DEF Removed
<1>4. S = Nat
  <2>1. S \in SUBSET Nat
    OBVIOUS
  <2> HIDE DEF S
  <2> QED BY <1>2, <1>3, <2>1, SetInduction
<1>5. Removed(f, i, n, k, after[k])
  BY <1>4
<1> QED BY <1>1, <1>5

---------------------------------------------------------------------------
(* change_size() *)

LEMMA SameSound ==
  ASSUME NEW f, NEW g \in Disks, Sound(f), g.free = f.free,
         \A j \in Inos : Count(g, j) = Count(f, j),
         \A j \in Inos, s \in Slots : Held(g, j, s) = Held(f, j, s)
  PROVE  Sound(g)
<1>1. \A j \in Inos : Whole(f, j, Count(f, j))
  BY DEF Sound
<1>2. Apart(f) /\ Owned(f)
  BY DEF Sound
<1>3. \A j \in Inos : Whole(g, j, Count(g, j))
  BY <1>1 DEF Whole
<1>4. Apart(g)
  BY <1>2 DEF Apart
<1>5. Owned(g)
  BY <1>2 DEF Owned
<1> QED BY <1>3, <1>4, <1>5 DEF Sound

(* The size set as the end of change_size() sets it.                       *)
Resize(f, i, size) == [f EXCEPT !.inode[i].size = size]

LEMMA ResizeIs ==
  ASSUME NEW f, Sound(f), Careful(habit), NEW i \in Inos,
         NEW size \in 0..UINT - 1, NBlocks(size) = NBlocksOf(f, i)
  PROVE  /\ Sound(Resize(f, i, size))
         /\ Resize(f, i, size).inode[i] = Sizing(f.inode[i], size)
         /\ Resize(f, i, size).inode[i].size = size
         /\ NBlocksOf(Resize(f, i, size), i) = NBlocksOf(f, i)
         /\ Resize(f, i, size).free = f.free /\ Resize(f, i, size).disk = f.disk
         /\ \A j \in Inos, s \in Slots : Held(Resize(f, i, size), j, s) = Held(f, j, s)
         /\ \A j \in Inos : SameFile(f, Resize(f, i, size), j)
         /\ \A j \in Inos : j # i => Resize(f, i, size).inode[j] = f.inode[j]
<1> DEFINE o == f.inode[i]
           u == Sizing(o, size)
           g == Resize(f, i, size)
<1>1. f \in Disks
  BY DEF Sound
<1>2. o \in Inodes
  BY <1>1, Fields
<1>3. /\ u \in Inodes /\ u.size = size /\ u.ftype = o.ftype /\ u.nlink = o.nlink
      /\ u.direct = o.direct /\ u.indirect = o.indirect /\ u.indirect2 = o.indirect2
  <2>1. u = Sizing(o, size)
    OBVIOUS
  <2> HIDE DEF u, o
  <2> QED BY <1>2, <2>1, SizingIs
<1>4. g = Put(f, i, u)
  BY <1>1 DEF Put, Sizing, Disks, Resize
<1> HIDE DEF u, g
<1>5. /\ g \in Disks /\ g.free = f.free /\ g.disk = f.disk /\ g.inode[i] = u
      /\ \A j \in Inos : j # i => g.inode[j] = f.inode[j]
  BY <1>1, <1>3, <1>4, PutIs
<1>6. NBlocksOf(g, i) = NBlocksOf(f, i) /\ g.inode[i].size = size
  BY <1>3, <1>5 DEF NBlocksOf
<1>7. \A j \in Inos : Count(g, j) = Count(f, j)
  <2>1. Count(g, i) = Count(f, i)
    BY <1>3, <1>5, <1>6 DEF Count
  <2> QED BY <1>5, <2>1, CountOther
<1>8. ASSUME NEW j \in Inos, NEW s \in Slots PROVE Held(g, j, s) = Held(f, j, s)
  <2>1. f.inode[j].indirect \in Nat
    BY SoundMeans
  <2>2. /\ g.inode[j].direct = f.inode[j].direct
        /\ g.inode[j].indirect = f.inode[j].indirect
        /\ g.inode[j].indirect2 = f.inode[j].indirect2
    BY <1>3, <1>5
  <2> QED BY <1>5, <2>1, <2>2, HeldSame
<1>9. Sound(g)
  BY <1>5, <1>7, <1>8, SameSound
<1>10. \A j \in Inos : SameFile(f, g, j)
  BY <1>3, <1>5 DEF SameFile
<1> QED BY <1>5, <1>6, <1>8, <1>9, <1>10 DEF g, u

(* Setting the size within the last block.                                 *)
LEMMA ResizeReached ==
  ASSUME NEW f, NEW g, Careful(habit), NEW i \in Inos, Reached(f, g, i),
         NEW size \in 0..UINT - 1, NBlocks(size) = NBlocksOf(g, i)
  PROVE  Reached(f, Resize(g, i, size), i) /\ Resize(g, i, size).inode[i].size = size
<1> DEFINE h == Resize(g, i, size)
<1>1. Sound(g)
  BY DEF Reached
<1>2. /\ Sound(h) /\ h.inode[i].size = size /\ h.disk = g.disk
      /\ NBlocksOf(h, i) = NBlocksOf(g, i)
      /\ \A j \in Inos, s \in Slots : Held(h, j, s) = Held(g, j, s)
      /\ \A j \in Inos : SameFile(g, h, j)
      /\ \A j \in Inos : j # i => h.inode[j] = g.inode[j]
  BY <1>1, ResizeIs
<1> HIDE DEF h
<1>3. \A j \in Inos : SameFile(f, h, j)
  BY <1>2 DEF SameFile, Reached
<1>4. \A j \in Inos : Count(h, j) = Count(g, j)
  <2>1. Count(h, i) = Count(g, i)
    BY <1>2 DEF Count, SameFile
  <2> QED BY <1>2, <2>1, CountOther
<1>5. \A j \in Inos : \A k : Held(h, j, Place(k)) = Held(g, j, Place(k))
  <2> SUFFICES ASSUME NEW j \in Inos, NEW k PROVE Held(h, j, Place(k)) = Held(g, j, Place(k))
    OBVIOUS
  <2>1. /\ h.inode[j].direct = g.inode[j].direct /\ h.inode[j].indirect = g.inode[j].indirect
    <3>1. CASE j # i
      BY <1>2, <3>1
    <3>2. CASE j = i
      <4>1. g.inode[i] \in Inodes
        BY <1>1, Fields DEF Sound
      <4>2. h.inode[i] = Sizing(g.inode[i], size)
        BY <1>1, ResizeIs DEF h
      <4> QED BY <3>2, <4>1, <4>2, SizingIs
    <3> QED BY <3>1, <3>2
  <2> QED BY <1>2, <2>1 DEF Held, Place, Word
<1>6. Kept(f, h)
  BY <1>2, <1>4, <1>5 DEF Kept, Reached
<1>7. \A j \in Inos : j # i => (/\ h.inode[j] = f.inode[j]
                              /\ \A s \in Slots : Held(h, j, s) = Held(f, j, s))
  BY <1>2 DEF Reached
<1>8. Gained(f, h, i)
  <2>1. Gained(f, g, i) /\ Count(h, i) = Count(g, i)
    BY <1>4 DEF Reached
  <2> QED BY <1>2, <1>5, <2>1 DEF Gained
<1> QED BY <1>2, <1>3, <1>6, <1>7, <1>8 DEF Reached, h

---------------------------------------------------------------------------
(* change_size()                                                           *)

(* No file is larger than this run of the programs makes it.               *)
Capped(f) == \A j \in Inos : f.inode[j].size <= MaxSize

LEMMA SizeMeans ==
  ASSUME Careful(habit), NEW s \in Nat, s <= MaxSize
  PROVE  /\ s + BLKSIZE <= UINT /\ s \in 0..UINT - 1
         /\ NBlocks(s) \in Nat /\ NBlocks(s) <= habit.most
<1>1. habit.most \in Nat /\ BLKSIZE \in Nat /\ UINT \in Nat /\ BLKSIZE > 0
  BY CarefulMeans
<1> DEFINE x == habit.most * BLKSIZE
<1>2. x \in Nat /\ x + BLKSIZE <= UINT
  <2>1. (habit.most + 1) * BLKSIZE = x + BLKSIZE /\ x \in Nat
    BY <1>1
  <2> QED BY <2>1 DEF Careful
<1>3. s <= x
  BY DEF MaxSize
<1>4. s <= habit.most * BLKSIZE
  BY <1>3
<1> HIDE DEF x
<1>5. s + BLKSIZE <= UINT
  BY <1>1, <1>2, <1>3
<1> QED BY <1>1, <1>4, <1>5, CountOf, CountBound

(* Sizes that stay below the bound do not wrap.                            *)
LEMMA CappedMeans ==
  ASSUME NEW f \in Disks, Careful(habit), Capped(f)
  PROVE  /\ Bounded(f) /\ Fits(f)
         /\ \A j \in Inos : /\ f.inode[j].size \in Nat /\ f.inode[j].size <= MaxSize
                            /\ f.inode[j].size + BLKSIZE <= UINT
                            /\ NBlocksOf(f, j) \in Nat /\ NBlocksOf(f, j) <= habit.most
<1>1. ASSUME NEW j \in Inos
      PROVE  /\ f.inode[j].size \in Nat /\ f.inode[j].size <= MaxSize
             /\ f.inode[j].size + BLKSIZE <= UINT
             /\ NBlocksOf(f, j) \in Nat /\ NBlocksOf(f, j) <= habit.most
  <2>1. f.inode[j].size \in Nat /\ f.inode[j].size <= MaxSize
    BY CountType, SizeAssumption DEF Capped
  <2> QED BY <2>1, SizeMeans DEF NBlocksOf
<1>2. Bounded(f)
  BY <1>1, CarefulMeans DEF Bounded, Count
<1> QED BY <1>1, <1>2, BoundedFits

(* What change_size() does to a disk on which everything is in order.      *)
Resized(f, i, new_size, R) ==
  /\ Reached(f, R.fs, i)
  /\ R.r \in {"ok", "ENOSPC"}
  /\ R.r = "ok" => R.fs.inode[i].size = new_size
  /\ R.r = "ENOSPC" => (R.fs.inode[i].size = f.inode[i].size /\ NBlocksOf(f, i) <= NDIRECT)
  /\ Plenty(f, NBlocks(new_size) - NBlocksOf(f, i)) => R.r = "ok"

(* The disk may have room for what is asked, or the indirect block may     *)
(* have at most one block under it.                                        *)
Bearable(f, i, new_size) ==
  /\ NBlocks(new_size) > NBlocksOf(f, i) =>
       ~Loose(f, NBlocks(new_size) - NBlocksOf(f, i))
  /\ NBlocks(new_size) < NBlocksOf(f, i) => NBlocksOf(f, i) <= NDIRECT + 1

(* change_size() to more blocks,                                           *)
LEMMA Growing ==
  ASSUME NEW f, Sound(f), Careful(habit), Capped(f), NEW i \in Inos,
         f.inode[i].ftype # "symlink",
         NEW new_size \in Nat, new_size <= MaxSize, NBlocks(new_size) > NBlocksOf(f, i)
  PROVE  /\ ~Loose(f, NBlocks(new_size) - NBlocksOf(f, i)) =>
              Resized(f, i, new_size, ChangeSize(f, i, new_size))
         /\ ChangeSize(f, i, new_size).r = "ENOSPC" =>
              Resized(f, i, new_size, ChangeSize(f, i, new_size))
<1> DEFINE n == NBlocksOf(f, i)
           m == NBlocks(new_size)
           k == m - n
           old == f.inode[i].size
           up == Repeat(AddBlock, f, i, k)
           size == IF up.r = "ok" THEN new_size ELSE old
           q == NBlocksOf(up.fs, i)
           down == Repeat(RemoveBlock, up.fs, i, Excess(up.fs, i, size))
           R == ChangeSize(f, i, new_size)
<1>1. /\ f \in Disks /\ Bounded(f) /\ n \in Nat /\ n <= habit.most
      /\ old \in Nat /\ old <= MaxSize /\ habit.most \in Nat
  BY CappedMeans, CarefulMeans DEF Sound
<1>2. /\ m \in Nat /\ m <= habit.most /\ new_size \in 0..UINT - 1 /\ old \in 0..UINT - 1
      /\ NBlocks(old) = n
  BY <1>1, SizeMeans DEF NBlocksOf
<1>3. k \in Nat /\ k > 0 /\ n + k = m /\ n + k <= habit.most /\ Max({0, k}) = k
  <2> HIDE DEF m, n
  <2>1. k \in Nat /\ k > 0 /\ n + k = m /\ n + k <= habit.most
    BY <1>1, <1>2 DEF m, n
  <2> HIDE DEF k
  <2> QED BY <2>1, MaxWithZero
<1>4. Added(f, i, n, k, k, up)
  <2> HIDE DEF k
  <2> QED BY <1>1, <1>3, Adds
<1>5. /\ R.fs = Resize(down.fs, i, size)
      /\ R.r = IF down.r # "ok" THEN down.r ELSE up.r
  <2>1. R = Trimmed(up, i, size)
    BY <1>3 DEF ChangeSize, Sized
  <2> HIDE DEF R, up, size
  <2> QED BY <2>1 DEF Trimmed, Resize
<1> HIDE DEF R, up, down, n, m, k
<1>6. CASE up.r = "ok"
  <2>1. q = m /\ (Reached(f, up.fs, i) \/ Loose(f, k))
    BY <1>3, <1>4, <1>6 DEF Added
  <2>2. Excess(up.fs, i, size) = 0
    <3>1. NBlocksOf(up.fs, i) = m /\ NBlocks(size) = m
      BY <1>3, <1>4, <1>6 DEF Added, m
    <3>2. m - m = 0 /\ 0 \in Int
      BY <1>2
    <3> QED BY <3>1, <3>2, MaxWithZero DEF Excess
  <2>3. down = [fs |-> up.fs, r |-> "ok"]
    BY <2>2, RepeatNone DEF down
  <2>4. R.fs = Resize(up.fs, i, new_size) /\ R.r = "ok"
    BY <1>5, <1>6, <2>3
  <2>5. ~Loose(f, k) => Resized(f, i, new_size, R)
    <3> SUFFICES ASSUME ~Loose(f, k) PROVE Resized(f, i, new_size, R)
      OBVIOUS
    <3>1. Reached(f, up.fs, i)
      BY <1>4, <1>6 DEF Added
    <3>2. NBlocks(new_size) = NBlocksOf(up.fs, i)
      BY <1>3, <1>4, <1>6 DEF Added, m
    <3>3. Reached(f, R.fs, i) /\ R.fs.inode[i].size = new_size
      BY <1>2, <2>4, <3>1, <3>2, ResizeReached
    <3> QED BY <2>4, <3>3 DEF Resized
  <2> QED BY <2>4, <2>5 DEF R, k, m, n
<1>7. CASE up.r # "ok"
  <2>1. up.r = "ENOSPC" /\ ~Plenty(f, k) /\ Reached(f, up.fs, i) /\ q \in n..NDIRECT /\ size = old
    BY <1>4, <1>7 DEF Added
  <2>2. q \in Nat /\ q <= NDIRECT /\ n <= q /\ q - n \in Nat /\ q - n <= q /\ q <= NDIRECT + 1
        /\ n <= NDIRECT
    BY <1>1, <2>1, CarefulMeans
  <2>3. Excess(up.fs, i, size) = q - n
    <3>1. NBlocks(size) = n
      BY <1>2, <2>1
    <3> HIDE DEF q
    <3>2. q - n \in Int /\ Max({0, q - n}) = q - n
      <4> DEFINE d == q - n
      <4>1. d \in Int /\ (d > 0 \/ d = 0)
        BY <2>2
      <4> HIDE DEF d
      <4>2. Max({0, d}) = d
        BY <4>1, MaxWithZero
      <4> QED BY <4>1, <4>2 DEF d
    <3> QED BY <3>1, <3>2 DEF Excess, q
  <2>4. /\ Sound(up.fs) /\ up.fs \in Disks /\ up.fs.inode[i].ftype # "symlink"
    BY <2>1, ReachedType
  <2>5. Count(up.fs, i) = q /\ Count(f, i) = n
    BY <2>4 DEF Count, n
  <2>6. Bounded(up.fs)
    <3>1. q <= n + k
      BY <1>4, <1>7 DEF Added
    <3>2. q <= habit.most
      <4> HIDE DEF q
      <4> QED BY <1>1, <1>3, <2>2, <3>1 DEF n
    <3>3. Count(up.fs, i) <= habit.most
      BY <2>5, <3>2
    <3> QED BY <1>1, <2>1, <3>3, BoundedOn
  <2>7. /\ down.r = "ok" /\ NBlocksOf(down.fs, i) = q - (q - n) /\ Reached(up.fs, down.fs, i)
    <3> DEFINE d == q - n
    <3>1. down = Repeat(RemoveBlock, up.fs, i, d) /\ d \in Nat /\ d <= q
      BY <2>2, <2>3 DEF down
    <3>2. NBlocksOf(up.fs, i) = q
      OBVIOUS
    <3> HIDE DEF d, q
    <3>3. Removed(up.fs, i, q, d, down)
      BY <2>2, <2>4, <2>6, <3>1, <3>2, Removes
    <3> QED BY <3>3 DEF Removed, d
  <2>8. NBlocksOf(down.fs, i) = n
    BY <1>1, <2>2, <2>7 DEF n
  <2>9. down.fs.inode[i].ftype # "symlink"
    BY <2>4, <2>7, ReachedType
  <2>10. Reached(f, down.fs, i)
    <3>1. Count(f, i) <= Count(up.fs, i)
      BY <2>2, <2>5
    <3> QED BY <1>1, <2>1, <2>7, <3>1, ReachedOn
  <2>11. R.fs = Resize(down.fs, i, old) /\ R.r = "ENOSPC"
    BY <1>5, <1>7, <2>1, <2>7
  <2>12. Reached(f, R.fs, i) /\ R.fs.inode[i].size = old
    <3>1. NBlocks(old) = NBlocksOf(down.fs, i)
      BY <1>2, <2>8
    <3> QED BY <1>2, <2>10, <2>11, <3>1, ResizeReached
  <2>13. Resized(f, i, new_size, R)
    <3>1. ~Plenty(f, NBlocks(new_size) - NBlocksOf(f, i))
      BY <2>1 DEF k, m, n
    <3> QED BY <2>2, <2>11, <2>12, <3>1 DEF Resized, n
  <2> QED BY <2>13 DEF R
<1> QED BY <1>6, <1>7 DEF R, k, m, n

(* to fewer, of a file with at most one block under its indirect block,    *)
LEMMA Shrinking ==
  ASSUME NEW f, Sound(f), Careful(habit), Capped(f), NEW i \in Inos,
         f.inode[i].ftype # "symlink", NBlocksOf(f, i) <= NDIRECT + 1,
         NEW new_size \in Nat, new_size <= MaxSize, NBlocks(new_size) <= NBlocksOf(f, i)
  PROVE  /\ Resized(f, i, new_size, ChangeSize(f, i, new_size))
         /\ ChangeSize(f, i, new_size).r = "ok"
<1> DEFINE n == NBlocksOf(f, i)
           m == NBlocks(new_size)
           d == n - m
           down == Repeat(RemoveBlock, f, i, d)
           R == ChangeSize(f, i, new_size)
<1>1. /\ f \in Disks /\ Bounded(f) /\ n \in Nat /\ m \in Nat /\ new_size \in 0..UINT - 1
  BY CappedMeans, SizeMeans DEF Sound
<1>2. d \in Nat /\ d <= n /\ n - d = m /\ Max({0, d}) = d /\ Max({0, m - n}) = 0
  <2> HIDE DEF m, n
  <2>1. d \in Nat /\ d <= n /\ n - d = m /\ m - n \in Int /\ ~(m - n > 0)
    BY <1>1 DEF m, n
  <2> DEFINE e == m - n
  <2>2. d \in Int /\ e \in Int /\ ~(e > 0) /\ (d > 0 \/ d = 0)
    BY <2>1
  <2> HIDE DEF d, e
  <2>3. Max({0, d}) = d /\ Max({0, e}) = 0
    BY <2>2, MaxWithZero
  <2> QED BY <2>1, <2>3 DEF e
<1>3. R.fs = Resize(down.fs, i, new_size) /\ R.r = IF down.r # "ok" THEN down.r ELSE "ok"
  <2>1. Repeat(AddBlock, f, i, Max({0, m - n})) = [fs |-> f, r |-> "ok"]
    BY <1>2, RepeatNone
  <2>2. R = Trimmed([fs |-> f, r |-> "ok"], i, new_size)
    BY <2>1 DEF ChangeSize, Sized
  <2>3. Excess(f, i, new_size) = d
    BY <1>2 DEF Excess
  <2> HIDE DEF R, d
  <2> QED BY <2>2, <2>3 DEF Trimmed, Resize
<1> HIDE DEF R, down, d
<1>4. Removed(f, i, n, d, down)
  <2>1. NBlocksOf(f, i) = n /\ n <= NDIRECT + 1
    OBVIOUS
  <2> HIDE DEF n
  <2> QED BY <1>1, <1>2, <2>1, Removes DEF down
<1>5. down.r = "ok" /\ NBlocksOf(down.fs, i) = m /\ Reached(f, down.fs, i)
  BY <1>2, <1>4 DEF Removed
<1>6. Reached(f, R.fs, i) /\ R.fs.inode[i].size = new_size /\ R.r = "ok"
  BY <1>1, <1>3, <1>5, ResizeReached
<1> QED BY <1>6 DEF R, Resized

(* and within the last block.                                              *)
LEMMA Staying ==
  ASSUME NEW f, Sound(f), Careful(habit), Capped(f), NEW i \in Inos,
         f.inode[i].ftype # "symlink",
         NEW new_size \in Nat, new_size <= MaxSize, NBlocks(new_size) = NBlocksOf(f, i)
  PROVE  /\ Resized(f, i, new_size, ChangeSize(f, i, new_size))
         /\ ChangeSize(f, i, new_size).r = "ok"
<1> DEFINE R == ChangeSize(f, i, new_size)
<1>1. NBlocksOf(f, i) \in Nat /\ NBlocks(new_size) \in Nat /\ new_size \in 0..UINT - 1
  BY CappedMeans, SizeMeans DEF Sound
<1>2. /\ Max({0, NBlocks(new_size) - NBlocksOf(f, i)}) = 0
      /\ Excess(f, i, new_size) = 0
  <2>1. NBlocks(new_size) - NBlocksOf(f, i) = 0 /\ NBlocksOf(f, i) - NBlocks(new_size) = 0
    BY <1>1
  <2> QED BY <2>1, MaxWithZero DEF Excess
<1>3. R = Trimmed([fs |-> f, r |-> "ok"], i, new_size)
  BY <1>2, RepeatNone DEF ChangeSize, Sized
<1> HIDE DEF R
<1>4. R.fs = Resize(f, i, new_size) /\ R.r = "ok"
  BY <1>2, <1>3, RepeatNone DEF Trimmed, Resize
<1>5. Reached(f, R.fs, i) /\ R.fs.inode[i].size = new_size
  BY <1>1, <1>4, ReachedItself, ResizeReached
<1> QED BY <1>4, <1>5 DEF R, Resized

(* change_size(), wherever the disk can bear it.                           *)
LEMMA ChangeSizeIs ==
  ASSUME NEW f, Sound(f), Careful(habit), Capped(f), NEW i \in Inos,
         f.inode[i].ftype # "symlink",
         NEW new_size \in Nat, new_size <= MaxSize, Bearable(f, i, new_size)
  PROVE  Resized(f, i, new_size, ChangeSize(f, i, new_size))
<1>1. NBlocksOf(f, i) \in Nat /\ NBlocks(new_size) \in Nat /\ f \in Disks
  BY CappedMeans, SizeMeans DEF Sound
<1>2. CASE NBlocks(new_size) > NBlocksOf(f, i)
  BY <1>2, Growing DEF Bearable
<1>3. CASE NBlocks(new_size) < NBlocksOf(f, i)
  BY <1>1, <1>3, Shrinking DEF Bearable
<1>4. CASE NBlocks(new_size) = NBlocksOf(f, i)
  BY <1>4, Staying
<1> QED BY <1>1, <1>2, <1>3, <1>4

(* A file without blocks, a symbolic link for one, given the size 0.       *)
LEMMA Emptied ==
  ASSUME NEW f, NEW i \in Inos, NBlocksOf(f, i) = 0, f \in Disks, Careful(habit)
  PROVE  ChangeSize(f, i, 0).fs = Resize(f, i, 0) /\ ChangeSize(f, i, 0).r = "ok"
<1> DEFINE R == ChangeSize(f, i, 0)
<1>1. /\ Max({0, NBlocks(0) - NBlocksOf(f, i)}) = 0
      /\ Excess(f, i, 0) = 0
  <2>1. NBlocks(0) - NBlocksOf(f, i) = 0 /\ NBlocksOf(f, i) - NBlocks(0) = 0
    BY NoneForZero
  <2> QED BY <2>1, MaxWithZero DEF Excess
<1>2. R = Trimmed([fs |-> f, r |-> "ok"], i, 0)
  BY <1>1, RepeatNone DEF ChangeSize, Sized
<1> HIDE DEF R
<1>3. R.fs = Resize(f, i, 0) /\ R.r = "ok"
  BY <1>1, <1>2, RepeatNone DEF Trimmed, Resize
<1> QED BY <1>3 DEF R

---------------------------------------------------------------------------
(* change_size() when the disk is full                                     *)

(* A disk of which no more is known than that it is one: remove_block()    *)
(* never reports a full disk.                                              *)
Shaped(f) ==
  /\ f = [free |-> f.free, disk |-> f.disk, inode |-> f.inode]
  /\ f.inode \in [Inos -> Inodes]

LEMMA ShapedFreed ==
  ASSUME NEW f, Shaped(f), NEW b
  PROVE  Shaped(Freed(f, b))
<1> DEFINE g == [f EXCEPT !.free = @ \cup {b}]
<1>1. f = [free |-> f.free, disk |-> f.disk, inode |-> f.inode] /\ f.inode \in [Inos -> Inodes]
  BY DEF Shaped
<1>2. g = [free |-> g.free, disk |-> g.disk, inode |-> g.inode] /\ g.inode = f.inode
  BY <1>1
<1>3. Shaped(g)
  BY <1>1, <1>2 DEF Shaped
<1>4. Freed(f, b) = g \/ Freed(f, b) = f
  BY DEF Freed
<1> QED BY <1>3, <1>4

LEMMA ShapedStored ==
  ASSUME NEW f, Shaped(f), NEW b, NEW w, NEW n
  PROVE  Shaped(Stored(f, b, w, n))
<1> DEFINE g == Stored(f, b, w, n)
<1>1. f = [free |-> f.free, disk |-> f.disk, inode |-> f.inode] /\ f.inode \in [Inos -> Inodes]
  BY DEF Shaped
<1>2. g = [free |-> g.free, disk |-> g.disk, inode |-> g.inode] /\ g.inode = f.inode
  BY <1>1 DEF Stored
<1> QED BY <1>1, <1>2 DEF Shaped

LEMMA ShapedShrunk ==
  ASSUME NEW f, Shaped(f), NEW i \in Inos
  PROVE  Shrunk(f, i).r = "ok" /\ Shaped(Shrunk(f, i).fs)
<1> DEFINE o == f.inode[i]
           s == (o.size - BLKSIZE) % UINT
           u == Sizing(o, s)
           g == [f EXCEPT !.inode[i].size = (@ - BLKSIZE) % UINT]
<1>1. f = [free |-> f.free, disk |-> f.disk, inode |-> f.inode] /\ f.inode \in [Inos -> Inodes]
  BY DEF Shaped
<1>2. o \in Inodes
  BY <1>1
<1>3. s \in 0..UINT - 1
  <2>1. o.size \in Int /\ BLKSIZE \in Nat /\ UINT \in Nat /\ UINT > 0
    BY <1>2, SizeAssumption DEF Inodes
  <2> QED BY <2>1
<1>4. u \in Inodes
  <2>1. u = Sizing(o, s)
    OBVIOUS
  <2> HIDE DEF u, o, s
  <2> QED BY <1>2, <1>3, <2>1, SizingIs
<1>5. /\ g = [free |-> g.free, disk |-> g.disk, inode |-> g.inode]
      /\ g.inode = [f.inode EXCEPT ![i] = u]
  BY <1>1 DEF Sizing
<1> HIDE DEF g, u
<1>6. g.inode \in [Inos -> Inodes]
  BY <1>1, <1>4, <1>5
<1> QED BY <1>5, <1>6 DEF Shaped, Shrunk, g

LEMMA ShapedPut ==
  ASSUME NEW f, Shaped(f), NEW i \in Inos, NEW n
  PROVE  /\ Shaped([f EXCEPT !.inode[i].indirect = 0])
         /\ Shaped([f EXCEPT !.inode[i].indirect2 = 0])
         /\ Shaped([f EXCEPT !.inode[i].direct[n] = 0])
<1>1. f = [free |-> f.free, disk |-> f.disk, inode |-> f.inode] /\ f.inode \in [Inos -> Inodes]
  BY DEF Shaped
<1>2. f.inode[i] \in Inodes
  BY <1>1
<1>3. ASSUME NEW oi \in Inodes
      PROVE  Shaped([f EXCEPT !.inode[i] = oi])
  <2> DEFINE g == [f EXCEPT !.inode[i] = oi]
  <2>1. /\ g = [free |-> g.free, disk |-> g.disk, inode |-> g.inode]
        /\ g.inode = [f.inode EXCEPT ![i] = oi]
    BY <1>1
  <2>2. [f.inode EXCEPT ![i] = oi] \in [Inos -> Inodes]
    BY <1>1
  <2> HIDE DEF g
  <2>3. Shaped(g)
    BY <2>1, <2>2 DEF Shaped
  <2> QED BY <2>3 DEF g
<1>4. /\ [f.inode[i] EXCEPT !.indirect = 0] \in Inodes
      /\ [f.inode[i] EXCEPT !.indirect2 = 0] \in Inodes
      /\ [f.inode[i] EXCEPT !.direct[n] = 0] \in Inodes
  BY <1>2 DEF Inodes
<1>5. /\ [f EXCEPT !.inode[i].indirect = 0] = [f EXCEPT !.inode[i] =
           [f.inode[i] EXCEPT !.indirect = 0]]
      /\ [f EXCEPT !.inode[i].indirect2 = 0] = [f EXCEPT !.inode[i] =
           [f.inode[i] EXCEPT !.indirect2 = 0]]
      /\ [f EXCEPT !.inode[i].direct[n] = 0] = [f EXCEPT !.inode[i] =
           [f.inode[i] EXCEPT !.direct[n] = 0]]
  BY <1>1
<1> QED BY <1>3, <1>4, <1>5

(* remove_block() never says that the disk is full,                        *)
LEMMA RemoveShaped ==
  ASSUME NEW f, Shaped(f), NEW i \in Inos
  PROVE  LET R == RemoveBlock(f, i)
         IN R.r \in {"ok", "EIO"} /\ (R.r = "ok" => Shaped(R.fs))
<1> DEFINE n == NBlocks(f.inode[i].size)
           R == RemoveBlock(f, i)
           Fine(T) == T.r \in {"ok", "EIO"} /\ (T.r = "ok" => Shaped(T.fs))
<1>1. n \in Nat /\ NDIRECT \in Nat /\ BLKSIZE \in Nat
  <2>1. f.inode[i].size \in 0..UINT - 1
    BY DEF Shaped, Inodes
  <2> QED BY <2>1, RoundedType, SizeAssumption
<1>2. \A e : Fine(Failed(e, "EIO"))
  BY DEF Failed
<1>3. \A e : Shaped(e) => Fine(Shrunk(e, i))
  BY ShapedShrunk
<1>4. CASE n = 0
  <2>1. n \notin 1..NDIRECT /\ n \notin (NDIRECT + 1)..(NDIRECT + BLKSIZE)
          /\ ~(n > NDIRECT + BLKSIZE)
    BY <1>1, <1>4
  <2>2. R = [fs |-> f, r |-> "ok"]
    BY <1>4, <2>1 DEF RemoveBlock
  <2> HIDE DEF R
  <2>3. Fine(R)
    BY <2>2
  <2> QED BY <2>3 DEF R
<1>5. CASE n \in 1..NDIRECT
  <2> DEFINE b == f.inode[i].direct[n - 1]
  <2>1. R = IF b = 0 THEN Failed(f, "EIO")
            ELSE Shrunk([Freed(f, b) EXCEPT !.inode[i].direct[n - 1] = 0], i)
    <3>1. n # 0 /\ n \notin (NDIRECT + 1)..(NDIRECT + BLKSIZE) /\ ~(n > NDIRECT + BLKSIZE)
      BY <1>1, <1>5
    <3> QED BY <1>5, <3>1 DEF RemoveBlock
  <2>2. Shaped([Freed(f, b) EXCEPT !.inode[i].direct[n - 1] = 0])
    BY ShapedFreed, ShapedPut
  <2> HIDE DEF R, Fine, b
  <2>3. Fine(R)
    BY <1>2, <1>3, <2>1, <2>2
  <2> QED BY <2>3 DEF Fine, R
<1>6. CASE n \in (NDIRECT + 1)..(NDIRECT + BLKSIZE)
  <2> DEFINE c == f.inode[i].indirect
             w == DirectIndex(n - 1)
             g == Stored(Freed(f, Word(f, c, w)), c, w, 0)
  <2>1. R = RemoveIndirect(f, i, n - 1)
    BY <1>1, <1>6 DEF RemoveBlock
  <2>2. R = Shrunk([Freed(g, c) EXCEPT !.inode[i].indirect = 0], i)
    BY <2>1 DEF RemoveIndirect
  <2>3. Shaped([Freed(g, c) EXCEPT !.inode[i].indirect = 0])
    BY ShapedFreed, ShapedStored, ShapedPut
  <2> HIDE DEF R, Fine, g, c, w
  <2>4. Fine(R)
    BY <1>3, <2>2, <2>3
  <2> QED BY <2>4 DEF Fine, R
<1>7. CASE n > NDIRECT + BLKSIZE
  <2> DEFINE last == n - 1
             c == f.inode[i].indirect2
             indN == Word(f, c, IndirIndex(last))
             blockN == Word(f, indN, DirectIndex(last))
             g == Stored(Freed(f, blockN), indN, DirectIndex(last), 0)
             h == Stored(Freed(g, indN), c, IndirIndex(last), 0)
  <2>1. R = RemoveIndirect2(f, i, last)
    BY <1>1, <1>7 DEF RemoveBlock
  <2>2. \/ R = Failed(f, "EIO")
        \/ R = Shrunk(g, i)
        \/ R = Shrunk(h, i)
        \/ R = Shrunk([Freed(h, c) EXCEPT !.inode[i].indirect2 = 0], i)
    BY <2>1 DEF RemoveIndirect2
  <2>3. Shaped(g) /\ Shaped(h)
    BY ShapedFreed, ShapedStored
  <2> HIDE DEF R, Fine, g, h, c
  <2>4. Shaped([Freed(h, c) EXCEPT !.inode[i].indirect2 = 0])
    BY <2>3, ShapedFreed, ShapedPut
  <2>5. Fine(R)
    BY <1>2, <1>3, <2>2, <2>3, <2>4
  <2> QED BY <2>5 DEF Fine, R
<1> QED BY <1>1, <1>4, <1>5, <1>6, <1>7

(* nor does the loop that removes.                                         *)
LEMMA RemovesShaped ==
  ASSUME NEW f \in Disks, NEW i \in Inos, NEW k \in Nat
  PROVE  Repeat(RemoveBlock, f, i, k).r # "ENOSPC"
<1>1. PICK after : Repeat(RemoveBlock, f, i, k) = after[k] /\ Links(FALSE, f, i, after, k)
  BY RepeatRemove
<1> DEFINE P(j) == /\ after[j].r \in {"ok", "EIO"}
                   /\ after[j].r = "ok" => Shaped(after[j].fs)
           S == {j \in Nat : j <= k => P(j)}
<1>2. 0 \in S
  <2>1. after[0].r = "ok" /\ after[0].fs = f
    BY <1>1 DEF Links
  <2>2. Shaped(f)
    BY DEF Disks, Shaped
  <2> QED BY <2>1, <2>2
<1>3. ASSUME NEW j \in S PROVE j + 1 \in S
  <2> SUFFICES ASSUME j + 1 <= k PROVE P(j + 1)
    OBVIOUS
  <2>1. j \in Nat /\ j < k /\ P(j)
    OBVIOUS
  <2>2. after[j + 1] = IF after[j].r # "ok" THEN after[j] ELSE RemoveBlock(after[j].fs, i)
    <3>1. j + 1 \in 1..k /\ (j + 1) - 1 = j
      BY <2>1
    <3> QED BY <1>1, <3>1 DEF Links, Stepped
  <2>3. CASE after[j].r = "ok"
    <3> DEFINE g == after[j].fs
               R == RemoveBlock(g, i)
    <3>1. Shaped(g) /\ after[j + 1] = R
      BY <2>1, <2>2, <2>3
    <3> HIDE DEF g
    <3>2. R.r \in {"ok", "EIO"} /\ (R.r = "ok" => Shaped(R.fs))
      BY <3>1, RemoveShaped
    <3> QED BY <3>1, <3>2
  <2>4. CASE after[j].r # "ok"
    BY <2>1, <2>2, <2>4
  <2> QED BY <2>3, <2>4
<1>4. S = Nat
  <2>1. S \in SUBSET Nat
    OBVIOUS
  <2> HIDE DEF S
  <2> QED BY <1>2, <1>3, <2>1, SetInduction
<1>5. after[k].r \in {"ok", "EIO"}
  BY <1>4
<1> QED BY <1>1, <1>5

(* A disk reached from another on which the file has its old size has the  *)
(* old inodes and free blocks.                                             *)
LEMMA BackAgain ==
  ASSUME NEW f, NEW g, Sound(f), Careful(habit), Capped(f), NEW i \in Inos,
         Reached(f, g, i), f.inode[i].ftype # "symlink",
         g.inode[i].size = f.inode[i].size, NBlocksOf(f, i) <= NDIRECT
  PROVE  g.free = f.free /\ g.inode = f.inode
<1> DEFINE n == NBlocksOf(f, i)
<1>1. f \in Disks /\ g \in Disks /\ Sound(g) /\ n \in Nat /\ NDIRECT \in Nat
  BY ReachedType, CappedMeans, CarefulMeans DEF Sound
<1>2. /\ \A j \in Inos : j # i => (g.inode[j] = f.inode[j]
           /\ \A s \in Slots : Held(g, j, s) = Held(f, j, s))
      /\ g.inode[i].ftype = f.inode[i].ftype /\ g.inode[i].nlink = f.inode[i].nlink
      /\ Kept(f, g)
  BY DEF Reached, SameFile
<1>3. Count(f, i) = n /\ Count(g, i) = n
  BY <1>2 DEF Count, NBlocksOf
<1> HIDE DEF n
<1>4. \A k \in 0..NDIRECT - 1 : g.inode[i].direct[k] = f.inode[i].direct[k]
  <2> SUFFICES ASSUME NEW k \in 0..NDIRECT - 1 PROVE g.inode[i].direct[k] = f.inode[i].direct[k]
    OBVIOUS
  <2>1. CASE k < n
    <3>1. k \in Nat /\ Place(k) = <<"direct", k>>
      BY <1>1 DEF Place
    <3>2. Held(g, i, <<"direct", k>>) = Held(f, i, <<"direct", k>>)
      BY <1>2, <1>3, <2>1, <3>1 DEF Kept
    <3> QED BY <3>2, HeldIs
  <2>2. CASE ~(k < n)
    BY <1>1, <1>3, <2>2, SoundMeans
  <2> QED BY <2>1, <2>2
<1>5. /\ g.inode[i].indirect = 0 /\ f.inode[i].indirect = 0
      /\ g.inode[i].indirect2 = 0 /\ f.inode[i].indirect2 = 0
  <2>1. n <= NDIRECT
    BY DEF n
  <2> QED BY <1>1, <1>3, <2>1, SoundMeans
<1>6. g.inode[i] = f.inode[i]
  <2> DEFINE o == f.inode[i]
             p == g.inode[i]
  <2>1. o \in Inodes /\ p \in Inodes
    BY <1>1, Fields
  <2>2. /\ p.size = o.size /\ p.ftype = o.ftype /\ p.nlink = o.nlink
        /\ p.indirect = o.indirect /\ p.indirect2 = o.indirect2
        /\ \A k \in 0..NDIRECT - 1 : p.direct[k] = o.direct[k]
    BY <1>2, <1>4, <1>5
  <2> HIDE DEF o, p
  <2>3. p.direct = o.direct
    <3>1. p.direct \in [0..NDIRECT - 1 -> Nat] /\ o.direct \in [0..NDIRECT - 1 -> Nat]
      BY <2>1 DEF Inodes
    <3> DEFINE d == p.direct
               e == o.direct
               D == 0..NDIRECT - 1
    <3>2. \A k \in D : d[k] = e[k]
      BY <2>2
    <3>3. d \in [D -> Nat] /\ e \in [D -> Nat]
      BY <3>1
    <3> HIDE DEF d, e, D
    <3>4. d = e
      BY <3>2, <3>3
    <3> QED BY <3>4 DEF d, e
  <2>4. p = o
    BY <2>1, <2>2, <2>3 DEF Inodes
  <2> QED BY <2>4 DEF o, p
<1>7. g.inode = f.inode
  <2>1. g.inode \in [Inos -> Inodes] /\ f.inode \in [Inos -> Inodes]
    BY <1>1, Fields
  <2>2. \A j \in Inos : g.inode[j] = f.inode[j]
    BY <1>2, <1>6
  <2> QED BY <2>1, <2>2
<1>8. \A j \in Inos, s \in Slots : Held(g, j, s) = Held(f, j, s)
  <2> SUFFICES ASSUME NEW s \in Slots PROVE Held(g, i, s) = Held(f, i, s)
    BY <1>2
  <2>1. CASE \E k \in Index : s = <<"under", k>>
    <3>1. /\ f.inode[i].indirect \in Nat /\ g.inode[i].indirect \in Nat
      BY <1>5
    <3> QED BY <1>5, <2>1, <3>1, HeldIs
  <2>2. CASE ~\E k \in Index : s = <<"under", k>>
    BY <1>6, <2>2, SlotIs, HeldIs
  <2> QED BY <2>1, <2>2
<1>9. ASSUME NEW x, NEW y, Sound(x), Sound(y), \A j \in Inos, s \in Slots : Held(x, j, s) =
        Held(y, j, s)
      PROVE  x.free \subseteq y.free
  <2> SUFFICES ASSUME NEW b \in x.free, b \notin y.free PROVE FALSE
    OBVIOUS
  <2>1. x.free \subseteq DataBlocks
    BY <1>9, Fields DEF Sound
  <2>2. PICK j \in Inos, s \in Slots : Held(y, j, s) = b
    BY <1>9, <2>1 DEF Sound, Owned
  <2>3. Held(x, j, s) = b /\ b # 0
    BY <1>9, <2>1, <2>2, DataRange
  <2>4. Held(x, j, s) \notin x.free
    BY <1>9, <2>3 DEF Sound, Whole
  <2> QED BY <2>3, <2>4
<1>10. g.free = f.free
  <2>1. g.free \subseteq f.free
    BY <1>1, <1>8, <1>9
  <2>2. f.free \subseteq g.free
    <3>1. \A j \in Inos, s \in Slots : Held(f, j, s) = Held(g, j, s)
      BY <1>8
    <3> QED BY <1>1, <1>9, <3>1
  <2> QED BY <2>1, <2>2
<1> QED BY <1>7, <1>10

(* change_size() that fails for want of blocks leaves bitmap and inodes as *)
(* they were.                                                              *)
LEMMA NoTrace ==
  ASSUME NEW f, Sound(f), Careful(habit), Capped(f), NEW i \in Inos,
         f.inode[i].ftype # "symlink", NEW size \in Sizes,
         ChangeSize(f, i, size).r = "ENOSPC"
  PROVE  /\ ChangeSize(f, i, size).fs.free = f.free
         /\ ChangeSize(f, i, size).fs.inode = f.inode
<1> DEFINE R == ChangeSize(f, i, size)
           n == NBlocksOf(f, i)
           m == NBlocks(size)
<1>1. /\ f \in Disks /\ n \in Nat /\ size \in Nat /\ size <= MaxSize
  <2>1. MaxSize \in Int
    BY CarefulMeans DEF MaxSize
  <2> QED BY <2>1, CappedMeans DEF Sound, Sizes
<1>2. m \in Nat
  BY <1>1, SizeMeans
<1>3. CASE m > n
  <2>1. Resized(f, i, size, R)
    BY <1>1, <1>3, Growing
  <2>2. Reached(f, R.fs, i) /\ R.fs.inode[i].size = f.inode[i].size /\ n <= NDIRECT
    BY <2>1 DEF Resized
  <2> HIDE DEF R
  <2>3. R.fs.free = f.free /\ R.fs.inode = f.inode
    BY <2>2, BackAgain
  <2> QED BY <2>3 DEF R
<1>4. CASE m = n
  BY <1>1, <1>4, Staying
<1>5. CASE m < n
  <2>1. Max({0, m - n}) = 0
    <3> DEFINE d == m - n
    <3>1. d \in Int /\ ~(d > 0)
      BY <1>1, <1>2, <1>5
    <3> HIDE DEF d
    <3>2. Max({0, d}) = 0
      BY <3>1, MaxWithZero
    <3> QED BY <3>2 DEF d
  <2>2. R = Trimmed([fs |-> f, r |-> "ok"], i, size)
    BY <2>1, RepeatNone DEF ChangeSize, Sized
  <2> DEFINE k == Excess(f, i, size)
  <2>3. k \in Nat
    <3> DEFINE d == n - m
    <3>1. d \in Int
      BY <1>1, <1>2
    <3>2. k = Max({0, d})
      BY DEF Excess
    <3> HIDE DEF d, k
    <3>3. k = IF d > 0 THEN d ELSE 0
      BY <3>1, <3>2, MaxWithZero
    <3> QED BY <3>1, <3>3
  <2> HIDE DEF R, k
  <2>4. R.r = IF Repeat(RemoveBlock, f, i, k).r # "ok" THEN Repeat(RemoveBlock, f, i, k).r ELSE "ok"
    BY <2>2 DEF Trimmed, k
  <2>5. R.r # "ENOSPC"
    BY <1>1, <2>3, <2>4, RemovesShaped
  <2> QED BY <2>5 DEF R
<1> QED BY <1>1, <1>2, <1>3, <1>4, <1>5

---------------------------------------------------------------------------
(* Blocks and words of a file                                              *)

(* ospfs_inode_blockno() gives the block in its slot for a word below the  *)
(* size.                                                                   *)
LEMMA BlocknoIs ==
  ASSUME NEW f, Sound(f), Careful(habit), Capped(f), NEW i \in Inos,
         f.inode[i].ftype # "symlink", NEW off \in Nat, off < f.inode[i].size
  PROVE  /\ (off \div BLKSIZE) \in Nat /\ (off \div BLKSIZE) < Count(f, i)
         /\ Blockno(f, i, off) = Held(f, i, Place(off \div BLKSIZE))
         /\ Blockno(f, i, off) \in DataBlocks \ f.free
<1> DEFINE k == off \div BLKSIZE
           o == f.inode[i]
<1>1. /\ f \in Disks /\ Fits(f) /\ o.size \in Nat /\ o.size + BLKSIZE <= UINT
  BY CappedMeans DEF Sound
<1>2. k \in Nat /\ k < NBlocks(o.size)
  BY <1>1, OffsetBelow
<1>3. Count(f, i) = NBlocks(o.size) /\ Count(f, i) \in Nat
  BY <1>1, CountType DEF Count, NBlocksOf
<1>4. k < Count(f, i) /\ k < NDIRECT + BLKSIZE /\ NDIRECT \in Nat /\ BLKSIZE \in Nat
  <2> HIDE DEF k, o
  <2>1. k < Count(f, i) /\ Count(f, i) <= NDIRECT + BLKSIZE /\ NDIRECT \in Nat /\ BLKSIZE \in Nat
    BY <1>1, <1>2, <1>3, CarefulMeans DEF Fits
  <2> QED BY <1>2, <1>3, <2>1
<1>5. Place(k) \in Slots /\ Place(k) \in Used(Count(f, i))
  <2> HIDE DEF k
  <2>1. Count(f, i) <= NDIRECT + BLKSIZE
    BY <1>1 DEF Fits
  <2> QED BY <1>2, <1>3, <1>4, <2>1, PlaceUsed
<1>6. Held(f, i, Place(k)) \in DataBlocks \ f.free
  BY <1>5 DEF Sound, Whole
<1>7. ~(off >= o.size) /\ ~(k - NDIRECT - BLKSIZE >= 0)
  <2>1. ~(off >= o.size)
    BY <1>1
  <2> HIDE DEF k
  <2> QED BY <1>2, <1>4, <2>1
<1>8. Blockno(f, i, off) = IF k >= NDIRECT THEN Word(f, o.indirect, k - NDIRECT) ELSE o.direct[k]
  <2>1. ~(off >= o.size \/ o.ftype = "symlink")
    BY <1>7
  <2> QED BY <1>7, <2>1 DEF Blockno
<1>9. Blockno(f, i, off) = Held(f, i, Place(k))
  <2> HIDE DEF k, o
  <2>1. CASE k < NDIRECT
    <3>1. ~(k >= NDIRECT) /\ Place(k) = <<"direct", k>>
      BY <1>2, <1>4, <2>1 DEF Place
    <3> QED BY <1>8, <3>1, HeldIs DEF o
  <2>2. CASE ~(k < NDIRECT)
    <3>1. k >= NDIRECT /\ Place(k) = <<"under", k - NDIRECT>> /\ Count(f, i) > NDIRECT
      BY <1>2, <1>3, <1>4, <2>2 DEF Place
    <3>2. o.indirect \in DataBlocks \ f.free
      BY <3>1, SoundMeans DEF o
    <3>3. o.indirect # 0
      BY <3>2, DataRange
    <3>4. Held(f, i, <<"under", k - NDIRECT>>) = Word(f, o.indirect, k - NDIRECT)
      BY <3>3 DEF Held, o
    <3> QED BY <1>8, <3>1, <3>4
  <2> QED BY <2>1, <2>2
<1> QED BY <1>2, <1>4, <1>6, <1>9

LEMMA EveryBlockThereIs ==
  ASSUME Sound(fs), Careful(habit), Capped(fs)
  PROVE  EveryBlockThere
<1> SUFFICES ASSUME NEW i \in WithBlocks, NEW b \in 0..(NBlocksOf(fs, i) - 1)
             PROVE  Blockno(fs, i, b * BLKSIZE) \in DataBlocks \ fs.free
  BY DEF EveryBlockThere
<1>1. i \in Inos /\ fs.inode[i].ftype # "symlink" /\ fs \in Disks
  BY DEF WithBlocks, Sound
<1>2. /\ fs.inode[i].size \in Nat /\ fs.inode[i].size + BLKSIZE <= UINT /\ NBlocksOf(fs, i) \in Nat
  BY <1>1, CappedMeans
<1>3. b \in Nat /\ b < NBlocks(fs.inode[i].size)
  BY <1>2 DEF NBlocksOf
<1>4. b * BLKSIZE \in Nat /\ b * BLKSIZE < fs.inode[i].size
  BY <1>2, <1>3, FirstOfBlock
<1> QED BY <1>1, <1>4, BlocknoIs

---------------------------------------------------------------------------
(* Steps that touch no block number                                        *)

(* An inode that changes neither its pointers nor its count of blocks.     *)
LEMMA PutSound ==
  ASSUME NEW f, Sound(f), Careful(habit), NEW i \in Inos, NEW oi \in Inodes,
         oi.direct = f.inode[i].direct, oi.indirect = f.inode[i].indirect,
         oi.indirect2 = f.inode[i].indirect2,
         (IF oi.ftype = "symlink" THEN 0 ELSE NBlocks(oi.size)) = Count(f, i)
  PROVE  /\ Sound(Put(f, i, oi))
         /\ \A j \in Inos, s \in Slots : Held(Put(f, i, oi), j, s) = Held(f, j, s)
         /\ \A j \in Inos : Count(Put(f, i, oi), j) = Count(f, j)
         /\ Put(f, i, oi).free = f.free /\ Put(f, i, oi).disk = f.disk
         /\ Put(f, i, oi).inode[i] = oi
         /\ \A j \in Inos : j # i => Put(f, i, oi).inode[j] = f.inode[j]
<1> DEFINE g == Put(f, i, oi)
<1>1. /\ f \in Disks /\ g \in Disks /\ g.free = f.free /\ g.disk = f.disk
      /\ g.inode[i] = oi /\ \A j \in Inos : j # i => g.inode[j] = f.inode[j]
  BY PutIs DEF Sound
<1> HIDE DEF g
<1>2. \A j \in Inos : Count(g, j) = Count(f, j)
  <2>1. Count(g, i) = Count(f, i)
    BY <1>1 DEF Count, NBlocksOf
  <2> QED BY <1>1, <2>1, CountOther
<1>3. ASSUME NEW j \in Inos, NEW s \in Slots PROVE Held(g, j, s) = Held(f, j, s)
  <2>1. f.inode[j].indirect \in Nat
    BY SoundMeans
  <2>2. /\ g.inode[j].direct = f.inode[j].direct
        /\ g.inode[j].indirect = f.inode[j].indirect
        /\ g.inode[j].indirect2 = f.inode[j].indirect2
    BY <1>1
  <2> QED BY <1>1, <2>1, <2>2, HeldSame
<1>4. Sound(g)
  BY <1>1, <1>2, <1>3, SameSound
<1> QED BY <1>1, <1>2, <1>3, <1>4 DEF g

(* Disk g is disk f but for what one block of a file holds.                *)
Scribbled(f, g, b) ==
  /\ g \in Disks /\ g.free = f.free /\ g.inode = f.inode
  /\ \A c \in 0..NBLOCKS + 2 : c # b => g.disk[c] = f.disk[c]

(* Writing into a block of a file leaves the disk sound.                   *)
LEMMA ScribbledSound ==
  ASSUME NEW f, Sound(f), Careful(habit), Fits(f), NEW i \in Inos,
         NEW k \in Nat, k < Count(f, i), NEW g, Scribbled(f, g, Held(f, i, Place(k)))
  PROVE  /\ Sound(g)
         /\ \A j \in Inos, s \in Slots : Held(g, j, s) = Held(f, j, s)
         /\ \A j \in Inos : Count(g, j) = Count(f, j)
<1> DEFINE b == Held(f, i, Place(k))
<1>1. f \in Disks /\ Count(f, i) \in Nat
  BY CountType DEF Sound
<1>2. Place(k) \in Slots /\ Place(k) \in Used(Count(f, i)) /\ Place(k) # <<"indirect", 0>>
  BY <1>1, PlaceUsed DEF Fits
<1>3. b # 0
  BY <1>2, DataRange DEF Sound, Whole
<1>4. \A j \in Inos : f.inode[j].indirect # b
  <2> SUFFICES ASSUME NEW j \in Inos, f.inode[j].indirect = b PROVE FALSE
    OBVIOUS
  <2>1. Held(f, j, <<"indirect", 0>>) = b /\ <<"indirect", 0>> \in Slots
    BY HeldIs, SlotsAre
  <2>2. Apart(f)
    BY DEF Sound
  <2> QED BY <1>2, <1>3, <2>1, <2>2 DEF Apart
<1> HIDE DEF b
<1>5. /\ g \in Disks /\ g.free = f.free /\ g.inode = f.inode
      /\ \A c \in 0..NBLOCKS + 2 : c # b => g.disk[c] = f.disk[c]
  BY DEF Scribbled, b
<1>6. ASSUME NEW j \in Inos, NEW s \in Slots PROVE Held(g, j, s) = Held(f, j, s)
  <2>1. f.inode[j].indirect \in Nat
    BY SoundMeans
  <2>2. f.inode[j].indirect # 0 => g.disk[f.inode[j].indirect] = f.disk[f.inode[j].indirect]
    <3> SUFFICES ASSUME f.inode[j].indirect # 0
                 PROVE  g.disk[f.inode[j].indirect] = f.disk[f.inode[j].indirect]
      OBVIOUS
    <3>1. f.inode[j].indirect \in DataBlocks \ f.free
      <4>1. Count(f, j) \in Nat /\ NDIRECT \in Nat
        BY <1>1, CountType, CarefulMeans
      <4>2. Count(f, j) > NDIRECT \/ Count(f, j) <= NDIRECT
        BY <4>1
      <4> QED BY <4>2, SoundMeans
    <3>2. f.inode[j].indirect \in 0..NBLOCKS + 2
      BY <3>1, DataRange
    <3> QED BY <1>4, <1>5, <3>2
  <2> QED BY <1>5, <2>1, <2>2, HeldSame
<1>7. \A j \in Inos : Count(g, j) = Count(f, j)
  BY <1>5, CountOther
<1>8. Sound(g)
  BY <1>5, <1>6, <1>7, SameSound
<1> QED BY <1>6, <1>7, <1>8
=============================================================================
