---------------------------- MODULE OspfsProofs ---------------------------
(***************************************************************************)
(* Proofs about Lab3's file system, for disks, blocks, inodes, names and   *)
(* processes of any number, and for any habits of the programs that are    *)
(* Careful: every variable keeps its type, every block is accounted for    *)
(* and every block of a file is there, a change of size that fails leaves  *)
(* no trace, reads and writes touch the right blocks, a listing of the     *)
(* directory gives what stays, and what the programs see is what           *)
(* FileSystem says.  The argument is one inductive invariant, IInv; every  *)
(* operation leads to a disk that Follows the one it found.                *)
(***************************************************************************)
EXTENDS OspfsBlockProofs, SequenceTheorems

---------------------------------------------------------------------------
(* The directory *)

(* The inodes that names may stand for.                                    *)
Files == Inos \ {0, ROOT_INO}

(* Inode 0 is nobody's, inode 1 the directory; a free inode has no blocks. *)
Rooted(f) ==
  /\ f.inode[0].ftype = "reg" /\ f.inode[0].nlink = 1 /\ f.inode[0].size = 0
  /\ f.inode[ROOT_INO].ftype = "dir" /\ f.inode[ROOT_INO].nlink = 1
  /\ \A i \in Files : f.inode[i].ftype # "dir" /\ (f.inode[i].nlink = 0 => f.inode[i].size = 0)

(* The entries that name inode i.                                          *)
NamedIn(f, i) == {off \in EntryOffsets(f) : Entry(f, off).n = i}

(* Entries name files, no two of them by the same name, and a file has as  *)
(* many entries as links.                                                  *)
Named(f) ==
  /\ \A off \in EntryOffsets(f) :
       Entry(f, off).n = 0 \/ (Entry(f, off).n \in Files /\ Entry(f, off).name \in Names)
  /\ \A off, other \in EntryOffsets(f) :
       (/\ Entry(f, off).n # 0 /\ Entry(f, other).n # 0
        /\ Entry(f, off).name = Entry(f, other).name) => off = other
  /\ \A i \in Files : Cardinality(NamedIn(f, i)) = f.inode[i].nlink

(* Everything but the names.                                               *)
Orderly(f) == Sound(f) /\ Capped(f) /\ Rooted(f)

LEMMA InosAre ==
  /\ 0 \in Inos /\ ROOT_INO \in Inos /\ ROOT_INO # 0
  /\ \A i \in Files : i \in Inos /\ i # 0 /\ i # ROOT_INO /\ i \in Nat
BY SizeAssumption DEF Inos, ROOT_INO, Files

(* An entry lies in a block of the directory.                              *)
LEMMA EntryIs ==
  ASSUME NEW f, Sound(f), Careful(habit), Capped(f), f.inode[ROOT_INO].ftype # "symlink",
         NEW off \in EntryOffsets(f)
  PROVE  /\ off \in Nat /\ (off \div BLKSIZE) \in Nat /\ (off \div BLKSIZE) < Count(f, ROOT_INO)
         /\ EntryBlock(f, off) = Held(f, ROOT_INO, Place(off \div BLKSIZE))
         /\ EntryBlock(f, off) \in DataBlocks \ f.free
         /\ (off % BLKSIZE) \in Index
         /\ Entry(f, off) \in Cells
<1>1. /\ f \in Disks /\ f.inode[ROOT_INO].size \in Nat
  BY CappedMeans, InosAre DEF Sound
<1>2. off \in Nat /\ off < f.inode[ROOT_INO].size
  BY <1>1 DEF EntryOffsets
<1>3. /\ (off \div BLKSIZE) \in Nat /\ (off \div BLKSIZE) < Count(f, ROOT_INO)
      /\ EntryBlock(f, off) = Held(f, ROOT_INO, Place(off \div BLKSIZE))
      /\ EntryBlock(f, off) \in DataBlocks \ f.free
  BY <1>2, InosAre, BlocknoIs DEF EntryBlock
<1>4. (off % BLKSIZE) \in Index
  BY <1>2, DivMod
<1>5. Entry(f, off) \in Cells
  <2> DEFINE b == EntryBlock(f, off)
             w == off % BLKSIZE
  <2>1. b \in 0..NBLOCKS + 2 /\ w \in Index
    BY <1>3, <1>4, DataRange
  <2> HIDE DEF b, w
  <2>2. f.disk[b][w] \in Cells
    BY <1>1, <2>1, Fields
  <2> QED BY <2>2 DEF Entry, b, w
<1> QED BY <1>2, <1>3, <1>4, <1>5

(* A directory whose blocks are kept has its entries still.                *)
LEMMA EntriesAre ==
  ASSUME NEW f, NEW g, Sound(f), Sound(g), Careful(habit), Capped(f), Capped(g),
         f.inode[ROOT_INO].ftype # "symlink", g.inode[ROOT_INO].ftype # "symlink",
         f.inode[ROOT_INO].size <= g.inode[ROOT_INO].size,
         \A k \in Nat : (k < Count(f, ROOT_INO) /\ k < Count(g, ROOT_INO)) =>
           /\ Held(g, ROOT_INO, Place(k)) = Held(f, ROOT_INO, Place(k))
           /\ g.disk[Held(f, ROOT_INO, Place(k))] = f.disk[Held(f, ROOT_INO, Place(k))]
  PROVE  /\ EntryOffsets(f) \subseteq EntryOffsets(g)
         /\ \A off \in EntryOffsets(f) : Entry(g, off) = Entry(f, off)
<1>1. /\ f.inode[ROOT_INO].size \in Nat /\ g.inode[ROOT_INO].size \in Nat
  BY CappedMeans, InosAre DEF Sound
<1>2. EntryOffsets(f) \subseteq EntryOffsets(g)
  BY <1>1 DEF EntryOffsets
<1>3. ASSUME NEW off \in EntryOffsets(f) PROVE Entry(g, off) = Entry(f, off)
  <2> DEFINE k == off \div BLKSIZE
  <2>1. k \in Nat /\ k < Count(f, ROOT_INO) /\ EntryBlock(f, off) = Held(f, ROOT_INO, Place(k))
    BY EntryIs
  <2>2. off \in EntryOffsets(g)
    BY <1>2
  <2>3. k < Count(g, ROOT_INO) /\ EntryBlock(g, off) = Held(g, ROOT_INO, Place(k))
    BY <2>2, EntryIs
  <2> HIDE DEF k
  <2> QED BY <2>1, <2>3 DEF Entry
<1> QED BY <1>2, <1>3

LEMMA ReachedEntries ==
  ASSUME NEW f, NEW g, NEW i \in Inos, Careful(habit), Sound(f), Reached(f, g, i), Capped(f),
    Capped(g),
         f.inode[ROOT_INO].ftype # "symlink",
         f.inode[ROOT_INO].size <= g.inode[ROOT_INO].size
  PROVE  /\ EntryOffsets(f) \subseteq EntryOffsets(g)
         /\ \A off \in EntryOffsets(f) : Entry(g, off) = Entry(f, off)
<1>1. Sound(g) /\ g.inode[ROOT_INO].ftype # "symlink"
  BY InosAre DEF Reached, SameFile
<1>2. \A k \in Nat : (k < Count(f, ROOT_INO) /\ k < Count(g, ROOT_INO)) =>
        /\ Held(g, ROOT_INO, Place(k)) = Held(f, ROOT_INO, Place(k))
        /\ g.disk[Held(f, ROOT_INO, Place(k))] = f.disk[Held(f, ROOT_INO, Place(k))]
  BY InosAre DEF Reached, Kept
<1> QED BY <1>1, <1>2, EntriesAre

LEMMA SameDirectory ==
  ASSUME NEW f, NEW g, Sound(f), Sound(g), Careful(habit), Capped(f), Capped(g),
         f.inode[ROOT_INO].ftype # "symlink",
         g.inode[ROOT_INO].ftype = f.inode[ROOT_INO].ftype,
         g.inode[ROOT_INO].size = f.inode[ROOT_INO].size, g.disk = f.disk,
         \A s \in Slots : Held(g, ROOT_INO, s) = Held(f, ROOT_INO, s)
  PROVE  /\ EntryOffsets(g) = EntryOffsets(f)
         /\ \A off \in EntryOffsets(f) : Entry(g, off) = Entry(f, off)
<1>1. f \in Disks /\ Fits(f) /\ f.inode[ROOT_INO].size \in Nat
  BY CappedMeans, InosAre DEF Sound
<1>2. ASSUME NEW k \in Nat, k < Count(f, ROOT_INO)
      PROVE  Held(g, ROOT_INO, Place(k)) = Held(f, ROOT_INO, Place(k))
  <2>1. Place(k) \in Slots
    BY <1>1, <1>2, InosAre, CountType, PlaceUsed DEF Fits
  <2> QED BY <2>1
<1>3. \A off \in EntryOffsets(f) : Entry(g, off) = Entry(f, off)
  BY <1>1, <1>2, EntriesAre
<1> QED BY <1>3 DEF EntryOffsets

(* What storing an entry does.                                             *)
LEMMA SetEntryIs ==
  ASSUME NEW f, Sound(f), Careful(habit), Capped(f), f.inode[ROOT_INO].ftype # "symlink",
         NEW off \in EntryOffsets(f), NEW n \in Nat, NEW name \in Names \cup {NoName}
  PROVE  /\ Sound(SetEntry(f, off, n, name)) /\ Capped(SetEntry(f, off, n, name))
         /\ SetEntry(f, off, n, name).inode = f.inode
         /\ SetEntry(f, off, n, name).free = f.free
         /\ \A j \in Inos, s \in Slots : Held(SetEntry(f, off, n, name), j, s) = Held(f, j, s)
         /\ \A j \in Inos : Count(SetEntry(f, off, n, name), j) = Count(f, j)
         /\ \A c \in 0..NBLOCKS + 2 : c # EntryBlock(f, off) =>
              SetEntry(f, off, n, name).disk[c] = f.disk[c]
         /\ EntryOffsets(SetEntry(f, off, n, name)) = EntryOffsets(f)
         /\ \A other \in EntryOffsets(f) : Entry(SetEntry(f, off, n, name), other) =
              IF other = off THEN [n |-> n, name |-> name] ELSE Entry(f, other)
<1> DEFINE g == SetEntry(f, off, n, name)
           b == EntryBlock(f, off)
           w == off % BLKSIZE
           k == off \div BLKSIZE
           cell == [n |-> n, name |-> name]
<1>1. /\ f \in Disks /\ Fits(f)
      /\ off \in Nat /\ k \in Nat /\ k < Count(f, ROOT_INO)
      /\ b = Held(f, ROOT_INO, Place(k)) /\ b \in DataBlocks \ f.free /\ w \in Index
  BY CappedMeans, EntryIs DEF Sound
<1>2. b \in 0..NBLOCKS + 2 /\ cell \in Cells
  BY <1>1, DataRange DEF Cells
<1>3. g = [f EXCEPT !.disk[b][w] = cell]
  BY DEF SetEntry
<1> HIDE DEF g, b, w, k, cell
<1>4. /\ g \in Disks /\ g.free = f.free /\ g.inode = f.inode
      /\ \A c \in 0..NBLOCKS + 2 : c # b => g.disk[c] = f.disk[c]
      /\ g.disk[b][w] = cell
      /\ \A v \in Index : v # w => g.disk[b][v] = f.disk[b][v]
  BY <1>1, <1>2, <1>3 DEF Disks
<1>5. Scribbled(f, g, Held(f, ROOT_INO, Place(k)))
  BY <1>1, <1>4 DEF Scribbled
<1>6. /\ Sound(g)
      /\ \A j \in Inos, s \in Slots : Held(g, j, s) = Held(f, j, s)
      /\ \A j \in Inos : Count(g, j) = Count(f, j)
  BY <1>1, <1>5, InosAre, ScribbledSound
<1>7. Capped(g) /\ EntryOffsets(g) = EntryOffsets(f) /\ g.inode[ROOT_INO].ftype # "symlink"
  BY <1>4 DEF Capped, EntryOffsets
<1>8. ASSUME NEW other \in EntryOffsets(f)
      PROVE  Entry(g, other) = IF other = off THEN cell ELSE Entry(f, other)
  <2> DEFINE m == other \div BLKSIZE
             v == other % BLKSIZE
             c == EntryBlock(f, other)
  <2>1. /\ other \in Nat /\ m \in Nat /\ m < Count(f, ROOT_INO) /\ v \in Index
        /\ c = Held(f, ROOT_INO, Place(m)) /\ c \in DataBlocks \ f.free
    BY EntryIs
  <2>2. EntryBlock(g, other) = Held(g, ROOT_INO, Place(m))
    BY <1>6, <1>7, EntryIs
  <2>3. \A l \in Nat : l < Count(f, ROOT_INO) => Place(l) \in Slots
    BY <1>1, InosAre, CountType, PlaceUsed DEF Fits
  <2>4. EntryBlock(g, other) = c
    BY <1>6, <2>1, <2>2, <2>3, InosAre
  <2>5. other = m * BLKSIZE + v /\ off = k * BLKSIZE + w
    BY <1>1, <2>1, DivMod DEF k, w
  <2>6. c \in 0..NBLOCKS + 2 /\ c # 0
    BY <2>1, DataRange
  <2>7. Entry(g, other) = g.disk[c][v] /\ Entry(f, other) = f.disk[c][v]
    BY <2>4 DEF Entry
  <2>8. other = off => m = k /\ v = w
    BY DEF k, w
  <2> HIDE DEF m, v, c
  <2>9. CASE c = b
    <3>1. Place(m) = Place(k)
      <4>1. Held(f, ROOT_INO, Place(m)) = Held(f, ROOT_INO, Place(k))
              /\ Held(f, ROOT_INO, Place(m)) # 0
        BY <1>1, <2>1, <2>6, <2>9
      <4>2. Apart(f) /\ Place(m) \in Slots /\ Place(k) \in Slots
        BY <1>1, <2>1, <2>3 DEF Sound
      <4> QED BY <4>1, <4>2, InosAre DEF Apart
    <3>2. m = k
      BY <3>1, <1>1, <2>1, CarefulMeans DEF Place
    <3>3. other = off <=> v = w
      BY <2>5, <2>8, <3>2
    <3> QED BY <1>4, <2>1, <2>7, <2>9, <3>3
  <2>10. CASE c # b
    <3>1. other # off
      <4>1. SUFFICES ASSUME other = off PROVE FALSE
        OBVIOUS
      <4> QED BY <4>1, <2>10 DEF b, c
    <3> QED BY <1>4, <2>6, <2>7, <2>10, <3>1
  <2> QED BY <2>9, <2>10
<1> QED BY <1>4, <1>6, <1>7, <1>8 DEF g, cell, b

(* A name that stays in the directory stays at its place.                  *)
EntriesFollow(f, g) ==
  \A off \in EntryOffsets(f) :
    /\ off \in EntryOffsets(g)
    /\ Entry(f, off).n # 0 =>
         \/ Entry(g, off) = Entry(f, off)
         \/ Entry(g, off).n = 0 /\ Entry(f, off).name \notin NamesIn(g)

LEMMA OffsetsFinite ==
  ASSUME NEW f \in Disks
  PROVE  \A i : IsFiniteSet(NamedIn(f, i))
<1>1. f.inode[ROOT_INO].size \in Nat
  BY Fields, InosAre, SizeAssumption DEF Inodes
<1>2. f.inode[ROOT_INO].size - 1 \in Int /\ 0 \in Int
  BY <1>1
<1>3. IsFiniteSet(EntryOffsets(f))
  BY <1>2, FS_Interval DEF EntryOffsets
<1>4. \A i : NamedIn(f, i) \subseteq EntryOffsets(f)
  BY DEF NamedIn
<1> QED BY <1>3, <1>4, FS_Subset

(* The names are right if none changes,                                    *)
LEMMA NamedSame ==
  ASSUME NEW f, NEW g, Named(f),
         EntryOffsets(g) = EntryOffsets(f),
         \A off \in EntryOffsets(f) : Entry(g, off) = Entry(f, off),
         \A i \in Files : g.inode[i].nlink = f.inode[i].nlink
  PROVE  Named(g) /\ EntriesFollow(f, g)
<1>1. \A i : NamedIn(g, i) = NamedIn(f, i)
  BY DEF NamedIn
<1> QED BY <1>1 DEF Named, EntriesFollow

(* if one is added with a link counted more,                               *)
LEMMA NamedMore ==
  ASSUME NEW f \in Disks, NEW g, Named(f), NEW off, NEW ino \in Files, NEW name \in Names,
         EntryOffsets(g) = EntryOffsets(f) \cup {off},
         off \in EntryOffsets(f) => Entry(f, off).n = 0,
         \A other \in EntryOffsets(f) \ {off} : Entry(g, other) = Entry(f, other),
         Entry(g, off) = [n |-> ino, name |-> name],
         ~Exists(f, name),
         \A i \in Files : g.inode[i].nlink =
           IF i = ino THEN f.inode[i].nlink + 1 ELSE f.inode[i].nlink
  PROVE  Named(g) /\ EntriesFollow(f, g)
<1>1. Entry(g, off).n = ino /\ Entry(g, off).name = name /\ ino # 0
  BY InosAre
<1>2. ASSUME NEW other \in EntryOffsets(f), Entry(f, other).n # 0
      PROVE  Entry(f, other).name # name /\ other # off
  <2>1. Entry(f, other).n \in Nat /\ Entry(f, other).n > 0
    BY <1>2, InosAre DEF Named
  <2> QED BY <1>2, <2>1 DEF Exists, Matches
<1>3. \A other \in EntryOffsets(g) : Entry(g, other).n = 0
        \/ (Entry(g, other).n \in Files /\ Entry(g, other).name \in Names)
  BY <1>1 DEF Named
<1>4. \A a, b \in EntryOffsets(g) :
        (Entry(g, a).n # 0 /\ Entry(g, b).n # 0 /\ Entry(g, a).name = Entry(g, b).name) => a = b
  BY <1>1, <1>2 DEF Named
<1>5. ASSUME NEW i \in Files PROVE Cardinality(NamedIn(g, i)) = g.inode[i].nlink
  <2>1. off \notin NamedIn(f, i) /\ IsFiniteSet(NamedIn(f, i))
          /\ Cardinality(NamedIn(f, i)) = f.inode[i].nlink
    BY OffsetsFinite, InosAre DEF NamedIn, Named
  <2>2. CASE i = ino
    <3>1. NamedIn(g, i) = NamedIn(f, i) \cup {off}
      BY <1>1, <2>1, <2>2 DEF NamedIn
    <3>2. Cardinality(NamedIn(f, i) \cup {off}) = Cardinality(NamedIn(f, i)) + 1
      BY <2>1, FS_AddElement
    <3> QED BY <2>1, <2>2, <3>1, <3>2
  <2>3. CASE i # ino
    <3>1. NamedIn(g, i) = NamedIn(f, i)
      BY <1>1, <2>1, <2>3 DEF NamedIn
    <3> QED BY <2>1, <2>3, <3>1
  <2> QED BY <2>2, <2>3
<1>6. EntriesFollow(f, g)
  BY <1>2 DEF EntriesFollow
<1> QED BY <1>3, <1>4, <1>5, <1>6 DEF Named

(* and if one goes with a link counted less.                               *)
LEMMA NamedLess ==
  ASSUME NEW f \in Disks, NEW g, Named(f), NEW off \in EntryOffsets(f), NEW ino \in Files,
         EntryOffsets(g) = EntryOffsets(f),
         Entry(f, off).n = ino, Entry(g, off).n = 0,
         \A other \in EntryOffsets(f) \ {off} : Entry(g, other) = Entry(f, other),
         \A i \in Files : g.inode[i].nlink =
           IF i = ino THEN f.inode[i].nlink - 1 ELSE f.inode[i].nlink
  PROVE  Named(g) /\ EntriesFollow(f, g)
<1>1. ino # 0
  BY InosAre
<1>2. \A other \in EntryOffsets(g) : Entry(g, other).n = 0
        \/ (Entry(g, other).n \in Files /\ Entry(g, other).name \in Names)
  BY DEF Named
<1>3. \A a, b \in EntryOffsets(g) :
        (Entry(g, a).n # 0 /\ Entry(g, b).n # 0 /\ Entry(g, a).name = Entry(g, b).name) => a = b
  BY DEF Named
<1>4. ASSUME NEW i \in Files PROVE Cardinality(NamedIn(g, i)) = g.inode[i].nlink
  <2>1. IsFiniteSet(NamedIn(f, i)) /\ Cardinality(NamedIn(f, i)) = f.inode[i].nlink
    BY OffsetsFinite DEF Named
  <2>2. CASE i = ino
    <3>1. NamedIn(g, i) = NamedIn(f, i) \ {off} /\ off \in NamedIn(f, i)
      BY <1>1, <2>2 DEF NamedIn
    <3>2. Cardinality(NamedIn(f, i) \ {off}) = Cardinality(NamedIn(f, i)) - 1
      BY <2>1, <3>1, FS_RemoveElement
    <3> QED BY <2>1, <2>2, <3>1, <3>2
  <2>3. CASE i # ino
    <3>1. NamedIn(g, i) = NamedIn(f, i)
      BY <2>1, <2>3, InosAre DEF NamedIn
    <3> QED BY <2>1, <2>3, <3>1
  <2> QED BY <2>2, <2>3
<1>5. Entry(f, off).name \notin NamesIn(g)
  <2> SUFFICES ASSUME NEW other \in EntryOffsets(g), Entry(g, other).n # 0,
                      Entry(g, other).name = Entry(f, off).name
               PROVE  FALSE
    BY DEF NamesIn
  <2>1. other # off /\ Entry(g, other) = Entry(f, other)
    OBVIOUS
  <2> QED BY <1>1, <2>1 DEF Named
<1>6. EntriesFollow(f, g)
  BY <1>5 DEF EntriesFollow
<1> QED BY <1>2, <1>3, <1>4, <1>6 DEF Named

---------------------------------------------------------------------------
(* create_blank_direntry() *)

(* A change of size leaves the rest of the disk in order.                  *)
LEMMA OrderlyOn ==
  ASSUME NEW f, NEW g, NEW i \in Inos, Careful(habit), Orderly(f), Reached(f, g, i),
         i # 0, g.inode[i].size <= MaxSize,
         i # ROOT_INO => (f.inode[i].nlink = 0 => g.inode[i].size = 0)
  PROVE  Orderly(g)
<1>1. /\ Sound(g) /\ \A j \in Inos : j # i => g.inode[j] = f.inode[j]
      /\ \A j \in Inos : g.inode[j].ftype = f.inode[j].ftype /\ g.inode[j].nlink = f.inode[j].nlink
  BY DEF Reached, SameFile
<1>2. Capped(g)
  BY <1>1 DEF Orderly, Capped
<1>3. Rooted(g)
  BY <1>1, InosAre DEF Orderly, Rooted
<1> QED BY <1>1, <1>2, <1>3 DEF Orderly

LEMMA GrowBearable ==
  ASSUME NEW f \in Disks, Careful(habit), Capped(f), NEW i \in Inos,
         NEW size \in Nat, size <= MaxSize, f.inode[i].size <= size,
         ~Loose(f, NBlocks(size) - NBlocksOf(f, i))
  PROVE  Bearable(f, i, size)
<1>1. NBlocksOf(f, i) <= NBlocks(size) /\ NBlocksOf(f, i) \in Nat /\ NBlocks(size) \in Nat
  BY CappedMeans, SizeMeans, CountMonotone DEF NBlocksOf
<1> QED BY <1>1 DEF Bearable

(* Disk g is disk f with room for an entry at off.                         *)
Blanked(f, g, off) ==
  /\ Orderly(g) /\ Reached(f, g, ROOT_INO) /\ f.inode[ROOT_INO].size <= g.inode[ROOT_INO].size
  /\ EntryOffsets(g) = EntryOffsets(f) \cup {off}
  /\ off \in EntryOffsets(f) => Entry(f, off).n = 0
  /\ \A other \in EntryOffsets(f) : Entry(g, other) = Entry(f, other)

(* create_blank_direntry() gives an empty entry, or fails with the         *)
(* directory as it was.                                                    *)
LEMMA BlankDirentryIs ==
  ASSUME NEW f, Careful(habit), Orderly(f),
         f.inode[ROOT_INO].size + 1 <= MaxSize,
         ~Loose(f, NBlocks(f.inode[ROOT_INO].size + 1) - NBlocksOf(f, ROOT_INO))
  PROVE  /\ BlankDirentry(f).r = "ok" => Blanked(f, BlankDirentry(f).fs, BlankDirentry(f).off)
         /\ BlankDirentry(f).r # "ok" =>
              /\ Orderly(BlankDirentry(f).fs) /\ Reached(f, BlankDirentry(f).fs, ROOT_INO)
              /\ BlankDirentry(f).fs.inode[ROOT_INO].size = f.inode[ROOT_INO].size
<1> DEFINE blank == {off \in EntryOffsets(f) : Entry(f, off).n = 0}
           end == f.inode[ROOT_INO].size
           longer == ChangeSize(f, ROOT_INO, end + 1)
           R == BlankDirentry(f)
<1>1. /\ Sound(f) /\ Capped(f) /\ Rooted(f) /\ f \in Disks /\ end \in Nat
      /\ f.inode[ROOT_INO].ftype # "symlink"
  BY CappedMeans, InosAre DEF Orderly, Sound, Rooted
<1>2. CASE blank # {}
  <2>1. R = [fs |-> f, r |-> "ok", off |-> Min(blank)]
    BY <1>2 DEF BlankDirentry
  <2>2. blank \in SUBSET Nat
    BY <1>1 DEF EntryOffsets
  <2> HIDE DEF R
  <2>3. Min(blank) \in blank
    BY <1>2, <2>2, MinIs
  <2>4. Reached(f, f, ROOT_INO)
    BY <1>1, InosAre, ReachedItself
  <2>5. EntryOffsets(f) = EntryOffsets(f) \cup {Min(blank)}
    BY <2>3
  <2>6. Blanked(f, f, Min(blank))
    BY <1>1, <2>3, <2>4, <2>5 DEF Blanked
  <2> QED BY <2>1, <2>6 DEF R
<1>3. CASE blank = {}
  <2>1. R = [fs |-> longer.fs, r |-> longer.r, off |-> end]
    BY <1>3 DEF BlankDirentry
  <2>2. Bearable(f, ROOT_INO, end + 1) /\ end + 1 \in Nat /\ end <= end + 1
    BY <1>1, InosAre, GrowBearable
  <2>3. Resized(f, ROOT_INO, end + 1, longer)
    BY <1>1, <2>2, InosAre, ChangeSizeIs
  <2> HIDE DEF longer, R
  <2>4. /\ Reached(f, longer.fs, ROOT_INO) /\ longer.r \in {"ok", "ENOSPC"}
        /\ longer.r = "ok" => longer.fs.inode[ROOT_INO].size = end + 1
        /\ longer.r # "ok" => longer.fs.inode[ROOT_INO].size = end
    BY <2>3 DEF Resized
  <2>5. Orderly(longer.fs)
    <3>1. longer.fs.inode[ROOT_INO].size <= MaxSize
      BY <1>1, <2>4, InosAre DEF Capped
    <3> QED BY <1>1, <2>4, <3>1, InosAre, OrderlyOn DEF Orderly
  <2>6. CASE longer.r = "ok"
    <3>1. end <= longer.fs.inode[ROOT_INO].size
      BY <1>1, <2>4, <2>6
    <3>2. /\ EntryOffsets(f) \subseteq EntryOffsets(longer.fs)
          /\ \A off \in EntryOffsets(f) : Entry(longer.fs, off) = Entry(f, off)
      BY <1>1, <2>4, <2>5, <3>1, InosAre, ReachedEntries DEF Orderly
    <3>3. EntryOffsets(longer.fs) = EntryOffsets(f) \cup {end} /\ end \notin EntryOffsets(f)
      <4>1. EntryOffsets(longer.fs) = 0..(end + 1) - 1 /\ EntryOffsets(f) = 0..end - 1
        BY <2>4, <2>6 DEF EntryOffsets
      <4> HIDE DEF end
      <4> QED BY <1>1, <4>1
    <3> QED BY <2>1, <2>4, <2>5, <2>6, <3>1, <3>2, <3>3 DEF Blanked, R
  <2>7. CASE longer.r # "ok"
    BY <2>1, <2>4, <2>5, <2>7 DEF R
  <2> QED BY <2>6, <2>7
<1> QED BY <1>2, <1>3

---------------------------------------------------------------------------
(* Files that an operation leaves alone                                    *)

(* File i holds what it held, in the blocks it had.                        *)
FileStays(f, g, i) ==
  /\ g.inode[i].ftype = f.inode[i].ftype /\ g.inode[i].size = f.inode[i].size
  /\ g.inode[i].nlink = 0 <=> f.inode[i].nlink = 0
  /\ \A k \in Nat : k < Count(f, i) =>
       /\ Held(g, i, Place(k)) = Held(f, i, Place(k))
       /\ g.disk[Held(f, i, Place(k))] = f.disk[Held(f, i, Place(k))]

LEMMA StaysItself ==
  ASSUME NEW f, NEW i
  PROVE  FileStays(f, f, i)
BY DEF FileStays

LEMMA StaysOn ==
  ASSUME NEW f, NEW g, NEW h, NEW i, FileStays(f, g, i), FileStays(g, h, i)
  PROVE  FileStays(f, h, i)
<1>1. Count(g, i) = Count(f, i)
  BY DEF FileStays, Count, NBlocksOf
<1> QED BY <1>1 DEF FileStays

(* The other files stay where a change of size reached one.                *)
LEMMA ReachedStays ==
  ASSUME NEW f, NEW g, NEW i \in Inos, Careful(habit), Sound(f), Reached(f, g, i),
         NEW j \in Inos, j # i
  PROVE  FileStays(f, g, j)
<1>1. g.inode[j] = f.inode[j] /\ Kept(f, g)
  BY DEF Reached
<1>2. Count(g, j) = Count(f, j)
  BY <1>1, CountOther
<1> QED BY <1>1, <1>2 DEF FileStays, Kept

(* Files stay where an inode changes no more than its count of links.      *)
LEMMA SlotsStay ==
  ASSUME NEW f \in Disks, NEW g, Fits(f), NEW i \in Inos, g.disk = f.disk,
         g.inode[i].ftype = f.inode[i].ftype, g.inode[i].size = f.inode[i].size,
         g.inode[i].nlink = 0 <=> f.inode[i].nlink = 0,
         \A s \in Slots : Held(g, i, s) = Held(f, i, s)
  PROVE  FileStays(f, g, i)
<1>1. ASSUME NEW k \in Nat, k < Count(f, i) PROVE Held(g, i, Place(k)) = Held(f, i, Place(k))
  <2>1. Place(k) \in Slots
    BY <1>1, CountType, PlaceUsed DEF Fits
  <2> QED BY <2>1
<1> QED BY <1>1 DEF FileStays

(* Two places have two blocks.                                             *)
LEMMA OtherBlock ==
  ASSUME NEW f, Sound(f), Careful(habit), Fits(f),
         NEW i \in Inos, NEW k \in Nat, k < Count(f, i),
         NEW j \in Inos, NEW m \in Nat, m < Count(f, j), i # j \/ k # m
  PROVE  /\ Held(f, i, Place(k)) \in DataBlocks \ f.free
         /\ Held(f, i, Place(k)) \in 0..NBLOCKS + 2
         /\ Held(f, i, Place(k)) # Held(f, j, Place(m))
<1>1. f \in Disks /\ Apart(f)
  BY DEF Sound
<1>2. /\ Place(k) \in Slots /\ Place(m) \in Slots /\ Place(k) \in Used(Count(f, i))
  BY <1>1, CountType, PlaceUsed DEF Fits
<1>3. Held(f, i, Place(k)) \in DataBlocks \ f.free
  BY <1>2 DEF Sound, Whole
<1>4. Held(f, i, Place(k)) # 0 /\ Held(f, i, Place(k)) \in 0..NBLOCKS + 2
  BY <1>3, DataRange
<1>5. Place(k) = Place(m) => k = m
  BY SizeAssumption DEF Place
<1> QED BY <1>1, <1>2, <1>3, <1>4, <1>5 DEF Apart

(* A disk on which one block of a file was written into.                   *)
LEMMA ScribbledStays ==
  ASSUME NEW f, Sound(f), Careful(habit), Fits(f), NEW i \in Inos,
         NEW k \in Nat, k < Count(f, i), NEW g, Scribbled(f, g, Held(f, i, Place(k))),
         NEW j \in Inos, j # i
  PROVE  FileStays(f, g, j)
<1>1. \A s \in Slots : Held(g, j, s) = Held(f, j, s)
  BY ScribbledSound
<1>2. f \in Disks
  BY DEF Sound
<1>3. ASSUME NEW m \in Nat, m < Count(f, j)
      PROVE  /\ Held(g, j, Place(m)) = Held(f, j, Place(m))
             /\ g.disk[Held(f, j, Place(m))] = f.disk[Held(f, j, Place(m))]
  <2>1. Place(m) \in Slots
    BY <1>2, <1>3, CountType, PlaceUsed DEF Fits
  <2>2. /\ Held(f, j, Place(m)) \in 0..NBLOCKS + 2
        /\ Held(f, j, Place(m)) # Held(f, i, Place(k))
    BY <1>3, OtherBlock
  <2> QED BY <1>1, <2>1, <2>2 DEF Scribbled
<1> QED BY <1>3 DEF FileStays, Scribbled

(* Every file stays where an entry is stored.                              *)
LEMMA EntryStays ==
  ASSUME NEW f, Sound(f), Careful(habit), Capped(f), f.inode[ROOT_INO].ftype # "symlink",
         NEW off \in EntryOffsets(f), NEW n \in Nat, NEW name \in Names \cup {NoName},
         NEW j \in Inos, j # ROOT_INO
  PROVE  FileStays(f, SetEntry(f, off, n, name), j)
<1> DEFINE g == SetEntry(f, off, n, name)
           k == off \div BLKSIZE
<1>1. f \in Disks /\ Fits(f)
  BY CappedMeans DEF Sound
<1>2. /\ Sound(g) /\ g.inode = f.inode /\ g.free = f.free
      /\ \A c \in 0..NBLOCKS + 2 : c # EntryBlock(f, off) => g.disk[c] = f.disk[c]
  BY SetEntryIs
<1> HIDE DEF g
<1>3. k \in Nat /\ k < Count(f, ROOT_INO) /\ EntryBlock(f, off) = Held(f, ROOT_INO, Place(k))
  BY EntryIs
<1> HIDE DEF k
<1>4. Scribbled(f, g, Held(f, ROOT_INO, Place(k)))
  BY <1>2, <1>3 DEF Scribbled, Sound
<1>5. FileStays(f, g, j)
  BY <1>1, <1>3, <1>4, InosAre, ScribbledStays
<1> QED BY <1>5 DEF g

---------------------------------------------------------------------------
(* What an operation may do to the disk                                    *)

(* A disk as every operation leaves it.                                    *)
Good(f) == Orderly(f) /\ Named(f)

(* A write in the middle of file i finds it as it left it.                 *)
SafeFor(f, g, i) ==
  /\ g.inode[i].ftype = f.inode[i].ftype /\ (f.inode[i].nlink > 0 => g.inode[i].nlink > 0)
  /\ f.inode[i].size <= g.inode[i].size
  /\ \A k \in Nat : k < Count(f, i) => Held(g, i, Place(k)) = Held(f, i, Place(k))

(* What an operation that takes disk f to disk g may do while others write *)
(* and list.                                                               *)
Follows(f, g) ==
  /\ Good(g)
  /\ \A i \in Files : Writers(i) # {} => SafeFor(f, g, i)
  /\ f.inode[ROOT_INO].size <= g.inode[ROOT_INO].size
  /\ EntriesFollow(f, g)

(* Only regular files that have a name are being written.                  *)
WritersLive(f) ==
  \A i \in Files : Writers(i) # {} => (f.inode[i].ftype = "reg" /\ f.inode[i].nlink > 0)

LEMMA SameHeldSafe ==
  ASSUME NEW f \in Disks, NEW g, NEW i \in Inos, Fits(f),
         g.inode[i].ftype = f.inode[i].ftype, f.inode[i].nlink > 0 => g.inode[i].nlink > 0,
         f.inode[i].size <= g.inode[i].size,
         \A s \in Slots : Held(g, i, s) = Held(f, i, s)
  PROVE  SafeFor(f, g, i)
<1>1. ASSUME NEW k \in Nat, k < Count(f, i) PROVE Held(g, i, Place(k)) = Held(f, i, Place(k))
  <2>1. Place(k) \in Slots
    BY <1>1, CountType, PlaceUsed DEF Fits
  <2> QED BY <2>1
<1> QED BY <1>1 DEF SafeFor

(* Steps that only change the blocks of a file do not disturb writes to a  *)
(* file that grows.                                                        *)
LEMMA ReachedSafe ==
  ASSUME NEW f, NEW g, NEW i \in Inos, Careful(habit), Sound(f), Capped(f), Capped(g),
         Reached(f, g, i), NEW j \in Inos, j = i => f.inode[i].size <= g.inode[i].size
  PROVE  SafeFor(f, g, j)
<1>1. f \in Disks /\ g \in Disks /\ Fits(f)
  BY ReachedType, CappedMeans DEF Sound
<1>2. g.inode[j].ftype = f.inode[j].ftype /\ g.inode[j].nlink = f.inode[j].nlink
  BY DEF Reached, SameFile
<1>3. CASE j # i
  <2>1. g.inode[j] = f.inode[j] /\ \A s \in Slots : Held(g, j, s) = Held(f, j, s)
    BY <1>3 DEF Reached
  <2>2. f.inode[j].size <= g.inode[j].size
    BY <1>1, <2>1, CappedMeans
  <2> QED BY <1>1, <1>2, <2>1, <2>2, SameHeldSafe
<1>4. CASE j = i
  <2>1. f.inode[j].size <= g.inode[j].size
    BY <1>4
  <2>2. NBlocksOf(f, j) <= NBlocksOf(g, j)
    BY <1>1, <2>1, CappedMeans, CountMonotone DEF NBlocksOf
  <2>3. Count(f, j) <= Count(g, j) /\ Count(f, j) \in Nat /\ Count(g, j) \in Nat
    BY <1>1, <1>2, <2>2, CountType DEF Count
  <2>4. \A k \in Nat : k < Count(f, j) => Held(g, j, Place(k)) = Held(f, j, Place(k))
    BY <2>3 DEF Reached, Kept
  <2> QED BY <1>2, <2>1, <2>4 DEF SafeFor
<1> QED BY <1>3, <1>4

(* change_size() of a regular file, as write and truncate call it.         *)
LEMMA FollowsResized ==
  ASSUME NEW f, Careful(habit), Good(f), NEW i \in Files,
         f.inode[i].ftype = "reg", f.inode[i].nlink > 0,
         NEW size \in Nat, size <= MaxSize, Bearable(f, i, size),
         f.inode[i].size <= size \/ Writers(i) = {}
  PROVE  /\ Follows(f, ChangeSize(f, i, size).fs)
         /\ ChangeSize(f, i, size).r = "ok" => ChangeSize(f, i, size).fs.inode[i].size = size
         /\ SameFile(f, ChangeSize(f, i, size).fs, i)
<1> DEFINE R == ChangeSize(f, i, size)
           g == R.fs
<1>1. /\ Sound(f) /\ Capped(f) /\ Rooted(f) /\ Named(f) /\ f \in Disks /\ i \in Inos /\ i # 0
           /\ i # ROOT_INO
      /\ ROOT_INO \in Inos
  BY InosAre DEF Good, Orderly, Sound
<1>2. f.inode[i].size \in Nat /\ f.inode[i].size <= MaxSize
  BY <1>1, CappedMeans
<1>3. Resized(f, i, size, R)
  BY <1>1, ChangeSizeIs
<1> HIDE DEF R
<1>4. /\ Reached(f, g, i)
      /\ R.r = "ok" => g.inode[i].size = size
      /\ g.inode[i].size = size \/ g.inode[i].size = f.inode[i].size
  BY <1>3 DEF Resized
<1>5. Orderly(g)
  <2>1. g.inode[i].size <= MaxSize
    BY <1>2, <1>4
  <2> QED BY <1>1, <1>4, <2>1, OrderlyOn DEF Orderly
<1>6. g.inode[ROOT_INO] = f.inode[ROOT_INO] /\ \A j \in Files : g.inode[j].nlink = f.inode[j].nlink
  BY <1>1, <1>4, InosAre DEF Reached, SameFile
<1>7. f.inode[ROOT_INO].size <= g.inode[ROOT_INO].size /\ f.inode[ROOT_INO].ftype # "symlink"
  BY <1>1, <1>6, CappedMeans DEF Rooted
<1>8. Named(g) /\ EntriesFollow(f, g)
  <2>1. \A off \in EntryOffsets(f) : Entry(g, off) = Entry(f, off)
    BY <1>1, <1>4, <1>5, <1>7, ReachedEntries DEF Orderly
  <2>2. EntryOffsets(g) = EntryOffsets(f)
    BY <1>6 DEF EntryOffsets
  <2> QED BY <1>1, <1>6, <2>1, <2>2, NamedSame
<1>9. ASSUME NEW j \in Files, Writers(j) # {} PROVE SafeFor(f, g, j)
  <2>1. j = i => f.inode[i].size <= g.inode[i].size
    BY <1>2, <1>4, <1>9
  <2> QED BY <1>1, <1>4, <1>5, <2>1, InosAre, ReachedSafe DEF Orderly
<1>10. Follows(f, g)
  BY <1>5, <1>7, <1>8, <1>9 DEF Follows, Good
<1>11. SameFile(f, g, i)
  BY <1>1, <1>4 DEF Reached
<1> QED BY <1>4, <1>10, <1>11 DEF R

(* ospfs_create() and ospfs_symlink(), from the blank entry on.            *)
LEMMA MadeIs ==
  ASSUME NEW f, Careful(habit), Good(f), NEW h, NEW off, Blanked(f, h, off),
         NEW ino \in Files, f.inode[ino].nlink = 0, NEW name \in Names,
         NEW oi \in Inodes, oi.nlink = 1, oi.ftype # "dir", oi.size <= MaxSize,
         oi.direct = f.inode[ino].direct, oi.indirect = f.inode[ino].indirect,
         oi.indirect2 = f.inode[ino].indirect2,
         oi.ftype # "symlink" => oi.size = 0
  PROVE  LET g == SetEntry(Put(h, ino, oi), off, ino, name)
         IN /\ Orderly(g)
            /\ \A j \in Inos : g.inode[j] = (IF j = ino THEN oi ELSE h.inode[j])
            /\ \A j \in Inos, s \in Slots : Held(g, j, s) = Held(h, j, s)
            /\ \A j \in Files \ {ino} : FileStays(f, g, j)
            /\ EntryOffsets(g) = EntryOffsets(f) \cup {off}
            /\ \A other \in EntryOffsets(f) \ {off} : Entry(g, other) = Entry(f, other)
            /\ Entry(g, off) = [n |-> ino, name |-> name]
<1> DEFINE e == Put(h, ino, oi)
           g == SetEntry(e, off, ino, name)
<1>1. /\ Sound(f) /\ Capped(f) /\ Rooted(f) /\ Named(f) /\ f \in Disks /\ Fits(f)
      /\ Sound(h) /\ Capped(h) /\ Rooted(h) /\ Reached(f, h, ROOT_INO) /\ h \in Disks /\ Fits(h)
      /\ ino \in Inos /\ ino # 0 /\ ino # ROOT_INO /\ ROOT_INO \in Inos /\ 0 \in Inos /\ ino \in Nat
      /\ name \in Names \cup {NoName}
  BY InosAre, CappedMeans DEF Good, Orderly, Sound, Blanked
<1>2. \A j \in Inos : j # ROOT_INO =>
        (h.inode[j] = f.inode[j] /\ \A s \in Slots : Held(h, j, s) = Held(f, j, s))
  BY <1>1 DEF Reached
<1>3. Count(h, ino) = 0 /\ (IF oi.ftype = "symlink" THEN 0 ELSE NBlocks(oi.size)) = 0
  BY <1>1, <1>2, NoneForZero DEF Count, NBlocksOf, Rooted
<1>4. /\ Sound(e)
      /\ \A j \in Inos, s \in Slots : Held(e, j, s) = Held(h, j, s)
      /\ e.disk = h.disk /\ e.inode[ino] = oi
      /\ \A j \in Inos : j # ino => e.inode[j] = h.inode[j]
  BY <1>1, <1>2, <1>3, PutSound
<1> HIDE DEF e
<1>5. Capped(e)
  BY <1>1, <1>4 DEF Capped
<1>6. e.inode[ROOT_INO] = h.inode[ROOT_INO] /\ e.inode[ROOT_INO].ftype # "symlink"
      /\ h.inode[ROOT_INO].ftype # "symlink"
  BY <1>1, <1>4 DEF Rooted
<1>7. /\ EntryOffsets(e) = EntryOffsets(h)
      /\ \A other \in EntryOffsets(h) : Entry(e, other) = Entry(h, other)
  BY <1>1, <1>4, <1>5, <1>6, SameDirectory
<1>8. off \in EntryOffsets(e)
  BY <1>7 DEF Blanked
<1>9. /\ Sound(g) /\ Capped(g) /\ g.inode = e.inode
      /\ \A j \in Inos, s \in Slots : Held(g, j, s) = Held(e, j, s)
      /\ EntryOffsets(g) = EntryOffsets(e)
      /\ \A other \in EntryOffsets(e) : Entry(g, other) =
           IF other = off THEN [n |-> ino, name |-> name] ELSE Entry(e, other)
      /\ \A j \in Inos : j # ROOT_INO => FileStays(e, g, j)
  BY <1>1, <1>4, <1>5, <1>6, <1>8, SetEntryIs, EntryStays
<1> HIDE DEF g
<1>10. \A j \in Inos : g.inode[j] = (IF j = ino THEN oi ELSE h.inode[j])
  BY <1>4, <1>9
<1>11. Rooted(g)
  <2>1. g.inode[0] = h.inode[0] /\ g.inode[ROOT_INO] = h.inode[ROOT_INO]
    BY <1>1, <1>10
  <2>2. /\ \A i \in Files : i \in Inos
        /\ \A i \in Files : h.inode[i].ftype # "dir"
             /\ (h.inode[i].nlink = 0 => h.inode[i].size = 0)
    BY <1>1, InosAre DEF Rooted
  <2>3. \A i \in Files : g.inode[i].ftype # "dir" /\ (g.inode[i].nlink = 0 => g.inode[i].size = 0)
    BY <1>10, <2>2
  <2> QED BY <1>1, <2>1, <2>3 DEF Rooted
<1>12. ASSUME NEW j \in Files \ {ino} PROVE FileStays(f, g, j)
  <2>1. j \in Inos /\ j # ROOT_INO /\ j # ino
    BY InosAre
  <2>2. FileStays(f, h, j)
    BY <1>1, <2>1, ReachedStays
  <2>3. e.inode[j] = h.inode[j]
    BY <1>4, <2>1
  <2>4. FileStays(h, e, j)
    BY <1>1, <1>4, <2>1, <2>3, SlotsStay
  <2>5. FileStays(f, e, j)
    BY <2>2, <2>4, StaysOn
  <2>6. FileStays(e, g, j)
    BY <1>9, <2>1
  <2> QED BY <2>5, <2>6, StaysOn
<1>13. EntryOffsets(g) = EntryOffsets(f) \cup {off}
  BY <1>7, <1>9 DEF Blanked
<1>14. \A other \in EntryOffsets(f) \ {off} : Entry(g, other) = Entry(f, other)
  BY <1>7, <1>9 DEF Blanked
<1>15. Entry(g, off) = [n |-> ino, name |-> name]
  BY <1>8, <1>9
<1>16. \A j \in Inos, s \in Slots : Held(g, j, s) = Held(h, j, s)
  BY <1>4, <1>9
<1> QED BY <1>9, <1>10, <1>11, <1>12, <1>13, <1>14, <1>15, <1>16 DEF Orderly, g, e

LEMMA FollowsMade ==
  ASSUME NEW f, Careful(habit), Good(f), WritersLive(f), NEW h, NEW off, Blanked(f, h, off),
         NEW ino \in Files, f.inode[ino].nlink = 0, NEW name \in Names, ~Exists(f, name),
         NEW oi \in Inodes, oi.nlink = 1, oi.ftype # "dir", oi.size <= MaxSize,
         oi.direct = f.inode[ino].direct, oi.indirect = f.inode[ino].indirect,
         oi.indirect2 = f.inode[ino].indirect2,
         oi.ftype # "symlink" => oi.size = 0
  PROVE  Follows(f, SetEntry(Put(h, ino, oi), off, ino, name))
<1> DEFINE g == SetEntry(Put(h, ino, oi), off, ino, name)
<1>1. /\ Sound(f) /\ Capped(f) /\ Named(f) /\ f \in Disks /\ Fits(f)
      /\ Reached(f, h, ROOT_INO) /\ ino \in Inos /\ ino # ROOT_INO /\ ROOT_INO \in Inos
  BY InosAre, CappedMeans DEF Good, Orderly, Sound, Blanked
<1>2. /\ Orderly(g)
      /\ \A j \in Inos : g.inode[j] = (IF j = ino THEN oi ELSE h.inode[j])
      /\ \A j \in Inos, s \in Slots : Held(g, j, s) = Held(h, j, s)
      /\ EntryOffsets(g) = EntryOffsets(f) \cup {off}
      /\ \A other \in EntryOffsets(f) \ {off} : Entry(g, other) = Entry(f, other)
      /\ Entry(g, off) = [n |-> ino, name |-> name]
  BY MadeIs
<1> HIDE DEF g
<1>3. \A j \in Inos : j # ROOT_INO =>
        (h.inode[j] = f.inode[j] /\ \A s \in Slots : Held(h, j, s) = Held(f, j, s))
  BY <1>1 DEF Reached
<1>4. Named(g) /\ EntriesFollow(f, g)
  <2>1. off \in EntryOffsets(f) => Entry(f, off).n = 0
    BY DEF Blanked
  <2>2. \A i \in Files : g.inode[i].nlink =
          IF i = ino THEN f.inode[i].nlink + 1 ELSE f.inode[i].nlink
    BY <1>2, <1>3, InosAre
  <2> QED BY <1>1, <1>2, <2>1, <2>2, NamedMore
<1>5. ASSUME NEW j \in Files, Writers(j) # {} PROVE SafeFor(f, g, j)
  <2>1. j # ino /\ j \in Inos /\ j # ROOT_INO
    BY <1>5, InosAre DEF WritersLive
  <2>2. g.inode[j] = f.inode[j] /\ \A s \in Slots : Held(g, j, s) = Held(f, j, s)
    BY <1>2, <1>3, <2>1
  <2>3. f.inode[j].size <= g.inode[j].size
    <3>1. f.inode[j].size \in Nat
      BY <1>1, <2>1, CappedMeans
    <3> QED BY <2>2, <3>1
  <2> QED BY <1>1, <2>1, <2>2, <2>3, SameHeldSafe
<1>6. f.inode[ROOT_INO].size <= g.inode[ROOT_INO].size
  BY <1>1, <1>2 DEF Blanked
<1> QED BY <1>2, <1>4, <1>5, <1>6 DEF Follows, Good, g

(* ospfs_link(), from the blank entry on.                                  *)
LEMMA LinkedIs ==
  ASSUME NEW f, Careful(habit), Good(f), NEW h, NEW off, Blanked(f, h, off),
         NEW ino \in Files, f.inode[ino].nlink > 0, NEW name \in Names
  PROVE  LET g == [SetEntry(h, off, ino, name) EXCEPT !.inode[ino].nlink = @ + 1]
         IN /\ Orderly(g)
            /\ \A j \in Inos : /\ g.inode[j].ftype = h.inode[j].ftype
                               /\ g.inode[j].size = h.inode[j].size
                               /\ g.inode[j].nlink = IF j = ino THEN h.inode[j].nlink + 1
                                                     ELSE h.inode[j].nlink
            /\ \A j \in Inos, s \in Slots : Held(g, j, s) = Held(h, j, s)
            /\ \A j \in Files : FileStays(f, g, j)
            /\ EntryOffsets(g) = EntryOffsets(f) \cup {off}
            /\ \A other \in EntryOffsets(f) \ {off} : Entry(g, other) = Entry(f, other)
            /\ Entry(g, off) = [n |-> ino, name |-> name]
<1> DEFINE e == SetEntry(h, off, ino, name)
           oi == [h.inode[ino] EXCEPT !.nlink = @ + 1]
           g == Put(e, ino, oi)
<1>1. /\ Sound(f) /\ Capped(f) /\ Rooted(f) /\ Named(f) /\ f \in Disks /\ Fits(f)
      /\ Sound(h) /\ Capped(h) /\ Rooted(h) /\ Reached(f, h, ROOT_INO)
      /\ ino \in Inos /\ ino # 0 /\ ino # ROOT_INO /\ ROOT_INO \in Inos /\ 0 \in Inos /\ ino \in Nat
      /\ name \in Names \cup {NoName}
  BY InosAre, CappedMeans DEF Good, Orderly, Sound, Blanked
<1>2. \A j \in Inos : j # ROOT_INO =>
        (h.inode[j] = f.inode[j] /\ \A s \in Slots : Held(h, j, s) = Held(f, j, s))
  BY <1>1 DEF Reached
<1>3. h.inode[ROOT_INO].ftype # "symlink" /\ off \in EntryOffsets(h)
  BY <1>1 DEF Rooted, Blanked
<1>4. /\ Sound(e) /\ Capped(e) /\ e.inode = h.inode
      /\ \A j \in Inos, s \in Slots : Held(e, j, s) = Held(h, j, s)
      /\ EntryOffsets(e) = EntryOffsets(h)
      /\ \A other \in EntryOffsets(h) : Entry(e, other) =
           IF other = off THEN [n |-> ino, name |-> name] ELSE Entry(h, other)
      /\ \A j \in Inos : j # ROOT_INO => FileStays(h, e, j)
  BY <1>1, <1>3, SetEntryIs, EntryStays
<1> HIDE DEF e
<1>5. /\ oi \in Inodes /\ oi.size = h.inode[ino].size /\ oi.ftype = h.inode[ino].ftype
      /\ oi.nlink = h.inode[ino].nlink + 1 /\ oi.direct = h.inode[ino].direct
      /\ oi.indirect = h.inode[ino].indirect /\ oi.indirect2 = h.inode[ino].indirect2
  <2>1. h.inode[ino] \in Inodes
    BY <1>1, Fields DEF Sound
  <2> QED BY <2>1 DEF Inodes
<1>6. [e EXCEPT !.inode[ino].nlink = @ + 1] = g
  <2>1. e \in Disks
    BY <1>4 DEF Sound
  <2> QED BY <1>4, <2>1 DEF Put, Disks
<1> HIDE DEF oi
<1>7. /\ Sound(g)
      /\ \A j \in Inos, s \in Slots : Held(g, j, s) = Held(e, j, s)
      /\ g.disk = e.disk /\ g.inode[ino] = oi
      /\ \A j \in Inos : j # ino => g.inode[j] = e.inode[j]
  <2>1. (IF oi.ftype = "symlink" THEN 0 ELSE NBlocks(oi.size)) = Count(e, ino)
    BY <1>4, <1>5 DEF Count, NBlocksOf
  <2>2. /\ oi.direct = e.inode[ino].direct /\ oi.indirect = e.inode[ino].indirect
        /\ oi.indirect2 = e.inode[ino].indirect2
    BY <1>4, <1>5
  <2>3. g = Put(e, ino, oi) /\ oi \in Inodes /\ Sound(e) /\ ino \in Inos
    BY <1>1, <1>4, <1>5
  <2> HIDE DEF g
  <2> QED BY <2>1, <2>2, <2>3, PutSound
<1> HIDE DEF g
<1>8. Capped(g)
  BY <1>1, <1>4, <1>5, <1>7 DEF Capped
<1>9. oi.nlink # 0 /\ h.inode[ino].nlink # 0
  <2>1. oi.nlink = f.inode[ino].nlink + 1 /\ f.inode[ino].nlink \in Nat
           /\ h.inode[ino].nlink = f.inode[ino].nlink
    BY <1>1, <1>2, <1>5, Fields DEF Inodes
  <2> QED BY <2>1
<1>10. Rooted(g)
  BY <1>1, <1>4, <1>5, <1>7, <1>9, InosAre DEF Rooted
<1>11. /\ EntryOffsets(g) = EntryOffsets(e)
       /\ \A other \in EntryOffsets(e) : Entry(g, other) = Entry(e, other)
  <2>1. g.inode[ROOT_INO] = e.inode[ROOT_INO] /\ e.inode[ROOT_INO].ftype # "symlink"
    BY <1>1, <1>3, <1>4, <1>7
  <2> QED BY <1>1, <1>4, <1>7, <1>8, <2>1, SameDirectory
<1>12. EntryOffsets(g) = EntryOffsets(f) \cup {off}
  BY <1>4, <1>11 DEF Blanked
<1>13. \A other \in EntryOffsets(f) \ {off} : Entry(g, other) = Entry(f, other)
  BY <1>4, <1>11 DEF Blanked
<1>14. Entry(g, off) = [n |-> ino, name |-> name]
  BY <1>3, <1>4, <1>11
<1>15. \A j \in Inos : /\ g.inode[j].ftype = h.inode[j].ftype
                       /\ g.inode[j].size = h.inode[j].size
                       /\ g.inode[j].nlink = IF j = ino THEN h.inode[j].nlink + 1
                                             ELSE h.inode[j].nlink
  BY <1>4, <1>5, <1>7
<1>16. ASSUME NEW j \in Files PROVE FileStays(f, g, j)
  <2>1. j \in Inos /\ j # ROOT_INO
    BY InosAre
  <2>2. FileStays(f, h, j)
    BY <1>1, <2>1, ReachedStays
  <2>3. FileStays(h, e, j)
    BY <1>4, <2>1
  <2>4. e \in Disks /\ Fits(e)
    BY <1>4, CappedMeans DEF Sound
  <2>5. /\ g.inode[j].ftype = e.inode[j].ftype /\ g.inode[j].size = e.inode[j].size
        /\ g.inode[j].nlink = 0 <=> e.inode[j].nlink = 0
    <3>1. CASE j # ino
      BY <1>7, <2>1, <3>1
    <3>2. CASE j = ino
      BY <1>4, <1>5, <1>7, <1>9, <3>2
    <3> QED BY <3>1, <3>2
  <2>6. FileStays(e, g, j)
    BY <1>7, <2>1, <2>4, <2>5, SlotsStay
  <2> QED BY <2>2, <2>3, <2>6, StaysOn
<1>17. \A j \in Inos, s \in Slots : Held(g, j, s) = Held(h, j, s)
  BY <1>4, <1>7
<1>18. Orderly(g)
  BY <1>7, <1>8, <1>10 DEF Orderly
<1> QED BY <1>6, <1>12, <1>13, <1>14, <1>15, <1>16, <1>17, <1>18 DEF e

LEMMA FollowsLinked ==
  ASSUME NEW f, Careful(habit), Good(f), NEW h, NEW off, Blanked(f, h, off),
         NEW ino \in Files, f.inode[ino].nlink > 0, NEW name \in Names, ~Exists(f, name)
  PROVE  Follows(f, [SetEntry(h, off, ino, name) EXCEPT !.inode[ino].nlink = @ + 1])
<1> DEFINE g == [SetEntry(h, off, ino, name) EXCEPT !.inode[ino].nlink = @ + 1]
<1>1. /\ Sound(f) /\ Capped(f) /\ Named(f) /\ f \in Disks /\ Fits(f)
      /\ Reached(f, h, ROOT_INO) /\ ino \in Inos /\ ino # ROOT_INO /\ ROOT_INO \in Inos
  BY InosAre, CappedMeans DEF Good, Orderly, Sound, Blanked
<1>2. /\ Orderly(g)
      /\ \A j \in Inos : /\ g.inode[j].ftype = h.inode[j].ftype
                         /\ g.inode[j].size = h.inode[j].size
                         /\ g.inode[j].nlink = IF j = ino THEN h.inode[j].nlink + 1
                                               ELSE h.inode[j].nlink
      /\ \A j \in Inos, s \in Slots : Held(g, j, s) = Held(h, j, s)
      /\ EntryOffsets(g) = EntryOffsets(f) \cup {off}
      /\ \A other \in EntryOffsets(f) \ {off} : Entry(g, other) = Entry(f, other)
      /\ Entry(g, off) = [n |-> ino, name |-> name]
  BY LinkedIs
<1> HIDE DEF g
<1>3. \A j \in Inos : j # ROOT_INO =>
        (h.inode[j] = f.inode[j] /\ \A s \in Slots : Held(h, j, s) = Held(f, j, s))
  BY <1>1 DEF Reached
<1>4. Named(g) /\ EntriesFollow(f, g)
  <2>1. off \in EntryOffsets(f) => Entry(f, off).n = 0
    BY DEF Blanked
  <2>2. \A i \in Files : g.inode[i].nlink =
          IF i = ino THEN f.inode[i].nlink + 1 ELSE f.inode[i].nlink
    BY <1>2, <1>3, InosAre
  <2> QED BY <1>1, <1>2, <2>1, <2>2, NamedMore
<1>5. ASSUME NEW j \in Files PROVE SafeFor(f, g, j)
  <2>1. j \in Inos /\ j # ROOT_INO
    BY InosAre
  <2>2. /\ g.inode[j].ftype = f.inode[j].ftype /\ g.inode[j].size = f.inode[j].size
        /\ \A s \in Slots : Held(g, j, s) = Held(f, j, s)
    BY <1>2, <1>3, <2>1
  <2>3. f.inode[j].nlink > 0 => g.inode[j].nlink > 0
    <3>1. g.inode[j].nlink = IF j = ino THEN f.inode[j].nlink + 1 ELSE f.inode[j].nlink
      BY <1>2, <1>3, <2>1
    <3>2. f.inode[j].nlink \in Nat
      BY <1>1, <2>1, Fields DEF Inodes
    <3> QED BY <3>1, <3>2
  <2>4. f.inode[j].size <= g.inode[j].size
    <3>1. f.inode[j].size \in Nat
      BY <1>1, <2>1, CappedMeans
    <3> QED BY <2>2, <3>1
  <2> QED BY <1>1, <2>1, <2>2, <2>3, <2>4, SameHeldSafe
<1>6. f.inode[ROOT_INO].size <= g.inode[ROOT_INO].size
  BY <1>1, <1>2 DEF Blanked
<1> QED BY <1>2, <1>4, <1>5, <1>6 DEF Follows, Good, g

(* The inode once a name of its file is gone; a link loses its size.       *)
Less(oi) ==
  [oi EXCEPT !.nlink = @ - 1, !.size = IF oi.ftype = "symlink" THEN 0 ELSE @]

(* ospfs_unlink() up to the removal of the blocks.                         *)
LEMMA UnlinkedIs ==
  ASSUME NEW f, Careful(habit), Good(f), NEW off \in EntryOffsets(f), NEW ino \in Files,
         Entry(f, off).n = ino, NEW name \in Names
  PROVE  LET g == Put(SetEntry(f, off, 0, name), ino, Less(f.inode[ino]))
         IN /\ Sound(g) /\ Capped(g)
            /\ \A j \in Inos, s \in Slots : Held(g, j, s) = Held(f, j, s)
            /\ \A j \in Inos : j # ino => g.inode[j] = f.inode[j]
            /\ g.inode[ino].ftype = f.inode[ino].ftype
            /\ g.inode[ino].nlink = f.inode[ino].nlink - 1 /\ f.inode[ino].nlink \in Nat \ {0}
            /\ g.inode[ino].size = IF f.inode[ino].ftype = "symlink" THEN 0 ELSE f.inode[ino].size
            /\ EntryOffsets(g) = EntryOffsets(f)
            /\ Entry(g, off).n = 0
            /\ \A other \in EntryOffsets(f) \ {off} : Entry(g, other) = Entry(f, other)
            /\ \A j \in Files : (j # ino \/ (g.inode[j].nlink > 0 /\ f.inode[j].ftype # "symlink"))
                 => FileStays(f, g, j)
<1> DEFINE e == SetEntry(f, off, 0, name)
           oi == Less(f.inode[ino])
           g == Put(e, ino, oi)
<1>1. /\ Sound(f) /\ Capped(f) /\ Rooted(f) /\ Named(f) /\ f \in Disks /\ Fits(f)
      /\ ino \in Inos /\ ino # 0 /\ ino # ROOT_INO /\ ROOT_INO \in Inos /\ 0 \in Inos
      /\ name \in Names \cup {NoName} /\ 0 \in Nat /\ f.inode[ROOT_INO].ftype # "symlink"
  BY InosAre, CappedMeans DEF Good, Orderly, Sound, Rooted
<1>2. /\ Sound(e) /\ Capped(e) /\ e.inode = f.inode
      /\ \A j \in Inos, s \in Slots : Held(e, j, s) = Held(f, j, s)
      /\ EntryOffsets(e) = EntryOffsets(f)
      /\ \A other \in EntryOffsets(f) : Entry(e, other) =
           IF other = off THEN [n |-> 0, name |-> name] ELSE Entry(f, other)
      /\ \A j \in Inos : j # ROOT_INO => FileStays(f, e, j)
  BY <1>1, SetEntryIs, EntryStays
<1> HIDE DEF e
<1>3. f.inode[ino].nlink \in Nat \ {0}
  <2>1. off \in NamedIn(f, ino) /\ IsFiniteSet(NamedIn(f, ino))
    BY <1>1, OffsetsFinite DEF NamedIn
  <2>2. Cardinality(NamedIn(f, ino)) # 0 /\ Cardinality(NamedIn(f, ino)) \in Nat
    BY <2>1, FS_EmptySet, FS_CardinalityType
  <2> QED BY <1>1, <2>2 DEF Named
<1>4. /\ oi \in Inodes /\ oi.ftype = f.inode[ino].ftype /\ oi.nlink = f.inode[ino].nlink - 1
      /\ oi.size = (IF f.inode[ino].ftype = "symlink" THEN 0 ELSE f.inode[ino].size)
      /\ oi.direct = f.inode[ino].direct /\ oi.indirect = f.inode[ino].indirect
      /\ oi.indirect2 = f.inode[ino].indirect2
  <2> DEFINE o == f.inode[ino]
  <2>1. o \in Inodes /\ o.nlink \in Nat \ {0}
    BY <1>1, <1>3, Fields
  <2>2. 0 \in 0..UINT - 1
    BY SizeAssumption
  <2> DEFINE m == o.nlink - 1
             z == IF o.ftype = "symlink" THEN 0 ELSE o.size
  <2>3. m \in Nat
    BY <2>1
  <2>4. z \in 0..UINT - 1
    BY <2>1, <2>2 DEF Inodes
  <2>5. Less(o) = [o EXCEPT !.nlink = m, !.size = z]
    BY DEF Less
  <2> HIDE DEF o, m, z
  <2>6. /\ Less(o) \in Inodes /\ Less(o).ftype = o.ftype /\ Less(o).nlink = m
        /\ Less(o).size = z
        /\ Less(o).direct = o.direct /\ Less(o).indirect = o.indirect
        /\ Less(o).indirect2 = o.indirect2
    BY <2>1, <2>3, <2>4, <2>5 DEF Inodes
  <2>7. /\ Less(o) \in Inodes /\ Less(o).ftype = o.ftype /\ Less(o).nlink = o.nlink - 1
        /\ Less(o).size = (IF o.ftype = "symlink" THEN 0 ELSE o.size)
        /\ Less(o).direct = o.direct /\ Less(o).indirect = o.indirect
        /\ Less(o).indirect2 = o.indirect2
    BY <2>6 DEF m, z
  <2> QED BY <2>7 DEF o
<1> HIDE DEF oi
<1>5. /\ Sound(g)
      /\ \A j \in Inos, s \in Slots : Held(g, j, s) = Held(e, j, s)
      /\ g.disk = e.disk /\ g.inode[ino] = oi
      /\ \A j \in Inos : j # ino => g.inode[j] = e.inode[j]
  <2>1. (IF oi.ftype = "symlink" THEN 0 ELSE NBlocks(oi.size)) = Count(e, ino)
    BY <1>2, <1>4 DEF Count, NBlocksOf
  <2>2. /\ oi.direct = e.inode[ino].direct /\ oi.indirect = e.inode[ino].indirect
        /\ oi.indirect2 = e.inode[ino].indirect2
    BY <1>2, <1>4
  <2>3. g = Put(e, ino, oi) /\ oi \in Inodes /\ Sound(e) /\ ino \in Inos
    BY <1>1, <1>2, <1>4
  <2> HIDE DEF g
  <2> QED BY <2>1, <2>2, <2>3, PutSound
<1> HIDE DEF g
<1>6. Capped(g)
  <2>1. 0 <= MaxSize /\ f.inode[ino].size <= MaxSize
    <3>1. MaxSize \in Nat
      BY CarefulMeans DEF MaxSize
    <3> QED BY <1>1, <3>1, CappedMeans
  <2> QED BY <1>1, <1>2, <1>4, <1>5, <2>1 DEF Capped
<1>7. /\ EntryOffsets(g) = EntryOffsets(e)
      /\ \A other \in EntryOffsets(e) : Entry(g, other) = Entry(e, other)
  <2>1. g.inode[ROOT_INO] = e.inode[ROOT_INO] /\ e.inode[ROOT_INO].ftype # "symlink"
    BY <1>1, <1>2, <1>5
  <2> QED BY <1>1, <1>2, <1>5, <1>6, <2>1, SameDirectory
<1>8. /\ EntryOffsets(g) = EntryOffsets(f)
      /\ Entry(g, off).n = 0
      /\ \A other \in EntryOffsets(f) \ {off} : Entry(g, other) = Entry(f, other)
  BY <1>2, <1>7
<1>9. ASSUME NEW j \in Files,
             j # ino \/ (g.inode[j].nlink > 0 /\ f.inode[j].ftype # "symlink")
      PROVE  FileStays(f, g, j)
  <2>1. j \in Inos /\ j # ROOT_INO
    BY InosAre
  <2>2. /\ g.inode[j].ftype = e.inode[j].ftype /\ g.inode[j].size = e.inode[j].size
        /\ g.inode[j].nlink = 0 <=> e.inode[j].nlink = 0
    <3>1. CASE j # ino
      BY <1>5, <2>1, <3>1
    <3>2. CASE j = ino
      BY <1>2, <1>3, <1>4, <1>5, <1>9, <3>2
    <3> QED BY <3>1, <3>2
  <2>3. e \in Disks /\ Fits(e)
    BY <1>2, CappedMeans DEF Sound
  <2>4. FileStays(e, g, j)
    BY <1>5, <2>1, <2>2, <2>3, SlotsStay
  <2> QED BY <1>2, <2>1, <2>4, StaysOn
<1> QED BY <1>2, <1>3, <1>4, <1>5, <1>6, <1>8, <1>9 DEF g, oi, e

(* ospfs_unlink(), when other names are left.                              *)
LEMMA FollowsUnlinked ==
  ASSUME NEW f, Careful(habit), Good(f), WritersLive(f),
         NEW off \in EntryOffsets(f), NEW ino \in Files,
         Entry(f, off).n = ino, NEW name \in Names,
         NEW g, g = Put(SetEntry(f, off, 0, name), ino, Less(f.inode[ino])),
         g.inode[ino].nlink > 0
  PROVE  Follows(f, g)
<1>1. /\ Sound(f) /\ Capped(f) /\ Rooted(f) /\ Named(f) /\ f \in Disks /\ Fits(f)
      /\ ino \in Inos /\ ino # 0 /\ ino # ROOT_INO /\ ROOT_INO \in Inos /\ 0 \in Inos
  BY InosAre, CappedMeans DEF Good, Orderly, Sound
<1>2. /\ Sound(g) /\ Capped(g)
      /\ \A j \in Inos, s \in Slots : Held(g, j, s) = Held(f, j, s)
      /\ \A j \in Inos : j # ino => g.inode[j] = f.inode[j]
      /\ g.inode[ino].ftype = f.inode[ino].ftype
      /\ g.inode[ino].nlink = f.inode[ino].nlink - 1 /\ f.inode[ino].nlink \in Nat \ {0}
      /\ g.inode[ino].size = IF f.inode[ino].ftype = "symlink" THEN 0 ELSE f.inode[ino].size
      /\ EntryOffsets(g) = EntryOffsets(f)
      /\ Entry(g, off).n = 0
      /\ \A other \in EntryOffsets(f) \ {off} : Entry(g, other) = Entry(f, other)
  BY UnlinkedIs
<1>3. Rooted(g)
  <2>1. g.inode[ino].nlink # 0
    BY <1>2
  <2> QED BY ZenonT(60), <1>1, <1>2, <2>1, InosAre DEF Rooted
<1>4. Named(g) /\ EntriesFollow(f, g)
  <2>1. \A i \in Files : g.inode[i].nlink =
          IF i = ino THEN f.inode[i].nlink - 1 ELSE f.inode[i].nlink
    BY <1>2, InosAre
  <2> QED BY <1>1, <1>2, <2>1, NamedLess
<1>5. ASSUME NEW j \in Files, Writers(j) # {} PROVE SafeFor(f, g, j)
  <2>1. j \in Inos /\ f.inode[j].ftype # "symlink"
    BY <1>5, InosAre DEF WritersLive
  <2>2. g.inode[j].ftype = f.inode[j].ftype /\ g.inode[j].size = f.inode[j].size
    BY <1>2, <2>1
  <2>3. f.inode[j].nlink > 0 => g.inode[j].nlink > 0
    BY <1>2, <2>1
  <2>4. f.inode[j].size <= g.inode[j].size
    <3>1. f.inode[j].size \in Nat
      BY <1>1, <2>1, CappedMeans
    <3> QED BY <2>2, <3>1
  <2> QED BY <1>1, <1>2, <2>1, <2>2, <2>3, <2>4, SameHeldSafe
<1>6. f.inode[ROOT_INO].size <= g.inode[ROOT_INO].size
  <2>1. f.inode[ROOT_INO].size \in Nat /\ g.inode[ROOT_INO] = f.inode[ROOT_INO]
    BY <1>1, <1>2, CappedMeans
  <2> QED BY <2>1
<1> QED BY <1>2, <1>3, <1>4, <1>5, <1>6 DEF Follows, Good, Orderly

(* ospfs_unlink() of the last name: the blocks go too.                     *)
LEMMA RemovedIs ==
  ASSUME NEW f, Careful(habit), Good(f),
         NEW off \in EntryOffsets(f), NEW ino \in Files,
         Entry(f, off).n = ino, NEW name \in Names,
         NEW g, g = Put(SetEntry(f, off, 0, name), ino, Less(f.inode[ino])),
         g.inode[ino].nlink = 0,
         f.inode[ino].ftype = "symlink" \/ NBlocksOf(f, ino) <= NDIRECT + 1
  PROVE  LET h == ChangeSize(g, ino, 0).fs
         IN /\ Orderly(h) /\ h.inode[ROOT_INO] = f.inode[ROOT_INO] /\ h.inode[ino].nlink = 0
            /\ \A i \in Files : h.inode[i].nlink =
                 IF i = ino THEN f.inode[i].nlink - 1 ELSE f.inode[i].nlink
            /\ \A i \in Files : h.inode[i].ftype = f.inode[i].ftype
            /\ \A j \in Inos : j # ino =>
                 (h.inode[j] = f.inode[j] /\ \A s \in Slots : Held(h, j, s) = Held(f, j, s))
            /\ \A j \in Files \ {ino} : FileStays(f, h, j)
            /\ EntryOffsets(h) = EntryOffsets(f) /\ Entry(h, off).n = 0
            /\ \A other \in EntryOffsets(f) \ {off} : Entry(h, other) = Entry(f, other)
<1> DEFINE R == ChangeSize(g, ino, 0)
           h == R.fs
<1>1. /\ Sound(f) /\ Capped(f) /\ Rooted(f) /\ Named(f) /\ f \in Disks /\ Fits(f)
      /\ ino \in Inos /\ ino # 0 /\ ino # ROOT_INO /\ ROOT_INO \in Inos /\ 0 \in Inos
  BY InosAre, CappedMeans DEF Good, Orderly, Sound
<1>2. /\ Sound(g) /\ Capped(g)
      /\ \A j \in Inos, s \in Slots : Held(g, j, s) = Held(f, j, s)
      /\ \A j \in Inos : j # ino => g.inode[j] = f.inode[j]
      /\ g.inode[ino].ftype = f.inode[ino].ftype
      /\ g.inode[ino].nlink = f.inode[ino].nlink - 1 /\ f.inode[ino].nlink \in Nat \ {0}
      /\ g.inode[ino].size = IF f.inode[ino].ftype = "symlink" THEN 0 ELSE f.inode[ino].size
      /\ EntryOffsets(g) = EntryOffsets(f)
      /\ Entry(g, off).n = 0
      /\ \A other \in EntryOffsets(f) \ {off} : Entry(g, other) = Entry(f, other)
      /\ \A j \in Files \ {ino} : FileStays(f, g, j)
  BY UnlinkedIs
<1>3. g \in Disks /\ 0 \in Nat /\ 0 <= MaxSize /\ 0 \in 0..UINT - 1
  <2>1. MaxSize \in Nat
    BY CarefulMeans DEF MaxSize
  <2> QED BY <1>2, <2>1, SizeAssumption DEF Sound
<1>4. Reached(g, h, ino) /\ h.inode[ino].size = 0
  <2>1. CASE f.inode[ino].ftype = "symlink"
    <3>1. g.inode[ino].size = 0
      BY <1>2, <2>1
    <3>2. NBlocksOf(g, ino) = 0
      BY <3>1, NoneForZero DEF NBlocksOf
    <3>3. h = Resize(g, ino, 0)
      BY <1>1, <1>3, <3>2, Emptied
    <3>4. NBlocks(0) = NBlocksOf(g, ino)
      BY <3>2, NoneForZero
    <3> HIDE DEF h
    <3>5. Reached(g, g, ino)
      BY <1>1, <1>2, ReachedItself
    <3>6. Reached(g, Resize(g, ino, 0), ino) /\ Resize(g, ino, 0).inode[ino].size = 0
      BY <1>1, <1>3, <3>4, <3>5, ResizeReached
    <3> QED BY <3>3, <3>6
  <2>2. CASE f.inode[ino].ftype # "symlink"
    <3>1. g.inode[ino].ftype # "symlink" /\ NBlocksOf(g, ino) = NBlocksOf(f, ino)
      BY <1>2, <2>2 DEF NBlocksOf
    <3>2. NBlocksOf(g, ino) <= NDIRECT + 1 /\ NBlocks(0) <= NBlocksOf(g, ino)
      BY <1>1, <1>2, <1>3, <2>2, <3>1, NoneForZero, CappedMeans
    <3>3. Resized(g, ino, 0, R) /\ R.r = "ok"
      BY <1>1, <1>2, <1>3, <3>1, <3>2, Shrinking
    <3> HIDE DEF R
    <3> QED BY <3>3 DEF Resized
  <2> QED BY <2>1, <2>2
<1> HIDE DEF h
<1>5. /\ Sound(h)
      /\ \A j \in Inos : j # ino =>
           (h.inode[j] = g.inode[j] /\ \A s \in Slots : Held(h, j, s) = Held(g, j, s))
      /\ \A j \in Inos : h.inode[j].ftype = g.inode[j].ftype /\ h.inode[j].nlink = g.inode[j].nlink
  BY <1>4 DEF Reached, SameFile
<1>6. Capped(h)
  BY <1>2, <1>3, <1>4, <1>5 DEF Capped
<1>7. Rooted(h)
  BY <1>1, <1>2, <1>4, <1>5, InosAre DEF Rooted
<1>8. /\ h.inode[ROOT_INO] = f.inode[ROOT_INO] /\ g.inode[ROOT_INO] = f.inode[ROOT_INO]
      /\ f.inode[ROOT_INO].size \in Nat /\ g.inode[ROOT_INO].ftype # "symlink"
  BY <1>1, <1>2, <1>5, CappedMeans DEF Rooted
<1>9. /\ EntryOffsets(h) = EntryOffsets(f)
      /\ \A other \in EntryOffsets(f) : Entry(h, other) = Entry(g, other)
  <2>1. g.inode[ROOT_INO].size <= h.inode[ROOT_INO].size
    BY <1>8
  <2>2. \A other \in EntryOffsets(g) : Entry(h, other) = Entry(g, other)
    BY <1>1, <1>2, <1>4, <1>6, <1>8, <2>1, ReachedEntries
  <2> QED BY <1>2, <1>8, <2>2 DEF EntryOffsets
<1>10. ASSUME NEW j \in Files \ {ino} PROVE FileStays(f, h, j)
  <2>1. j \in Inos /\ FileStays(f, g, j)
    BY <1>2, InosAre
  <2>2. FileStays(g, h, j)
    BY <1>1, <1>2, <1>4, <2>1, ReachedStays
  <2> QED BY <2>1, <2>2, StaysOn
<1>11. \A i \in Files :
         /\ h.inode[i].nlink = IF i = ino THEN f.inode[i].nlink - 1 ELSE f.inode[i].nlink
         /\ h.inode[i].ftype = f.inode[i].ftype
  BY <1>2, <1>5, InosAre
<1>12. \A j \in Inos : j # ino =>
         (h.inode[j] = f.inode[j] /\ \A s \in Slots : Held(h, j, s) = Held(f, j, s))
  BY <1>2, <1>5
<1>13. /\ Entry(h, off).n = 0
      /\ \A other \in EntryOffsets(f) \ {off} : Entry(h, other) = Entry(f, other)
  BY <1>2, <1>9
<1>14. Orderly(h) /\ h.inode[ino].nlink = 0
  BY <1>1, <1>5, <1>6, <1>7 DEF Orderly
<1> QED BY <1>8, <1>9, <1>10, <1>11, <1>12, <1>13, <1>14 DEF h

LEMMA FollowsRemoved ==
  ASSUME NEW f, Careful(habit), Good(f), WritersLive(f),
         NEW off \in EntryOffsets(f), NEW ino \in Files,
         Entry(f, off).n = ino, NEW name \in Names,
         NEW g, g = Put(SetEntry(f, off, 0, name), ino, Less(f.inode[ino])),
         g.inode[ino].nlink = 0, Writers(ino) = {},
         f.inode[ino].ftype = "symlink" \/ NBlocksOf(f, ino) <= NDIRECT + 1
  PROVE  Follows(f, ChangeSize(g, ino, 0).fs)
<1> DEFINE h == ChangeSize(g, ino, 0).fs
<1>1. /\ Capped(f) /\ Named(f) /\ f \in Disks /\ Fits(f) /\ ROOT_INO \in Inos
  BY InosAre, CappedMeans DEF Good, Orderly, Sound
<1>2. /\ Orderly(h) /\ h.inode[ROOT_INO] = f.inode[ROOT_INO]
      /\ \A i \in Files : h.inode[i].nlink =
           IF i = ino THEN f.inode[i].nlink - 1 ELSE f.inode[i].nlink
      /\ \A j \in Inos : j # ino =>
           (h.inode[j] = f.inode[j] /\ \A s \in Slots : Held(h, j, s) = Held(f, j, s))
      /\ EntryOffsets(h) = EntryOffsets(f) /\ Entry(h, off).n = 0
      /\ \A other \in EntryOffsets(f) \ {off} : Entry(h, other) = Entry(f, other)
  BY RemovedIs
<1> HIDE DEF h
<1>3. Named(h) /\ EntriesFollow(f, h)
  BY <1>1, <1>2, NamedLess
<1>4. ASSUME NEW j \in Files, Writers(j) # {} PROVE SafeFor(f, h, j)
  <2>1. j \in Inos /\ j # ino
    BY <1>4, InosAre
  <2>2. h.inode[j] = f.inode[j] /\ \A s \in Slots : Held(h, j, s) = Held(f, j, s)
    BY <1>2, <2>1
  <2>3. f.inode[j].size <= h.inode[j].size
    <3>1. f.inode[j].size \in Nat
      BY <1>1, <2>1, CappedMeans
    <3> QED BY <2>2, <3>1
  <2> QED BY <1>1, <2>1, <2>2, <2>3, SameHeldSafe
<1>5. f.inode[ROOT_INO].size <= h.inode[ROOT_INO].size
  <2>1. f.inode[ROOT_INO].size \in Nat
    BY <1>1, CappedMeans
  <2> QED BY <1>2, <2>1
<1> QED BY <1>2, <1>3, <1>4, <1>5 DEF Follows, Good, h

---------------------------------------------------------------------------
(* Writes in progress                                                      *)

(* A write that stands before a copy.                                      *)
Pending == [ino : Files, pos : Nat, left : Nat, val : Values, block : Nat]

(* A write that has words to go, within its file, and has looked the right *)
(* block up.                                                               *)
WritesWell(f, w) ==
  /\ w \in Pending
  /\ f.inode[w.ino].ftype = "reg" /\ f.inode[w.ino].nlink > 0
  /\ w.left > 0 /\ w.pos + w.left <= f.inode[w.ino].size
  /\ w.block = Blockno(f, w.ino, w.pos)

(* The block of a write is a block of its file.                            *)
LEMMA WritesWhere ==
  ASSUME NEW f, Careful(habit), Orderly(f), NEW w, WritesWell(f, w)
  PROVE  /\ w # Idle /\ w.ino \in Files /\ w.ino \in Inos /\ w.pos \in Nat /\ w.left \in Nat
         /\ (w.pos \div BLKSIZE) \in Nat /\ (w.pos \div BLKSIZE) < Count(f, w.ino)
         /\ w.block = Held(f, w.ino, Place(w.pos \div BLKSIZE))
         /\ w.block \in DataBlocks \ f.free
<1>1. /\ w.ino \in Files /\ w.ino \in Inos /\ w.ino # 0 /\ w.pos \in Nat /\ w.left \in Nat
           /\ w.left > 0
      /\ w.pos + w.left <= f.inode[w.ino].size /\ f.inode[w.ino].ftype # "symlink"
      /\ w.block = Blockno(f, w.ino, w.pos)
  BY InosAre DEF WritesWell, Pending
<1>2. f \in Disks /\ Sound(f) /\ Capped(f) /\ f.inode[w.ino].size \in Nat
  BY <1>1, CappedMeans DEF Orderly, Sound
<1>3. w.pos < f.inode[w.ino].size
  BY <1>1, <1>2
<1>4. w # Idle
  BY <1>1 DEF Idle
<1> QED BY <1>1, <1>2, <1>3, <1>4, BlocknoIs

(* A write that nobody disturbs is in place still.                         *)
LEMMA WritesOn ==
  ASSUME NEW f, NEW g, Careful(habit), Orderly(f), Orderly(g), NEW w, WritesWell(f, w),
         SafeFor(f, g, w.ino)
  PROVE  WritesWell(g, w)
<1> DEFINE k == w.pos \div BLKSIZE
           i == w.ino
<1>1. /\ i \in Inos /\ w.pos \in Nat /\ w.left \in Nat /\ k \in Nat /\ k < Count(f, i)
      /\ w.block = Held(f, i, Place(k))
  BY WritesWhere
<1>2. /\ w \in Pending /\ f.inode[i].ftype = "reg" /\ f.inode[i].nlink > 0
      /\ w.left > 0 /\ w.pos + w.left <= f.inode[i].size
  BY DEF WritesWell
<1>3. /\ g.inode[i].ftype = "reg" /\ g.inode[i].nlink > 0
      /\ f.inode[i].size <= g.inode[i].size /\ Held(g, i, Place(k)) = Held(f, i, Place(k))
  BY <1>1, <1>2 DEF SafeFor
<1>4. f \in Disks /\ g \in Disks /\ f.inode[i].size \in Nat /\ g.inode[i].size \in Nat
      /\ Sound(g) /\ Capped(g)
  BY <1>1, CappedMeans DEF Orderly, Sound
<1>5. w.pos + w.left <= g.inode[i].size /\ w.pos < g.inode[i].size
  BY <1>1, <1>2, <1>3, <1>4
<1>6. Blockno(g, i, w.pos) = Held(g, i, Place(k))
  BY <1>1, <1>3, <1>4, <1>5, BlocknoIs
<1> QED BY <1>1, <1>2, <1>3, <1>5, <1>6 DEF WritesWell

(* The block of a write that goes on is looked up, and is there.           *)
LEMMA LocatedIs ==
  ASSUME NEW f, Careful(habit), Orderly(f), NEW w \in Pending,
         f.inode[w.ino].ftype = "reg", f.inode[w.ino].nlink > 0,
         w.pos + w.left <= f.inode[w.ino].size
  PROVE  Located(f, w) = Idle \/ WritesWell(f, Located(f, w))
<1> SUFFICES ASSUME w.left # 0, Blockno(f, w.ino, w.pos) # 0
             PROVE  WritesWell(f, Located(f, w))
  BY DEF Located
<1> DEFINE b == Blockno(f, w.ino, w.pos)
           v == [w EXCEPT !.block = b]
<1>1. /\ w.ino \in Files /\ w.ino \in Inos /\ w.pos \in Nat /\ w.left \in Nat /\ w.left > 0
  BY InosAre DEF Pending
<1>2. f \in Disks /\ Sound(f) /\ Capped(f) /\ f.inode[w.ino].size \in Nat
  BY <1>1, CappedMeans DEF Orderly, Sound
<1>3. w.pos < f.inode[w.ino].size
  BY <1>1, <1>2
<1>4. b \in DataBlocks \ f.free
  BY <1>1, <1>2, <1>3, BlocknoIs
<1>5. b \in Nat
  BY <1>4, DataRange
<1>6. Located(f, w) = v
  BY DEF Located
<1> HIDE DEF b
<1>7. /\ v \in Pending /\ v.ino = w.ino /\ v.pos = w.pos /\ v.left = w.left /\ v.block = b
  BY <1>5 DEF Pending
<1> QED BY <1>1, <1>6, <1>7 DEF WritesWell, b

LEMMA MinOfTwo ==
  ASSUME NEW a \in Nat, NEW b \in Nat
  PROVE  Min({a, b}) = IF a <= b THEN a ELSE b
<1>1. Min({a, b}) \in {a, b} /\ \A x \in {a, b} : Min({a, b}) <= x
  <2>1. {a, b} \in SUBSET Nat /\ {a, b} # {}
    OBVIOUS
  <2> QED BY <2>1, MinIs
<1> QED BY <1>1

(* A copy takes a word at least.                                           *)
LEMMA ChunkIs ==
  ASSUME NEW w, w.pos \in Nat, w.left \in Nat, w.left > 0
  PROVE  Chunk(w) \in 1..w.left
<1> DEFINE a == BLKSIZE - (w.pos % BLKSIZE)
           b == w.left
<1>1. (w.pos % BLKSIZE) \in Index /\ BLKSIZE \in Nat
  BY DivMod, SizeAssumption
<1>2. a \in Nat /\ a > 0
  BY <1>1 DEF Index
<1>3. Chunk(w) = Min({a, b})
  BY DEF Chunk
<1> HIDE DEF a
<1> QED BY <1>2, <1>3, MinOfTwo

(* One copy_from_user(): a block of the file gets other words.             *)
LEMMA FollowsCopied ==
  ASSUME NEW f, Careful(habit), Good(f), NEW w, WritesWell(f, w)
  PROVE  /\ Follows(f, Copied(f, w))
         /\ Copied(f, w).inode = f.inode
         /\ Scribbled(f, Copied(f, w), w.block)
         /\ \A x \in Index : Copied(f, w).disk[w.block][x].n \in {w.val, f.disk[w.block][x].n}
         /\ EntryOffsets(Copied(f, w)) = EntryOffsets(f)
         /\ \A off \in EntryOffsets(f) : Entry(Copied(f, w), off) = Entry(f, off)
<1> DEFINE i == w.ino
           b == w.block
           k == w.pos \div BLKSIZE
           row == [x \in Index |-> IF x \in ChunkWords(w) THEN [n |-> w.val, name |-> NoName]
                                   ELSE f.disk[b][x]]
           g == Copied(f, w)
<1>1. /\ Sound(f) /\ Capped(f) /\ Rooted(f) /\ Named(f) /\ f \in Disks /\ Fits(f)
      /\ ROOT_INO \in Inos /\ f.inode[ROOT_INO].ftype # "symlink"
      /\ i \in Inos /\ i # ROOT_INO /\ Orderly(f)
  BY InosAre, CappedMeans, WritesWhere DEF Good, Orderly, Sound, Rooted
<1>2. /\ k \in Nat /\ k < Count(f, i) /\ b = Held(f, i, Place(k)) /\ b \in DataBlocks \ f.free
  BY <1>1, WritesWhere
<1>3. b \in 0..NBLOCKS + 2 /\ b # 0 /\ w.val \in Nat
  BY <1>2, DataRange, SizeAssumption DEF WritesWell, Pending
<1>4. row \in [Index -> Cells]
  <2>1. f.disk[b] \in [Index -> Cells]
    BY <1>1, <1>3, Fields
  <2> HIDE DEF b
  <2> QED BY <1>3, <2>1 DEF Cells
<1>5. g = [f EXCEPT !.disk[b] = row] /\ \A x \in Index : row[x].n \in {w.val, f.disk[b][x].n}
  BY DEF Copied
<1> HIDE DEF g, row, b, k
<1>6. /\ g \in Disks /\ g.free = f.free /\ g.inode = f.inode
      /\ \A c \in 0..NBLOCKS + 2 : c # b => g.disk[c] = f.disk[c]
      /\ g.disk[b] = row
  BY <1>1, <1>3, <1>4, <1>5 DEF Disks
<1>7. Scribbled(f, g, Held(f, i, Place(k)))
  BY <1>2, <1>6 DEF Scribbled
<1>8. /\ Sound(g) /\ \A j \in Inos, s \in Slots : Held(g, j, s) = Held(f, j, s)
      /\ \A j \in Inos : Count(g, j) = Count(f, j)
  <2> HIDE DEF i
  <2> QED BY <1>1, <1>2, <1>7, ScribbledSound
<1>9. Capped(g) /\ Rooted(g)
  BY <1>1, <1>6 DEF Capped, Rooted
<1>10. \A off \in EntryOffsets(f) : Entry(g, off) = Entry(f, off)
  <2>1. ASSUME NEW m \in Nat, m < Count(f, ROOT_INO)
        PROVE  /\ Held(g, ROOT_INO, Place(m)) = Held(f, ROOT_INO, Place(m))
               /\ g.disk[Held(f, ROOT_INO, Place(m))] = f.disk[Held(f, ROOT_INO, Place(m))]
    <3>1. Place(m) \in Slots /\ Place(m) \in Used(Count(f, ROOT_INO))
      BY <1>1, <2>1, CountType, PlaceUsed DEF Fits
    <3>2. Place(k) \in Slots
      BY <1>1, <1>2, CountType, PlaceUsed DEF Fits
    <3>3. Held(f, ROOT_INO, Place(m)) \in DataBlocks
      BY <1>1, <3>1 DEF Sound, Whole
    <3>4. Held(f, ROOT_INO, Place(m)) # b
      <4>1. Apart(f)
        BY <1>1 DEF Sound
      <4> QED BY <1>1, <1>2, <1>3, <3>1, <3>2, <4>1 DEF Apart
    <3>5. Held(f, ROOT_INO, Place(m)) \in 0..NBLOCKS + 2
      BY <3>3, DataRange
    <3> QED BY <1>1, <1>6, <1>8, <3>1, <3>4, <3>5
  <2>2. f.inode[ROOT_INO].size <= g.inode[ROOT_INO].size /\ g.inode[ROOT_INO].ftype # "symlink"
    BY <1>1, <1>6, CappedMeans
  <2> QED BY <1>1, <1>8, <1>9, <2>1, <2>2, EntriesAre
<1>11. EntryOffsets(g) = EntryOffsets(f)
  BY <1>6 DEF EntryOffsets
<1>12. Named(g) /\ EntriesFollow(f, g)
  BY <1>1, <1>6, <1>10, <1>11, NamedSame
<1>13. ASSUME NEW j \in Files PROVE SafeFor(f, g, j)
  <2>1. j \in Inos /\ f.inode[j].size <= g.inode[j].size
    BY <1>1, <1>6, InosAre, CappedMeans
  <2> QED BY <1>1, <1>6, <1>8, <2>1, SameHeldSafe
<1>14. f.inode[ROOT_INO].size <= g.inode[ROOT_INO].size
  BY <1>1, <1>6, CappedMeans
<1>15. Follows(f, g)
  BY <1>6, <1>8, <1>9, <1>12, <1>13, <1>14 DEF Follows, Good, Orderly
<1> QED BY <1>2, <1>5, <1>6, <1>7, <1>10, <1>11, <1>15 DEF g, b

---------------------------------------------------------------------------
(* Listing the directory.                                                  *)
Listings == [f_pos : Nat, seen : [Names -> Nat], stayed : SUBSET Names, came : SUBSET Names]

(* What the lister has been given: of the names that stayed, those whose   *)
(* entries lie below its place, once each.                                 *)
ListingOK(f, l) ==
  \/ l = Closed
  \/ /\ l \in Listings
     /\ l.f_pos <= EndOfDir(f)
     /\ l.stayed \subseteq NamesIn(f) /\ NamesIn(f) \subseteq l.came
     /\ \A off \in EntryOffsets(f) :
          (Entry(f, off).n # 0 /\ Entry(f, off).name \in l.stayed) =>
            l.seen[Entry(f, off).name] = IF off + 2 < l.f_pos THEN 1 ELSE 0
     /\ \A name \in Names : l.seen[name] > 0 => name \in l.came

(* The names of a directory are those of its entries.                      *)
LEMMA NamesAre ==
  ASSUME NEW f, Named(f)
  PROVE  /\ NamesIn(f) \subseteq Names
         /\ \A name \in NamesIn(f) : \E off \in EntryOffsets(f) :
              Entry(f, off).n # 0 /\ Entry(f, off).name = name
         /\ \A off \in EntryOffsets(f) : Entry(f, off).n # 0 => Entry(f, off).name \in NamesIn(f)
BY DEF Named, NamesIn

LEMMA ListingIs ==
  ASSUME NEW l \in Listings
  PROVE  /\ l # Closed /\ l.f_pos \in Nat
         /\ l.seen \in [Names -> Nat] /\ l.stayed \subseteq Names /\ l.came \subseteq Names
<1>1. l.f_pos # -1 /\ l.f_pos \in Nat
  BY DEF Listings
<1>2. Closed.f_pos = -1
  BY DEF Closed
<1> QED BY <1>1, <1>2 DEF Listings

(* An operation that follows the rules leaves the lister right: a name     *)
(* that stays is at its place, and one that goes is not expected any more. *)
LEMMA WatchedOK ==
  ASSUME NEW f, NEW g, Careful(habit), Good(f), Follows(f, g), ListingOK(f, listing)
  PROVE  ListingOK(g, Watched(g))
<1>1. CASE listing = Closed
  BY <1>1 DEF Watched, ListingOK
<1>2. CASE listing # Closed
  <2> DEFINE l == Watched(g)
  <2>1. /\ listing \in Listings
        /\ listing.f_pos <= EndOfDir(f)
        /\ listing.stayed \subseteq NamesIn(f) /\ NamesIn(f) \subseteq listing.came
        /\ \A off \in EntryOffsets(f) :
             (Entry(f, off).n # 0 /\ Entry(f, off).name \in listing.stayed) =>
               listing.seen[Entry(f, off).name] = IF off + 2 < listing.f_pos THEN 1 ELSE 0
        /\ \A name \in Names : listing.seen[name] > 0 => name \in listing.came
    BY <1>2 DEF ListingOK
  <2>2. l = [listing EXCEPT !.stayed = @ \cap NamesIn(g), !.came = @ \cup NamesIn(g)]
    BY <1>2 DEF Watched
  <2>3. /\ Named(f) /\ Named(g) /\ EntriesFollow(f, g)
             /\ f.inode[ROOT_INO].size <= g.inode[ROOT_INO].size
        /\ f \in Disks /\ g \in Disks
    BY DEF Follows, Good, Orderly, Sound
  <2>4. NamesIn(f) \subseteq Names /\ NamesIn(g) \subseteq Names
    BY <2>3, NamesAre
  <2>5. /\ l.f_pos = listing.f_pos /\ l.seen = listing.seen
        /\ l.stayed = listing.stayed \cap NamesIn(g) /\ l.came = listing.came \cup NamesIn(g)
        /\ l \in Listings
    BY <2>1, <2>2, <2>4 DEF Listings
  <2>6. l.f_pos <= EndOfDir(g)
    <3>1. f.inode[ROOT_INO].size \in Nat /\ g.inode[ROOT_INO].size \in Nat
      BY <2>3, CountType, InosAre
    <3>2. listing.f_pos \in Nat
      BY <2>1, ListingIs
    <3> QED BY <2>1, <2>3, <2>5, <3>1, <3>2 DEF EndOfDir
  <2>7. ASSUME NEW off \in EntryOffsets(g), Entry(g, off).n # 0, Entry(g, off).name \in l.stayed
        PROVE  l.seen[Entry(g, off).name] = IF off + 2 < l.f_pos THEN 1 ELSE 0
    <3> DEFINE name == Entry(g, off).name
    <3>1. name \in NamesIn(f) /\ name \in NamesIn(g) /\ name \in listing.stayed
      BY <2>1, <2>5, <2>7
    <3>2. PICK old \in EntryOffsets(f) : Entry(f, old).n # 0 /\ Entry(f, old).name = name
      BY <3>1, <2>3, NamesAre
    <3>3. old \in EntryOffsets(g) /\ Entry(g, old) = Entry(f, old)
      BY <3>1, <3>2, <2>3 DEF EntriesFollow
    <3>4. old = off
      BY <3>2, <3>3, <2>3, <2>7 DEF Named
    <3> QED BY <3>1, <3>2, <3>4, <2>1, <2>5
  <2>8. \A name \in Names : l.seen[name] > 0 => name \in l.came
    BY <2>1, <2>5
  <2>9. l.stayed \subseteq NamesIn(g) /\ NamesIn(g) \subseteq l.came
    BY <2>5
  <2> HIDE DEF l
  <2>10. ListingOK(g, l)
    BY <2>5, <2>6, <2>7, <2>8, <2>9 DEF ListingOK
  <2> QED BY <2>10 DEF l
<1> QED BY <1>1, <1>2

(* A listing that begins.                                                  *)
LEMMA OpenDirOK ==
  ASSUME NEW f, Careful(habit), Good(f),
         NEW l, l = [f_pos |-> 0, seen |-> [name \in Names |-> 0],
                     stayed |-> NamesIn(f), came |-> NamesIn(f)]
  PROVE  ListingOK(f, l) /\ l # Closed
<1>1. Named(f) /\ f \in Disks
  BY DEF Good, Orderly, Sound
<1>2. NamesIn(f) \subseteq Names
  BY <1>1, NamesAre
<1>3. f.inode[ROOT_INO].size \in Nat
  BY <1>1, CountType, InosAre
<1>4. /\ l \in Listings /\ l.f_pos = 0 /\ l.stayed = NamesIn(f) /\ l.came = NamesIn(f)
      /\ \A name \in Names : l.seen[name] = 0
  BY <1>2 DEF Listings
<1>5. l # Closed
  BY <1>4, ListingIs
<1>6. l.f_pos <= EndOfDir(f)
  BY <1>3, <1>4 DEF EndOfDir
<1>7. \A off \in EntryOffsets(f) : ~(off + 2 < l.f_pos)
  BY <1>3, <1>4 DEF EntryOffsets
<1>8. \A off \in EntryOffsets(f) :
          (Entry(f, off).n # 0 /\ Entry(f, off).name \in l.stayed) =>
            l.seen[Entry(f, off).name] = IF off + 2 < l.f_pos THEN 1 ELSE 0
  BY <1>2, <1>4, <1>7
<1>9. \A name \in Names : l.seen[name] > 0 => name \in l.came
  BY <1>4
<1> QED BY <1>4, <1>5, <1>6, <1>8, <1>9 DEF ListingOK

---------------------------------------------------------------------------
(* ospfs_dir_readdir()                                                     *)

(* A call to ospfs_dir_readdir() does not go back, and stops at the end.   *)
LEMMA StopIs ==
  ASSUME NEW f, NEW from \in Nat, NEW room, EndOfDir(f) \in Nat, from <= EndOfDir(f)
  PROVE  Stop(f, from, room) \in from..EndOfDir(f)
<1> DEFINE S == {EndOfDir(f)} \cup {pos \in from..(EndOfDir(f) - 1) :
         IsEntry(f, pos) /\ Cardinality(Entries(f, from, pos)) = room}
<1>1. S \in SUBSET Nat /\ S # {}
  OBVIOUS
<1>2. \A x \in S : x \in from..EndOfDir(f)
  OBVIOUS
<1>3. Stop(f, from, room) = Min(S)
  BY DEF Stop
<1> HIDE DEF S
<1> QED BY <1>1, <1>2, <1>3, MinIs

(* One call gives a name once if its entry lies where the call looked.     *)
LEMMA FilledIs ==
  ASSUME NEW f, Named(f), f.inode[ROOT_INO].size \in Nat,
         NEW from \in Nat, NEW to \in Nat, to <= EndOfDir(f), NEW name \in Names
  PROVE  /\ Filled(f, from, to, name) \in Nat
         /\ Filled(f, from, to, name) > 0 => name \in NamesIn(f)
         /\ \A off \in EntryOffsets(f) : (Entry(f, off).n # 0 /\ Entry(f, off).name = name) =>
              Filled(f, from, to, name) = IF from <= off + 2 /\ off + 2 < to THEN 1 ELSE 0
<1> DEFINE P == {pos \in Entries(f, from, to) \ {0, 1} : Entry(f, pos - 2).name = name}
<1>1. \A pos \in P : /\ pos \in from..(to - 1) /\ pos \in Nat /\ pos >= 2
                     /\ pos - 2 \in EntryOffsets(f)
                     /\ Entry(f, pos - 2).n # 0 /\ Entry(f, pos - 2).name = name
  <2> SUFFICES ASSUME NEW pos \in P
               PROVE  /\ pos \in from..(to - 1) /\ pos \in Nat /\ pos >= 2
                      /\ pos - 2 \in EntryOffsets(f)
                      /\ Entry(f, pos - 2).n # 0 /\ Entry(f, pos - 2).name = name
    OBVIOUS
  <2>1. pos \in Entries(f, from, to) /\ pos # 0 /\ pos # 1 /\ Entry(f, pos - 2).name = name
    OBVIOUS
  <2>2. pos \in from..(to - 1) /\ IsEntry(f, pos)
    BY <2>1 DEF Entries
  <2>3. pos \in Nat /\ pos >= 2
    BY <2>1, <2>2
  <2>4. pos - 2 \in EntryOffsets(f)
    BY <2>2, <2>3 DEF EndOfDir, EntryOffsets
  <2>5. Entry(f, pos - 2).n # 0
    BY <2>2, <2>3 DEF IsEntry
  <2> HIDE DEF P
  <2> QED BY <2>1, <2>2, <2>3, <2>4, <2>5
<1>2. \A pos \in Nat : (/\ pos >= from /\ pos < to /\ pos >= 2
                        /\ Entry(f, pos - 2).n # 0 /\ Entry(f, pos - 2).name = name) => pos \in P
  BY DEF Entries, IsEntry
<1>3. Filled(f, from, to, name) = Cardinality(P)
  BY DEF Filled
<1> HIDE DEF P
<1>4. IsFiniteSet(P)
  <2>1. IsFiniteSet(from..(to - 1))
    BY FS_Interval
  <2>2. P \subseteq from..(to - 1)
    BY <1>1
  <2> QED BY <2>1, <2>2, FS_Subset
<1>5. Cardinality(P) \in Nat /\ (Cardinality(P) = 0 <=> P = {})
  BY <1>4, FS_CardinalityType, FS_EmptySet
<1>6. Cardinality(P) > 0 => name \in NamesIn(f)
  <2>1. SUFFICES ASSUME P # {} PROVE name \in NamesIn(f)
    BY <1>5
  <2>2. PICK pos \in P : TRUE
    BY <2>1
  <2> QED BY <1>1, <2>2, NamesAre
<1>7. ASSUME NEW off \in EntryOffsets(f), Entry(f, off).n # 0, Entry(f, off).name = name
      PROVE  Cardinality(P) = IF from <= off + 2 /\ off + 2 < to THEN 1 ELSE 0
  <2>1. off \in Nat /\ off + 2 \in Nat /\ off + 2 >= 2 /\ (off + 2) - 2 = off
    BY DEF EntryOffsets
  <2>2. \A pos \in P : pos - 2 = off
    BY <1>1, <1>7 DEF Named
  <2>3. \A pos \in P : pos = off + 2
    BY <1>1, <2>1, <2>2
  <2>4. CASE from <= off + 2 /\ off + 2 < to
    <3>1. off + 2 \in P
      BY <1>2, <1>7, <2>1, <2>4
    <3>2. P = {off + 2}
      BY <2>3, <3>1
    <3> QED BY <2>4, <3>2, FS_Singleton
  <2>5. CASE ~(from <= off + 2 /\ off + 2 < to)
    <3>1. P = {}
      BY <1>1, <2>1, <2>3, <2>5
    <3> QED BY <2>5, <3>1, FS_EmptySet
  <2> QED BY <2>4, <2>5
<1> QED BY <1>3, <1>5, <1>6, <1>7

(* A call to ospfs_dir_readdir() leaves the lister right.                  *)
LEMMA ReaddirOK ==
  ASSUME NEW f, Careful(habit), Good(f), NEW l, l # Closed, ListingOK(f, l), NEW room,
         NEW m, m = [l EXCEPT !.f_pos = Stop(f, l.f_pos, room),
           !.seen = [name \in Names |-> @[name] + Filled(f, l.f_pos, Stop(f, l.f_pos, room), name)]]
  PROVE  ListingOK(f, m) /\ m # Closed
<1> DEFINE from == l.f_pos
           to == Stop(f, from, room)
<1>1. /\ l \in Listings
      /\ from <= EndOfDir(f)
      /\ l.stayed \subseteq NamesIn(f) /\ NamesIn(f) \subseteq l.came
      /\ \A off \in EntryOffsets(f) :
           (Entry(f, off).n # 0 /\ Entry(f, off).name \in l.stayed) =>
             l.seen[Entry(f, off).name] = IF off + 2 < from THEN 1 ELSE 0
      /\ \A name \in Names : l.seen[name] > 0 => name \in l.came
  BY DEF ListingOK
<1>2. /\ from \in Nat /\ l.seen \in [Names -> Nat]
      /\ l.stayed \subseteq Names /\ l.came \subseteq Names
  BY <1>1, ListingIs
<1>3. Named(f) /\ f.inode[ROOT_INO].size \in Nat
  BY CountType, InosAre DEF Good, Orderly, Sound
<1>4. EndOfDir(f) \in Nat
  BY <1>3 DEF EndOfDir
<1> HIDE DEF from
<1>5. to \in from..EndOfDir(f) /\ to \in Nat /\ to <= EndOfDir(f)
  <2>1. to \in from..EndOfDir(f)
    BY <1>1, <1>2, <1>4, StopIs
  <2> HIDE DEF to
  <2> QED BY <1>2, <1>4, <2>1
<1>6. m = [l EXCEPT !.f_pos = to, !.seen = [name \in Names |-> @[name] + Filled(f, from, to, name)]]
  BY DEF from
<1> HIDE DEF to
<1>7. \A name \in Names : Filled(f, from, to, name) \in Nat
  BY <1>2, <1>3, <1>5, FilledIs
<1>8. /\ m \in Listings /\ m.f_pos = to /\ m.stayed = l.stayed /\ m.came = l.came
      /\ \A name \in Names : m.seen[name] = l.seen[name] + Filled(f, from, to, name)
  <2> DEFINE counts == [name \in Names |-> l.seen[name] + Filled(f, from, to, name)]
  <2>1. counts \in [Names -> Nat]
    BY <1>2, <1>7
  <2>2. \A name \in Names : counts[name] = l.seen[name] + Filled(f, from, to, name)
    OBVIOUS
  <2>3. m = [l EXCEPT !.f_pos = to, !.seen = counts]
    BY <1>6
  <2> HIDE DEF counts
  <2>4. /\ m \in Listings /\ m.f_pos = to /\ m.stayed = l.stayed /\ m.came = l.came
        /\ m.seen = counts
    BY <1>1, <1>5, <2>1, <2>3 DEF Listings
  <2> QED BY <2>2, <2>4
<1>9. ASSUME NEW off \in EntryOffsets(f), Entry(f, off).n # 0, Entry(f, off).name \in m.stayed
      PROVE  m.seen[Entry(f, off).name] = IF off + 2 < m.f_pos THEN 1 ELSE 0
  <2> DEFINE name == Entry(f, off).name
  <2>1. name \in Names /\ name \in l.stayed
    BY <1>2, <1>8, <1>9
  <2>2. Filled(f, from, to, name) = IF from <= off + 2 /\ off + 2 < to THEN 1 ELSE 0
    BY <1>2, <1>3, <1>5, <1>9, <2>1, FilledIs
  <2>3. l.seen[name] = IF off + 2 < from THEN 1 ELSE 0
    BY <1>1, <1>9, <2>1
  <2>4. m.seen[name] = l.seen[name] + Filled(f, from, to, name)
    BY <1>8, <2>1
  <2>5. off + 2 \in Nat
    BY <1>3 DEF EntryOffsets
  <2> HIDE DEF name
  <2>6. m.seen[name] = IF off + 2 < to THEN 1 ELSE 0
    BY <1>2, <1>5, <2>2, <2>3, <2>4, <2>5
  <2> QED BY <1>8, <2>6 DEF name
<1>10. ASSUME NEW name \in Names, m.seen[name] > 0
       PROVE  name \in m.came
  <2>1. l.seen[name] \in Nat /\ Filled(f, from, to, name) \in Nat
    BY <1>2, <1>7
  <2>2. l.seen[name] > 0 \/ Filled(f, from, to, name) > 0
    BY <1>8, <1>10, <2>1
  <2>3. Filled(f, from, to, name) > 0 => name \in NamesIn(f)
    BY <1>2, <1>3, <1>5, FilledIs
  <2> QED BY <1>1, <1>8, <2>2, <2>3
<1>11. m # Closed
  BY <1>8, ListingIs
<1> QED BY <1>1, <1>5, <1>8, <1>9, <1>10, <1>11 DEF ListingOK

(* A lister that is right was given each name that stayed once.            *)
LEMMA ListedOnce ==
  ASSUME Good(fs), ListingOK(fs, listing)
  PROVE  ListsWhatStays
<1> SUFFICES ASSUME listing # Closed
             PROVE  /\ \A name \in listing.stayed : listing.seen[name] <= 1
                    /\ AllListed => \A name \in listing.stayed : listing.seen[name] = 1
                    /\ \A name \in Names : listing.seen[name] > 0 => name \in listing.came
  BY DEF ListsWhatStays
<1>1. /\ listing \in Listings
      /\ listing.stayed \subseteq NamesIn(fs)
      /\ \A off \in EntryOffsets(fs) :
           (Entry(fs, off).n # 0 /\ Entry(fs, off).name \in listing.stayed) =>
             listing.seen[Entry(fs, off).name] = IF off + 2 < listing.f_pos THEN 1 ELSE 0
      /\ \A name \in Names : listing.seen[name] > 0 => name \in listing.came
  BY DEF ListingOK
<1>2. Named(fs) /\ fs.inode[ROOT_INO].size \in Nat
  BY CountType, InosAre DEF Good, Orderly, Sound
<1>3. ASSUME NEW name \in listing.stayed
      PROVE  \E off \in EntryOffsets(fs) :
               listing.seen[name] = IF off + 2 < listing.f_pos THEN 1 ELSE 0
  <2>1. PICK off \in EntryOffsets(fs) : Entry(fs, off).n # 0 /\ Entry(fs, off).name = name
    BY <1>1, <1>2, <1>3, NamesAre
  <2> QED BY <1>1, <1>3, <2>1
<1>4. \A name \in listing.stayed : listing.seen[name] <= 1
  BY <1>3
<1>5. ASSUME AllListed, NEW name \in listing.stayed
      PROVE  listing.seen[name] = 1
  <2>1. PICK off \in EntryOffsets(fs) :
               listing.seen[name] = IF off + 2 < listing.f_pos THEN 1 ELSE 0
    BY <1>3
  <2>2. off + 2 < listing.f_pos
    BY <1>2, <1>5 DEF AllListed, EndOfDir, EntryOffsets
  <2> QED BY <2>1, <2>2
<1> QED BY <1>1, <1>4, <1>5

---------------------------------------------------------------------------
(* The inductive invariant *)

(* The programs run with habits that the file system can bear.             *)
CarefulHabits == \A h \in Habits : Careful(h)

(* The inductive invariant: the disk is sound and its directory is right;  *)
(* a process in the middle of a write has the right block; the lister has  *)
(* been given what it should; no one writes while the directory is listed. *)
IInv ==
  /\ habit \in Habits
  /\ Good(fs)
  /\ writing = [p \in Procs |-> writing[p]]
  /\ \A p \in Procs : writing[p] = Idle \/ WritesWell(fs, writing[p])
  /\ ListingOK(fs, listing)
  /\ Does("list") => \A p \in Procs : writing[p] = Idle
  /\ listing = Closed \/ Does("list")

(* What is constructed with one habit is as good afterwards.               *)
LEMMA SameHabit ==
  ASSUME habit' = habit
  PROVE  DataBlocks' = DataBlocks /\ Disks' = Disks /\ MaxSize' = MaxSize
BY DEF DataBlocks, Disks, MaxSize

(* A disk that is good stays so as long as the programs keep their habit.  *)
LEMMA GoodNext ==
  ASSUME NEW g, fs' = g, habit' = habit, Good(g)
  PROVE  Good(fs)'
<1>1. Sound(fs)'
  BY SameHabit DEF Good, Orderly, Sound, Whole, Owned, Apart
<1>2. Capped(fs)'
  BY SameHabit DEF Good, Orderly, Capped
<1>3. Rooted(fs)' /\ Named(fs)'
  BY DEF Good, Orderly, Rooted, Named
<1> QED BY <1>1, <1>2, <1>3 DEF Good, Orderly

LEMMA WritersLiveIs ==
  ASSUME IInv
  PROVE  WritersLive(fs)
<1> SUFFICES ASSUME NEW i \in Files, NEW p \in Procs, writing[p].ino = i
             PROVE  fs.inode[i].ftype = "reg" /\ fs.inode[i].nlink > 0
  BY DEF WritersLive, Writers
<1>1. Idle.ino = 0 /\ i # 0
  BY InosAre DEF Idle
<1>2. WritesWell(fs, writing[p])
  BY <1>1 DEF IInv
<1> QED BY <1>2 DEF WritesWell

(* An operation that runs to its end in one step preserves the invariant   *)
(* if it follows the rules.                                                *)
LEMMA OperationKeeps ==
  ASSUME CarefulHabits, IInv, NEW g, Follows(fs, g), Operation(g)
  PROVE  IInv'
<1>1. /\ fs' = g /\ listing' = Watched(g) /\ writing' = writing /\ habit' = habit
      /\ Careful(habit) /\ Good(fs) /\ Good(g)
  BY DEF Operation, IInv, CarefulHabits, Follows
<1>2. Good(fs)'
  BY <1>1, GoodNext
<1>3. ASSUME NEW p \in Procs, writing[p] # Idle
      PROVE  WritesWell(g, writing[p])
  <2>1. WritesWell(fs, writing[p])
    BY <1>3 DEF IInv
  <2>2. writing[p].ino \in Files /\ p \in Writers(writing[p].ino)
    BY <2>1, <1>3 DEF WritesWell, Pending, Writers
  <2>3. SafeFor(fs, g, writing[p].ino)
    BY <2>2 DEF Follows
  <2>4. Orderly(fs) /\ Orderly(g)
    BY <1>1 DEF Good
  <2> QED BY <1>1, <2>1, <2>3, <2>4, WritesOn
<1>4. ListingOK(g, Watched(g))
  BY <1>1, WatchedOK DEF IInv
<1>5. ListingOK(fs, listing)'
  BY <1>1, <1>4
<1>6. \A p \in Procs : (writing[p] = Idle \/ WritesWell(fs, writing[p]))'
  BY <1>1, <1>3
<1>7. listing = Closed => Watched(g) = Closed
  BY DEF Watched
<1> QED BY <1>1, <1>2, <1>5, <1>6, <1>7 DEF IInv, Does

(* So does a write that has looked its next block up.                      *)
LEMMA WriteKeeps ==
  ASSUME CarefulHabits, IInv, ~Does("list"), NEW p \in Procs, NEW g, Follows(fs, g),
         NEW w \in Pending, g.inode[w.ino].ftype = "reg", g.inode[w.ino].nlink > 0,
         w.pos + w.left <= g.inode[w.ino].size, Write(p, g, w)
  PROVE  IInv'
<1> DEFINE next == Located(g, w)
<1>1. /\ fs' = g /\ listing' = listing /\ habit' = habit
      /\ Careful(habit) /\ Good(fs) /\ Good(g) /\ Orderly(fs) /\ Orderly(g)
      /\ writing' = [writing EXCEPT ![p] = next]
      /\ writing = [q \in Procs |-> writing[q]]
  BY DEF Write, IInv, CarefulHabits, Follows, Good
<1>2. next = Idle \/ WritesWell(g, next)
  BY <1>1, LocatedIs
<1> HIDE DEF next
<1>3. /\ writing' = [q \in Procs |-> writing'[q]]
      /\ \A q \in Procs : writing'[q] = IF q = p THEN next ELSE writing[q]
  BY <1>1
<1>4. ASSUME NEW q \in Procs, writing[q] # Idle
      PROVE  WritesWell(g, writing[q])
  <2>1. WritesWell(fs, writing[q])
    BY <1>4 DEF IInv
  <2>2. writing[q].ino \in Files /\ q \in Writers(writing[q].ino)
    BY <2>1, <1>4 DEF WritesWell, Pending, Writers
  <2>3. SafeFor(fs, g, writing[q].ino)
    BY <2>2 DEF Follows
  <2> QED BY <1>1, <2>1, <2>3, WritesOn
<1>5. \A q \in Procs : writing'[q] = Idle \/ WritesWell(g, writing'[q])
  BY <1>2, <1>3, <1>4
<1>6. Good(fs)'
  BY <1>1, GoodNext
<1>7. listing = Closed
  BY DEF IInv
<1>8. ListingOK(fs, listing)'
  BY <1>1, <1>7 DEF ListingOK
<1>9. \A q \in Procs : (writing[q] = Idle \/ WritesWell(fs, writing[q]))'
  BY <1>1, <1>5
<1> QED BY <1>1, <1>3, <1>6, <1>7, <1>8, <1>9 DEF IInv, Does

---------------------------------------------------------------------------
(* A formatted disk.                                                       *)
LEMMA FreshInodeIs ==
  ASSUME NEW i \in Inos
  PROVE  /\ FreshInode(i) \in Inodes
         /\ FreshInode(i).size = 0 /\ FreshInode(i).indirect = 0 /\ FreshInode(i).indirect2 = 0
         /\ \A k \in 0..NDIRECT - 1 : FreshInode(i).direct[k] = 0
         /\ FreshInode(i).ftype = IF i = ROOT_INO THEN "dir" ELSE "reg"
         /\ FreshInode(i).nlink = IF i \in {0, ROOT_INO} THEN 1 ELSE 0
<1> DEFINE none == [b \in 0..(NDIRECT - 1) |-> 0]
<1>1. none \in [0..NDIRECT - 1 -> Nat] /\ \A k \in 0..NDIRECT - 1 : none[k] = 0
  OBVIOUS
<1>2. 0 \in 0..UINT - 1 /\ ROOT_INO # 0
  BY SizeAssumption DEF ROOT_INO
<1>3. NewFile = [size |-> 0, ftype |-> "reg", nlink |-> 1, direct |-> none,
                 indirect |-> 0, indirect2 |-> 0]
  BY DEF NewFile
<1> HIDE DEF none
<1> QED BY <1>1, <1>2, <1>3 DEF FreshInode, NoFile, Inodes

(* A file of no blocks has none.                                           *)
LEMMA NoneUsed == \A s \in Slots : s \notin Used(0)
<1> SUFFICES ASSUME NEW s \in Slots PROVE s \notin Used(0)
  OBVIOUS
<1>1. NDIRECT \in Nat /\ NDIRECT > 0
  BY SizeAssumption
<1>2. \A k \in Index : ~(NDIRECT + k < 0)
  BY <1>1, SizeAssumption DEF Index
<1>3. \A k \in 0..NDIRECT - 1 : ~(k < 0)
  OBVIOUS
<1>4. /\ \A k \in 0..NDIRECT - 1 : <<"direct", k>> \notin Used(0)
      /\ \A k \in Index : <<"under", k>> \notin Used(0)
      /\ <<"indirect", 0>> \notin Used(0) /\ <<"indirect2", 0>> \notin Used(0)
  BY <1>1, <1>2, <1>3, UsedIs
<1> QED BY <1>4, SlotIs

(* A formatted disk is good.                                               *)
LEMMA FormattedGood ==
  ASSUME Careful(habit), NEW f,
         f = [free |-> DataBlocks, disk |-> [b \in 0..(NBLOCKS + 2) |-> Blank],
              inode |-> [i \in Inos |-> FreshInode(i)]]
  PROVE  Good(f)
<1>1. /\ f.free = DataBlocks /\ \A i \in Inos : f.inode[i] = FreshInode(i)
      /\ f \in Disks
  <2>1. [b \in 0..(NBLOCKS + 2) |-> Blank] \in [0..NBLOCKS + 2 -> [Index -> Cells]]
    BY ZeroIndex
  <2>2. [i \in Inos |-> FreshInode(i)] \in [Inos -> Inodes]
    BY FreshInodeIs
  <2> QED BY <2>1, <2>2 DEF Disks
<1>2. \A i \in Inos : Count(f, i) = 0 /\ f.inode[i].size = 0
  BY <1>1, FreshInodeIs, NoneForZero DEF Count, NBlocksOf
<1>3. ASSUME NEW i \in Inos, NEW s \in Slots PROVE Held(f, i, s) = 0
  BY <1>1, <1>3, FreshInodeIs, HeldIs, SlotIs, SMTT(30)
<1>4. \A s \in Slots : s \notin Used(0)
  BY NoneUsed
<1>5. Sound(f)
  <2>1. \A i \in Inos : Whole(f, i, Count(f, i))
    BY <1>2, <1>3, <1>4 DEF Whole
  <2>2. Apart(f) /\ Owned(f)
    BY <1>1, <1>3 DEF Apart, Owned
  <2> QED BY <1>1, <2>1, <2>2 DEF Sound
<1>6. MaxSize >= 0
  <2>1. habit.most \in Nat /\ BLKSIZE \in Nat
    BY CarefulMeans
  <2> QED BY <2>1 DEF MaxSize
<1>7. Capped(f)
  BY <1>2, <1>6 DEF Capped
<1>8. Rooted(f)
  BY <1>1, FreshInodeIs, InosAre DEF Rooted, Files
<1>9. EntryOffsets(f) = {}
  <2>1. f.inode[ROOT_INO].size = 0
    BY <1>2, InosAre
  <2>2. 0..(0 - 1) = {}
    OBVIOUS
  <2> QED BY <2>1, <2>2 DEF EntryOffsets
<1>10. Named(f)
  <2>1. \A i : NamedIn(f, i) = {}
    BY <1>9 DEF NamedIn
  <2>2. \A i \in Files : f.inode[i].nlink = 0
    BY <1>1, FreshInodeIs, InosAre
  <2> QED BY <1>9, <2>1, <2>2, FS_EmptySet DEF Named
<1> QED BY <1>5, <1>7, <1>8, <1>10 DEF Good, Orderly

(* The invariant holds initially.                                          *)
LEMMA InitIInv ==
  ASSUME CarefulHabits, Init
  PROVE  IInv
<1>1. Careful(habit) /\ habit \in Habits
  BY DEF CarefulHabits, Init
<1>2. Good(fs)
  BY <1>1, FormattedGood DEF Init
<1>3. writing = [p \in Procs |-> Idle] /\ listing = Closed
  BY DEF Init
<1> QED BY <1>1, <1>2, <1>3 DEF IInv, ListingOK

---------------------------------------------------------------------------
(* What a guard says of the blocks there are.                              *)
LEMMA RoomyMeans ==
  ASSUME Careful(habit), NEW k, Roomy(k)
  PROVE  ~Loose(fs, k)
<1>1. "fill" \in habit.does => habit.most <= NDIRECT + 1
  BY DEF Careful
<1>2. habit.most \in Nat /\ NDIRECT \in Nat
  BY CarefulMeans
<1> QED BY <1>1, <1>2 DEF Roomy, Loose, Plenty, Does

LEMMA IInvMeans ==
  ASSUME CarefulHabits, IInv
  PROVE  /\ Careful(habit) /\ Good(fs) /\ Orderly(fs) /\ Sound(fs) /\ Capped(fs) /\ Rooted(fs)
         /\ Named(fs) /\ fs \in Disks /\ WritersLive(fs)
BY WritersLiveIs DEF IInv, CarefulHabits, Good, Orderly, Sound

LEMMA Undisturbing ==
  ASSUME Careful(habit), NEW i, Undisturbed(i)
  PROVE  Writers(i) = {}
BY DEF Careful, Undisturbed, Does

(* Programs that shrink files keep them small.                             *)
LEMMA ShrinkingFew ==
  ASSUME Careful(habit), Does("shrink"), NEW f \in Disks, Capped(f), NEW i \in Inos
  PROVE  NBlocksOf(f, i) <= NDIRECT + 1
<1>1. habit.most <= NDIRECT + 1 /\ habit.most \in Nat /\ NDIRECT \in Nat
  BY CarefulMeans DEF Careful, Does
<1>2. NBlocksOf(f, i) \in Nat /\ NBlocksOf(f, i) <= habit.most
  BY CappedMeans
<1> QED BY <1>1, <1>2

(* An inode without blocks has no pointers.                                *)
LEMMA EmptySlots ==
  ASSUME NEW f, Sound(f), Careful(habit), NEW i \in Inos, Count(f, i) = 0
  PROVE  /\ f.inode[i].direct = [b \in 0..(NDIRECT - 1) |-> 0]
         /\ f.inode[i].indirect = 0 /\ f.inode[i].indirect2 = 0
<1> DEFINE D == 0..(NDIRECT - 1)
           d == f.inode[i].direct
           e == [b \in D |-> 0]
<1>1. \A k \in D : ~(k < 0)
  OBVIOUS
<1>2. \A k \in D : d[k] = 0
  BY <1>1, SoundMeans
<1>3. f.inode[i].indirect = 0 /\ f.inode[i].indirect2 = 0
  BY SoundMeans, SizeAssumption
<1>4. d \in [D -> Nat]
  BY DEF Sound, Disks, Inodes
<1> HIDE DEF D, d
<1>5. d = e
  BY <1>2, <1>4
<1> QED BY <1>3, <1>5 DEF D, d

---------------------------------------------------------------------------
(* ospfs_create() and ospfs_symlink()                                      *)

LEMMA FollowsReached ==
  ASSUME NEW f, NEW g, Careful(habit), Good(f), Orderly(g), Reached(f, g, ROOT_INO),
         g.inode[ROOT_INO].size = f.inode[ROOT_INO].size
  PROVE  Follows(f, g)
<1>1. /\ Sound(f) /\ Capped(f) /\ Named(f) /\ Capped(g) /\ Sound(g) /\ f \in Disks /\ g \in Disks
      /\ ROOT_INO \in Inos /\ f.inode[ROOT_INO].ftype # "symlink"
  BY InosAre DEF Good, Orderly, Sound, Rooted
<1>2. f.inode[ROOT_INO].size \in Nat
  BY <1>1, CountType
<1>3. f.inode[ROOT_INO].size <= g.inode[ROOT_INO].size
  BY <1>2
<1>4. \A off \in EntryOffsets(f) : Entry(g, off) = Entry(f, off)
  BY <1>1, <1>3, ReachedEntries
<1>5. EntryOffsets(g) = EntryOffsets(f)
  BY DEF EntryOffsets
<1>6. \A i \in Files : g.inode[i].nlink = f.inode[i].nlink
  BY InosAre DEF Reached, SameFile
<1>7. Named(g) /\ EntriesFollow(f, g)
  BY <1>1, <1>4, <1>5, <1>6, NamedSame
<1>8. ASSUME NEW i \in Files PROVE SafeFor(f, g, i)
  <2>1. i \in Inos
    BY InosAre
  <2> QED BY <1>1, <1>3, <2>1, ReachedSafe
<1> QED BY <1>3, <1>7, <1>8 DEF Follows, Good

(* create_blank_direntry() where an operation calls it.                    *)
LEMMA Blanking ==
  ASSUME CarefulHabits, IInv, MayExtendRoot, NEW od, od = BlankDirentry(fs)
  PROVE  /\ od.r = "ok" => Blanked(fs, od.fs, od.off)
         /\ od.r # "ok" => /\ Follows(fs, od.fs) /\ Reached(fs, od.fs, ROOT_INO)
                           /\ od.fs.inode[ROOT_INO].size = fs.inode[ROOT_INO].size
<1>1. Careful(habit) /\ Good(fs) /\ Orderly(fs)
  BY IInvMeans
<1>2. /\ fs.inode[ROOT_INO].size + 1 <= MaxSize
      /\ ~Loose(fs, NBlocks(fs.inode[ROOT_INO].size + 1) - NBlocksOf(fs, ROOT_INO))
  BY <1>1, RoomyMeans DEF MayExtendRoot, MayGrow
<1>3. od.r = "ok" => Blanked(fs, od.fs, od.off)
  BY <1>1, <1>2, BlankDirentryIs
<1>4. od.r # "ok" => /\ Orderly(od.fs) /\ Reached(fs, od.fs, ROOT_INO)
                     /\ od.fs.inode[ROOT_INO].size = fs.inode[ROOT_INO].size
  BY <1>1, <1>2, BlankDirentryIs
<1>5. od.r # "ok" => Follows(fs, od.fs)
  BY <1>1, <1>4, FollowsReached
<1> QED BY <1>3, <1>4, <1>5

(* The inode that a new file gets: no blocks are left in it.               *)
LEMMA FreeInode ==
  ASSUME CarefulHabits, IInv, FreeInodes(fs) # {}, NEW ino, ino = Min(FreeInodes(fs))
  PROVE  /\ ino \in Files /\ ino \in Inos /\ fs.inode[ino].nlink = 0
         /\ fs.inode[ino].size = 0 /\ Count(fs, ino) = 0
<1>1. /\ Rooted(fs) /\ fs \in Disks
  BY IInvMeans
<1>2. FreeInodes(fs) \in SUBSET Nat
  BY DEF FreeInodes, Inos
<1>3. ino \in Inos /\ fs.inode[ino].nlink = 0
  BY <1>2, MinIs DEF FreeInodes
<1>4. ino # 0 /\ ino # ROOT_INO
  BY <1>1, <1>3 DEF Rooted
<1>5. ino \in Files /\ fs.inode[ino].size = 0
  BY <1>1, <1>3, <1>4 DEF Rooted, Files
<1>6. Count(fs, ino) = 0
  BY <1>5, NoneForZero DEF Count, NBlocksOf
<1> QED BY <1>3, <1>5, <1>6

(* What ospfs_create() and ospfs_symlink() do: inode ino becomes oi, and   *)
(* gets the entry od unless the directory cannot grow.                     *)
Makes(name, ino, od, oi) ==
  /\ ~Exists(fs, name) /\ MayExtendRoot /\ FreeInodes(fs) # {}
  /\ ino = Min(FreeInodes(fs)) /\ od = BlankDirentry(fs)
  /\ oi \in Inodes /\ oi.nlink = 1 /\ oi.size <= MaxSize
  /\ (oi.ftype = "reg" /\ oi.size = 0) \/ (oi.ftype = "symlink" /\ oi.size = 1)
  /\ oi.direct = fs.inode[ino].direct /\ oi.indirect = fs.inode[ino].indirect
  /\ oi.indirect2 = fs.inode[ino].indirect2
  /\ \/ od.r # "ok" /\ Operation(od.fs)
     \/ od.r = "ok" /\ Operation(SetEntry(Put(od.fs, ino, oi), od.off, ino, name))

(* Whatever inode they make, they preserve the invariant.                  *)
LEMMA MakeKeeps ==
  ASSUME CarefulHabits, IInv, NEW name \in Names, NEW ino, NEW od, NEW oi,
         Makes(name, ino, od, oi)
  PROVE  IInv'
<1>1. Careful(habit) /\ Good(fs) /\ WritersLive(fs)
  BY IInvMeans
<1>2. ino \in Files /\ fs.inode[ino].nlink = 0
  BY FreeInode DEF Makes
<1>3. CASE od.r # "ok"
  <2>1. Follows(fs, od.fs) /\ Operation(od.fs)
    BY <1>3, Blanking DEF Makes
  <2> QED BY <2>1, OperationKeeps
<1>4. CASE od.r = "ok"
  <2> DEFINE g == SetEntry(Put(od.fs, ino, oi), od.off, ino, name)
  <2>1. Blanked(fs, od.fs, od.off)
    BY <1>4, Blanking DEF Makes
  <2>2. Follows(fs, g)
    BY <1>1, <1>2, <2>1, FollowsMade DEF Makes
  <2>3. Operation(g)
    BY <1>4 DEF Makes
  <2> HIDE DEF g
  <2> QED BY <2>2, <2>3, OperationKeeps
<1> QED BY <1>3, <1>4

LEMMA RootFile ==
  ASSUME CarefulHabits, IInv, FreeInodes(fs) # {}, NEW ino, ino = Min(FreeInodes(fs)),
         MayExtendRoot, NEW od, od = BlankDirentry(fs), od.r = "ok"
  PROVE  od.fs.inode[ino] = fs.inode[ino] /\ fs.inode[ino] \in Inodes
<1>1. Blanked(fs, od.fs, od.off)
  BY Blanking
<1>2. ino \in Inos /\ ino # ROOT_INO
  BY FreeInode, InosAre
<1>3. fs.inode[ino] \in Inodes
  BY <1>2, IInvMeans, Fields
<1> QED BY <1>1, <1>2, <1>3 DEF Blanked, Reached

(* ospfs_create() makes a file, and so does ospfs_symlink().               *)
LEMMA CreateMakes ==
  ASSUME CarefulHabits, IInv, NEW name \in Names, create(name)
  PROVE  \E ino, od, oi : Makes(name, ino, od, oi)
<1> DEFINE ino == Min(FreeInodes(fs))
           od == BlankDirentry(fs)
<1>1. /\ ~Exists(fs, name) /\ MayExtendRoot /\ FreeInodes(fs) # {}
      /\ \/ od.r # "ok" /\ Operation(od.fs)
         \/ od.r = "ok"
            /\ Operation(SetEntry(Put(od.fs, ino, NewFile), od.off, ino, name))
  BY DEF create, Make, Put
<1> HIDE DEF ino, od
<1>2. /\ ino \in Inos /\ Count(fs, ino) = 0 /\ Sound(fs) /\ Careful(habit)
  BY <1>1, FreeInode, IInvMeans DEF ino
<1>3. /\ fs.inode[ino].direct = [b \in 0..(NDIRECT - 1) |-> 0]
      /\ fs.inode[ino].indirect = 0 /\ fs.inode[ino].indirect2 = 0
  BY <1>2, EmptySlots
<1>4. /\ NewFile.direct = fs.inode[ino].direct /\ NewFile.indirect = 0 /\ NewFile.indirect2 = 0
      /\ NewFile.nlink = 1 /\ NewFile.ftype = "reg" /\ NewFile.size = 0
  BY <1>3 DEF NewFile
<1>5. NewFile \in Inodes
  <2>1. FreshInode(0) \in Inodes /\ FreshInode(0) = NewFile
    BY InosAre, FreshInodeIs DEF FreshInode, NewFile
  <2> QED BY <2>1
<1>6. 0 <= MaxSize
  <2>1. habit.most \in Nat /\ BLKSIZE \in Nat
    BY <1>2, CarefulMeans
  <2> QED BY <2>1 DEF MaxSize
<1>7. ino = Min(FreeInodes(fs)) /\ od = BlankDirentry(fs)
  BY DEF ino, od
<1>8. Makes(name, ino, od, NewFile)
  BY <1>1, <1>3, <1>4, <1>5, <1>6, <1>7 DEF Makes
<1> QED BY <1>8

LEMMA SymlinkMakes ==
  ASSUME CarefulHabits, IInv, NEW name \in Names, symlink(name)
  PROVE  \E ino, od, oi : Makes(name, ino, od, oi)
<1> DEFINE ino == Min(FreeInodes(fs))
           od == BlankDirentry(fs)
           oi == NewSymlink(fs.inode[ino], 1)
<1>1. /\ ~Exists(fs, name) /\ MayExtendRoot /\ FreeInodes(fs) # {}
      /\ \/ od.r # "ok" /\ Operation(od.fs)
         \/ /\ od.r = "ok"
            /\ Operation(SetEntry([od.fs EXCEPT !.inode[ino] = NewSymlink(@, 1)],
                                  od.off, ino, name))
  BY DEF symlink, Make
<1>2. ino = Min(FreeInodes(fs)) /\ od = BlankDirentry(fs)
  OBVIOUS
<1> HIDE DEF ino, od
<1>3. fs.inode[ino] \in Inodes
  <2>1. ino \in Inos
    BY <1>1, <1>2, FreeInode
  <2> QED BY <2>1, IInvMeans, Fields
<1>4. 1 <= MaxSize /\ 1 \in 0..UINT - 1
  <2>1. habit.most \in Nat /\ habit.most > 0 /\ BLKSIZE \in Nat /\ BLKSIZE > 0 /\ Careful(habit)
    BY IInvMeans, CarefulMeans
  <2>2. habit.most * BLKSIZE >= 1
    BY <2>1
  <2>3. 1 <= MaxSize
    BY <2>2 DEF MaxSize
  <2> QED BY <2>1, <2>3, SizeMeans
<1>5. /\ oi \in Inodes /\ oi.nlink = 1 /\ oi.ftype = "symlink" /\ oi.size = 1
      /\ oi.direct = fs.inode[ino].direct /\ oi.indirect = fs.inode[ino].indirect
      /\ oi.indirect2 = fs.inode[ino].indirect2
  BY <1>3, <1>4 DEF NewSymlink, Inodes
<1>6. od.r = "ok" => od.fs.inode[ino] = fs.inode[ino]
  BY <1>1, <1>2, RootFile
<1>7. od.r = "ok" => [od.fs EXCEPT !.inode[ino] = NewSymlink(@, 1)] =
        Put(od.fs, ino, oi)
  BY <1>6 DEF Put
<1> HIDE DEF oi
<1>8. \/ od.r # "ok" /\ Operation(od.fs)
      \/ od.r = "ok" /\ Operation(SetEntry(Put(od.fs, ino, oi), od.off, ino, name))
  BY <1>1, <1>7
<1>9. Makes(name, ino, od, oi)
  BY <1>1, <1>2, <1>4, <1>5, <1>8 DEF Makes
<1> QED BY <1>9

---------------------------------------------------------------------------
(* ospfs_link()                                                            *)

(* A name leads to the file it names.                                      *)
LEMMA LookupIs ==
  ASSUME CarefulHabits, IInv, NEW name, Exists(fs, name), NEW off, off = Min(Matches(fs, name))
  PROVE  /\ off \in EntryOffsets(fs) /\ Entry(fs, off).n = Lookup(name)
         /\ Entry(fs, off).name = name
         /\ Lookup(name) \in Files /\ fs.inode[Lookup(name)].nlink > 0
         /\ name \in Names
<1>1. Named(fs) /\ fs \in Disks
  BY IInvMeans
<1>2. Matches(fs, name) \in SUBSET Nat /\ Matches(fs, name) # {}
  BY DEF Matches, EntryOffsets, Exists
<1>3. off \in Matches(fs, name)
  BY <1>2, MinIs
<1>4. off \in EntryOffsets(fs) /\ Entry(fs, off).n > 0 /\ Entry(fs, off).name = name
  BY <1>3 DEF Matches
<1>5. Entry(fs, off).n = Lookup(name)
  BY <1>2 DEF Lookup
<1>6. Lookup(name) \in Files /\ name \in Names
  BY <1>1, <1>4, <1>5 DEF Named
<1>7. fs.inode[Lookup(name)].nlink > 0
  <2> DEFINE ino == Lookup(name)
  <2>1. off \in NamedIn(fs, ino)
    BY <1>4, <1>5 DEF NamedIn
  <2>2. IsFiniteSet(NamedIn(fs, ino)) /\ Cardinality(NamedIn(fs, ino)) = fs.inode[ino].nlink
    BY <1>1, <1>6, OffsetsFinite DEF Named
  <2> HIDE DEF ino
  <2>3. Cardinality(NamedIn(fs, ino)) \in Nat /\ Cardinality(NamedIn(fs, ino)) # 0
    BY <2>1, <2>2, FS_EmptySet, FS_CardinalityType
  <2>4. fs.inode[ino].nlink > 0
    BY <2>2, <2>3
  <2> QED BY <2>4 DEF ino
<1> QED BY <1>4, <1>5, <1>6, <1>7

(* ospfs_link() does.                                                      *)
LEMMA LinkKeeps ==
  ASSUME CarefulHabits, IInv, NEW src \in Names, NEW name \in Names, link(src, name)
  PROVE  IInv'
<1> DEFINE ino == Lookup(src)
           od == BlankDirentry(fs)
           g == [SetEntry(od.fs, od.off, ino, name) EXCEPT !.inode[ino].nlink = @ + 1]
<1>1. /\ Exists(fs, src) /\ ~Exists(fs, name) /\ MayExtendRoot
      /\ \/ od.r # "ok" /\ Operation(od.fs)
         \/ od.r = "ok" /\ Operation(g)
  BY DEF link
<1>2. ino \in Files /\ fs.inode[ino].nlink > 0
  BY <1>1, LookupIs
<1>3. Careful(habit) /\ Good(fs)
  BY IInvMeans
<1> HIDE DEF ino, od
<1>4. od = BlankDirentry(fs)
  BY DEF od
<1>5. CASE od.r # "ok"
  <2>1. Follows(fs, od.fs) /\ Operation(od.fs)
    BY <1>1, <1>4, <1>5, Blanking
  <2> QED BY <2>1, OperationKeeps
<1>6. CASE od.r = "ok"
  <2>1. Blanked(fs, od.fs, od.off)
    BY <1>1, <1>4, <1>6, Blanking
  <2>2. Follows(fs, g)
    BY <1>1, <1>2, <1>3, <2>1, FollowsLinked
  <2>3. Operation(g)
    BY <1>1, <1>6
  <2> HIDE DEF g
  <2> QED BY <2>2, <2>3, OperationKeeps
<1> QED BY <1>5, <1>6

(* What unlink does to the inode, whichever kind of file it is.            *)
LEMMA UnlinkedPut ==
  ASSUME NEW f \in Disks, NEW h \in Disks, h.inode = f.inode, NEW ino \in Inos
  PROVE  Unlinked(IF f.inode[ino].ftype = "symlink"
                  THEN [h EXCEPT !.inode[ino].size = 0] ELSE h, ino)
           = Put(h, ino, Less(f.inode[ino]))
<1> DEFINE oi == f.inode[ino]
<1>1. oi \in Inodes /\ h.inode[ino] = oi
  BY Fields
<1>2. CASE oi.ftype = "symlink"
  <2>1. Less(oi) = [oi EXCEPT !.nlink = oi.nlink - 1, !.size = 0]
    BY <1>2 DEF Less
  <2> DEFINE a == [oi EXCEPT !.size = 0]
             k == Put(h, ino, a)
  <2>2. [h EXCEPT !.inode[ino].size = 0] = k
    BY <1>1 DEF Put
  <2>3. a \in Inodes /\ a.nlink = oi.nlink
    <3>1. 0 \in 0..UINT - 1 /\ a = Sizing(oi, 0)
      BY SizeAssumption DEF Sizing
    <3> HIDE DEF a
    <3> QED BY <1>1, <3>1, SizingIs
  <2>4. Less(oi) = [a EXCEPT !.nlink = oi.nlink - 1]
    BY <1>1, <2>1 DEF Inodes
  <2> HIDE DEF a
  <2>5. k.inode[ino] = a /\ k \in Disks
    BY <2>3, PutIs
  <2>6. Unlinked(k, ino) = Put(k, ino, Less(oi))
    BY <2>3, <2>4, <2>5 DEF Unlinked, Put
  <2>7. \A b : Put(k, ino, b) = Put(h, ino, b)
    BY <2>3 DEF Put, Disks
  <2> QED BY <1>1, <1>2, <2>2, <2>6, <2>7
<1>3. CASE oi.ftype # "symlink"
  <2>1. Less(oi) = [oi EXCEPT !.nlink = oi.nlink - 1]
    BY <1>1, <1>3 DEF Less, Inodes
  <2> QED BY <1>1, <1>3, <2>1 DEF Unlinked, Put
<1> QED BY <1>2, <1>3

---------------------------------------------------------------------------
(* ospfs_unlink(), truncations, the beginning of a write                   *)

(* What ospfs_unlink() does: the entry at off goes, which names inode ino, *)
(* and with the last name of the file its blocks.                          *)
Unlinks(name, off, ino, g) ==
  /\ off \in EntryOffsets(fs) /\ Entry(fs, off).n = ino /\ Entry(fs, off).name = name
  /\ ino \in Files /\ fs.inode[ino].nlink > 0
  /\ g = Put(SetEntry(fs, off, 0, name), ino, Less(fs.inode[ino]))
  /\ \/ g.inode[ino].nlink > 0 /\ Operation(g)
     \/ /\ g.inode[ino].nlink = 0 /\ Operation(ChangeSize(g, ino, 0).fs)
        /\ Writers(ino) = {}
        /\ fs.inode[ino].ftype = "symlink" \/ NBlocksOf(fs, ino) <= NDIRECT + 1

LEMMA UnlinkUnlinks ==
  ASSUME CarefulHabits, IInv, NEW name \in Names, unlink(name)
  PROVE  \E off, ino, g : Unlinks(name, off, ino, g)
<1> DEFINE off == Min(Matches(fs, name))
           ino == Lookup(name)
           f == SetEntry(fs, off, 0, name)
           g == Unlinked(IF IsLink(ino) THEN [f EXCEPT !.inode[ino].size = 0] ELSE f, ino)
           oi == fs.inode[ino]
<1>1. /\ Exists(fs, name)
      /\ IsFile(ino) /\ g.inode[ino].nlink = 0 =>
           Undisturbed(ino) /\ (Does("shrink") \/ g.inode[ino].size = 0)
      /\ \/ g.inode[ino].nlink > 0 /\ Operation(g)
         \/ g.inode[ino].nlink = 0 /\ Operation(ChangeSize(g, ino, 0).fs)
  BY DEF unlink
<1>2. off = Min(Matches(fs, name)) /\ f = SetEntry(fs, off, 0, name)
  OBVIOUS
<1>3. g = Unlinked(IF IsLink(ino) THEN [f EXCEPT !.inode[ino].size = 0] ELSE f, ino)
  OBVIOUS
<1> HIDE DEF off, f, g
<1>4. /\ off \in EntryOffsets(fs) /\ Entry(fs, off).n = ino /\ Entry(fs, off).name = name
      /\ ino \in Files /\ ino \in Inos /\ oi.nlink > 0
  BY <1>1, <1>2, LookupIs, InosAre
<1> HIDE DEF ino
<1>5. /\ Careful(habit) /\ Good(fs) /\ Sound(fs) /\ Capped(fs) /\ Rooted(fs) /\ fs \in Disks
      /\ WritersLive(fs) /\ fs.inode[ROOT_INO].ftype # "symlink"
  BY IInvMeans DEF Rooted
<1>6. f \in Disks /\ f.inode = fs.inode
  <2>1. 0 \in Nat /\ name \in Names \cup {NoName}
    OBVIOUS
  <2> QED BY <1>2, <1>4, <1>5, <2>1, SetEntryIs DEF Sound
<1>7. g = Put(SetEntry(fs, off, 0, name), ino, Less(fs.inode[ino]))
  <2>1. IsLink(ino) <=> fs.inode[ino].ftype = "symlink"
    BY <1>4 DEF IsLink
  <2> QED BY <1>2, <1>3, <1>4, <1>5, <1>6, <2>1, UnlinkedPut
<1>8. CASE g.inode[ino].nlink > 0
  <2>1. Unlinks(name, off, ino, g)
    BY <1>1, <1>4, <1>7, <1>8 DEF Unlinks
  <2> QED BY <2>1
<1>9. CASE g.inode[ino].nlink = 0
  <2>1. Operation(ChangeSize(g, ino, 0).fs)
    BY <1>1, <1>9
  <2>2. oi.ftype # "dir"
    BY <1>4, <1>5 DEF Rooted
  <2>3. oi.ftype = "symlink" => Writers(ino) = {}
    BY <1>4, <1>5 DEF WritersLive
  <2>4. oi.ftype # "symlink" => IsFile(ino)
    <3>1. oi.ftype \in {"reg", "dir", "symlink"}
      BY <1>4, <1>5, Fields DEF Inodes
    <3> QED BY <1>4, <2>2, <3>1 DEF IsFile
  <2>5. Writers(ino) = {}
    BY <1>1, <1>5, <1>9, <2>3, <2>4, Undisturbing
  <2>6. oi.ftype = "symlink" \/ NBlocksOf(fs, ino) <= NDIRECT + 1
    <3>1. SUFFICES ASSUME oi.ftype # "symlink" PROVE NBlocksOf(fs, ino) <= NDIRECT + 1
      OBVIOUS
    <3>2. Does("shrink") \/ g.inode[ino].size = 0
      BY <1>1, <1>9, <2>4, <3>1
    <3>3. CASE Does("shrink")
      BY <1>4, <1>5, <3>3, ShrinkingFew
    <3>4. CASE g.inode[ino].size = 0
      <4>1. oi.size = 0
        BY <1>4, <1>5, <1>7, <3>1, <3>4, UnlinkedIs
      <4>2. NBlocksOf(fs, ino) = 0
        BY <4>1, NoneForZero DEF NBlocksOf
      <4> QED BY <4>2, SizeAssumption
    <3> QED BY <3>2, <3>3, <3>4
  <2>7. Unlinks(name, off, ino, g)
    BY <1>4, <1>7, <1>9, <2>1, <2>5, <2>6 DEF Unlinks
  <2> QED BY <2>7
<1> QED BY <1>1, <1>8, <1>9

(* So it preserves the invariant.                                          *)
LEMMA UnlinkKeeps ==
  ASSUME CarefulHabits, IInv, NEW name \in Names, NEW off, NEW ino, NEW g,
         Unlinks(name, off, ino, g)
  PROVE  IInv'
<1>1. Careful(habit) /\ Good(fs) /\ WritersLive(fs)
  BY IInvMeans
<1>2. /\ off \in EntryOffsets(fs) /\ Entry(fs, off).n = ino /\ ino \in Files
      /\ g = Put(SetEntry(fs, off, 0, name), ino, Less(fs.inode[ino]))
  BY DEF Unlinks
<1>3. CASE g.inode[ino].nlink > 0 /\ Operation(g)
  <2>1. Follows(fs, g)
    BY <1>1, <1>2, <1>3, FollowsUnlinked
  <2> QED BY <1>3, <2>1, OperationKeeps
<1>4. CASE g.inode[ino].nlink = 0 /\ Operation(ChangeSize(g, ino, 0).fs)
  <2>1. /\ Writers(ino) = {}
        /\ fs.inode[ino].ftype = "symlink" \/ NBlocksOf(fs, ino) <= NDIRECT + 1
    BY <1>4 DEF Unlinks
  <2>2. Follows(fs, ChangeSize(g, ino, 0).fs)
    BY <1>1, <1>2, <1>4, <2>1, FollowsRemoved
  <2> QED BY <1>4, <2>2, OperationKeeps
<1> QED BY <1>3, <1>4 DEF Unlinks

(* What a truncation and a write that goes beyond the end do to the disk.  *)
Resizes(ino, size) ==
  /\ ino \in Files /\ fs.inode[ino].ftype = "reg" /\ fs.inode[ino].nlink > 0
  /\ size \in Nat /\ size <= MaxSize /\ Bearable(fs, ino, size)
  /\ fs.inode[ino].size <= size \/ Writers(ino) = {}

LEMMA TruncateResizes ==
  ASSUME CarefulHabits, IInv, NEW ino \in Files, NEW size \in Sizes, truncate(ino, size)
  PROVE  Resizes(ino, size) /\ Operation(ChangeSize(fs, ino, size).fs)
<1> DEFINE g == ChangeSize(fs, ino, size).fs
<1>1. /\ fs.inode[ino].nlink > 0 /\ fs.inode[ino].ftype = "reg"
      /\ Undisturbed(ino) /\ MayGrow(ino, size)
      /\ Does("shrink") \/ size > fs.inode[ino].size
      /\ Operation(g)
  BY DEF truncate, IsFile
<1>2. /\ Careful(habit) /\ Good(fs) /\ Capped(fs) /\ fs \in Disks /\ ino \in Inos
  BY IInvMeans, InosAre
<1>3. size \in Nat /\ size <= MaxSize /\ fs.inode[ino].size \in Nat
  <2>1. MaxSize \in Nat
    <3>1. habit.most \in Nat /\ BLKSIZE \in Nat
      BY <1>2, CarefulMeans
    <3> QED BY <3>1 DEF MaxSize
  <2> QED BY <1>2, <2>1, CappedMeans DEF Sizes
<1>4. ~Loose(fs, NBlocks(size) - NBlocksOf(fs, ino))
  BY <1>1, <1>2, RoomyMeans DEF MayGrow
<1>5. Bearable(fs, ino, size)
  <2>1. CASE Does("shrink")
    BY <1>2, <1>4, <2>1, ShrinkingFew DEF Bearable
  <2>2. CASE size > fs.inode[ino].size
    <3>1. fs.inode[ino].size <= size
      BY <1>3, <2>2
    <3> QED BY <1>2, <1>3, <1>4, <3>1, GrowBearable
  <2> QED BY <1>1, <2>1, <2>2
<1>6. Writers(ino) = {}
  BY <1>1, <1>2, Undisturbing
<1> QED BY <1>1, <1>3, <1>5, <1>6 DEF Resizes

(* A truncation preserves the invariant.                                   *)
LEMMA TruncateKeeps ==
  ASSUME CarefulHabits, IInv, NEW ino \in Files, NEW size \in Sizes, truncate(ino, size)
  PROVE  IInv'
<1> DEFINE g == ChangeSize(fs, ino, size).fs
<1>1. Careful(habit) /\ Good(fs)
  BY IInvMeans
<1>2. Resizes(ino, size) /\ Operation(g)
  BY TruncateResizes
<1>3. Follows(fs, g)
  BY <1>1, <1>2, FollowsResized DEF Resizes
<1> HIDE DEF g
<1> QED BY <1>2, <1>3, OperationKeeps

LEMMA FollowsItself ==
  ASSUME CarefulHabits, IInv
  PROVE  Follows(fs, fs)
<1>1. /\ Good(fs) /\ Named(fs) /\ fs \in Disks /\ Capped(fs) /\ Careful(habit)
  BY IInvMeans
<1>2. Named(fs) /\ EntriesFollow(fs, fs)
  BY <1>1, NamedSame
<1>3. ASSUME NEW i \in Files PROVE SafeFor(fs, fs, i)
  <2>1. i \in Inos /\ fs.inode[i].size \in Nat
    BY <1>1, InosAre, CappedMeans
  <2> QED BY <2>1 DEF SafeFor
<1>4. fs.inode[ROOT_INO].size \in Nat
  BY <1>1, InosAre, CappedMeans
<1> QED BY <1>1, <1>2, <1>3, <1>4 DEF Follows

(* The beginning of a write, which stands at w; the file may grow first.   *)
LEMMA WriteResizes ==
  ASSUME CarefulHabits, IInv, NEW ino \in Files, NEW end \in Nat, end <= MaxSize,
         fs.inode[ino].nlink > 0, fs.inode[ino].ftype = "reg",
         end > fs.inode[ino].size, MayGrow(ino, end)
  PROVE  Resizes(ino, end)
<1>1. /\ Careful(habit) /\ Capped(fs) /\ fs \in Disks /\ ino \in Inos
  BY IInvMeans, InosAre
<1>2. fs.inode[ino].size \in Nat
  BY <1>1, CappedMeans
<1>3. /\ ~Loose(fs, NBlocks(end) - NBlocksOf(fs, ino)) /\ fs.inode[ino].size <= end
  BY <1>1, <1>2, RoomyMeans DEF MayGrow
<1>4. Bearable(fs, ino, end)
  BY <1>1, <1>3, GrowBearable
<1> QED BY <1>3, <1>4 DEF Resizes

(* It preserves the invariant.                                             *)
LEMMA StartKeeps ==
  ASSUME CarefulHabits, IInv, NEW p \in Procs, NEW ino \in Files,
         NEW f_pos \in Sizes, NEW count \in 1..MaxCount, NEW val \in Values,
         write(p, ino, f_pos, count, val)
  PROVE  IInv'
<1> DEFINE end == f_pos + count
           w == [ino |-> ino, pos |-> f_pos, left |-> count, val |-> val, block |-> 0]
           grows == end > fs.inode[ino].size
           grown == IF grows THEN ChangeSize(fs, ino, end) ELSE [fs |-> fs, r |-> "ok"]
<1>1. /\ fs.inode[ino].nlink > 0 /\ fs.inode[ino].ftype = "reg"
      /\ end <= MaxSize /\ ~Does("list")
      /\ grows => MayGrow(ino, end)
      /\ \/ grown.r # "ok" /\ Operation(grown.fs)
         \/ grown.r = "ok" /\ Write(p, grown.fs, w)
  BY DEF write, IsFile
<1>2. /\ Careful(habit) /\ Good(fs) /\ Capped(fs) /\ fs \in Disks /\ ino \in Inos
  BY IInvMeans, InosAre
<1>3. f_pos \in Nat /\ count \in Nat /\ end \in Nat /\ fs.inode[ino].size \in Nat
  BY <1>2, CappedMeans DEF Sizes
<1>4. w \in Pending /\ w.ino = ino /\ w.pos + w.left = end
  BY <1>3 DEF Pending
<1> HIDE DEF w, end
<1>5. grows => Resizes(ino, end)
  BY <1>1, <1>3, WriteResizes
<1>6. Follows(fs, grown.fs)
  <2>1. CASE grows
    <3>1. Follows(fs, ChangeSize(fs, ino, end).fs)
      BY <1>2, <1>5, <2>1, FollowsResized DEF Resizes
    <3> QED BY <2>1, <3>1
  <2>2. CASE ~grows
    BY <2>2, FollowsItself
  <2> QED BY <2>1, <2>2
<1>7. ASSUME grown.r = "ok"
      PROVE  /\ grown.fs.inode[ino].ftype = "reg" /\ grown.fs.inode[ino].nlink > 0
             /\ end <= grown.fs.inode[ino].size
  <2>1. CASE grows
    <3>1. /\ ChangeSize(fs, ino, end).r = "ok" => ChangeSize(fs, ino, end).fs.inode[ino].size = end
          /\ SameFile(fs, ChangeSize(fs, ino, end).fs, ino)
      BY <1>2, <1>5, <2>1, FollowsResized DEF Resizes
    <3> QED BY <1>1, <1>3, <1>7, <2>1, <3>1 DEF SameFile
  <2>2. CASE ~grows
    BY <1>1, <1>3, <2>2
  <2> QED BY <2>1, <2>2
<1> HIDE DEF grown
<1>8. CASE grown.r # "ok" /\ Operation(grown.fs)
  BY <1>6, <1>8, OperationKeeps
<1>9. CASE grown.r = "ok" /\ Write(p, grown.fs, w)
  <2>1. /\ grown.fs.inode[w.ino].ftype = "reg" /\ grown.fs.inode[w.ino].nlink > 0
        /\ w.pos + w.left <= grown.fs.inode[w.ino].size
    BY <1>4, <1>7, <1>9
  <2> QED BY <1>1, <1>4, <1>6, <1>9, <2>1, WriteKeeps
<1> QED BY <1>1, <1>8, <1>9

---------------------------------------------------------------------------
(* The other steps                                                         *)

(* A copy does, which writes into a block that is still its file's.        *)
LEMMA CopyKeeps ==
  ASSUME CarefulHabits, IInv, NEW p \in Procs, CopyChunk(p)
  PROVE  IInv'
<1> DEFINE w == writing[p]
           m == [w EXCEPT !.pos = @ + Chunk(w), !.left = @ - Chunk(w)]
           g == Copied(fs, w)
<1>1. w # Idle /\ Write(p, g, m)
  BY DEF CopyChunk
<1>2. Careful(habit) /\ Good(fs) /\ Orderly(fs)
  BY IInvMeans
<1>3. WritesWell(fs, w) /\ ~Does("list")
  BY <1>1 DEF IInv
<1> HIDE DEF w
<1>4. Follows(fs, g) /\ g.inode = fs.inode
  BY <1>2, <1>3, FollowsCopied
<1>5. /\ w \in Pending /\ w.pos \in Nat /\ w.left \in Nat /\ w.left > 0
      /\ fs.inode[w.ino].ftype = "reg" /\ fs.inode[w.ino].nlink > 0
      /\ w.pos + w.left <= fs.inode[w.ino].size
  BY <1>3 DEF WritesWell, Pending
<1>6. Chunk(w) \in 1..w.left
  BY <1>5, ChunkIs
<1>7. /\ m \in Pending /\ m.ino = w.ino /\ m.pos + m.left = w.pos + w.left
  <2> DEFINE n == Chunk(w)
  <2>1. n \in Nat /\ n <= w.left
    BY <1>5, <1>6
  <2>2. m = [w EXCEPT !.pos = @ + n, !.left = @ - n]
    OBVIOUS
  <2> HIDE DEF n, m
  <2>3. w.pos + n \in Nat /\ w.left - n \in Nat /\ (w.pos + n) + (w.left - n) = w.pos + w.left
    BY <1>5, <2>1
  <2> QED BY <1>5, <2>2, <2>3 DEF Pending
<1> HIDE DEF m, g
<1>8. /\ g.inode[m.ino].ftype = "reg" /\ g.inode[m.ino].nlink > 0
      /\ m.pos + m.left <= g.inode[m.ino].size
  BY <1>4, <1>5, <1>7
<1> QED BY <1>1, <1>3, <1>4, <1>7, <1>8, WriteKeeps

(* A copy that fails does.                                                 *)
LEMMA FaultKeeps ==
  ASSUME CarefulHabits, IInv, NEW p \in Procs, CopyFault(p)
  PROVE  IInv'
<1>1. /\ fs' = fs /\ listing' = listing /\ habit' = habit
      /\ writing' = [writing EXCEPT ![p] = Idle]
  BY DEF CopyFault
<1>2. /\ writing' = [q \in Procs |-> writing'[q]]
      /\ \A q \in Procs : writing'[q] = IF q = p THEN Idle ELSE writing[q]
  BY <1>1 DEF IInv
<1>3. Good(fs)'
  BY <1>1, GoodNext DEF IInv
<1>4. \A q \in Procs : (writing[q] = Idle \/ WritesWell(fs, writing[q]))'
  BY <1>1, <1>2 DEF IInv
<1>5. ListingOK(fs, listing)'
  BY <1>1 DEF IInv
<1> QED BY <1>1, <1>2, <1>3, <1>4, <1>5 DEF IInv, Does

(* The steps that touch only the listing.                                  *)
LEMMA ListingKeeps ==
  ASSUME CarefulHabits, IInv, Does("list"), ListingOK(fs, listing'),
         UNCHANGED <<fs, writing, habit>>
  PROVE  IInv'
<1>1. fs' = fs /\ writing' = writing /\ habit' = habit
  OBVIOUS
<1>2. Good(fs)'
  BY <1>1, GoodNext DEF IInv
<1>3. \A q \in Procs : (writing[q] = Idle \/ WritesWell(fs, writing[q]))'
  BY <1>1 DEF IInv
<1>4. ListingOK(fs, listing)'
  BY <1>1
<1> QED BY <1>1, <1>2, <1>3, <1>4 DEF IInv, Does

(* The beginning of a listing does.                                        *)
LEMMA OpenKeeps ==
  ASSUME CarefulHabits, IInv, OpenDir
  PROVE  IInv'
<1>1. ListingOK(fs, listing')
  BY IInvMeans, OpenDirOK DEF OpenDir
<1> QED BY <1>1, ListingKeeps DEF OpenDir

(* A call to ospfs_dir_readdir() does.                                     *)
LEMMA ReaddirKeeps ==
  ASSUME CarefulHabits, IInv, NEW room, readdir(room)
  PROVE  IInv'
<1>1. /\ listing # Closed
      /\ listing' = [listing EXCEPT !.f_pos = Stop(fs, listing.f_pos, room),
           !.seen = [name \in Names |->
                       @[name] + Filled(fs, listing.f_pos, Stop(fs, listing.f_pos, room), name)]]
      /\ UNCHANGED <<fs, writing, habit>>
  BY DEF readdir
<1>2. Does("list") /\ ListingOK(fs, listing)
  BY <1>1 DEF IInv
<1>3. ListingOK(fs, listing')
  <2> SUFFICES ASSUME NEW m, m = listing' PROVE ListingOK(fs, m)
    OBVIOUS
  <2> QED BY <1>1, <1>2, IInvMeans, ReaddirOK
<1> QED BY <1>1, <1>2, <1>3, ListingKeeps

(* The end of a listing does.                                              *)
LEMMA CloseKeeps ==
  ASSUME CarefulHabits, IInv, CloseDir
  PROVE  IInv'
<1>1. listing # Closed /\ listing' = Closed /\ UNCHANGED <<fs, writing, habit>>
  BY DEF CloseDir, AllListed
<1>2. Does("list") /\ ListingOK(fs, listing')
  BY <1>1 DEF IInv, ListingOK
<1> QED BY <1>1, <1>2, ListingKeeps

(* Every step preserves the invariant.                                     *)
LEMMA NextKeeps ==
  ASSUME CarefulHabits, IInv, [Next]_vars
  PROVE  IInv'
<1>1. CASE UNCHANGED vars
  <2>1. fs' = fs /\ writing' = writing /\ listing' = listing /\ habit' = habit
    BY <1>1 DEF vars
  <2>2. Good(fs)'
    BY <2>1, GoodNext DEF IInv
  <2>3. \A q \in Procs : (writing[q] = Idle \/ WritesWell(fs, writing[q]))'
    BY <2>1 DEF IInv
  <2>4. ListingOK(fs, listing)'
    BY <2>1 DEF IInv
  <2> QED BY <2>1, <2>2, <2>3, <2>4 DEF IInv, Does
<1>2. CASE Next
  <2>1. ASSUME NEW name \in Names, create(name) PROVE IInv'
    BY <2>1, CreateMakes, MakeKeeps
  <2>2. ASSUME NEW name \in Names, symlink(name) PROVE IInv'
    BY <2>2, SymlinkMakes, MakeKeeps
  <2>3. ASSUME NEW name \in Names, unlink(name) PROVE IInv'
    BY <2>3, UnlinkUnlinks, UnlinkKeeps
  <2>4. ASSUME NEW src \in Names, NEW name \in Names, link(src, name) PROVE IInv'
    BY <2>4, LinkKeeps
  <2>5. ASSUME NEW ino \in Files, NEW size \in Sizes, truncate(ino, size) PROVE IInv'
    BY <2>5, TruncateKeeps
  <2>6. ASSUME NEW p \in Procs, NEW ino \in Files, NEW f_pos \in Sizes,
               NEW count \in 1..MaxCount, NEW val \in Values, write(p, ino, f_pos, count, val)
        PROVE  IInv'
    BY <2>6, StartKeeps
  <2>7. ASSUME NEW p \in Procs, CopyChunk(p) \/ CopyFault(p) PROVE IInv'
    BY <2>7, CopyKeeps, FaultKeeps
  <2>8. ASSUME OpenDir \/ CloseDir PROVE IInv'
    BY <2>8, OpenKeeps, CloseKeeps
  <2>9. ASSUME NEW room, readdir(room) PROVE IInv'
    BY <2>9, ReaddirKeeps
  <2> QED BY <1>2, <2>1, <2>2, <2>3, <2>4, <2>5, <2>6, <2>7, <2>8, <2>9 DEF Next, Files
<1> QED BY <1>1, <1>2

(* The inductive invariant holds in every state that careful programs can  *)
(* reach.                                                                  *)
LEMMA Invariant ==
  ASSUME CarefulHabits
  PROVE  Spec => []IInv
<1>1. Init => IInv
  BY InitIInv
<1>2. IInv /\ [Next]_vars => IInv'
  BY NextKeeps
<1> QED BY <1>1, <1>2, PTL DEF Spec

---------------------------------------------------------------------------
(* What follows                                                            *)

(* The invariant implies the properties.                                   *)
LEMMA TypesAre ==
  ASSUME CarefulHabits, IInv
  PROVE  TypeOK
<1>1. /\ Careful(habit) /\ Good(fs) /\ Orderly(fs) /\ fs \in Disks
  BY IInvMeans
<1>2. fs.free \subseteq DataBlocks
  BY <1>1, Fields
<1>3. ASSUME NEW i \in Inos
      PROVE  /\ fs.inode[i].size \in 0..(UINT - 1) /\ fs.inode[i].nlink \in Nat
             /\ fs.inode[i].ftype \in {"reg", "dir", "symlink"}
  BY <1>1, Fields DEF Inodes
<1>4. ASSUME NEW p \in Procs, writing[p] # Idle
      PROVE  writing[p].block \in DataBlocks
  <2>1. WritesWell(fs, writing[p])
    BY <1>4 DEF IInv
  <2> QED BY <1>1, <2>1, WritesWhere
<1>5. listing = Closed \/ listing.f_pos \in 0..EndOfDir(fs)
  <2>1. SUFFICES ASSUME listing # Closed PROVE listing.f_pos \in 0..EndOfDir(fs)
    OBVIOUS
  <2>2. listing \in Listings /\ listing.f_pos <= EndOfDir(fs)
    BY <2>1 DEF IInv, ListingOK
  <2>3. fs.inode[ROOT_INO].size \in Nat
    BY <1>1, CountType, InosAre
  <2> QED BY <2>2, <2>3, ListingIs DEF EndOfDir
<1> QED BY <1>2, <1>3, <1>4, <1>5 DEF TypeOK, IInv

(* Who holds a block has it below his size, and has names.                 *)
LEMMA HolderIs ==
  ASSUME CarefulHabits, IInv, NEW b \in DataBlocks, NEW i \in Inos, NEW s \in Slots,
         Held(fs, i, s) = b
  PROVE  b \notin fs.free /\ i \in WithBlocks
<1>1. /\ Careful(habit) /\ Sound(fs) /\ Rooted(fs) /\ fs \in Disks
  BY IInvMeans
<1>2. b # 0
  BY <1>1, DataRange
<1>3. s \in Used(Count(fs, i)) /\ b \notin fs.free
  BY <1>1, <1>2 DEF Sound, Whole
<1>4. Count(fs, i) # 0
  BY <1>3, NoneUsed
<1>5. fs.inode[i].ftype # "symlink" /\ fs.inode[i].size # 0
  BY <1>4, NoneForZero DEF Count, NBlocksOf
<1>6. fs.inode[i].nlink # 0
  BY <1>1, <1>5 DEF Rooted, Files
<1>7. fs.inode[i].nlink \in Nat
  BY <1>1, Fields DEF Inodes
<1> QED BY <1>3, <1>5, <1>6, <1>7 DEF WithBlocks

LEMMA BlocksAre ==
  ASSUME CarefulHabits, IInv
  PROVE  BlocksAccounted
<1>1. /\ Careful(habit) /\ Sound(fs) /\ Rooted(fs) /\ Named(fs) /\ fs \in Disks
  BY IInvMeans
<1>2. ASSUME NEW b \in DataBlocks
      PROVE  Cardinality(Holders(b)) = (IF b \in fs.free THEN 0 ELSE 1)
  <2>1. ASSUME NEW h \in Holders(b)
        PROVE  /\ h[1] \in WithBlocks /\ h[1] \in Inos /\ h[2] \in Slots /\ h = <<h[1], h[2]>>
               /\ Held(fs, h[1], h[2]) = b /\ b \notin fs.free
    <3>1. h[1] \in WithBlocks /\ h[2] \in Slots /\ h = <<h[1], h[2]>> /\ Held(fs, h[1], h[2]) = b
      BY <2>1 DEF Holders
    <3>2. h[1] \in Inos
      BY <3>1 DEF WithBlocks
    <3> QED BY <3>1, <3>2, HolderIs
  <2>2. CASE b \in fs.free
    <3>1. Holders(b) = {}
      BY <2>1, <2>2
    <3> QED BY <2>2, <3>1, FS_EmptySet
  <2>3. CASE b \notin fs.free
    <3>1. PICK i \in Inos, s \in Slots : Held(fs, i, s) = b
      BY <1>1, <2>3 DEF Sound, Owned
    <3>2. i \in WithBlocks
      BY <3>1, HolderIs
    <3>3. <<i, s>> \in Holders(b)
      BY <3>1, <3>2 DEF Holders
    <3>4. ASSUME NEW h \in Holders(b) PROVE h = <<i, s>>
      <4>1. b # 0
        BY <1>1, DataRange
      <4>2. h[1] = i /\ h[2] = s
        BY <1>1, <2>1, <3>1, <4>1 DEF Sound, Apart
      <4> QED BY <2>1, <4>2
    <3>5. Holders(b) = {<<i, s>>}
      BY <3>3, <3>4
    <3> QED BY <2>3, <3>5, FS_Singleton
  <2> QED BY <2>2, <2>3
<1>3. ASSUME NEW i \in Inos \ {0}
      PROVE  Cardinality({off \in EntryOffsets(fs) : Entry(fs, off).n = i}) =
               IF i = ROOT_INO THEN 0 ELSE fs.inode[i].nlink
  <2>1. CASE i = ROOT_INO
    <3>1. {off \in EntryOffsets(fs) : Entry(fs, off).n = i} = {}
      BY <1>1, <2>1, InosAre DEF Named
    <3> QED BY <2>1, <3>1, FS_EmptySet
  <2>2. CASE i # ROOT_INO
    BY <1>1, <2>2 DEF Named, NamedIn, Files
  <2> QED BY <2>1, <2>2
<1> QED BY <1>2, <1>3 DEF BlocksAccounted

LEMMA NoTraceIs ==
  ASSUME CarefulHabits, IInv
  PROVE  NoSpaceNoTrace
<1>1. /\ Careful(habit) /\ Sound(fs) /\ Capped(fs)
  BY IInvMeans
<1>2. ASSUME NEW i \in WithBlocks, NEW size \in Sizes, ChangeSize(fs, i, size).r = "ENOSPC"
      PROVE  /\ ChangeSize(fs, i, size).fs.free = fs.free
             /\ ChangeSize(fs, i, size).fs.inode = fs.inode
  <2>1. i \in Inos /\ fs.inode[i].ftype # "symlink"
    BY DEF WithBlocks
  <2> QED BY <1>1, <1>2, <2>1, NoTrace
<1> QED BY <1>2 DEF NoSpaceNoTrace

LEMMA OwnBlock ==
  ASSUME CarefulHabits, IInv, NEW p \in Procs, writing[p] # Idle
  PROVE  writing[p].block = Blockno(fs, writing[p].ino, writing[p].pos)
BY DEF IInv, WritesWell

(* Every variable keeps its type, however large the disk and whatever      *)
(* careful programs do.                                                    *)
THEOREM TypeCorrect ==
  ASSUME CarefulHabits
  PROVE  Spec => []TypeOK
<1>1. IInv => TypeOK
  BY TypesAre
<1> QED BY <1>1, Invariant, PTL

(* Every data block is free or in exactly one place of one file, and every *)
(* file has as many names as its link count says: allocate_block() and     *)
(* free_block() balance on every path of change_size(), and the operations *)
(* on the directory keep the counts.                                       *)
THEOREM BlocksAccountedFor ==
  ASSUME CarefulHabits
  PROVE  Spec => []BlocksAccounted
<1>1. IInv => BlocksAccounted
  BY BlocksAre
<1> QED BY <1>1, Invariant, PTL

(* Every block below the size of a file is there and not free: add_block() *)
(* and remove_block() leave the other blocks of the file, and the other    *)
(* files, alone.                                                           *)
THEOREM BlocksThere ==
  ASSUME CarefulHabits
  PROVE  Spec => []EveryBlockThere
<1>1. IInv => EveryBlockThere
  BY IInvMeans, EveryBlockThereIs
<1> QED BY <1>1, Invariant, PTL

(* A change_size() that fails for want of blocks, whatever file and size   *)
(* it was asked for and however many blocks it got before, leaves every    *)
(* inode and the bitmap as they were.                                      *)
THEOREM LeavesNoTrace ==
  ASSUME CarefulHabits
  PROVE  Spec => []NoSpaceNoTrace
<1>1. IInv => NoSpaceNoTrace
  BY NoTraceIs
<1> QED BY <1>1, Invariant, PTL

(* A program that lists the directory in several calls to                  *)
(* ospfs_dir_readdir(), while others add and remove names, is given every  *)
(* name that stays exactly once and none that was never there.             *)
THEOREM ListsCorrectly ==
  ASSUME CarefulHabits
  PROVE  Spec => []ListsWhatStays
<1>1. IInv => ListsWhatStays
  BY ListedOnce DEF IInv
<1> QED BY <1>1, Invariant, PTL

---------------------------------------------------------------------------
(* Reading.  A read of want words from word p of file i takes, when it     *)
(* has the first a of them, so many from the block it stands in;           *)
Share(p, want, a) == Min({BLKSIZE - ((p + a) % BLKSIZE), want - a})
(* these are the words it takes,                                           *)
Piece(f, i, p, want, a) ==
  [k \in 1..Share(p, want, a) |-> f.disk[Blockno(f, i, p + a)][k - 1].n]
(* and these are the words that it should still take.                      *)
Rest(f, i, p, want, a) == [k \in 1..want - a |-> Word0(f, i, (p + a) + k - 1)]
(* It stands at the beginning of a block, or has them all.                 *)
Stands(p, want, a) == a \in 0..want /\ (((p + a) % BLKSIZE) = 0 \/ a = want)

(* A read of want words from word p lies within the file.                  *)
Readable(f, i, p, want) ==
  /\ Sound(f) /\ Capped(f) /\ i \in Inos /\ f.inode[i].ftype # "symlink"
  /\ p \in Nat /\ want \in Nat /\ p + want <= f.inode[i].size

(* A read goes from block to block,                                        *)
LEMMA ShareIs ==
  ASSUME NEW p \in Nat, NEW want \in Nat, NEW a \in 0..want, a # want
  PROVE  /\ Share(p, want, a) \in 1..want - a /\ Share(p, want, a) <= BLKSIZE
         /\ Stands(p, want, a + Share(p, want, a))
<1> DEFINE r == (p + a) % BLKSIZE
           q == (p + a) \div BLKSIZE
           n == Share(p, want, a)
<1>1. a \in Nat /\ want - a \in Nat /\ want - a > 0 /\ p + a \in Nat
  OBVIOUS
<1>2. r \in Index /\ q \in Nat /\ p + a = q * BLKSIZE + r
  BY <1>1, DivMod
<1>3. r \in Nat /\ BLKSIZE - r \in Nat /\ BLKSIZE - r > 0 /\ BLKSIZE \in Nat /\ BLKSIZE > 0
      /\ BLKSIZE - r <= BLKSIZE
  <2> HIDE DEF r
  <2> QED BY <1>2, SizeAssumption DEF Index
<1>4. n = IF BLKSIZE - r <= want - a THEN BLKSIZE - r ELSE want - a
  <2>1. n = Min({BLKSIZE - r, want - a})
    BY DEF Share
  <2> HIDE DEF n, r
  <2> QED BY <1>1, <1>3, <2>1, MinOfTwo
<1> HIDE DEF n, r, q
<1>5. n \in 1..want - a /\ n <= BLKSIZE /\ a + n \in 0..want
  BY <1>1, <1>3, <1>4
<1>6. a + n = want \/ n = BLKSIZE - r
  BY <1>1, <1>3, <1>4
<1>7. ASSUME n = BLKSIZE - r PROVE ((p + (a + n)) % BLKSIZE) = 0
  <2>1. p + (a + n) = (q + 1) * BLKSIZE + 0
    <3>1. (q + 1) * BLKSIZE = q * BLKSIZE + BLKSIZE
      BY <1>2, <1>3
    <3>2. q * BLKSIZE \in Nat
      BY <1>2, <1>3
    <3> DEFINE qb == q * BLKSIZE
    <3>3. p + a = qb + r /\ qb \in Nat /\ (q + 1) * BLKSIZE = qb + BLKSIZE
      BY <1>2, <3>1, <3>2
    <3> HIDE DEF qb
    <3> QED BY <1>1, <1>3, <1>7, <3>3
  <2>2. q + 1 \in Nat /\ 0 \in Index
    BY <1>2, ZeroIndex
  <2>3. (((q + 1) * BLKSIZE + 0) % BLKSIZE) = 0
    BY <2>2, DivIs
  <2> QED BY <2>1, <2>3
<1> QED BY <1>5, <1>6, <1>7 DEF Stands, n

(* every block it comes to is there,                                       *)
LEMMA WordRead ==
  ASSUME NEW f, NEW i, NEW p, NEW want, Careful(habit), Readable(f, i, p, want),
         NEW a \in 0..want, a # want
  PROVE  /\ Blockno(f, i, p + a) # 0
         /\ Word0(f, i, p + a) \in Nat
         /\ \A k \in Index : f.disk[Blockno(f, i, p + a)][k].n \in Nat
<1>1. /\ Sound(f) /\ Capped(f) /\ i \in Inos /\ f.inode[i].ftype # "symlink" /\ f \in Disks
      /\ p + a \in Nat /\ p + a < f.inode[i].size
  <2>1. f.inode[i].size \in Nat /\ f \in Disks
    BY CountType DEF Readable, Sound
  <2> QED BY <2>1 DEF Readable
<1> DEFINE b == Blockno(f, i, p + a)
           w == (p + a) % BLKSIZE
<1>2. b \in DataBlocks
  BY <1>1, BlocknoIs
<1>3. b # 0 /\ b \in Nat /\ b \in 0..NBLOCKS + 2
  BY <1>2, DataRange
<1>4. w \in Index
  BY <1>1, DivMod
<1>5. Word0(f, i, p + a) = Word(f, b, w)
  BY DEF Word0
<1> HIDE DEF b, w
<1>6. \A k \in Index : f.disk[b][k] \in Cells
  BY <1>1, <1>3, Fields
<1>7. \A k \in Index : f.disk[b][k].n \in Nat
  BY <1>6 DEF Cells
<1>8. Word(f, b, w) = f.disk[b][w].n
  BY <1>3, <1>4, WordIs
<1> QED BY <1>3, <1>4, <1>5, <1>7, <1>8 DEF b

LEMMA RestType ==
  ASSUME NEW f, NEW i, NEW p, NEW want, Careful(habit), Readable(f, i, p, want), NEW a \in 0..want
  PROVE  /\ Rest(f, i, p, want, a) \in Seq(Nat) /\ Len(Rest(f, i, p, want, a)) = want - a
         /\ \A k \in 1..want - a : Rest(f, i, p, want, a)[k] = Word0(f, i, (p + a) + k - 1)
         /\ a = want => Rest(f, i, p, want, a) = <<>>
<1> DEFINE s == Rest(f, i, p, want, a)
           n == want - a
<1>1. n \in Nat /\ p \in Nat /\ want \in Nat /\ a \in Nat
  BY DEF Readable
<1>2. ASSUME NEW k \in 1..n PROVE Word0(f, i, (p + a) + k - 1) \in Nat
  <2> DEFINE c == a + k - 1
  <2>1. c \in 0..want /\ c # want /\ (p + a) + k - 1 = p + c
    BY <1>1
  <2> HIDE DEF c
  <2>2. Word0(f, i, p + c) \in Nat
    BY <2>1, WordRead
  <2> QED BY <2>1, <2>2
<1>3. /\ s = [k \in 1..n |-> Word0(f, i, (p + a) + k - 1)]
      /\ \A k \in 1..n : s[k] = Word0(f, i, (p + a) + k - 1)
  BY DEF Rest
<1>4. s \in [1..n -> Nat]
  BY <1>2, <1>3
<1> HIDE DEF s, n
<1>5. s \in Seq(Nat) /\ Len(s) = n
  BY <1>1, <1>4, SeqDef, LenProperties
<1>6. n = 0 => s = <<>>
  BY <1>5, EmptySeq
<1>7. a = want => n = 0
  BY <1>1 DEF n
<1> QED BY <1>3, <1>5, <1>6, <1>7 DEF s, n

LEMMA PieceType ==
  ASSUME NEW f, NEW i, NEW p, NEW want, Careful(habit), Readable(f, i, p, want),
         NEW a \in 0..want, a # want
  PROVE  /\ Piece(f, i, p, want, a) \in Seq(Nat)
         /\ Len(Piece(f, i, p, want, a)) = Share(p, want, a)
         /\ \A k \in 1..Share(p, want, a) :
              /\ k - 1 \in Index
              /\ Piece(f, i, p, want, a)[k] = f.disk[Blockno(f, i, p + a)][k - 1].n
<1> DEFINE s == Piece(f, i, p, want, a)
           n == Share(p, want, a)
           b == Blockno(f, i, p + a)
<1>1. n \in 1..want - a /\ n \in Nat /\ n <= BLKSIZE /\ BLKSIZE \in Nat
  <2>1. p \in Nat /\ want \in Nat
    BY DEF Readable
  <2>2. n \in 1..want - a /\ n <= BLKSIZE
    BY <2>1, ShareIs
  <2> HIDE DEF n
  <2> QED BY <2>1, <2>2, SizeAssumption
<1>2. \A k \in Index : f.disk[b][k].n \in Nat
  BY WordRead
<1>3. s = [k \in 1..n |-> f.disk[b][k - 1].n]
  BY DEF Piece
<1> HIDE DEF s, n, b
<1>4. \A k \in 1..n : k - 1 \in Index
  BY <1>1 DEF Index
<1>5. s \in [1..n -> Nat]
  BY <1>2, <1>3, <1>4
<1>6. s \in Seq(Nat) /\ Len(s) = n
  BY <1>1, <1>5, SeqDef, LenProperties
<1> QED BY <1>3, <1>4, <1>6 DEF s, n, b

---------------------------------------------------------------------------
(* The words of one block, from its beginning.                             *)
LEMMA SameBlock ==
  ASSUME NEW f, Sound(f), Capped(f), Careful(habit), NEW i \in Inos,
         f.inode[i].ftype # "symlink", NEW pos \in Nat, (pos % BLKSIZE) = 0,
         NEW k \in Index, pos + k < f.inode[i].size
  PROVE  Word0(f, i, pos + k) = f.disk[Blockno(f, i, pos)][k].n
<1> DEFINE q == pos \div BLKSIZE
           b == Blockno(f, i, pos)
<1>1. q \in Nat /\ pos = q * BLKSIZE + 0
  BY DivMod
<1>2. k \in Nat
  BY SizeAssumption DEF Index
<1>3. pos + k = q * BLKSIZE + k
  <2> DEFINE qb == q * BLKSIZE
  <2>1. qb \in Nat /\ pos = qb + 0
    BY <1>1, SizeAssumption
  <2>2. pos + k = qb + k
    BY <1>2, <2>1
  <2> QED BY <2>2
<1>4. ((pos + k) \div BLKSIZE) = q /\ ((pos + k) % BLKSIZE) = k
  <2> HIDE DEF q
  <2> QED BY <1>1, <1>3, DivIs
<1>5. f.inode[i].size \in Nat
  BY CountType DEF Sound
<1>6. pos < f.inode[i].size /\ pos + k \in Nat
  BY <1>2, <1>5
<1>7. Blockno(f, i, pos) = Held(f, i, Place(q)) /\ b \in DataBlocks
  BY <1>6, BlocknoIs
<1>8. Blockno(f, i, pos + k) = Held(f, i, Place((pos + k) \div BLKSIZE))
  BY <1>6, BlocknoIs
<1>9. Blockno(f, i, pos + k) = b
  BY <1>4, <1>7, <1>8
<1>10. b \in Nat
  BY <1>7, DataRange
<1> HIDE DEF b, q
<1>11. Word0(f, i, pos + k) = Word(f, b, k)
  BY <1>4, <1>9 DEF Word0
<1> QED BY <1>10, <1>11, WordIs DEF b

(* and a block's words are the first of those still to be read.            *)
LEMMA RestStep ==
  ASSUME NEW f, NEW i, NEW p, NEW want, Careful(habit), Readable(f, i, p, want),
         NEW a, Stands(p, want, a), a # want
  PROVE  Piece(f, i, p, want, a) \o Rest(f, i, p, want, a + Share(p, want, a))
           = Rest(f, i, p, want, a)
<1> DEFINE n == Share(p, want, a)
           s == Piece(f, i, p, want, a)
           t == Rest(f, i, p, want, a + n)
           u == Rest(f, i, p, want, a)
           b == Blockno(f, i, p + a)
<1>1. /\ p \in Nat /\ want \in Nat /\ a \in 0..want /\ ((p + a) % BLKSIZE) = 0
      /\ Sound(f) /\ Capped(f) /\ i \in Inos /\ f.inode[i].ftype # "symlink"
      /\ p + want <= f.inode[i].size /\ f.inode[i].size \in Nat
  BY CountType DEF Stands, Readable, Sound
<1>2. n \in 1..want - a /\ a + n \in 0..want
  <2>1. n \in 1..want - a
    BY <1>1, ShareIs
  <2> HIDE DEF n
  <2> QED BY <1>1, <2>1
<1>3. /\ s \in Seq(Nat) /\ Len(s) = n
      /\ \A k \in 1..n : k - 1 \in Index /\ s[k] = f.disk[b][k - 1].n
  BY <1>1, PieceType
<1>4. /\ t \in Seq(Nat) /\ Len(t) = want - (a + n)
      /\ \A k \in 1..want - (a + n) : t[k] = Word0(f, i, (p + (a + n)) + k - 1)
  <2> HIDE DEF n
  <2> QED BY <1>2, RestType
<1>5. /\ u \in Seq(Nat) /\ Len(u) = want - a
      /\ \A k \in 1..want - a : u[k] = Word0(f, i, (p + a) + k - 1)
  <2>1. a \in 0..want
    BY <1>1
  <2> QED BY <2>1, RestType
<1> HIDE DEF n, s, t, u, b
<1>6. n \in Nat /\ a \in Nat /\ want - a \in Nat /\ n <= want - a
      /\ want - (a + n) = (want - a) - n /\ n + (want - (a + n)) = want - a
  BY <1>1, <1>2
<1>7. /\ s \o t \in Seq(Nat) /\ Len(s \o t) = Len(s) + Len(t)
      /\ \A k \in 1..Len(s) + Len(t) :
           (s \o t)[k] = IF k <= Len(s) THEN s[k] ELSE t[k - Len(s)]
  <2>1. s \in Seq(Nat) /\ t \in Seq(Nat)
    BY <1>3, <1>4
  <2> QED BY <2>1, ConcatProperties
<1>8. Len(s \o t) = Len(u) /\ Len(u) = want - a
  BY <1>3, <1>4, <1>5, <1>6, <1>7
<1>9. ASSUME NEW k \in 1..want - a PROVE (s \o t)[k] = u[k]
  <2>1. (s \o t)[k] = IF k <= n THEN s[k] ELSE t[k - n]
    BY <1>3, <1>4, <1>6, <1>7, <1>9
  <2>2. k \in Nat /\ k >= 1 /\ u[k] = Word0(f, i, (p + a) + k - 1)
    BY <1>5, <1>6
  <2>3. CASE k <= n
    <3> DEFINE m == k - 1
    <3>1. k \in 1..n /\ m \in Nat /\ p + a \in Nat /\ (p + a) + m < f.inode[i].size
          /\ (p + a) + k - 1 = (p + a) + m
      BY <1>1, <1>6, <2>2, <2>3
    <3>2. m \in Index /\ s[k] = f.disk[b][m].n
      BY <1>3, <3>1
    <3> HIDE DEF m
    <3>3. Word0(f, i, (p + a) + m) = f.disk[Blockno(f, i, p + a)][m].n
      BY <1>1, <3>1, <3>2, SameBlock
    <3> QED BY <2>1, <2>2, <2>3, <3>1, <3>2, <3>3 DEF b
  <2>4. CASE ~(k <= n)
    <3>1. k - n \in 1..want - (a + n) /\ (p + (a + n)) + (k - n) - 1 = (p + a) + k - 1
      BY <1>1, <1>6, <2>2, <2>4
    <3>2. t[k - n] = Word0(f, i, (p + (a + n)) + (k - n) - 1)
      BY <1>4, <3>1
    <3> QED BY <2>1, <2>2, <2>4, <3>1, <3>2
  <2> QED BY <2>3, <2>4
<1>10. s \o t = u
  BY <1>5, <1>7, <1>8, <1>9, SeqEqual
<1> QED BY <1>10 DEF n, s, t, u

---------------------------------------------------------------------------
(* What the loop of a read hands over when it has amount of the words.     *)
Gathers(f, i, p, want, g) ==
  g = [amount \in 0..want |->
         IF amount = want THEN <<>>
         ELSE IF Blockno(f, i, p + amount) = 0 THEN <<-1>>
         ELSE Piece(f, i, p, want, amount) \o g[amount + Share(p, want, amount)]]

(* There is such a function, and it gives at the start of a block what is  *)
(* still to be read.                                                       *)
LEMMA GatherThereIs ==
  ASSUME NEW f, NEW i, NEW p, NEW want, Careful(habit), Readable(f, i, p, want)
  PROVE  \E g : Gathers(f, i, p, want, g)
<1> DEFINE g == [a \in 0..want |->
                   IF a = want THEN <<>>
                   ELSE Piece(f, i, p, want, a) \o Rest(f, i, p, want, a + Share(p, want, a))]
<1>1. p \in Nat /\ want \in Nat
  BY DEF Readable
<1>2. ASSUME NEW a, Stands(p, want, a) PROVE g[a] = Rest(f, i, p, want, a)
  <2>1. a \in 0..want
    BY <1>2 DEF Stands
  <2>2. CASE a = want
    BY <2>1, <2>2, RestType
  <2>3. CASE a # want
    BY <1>2, <2>1, <2>3, RestStep
  <2> QED BY <2>2, <2>3
<1>3. ASSUME NEW a \in 0..want
      PROVE  g[a] = IF a = want THEN <<>>
                    ELSE IF Blockno(f, i, p + a) = 0 THEN <<-1>>
                    ELSE Piece(f, i, p, want, a) \o g[a + Share(p, want, a)]
  <2>1. CASE a = want
    BY <2>1
  <2>2. CASE a # want
    <3>1. Stands(p, want, a + Share(p, want, a)) /\ Blockno(f, i, p + a) # 0
      BY <1>1, <2>2, ShareIs, WordRead
    <3>2. g[a + Share(p, want, a)] = Rest(f, i, p, want, a + Share(p, want, a))
      BY <1>2, <3>1
    <3>3. g[a] = Piece(f, i, p, want, a) \o Rest(f, i, p, want, a + Share(p, want, a))
      BY <2>2
    <3> HIDE DEF g
    <3> QED BY <2>2, <3>1, <3>2, <3>3
  <2> QED BY <2>1, <2>2
<1>4. g = [a \in 0..want |-> g[a]]
  OBVIOUS
<1> HIDE DEF g
<1>5. Gathers(f, i, p, want, g)
  BY <1>3, <1>4 DEF Gathers
<1> QED BY <1>5

(* It gives, at the start of a block, what is still to be read.            *)
LEMMA GatherIs ==
  ASSUME NEW f, NEW i, NEW p, NEW want, Careful(habit), Readable(f, i, p, want),
         (p % BLKSIZE) = 0, NEW g, Gathers(f, i, p, want, g)
  PROVE  g[0] = Rest(f, i, p, want, 0)
<1> DEFINE Wrong(a) == Stands(p, want, a) /\ g[a] # Rest(f, i, p, want, a)
           S == {m \in Nat : \E a \in 0..want : Wrong(a) /\ m = want - a}
<1>1. p \in Nat /\ want \in Nat /\ Stands(p, want, 0) /\ 0 \in 0..want
  BY DEF Readable, Stands
<1>2. SUFFICES ASSUME Wrong(0) PROVE FALSE
  BY <1>1
<1>3. S \in SUBSET Nat /\ S # {}
  <2>1. want - 0 \in S
    BY <1>1, <1>2
  <2> QED BY <2>1
<1>4. PICK m \in S : \A y \in S : ~(y < m)
  <2> HIDE DEF S
  <2> QED BY <1>3, LeastElement
<1>5. PICK a \in 0..want : Wrong(a) /\ m = want - a
  BY <1>4
<1>6. Stands(p, want, a) /\ g[a] # Rest(f, i, p, want, a)
  BY <1>5
<1> DEFINE c == a + Share(p, want, a)
<1>7. a # want
  <2>1. SUFFICES ASSUME a = want PROVE FALSE
    OBVIOUS
  <2>2. g[a] = <<>>
    BY <2>1 DEF Gathers
  <2>3. Rest(f, i, p, want, a) = <<>>
    BY <2>1, RestType
  <2> QED BY <1>6, <2>2, <2>3
<1>8. g[a] = Piece(f, i, p, want, a) \o g[c]
  <2>1. Blockno(f, i, p + a) # 0
    BY <1>7, WordRead
  <2> QED BY <1>7, <2>1 DEF Gathers
<1>9. Share(p, want, a) \in 1..want - a /\ Stands(p, want, c)
  BY <1>1, <1>7, ShareIs
<1>10. c \in 0..want /\ want - c \in Nat /\ want - c < m
  BY <1>1, <1>5, <1>9
<1>11. ~Wrong(c)
  <2>1. SUFFICES ASSUME Wrong(c) PROVE FALSE
    OBVIOUS
  <2> HIDE DEF Wrong, c
  <2>2. want - c \in S
    BY <1>10, <2>1
  <2> QED BY <1>4, <1>10, <2>2
<1>12. g[c] = Rest(f, i, p, want, c)
  BY <1>9, <1>11
<1>13. Piece(f, i, p, want, a) \o Rest(f, i, p, want, c) = Rest(f, i, p, want, a)
  BY <1>6, <1>7, RestStep
<1> QED BY <1>6, <1>8, <1>12, <1>13

---------------------------------------------------------------------------

(* What a file holds.                                                      *)
LEMMA ContentIs ==
  ASSUME CarefulHabits, IInv, NEW i \in Inos, IsFile(i)
  PROVE  /\ Content(i) \in Seq(Nat) /\ Len(Content(i)) = fs.inode[i].size
         /\ fs.inode[i].size \in 0..UINT - 1
         /\ \A u \in 1..fs.inode[i].size : Content(i)[u] = Word0(fs, i, u - 1)
<1> DEFINE size == fs.inode[i].size
           s == Content(i)
<1>1. /\ Careful(habit) /\ Sound(fs) /\ Capped(fs) /\ fs \in Disks
      /\ size \in 0..UINT - 1 /\ size \in Nat
      /\ fs.inode[i].nlink # 0 /\ fs.inode[i].ftype = "reg"
  BY IInvMeans, CountType DEF IsFile
<1>2. Readable(fs, i, 0, size)
  BY <1>1 DEF Readable
<1>3. ASSUME NEW u \in 1..size PROVE Word0(fs, i, u - 1) \in Nat
  <2> DEFINE c == u - 1
  <2>1. c \in 0..size /\ c # size /\ 0 + c = c
    BY <1>1
  <2> HIDE DEF c
  <2>2. Word0(fs, i, c) \in Nat
    BY <1>1, <1>2, <2>1, WordRead
  <2> QED BY <2>2 DEF c
<1>4. s = [u \in 1..size |-> Word0(fs, i, u - 1)]
  BY <1>1 DEF Content, IsLink
<1> HIDE DEF s, size
<1>5. s \in [1..size -> Nat]
  BY <1>3, <1>4
<1>6. s \in Seq(Nat) /\ Len(s) = size
  BY <1>1, <1>5, SeqDef, LenProperties
<1> QED BY <1>1, <1>4, <1>6 DEF s, size

(* The loop of ospfs_read() gathers the words in order.                    *)
LEMMA ReadIs ==
  ASSUME NEW i, NEW p, NEW count, NEW want, Careful(habit), Readable(fs, i, p, want),
         (p % BLKSIZE) = 0,
         want = IF p + count > fs.inode[i].size THEN (fs.inode[i].size - p) % UINT ELSE count
  PROVE  Read(i, p, count) = Rest(fs, i, p, want, 0)
<1> DEFINE Is(g) ==
      g = [amount \in 0..want |->
             LET pos == p + amount
                 n == Min({BLKSIZE - (pos % BLKSIZE), want - amount})
                 b == Blockno(fs, i, pos)
             IN IF amount = want THEN <<>>
                ELSE IF b = 0 THEN <<-1>>
                ELSE [k \in 1..n |-> fs.disk[b][k - 1].n] \o g[amount + n]]
           from == CHOOSE g : Is(g)
<1>1. \A g : Is(g) <=> Gathers(fs, i, p, want, g)
  BY DEF Gathers, Piece, Share
<1>2. Read(i, p, count) = from[0]
  BY DEF Read
<1> HIDE DEF Is
<1>3. Is(from)
  BY <1>1, GatherThereIs
<1> HIDE DEF from
<1>4. Gathers(fs, i, p, want, from)
  BY <1>1, <1>3
<1> QED BY <1>2, <1>4, GatherIs

(* A read from the start of a block is a part of the file.                 *)
LEMMA ReadsAre ==
  ASSUME CarefulHabits, IInv, NEW i \in Inos, IsFile(i), NEW p \in Nat, (p % BLKSIZE) = 0,
         p <= fs.inode[i].size, NEW count \in Nat
  PROVE  Read(i, p, count) = SubSeq(Content(i), p + 1, Min({p + count, Len(Content(i))}))
<1> DEFINE size == fs.inode[i].size
           want == IF p + count > size THEN (size - p) % UINT ELSE count
           s == Content(i)
           t == Rest(fs, i, p, want, 0)
           e == Min({p + count, Len(s)})
           v == SubSeq(s, p + 1, e)
<1>1. /\ Careful(habit) /\ Sound(fs) /\ Capped(fs) /\ fs.inode[i].ftype # "symlink"
      /\ s \in Seq(Nat) /\ Len(s) = size /\ size \in 0..UINT - 1 /\ size \in Nat
      /\ \A u \in 1..size : s[u] = Word0(fs, i, u - 1)
  BY IInvMeans, ContentIs DEF IsFile
<1> HIDE DEF s, size
<1>2. UINT \in Nat /\ size - p \in Nat /\ size - p \in 0..UINT - 1
  <2>1. p <= size
    BY DEF size
  <2>2. size \in Nat /\ size <= UINT - 1 /\ UINT \in Nat
    BY <1>1, SizeAssumption
  <2> QED BY <2>1, <2>2
<1>3. (size - p) % UINT = size - p
  <2> DEFINE d == size - p
  <2>1. d \in 0..UINT - 1 /\ d \in Int
    BY <1>2
  <2> HIDE DEF d
  <2>2. (d % UINT) = d
    BY <2>1, ModOnce
  <2> QED BY <2>2 DEF d
<1>4. want = IF p + count > size THEN size - p ELSE count
  BY <1>3
<1>5. want \in Nat /\ p + want <= size
  BY <1>1, <1>2, <1>4
<1>6. e = p + want
  <2> HIDE DEF want
  <2>1. e = IF p + count <= size THEN p + count ELSE size
    <3>1. p + count \in Nat
      OBVIOUS
    <3> QED BY <1>1, <3>1, MinOfTwo
  <2> QED BY <1>1, <1>2, <1>4, <2>1
<1>7. Readable(fs, i, p, want)
  <2> HIDE DEF want
  <2> QED BY <1>1, <1>5 DEF Readable, size
<1>8. Read(i, p, count) = t
  <2>1. want = IF p + count > fs.inode[i].size THEN (fs.inode[i].size - p) % UINT ELSE count
    BY DEF size
  <2> HIDE DEF want
  <2> QED BY <1>1, <1>7, <2>1, ReadIs
<1> HIDE DEF want
<1>9. /\ t \in Seq(Nat) /\ Len(t) = want
      /\ \A k \in 1..want : t[k] = Word0(fs, i, p + k - 1)
  <2>1. 0 \in 0..want /\ want - 0 = want /\ p + 0 = p
    BY <1>5
  <2> QED BY <1>1, <1>7, <2>1, RestType
<1>10. /\ v \in Seq(Nat) /\ Len(v) = want
       /\ \A k \in 1..want : v[k] = s[(p + 1) + k - 1]
  <2>1. \A u \in (p + 1)..e : u \in 1..size
    BY <1>1, <1>5, <1>6
  <2>2. \A u \in 1..size : s[u] \in Nat
    BY <1>1, ElementOfSeq
  <2>3. \A u \in (p + 1)..e : s[u] \in Nat
    BY <2>1, <2>2
  <2>4. p + 1 \in Int /\ e \in Int
    BY <1>5, <1>6
  <2> HIDE DEF e
  <2>5. /\ v \in Seq(Nat) /\ Len(v) = (IF p + 1 <= e THEN e - (p + 1) + 1 ELSE 0)
        /\ \A k \in 1..e - (p + 1) + 1 : v[k] = s[(p + 1) + k - 1]
    BY <2>3, <2>4, SubSeqProperties
  <2>6. e - (p + 1) + 1 = want /\ (p + 1 <= e <=> want > 0)
    BY <1>5, <1>6
  <2> QED BY <1>5, <2>5, <2>6
<1>11. ASSUME NEW k \in 1..want PROVE t[k] = v[k]
  <2>1. (p + 1) + k - 1 = p + k /\ p + k \in 1..size /\ p + k - 1 = (p + k) - 1
    BY <1>1, <1>5
  <2>2. v[k] = s[(p + 1) + k - 1]
    BY <1>10
  <2>3. t[k] = Word0(fs, i, p + k - 1)
    BY <1>9
  <2>4. s[p + k] = Word0(fs, i, (p + k) - 1)
    BY <1>1, <2>1
  <2>5. v[k] = s[p + k]
    BY <2>1, <2>2
  <2>6. t[k] = Word0(fs, i, (p + k) - 1)
    BY <2>1, <2>3
  <2> QED BY <2>4, <2>5, <2>6
<1> HIDE DEF t, v
<1>12. t = v
  BY <1>9, <1>10, <1>11, SeqEqual
<1> QED BY <1>8, <1>12 DEF v, e, s

(* The invariant implies that reads and writes touch the right blocks.     *)
LEMMA RightBlocksAre ==
  ASSUME CarefulHabits, IInv
  PROVE  RightBlocks
<1>1. \A p \in Procs : writing[p] # Idle =>
        writing[p].block = Blockno(fs, writing[p].ino, writing[p].pos)
  BY OwnBlock
<1>2. ASSUME NEW i \in Inos \ {0, ROOT_INO}, IsFile(i), NEW b \in 0..NBlocksOf(fs, i),
             NEW count \in 0..(MaxCount + 1), b * BLKSIZE <= fs.inode[i].size
      PROVE  Read(i, b * BLKSIZE, count) =
               SubSeq(Content(i), b * BLKSIZE + 1, Min({b * BLKSIZE + count, Len(Content(i))}))
  <2>1. NBlocksOf(fs, i) \in Nat
    BY IInvMeans, CountType
  <2>2. b \in Nat /\ b * BLKSIZE \in Nat /\ ((b * BLKSIZE) % BLKSIZE) = 0
    <3>1. b \in Nat /\ BLKSIZE \in Nat /\ 0 \in Index
      BY <2>1, SizeAssumption, ZeroIndex
    <3>2. ((b * BLKSIZE + 0) % BLKSIZE) = 0
      BY <3>1, DivIs
    <3>3. b * BLKSIZE \in Nat
      BY <3>1
    <3>4. b * BLKSIZE + 0 = b * BLKSIZE
      BY <3>3
    <3> QED BY <3>1, <3>2, <3>3, <3>4
  <2>3. count \in Nat
    BY SizeAssumption
  <2> DEFINE p == b * BLKSIZE
  <2>4. p \in Nat /\ (p % BLKSIZE) = 0 /\ p <= fs.inode[i].size
    BY <1>2, <2>2
  <2> HIDE DEF p
  <2>5. Read(i, p, count) = SubSeq(Content(i), p + 1, Min({p + count, Len(Content(i))}))
    BY <1>2, <2>3, <2>4, ReadsAre
  <2> QED BY <2>5 DEF p
<1> QED BY <1>1, <1>2 DEF RightBlocks

(* A write that slept in copy_from_user() copies into the block that its   *)
(* file has at that place, and a read from the start of a block hands over *)
(* what the file holds there.                                              *)
THEOREM ReadsRight ==
  ASSUME CarefulHabits
  PROVE  Spec => []RightBlocks
<1>1. IInv => RightBlocks
  BY RightBlocksAre
<1> QED BY <1>1, Invariant, PTL

---------------------------------------------------------------------------
(* What FileSystem sees of disk f: the file each name stands for, and the  *)
(* kind and the words of every file.                                       *)
LookupIn(f, name) ==
  LET found == Matches(f, name) IN IF found = {} THEN 0 ELSE Entry(f, Min(found)).n
EntriesOf(f) == [name \in Names |-> LookupIn(f, name)]

KindIn(f, i) == IF f.inode[i].nlink = 0 THEN "none" ELSE f.inode[i].ftype
KindsOf(f) == [i \in Files |-> KindIn(f, i)]

WordsIn(f, i) ==
  IF f.inode[i].nlink = 0 THEN <<>>
  ELSE [u \in 1..f.inode[i].size |->
          IF f.inode[i].nlink > 0 /\ f.inode[i].ftype = "symlink" THEN 0 ELSE Word0(f, i, u - 1)]
ContentsOf(f) == [i \in Files |-> WordsIn(f, i)]

(* These are the functions that Ospfs substitutes.                         *)
LEMMA SeenNow ==
  /\ [name \in Names |-> Lookup(name)] = EntriesOf(fs)
  /\ [i \in Inos \ {0, ROOT_INO} |->
        IF fs.inode[i].nlink = 0 THEN "none" ELSE fs.inode[i].ftype] = KindsOf(fs)
  /\ [i \in Inos \ {0, ROOT_INO} |-> Content(i)] = ContentsOf(fs)
<1>1. \A name : Lookup(name) = LookupIn(fs, name)
  BY DEF Lookup, LookupIn
<1>2. \A i : Content(i) = WordsIn(fs, i)
  BY DEF Content, WordsIn, IsLink
<1> QED BY <1>1, <1>2 DEF EntriesOf, KindsOf, ContentsOf, KindIn, Files

LEMMA SeenNext ==
  /\ [name \in Names |-> Lookup(name)]' = EntriesOf(fs')
  /\ [i \in Inos \ {0, ROOT_INO} |->
        IF fs.inode[i].nlink = 0 THEN "none" ELSE fs.inode[i].ftype]' = KindsOf(fs')
  /\ [i \in Inos \ {0, ROOT_INO} |-> Content(i)]' = ContentsOf(fs')
<1>1. \A name : Lookup(name)' = LookupIn(fs', name)
  BY DEF Lookup, LookupIn
<1>2. \A i : Content(i)' = WordsIn(fs', i)
  BY DEF Content, WordsIn, IsLink
<1> QED BY <1>1, <1>2 DEF EntriesOf, KindsOf, ContentsOf, KindIn, Files

LEMMA SeenStutter ==
  ASSUME EntriesOf(fs') = EntriesOf(fs), KindsOf(fs') = KindsOf(fs),
         ContentsOf(fs') = ContentsOf(fs)
  PROVE  UNCHANGED Promised!vars
BY SeenNow, SeenNext DEF Promised!vars

LEMMA SeenMake ==
  ASSUME NEW name \in Names, NEW i \in Files, NEW k, NEW words,
         (k = "reg" /\ words = <<>>) \/ (k = "symlink" /\ words = << 0 >>),
         EntriesOf(fs)[name] = 0, KindsOf(fs)[i] = "none",
         EntriesOf(fs') = [EntriesOf(fs) EXCEPT ![name] = i],
         KindsOf(fs') = [KindsOf(fs) EXCEPT ![i] = k],
         ContentsOf(fs') = [ContentsOf(fs) EXCEPT ![i] = words]
  PROVE  Promised!Next
<1>1. Promised!Make(name, i, k, words)
  BY SeenNow, SeenNext DEF Promised!Make
<1>2. Promised!Make(name, i, "reg", <<>>) \/ Promised!Make(name, i, "symlink", << 0 >>)
  BY <1>1
<1>3. EntriesOf(fs')[name] # EntriesOf(fs)[name]
  BY InosAre DEF EntriesOf
<1>4. name \in Promised!Renamed
  BY <1>3, SeenNow, SeenNext DEF Promised!Renamed
<1> QED BY <1>2, <1>4 DEF Promised!Next, Files

LEMMA SeenLink ==
  ASSUME NEW src \in Names, NEW name \in Names, NEW i \in Files,
         EntriesOf(fs)[src] = i, EntriesOf(fs)[name] = 0,
         EntriesOf(fs') = [EntriesOf(fs) EXCEPT ![name] = i],
         KindsOf(fs') = KindsOf(fs), ContentsOf(fs') = ContentsOf(fs)
  PROVE  Promised!Next
<1>1. Promised!Link(src, name)
  BY SeenNow, SeenNext, InosAre DEF Promised!Link
<1>2. EntriesOf(fs')[name] # EntriesOf(fs)[name]
  BY InosAre DEF EntriesOf
<1>3. name \in Promised!Renamed
  BY <1>2, SeenNow, SeenNext DEF Promised!Renamed
<1> QED BY <1>1, <1>3 DEF Promised!Next

LEMMA SeenUnlink ==
  ASSUME NEW name \in Names, NEW i \in Files, EntriesOf(fs)[name] = i,
         EntriesOf(fs') = [EntriesOf(fs) EXCEPT ![name] = 0],
         IF {m \in Names : EntriesOf(fs)[m] = i} = {name}
         THEN /\ KindsOf(fs') = [KindsOf(fs) EXCEPT ![i] = "none"]
              /\ ContentsOf(fs') = [ContentsOf(fs) EXCEPT ![i] = <<>>]
         ELSE KindsOf(fs') = KindsOf(fs) /\ ContentsOf(fs') = ContentsOf(fs)
  PROVE  Promised!Next
<1>1. Promised!Unlink(name)
  <2>1. Promised!NamesOf(i) = {m \in Names : EntriesOf(fs)[m] = i}
    BY SeenNow DEF Promised!NamesOf
  <2>2. i # 0
    BY InosAre
  <2> QED BY <2>1, <2>2, SeenNow, SeenNext, Zenon DEF Promised!Unlink
<1>2. EntriesOf(fs')[name] # EntriesOf(fs)[name]
  BY InosAre DEF EntriesOf
<1>3. name \in Promised!Renamed
  BY <1>2, SeenNow, SeenNext DEF Promised!Renamed
<1> QED BY <1>1, <1>3 DEF Promised!Next

LEMMA SeenUpdate ==
  ASSUME NEW i \in Files, KindsOf(fs)[i] = "reg",
         EntriesOf(fs') = EntriesOf(fs), KindsOf(fs') = KindsOf(fs),
         \A j \in Files \ {i} : ContentsOf(fs')[j] = ContentsOf(fs)[j],
         \/ Promised!Resized(ContentsOf(fs)[i], ContentsOf(fs')[i])
         \/ Promised!Overwritten(ContentsOf(fs)[i], ContentsOf(fs')[i])
  PROVE  Promised!Next
<1>1. Promised!Update
  BY SeenNow, SeenNext DEF Promised!Update, Files
<1>2. Promised!Renamed = {}
  BY SeenNow, SeenNext DEF Promised!Renamed
<1> QED BY <1>1, <1>2 DEF Promised!Next

---------------------------------------------------------------------------
(* Names                                                                   *)

(* A name stands for the file of its one entry.                            *)
LEMMA LookupMeans ==
  ASSUME NEW f \in Disks, Named(f), NEW name
  PROVE  /\ LookupIn(f, name) \in Files \cup {0}
         /\ LookupIn(f, name) = 0 <=> ~Exists(f, name)
         /\ \A i \in Files : LookupIn(f, name) = i <=>
              \E off \in EntryOffsets(f) : Entry(f, off).n = i /\ Entry(f, off).name = name
<1> DEFINE S == Matches(f, name)
<1>1. \A off \in EntryOffsets(f) : off \in S <=>
        (Entry(f, off).n # 0 /\ Entry(f, off).name = name)
  <2>1. \A off \in EntryOffsets(f) : Entry(f, off).n \in Nat
    BY InosAre DEF Named
  <2>2. \A off \in EntryOffsets(f) : Entry(f, off).n > 0 <=> Entry(f, off).n # 0
    BY <2>1
  <2> QED BY <2>2 DEF Matches
<1>2. S \subseteq EntryOffsets(f) /\ EntryOffsets(f) \subseteq Nat
  <2>1. f.inode[ROOT_INO].size \in Nat
    BY CountType, InosAre
  <2> QED BY <2>1 DEF Matches, EntryOffsets
<1>3. LookupIn(f, name) = IF S = {} THEN 0 ELSE Entry(f, Min(S)).n
  BY DEF LookupIn
<1>4. Exists(f, name) <=> S # {}
  BY DEF Exists
<1> HIDE DEF S
<1>5. CASE S = {}
  <2>1. \A i \in Files : i # 0
    BY InosAre
  <2> QED BY <1>1, <1>3, <1>4, <1>5, <2>1
<1>6. CASE S # {}
  <2>1. Min(S) \in S
    BY <1>2, <1>6, MinIs
  <2>2. /\ Min(S) \in EntryOffsets(f) /\ Entry(f, Min(S)).n # 0 /\ Entry(f, Min(S)).name = name
        /\ LookupIn(f, name) = Entry(f, Min(S)).n
    BY <1>1, <1>2, <1>3, <1>6, <2>1
  <2>3. LookupIn(f, name) \in Files /\ LookupIn(f, name) # 0
    BY <2>2 DEF Named
  <2>4. ASSUME NEW i \in Files, NEW off \in EntryOffsets(f),
               Entry(f, off).n = i, Entry(f, off).name = name
        PROVE  LookupIn(f, name) = i
    <3>1. Entry(f, off).n # 0
      BY <2>4, InosAre
    <3>2. off = Min(S)
      BY <2>2, <2>4, <3>1 DEF Named
    <3> QED BY <2>2, <2>4, <3>2
  <2> QED BY <1>4, <1>6, <2>2, <2>3, <2>4
<1> QED BY <1>5, <1>6

LEMMA EntriesSame ==
  ASSUME NEW f \in Disks, NEW g \in Disks, Named(f), Named(g),
         EntryOffsets(g) = EntryOffsets(f),
         \A off \in EntryOffsets(f) : Entry(g, off) = Entry(f, off)
  PROVE  EntriesOf(g) = EntriesOf(f)
<1>1. ASSUME NEW name PROVE LookupIn(g, name) = LookupIn(f, name)
  <2>1. \A i \in Files : LookupIn(g, name) = i <=> LookupIn(f, name) = i
    BY LookupMeans
  <2> QED BY <2>1, LookupMeans
<1> QED BY <1>1 DEF EntriesOf

(* A new entry gives its name a file.                                      *)
LEMMA EntriesMore ==
  ASSUME NEW f \in Disks, NEW g \in Disks, Named(f), Named(g),
         NEW off, NEW ino \in Files, NEW name \in Names,
         EntryOffsets(g) = EntryOffsets(f) \cup {off},
         off \in EntryOffsets(f) => Entry(f, off).n = 0,
         \A other \in EntryOffsets(f) \ {off} : Entry(g, other) = Entry(f, other),
         Entry(g, off) = [n |-> ino, name |-> name],
         ~Exists(f, name)
  PROVE  /\ EntriesOf(f)[name] = 0
         /\ EntriesOf(g) = [EntriesOf(f) EXCEPT ![name] = ino]
<1>1. Entry(g, off).n = ino /\ Entry(g, off).name = name /\ ino # 0
  BY InosAre
<1>2. LookupIn(g, name) = ino
  BY <1>1, LookupMeans
<1>3. ASSUME NEW m \in Names, m # name PROVE LookupIn(g, m) = LookupIn(f, m)
  <2>1. ASSUME NEW i \in Files PROVE LookupIn(g, m) = i <=> LookupIn(f, m) = i
    <3>1. i # 0
      BY InosAre
    <3>2. (\E o \in EntryOffsets(g) : Entry(g, o).n = i /\ Entry(g, o).name = m) <=>
            (\E o \in EntryOffsets(f) : Entry(f, o).n = i /\ Entry(f, o).name = m)
      BY <1>1, <1>3, <3>1
    <3> QED BY <3>2, LookupMeans
  <2> QED BY <2>1, LookupMeans
<1>4. LookupIn(f, name) = 0
  BY LookupMeans
<1> QED BY <1>2, <1>3, <1>4 DEF EntriesOf

(* An entry that goes takes its name with it.                              *)
LEMMA EntriesLess ==
  ASSUME NEW f \in Disks, NEW g \in Disks, Named(f), Named(g),
         NEW off \in EntryOffsets(f), NEW ino \in Files, NEW name \in Names,
         EntryOffsets(g) = EntryOffsets(f),
         Entry(f, off).n = ino, Entry(f, off).name = name, Entry(g, off).n = 0,
         \A other \in EntryOffsets(f) \ {off} : Entry(g, other) = Entry(f, other)
  PROVE  /\ EntriesOf(f)[name] = ino
         /\ EntriesOf(g) = [EntriesOf(f) EXCEPT ![name] = 0]
         /\ {m \in Names : EntriesOf(f)[m] = ino} = {name} <=> g.inode[ino].nlink = 0
<1>1. ino # 0 /\ LookupIn(f, name) = ino
  BY LookupMeans, InosAre
<1>2. ASSUME NEW i \in Files PROVE LookupIn(g, name) # i
  <2> SUFFICES ASSUME NEW o \in EntryOffsets(g), Entry(g, o).n = i, Entry(g, o).name = name
               PROVE  FALSE
    BY LookupMeans
  <2>1. i # 0
    BY InosAre
  <2>2. o # off /\ Entry(f, o) = Entry(g, o)
    BY <2>1
  <2> QED BY <1>1, <2>1, <2>2 DEF Named
<1>3. LookupIn(g, name) = 0
  BY <1>2, LookupMeans
<1>4. ASSUME NEW m \in Names, m # name PROVE LookupIn(g, m) = LookupIn(f, m)
  <2>1. ASSUME NEW i \in Files PROVE LookupIn(g, m) = i <=> LookupIn(f, m) = i
    <3>1. i # 0
      BY InosAre
    <3>2. (\E o \in EntryOffsets(g) : Entry(g, o).n = i /\ Entry(g, o).name = m) <=>
            (\E o \in EntryOffsets(f) : Entry(f, o).n = i /\ Entry(f, o).name = m)
      BY <1>4, <3>1
    <3> QED BY <3>2, LookupMeans
  <2> QED BY <2>1, LookupMeans
<1>5. EntriesOf(g) = [EntriesOf(f) EXCEPT ![name] = 0]
  BY <1>3, <1>4 DEF EntriesOf
<1>6. {m \in Names : EntriesOf(f)[m] = ino} = {name} <=> \A m \in Names : LookupIn(g, m) # ino
  <2>1. \A m \in Names : LookupIn(g, m) = ino <=> (m # name /\ LookupIn(f, m) = ino)
    BY <1>1, <1>3, <1>4
  <2>2. \A m \in Names : EntriesOf(f)[m] = LookupIn(f, m)
    BY DEF EntriesOf
  <2> QED BY <1>1, <2>1, <2>2
<1>7. (\A m \in Names : LookupIn(g, m) # ino) <=> NamedIn(g, ino) = {}
  <2>1. ASSUME NEW m \in Names, LookupIn(g, m) = ino PROVE NamedIn(g, ino) # {}
    BY <2>1, LookupMeans DEF NamedIn
  <2>2. ASSUME NEW o \in NamedIn(g, ino) PROVE \E m \in Names : LookupIn(g, m) = ino
    <3>1. o \in EntryOffsets(g) /\ Entry(g, o).n = ino
      BY DEF NamedIn
    <3>2. Entry(g, o).name \in Names
      BY <1>1, <3>1 DEF Named
    <3>3. LookupIn(g, Entry(g, o).name) = ino
      BY <3>1, LookupMeans
    <3> QED BY <3>2, <3>3
  <2> QED BY <2>1, <2>2
<1>8. NamedIn(g, ino) = {} <=> g.inode[ino].nlink = 0
  <2>1. IsFiniteSet(NamedIn(g, ino)) /\ Cardinality(NamedIn(g, ino)) = g.inode[ino].nlink
    BY OffsetsFinite DEF Named
  <2> QED BY <2>1, FS_EmptySet
<1> QED BY <1>1, <1>5, <1>6, <1>7, <1>8 DEF EntriesOf

---------------------------------------------------------------------------
(* Contents                                                                *)

(* The words of a regular file, and where they lie.                        *)
LEMMA WordsAre ==
  ASSUME NEW f, Careful(habit), Sound(f), Capped(f), NEW i \in Inos,
         f.inode[i].nlink # 0, f.inode[i].ftype = "reg"
  PROVE  /\ f.inode[i].size \in Nat /\ Count(f, i) \in Nat
         /\ Len(WordsIn(f, i)) = f.inode[i].size /\ DOMAIN WordsIn(f, i) = 1..f.inode[i].size
         /\ \A u \in 1..f.inode[i].size :
              /\ u - 1 \in Nat /\ ((u - 1) \div BLKSIZE) \in Nat
              /\ ((u - 1) \div BLKSIZE) < Count(f, i) /\ ((u - 1) % BLKSIZE) \in Index
              /\ WordsIn(f, i)[u] =
                   f.disk[Held(f, i, Place((u - 1) \div BLKSIZE))][(u - 1) % BLKSIZE].n
<1> DEFINE size == f.inode[i].size
           s == WordsIn(f, i)
<1>1. f \in Disks /\ size \in 0..UINT - 1 /\ size \in Nat /\ Count(f, i) \in Nat
  BY CountType DEF Sound
<1>2. s = [u \in 1..size |-> Word0(f, i, u - 1)]
  BY DEF WordsIn
<1>3. ASSUME NEW u \in 1..size
      PROVE  /\ u - 1 \in Nat /\ ((u - 1) \div BLKSIZE) \in Nat
             /\ ((u - 1) \div BLKSIZE) < Count(f, i) /\ ((u - 1) % BLKSIZE) \in Index
             /\ s[u] = f.disk[Held(f, i, Place((u - 1) \div BLKSIZE))][(u - 1) % BLKSIZE].n
             /\ s[u] \in Nat
  <2> DEFINE c == u - 1
             k == c \div BLKSIZE
             w == c % BLKSIZE
             b == Blockno(f, i, c)
  <2>1. c \in Nat /\ c < f.inode[i].size
    BY <1>1
  <2>2. s[u] = Word0(f, i, c)
    BY <1>2
  <2> HIDE DEF c, s
  <2>3. k \in Nat /\ k < Count(f, i) /\ b = Held(f, i, Place(k)) /\ b \in DataBlocks
    BY <2>1, BlocknoIs
  <2>4. b \in Nat /\ b \in 0..NBLOCKS + 2 /\ w \in Index
    BY <2>1, <2>3, DataRange, DivMod
  <2>5. Word0(f, i, c) = Word(f, b, w)
    BY DEF Word0
  <2> HIDE DEF b, w
  <2>6. Word(f, b, w) = f.disk[b][w].n
    BY <2>4, WordIs
  <2>7. f.disk[b][w].n \in Nat
    <3>1. f.disk \in [0..NBLOCKS + 2 -> [Index -> Cells]]
      BY <1>1, Fields
    <3>2. f.disk[b] \in [Index -> Cells]
      BY <2>4, <3>1
    <3>3. f.disk[b][w] \in Cells
      BY <2>4, <3>2
    <3> QED BY <3>3 DEF Cells
  <2> HIDE DEF k
  <2>8. s[u] = f.disk[Held(f, i, Place(k))][w].n /\ s[u] \in Nat
    BY <2>2, <2>3, <2>5, <2>6, <2>7
  <2> QED BY <2>1, <2>3, <2>4, <2>8 DEF c, k, w
<1> HIDE DEF s
<1>4. s \in [1..size -> Nat] /\ DOMAIN s = 1..size
  BY <1>2, <1>3
<1> HIDE DEF size
<1>5. Len(s) = size
  BY <1>1, <1>4, SeqDef, LenProperties
<1> QED BY <1>1, <1>3, <1>4, <1>5 DEF s, size

LEMMA StaysSeen ==
  ASSUME NEW f, NEW g, Careful(habit), Sound(f), Sound(g), Capped(f), Capped(g),
         NEW i \in Inos, f.inode[i].ftype # "dir", FileStays(f, g, i)
  PROVE  KindIn(g, i) = KindIn(f, i) /\ WordsIn(g, i) = WordsIn(f, i)
<1>1. KindIn(g, i) = KindIn(f, i)
  BY DEF FileStays, KindIn
<1>2. f \in Disks /\ g \in Disks
  BY DEF Sound
<1>3. /\ f.inode[i].ftype \in {"reg", "symlink"} /\ f.inode[i].nlink \in Nat
      /\ g.inode[i].nlink \in Nat
  BY <1>2, Fields DEF Inodes
<1>4. CASE f.inode[i].nlink = 0
  <2>1. g.inode[i].nlink = 0
    BY <1>4 DEF FileStays
  <2> QED BY <1>1, <1>4, <2>1 DEF WordsIn
<1>5. CASE f.inode[i].nlink # 0 /\ f.inode[i].ftype = "symlink"
  <2>1. /\ g.inode[i].nlink # 0 /\ g.inode[i].ftype = "symlink"
        /\ f.inode[i].nlink > 0 /\ g.inode[i].nlink > 0
        /\ g.inode[i].size = f.inode[i].size
    BY <1>3, <1>5 DEF FileStays
  <2> QED BY <1>1, <1>5, <2>1 DEF WordsIn
<1>6. CASE f.inode[i].nlink # 0 /\ f.inode[i].ftype = "reg"
  <2> DEFINE s == WordsIn(f, i)
             t == WordsIn(g, i)
  <2>1. g.inode[i].nlink # 0 /\ g.inode[i].ftype = "reg" /\ g.inode[i].size = f.inode[i].size
    BY <1>6 DEF FileStays
  <2>2. ASSUME NEW u \in 1..f.inode[i].size PROVE t[u] = s[u]
    <3> DEFINE k == (u - 1) \div BLKSIZE
               w == (u - 1) % BLKSIZE
    <3>1. k \in Nat /\ k < Count(f, i) /\ s[u] = f.disk[Held(f, i, Place(k))][w].n
      BY <1>6, WordsAre
    <3>2. t[u] = g.disk[Held(g, i, Place(k))][w].n
      BY <2>1, WordsAre
    <3> HIDE DEF k, w, s, t
    <3> QED BY <3>1, <3>2 DEF FileStays
  <2>3. s = [u \in 1..f.inode[i].size |-> s[u]] /\ t = [u \in 1..f.inode[i].size |-> t[u]]
    BY <1>6, <2>1 DEF WordsIn
  <2> HIDE DEF s, t
  <2>4. t = s
    BY <2>2, <2>3
  <2> QED BY <1>1, <2>4 DEF s, t
<1> QED BY <1>1, <1>3, <1>4, <1>5, <1>6

(* Files that stay are seen so.                                            *)
LEMMA AllStay ==
  ASSUME NEW f, NEW g, Careful(habit), Orderly(f), Orderly(g),
         \A i \in Files : FileStays(f, g, i)
  PROVE  KindsOf(g) = KindsOf(f) /\ ContentsOf(g) = ContentsOf(f)
<1>1. ASSUME NEW i \in Files
      PROVE  KindIn(g, i) = KindIn(f, i) /\ WordsIn(g, i) = WordsIn(f, i)
  <2>1. i \in Inos /\ f.inode[i].ftype # "dir"
    BY InosAre DEF Orderly, Rooted
  <2> QED BY <2>1, StaysSeen DEF Orderly
<1> QED BY <1>1 DEF KindsOf, ContentsOf

(* So are all files but one,                                               *)
LEMMA OthersStay ==
  ASSUME NEW f, NEW g, Careful(habit), Orderly(f), Orderly(g), NEW ino \in Files,
         \A i \in Files \ {ino} : FileStays(f, g, i)
  PROVE  /\ KindsOf(g) = [KindsOf(f) EXCEPT ![ino] = KindIn(g, ino)]
         /\ ContentsOf(g) = [ContentsOf(f) EXCEPT ![ino] = WordsIn(g, ino)]
         /\ \A i \in Files \ {ino} : ContentsOf(g)[i] = ContentsOf(f)[i]
<1>1. ASSUME NEW i \in Files \ {ino}
      PROVE  KindIn(g, i) = KindIn(f, i) /\ WordsIn(g, i) = WordsIn(f, i)
  <2>1. i \in Inos /\ f.inode[i].ftype # "dir"
    BY InosAre DEF Orderly, Rooted
  <2> QED BY <2>1, StaysSeen DEF Orderly
<1> QED BY <1>1 DEF KindsOf, ContentsOf

---------------------------------------------------------------------------
(* Changes of one file                                                     *)

(* What was there of a file stays, and the words it gains beyond the block *)
(* of its end are zero.                                                    *)
LEMMA ReachedWords ==
  ASSUME NEW f, NEW g, NEW i \in Inos, Careful(habit), Sound(f), Capped(f), Capped(g),
         Reached(f, g, i), f.inode[i].nlink # 0, f.inode[i].ftype = "reg"
  PROVE  Promised!Resized(WordsIn(f, i), WordsIn(g, i))
<1> DEFINE s == WordsIn(f, i)
           t == WordsIn(g, i)
           len == f.inode[i].size
<1>1. /\ Sound(g) /\ Kept(f, g) /\ Gained(f, g, i)
      /\ g.inode[i].nlink # 0 /\ g.inode[i].ftype = "reg" /\ f \in Disks
  BY DEF Reached, SameFile, Sound
<1>2. /\ Len(s) = len /\ DOMAIN s = 1..len /\ DOMAIN t = 1..g.inode[i].size
      /\ len \in Nat /\ Count(f, i) \in Nat /\ Count(g, i) \in Nat
  BY <1>1, WordsAre
<1>3. Count(f, i) = (len + BLKSIZE - 1) \div BLKSIZE
  <2>1. len + BLKSIZE <= UINT /\ BLKSIZE \in Nat /\ BLKSIZE > 0 /\ UINT \in Nat /\ UINT > 0
    BY <1>1, CappedMeans, CarefulMeans, SizeAssumption
  <2> HIDE DEF len, s
  <2>2. len + BLKSIZE - 1 \in 0..UINT - 1
    BY <1>2, <2>1
  <2>3. ((len + BLKSIZE - 1) % UINT) = len + BLKSIZE - 1
    BY <2>1, <2>2
  <2>4. NBlocks(len) = (len + BLKSIZE - 1) \div BLKSIZE
    BY <2>3 DEF NBlocks
  <2> QED BY <2>4 DEF Count, NBlocksOf, len
<1>4. ASSUME NEW u \in DOMAIN t
      PROVE  /\ u \in DOMAIN s => t[u] = s[u]
             /\ ~(u <= BLKSIZE * Count(f, i)) => t[u] = 0
  <2> DEFINE k == (u - 1) \div BLKSIZE
             w == (u - 1) % BLKSIZE
  <2>1. u \in 1..g.inode[i].size
    BY <1>2
  <2>2. /\ u - 1 \in Nat /\ k \in Nat /\ k < Count(g, i) /\ w \in Index
        /\ t[u] = g.disk[Held(g, i, Place(k))][w].n
    BY <1>1, <2>1, WordsAre
  <2>3. u - 1 = k * BLKSIZE + w
    BY <2>2, DivMod
  <2>4. u \in DOMAIN s => t[u] = s[u]
    <3> SUFFICES ASSUME u \in 1..f.inode[i].size PROVE t[u] = s[u]
      BY <1>2
    <3>1. k < Count(f, i) /\ s[u] = f.disk[Held(f, i, Place(k))][w].n
      BY WordsAre
    <3> HIDE DEF k, w, s, t
    <3> QED BY <1>1, <2>2, <3>1 DEF Kept
  <2>5. ASSUME ~(u <= BLKSIZE * Count(f, i)) PROVE t[u] = 0
    <3> HIDE DEF k, w, s, t
    <3>1. Count(f, i) <= k
      <4> DEFINE c == Count(f, i)
      <4>1. c \in Nat /\ u \in Nat /\ BLKSIZE \in Nat /\ w < BLKSIZE /\ w \in Nat
        BY <1>2, <2>1, <2>2, SizeAssumption DEF Index
      <4> DEFINE a == c * BLKSIZE
                 b == k * BLKSIZE
                 d == (k + 1) * BLKSIZE
      <4>2. a \in Nat /\ b \in Nat /\ d = b + BLKSIZE /\ BLKSIZE * c = a
        BY <2>2, <4>1
      <4>3. a < u /\ u - 1 = b + w
        BY <2>3, <2>5, <4>1, <4>2
      <4> HIDE DEF a, b, d
      <4>4. a < d
        BY <4>1, <4>2, <4>3
      <4>5. c < k + 1
        <5>1. c \in Int /\ k + 1 \in Int
          BY <2>2, <4>1
        <5> QED BY <4>4, <5>1, Below DEF a, d
      <4> HIDE DEF c
      <4>6. c <= k
        BY <2>2, <4>1, <4>5
      <4> QED BY <4>6 DEF c
    <3>2. g.disk[Held(g, i, Place(k))] = Blank
      BY <1>1, <2>2, <3>1 DEF Gained
    <3>3. Blank[w].n = 0
      BY <2>2 DEF Blank, Zero
    <3> QED BY <2>2, <3>2, <3>3
  <2> QED BY <2>4, <2>5
<1> HIDE DEF s, t, len
<1> QED BY <1>2, <1>3, <1>4 DEF Promised!Resized, Promised!InOldBlock, s, t

---------------------------------------------------------------------------
(* What the operations keep                                                *)

(* No symbolic link has two names.                                         *)
LinksSingle(f) == \A i \in Files : f.inode[i].ftype = "symlink" => f.inode[i].nlink <= 1

(* The programs make no second name for one.                               *)
NoRelink == \A h \in Habits : "relink" \notin h.does

(* FileSystem takes the step from one disk to the next, or sees none.      *)
Promising == (Promised!Next \/ UNCHANGED Promised!vars) /\ LinksSingle(fs')

(* A step that leaves the disk alone is none to FileSystem.                *)
LEMMA QuietPromising ==
  ASSUME LinksSingle(fs), fs' = fs
  PROVE  Promising
BY SeenStutter DEF Promising

(* Names stand for what they stood for where a change of size reached a    *)
(* file and the directory has its size still.                              *)
LEMMA ReachedSeen ==
  ASSUME NEW f, NEW g, NEW i \in Inos, Careful(habit), Good(f), Good(g), Reached(f, g, i),
         g.inode[ROOT_INO].size = f.inode[ROOT_INO].size
  PROVE  EntriesOf(g) = EntriesOf(f) /\ (LinksSingle(f) => LinksSingle(g))
<1>1. /\ Sound(f) /\ Capped(f) /\ Named(f) /\ f \in Disks
      /\ Capped(g) /\ Named(g) /\ g \in Disks
      /\ ROOT_INO \in Inos /\ f.inode[ROOT_INO].ftype # "symlink"
  BY InosAre DEF Good, Orderly, Sound, Rooted
<1>2. f.inode[ROOT_INO].size <= g.inode[ROOT_INO].size
  BY <1>1, CappedMeans
<1>3. EntryOffsets(g) = EntryOffsets(f)
  BY DEF EntryOffsets
<1>4. \A off \in EntryOffsets(f) : Entry(g, off) = Entry(f, off)
  BY <1>1, <1>2, ReachedEntries
<1>5. EntriesOf(g) = EntriesOf(f)
  BY <1>1, <1>3, <1>4, EntriesSame
<1>6. \A j \in Files : SameFile(f, g, j)
  BY InosAre DEF Reached
<1> QED BY <1>5, <1>6 DEF LinksSingle, SameFile

(* Nor is a step that fails to get an entry for a name.                    *)
LEMMA FailedPromising ==
  ASSUME CarefulHabits, IInv, LinksSingle(fs), MayExtendRoot,
         NEW od, od = BlankDirentry(fs), od.r # "ok", fs' = od.fs
  PROVE  Promising
<1> DEFINE g == od.fs
<1>1. Careful(habit) /\ Good(fs) /\ Orderly(fs) /\ Sound(fs)
  BY IInvMeans
<1>2. /\ Good(g) /\ Orderly(g) /\ Reached(fs, g, ROOT_INO)
      /\ g.inode[ROOT_INO].size = fs.inode[ROOT_INO].size
  BY Blanking DEF Follows, Good
<1> HIDE DEF g
<1>3. EntriesOf(g) = EntriesOf(fs) /\ LinksSingle(g)
  BY <1>1, <1>2, InosAre, ReachedSeen
<1>4. \A i \in Files : FileStays(fs, g, i)
  BY <1>1, <1>2, InosAre, ReachedStays
<1>5. KindsOf(g) = KindsOf(fs) /\ ContentsOf(g) = ContentsOf(fs)
  BY <1>1, <1>2, <1>4, AllStay
<1> QED BY <1>3, <1>5, SeenStutter DEF Promising, g

(* ospfs_create() and ospfs_symlink() make an empty file and a link.       *)
LEMMA MakePromising ==
  ASSUME CarefulHabits, IInv, LinksSingle(fs), NEW name \in Names, NEW ino, NEW od, NEW oi,
         Makes(name, ino, od, oi)
  PROVE  Promising
<1>1. /\ Careful(habit) /\ Good(fs) /\ WritersLive(fs) /\ Orderly(fs) /\ Named(fs) /\ fs \in Disks
  BY IInvMeans
<1>2. /\ ino \in Files /\ ino \in Inos /\ fs.inode[ino].nlink = 0
  BY FreeInode DEF Makes
<1>3. CASE od.r # "ok"
  <2>1. MayExtendRoot /\ od = BlankDirentry(fs) /\ fs' = od.fs
    BY <1>3 DEF Makes, Operation
  <2> QED BY <1>3, <2>1, FailedPromising
<1>4. CASE od.r = "ok"
  <2> DEFINE g == SetEntry(Put(od.fs, ino, oi), od.off, ino, name)
  <2>1. Blanked(fs, od.fs, od.off)
    BY <1>4, Blanking DEF Makes
  <2>2. Follows(fs, g)
    BY <1>1, <1>2, <2>1, FollowsMade DEF Makes
  <2>3. /\ Orderly(g)
        /\ \A j \in Inos : g.inode[j] = (IF j = ino THEN oi ELSE od.fs.inode[j])
        /\ \A j \in Files \ {ino} : FileStays(fs, g, j)
        /\ EntryOffsets(g) = EntryOffsets(fs) \cup {od.off}
        /\ \A other \in EntryOffsets(fs) \ {od.off} : Entry(g, other) = Entry(fs, other)
        /\ Entry(g, od.off) = [n |-> ino, name |-> name]
    BY <1>1, <1>2, <2>1, MadeIs DEF Makes
  <2>4. fs' = g
    BY <1>4 DEF Makes, Operation
  <2> HIDE DEF g
  <2>5. Named(g) /\ g \in Disks
    BY <2>2 DEF Follows, Good, Orderly, Sound
  <2>6. /\ EntriesOf(fs)[name] = 0
        /\ EntriesOf(g) = [EntriesOf(fs) EXCEPT ![name] = ino]
    <3>1. od.off \in EntryOffsets(fs) => Entry(fs, od.off).n = 0
      BY <2>1 DEF Blanked
    <3>2. ~Exists(fs, name)
      BY DEF Makes
    <3> DEFINE off == od.off
    <3> HIDE DEF off
    <3>3. /\ EntryOffsets(g) = EntryOffsets(fs) \cup {off}
          /\ off \in EntryOffsets(fs) => Entry(fs, off).n = 0
          /\ \A other \in EntryOffsets(fs) \ {off} : Entry(g, other) = Entry(fs, other)
          /\ Entry(g, off) = [n |-> ino, name |-> name]
      BY <2>3, <3>1 DEF off
    <3> QED BY <1>1, <1>2, <2>5, <3>2, <3>3, EntriesMore
  <2>7. /\ KindsOf(g) = [KindsOf(fs) EXCEPT ![ino] = KindIn(g, ino)]
        /\ ContentsOf(g) = [ContentsOf(fs) EXCEPT ![ino] = WordsIn(g, ino)]
    BY <1>1, <1>2, <2>3, OthersStay
  <2>8. KindsOf(fs)[ino] = "none"
    BY <1>2 DEF KindsOf, KindIn
  <2>9. g.inode[ino] = oi /\ oi.nlink = 1
        /\ ((oi.ftype = "reg" /\ oi.size = 0) \/ (oi.ftype = "symlink" /\ oi.size = 1))
    BY <1>2, <2>3 DEF Makes
  <2>10. \/ KindIn(g, ino) = "reg" /\ WordsIn(g, ino) = <<>>
         \/ KindIn(g, ino) = "symlink" /\ WordsIn(g, ino) = << 0 >>
    <3>1. CASE oi.ftype = "reg" /\ oi.size = 0
      <4>1. KindIn(g, ino) = "reg"
        BY <2>9, <3>1 DEF KindIn
      <4>2. WordsIn(g, ino) = <<>>
        BY <2>9, <3>1 DEF WordsIn
      <4> QED BY <4>1, <4>2
    <3>2. CASE oi.ftype = "symlink" /\ oi.size = 1
      <4>1. KindIn(g, ino) = "symlink"
        BY <2>9, <3>2 DEF KindIn
      <4>2. WordsIn(g, ino) = [u \in 1..1 |-> 0]
        BY <2>9, <3>2 DEF WordsIn
      <4>3. [u \in 1..1 |-> 0] = << 0 >>
        OBVIOUS
      <4> QED BY <4>1, <4>2, <4>3
    <3> QED BY <2>9, <3>1, <3>2
  <2>11. Promised!Next
    <3> DEFINE k == KindIn(g, ino)
               words == WordsIn(g, ino)
    <3>1. (k = "reg" /\ words = <<>>) \/ (k = "symlink" /\ words = << 0 >>)
      BY <2>10
    <3>2. EntriesOf(fs)[name] = 0 /\ KindsOf(fs)[ino] = "none"
      BY <2>6, <2>8
    <3>3. /\ EntriesOf(fs') = [EntriesOf(fs) EXCEPT ![name] = ino]
          /\ KindsOf(fs') = [KindsOf(fs) EXCEPT ![ino] = k]
          /\ ContentsOf(fs') = [ContentsOf(fs) EXCEPT ![ino] = words]
      BY <2>4, <2>6, <2>7
    <3> HIDE DEF k, words
    <3> QED BY <1>2, <3>1, <3>2, <3>3, SeenMake
  <2>12. LinksSingle(g)
    <3>1. ASSUME NEW j \in Files, j # ino PROVE g.inode[j] = fs.inode[j]
      <4>1. j \in Inos /\ j # ROOT_INO
        BY InosAre
      <4>2. od.fs.inode[j] = fs.inode[j]
        BY <2>1, <4>1 DEF Blanked, Reached
      <4> QED BY <2>3, <3>1, <4>1, <4>2
    <3> QED BY <2>9, <3>1 DEF LinksSingle
  <2> QED BY <2>4, <2>11, <2>12 DEF Promising
<1> QED BY <1>3, <1>4

(* ospfs_link() gives the file of one name another.                        *)
LEMMA LinkPromising ==
  ASSUME CarefulHabits, NoRelink, IInv, LinksSingle(fs), NEW src \in Names, NEW name \in Names,
         link(src, name)
  PROVE  Promising
<1> DEFINE ino == Lookup(src)
           od == BlankDirentry(fs)
           g == [SetEntry(od.fs, od.off, ino, name) EXCEPT !.inode[ino].nlink = @ + 1]
<1>1. /\ Exists(fs, src) /\ ~Exists(fs, name) /\ MayExtendRoot
      /\ IsLink(ino) => Does("relink")
      /\ \/ od.r # "ok" /\ fs' = od.fs
         \/ od.r = "ok" /\ fs' = g
  BY DEF link, Operation
<1>2. ino \in Files /\ ino \in Inos /\ fs.inode[ino].nlink > 0
  BY <1>1, LookupIs, InosAre
<1>3. Careful(habit) /\ Good(fs) /\ Orderly(fs) /\ Named(fs) /\ fs \in Disks
  BY IInvMeans
<1>4. fs.inode[ino].ftype # "symlink"
  BY <1>1, <1>2 DEF IsLink, Does, NoRelink, IInv
<1>5. EntriesOf(fs)[src] = ino
  <2>1. Lookup(src) = LookupIn(fs, src)
    BY DEF Lookup, LookupIn
  <2> QED BY <2>1 DEF EntriesOf
<1> HIDE DEF ino, od
<1>6. od = BlankDirentry(fs)
  BY DEF od
<1>7. CASE od.r # "ok"
  BY <1>1, <1>6, <1>7, FailedPromising
<1>8. CASE od.r = "ok"
  <2>1. Blanked(fs, od.fs, od.off)
    BY <1>1, <1>6, <1>8, Blanking
  <2>2. Follows(fs, g)
    BY <1>1, <1>2, <1>3, <2>1, FollowsLinked
  <2>3. /\ \A j \in Inos : /\ g.inode[j].ftype = od.fs.inode[j].ftype
                           /\ g.inode[j].nlink = IF j = ino THEN od.fs.inode[j].nlink + 1
                                                 ELSE od.fs.inode[j].nlink
        /\ \A j \in Files : FileStays(fs, g, j)
        /\ EntryOffsets(g) = EntryOffsets(fs) \cup {od.off}
        /\ \A other \in EntryOffsets(fs) \ {od.off} : Entry(g, other) = Entry(fs, other)
        /\ Entry(g, od.off) = [n |-> ino, name |-> name]
    BY <1>2, <1>3, <2>1, LinkedIs, SMTT(30)
  <2>4. fs' = g
    BY <1>1, <1>8
  <2> HIDE DEF g
  <2>5. Orderly(g) /\ Named(g) /\ g \in Disks
    BY <2>2 DEF Follows, Good, Orderly, Sound
  <2>6. /\ EntriesOf(fs)[name] = 0
        /\ EntriesOf(g) = [EntriesOf(fs) EXCEPT ![name] = ino]
    <3>1. od.off \in EntryOffsets(fs) => Entry(fs, od.off).n = 0
      BY <2>1 DEF Blanked
    <3> DEFINE off == od.off
    <3> HIDE DEF off
    <3>2. /\ EntryOffsets(g) = EntryOffsets(fs) \cup {off}
          /\ off \in EntryOffsets(fs) => Entry(fs, off).n = 0
          /\ \A other \in EntryOffsets(fs) \ {off} : Entry(g, other) = Entry(fs, other)
          /\ Entry(g, off) = [n |-> ino, name |-> name]
      BY <2>3, <3>1 DEF off
    <3> QED BY <1>1, <1>2, <1>3, <2>5, <3>2, EntriesMore
  <2>7. KindsOf(g) = KindsOf(fs) /\ ContentsOf(g) = ContentsOf(fs)
    BY <1>3, <2>3, <2>5, AllStay
  <2>8. Promised!Next
    BY <1>2, <1>5, <2>4, <2>6, <2>7, SeenLink
  <2>9. LinksSingle(g)
    <3>1. ASSUME NEW j \in Files
          PROVE  /\ g.inode[j].ftype = fs.inode[j].ftype
                 /\ j # ino => g.inode[j].nlink = fs.inode[j].nlink
      <4>1. j \in Inos /\ j # ROOT_INO
        BY InosAre
      <4>2. od.fs.inode[j] = fs.inode[j]
        BY <2>1, <4>1 DEF Blanked, Reached
      <4> QED BY <2>3, <4>1, <4>2
    <3> QED BY <1>4, <3>1 DEF LinksSingle
  <2> QED BY <2>4, <2>8, <2>9 DEF Promising
<1> QED BY <1>1, <1>7, <1>8

(* ospfs_unlink() takes a name away, and the file with the last.           *)
LEMMA UnlinkPromising ==
  ASSUME CarefulHabits, IInv, LinksSingle(fs), NEW name \in Names, NEW off, NEW ino, NEW g,
         Unlinks(name, off, ino, g)
  PROVE  Promising
<1>1. /\ Careful(habit) /\ Good(fs) /\ WritersLive(fs) /\ Orderly(fs) /\ Named(fs) /\ fs \in Disks
  BY IInvMeans
<1>2. /\ off \in EntryOffsets(fs) /\ Entry(fs, off).n = ino /\ Entry(fs, off).name = name
      /\ ino \in Files /\ ino \in Inos /\ fs.inode[ino].nlink > 0
      /\ g = Put(SetEntry(fs, off, 0, name), ino, Less(fs.inode[ino]))
  BY InosAre DEF Unlinks
<1>3. CASE g.inode[ino].nlink > 0 /\ Operation(g)
  <2>1. Follows(fs, g)
    BY <1>1, <1>2, <1>3, FollowsUnlinked
  <2>2. /\ \A j \in Inos : j # ino => g.inode[j] = fs.inode[j]
        /\ g.inode[ino].ftype = fs.inode[ino].ftype
        /\ g.inode[ino].nlink = fs.inode[ino].nlink - 1 /\ fs.inode[ino].nlink \in Nat \ {0}
        /\ EntryOffsets(g) = EntryOffsets(fs) /\ Entry(g, off).n = 0
        /\ \A other \in EntryOffsets(fs) \ {off} : Entry(g, other) = Entry(fs, other)
        /\ \A j \in Files :
             (j # ino \/ (g.inode[j].nlink > 0 /\ fs.inode[j].ftype # "symlink"))
               => FileStays(fs, g, j)
    BY <1>1, <1>2, UnlinkedIs
  <2>3. fs' = g
    BY <1>3 DEF Operation
  <2>4. Orderly(g) /\ Named(g) /\ g \in Disks
    BY <2>1 DEF Follows, Good, Orderly, Sound
  <2>5. /\ EntriesOf(fs)[name] = ino
        /\ EntriesOf(g) = [EntriesOf(fs) EXCEPT ![name] = 0]
        /\ {m \in Names : EntriesOf(fs)[m] = ino} = {name} <=> g.inode[ino].nlink = 0
    BY <1>1, <1>2, <2>2, <2>4, EntriesLess
  <2>6. fs.inode[ino].ftype # "symlink"
    BY <1>2, <1>3, <2>2 DEF LinksSingle
  <2>7. \A j \in Files : FileStays(fs, g, j)
    BY <1>3, <2>2, <2>6
  <2>8. KindsOf(g) = KindsOf(fs) /\ ContentsOf(g) = ContentsOf(fs)
    BY <1>1, <2>4, <2>7, AllStay
  <2>9. {m \in Names : EntriesOf(fs)[m] = ino} # {name}
    BY <1>3, <2>5
  <2>10. Promised!Next
    BY <1>2, <2>3, <2>5, <2>8, <2>9, SeenUnlink
  <2>11. LinksSingle(g)
    BY <2>2, <2>6, InosAre DEF LinksSingle
  <2> QED BY <2>3, <2>10, <2>11 DEF Promising
<1>4. CASE g.inode[ino].nlink = 0 /\ Operation(ChangeSize(g, ino, 0).fs)
  <2> DEFINE h == ChangeSize(g, ino, 0).fs
  <2>1. /\ Writers(ino) = {}
        /\ fs.inode[ino].ftype = "symlink" \/ NBlocksOf(fs, ino) <= NDIRECT + 1
    BY <1>4 DEF Unlinks
  <2>2. Follows(fs, h)
    BY <1>1, <1>2, <1>4, <2>1, FollowsRemoved
  <2>3. /\ h.inode[ino].nlink = 0
        /\ \A i \in Files : h.inode[i].nlink =
             IF i = ino THEN fs.inode[i].nlink - 1 ELSE fs.inode[i].nlink
        /\ \A i \in Files : h.inode[i].ftype = fs.inode[i].ftype
        /\ \A j \in Files \ {ino} : FileStays(fs, h, j)
        /\ EntryOffsets(h) = EntryOffsets(fs) /\ Entry(h, off).n = 0
        /\ \A other \in EntryOffsets(fs) \ {off} : Entry(h, other) = Entry(fs, other)
    BY <1>1, <1>2, <1>4, <2>1, RemovedIs
  <2>4. fs' = h
    BY <1>4 DEF Operation
  <2> HIDE DEF h
  <2>5. Orderly(h) /\ Named(h) /\ h \in Disks
    BY <2>2 DEF Follows, Good, Orderly, Sound
  <2>6. /\ EntriesOf(fs)[name] = ino
        /\ EntriesOf(h) = [EntriesOf(fs) EXCEPT ![name] = 0]
        /\ {m \in Names : EntriesOf(fs)[m] = ino} = {name}
    BY <1>1, <1>2, <2>3, <2>5, EntriesLess
  <2>7. /\ KindsOf(h) = [KindsOf(fs) EXCEPT ![ino] = KindIn(h, ino)]
        /\ ContentsOf(h) = [ContentsOf(fs) EXCEPT ![ino] = WordsIn(h, ino)]
    BY <1>1, <1>2, <2>3, <2>5, OthersStay
  <2>8. KindIn(h, ino) = "none" /\ WordsIn(h, ino) = <<>>
    BY <2>3 DEF KindIn, WordsIn
  <2>9. Promised!Next
    <3>1. /\ EntriesOf(fs') = [EntriesOf(fs) EXCEPT ![name] = 0]
          /\ KindsOf(fs') = [KindsOf(fs) EXCEPT ![ino] = "none"]
          /\ ContentsOf(fs') = [ContentsOf(fs) EXCEPT ![ino] = <<>>]
      BY <2>4, <2>6, <2>7, <2>8
    <3>2. EntriesOf(fs)[name] = ino /\ {m \in Names : EntriesOf(fs)[m] = ino} = {name}
      BY <2>6
    <3> QED BY <1>2, <3>1, <3>2, SeenUnlink
  <2>10. LinksSingle(h)
    BY <2>3 DEF LinksSingle
  <2> QED BY <2>4, <2>9, <2>10 DEF Promising
<1> QED BY <1>3, <1>4 DEF Unlinks

(* change_size() leaves all but one file alone, and of that one what there *)
(* was of it; ospfs_write() begins with it, ospfs_notify_change() is it.   *)
LEMMA ResizePromising ==
  ASSUME CarefulHabits, IInv, LinksSingle(fs), NEW i, NEW size, Resizes(i, size),
         fs' = ChangeSize(fs, i, size).fs
  PROVE  Promising
<1> DEFINE R == ChangeSize(fs, i, size)
           g == R.fs
<1>1. /\ Careful(habit) /\ Good(fs) /\ Orderly(fs) /\ Sound(fs) /\ Capped(fs)
      /\ i \in Files /\ i \in Inos /\ i # ROOT_INO /\ ROOT_INO \in Inos
      /\ fs.inode[i].ftype = "reg" /\ fs.inode[i].nlink # 0
  BY IInvMeans, InosAre DEF Resizes
<1>2. Reached(fs, g, i)
  <2>1. Resized(fs, i, size, R)
    BY <1>1, ChangeSizeIs DEF Resizes
  <2> HIDE DEF R
  <2> QED BY <2>1 DEF Resized
<1>3. Follows(fs, g)
  BY <1>1, FollowsResized DEF Resizes
<1> HIDE DEF g
<1>4. Good(g) /\ Orderly(g) /\ Capped(g)
  BY <1>3 DEF Follows, Good, Orderly
<1>5. EntriesOf(g) = EntriesOf(fs) /\ LinksSingle(g)
  <2>1. g.inode[ROOT_INO].size = fs.inode[ROOT_INO].size
    BY <1>1, <1>2 DEF Reached
  <2> QED BY <1>1, <1>2, <1>4, <2>1, ReachedSeen
<1>6. /\ KindsOf(g) = [KindsOf(fs) EXCEPT ![i] = KindIn(g, i)]
      /\ \A j \in Files \ {i} : ContentsOf(g)[j] = ContentsOf(fs)[j]
  <2>1. \A j \in Files \ {i} : FileStays(fs, g, j)
    BY <1>1, <1>2, InosAre, ReachedStays
  <2> QED BY <1>1, <1>4, <2>1, OthersStay
<1>7. KindsOf(fs)[i] = "reg" /\ KindIn(g, i) = "reg"
  BY <1>1, <1>2 DEF KindsOf, KindIn, Reached, SameFile
<1>8. KindsOf(g) = KindsOf(fs)
  BY <1>6, <1>7 DEF KindsOf
<1>9. Promised!Resized(ContentsOf(fs)[i], ContentsOf(g)[i])
  <2>1. Promised!Resized(WordsIn(fs, i), WordsIn(g, i))
    BY <1>1, <1>2, <1>4, ReachedWords
  <2>2. ContentsOf(fs)[i] = WordsIn(fs, i) /\ ContentsOf(g)[i] = WordsIn(g, i)
    BY <1>1 DEF ContentsOf
  <2> QED BY <2>1, <2>2
<1>10. fs' = g
  BY DEF g
<1>11. Promised!Next
  BY <1>1, <1>5, <1>6, <1>7, <1>8, <1>9, <1>10, SeenUpdate
<1> QED BY <1>5, <1>10, <1>11 DEF Promising

(* A copy puts one value over words of one file.                           *)
LEMMA CopiedWords ==
  ASSUME NEW f, Careful(habit), Good(f), NEW w, WritesWell(f, w)
  PROVE  LET g == Copied(f, w)
         IN /\ Promised!Overwritten(WordsIn(f, w.ino), WordsIn(g, w.ino))
            /\ \A j \in Files \ {w.ino} : FileStays(f, g, j)
<1> DEFINE g == Copied(f, w)
           i == w.ino
           b == w.block
           m == w.pos \div BLKSIZE
           s == WordsIn(f, i)
           t == WordsIn(g, i)
<1>1. /\ Sound(f) /\ Capped(f) /\ f \in Disks /\ Fits(f) /\ Orderly(f) /\ i \in Inos
      /\ f.inode[i].ftype = "reg" /\ f.inode[i].nlink # 0 /\ w.val \in Values
  BY InosAre, CappedMeans DEF Good, Orderly, Sound, WritesWell, Pending
<1>2. m \in Nat /\ m < Count(f, i) /\ b = Held(f, i, Place(m))
  BY <1>1, WritesWhere
<1>3. /\ Follows(f, g) /\ g.inode = f.inode /\ Scribbled(f, g, b)
      /\ \A x \in Index : g.disk[b][x].n \in {w.val, f.disk[b][x].n}
  BY FollowsCopied
<1> HIDE DEF g, i, b, m, s, t
<1>4. Sound(g) /\ Capped(g) /\ \A k \in Slots : Held(g, i, k) = Held(f, i, k)
  <2>1. \A k \in Slots : Held(g, i, k) = Held(f, i, k)
    BY <1>1, <1>2, <1>3, ScribbledSound
  <2> QED BY <1>3, <2>1 DEF Follows, Good, Orderly
<1>5. \A j \in Files \ {i} : FileStays(f, g, j)
  BY <1>1, <1>2, <1>3, InosAre, ScribbledStays
<1>6. DOMAIN s = 1..f.inode[i].size /\ DOMAIN t = 1..f.inode[i].size
  BY <1>1, <1>3, <1>4, WordsAre DEF s, t
<1>7. ASSUME NEW u \in 1..f.inode[i].size PROVE t[u] \in {w.val, s[u]}
  <2> DEFINE k == (u - 1) \div BLKSIZE
             x == (u - 1) % BLKSIZE
  <2>1. /\ k \in Nat /\ k < Count(f, i) /\ x \in Index
        /\ s[u] = f.disk[Held(f, i, Place(k))][x].n
    BY <1>1, WordsAre DEF s
  <2>2. t[u] = g.disk[Held(g, i, Place(k))][x].n
    BY <1>1, <1>3, <1>4, WordsAre DEF t
  <2> HIDE DEF k, x
  <2>3. Held(g, i, Place(k)) = Held(f, i, Place(k))
    <3>1. Place(k) \in Slots
      BY <1>1, <2>1, CountType, PlaceUsed DEF Fits
    <3> QED BY <1>4, <3>1
  <2>4. CASE k = m
    BY <1>2, <1>3, <2>1, <2>2, <2>3, <2>4
  <2>5. CASE k # m
    <3>1. Held(f, i, Place(k)) \in 0..NBLOCKS + 2 /\ Held(f, i, Place(k)) # b
      BY <1>1, <1>2, <2>1, <2>5, OtherBlock
    <3> QED BY <1>3, <2>1, <2>2, <2>3, <3>1 DEF Scribbled
  <2> QED BY <2>4, <2>5
<1>8. Promised!Overwritten(s, t)
  BY <1>1, <1>6, <1>7 DEF Promised!Overwritten
<1> QED BY <1>5, <1>8 DEF s, t, i, g

LEMMA CopyPromising ==
  ASSUME CarefulHabits, IInv, LinksSingle(fs), NEW p \in Procs, CopyChunk(p)
  PROVE  Promising
<1> DEFINE w == writing[p]
           g == Copied(fs, w)
           i == w.ino
<1>1. /\ Careful(habit) /\ Good(fs) /\ Orderly(fs) /\ Named(fs) /\ fs \in Disks
  BY IInvMeans
<1>2. w # Idle /\ fs' = g
  BY DEF CopyChunk, Write
<1>3. WritesWell(fs, w)
  BY <1>2 DEF IInv
<1> HIDE DEF w
<1>4. /\ Follows(fs, g) /\ g.inode = fs.inode
      /\ EntryOffsets(g) = EntryOffsets(fs)
      /\ \A off \in EntryOffsets(fs) : Entry(g, off) = Entry(fs, off)
  BY <1>1, <1>3, FollowsCopied
<1>5. /\ Promised!Overwritten(WordsIn(fs, i), WordsIn(g, i))
      /\ \A j \in Files \ {i} : FileStays(fs, g, j)
  BY <1>1, <1>3, CopiedWords
<1>6. /\ i \in Files /\ i \in Inos /\ fs.inode[i].ftype = "reg" /\ fs.inode[i].nlink # 0
  BY <1>3, InosAre DEF WritesWell, Pending
<1> HIDE DEF g, i
<1>7. Orderly(g) /\ Named(g) /\ g \in Disks
  BY <1>4 DEF Follows, Good, Orderly, Sound
<1>8. EntriesOf(g) = EntriesOf(fs)
  BY <1>1, <1>4, <1>7, EntriesSame
<1>9. \A j \in Files \ {i} : ContentsOf(g)[j] = ContentsOf(fs)[j]
  BY <1>1, <1>5, <1>6, <1>7, OthersStay
<1>10. KindsOf(g) = KindsOf(fs) /\ KindsOf(fs)[i] = "reg" /\ LinksSingle(g)
  BY <1>4, <1>6 DEF KindsOf, KindIn, LinksSingle
<1>11. Promised!Overwritten(ContentsOf(fs)[i], ContentsOf(g)[i])
  <2>1. ContentsOf(fs)[i] = WordsIn(fs, i) /\ ContentsOf(g)[i] = WordsIn(g, i)
    BY <1>6 DEF ContentsOf
  <2> QED BY <1>5, <2>1
<1>12. Promised!Next
  BY <1>2, <1>6, <1>8, <1>9, <1>10, <1>11, SeenUpdate
<1> QED BY <1>2, <1>10, <1>12 DEF Promising

(* The beginning of a write is a change of size or nothing.                *)
LEMMA StartPromising ==
  ASSUME CarefulHabits, IInv, LinksSingle(fs), NEW p \in Procs, NEW ino \in Files,
         NEW f_pos \in Sizes, NEW count \in 1..MaxCount, NEW val \in Values,
         write(p, ino, f_pos, count, val)
  PROVE  Promising
<1> DEFINE end == f_pos + count
           grows == end > fs.inode[ino].size
<1>1. /\ fs.inode[ino].nlink > 0 /\ fs.inode[ino].ftype = "reg" /\ end <= MaxSize
      /\ grows => MayGrow(ino, end)
      /\ fs' = IF grows THEN ChangeSize(fs, ino, end).fs ELSE fs
  BY DEF write, IsFile, Operation, Write
<1>2. end \in Nat
  BY DEF Sizes
<1> HIDE DEF end
<1>3. CASE grows
  <2>1. Resizes(ino, end)
    BY <1>1, <1>2, <1>3, WriteResizes
  <2> QED BY <1>1, <1>3, <2>1, ResizePromising
<1>4. CASE ~grows
  BY <1>1, <1>4, QuietPromising
<1> QED BY <1>3, <1>4

LEMMA TruncatePromising ==
  ASSUME CarefulHabits, IInv, LinksSingle(fs), NEW ino \in Files, NEW size \in Sizes,
         truncate(ino, size)
  PROVE  Promising
<1>1. Resizes(ino, size) /\ fs' = ChangeSize(fs, ino, size).fs
  BY TruncateResizes DEF Operation
<1> QED BY <1>1, ResizePromising

(* Every step is one of FileSystem, or none.                               *)
LEMMA NextPromising ==
  ASSUME CarefulHabits, NoRelink, IInv, LinksSingle(fs), [Next]_vars
  PROVE  Promising
<1>1. CASE UNCHANGED vars
  BY <1>1, QuietPromising DEF vars
<1>2. CASE Next
  <2>1. ASSUME NEW name \in Names, create(name) \/ symlink(name) PROVE Promising
    BY <2>1, CreateMakes, SymlinkMakes, MakePromising
  <2>2. ASSUME NEW name \in Names, unlink(name) PROVE Promising
    BY <2>2, UnlinkUnlinks, UnlinkPromising
  <2>3. ASSUME NEW src \in Names, NEW name \in Names, link(src, name) PROVE Promising
    BY <2>3, LinkPromising
  <2>4. ASSUME NEW ino \in Files, NEW size \in Sizes, truncate(ino, size) PROVE Promising
    BY <2>4, TruncatePromising
  <2>5. ASSUME NEW p \in Procs, NEW ino \in Files, NEW f_pos \in Sizes,
               NEW count \in 1..MaxCount, NEW val \in Values, write(p, ino, f_pos, count, val)
        PROVE  Promising
    BY <2>5, StartPromising
  <2>6. ASSUME NEW p \in Procs, CopyChunk(p) PROVE Promising
    BY <2>6, CopyPromising
  <2>7. ASSUME NEW p \in Procs, CopyFault(p) PROVE Promising
    BY <2>7, QuietPromising DEF CopyFault
  <2>8. ASSUME OpenDir \/ CloseDir PROVE Promising
    BY <2>8, QuietPromising DEF OpenDir, CloseDir
  <2>9. ASSUME NEW room, readdir(room) PROVE Promising
    BY <2>9, QuietPromising DEF readdir
  <2> QED BY <1>2, <2>1, <2>2, <2>3, <2>4, <2>5, <2>6, <2>7, <2>8, <2>9 DEF Next, Files
<1> QED BY <1>1, <1>2

(* A formatted disk has no names and no files.                             *)
LEMMA InitPromised ==
  ASSUME CarefulHabits, Init
  PROVE  Promised!Init /\ LinksSingle(fs)
<1>1. \A i \in Inos : fs.inode[i] = FreshInode(i)
  BY DEF Init
<1>2. \A i \in Files : fs.inode[i].nlink = 0
  BY <1>1, FreshInodeIs, InosAre
<1>3. EntriesOf(fs) = [name \in Names |-> 0]
  <2>1. fs.inode[ROOT_INO].size = 0
    BY <1>1, FreshInodeIs, InosAre
  <2>2. 0..(0 - 1) = {}
    OBVIOUS
  <2>3. EntryOffsets(fs) = {}
    BY <2>1, <2>2 DEF EntryOffsets
  <2>4. \A name \in Names : Matches(fs, name) = {}
    BY <2>3 DEF Matches
  <2> QED BY <2>4 DEF EntriesOf, LookupIn
<1>4. /\ KindsOf(fs) = [i \in Files |-> "none"]
      /\ ContentsOf(fs) = [i \in Files |-> <<>>]
  BY <1>2 DEF KindsOf, KindIn, ContentsOf, WordsIn
<1>5. Promised!Init
  BY <1>3, <1>4, SeenNow DEF Promised!Init, Files
<1> QED BY <1>2, <1>5 DEF LinksSingle

(* Names and files behave as FileSystem says, step by step, whatever the   *)
(* size of the disk, as long as nobody makes a second name for a symbolic  *)
(* link: ospfs_unlink would clear the text for both.                       *)
THEOREM ImplementsFileSystem ==
  ASSUME CarefulHabits, NoRelink
  PROVE  Spec => KeepsItsPromise
<1>1. Init => Promised!Init /\ LinksSingle(fs)
  BY InitPromised
<1>2. IInv /\ LinksSingle(fs) /\ [Next]_vars =>
        [Promised!Next]_(Promised!vars) /\ LinksSingle(fs)'
  BY NextPromising DEF Promising, LinksSingle, Files, Inos
<1>3. Spec => []IInv
  BY Invariant
<1> QED BY <1>1, <1>2, <1>3, PTL DEF Spec, KeepsItsPromise, Promised!Spec
=============================================================================
