------------------------------- MODULE Ospfs -------------------------------
(***************************************************************************)
(* The file system of Lab3/ospfsmod.c: free-block bitmap, inodes with      *)
(* direct, indirect and doubly indirect pointers, one directory (the       *)
(* module has no mkdir; every operation works within one directory), and   *)
(* the operations Linux calls.  Block 0 is the boot sector, block 1 the    *)
(* superblock, the data blocks follow; the blocks of the bitmap and of the *)
(* inodes are left out, their contents are fs.free and fs.inode.           *)
(*                                                                         *)
(* The unit of size is a word of a block: an indirect block holds BLKSIZE  *)
(* pointers, a directory block BLKSIZE entries, a data block BLKSIZE       *)
(* values.  Each operation is one step, for none of them sleeps in the     *)
(* middle, except a write, which may sleep in every copy_from_user.        *)
(***************************************************************************)
EXTENDS Integers, Sequences, FiniteSets, FiniteSetsExt

CONSTANTS NBLOCKS,  \* data blocks of the largest disk
          NINODES,  \* os_ninodes; inode 0 is never free, inode 1 is the root
          BLKSIZE,  \* words of a block, hence OSPFS_NINDIRECT
          NDIRECT,  \* OSPFS_NDIRECT
          UINT,     \* how many values an unsigned integer has, 2^32 in C
          Names, NoName,
          Values,   \* what programs write, zero excluded
          Procs,    \* the processes that write
          MaxCount, \* bound: the words of one write
          Habits    \* what the programs may do, see Does

ASSUME SizeAssumption ==
  /\ NBLOCKS \in Nat \ {0} /\ NINODES \in Nat \ {0, 1}
  /\ BLKSIZE \in Nat \ {0} /\ NDIRECT \in Nat \ {0}
  /\ UINT \in Nat \ {0} /\ UINT % BLKSIZE = 0
  /\ NoName \notin Names /\ Values \subseteq Nat \ {0}

VARIABLES fs,      \* the disk: bitmap, blocks, inodes
          writing, \* the write each process is in the middle of
          listing, \* the listing of the directory that a program has begun
          habit    \* what this run's programs do, chosen once

vars == <<fs, writing, listing, habit>>

ROOT_INO == 1
DataBlocks == 2..(habit.blocks + 1)
Inos == 0..(NINODES - 1)
Index == 0..(BLKSIZE - 1)
Zero == [n |-> 0, name |-> NoName]
Blank == [w \in Index |-> Zero]
Idle == [ino |-> 0]
Closed == [f_pos |-> -1]

-----------------------------------------------------------------------------
(* Blocks.                                                                 *)

NBlocks(size) == ((size + BLKSIZE - 1) % UINT) \div BLKSIZE

(* allocate_block(): 0 when the disk is full.                              *)
Allocated(f) == IF f.free = {} THEN 0 ELSE Min(f.free)

(* Mutant: the new block keeps what it held.                               *)
Taken(f) == [f EXCEPT !.free = @ \ {Allocated(f)}]

(* The disk once that block is taken and filled with zeroes.               *)
Erased(f) == [f EXCEPT !.free = @ \ {Allocated(f)}, !.disk[Allocated(f)] = Blank]

Freed(f, b) == IF b \in DataBlocks THEN [f EXCEPT !.free = @ \cup {b}] ELSE f

(* A word beyond the end of a block is a word of the block that follows.   *)
Word(f, b, i) == f.disk[b + i \div BLKSIZE][i % BLKSIZE].n
Stored(f, b, i, n) ==
  [f EXCEPT !.disk[b + i \div BLKSIZE][i % BLKSIZE] = [n |-> n, name |-> NoName]]

Indir2Index(b) == IF b < NDIRECT + BLKSIZE THEN -1 ELSE 0
IndirIndex(b) ==
  IF b < NDIRECT THEN -1
  ELSE IF Indir2Index(b) = 0 THEN (b - NDIRECT - BLKSIZE) \div BLKSIZE ELSE 0
DirectIndex(b) ==
  IF IndirIndex(b) = -1 THEN b
  ELSE IF IndirIndex(b) = 0 THEN b - NDIRECT
  ELSE (b - NDIRECT - BLKSIZE) % BLKSIZE

(* ospfs_inode_blockno(): the block of the word at offset, or 0.           *)
Blockno(f, i, offset) ==
  LET oi == f.inode[i]
      b == offset \div BLKSIZE
      b2 == b - NDIRECT - BLKSIZE
  IN IF offset >= oi.size \/ oi.ftype = "symlink" THEN 0
     ELSE IF b2 >= 0 THEN Word(f, Word(f, oi.indirect2, b2 \div BLKSIZE), b2 % BLKSIZE)
     ELSE IF b >= NDIRECT THEN Word(f, oi.indirect, b - NDIRECT)
     ELSE oi.direct[b]

-----------------------------------------------------------------------------
(* The size of a file.  An operator that may fail returns [fs, r].         *)

Failed(f, r) == [fs |-> f, r |-> r]
Grown(f, i) == [fs |-> [f EXCEPT !.inode[i].size = (@ + BLKSIZE) % UINT], r |-> "ok"]
Shrunk(f, i) == [fs |-> [f EXCEPT !.inode[i].size = (@ - BLKSIZE) % UINT], r |-> "ok"]

AddDirect(f, i, n) ==
  IF Allocated(f) = 0 THEN Failed(f, "ENOSPC")
  ELSE Grown([Erased(f) EXCEPT !.inode[i].direct[n] = Allocated(f)], i)

(* Mutant: the indirect block stays when there is no block to go under it. *)
AddUnderOnly(f, i, n) ==
  LET new == f.inode[i].indirect = 0
      g == IF new /\ Allocated(f) # 0
           THEN [Erased(f) EXCEPT !.inode[i].indirect = Allocated(f)] ELSE f
  IN IF Allocated(g) = 0 THEN Failed(g, "ENOSPC")
     ELSE Grown(Stored(Erased(g), g.inode[i].indirect, DirectIndex(n), Allocated(g)), i)

(* When the indirect block is there and the disk is full the test of line  *)
(* 825 fails, and block 0 is stored and cleared.                           *)
AddIndirect(f, i, n) ==
  LET new == f.inode[i].indirect = 0
      g == IF new THEN [Erased(f) EXCEPT !.inode[i].indirect = Allocated(f)] ELSE f
      indBlk == g.inode[i].indirect
  IN CASE new /\ Allocated(f) = 0 -> Failed(f, "ENOSPC")
       [] new /\ Allocated(f) # 0 /\ Allocated(g) = 0 ->
            Failed([Freed(g, indBlk) EXCEPT !.inode[i].indirect = 0], "ENOSPC")
       [] OTHER -> Grown(Stored(Erased(g), indBlk, DirectIndex(n), Allocated(g)), i)

AddIndirect2(f, i, n) ==
  LET new2 == f.inode[i].indirect2 = 0
      g == IF new2 THEN [Erased(f) EXCEPT !.inode[i].indirect2 = Allocated(f)] ELSE f
      ind2Blk == g.inode[i].indirect2
      new == DirectIndex(n) = 0
      h == IF new THEN Stored(Erased(g), ind2Blk, IndirIndex(n), Allocated(g)) ELSE g
      undone == IF new2 THEN Freed(h, ind2Blk) ELSE h
      block == Allocated(h)
  IN CASE new2 /\ Allocated(f) = 0 -> Failed(f, "ENOSPC")
       [] ~(new2 /\ Allocated(f) = 0) /\ new /\ Allocated(g) = 0 ->
            Failed(IF new2 THEN Freed(g, ind2Blk) ELSE g, "ENOSPC")
       [] ~(new2 /\ Allocated(f) = 0) /\ ~(new /\ Allocated(g) = 0) /\ block = 0 ->
            Failed(IF new2 /\ new THEN Freed(undone, Allocated(g)) ELSE undone, "ENOSPC")
       [] OTHER ->
            Grown(Stored(Erased(h), Word(h, ind2Blk, IndirIndex(n)), DirectIndex(n), block), i)

AddBlock(f, i) ==
  LET n == NBlocks(f.inode[i].size) IN
  IF Indir2Index(n) = 0 THEN AddIndirect2(f, i, n)
  ELSE IF IndirIndex(n) = 0 THEN AddIndirect(f, i, n)
  ELSE AddDirect(f, i, n)

(* Mutant: the indirect block is forgotten, not freed.                     *)
RemoveUnderOnly(f, i, last) ==
  LET indBlk == f.inode[i].indirect
      g == Stored(Freed(f, Word(f, indBlk, DirectIndex(last))), indBlk, DirectIndex(last), 0)
  IN Shrunk([g EXCEPT !.inode[i].indirect = 0], i)

(* A file's indirect block goes with any of the blocks under it: offset[1] *)
(* is 0 for all of them.                                                   *)
RemoveIndirect(f, i, last) ==
  LET indBlk == f.inode[i].indirect
      g == Stored(Freed(f, Word(f, indBlk, DirectIndex(last))), indBlk, DirectIndex(last), 0)
  IN Shrunk([Freed(g, indBlk) EXCEPT !.inode[i].indirect = 0], i)

RemoveIndirect2(f, i, last) ==
  LET ind2Blk == f.inode[i].indirect2
      indN == Word(f, ind2Blk, IndirIndex(last))
      blockN == Word(f, indN, DirectIndex(last))
      g == Stored(Freed(f, blockN), indN, DirectIndex(last), 0)
      h == Stored(Freed(g, indN), ind2Blk, IndirIndex(last), 0)
  IN IF indN = 0 \/ blockN = 0 THEN Failed(f, "EIO")
     ELSE IF DirectIndex(last) # 0 THEN Shrunk(g, i)
     ELSE IF IndirIndex(last) # 0 THEN Shrunk(h, i)
     ELSE Shrunk([Freed(h, ind2Blk) EXCEPT !.inode[i].indirect2 = 0], i)

RemoveBlock(f, i) ==
  LET n == NBlocks(f.inode[i].size)
      b == f.inode[i].direct[n - 1]
  IN CASE n = 0 -> [fs |-> f, r |-> "ok"]
       [] n \in 1..NDIRECT ->
            IF b = 0 THEN Failed(f, "EIO")
            ELSE Shrunk([Freed(f, b) EXCEPT !.inode[i].direct[n - 1] = 0], i)
       [] n \in (NDIRECT + 1)..(NDIRECT + BLKSIZE) -> RemoveIndirect(f, i, n - 1)
       [] n > NDIRECT + BLKSIZE -> RemoveIndirect2(f, i, n - 1)

(* k times Op, as long as it succeeds.                                     *)
Repeat(Op(_, _), f, i, k) ==
  LET after[j \in 0..k] ==
        IF j = 0 THEN [fs |-> f, r |-> "ok"]
        ELSE IF after[j - 1].r # "ok" THEN after[j - 1]
        ELSE Op(after[j - 1].fs, i)
  IN after[k]

NBlocksOf(f, i) == NBlocks(f.inode[i].size)
Excess(f, i, size) == Max({0, NBlocksOf(f, i) - NBlocks(size)})

(* Mutant: the size becomes the new one whether the blocks are there or not.*)
SizeAnyway(f, i, new_size) ==
  LET need == NBlocks(new_size) - NBlocksOf(f, i)
      up == Repeat(AddBlock, f, i, Max({0, need}))
      down == Repeat(RemoveBlock, up.fs, i, Excess(up.fs, i, new_size))
  IN [fs |-> [down.fs EXCEPT !.inode[i].size = new_size], r |-> up.r]

(* change_size(): the blocks first, those that are too many go again, then *)
(* the size.  The size is the old one if there were too few.               *)
Trimmed(up, i, size) ==
  LET down == Repeat(RemoveBlock, up.fs, i, Excess(up.fs, i, size))
  IN [fs |-> [down.fs EXCEPT !.inode[i].size = size],
      r |-> IF down.r # "ok" THEN down.r ELSE up.r]
Sized(up, i, old, new_size) == Trimmed(up, i, IF up.r = "ok" THEN new_size ELSE old)
ChangeSize(f, i, new_size) ==
  Sized(Repeat(AddBlock, f, i, Max({0, NBlocks(new_size) - NBlocksOf(f, i)})),
        i, f.inode[i].size, new_size)

-----------------------------------------------------------------------------
(* The directory: a file of entries, each an inode number and a name.      *)

EntryBlock(f, off) == Blockno(f, ROOT_INO, off)
Entry(f, off) == f.disk[EntryBlock(f, off)][off % BLKSIZE]
EntryOffsets(f) == 0..(f.inode[ROOT_INO].size - 1)
SetEntry(f, off, n, name) ==
  [f EXCEPT !.disk[EntryBlock(f, off)][off % BLKSIZE] = [n |-> n, name |-> name]]

(* The entries find_direntry() looks for; the first of them counts.        *)
Matches(f, name) ==
  {off \in EntryOffsets(f) : LET od == Entry(f, off) IN od.n > 0 /\ od.name = name}
Exists(f, name) == Matches(f, name) # {}

(* create_blank_direntry(): the first empty entry, or a new one at the end.*)
BlankDirentry(f) ==
  LET blank == {off \in EntryOffsets(f) : Entry(f, off).n = 0}
      end == f.inode[ROOT_INO].size
      longer == ChangeSize(f, ROOT_INO, end + 1)
  IN IF blank # {} THEN [fs |-> f, r |-> "ok", off |-> Min(blank)]
     ELSE [fs |-> longer.fs, r |-> longer.r, off |-> end]

FreeInodes(f) == {i \in Inos : f.inode[i].nlink = 0}

NewFile ==
  [size |-> 0, ftype |-> "reg", nlink |-> 1,
   direct |-> [b \in 0..(NDIRECT - 1) |-> 0], indirect |-> 0, indirect2 |-> 0]

(* The text of a link lies over the pointers of its inode, which nothing   *)
(* follows while the inode is a link.                                      *)
NewSymlink(oi, length) == [oi EXCEPT !.size = length, !.ftype = "symlink", !.nlink = 1]

-----------------------------------------------------------------------------
(* What the programs do.  A habit is a record [blocks, most, does]: the    *)
(* data blocks of the disk, the blocks no file may exceed, and which of    *)
(* these the programs do:                                                  *)
(*   "fill"    ask for blocks when the disk may lack them;                 *)
(*   "shrink"  truncate or remove a file that has blocks;                  *)
(*   "disturb" truncate or remove a file that is being written;            *)
(*   "relink"  make a second name for a symbolic link;                     *)
(*   "list"    list the directory, and then neither truncate nor write.    *)

(* What the file system can bear: blocks that all fit, sizes that stay     *)
(* away from the largest unsigned integer, no file that shrinks while it   *)
(* is written, and at most one block under the indirect block of a file    *)
(* that may lose some, or may not get all it asks for.                     *)
Careful(h) ==
  /\ h.blocks \in 1..NBLOCKS
  /\ h.most \in 1..(NDIRECT + BLKSIZE) /\ (h.most + 1) * BLKSIZE <= UINT
  /\ "disturb" \notin h.does
  /\ h.does \cap {"fill", "shrink"} # {} => h.most <= NDIRECT + 1

Does(what) == what \in habit.does
Writers(i) == {p \in Procs : writing[p].ino = i}
Undisturbed(i) == Does("disturb") \/ Writers(i) = {}
MaxSize == habit.most * BLKSIZE
Roomy(k) == Does("fill") \/ Cardinality(fs.free) >= k + 1
MayGrow(i, size) == size <= MaxSize /\ Roomy(NBlocks(size) - NBlocksOf(fs, i))
MayExtendRoot == MayGrow(ROOT_INO, fs.inode[ROOT_INO].size + 1)

(* What the lister may rely on: the names that have been there since it    *)
(* began, and those that have been there at some time since.               *)
NamesIn(f) == {Entry(f, off).name : off \in {o \in EntryOffsets(f) : Entry(f, o).n # 0}}
Watched(f) ==
  IF listing = Closed THEN Closed
  ELSE [listing EXCEPT !.stayed = @ \cap NamesIn(f), !.came = @ \cup NamesIn(f)]

Operation(f) == fs' = f /\ listing' = Watched(f) /\ UNCHANGED <<writing, habit>>

(* ospfs_create() and ospfs_symlink(): an inode first, then an entry.      *)
Make(name, Node(_)) ==
  LET ino == Min(FreeInodes(fs))
  IN /\ ~Exists(fs, name) /\ MayExtendRoot
     /\ FreeInodes(fs) # {}
     /\ \E od \in {BlankDirentry(fs)} :
        \/ od.r # "ok" /\ Operation(od.fs)
        \/ /\ od.r = "ok"
           /\ Operation(SetEntry([od.fs EXCEPT !.inode[ino] = Node(@)], od.off, ino, name))

create(name) == LET Node(oi) == NewFile IN Make(name, Node)
symlink(name) == LET Node(oi) == NewSymlink(oi, 1) IN Make(name, Node)

IsFile(i) == fs.inode[i].nlink > 0 /\ fs.inode[i].ftype = "reg"
IsLink(i) == fs.inode[i].nlink > 0 /\ fs.inode[i].ftype = "symlink"
Lookup(name) ==
  LET found == Matches(fs, name) IN
  IF found = {} THEN 0 ELSE Entry(fs, Min(found)).n

(* ospfs_link(): a new name for the file that src names.                   *)
link(src, name) ==
  LET ino == Lookup(src)
  IN /\ Exists(fs, src) /\ ~Exists(fs, name) /\ MayExtendRoot
     /\ IsLink(ino) => Does("relink")
     /\ \E od \in {BlankDirentry(fs)} :
        \/ od.r # "ok" /\ Operation(od.fs)
        \/ /\ od.r = "ok"
           /\ Operation([SetEntry(od.fs, od.off, ino, name) EXCEPT !.inode[ino].nlink = @ + 1])

Unlinked(f, i) == [f EXCEPT !.inode[i].nlink = @ - 1]

(* ospfs_unlink(): the last name takes the file's blocks with it.          *)
unlink(name) ==
  LET off == Min(Matches(fs, name))
      ino == Lookup(name)
      f == SetEntry(fs, off, 0, name)
      g == Unlinked(IF IsLink(ino) THEN [f EXCEPT !.inode[ino].size = 0] ELSE f, ino)
  IN /\ Exists(fs, name)
     /\ IsFile(ino) /\ g.inode[ino].nlink = 0 =>
          Undisturbed(ino) /\ (Does("shrink") \/ g.inode[ino].size = 0)
     /\ \/ g.inode[ino].nlink > 0 /\ Operation(g)
        \/ g.inode[ino].nlink = 0 /\ Operation(ChangeSize(g, ino, 0).fs)

(* ospfs_notify_change(): only the size of a regular file.                 *)
truncate(ino, size) ==
  /\ IsFile(ino) /\ Undisturbed(ino) /\ size # fs.inode[ino].size /\ MayGrow(ino, size)
  /\ ~Does("list")
  /\ Does("shrink") \/ size > fs.inode[ino].size
  /\ Operation(ChangeSize(fs, ino, size).fs)

(* Mutants: the block is looked up and not kept, or only looked up once.   *)
NotLocated(f, w) == IF w.left = 0 \/ Blockno(f, w.ino, w.pos) = 0 THEN Idle ELSE w
LocatedOnce(f, w) ==
  IF w.left = 0 THEN Idle
  ELSE IF w.block # 0 THEN w ELSE [w EXCEPT !.block = Blockno(f, w.ino, w.pos)]

(* The write that stands at word pos of a file with left words to go: the  *)
(* block is looked up, and the process may sleep before it copies into it; *)
(* a block that is not there ends the write with -EIO.                     *)
Located(f, w) ==
  IF w.left = 0 \/ Blockno(f, w.ino, w.pos) = 0 THEN Idle
  ELSE [w EXCEPT !.block = Blockno(f, w.ino, w.pos)]

Write(p, f, w) ==
  fs' = f /\ writing' = [writing EXCEPT ![p] = Located(f, w)]
  /\ UNCHANGED <<listing, habit>>

(* ospfs_write() up to its first copy; with O_APPEND at the end of file.   *)
write(p, ino, f_pos, count, val) ==
  LET end == f_pos + count
      w == [ino |-> ino, pos |-> f_pos, left |-> count, val |-> val, block |-> 0]
  IN /\ writing[p] = Idle /\ IsFile(ino) /\ end <= MaxSize /\ ~Does("list")
     /\ end > fs.inode[ino].size => MayGrow(ino, end)
     /\ \E grown \in {IF end > fs.inode[ino].size THEN ChangeSize(fs, ino, end)
                       ELSE [fs |-> fs, r |-> "ok"]} :
        \/ grown.r # "ok" /\ Operation(grown.fs)
        \/ grown.r = "ok" /\ Write(p, grown.fs, w)

Chunk(w) == Min({BLKSIZE - (w.pos % BLKSIZE), w.left})
ChunkWords(w) == LET first == w.pos % BLKSIZE IN first..(first + Chunk(w) - 1)
Copied(f, w) ==
  [f EXCEPT !.disk[w.block] =
     [k \in Index |-> IF k \in ChunkWords(w) THEN [n |-> w.val, name |-> NoName] ELSE @[k]]]

(* copy_from_user() returns: one block's share is copied, and the next     *)
(* block looked up.                                                        *)
CopyChunk(p) ==
  LET w == writing[p] IN
  /\ w # Idle
  /\ Write(p, Copied(fs, w), [w EXCEPT !.pos = @ + Chunk(w), !.left = @ - Chunk(w)])

(* copy_from_user() meets a bad address.                                   *)
CopyFault(p) ==
  /\ writing[p] # Idle
  /\ writing' = [writing EXCEPT ![p] = Idle] /\ UNCHANGED <<fs, listing, habit>>

(* ospfs_dir_readdir(), called until it returns 1.  f_pos is the offset of *)
(* an entry plus two, for "." and "..".                                    *)
OpenDir ==
  /\ Does("list") /\ listing = Closed
  /\ listing' = [f_pos |-> 0, seen |-> [name \in Names |-> 0],
                 stayed |-> NamesIn(fs), came |-> NamesIn(fs)]
  /\ UNCHANGED <<fs, writing, habit>>

EndOfDir(f) == f.inode[ROOT_INO].size + 2
(* Mutant: a blank entry is given like any other.                          *)
AnyEntry(f, pos) == TRUE

IsEntry(f, pos) == pos < 2 \/ Entry(f, pos - 2).n # 0
Entries(f, from, to) == {pos \in from..(to - 1) : IsEntry(f, pos)}

(* Where one call stops when filldir takes room entries: at the end, or at *)
(* the entry that filldir refused, which the next call begins with.        *)
Stop(f, from, room) ==
  Min({EndOfDir(f)} \cup {pos \in from..(EndOfDir(f) - 1) :
         IsEntry(f, pos) /\ Cardinality(Entries(f, from, pos)) = room})

Filled(f, from, to, name) ==
  Cardinality({pos \in Entries(f, from, to) \ {0, 1} : Entry(f, pos - 2).name = name})

readdir(room) ==
  /\ listing # Closed
  /\ \E to \in {Stop(fs, listing.f_pos, room)} :
       listing' = [listing EXCEPT !.f_pos = to,
         !.seen = [name \in Names |-> @[name] + Filled(fs, listing.f_pos, to, name)]]
  /\ UNCHANGED <<fs, writing, habit>>

AllListed == listing # Closed /\ listing.f_pos = EndOfDir(fs)

CloseDir == AllListed /\ listing' = Closed /\ UNCHANGED <<fs, writing, habit>>

NoFile == [NewFile EXCEPT !.nlink = 0]
FreshInode(i) ==
  IF i = 0 THEN [NewFile EXCEPT !.nlink = 1]
  ELSE IF i = ROOT_INO THEN [NewFile EXCEPT !.ftype = "dir"] ELSE NoFile

(* A disk as ospfsformat leaves it when there are no files to put on it.   *)
Init ==
  /\ habit \in Habits
  /\ fs = [free |-> DataBlocks, disk |-> [b \in 0..(NBLOCKS + 2) |-> Blank],
           inode |-> [i \in Inos |-> FreshInode(i)]]
  /\ writing = [p \in Procs |-> Idle]
  /\ listing = Closed

Sizes == 0..MaxSize

Next ==
  \/ \E name \in Names : create(name) \/ symlink(name) \/ unlink(name)
  \/ \E src, name \in Names : link(src, name)
  \/ \E ino \in Inos \ {0, ROOT_INO}, size \in Sizes : truncate(ino, size)
  \/ \E p \in Procs, ino \in Inos \ {0, ROOT_INO}, f_pos \in Sizes, count \in 1..MaxCount, val \in Values :
       write(p, ino, f_pos, count, val)
  \/ \E p \in Procs : CopyChunk(p) \/ CopyFault(p)
  \/ OpenDir \/ CloseDir \/ \E room \in {1, 3} : readdir(room)

Spec == Init /\ [][Next]_vars

-----------------------------------------------------------------------------
(* What must be true.                                                      *)

(* Where a file keeps block numbers: <<"direct", k>>, <<"indirect", 0>>,   *)
(* <<"under", k>> for the words of its indirect block, and <<"indirect2",  *)
(* 0>>, below which a file that fits its indirect block has nothing.       *)
Slots ==
  {<<"direct", k>> : k \in 0..(NDIRECT - 1)} \cup {<<"under", k>> : k \in Index}
    \cup {<<"indirect", 0>>, <<"indirect2", 0>>}
Held(f, i, slot) ==
  LET oi == f.inode[i] IN
  CASE slot[1] = "direct" -> oi.direct[slot[2]]
    [] slot[1] = "indirect" -> oi.indirect
    [] slot[1] = "indirect2" -> oi.indirect2
    [] slot[1] = "under" -> IF oi.indirect = 0 THEN 0 ELSE Word(f, oi.indirect, slot[2])

WithBlocks == {i \in Inos : fs.inode[i].nlink > 0 /\ fs.inode[i].ftype # "symlink"}
Holders(b) == {s \in WithBlocks \X Slots : Held(fs, s[1], s[2]) = b}

(* Every variable keeps its type (ospfs.h's structures).                   *)
TypeOK ==
  /\ fs.free \subseteq DataBlocks
  /\ \A i \in Inos : /\ fs.inode[i].size \in 0..(UINT - 1) /\ fs.inode[i].nlink \in Nat
                     /\ fs.inode[i].ftype \in {"reg", "dir", "symlink"}
  /\ \A p \in Procs : writing[p] = Idle \/ writing[p].block \in DataBlocks
  /\ habit \in Habits
  /\ listing = Closed \/ listing.f_pos \in 0..EndOfDir(fs)

(* A data block is free, or exactly one file has it in exactly one place:  *)
(* allocate_block() and free_block() balance on every path, also when a    *)
(* file cannot grow, and no two files share a block.  A file has as many   *)
(* names as its link count says, for the count decides when its blocks go; *)
(* an inode that is free has none.                                         *)
BlocksAccounted ==
  /\ \A b \in DataBlocks : Cardinality(Holders(b)) = (IF b \in fs.free THEN 0 ELSE 1)
  /\ \A i \in Inos \ {0} :
       Cardinality({off \in EntryOffsets(fs) : Entry(fs, off).n = i}) =
         IF i = ROOT_INO THEN 0 ELSE fs.inode[i].nlink

(* Every block below a file's size is there, and is one that is not free:  *)
(* add_block() and remove_block() leave the rest of the file alone.        *)
EveryBlockThere ==
  \A i \in WithBlocks : \A b \in 0..(NBlocksOf(fs, i) - 1) :
    Blockno(fs, i, b * BLKSIZE) \in DataBlocks \ fs.free

(* Whatever size is asked of whatever file: a change_size() that fails for *)
(* want of blocks, after however many it got, leaves every file and the    *)
(* bitmap as they were (ospfsmod.c:937-939).                               *)
NoSpaceNoTrace ==
  \A i \in WithBlocks, size \in Sizes :
    \A changed \in {ChangeSize(fs, i, size)} : changed.r = "ENOSPC" =>
      changed.fs.free = fs.free /\ changed.fs.inode = fs.inode

Word0(f, i, u) == Word(f, Blockno(f, i, u), u % BLKSIZE)

(* ospfs_read() from f_pos: what it hands over.  It copies from the start  *)
(* of every block, wherever in the block f_pos is; <<-1>> stands for EIO.  *)
Read(i, f_pos, count) ==
  LET size == fs.inode[i].size
      want == IF f_pos + count > size THEN (size - f_pos) % UINT ELSE count
      from[amount \in 0..want] ==
        LET pos == f_pos + amount
            n == Min({BLKSIZE - (pos % BLKSIZE), want - amount})
            b == Blockno(fs, i, pos)
        IN IF amount = want THEN <<>>
           ELSE IF b = 0 THEN <<-1>>
           ELSE [k \in 1..n |-> fs.disk[b][k - 1].n] \o from[amount + n]
  IN from[0]

Content(i) ==
  IF fs.inode[i].nlink = 0 THEN <<>>
  ELSE [u \in 1..fs.inode[i].size |->
          IF IsLink(i) THEN 0 ELSE Word0(fs, i, u - 1)]

(* Reads and writes touch the file's own words.  A write that sleeps in    *)
(* copy_from_user() wakes up to copy into a block that is still its        *)
(* file's; a read that starts at a block hands over what the file holds    *)
(* from there on, up to the count asked for or the end of the file.        *)
RightBlocks ==
  /\ \A p \in Procs : writing[p] # Idle =>
       writing[p].block = Blockno(fs, writing[p].ino, writing[p].pos)
  /\ \A i \in Inos \ {0, ROOT_INO} : IsFile(i) =>
       \A b \in 0..NBlocksOf(fs, i), count \in 0..(MaxCount + 1) :
         b * BLKSIZE <= fs.inode[i].size =>
           Read(i, b * BLKSIZE, count) =
             SubSeq(Content(i), b * BLKSIZE + 1, Min({b * BLKSIZE + count, Len(Content(i))}))

(* A program that lists the directory in several calls, while others add   *)
(* and remove names, is given each name that stays there exactly once, and *)
(* none that was never there in the meantime: readdir keeps the place of   *)
(* the entry that filldir refused and skips the blank ones.                *)
ListsWhatStays ==
  listing # Closed =>
    /\ \A name \in listing.stayed : listing.seen[name] <= 1
    /\ AllListed => \A name \in listing.stayed : listing.seen[name] = 1
    /\ \A name \in Names : listing.seen[name] > 0 => name \in listing.came

Promised == INSTANCE FileSystem WITH
  Files <- Inos \ {0, ROOT_INO}, None <- 0,
  entry <- [name \in Names |-> Lookup(name)],
  kind <- [i \in Inos \ {0, ROOT_INO} |->
             IF fs.inode[i].nlink = 0 THEN "none" ELSE fs.inode[i].ftype],
  content <- [i \in Inos \ {0, ROOT_INO} |-> Content(i)]

(* Names and files behave as FileSystem says: no operation loses, mixes up *)
(* or half changes what another file or name holds, and the blocks a file  *)
(* gains are erased.                                                       *)
KeepsItsPromise == Promised!Spec
=============================================================================
