------------------------------- MODULE Content ------------------------------
(***************************************************************************)
(* The blocks of files: the bitmap, bmap, itrunc, readi and writei (fs.c),   *)
(* read and write on open files (file.c), and the image mkfs.c makes.        *)
(*                                                                         *)
(* Processes write to files that share inodes and offsets.  A step is an     *)
(* iteration of the loop of writei; between its steps others write to other  *)
(* inodes and take blocks.  The calls are inside transactions (module Log),  *)
(* so that a crash leaves what some state without a write in progress has    *)
(* on the disk.  A block has BSIZE cells, each a byte or a block number.     *)
(***************************************************************************)
EXTENDS Integers, Sequences, FiniteSets, FiniteSetsExt

CONSTANTS
  Writers,
  NoWriter,
  InodeOf,     \* the inode of each open file
  MkfsFiles,   \* the lengths of the files mkfs puts on the disk, by inode
  BSIZE, NDIRECT, NINDIRECT,
  NMeta,       \* the blocks before the data: usedblocks of mkfs
  NData,       \* nblocks
  NLogBlocks,  \* nlog, at the end of the disk
  MaxPiece,    \* max of filewrite
  Lengths,     \* of the calls of read and write
  ByteOf,      \* what a process writes
  MaxChanges   \* bound: calls that change files

FileSet == DOMAIN InodeOf
InodeSet == DOMAIN MkfsFiles
MAXFILE == NDIRECT + NINDIRECT

\* The blocks of the files mkfs makes: <<inode, position>>, the indirect block at -1.
MkfsBlocks ==
  {x \in InodeSet \X (-1..(MAXFILE - 1)) :
     MkfsFiles[x[1]] > BSIZE * (IF x[2] = -1 THEN NDIRECT ELSE x[2])}

ASSUME ContentAssumption ==
  /\ BSIZE \in Nat \ {0} /\ NDIRECT \in Nat \ {0} /\ NINDIRECT \in 1..BSIZE
  /\ NMeta \in Nat \ {0} /\ NData \in Nat /\ NLogBlocks \in Nat
  /\ MaxPiece \in Nat \ {0} /\ Lengths \subseteq Nat \ {0}
  /\ NoWriter \notin Writers
  /\ MkfsFiles \in Seq(0..(MAXFILE * BSIZE))
  /\ InodeOf \in [FileSet -> InodeSet]
  /\ Cardinality(MkfsBlocks) <= NData

SIZE == NMeta + NData + NLogBlocks
Blocks == 0..(SIZE - 1)
LogBlocks == (NMeta + NData)..(SIZE - 1)
Cells == 0..(BSIZE - 1)
MkfsByte == 1
Zeroes == [c \in Cells |-> 0]
NoAddrs == [k \in 0..NDIRECT |-> 0]

VARIABLES
  fs,          \* [bitmap, data, ip]: the blocks in use, the content of the blocks, and the
               \* inodes in memory, [addrs, size]
  dinode,      \* the inodes on disk
  off,         \* f->off
  write,       \* the call of filewrite a process is in
  locker,      \* ip->flags & I_BUSY, and who has set it
  text,        \* what has been written to the file, as a sequence of bytes
  changes,     \* how many calls there have been that change files
  outOfBlocks  \* the panic of balloc

contentVars == <<fs, dinode, off, write, locker, text, changes, outOfBlocks>>

NoWrite == [file |-> 0, n |-> 0, i |-> 0, off |-> 0, n1 |-> 0, tot |-> 0]
min(a, b) == IF a < b THEN a ELSE b

-----------------------------------------------------------------------------
\* Operators on d, a value of fs.
FreeBlock(d) == Min(Blocks \ d.bitmap)

\* balloc: the first free block, zeroed; all of the disk is looked at.
Balloc(d) ==
  [d EXCEPT !.bitmap = @ \cup {FreeBlock(d)}, !.data[FreeBlock(d)] = Zeroes]

\* bmap, for a block number in the inode: itself or the indirect block.
Direct(d, i, k) ==
  IF d.ip[i].addrs[k] # 0 THEN d
  ELSE [Balloc(d) EXCEPT !.ip[i].addrs[k] = FreeBlock(d)]

\* bmap, for a block number in the indirect block.
Indirect(d, i, k) ==
  LET ind == d.ip[i].addrs[NDIRECT]
  IN  IF d.data[ind][k] # 0 THEN d
      ELSE [Balloc(d) EXCEPT !.data[ind][k] = FreeBlock(d)]

Bmap(d, i, bn) ==
  IF bn < NDIRECT THEN Direct(d, i, bn)
  ELSE Indirect(Direct(d, i, NDIRECT), i, bn - NDIRECT)

\* The block bmap returns.
Addr(d, i, bn) ==
  IF bn < NDIRECT THEN d.ip[i].addrs[bn]
  ELSE d.data[d.ip[i].addrs[NDIRECT]][bn - NDIRECT]

\* The blocks bmap would have to allocate.
Needs(d, i, bn) ==
  IF bn < NDIRECT THEN IF d.ip[i].addrs[bn] = 0 THEN 1 ELSE 0
  ELSE IF d.ip[i].addrs[NDIRECT] = 0 THEN 2
  ELSE IF Addr(d, i, bn) = 0 THEN 1 ELSE 0

\* The bytes an iteration of readi or writei moves, at offset o.
Moved(o, n, tot) == min(n - tot, BSIZE - (o % BSIZE))

\* Mutant: the offset in the block is forgotten.
FromStart(o, n, tot) == 0..(Moved(o, n, tot) - 1)

\* The cells of the block it moves them to.
Into(o, n, tot) == (o % BSIZE)..((o % BSIZE) + Moved(o, n, tot) - 1)

\* An iteration of writei, for n bytes b from offset start.
Chunk(d, i, start, n, tot, b) ==
  LET o == start + tot
      e == Bmap(d, i, o \div BSIZE)
  IN  [e EXCEPT !.data[Addr(e, i, o \div BSIZE)] =
                  [c \in Cells |-> IF c \in Into(o, n, tot) THEN b ELSE @[c]]]

\* readi, where every block is there.
Readi(d, i, start, n0) ==
  LET n == min(n0, d.ip[i].size - start)
      from[tot \in 0..n] ==
        IF tot = n THEN << >>
        ELSE LET o == start + tot
                 m == Moved(o, n, tot)
             IN  [c \in 1..m |-> d.data[Addr(d, i, o \div BSIZE)][(o % BSIZE) + c - 1]]
                   \o from[tot + m]
  IN  from[0]

\* The blocks of an inode: <<block, inode, position>>, the indirect block at -1.
BlocksOf(d, i) ==
  LET a == d.ip[i].addrs
  IN  {<<a[k], i, IF k = NDIRECT THEN -1 ELSE k>> : k \in {k \in 0..NDIRECT : a[k] # 0}}
        \cup IF a[NDIRECT] = 0 THEN {}
             ELSE {<<d.data[a[NDIRECT]][k], i, NDIRECT + k>> :
                     k \in {k \in 0..(NINDIRECT - 1) : d.data[a[NDIRECT]][k] # 0}}

\* Mutant: the indirect block itself is not freed.
FreedBut(d, i) == {u[1] : u \in {v \in BlocksOf(d, i) : v[3] # -1}}

Freed(d, i) == {u[1] : u \in BlocksOf(d, i)}

\* itrunc
Itrunc(d, i) ==
  [d EXCEPT !.bitmap = @ \ Freed(d, i), !.ip[i] = [addrs |-> NoAddrs, size |-> 0]]

Overlay(s, o, n, b) ==
  [k \in 1..(IF o + n > Len(s) THEN o + n ELSE Len(s)) |->
     IF k > o /\ k <= o + n THEN b ELSE s[k]]

-----------------------------------------------------------------------------
\* write: filewrite on an inode.
StartWrite(p, f, n) ==
  /\ ~ outOfBlocks /\ write[p] = NoWrite
  /\ changes < MaxChanges /\ changes' = changes + 1
  /\ write' = [write EXCEPT ![p] = [NoWrite EXCEPT !.file = f, !.n = n]]
  /\ UNCHANGED <<fs, dinode, off, locker, text, outOfBlocks>>

\* filewrite: begin_op, ilock, and the tests of writei, on whose -1 write ends.
BeginPiece(p) ==
  LET w  == write[p]
      i  == InodeOf[w.file]
      n1 == min(w.n - w.i, MaxPiece)
      o  == off[w.file]
  IN  /\ ~ outOfBlocks /\ w # NoWrite /\ w.n1 = 0
      /\ locker[i] = NoWriter
      /\ IF o > fs.ip[i].size \/ o + n1 > MAXFILE * BSIZE
         THEN write' = [write EXCEPT ![p] = NoWrite] /\ UNCHANGED locker
         ELSE /\ write' = [write EXCEPT ![p].off = o, ![p].n1 = n1, ![p].tot = 0]
              /\ locker' = [locker EXCEPT ![i] = p]
      /\ UNCHANGED <<fs, dinode, off, text, changes, outOfBlocks>>

WriteChunk(p) ==
  LET w == write[p]
      i == InodeOf[w.file]
      o == w.off + w.tot
  IN  /\ ~ outOfBlocks /\ w.tot < w.n1
      /\ IF Needs(fs, i, o \div BSIZE) > Cardinality(Blocks \ fs.bitmap)
         THEN outOfBlocks' = TRUE /\ UNCHANGED <<fs, write>>
         ELSE /\ fs' = Chunk(fs, i, w.off, w.n1, w.tot, ByteOf[p])
              /\ write' = [write EXCEPT ![p].tot = @ + Moved(o, w.n1, w.tot)]
              /\ UNCHANGED outOfBlocks
      /\ UNCHANGED <<dinode, off, locker, text, changes>>

\* Mutant: iupdate is called before the size is set.
OldSize(i, size) == fs.ip[i]

\* iupdate writes the inode with its new size.
Updated(i, size) == [fs.ip[i] EXCEPT !.size = size]

\* writei: the size and iupdate; filewrite: f->off += r, iunlock, end_op.
EndPiece(p) ==
  LET w   == write[p]
      i   == InodeOf[w.file]
      end == w.off + w.n1
  IN  /\ ~ outOfBlocks /\ w.n1 > 0 /\ w.tot = w.n1
      /\ IF end > fs.ip[i].size
         THEN /\ fs' = [fs EXCEPT !.ip[i].size = end]
              /\ dinode' = [dinode EXCEPT ![i] = Updated(i, end)]
         ELSE UNCHANGED <<fs, dinode>>
      /\ off' = [off EXCEPT ![w.file] = @ + w.n1]
      /\ text' = [text EXCEPT ![i] = Overlay(@, w.off, w.n1, ByteOf[p])]
      /\ locker' = [locker EXCEPT ![i] = NoWriter]
      /\ write' = [write EXCEPT ![p] = IF w.i + w.n1 = w.n THEN NoWrite
                                       ELSE [w EXCEPT !.i = w.i + w.n1, !.n1 = 0, !.tot = 0]]
      /\ UNCHANGED <<changes, outOfBlocks>>

\* read: fileread.
FileRead(f, n) ==
  LET i == InodeOf[f]
  IN  /\ ~ outOfBlocks /\ locker[i] = NoWriter /\ off[f] <= fs.ip[i].size
      /\ off' = [off EXCEPT ![f] = @ + Len(Readi(fs, i, @, n))]
      /\ UNCHANGED <<fs, dinode, write, locker, text, changes, outOfBlocks>>

\* The file is closed, unlinked, and made and opened anew: itrunc in iput.
Remove(i) ==
  /\ ~ outOfBlocks
  /\ changes < MaxChanges /\ changes' = changes + 1
  /\ \A p \in Writers : write[p] # NoWrite => InodeOf[write[p].file] # i
  /\ fs' = Itrunc(fs, i)
  /\ dinode' = [dinode EXCEPT ![i] = [addrs |-> NoAddrs, size |-> 0]]
  /\ off' = [f \in FileSet |-> IF InodeOf[f] = i THEN 0 ELSE off[f]]
  /\ text' = [text EXCEPT ![i] = << >>]
  /\ UNCHANGED <<write, locker, outOfBlocks>>

ContentNext ==
  \/ \E p \in Writers :
       \/ \E f \in FileSet, n \in Lengths : StartWrite(p, f, n)
       \/ BeginPiece(p) \/ WriteChunk(p) \/ EndPiece(p)
  \/ \E f \in FileSet, n \in Lengths : FileRead(f, n)
  \/ \E i \in InodeSet : Remove(i)

\* mkfs: iappend goes through the block numbers as bmap does; its freeblock is the
\* first block that is not in use, and its balloc marks those before it.
Appended(d, i, n, b) ==
  LET from[tot \in 0..n] ==
        IF tot = 0 THEN d ELSE Chunk(from[tot - 1], i, tot - 1, 1, 0, b)
  IN  [from[n] EXCEPT !.ip[i].size = n]

Mkfs(b) ==
  LET blank == [bitmap |-> 0..(NMeta - 1), data |-> [k \in Blocks |-> Zeroes],
                ip |-> [i \in InodeSet |-> [addrs |-> NoAddrs, size |-> 0]]]
      made[k \in 0..Len(MkfsFiles)] ==
        IF k = 0 THEN blank ELSE Appended(made[k - 1], k, MkfsFiles[k], b)
  IN  made[Len(MkfsFiles)]

ContentInit ==
  /\ fs = Mkfs(MkfsByte)
  /\ dinode = fs.ip
  /\ off = [f \in FileSet |-> 0]
  /\ write = [p \in Writers |-> NoWrite]
  /\ locker = [i \in InodeSet |-> NoWriter]
  /\ text = [i \in InodeSet |-> [k \in 1..MkfsFiles[i] |-> MkfsByte]]
  /\ changes = 0 /\ outOfBlocks = FALSE

ContentSpec == ContentInit /\ [][ContentNext]_contentVars

-----------------------------------------------------------------------------
Unlocked(i) == locker[i] = NoWriter
AllBlocks == UNION {BlocksOf(fs, i) : i \in InodeSet}

\* The bitmap has the blocks of the files and no others, and no block is in two
\* places, with writes to several files in progress (balloc, bfree, bmap, itrunc);
\* bfree never finds a block free.
BlocksOwned ==
  /\ fs.bitmap = 0..(NMeta - 1) \cup {u[1] : u \in AllBlocks}
  /\ \A u, w \in AllBlocks : u[1] = w[1] => u = w
  /\ \A u \in AllBlocks : u[1] >= NMeta

\* Between two calls the inode on disk is the one in memory: writei updates it
\* whenever bmap may have changed it (iupdate).  And a file has all the blocks below
\* its size, so that readi, which is called outside transactions, allocates none.
OnDisk ==
  \A i \in InodeSet : Unlocked(i) =>
    /\ dinode[i] = fs.ip[i]
    /\ \A o \in 0..(fs.ip[i].size - 1) : Needs(fs, i, o \div BSIZE) = 0

\* Blocks are owned as the bitmap, the inodes on disk and the sizes of the files say.
BlocksRight == BlocksOwned /\ OnDisk

\* A read of any part of a file returns the bytes written there last, whatever pieces
\* and blocks they came in (readi, writei, bmap).
ReadsBack ==
  \A i \in InodeSet : Unlocked(i) =>
    /\ fs.ip[i].size = Len(text[i])
    /\ \A o \in 0..Len(text[i]), n \in 0..(MAXFILE * BSIZE) :
         Readi(fs, i, o, n) = SubSeq(text[i], o + 1, min(o + n, Len(text[i])))

\* The log blocks come after the data blocks (fs.h): no file has one of them.
LogKept == \A u \in AllBlocks : u[1] \notin LogBlocks
=============================================================================
