-------------------------------- MODULE Mkfs --------------------------------
(***************************************************************************)
(* mkfs/mkfs.c: builds a file system image with a root directory and the   *)
(* files named on the command line. A sector has BSIZE cells; a directory  *)
(* entry, a block number and a byte of a file each fill one.               *)
(***************************************************************************)
EXTENDS Integers, Sequences, FiniteSets, Parts

CONSTANTS
  BSIZE,       \* cells of a sector; also the block numbers of an indirect one
  NDIRECT,
  MkMeta,      \* nmeta: boot, super, log, inode and bitmap blocks
  MkSizes,     \* sizes of files
  MkFiles      \* most files on the command line

ASSUME MkAssumption == BSIZE > 1 /\ NDIRECT > 0 /\ MkMeta > 0

VARIABLES
  img,         \* sectors written, dinodes, and the bitmap
  mk           \* main(): where it is, sizes of the files so far, freeblock,
               \* and the file being copied: bytes read so far

mkVars == <<img, mk>>

NINDIRECT == BSIZE
MAXFILE == NDIRECT + NINDIRECT
ROOTINO == 1
Zero == <<"zero", 0, 0>>
zeroes == [o \in 0 .. BSIZE - 1 |-> Zero]
rsect(d, b) == IF b \in DOMAIN d THEN d[b] ELSE zeroes
wsect(d, b, s) == [c \in DOMAIN d \cup {b} |-> IF c = b THEN s ELSE d[c]]
NewInode(type) == [type |-> type, size |-> 0, addrs |-> [k \in 0 .. NDIRECT |-> 0]]

MkInit ==
  /\ img = [data |-> [b \in {} |-> zeroes], inodes |-> <<>>, bitmap |-> {}]
  /\ mk = [pc |-> "root", sizes |-> <<>>, freeblock |-> MkMeta, read |-> 0]

ialloc(type) == Append(img.inodes, NewInode(type))

\* The state of iappend's loop: the dinode din, the sectors, freeblock. The block
\* for fbn, allocated if need be.
Direct(a, fbn) ==
  IF a.din.addrs[fbn] # 0 THEN a
  ELSE [a EXCEPT !.din.addrs[fbn] = a.free, !.free = @ + 1]

\* Variant: the indirect block is not written back.
IndirectSlot_lost(a, b, k) ==
  IF rsect(a.data, b)[k] # Zero THEN [a EXCEPT !.x = rsect(a.data, b)[k][2]]
  ELSE [a EXCEPT !.x = a.free, !.free = @ + 1]

\* Entry k of the indirect block b.
IndirectSlot(a, b, k) ==
  IF rsect(a.data, b)[k] # Zero THEN [a EXCEPT !.x = rsect(a.data, b)[k][2]]
  ELSE [a EXCEPT !.x = a.free, !.free = @ + 1,
                 !.data = wsect(@, b, [rsect(@, b) EXCEPT ![k] = <<"block", a.free, 0>>])]
Located(a, fbn) ==
  IF fbn < NDIRECT
    THEN [Direct(a, fbn) EXCEPT !.x = Direct(a, fbn).din.addrs[fbn]]
    ELSE IndirectSlot(Direct(a, NDIRECT), Direct(a, NDIRECT).din.addrs[NDIRECT], fbn - NDIRECT)

\* Variant: counts from the start of the block and not from off.
Chunk_block(n, off) == IF n < BSIZE THEN n ELSE BSIZE

\* n1 = min(n, (fbn + 1) * BSIZE - off).
Chunk(n, off) == IF n < BSIZE - (off % BSIZE) THEN n ELSE BSIZE - (off % BSIZE)

RECURSIVE AppendLoop(_, _, _), AppendPart(_, _, _, _)
AppendLoop(a, p, off) ==
  IF p = <<>> THEN [a EXCEPT !.din.size = off]
  ELSE AppendPart(Located(a, off \div BSIZE), p, off, Chunk(Len(p), off))
AppendPart(a, p, off, n1) ==
  AppendLoop([a EXCEPT !.data = wsect(@, a.x,
                [o \in 0 .. BSIZE - 1 |-> LET j == o - (off % BSIZE) + 1
                                          IN  IF j \in 1 .. n1 THEN p[j] ELSE rsect(@, a.x)[o]])],
             SubSeq(p, n1 + 1, Len(p)), off + n1)
iappend(inodes, data, free, inum, p) ==
  AppendLoop([din |-> inodes[inum], data |-> data, free |-> free, x |-> 0], p, inodes[inum].size)

\* What iappend(inum, p) leaves, with the inodes before it.
Appended(inodes, inum, p, pc, sizes, read) ==
  \E a \in {iappend(inodes, img.data, mk.freeblock, inum, p)} :
    /\ img' = [img EXCEPT !.data = a.data, !.inodes = [inodes EXCEPT ![inum] = a.din]]
    /\ mk' = [pc |-> pc, sizes |-> sizes, freeblock |-> a.free, read |-> read]
-----------------------------------------------------------------------------
(* main().                                                                 *)

\* The root directory with . and ..
MkRoot ==
  /\ mk.pc = "root"
  /\ Appended(ialloc("dir"), ROOTINO, <<<<"entry", ROOTINO, 0>>, <<"entry", ROOTINO, 0>>>>,
              "file", <<>>, 0)

\* The next argument: a dinode, and an entry in the root.
MkFile ==
  /\ mk.pc = "file" /\ Len(mk.sizes) < MkFiles
  /\ \E n \in MkSizes :
       Appended(ialloc("file"), ROOTINO, <<<<"entry", Len(img.inodes) + 1, 0>>>>,
                "copy", Append(mk.sizes, n), 0)

\* The k-th byte of the file with dinode i.
Byte(i, k) == <<"byte", i, k>>

\* One round of the copy loop: read() gives any part of a sector, 0 at the end.
MkCopy ==
  /\ mk.pc = "copy"
  /\ \E i \in {Len(img.inodes)}, n \in {mk.sizes[Len(mk.sizes)]} :
       \/ /\ mk.read = n
          /\ mk' = [mk EXCEPT !.pc = "file", !.read = 0] /\ UNCHANGED img
       \/ \E cc \in 1 .. (IF n - mk.read < BSIZE THEN n - mk.read ELSE BSIZE) :
            Appended(img.inodes, i, [j \in 1 .. cc |-> Byte(i, mk.read + j)],
                     "copy", mk.sizes, mk.read + cc)

\* The size of the root, and the bitmap.
RootSize(off) == (off \div BSIZE + 1) * BSIZE
balloc(used) == 0 .. used - 1
MkDone ==
  /\ mk.pc = "file"
  /\ img' = [img EXCEPT !.inodes[ROOTINO].size = RootSize(@), !.bitmap = balloc(mk.freeblock)]
  /\ mk' = [mk EXCEPT !.pc = "done"]

\* make runs mkfs again: the image is opened with O_TRUNC.
MkAgain ==
  /\ mk.pc = "done"
  /\ img' = [data |-> [b \in {} |-> zeroes], inodes |-> <<>>, bitmap |-> {}]
  /\ mk' = [pc |-> "root", sizes |-> <<>>, freeblock |-> MkMeta, read |-> 0]

MkNext == MkRoot \/ MkFile \/ MkCopy \/ MkDone \/ MkAgain
MkSpec == MkInit /\ [][MkNext]_mkVars
-----------------------------------------------------------------------------
(* Properties: the image as the kernel reads it.                           *)

\* All (inode, position) pairs that name a block, and the block there: positions
\* NDIRECT + 1 .. MAXFILE are those of the indirect block.
BlockAt(i, k) ==
  IF k <= NDIRECT THEN img.inodes[i].addrs[k]
  ELSE IF img.inodes[i].addrs[NDIRECT] = 0 THEN 0
  ELSE rsect(img.data, img.inodes[i].addrs[NDIRECT])[k - NDIRECT - 1][2]
Places == {w \in (1 .. Len(img.inodes)) \X (0 .. MAXFILE) : BlockAt(w[1], w[2]) # 0}

\* Every block belongs to one inode at one place, the blocks taken are the first
\* ones after the metadata, and the bitmap of the image says so.
ImageSound ==
  In("mkfs") =>
    /\ \A v, w \in Places : BlockAt(v[1], v[2]) = BlockAt(w[1], w[2]) => v = w
    /\ {BlockAt(w[1], w[2]) : w \in Places} = MkMeta .. mk.freeblock - 1
    /\ mk.pc = "done" => img.bitmap = 0 .. mk.freeblock - 1

\* The cell at offset off of inode i, as readi finds it; a hole reads as zeroes.
Cell(i, off) ==
  LET fbn == off \div BSIZE
      b == BlockAt(i, IF fbn < NDIRECT THEN fbn ELSE fbn + 1)
  IN  IF b = 0 THEN Zero ELSE rsect(img.data, b)[off % BSIZE]

\* The finished image gives every file back, byte by byte, and its root lists
\* all of them and nothing else, whatever pieces read() delivered.
FilesExact ==
  In("mkfs") /\ mk.pc = "done" =>
      /\ \A i \in 2 .. Len(img.inodes) :
           /\ img.inodes[i].size = mk.sizes[i - 1]
           /\ \A off \in 0 .. img.inodes[i].size - 1 : Cell(i, off) = Byte(i, off + 1)
      /\ img.inodes[ROOTINO].size % BSIZE = 0
      /\ \A off \in 0 .. img.inodes[ROOTINO].size - 1 :
           Cell(ROOTINO, off) = IF off <= Len(mk.sizes) + 1
                                  THEN <<"entry", IF off < 2 THEN ROOTINO ELSE off, 0>> ELSE Zero

\* The kernel finds the files in the image that mkfs was given.
ImageExact == ImageSound /\ FilesExact
=============================================================================
