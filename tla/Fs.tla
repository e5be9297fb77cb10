--------------------------------- MODULE Fs ---------------------------------
(***************************************************************************)
(* The file system: block allocation, inodes, directories and path names  *)
(* of fs.c and the system calls of sysfile.c that use them.               *)
(*                                                                         *)
(* fs is the file system as the buffer cache holds it and dur what a       *)
(* recovery would restore (LogAbs): the last end_op of a group commits.    *)
(* A section under one inode's sleep lock is a step; a lock that is kept   *)
(* while another is awaited stays in the table across steps.               *)
(*                                                                         *)
(* Offsets and sizes count cells: a cell holds a directory entry or a      *)
(* block number, a block has BSIZE cells, a write of a file is one block.  *)
(***************************************************************************)
EXTENDS Integers, Sequences, FiniteSets, FiniteSetsExt

CONSTANTS
  Procs,      \* processes
  NoProc,     \* an inode lock is free
  Ninodes,    \* inodes on disk: 1 .. Ninodes, 1 is the root
  NINODE,     \* entries of itable
  Nblocks,    \* data blocks: 1 .. Nblocks
  NDIRECT, NINDIRECT, BSIZE,
  Paths,      \* records [abs, elems]
  Ops,        \* the system calls of the instance
  Disks,      \* file systems to start with, as mkfs or earlier calls left them
  MaxOps      \* bound on the number of system calls and crashes

VARIABLES
  fs,         \* inodes, bitmap and data blocks, as cached
  dur,        \* the same, as a recovery restores it
  itab,       \* itable.inode[], with the copy of the inode on disk
  th,         \* per process: the point it has reached and its locals
  cwd,        \* p->cwd
  file,       \* the open file of a process: its inode and offset
  nops,       \* calls and crashes so far
  stray       \* inodes that got a name in a directory without one (a history)

vars == <<fs, dur, itab, th, cwd, file, nops, stray>>

Inums == 1 .. Ninodes
Slots == 1 .. NINODE
Blks == 1 .. Nblocks
Cell(n, v) == [n |-> n, v |-> v]
ZeroBlock == [c \in 0 .. BSIZE - 1 |-> Cell("", 0)]
NoAddrs == [b \in 0 .. NDIRECT |-> 0]
Dinode(t, l, s, a) == [type |-> t, nlink |-> l, size |-> s, addrs |-> a]
FreeInode == Dinode("none", 0, 0, NoAddrs)
FreeSlot == [inum |-> 0, ref |-> 0, valid |-> FALSE, lock |-> NoProc,
             copy |-> FreeInode]
Idle == [pc |-> "user", op |-> "", arg |-> "", todo |-> <<>>, name |-> "",
         cur |-> 0, ip |-> 0, put |-> <<>>, ret |-> "", new |-> [abs |-> TRUE, elems |-> <<>>]]

NoFile == [ip |-> 0, off |-> 0, w |-> FALSE]

\* What mkfs leaves: a root directory with "." and "..".
Mkfs ==
  [ino  |-> [i \in Inums |-> IF i = 1 THEN Dinode("dir", 1, 2, [NoAddrs EXCEPT ![0] = 1])
                                      ELSE FreeInode],
   used |-> {1},
   data |-> [b \in Blks |-> IF b = 1 THEN [ZeroBlock EXCEPT ![0] = Cell(".", 1),
                                                            ![1] = Cell("..", 1)]
                                     ELSE ZeroBlock]]

\* After a boot every process has the root as its current directory.
BootTable == [k \in Slots |-> IF k = 1
                THEN [FreeSlot EXCEPT !.inum = 1, !.ref = Cardinality(Procs)]
                ELSE FreeSlot]

Init ==
  /\ fs \in Disks /\ dur = fs
  /\ itab = BootTable
  /\ th = [p \in Procs |-> Idle]
  /\ cwd = [p \in Procs |-> 1]
  /\ file = [p \in Procs |-> NoFile]
  /\ nops = 0 /\ stray = {}

-----------------------------------------------------------------------------
(* Blocks: operators on s, a file system state like fs.                    *)

\* The first free block, zeroed; b = 0 if there is none.
balloc(s) ==
  LET free == Blks \ s.used
  IN  IF free = {} THEN [fs |-> s, b |-> 0]
      ELSE [fs |-> [s EXCEPT !.used = @ \cup {Min(free)},
                             !.data[Min(free)] = ZeroBlock],
            b |-> Min(free)]

\* The block of the bn-th block of ip, allocated if need be: the new state,
\* the new in-memory inode and the address, 0 when the disk is full. first is
\* the direct block or the indirect block, a a new block behind the latter.
BmapEntry(ip, first, c, a) ==
  [fs |-> IF a.b = 0 THEN a.fs ELSE [a.fs EXCEPT !.data[first][c] = Cell("", a.b)],
   ip |-> ip, addr |-> a.b]
BmapFrom(ip, bn, first) ==
  IF bn < NDIRECT \/ first.b = 0 THEN [fs |-> first.fs, ip |-> ip, addr |-> first.b]
  ELSE IF first.fs.data[first.b][bn - NDIRECT].v # 0
    THEN [fs |-> first.fs, ip |-> ip, addr |-> first.fs.data[first.b][bn - NDIRECT].v]
  ELSE BmapEntry(ip, first.b, bn - NDIRECT, balloc(first.fs))
BmapAt(ip, bn, slot, first) == BmapFrom([ip EXCEPT !.addrs[slot] = first.b], bn, first)
bmap(s, ip, bn) ==
  LET slot == IF bn < NDIRECT THEN bn ELSE NDIRECT
  IN  BmapAt(ip, bn, slot, IF ip.addrs[slot] # 0 THEN [fs |-> s, b |-> ip.addrs[slot]] ELSE balloc(s))

\* The blocks of ip.
Direct(ip) == {ip.addrs[b] : b \in 0 .. NDIRECT} \ {0}
Indirect(s, ip) ==
  IF ip.addrs[NDIRECT] = 0 THEN {}
  ELSE {s.data[ip.addrs[NDIRECT]][c].v : c \in 0 .. NINDIRECT - 1} \ {0}
BlocksOf(s, ip) == Direct(ip) \cup Indirect(s, ip)

\* Variant: forgets the blocks behind the indirect block.
itrunc_direct(s, ip) ==
  [fs |-> [s EXCEPT !.used = @ \ Direct(ip)],
   ip |-> [ip EXCEPT !.addrs = NoAddrs, !.size = 0]]

\* Frees every block of ip (bfree) and empties it; iupdate is the caller's.
itrunc(s, ip) ==
  [fs |-> [s EXCEPT !.used = @ \ BlocksOf(s, ip)],
   ip |-> [ip EXCEPT !.addrs = NoAddrs, !.size = 0]]

iupdate(s, i, ip) == [s EXCEPT !.ino[i] = ip]

-----------------------------------------------------------------------------
(* Inode content.                                                          *)

\* bmap of a block that exists; 0 where readi would make it allocate one.
AddrOf(s, ip, bn) ==
  IF bn < NDIRECT THEN ip.addrs[bn]
  ELSE IF ip.addrs[NDIRECT] = 0 THEN 0 ELSE s.data[ip.addrs[NDIRECT]][bn - NDIRECT].v

\* readi of one cell. A block bmap has just allocated is full of zeros.
readi(s, ip, off) == LET b == AddrOf(s, ip, off \div BSIZE)
                     IN  IF b = 0 THEN Cell("", 0) ELSE s.data[b][off % BSIZE]

\* writei of n cells c within one block, with the update of size and inode;
\* m is what bmap returned. ok is FALSE where writei returns less than n.
WriteAt(i, off, n, c, m) ==
  LET at == off % BSIZE
      w == [m.fs EXCEPT !.data[m.addr] = [k \in DOMAIN @ |-> IF k \in at .. (at + n - 1) THEN c ELSE @[k]]]
      new == [m.ip EXCEPT !.size = IF off + n > @ THEN off + n ELSE @]
  IN  IF m.addr = 0 THEN [fs |-> iupdate(m.fs, i, m.ip), ip |-> m.ip, ok |-> FALSE]
      ELSE [fs |-> iupdate(w, i, new), ip |-> new, ok |-> TRUE]
writei(s, i, ip, off, n, c) ==
  IF off > ip.size \/ off + n > (NDIRECT + NINDIRECT) * BSIZE
    THEN [fs |-> s, ip |-> ip, ok |-> FALSE]
    ELSE WriteAt(i, off, n, c, bmap(s, ip, off \div BSIZE))

-----------------------------------------------------------------------------
(* Directories.                                                            *)

\* The offset of the entry called name, -1 if there is none.
dirlookup(s, dp, name) ==
  LET hits == {o \in 0 .. dp.size - 1 : LET de == readi(s, dp, o)
                                         IN  de.v # 0 /\ de.n = name}
  IN  IF hits = {} THEN -1 ELSE Min(hits)

\* A new entry, in the first empty cell or at the end.
dirlink(s, i, dp, name, inum) ==
  IF dirlookup(s, dp, name) # -1 THEN [fs |-> s, ip |-> dp, ok |-> FALSE]
  ELSE LET empty == {o \in 0 .. dp.size - 1 : readi(s, dp, o).v = 0}
           off == Min(empty \cup {dp.size})
       IN  writei(s, i, dp, off, 1, Cell(name, inum))

isdirempty(s, dp) == \A o \in 2 .. dp.size - 1 : readi(s, dp, o).v = 0

-----------------------------------------------------------------------------
(* The inode table: operators on t, a table like itab.                     *)

\* Variant: does not look for an entry that has the inode already.
iget_dup(t, inum) ==
  LET empty == {k \in Slots : t[k].ref = 0}
      k == IF empty = {} THEN 0 ELSE Min(empty)
  IN  [k |-> k, tab |-> IF k = 0 THEN t
                        ELSE [t EXCEPT ![k].inum = inum, ![k].ref = 1, ![k].valid = FALSE]]

\* Variant: an entry that is found is returned without a new reference.
iget_noref(t, inum) ==
  LET hits == {k \in Slots : t[k].ref > 0 /\ t[k].inum = inum}
      k == Min(hits \cup {j \in Slots : t[j].ref = 0})
  IN  [k |-> k, tab |-> IF hits # {} THEN t
                        ELSE [t EXCEPT ![k].inum = inum, ![k].ref = 1, ![k].valid = FALSE]]

\* The entry of inode inum with one more reference; k = 0 is the panic.
iget(t, inum) ==
  LET hits == {k \in Slots : t[k].ref > 0 /\ t[k].inum = inum}
      empty == {k \in Slots : t[k].ref = 0}
      k == IF hits # {} THEN Min(hits) ELSE IF empty # {} THEN Min(empty) ELSE 0
  IN  [k |-> k,
       tab |-> IF k = 0 THEN t
               ELSE IF hits # {} THEN [t EXCEPT ![k].ref = @ + 1]
               ELSE [t EXCEPT ![k].inum = inum, ![k].ref = 1, ![k].valid = FALSE]]

\* The table after ilock ... iunlock with the in-memory inode left as c, and
\* after an ilock that is kept.
Store(t, k, c) == [t EXCEPT ![k].valid = TRUE, ![k].copy = c]
Keep(t, k, c, p) == [t EXCEPT ![k].valid = TRUE, ![k].copy = c, ![k].lock = p]
Unlock(t, k) == [t EXCEPT ![k].lock = NoProc]

-----------------------------------------------------------------------------
(* Control. Every call runs between begin_op and end_op ("end").           *)
(* cur is the inode namex has reached, then the one it returned (dp or ip); *)
(* ip is the second inode of a call; put lists the entries iput is called  *)
(* with next, and ret is the point after it.                               *)

At(p, l) == th[p].pc = l
Set(p, r) == th' = [th EXCEPT ![p] = r]
PutThen(r, ks, l) == [r EXCEPT !.pc = "iput", !.put = ks, !.ret = l]
Env == <<dur, nops, stray>>

\* The entry p is about to lock, 0 if none.
LockOf(p) ==
  CASE th[p].pc = "namex" /\ th[p].todo # <<>> -> th[p].cur
    [] th[p].pc \in {"open", "chdir", "link", "linkdir", "creat", "mkdir", "mknod",
                     "unlink"} -> th[p].cur
    [] th[p].pc \in {"exists", "unlink2", "linkbad"} -> th[p].ip
    [] OTHER -> 0

\* The inode as ilock of p finds or loads it, and: the lock is free, and
\* ilock does not panic. A panic stops the machine, so no step follows it.
Mine(p) == LET e == itab[LockOf(p)] IN IF e.valid THEN e.copy ELSE fs.ino[e.inum]
Locked(p) == LockOf(p) # 0 /\ itab[LockOf(p)].lock = NoProc /\ Mine(p).type # "none"

-----------------------------------------------------------------------------
(* iput: the last reference of an inode without links frees it.            *)

\* Variant: the links are not asked for.
LastRef_linked(e) == e.ref = 1 /\ e.valid

LastRef(e) == e.ref = 1 /\ e.valid /\ e.copy.nlink = 0
Drop(p) == IF Len(th[p].put) > 1 THEN [th[p] EXCEPT !.put = Tail(@), !.pc = "iput"]
           ELSE [th[p] EXCEPT !.put = <<>>, !.pc = th[p].ret, !.ret = ""]

iput(p) ==
  LET k == Head(th[p].put)
      e == itab[k]
      tr == itrunc(fs, e.copy)
      dead == [tr.ip EXCEPT !.type = "none"]
  IN  /\ At(p, "iput")
      /\ \/ /\ ~LastRef(e)
            /\ itab' = [itab EXCEPT ![k].ref = @ - 1]
            /\ Set(p, Drop(p))
            /\ UNCHANGED <<fs, cwd, file, Env>>
         \/ /\ LastRef(e) /\ e.lock = NoProc
            /\ BlocksOf(fs, e.copy) \subseteq fs.used
            /\ fs' = iupdate(tr.fs, e.inum, dead)
            /\ itab' = [itab EXCEPT ![k].copy = dead, ![k].valid = FALSE]
            /\ Set(p, [th[p] EXCEPT !.pc = "iput2"])
            /\ UNCHANGED <<cwd, file, Env>>

\* Back under itable.lock once the inode has been freed.
iput2(p) ==
  /\ At(p, "iput2")
  /\ itab' = [itab EXCEPT ![Head(th[p].put)].ref = @ - 1]
  /\ Set(p, Drop(p))
  /\ UNCHANGED <<fs, cwd, file, Env>>

-----------------------------------------------------------------------------
(* System calls that take a path: begin_op, then the start of namex, which *)
(* references the root or the current directory.                           *)

Second(r) == r.op = "link" /\ r.ip # 0
WantParent(r) == r.op \in {"creat", "mkdir", "mknod", "unlink"} \/ Second(r)

\* Variant: a relative path starts without idup.
NamexFrom_noidup(p, t, r, path) ==
  LET g == iget(t, 1)
  IN  /\ itab' = IF path.abs THEN g.tab ELSE t
      /\ Set(p, [r EXCEPT !.pc = "namex", !.todo = path.elems,
                          !.cur = IF path.abs THEN g.k ELSE cwd[p]])

NamexFrom(p, t, r, path) ==
  LET g == iget(t, 1)
  IN  /\ itab' = IF path.abs THEN g.tab ELSE [t EXCEPT ![cwd[p]].ref = @ + 1]
      /\ Set(p, [r EXCEPT !.pc = "namex", !.todo = path.elems,
                          !.cur = IF path.abs THEN g.k ELSE cwd[p]])

Call(p, op, path) ==
  /\ At(p, "user") /\ nops < MaxOps
  /\ \E new \in IF op = "link" THEN Paths ELSE {Idle.new},
        mode \in IF op = "open" THEN {"rdonly", "trunc"} ELSE {""} :
       NamexFrom(p, itab, [Idle EXCEPT !.op = op, !.new = new, !.arg = mode], path)
  /\ nops' = nops + 1
  /\ UNCHANGED <<fs, dur, cwd, file, stray>>

\* Where a call goes on, with the inode namex found in cur, or without one.
Found(r) == IF Second(r) THEN "linkdir" ELSE r.op
NotFound(r, k) == PutThen([Idle EXCEPT !.ip = r.ip], <<k>>,
                          IF Second(r) THEN "linkbad" ELSE "end")

\* A path without elements: namei returns the inode, nameiparent drops it.
NamexEnd(p) ==
  LET r == th[p]
  IN  /\ At(p, "namex") /\ r.todo = <<>>
      /\ Set(p, IF WantParent(r) THEN NotFound(r, r.cur)
                                 ELSE [r EXCEPT !.pc = Found(r)])
      /\ UNCHANGED <<fs, itab, cwd, file, Env>>

\* One element: ilock, the checks, dirlookup and iunlock; iput comes next.
NamexStep(p) ==
  LET k == th[p].cur
      r == [th[p] EXCEPT !.todo = Tail(@), !.name = Head(th[p].todo), !.cur = 0]
      last == WantParent(th[p]) /\ Len(th[p].todo) = 1
      t == Store(itab, k, Mine(p))
  IN  /\ At(p, "namex") /\ th[p].todo # <<>> /\ Locked(p)
      /\ \E off \in {dirlookup(fs, Mine(p), Head(th[p].todo))} :
         \/ /\ Mine(p).type # "dir" \/ (~last /\ off = -1)
            /\ itab' = t
            /\ Set(p, NotFound(r, k))
         \/ /\ Mine(p).type = "dir" /\ last
            /\ itab' = t
            /\ Set(p, [r EXCEPT !.cur = k, !.pc = Found(r)])
         \/ /\ Mine(p).type = "dir" /\ ~last /\ off # -1
            /\ \E g \in {iget(t, readi(fs, Mine(p), off).v)} :
                 /\ itab' = g.tab
                 /\ Set(p, PutThen([r EXCEPT !.cur = g.k, !.name = ""], <<k>>,
                                   IF r.todo = <<>> THEN Found(r) ELSE "namex"))
      /\ UNCHANGED <<fs, cwd, file, Env>>

\* iunlockput of cur without having changed it, and the call fails.
FailPut(p, k, c) ==
  /\ itab' = Unlock(Store(itab, k, c), k)
  /\ Set(p, PutThen(Idle, <<k>>, "end"))
  /\ UNCHANGED <<fs, cwd, file, Env>>

-----------------------------------------------------------------------------
(* open. k is the inode, locked, with the content c.                       *)

OpenFile(p, k, c) ==
  LET tr == IF th[p].arg = "trunc" /\ c.type = "file" THEN itrunc(fs, c)
                                                      ELSE [fs |-> fs, ip |-> c]
      denied == c.type = "dir" /\ th[p].arg = "trunc"
  IN  \/ /\ denied \/ file[p].ip # 0     \* no descriptor left
            \/ c.type = "dev"            \* no such major
         /\ FailPut(p, k, c)
      \/ /\ ~denied /\ file[p].ip = 0
         /\ fs' = iupdate(tr.fs, itab[k].inum, tr.ip)
         /\ itab' = Unlock(Store(itab, k, tr.ip), k)
         /\ file' = [file EXCEPT ![p] = [ip |-> k, off |-> 0, w |-> th[p].arg # "rdonly"]]
         /\ Set(p, [Idle EXCEPT !.pc = "end"])
         /\ UNCHANGED <<cwd, Env>>

sys_open(p) == At(p, "open") /\ Locked(p) /\ OpenFile(p, th[p].cur, Mine(p))

-----------------------------------------------------------------------------
(* create: for open with O_CREATE ("creat"), mkdir and mknod.              *)

TypeFor(op) == CASE op = "mkdir" -> "dir" [] op = "mknod" -> "dev" [] OTHER -> "file"

\* The name exists: give dp back, then look at the inode.
CreateExisting(p) ==
  LET k == th[p].cur
      off == dirlookup(fs, Mine(p), th[p].name)
  IN  /\ th[p].pc \in {"creat", "mkdir", "mknod"} /\ Locked(p)
      /\ off # -1
      /\ \E g \in {iget(Store(itab, k, Mine(p)), readi(fs, Mine(p), off).v)} :
           /\ itab' = g.tab
           /\ Set(p, PutThen([Idle EXCEPT !.op = th[p].op, !.ip = g.k], <<k>>, "exists"))
      /\ UNCHANGED <<fs, cwd, file, Env>>

CreateExists(p) ==
  /\ At(p, "exists") /\ Locked(p)
  /\ IF th[p].op = "creat" /\ Mine(p).type \in {"file", "dev"}
       THEN OpenFile(p, th[p].ip, Mine(p))
       ELSE FailPut(p, th[p].ip, Mine(p))

\* create after ialloc: the file system and both inodes after iupdate and the
\* calls of dirlink, ok if none of these failed. dots is the result for "." and
\* "..", link the one for the new name.
DotDot(i, dino, dot) == IF dot.ok THEN dirlink(dot.fs, i, dot.ip, "..", dino) ELSE dot
CreatedEnd(dino, type, i, dots, link) ==
  LET dp == IF link.ok /\ type = "dir" THEN [link.ip EXCEPT !.nlink = @ + 1] ELSE link.ip
      ip == IF link.ok THEN dots.ip ELSE [dots.ip EXCEPT !.nlink = 0]
  IN  [fs |-> iupdate(iupdate(link.fs, dino, dp), i, ip), ip |-> ip, dp |-> dp, ok |-> link.ok]
CreatedLink(dino, dp, name, type, i, dots) ==
  CreatedEnd(dino, type, i, dots, IF dots.ok THEN dirlink(dots.fs, dino, dp, name, i)
                                             ELSE [dots EXCEPT !.ip = dp])
Created(s, dino, dp, name, type, i) ==
  LET ip == Dinode(type, 1, 0, NoAddrs)
      new == iupdate(s, i, ip)
  IN  CreatedLink(dino, dp, name, type, i,
                  IF type = "dir" THEN DotDot(i, dino, dirlink(new, i, ip, ".", i))
                                  ELSE [fs |-> new, ip |-> ip, ok |-> TRUE])

\* i is the inode ialloc found, r what becomes of it, g its table entry.
CreateAs(p, k, i, r, g) ==
  /\ g.tab[g.k].lock = NoProc
  /\ fs' = r.fs
  /\ \/ /\ r.ok     \* dp is given back while ip stays locked
        /\ itab' = Keep(g.tab, g.k, r.ip, p)
        /\ Set(p, PutThen([Idle EXCEPT !.op = th[p].op, !.ip = g.k], <<k>>, "created"))
     \/ /\ ~r.ok    \* ip is given back while dp stays locked
        /\ itab' = Keep(Store(g.tab, g.k, r.ip), k, r.dp, p)
        /\ Set(p, PutThen([Idle EXCEPT !.cur = k], <<g.k>>, "dropdp"))
  /\ stray' = stray \cup (IF Mine(p).nlink = 0 THEN {i, itab[k].inum} ELSE {})
  /\ UNCHANGED <<cwd, file, dur, nops>>

CreateNew(p) ==
  LET k == th[p].cur
      free == {i \in Inums : fs.ino[i].type = "none"}
      i == Min(free)
  IN  /\ th[p].pc \in {"creat", "mkdir", "mknod"} /\ Locked(p)
      /\ dirlookup(fs, Mine(p), th[p].name) = -1
      /\ \/ free = {} /\ FailPut(p, k, Mine(p))
         \/ /\ free # {}
            /\ \E r \in {Created(fs, itab[k].inum, Mine(p), th[p].name, TypeFor(th[p].op), i)} :
                 CreateAs(p, k, i, r, iget(Store(itab, k, r.dp), i))

\* open goes on with the new file; mkdir and mknod drop it.
CreateDone(p) ==
  /\ At(p, "created")
  /\ IF th[p].op = "creat" THEN OpenFile(p, th[p].ip, itab[th[p].ip].copy)
                           ELSE FailPut(p, th[p].ip, itab[th[p].ip].copy)

\* iunlockput(dp) at the end of a failed create or unlink.
DropParent(p) == At(p, "dropdp") /\ FailPut(p, th[p].cur, itab[th[p].cur].copy)

-----------------------------------------------------------------------------
(* unlink: dp stays locked while the inode's lock is awaited.              *)

UnlinkEntry(p) ==
  LET k == th[p].cur
      off == dirlookup(fs, Mine(p), th[p].name)
      g == iget(Keep(itab, k, Mine(p), p), readi(fs, Mine(p), off).v)
  IN  /\ At(p, "unlink") /\ Locked(p)
      /\ IF th[p].name \in {".", ".."} \/ off = -1 THEN FailPut(p, k, Mine(p))
         ELSE /\ itab' = g.tab
              /\ Set(p, [th[p] EXCEPT !.pc = "unlink2", !.ip = g.k])
              /\ UNCHANGED <<fs, cwd, file, Env>>

UnlinkInode(p) ==
  LET dk == th[p].cur
      k == th[p].ip
      dino == itab[dk].inum
      off == dirlookup(fs, itab[dk].copy, th[p].name)
      w == writei(fs, dino, itab[dk].copy, off, 1, Cell("", 0))
      dp == IF Mine(p).type = "dir" THEN [w.ip EXCEPT !.nlink = @ - 1] ELSE w.ip
  IN  /\ At(p, "unlink2") /\ Locked(p) /\ Mine(p).nlink >= 1
      /\ \/ /\ Mine(p).type = "dir" /\ ~isdirempty(fs, Mine(p))
            /\ itab' = Store(itab, k, Mine(p))
            /\ Set(p, PutThen([Idle EXCEPT !.cur = dk], <<k>>, "dropdp"))
            /\ UNCHANGED fs
         \/ /\ Mine(p).type # "dir" \/ isdirempty(fs, Mine(p))
            /\ fs' = iupdate(w.fs, dino, dp)
            /\ itab' = Unlock(Store(Keep(itab, k, Mine(p), p), dk, dp), dk)
            /\ Set(p, PutThen([Idle EXCEPT !.ip = k], <<dk>>, "unlink3"))
      /\ UNCHANGED <<cwd, file, Env>>

\* Variant: the new nlink is not saved.
DecLink_nosave(p, k, c) ==
  /\ itab' = Unlock(Store(itab, k, [c EXCEPT !.nlink = @ - 1]), k)
  /\ Set(p, PutThen(Idle, <<k>>, "end"))
  /\ UNCHANGED <<fs, cwd, file, Env>>

\* Variant: iput without iunlock before it.
DecLink_locked(p, k, c) ==
  LET new == [c EXCEPT !.nlink = @ - 1]
  IN  /\ fs' = iupdate(fs, itab[k].inum, new)
      /\ itab' = Store(itab, k, new)
      /\ Set(p, PutThen(Idle, <<k>>, "end"))
      /\ UNCHANGED <<cwd, file, Env>>

\* nlink goes down and is saved; ip is unlocked and, by p, no longer used.
DecLink(p, k, c) ==
  LET new == [c EXCEPT !.nlink = @ - 1]
  IN  /\ fs' = iupdate(fs, itab[k].inum, new)
      /\ itab' = Unlock(Store(itab, k, new), k)
      /\ Set(p, PutThen(Idle, <<k>>, "end"))
      /\ UNCHANGED <<cwd, file, Env>>

UnlinkDone(p) == At(p, "unlink3") /\ DecLink(p, th[p].ip, itab[th[p].ip].copy)

-----------------------------------------------------------------------------
(* link: nlink first, then the entry, and nlink back if that fails.        *)

LinkInode(p) ==
  LET k == th[p].cur
      new == [Mine(p) EXCEPT !.nlink = @ + 1]
  IN  /\ At(p, "link") /\ Locked(p)
      /\ IF Mine(p).type = "dir" THEN FailPut(p, k, Mine(p))
         ELSE /\ fs' = iupdate(fs, itab[k].inum, new)
              /\ NamexFrom(p, Store(itab, k, new), [Idle EXCEPT !.op = "link", !.ip = k], th[p].new)
              /\ UNCHANGED <<cwd, file, Env>>

LinkEntry(p) ==
  LET k == th[p].cur
      w == dirlink(fs, itab[k].inum, Mine(p), th[p].name, itab[th[p].ip].inum)
  IN  /\ At(p, "linkdir") /\ Locked(p)
      /\ fs' = w.fs
      /\ itab' = Store(itab, k, w.ip)
      /\ Set(p, IF w.ok THEN PutThen(Idle, <<k, th[p].ip>>, "end")
                        ELSE PutThen([Idle EXCEPT !.ip = th[p].ip], <<k>>, "linkbad"))
      /\ stray' = stray \cup (IF Mine(p).nlink = 0 THEN {itab[th[p].ip].inum} ELSE {})
      /\ UNCHANGED <<cwd, file, dur, nops>>

LinkUndo(p) == At(p, "linkbad") /\ Locked(p) /\ DecLink(p, th[p].ip, Mine(p))

-----------------------------------------------------------------------------
(* chdir, and the calls on an open file.                                   *)

ChdirCheck(p) ==
  LET k == th[p].cur
  IN  /\ At(p, "chdir") /\ Locked(p)
      /\ IF Mine(p).type # "dir" THEN FailPut(p, k, Mine(p))
         ELSE /\ itab' = Store(itab, k, Mine(p))
              /\ Set(p, PutThen([Idle EXCEPT !.cur = k], <<cwd[p]>>, "chdirend"))
              /\ UNCHANGED <<fs, cwd, file, Env>>

ChdirDone(p) ==
  /\ At(p, "chdirend")
  /\ cwd' = [cwd EXCEPT ![p] = th[p].cur]
  /\ Set(p, [th[p] EXCEPT !.pc = "end", !.cur = 0])
  /\ UNCHANGED <<fs, itab, file, Env>>

\* The last close of a file: iput in an operation of its own.
fileclose(p) ==
  /\ At(p, "user") /\ nops < MaxOps /\ file[p].ip # 0
  /\ file' = [file EXCEPT ![p] = NoFile]
  /\ Set(p, PutThen(Idle, <<file[p].ip>>, "end"))
  /\ nops' = nops + 1
  /\ UNCHANGED <<fs, dur, itab, cwd, stray>>

\* One block at the offset of the file; its cells are data, not zeros.
filewrite(p) ==
  LET k == file[p].ip
      c == IF itab[k].valid THEN itab[k].copy ELSE fs.ino[itab[k].inum]
      w == writei(fs, itab[k].inum, c, file[p].off, BSIZE, Cell("data", 1))
  IN  /\ At(p, "user") /\ nops < MaxOps /\ "write" \in Ops
      /\ k # 0 /\ file[p].w /\ c.type = "file" /\ itab[k].lock = NoProc
      /\ fs' = w.fs
      /\ itab' = Store(itab, k, w.ip)
      /\ file' = [file EXCEPT ![p].off = IF w.ok THEN @ + BSIZE ELSE @]
      /\ Set(p, [Idle EXCEPT !.pc = "end"])
      /\ nops' = nops + 1
      /\ UNCHANGED <<dur, cwd, stray>>

-----------------------------------------------------------------------------
\* Variant: commits although other operations have not ended.
end_op_early(p) ==
  /\ At(p, "end")
  /\ Set(p, Idle)
  /\ dur' = fs
  /\ UNCHANGED <<fs, itab, cwd, file, nops, stray>>

\* The last operation of a group commits what the group wrote (LogAbs).
end_op(p) ==
  /\ At(p, "end")
  /\ Set(p, Idle)
  /\ dur' = IF \A q \in Procs \ {p} : th[q].pc = "user" THEN fs ELSE dur
  /\ UNCHANGED <<fs, itab, cwd, file, nops, stray>>

\* Power fails; the machine boots and recovers from the log.
Crash ==
  /\ nops < MaxOps
  /\ nops' = nops + 1
  /\ fs' = dur
  /\ itab' = BootTable
  /\ th' = [p \in Procs |-> Idle]
  /\ cwd' = [p \in Procs |-> 1]
  /\ file' = [p \in Procs |-> NoFile]
  /\ UNCHANGED <<dur, stray>>

Step(p) ==
  \/ iput(p) \/ iput2(p)
  \/ NamexStep(p) \/ NamexEnd(p) \/ sys_open(p)
  \/ CreateExisting(p) \/ CreateExists(p) \/ CreateNew(p) \/ CreateDone(p) \/ DropParent(p)
  \/ UnlinkEntry(p) \/ UnlinkInode(p) \/ UnlinkDone(p)
  \/ LinkInode(p) \/ LinkEntry(p) \/ LinkUndo(p)
  \/ ChdirCheck(p) \/ ChdirDone(p) \/ end_op(p)

\* The bound on the calls is reached and all have returned.
Done == nops = MaxOps /\ (\A p \in Procs : th[p].pc = "user") /\ UNCHANGED vars

Next ==
  \/ \E p \in Procs :
       \/ Step(p) \/ fileclose(p) \/ filewrite(p)
       \/ \E op \in Ops \ {"write"}, path \in Paths : Call(p, op, path)
  \/ Crash \/ Done

Spec == Init /\ [][Next]_vars
-----------------------------------------------------------------------------
(* Properties.                                                             *)

Dinodes == [type : {"none", "file", "dir", "dev"}, nlink : Nat, size : Nat,
            addrs : [0 .. NDIRECT -> 0 .. Nblocks]]

\* The variables keep the types of the structures they stand for.
FsTypeOK ==
  /\ \A s \in {fs, dur} : /\ \A i \in Inums : s.ino[i] \in Dinodes
                          /\ s.used \subseteq Blks
  /\ \A k \in Slots : /\ itab[k].ref \in Nat /\ itab[k].inum \in 0 .. Ninodes
                      /\ itab[k].lock \in Procs \cup {NoProc}
                      /\ itab[k].copy \in Dinodes
  /\ cwd \in [Procs -> Slots]
  /\ \A p \in Procs : file[p].ip \in 0 .. NINODE /\ th[p].cur \in 0 .. NINODE

\* ip->ref counts exactly the pointers to the entry: current directories,
\* open files and the local variables of running calls (iget, idup, iput). A
\* call of chdir has given up p->cwd before it assigns the new one.
RefExact ==
  \A k \in Slots :
    itab[k].ref =
        Cardinality({p \in Procs : cwd[p] = k /\ th[p].pc # "chdirend" /\ th[p].ret # "chdirend"})
      + Cardinality({p \in Procs : file[p].ip = k})
      + Cardinality({p \in Procs : th[p].cur = k}) + Cardinality({p \in Procs : th[p].ip = k})
      + Cardinality({<<p, j>> \in Procs \X {1, 2} : j <= Len(th[p].put) /\ th[p].put[j] = k})

\* iget: an inode has at most one entry in use, so that its sleep lock
\* excludes every other user of the inode.
OneEntry ==
  \A j, k \in Slots : itab[j].ref > 0 /\ itab[k].ref > 0 /\ itab[j].inum = itab[k].inum => j = k

\* "Must be called after every change to an ip->xxx field that lives on disk"
\* (iupdate): between two sections the copy in the table is the inode on disk.
CopyCurrent ==
  \A k \in Slots : itab[k].ref > 0 /\ itab[k].valid => itab[k].copy = fs.ino[itab[k].inum]

\* The blocks of the inodes of s: none has two owners or two places in one
\* owner, and the bitmap marks exactly these (balloc, bfree, bmap, itrunc).
Owned(s) ==
  LET live == {i \in Inums : s.ino[i].type # "none"}
      uses(b) == {<<i, j>> \in live \X (0 .. NDIRECT + NINDIRECT) :
                    \/ j <= NDIRECT /\ s.ino[i].addrs[j] = b
                    \/ /\ j > NDIRECT /\ s.ino[i].addrs[NDIRECT] # 0
                       /\ s.data[s.ino[i].addrs[NDIRECT]][j - NDIRECT - 1].v = b}
  IN  \A b \in Blks : Cardinality(uses(b)) = IF b \in s.used THEN 1 ELSE 0

\* The entries of all directories of s: directory, name and inode.
Entries(s) ==
  UNION {{<<d, readi(s, s.ino[d], o)>> : o \in 0 .. s.ino[d].size - 1} :
         d \in {i \in Inums : s.ino[i].type = "dir"}}
Links(s) == {<<e[1], e[2].n, e[2].v>> : e \in {x \in Entries(s) : x[2].v # 0}}

\* The number of links to i from directories that have a name themselves.
LinksTo(links, i) ==
  LET named == {1} \cup {l[3] : l \in {x \in links : x[2] \notin {".", ".."}}}
  IN  Cardinality({l \in links : l[3] = i /\ l[2] # "." /\ l[1] \in named})

\* Where such links lead, there is an inode whose nlink covers them all.
LinksCovered(s, links) ==
  \A i \in Inums : LinksTo(links, i) > 0 =>
    s.ino[i].type # "none" /\ s.ino[i].nlink >= LinksTo(links, i)

\* Files have no holes: all blocks below the size are there, so that readi
\* never makes bmap allocate outside a transaction.
NoHoles(s) ==
  \A i \in Inums : \A b \in 0 .. NDIRECT + NINDIRECT - 1 :
    b * BSIZE < s.ino[i].size => AddrOf(s, s.ino[i], b) # 0

\* Between any two steps of any calls the file system is consistent.
CurrentSound == Owned(fs) /\ LinksCovered(fs, Links(fs)) /\ NoHoles(fs)

\* And so is what a crash at any moment leaves, where operations are never
\* committed in part. There nlink is even exact, but for inodes that create or
\* link put into a directory another call had removed in the meantime.
DurableSound ==
  LET links == Links(dur)
  IN  /\ Owned(dur) /\ LinksCovered(dur, links) /\ NoHoles(dur)
      /\ \A i \in Inums \ stray : dur.ino[i].nlink > 0 => dur.ino[i].nlink = LinksTo(links, i)

\* "ip->ref == 1 means no other process can have ip locked, so this
\* acquiresleep() won't block (or deadlock)." (iput)
IputNeverBlocks ==
  \A p \in Procs : LET e == itab[Head(th[p].put)]
                   IN  th[p].pc = "iput" /\ e.ref = 1 /\ e.valid /\ e.copy.nlink = 0
                         => e.lock = NoProc

\* The checks that panic never fail: ilock finds an inode with a type, iput
\* frees blocks that are in use, unlink meets an inode with a link.
NoFsPanic ==
  \A p \in Procs :
    /\ LockOf(p) # 0 /\ itab[LockOf(p)].lock = NoProc => Mine(p).type # "none"
    /\ th[p].pc = "unlink2" => Mine(p).nlink >= 1
    /\ LET e == itab[Head(th[p].put)]
       IN  th[p].pc = "iput" /\ LastRef(e) => BlocksOf(fs, e.copy) \subseteq fs.used

\* The inode table is exact: its counts, its entries and its copies.
ItableSound == FsTypeOK /\ RefExact /\ OneEntry /\ CopyCurrent
=============================================================================
