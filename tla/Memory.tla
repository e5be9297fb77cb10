------------------------------- MODULE Memory -------------------------------
(***************************************************************************)
(* Physical pages, page tables and process images: kalloc.c, vm.c, exec.c  *)
(* and the parts of proc.c and sysfile.c that allocate or free memory.     *)
(*                                                                         *)
(* m is the memory a call works on: how often each page is on the free     *)
(* list, the entries of the pages used as page tables, the number of       *)
(* further calls of kalloc that succeed (left: other CPUs take the rest)   *)
(* and a panic message. A system call is one step, for every value of left *)
(* up to MaxLeft. Page tables have two levels of FAN entries; the code has *)
(* three of 512.                                                           *)
(***************************************************************************)
EXTENDS Integers, Sequences, FiniteSets, FiniteSetsExt, SequencesExt, Parts

CONSTANTS
  Pages,      \* physical pages, numbers above 0
  FAN,        \* entries of a page-table page
  PGSIZE,     \* bytes of a page
  ALIGN,      \* alignment of the stack
  WORD,       \* bytes of an address
  MAXARG,     \* entries of argv[] in sys_exec and of ustack[] in exec
  NPROC,      \* process slots: 1 .. NPROC
  Execs,      \* calls of exec: a program, the address and the strings of argv
  Addrs,      \* addresses given to wait
  Grow,       \* arguments of sbrk
  MaxLeft,    \* bound on the calls of kalloc that succeed in a system call
  MaxCalls,   \* bound on the number of system calls
  UINT        \* addresses are modulo UINT (2^64 in the code)

VARIABLES
  kmem,       \* how often a page is on kmem.freelist
  tab,        \* the entries of the pages that are page tables
  pr,         \* pagetable, trapframe and sz of every slot
  call        \* the last system call: its slot, whether it succeeded, a panic

memVars == <<kmem, tab, pr, call>>

MAXVA == FAN * FAN            \* in pages
TRAMPOLINE == MAXVA - 1
TRAPFRAME == MAXVA - 2
TrampolinePage == 0           \* kernel text, not from kalloc
NoPte == [pa |-> -1, perm |-> "none"]
Leaf == {"user", "kernel"}    \* PTE_U or not; "table" has none of R, W, X
EmptyTable == [i \in 0 .. FAN - 1 |-> NoPte]
NoProcess == [pagetable |-> 0, trapframe |-> 0, sz |-> 0]

PGROUNDUP(a) == ((a + PGSIZE - 1) \div PGSIZE) * PGSIZE
PagesOf(sz) == PGROUNDUP(sz) \div PGSIZE

-----------------------------------------------------------------------------
(* kalloc.c. *)

panic(m, msg) == [m EXCEPT !.panic = msg]

\* A page of the free list, the lowest here; pa = 0 if there is none.
kalloc(m) ==
  LET avail == {pa \in Pages : m.free[pa] > 0}
  IN  IF m.left = 0 \/ avail = {} THEN [m |-> m, pa |-> 0]
      ELSE [m |-> [m EXCEPT !.free[Min(avail)] = @ - 1, !.left = @ - 1], pa |-> Min(avail)]

\* What the page held is gone.
kfree(m, pa) == IF pa \in Pages THEN [m EXCEPT !.free[pa] = @ + 1, !.tab[pa] = EmptyTable]
                                ELSE panic(m, "kfree")

-----------------------------------------------------------------------------
(* Page tables. va is a page number; the entry of va is found at            *)
(* tab[t][va % FAN] for the lower table t that walk returns.               *)

WalkAlloc(m, pt, va, k) ==
  IF k.pa = 0 THEN [m |-> m, t |-> 0]
  ELSE [m |-> [k.m EXCEPT !.tab[k.pa] = EmptyTable,
                          !.tab[pt][va \div FAN] = [pa |-> k.pa, perm |-> "table"]], t |-> k.pa]
walk(m, pt, va, alloc) ==
  IF va >= MAXVA THEN [m |-> panic(m, "walk"), t |-> 0]
  ELSE IF m.tab[pt][va \div FAN] # NoPte THEN [m |-> m, t |-> m.tab[pt][va \div FAN].pa]
  ELSE IF alloc THEN WalkAlloc(m, pt, va, kalloc(m)) ELSE [m |-> m, t |-> 0]

PteOf(m, pt, va) == LET t == m.tab[pt][va \div FAN].pa
                    IN  IF t = -1 THEN NoPte ELSE m.tab[t][va % FAN]

\* Variant: PTE_U is not looked at.
walkaddr_any(m, pt, va) ==
  IF va >= MAXVA \/ PteOf(m, pt, va) = NoPte THEN 0 ELSE PteOf(m, pt, va).pa

\* The page a user address is mapped to, 0 if none.
walkaddr(m, pt, va) ==
  IF va >= MAXVA \/ PteOf(m, pt, va).perm # "user" THEN 0 ELSE PteOf(m, pt, va).pa

\* One page: every caller but kvmmap maps a single one.
MapAt(va, pte, w) ==
  IF w.t = 0 THEN [m |-> w.m, ok |-> FALSE]
  ELSE IF w.m.tab[w.t][va % FAN] # NoPte THEN [m |-> panic(w.m, "mappages: remap"), ok |-> FALSE]
  ELSE [m |-> [w.m EXCEPT !.tab[w.t][va % FAN] = pte], ok |-> TRUE]
mappages(m, pt, va, pa, perm) == MapAt(va, [pa |-> pa, perm |-> perm], walk(m, pt, va, TRUE))

\* One page of uvmunmap; nothing more happens after a panic.
UnmapAt(m, va, w, do_free) ==
  LET pte == m.tab[w.t][va % FAN]
  IN  IF w.t = 0 THEN panic(w.m, "uvmunmap: walk")
      ELSE IF pte = NoPte THEN panic(m, "uvmunmap: not mapped")
      ELSE IF pte.perm \notin Leaf THEN panic(m, "uvmunmap: not a leaf")
      ELSE [IF do_free THEN kfree(m, pte.pa) ELSE m EXCEPT !.tab[w.t][va % FAN] = NoPte]
uvmunmap(m, pt, va, n, do_free) ==
  FoldLeft(LAMBDA mm, i : IF mm.panic # "" THEN mm
                          ELSE UnmapAt(mm, va + i - 1, walk(mm, pt, va + i - 1, FALSE), do_free),
           m, [i \in 1 .. n |-> i])

\* Variant: the last page that stays in use goes too.
uvmdealloc_down(m, pt, oldsz, newsz) ==
  IF newsz >= oldsz \/ newsz \div PGSIZE >= PagesOf(oldsz) THEN m
  ELSE uvmunmap(m, pt, newsz \div PGSIZE, PagesOf(oldsz) - (newsz \div PGSIZE), TRUE)

uvmdealloc(m, pt, oldsz, newsz) ==
  IF newsz >= oldsz \/ PagesOf(newsz) >= PagesOf(oldsz) THEN m
  ELSE uvmunmap(m, pt, PagesOf(newsz), PagesOf(oldsz) - PagesOf(newsz), TRUE)

\* One page of uvmalloc. All the pages from first on go if there is none.
AllocFailed(m, pt, first, a) == [m |-> uvmdealloc(m, pt, a * PGSIZE, first * PGSIZE), sz |-> 0]
AllocMapped(pt, first, a, k, w) ==
  IF w.ok THEN [m |-> w.m, sz |-> 1] ELSE AllocFailed(kfree(w.m, k.pa), pt, first, a)
AllocPage(m, pt, first, a, k) ==
  IF k.pa = 0 THEN AllocFailed(m, pt, first, a)
  ELSE AllocMapped(pt, first, a, k, mappages(k.m, pt, a, k.pa, "user"))

\* The loop of uvmalloc, from page first to page n - 1.
GrowTo(m, pt, first, n, newsz) ==
  FoldLeft(LAMBDA s, i : IF s.sz = 0 THEN s
                         ELSE [AllocPage(s.m, pt, first, first + i - 1, kalloc(s.m))
                                 EXCEPT !.sz = IF @ = 0 THEN 0 ELSE newsz],
           [m |-> m, sz |-> newsz], [i \in 1 .. n - first |-> i])

\* sz = 0 is the error.
uvmalloc(m, pt, oldsz, newsz) ==
  IF newsz < oldsz THEN [m |-> m, sz |-> oldsz]
  ELSE GrowTo(m, pt, PagesOf(oldsz), PagesOf(newsz), newsz)

\* Frees the lower tables, then the table itself.
freewalk(m, pt) ==
  LET below == {i \in 0 .. FAN - 1 : m.tab[pt][i] # NoPte}
      kids == SetToSeq({m.tab[pt][i].pa : i \in below})
  IN  IF \E i \in below : \E j \in 0 .. FAN - 1 : m.tab[m.tab[pt][i].pa][j] # NoPte
        THEN panic(m, "freewalk: leaf")
        ELSE kfree(FoldLeft(kfree, m, kids), pt)

FreeTables(m, pt) == IF m.panic # "" THEN m ELSE freewalk(m, pt)
uvmfree(m, pt, sz) == FreeTables(uvmunmap(m, pt, 0, PagesOf(sz), TRUE), pt)

\* Page i of uvmcopy, with the page k for it.
CopyMapped(new, i, k, w) ==
  IF w.ok THEN w ELSE [m |-> uvmunmap(kfree(w.m, k.pa), new, 0, i, TRUE), ok |-> FALSE]

\* Variant: what was copied is not given back when memory runs out.
CopyPage_keep(m, old, new, i, k) ==
  IF k.pa = 0 THEN [m |-> m, ok |-> FALSE]
  ELSE CopyMapped(new, i, k, mappages(k.m, new, i, k.pa, PteOf(m, old, i).perm))

\* Variant: every page of the child is open to the user.
CopyPage_open(m, old, new, i, k) ==
  IF k.pa = 0 THEN [m |-> uvmunmap(m, new, 0, i, TRUE), ok |-> FALSE]
  ELSE CopyMapped(new, i, k, mappages(k.m, new, i, k.pa, "user"))

CopyPage(m, old, new, i, k) ==
  IF PteOf(m, old, i) = NoPte THEN [m |-> panic(m, "uvmcopy: page not present"), ok |-> FALSE]
  ELSE IF k.pa = 0 THEN [m |-> uvmunmap(m, new, 0, i, TRUE), ok |-> FALSE]
  ELSE CopyMapped(new, i, k, mappages(k.m, new, i, k.pa, PteOf(m, old, i).perm))

uvmcopy(m, old, new, sz) ==
  FoldLeft(LAMBDA s, i : IF s.ok THEN CopyPage(s.m, old, new, i - 1, kalloc(s.m)) ELSE s,
           [m |-> m, ok |-> TRUE], [i \in 1 .. PagesOf(sz) |-> i])

\* The access for user programs is taken away.
uvmclear(m, pt, va) ==
  LET t == walk(m, pt, va, FALSE).t
  IN  IF t = 0 THEN panic(m, "uvmclear") ELSE [m EXCEPT !.tab[t][va % FAN].perm = "kernel"]

RECURSIVE copyout(_, _, _, _)
\* copyout, and with the directions exchanged copyin, of len bytes at dst.
copyout(m, pt, dst, len) ==
  LET va0 == dst \div PGSIZE
      n == Min({PGSIZE - (dst % PGSIZE), len})
  IN  len = 0 \/ (walkaddr(m, pt, va0) # 0 /\ copyout(m, pt, (va0 + 1) * PGSIZE, len - n))

\* copyinstr of a string whose nul is at end.
RECURSIVE copyinstr(_, _, _, _, _)
copyinstr(m, pt, src, max, end) ==
  LET va0 == src \div PGSIZE
      n == Min({PGSIZE - (src % PGSIZE), max})
  IN  /\ max > 0 /\ walkaddr(m, pt, va0) # 0
      /\ end < src + n \/ copyinstr(m, pt, (va0 + 1) * PGSIZE, max - n, end)

-----------------------------------------------------------------------------
(* Processes. *)

\* pt = 0 if out of memory. The trampoline is mapped, then the trapframe.
Trapframe(pt, b) ==
  IF b.ok THEN [m |-> b.m, pt |-> pt]
  ELSE [m |-> uvmfree(uvmunmap(b.m, pt, TRAMPOLINE, 1, FALSE), pt, 0), pt |-> 0]
Trampoline(pt, trapframe, a) ==
  IF a.ok THEN Trapframe(pt, mappages(a.m, pt, TRAPFRAME, trapframe, "kernel"))
  ELSE [m |-> uvmfree(a.m, pt, 0), pt |-> 0]
uvmcreate(m, trapframe, k) ==
  IF k.pa = 0 THEN [m |-> m, pt |-> 0]
  ELSE Trampoline(k.pa, trapframe, mappages([k.m EXCEPT !.tab[k.pa] = EmptyTable], k.pa,
                                            TRAMPOLINE, TrampolinePage, "kernel"))
proc_pagetable(m, trapframe) == uvmcreate(m, trapframe, kalloc(m))

\* Variant: the trapframe page is freed with the page table.
proc_freepagetable_both(m, pt, sz) ==
  uvmfree(uvmunmap(uvmunmap(m, pt, TRAMPOLINE, 1, FALSE), pt, TRAPFRAME, 1, TRUE), pt, sz)

proc_freepagetable(m, pt, sz) ==
  uvmfree(uvmunmap(uvmunmap(m, pt, TRAMPOLINE, 1, FALSE), pt, TRAPFRAME, 1, FALSE), pt, sz)

freeproc(m, np) ==
  LET m1 == IF np.trapframe # 0 THEN kfree(m, np.trapframe) ELSE m
  IN  IF np.pagetable # 0 THEN proc_freepagetable(m1, np.pagetable, np.sz) ELSE m1

\* Variant: the result of proc_pagetable is not looked at.
AllocProc_any(trapframe, t) ==
  [m |-> t.m, np |-> [pagetable |-> t.pt, trapframe |-> trapframe, sz |-> 0]]

\* np.trapframe and np.pagetable; np = NoProcess if memory runs out.
AllocProc(trapframe, t) ==
  IF t.pt = 0 THEN [m |-> kfree(t.m, trapframe), np |-> NoProcess]
  ELSE [m |-> t.m, np |-> [pagetable |-> t.pt, trapframe |-> trapframe, sz |-> 0]]
AllocTrapframe(m, k) == IF k.pa = 0 THEN [m |-> m, np |-> NoProcess]
                        ELSE AllocProc(k.pa, proc_pagetable(k.m, k.pa))
allocproc(m) == AllocTrapframe(m, kalloc(m))

\* allocproc and uvmcopy, with freeproc where uvmcopy fails.
ForkCopied(p, np, c) == IF c.ok THEN [m |-> c.m, np |-> [np EXCEPT !.sz = p.sz]]
                        ELSE [m |-> freeproc(c.m, np), np |-> NoProcess]
ForkAlloc(p, a) == IF a.np = NoProcess THEN a
                   ELSE ForkCopied(p, a.np, uvmcopy(a.m, p.pagetable, a.np.pagetable, p.sz))

\* The loop of forkn. n = 1 is fork; a failure frees the children made so far.
ForkNext(s, f) == IF f.np = NoProcess THEN [m |-> FoldLeft(freeproc, f.m, s.kids), kids |-> <<>>, bad |-> TRUE]
                  ELSE [m |-> f.m, kids |-> Append(s.kids, f.np), bad |-> FALSE]
ForkMany(m, p, n) ==
  FoldLeft(LAMBDA s, i : IF s.bad THEN s ELSE ForkNext(s, ForkAlloc(p, allocproc(s.m))),
           [m |-> m, kids |-> <<>>, bad |-> FALSE], [i \in 1 .. n |-> i])

-----------------------------------------------------------------------------
(* Arguments from user space, exec and sbrk.                               *)

fetchaddr(m, p, addr) ==
  /\ addr < p.sz /\ (addr + WORD) % UINT <= p.sz
  /\ copyout(m, p.pagetable, addr, WORD)

loadseg(m, pt, ph) ==
  IF \A i \in 0 .. PagesOf(ph.memsz) - 1 : walkaddr(m, pt, (ph.vaddr \div PGSIZE) + i) # 0
    THEN m ELSE panic(m, "loadseg: address should exist")

\* One program header. kind: "skip" is not ELF_PROG_LOAD, "header" cannot be
\* read or has memsz < filesz, and "load" cannot be read in full.
Loaded(pt, s, ph, u) == IF u.sz = 0 THEN [s EXCEPT !.m = u.m, !.bad = TRUE]
                        ELSE [m |-> loadseg(u.m, pt, ph), sz |-> u.sz, bad |-> ph.kind = "load"]
Segment(pt, s, ph) ==
  LET end == (ph.vaddr + ph.memsz) % UINT
  IN  IF s.bad \/ ph.kind = "skip" THEN s
      ELSE IF ph.kind = "header" \/ end < ph.vaddr \/ ph.vaddr % PGSIZE # 0 THEN [s EXCEPT !.bad = TRUE]
      ELSE Loaded(pt, s, ph, uvmalloc(s.m, pt, s.sz, end))

\* sp after len bytes are pushed, -1 once they do not fit above stackbase.
Push(m, pt, stackbase, sp, len) ==
  LET new == ((sp - len) \div ALIGN) * ALIGN
  IN  IF sp = -1 \/ new < stackbase \/ ~copyout(m, pt, new, len) THEN -1 ELSE new
PushArgs(m, pt, sz, sizes) ==
  Push(m, pt, sz - PGSIZE,
       FoldLeft(LAMBDA sp, len : Push(m, pt, sz - PGSIZE, sp, len + 1), sz, sizes),
       (Len(sizes) + 1) * WORD)

\* exec, in the stages: the page table t, the segments s, the stack u, and
\* the arguments on it. The result is the new p and argc, or p and -1.
ExecBad(m, p, pt, sz) == [m |-> proc_freepagetable(m, pt, sz), p |-> p, argc |-> -1]
ExecArgs(m, p, pt, sz, sizes) ==
  IF Len(sizes) > MAXARG \/ PushArgs(m, pt, sz, sizes) = -1 THEN ExecBad(m, p, pt, sz)
  ELSE [m |-> proc_freepagetable(m, p.pagetable, p.sz),
        p |-> [p EXCEPT !.pagetable = pt, !.sz = sz], argc |-> Len(sizes)]
ExecStack(p, pt, base, sizes, u) ==
  IF u.sz = 0 THEN ExecBad(u.m, p, pt, base)
  ELSE ExecArgs(uvmclear(u.m, pt, (u.sz \div PGSIZE) - 2), p, pt, u.sz, sizes)
ExecLoaded(p, pt, sizes, s) ==
  LET base == PGROUNDUP(s.sz)
  IN  IF s.bad THEN ExecBad(s.m, p, pt, s.sz)
      ELSE ExecStack(p, pt, base, sizes, uvmalloc(s.m, pt, base, base + 2 * PGSIZE))
ExecTable(p, image, sizes, t) ==
  IF t.pt = 0 THEN [m |-> t.m, p |-> p, argc |-> -1]
  ELSE ExecLoaded(p, t.pt, sizes, FoldLeft(LAMBDA s, ph : Segment(t.pt, s, ph),
                                           [m |-> t.m, sz |-> 0, bad |-> FALSE], image.segs))
exec(m, p, image, sizes) ==
  IF image.elf THEN ExecTable(p, image, sizes, proc_pagetable(m, p.trapframe))
               ELSE [m |-> m, p |-> p, argc |-> -1]

\* The loop of sys_exec, for the strings args whose addresses are at uargv.
FetchStr(p, arg, f, k) ==
  IF k.pa = 0 THEN [f EXCEPT !.next = "bad"]
  ELSE [m |-> k.m, argv |-> Append(f.argv, k.pa),
        next |-> IF copyinstr(k.m, p.pagetable, arg.at, PGSIZE, arg.at + arg.len) THEN "loop" ELSE "bad"]

\* Variant: one string too many.
FetchArg_more(p, uargv, args, f, i) ==
  IF i > MAXARG \/ ~fetchaddr(f.m, p, (uargv + i * WORD) % UINT) THEN [f EXCEPT !.next = "bad"]
  ELSE IF i = Len(args) THEN [f EXCEPT !.next = "exec"]
  ELSE FetchStr(p, args[i + 1], f, kalloc(f.m))

FetchArg(p, uargv, args, f, i) ==
  IF i >= MAXARG \/ ~fetchaddr(f.m, p, (uargv + i * WORD) % UINT) THEN [f EXCEPT !.next = "bad"]
  ELSE IF i = Len(args) THEN [f EXCEPT !.next = "exec"]
  ELSE FetchStr(p, args[i + 1], f, kalloc(f.m))
FetchArgs(m, p, uargv, args) ==
  FoldLeft(LAMBDA f, i : IF f.next = "loop" THEN FetchArg(p, uargv, args, f, i - 1) ELSE f,
           [m |-> m, argv |-> <<>>, next |-> "loop"], [i \in 1 .. Len(args) + 1 |-> i])

\* Variant: the pages are freed up to the one before the last.
FreeArgs_short(e, argv) == [e EXCEPT !.m = FoldLeft(kfree, @, SubSeq(argv, 1, Len(argv) - 1))]

FreeArgs(e, argv) == [e EXCEPT !.m = FoldLeft(kfree, @, argv)]
ExecWith(p, image, args, f) ==
  FreeArgs(IF f.next # "exec" THEN [m |-> f.m, p |-> p, argc |-> -1]
           ELSE exec(f.m, p, image, [i \in 1 .. Len(args) |-> args[i].len]), f.argv)
sys_exec(m, p, image, uargv, args) == ExecWith(p, image, args, FetchArgs(m, p, uargv, args))

Grown(p, u) == IF u.sz = 0 THEN [m |-> u.m, p |-> p, ok |-> FALSE]
               ELSE [m |-> u.m, p |-> [p EXCEPT !.sz = u.sz], ok |-> TRUE]
growproc(m, p, n) ==
  LET newsz == (p.sz + n) % UINT
  IN  IF n > 0 THEN Grown(p, uvmalloc(m, p.pagetable, p.sz, newsz))
      ELSE [m |-> uvmdealloc(m, p.pagetable, p.sz, newsz),
            p |-> [p EXCEPT !.sz = Min({p.sz, newsz})], ok |-> TRUE]

-----------------------------------------------------------------------------
(* The system: each action is a system call, or what wait does for a child *)
(* that has exited.                                                        *)

MemSlots == 1 .. NPROC
Live == {i \in MemSlots : pr[i] # NoProcess}
Memory(left) == [free |-> kmem, tab |-> tab, left |-> left, panic |-> ""]
\* A panic stops the machine.
Runnable == call.panic = "" /\ call.n < MaxCalls
\* The end of a call.
Result(m, kind, p, ok, argc) ==
  /\ kmem' = m.free /\ tab' = m.tab
  /\ call' = [n |-> call.n + 1, kind |-> kind, p |-> p, ok |-> ok, argc |-> argc, panic |-> m.panic]

\* main: kinit, then userinit, whose uvmfirst maps one page.
MemInit ==
  LET m0 == [free |-> [pa \in Pages |-> 1], tab |-> [pa \in Pages \cup {0} |-> EmptyTable],
             left |-> Cardinality(Pages), panic |-> ""]
      a == allocproc(m0)
      k == kalloc(a.m)
      f == mappages(k.m, a.np.pagetable, 0, k.pa, "user").m
  IN  /\ kmem = f.free /\ tab = f.tab
      /\ pr = [i \in MemSlots |-> IF i = 1 THEN [a.np EXCEPT !.sz = PGSIZE] ELSE NoProcess]
      /\ call = [n |-> 0, kind |-> "", p |-> 1, ok |-> TRUE, argc |-> 0, panic |-> ""]

\* fork, and forkn for n > 1, into the first free slots.
MemFork(p, n, left) ==
  LET unused == SetToSortSeq(MemSlots \ Live, <)
  IN  /\ n <= Len(unused)
      /\ \E f \in {ForkMany(Memory(left), pr[p], n)} :
           /\ Result(f.m, "fork", p, ~f.bad, 0)
           /\ pr' = [i \in MemSlots |-> IF \E j \in 1 .. Len(f.kids) : unused[j] = i
                       THEN f.kids[CHOOSE j \in 1 .. Len(f.kids) : unused[j] = i] ELSE pr[i]]

MemExec(p, x, left) ==
  \E e \in {sys_exec(Memory(left), pr[p], x.image, x.argv, x.args)} :
    /\ Result(e.m, "exec", p, e.argc # -1, e.argc)
    /\ pr' = [pr EXCEPT ![p] = e.p]

MemSbrk(p, n, left) ==
  \E g \in {growproc(Memory(left), pr[p], n)} :
    /\ Result(g.m, "sbrk", p, g.ok, 0)
    /\ pr' = [pr EXCEPT ![p] = g.p]

\* p waits for the zombie q and has its status copied to addr, if not 0.
MemWait(p, q, addr) ==
  LET m == Memory(0)
      ok == addr = 0 \/ copyout(m, pr[p].pagetable, addr, WORD)
  IN  /\ q # 1 /\ q # p
      /\ Result(IF ok THEN freeproc(m, pr[q]) ELSE m, "wait", p, ok, 0)
      /\ pr' = IF ok THEN [pr EXCEPT ![q] = NoProcess] ELSE pr

\* The bound on the number of calls is reached.
MemDone == call.n = MaxCalls /\ UNCHANGED memVars

MemNext ==
  \/ Runnable /\ \E p \in Live :
       \/ \E left \in 0 .. MaxLeft :
            \/ \E n \in 1 .. 2 : MemFork(p, n, left)
            \/ \E n \in Grow : MemSbrk(p, n, left)
            \/ \E x \in Execs : MemExec(p, x, left)
       \/ \E q \in Live, addr \in Addrs : MemWait(p, q, addr)
  \/ MemDone

MemSpec == MemInit /\ [][MemNext]_memVars
-----------------------------------------------------------------------------
(* Properties.                                                             *)

MemTypeOK ==
  In("memory") =>
    /\ kmem \in [Pages -> Nat]
    /\ \A pa \in Pages \cup {0}, i \in 0 .. FAN - 1 :
         tab[pa][i] = NoPte \/ (tab[pa][i].pa \in Pages \cup {TrampolinePage}
                                /\ tab[pa][i].perm \in Leaf \cup {"table"})
    /\ \A p \in Live : pr[p].pagetable \in Pages /\ pr[p].trapframe \in Pages /\ pr[p].sz \in 0 .. UINT - 1

\* The uses of pages. The trampoline is kernel text, and the trapframe is
\* mapped in addition.
Uses ==
  {<<pr[p].trapframe, p, "trapframe", 0>> : p \in Live} \cup
  {<<pr[p].pagetable, p, "pagetable", 0>> : p \in Live} \cup
  {<<tab[pr[p].pagetable][i].pa, p, "table", i>> : p \in Live, i \in 0 .. FAN - 1} \cup
  {<<PteOf(Memory(0), pr[p].pagetable, va).pa, p, "leaf", va>> : p \in Live, va \in 0 .. TRAPFRAME - 1}

\* Every page is on the free list once, or is used for one thing by one
\* process: fork, exec, sbrk and wait, with kalloc failing at any call, leak
\* no page and never free one twice, free one in use or share one.
PagesAccounted ==
  In("memory") =>
    \E uses \in {Uses} : \A pa \in Pages : kmem[pa] + Cardinality({u \in uses : u[1] = pa}) = 1

\* Exactly the pages below sz are mapped, with the trapframe and the
\* trampoline at the top (the calls of uvmunmap and freewalk rely on it).
SizeMapped ==
  In("memory") =>
    \A p \in Live : LET pte(va) == PteOf(Memory(0), pr[p].pagetable, va)
                    IN  /\ \A va \in 0 .. TRAPFRAME - 1 : (pte(va) # NoPte) = (va < PagesOf(pr[p].sz))
                        /\ pte(TRAPFRAME) = [pa |-> pr[p].trapframe, perm |-> "kernel"]
                        /\ pte(TRAMPOLINE) = [pa |-> TrampolinePage, perm |-> "kernel"]

\* None of the checks of kfree, walk, mappages, uvmunmap, freewalk, uvmcopy,
\* uvmclear and loadseg panics.
NoMemPanic ==
  In("memory") =>
    call.panic = ""

\* exec writes ustack[argc] inside ustack[MAXARG]: its own check lets argc =
\* MAXARG pass, sys_exec must not.
UstackInBounds ==
  In("memory") /\ call.kind = "exec" => call.argc < MAXARG

\* A system call that fails leaves every image as it was, and but for sbrk,
\* which may keep a new page-table page, also the free pages.
FailureRestores ==
  [][~call'.ok => /\ pr' = pr
                  /\ \A p \in Live, va \in 0 .. MAXVA - 1 :
                       PteOf([tab |-> tab'], pr[p].pagetable, va) = PteOf([tab |-> tab], pr[p].pagetable, va)
                  /\ call'.kind # "sbrk" => kmem' = kmem]_memVars

\* A child has its parent's size and the same access to every page: the stack
\* guard of exec survives fork.
ChildLikeParent ==
  [][call'.kind = "fork" =>
       \A q \in {i \in MemSlots : pr'[i] # pr[i]} :
         /\ pr'[q].sz = pr[call'.p].sz
         /\ \A va \in 0 .. TRAPFRAME - 1 :
              PteOf([tab |-> tab'], pr'[q].pagetable, va).perm
                = PteOf([tab |-> tab], pr[call'.p].pagetable, va).perm]_memVars

\* copyout and copyin succeed exactly if every byte is in a page the user may
\* access, and copyinstr if this holds up to a nul within max bytes; so none
\* of them gets past sz or into the guard.
UserByte(p, a) == PteOf(Memory(0), pr[p].pagetable, a \div PGSIZE).perm = "user"
CopyExact ==
  In("memory") =>
    \A p \in Live : \A a \in 0 .. pr[p].sz, len \in 0 .. PGSIZE + 1 :
      LET bytes(n) == \A b \in a .. a + n - 1 : UserByte(p, b)
      IN  /\ copyout(Memory(0), pr[p].pagetable, a, len) = bytes(len)
          /\ copyinstr(Memory(0), pr[p].pagetable, a, PGSIZE, a + len) = (len < PGSIZE /\ bytes(len + 1))

\* Memory stays in order through every call and every failure: pages, sizes and
\* page tables agree, nothing panics, exec stays within ustack[], and copies
\* between the kernel and user space go where the addresses say.
MemSound ==
  /\ MemTypeOK /\ PagesAccounted /\ SizeMapped /\ NoMemPanic /\ UstackInBounds
  /\ CopyExact
=============================================================================
