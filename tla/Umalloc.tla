------------------------------ MODULE Umalloc ------------------------------
(***************************************************************************)
(* The allocator of user programs, umalloc.c: a circular list of free      *)
(* blocks, sorted by address, first fit from freep. Addresses count units  *)
(* of sizeof(Header); 0 is the address of base.                            *)
(***************************************************************************)
EXTENDS Integers, FiniteSets, Parts

CONSTANTS
  HDR,        \* sizeof(Header) in bytes
  CORE,       \* least number of units of morecore: 4096
  UmTop,      \* sbrk fails beyond this address
  UmSizes,    \* values of nbytes
  UmGaps      \* times the program itself calls sbrk

VARIABLES
  um,         \* s.ptr and s.size of every unit, freep (-1: null), brk
  live,       \* blocks the program has: <<address of the header, units>>
  gaps        \* units that the program took from sbrk

umVars == <<um, live, gaps>>

Units == 0 .. UmTop - 1

UmInit ==
  /\ um = [ptr |-> [a \in Units |-> 0], size |-> [a \in Units |-> 0], freep |-> -1, brk |-> 1]
  /\ live = {} /\ gaps = {}

RECURSIVE Spot(_, _, _)
\* free's loop: the free block p that bp belongs after.
Spot(m, bp, p) ==
  IF bp > p /\ bp < m.ptr[p] THEN p
  ELSE IF p >= m.ptr[p] /\ (bp > p \/ bp < m.ptr[p]) THEN p
  ELSE Spot(m, bp, m.ptr[p])

\* Variant: does not join with the next block.
JoinNext_no(m, bp, p) == [m EXCEPT !.ptr[bp] = m.ptr[p]]

\* Join bp with the block after it.
JoinNext(m, bp, p) ==
  IF bp + m.size[bp] = m.ptr[p]
    THEN [m EXCEPT !.size[bp] = @ + m.size[m.ptr[p]], !.ptr[bp] = m.ptr[m.ptr[p]]]
    ELSE [m EXCEPT !.ptr[bp] = m.ptr[p]]

\* And with the block before it.
JoinPrev(m, bp, p) ==
  IF p + m.size[p] = bp
    THEN [m EXCEPT !.size[p] = @ + m.size[bp], !.ptr[p] = m.ptr[bp], !.freep = p]
    ELSE [m EXCEPT !.ptr[p] = bp, !.freep = p]

FreeAt(m, bp, p) == JoinPrev(JoinNext(m, bp, p), bp, p)
free(m, bp) == FreeAt(m, bp, Spot(m, bp, m.freep))

CoreUnits(nu) == IF nu < CORE THEN CORE ELSE nu

\* morecore; the memory is unchanged if sbrk fails.
morecore(m, nu) ==
  IF m.brk + nu > UmTop THEN m
  ELSE free([m EXCEPT !.size[m.brk] = nu, !.brk = @ + nu], m.brk)

\* Variant: the block is cut off at the front, where the list points to.
Cut_front(m, prevp, p, n) ==
  IF m.size[p] = n THEN <<[m EXCEPT !.ptr[prevp] = m.ptr[p], !.freep = prevp], p>>
  ELSE <<[m EXCEPT !.size[p + n] = m.size[p] - n, !.size[p] = n, !.freep = prevp], p>>

\* p is large enough: all of it, or its tail.
Cut(m, prevp, p, n) ==
  IF m.size[p] = n THEN <<[m EXCEPT !.ptr[prevp] = m.ptr[p], !.freep = prevp], p>>
  ELSE <<[m EXCEPT !.size[p] = @ - n, !.size[p + m.size[p] - n] = n, !.freep = prevp],
         p + m.size[p] - n>>

RECURSIVE FirstFit(_, _, _, _)
\* malloc's loop. The result is the memory and the block, 0 if there is none.
FirstFit(m, prevp, p, n) ==
  IF m.size[p] >= n THEN Cut(m, prevp, p, n)
  ELSE IF p # m.freep THEN FirstFit(m, p, m.ptr[p], n)
  ELSE LET c == morecore(m, CoreUnits(n))
       IN  IF c.brk = m.brk THEN <<m, 0>> ELSE FirstFit(c, c.freep, c.ptr[c.freep], n)

UmStarted(m) == IF m.freep = -1 THEN [m EXCEPT !.ptr[0] = 0, !.size[0] = 0, !.freep = 0] ELSE m

NUnits(nbytes) == (nbytes + HDR - 1) \div HDR + 1

\* Addresses on the free list: what is reached from freep in UmTop steps.
Chained(m) == LET at[k \in Units] == IF k = 0 THEN m.freep ELSE m.ptr[at[k - 1]]
              IN  IF m.freep = -1 THEN {} ELSE {at[k] : k \in Units}

\* Units that are not the header of a block hold the program's data: here 0.
Scrubbed(m, chained, headers) ==
  [m EXCEPT !.ptr = [a \in Units |-> IF a \in chained THEN @[a] ELSE 0],
            !.size = [a \in Units |-> IF a \in chained \cup headers THEN @[a] ELSE 0]]
UmSet(m, l) == um' = Scrubbed(m, Chained(m), {b[1] : b \in l}) /\ live' = l

malloc(nbytes) ==
  \E m \in {UmStarted(um)} : \E r \in {FirstFit(m, m.freep, m.ptr[m.freep], NUnits(nbytes))} :
    /\ UmSet(r[1], IF r[2] = 0 THEN live
                              ELSE live \cup {<<r[2], (nbytes + HDR - 1) \div HDR + 1>>})
    /\ UNCHANGED gaps

UmFree(b) == UmSet(free(um, b[1]), live \ {b}) /\ UNCHANGED gaps

\* The program takes a unit from sbrk: the next core is not adjacent.
UmSbrk ==
  /\ Cardinality(gaps) < UmGaps /\ um.brk < UmTop
  /\ gaps' = gaps \cup {um.brk} /\ um' = [um EXCEPT !.brk = @ + 1]
  /\ UNCHANGED live

UmNext == (\E n \in UmSizes : malloc(n)) \/ (\E b \in live : UmFree(b)) \/ UmSbrk
UmSpec == UmInit /\ [][UmNext]_umVars

-----------------------------------------------------------------------------
(* Properties.                                                             *)

Span(a, n) == a .. a + n - 1

\* The list goes round all free blocks in the order of their addresses, and
\* no two of them touch: neighbours are always joined.
FreeListSound ==
  In("umalloc") =>
    \A p \in Chained(um) :
      LET above == {q \in Chained(um) : q > p}
      IN  /\ um.ptr[p] = IF above = {} THEN 0 ELSE CHOOSE q \in above : \A r \in above : q <= r
          /\ um.ptr[p] > p => p + um.size[p] < um.ptr[p]

\* Every unit of the heap is in exactly one block: one that the program has
\* with the size it asked for, a free one, or one it took itself. Nothing is
\* given out twice, nothing is lost, however blocks are split and joined.
HeapTiled ==
  In("umalloc") =>
    \A a \in 1 .. um.brk - 1 :
      Cardinality({b \in live : a \in Span(b[1], b[2])})
        + Cardinality({p \in Chained(um) : p # 0 /\ a \in Span(p, um.size[p])})
        + (IF a \in gaps THEN 1 ELSE 0) = 1

\* The allocator neither loses a unit nor gives one out twice.
HeapSound == FreeListSound /\ HeapTiled
=============================================================================
