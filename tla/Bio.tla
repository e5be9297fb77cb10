-------------------------------- MODULE Bio --------------------------------
(***************************************************************************)
(* The buffer cache of bio.c and the sleep lock of every buffer. A section  *)
(* under bcache.lock, and one under the spinlock of a sleep lock, is a step;*)
(* a transfer by the disk (module Virtio) is a step of the process that    *)
(* holds the buffer.                                                       *)
(*                                                                         *)
(* Processes use blocks the way log.c does: what is changed is written      *)
(* (bwrite) or pinned (bpin) before brelse, and a pinned block is unpinned  *)
(* after it has been written.                                              *)
(***************************************************************************)
EXTENDS Integers, FiniteSets, Parts

CONSTANTS
  BioProcs,     \* processes
  NBUF,         \* buffers: 1 .. NBUF; 0 is bcache.head
  BioBlocks,    \* blocks: a set of positive numbers
  BioDirty,     \* those that processes change
  MaxPins       \* blocks that are pinned at once

ASSUME BioAssumption ==
  /\ 0 \notin BioBlocks
  /\ NBUF \in Nat \ {0} /\ MaxPins \in Nat /\ IsFiniteSet(BioProcs)
  /\ Cardinality(BioProcs) + MaxPins <= NBUF

VARIABLES
  buf,          \* blockno (0: none yet), valid, refcnt, data, locked, pid
  nxt, prv,     \* the list of buffers; element 0 is the head
  disk,         \* contents of the blocks
  bp,           \* each process: pc and its buffer
  latest,       \* the last contents a process gave to each block
  pinned,       \* blocks that are pinned
  order,        \* the buffers, the most recently released one first
  bioPanic

bioVars == <<buf, nxt, prv, disk, bp, latest, pinned, order, bioPanic>>
list == <<nxt, prv, order>>

Bufs == 1 .. NBUF
Nobody == "nobody"

\* binit: each buffer is put behind the head, so that the last one is first.
binit ==
  /\ nxt = [b \in 0 .. NBUF |-> IF b = 0 THEN NBUF ELSE b - 1]
  /\ prv = [b \in 0 .. NBUF |-> IF b = NBUF THEN 0 ELSE b + 1]
  /\ order = [k \in Bufs |-> NBUF + 1 - k]

BioInit ==
  /\ buf = [b \in Bufs |-> [blockno |-> 0, valid |-> FALSE, refcnt |-> 0, data |-> 0,
                            locked |-> FALSE, pid |-> Nobody]]
  /\ binit
  /\ disk = [k \in BioBlocks |-> 0] /\ latest = disk
  /\ bp = [p \in BioProcs |-> [pc |-> "out", b |-> 0]]
  /\ pinned = {} /\ bioPanic = FALSE

BioGoto(p, pc) == bp' = [bp EXCEPT ![p].pc = pc]
B(p) == buf[bp[p].b]
BioAt(p, pc) == bp[p].pc = pc /\ ~bioPanic

-----------------------------------------------------------------------------
(* bget().                                                                 *)

\* Variant: only buffers in use are looked at.
Cached_used(k) == {b \in Bufs : buf[b].blockno = k /\ buf[b].refcnt > 0}

Cached(k) == {b \in Bufs : buf[b].blockno = k}

\* Following prev from the head.
Backwards == LET w[k \in Bufs] == IF k = 1 THEN prv[0] ELSE prv[w[k - 1]] IN w

\* Variant: any buffer that is not locked.
Unref_unlocked(b) == ~buf[b].locked

\* Variant: only a buffer that has never been filled.
Unref_invalid(b) == buf[b].refcnt = 0 /\ ~buf[b].valid

Unref(b) == buf[b].refcnt = 0

\* The least recently used buffer without references.
Lru == LET free == {k \in Bufs : Unref(Backwards[k])}
       IN  IF free = {} THEN 0 ELSE Backwards[CHOOSE k \in free : \A j \in free : k <= j]

\* Variant: the block that the buffer held is taken for the new one.
Recycled_valid(b, k) == [buf[b] EXCEPT !.blockno = k, !.refcnt = 1]

Recycled(b, k) == [buf[b] EXCEPT !.blockno = k, !.valid = FALSE, !.refcnt = 1]

bget(p, k) ==
  /\ BioAt(p, "out")
  /\ IF Cached(k) # {}
       THEN LET b == CHOOSE x \in Cached(k) : TRUE
            IN  /\ buf' = [buf EXCEPT ![b].refcnt = @ + 1]
                /\ bp' = [bp EXCEPT ![p] = [pc |-> "want", b |-> b]]
                /\ UNCHANGED bioPanic
       ELSE IF Lru = 0
         THEN bioPanic' = TRUE /\ UNCHANGED <<buf, bp>>
         ELSE /\ buf' = [buf EXCEPT ![Lru] = Recycled(Lru, k)]
              /\ bp' = [bp EXCEPT ![p] = [pc |-> "want", b |-> Lru]]
              /\ UNCHANGED bioPanic
  /\ UNCHANGED <<list, disk, latest, pinned>>

-----------------------------------------------------------------------------
(* acquiresleep(), bread(), bwrite(), bpin(), bunpin().                    *)

acquiresleep(p) ==
  /\ BioAt(p, "want")
  /\ IF B(p).locked THEN BioGoto(p, "asleep") /\ UNCHANGED buf
     ELSE /\ buf' = [buf EXCEPT ![bp[p].b].locked = TRUE, ![bp[p].b].pid = p]
          /\ BioGoto(p, "got")
  /\ UNCHANGED <<list, disk, latest, pinned, bioPanic>>

bread(p) ==
  /\ BioAt(p, "got")
  /\ IF B(p).valid THEN UNCHANGED buf
     ELSE buf' = [buf EXCEPT ![bp[p].b].data = disk[B(p).blockno], ![bp[p].b].valid = TRUE]
  /\ BioGoto(p, "hold")
  /\ UNCHANGED <<list, disk, latest, pinned, bioPanic>>

\* The holder changes the contents.
Modify(p) ==
  /\ BioAt(p, "hold") /\ B(p).blockno \in BioDirty
  /\ buf' = [buf EXCEPT ![bp[p].b].data = 1 - @]
  /\ latest' = [latest EXCEPT ![B(p).blockno] = 1 - B(p).data]
  /\ BioGoto(p, "dirty")
  /\ UNCHANGED <<list, disk, pinned, bioPanic>>

holdingsleep(p) == B(p).locked /\ B(p).pid = p

\* bwrite, of a change or by the commit of a pinned block.
bwrite(p) ==
  /\ BioAt(p, "dirty") \/ (BioAt(p, "hold") /\ B(p).blockno \in pinned)
  /\ disk' = [disk EXCEPT ![B(p).blockno] = B(p).data]
  /\ bioPanic' = ~holdingsleep(p)
  /\ BioGoto(p, "written")
  /\ UNCHANGED <<buf, list, latest, pinned>>

\* log_write: a change that is not written keeps the buffer in the cache.
bpin(p) ==
  /\ BioAt(p, "dirty")
  /\ \/ /\ B(p).blockno \notin pinned /\ Cardinality(pinned) < MaxPins
        /\ buf' = [buf EXCEPT ![bp[p].b].refcnt = @ + 1]
        /\ pinned' = pinned \cup {B(p).blockno}
     \/ B(p).blockno \in pinned /\ UNCHANGED <<buf, pinned>>
  /\ BioGoto(p, "hold")
  /\ UNCHANGED <<list, disk, latest, bioPanic>>

bunpin(p) ==
  /\ BioAt(p, "written")
  /\ buf' = [buf EXCEPT ![bp[p].b].refcnt = IF B(p).blockno \in pinned THEN @ - 1 ELSE @]
  /\ pinned' = pinned \ {B(p).blockno}
  /\ BioGoto(p, "hold")
  /\ UNCHANGED <<list, disk, latest, bioPanic>>

-----------------------------------------------------------------------------
(* brelse().                                                               *)

\* Variant: nobody is woken.
Awake_no(p) == [bp EXCEPT ![p].pc = "drop"]

\* wakeup(lk); p goes on to the second part of brelse.
Awake(p) ==
  [q \in BioProcs |-> IF q = p THEN [bp[q] EXCEPT !.pc = "drop"]
                      ELSE IF bp[q] = [pc |-> "asleep", b |-> bp[p].b] THEN [bp[q] EXCEPT !.pc = "want"]
                      ELSE bp[q]]

releasesleep(p) ==
  /\ BioAt(p, "hold")
  /\ bioPanic' = ~holdingsleep(p)
  /\ buf' = [buf EXCEPT ![bp[p].b].locked = FALSE, ![bp[p].b].pid = Nobody]
  /\ bp' = Awake(p)
  /\ UNCHANGED <<list, disk, latest, pinned>>

\* Variant: b is put before the head, where the least recently used one is.
Moved_last(b) ==
  LET n == [nxt EXCEPT ![prv[b]] = nxt[b]]
      v == [prv EXCEPT ![nxt[b]] = prv[b]]
  IN  /\ prv' = [v EXCEPT ![b] = v[0], ![0] = b]
      /\ nxt' = [n EXCEPT ![v[0]] = b, ![b] = 0]

\* b out of its place in the list and in again after the head.
Moved(b) ==
  LET n == [nxt EXCEPT ![prv[b]] = nxt[b]]
      v == [prv EXCEPT ![nxt[b]] = prv[b]]
  IN  /\ nxt' = [n EXCEPT ![b] = n[0], ![0] = b]
      /\ prv' = [v EXCEPT ![b] = 0, ![n[0]] = b]

\* b before all the others.
ToFront(s, b) ==
  LET i == CHOOSE k \in Bufs : s[k] = b
  IN  [k \in Bufs |-> IF k = 1 THEN b ELSE IF k <= i THEN s[k - 1] ELSE s[k]]

brelse(p) ==
  LET b == bp[p].b
  IN  /\ BioAt(p, "drop")
      /\ buf' = [buf EXCEPT ![b].refcnt = @ - 1]
      /\ IF buf[b].refcnt = 1
           THEN Moved(b) /\ order' = ToFront(order, b)
           ELSE UNCHANGED list
      /\ bp' = [bp EXCEPT ![p] = [pc |-> "out", b |-> 0]]
      /\ UNCHANGED <<disk, latest, pinned, bioPanic>>

BioStep(p) ==
  \/ acquiresleep(p) \/ bread(p) \/ bwrite(p) \/ bpin(p) \/ bunpin(p)
  \/ releasesleep(p) \/ brelse(p)

BioNext == \E p \in BioProcs : BioStep(p) \/ Modify(p) \/ \E k \in BioBlocks : bget(p, k)

BioSpec == BioInit /\ [][BioNext]_bioVars

-----------------------------------------------------------------------------
(* Properties.                                                             *)

Users(b) == {p \in BioProcs : bp[p].b = b}
BioHolds(p) == bp[p].pc \in {"got", "hold", "dirty", "written"}

\* Types; every reference that a process or a pin has is counted, in the gap
\* between bget and the lock and in the middle of brelse too.
BioTypeOK ==
  In("bio") =>
    /\ \A b \in Bufs : /\ buf[b].blockno \in BioBlocks \cup {0}
                       /\ buf[b].refcnt = Cardinality(Users(b))
                            + (IF buf[b].blockno \in pinned THEN 1 ELSE 0)
    /\ \A p \in BioProcs : bp[p].b \in 0 .. NBUF

\* No block is in two buffers, however bget, eviction and the waits for the
\* lock of a buffer interleave.
OneBufferPerBlock ==
  In("bio") =>
    \A b, c \in Bufs : b # c => buf[b].blockno = 0 \/ buf[b].blockno # buf[c].blockno

\* A process that holds a buffer has it to itself, and reads what was last
\* written to the block it asked for, in the cache or on the disk.
ReadsLatest ==
  In("bio") =>
    \A p \in BioProcs : BioHolds(p) =>
      /\ holdingsleep(p)
      /\ \A q \in BioProcs \ {p} : BioHolds(q) => bp[q].b # bp[p].b
      /\ bp[p].pc # "got" => B(p).valid /\ B(p).data = latest[B(p).blockno]

\* No panic: the buffers suffice for one per process and the pinned ones, and
\* bwrite and brelse are called by the holder.
NoBioPanic ==
  In("bio") =>
    ~bioPanic

\* A process sleeps for a buffer only while another holds it: releasesleep
\* wakes everybody who waits.
SleepsOnLocked ==
  In("bio") =>
    \A p \in BioProcs : bp[p].pc = "asleep" => B(p).locked

\* The pointers of the list always go round all buffers, in both directions,
\* in the order of their last release.
LruExact ==
  In("bio") =>
    /\ nxt = [b \in 0 .. NBUF |-> IF b = 0 THEN order[1]
                                  ELSE IF b = order[NBUF] THEN 0
                                  ELSE order[CHOOSE k \in 2 .. NBUF : order[k - 1] = b]]
    /\ \A b \in 0 .. NBUF : prv[nxt[b]] = b

\* What log.c and fs.c take for granted of the cache.
CacheSound ==
  BioTypeOK /\ OneBufferPerBlock /\ ReadsLatest /\ NoBioPanic /\ LruExact
=============================================================================
