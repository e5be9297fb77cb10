----------------------------- MODULE LogProofs ------------------------------
(***************************************************************************)
(* Proofs about the redo log: it never overflows, commits run alone, and   *)
(* it implements LogAbs. LogInv is the inductive invariant behind all of   *)
(* this; one lemma shows that each action preserves it.                    *)
(***************************************************************************)
EXTENDS Log, FiniteSetTheorems, TLAPS

-----------------------------------------------------------------------------
(* The inductive invariant.                                                *)

Ops == {p \in Procs : pc[p] = "op"}

\* log.outstanding counts the operations, and log.committing says that
\* somebody commits, which nobody does while there are operations.
Counted ==
  /\ IsFiniteSet(Ops) /\ outstanding = Cardinality(Ops)
  /\ committing <=> \E p \in Procs : pc[p] \in CommitPoints
  /\ committing => Ops = {}

\* The blocks that the operations may still add to the log, as pairs of a
\* process and the number of the block among those it writes.
Room == {s \in Ops \X (1 .. OpWrites) : s[2] > Cardinality(wrote[s[1]])}

\* What begin_op reserves: all of Room fits, and one block more than the disk
\* needs, so that the checks of log_write never fire.
Reserved ==
  /\ \A p \in Ops : /\ IsFiniteSet(wrote[p]) /\ Cardinality(wrote[p]) <= OpWrites
                    /\ wrote[p] \subseteq Range(lh)
  /\ Ops # {} => Len(lh) + Cardinality(Room) + 2 <= LOGSIZE

Clean(b) == pins[b] = 0 /\ cache[b] \in {NoVal, disk[b]}
Pinned(b) == pins[b] = 1 /\ cache[b] # NoVal
\* The k-th block of the log has reached its home location.
Installed(k) == disk[lh[k]] = dlog[k] /\ Clean(lh[k])

\* Recovery finds memory empty, and has installed what is before tail.
Recovering ==
  mode \in {"boot", "install", "clear"} =>
    /\ \A p \in Procs : pc[p] = "idle"
    /\ \A b \in Blocks : Clean(b)
    /\ IF mode = "boot" THEN tail = 1 ELSE lh = dhead
    /\ mode = "install" => /\ tail \in 1 .. Len(lh)
                           /\ \A k \in 1 .. Len(lh) : k < tail => Installed(k)
    /\ mode = "clear" => \A k \in 1 .. Len(lh) : Installed(k)

\* Somebody is between the write of the header and its clearing.
Installing == \E p \in Procs : pc[p] \in {"install", "clear"}

\* What the points of a commit know about the cache, the log and the disk.
AtPoint(p) ==
  /\ pc[p] = "done" => lh = <<>>
  /\ pc[p] = "write_log" => /\ tail \in 1 .. Len(lh)
                            /\ \A k \in 1 .. Len(lh) : k < tail => dlog[k] = cache[lh[k]]
  /\ pc[p] = "write_head" => /\ lh # <<>> /\ tail = 1
                             /\ \A k \in 1 .. Len(lh) : dlog[k] = cache[lh[k]]
  /\ pc[p] = "install" => /\ tail \in 1 .. Len(lh)
                          /\ \A k \in 1 .. Len(lh) :
                               IF k < tail THEN Installed(k)
                               ELSE Pinned(lh[k]) /\ cache[lh[k]] = dlog[k]
  /\ pc[p] = "clear" => \A k \in 1 .. Len(lh) : Installed(k)

\* What a running system has in the cache, in the log and on disk.
Running ==
  Up => /\ \A b \in Blocks \ Range(lh) : Clean(b)
        /\ ~Installing => dhead = <<>> /\ \A b \in Range(lh) : Pinned(b)
        /\ Installing => dhead = lh
        /\ Ops = {} /\ ~committing => lh = <<>>
        /\ \A p \in Procs : AtPoint(p)

LogInv ==
  /\ TypeOK /\ CommitAlone /\ NoLogPanic
  /\ IsInjective(lh) /\ IsInjective(dhead)
  /\ Counted /\ Reserved /\ Recovering /\ Running

-----------------------------------------------------------------------------
(* Facts about the log as a sequence of blocks.                            *)

\* The empty log.
LEMMA EmptyLog == Range(<<>>) = {} /\ IsInjective(<<>>) /\ Len(<<>>) = 0
BY DEF Range, IsInjective

\* log_write adds a block that the log does not have.
LEMMA LogAppend ==
  ASSUME NEW s \in Seq(Blocks), NEW b \in Blocks, b \notin Range(s), IsInjective(s)
  PROVE  /\ Append(s, b) \in Seq(Blocks) /\ Len(Append(s, b)) = Len(s) + 1
         /\ Range(Append(s, b)) = Range(s) \cup {b}
         /\ IsInjective(Append(s, b))
<1>1. /\ Append(s, b) \in Seq(Blocks) /\ Len(Append(s, b)) = Len(s) + 1
      /\ \A k \in 1 .. Len(s) : Append(s, b)[k] = s[k]
      /\ Append(s, b)[Len(s) + 1] = b /\ Len(s) \in Nat
      /\ DOMAIN s = 1 .. Len(s) /\ DOMAIN Append(s, b) = 1 .. Len(s) + 1
  OBVIOUS
<1>2. Range(Append(s, b)) = Range(s) \cup {b} BY <1>1 DEF Range
<1>3. IsInjective(Append(s, b)) BY <1>1 DEF Range, IsInjective
<1> QED BY Zenon, <1>1, <1>2, <1>3

\* Entries of the log are blocks.
LEMMA LogEntry ==
  ASSUME NEW s \in Seq(Blocks)
  PROVE  /\ \A k \in 1 .. Len(s) : s[k] \in Blocks /\ s[k] \in Range(s)
         /\ \A b \in Range(s) : \E k \in 1 .. Len(s) : s[k] = b
         /\ Range(s) \subseteq Blocks
         /\ s # <<>> => Len(s) > 0
BY DEF Range

\* Every block has one place in the log.
LEMMA HomeAt ==
  ASSUME NEW s \in Seq(Blocks), IsInjective(s), NEW k \in 1 .. Len(s)
  PROVE  Home(s, s[k]) = k
BY DEF Home, IsInjective

-----------------------------------------------------------------------------
(* Counting.                                                               *)

\* There is an operation as long as one process is in it.
LEMMA SomeOp ==
  ASSUME LogInv, NEW p \in Procs, pc[p] = "op"
  PROVE  /\ outstanding >= 1 /\ ~committing /\ p \in Ops
         /\ Len(lh) + 2 <= LOGSIZE /\ Len(lh) + 2 <= Nlog
         /\ IsFiniteSet(Room) /\ Cardinality(Room) \in Nat
<1>1. p \in Ops /\ IsFiniteSet(Ops) /\ outstanding = Cardinality(Ops)
  BY Zenon DEF LogInv, Counted, Ops
<1>2. outstanding >= 1
  BY <1>1, FS_EmptySet, FS_CardinalityType
<1>3. IsFiniteSet(Room)
  <2>1. OpWrites \in Nat BY Zenon, LogAssumption
  <2>2. IsFiniteSet(1 .. OpWrites) BY <2>1, FS_Interval
  <2>3. IsFiniteSet(Ops \X (1 .. OpWrites)) BY Zenon, <1>1, <2>2, FS_Product
  <2>4. Room \in SUBSET (Ops \X (1 .. OpWrites)) BY Zenon DEF Room
  <2> QED BY Zenon, <2>3, <2>4, FS_Subset
<1>4. Cardinality(Room) \in Nat BY Zenon, <1>3, FS_CardinalityType
<1>5. Len(lh) + Cardinality(Room) + 2 <= LOGSIZE BY Zenon, <1>1 DEF LogInv, Reserved
<1>6. ~committing BY Zenon, <1>1 DEF LogInv, Counted
<1>7. Len(lh) \in Nat BY DEF LogInv, TypeOK
<1> QED BY <1>1, <1>2, <1>3, <1>4, <1>5, <1>6, <1>7, LogAssumption, ReserveAssumption

\* Operations that end or write leave less to be written.
LEMMA RoomShrinks ==
  ASSUME Ops' \subseteq Ops,
         \A q \in Ops' : /\ Cardinality(wrote[q]) \in Nat /\ Cardinality(wrote'[q]) \in Nat
                         /\ Cardinality(wrote[q]) <= Cardinality(wrote'[q])
  PROVE  Room' \subseteq Room
<1> SUFFICES ASSUME NEW s \in Room' PROVE s \in Room
  BY Zenon
<1>1. s \in Ops' \X (1 .. OpWrites) /\ s[2] > Cardinality(wrote'[s[1]]) BY Zenon DEF Room
<1>2. s[1] \in Ops' /\ s[2] \in 1 .. OpWrites BY Zenon, <1>1
<1>3. s \in Ops \X (1 .. OpWrites) BY Zenon, <1>1
<1>4. s[2] > Cardinality(wrote[s[1]]) BY <1>1, <1>2
<1> QED BY Zenon, <1>3, <1>4 DEF Room

-----------------------------------------------------------------------------
(* Every action preserves the invariant.                                   *)

\* The image mkfs makes, before the first recovery.
LEMMA InitInv == ASSUME Init PROVE LogInv
<1> USE DEF Init
<1>1. TypeOK
  <2>1. <<>> \in Seq(Blocks) /\ Len(<<>>) <= Nlog - 1
    BY LogAssumption, ReserveAssumption, EmptyLog
  <2>2. disk \in [Blocks -> Vals] /\ dlog \in [1 .. Nlog - 1 -> Vals] BY Zenon, LogAssumption
  <2> QED BY Zenon, <2>1, <2>2 DEF TypeOK, Points
<1>2. Ops = {} BY Zenon DEF Ops
<1>3. Counted BY Zenon, <1>2, FS_EmptySet DEF Counted, CommitPoints
<1>4. Reserved BY Zenon, <1>2 DEF Reserved
<1>5. Recovering BY Zenon DEF Recovering, Clean
<1> QED BY Zenon, <1>1, <1>3, <1>4, <1>5, EmptyLog
           DEF LogInv, CommitAlone, CommitPoints, NoLogPanic, Running, Up

\* begin_op goes to sleep.
LEMMA BeginWaitInv ==
  ASSUME LogInv, NEW p \in Procs, begin_op(p), MustWait
  PROVE  LogInv'
<1>e. /\ Up /\ pc[p] \in {"idle", "begin"} /\ pc' = [pc EXCEPT ![p] = "sleep"]
      /\ UNCHANGED <<disk, dlog, dhead, cache, pins, lh, outstanding, committing, wrote, tail, mode, crashes>>
  BY Zenon DEF begin_op, Goto, diskvars, memvars
<1>y. pc \in [Procs -> Points] BY Zenon DEF LogInv, TypeOK
<1>t. TypeOK' BY Zenon, <1>e DEF LogInv, TypeOK, Points
<1>a. CommitAlone' BY Zenon, <1>e, <1>y DEF LogInv, CommitAlone, CommitPoints
<1>o. Ops' = Ops /\ Room' = Room /\ Installing' = Installing BY Zenon, <1>e, <1>y
    DEF Ops, Room, Installing
<1>c. Counted' BY Zenon, <1>e, <1>y, <1>o DEF LogInv, Counted, CommitPoints
<1>r. Reserved' BY Zenon, <1>e, <1>o DEF LogInv, Reserved
<1>v. Recovering' BY Zenon, <1>e DEF Recovering, Up
<1>u. Running' BY <1>e, <1>y, <1>o DEF LogInv, Running, AtPoint, Clean, Pinned, Installed, Up
<1> QED BY Zenon, <1>e, <1>t, <1>a, <1>c, <1>r, <1>v, <1>u DEF LogInv, NoLogPanic

\* begin_op admits an operation: the space it reserves for all operations
\* covers what they may still write.
LEMMA BeginOpInv ==
  ASSUME LogInv, NEW p \in Procs, begin_op(p), ~MustWait
  PROVE  LogInv'
<1>e. /\ Up /\ pc[p] \in {"idle", "begin"} /\ pc' = [pc EXCEPT ![p] = "op"]
      /\ outstanding' = outstanding + 1 /\ wrote' = [wrote EXCEPT ![p] = {}]
      /\ UNCHANGED <<disk, dlog, dhead, cache, pins, lh, committing, tail, mode, crashes>>
  BY Zenon DEF begin_op, Goto, diskvars, memvars
<1>m. ~committing /\ Len(lh) + (outstanding + 1) * MAXOPBLOCKS <= LOGSIZE
  <2>1. Len(lh) \in Nat /\ outstanding \in Nat BY DEF LogInv, TypeOK
  <2> QED BY <2>1, LogAssumption DEF MustWait
<1>y. pc \in [Procs -> Points] /\ wrote \in [Procs -> SUBSET Blocks] /\ outstanding \in Nat
  BY Zenon DEF LogInv, TypeOK
<1>t. TypeOK' BY <1>e DEF LogInv, TypeOK, Points
<1>n. \A q \in Procs : pc[q] \notin CommitPoints BY Zenon, <1>m DEF LogInv, Counted
<1>a. CommitAlone' BY Zenon, <1>e, <1>y, <1>n DEF CommitAlone, CommitPoints
<1>o. Ops' = Ops \cup {p} /\ p \notin Ops BY Zenon, <1>e, <1>y DEF Ops
<1>i. ~Installing /\ ~Installing' BY Zenon, <1>e, <1>y, <1>n DEF CommitPoints, Installing
<1>f. IsFiniteSet(Ops') /\ Cardinality(Ops') = outstanding + 1
  BY Zenon, <1>o, FS_AddElement DEF LogInv, Counted
<1>c. Counted' BY Zenon, <1>e, <1>y, <1>n, <1>m, <1>f DEF Counted, CommitPoints
<1>z. IsFiniteSet({}) /\ Cardinality({}) = 0 BY Zenon, FS_EmptySet
<1>s. Cardinality(Room') \in Nat /\ Cardinality(Room') <= (outstanding + 1) * OpWrites
  <2>1. OpWrites \in Nat BY Zenon, LogAssumption
  <2>2. IsFiniteSet(1 .. OpWrites) /\ Cardinality(1 .. OpWrites) = OpWrites BY <2>1, FS_Interval
  <2>3. IsFiniteSet(Ops' \X (1 .. OpWrites))
        /\ Cardinality(Ops' \X (1 .. OpWrites)) = (outstanding + 1) * OpWrites
    BY Zenon, <1>f, <2>2, FS_Product
  <2>4. Room' \in SUBSET (Ops' \X (1 .. OpWrites)) BY Zenon DEF Room
  <2> QED BY <2>3, <2>4, FS_Subset, FS_CardinalityType
<1>l. Len(lh) + Cardinality(Room') + 2 <= LOGSIZE
  <2>0. Len(lh) \in Nat BY DEF LogInv, TypeOK
  <2>1. CASE outstanding = 0
    <3>1. Ops = {} BY Zenon, <2>1, FS_EmptySet DEF LogInv, Counted
    <3>2. Len(lh) = 0 BY Zenon, <1>e, <1>m, <3>1, EmptyLog DEF LogInv, Running
    <3> QED BY <1>s, <2>1, <3>2, LogAssumption, ReserveAssumption
  <2>2. CASE outstanding > 0
    <3> DEFINE n == outstanding + 1
    <3>1. n \in Nat /\ n >= 2 BY <1>y, <2>2
    <3>2. n * OpWrites + n <= n * MAXOPBLOCKS
      <4>1. n * (OpWrites + 1) <= n * MAXOPBLOCKS
        BY <3>1, LogAssumption, ReserveAssumption
      <4> QED BY <3>1, <4>1, LogAssumption
    <3> HIDE DEF n
    <3>3. Len(lh) + n * MAXOPBLOCKS <= LOGSIZE /\ Cardinality(Room') <= n * OpWrites
      BY Zenon, <1>m, <1>s DEF n
    <3>4. n * OpWrites \in Nat /\ n * MAXOPBLOCKS \in Nat BY <3>1, LogAssumption
    <3> QED BY <1>s, <2>0, <3>1, <3>2, <3>3, <3>4, LogAssumption
  <2> QED BY <2>1, <2>2, <1>y
<1>r. Reserved'
  <2>1. \A q \in Ops : wrote'[q] = wrote[q] BY Zenon, <1>e, <1>y, <1>o DEF Ops
  <2>2. wrote'[p] = {} BY Zenon, <1>e, <1>y
  <2>3. ASSUME NEW q \in Ops'
        PROVE  /\ IsFiniteSet(wrote'[q]) /\ Cardinality(wrote'[q]) <= OpWrites
               /\ wrote'[q] \subseteq Range(lh)
    <3>1. CASE q \in Ops BY Zenon, <2>1, <3>1 DEF LogInv, Reserved
    <3>2. CASE q = p BY <1>z, <2>2, <3>2, LogAssumption
    <3> QED BY Zenon, <1>o, <3>1, <3>2
  <2> QED BY Zenon, <1>e, <1>l, <2>3 DEF Reserved
<1>v. Recovering' BY Zenon, <1>e DEF Recovering, Up
<1>u. Running' BY <1>e, <1>y, <1>n, <1>i, <1>o
                  DEF LogInv, Running, AtPoint, Clean, Pinned, Installed, Up, CommitPoints
<1> QED BY Zenon, <1>e, <1>t, <1>a, <1>c, <1>r, <1>v, <1>u DEF LogInv, NoLogPanic

\* While an operation runs, nobody commits.
LEMMA OpAlone ==
  ASSUME LogInv, NEW p \in Procs, pc[p] = "op"
  PROVE  (\A q \in Procs : pc[q] \notin CommitPoints) /\ ~Installing
<1>1. \A q \in Procs : pc[q] \notin CommitPoints
  BY Zenon DEF LogInv, CommitAlone, CommitPoints
<1> QED BY Zenon, <1>1 DEF CommitPoints, Installing

\* A block is read: a clean buffer stays clean.
LEMMA BreadInv ==
  ASSUME LogInv, NEW p \in Procs, NEW b \in Blocks, bread(p, b)
  PROVE  LogInv'
<1>e. /\ Up /\ pc[p] = "op" /\ cache' = [cache EXCEPT ![b] = Cached(b)]
      /\ UNCHANGED <<disk, dlog, dhead, pins, lh, outstanding, committing, pc, wrote, tail, mode, crashes>>
  BY Zenon DEF bread, diskvars, logvars, procvars
<1>y. cache \in [Blocks -> Vals \cup {NoVal}] /\ disk \in [Blocks -> Vals] /\ lh \in Seq(Blocks)
  BY Zenon DEF LogInv, TypeOK
<1>k. \A c \in Blocks : (Clean(c) => Clean(c)') /\ (Pinned(c) => Pinned(c)')
  BY Zenon, <1>e, <1>y, LogAssumption DEF Clean, Pinned, Cached
<1>t. TypeOK' BY Zenon, <1>e, <1>y DEF LogInv, TypeOK, Cached
<1>a. CommitAlone' BY Zenon, <1>e DEF LogInv, CommitAlone
<1>o. Ops' = Ops /\ Room' = Room BY Zenon, <1>e DEF Ops, Room
<1>i. ~Installing /\ ~Installing' /\ \A q \in Procs : pc[q] \notin CommitPoints
  BY Zenon, <1>e, OpAlone DEF Installing
<1>c. Counted' BY Zenon, <1>e, <1>o DEF LogInv, Counted
<1>r. Reserved' BY Zenon, <1>e, <1>o DEF LogInv, Reserved
<1>v. Recovering' BY Zenon, <1>e DEF Recovering, Up
<1>u. Running' BY Zenon, <1>e, <1>y, <1>k, <1>o, <1>i, LogEntry
                  DEF LogInv, Running, AtPoint, Up, CommitPoints
<1> QED BY Zenon, <1>e, <1>t, <1>a, <1>c, <1>r, <1>v, <1>u DEF LogInv, NoLogPanic

\* bget recycles only buffers that are clean: a block of the log is pinned.
LEMMA EvictInv ==
  ASSUME LogInv, NEW b \in Blocks, Evict(b)
  PROVE  LogInv'
<1>e. /\ Up /\ pins[b] = 0 /\ cache' = [cache EXCEPT ![b] = NoVal]
      /\ UNCHANGED <<disk, dlog, dhead, pins, lh, outstanding, committing, pc, wrote, tail, mode, crashes>>
  BY Zenon DEF Evict, diskvars, logvars, procvars
<1>y. cache \in [Blocks -> Vals \cup {NoVal}] /\ disk \in [Blocks -> Vals] /\ lh \in Seq(Blocks)
  BY Zenon DEF LogInv, TypeOK
<1>k. \A c \in Blocks : /\ Clean(c) => Clean(c)'
                        /\ Pinned(c) => Pinned(c)' /\ cache'[c] = cache[c]
  BY <1>e, <1>y DEF Clean, Pinned
<1>t. TypeOK' BY Zenon, <1>e, <1>y DEF LogInv, TypeOK
<1>a. CommitAlone' BY Zenon, <1>e DEF LogInv, CommitAlone
<1>o. Ops' = Ops /\ Room' = Room /\ Installing' = Installing BY Zenon, <1>e
    DEF Ops, Room, Installing
<1>c. Counted' BY Zenon, <1>e, <1>o DEF LogInv, Counted
<1>r. Reserved' BY Zenon, <1>e, <1>o DEF LogInv, Reserved
<1>v. Recovering' BY Zenon, <1>e DEF Recovering, Up
<1>u. Running'
  <2>1. \A k \in 1 .. Len(lh) : /\ lh[k] \in Blocks /\ lh[k] \in Range(lh)
                                /\ Installed(k) => Installed(k)'
    BY Zenon, <1>e, <1>y, <1>k, LogEntry DEF Installed, Clean
  <2>2. /\ \A c \in (Blocks \ Range(lh))' : Clean(c)'
        /\ ~Installing' => dhead' = <<>> /\ \A c \in Range(lh)' : Pinned(c)'
        /\ Installing' => dhead' = lh'
        /\ Ops' = {} /\ ~committing' => lh' = <<>>
    BY Zenon, <1>e, <1>y, <1>k, <1>o, LogEntry DEF LogInv, Running
  <2>3. ASSUME NEW p \in Procs PROVE AtPoint(p)'
    <3>1. AtPoint(p) BY Zenon, <1>e DEF LogInv, Running
    <3>2. pc[p] \in {"write_log", "write_head"} => \A c \in Range(lh) : Pinned(c)
      BY Zenon, <1>e DEF LogInv, CommitAlone, CommitPoints, Installing, Running
    <3> QED BY <1>e, <1>k, <2>1, <3>1, <3>2 DEF AtPoint
  <2> QED BY Zenon, <2>2, <2>3, <1>e DEF Running
<1> QED BY Zenon, <1>e, <1>t, <1>a, <1>c, <1>r, <1>v, <1>u DEF LogInv, NoLogPanic

\* log_write does not panic; a block that is new to the log uses up one of the
\* blocks the operation may still write.
LEMMA LogWriteInv ==
  ASSUME LogInv, NEW p \in Procs, NEW b \in Blocks, NEW v \in Vals, log_write(p, b, v)
  PROVE  LogInv'
<1>e. /\ Up /\ pc[p] = "op" /\ Cardinality(wrote[p] \cup {b}) <= OpWrites
      /\ cache' = [cache EXCEPT ![b] = v] /\ wrote' = [wrote EXCEPT ![p] = @ \cup {b}]
      /\ UNCHANGED <<disk, dlog, dhead, outstanding, committing, pc, tail, crashes>>
  BY Zenon DEF log_write, diskvars
<1>p. /\ p \in Ops /\ outstanding >= 1 /\ Len(lh) + 2 <= LOGSIZE /\ Len(lh) + 2 <= Nlog
      /\ IsFiniteSet(Room) /\ Cardinality(Room) \in Nat
  BY Zenon, <1>e, SomeOp
<1>y. /\ cache \in [Blocks -> Vals \cup {NoVal}] /\ lh \in Seq(Blocks) /\ Len(lh) \in Nat
      /\ pins \in [Blocks -> Nat] /\ wrote \in [Procs -> SUBSET Blocks] /\ outstanding \in Nat
  BY DEF LogInv, TypeOK
<1>l. /\ mode' = mode
      /\ IF b \in Range(lh) THEN lh' = lh /\ pins' = pins
         ELSE lh' = Append(lh, b) /\ pins' = [pins EXCEPT ![b] = @ + 1]
  BY <1>p, <1>y, LogAssumption DEF log_write
<1>j. IsInjective(lh) /\ IsInjective(dhead) BY Zenon DEF LogInv
<1>s. /\ lh' \in Seq(Blocks) /\ Range(lh') = Range(lh) \cup {b} /\ IsInjective(lh')
      /\ Len(lh') = Len(lh) + (IF b \in Range(lh) THEN 0 ELSE 1)
  <2>1. CASE b \in Range(lh)
    <3>1. Range(lh) = Range(lh) \cup {b} BY Zenon, <2>1
    <3> QED BY <1>l, <1>y, <1>j, <2>1, <3>1
  <2>2. CASE b \notin Range(lh) BY ZenonT(40), <1>l, <1>y, <1>j, <2>2, LogAppend
  <2> QED BY Zenon, <2>1, <2>2
<1>t. TypeOK'
  <2>1. Len(lh') <= Nlog - 1 BY <1>p, <1>s, <1>y, LogAssumption
  <2>2. pins' \in [Blocks -> Nat]
    <3>1. CASE b \in Range(lh) BY Zenon, <1>l, <1>y, <3>1
    <3>2. CASE b \notin Range(lh) BY <1>l, <1>y, <3>2
    <3> QED BY Zenon, <3>1, <3>2
  <2>3. cache' \in [Blocks -> Vals \cup {NoVal}] /\ wrote' \in [Procs -> SUBSET Blocks] BY Zenon,
      <1>e, <1>y
  <2> QED BY Zenon, <1>e, <1>l, <1>s, <2>1, <2>2, <2>3 DEF LogInv, TypeOK
<1>a. CommitAlone' BY Zenon, <1>e DEF LogInv, CommitAlone
<1>o. Ops' = Ops BY Zenon, <1>e DEF Ops
<1>i. ~Installing /\ ~Installing' /\ \A q \in Procs : pc[q] \notin CommitPoints
  BY Zenon, <1>e, OpAlone DEF Installing
<1>c. Counted' BY Zenon, <1>e, <1>o DEF LogInv, Counted
<1>w. /\ \A q \in Ops : q # p => wrote'[q] = wrote[q]
      /\ wrote'[p] = wrote[p] \cup {b}
  BY Zenon, <1>e, <1>y DEF Ops
<1>f. /\ IsFiniteSet(wrote[p]) /\ IsFiniteSet(wrote'[p])
      /\ Cardinality(wrote[p]) \in Nat /\ Cardinality(wrote'[p]) \in Nat
      /\ Cardinality(wrote[p]) <= Cardinality(wrote'[p]) /\ Cardinality(wrote'[p]) <= OpWrites
      /\ b \notin wrote[p] => Cardinality(wrote'[p]) = Cardinality(wrote[p]) + 1
  <2>1. IsFiniteSet(wrote[p]) BY Zenon, <1>p DEF LogInv, Reserved
  <2>2. /\ IsFiniteSet(wrote'[p])
        /\ Cardinality(wrote'[p]) = IF b \in wrote[p] THEN Cardinality(wrote[p]) ELSE Cardinality(wrote[p]) + 1
    BY Zenon, <2>1, <1>w, FS_AddElement
  <2>3. Cardinality(wrote[p]) \in Nat BY Zenon, <2>1, FS_CardinalityType
  <2>4. Cardinality(wrote'[p]) <= OpWrites BY Zenon, <1>e, <1>w
  <2> QED BY <2>1, <2>2, <2>3, <2>4
<1>r. Reserved'
  <2>1. ASSUME NEW q \in Ops
        PROVE  /\ IsFiniteSet(wrote'[q]) /\ Cardinality(wrote'[q]) <= OpWrites
               /\ wrote'[q] \subseteq Range(lh')
    <3>1. wrote[q] \subseteq Range(lh) /\ IsFiniteSet(wrote[q]) /\ Cardinality(wrote[q]) <= OpWrites
      BY Zenon DEF LogInv, Reserved
    <3> QED BY Zenon, <1>f, <1>s, <1>w, <3>1
  <2>2. Room' \subseteq Room
    <3>1. \A q \in Ops : Cardinality(wrote[q]) \in Nat BY Zenon, FS_CardinalityType
                                                          DEF LogInv, Reserved
    <3>2. ASSUME NEW q \in Ops
          PROVE  Cardinality(wrote'[q]) \in Nat /\ Cardinality(wrote[q]) <= Cardinality(wrote'[q])
      <4>1. CASE q = p BY Zenon, <1>f, <4>1
      <4>2. CASE q # p
        <5>1. wrote'[q] = wrote[q] BY Zenon, <1>w, <4>2
        <5>2. Cardinality(wrote[q]) \in Nat BY Zenon, <3>1
        <5> QED BY <5>1, <5>2
      <4> QED BY Zenon, <4>1, <4>2
    <3> QED BY Zenon, <1>o, <3>1, <3>2, RoomShrinks
  <2>3. Len(lh) + Cardinality(Room) + 2 <= LOGSIZE BY Zenon, <1>p DEF LogInv, Reserved
  <2>4. CASE b \in Range(lh)
    <3>1. Cardinality(Room') \in Nat /\ Cardinality(Room') <= Cardinality(Room)
      BY Zenon, <1>p, <2>2, FS_Subset, FS_CardinalityType
    <3>2. Len(lh') + Cardinality(Room') + 2 <= LOGSIZE
      BY <1>p, <1>s, <1>y, <2>3, <2>4, <3>1, LogAssumption
    <3> QED BY Zenon, <1>o, <2>1, <3>2 DEF Reserved
  <2>5. CASE b \notin Range(lh)
    <3> DEFINE t == <<p, Cardinality(wrote[p]) + 1>>
    <3>1. b \notin wrote[p] BY Zenon, <1>p, <2>5 DEF LogInv, Reserved
    <3>2. t \in Room BY <1>p, <1>f, <3>1, LogAssumption DEF Room
    <3>3. t \notin Room' BY <1>f, <3>1 DEF Room
    <3> HIDE DEF t
    <3>4. IsFiniteSet(Room \ {t}) /\ Cardinality(Room \ {t}) = Cardinality(Room) - 1
      BY Zenon, <1>p, <3>2, FS_RemoveElement
    <3>5. Room' \in SUBSET (Room \ {t}) BY Zenon, <2>2, <3>3
    <3>6. Cardinality(Room') \in Nat /\ Cardinality(Room') <= Cardinality(Room) - 1
      BY <3>4, <3>5, FS_Subset, FS_CardinalityType
    <3>7. Len(lh') + Cardinality(Room') + 2 <= LOGSIZE
      BY <1>p, <1>s, <1>y, <2>3, <2>5, <3>6, LogAssumption
    <3> QED BY <1>o, <2>1, <3>7 DEF Reserved
  <2> QED BY Zenon, <2>4, <2>5
<1>v. Recovering' BY Zenon, <1>e, <1>l DEF Recovering, Up
<1>u. Running'
  <2>1. \A c \in Blocks \ Range(lh) : Clean(c) BY Zenon, <1>e DEF LogInv, Running
  <2>2. dhead = <<>> /\ \A c \in Range(lh) : Pinned(c) BY Zenon, <1>e, <1>i DEF LogInv, Running
  <2>3. \A c \in Blocks \ Range(lh') : Clean(c)'
    BY Zenon, <1>e, <1>l, <1>s, <1>y, <2>1 DEF Clean
  <2>4. ASSUME NEW c \in Range(lh') PROVE Pinned(c)'
    <3>1. c \in Blocks BY Zenon, <1>s, LogEntry
    <3>2. CASE b \in Range(lh)
      <4>1. Pinned(c) BY Zenon, <1>s, <2>2, <3>2
      <4> QED BY Zenon, <1>e, <1>l, <1>y, <3>1, <3>2, <4>1, LogAssumption DEF Pinned
    <3>3. CASE b \notin Range(lh) /\ c # b
      <4>1. Pinned(c) BY Zenon, <1>s, <2>2, <3>3
      <4> QED BY Zenon, <1>e, <1>l, <1>y, <3>1, <3>3, <4>1 DEF Pinned
    <3>4. CASE b \notin Range(lh) /\ c = b
      <4>1. Clean(c) BY Zenon, <2>1, <3>1, <3>4
      <4> QED BY <1>e, <1>l, <1>y, <3>1, <3>4, <4>1, LogAssumption DEF Pinned, Clean
    <3> QED BY Zenon, <3>2, <3>3, <3>4
  <2>5. \A q \in Procs : AtPoint(q)' BY Zenon, <1>e, <1>i DEF AtPoint, CommitPoints
  <2> QED BY Zenon, <1>e, <1>i, <1>o, <1>p, <2>2, <2>3, <2>4, <2>5 DEF Running
<1> QED BY Zenon, <1>e, <1>l, <1>j, <1>s, <1>t, <1>a, <1>c, <1>r, <1>v, <1>u DEF LogInv, NoLogPanic

\* Waking the sleepers of log leaves everything about the log as it was.
LEMMA Woken ==
  ASSUME pc \in [Procs -> Points], NEW p \in Procs, pc[p] \in {"op", "done"}, WakeupAnd(p, "idle")
  PROVE  /\ pc' \in [Procs -> Points] /\ pc'[p] = "idle"
         /\ \A q \in Procs : q # p => /\ pc'[q] \notin {"begin", "sleep"} => pc'[q] = pc[q]
                                      /\ pc'[q] \in {"begin", "sleep"} => pc[q] \in {"begin", "sleep"}
         /\ Installing' = Installing /\ Ops' = Ops \ {p}
BY Zenon DEF WakeupAnd, Points, Installing, Ops

\* end_op of an operation that is not the last.
LEMMA EndOpInv ==
  ASSUME LogInv, NEW p \in Procs, end_op(p), outstanding # 1
  PROVE  LogInv'
<1>p. /\ pc[p] = "op" /\ p \in Ops /\ outstanding >= 1 /\ ~committing
      /\ IsFiniteSet(Room) /\ Cardinality(Room) \in Nat
  BY Zenon, SomeOp DEF end_op
<1>e. /\ Up /\ outstanding' = outstanding - 1 /\ WakeupAnd(p, "idle")
      /\ UNCHANGED <<disk, dlog, dhead, cache, pins, lh, committing, wrote, tail, mode, crashes>>
  BY Zenon, <1>p DEF end_op, diskvars, memvars
<1>y. pc \in [Procs -> Points] /\ outstanding \in Nat BY Zenon DEF LogInv, TypeOK
<1>w. /\ pc' \in [Procs -> Points] /\ pc'[p] = "idle"
      /\ \A q \in Procs : q # p => /\ pc'[q] \notin {"begin", "sleep"} => pc'[q] = pc[q]
                                   /\ pc'[q] \in {"begin", "sleep"} => pc[q] \in {"begin", "sleep"}
      /\ Installing' = Installing /\ Ops' = Ops \ {p}
  BY Zenon, <1>e, <1>p, <1>y, Woken
<1>n. ~Installing /\ \A q \in Procs : pc[q] \notin CommitPoints BY Zenon, <1>p, OpAlone
<1>m. \A q \in Procs : pc'[q] \notin CommitPoints BY Zenon, <1>w, <1>n DEF CommitPoints
<1>f. IsFiniteSet(Ops') /\ Cardinality(Ops') = outstanding'
  BY Zenon, <1>e, <1>p, <1>w, FS_RemoveElement DEF LogInv, Counted
<1>t. TypeOK' BY <1>e, <1>w, <1>y, <1>p DEF LogInv, TypeOK
<1>a. CommitAlone' BY Zenon, <1>m DEF CommitAlone
<1>c. Counted' BY Zenon, <1>e, <1>f, <1>m, <1>p DEF Counted
<1>r. Reserved'
  <2>1. \A q \in Ops : Cardinality(wrote[q]) \in Nat BY Zenon, FS_CardinalityType
                                                        DEF LogInv, Reserved
  <2>2. Room' \subseteq Room BY <1>e, <1>w, <2>1, RoomShrinks
  <2>3. Cardinality(Room') \in Nat /\ Cardinality(Room') <= Cardinality(Room)
    BY Zenon, <1>p, <2>2, FS_Subset, FS_CardinalityType
  <2>4. Len(lh) + Cardinality(Room) + 2 <= LOGSIZE BY Zenon, <1>p DEF LogInv, Reserved
  <2>5. Len(lh) + Cardinality(Room') + 2 <= LOGSIZE
    <3>1. Len(lh) \in Nat BY DEF LogInv, TypeOK
    <3> QED BY <3>1, <1>p, <2>3, <2>4, LogAssumption
  <2> QED BY Zenon, <1>e, <1>w, <2>5 DEF LogInv, Reserved
<1>v. Recovering' BY Zenon, <1>e DEF Recovering, Up
<1>u. Running'
  <2>1. Ops' # {} BY <1>e, <1>f, <1>p, <1>y, FS_EmptySet
  <2>2. \A q \in Procs : AtPoint(q)' BY Zenon, <1>m DEF AtPoint, CommitPoints
  <2> QED BY Zenon, <1>e, <1>w, <1>n, <2>1, <2>2 DEF LogInv, Running, Clean, Pinned, Up
<1> QED BY Zenon, <1>e, <1>t, <1>a, <1>c, <1>r, <1>v, <1>u DEF LogInv, NoLogPanic

\* end_op of the last operation: it becomes the only one to commit.
LEMMA EndLastInv ==
  ASSUME LogInv, NEW p \in Procs, end_op(p), outstanding = 1
  PROVE  LogInv'
<1>p. pc[p] = "op" /\ p \in Ops /\ ~committing BY Zenon, SomeOp DEF end_op
<1>e. /\ Up /\ outstanding' = 0 /\ committing' = TRUE /\ tail' = 1
      /\ pc' = [pc EXCEPT ![p] = IF lh = <<>> THEN "done" ELSE "write_log"]
      /\ UNCHANGED <<disk, dlog, dhead, cache, pins, lh, wrote, mode, crashes>>
  BY <1>p DEF end_op, Goto, diskvars, memvars
<1>y. pc \in [Procs -> Points] /\ lh \in Seq(Blocks) BY Zenon DEF LogInv, TypeOK
<1>n. ~Installing /\ \A q \in Procs : pc[q] \notin CommitPoints BY Zenon, <1>p, OpAlone
<1>s. Ops = {p}
  <2>1. \E x \in Ops : Ops = {x} BY Zenon, FS_Singleton DEF LogInv, Counted
  <2> QED BY Zenon, <2>1, <1>p
<1>o. Ops' = {} BY Zenon, <1>e, <1>y, <1>s DEF Ops
<1>i. ~Installing' BY Zenon, <1>e, <1>y, <1>n DEF Installing
<1>t. TypeOK' BY Zenon, <1>e, <1>y DEF LogInv, TypeOK, Points
<1>a. CommitAlone'
  <2>1. \A q \in Procs \ {p} : pc'[q] \notin CommitPoints \cup {"op"}
    BY Zenon, <1>e, <1>y, <1>n, <1>s DEF Ops
  <2> QED BY Zenon, <2>1 DEF CommitAlone
<1>c. Counted'
  <2>1. pc'[p] \in CommitPoints BY Zenon, <1>e, <1>y DEF CommitPoints
  <2> QED BY Zenon, <1>e, <1>o, <2>1, FS_EmptySet DEF Counted
<1>r. Reserved' BY Zenon, <1>o DEF Reserved
<1>v. Recovering' BY Zenon, <1>e DEF Recovering, Up
<1>u. Running'
  <2>1. ASSUME NEW q \in Procs PROVE AtPoint(q)'
    <3>1. q # p => pc'[q] \notin CommitPoints BY Zenon, <1>e, <1>y, <1>n
    <3>2. pc'[p] = IF lh = <<>> THEN "done" ELSE "write_log" BY Zenon, <1>e, <1>y
    <3>3. lh # <<>> => tail' \in 1 .. Len(lh) BY <1>e, <1>y, LogEntry
    <3>4. \A k \in 1 .. Len(lh) : ~(k < tail') BY <1>e
    <3> QED BY <1>e, <3>1, <3>2, <3>3, <3>4 DEF AtPoint, CommitPoints
  <2> QED BY Zenon, <1>e, <1>n, <1>i, <2>1 DEF LogInv, Running, Clean, Pinned, Up
<1> QED BY Zenon, <1>e, <1>t, <1>a, <1>c, <1>r, <1>v, <1>u DEF LogInv, NoLogPanic

\* The committer is alone.
LEMMA Alone ==
  ASSUME LogInv, NEW p \in Procs, pc[p] \in CommitPoints
  PROVE  /\ Ops = {} /\ committing /\ outstanding = 0
         /\ \A q \in Procs \ {p} : pc[q] \notin CommitPoints \cup {"op"}
<1>1. Ops = {} /\ committing BY Zenon DEF LogInv, Counted
<1>2. outstanding = 0 BY Zenon, <1>1, FS_EmptySet DEF LogInv, Counted
<1> QED BY Zenon, <1>1, <1>2 DEF LogInv, CommitAlone

\* A step that moves the committer from one point of commit() to the next
\* keeps what does not depend on the point.
LEMMA CommitMove ==
  ASSUME LogInv, NEW p \in Procs, pc[p] \in CommitPoints, NEW l \in CommitPoints,
         pc' = [pc EXCEPT ![p] = l], UNCHANGED <<outstanding, committing>>
  PROVE  /\ pc' \in [Procs -> Points] /\ pc'[p] = l
         /\ CommitAlone' /\ Counted' /\ Reserved' /\ Ops' = {} /\ committing'
         /\ Installing' <=> l \in {"install", "clear"}
         /\ \A q \in Procs \ {p} : pc'[q] = pc[q] /\ pc'[q] \notin CommitPoints
<1>y. pc \in [Procs -> Points] /\ l \in Points BY Zenon DEF LogInv, TypeOK, Points, CommitPoints
<1>l. Ops = {} /\ committing /\ outstanding = 0
      /\ \A q \in Procs \ {p} : pc[q] \notin CommitPoints \cup {"op"}
  BY Zenon, Alone
<1>1. /\ pc' \in [Procs -> Points] /\ pc'[p] = l
      /\ \A q \in Procs \ {p} : pc'[q] = pc[q] /\ pc'[q] \notin CommitPoints \cup {"op"}
  BY Zenon, <1>y, <1>l
<1>2. Ops' = {} BY Zenon, <1>1 DEF Ops, CommitPoints
<1>3. CommitAlone' BY Zenon, <1>1 DEF CommitAlone
<1>4. Counted' BY Zenon, <1>1, <1>2, <1>l, FS_EmptySet DEF Counted
<1>5. Reserved' BY Zenon, <1>2 DEF Reserved
<1>6. Installing' <=> l \in {"install", "clear"} BY Zenon, <1>1 DEF Installing, CommitPoints
<1> QED BY Zenon, <1>1, <1>2, <1>3, <1>4, <1>5, <1>6, <1>l

\* write_log copies a block of the cache, which is pinned, to its log block.
LEMMA WriteLogInv ==
  ASSUME LogInv, NEW p \in Procs, write_log(p)
  PROVE  LogInv'
<1> DEFINE l == IF tail = Len(lh) THEN "write_head" ELSE "write_log"
<1>y. /\ lh \in Seq(Blocks) /\ Len(lh) \in Nat /\ Len(lh) <= Nlog - 1 /\ tail \in Nat
      /\ pc \in [Procs -> Points] /\ cache \in [Blocks -> Vals \cup {NoVal}]
      /\ dlog \in [1 .. Nlog - 1 -> Vals] /\ IsInjective(lh)
  BY DEF LogInv, TypeOK
<1>p. Up /\ pc[p] = "write_log" /\ pc[p] \in CommitPoints BY Zenon DEF write_log, CommitPoints
<1>g. /\ ~Installing /\ dhead = <<>> /\ \A c \in Range(lh) : Pinned(c)
      /\ AtPoint(p)
  <2>1. ~Installing BY Zenon, <1>p, Alone DEF Installing, CommitPoints
  <2> QED BY Zenon, <2>1, <1>p DEF LogInv, Running
<1>k. tail \in 1 .. Len(lh) /\ \A k \in 1 .. Len(lh) : k < tail => dlog[k] = cache[lh[k]]
  BY Zenon, <1>g, <1>p DEF AtPoint
<1>b. lh[tail] \in Blocks /\ lh[tail] \in Range(lh) /\ Cached(lh[tail]) = cache[lh[tail]]
      /\ cache[lh[tail]] \in Vals
  <2>1. lh[tail] \in Blocks /\ lh[tail] \in Range(lh) BY Zenon, <1>k, <1>y, LogEntry
  <2>2. cache[lh[tail]] # NoVal BY Zenon, <1>g, <2>1 DEF Pinned
  <2> QED BY Zenon, <2>1, <2>2, <1>y DEF Cached
<1>e. /\ dlog' = [dlog EXCEPT ![tail] = cache[lh[tail]]] /\ cache' = cache
      /\ tail' = (IF tail = Len(lh) THEN 1 ELSE tail + 1) /\ pc' = [pc EXCEPT ![p] = l]
      /\ UNCHANGED <<disk, dhead, pins, lh, outstanding, committing, wrote, mode, crashes>>
  <2>1. cache' = cache BY Zenon, <1>b, <1>y DEF write_log
  <2>2. pc' = [pc EXCEPT ![p] = l] BY Zenon, <1>p, <1>y DEF write_log, Goto
  <2> QED BY Zenon, <1>b, <2>1, <2>2 DEF write_log, logvars
<1>l. l \in CommitPoints BY Zenon DEF CommitPoints
<1>m. /\ pc' \in [Procs -> Points] /\ pc'[p] = l
      /\ CommitAlone' /\ Counted' /\ Reserved' /\ Ops' = {} /\ committing'
      /\ Installing' <=> l \in {"install", "clear"}
      /\ \A q \in Procs \ {p} : pc'[q] = pc[q] /\ pc'[q] \notin CommitPoints
  BY Zenon, <1>p, <1>e, <1>l, CommitMove
<1>d. /\ dlog' \in [1 .. Nlog - 1 -> Vals]
      /\ \A k \in 1 .. Len(lh) : k <= tail => dlog'[k] = cache[lh[k]]
  BY <1>e, <1>k, <1>b, <1>y, LogAssumption
<1>t. TypeOK' BY <1>e, <1>m, <1>d, <1>y DEF LogInv, TypeOK
<1>v. Recovering' BY Zenon, <1>e, <1>p DEF Recovering, Up
<1>u. Running'
  <2>1. ASSUME NEW q \in Procs PROVE AtPoint(q)'
    <3>1. CASE q # p BY Zenon, <1>m, <3>1 DEF AtPoint, CommitPoints
    <3>2. CASE q = p /\ tail = Len(lh)
      <4>1. \A k \in 1 .. Len(lh) : dlog'[k] = cache[lh[k]] BY <1>d, <3>2, <1>y
      <4>2. lh # <<>> BY <1>k, EmptyLog
      <4> QED BY Zenon, <1>e, <1>m, <3>2, <4>1, <4>2 DEF AtPoint
    <3>3. CASE q = p /\ tail # Len(lh)
      <4>1. tail' \in 1 .. Len(lh) /\ \A k \in 1 .. Len(lh) : k < tail' => dlog'[k] = cache[lh[k]]
        BY <1>d, <1>e, <1>k, <3>3, <1>y
      <4> QED BY Zenon, <1>e, <1>m, <3>3, <4>1 DEF AtPoint
    <3> QED BY Zenon, <3>1, <3>2, <3>3
  <2> QED BY Zenon, <1>e, <1>m, <1>g, <2>1 DEF LogInv, Running, Clean, Pinned, Up
<1> QED BY Zenon, <1>e, <1>y, <1>m, <1>t, <1>v, <1>u DEF LogInv, NoLogPanic

\* write_head: the header names the blocks that are all in the log.
LEMMA WriteHeadInv ==
  ASSUME LogInv, NEW p \in Procs, write_head(p)
  PROVE  LogInv'
<1>y. lh \in Seq(Blocks) /\ IsInjective(lh) /\ Len(lh) <= Nlog - 1 BY Zenon DEF LogInv, TypeOK
<1>p. Up /\ pc[p] = "write_head" /\ pc[p] \in CommitPoints BY Zenon DEF write_head, CommitPoints
<1>e. /\ dhead' = lh /\ pc' = [pc EXCEPT ![p] = "install"]
      /\ UNCHANGED <<disk, dlog, cache, pins, lh, outstanding, committing, wrote, tail, mode, crashes>>
  BY Zenon DEF write_head, Goto, memvars, logvars
<1>g. (\A c \in Range(lh) : Pinned(c)) /\ AtPoint(p)
  <2>1. ~Installing BY Zenon, <1>p, Alone DEF Installing, CommitPoints
  <2> QED BY Zenon, <2>1, <1>p DEF LogInv, Running
<1>l. "install" \in CommitPoints BY Zenon DEF CommitPoints
<1>m. /\ pc' \in [Procs -> Points] /\ pc'[p] = "install"
      /\ CommitAlone' /\ Counted' /\ Reserved' /\ Ops' = {} /\ committing'
      /\ Installing'
      /\ \A q \in Procs \ {p} : pc'[q] = pc[q] /\ pc'[q] \notin CommitPoints
  BY Zenon, <1>p, <1>e, <1>l, CommitMove
<1>t. TypeOK' BY Zenon, <1>e, <1>m, <1>y DEF LogInv, TypeOK
<1>v. Recovering' BY Zenon, <1>e, <1>p DEF Recovering, Up
<1>u. Running'
  <2>1. ASSUME NEW q \in Procs PROVE AtPoint(q)'
    <3>1. CASE q # p BY Zenon, <1>m, <3>1 DEF AtPoint, CommitPoints
    <3>2. CASE q = p
      <4>1. tail = 1 /\ lh # <<>> /\ \A k \in 1 .. Len(lh) : dlog[k] = cache[lh[k]]
        BY Zenon, <1>g, <1>p DEF AtPoint
      <4>2. 1 \in 1 .. Len(lh) BY <1>y, <4>1, LogEntry
      <4>3. \A k \in 1 .. Len(lh) : ~(k < 1) /\ Pinned(lh[k])' BY <1>e, <1>g, <1>y, LogEntry
          DEF Pinned
      <4> QED BY Zenon, <1>e, <1>m, <3>2, <4>1, <4>2, <4>3 DEF AtPoint
    <3> QED BY Zenon, <3>1, <3>2
  <2> QED BY Zenon, <1>e, <1>m, <2>1 DEF LogInv, Running, Clean, Up
<1> QED BY Zenon, <1>e, <1>y, <1>m, <1>t, <1>v, <1>u DEF LogInv, NoLogPanic

\* One block of the log is copied to its home location, in the cache and on
\* disk, and its pin is taken: it is installed, and the other blocks are as
\* they were.
LEMMA InstallOne ==
  ASSUME LogInv, tail \in 1 .. Len(lh),
         disk' = [disk EXCEPT ![lh[tail]] = dlog[tail]],
         cache' = [cache EXCEPT ![lh[tail]] = dlog[tail]],
         pins' = [pins EXCEPT ![lh[tail]] = 0],
         UNCHANGED <<dlog, lh>>
  PROVE  /\ disk' \in [Blocks -> Vals] /\ cache' \in [Blocks -> Vals \cup {NoVal}]
         /\ pins' \in [Blocks -> Nat]
         /\ \A k \in 1 .. Len(lh) : k = tail => Installed(k)'
         /\ \A k \in 1 .. Len(lh) : k # tail =>
              /\ Installed(k) => Installed(k)'
              /\ Pinned(lh[k]) /\ cache[lh[k]] = dlog[k] =>
                   Pinned(lh[k])' /\ cache'[lh'[k]] = dlog'[k]
         /\ \A b \in Blocks : Clean(b) => Clean(b)'
<1>y. /\ lh \in Seq(Blocks) /\ Len(lh) \in Nat /\ Len(lh) <= Nlog - 1
      /\ disk \in [Blocks -> Vals] /\ cache \in [Blocks -> Vals \cup {NoVal}]
      /\ pins \in [Blocks -> Nat] /\ dlog \in [1 .. Nlog - 1 -> Vals] /\ IsInjective(lh)
  BY DEF LogInv, TypeOK
<1>b. lh[tail] \in Blocks /\ dlog[tail] \in Vals BY <1>y, LogEntry, LogAssumption
<1>1. /\ disk' \in [Blocks -> Vals] /\ cache' \in [Blocks -> Vals \cup {NoVal}]
      /\ pins' \in [Blocks -> Nat]
  BY Zenon, <1>y, <1>b
<1>2. \A k \in 1 .. Len(lh) : k = tail => Installed(k)'
  <2>1. disk'[lh[tail]] = dlog[tail] /\ cache'[lh[tail]] = dlog[tail] /\ pins'[lh[tail]] = 0
    BY Zenon, <1>y, <1>b
  <2> QED BY Zenon, <2>1 DEF Installed, Clean
<1>3. ASSUME NEW k \in 1 .. Len(lh), k # tail
      PROVE  /\ Installed(k) => Installed(k)'
             /\ Pinned(lh[k]) /\ cache[lh[k]] = dlog[k] =>
                  Pinned(lh[k])' /\ cache'[lh'[k]] = dlog'[k]
  <2>1. lh[k] \in Blocks /\ lh[k] # lh[tail] BY <1>3, <1>y, LogEntry DEF IsInjective
  <2>2. disk'[lh[k]] = disk[lh[k]] /\ cache'[lh[k]] = cache[lh[k]] /\ pins'[lh[k]] = pins[lh[k]]
    BY Zenon, <2>1, <1>y
  <2> QED BY Zenon, <2>2 DEF Installed, Clean, Pinned
<1>4. \A b \in Blocks : Clean(b) => Clean(b)' BY Zenon, <1>y, <1>b DEF Clean
<1> QED BY Zenon, <1>1, <1>2, <1>3, <1>4

\* The loop of install_trans: after its last block all blocks are installed.
LEMMA InstallInv ==
  ASSUME LogInv, NEW p \in Procs, install_trans(p)
  PROVE  LogInv'
<1> DEFINE l == IF tail = Len(lh) THEN "clear" ELSE "install"
<1>y. /\ lh \in Seq(Blocks) /\ Len(lh) \in Nat /\ pc \in [Procs -> Points]
      /\ pins \in [Blocks -> Nat] /\ tail \in Nat
  BY DEF LogInv, TypeOK
<1>p. Up /\ pc[p] = "install" /\ pc[p] \in CommitPoints BY Zenon DEF install_trans, CommitPoints
<1>k. /\ tail \in 1 .. Len(lh)
      /\ \A k \in 1 .. Len(lh) : IF k < tail THEN Installed(k)
                                 ELSE Pinned(lh[k]) /\ cache[lh[k]] = dlog[k]
  BY Zenon, <1>p DEF LogInv, Running, AtPoint
<1>e. /\ disk' = [disk EXCEPT ![lh[tail]] = dlog[tail]]
      /\ cache' = [cache EXCEPT ![lh[tail]] = dlog[tail]]
      /\ pins' = [pins EXCEPT ![lh[tail]] = 0]
      /\ tail' = (IF tail = Len(lh) THEN 1 ELSE tail + 1) /\ pc' = [pc EXCEPT ![p] = l]
      /\ UNCHANGED <<dlog, dhead, lh, outstanding, committing, wrote, mode, crashes>>
  <2>1. pins[lh[tail]] - 1 = 0 BY <1>k, <1>y DEF Pinned
  <2>2. pc' = [pc EXCEPT ![p] = l] BY Zenon, <1>p, <1>y DEF install_trans, Goto
  <2>3. pins' = [pins EXCEPT ![lh[tail]] = @ - 1] BY Zenon DEF install_trans
  <2>4. pins' = [pins EXCEPT ![lh[tail]] = 0] BY Zenon, <2>1, <2>3
  <2> QED BY Zenon, <2>2, <2>4 DEF install_trans, logvars
<1>g. dhead = lh /\ \A c \in Blocks \ Range(lh) : Clean(c)
  <2>1. Installing BY Zenon, <1>p DEF Installing
  <2> QED BY Zenon, <2>1, <1>p DEF LogInv, Running
<1>l. l \in CommitPoints BY Zenon DEF CommitPoints
<1>m. /\ pc' \in [Procs -> Points] /\ pc'[p] = l
      /\ CommitAlone' /\ Counted' /\ Reserved' /\ Ops' = {} /\ committing'
      /\ Installing' <=> l \in {"install", "clear"}
      /\ \A q \in Procs \ {p} : pc'[q] = pc[q] /\ pc'[q] \notin CommitPoints
  BY Zenon, <1>p, <1>e, <1>l, CommitMove
<1>i. /\ disk' \in [Blocks -> Vals] /\ cache' \in [Blocks -> Vals \cup {NoVal}]
      /\ pins' \in [Blocks -> Nat]
      /\ \A k \in 1 .. Len(lh) : k = tail => Installed(k)'
      /\ \A k \in 1 .. Len(lh) : k # tail =>
           /\ Installed(k) => Installed(k)'
           /\ Pinned(lh[k]) /\ cache[lh[k]] = dlog[k] =>
                Pinned(lh[k])' /\ cache'[lh'[k]] = dlog'[k]
      /\ \A b \in Blocks : Clean(b) => Clean(b)'
  BY ZenonT(60), <1>e, <1>k, InstallOne
<1>t. TypeOK'
  <2>1. pc' \in [Procs -> Points] /\ committing' BY Zenon, <1>m
  <2>2. /\ disk' \in [Blocks -> Vals] /\ cache' \in [Blocks -> Vals \cup {NoVal}]
        /\ pins' \in [Blocks -> Nat]
    BY Zenon, <1>i
  <2> QED BY <2>1, <2>2, <1>e, <1>y DEF LogInv, TypeOK
<1>v. Recovering' BY Zenon, <1>e, <1>p DEF Recovering, Up
<1>u. Running'
  <2>1. ASSUME NEW q \in Procs PROVE AtPoint(q)'
    <3>1. CASE q # p BY Zenon, <1>m, <3>1 DEF AtPoint, CommitPoints
    <3>2. CASE q = p /\ tail = Len(lh)
      <4>1. ASSUME NEW k \in 1 .. Len(lh) PROVE Installed(k)'
        <5>1. k = tail \/ k < tail BY <3>2, <1>y
        <5> QED BY <5>1, <1>i, <1>k, <1>y
      <4> QED BY Zenon, <1>e, <1>m, <3>2, <4>1 DEF AtPoint
    <3>3. CASE q = p /\ tail # Len(lh)
      <4>1. tail' \in 1 .. Len(lh) /\ tail' = tail + 1 BY <1>e, <1>k, <3>3, <1>y
      <4>2. ASSUME NEW k \in 1 .. Len(lh)
            PROVE  IF k < tail' THEN Installed(k)'
                   ELSE Pinned(lh[k])' /\ cache'[lh'[k]] = dlog'[k]
        <5>1. CASE k = tail BY <1>i, <1>y, <4>1, <5>1
        <5>2. CASE k < tail
          <6>1. Installed(k)' BY Zenon, <1>i, <1>k, <1>y, <5>2
          <6>2. k < tail' BY <4>1, <1>y, <5>2
          <6> QED BY ZenonT(60), <6>1, <6>2
        <5>3. CASE k > tail
          <6>1. Pinned(lh[k])' /\ cache'[lh'[k]] = dlog'[k] BY <1>i, <1>k, <1>y, <5>3
          <6>2. ~(k < tail') BY <4>1, <1>y, <5>3
          <6> QED BY ZenonT(60), <6>1, <6>2
        <5> QED BY <5>1, <5>2, <5>3, <1>y
      <4> QED BY Zenon, <1>e, <1>m, <3>3, <4>1, <4>2 DEF AtPoint
    <3> QED BY <3>1, <3>2, <3>3
  <2> QED BY Zenon, <1>e, <1>m, <1>g, <1>i, <2>1 DEF Running
<1> QED BY Zenon, <1>e, <1>m, <1>t, <1>v, <1>u DEF LogInv, NoLogPanic

\* The header is cleared when every block of the log is at home.
LEMMA ClearInv ==
  ASSUME LogInv, NEW p \in Procs, clear_head(p)
  PROVE  LogInv'
<1>y. lh \in Seq(Blocks) BY Zenon DEF LogInv, TypeOK
<1>p. Up /\ pc[p] = "clear" /\ pc[p] \in CommitPoints BY Zenon DEF clear_head, CommitPoints
<1>e. /\ dhead' = <<>> /\ lh' = <<>> /\ pc' = [pc EXCEPT ![p] = "done"]
      /\ UNCHANGED <<disk, dlog, cache, pins, outstanding, committing, wrote, tail, mode, crashes>>
  BY Zenon DEF clear_head, Goto, memvars
<1>l. "done" \in CommitPoints BY Zenon DEF CommitPoints
<1>m. /\ pc' \in [Procs -> Points] /\ pc'[p] = "done"
      /\ CommitAlone' /\ Counted' /\ Reserved' /\ Ops' = {} /\ committing'
      /\ ~Installing'
      /\ \A q \in Procs \ {p} : pc'[q] = pc[q] /\ pc'[q] \notin CommitPoints
  BY Zenon, <1>p, <1>e, <1>l, CommitMove
<1>s. <<>> \in Seq(Blocks) /\ Len(<<>>) <= Nlog - 1 BY EmptyLog, LogAssumption, ReserveAssumption
<1>t. TypeOK' BY Zenon, <1>e, <1>m, <1>s DEF LogInv, TypeOK
<1>v. Recovering' BY ZenonT(60), <1>e, <1>p DEF Recovering, Up
<1>u. Running'
  <2>1. \A q \in Procs : AtPoint(q)' BY Zenon, <1>e, <1>m DEF AtPoint, CommitPoints
  <2>2. ASSUME NEW b \in Blocks PROVE Clean(b)
    <3>1. \A k \in 1 .. Len(lh) : Installed(k) BY Zenon, <1>p DEF LogInv, Running, AtPoint
    <3>2. CASE b \in Range(lh) BY Zenon, <1>y, <3>1, <3>2, LogEntry DEF Installed
    <3>3. CASE b \notin Range(lh) BY Zenon, <1>p, <3>3 DEF LogInv, Running
    <3> QED BY ZenonT(60), <3>2, <3>3
  <2> QED BY Zenon, <1>e, <1>m, <2>1, <2>2, EmptyLog DEF Running, Clean
<1> QED BY Zenon, <1>e, <1>m, <1>t, <1>v, <1>u, EmptyLog DEF LogInv, NoLogPanic

\* end_op after commit(): nobody commits any more, and the log is empty.
LEMMA EndCommitInv ==
  ASSUME LogInv, NEW p \in Procs, end_commit(p)
  PROVE  LogInv'
<1>p. Up /\ pc[p] = "done" /\ pc[p] \in CommitPoints BY Zenon DEF end_commit, CommitPoints
<1>e. /\ committing' = FALSE /\ WakeupAnd(p, "idle")
      /\ UNCHANGED <<disk, dlog, dhead, cache, pins, lh, outstanding, wrote, tail, mode, crashes>>
  BY Zenon DEF end_commit, diskvars, memvars
<1>y. pc \in [Procs -> Points] BY Zenon DEF LogInv, TypeOK
<1>l. /\ Ops = {} /\ outstanding = 0
      /\ \A q \in Procs \ {p} : pc[q] \notin CommitPoints \cup {"op"}
  BY Zenon, <1>p, Alone
<1>w. /\ pc' \in [Procs -> Points] /\ pc'[p] = "idle"
      /\ \A q \in Procs : q # p => /\ pc'[q] \notin {"begin", "sleep"} => pc'[q] = pc[q]
                                   /\ pc'[q] \in {"begin", "sleep"} => pc[q] \in {"begin", "sleep"}
      /\ Installing' = Installing /\ Ops' = Ops \ {p}
  BY Zenon, <1>e, <1>p, <1>y, Woken
<1>m. \A q \in Procs : pc'[q] \notin CommitPoints BY Zenon, <1>w, <1>l DEF CommitPoints
<1>o. Ops' = {} /\ ~Installing /\ ~Installing' BY Zenon, <1>w, <1>l, <1>m
                                                  DEF Installing, CommitPoints
<1>t. TypeOK' BY Zenon, <1>e, <1>w DEF LogInv, TypeOK
<1>a. CommitAlone' BY Zenon, <1>m DEF CommitAlone
<1>c. Counted' BY Zenon, <1>e, <1>m, <1>o, <1>l, FS_EmptySet DEF Counted
<1>r. Reserved' BY Zenon, <1>o DEF Reserved
<1>v. Recovering' BY Zenon, <1>e, <1>p DEF Recovering, Up
<1>u. Running'
  <2>1. lh = <<>> BY Zenon, <1>p DEF LogInv, Running, AtPoint
  <2>2. \A q \in Procs : AtPoint(q)' BY Zenon, <1>m DEF AtPoint, CommitPoints
  <2> QED BY Zenon, <1>e, <1>p, <1>o, <2>1, <2>2 DEF LogInv, Running, Clean, Pinned, Up
<1> QED BY Zenon, <1>e, <1>t, <1>a, <1>c, <1>r, <1>v, <1>u DEF LogInv, NoLogPanic

\* A crash, wherever it happens, leaves a state that recovery starts from.
LEMMA CrashInv == ASSUME LogInv, Crash PROVE LogInv'
<1>e. /\ crashes' = crashes + 1 /\ cache' = [b \in Blocks |-> NoVal] /\ pins' = [b \in Blocks |-> 0]
      /\ lh' = <<>> /\ outstanding' = 0 /\ committing' = FALSE /\ pc' = [p \in Procs |-> "idle"]
      /\ wrote' = [p \in Procs |-> {}] /\ tail' = 1 /\ mode' = "boot"
      /\ UNCHANGED <<disk, dlog, dhead>>
  BY Zenon DEF Crash, diskvars
<1>s. <<>> \in Seq(Blocks) /\ Len(<<>>) <= Nlog - 1 BY EmptyLog, LogAssumption, ReserveAssumption
<1>i. \A q \in Procs : pc'[q] = "idle" BY Zenon, <1>e
<1>m. CommitAlone' /\ Counted' /\ Reserved'
  <2>1. Ops' = {} /\ \A q \in Procs : pc'[q] \notin CommitPoints BY Zenon, <1>i
      DEF Ops, CommitPoints
  <2> QED BY Zenon, <1>e, <2>1, FS_EmptySet DEF CommitAlone, Counted, Reserved
<1>t. TypeOK'
  <2>1. /\ cache' \in [Blocks -> Vals \cup {NoVal}] /\ pins' \in [Blocks -> Nat]
        /\ pc' \in [Procs -> Points] /\ wrote' \in [Procs -> SUBSET Blocks]
    BY Zenon, <1>e DEF Points
  <2>2. crashes' \in Nat /\ outstanding' \in Nat /\ tail' \in Nat BY <1>e DEF LogInv, TypeOK
  <2>3. /\ disk' \in [Blocks -> Vals] /\ dlog' \in [1 .. Nlog - 1 -> Vals]
        /\ dhead' \in Seq(Blocks) /\ Len(dhead') <= Nlog - 1
    BY Zenon, <1>e DEF LogInv, TypeOK
  <2> QED BY Zenon, <1>e, <1>s, <2>1, <2>2, <2>3 DEF TypeOK
<1>v. Recovering' BY Zenon, <1>e, <1>i DEF Recovering, Clean
<1>u. Running' BY Zenon, <1>e DEF Running, Up
<1> QED BY Zenon, <1>e, <1>m, <1>t, <1>v, <1>u, EmptyLog DEF LogInv, NoLogPanic

\* read_head.
LEMMA ReadHeadInv == ASSUME LogInv, read_head PROVE LogInv'
<1>e. /\ mode = "boot" /\ lh' = dhead /\ mode' = (IF dhead = <<>> THEN "clear" ELSE "install")
      /\ UNCHANGED <<disk, dlog, dhead, cache, pins, outstanding, committing, pc, wrote, tail, crashes>>
  BY Zenon DEF read_head, diskvars, memvars, procvars
<1>y. dhead \in Seq(Blocks) /\ Len(dhead) <= Nlog - 1 /\ IsInjective(dhead) BY Zenon
    DEF LogInv, TypeOK
<1>g. (\A q \in Procs : pc[q] = "idle") /\ (\A b \in Blocks : Clean(b)) /\ tail = 1
  BY Zenon, <1>e DEF LogInv, Recovering
<1>t. TypeOK' BY Zenon, <1>e, <1>y DEF LogInv, TypeOK
<1>m. CommitAlone' /\ Counted' /\ Reserved'
  <2>1. Ops' = Ops /\ Ops = {} BY Zenon, <1>e, <1>g DEF Ops
  <2> QED BY Zenon, <1>e, <2>1 DEF LogInv, CommitAlone, Counted, Reserved
<1>v. Recovering'
  <2>1. mode' = "install" => 1 \in 1 .. Len(lh') BY <1>e, <1>y, LogEntry
  <2>2. \A k \in 1 .. Len(lh') : ~(k < 1) OBVIOUS
  <2>3. mode' = "clear" => 1 .. Len(lh') = {} BY <1>e, EmptyLog
  <2>4. (\A b \in Blocks : Clean(b)') /\ (\A q \in Procs : pc'[q] = "idle") BY Zenon, <1>e,
      <1>g DEF Clean
  <2>5. mode' # "boot" /\ lh' = dhead' /\ tail' = 1 BY Zenon, <1>e, <1>g
  <2>6. mode' = "clear" => \A k \in 1 .. Len(lh') : Installed(k)' BY Zenon, <2>3
  <2> QED BY Zenon, <2>1, <2>2, <2>4, <2>5, <2>6 DEF Recovering
<1>u. Running' BY Zenon, <1>e DEF Running, Up
<1> QED BY Zenon, <1>e, <1>y, <1>m, <1>t, <1>v, <1>u DEF LogInv, NoLogPanic

\* install_trans(1): recovery installs as commit does; no buffer is pinned.
LEMMA RecoverInstallInv == ASSUME LogInv, recover_install PROVE LogInv'
<1>y. /\ lh \in Seq(Blocks) /\ Len(lh) \in Nat /\ tail \in Nat /\ pins \in [Blocks -> Nat]
  BY DEF LogInv, TypeOK
<1>p. mode = "install" BY Zenon DEF recover_install
<1>g. /\ \A q \in Procs : pc[q] = "idle"
      /\ \A b \in Blocks : Clean(b)
      /\ lh = dhead /\ tail \in 1 .. Len(lh)
      /\ \A k \in 1 .. Len(lh) : k < tail => Installed(k)
  BY Zenon, <1>p DEF LogInv, Recovering
<1>e. /\ disk' = [disk EXCEPT ![lh[tail]] = dlog[tail]]
      /\ cache' = [cache EXCEPT ![lh[tail]] = dlog[tail]]
      /\ pins' = [pins EXCEPT ![lh[tail]] = 0] /\ pins' = pins
      /\ IF tail = Len(lh) THEN tail' = 1 /\ mode' = "clear" ELSE tail' = tail + 1 /\ mode' = mode
      /\ UNCHANGED <<dlog, dhead, lh, outstanding, committing, pc, wrote, crashes>>
  <2>1. pins' = pins BY Zenon DEF recover_install
  <2>2. pins[lh[tail]] = 0 BY Zenon, <1>g, <1>y, LogEntry DEF Clean
  <2> QED BY Zenon, <1>y, <2>1, <2>2 DEF recover_install, logvars, procvars
<1>i. /\ disk' \in [Blocks -> Vals] /\ cache' \in [Blocks -> Vals \cup {NoVal}]
      /\ pins' \in [Blocks -> Nat]
      /\ \A k \in 1 .. Len(lh) : k = tail => Installed(k)'
      /\ \A k \in 1 .. Len(lh) : k # tail =>
           /\ Installed(k) => Installed(k)'
           /\ Pinned(lh[k]) /\ cache[lh[k]] = dlog[k] =>
                Pinned(lh[k])' /\ cache'[lh'[k]] = dlog'[k]
      /\ \A b \in Blocks : Clean(b) => Clean(b)'
  BY Zenon, <1>e, <1>g, InstallOne
<1>t. TypeOK'
  <2>1. mode' \in {"install", "clear"} BY Zenon, <1>e, <1>p
  <2>2. tail' = 1 \/ tail' = tail + 1 BY Zenon, <1>e
  <2>3. tail' \in Nat BY SMTT(30), <1>y, <2>2
  <2> QED BY Zenon, <1>e, <1>i, <2>1, <2>3 DEF LogInv, TypeOK
<1>m. CommitAlone' /\ Counted' /\ Reserved'
  <2>1. Ops' = Ops /\ Ops = {} BY Zenon, <1>e, <1>g DEF Ops
  <2> QED BY <1>e, <2>1 DEF LogInv, CommitAlone, Counted, Reserved
<1>v. Recovering'
  <2>1. \A k \in 1 .. Len(lh) : k <= tail => Installed(k)' BY <1>i, <1>g, <1>y
  <2>2. CASE tail = Len(lh)
    <3>1. \A k \in 1 .. Len(lh) : Installed(k)' BY <2>1, <2>2
    <3> QED BY Zenon, <1>e, <1>g, <1>i, <2>2, <3>1 DEF Recovering
  <2>3. CASE tail # Len(lh)
    <3>1. tail' = tail + 1 /\ mode' = "install" BY Zenon, <1>e, <1>p, <2>3
    <3>2. tail' \in 1 .. Len(lh) /\ \A k \in 1 .. Len(lh) : k < tail' => k <= tail
      BY <1>g, <1>y, <2>3, <3>1
    <3> QED BY Zenon, <1>e, <1>g, <1>i, <2>1, <3>1, <3>2 DEF Recovering
  <2> QED BY Zenon, <2>2, <2>3
<1>u. Running' BY Zenon, <1>e, <1>p DEF Running, Up
<1> QED BY Zenon, <1>e, <1>p, <1>m, <1>t, <1>v, <1>u DEF LogInv, NoLogPanic

\* The end of recovery: the log is empty and everything is at home.
LEMMA RecoverClearInv == ASSUME LogInv, recover_clear PROVE LogInv'
<1>e. /\ mode = "clear" /\ lh' = <<>> /\ dhead' = <<>> /\ mode' = "up"
      /\ UNCHANGED <<disk, dlog, cache, pins, outstanding, committing, pc, wrote, tail, crashes>>
  BY Zenon DEF recover_clear, memvars, procvars
<1>s. <<>> \in Seq(Blocks) /\ Len(<<>>) <= Nlog - 1 BY EmptyLog, LogAssumption, ReserveAssumption
<1>g. (\A q \in Procs : pc[q] = "idle") /\ (\A b \in Blocks : Clean(b))
  BY Zenon, <1>e DEF LogInv, Recovering
<1>t. TypeOK' BY Zenon, <1>e, <1>s DEF LogInv, TypeOK
<1>o. Ops' = Ops /\ Ops = {} /\ ~Installing' BY Zenon, <1>e, <1>g DEF Ops, Installing
<1>m. CommitAlone' /\ Counted' /\ Reserved'
  BY Zenon, <1>e, <1>o DEF LogInv, CommitAlone, Counted, Reserved
<1>v. Recovering' BY Zenon, <1>e DEF Recovering
<1>u. Running'
  <2>1. \A q \in Procs : AtPoint(q)' BY Zenon, <1>e, <1>g DEF AtPoint
  <2> QED BY Zenon, <1>e, <1>g, <1>o, <2>1, EmptyLog DEF Running, Clean
<1> QED BY Zenon, <1>e, <1>m, <1>t, <1>v, <1>u, EmptyLog DEF LogInv, NoLogPanic

\* Every step of the system preserves the invariant.
LEMMA StepInv == ASSUME LogInv, [Next]_vars PROVE LogInv'
<1>1. ASSUME NEW p \in Procs, begin_op(p) PROVE LogInv'
  BY Zenon, <1>1, BeginWaitInv, BeginOpInv
<1>2. ASSUME NEW p \in Procs, end_op(p) PROVE LogInv'
  BY Zenon, <1>2, EndOpInv, EndLastInv
<1>3. ASSUME NEW p \in Procs, CommitStep(p) PROVE LogInv'
  BY Zenon, <1>3, WriteLogInv, WriteHeadInv, InstallInv, ClearInv, EndCommitInv DEF CommitStep
<1>4. ASSUME NEW p \in Procs, NEW b \in Blocks, bread(p, b) PROVE LogInv'
  BY Zenon, <1>4, BreadInv
<1>5. ASSUME NEW p \in Procs, NEW b \in Blocks, NEW v \in Vals, log_write(p, b, v) PROVE LogInv'
  BY Zenon, <1>5, LogWriteInv
<1>6. ASSUME NEW b \in Blocks, Evict(b) PROVE LogInv' BY Zenon, <1>6, EvictInv
<1>7. CASE Crash BY Zenon, <1>7, CrashInv
<1>8. CASE Recover BY Zenon, <1>8, ReadHeadInv, RecoverInstallInv, RecoverClearInv DEF Recover
<1>9. CASE UNCHANGED vars
  <2> USE <1>9 DEF vars
  <2>1. TypeOK' /\ CommitAlone' /\ NoLogPanic' /\ IsInjective(lh)' /\ IsInjective(dhead)'
    BY Zenon DEF LogInv, TypeOK, CommitAlone, NoLogPanic
  <2>2. Ops' = Ops /\ Room' = Room /\ Installing' = Installing BY Zenon DEF Ops, Room, Installing
  <2>3. Counted' /\ Reserved' BY Zenon, <2>2 DEF LogInv, Counted, Reserved
  <2>4. Recovering' BY ZenonT(60) DEF LogInv, Recovering, Clean, Installed
  <2>5. Running' BY <2>2 DEF LogInv, Running, AtPoint, Clean, Pinned, Installed, Up
  <2> QED BY Zenon, <2>1, <2>3, <2>4, <2>5 DEF LogInv
<1> QED BY Zenon, <1>1, <1>2, <1>3, <1>4, <1>5, <1>6, <1>7, <1>8, <1>9 DEF Next

\* log.c keeps LogInv, whatever the operations do and wherever the machine
\* crashes, for every log size that begin_op's reservation is made for.
THEOREM LogInvariance == Spec => []LogInv
<1>1. Init => LogInv BY Zenon, InitInv
<1>2. LogInv /\ [Next]_vars => LogInv' BY Zenon, StepInv
<1> QED BY <1>1, <1>2, PTL DEF Spec

-----------------------------------------------------------------------------
(* The properties.                                                         *)

\* A buffer of a running system is clean, or it is in the log and pinned.
LEMMA CleanOrPinned ==
  ASSUME LogInv, Up, NEW b \in Blocks
  PROVE  /\ Clean(b) \/ (Pinned(b) /\ b \in Range(lh))
         /\ b \notin Range(lh) => Clean(b)
<1>y. lh \in Seq(Blocks) BY Zenon DEF LogInv, TypeOK
<1>1. CASE b \notin Range(lh) BY Zenon, <1>1 DEF LogInv, Running
<1>2. CASE b \in Range(lh) /\ ~Installing BY Zenon, <1>2 DEF LogInv, Running
<1>3. CASE b \in Range(lh) /\ Installing
  <2>1. PICK p \in Procs : pc[p] \in {"install", "clear"} BY Zenon, <1>3 DEF Installing
  <2>2. PICK k \in 1 .. Len(lh) : lh[k] = b BY Zenon, <1>3, <1>y, LogEntry
  <2>3. AtPoint(p) BY Zenon DEF LogInv, Running
  <2>4. Installed(k) \/ Pinned(lh[k]) BY Zenon, <2>1, <2>3 DEF AtPoint
  <2> QED BY Zenon, <1>3, <2>2, <2>4 DEF Installed
<1> QED BY Zenon, <1>1, <1>2, <1>3

\* A commit sees only finished operations, and a buffer is recycled only when
\* its contents are on disk.
LEMMA InvCommitSafe == ASSUME LogInv PROVE CommitSafe
<1>1. DirtyIsPinned BY Zenon, CleanOrPinned DEF DirtyIsPinned, Clean, Pinned
<1> QED BY Zenon, <1>1 DEF LogInv, CommitSafe

\* An empty header on disk: a restart finds the home locations.
LEMMA DurableHome ==
  ASSUME dhead = <<>>, NEW b \in Blocks
  PROVE  Durable[b] = disk[b]
BY Zenon, EmptyLog DEF Durable

\* Reading a clean buffer gives what the disk has.
LEMMA CleanCached ==
  ASSUME NEW b \in Blocks, Clean(b)
  PROVE  Cached(b) = disk[b]
BY Zenon DEF Clean, Cached

\* A running system at rest has everything on disk.
LEMMA InvQuiescent == ASSUME LogInv PROVE QuiescentDurable
<1> SUFFICES ASSUME Up, outstanding = 0, ~committing, NEW b \in Blocks
             PROVE  Cached(b) = Durable[b]
  BY Zenon DEF QuiescentDurable
<1>1. Ops = {} BY Zenon, FS_EmptySet DEF LogInv, Counted
<1>2. lh = <<>> BY Zenon, <1>1 DEF LogInv, Running
<1>3. ~Installing BY Zenon DEF LogInv, Counted, Installing, CommitPoints
<1>4. dhead = <<>> BY Zenon, <1>3 DEF LogInv, Running
<1>5. Clean(b) BY Zenon, <1>2, EmptyLog, CleanOrPinned
<1> QED BY Zenon, <1>4, <1>5, DurableHome, CleanCached

\* commit() runs with no file system operation active, alone, and bget never
\* recycles a buffer whose changes are only in memory.
THEOREM CommitSafety == Spec => []CommitSafe
<1>1. LogInv => CommitSafe BY Zenon, InvCommitSafe
<1> QED BY <1>1, LogInvariance, PTL

\* Once end_op has returned and nothing runs, a crash would lose nothing.
THEOREM Durability == Spec => []QuiescentDurable
<1>1. LogInv => QuiescentDurable BY Zenon, InvQuiescent
<1> QED BY <1>1, LogInvariance, PTL

\* No check of log_write or end_op ever panics ("too big a transaction",
\* "log_write outside of trans", "log.committing").
THEOREM NeverPanics == Spec => []NoLogPanic
<1>1. LogInv => NoLogPanic BY Zenon DEF LogInv
<1> QED BY <1>1, LogInvariance, PTL

-----------------------------------------------------------------------------
(* The log implements LogAbs. Mem is what a reader sees, as in the mapping. *)

Mem == IF Up THEN [b \in Blocks |-> Cached(b)] ELSE Durable

\* The abstract steps, in terms of the mapping.
LEMMA AbsSteps ==
  /\ Durable' = Durable /\ Mem' = Mem /\ Ops' = Ops => UNCHANGED Abs!absvars
  /\ \A p \in Procs : /\ Durable' = Durable /\ Mem' = Mem /\ Ops' = Ops \cup {p}
                      => Abs!AbsNext
  /\ \A p \in Procs : /\ Durable' = Durable /\ Mem' = Mem /\ p \in Ops /\ Ops' = Ops \ {p}
                      => Abs!AbsNext
  /\ \A p \in Procs, b \in Blocks, v \in Vals :
        Durable' = Durable /\ Mem' = [Mem EXCEPT ![b] = v] /\ p \in Ops /\ Ops' = Ops
        => Abs!AbsNext
  /\ Ops = {} /\ Ops' = Ops /\ Durable' = Mem /\ Mem' = Mem => Abs!AbsNext
  /\ Durable' = Durable /\ Mem' = Durable /\ Ops' = {} => Abs!AbsNext
BY Zenon
   DEF Mem, Ops, Abs!absvars, Abs!AbsNext, Abs!Begin, Abs!Write, Abs!End, Abs!Commit, Abs!Crash

\* What a restart would find depends on the disk only.
LEMMA SameDurable ==
  ASSUME UNCHANGED <<disk, dlog, dhead>>
  PROVE  Durable' = Durable
BY Zenon DEF Durable

\* What a reader of a running system sees.
LEMMA SameMem ==
  ASSUME Up, Up', \A b \in Blocks : Cached(b)' = Cached(b)
  PROVE  Mem' = Mem
BY Zenon DEF Mem

\* bread fills a buffer with what a reader would have seen anyway.
LEMMA FillSame ==
  ASSUME LogInv, NEW c \in Blocks, UNCHANGED disk, cache' = [cache EXCEPT ![c] = Cached(c)]
  PROVE  \A b \in Blocks : Cached(b)' = Cached(b)
<1>1. cache \in [Blocks -> Vals \cup {NoVal}] /\ disk \in [Blocks -> Vals] BY Zenon
    DEF LogInv, TypeOK
<1> QED BY Zenon, <1>1, LogAssumption DEF Cached

\* Installing a block, in a commit or in recovery, changes nothing that a
\* restart would find: the header still names the block.
LEMMA InstallDurable ==
  ASSUME LogInv, dhead = lh, tail \in 1 .. Len(lh),
         disk' = [disk EXCEPT ![lh[tail]] = dlog[tail]], UNCHANGED <<dlog, dhead>>
  PROVE  Durable' = Durable
<1>y. lh \in Seq(Blocks) /\ disk \in [Blocks -> Vals] BY Zenon DEF LogInv, TypeOK
<1>1. lh[tail] \in Range(dhead) BY Zenon, <1>y, LogEntry
<1>2. \A b \in Blocks : b \notin Range(dhead) => disk'[b] = disk[b] BY Zenon, <1>1, <1>y
<1> QED BY Zenon, <1>2 DEF Durable

\* Once every block of the log is installed, the header is not needed.
LEMMA ClearDurable ==
  ASSUME LogInv, dhead = lh, \A k \in 1 .. Len(lh) : Installed(k),
         UNCHANGED <<disk, dlog>>, dhead' = <<>>
  PROVE  Durable' = Durable /\ \A b \in Blocks : Durable[b] = disk[b]
<1>y. lh \in Seq(Blocks) /\ IsInjective(lh) BY Zenon DEF LogInv, TypeOK
<1>1. ASSUME NEW b \in Blocks, b \in Range(dhead) PROVE dlog[Home(dhead, b)] = disk[b]
  <2>1. PICK k \in 1 .. Len(lh) : lh[k] = b BY Zenon, <1>1, <1>y, LogEntry
  <2>2. Home(lh, b) = k BY Zenon, <2>1, <1>y, HomeAt
  <2> QED BY Zenon, <2>1, <2>2 DEF Installed
<1>2. \A b \in Blocks : Durable[b] = disk[b] BY Zenon, <1>1 DEF Durable
<1>3. Durable = [b \in Blocks |-> disk[b]] BY Zenon, <1>2 DEF Durable
<1>4. Durable' = [b \in Blocks |-> disk[b]] BY Zenon, EmptyLog DEF Durable
<1> QED BY Zenon, <1>2, <1>3, <1>4

\* begin_op begins an operation, or sleeps.
LEMMA BeginOpRef ==
  ASSUME LogInv, NEW p \in Procs, begin_op(p)
  PROVE  [Abs!AbsNext]_(Abs!absvars)
<1>y. pc \in [Procs -> Points] BY DEF LogInv, TypeOK
<1>1. Durable' = Durable BY Zenon, SameDurable DEF begin_op, diskvars
<1>2. Mem' = Mem BY Zenon, SameMem DEF begin_op, diskvars, memvars, Cached, Up
<1>3. Ops' = Ops \/ Ops' = Ops \cup {p} BY Zenon, <1>y DEF begin_op, Goto, Ops
<1> QED BY Zenon, <1>1, <1>2, <1>3, AbsSteps

\* end_op ends an operation, also when it begins a commit.
LEMMA EndOpRef ==
  ASSUME LogInv, NEW p \in Procs, end_op(p)
  PROVE  [Abs!AbsNext]_(Abs!absvars)
<1>y. pc \in [Procs -> Points] BY DEF LogInv, TypeOK
<1>p. pc[p] = "op" /\ p \in Ops /\ ~committing BY Zenon, SomeOp DEF end_op
<1>1. Durable' = Durable BY Zenon, SameDurable DEF end_op, diskvars
<1>2. Mem' = Mem BY Zenon, <1>p, SameMem DEF end_op, diskvars, memvars, Cached, Up
<1>3. Ops' = Ops \ {p} BY Zenon, <1>p, <1>y DEF end_op, Goto, WakeupAnd, Ops
<1> QED BY Zenon, <1>1, <1>2, <1>3, <1>p, AbsSteps

\* log_write is the write that other readers see at once.
LEMMA LogWriteRef ==
  ASSUME LogInv, NEW p \in Procs, NEW b \in Blocks, NEW v \in Vals, log_write(p, b, v)
  PROVE  [Abs!AbsNext]_(Abs!absvars)
<1>y. cache \in [Blocks -> Vals \cup {NoVal}] BY Zenon DEF LogInv, TypeOK
<1>p. /\ p \in Ops /\ outstanding >= 1 /\ Len(lh) + 2 <= LOGSIZE /\ Len(lh) + 2 <= Nlog
  BY Zenon, SomeOp DEF log_write
<1>q. outstanding \in Nat /\ Len(lh) \in Nat BY DEF LogInv, TypeOK
<1>u. Up /\ Up' BY <1>p, <1>q, LogAssumption DEF log_write, Up
<1>1. Durable' = Durable BY Zenon, SameDurable DEF log_write, diskvars
<1>2. \A c \in Blocks : Cached(c)' = IF c = b THEN v ELSE Cached(c)
  BY Zenon, <1>y, LogAssumption DEF log_write, diskvars, Cached
<1>3. Mem' = [Mem EXCEPT ![b] = v] BY ZenonT(60), <1>2, <1>u DEF Mem
<1>4. Ops' = Ops BY Zenon DEF log_write, Ops
<1> QED BY Zenon, <1>1, <1>3, <1>4, <1>p, AbsSteps

\* Reading, recycling a buffer, copying blocks to the log and the end of a
\* commit are invisible.
LEMMA BreadRef ==
  ASSUME LogInv, NEW p \in Procs, NEW b \in Blocks, bread(p, b)
  PROVE  [Abs!AbsNext]_(Abs!absvars)
<1>1. Durable' = Durable BY Zenon, SameDurable DEF bread, diskvars
<1>2. \A c \in Blocks : Cached(c)' = Cached(c) BY Zenon, FillSame DEF bread, diskvars
<1>3. Mem' = Mem BY Zenon, <1>2, SameMem DEF bread, Up
<1>4. Ops' = Ops BY Zenon DEF bread, procvars, Ops
<1> QED BY Zenon, <1>1, <1>3, <1>4, AbsSteps

\* bget recycles only clean buffers.
LEMMA EvictRef ==
  ASSUME LogInv, NEW b \in Blocks, Evict(b)
  PROVE  [Abs!AbsNext]_(Abs!absvars)
<1>y. cache \in [Blocks -> Vals \cup {NoVal}] BY Zenon DEF LogInv, TypeOK
<1>1. Durable' = Durable BY Zenon, SameDurable DEF Evict, diskvars
<1>2. cache[b] = disk[b] BY CleanOrPinned DEF Evict, Clean, Pinned
<1>3. \A c \in Blocks : Cached(c)' = Cached(c) BY Zenon, <1>2, <1>y DEF Evict, diskvars, Cached
<1>4. Mem' = Mem BY Zenon, <1>3, SameMem DEF Evict, Up
<1>5. Ops' = Ops BY Zenon DEF Evict, procvars, Ops
<1> QED BY Zenon, <1>1, <1>4, <1>5, AbsSteps

\* The log blocks are not looked at before the header names them.
LEMMA WriteLogRef ==
  ASSUME LogInv, NEW p \in Procs, write_log(p)
  PROVE  [Abs!AbsNext]_(Abs!absvars)
<1>y. lh \in Seq(Blocks) /\ pc \in [Procs -> Points] BY Zenon DEF LogInv, TypeOK
<1>p. Up /\ pc[p] = "write_log" /\ pc[p] \in CommitPoints BY DEF write_log, CommitPoints
<1>h. dhead = <<>> /\ dhead' = <<>> /\ disk' = disk
  <2>1. ~Installing BY <1>p, Alone DEF Installing, CommitPoints
  <2> QED BY Zenon, <2>1, <1>p DEF LogInv, Running, write_log
<1>1. Durable' = Durable BY Zenon, <1>h, EmptyLog DEF Durable
<1>2. lh[tail] \in Blocks BY Zenon, <1>p, <1>y, LogEntry DEF LogInv, Running, AtPoint
<1>3. \A c \in Blocks : Cached(c)' = Cached(c) BY Zenon, <1>h, <1>2, FillSame DEF write_log
<1>4. Mem' = Mem BY Zenon, <1>3, SameMem DEF write_log, Up
<1>5. Ops' = Ops BY Zenon, <1>y, <1>p DEF write_log, Goto, Ops
<1> QED BY Zenon, <1>1, <1>4, <1>5, AbsSteps

\* The write of the header makes what readers see durable, all at once.
LEMMA WriteHeadRef ==
  ASSUME LogInv, NEW p \in Procs, write_head(p)
  PROVE  [Abs!AbsNext]_(Abs!absvars)
<1>y. lh \in Seq(Blocks) /\ pc \in [Procs -> Points] /\ IsInjective(lh) BY Zenon DEF LogInv, TypeOK
<1>p. Up /\ pc[p] = "write_head" /\ pc[p] \in CommitPoints BY DEF write_head, CommitPoints
<1>e. /\ dhead' = lh /\ pc' = [pc EXCEPT ![p] = "install"]
      /\ UNCHANGED <<disk, dlog, cache, mode>>
  BY Zenon DEF write_head, Goto, memvars
<1>g. (\A c \in Range(lh) : Pinned(c)) /\ \A k \in 1 .. Len(lh) : dlog[k] = cache[lh[k]]
  <2>1. ~Installing BY <1>p, Alone DEF Installing, CommitPoints
  <2> QED BY Zenon, <2>1, <1>p DEF LogInv, Running, AtPoint
<1>1. Mem' = Mem BY Zenon, <1>e, <1>p, SameMem DEF Cached, Up
<1>2. Ops = {} /\ Ops' = Ops BY Zenon, <1>p, <1>e, <1>y, Alone DEF Ops
<1>3. ASSUME NEW b \in Blocks PROVE Durable'[b] = Cached(b)
  <2>1. CASE b \in Range(lh)
    <3>1. PICK k \in 1 .. Len(lh) : lh[k] = b BY Zenon, <2>1, <1>y, LogEntry
    <3>2. Home(lh, b) = k BY Zenon, <3>1, <1>y, HomeAt
    <3>3. Durable'[b] = dlog[k] BY Zenon, <1>e, <2>1, <3>2 DEF Durable
    <3>4. Cached(b) = cache[b] BY Zenon, <1>g, <2>1 DEF Pinned, Cached
    <3> QED BY Zenon, <1>g, <3>1, <3>3, <3>4
  <2>2. CASE b \notin Range(lh)
    <3>1. Cached(b) = disk[b] BY Zenon, <1>p, <2>2, CleanOrPinned, CleanCached
    <3> QED BY Zenon, <1>e, <2>2, <3>1 DEF Durable
  <2> QED BY Zenon, <2>1, <2>2
<1>4. Durable' = Mem
  <2>1. Durable' = [b \in Blocks |-> Durable'[b]] BY Zenon DEF Durable
  <2>2. [b \in Blocks |-> Durable'[b]] = [b \in Blocks |-> Cached(b)] BY Zenon, <1>3
  <2> QED BY Zenon, <2>1, <2>2, <1>p DEF Mem
<1> QED BY Zenon, <1>1, <1>2, <1>4, AbsSteps

\* Installing is invisible to readers and to a restart.
LEMMA InstallRef ==
  ASSUME LogInv, NEW p \in Procs, install_trans(p)
  PROVE  [Abs!AbsNext]_(Abs!absvars)
<1>y. /\ lh \in Seq(Blocks) /\ pc \in [Procs -> Points] /\ cache \in [Blocks -> Vals \cup {NoVal}]
      /\ disk \in [Blocks -> Vals]
  BY Zenon DEF LogInv, TypeOK
<1>p. Up /\ pc[p] = "install" BY Zenon DEF install_trans
<1>k. tail \in 1 .. Len(lh) /\ Pinned(lh[tail]) /\ cache[lh[tail]] = dlog[tail] /\ dhead = lh
  <2>1. Installing BY Zenon, <1>p DEF Installing
  <2>2. AtPoint(p) /\ dhead = lh BY Zenon, <2>1, <1>p DEF LogInv, Running
  <2>3. tail \in 1 .. Len(lh) BY Zenon, <2>2, <1>p DEF AtPoint
  <2>4. ~(tail < tail) BY <2>3
  <2> QED BY Zenon, <2>2, <2>3, <2>4, <1>p DEF AtPoint
<1>e. /\ disk' = [disk EXCEPT ![lh[tail]] = dlog[tail]]
      /\ cache' = [cache EXCEPT ![lh[tail]] = dlog[tail]]
      /\ UNCHANGED <<dlog, dhead, mode>>
  BY Zenon DEF install_trans
<1>1. Durable' = Durable BY Zenon, <1>e, <1>k, InstallDurable
<1>2. lh[tail] \in Blocks BY Zenon, <1>k, <1>y, LogEntry
<1>3. ASSUME NEW c \in Blocks PROVE Cached(c)' = Cached(c)
  <2>1. CASE c = lh[tail]
    <3>1. cache'[c] = cache[c] BY Zenon, <1>e, <1>k, <1>y, <2>1
    <3> QED BY Zenon, <1>k, <2>1, <3>1 DEF Pinned, Cached
  <2>2. CASE c # lh[tail]
    <3>1. cache'[c] = cache[c] /\ disk'[c] = disk[c] BY Zenon, <1>e, <1>y, <2>2
    <3> QED BY Zenon, <3>1 DEF Cached
  <2> QED BY Zenon, <2>1, <2>2
<1>4. Mem' = Mem BY Zenon, <1>e, <1>p, <1>3, SameMem DEF Up
<1>5. Ops' = Ops BY Zenon, <1>y, <1>p DEF install_trans, Goto, Ops
<1> QED BY <1>1, <1>4, <1>5, AbsSteps

\* So is the clearing of the header,
LEMMA ClearRef ==
  ASSUME LogInv, NEW p \in Procs, clear_head(p)
  PROVE  [Abs!AbsNext]_(Abs!absvars)
<1>y. pc \in [Procs -> Points] BY DEF LogInv, TypeOK
<1>p. Up /\ pc[p] = "clear" BY Zenon DEF clear_head
<1>k. dhead = lh /\ \A k \in 1 .. Len(lh) : Installed(k)
  <2>1. Installing BY Zenon, <1>p DEF Installing
  <2> QED BY Zenon, <2>1, <1>p DEF LogInv, Running, AtPoint
<1>e. dhead' = <<>> /\ UNCHANGED <<disk, dlog, cache, mode>> BY Zenon DEF clear_head, memvars
<1>1. Durable' = Durable BY Zenon, <1>e, <1>k, ClearDurable
<1>2. Mem' = Mem BY Zenon, <1>e, <1>p, SameMem DEF Cached, Up
<1>3. Ops' = Ops BY Zenon, <1>y, <1>p DEF clear_head, Goto, Ops
<1> QED BY <1>1, <1>2, <1>3, AbsSteps

\* and the end of the commit.
LEMMA EndCommitRef ==
  ASSUME LogInv, NEW p \in Procs, end_commit(p)
  PROVE  [Abs!AbsNext]_(Abs!absvars)
<1>y. pc \in [Procs -> Points] BY DEF LogInv, TypeOK
<1>1. Durable' = Durable BY Zenon, SameDurable DEF end_commit, diskvars
<1>2. Mem' = Mem BY Zenon, SameMem DEF end_commit, diskvars, memvars, Cached, Up
<1>3. Ops' = Ops BY Zenon, <1>y DEF end_commit, WakeupAnd, Ops
<1> QED BY <1>1, <1>2, <1>3, AbsSteps

\* A crash loses exactly what is not durable, also a crash during recovery.
LEMMA CrashRef == ASSUME LogInv, Crash PROVE [Abs!AbsNext]_(Abs!absvars)
<1>1. Durable' = Durable BY Zenon, SameDurable DEF Crash, diskvars
<1>2. Mem' = Durable BY Zenon, <1>1 DEF Crash, Mem, Up
<1>3. Ops' = {} BY Zenon DEF Crash, Ops
<1> QED BY Zenon, <1>1, <1>2, <1>3, AbsSteps

\* Recovery brings back what was durable, no more and no less.
LEMMA RecoverRef == ASSUME LogInv, Recover PROVE [Abs!AbsNext]_(Abs!absvars)
<1>1. CASE read_head
  <2>1. Durable' = Durable BY Zenon, <1>1, SameDurable DEF read_head, diskvars
  <2>2. ~Up /\ ~Up' BY Zenon, <1>1 DEF read_head, Up
  <2>3. Mem' = Mem BY Zenon, <2>1, <2>2 DEF Mem
  <2>4. Ops' = Ops BY Zenon, <1>1 DEF read_head, procvars, Ops
  <2> QED BY Zenon, <2>1, <2>3, <2>4, AbsSteps
<1>2. CASE recover_install
  <2>1. lh = dhead /\ tail \in 1 .. Len(lh) BY Zenon, <1>2 DEF recover_install, LogInv, Recovering
  <2>2. Durable' = Durable BY Zenon, <1>2, <2>1, InstallDurable DEF recover_install
  <2>3. ~Up /\ ~Up' BY Zenon, <1>2 DEF recover_install, Up
  <2>4. Mem' = Mem BY <2>2, <2>3 DEF Mem
  <2>5. Ops' = Ops BY Zenon, <1>2 DEF recover_install, procvars, Ops
  <2> QED BY <2>2, <2>4, <2>5, AbsSteps
<1>3. CASE recover_clear
  <2>e. mode = "clear" /\ mode' = "up" /\ dhead' = <<>> /\ UNCHANGED <<disk, dlog, cache, pc>>
    BY Zenon, <1>3 DEF recover_clear, memvars, procvars
  <2>1. /\ lh = dhead /\ \A k \in 1 .. Len(lh) : Installed(k)
        /\ \A b \in Blocks : Clean(b)
    BY Zenon, <2>e DEF LogInv, Recovering
  <2>2. Durable' = Durable /\ \A b \in Blocks : Durable[b] = disk[b] BY Zenon, <2>e, <2>1,
      ClearDurable
  <2>3. \A b \in Blocks : Cached(b)' = Durable[b] BY Zenon, <2>e, <2>1, <2>2, CleanCached DEF Cached
  <2>4. Mem' = Mem
    <3>1. Mem = Durable BY Zenon, <2>e DEF Mem, Up
    <3>2. Mem' = [b \in Blocks |-> Cached(b)'] BY Zenon, <2>e DEF Mem, Up
    <3>3. Durable = [b \in Blocks |-> Durable[b]] BY Zenon DEF Durable
    <3> QED BY Zenon, <3>1, <3>2, <3>3, <2>3
  <2>5. Ops' = Ops BY Zenon, <2>e DEF Ops
  <2> QED BY Zenon, <2>2, <2>4, <2>5, AbsSteps
<1> QED BY Zenon, <1>1, <1>2, <1>3 DEF Recover

\* The log implements LogAbs: operations become durable in groups, each group
\* with the whole of every operation in it, whatever the interleaving and
\* wherever the crash. The steps of log.c map to the steps of LogAbs above;
\* the point of commit is the write of the header.
THEOREM Atomicity == Spec => AtomicDurable
<1>1. Init => Abs!AbsInit BY Zenon, EmptyLog DEF Init, Abs!AbsInit, Durable, Up
<1>2. ASSUME LogInv, [Next]_vars PROVE [Abs!AbsNext]_(Abs!absvars)
  <2>1. ASSUME NEW p \in Procs, CommitStep(p) PROVE [Abs!AbsNext]_(Abs!absvars)
    <3>1. CASE write_log(p) BY Zenon, <1>2, <3>1, WriteLogRef
    <3>2. CASE write_head(p) BY ZenonT(60), <1>2, <3>2, WriteHeadRef
    <3>3. CASE install_trans(p) BY Zenon, <1>2, <3>3, InstallRef
    <3>4. CASE clear_head(p) BY Zenon, <1>2, <3>4, ClearRef
    <3>5. CASE end_commit(p) BY Zenon, <1>2, <3>5, EndCommitRef
    <3> QED BY Zenon, <2>1, <3>1, <3>2, <3>3, <3>4, <3>5 DEF CommitStep
  <2>2. CASE UNCHANGED vars
    BY Zenon, <2>2 DEF vars, Abs!absvars, Durable, Cached, Up
  <2> QED BY Zenon, <1>2, <2>1, <2>2, BeginOpRef, EndOpRef, BreadRef, LogWriteRef, EvictRef,
             CrashRef,
             RecoverRef DEF Next
<1> QED BY <1>1, <1>2, LogInvariance, PTL DEF Spec, AtomicDurable, Abs!AbsSpec
=============================================================================
