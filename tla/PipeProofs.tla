----------------------------- MODULE PipeProofs -----------------------------
(***************************************************************************)
(* Proofs about module Pipe, for every number of readers and writers, every *)
(* PIPESIZE and every width of nread and nwrite that PIPESIZE divides: the  *)
(* ring implements the bounded queue of PipeFifo, also when the counters    *)
(* wrap around, and nobody sleeps without a reason.                         *)
(*                                                                         *)
(* First what the counters and the places of the ring are, then the         *)
(* invariant, one lemma per group of its conjuncts, then the refinement.    *)
(***************************************************************************)
EXTENDS Pipe, TLAPS

-----------------------------------------------------------------------------
(* Division.                                                               *)

\* Quotient and remainder, for the index nwrite % PIPESIZE of pipewrite and
\* nread % PIPESIZE of piperead.
LEMMA DivMod ==
  ASSUME NEW x \in Int, NEW m \in Nat \ {0}
  PROVE  x \div m \in Int /\ x % m \in 0 .. m - 1 /\ x = (m * (x \div m)) + (x % m)
OBVIOUS

\* Multiples of m are m apart.
LEMMA Apart ==
  ASSUME NEW a \in Int, NEW b \in Int, NEW m \in Nat \ {0}, a < b
  PROVE  m * a + m <= m * b
<1>1. PICK c \in Nat : b = a + 1 + c
  <2>1. b - a - 1 \in Nat /\ b = a + 1 + (b - a - 1) OBVIOUS
  <2> QED BY Zenon, <2>1
<1>2. m * b = m * a + m + m * c BY <1>1
<1>3. m * c \in Nat OBVIOUS
<1>4. m * a \in Int OBVIOUS
<1> QED BY <1>2, <1>3, <1>4

\* Quotient and remainder are determined.
LEMMA Unique ==
  ASSUME NEW m \in Nat \ {0}, NEW a \in Int, NEW b \in Int,
         NEW s \in 0 .. m - 1, NEW t \in 0 .. m - 1, m * a + s = m * b + t
  PROVE  s = t
<1>1. ~(a < b) BY Apart
<1>2. ~(b < a) BY Apart
<1>3. a = b BY <1>1, <1>2
<1> QED BY <1>3

\* The wrap-around of a counter at a multiple of m does not move its place in
\* a ring of m entries.
LEMMA SamePlace ==
  ASSUME NEW m \in Nat \ {0}, NEW w \in Nat, w % m = 0, NEW x \in Int
  PROVE  (x - w) % m = x % m
<1> DEFINE a == x \div m
           s == x % m
           b == w \div m
           c == (x - w) \div m
           t == (x - w) % m
<1>1. a \in Int /\ s \in 0 .. m - 1 /\ x = m * a + s BY Zenon, DivMod
<1>2. b \in Int /\ w = m * b BY DivMod
<1>3. x - w \in Int OBVIOUS
<1>4. c \in Int /\ t \in 0 .. m - 1 /\ x - w = m * c + t BY Zenon, <1>3, DivMod
<1> HIDE DEF a, b, c, s, t
<1>5. m * (a - b) = m * a - m * b BY <1>1, <1>2
<1>6. m * (a - b) + s = m * c + t BY <1>1, <1>2, <1>4, <1>5
<1>7. a - b \in Int BY <1>1, <1>2
<1>8. s = t BY Zenon, <1>1, <1>4, <1>6, <1>7, Unique
<1> QED BY Zenon, <1>8 DEF s, t

\* Less than m bytes apart are different places.
LEMMA OtherPlace ==
  ASSUME NEW m \in Nat \ {0}, NEW x \in Int, NEW y \in Int, x < y, y < x + m
  PROVE  x % m # y % m
<1>1. PICK a \in Int, s \in 0 .. m - 1 : s = x % m /\ x = m * a + s BY Zenon, DivMod
<1>2. PICK b \in Int, t \in 0 .. m - 1 : t = y % m /\ y = m * b + t BY Zenon, DivMod
<1>3. SUFFICES ASSUME s = t PROVE FALSE BY Zenon, <1>1, <1>2
<1>4. m * a \in Int /\ m * b \in Int OBVIOUS
<1>5. m * a < m * b /\ m * b < m * a + m BY <1>1, <1>2, <1>3, <1>4
<1>6. ~(b < a) BY <1>4, <1>5, Apart
<1>7. ~(a < b) BY <1>4, <1>5, Apart
<1>8. a # b BY <1>4, <1>5
<1> QED BY <1>6, <1>7, <1>8

-----------------------------------------------------------------------------
(* The counters.                                                           *)

Counters == 0 .. Wrap - 1

\* nwrite - nread as the unsigned arithmetic of the code computes it.
LEMMA CountIs ==
  ASSUME NEW r \in Counters, NEW w \in Counters
  PROVE  (w - r) % Wrap = IF w >= r THEN w - r ELSE w - r + Wrap
BY PipeAssumption DEF Counters

\* A counter after one byte.
LEMMA Incremented ==
  ASSUME NEW x \in Counters
  PROVE  (x + 1) % Wrap = IF x = Wrap - 1 THEN 0 ELSE x + 1
BY PipeAssumption DEF Counters

\* The counter that pipewrite compares nwrite with.
LEMMA FullIs ==
  ASSUME NEW r \in Counters
  PROVE  (r + PIPESIZE) % Wrap = IF r + PIPESIZE < Wrap THEN r + PIPESIZE
                                                        ELSE r + PIPESIZE - Wrap
<1>1. CASE r + PIPESIZE < Wrap BY <1>1, PipeAssumption DEF Counters
<1>2. CASE r + PIPESIZE >= Wrap
  <2> DEFINE x == r + PIPESIZE
  <2>1. x \in Int /\ Wrap \in Nat \ {0} BY PipeAssumption DEF Counters
  <2>2. x - Wrap \in 0 .. Wrap - 1 BY <1>2, PipeAssumption DEF Counters
  <2> HIDE DEF x
  <2>3. Wrap % Wrap = 0 BY <2>1
  <2>4. (x - Wrap) % Wrap = x % Wrap BY Zenon, <2>1, <2>3, SamePlace
  <2>5. (x - Wrap) % Wrap = x - Wrap BY <2>1, <2>2
  <2>6. x % Wrap = x - Wrap BY Zenon, <2>4, <2>5
  <2> QED BY <1>2, <2>6, PipeAssumption DEF Counters, x
<1> QED BY <1>1, <1>2, PipeAssumption DEF Counters

-----------------------------------------------------------------------------
(* The invariant.                                                          *)

Places == 0 .. PIPESIZE - 1

WriterPoints == {"wlock", "wtop", "wtry", "wsleep"}
ReaderPoints == {"rlock", "rtop", "rtry", "rsleep", "rcopy"}

\* The types, and whose code is where.
PipeTypes ==
  /\ alive \in BOOLEAN /\ readopen \in BOOLEAN /\ writeopen \in BOOLEAN
  /\ data \in [Places -> Bytes]
  /\ nread \in Counters /\ nwrite \in Counters
  /\ pc \in [Procs -> Points]
  /\ n \in [Procs -> Nat] /\ i \in [Procs -> Nat] /\ ch \in [Readers -> Bytes]
  /\ killed \in [Procs -> BOOLEAN]
  /\ lock \in Procs \cup {None}
  /\ \A p \in Procs : pc[p] \in WriterPoints => p \in Writers
  /\ \A p \in Procs : pc[p] \in ReaderPoints => p \in Readers

\* pi->lock is held by the process inside pipewrite or piperead.
Held == \A p \in Procs : lock = p <=> pc[p] \in LockPoints

\* An end is open as long as a process has it; the last one of it closes it,
\* and pipewrite has seen the read end open since it took the lock.
Opened ==
  /\ alive <=> readopen \/ writeopen
  /\ \A w \in Writers : pc[w] # "out" => writeopen
  /\ \A r \in Readers : pc[r] # "out" => readopen
  /\ \A p \in Procs : pc[p] = "close" => \A q \in Peers(p) : pc[q] = "out"
  /\ \A p \in Procs : pc[p] = "wtry" => readopen

\* Why a process sleeps, or who is about to wake it.
Waits ==
  /\ \A p \in Procs : pc[p] = "rtry" => Empty /\ writeopen
  /\ \A w \in Writers : pc[w] = "wsleep" =>
       readopen /\ (Full \/ \E r \in Readers : pc[r] = "rcopy")
  /\ (\A w \in Writers : ~killed[w]) =>
       \A r \in Readers : pc[r] = "rsleep" =>
         (Empty /\ writeopen) \/ \E w \in Writers : pc[w] \in {"wtop", "wtry"}
  /\ \A r \in Readers, w \in Writers : ~(pc[r] = "rsleep" /\ pc[w] = "wsleep")

PipeInv ==
  PipeTypes /\ Count <= PIPESIZE /\ Held /\ Opened /\ Waits

-----------------------------------------------------------------------------
(* Each group of conjuncts, one action after the other.                    *)

\* pipewrite: the counter of the byte that is written.
LEMMA CountWrite ==
  ASSUME NEW r \in Counters, NEW w \in Counters, (w - r) % Wrap < PIPESIZE
  PROVE  (((w + 1) % Wrap) - r) % Wrap = ((w - r) % Wrap) + 1
<1> DEFINE v == (w + 1) % Wrap
<1>1. v = IF w = Wrap - 1 THEN 0 ELSE w + 1 BY Zenon, Incremented
<1> HIDE DEF v
<1>2. v \in Counters BY <1>1, PipeAssumption DEF Counters
<1>3. (v - r) % Wrap = IF v >= r THEN v - r ELSE v - r + Wrap BY Zenon, <1>2, CountIs
<1>4. (w - r) % Wrap = IF w >= r THEN w - r ELSE w - r + Wrap BY Zenon, CountIs
<1>5. (v - r) % Wrap = ((w - r) % Wrap) + 1 BY <1>1, <1>3, <1>4, PipeAssumption DEF Counters
<1> QED BY Zenon, <1>5 DEF v

\* piperead: the counter of the byte that is read.
LEMMA CountRead ==
  ASSUME NEW r \in Counters, NEW w \in Counters, r # w
  PROVE  (w - ((r + 1) % Wrap)) % Wrap = ((w - r) % Wrap) - 1
<1> DEFINE v == (r + 1) % Wrap
<1>1. v = IF r = Wrap - 1 THEN 0 ELSE r + 1 BY Zenon, Incremented
<1> HIDE DEF v
<1>2. v \in Counters BY <1>1, PipeAssumption DEF Counters
<1>3. (w - v) % Wrap = IF w >= v THEN w - v ELSE w - v + Wrap BY Zenon, <1>2, CountIs
<1>4. (w - r) % Wrap = IF w >= r THEN w - r ELSE w - r + Wrap BY Zenon, CountIs
<1>5. (w - v) % Wrap = ((w - r) % Wrap) - 1 BY <1>1, <1>3, <1>4, PipeAssumption DEF Counters
<1> QED BY Zenon, <1>5 DEF v

\* What the tests of pipewrite and piperead mean for the number of bytes in
\* the pipe.
LEMMA CountFacts ==
  ASSUME PipeTypes
  PROVE  /\ Count \in Nat
         /\ Full <=> Count = PIPESIZE
         /\ Empty <=> Count = 0
         /\ ~(Full /\ Empty)
<1>1. nread \in Counters /\ nwrite \in Counters BY Zenon DEF PipeTypes
<1>2. Count = IF nwrite >= nread THEN nwrite - nread ELSE nwrite - nread + Wrap
  BY Zenon, <1>1, CountIs DEF Count
<1>3. (nread + PIPESIZE) % Wrap = IF nread + PIPESIZE < Wrap THEN nread + PIPESIZE
                                                            ELSE nread + PIPESIZE - Wrap
  BY Zenon, <1>1, FullIs
<1>4. Count \in Nat /\ (Empty <=> Count = 0)
  BY <1>1, <1>2, PipeAssumption DEF Counters, Empty
<1>5. Full <=> Count = PIPESIZE
  BY <1>1, <1>2, <1>3, PipeAssumption DEF Counters, Full
<1> QED BY Zenon, <1>4, <1>5, PipeAssumption

\* A counter stays a counter.
LEMMA CounterStep ==
  ASSUME NEW x \in Counters
  PROVE  (x + 1) % Wrap \in Counters
BY Incremented, PipeAssumption DEF Counters

\* The places of the ring that the code indexes are there.
LEMMA PlaceOK ==
  ASSUME NEW x \in Counters
  PROVE  x % PIPESIZE \in Places
BY DivMod, PipeAssumption DEF Counters, Places

\* The types are kept.
LEMMA TypesStep == ASSUME PipeInv, Next PROVE PipeTypes'
<1> USE DEF PipeInv, PipeTypes, ends, ring, locals, Points, WriterPoints, ReaderPoints
<1>1. CASE pipealloc BY <1>1, PipeAssumption DEF pipealloc, Counters
<1>2. ASSUME NEW p \in Procs, Call(p) PROVE PipeTypes'
  BY <1>2, PipeAssumption DEF Call, Goto, Procs
<1>3. ASSUME NEW p \in Procs, Lock(p) PROVE PipeTypes'
  BY Zenon, <1>3 DEF Lock, Goto
<1>4. ASSUME NEW p \in Procs, WriteTop(p) PROVE PipeTypes'
  BY <1>4 DEF WriteTop, Goto, WakeReaders, WakeupGoto, Leave
<1>5. ASSUME NEW p \in Procs, WriteFull(p) PROVE PipeTypes'
  BY Zenon, <1>5 DEF WriteFull, WakeReaders, WakeupGoto
<1>6. ASSUME NEW p \in Procs, WriteByte(p) PROVE PipeTypes'
  <2>1. nwrite' \in Counters BY Zenon, <1>6, CounterStep DEF WriteByte
  <2>2. data' \in [Places -> Bytes] BY Zenon, <1>6, PlaceOK DEF WriteByte
  <2> QED BY <1>6, <2>1, <2>2 DEF WriteByte, Goto
<1>7. ASSUME NEW p \in Procs, WriteFail(p) PROVE PipeTypes'
  BY Zenon, <1>7 DEF WriteFail, WakeReaders, WakeupGoto, Leave
<1>8. ASSUME NEW p \in Procs, ReadTop(p) PROVE PipeTypes'
  BY <1>8 DEF ReadTop, Goto, Leave
<1>9. ASSUME NEW p \in Procs, ReadSleep(p) PROVE PipeTypes'
  BY Zenon, <1>9 DEF ReadSleep, Goto
<1>10. ASSUME NEW p \in Procs, ReadByte(p) PROVE PipeTypes'
  <2>1. nread' \in Counters BY Zenon, <1>10, CounterStep DEF ReadByte
  <2>2. ch' \in [Readers -> Bytes] BY Zenon, <1>10, PlaceOK DEF ReadByte
  <2> QED BY <1>10, <2>1, <2>2 DEF ReadByte, WakeWriters, WakeupGoto, Leave
<1>11. ASSUME NEW p \in Procs, ReadDone(p) PROVE PipeTypes'
  BY Zenon, <1>11 DEF ReadDone, WakeWriters, WakeupGoto, Leave
<1>12. ASSUME NEW p \in Procs, pipeclose(p) PROVE PipeTypes'
  BY ZenonT(60), <1>12 DEF pipeclose, WakeReaders, WakeWriters, WakeupGoto
<1>13. ASSUME NEW p \in Procs, fileclose(p) PROVE PipeTypes'
  BY Zenon, <1>13 DEF fileclose, Goto
<1>14. ASSUME NEW p \in Procs, kill(p) PROVE PipeTypes'
  BY Zenon, <1>14 DEF kill
<1> QED BY Zenon, <1>1, <1>2, <1>3, <1>4, <1>5, <1>6, <1>7, <1>8, <1>9, <1>10, <1>11, <1>12,
           <1>13, <1>14 DEF Next, Step

\* The ring never holds more than PIPESIZE bytes.
LEMMA CountStep == ASSUME PipeInv, Next PROVE (Count <= PIPESIZE)'
<1>0. Count \in Nat /\ Count <= PIPESIZE /\ nread \in Counters /\ nwrite \in Counters
  BY Zenon, CountFacts DEF PipeInv, PipeTypes
<1>1. CASE pipealloc
  <2>1. Count' = 0 BY <1>1, PipeAssumption DEF pipealloc, Count
  <2> QED BY <2>1, PipeAssumption
<1>2. ASSUME NEW p \in Procs, WriteByte(p) PROVE (Count <= PIPESIZE)'
  <2>1. Count < PIPESIZE BY <1>0, <1>2, CountFacts, PipeAssumption DEF PipeInv, WriteByte
  <2>2. nwrite' = (nwrite + 1) % Wrap /\ nread' = nread BY Zenon, <1>2 DEF WriteByte
  <2>3. Count' = Count + 1 BY Zenon, <1>0, <2>1, <2>2, CountWrite DEF Count
  <2> QED BY <1>0, <2>1, <2>3, PipeAssumption
<1>3. ASSUME NEW p \in Procs, ReadByte(p) PROVE (Count <= PIPESIZE)'
  <2>1. nread # nwrite BY Zenon, <1>3 DEF ReadByte, Empty
  <2>2. nread' = (nread + 1) % Wrap /\ nwrite' = nwrite BY Zenon, <1>3 DEF ReadByte
  <2>3. Count' = Count - 1 BY Zenon, <1>0, <2>1, <2>2, CountRead DEF Count
  <2> QED BY <1>0, <2>3, PipeAssumption
<1>4. CASE UNCHANGED <<nread, nwrite>> BY Zenon, <1>0, <1>4 DEF Count
<1> QED
  BY Zenon, <1>1, <1>2, <1>3, <1>4
     DEF Next, Step, Call, Lock, WriteTop, WriteFull, WriteFail, ReadTop,
     ReadSleep, ReadDone, pipeclose, fileclose, kill, ring

\* The lock has the holder the program counters say.
LEMMA HeldStep == ASSUME PipeInv, Next PROVE Held'
<1>0. /\ pc \in [Procs -> Points] /\ lock \in Procs \cup {None} /\ Held
      /\ None \notin Procs
  BY Zenon, PipeAssumption DEF PipeInv, PipeTypes, Procs
<1> USE <1>0 DEF Held, LockPoints
<1>1. CASE pipealloc BY Zenon, <1>1 DEF pipealloc
<1>2. ASSUME NEW p \in Procs, Call(p) PROVE Held' BY Zenon, <1>2 DEF Call, Goto
<1>3. ASSUME NEW p \in Procs, Lock(p) PROVE Held' BY Zenon, <1>3 DEF Lock, Goto
<1>4. ASSUME NEW p \in Procs, WriteTop(p) PROVE Held'
  BY <1>4 DEF WriteTop, Goto, WakeReaders, WakeupGoto, Leave
<1>5. ASSUME NEW p \in Procs, WriteFull(p) PROVE Held'
  BY Zenon, <1>5 DEF WriteFull, WakeReaders, WakeupGoto
<1>6. ASSUME NEW p \in Procs, WriteByte(p) PROVE Held' BY Zenon, <1>6 DEF WriteByte, Goto
<1>7. ASSUME NEW p \in Procs, WriteFail(p) PROVE Held'
  BY Zenon, <1>7 DEF WriteFail, WakeReaders, WakeupGoto, Leave
<1>8. ASSUME NEW p \in Procs, ReadTop(p) PROVE Held' BY Zenon, <1>8 DEF ReadTop, Goto, Leave
<1>9. ASSUME NEW p \in Procs, ReadSleep(p) PROVE Held' BY Zenon, <1>9 DEF ReadSleep, Goto
<1>10. ASSUME NEW p \in Procs, ReadByte(p) PROVE Held'
  BY Zenon, <1>10 DEF ReadByte, WakeWriters, WakeupGoto, Leave
<1>11. ASSUME NEW p \in Procs, ReadDone(p) PROVE Held'
  BY Zenon, <1>11 DEF ReadDone, WakeWriters, WakeupGoto, Leave
<1>12. ASSUME NEW p \in Procs, pipeclose(p) PROVE Held'
  BY Zenon, <1>12 DEF pipeclose, WakeReaders, WakeWriters, WakeupGoto
<1>13. ASSUME NEW p \in Procs, fileclose(p) PROVE Held' BY Zenon, <1>13 DEF fileclose, Goto
<1>14. ASSUME NEW p \in Procs, kill(p) PROVE Held' BY Zenon, <1>14 DEF kill
<1> QED BY Zenon, <1>1, <1>2, <1>3, <1>4, <1>5, <1>6, <1>7, <1>8, <1>9, <1>10, <1>11, <1>12,
           <1>13, <1>14 DEF Next, Step

\* The ends are open for those who have them.
LEMMA OpenedStep == ASSUME PipeInv, Next PROVE Opened'
<1>0. /\ pc \in [Procs -> Points] /\ Held /\ Opened /\ None \notin Procs
      /\ readopen \in BOOLEAN /\ writeopen \in BOOLEAN /\ Readers \cap Writers = {}
      /\ \A p \in Procs : pc[p] \in WriterPoints => p \in Writers
  BY Zenon, PipeAssumption DEF PipeInv, PipeTypes, Procs
<1> USE <1>0 DEF Opened, Peers, Procs, ends
<1>1. CASE pipealloc BY Zenon, <1>1 DEF pipealloc
<1>2. ASSUME NEW p \in Procs, Call(p) PROVE Opened' BY Zenon, <1>2 DEF Call, Goto
<1>3. ASSUME NEW p \in Procs, Lock(p) PROVE Opened' BY Zenon, <1>3 DEF Lock, Goto
<1>4. ASSUME NEW p \in Procs, WriteTop(p) PROVE Opened'
  BY <1>4 DEF WriteTop, Goto, WakeReaders, WakeupGoto
<1>5. ASSUME NEW p \in Procs, WriteFull(p) PROVE Opened'
  BY Zenon, <1>5 DEF WriteFull, WakeReaders, WakeupGoto
<1>6. ASSUME NEW p \in Procs, WriteByte(p) PROVE Opened' BY Zenon, <1>6 DEF WriteByte, Goto
<1>7. ASSUME NEW p \in Procs, WriteFail(p) PROVE Opened'
  BY Zenon, <1>7 DEF WriteFail, WakeReaders, WakeupGoto
<1>8. ASSUME NEW p \in Procs, ReadTop(p) PROVE Opened' BY <1>8 DEF ReadTop, Goto
<1>9. ASSUME NEW p \in Procs, ReadSleep(p) PROVE Opened' BY Zenon, <1>9 DEF ReadSleep, Goto
<1>10. ASSUME NEW p \in Procs, ReadByte(p) PROVE Opened'
  BY Zenon, <1>10 DEF ReadByte, WakeWriters, WakeupGoto
<1>11. ASSUME NEW p \in Procs, ReadDone(p) PROVE Opened'
  BY Zenon, <1>11 DEF ReadDone, WakeWriters, WakeupGoto
<1>12. ASSUME NEW p \in Procs, pipeclose(p) PROVE Opened'
  <2>1. \A q \in Procs : pc[q] # "wtry" BY Zenon, <1>12 DEF pipeclose, Held, LockPoints
  <2>2. CASE p \in Writers
    BY <1>12, <2>1, <2>2 DEF pipeclose, WakeReaders, WakeupGoto
  <2>3. CASE p \notin Writers
    BY <1>12, <2>1, <2>3 DEF pipeclose, WakeWriters, WakeupGoto
  <2> QED BY Zenon, <2>2, <2>3
<1>13. ASSUME NEW p \in Procs, fileclose(p) PROVE Opened' BY <1>13 DEF fileclose, Goto
<1>14. ASSUME NEW p \in Procs, kill(p) PROVE Opened' BY Zenon, <1>14 DEF kill
<1> QED BY Zenon, <1>1, <1>2, <1>3, <1>4, <1>5, <1>6, <1>7, <1>8, <1>9, <1>10, <1>11, <1>12,
           <1>13, <1>14 DEF Next, Step

\* Nobody sleeps without a reason, and whoever takes the reason away is inside
\* the lock and will wake him.
LEMMA WaitsStep == ASSUME PipeInv, Next PROVE Waits'
<1>0. /\ pc \in [Procs -> Points] /\ Held /\ Opened /\ Waits /\ None \notin Procs
      /\ killed \in [Procs -> BOOLEAN]
      /\ \A p \in Procs : pc[p] \in WriterPoints => p \in Writers
      /\ \A p \in Procs : pc[p] \in ReaderPoints => p \in Readers
      /\ Readers \subseteq Procs /\ Writers \subseteq Procs /\ Readers \cap Writers = {}
  BY Zenon, PipeAssumption DEF PipeInv, PipeTypes, Procs
<1>f. ~(Full /\ Empty) BY Zenon, CountFacts DEF PipeInv
\* One process at a time is inside.
<1>h. \A p, q \in Procs : pc[p] \in LockPoints /\ pc[q] \in LockPoints => p = q
  BY Zenon, <1>0 DEF Held
<1> USE <1>0 DEF Waits, ends, ring, WriterPoints, ReaderPoints
<1>1. CASE pipealloc BY Zenon, <1>1 DEF pipealloc
<1>2. ASSUME NEW p \in Procs, Call(p) PROVE Waits'
  BY Zenon, <1>2 DEF Call, Goto, Empty, Full
<1>3. ASSUME NEW p \in Procs, Lock(p) PROVE Waits'
  BY Zenon, <1>3 DEF Lock, Goto, Empty, Full
<1>4. ASSUME NEW p \in Procs, WriteTop(p) PROVE Waits'
  BY <1>4, <1>h DEF WriteTop, Goto, WakeReaders, WakeupGoto, Empty, Full, Opened, LockPoints
<1>5. ASSUME NEW p \in Procs, WriteFull(p) PROVE Waits'
  BY Zenon, <1>5, <1>h DEF WriteFull, WakeReaders, WakeupGoto, Empty, Full, Opened, LockPoints
<1>6. ASSUME NEW p \in Procs, WriteByte(p) PROVE Waits'
  BY Zenon, <1>6, <1>h DEF WriteByte, Goto, LockPoints
<1>7. ASSUME NEW p \in Procs, WriteFail(p) PROVE Waits'
  BY Zenon, <1>7, <1>h DEF WriteFail, WakeReaders, WakeupGoto, Empty, Full, LockPoints
<1>8. ASSUME NEW p \in Procs, ReadTop(p) PROVE Waits'
  BY <1>8, <1>h DEF ReadTop, Goto, Empty, Full, LockPoints
<1>9. ASSUME NEW p \in Procs, ReadSleep(p) PROVE Waits'
  BY Zenon, <1>9, <1>f, <1>h DEF ReadSleep, Goto, Empty, Full, LockPoints
<1>10. ASSUME NEW p \in Procs, ReadByte(p) PROVE Waits'
  BY Zenon, <1>10, <1>h DEF ReadByte, WakeWriters, WakeupGoto, LockPoints
<1>11. ASSUME NEW p \in Procs, ReadDone(p) PROVE Waits'
  BY Zenon, <1>11, <1>h DEF ReadDone, WakeWriters, WakeupGoto, Empty, Full, LockPoints
<1>12. ASSUME NEW p \in Procs, pipeclose(p) PROVE Waits'
  <2>1. \A q \in Procs : pc[q] \notin LockPoints BY Zenon, <1>12 DEF pipeclose, Held
  <2> QED BY <1>12, <2>1
             DEF pipeclose, WakeReaders, WakeWriters, WakeupGoto, Empty, Full, LockPoints
<1>13. ASSUME NEW p \in Procs, fileclose(p) PROVE Waits'
  BY Zenon, <1>13 DEF fileclose, Goto, Empty, Full
<1>14. ASSUME NEW p \in Procs, kill(p) PROVE Waits'
  BY Zenon, <1>14 DEF kill, Empty, Full
<1> QED BY Zenon, <1>1, <1>2, <1>3, <1>4, <1>5, <1>6, <1>7, <1>8, <1>9, <1>10, <1>11, <1>12,
           <1>13, <1>14 DEF Next, Step

-----------------------------------------------------------------------------
(* Invariance.                                                             *)

\* Before pipealloc.
LEMMA PipeInit == ASSUME Init PROVE PipeInv
<1>1. Count = 0 BY PipeAssumption DEF Init, Count
<1>2. PipeTypes
  <2>1. nread \in Counters /\ nwrite \in Counters BY PipeAssumption DEF Init, Counters
  <2>2. data \in [Places -> Bytes] BY Zenon DEF Init, Places
  <2> QED BY Zenon, <2>1, <2>2 DEF Init, PipeTypes, Points, WriterPoints, ReaderPoints
<1>3. Held BY Zenon, PipeAssumption DEF Init, Held, Procs, LockPoints
<1>4. Opened BY Zenon DEF Init, Opened, Procs
<1>5. Waits BY Zenon DEF Init, Waits, Procs
<1> QED BY <1>1, <1>2, <1>3, <1>4, <1>5, PipeAssumption DEF PipeInv

\* Every step, and a step that changes nothing.
LEMMA PipeStep == ASSUME PipeInv, [Next]_vars PROVE PipeInv'
<1>1. CASE Next
  BY Zenon, <1>1, TypesStep, CountStep, HeldStep, OpenedStep, WaitsStep DEF PipeInv
<1>2. CASE UNCHANGED vars
  BY Zenon, <1>2 DEF vars, PipeInv, PipeTypes, Count, Held, Opened, Waits, Peers, Empty, Full
<1> QED BY Zenon, <1>1, <1>2

\* The invariant of the pipe holds in every reachable state.
THEOREM PipeInvariance == Spec => []PipeInv
BY PTL, PipeInit, PipeStep DEF Spec

\* Nobody sleeps in piperead with data to read or without a writer (unless a
\* writer was killed), nor in pipewrite with room or without a reader; a
\* reader and a writer never wait for each other, whoever is killed; and the
\* page of the pipe is there as long as a process has an end of it.
THEOREM PipeSafety ==
  Spec => [](ReaderSleepsOnEmpty /\ WriterSleepsOnFull /\ NoMutualSleep /\ NoUseAfterFree)
<1>1. ASSUME PipeInv
      PROVE  ReaderSleepsOnEmpty /\ WriterSleepsOnFull /\ NoMutualSleep /\ NoUseAfterFree
  <2>1. lock = None => \A p \in Procs : pc[p] \notin LockPoints
    BY Zenon, <1>1, PipeAssumption DEF PipeInv, Held, Procs
  <2>2. ReaderSleepsOnEmpty
    BY Zenon, <1>1, <2>1 DEF PipeInv, Waits, ReaderSleepsOnEmpty, LockPoints, Procs
  <2>3. WriterSleepsOnFull
    BY Zenon, <1>1, <2>1 DEF PipeInv, Waits, WriterSleepsOnFull, LockPoints, Procs
  <2>4. NoMutualSleep BY Zenon, <1>1 DEF PipeInv, Waits, NoMutualSleep
  <2>5. NoUseAfterFree BY Zenon, <1>1 DEF PipeInv, Opened, NoUseAfterFree, Procs
  <2> QED BY Zenon, <2>2, <2>3, <2>4, <2>5
<1> QED BY PTL, <1>1, PipeInvariance

-----------------------------------------------------------------------------
(* The pipe is a bounded queue.                                            *)

\* The c bytes from position r of the ring d on.
QueueOf(d, r, c) == [k \in 1 .. c |-> d[(r + k - 1) % PIPESIZE]]

\* It is a sequence of bytes.
LEMMA QueueIs ==
  ASSUME NEW d \in [Places -> Bytes], NEW r \in Counters, NEW c \in Nat
  PROVE  /\ QueueOf(d, r, c) \in Seq(Bytes) /\ Len(QueueOf(d, r, c)) = c
         /\ \A k \in 1 .. c : QueueOf(d, r, c)[k] = d[(r + k - 1) % PIPESIZE]
<1>1. \A k \in 1 .. c : (r + k - 1) % PIPESIZE \in Places
  <2> TAKE k \in 1 .. c
  <2> DEFINE x == r + k - 1
  <2>1. x \in Int BY DEF Counters
  <2> HIDE DEF x
  <2>2. x % PIPESIZE \in Places BY Zenon, <2>1, DivMod, PipeAssumption DEF Places
  <2> QED BY Zenon, <2>2 DEF x
<1>2. QueueOf(d, r, c) \in [1 .. c -> Bytes] BY Zenon, <1>1 DEF QueueOf
<1> QED BY <1>2 DEF QueueOf

\* pipewrite puts a byte at the end: its place is not one of those in use.
LEMMA PutByte ==
  ASSUME NEW d \in [Places -> Bytes], NEW r \in Counters, NEW c \in Nat, c < PIPESIZE,
         NEW w \in Counters, w = r + c \/ w = r + c - Wrap, NEW b \in Bytes
  PROVE  QueueOf([d EXCEPT ![w % PIPESIZE] = b], r, c + 1) = Append(QueueOf(d, r, c), b)
<1> DEFINE e == [d EXCEPT ![w % PIPESIZE] = b]
           x == r + c
<1>0. r \in Nat /\ x \in Int /\ PIPESIZE \in Nat \ {0} /\ Wrap \in Nat
  BY PipeAssumption DEF Counters
<1>1. w % PIPESIZE = x % PIPESIZE
  <2>1. w = x \/ w = x - Wrap BY <1>0, PipeAssumption DEF Counters
  <2> HIDE DEF x
  <2>2. (x - Wrap) % PIPESIZE = x % PIPESIZE BY Zenon, <1>0, SamePlace, PipeAssumption
  <2> QED BY Zenon, <2>1, <2>2
<1>2. w % PIPESIZE \in Places BY Zenon, PlaceOK
<1>3. e \in [Places -> Bytes] /\ e[w % PIPESIZE] = b BY Zenon, <1>2
<1>4. ASSUME NEW k \in 1 .. c
      PROVE  e[(r + k - 1) % PIPESIZE] = d[(r + k - 1) % PIPESIZE]
  <2> DEFINE y == r + k - 1
  <2>1. y \in Int /\ y < x /\ x < y + PIPESIZE BY <1>0
  <2> HIDE DEF x, y
  <2>2. y % PIPESIZE # x % PIPESIZE BY Zenon, <1>0, <2>1, OtherPlace
  <2>3. e[y % PIPESIZE] = d[y % PIPESIZE] BY <1>1, <2>2
  <2> QED BY Zenon, <2>3 DEF y
<1>5. e[(r + (c + 1) - 1) % PIPESIZE] = b
  <2>1. r + (c + 1) - 1 = x BY <1>0
  <2> QED BY Zenon, <1>1, <1>3, <2>1
<1> HIDE DEF e, x
<1>6. /\ QueueOf(d, r, c) \in Seq(Bytes) /\ Len(QueueOf(d, r, c)) = c
      /\ \A k \in 1 .. c : QueueOf(d, r, c)[k] = d[(r + k - 1) % PIPESIZE]
  BY Zenon, QueueIs
<1>7. /\ QueueOf(e, r, c + 1) \in Seq(Bytes) /\ Len(QueueOf(e, r, c + 1)) = c + 1
      /\ \A k \in 1 .. c + 1 : QueueOf(e, r, c + 1)[k] = e[(r + k - 1) % PIPESIZE]
  <2>1. c + 1 \in Nat OBVIOUS
  <2> QED BY Zenon, <1>3, <2>1, QueueIs
<1>8. \A k \in 1 .. c + 1 : QueueOf(e, r, c + 1)[k] = Append(QueueOf(d, r, c), b)[k]
  <2>1. \A k \in 1 .. c : QueueOf(e, r, c + 1)[k] = QueueOf(d, r, c)[k] BY <1>4, <1>6, <1>7
  <2>2. QueueOf(e, r, c + 1)[c + 1] = b BY <1>5, <1>7
  <2> QED BY <1>6, <2>1, <2>2
<1>9. QueueOf(e, r, c + 1) = Append(QueueOf(d, r, c), b) BY <1>6, <1>7, <1>8
<1> QED BY Zenon, <1>9 DEF e

\* piperead takes the byte at the front.
LEMMA TakeByte ==
  ASSUME NEW d \in [Places -> Bytes], NEW r \in Counters, NEW c \in Nat \ {0}
  PROVE  /\ QueueOf(d, r, c) # <<>>
         /\ Head(QueueOf(d, r, c)) = d[r % PIPESIZE]
         /\ Tail(QueueOf(d, r, c)) = QueueOf(d, (r + 1) % Wrap, c - 1)
<1> DEFINE v == (r + 1) % Wrap
<1>0. r \in Nat /\ PIPESIZE \in Nat \ {0} /\ Wrap \in Nat /\ v \in Counters
  BY CounterStep, PipeAssumption DEF Counters
<1>i. v = IF r = Wrap - 1 THEN 0 ELSE r + 1 BY Zenon, Incremented
<1> HIDE DEF v
<1>1. v = r + 1 \/ v = r + 1 - Wrap BY <1>0, <1>i
<1>2. ASSUME NEW k \in 1 .. c - 1
      PROVE  (v + k - 1) % PIPESIZE = (r + (k + 1) - 1) % PIPESIZE
  <2> DEFINE x == r + (k + 1) - 1
  <2>1. x \in Int /\ (v + k - 1 = x \/ v + k - 1 = x - Wrap) BY <1>0, <1>1 DEF Counters
  <2> HIDE DEF x
  <2>2. (x - Wrap) % PIPESIZE = x % PIPESIZE BY Zenon, <1>0, <2>1, SamePlace, PipeAssumption
  <2>3. (v + k - 1) % PIPESIZE = x % PIPESIZE BY Zenon, <2>1, <2>2
  <2> QED BY Zenon, <2>3 DEF x
<1>3. /\ QueueOf(d, r, c) \in Seq(Bytes) /\ Len(QueueOf(d, r, c)) = c
      /\ \A k \in 1 .. c : QueueOf(d, r, c)[k] = d[(r + k - 1) % PIPESIZE]
  BY Zenon, QueueIs
<1>4. /\ QueueOf(d, v, c - 1) \in Seq(Bytes) /\ Len(QueueOf(d, v, c - 1)) = c - 1
      /\ \A k \in 1 .. c - 1 : QueueOf(d, v, c - 1)[k] = d[(v + k - 1) % PIPESIZE]
  <2>1. c - 1 \in Nat OBVIOUS
  <2> QED BY Zenon, <1>0, <2>1, QueueIs
<1>5. QueueOf(d, r, c) # <<>> BY Zenon, <1>3
<1>6. Head(QueueOf(d, r, c)) = d[r % PIPESIZE]
  <2>1. r + 1 - 1 = r /\ 1 \in 1 .. c BY <1>0
  <2> QED BY <1>3, <1>5, <2>1
<1>7. \A k \in 1 .. c - 1 : QueueOf(d, r, c)[k + 1] = QueueOf(d, v, c - 1)[k]
  BY <1>2, <1>3, <1>4
<1>8. Tail(QueueOf(d, r, c)) = QueueOf(d, v, c - 1) BY <1>3, <1>4, <1>5, <1>7
<1> QED BY Zenon, <1>5, <1>6, <1>8 DEF v

\* The state of the queue in PipeFifo, and its steps, as the mapping of module
\* Pipe has them.
Queue == IF alive THEN QueueOf(data, nread, Count) ELSE <<>>
OpenEnds == (IF readopen THEN {"r"} ELSE {}) \cup (IF writeopen THEN {"w"} ELSE {})
FifoNext ==
  \/ OpenEnds = {} /\ OpenEnds' = {"r", "w"} /\ Queue' = Queue /\ ch' = ch
  \/ \E b \in Bytes : /\ OpenEnds = {"r", "w"} /\ Len(Queue) < PIPESIZE
                      /\ Queue' = Append(Queue, b) /\ OpenEnds' = OpenEnds /\ ch' = ch
  \/ \E r \in Readers : /\ "r" \in OpenEnds /\ Queue # <<>>
                        /\ ch' = [ch EXCEPT ![r] = Head(Queue)]
                        /\ Queue' = Tail(Queue) /\ OpenEnds' = OpenEnds
  \/ \E e \in OpenEnds : /\ OpenEnds' = OpenEnds \ {e}
                         /\ Queue' = IF OpenEnds' = {} THEN <<>> ELSE Queue
                         /\ ch' = ch

\* pipealloc opens both ends of an empty queue.
LEMMA AllocRef == ASSUME PipeInv, pipealloc PROVE FifoNext
<1>1. Count' = 0 BY PipeAssumption DEF pipealloc, Count
<1>2. QueueOf(data, nread, Count)' = <<>> BY <1>1 DEF QueueOf
<1>3. Queue' = <<>> /\ Queue = <<>> BY Zenon, <1>2 DEF pipealloc, Queue
<1>4. OpenEnds = {} /\ OpenEnds' = {"r", "w"}
  BY Zenon DEF pipealloc, OpenEnds, PipeInv, PipeTypes, Opened
<1> QED BY Zenon, <1>3, <1>4 DEF FifoNext, pipealloc, locals

\* pipewrite puts its byte at the end, while both ends are open.
LEMMA WriteRef == ASSUME PipeInv, NEW p \in Procs, WriteByte(p) PROVE FifoNext
<1>0. /\ data \in [Places -> Bytes] /\ nread \in Counters /\ nwrite \in Counters
      /\ Count \in Nat /\ Count <= PIPESIZE
  BY Zenon, CountFacts DEF PipeInv, PipeTypes
<1>1. Count < PIPESIZE BY <1>0, CountFacts, PipeAssumption DEF PipeInv, WriteByte
<1>2. p \in Writers /\ readopen /\ writeopen /\ alive
  BY Zenon DEF PipeInv, PipeTypes, Opened, WriteByte, WriterPoints
<1>3. PICK b \in Bytes : data' = [data EXCEPT ![nwrite % PIPESIZE] = b] BY Zenon DEF WriteByte
<1>4. nread' = nread /\ Count' = Count + 1
  <2>1. nwrite' = (nwrite + 1) % Wrap /\ nread' = nread BY Zenon DEF WriteByte
  <2> QED BY Zenon, <1>0, <1>1, <2>1, CountWrite DEF Count
<1>5. nwrite = nread + Count \/ nwrite = nread + Count - Wrap
  <2>1. Count = IF nwrite >= nread THEN nwrite - nread ELSE nwrite - nread + Wrap
    BY Zenon, <1>0, CountIs DEF Count
  <2> QED BY <1>0, <2>1, PipeAssumption DEF Counters
<1>6. QueueOf([data EXCEPT ![nwrite % PIPESIZE] = b], nread, Count + 1)
        = Append(QueueOf(data, nread, Count), b)
  BY Zenon, <1>0, <1>1, <1>5, PutByte
<1>7. QueueOf(data, nread, Count)' = Append(QueueOf(data, nread, Count), b)
  BY Zenon, <1>3, <1>4, <1>6
<1>8. alive' = alive /\ OpenEnds' = OpenEnds /\ ch' = ch BY Zenon DEF WriteByte, ends, OpenEnds
<1>9. Queue' = Append(Queue, b) BY Zenon, <1>2, <1>7, <1>8 DEF Queue
<1>10. Len(Queue) = Count BY Zenon, <1>0, <1>2, QueueIs DEF Queue
<1>11. OpenEnds = {"r", "w"} BY Zenon, <1>2 DEF OpenEnds
<1> QED BY Zenon, <1>1, <1>8, <1>9, <1>10, <1>11 DEF FifoNext

\* piperead takes its byte from the front.
LEMMA ReadRef == ASSUME PipeInv, NEW p \in Procs, ReadByte(p) PROVE FifoNext
<1>0. /\ data \in [Places -> Bytes] /\ nread \in Counters /\ nwrite \in Counters
      /\ Count \in Nat \ {0}
  BY Zenon, CountFacts DEF PipeInv, PipeTypes, ReadByte
<1>1. p \in Readers /\ readopen /\ alive
  BY Zenon DEF PipeInv, PipeTypes, Opened, ReadByte, ReaderPoints
<1>2. nread' = (nread + 1) % Wrap /\ data' = data /\ Count' = Count - 1
  <2>1. nread # nwrite /\ nread' = (nread + 1) % Wrap /\ nwrite' = nwrite /\ data' = data
    BY Zenon DEF ReadByte, Empty
  <2> QED BY Zenon, <1>0, <2>1, CountRead DEF Count
<1>3. /\ QueueOf(data, nread, Count) # <<>>
      /\ Head(QueueOf(data, nread, Count)) = data[nread % PIPESIZE]
      /\ Tail(QueueOf(data, nread, Count)) = QueueOf(data, (nread + 1) % Wrap, Count - 1)
  BY Zenon, <1>0, TakeByte
<1>4. alive' = alive /\ OpenEnds' = OpenEnds BY Zenon DEF ReadByte, ends, OpenEnds
<1>5. Queue' = Tail(Queue) /\ Queue # <<>> BY Zenon, <1>1, <1>2, <1>3, <1>4 DEF Queue
<1>6. ch' = [ch EXCEPT ![p] = Head(Queue)] BY Zenon, <1>1, <1>3 DEF Queue, ReadByte
<1>7. "r" \in OpenEnds BY Zenon, <1>1 DEF OpenEnds
<1> QED BY Zenon, <1>1, <1>4, <1>5, <1>6, <1>7 DEF FifoNext

\* pipeclose closes one end; the second one takes the contents with it.
LEMMA CloseRef == ASSUME PipeInv, NEW p \in Procs, pipeclose(p) PROVE FifoNext
<1>0. /\ alive \in BOOLEAN /\ readopen \in BOOLEAN /\ writeopen \in BOOLEAN
      /\ alive <=> readopen \/ writeopen
  BY Zenon DEF PipeInv, PipeTypes, Opened
<1>1. data' = data /\ nread' = nread /\ Count' = Count /\ ch' = ch
  BY Zenon DEF pipeclose, ring, locals, Count
<1>2. PICK e \in {"r", "w"} : e \in OpenEnds /\ OpenEnds' = OpenEnds \ {e}
  <2>1. CASE p \in Writers
    <3>1. writeopen BY Zenon, <2>1 DEF PipeInv, Opened, pipeclose
    <3> QED BY Zenon, <1>0, <2>1, <3>1 DEF pipeclose, OpenEnds
  <2>2. CASE p \notin Writers
    <3>1. readopen BY Zenon, <2>2 DEF PipeInv, Opened, pipeclose, Procs
    <3> QED BY Zenon, <1>0, <2>2, <3>1 DEF pipeclose, OpenEnds
  <2> QED BY Zenon, <2>1, <2>2
<1>3. alive /\ (alive' <=> OpenEnds' # {}) BY Zenon, <1>0, <1>2 DEF pipeclose, OpenEnds
<1>4. Queue' = IF OpenEnds' = {} THEN <<>> ELSE Queue BY Zenon, <1>1, <1>3 DEF Queue
<1> QED BY Zenon, <1>1, <1>2, <1>4 DEF FifoNext

\* The ring of pipe.c implements the bounded queue of PipeFifo: every byte
\* comes out once and in order, for every size of the ring, also after nread
\* and nwrite have wrapped around, and through failing copies and closes.
THEOREM FifoRefinement == Spec => FifoOrder
<1>1. ASSUME Init PROVE Fifo!FifoInit
  BY Zenon, <1>1 DEF Init, Fifo!FifoInit
<1>2. ASSUME PipeInv, [Next]_vars PROVE [Fifo!FifoNext]_(Fifo!fifovars)
  <2>1. FifoNext => Fifo!FifoNext
    BY Zenon
       DEF FifoNext, Fifo!FifoNext, Fifo!Open, Fifo!Put, Fifo!Take, Fifo!Close, Queue, QueueOf,
       OpenEnds
  <2>2. CASE UNCHANGED <<alive, readopen, writeopen, data, nread, nwrite, ch>>
    BY Zenon, <2>2 DEF Fifo!fifovars, Count
  <2> QED
    BY Zenon, <1>2, <2>1, <2>2, AllocRef, WriteRef, ReadRef, CloseRef DEF Next, Step, vars, ends,
       ring, locals, Call, Lock, WriteTop, WriteFull, WriteFail, ReadTop, ReadSleep, ReadDone,
       fileclose, kill
<1> QED BY PTL, <1>1, <1>2, PipeInvariance DEF Spec, FifoOrder, Fifo!FifoSpec
=============================================================================
