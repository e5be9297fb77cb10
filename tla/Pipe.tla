-------------------------------- MODULE Pipe --------------------------------
(***************************************************************************)
(* A pipe of kernel/pipe.c, the processes that read, write and close its   *)
(* two ends, and kill.  Each process has one end open, through a file of   *)
(* its own kind that the processes of that kind share.                     *)
(*                                                                         *)
(* pi->lock is held from one step to the next: a loop of pipewrite and of  *)
(* piperead is taken apart into its rounds, and the killed() check of a    *)
(* round is a step before the sleep() that may follow it.  sleep releases  *)
(* pi->lock and sleeps in one step (module Proc).                          *)
(***************************************************************************)
EXTENDS Integers, Sequences, Parts

CONSTANTS
  Readers, Writers,  \* processes
  Killable,          \* those that may be killed
  None,              \* holder of a free lock
  Bytes,
  PIPESIZE,
  Wrap,              \* 2^32: nread and nwrite are of type uint
  Sizes,             \* values of n
  Fails              \* subset of {"copyin", "copyout"}

ASSUME PipeAssumption ==
  /\ PIPESIZE \in Nat \ {0} /\ Wrap \in Nat /\ PIPESIZE < Wrap
  /\ Wrap % PIPESIZE = 0
  /\ Sizes \subseteq Nat
  /\ Readers \cap Writers = {} /\ None \notin Readers \cup Writers

Procs == Readers \cup Writers

VARIABLES
  alive,               \* the page of the pipe is allocated
  lock, data, nread, nwrite, readopen, writeopen,   \* struct pipe
  pc, n, i, ch,        \* each process: where it is, n, i, ch
  killed

ends == <<alive, readopen, writeopen>>
ring == <<data, nread, nwrite>>
locals == <<n, i, ch>>
vars == <<alive, lock, data, nread, nwrite, readopen, writeopen, pc, n, i, ch,
          killed>>

Init ==
  /\ alive = FALSE
  /\ lock = None
  /\ data \in [0 .. PIPESIZE - 1 -> Bytes]
  /\ nread = 0 /\ nwrite = 0
  /\ readopen = FALSE /\ writeopen = FALSE
  /\ pc = [p \in Procs |-> "out"]
  /\ n = [p \in Procs |-> 0]
  /\ i = [p \in Procs |-> 0]
  /\ ch \in [Readers -> Bytes]
  /\ killed = [p \in Procs |-> FALSE]

Goto(p, l) == pc' = [pc EXCEPT ![p] = l]

\* p goes on at l and wakeup() makes the processes asleep at s reacquire the
\* lock at l2.
WakeupGoto(p, l, s, l2) ==
  pc' = [q \in Procs |-> IF q = p THEN l ELSE IF pc[q] = s THEN l2 ELSE pc[q]]
WakeReaders(p, l) == WakeupGoto(p, l, "rsleep", "rlock")
WakeWriters(p, l) == WakeupGoto(p, l, "wsleep", "wlock")

\* release(&pi->lock) before a return, where i is dead.
Leave(p) == lock' = None /\ i' = [i EXCEPT ![p] = 0]

Empty == nread = nwrite

\* Variant: room for one byte too many.
Full_off == nwrite = (nread + PIPESIZE + 1) % Wrap

Full == nwrite = (nread + PIPESIZE) % Wrap

\* pipealloc, and fork handing the ends to new processes.
pipealloc ==
  /\ ~alive /\ \A p \in Procs : pc[p] = "out"
  /\ alive' = TRUE /\ readopen' = TRUE /\ writeopen' = TRUE
  /\ nread' = 0 /\ nwrite' = 0
  /\ pc' = [p \in Procs |-> "user"]
  /\ killed' = [p \in Procs |-> FALSE]
  /\ UNCHANGED <<lock, data, locals>>

\* p calls read or write; a killed process only closes its files any more.
Call(p) ==
  /\ pc[p] = "user" /\ ~killed[p]
  /\ \E k \in Sizes : n' = [n EXCEPT ![p] = k]
  /\ Goto(p, IF p \in Writers THEN "wlock" ELSE "rlock")
  /\ UNCHANGED <<ends, lock, ring, i, ch, killed>>

\* acquire(&pi->lock), at the start and when sleep returns.
Lock(p) ==
  /\ pc[p] \in {"wlock", "rlock"} /\ lock = None
  /\ lock' = p
  /\ Goto(p, IF pc[p] = "wlock" THEN "wtop" ELSE "rtop")
  /\ UNCHANGED <<ends, ring, locals, killed>>

-----------------------------------------------------------------------------
(* pipewrite().                                                            *)

\* Variant: a write that ends does not wake the readers.
WriteTop_nowake(p) ==
  /\ pc[p] = "wtop"
  /\ IF i[p] >= n[p]
       THEN Goto(p, "user") /\ Leave(p)
       ELSE IF ~readopen \/ killed[p]
         THEN Goto(p, "user") /\ Leave(p)
         ELSE Goto(p, "wtry") /\ UNCHANGED <<lock, i>>
  /\ UNCHANGED <<ends, ring, n, ch, killed>>

\* The loop's condition, and the check of readopen and killed.
WriteTop(p) ==
  /\ pc[p] = "wtop"
  /\ IF i[p] >= n[p]
       THEN WakeReaders(p, "user") /\ Leave(p)
       ELSE IF ~readopen \/ killed[p]
         THEN Goto(p, "user") /\ Leave(p)
         ELSE Goto(p, "wtry") /\ UNCHANGED <<lock, i>>
  /\ UNCHANGED <<ends, ring, n, ch, killed>>

\* Variant: does not wake the readers.
WriteFull_nowake(p) ==
  /\ pc[p] = "wtry" /\ Full
  /\ Goto(p, "wsleep")
  /\ lock' = None
  /\ UNCHANGED <<ends, ring, locals, killed>>

\* The pipe is full: wake the readers and sleep.
WriteFull(p) ==
  /\ pc[p] = "wtry" /\ Full
  /\ WakeReaders(p, "wsleep")
  /\ lock' = None
  /\ UNCHANGED <<ends, ring, locals, killed>>

\* One byte.
WriteByte(p) ==
  /\ pc[p] = "wtry" /\ ~Full
  /\ \E b \in Bytes : data' = [data EXCEPT ![nwrite % PIPESIZE] = b]
  /\ nwrite' = (nwrite + 1) % Wrap
  /\ i' = [i EXCEPT ![p] = @ + 1]
  /\ Goto(p, "wtop")
  /\ UNCHANGED <<ends, lock, nread, n, ch, killed>>

\* copyin fails.
WriteFail(p) ==
  /\ "copyin" \in Fails
  /\ pc[p] = "wtry" /\ ~Full
  /\ WakeReaders(p, "user")
  /\ Leave(p)
  /\ UNCHANGED <<ends, ring, n, ch, killed>>

-----------------------------------------------------------------------------
(* piperead().                                                             *)

\* Variant: polls for data and does not look at writeopen.
ReadTop_poll(p) ==
  /\ pc[p] = "rtop"
  /\ IF ~Empty
       THEN Goto(p, "rcopy") /\ UNCHANGED <<lock, i>>
       ELSE Goto(p, IF killed[p] THEN "user" ELSE "rlock") /\ Leave(p)
  /\ UNCHANGED <<ends, ring, n, ch, killed>>

\* The first loop: wait for data or the end of it.
ReadTop(p) ==
  /\ pc[p] = "rtop"
  /\ IF ~(Empty /\ writeopen)
       THEN Goto(p, "rcopy") /\ UNCHANGED <<lock, i>>
       ELSE IF killed[p]
         THEN Goto(p, "user") /\ Leave(p)
         ELSE Goto(p, "rtry") /\ UNCHANGED <<lock, i>>
  /\ UNCHANGED <<ends, ring, n, ch, killed>>

ReadSleep(p) ==
  /\ pc[p] = "rtry"
  /\ Goto(p, "rsleep")
  /\ lock' = None
  /\ UNCHANGED <<ends, ring, locals, killed>>

\* Variant: increments nread before it is used.
ReadByte_next(p) ==
  /\ pc[p] = "rcopy" /\ i[p] < n[p] /\ ~Empty
  /\ ch' = [ch EXCEPT ![p] = data[(nread + 1) % PIPESIZE]]
  /\ nread' = (nread + 1) % Wrap
  /\ \/ /\ i' = [i EXCEPT ![p] = @ + 1]
        /\ UNCHANGED <<pc, lock>>
     \/ /\ "copyout" \in Fails
        /\ WakeWriters(p, "user")
        /\ Leave(p)
  /\ UNCHANGED <<ends, data, nwrite, n, killed>>

\* One byte; it is gone from the pipe also when copyout fails.
ReadByte(p) ==
  /\ pc[p] = "rcopy" /\ i[p] < n[p] /\ ~Empty
  /\ ch' = [ch EXCEPT ![p] = data[nread % PIPESIZE]]
  /\ nread' = (nread + 1) % Wrap
  /\ \/ /\ i' = [i EXCEPT ![p] = @ + 1]
        /\ UNCHANGED <<pc, lock>>
     \/ /\ "copyout" \in Fails
        /\ WakeWriters(p, "user")
        /\ Leave(p)
  /\ UNCHANGED <<ends, data, nwrite, n, killed>>

\* Variant: does not wake the writers.
ReadDone_nowake(p) ==
  /\ pc[p] = "rcopy" /\ (i[p] >= n[p] \/ Empty)
  /\ Goto(p, "user")
  /\ Leave(p)
  /\ UNCHANGED <<ends, ring, n, ch, killed>>

ReadDone(p) ==
  /\ pc[p] = "rcopy" /\ (i[p] >= n[p] \/ Empty)
  /\ WakeWriters(p, "user")
  /\ Leave(p)
  /\ UNCHANGED <<ends, ring, n, ch, killed>>

-----------------------------------------------------------------------------
(* Closing, and kill().                                                    *)

Peers(p) == IF p \in Writers THEN Writers \ {p} ELSE Readers \ {p}

\* fileclose: the last reference of p's end goes on to pipeclose.
fileclose(p) ==
  /\ pc[p] = "user"
  /\ Goto(p, IF \A q \in Peers(p) : pc[q] \in {"out", "close"} THEN "close"
                                                               ELSE "out")
  /\ UNCHANGED <<ends, lock, ring, locals, killed>>

\* Variant: the page is freed when either end is closed.
pipeclose_eager(p) ==
  /\ pc[p] = "close" /\ lock = None
  /\ IF p \in Writers
       THEN /\ writeopen' = FALSE /\ UNCHANGED readopen
            /\ WakeReaders(p, "out")
       ELSE /\ readopen' = FALSE /\ UNCHANGED writeopen
            /\ WakeWriters(p, "out")
  /\ alive' = (readopen' /\ writeopen')
  /\ UNCHANGED <<lock, ring, locals, killed>>

pipeclose(p) ==
  /\ pc[p] = "close" /\ lock = None
  /\ IF p \in Writers
       THEN /\ writeopen' = FALSE /\ UNCHANGED readopen
            /\ WakeReaders(p, "out")
       ELSE /\ readopen' = FALSE /\ UNCHANGED writeopen
            /\ WakeWriters(p, "out")
  /\ alive' = (readopen' \/ writeopen')
  /\ UNCHANGED <<lock, ring, locals, killed>>

\* kill: sets killed, and wakes p if it sleeps.
kill(p) ==
  /\ p \in Killable /\ pc[p] # "out" /\ ~killed[p]
  /\ killed' = [killed EXCEPT ![p] = TRUE]
  /\ pc' = [pc EXCEPT ![p] = IF @ = "wsleep" THEN "wlock"
                             ELSE IF @ = "rsleep" THEN "rlock" ELSE @]
  /\ UNCHANGED <<ends, lock, ring, locals>>

\* The steps a process takes by itself once it is in the kernel.
Step(p) ==
  \/ Lock(p)
  \/ WriteTop(p) \/ WriteFull(p) \/ WriteByte(p) \/ WriteFail(p)
  \/ ReadTop(p) \/ ReadSleep(p) \/ ReadByte(p) \/ ReadDone(p)
  \/ pipeclose(p)

Next ==
  \/ pipealloc
  \/ \E p \in Procs : Call(p) \/ Step(p) \/ fileclose(p) \/ kill(p)

Spec == Init /\ [][Next]_vars

\* A process in the kernel runs, and gets a spinlock that is free again and
\* again.
FairSpec == Spec /\ \A p \in Procs : SF_vars(Step(p))

-----------------------------------------------------------------------------
(* Properties.                                                             *)

Count == (nwrite - nread) % Wrap

Points == {"out", "user", "close", "wlock", "wtop", "wtry", "wsleep",
           "rlock", "rtop", "rtry", "rsleep", "rcopy"}
LockPoints == {"wtop", "wtry", "rtop", "rtry", "rcopy"}

\* Types; the ring never holds more than PIPESIZE bytes, also when nwrite has
\* wrapped around and nread has not, and the lock has the holder the program
\* counters say.
TypeOK ==
  In("pipe") =>
    /\ alive \in BOOLEAN /\ readopen \in BOOLEAN /\ writeopen \in BOOLEAN
    /\ data \in [0 .. PIPESIZE - 1 -> Bytes]
    /\ nread \in 0 .. Wrap - 1 /\ nwrite \in 0 .. Wrap - 1
    /\ Count <= PIPESIZE
    /\ pc \in [Procs -> Points]
    /\ n \in [Procs -> Nat] /\ i \in [Procs -> Nat] /\ ch \in [Readers -> Bytes]
    /\ killed \in [Procs -> BOOLEAN]
    /\ lock \in Procs \cup {None}
    /\ \A p \in Procs : lock = p <=> pc[p] \in LockPoints

\* Nobody is asleep in piperead with data in the pipe or the write end closed,
\* unless a writer was killed: pipewrite then returns without the wakeup.
ReaderSleepsOnEmpty ==
  In("pipe") /\ lock = None /\ (\A w \in Writers : ~killed[w]) =>
      \A r \in Readers : pc[r] = "rsleep" => Empty /\ writeopen

\* Nobody is asleep in pipewrite with room in the pipe or the read end closed.
WriterSleepsOnFull ==
  In("pipe") /\ lock = None => \A w \in Writers : pc[w] = "wsleep" => Full /\ readopen

\* A reader and a writer never wait for each other, whoever is killed.
NoMutualSleep ==
  In("pipe") =>
    \A r \in Readers, w \in Writers : ~(pc[r] = "rsleep" /\ pc[w] = "wsleep")

\* The page of the pipe is there for everybody who is about to use it: the
\* last close frees it, and no close before.
NoUseAfterFree ==
  In("pipe") =>
    \A p \in Procs : pc[p] # "out" => alive

\* A read ends once there are no writers, and a write once there are no
\* readers.
EndReturns ==
  \A p \in Procs :
    (pc[p] \notin {"out", "user", "close"}
       /\ ~(IF p \in Writers THEN readopen ELSE writeopen)) ~> pc[p] = "user"

\* The pipe is a bounded queue of bytes: see PipeFifo.
Fifo == INSTANCE PipeFifo WITH
  Capacity <- PIPESIZE,
  q <- IF alive THEN [k \in 1 .. Count |-> data[(nread + k - 1) % PIPESIZE]]
                ELSE <<>>,
  ends <- (IF readopen THEN {"r"} ELSE {}) \cup (IF writeopen THEN {"w"} ELSE {})
FifoOrder == Fifo!FifoSpec
=============================================================================
