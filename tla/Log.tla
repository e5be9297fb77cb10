-------------------------------- MODULE Log --------------------------------
(***************************************************************************)
(* The redo log of kernel/log.c: begin_op, log_write and end_op called by  *)
(* concurrent file system operations, the group commit, crashes at any     *)
(* point and the recovery that follows them.                               *)
(*                                                                         *)
(* A step is one critical section of log.lock, or one disk write.  A block *)
(* is written atomically.  Between bread and brelse a buffer is locked, so *)
(* an operation's bread, change, log_write and brelse are one step.        *)
(***************************************************************************)
EXTENDS Integers, Sequences, FiniteSets, Functions

CONSTANTS
  Procs,        \* processes that run file system operations
  Blocks,       \* home locations
  Vals, InitVal, NoVal,   \* block contents; those of mkfs; "not cached"
  MAXOPBLOCKS, LOGSIZE,
  Nlog,         \* superblock's nlog, header block included
  OpWrites,     \* bound: blocks one operation writes
  MaxCrash      \* bound: crashes

ASSUME LogAssumption ==
  /\ InitVal \in Vals /\ NoVal \notin Vals
  /\ MAXOPBLOCKS \in Nat /\ LOGSIZE \in Nat /\ Nlog \in Nat
  /\ OpWrites \in Nat /\ MaxCrash \in Nat

\* param.h has MAXOPBLOCKS = 10 and LOGSIZE = 3 * MAXOPBLOCKS, and mkfs makes
\* nlog = LOGSIZE; the operations of sysfile.c and file.c write fewer blocks.
ASSUME ReserveAssumption ==
  OpWrites < MAXOPBLOCKS /\ MAXOPBLOCKS < LOGSIZE /\ LOGSIZE <= Nlog

VARIABLES
  disk, dlog, dhead,       \* on disk: home locations, log blocks, log header
  cache, pins,             \* the buffer cache, and what bpin added to refcnt
  lh, outstanding, committing,   \* struct log
  pc, wrote,               \* each process: where it is, what its op wrote
  tail,                    \* the loop of write_log and install_trans
  mode,                    \* recovering, up, or stopped in panic()
  crashes

diskvars == <<disk, dlog, dhead>>
memvars == <<cache, pins>>
logvars == <<lh, outstanding, committing>>
procvars == <<pc, wrote>>
vars == <<disk, dlog, dhead, cache, pins, lh, outstanding, committing, pc,
          wrote, tail, mode, crashes>>

Home(h, b) == CHOOSE i \in DOMAIN h : h[i] = b

\* The image mkfs makes, and memory at boot.
Init ==
  /\ disk = [b \in Blocks |-> InitVal]
  /\ dlog = [i \in 1 .. Nlog - 1 |-> InitVal]
  /\ dhead = <<>>
  /\ cache = [b \in Blocks |-> NoVal]
  /\ pins = [b \in Blocks |-> 0]
  /\ lh = <<>>
  /\ outstanding = 0
  /\ committing = FALSE
  /\ pc = [p \in Procs |-> "idle"]
  /\ wrote = [p \in Procs |-> {}]
  /\ tail = 1
  /\ mode = "boot"
  /\ crashes = 0

Up == mode = "up"

\* The data bread returns.
Cached(b) == IF cache[b] = NoVal THEN disk[b] ELSE cache[b]

Goto(p, l) == pc' = [pc EXCEPT ![p] = l]

-----------------------------------------------------------------------------
(* The operations.                                                         *)

\* Variant: begin_op does not look at log.committing.
MustWait_nocommit ==
  Len(lh) + (outstanding + 1) * MAXOPBLOCKS > LOGSIZE

\* Variant: begin_op reserves space for its own operation only.
MustWait_self ==
  committing \/ Len(lh) + MAXOPBLOCKS > LOGSIZE

\* begin_op's condition for waiting: a commit, or too little log left.
MustWait ==
  committing \/ Len(lh) + (outstanding + 1) * MAXOPBLOCKS > LOGSIZE

\* begin_op, at the call and each time sleep returns.
begin_op(p) ==
  /\ Up /\ pc[p] \in {"idle", "begin"}
  /\ IF MustWait
       THEN Goto(p, "sleep") /\ UNCHANGED <<outstanding, wrote>>
       ELSE /\ Goto(p, "op")
            /\ outstanding' = outstanding + 1
            /\ wrote' = [wrote EXCEPT ![p] = {}]
  /\ UNCHANGED <<diskvars, memvars, lh, committing, tail, mode, crashes>>

\* An operation reads block b.
bread(p, b) ==
  /\ Up /\ pc[p] = "op"
  /\ cache' = [cache EXCEPT ![b] = Cached(b)]
  /\ UNCHANGED <<diskvars, pins, logvars, procvars, tail, mode, crashes>>

\* An operation changes block b and calls log_write.
log_write(p, b, v) ==
  /\ Up /\ pc[p] = "op"
  /\ Cardinality(wrote[p] \cup {b}) <= OpWrites
  /\ cache' = [cache EXCEPT ![b] = v]
  /\ wrote' = [wrote EXCEPT ![p] = @ \cup {b}]
  /\ IF Len(lh) >= LOGSIZE \/ Len(lh) >= Nlog - 1 \/ outstanding < 1
       THEN mode' = "panic" /\ UNCHANGED <<pins, lh>>
       ELSE /\ IF b \in Range(lh)
                 THEN UNCHANGED <<pins, lh>>
                 ELSE /\ lh' = Append(lh, b)
                      /\ pins' = [pins EXCEPT ![b] = @ + 1]
            /\ UNCHANGED mode
  /\ UNCHANGED <<diskvars, outstanding, committing, pc, tail, crashes>>

\* The point of p after wakeup(&log), p itself going to l.
WakeupAnd(p, l) ==
  pc' = [q \in Procs |-> IF q = p THEN l
                         ELSE IF pc[q] = "sleep" THEN "begin" ELSE pc[q]]

\* Variant: end_op leaves a log of a single block for a later commit.
end_op_lazy(p) ==
  /\ Up /\ pc[p] = "op"
  /\ outstanding' = outstanding - 1
  /\ IF committing
       THEN mode' = "panic" /\ UNCHANGED <<committing, pc, tail>>
       ELSE /\ UNCHANGED mode
            /\ IF outstanding = 1
                 THEN /\ committing' = TRUE
                      /\ Goto(p, IF Len(lh) <= 1 THEN "done" ELSE "write_log")
                      /\ tail' = 1
                 ELSE WakeupAnd(p, "idle") /\ UNCHANGED <<committing, tail>>
  /\ UNCHANGED <<diskvars, memvars, lh, wrote, crashes>>

\* end_op up to its first release: the last operation commits, if it or
\* another has written something.
end_op(p) ==
  /\ Up /\ pc[p] = "op"
  /\ outstanding' = outstanding - 1
  /\ IF committing
       THEN mode' = "panic" /\ UNCHANGED <<committing, pc, tail>>
       ELSE /\ UNCHANGED mode
            /\ IF outstanding = 1
                 THEN /\ committing' = TRUE
                      /\ Goto(p, IF lh = <<>> THEN "done" ELSE "write_log")
                      /\ tail' = 1
                 ELSE WakeupAnd(p, "idle") /\ UNCHANGED <<committing, tail>>
  /\ UNCHANGED <<diskvars, memvars, lh, wrote, crashes>>

-----------------------------------------------------------------------------
(* commit().                                                               *)

\* Variant: the loop of write_log leaves out the last block.
write_log_short(p) ==
  /\ Up /\ pc[p] = "write_log"
  /\ dlog' = [dlog EXCEPT ![tail] = Cached(lh[tail])]
  /\ cache' = [cache EXCEPT ![lh[tail]] = Cached(lh[tail])]
  /\ IF tail >= Len(lh) - 1 THEN tail' = 1 /\ Goto(p, "write_head")
                       ELSE tail' = tail + 1 /\ UNCHANGED pc
  /\ UNCHANGED <<disk, dhead, pins, logvars, wrote, mode, crashes>>

\* The committer p writes one block to the log,
write_log(p) ==
  /\ Up /\ pc[p] = "write_log"
  /\ dlog' = [dlog EXCEPT ![tail] = Cached(lh[tail])]
  /\ cache' = [cache EXCEPT ![lh[tail]] = Cached(lh[tail])]
  /\ IF tail = Len(lh) THEN tail' = 1 /\ Goto(p, "write_head")
                       ELSE tail' = tail + 1 /\ UNCHANGED pc
  /\ UNCHANGED <<disk, dhead, pins, logvars, wrote, mode, crashes>>

\* the header ("the real commit"),
write_head(p) ==
  /\ Up /\ pc[p] = "write_head"
  /\ dhead' = lh
  /\ Goto(p, "install")
  /\ UNCHANGED <<disk, dlog, memvars, logvars, wrote, tail, mode, crashes>>

\* Variant: install_trans forgets bunpin.
install_trans_nounpin(p) ==
  /\ Up /\ pc[p] = "install"
  /\ disk' = [disk EXCEPT ![lh[tail]] = dlog[tail]]
  /\ cache' = [cache EXCEPT ![lh[tail]] = dlog[tail]]
  /\ UNCHANGED pins
  /\ IF tail = Len(lh) THEN tail' = 1 /\ Goto(p, "clear")
                       ELSE tail' = tail + 1 /\ UNCHANGED pc
  /\ UNCHANGED <<dlog, dhead, logvars, wrote, mode, crashes>>

\* one block to its home location,
install_trans(p) ==
  /\ Up /\ pc[p] = "install"
  /\ disk' = [disk EXCEPT ![lh[tail]] = dlog[tail]]
  /\ cache' = [cache EXCEPT ![lh[tail]] = dlog[tail]]
  /\ pins' = [pins EXCEPT ![lh[tail]] = @ - 1]
  /\ IF tail = Len(lh) THEN tail' = 1 /\ Goto(p, "clear")
                       ELSE tail' = tail + 1 /\ UNCHANGED pc
  /\ UNCHANGED <<dlog, dhead, logvars, wrote, mode, crashes>>

\* and the empty header.
clear_head(p) ==
  /\ Up /\ pc[p] = "clear"
  /\ lh' = <<>>
  /\ dhead' = <<>>
  /\ Goto(p, "done")
  /\ UNCHANGED <<disk, dlog, memvars, outstanding, committing, wrote, tail,
                 mode, crashes>>

\* Variant: end_op does not wake the sleepers after a commit.
end_commit_nowake(p) ==
  /\ Up /\ pc[p] = "done"
  /\ committing' = FALSE
  /\ Goto(p, "idle")
  /\ UNCHANGED <<diskvars, memvars, lh, outstanding, wrote, tail, mode, crashes>>

\* end_op after commit().
end_commit(p) ==
  /\ Up /\ pc[p] = "done"
  /\ committing' = FALSE
  /\ WakeupAnd(p, "idle")
  /\ UNCHANGED <<diskvars, memvars, lh, outstanding, wrote, tail, mode, crashes>>

CommitStep(p) ==
  write_log(p) \/ write_head(p) \/ install_trans(p) \/ clear_head(p)
  \/ end_commit(p)

-----------------------------------------------------------------------------
(* The buffer cache, crashes and recovery.                                 *)

\* bget recycles the buffer of a block nobody refers to.
Evict(b) ==
  /\ Up /\ pins[b] = 0 /\ cache[b] # NoVal
  /\ cache' = [cache EXCEPT ![b] = NoVal]
  /\ UNCHANGED <<diskvars, pins, logvars, procvars, tail, mode, crashes>>

\* Power fails: memory is lost, the disk keeps what was written.
Crash ==
  /\ crashes < MaxCrash
  /\ crashes' = crashes + 1
  /\ cache' = [b \in Blocks |-> NoVal]
  /\ pins' = [b \in Blocks |-> 0]
  /\ lh' = <<>>
  /\ outstanding' = 0
  /\ committing' = FALSE
  /\ pc' = [p \in Procs |-> "idle"]
  /\ wrote' = [p \in Procs |-> {}]
  /\ tail' = 1
  /\ mode' = "boot"
  /\ UNCHANGED diskvars

\* recover_from_log: read_head,
read_head ==
  /\ mode = "boot"
  /\ lh' = dhead
  /\ mode' = IF dhead = <<>> THEN "clear" ELSE "install"
  /\ UNCHANGED <<diskvars, memvars, outstanding, committing, procvars, tail,
                 crashes>>

\* Variant: recovery unpins the buffers it installs.
recover_install_unpin ==
  /\ mode = "install"
  /\ disk' = [disk EXCEPT ![lh[tail]] = dlog[tail]]
  /\ cache' = [cache EXCEPT ![lh[tail]] = dlog[tail]]
  /\ pins' = [pins EXCEPT ![lh[tail]] = @ - 1]
  /\ IF tail = Len(lh) THEN tail' = 1 /\ mode' = "clear"
                       ELSE tail' = tail + 1 /\ UNCHANGED mode
  /\ UNCHANGED <<dlog, dhead, logvars, procvars, crashes>>

\* install_trans(1), one block at a time,
recover_install ==
  /\ mode = "install"
  /\ disk' = [disk EXCEPT ![lh[tail]] = dlog[tail]]
  /\ cache' = [cache EXCEPT ![lh[tail]] = dlog[tail]]
  /\ IF tail = Len(lh) THEN tail' = 1 /\ mode' = "clear"
                       ELSE tail' = tail + 1 /\ UNCHANGED mode
  /\ UNCHANGED <<dlog, dhead, pins, logvars, procvars, crashes>>

\* Variant: recovery repeats until the log is empty, and never empties it.
recover_clear_loop ==
  /\ mode = "clear"
  /\ lh' = <<>>
  /\ mode' = IF dhead = <<>> THEN "up" ELSE "boot"
  /\ UNCHANGED <<diskvars, memvars, outstanding, committing, procvars, tail,
                 crashes>>

\* and the empty header.
recover_clear ==
  /\ mode = "clear"
  /\ lh' = <<>>
  /\ dhead' = <<>>
  /\ mode' = "up"
  /\ UNCHANGED <<disk, dlog, memvars, outstanding, committing, procvars, tail,
                 crashes>>

Recover == read_head \/ recover_install \/ recover_clear

Next ==
  \/ \E p \in Procs : \/ begin_op(p) \/ end_op(p) \/ CommitStep(p)
                      \/ \E b \in Blocks : bread(p, b)
                      \/ \E b \in Blocks, v \in Vals : log_write(p, b, v)
  \/ \E b \in Blocks : Evict(b)
  \/ Crash
  \/ Recover

Spec == Init /\ [][Next]_vars

\* Processes that have been woken run, operations end, and the disk completes
\* every write.
Fairness ==
  /\ WF_vars(Recover)
  /\ \A p \in Procs : /\ WF_vars(pc[p] = "begin" /\ begin_op(p))
                      /\ WF_vars(end_op(p))
                      /\ WF_vars(CommitStep(p))

FairSpec == Spec /\ Fairness

-----------------------------------------------------------------------------
(* Properties.                                                             *)

Points == {"idle", "begin", "sleep", "op", "write_log", "write_head",
           "install", "clear", "done"}

\* The log, the cache and the disk of the model have their types; the log
\* never outgrows the blocks the disk has for it.
TypeOK ==
  /\ disk \in [Blocks -> Vals]
  /\ dlog \in [1 .. Nlog - 1 -> Vals]
  /\ dhead \in Seq(Blocks) /\ Len(dhead) <= Nlog - 1
  /\ cache \in [Blocks -> Vals \cup {NoVal}]
  /\ pins \in [Blocks -> Nat]
  /\ lh \in Seq(Blocks) /\ Len(lh) <= Nlog - 1
  /\ outstanding \in Nat
  /\ committing \in BOOLEAN
  /\ pc \in [Procs -> Points]
  /\ wrote \in [Procs -> SUBSET Blocks]
  /\ tail \in Nat
  /\ mode \in {"boot", "install", "clear", "up", "panic"}
  /\ crashes \in Nat

\* "The logging system only commits when there are no FS system calls
\* active": while a commit runs nobody is inside an operation and nobody else
\* commits, so commit can use log.lh without log.lock.
CommitPoints == {"write_log", "write_head", "install", "clear", "done"}
CommitAlone ==
  \A p \in Procs : pc[p] \in CommitPoints =>
    \A q \in Procs \ {p} : pc[q] \notin CommitPoints \cup {"op"}

\* A block that differs from the disk is in log.lh, and a block in log.lh is
\* pinned once and cached until it is installed: bget never recycles a buffer
\* whose changes are nowhere else, and no pin is left behind.
DirtyIsPinned ==
  Up => /\ \A b \in Blocks :
             cache[b] \notin {NoVal, disk[b]} => b \in Range(lh) /\ pins[b] = 1
        /\ \A b \in Blocks \ Range(lh) : pins[b] = 0

\* A commit sees only finished operations, and all that they have changed.
CommitSafe == TypeOK /\ CommitAlone /\ DirtyIsPinned

\* Whenever no operation and no commit is in progress, a crash would lose
\* nothing: end_op of the last operation returns with everything on disk.
Durable == [b \in Blocks |-> IF b \in Range(dhead) THEN dlog[Home(dhead, b)]
                                                   ELSE disk[b]]
QuiescentDurable ==
  Up /\ outstanding = 0 /\ ~committing => \A b \in Blocks : Cached(b) = Durable[b]

\* None of the checks of log_write and end_op panics: begin_op reserves enough
\* of the log for what the admitted operations will write.
NoLogPanic == mode # "panic"

\* A begin_op that went to sleep is woken: by the end of an operation, which
\* releases reserved space, or by the end of the commit.
SleeperWakes == \A p \in Procs : pc[p] = "sleep" ~> pc[p] # "sleep"

\* Every commit ends (or the machine restarts), and recovery ends.
CommitEnds ==
  /\ \A p \in Procs : pc[p] \in CommitPoints ~> pc[p] = "idle"
  /\ mode \in {"boot", "install", "clear"} ~> Up

\* Nobody waits for the log for ever.
LogProgress == SleeperWakes /\ CommitEnds

\* The log implements LogAbs: the point of commit is the write of the header.
Abs == INSTANCE LogAbs WITH
  durable <- Durable,
  mem <- IF Up THEN [b \in Blocks |-> Cached(b)] ELSE Durable,
  active <- {p \in Procs : pc[p] = "op"}
\* Operations become durable all at once and in groups, whatever the
\* interleaving and wherever the crash, also one during commit or recovery.
AtomicDurable == Abs!AbsSpec
=============================================================================
