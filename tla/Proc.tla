-------------------------------- MODULE Proc --------------------------------
(***************************************************************************)
(* The process table of kernel/proc.c and the code that shares it: the     *)
(* per-CPU scheduler, sched/yield/sleep/wakeup, fork, forkn, exit, wait,   *)
(* waitall, kill, and the killed checks of usertrap.                       *)
(*                                                                         *)
(* A step is one critical section of one CPU: the code between acquiring   *)
(* and releasing a spinlock is one step, except where the lock stays held  *)
(* across something another CPU can see: p->lock from the scheduler to the *)
(* process and back (swtch), p->lock returned by allocproc, and wait_lock. *)
(* pc[p] is where p's kernel thread stands, "user" when it is in user mode.*)
(***************************************************************************)
EXTENDS Integers, Sequences, Functions

CONSTANTS
  NPROC,         \* slots of proc[]
  CPU, NoCpu,    \* the CPUs, and the holder of a free lock
  Ops,           \* system calls the programs make
  Status,        \* arguments of exit()
  ForkNs,        \* arguments of forkn()
  MaxKids,       \* the 16 of forkn's range check
  KillPids,      \* arguments of kill()
  MaxPid,        \* bound: no fork or forkn starts once nextpid exceeds it
  Fails          \* what may fail: "kalloc" (the allocations of allocproc),
                 \* "uvmcopy", "copyout" (of the status, in wait)

ASSUME NPROCAssumption == NPROC \in Nat \ {0}
ASSUME CpuAssumption == NoCpu \notin CPU
ASSUME ArgAssumption == /\ Status \subseteq Int
                        /\ ForkNs \subseteq Int
                        /\ KillPids \subseteq Int
                        /\ MaxKids \in Nat
\* exit() panics for init, so nobody may kill it; its pid is 1.
ASSUME InitAssumption == 1 \notin KillPids

Procs == 0 .. NPROC - 1
NoProc == -1
initproc == 0          \* userinit runs first, so it gets slot 0
WaitLock == NPROC      \* wait_lock, next to the locks of the slots
Locks == 0 .. NPROC

VARIABLES
  state, pid, parent, killed, chan, xstate,   \* struct proc
  nextpid,
  lock,      \* lock[l]: the CPU that holds l, l a slot's p->lock or wait_lock
  cpu,       \* c->proc
  panicked,  \* the CPUs stopped in panic()
  pc,        \* where each kernel thread stands
  idx,       \* its scan position over proc[], or np once allocproc found one
  arg,       \* its system call argument
  kids,      \* kids[] of forkn, to_free[] of waitall
  have,      \* havekids of wait, foundChild of waitall
  allDone    \* of waitall

table == <<pid, parent, killed, chan, xstate, nextpid>>
cpus == <<cpu, panicked>>
locals == <<idx, arg, kids, have, allDone>>
vars == <<state, pid, parent, killed, chan, xstate, nextpid, lock, cpu,
          panicked, pc, idx, arg, kids, have, allDone>>

States == {"UNUSED", "USED", "SLEEPING", "RUNNABLE", "RUNNING", "ZOMBIE"}

\* Points of a kernel thread, named after the function they are in.
Labels == {"forkret", "user", "ret",
           "fork", "forkcopy", "forkparent", "forkrun",
           "forkn", "forkncopy", "rollback", "publish", "pubkid",
           "exit", "reparent", "reparentwake", "exitwake", "zombie",
           "wait", "waitscan", "waitsleep",
           "waitall", "waitallscan", "waitallfree", "waitallsleep", "kill"}

\* The state main() leaves: userinit's process in slot 0, its pid 1.
Init ==
  /\ state = [p \in Procs |-> IF p = initproc THEN "RUNNABLE" ELSE "UNUSED"]
  /\ pid = [p \in Procs |-> IF p = initproc THEN 1 ELSE 0]
  /\ parent = [p \in Procs |-> NoProc]
  /\ killed = [p \in Procs |-> 0]
  /\ chan = [p \in Procs |-> NoProc]
  /\ xstate = [p \in Procs |-> 0]
  /\ nextpid = 2
  /\ lock = [l \in Locks |-> NoCpu]
  /\ cpu = [c \in CPU |-> NoProc]
  /\ panicked = {}
  /\ pc = [p \in Procs |-> "forkret"]
  /\ idx = [p \in Procs |-> 0]
  /\ arg = [p \in Procs |-> 0]
  /\ kids = [p \in Procs |-> <<>>]
  /\ have = [p \in Procs |-> 0]
  /\ allDone = [p \in Procs |-> 0]

-----------------------------------------------------------------------------
(* Locks and control.                                                      *)

Holds(c) == {l \in Locks : lock[l] = c}

\* acquire(l); ...; release(l) inside one step: l must be free.
Free(l) == lock[l] = NoCpu
Acquire(c, l) == Free(l) /\ lock' = [lock EXCEPT ![l] = c]
Release(l) == lock' = [lock EXCEPT ![l] = NoCpu]

\* CPU c is on p's kernel stack.
On(c, p) == cpu[c] = p /\ c \notin panicked

\* CPU c executes p's kernel thread at point l (it has left swtch).
At(c, p, l) ==
  /\ On(c, p)
  /\ state[p] = "RUNNING"
  /\ lock[p] # c
  /\ pc[p] = l

Goto(p, l) == pc' = [pc EXCEPT ![p] = l]

\* The locals of a kernel thread are dead once its system call returns.
ResetLocals(p) ==
  /\ idx' = [idx EXCEPT ![p] = 0]
  /\ arg' = [arg EXCEPT ![p] = 0]
  /\ kids' = [kids EXCEPT ![p] = <<>>]
  /\ have' = [have EXCEPT ![p] = 0]
  /\ allDone' = [allDone EXCEPT ![p] = 0]

Return(p) == Goto(p, "ret") /\ ResetLocals(p)

\* Variant: killed and parent keep their values.
freeproc_stale(q) ==
  /\ pid' = [pid EXCEPT ![q] = 0]
  /\ parent' = parent
  /\ chan' = [chan EXCEPT ![q] = NoProc]
  /\ killed' = killed
  /\ xstate' = [xstate EXCEPT ![q] = 0]
  /\ state' = [state EXCEPT ![q] = "UNUSED"]

freeproc(q) ==
  /\ pid' = [pid EXCEPT ![q] = 0]
  /\ parent' = [parent EXCEPT ![q] = NoProc]
  /\ chan' = [chan EXCEPT ![q] = NoProc]
  /\ killed' = [killed EXCEPT ![q] = 0]
  /\ xstate' = [xstate EXCEPT ![q] = 0]
  /\ state' = [state EXCEPT ![q] = "UNUSED"]

-----------------------------------------------------------------------------
(* scheduler(), sched(), yield() and the way back from them.               *)

\* Variant: every scan starts over, from the last slot down.
SwitchIn_last(c, p) ==
  /\ On(c, NoProc)
  /\ Acquire(c, p)
  /\ state[p] = "RUNNABLE"
  /\ \A q \in Procs : q > p => state[q] # "RUNNABLE"
  /\ state' = [state EXCEPT ![p] = "RUNNING"]
  /\ cpu' = [cpu EXCEPT ![c] = p]
  /\ UNCHANGED <<table, panicked, pc, locals>>

\* scheduler() finds a RUNNABLE process and switches to it, holding p->lock.
SwitchIn(c, p) ==
  /\ On(c, NoProc)
  /\ Acquire(c, p)
  /\ state[p] = "RUNNABLE"
  /\ state' = [state EXCEPT ![p] = "RUNNING"]
  /\ cpu' = [cpu EXCEPT ![c] = p]
  /\ UNCHANGED <<table, panicked, pc, locals>>

\* The process comes out of swtch and releases p->lock: in forkret, at the
\* end of yield, or in sleep, which also clears chan (and then reacquires
\* wait_lock, the first step at "wait" and "waitall").
Resume(c, p) ==
  /\ On(c, p)
  /\ lock[p] = c
  /\ state[p] = "RUNNING"
  /\ Release(p)
  /\ pc' = [pc EXCEPT ![p] = CASE @ = "forkret" -> "user"
                               [] @ = "waitsleep" -> "wait"
                               [] @ = "waitallsleep" -> "waitall"
                               [] OTHER -> @]
  /\ chan' = IF pc[p] \in {"waitsleep", "waitallsleep"}
               THEN [chan EXCEPT ![p] = NoProc] ELSE chan
  /\ UNCHANGED <<state, pid, parent, killed, xstate, nextpid, cpus, locals>>

\* sched() passes its checks, and the scheduler takes over and releases the
\* lock it finds held.
SwitchOut(c, p) ==
  /\ On(c, p)
  /\ lock[p] = c
  /\ state[p] # "RUNNING"
  /\ Holds(c) = {p}
  /\ cpu' = [cpu EXCEPT ![c] = NoProc]
  /\ Release(p)
  /\ UNCHANGED <<state, table, panicked, pc, locals>>

\* sched() finds noff # 1: panic("sched locks"); this CPU stops.
SchedPanic(c, p) ==
  /\ On(c, p)
  /\ lock[p] = c
  /\ state[p] # "RUNNING"
  /\ Holds(c) # {p}
  /\ panicked' = panicked \cup {c}
  /\ UNCHANGED <<state, table, lock, cpu, pc, locals>>

\* Variant: usertrap does not look at killed before it yields.
yield_nocheck(c, p) ==
  /\ On(c, p)
  /\ state[p] = "RUNNING"
  /\ pc[p] # "user" => Holds(c) = {}
  /\ Acquire(c, p)
  /\ state' = [state EXCEPT ![p] = "RUNNABLE"]
  /\ UNCHANGED <<table, cpus, pc, locals>>

\* A timer interrupt, taken in user mode (where usertrap's killed check comes
\* first) or in the kernel with no spinlock held.
yield(c, p) ==
  /\ On(c, p)
  /\ state[p] = "RUNNING"
  /\ pc[p] # "user" => Holds(c) = {}
  /\ pc[p] = "user" => killed[p] = 0
  /\ Acquire(c, p)
  /\ state' = [state EXCEPT ![p] = "RUNNABLE"]
  /\ UNCHANGED <<table, cpus, pc, locals>>

-----------------------------------------------------------------------------
(* usertrap(): system calls, faults and the killed checks around them.     *)

\* killed(p) at the entry of a system call or interrupt, or after a fault's
\* setkilled(p): exit(-1, "").  init never gets here (see KillPids).
TrapKilled(c, p) ==
  /\ At(c, p, "user")
  /\ Free(p)
  /\ p # initproc
  /\ killed[p] = 1 \/ "fault" \in Ops
  /\ killed' = [killed EXCEPT ![p] = 1]
  /\ arg' = [arg EXCEPT ![p] = -1]
  /\ Goto(p, "exit")
  /\ UNCHANGED <<state, pid, parent, chan, xstate, nextpid, lock, cpus,
                 idx, kids, have, allDone>>

\* A system call with entry point l and argument a.
Enter(c, p, op, l, a) ==
  /\ At(c, p, "user")
  /\ Free(p)
  /\ killed[p] = 0
  /\ op \in Ops
  /\ arg' = [arg EXCEPT ![p] = a]
  /\ Goto(p, l)
  /\ UNCHANGED <<state, table, lock, cpus, idx, kids, have, allDone>>

SysFork(c, p) == nextpid <= MaxPid /\ Enter(c, p, "fork", "fork", 0)
SysForkn(c, p) ==
  /\ nextpid <= MaxPid
  /\ \E n \in ForkNs : IF n < 1 \/ n > MaxKids THEN Enter(c, p, "forkn", "ret", 0)
                                               ELSE Enter(c, p, "forkn", "forkn", n)
SysExit(c, p) == p # initproc /\ \E s \in Status : Enter(c, p, "exit", "exit", s)
SysWait(c, p) == Enter(c, p, "wait", "wait", 0)
SysWaitall(c, p) == Enter(c, p, "waitall", "waitall", 0)
SysKill(c, p) == \E t \in KillPids : Enter(c, p, "kill", "kill", t)

\* The killed check on the way out of a system call, then usertrapret().
SysReturn(c, p) ==
  /\ At(c, p, "ret")
  /\ Free(p)
  /\ IF killed[p] = 1
       THEN arg' = [arg EXCEPT ![p] = -1] /\ Goto(p, "exit")
       ELSE UNCHANGED arg /\ Goto(p, "user")
  /\ UNCHANGED <<state, table, lock, cpus, idx, kids, have, allDone>>

-----------------------------------------------------------------------------
(* allocproc(), fork() and forkn().                                        *)

\* What fork and forkn do when allocproc returns 0.
AllocFailed(p) ==
  IF pc[p] = "fork"
    THEN Return(p)
    ELSE Goto(p, "rollback") /\ UNCHANGED locals

\* allocproc looks at slot idx[p] and passes on, or gives up after the last.
AllocSkip(c, p) ==
  /\ At(c, p, "fork") \/ At(c, p, "forkn")
  /\ Free(idx[p])
  /\ state[idx[p]] # "UNUSED"
  /\ IF idx[p] = NPROC - 1
       THEN AllocFailed(p)
       ELSE /\ idx' = [idx EXCEPT ![p] = @ + 1]
            /\ UNCHANGED <<pc, arg, kids, have, allDone>>
  /\ UNCHANGED <<state, table, lock, cpus>>

\* Variant: allocpid does not advance nextpid.
AllocFound_samepid(c, p) ==
  /\ At(c, p, "fork") \/ At(c, p, "forkn")
  /\ state[idx[p]] = "UNUSED"
  /\ Acquire(c, idx[p])
  /\ pid' = [pid EXCEPT ![idx[p]] = nextpid]
  /\ nextpid' = nextpid
  /\ state' = [state EXCEPT ![idx[p]] = "USED"]
  /\ pc' = [pc EXCEPT ![p] = IF @ = "fork" THEN "forkcopy" ELSE "forkncopy",
                      ![idx[p]] = "forkret"]
  /\ UNCHANGED <<parent, killed, chan, xstate, cpus, locals>>

\* allocproc finds slot idx[p] UNUSED and returns with its lock held.
AllocFound(c, p) ==
  /\ At(c, p, "fork") \/ At(c, p, "forkn")
  /\ state[idx[p]] = "UNUSED"
  /\ Acquire(c, idx[p])
  /\ pid' = [pid EXCEPT ![idx[p]] = nextpid]
  /\ nextpid' = nextpid + 1
  /\ state' = [state EXCEPT ![idx[p]] = "USED"]
  /\ pc' = [pc EXCEPT ![p] = IF @ = "fork" THEN "forkcopy" ELSE "forkncopy",
                      ![idx[p]] = "forkret"]
  /\ UNCHANGED <<parent, killed, chan, xstate, cpus, locals>>

\* allocproc finds slot idx[p] UNUSED but kalloc or proc_pagetable fails.
AllocNoMem(c, p) ==
  /\ "kalloc" \in Fails
  /\ At(c, p, "fork") \/ At(c, p, "forkn")
  /\ Free(idx[p])
  /\ state[idx[p]] = "UNUSED"
  /\ nextpid' = nextpid + 1
  /\ freeproc(idx[p])
  /\ AllocFailed(p)
  /\ UNCHANGED <<lock, cpus>>

\* Variant: np->lock is still held when wait_lock is taken.
ForkCopy_keep(c, p) ==
  /\ At(c, p, "forkcopy")
  /\ Goto(p, "forkparent")
  /\ UNCHANGED <<lock, state, table, cpus, locals>>

\* fork: uvmcopy and the rest of the copy, up to release(&np->lock).
ForkCopy(c, p) ==
  /\ At(c, p, "forkcopy")
  /\ Release(idx[p])
  /\ Goto(p, "forkparent")
  /\ UNCHANGED <<state, table, cpus, locals>>

ForkCopyFail(c, p) ==
  /\ "uvmcopy" \in Fails
  /\ At(c, p, "forkcopy")
  /\ Release(idx[p])
  /\ freeproc(idx[p])
  /\ Return(p)
  /\ UNCHANGED <<nextpid, cpus>>

ForkParent(c, p) ==
  /\ At(c, p, "forkparent")
  /\ Free(WaitLock)
  /\ parent' = [parent EXCEPT ![idx[p]] = p]
  /\ Goto(p, "forkrun")
  /\ UNCHANGED <<state, pid, killed, chan, xstate, nextpid, lock, cpus, locals>>

ForkRun(c, p) ==
  /\ At(c, p, "forkrun")
  /\ Free(idx[p])
  /\ state' = [state EXCEPT ![idx[p]] = "RUNNABLE"]
  /\ Return(p)
  /\ UNCHANGED <<table, lock, cpus>>

\* Variant: np->lock is not released.
ForknCopy_keep(c, p) ==
  /\ At(c, p, "forkncopy")
  /\ kids' = [kids EXCEPT ![p] = Append(@, idx[p])]
  /\ Goto(p, IF Len(kids[p]) + 1 = arg[p] THEN "publish" ELSE "forkn")
  /\ idx' = [idx EXCEPT ![p] = 0]
  /\ UNCHANGED <<state, table, lock, cpus, arg, have, allDone>>

\* forkn: copy one child and go on to the next, or to publishing them all.
ForknCopy(c, p) ==
  /\ At(c, p, "forkncopy")
  /\ Release(idx[p])
  /\ kids' = [kids EXCEPT ![p] = Append(@, idx[p])]
  /\ Goto(p, IF Len(kids[p]) + 1 = arg[p] THEN "publish" ELSE "forkn")
  /\ idx' = [idx EXCEPT ![p] = 0]
  /\ UNCHANGED <<state, table, cpus, arg, have, allDone>>

\* Variant: the slot is not freed.
ForknCopyFail_keep(c, p) ==
  /\ "uvmcopy" \in Fails
  /\ At(c, p, "forkncopy")
  /\ Goto(p, "rollback")
  /\ UNCHANGED <<state, table, lock, cpus, locals>>

\* forkn: uvmcopy fails; np is freed but np->lock is not released.
ForknCopyFail(c, p) ==
  /\ "uvmcopy" \in Fails
  /\ At(c, p, "forkncopy")
  /\ freeproc(idx[p])
  /\ Goto(p, "rollback")
  /\ UNCHANGED <<nextpid, lock, cpus, locals>>

\* Variant: the children made so far are forgotten.
ForknRollback_leak(c, p) ==
  /\ At(c, p, "rollback")
  /\ Return(p)
  /\ UNCHANGED <<state, table, lock, cpus>>

\* forkn's clean-up loop frees one child made so far.
ForknRollback(c, p) ==
  /\ At(c, p, "rollback")
  /\ IF kids[p] = <<>>
       THEN Return(p) /\ UNCHANGED <<state, pid, parent, killed, chan, xstate>>
       ELSE /\ Free(Head(kids[p]))
            /\ freeproc(Head(kids[p]))
            /\ kids' = [kids EXCEPT ![p] = Tail(@)]
            /\ UNCHANGED <<pc, idx, arg, have, allDone>>
  /\ UNCHANGED <<nextpid, lock, cpus>>

ForknPublish(c, p) ==
  /\ At(c, p, "publish")
  /\ Acquire(c, WaitLock)
  /\ Goto(p, "pubkid")
  /\ UNCHANGED <<state, table, cpus, locals>>

\* forkn adopts one child and makes it RUNNABLE; after the last it releases
\* wait_lock and returns (0, or -1 when the copyout of the pids fails).
ForknPubKid(c, p) ==
  /\ At(c, p, "pubkid")
  /\ IF kids[p] = <<>>
       THEN Release(WaitLock) /\ Return(p) /\ UNCHANGED <<state, parent>>
       ELSE /\ Free(Head(kids[p]))
            /\ parent' = [parent EXCEPT ![Head(kids[p])] = p]
            /\ state' = [state EXCEPT ![Head(kids[p])] = "RUNNABLE"]
            /\ kids' = [kids EXCEPT ![p] = Tail(@)]
            /\ UNCHANGED <<lock, pc, idx, arg, have, allDone>>
  /\ UNCHANGED <<pid, killed, chan, xstate, nextpid, cpus>>

-----------------------------------------------------------------------------
(* exit(), reparent() and wakeup().                                        *)

\* exit: close the files, release cwd, then take wait_lock.
ExitLock(c, p) ==
  /\ At(c, p, "exit")
  /\ Acquire(c, WaitLock)
  /\ Goto(p, "reparent")
  /\ UNCHANGED <<state, table, cpus, locals>>

Children(p) == {q \in Procs : parent[q] = p}

\* Variant: the children are not given to init.
Reparent_skip(c, p) ==
  /\ At(c, p, "reparent")
  /\ Goto(p, "exitwake")
  /\ UNCHANGED <<state, table, lock, cpus, locals>>

\* Variant: init is not woken for the child it gets.
Reparent_nowake(c, p) ==
  /\ At(c, p, "reparent")
  /\ IF Children(p) = {}
       THEN Goto(p, "exitwake") /\ UNCHANGED parent
       ELSE /\ \E q \in Children(p) :
                 /\ \A r \in Children(p) : q <= r
                 /\ parent' = [parent EXCEPT ![q] = initproc]
            /\ Goto(p, "reparent")
  /\ UNCHANGED <<state, pid, killed, chan, xstate, nextpid, lock, cpus, locals>>

\* Variant: the child keeps its parent.
Reparent_stay(c, p) ==
  /\ At(c, p, "reparent")
  /\ Goto(p, IF Children(p) = {} THEN "exitwake" ELSE "reparentwake")
  /\ UNCHANGED <<state, table, lock, cpus, locals>>

\* reparent's loop gives its next child, in table order, to init, or ends.
Reparent(c, p) ==
  /\ At(c, p, "reparent")
  /\ IF Children(p) = {}
       THEN Goto(p, "exitwake") /\ UNCHANGED parent
       ELSE /\ \E q \in Children(p) :
                 /\ \A r \in Children(p) : q <= r
                 /\ parent' = [parent EXCEPT ![q] = initproc]
            /\ Goto(p, "reparentwake")
  /\ UNCHANGED <<state, pid, killed, chan, xstate, nextpid, lock, cpus, locals>>

\* wakeup(ch) looks at slot idx[p]; after the last one control goes to next.
WakeupSlot(c, p, ch, next) ==
  /\ idx[p] # p => Free(idx[p])
  /\ state' = IF /\ idx[p] # p
                 /\ state[idx[p]] = "SLEEPING"
                 /\ chan[idx[p]] = ch
                THEN [state EXCEPT ![idx[p]] = "RUNNABLE"] ELSE state
  /\ IF idx[p] = NPROC - 1
       THEN idx' = [idx EXCEPT ![p] = 0] /\ Goto(p, next)
       ELSE idx' = [idx EXCEPT ![p] = @ + 1] /\ UNCHANGED pc
  /\ UNCHANGED <<table, lock, cpus, arg, kids, have, allDone>>

ReparentWake(c, p) ==
  /\ At(c, p, "reparentwake")
  /\ WakeupSlot(c, p, initproc, "reparent")

\* Variant: the wrong channel.
ExitWake_self(c, p) ==
  /\ At(c, p, "exitwake")
  /\ WakeupSlot(c, p, p, "zombie")

ExitWake(c, p) ==
  /\ At(c, p, "exitwake")
  /\ WakeupSlot(c, p, parent[p], "zombie")

\* exit: become a ZOMBIE under p->lock, release wait_lock, enter sched().
ExitZombie(c, p) ==
  /\ At(c, p, "zombie")
  /\ Free(p)
  /\ lock' = [lock EXCEPT ![p] = c, ![WaitLock] = NoCpu]
  /\ xstate' = [xstate EXCEPT ![p] = arg[p]]
  /\ state' = [state EXCEPT ![p] = "ZOMBIE"]
  /\ ResetLocals(p)
  /\ UNCHANGED <<pid, parent, killed, chan, nextpid, cpus, pc>>

-----------------------------------------------------------------------------
(* wait(), waitall() and the sleep() they call.                            *)

\* acquire(&wait_lock), at the call and again at the end of sleep; the scan
\* of the for(;;) loop starts afresh.
WaitStart(c, p) ==
  /\ At(c, p, "wait") \/ At(c, p, "waitall")
  /\ Acquire(c, WaitLock)
  /\ pc' = [pc EXCEPT ![p] = IF @ = "wait" THEN "waitscan" ELSE "waitallscan"]
  /\ idx' = [idx EXCEPT ![p] = 0]
  /\ have' = [have EXCEPT ![p] = 0]
  /\ allDone' = [allDone EXCEPT ![p] = 1]
  /\ kids' = [kids EXCEPT ![p] = <<>>]
  /\ UNCHANGED <<state, table, cpus, arg>>

\* wait looks at slot idx[p], which holds no ZOMBIE child of p.
WaitScan(c, p) ==
  /\ At(c, p, "waitscan")
  /\ idx[p] < NPROC
  /\ parent[idx[p]] = p => Free(idx[p]) /\ state[idx[p]] # "ZOMBIE"
  /\ have' = [have EXCEPT ![p] = IF parent[idx[p]] = p THEN 1 ELSE @]
  /\ idx' = [idx EXCEPT ![p] = @ + 1]
  /\ UNCHANGED <<state, table, lock, cpus, pc, arg, kids, allDone>>

\* Variant: does not take pp->lock.
WaitReap_nolock(c, p) ==
  /\ At(c, p, "waitscan")
  /\ idx[p] < NPROC
  /\ parent[idx[p]] = p
  /\ state[idx[p]] = "ZOMBIE"
  /\ freeproc(idx[p])
  /\ Release(WaitLock)
  /\ Return(p)
  /\ UNCHANGED <<nextpid, cpus>>

\* Variant: does not look at pp->parent.
WaitReap_anychild(c, p) ==
  /\ At(c, p, "waitscan")
  /\ idx[p] < NPROC
  /\ Free(idx[p])
  /\ state[idx[p]] = "ZOMBIE"
  /\ freeproc(idx[p])
  /\ Release(WaitLock)
  /\ Return(p)
  /\ UNCHANGED <<nextpid, cpus>>

\* wait reaps the ZOMBIE child in slot idx[p].
WaitReap(c, p) ==
  /\ At(c, p, "waitscan")
  /\ idx[p] < NPROC
  /\ parent[idx[p]] = p
  /\ Free(idx[p])
  /\ state[idx[p]] = "ZOMBIE"
  /\ freeproc(idx[p])
  /\ Release(WaitLock)
  /\ Return(p)
  /\ UNCHANGED <<nextpid, cpus>>

\* wait finds a ZOMBIE child, but the copyout of its status fails.
WaitCopyoutFail(c, p) ==
  /\ "copyout" \in Fails
  /\ At(c, p, "waitscan")
  /\ idx[p] < NPROC
  /\ parent[idx[p]] = p
  /\ Free(idx[p])
  /\ state[idx[p]] = "ZOMBIE"
  /\ Release(WaitLock)
  /\ Return(p)
  /\ UNCHANGED <<state, table, cpus>>

\* The end of wait's scan: give up when there are no children or p is killed
\* (killed() takes p->lock), else sleep.
WaitCheck(c, p) ==
  /\ At(c, p, "waitscan")
  /\ idx[p] = NPROC
  /\ have[p] = 1 => Free(p)
  /\ IF have[p] = 0 \/ killed[p] = 1
       THEN Release(WaitLock) /\ Return(p)
       ELSE Goto(p, "waitsleep") /\ UNCHANGED <<lock, locals>>
  /\ UNCHANGED <<state, table, cpus>>

\* Variant: lk is not released.
sleep_keeplk(c, p) ==
  /\ At(c, p, "waitsleep") \/ At(c, p, "waitallsleep")
  /\ Free(p)
  /\ lock' = [lock EXCEPT ![p] = c]
  /\ chan' = [chan EXCEPT ![p] = p]
  /\ state' = [state EXCEPT ![p] = "SLEEPING"]
  /\ ResetLocals(p)
  /\ UNCHANGED <<pid, parent, killed, xstate, nextpid, cpus, pc>>

\* Variant: sleeps on the address of wait_lock.
sleep_wrongchan(c, p) ==
  /\ At(c, p, "waitsleep") \/ At(c, p, "waitallsleep")
  /\ Free(p)
  /\ lock' = [lock EXCEPT ![p] = c, ![WaitLock] = NoCpu]
  /\ chan' = [chan EXCEPT ![p] = WaitLock]
  /\ state' = [state EXCEPT ![p] = "SLEEPING"]
  /\ ResetLocals(p)
  /\ UNCHANGED <<pid, parent, killed, xstate, nextpid, cpus, pc>>

\* sleep(p, &wait_lock) up to sched().
sleep(c, p) ==
  /\ At(c, p, "waitsleep") \/ At(c, p, "waitallsleep")
  /\ Free(p)
  /\ lock' = [lock EXCEPT ![p] = c, ![WaitLock] = NoCpu]
  /\ chan' = [chan EXCEPT ![p] = p]
  /\ state' = [state EXCEPT ![p] = "SLEEPING"]
  /\ ResetLocals(p)
  /\ UNCHANGED <<pid, parent, killed, xstate, nextpid, cpus, pc>>

\* waitall looks at slot idx[p], recording it in to_free if it is a ZOMBIE
\* child.
WaitallScan(c, p) ==
  /\ At(c, p, "waitallscan")
  /\ idx[p] < NPROC
  /\ Free(idx[p])
  /\ IF parent[idx[p]] = p
       THEN /\ have' = [have EXCEPT ![p] = 1]
            /\ IF state[idx[p]] = "ZOMBIE"
                 THEN kids' = [kids EXCEPT ![p] = Append(@, idx[p])] /\ UNCHANGED allDone
                 ELSE allDone' = [allDone EXCEPT ![p] = 0] /\ UNCHANGED kids
       ELSE UNCHANGED <<have, kids, allDone>>
  /\ idx' = [idx EXCEPT ![p] = @ + 1]
  /\ UNCHANGED <<state, table, lock, cpus, pc, arg>>

\* Variant: sleeps whether or not all children are done.
WaitallCheck_nodone(c, p) ==
  /\ At(c, p, "waitallscan")
  /\ idx[p] = NPROC
  /\ \/ /\ have[p] = 0
        /\ Release(WaitLock)
        /\ Return(p)
     \/ /\ have[p] = 1 /\ allDone[p] = 1
        /\ Goto(p, "waitallfree")
        /\ UNCHANGED <<lock, locals>>
     \/ /\ have[p] = 1
        /\ Free(p)
        /\ IF killed[p] = 1
             THEN Release(WaitLock) /\ Return(p)
             ELSE Goto(p, "waitallsleep") /\ UNCHANGED <<lock, locals>>
  /\ UNCHANGED <<state, table, cpus>>

\* The end of waitall's scan.
WaitallCheck(c, p) ==
  /\ At(c, p, "waitallscan")
  /\ idx[p] = NPROC
  /\ \/ /\ have[p] = 0
        /\ Release(WaitLock)
        /\ Return(p)
     \/ /\ have[p] = 1 /\ allDone[p] = 1
        /\ Goto(p, "waitallfree")
        /\ UNCHANGED <<lock, locals>>
     \/ /\ have[p] = 1 /\ allDone[p] = 0
        /\ Free(p)
        /\ IF killed[p] = 1
             THEN Release(WaitLock) /\ Return(p)
             ELSE Goto(p, "waitallsleep") /\ UNCHANGED <<lock, locals>>
  /\ UNCHANGED <<state, table, cpus>>

\* waitall frees one recorded child; after the last it releases wait_lock
\* and returns 0, whatever its copyouts do.
WaitallFree(c, p) ==
  /\ At(c, p, "waitallfree")
  /\ IF kids[p] = <<>>
       THEN /\ Release(WaitLock)
            /\ Return(p)
            /\ UNCHANGED <<state, pid, parent, killed, chan, xstate>>
       ELSE /\ Free(Head(kids[p]))
            /\ freeproc(Head(kids[p]))
            /\ kids' = [kids EXCEPT ![p] = Tail(@)]
            /\ UNCHANGED <<lock, pc, idx, arg, have, allDone>>
  /\ UNCHANGED <<nextpid, cpus>>

-----------------------------------------------------------------------------
(* kill().                                                                 *)

\* kill looks at slot idx[p].
kill(c, p) ==
  /\ At(c, p, "kill")
  /\ Free(idx[p])
  /\ IF pid[idx[p]] = arg[p]
       THEN /\ killed' = [killed EXCEPT ![idx[p]] = 1]
            /\ state' = [state EXCEPT ![idx[p]] =
                           IF @ = "SLEEPING" THEN "RUNNABLE" ELSE @]
            /\ Return(p)
       ELSE /\ UNCHANGED <<killed, state>>
            /\ IF idx[p] = NPROC - 1
                 THEN Return(p)
                 ELSE /\ idx' = [idx EXCEPT ![p] = @ + 1]
                      /\ UNCHANGED <<pc, arg, kids, have, allDone>>
  /\ UNCHANGED <<pid, parent, chan, xstate, nextpid, lock, cpus>>

-----------------------------------------------------------------------------
\* The lock p's next step takes first, or NoProc.
Wants(p) ==
  CASE pc[p] \in {"user", "ret", "zombie", "waitsleep", "waitallsleep"} -> p
    [] pc[p] \in {"forkparent", "publish", "exit", "wait", "waitall"} -> WaitLock
    [] pc[p] \in {"fork", "forkn", "forkrun", "kill"} -> idx[p]
    [] pc[p] \in {"rollback", "pubkid", "waitallfree"} ->
         IF kids[p] = <<>> THEN NoProc ELSE Head(kids[p])
    [] pc[p] \in {"reparentwake", "exitwake"} ->
         IF idx[p] = p THEN NoProc ELSE idx[p]
    [] pc[p] = "waitscan" ->
         IF idx[p] = NPROC THEN (IF have[p] = 1 THEN p ELSE NoProc)
         ELSE IF parent[idx[p]] = p THEN idx[p] ELSE NoProc
    [] pc[p] = "waitallscan" ->
         IF idx[p] < NPROC THEN idx[p]
         ELSE IF have[p] = 1 /\ allDone[p] = 0 THEN p ELSE NoProc
    [] OTHER -> NoProc

\* acquire() finds that this CPU already holds the lock: panic("acquire").
AcquirePanic(c, p) ==
  /\ On(c, p)
  /\ state[p] = "RUNNING"
  /\ lock[p] # c
  /\ Wants(p) \in Locks
  /\ lock[Wants(p)] = c
  /\ panicked' = panicked \cup {c}
  /\ UNCHANGED <<state, table, lock, cpu, pc, locals>>

\* One step of the kernel thread of p, running on c.
KernelStep(c, p) ==
  \/ SysReturn(c, p)
  \/ AllocSkip(c, p)     \/ AllocFound(c, p)      \/ AllocNoMem(c, p)
  \/ ForkCopy(c, p)      \/ ForkCopyFail(c, p)
  \/ ForkParent(c, p)    \/ ForkRun(c, p)
  \/ ForknCopy(c, p)     \/ ForknCopyFail(c, p)   \/ ForknRollback(c, p)
  \/ ForknPublish(c, p)  \/ ForknPubKid(c, p)
  \/ ExitLock(c, p)      \/ Reparent(c, p)        \/ ReparentWake(c, p)
  \/ ExitWake(c, p)      \/ ExitZombie(c, p)
  \/ WaitStart(c, p)     \/ WaitScan(c, p)        \/ WaitReap(c, p)
  \/ WaitCopyoutFail(c, p) \/ WaitCheck(c, p)     \/ sleep(c, p)
  \/ WaitallScan(c, p)   \/ WaitallCheck(c, p)    \/ WaitallFree(c, p)
  \/ kill(c, p)

\* A step of the user program, or a trap it takes.
UserStep(c, p) ==
  \/ TrapKilled(c, p)    \/ SysFork(c, p)         \/ SysForkn(c, p)
  \/ SysExit(c, p)       \/ SysWait(c, p)         \/ SysWaitall(c, p)
  \/ SysKill(c, p)

SchedStep(c, p) ==
  SwitchIn(c, p) \/ Resume(c, p) \/ SwitchOut(c, p) \/ yield(c, p)

Next == \E c \in CPU, p \in Procs :
          \/ SchedStep(c, p)
          \/ UserStep(c, p)
          \/ KernelStep(c, p)
          \/ SchedPanic(c, p)
          \/ AcquirePanic(c, p)

Spec == Init /\ [][Next]_vars

\* A CPU keeps executing; a spinlock that is free again and again is acquired
\* in the end; the scheduler's loop reaches every RUNNABLE process; the timer
\* interrupts every user program.  User programs promise nothing.
Fairness ==
  \A p \in Procs :
    /\ SF_vars(\E c \in CPU : SwitchIn(c, p))
    /\ WF_vars(\E c \in CPU : Resume(c, p))
    /\ WF_vars(\E c \in CPU : SwitchOut(c, p))
    /\ SF_vars(\E c \in CPU : KernelStep(c, p))
    /\ SF_vars(\E c \in CPU : pc[p] = "user" /\ (yield(c, p) \/ TrapKilled(c, p)))

FairSpec == Spec /\ Fairness

-----------------------------------------------------------------------------
(* Properties.                                                             *)

TableOK ==
  /\ state \in [Procs -> States]
  /\ pid \in [Procs -> Nat]
  /\ parent \in [Procs -> Procs \cup {NoProc}]
  /\ killed \in [Procs -> {0, 1}]
  /\ chan \in [Procs -> Procs \cup {NoProc}]
  /\ xstate \in [Procs -> Int]
CpuOK ==
  /\ nextpid \in Nat
  /\ lock \in [Locks -> CPU \cup {NoCpu}]
  /\ cpu \in [CPU -> Procs \cup {NoProc}]
  /\ panicked \subseteq CPU
ThreadOK ==
  /\ pc \in [Procs -> Labels]
  /\ idx \in [Procs -> 0 .. NPROC]
  /\ arg \in [Procs -> Int]
  /\ kids \in [Procs -> Seq(Procs)]
  /\ have \in [Procs -> {0, 1}]
  /\ allDone \in [Procs -> {0, 1}]

\* The process table, the CPUs and locks, and the kernel threads of the
\* model have their types: every scan of proc[] stays inside it.
TypeOK == TableOK /\ CpuOK /\ ThreadOK

\* A kernel stack is used by one CPU at a time, and for as long as a CPU is
\* on it (until the scheduler has switched away and cleared c->proc) its slot
\* is neither free nor being set up, and no other CPU can take p->lock to
\* reap or schedule it.  This is why sched hands p->lock to the scheduler and
\* why wait takes pp->lock ("make sure the child isn't still in exit() or
\* swtch()").
KernelStackExclusive ==
  \A c \in CPU : cpu[c] # NoProc =>
    /\ \A d \in CPU : cpu[d] = cpu[c] => d = c
    /\ state[cpu[c]] \in {"RUNNING", "RUNNABLE", "SLEEPING", "ZOMBIE"}
    /\ state[cpu[c]] # "RUNNING" => lock[cpu[c]] = c

\* None of the checks of sched() and acquire() fires: a process enters the
\* scheduler holding p->lock and nothing else.
NoPanic == panicked = {}

\* While nobody is inside exit or wait (wait_lock free), a process asleep in
\* wait has a child and none of its children is a ZOMBIE; one asleep in
\* waitall has a child that is not.  A wakeup that came too early, or went to
\* the wrong process after reparent, would break it.
NoLostWakeup ==
  Free(WaitLock) =>
    \A p \in Procs : state[p] = "SLEEPING" =>
      /\ Children(p) # {}
      /\ pc[p] = "waitsleep" => \A q \in Children(p) : state[q] # "ZOMBIE"
      /\ pc[p] = "waitallsleep" => \E q \in Children(p) : state[q] # "ZOMBIE"

\* While wait_lock is free, every process but init that can run, sleeps or
\* waits to be reaped has a parent that has not exited: exit leaves nobody
\* behind, so somebody can still wait for it.
NoOrphans ==
  Free(WaitLock) =>
    \A q \in Procs \ {initproc} :
      state[q] \in {"RUNNABLE", "RUNNING", "SLEEPING", "ZOMBIE"} =>
        /\ parent[q] # NoProc
        /\ state[parent[q]] \in {"RUNNABLE", "RUNNING", "SLEEPING"}

\* The slots p has taken with allocproc and not yet made RUNNABLE or freed.
Making(p) ==
  (IF pc[p] \in {"forkn", "forkncopy", "rollback", "publish", "pubkid"}
     THEN Range(kids[p]) ELSE {})
  \cup
  (IF pc[p] \in {"forkcopy", "forkparent", "forkrun", "forkncopy"}
     THEN {idx[p]} ELSE {})

\* A slot is USED exactly while one process is still building it: fork and
\* forkn, with their failure paths, neither leak a slot nor build the same
\* one twice.
UsedIsOwned ==
  /\ \A q \in Procs : state[q] = "USED" <=> \E p \in Procs : q \in Making(p)
  /\ \A p, r \in Procs : p # r => Making(p) \cap Making(r) = {}

\* No two slots in use have the same pid, so kill and wait name one process.
UniquePids ==
  \A p, q \in Procs :
    p # q /\ state[p] # "UNUSED" /\ state[q] # "UNUSED" => pid[p] # pid[q]

\* allocproc clears neither killed, parent nor chan: it relies on every free
\* slot having been left clean, or the next process in it starts out killed
\* or with a parent it does not have.
FreeSlotClean ==
  \A q \in Procs : state[q] = "UNUSED" =>
    /\ killed[q] = 0
    /\ parent[q] = NoProc
    /\ pid[q] = 0

\* The process table is in order: its types, the family tree, the pids and the
\* free slots.
TableSound == TypeOK /\ NoOrphans /\ UniquePids /\ FreeSlotClean

\* The CPU c spins in acquire() for a lock that d holds.
SpinsFor(c, d) ==
  /\ cpu[c] # NoProc
  /\ state[cpu[c]] = "RUNNING"
  /\ lock[cpu[c]] # c
  /\ pc[cpu[c]] # "user"
  /\ Wants(cpu[c]) \in Locks
  /\ lock[Wants(cpu[c])] = d

\* No CPU spins for its own lock and no two CPUs spin for each other's:
\* wait_lock is always taken before any p->lock.
NoSpinCycle ==
  \A c, d \in CPU : ~(SpinsFor(c, d) /\ SpinsFor(d, c))

\* A CPU holds the lock of a free slot: forkn has returned with np->lock.
Leaked(c) == \E q \in Procs : lock[q] = c /\ state[q] = "UNUSED"

\* forkn and waitall panic, in sched or in acquire, only on a CPU that holds
\* the lock forkn leaks when uvmcopy fails.
PanicOnlyByLeak == \A c \in panicked : Leaked(c)

\* And no two CPUs spin for each other's locks, nor one for its own, but for
\* such a lock.
SpinOnlyByLeak ==
  \A c, d \in CPU : SpinsFor(c, d) /\ SpinsFor(d, c) => Leaked(c) \/ Leaked(d)

\* No CPU stops for good: none panics, and none spins for ever for a lock.
NoStop == NoPanic /\ NoSpinCycle

\* So whatever stops a CPU that runs forkn or waitall comes from that lock.
StopsOnlyByLeak == PanicOnlyByLeak /\ SpinOnlyByLeak

\* A ZOMBIE keeps its exit status and pid until it is freed, it is freed only
\* by its parent (wait and waitall hold wait_lock), and it never runs again.
ZombieFate ==
  [][\A q \in Procs : state[q] = "ZOMBIE" =>
       \/ state'[q] = "ZOMBIE" /\ xstate'[q] = xstate[q] /\ pid'[q] = pid[q]
       \/ /\ state'[q] = "UNUSED"
          /\ \E c \in CPU : cpu[c] = parent[q] /\ lock[WaitLock] = c]_vars

\* A process that has just been allocated has not been killed: kill reaches
\* "the process with the given pid" and no other.
NewbornNotKilled ==
  [][\A q \in Procs : state[q] = "UNUSED" /\ state'[q] = "USED" => killed'[q] = 0]_vars

\* A parent inside wait that has a ZOMBIE child returns from wait: the wakeup
\* of exit or of reparent reaches it, and no lock stays in its way.
WaitReturns ==
  \A p, q \in Procs :
    (state[q] = "ZOMBIE" /\ parent[q] = p /\ pc[p] \in {"wait", "waitscan", "waitsleep"})
      ~> pc[p] = "ret"

\* A process that calls exit becomes a ZOMBIE, however the others compete for
\* wait_lock and the slots' locks with it.
ExitCompletes == \A p \in Procs : pc[p] = "exit" ~> state[p] = "ZOMBIE"

\* A killed process in user mode exits: a trap of its own or the timer brings
\* it to usertrap's killed check.
KillCompletes ==
  \A p \in Procs : (pc[p] = "user" /\ killed[p] = 1) ~> state[p] = "ZOMBIE"

\* Between parents and children: both sides get on.
FamilyProgress == WaitReturns /\ ExitCompletes

-----------------------------------------------------------------------------
(* The inductive invariant behind KernelStackExclusive and UsedIsOwned.    *)

\* Points with wait_lock held; at the last three the thread may also have
\* released it already, in sched() with p->lock held.
WaitLabels == {"pubkid", "reparent", "reparentwake", "exitwake",
               "waitscan", "waitallscan", "waitallfree"}
LockedLabels == WaitLabels \cup {"zombie", "waitsleep", "waitallsleep"}

\* A process is where its state says; none leaves the CPU inside a section
\* that holds wait_lock.
PcOfState ==
  \A p \in Procs :
    /\ state[p] = "UNUSED" => pc[p] \in {"forkret", "zombie"}
    /\ state[p] = "USED" => pc[p] = "forkret"
    /\ state[p] = "ZOMBIE" => pc[p] = "zombie"
    /\ state[p] = "SLEEPING" => pc[p] \in {"waitsleep", "waitallsleep"}
    /\ state[p] = "RUNNABLE" => pc[p] \notin WaitLabels \cup {"zombie"}
    /\ \A c \in CPU : cpu[c] = p /\ lock[p] = c /\ state[p] = "RUNNING"
                        => pc[p] \notin WaitLabels \cup {"zombie"}

\* A RUNNING process is on some CPU.
RunningOnCpu ==
  \A p \in Procs : state[p] = "RUNNING" => \E c \in CPU : cpu[c] = p

\* The CPU that runs a thread at one of LockedLabels holds wait_lock.
WaitLockHeld ==
  \A c \in CPU, p \in Procs :
    cpu[c] = p /\ state[p] = "RUNNING" /\ lock[p] # c /\ pc[p] \in LockedLabels
      => lock[WaitLock] = c

\* Where idx[p] names a slot.
IdxLabels == {"user", "ret", "forkret", "fork", "forkn", "kill", "forkcopy",
              "forkncopy", "forkparent", "forkrun", "exit", "reparent",
              "reparentwake", "exitwake", "zombie"}
IdxInRange == \A p \in Procs : pc[p] \in IdxLabels => idx[p] \in Procs

\* No slot is twice in kids[] of forkn or to_free[] of waitall, and neither
\* is carried into the next system call.
KidsDistinct ==
  \A p \in Procs :
    /\ IsInjective(kids[p])
    /\ pc[p] = "forkncopy" => idx[p] \notin Range(kids[p])
    /\ pc[p] \in {"forkret", "user", "ret", "exit", "reparent", "reparentwake",
                 "exitwake", "zombie"} => kids[p] = <<>>

\* to_free[] of waitall holds ZOMBIEs only, from the part scanned so far.
ToFreeZombie ==
  \A p \in Procs : \A q \in Range(kids[p]) :
    /\ pc[p] \in {"waitallscan", "waitallfree"} => state[q] = "ZOMBIE"
    /\ pc[p] = "waitallscan" => q < idx[p]

ProcInv ==
  /\ TypeOK
  /\ KernelStackExclusive
  /\ PcOfState
  /\ RunningOnCpu
  /\ WaitLockHeld
  /\ IdxInRange
  /\ UsedIsOwned
  /\ KidsDistinct
  /\ ToFreeZombie
=============================================================================
