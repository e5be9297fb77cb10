------------------------------ MODULE Spinlock ------------------------------
(***************************************************************************)
(* spinlock.c with the interrupts of each CPU, and the hand-over of a lock  *)
(* through swtch: kernel threads, one scheduler thread per CPU, and device  *)
(* interrupts that arrive whenever the CPU allows them.                    *)
(*                                                                         *)
(* A step is one access to something another CPU or an interrupt handler   *)
(* can see. The first element of a thread's stack is the frame it runs; an *)
(* interrupt pushes a frame. Locks are dev, which threads and interrupt  *)
(* handlers take, and the p->lock of every thread.                         *)
(***************************************************************************)
EXTENDS Integers, Sequences, FiniteSets, Parts

CONSTANTS
  SpCpus,      \* CPUs
  NThreads     \* processes: 1 .. NThreads

VARIABLES
  slock,       \* each lock: locked, and cpu (a set: empty is 0)
  hart,        \* each CPU: intr (sstatus.SIE), noff, intena, cur
  stack,       \* each thread: its frames
  ready,       \* threads that are RUNNABLE
  spPanic      \* some CPU has called panic

spVars == <<slock, hart, stack, ready, spPanic>>

Threads == 1 .. NThreads

\* There is a process, and CPUs have names of their own.
ASSUME SpAssumption == NThreads \in Nat \ {0} /\ SpCpus \cap Threads = {}

dev == 0                           \* a lock that is no p->lock
SpLocks == {dev} \cup Threads
Contexts == Threads \cup SpCpus     \* a CPU's scheduler has the CPU's name

Frame(pc, l) == [pc |-> pc, lk |-> l, old |-> FALSE, saved |-> FALSE, kind |-> "base"]
Top(x) == Head(stack[x])
SpRuns(c, pc) == ~spPanic /\ Top(hart[c].cur).pc = pc
Lk(c) == Top(hart[c].cur).lk

\* The frame that runs on c becomes f.
SetFrame(c, f) == stack' = [stack EXCEPT ![hart[c].cur] = <<f>> \o Tail(@)]
SpGoto(c, pc) == SetFrame(c, [Top(hart[c].cur) EXCEPT !.pc = pc])

SpInit ==
  /\ slock = [l \in SpLocks |-> [locked |-> FALSE, cpu |-> {}]]
  /\ hart = [c \in SpCpus |-> [intr |-> FALSE, noff |-> 0, intena |-> FALSE, cur |-> c]]
  /\ stack = [x \in Contexts |-> <<IF x \in Threads
                                         THEN [Frame("rel", x) EXCEPT !.kind = "forkret"]
                                         ELSE Frame("loop", dev)>>]
  /\ ready = Threads
  /\ spPanic = FALSE

holding(c, l) == slock[l].locked /\ c \in slock[l].cpu
SpPanics == spPanic' = TRUE

-----------------------------------------------------------------------------
(* acquire().                                                              *)

\* push_off: int old = intr_get(). An interrupt, and with it another thread,
\* may still come before intr_off.
IntrGet(c) ==
  /\ SpRuns(c, "push")
  /\ SetFrame(c, [Top(hart[c].cur) EXCEPT !.pc = "off", !.old = hart[c].intr])
  /\ UNCHANGED <<slock, hart, ready, spPanic>>

\* Variant: interrupts stay on.
push_off_on(c) ==
  hart' = [hart EXCEPT ![c].noff = @ + 1,
                       ![c].intena = IF hart[c].noff = 0 THEN Top(hart[c].cur).old ELSE @]

push_off(c) ==
  hart' = [hart EXCEPT ![c].intr = FALSE, ![c].noff = @ + 1,
                       ![c].intena = IF hart[c].noff = 0 THEN Top(hart[c].cur).old ELSE @]

\* The rest of push_off and the check against acquiring a lock twice.
IntrOff(c) ==
  /\ SpRuns(c, "off")
  /\ push_off(c)
  /\ IF holding(c, Lk(c)) THEN SpPanics ELSE UNCHANGED spPanic
  /\ SpGoto(c, "spin")
  /\ UNCHANGED <<slock, ready>>

\* Variant: the lock is read and then set.
Swap_any(c) ==
  /\ SpRuns(c, "spin")
  /\ slock' = [slock EXCEPT ![Lk(c)].locked = TRUE]
  /\ SpGoto(c, "own")
  /\ UNCHANGED <<hart, ready, spPanic>>

Swap(c) ==
  /\ SpRuns(c, "spin") /\ ~slock[Lk(c)].locked
  /\ slock' = [slock EXCEPT ![Lk(c)].locked = TRUE]
  /\ SpGoto(c, "own")
  /\ UNCHANGED <<hart, ready, spPanic>>

\* lk->cpu = mycpu(); then the caller's critical section.
Own(c) ==
  /\ SpRuns(c, "own")
  /\ slock' = [slock EXCEPT ![Lk(c)].cpu = {c}]
  /\ SpGoto(c, IF Lk(c) = dev \/ Top(hart[c].cur).kind = "call" THEN "crit"
               ELSE IF hart[c].cur = c THEN "pick" ELSE "sched")
  /\ UNCHANGED <<hart, ready, spPanic>>

-----------------------------------------------------------------------------
(* release().                                                              *)

Disown(c) ==
  /\ \E pc \in {"crit", "rel"} : SpRuns(c, pc)
  /\ IF holding(c, Lk(c)) THEN UNCHANGED spPanic ELSE SpPanics
  /\ slock' = [slock EXCEPT ![Lk(c)].cpu = {}]
  /\ SpGoto(c, "unlock")
  /\ UNCHANGED <<hart, ready>>

Unlock(c) ==
  /\ SpRuns(c, "unlock")
  /\ slock' = [slock EXCEPT ![Lk(c)].locked = FALSE]
  /\ SpGoto(c, "pop")
  /\ UNCHANGED <<hart, ready, spPanic>>

\* Where a thread goes on when it has released a lock. The scheduler takes the
\* next p of its pass over proc[].
Resumed(c, f) ==
  CASE f.kind = "call" -> <<>>
    [] f.kind = "forkret" -> <<Frame("ret", dev)>>
    [] f.kind = "irq" -> <<[f EXCEPT !.pc = IF f.lk = dev THEN "post" ELSE "iret"]>>
    [] f.kind = "base" /\ hart[c].cur # c -> <<Frame("run", dev)>>
    [] f.kind = "base" /\ hart[c].cur = c ->
         <<IF f.lk = NThreads THEN Frame("loop", dev) ELSE Frame("push", f.lk + 1)>>
Resume(c) ==
  stack' = [stack EXCEPT ![hart[c].cur] = Resumed(c, Head(@)) \o Tail(@)]

\* Variant: interrupts are on again with the first release.
pop_off_early(c) ==
  /\ SpRuns(c, "pop")
  /\ IF hart[c].intr \/ hart[c].noff < 1 THEN SpPanics ELSE UNCHANGED spPanic
  /\ hart' = [hart EXCEPT ![c].noff = @ - 1, ![c].intr = hart[c].intena]
  /\ Resume(c)
  /\ UNCHANGED <<slock, ready>>

pop_off(c) ==
  /\ SpRuns(c, "pop")
  /\ IF hart[c].intr \/ hart[c].noff < 1 THEN SpPanics ELSE UNCHANGED spPanic
  /\ hart' = [hart EXCEPT ![c].noff = @ - 1,
                          ![c].intr = hart[c].noff = 1 /\ hart[c].intena]
  /\ Resume(c)
  /\ UNCHANGED <<slock, ready>>

-----------------------------------------------------------------------------
(* Who takes locks: kernel code, yield, the scheduler and interrupts.      *)

\* Kernel code takes the device's lock, or yields.
KernelCode(c) ==
  /\ SpRuns(c, "run")
  /\ \E l \in {dev, hart[c].cur} :
       SetFrame(c, [Top(hart[c].cur) EXCEPT !.pc = "push", !.lk = l])
  /\ UNCHANGED <<slock, hart, ready, spPanic>>

\* usertrapret, user code and the next system call, which starts with intr_on;
\* until then a new process may run with the interrupts its CPU had.
UserMode(c) ==
  /\ SpRuns(c, "ret")
  /\ hart' = [hart EXCEPT ![c].intr = TRUE]
  /\ SpGoto(c, "run")
  /\ UNCHANGED <<slock, ready, spPanic>>

\* Code that holds the device's lock calls wakeup() or killed(), which take and
\* release a p->lock.
Nested(c) ==
  /\ SpRuns(c, "crit") /\ Lk(c) = dev
  /\ \E t \in Threads :
       stack' = [stack EXCEPT ![hart[c].cur] =
                   <<[Frame("push", t) EXCEPT !.kind = "call"]>> \o @]
  /\ UNCHANGED <<slock, hart, ready, spPanic>>

\* yield -> sched: p->lock stays locked and is the scheduler's from now on.
sched(c) ==
  LET x == hart[c].cur
  IN  /\ SpRuns(c, "sched")
      /\ IF ~holding(c, x) \/ hart[c].noff # 1 \/ hart[c].intr
           THEN SpPanics /\ UNCHANGED <<hart, stack, ready>>
           ELSE /\ SetFrame(c, [Top(x) EXCEPT !.pc = "rel", !.saved = hart[c].intena])
                /\ hart' = [hart EXCEPT ![c].cur = c]
                /\ ready' = ready \cup {x}
                /\ UNCHANGED spPanic
      /\ UNCHANGED slock

\* scheduler(): the top of the loop.
SchedulerTop(c) ==
  /\ SpRuns(c, "loop")
  /\ hart' = [hart EXCEPT ![c].intr = TRUE]
  /\ SetFrame(c, Frame("push", 1))
  /\ UNCHANGED <<slock, ready, spPanic>>

\* Variant: mycpu()->intena is not restored when sched returns.
Intena_stay(c, x) == hart[c].intena

\* sched() returns in x and restores x's intena; forkret has none to restore.
Intena(c, x) == IF Top(x).kind = "forkret" THEN hart[c].intena ELSE Top(x).saved

\* scheduler() with p->lock held: swtch to p if it is RUNNABLE.
SchedulerPick(c) ==
  LET x == Lk(c)
  IN  /\ SpRuns(c, "pick")
      /\ SpGoto(c, "rel")
      /\ IF x \in ready
           THEN /\ hart' = [hart EXCEPT ![c].cur = x, ![c].intena = Intena(c, x)]
                /\ ready' = ready \ {x}
           ELSE UNCHANGED <<hart, ready>>
      /\ UNCHANGED <<slock, spPanic>>

\* Variant: the handler runs with interrupts on.
Interrupt_on(c) ==
  LET x == hart[c].cur
  IN  /\ ~spPanic /\ hart[c].intr
      /\ stack' = [stack EXCEPT ![x] = <<[Frame("push", dev) EXCEPT !.kind = "irq"]>> \o @]
      /\ UNCHANGED <<slock, hart, ready, spPanic>>

\* An interrupt: the CPU turns interrupts off and runs kerneltrap.
Interrupt(c) ==
  LET x == hart[c].cur
  IN  /\ ~spPanic /\ hart[c].intr
      /\ stack' = [stack EXCEPT ![x] = <<[Frame("push", dev) EXCEPT !.kind = "irq"]>> \o @]
      /\ hart' = [hart EXCEPT ![c].intr = FALSE]
      /\ UNCHANGED <<slock, ready, spPanic>>

\* kerneltrap after devintr: the timer makes a process yield.
TrapYield(c) ==
  /\ SpRuns(c, "post")
  /\ \/ SpGoto(c, "iret")
     \/ /\ hart[c].cur \in Threads
        /\ SetFrame(c, [Top(hart[c].cur) EXCEPT !.pc = "push", !.lk = hart[c].cur])
  /\ UNCHANGED <<slock, hart, ready, spPanic>>

\* sret: back to what was interrupted, with interrupts on.
Iret(c) ==
  /\ SpRuns(c, "iret")
  /\ stack' = [stack EXCEPT ![hart[c].cur] = Tail(@)]
  /\ hart' = [hart EXCEPT ![c].intr = TRUE]
  /\ UNCHANGED <<slock, ready, spPanic>>

SpStep(c) ==
  \/ IntrGet(c) \/ IntrOff(c) \/ Swap(c) \/ Own(c)
  \/ Disown(c) \/ Unlock(c) \/ pop_off(c)
  \/ KernelCode(c) \/ UserMode(c) \/ Nested(c) \/ sched(c) \/ SchedulerTop(c) \/ SchedulerPick(c)
  \/ Interrupt(c) \/ TrapYield(c) \/ Iret(c)

SpNext == \E c \in SpCpus : SpStep(c)
SpSpec == SpInit /\ [][SpNext]_spVars

-----------------------------------------------------------------------------
(* Properties.                                                             *)

SpPoints == {"run", "push", "off", "spin", "own", "crit", "rel", "unlock", "pop",
             "sched", "pick", "loop", "post", "iret", "ret"}

\* Types: a stack has at most a base frame, an interrupt and one call.
SpTypeOK ==
  In("spinlock") =>
    /\ slock \in [SpLocks -> [locked : BOOLEAN, cpu : SUBSET SpCpus]]
    /\ hart \in [SpCpus -> [intr : BOOLEAN, noff : 0 .. 2, intena : BOOLEAN, cur : Contexts]]
    /\ \A x \in Contexts : Len(stack[x]) \in 1 .. 3
    /\ \A x \in Contexts : \A k \in DOMAIN stack[x] : stack[x][k].pc \in SpPoints
    /\ ready \subseteq Threads

\* The locks that the frames of the thread on c hold: one frame can hold dev
\* while a call above it takes a p->lock.
Inside(f) == f.pc \in {"own", "crit", "rel", "unlock", "sched", "pick"}
HeldBy(c) ==
  {stack[hart[c].cur][k].lk : k \in {j \in DOMAIN stack[hart[c].cur] : Inside(stack[hart[c].cur][j])}}

\* At most one CPU is inside the section of a lock, also when the lock was
\* acquired on this CPU by one thread and is released by another after swtch.
MutualExclusion ==
  In("spinlock") =>
    \A c, d \in SpCpus : c # d => HeldBy(c) \cap HeldBy(d) = {}

\* No panic: no CPU acquires what it holds (an interrupt handler least of all),
\* releases what it does not hold, pops once too often or with interrupts on,
\* or calls sched with another lock or with interrupts on.
NoSpPanic ==
  In("spinlock") =>
    ~spPanic

\* push_off and pop_off are matched across threads: kernel code outside of
\* every lock runs with interrupts on, whichever CPU it is on now and however
\* it got there, and an interrupt handler runs with them off.
IntrRestored ==
  In("spinlock") /\ ~spPanic => \A c \in SpCpus :
      LET f == Top(hart[c].cur)
      IN  /\ f.pc = "run" => hart[c].intr
          /\ f.kind \in {"irq", "call"} => ~hart[c].intr

\* While a CPU has a lock, interrupts are off there: no handler can run into
\* it. noff is the number of locks being held or waited for.
LocksMaskIntr ==
  In("spinlock") /\ ~spPanic => \A c \in SpCpus :
      /\ HeldBy(c) # {} => ~hart[c].intr
      /\ hart[c].noff = Cardinality({k \in DOMAIN stack[hart[c].cur] :
           Inside(stack[hart[c].cur][k]) \/ stack[hart[c].cur][k].pc \in {"spin", "pop"}})

\* What everything else takes for granted of a spinlock: it excludes, also
\* against interrupts of its own CPU, its checks do not fire by mistake, and
\* after the last release interrupts are as they were before the first acquire.
LocksSound ==
  SpTypeOK /\ MutualExclusion /\ NoSpPanic /\ LocksMaskIntr /\ IntrRestored
=============================================================================
