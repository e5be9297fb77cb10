-------------------------------- MODULE Trap --------------------------------
(***************************************************************************)
(* trap.c and plic.c: traps from user space and from the kernel, on CPUs   *)
(* whose trap registers (stvec, sepc, sstatus) are shared by everything    *)
(* that runs there, with processes that move between CPUs inside a trap.   *)
(*                                                                         *)
(* A process without frames is in user mode. A place is <<context, number  *)
(* of frames below, instruction>>; user code has the instructions 0 and 1, *)
(* and a system call continues at the other one. A CPU's scheduler is a    *)
(* context with the CPU's name. The PLIC is external.                      *)
(***************************************************************************)
EXTENDS Integers, Sequences, Parts

CONSTANTS
  Harts,       \* CPUs
  TrProcs,     \* processes
  Irqs         \* devices

\* A CPU's scheduler is not a process.
ASSUME TrAssumption == Harts \cap TrProcs = {}

VARIABLES
  csr,         \* each CPU: cur, sie, stvec, sepc, spp; and sip, the timer's bit
  frames,      \* each context: its trap frames on the kernel stack, top first
  tf,          \* p->trapframe->epc
  upc,         \* where the user code of p is
  due,         \* where it has to go on after the present trap
  dead,        \* p->killed
  trReady,     \* processes that wait for a CPU
  plic,        \* pending: not claimed interrupts; claimed: those being served
  trPanic

trVars == <<csr, frames, tf, upc, due, dead, trReady, plic, trPanic>>
userVars == <<upc, due, dead>>

TrFrame(kind, pc) == [kind |-> kind, pc |-> pc, cause |-> "none", which |-> 0, sepc |-> <<>>]
TrTop(h) == Head(frames[csr[h].cur])
TrAt(h, kind, pc) ==
  /\ ~trPanic /\ frames[csr[h].cur] # <<>>
  /\ TrTop(h).kind = kind /\ TrTop(h).pc = pc
InUser(h) == csr[h].cur \in TrProcs /\ frames[csr[h].cur] = <<>>
TrPut(h, f) == frames' = [frames EXCEPT ![csr[h].cur] = <<f>> \o Tail(@)]
TrGoto(h, pc) == TrPut(h, [TrTop(h) EXCEPT !.pc = pc])

\* A new process starts in forkret, which goes to usertrapret.
TrInit ==
  /\ csr = [h \in Harts |-> [cur |-> h, sie |-> TRUE, stvec |-> "kernelvec",
                             sepc |-> <<>>, spp |-> "S", sip |-> FALSE]]
  /\ frames = [x \in TrProcs \cup Harts |->
                 IF x \in TrProcs THEN <<TrFrame("user", "ret")>> ELSE <<>>]
  /\ tf = [p \in TrProcs |-> <<p, 0, 0>>]
  /\ upc = [p \in TrProcs |-> 0] /\ due = upc
  /\ dead = [p \in TrProcs |-> FALSE]
  /\ trReady = TrProcs
  /\ plic = [pending |-> {}, claimed |-> {}]
  /\ trPanic = FALSE

-----------------------------------------------------------------------------
(* The hardware.                                                           *)

Causes(h) ==
  (IF InUser(h) THEN {"ecall", "fault"} ELSE {})
    \cup (IF csr[h].sip THEN {"timer"} ELSE {}) \cup (IF plic.pending # {} THEN {"ext"} ELSE {})

Here(h) == <<csr[h].cur, Len(frames[csr[h].cur]), IF InUser(h) THEN upc[csr[h].cur] ELSE 0>>

\* A trap goes to stvec; interrupts are off from then on.
TakeTrap(h, cause) ==
  /\ ~trPanic /\ csr[h].sie /\ cause \in Causes(h)
  /\ csr' = [csr EXCEPT ![h].sie = FALSE, ![h].sepc = Here(h),
                        ![h].spp = IF InUser(h) THEN "U" ELSE "S"]
  /\ frames' = [frames EXCEPT ![csr[h].cur] =
       <<[TrFrame(IF csr[h].stvec = "uservec" THEN "user" ELSE "kern", "entry")
            EXCEPT !.cause = cause]>> \o @]
  /\ due' = IF InUser(h) /\ cause = "ecall" THEN [due EXCEPT ![csr[h].cur] = 1 - @] ELSE due
  /\ UNCHANGED <<tf, upc, dead, trReady, plic, trPanic>>

\* Timer and devices.
Tick(h) ==
  /\ ~csr[h].sip /\ csr' = [csr EXCEPT ![h].sip = TRUE]
  /\ UNCHANGED <<frames, tf, userVars, trReady, plic, trPanic>>
RaiseIrq(i) ==
  /\ i \notin plic.pending \cup plic.claimed
  /\ plic' = [plic EXCEPT !.pending = @ \cup {i}]
  /\ UNCHANGED <<csr, frames, tf, userVars, trReady, trPanic>>

-----------------------------------------------------------------------------
(* usertrap() and usertrapret().                                           *)

\* Variant: a system call goes on at the ecall.
Next4_same(e) == e

\* epc += 4.
Next4(e) == [e EXCEPT ![3] = 1 - @]

usertrap(h) ==
  LET x == csr[h].cur
      sys == TrTop(h).cause = "ecall" /\ ~dead[x]
  IN  /\ TrAt(h, "user", "entry")
      /\ trPanic' = (csr[h].spp # "U")
      /\ csr' = [csr EXCEPT ![h].stvec = "kernelvec", ![h].sie = sys]
      /\ tf' = IF x \in TrProcs
                 THEN [tf EXCEPT ![x] = IF sys THEN Next4(csr[h].sepc) ELSE csr[h].sepc] ELSE tf
      /\ dead' = IF TrTop(h).cause = "fault" THEN [dead EXCEPT ![x] = TRUE] ELSE dead
      /\ TrGoto(h, IF sys THEN "sys" ELSE IF TrTop(h).cause \in {"timer", "ext"} THEN "dev" ELSE "after")
      /\ UNCHANGED <<upc, due, trReady, plic>>

\* syscall(), which may also sleep and go on on another CPU. Interrupts are on.
SyscallEnd(h) ==
  /\ TrAt(h, "user", "sys")
  /\ TrGoto(h, "after")
  /\ UNCHANGED <<csr, tf, userVars, trReady, plic, trPanic>>
SyscallSleep(h) ==
  /\ TrAt(h, "user", "sys")
  /\ trReady' = trReady \cup {csr[h].cur}
  /\ csr' = [csr EXCEPT ![h].cur = h, ![h].sie = TRUE]
  /\ UNCHANGED <<frames, tf, userVars, plic, trPanic>>

\* exit, and another process in the slot; the CPU goes to its scheduler.
UserExit(h) ==
  LET x == csr[h].cur
  IN  /\ TrAt(h, "user", "after") /\ dead[x]
      /\ TrPut(h, TrFrame("user", "ret"))
      /\ tf' = [tf EXCEPT ![x] = <<x, 0, 0>>]
      /\ due' = [due EXCEPT ![x] = 0]
      /\ dead' = [dead EXCEPT ![x] = FALSE]
      /\ trReady' = trReady \cup {x}
      /\ csr' = [csr EXCEPT ![h].cur = h, ![h].sie = TRUE]
      /\ UNCHANGED <<upc, plic, trPanic>>

\* Give up the CPU (yield) and go on at pc later, or go on at once.
TrLeave(h, pc, yields) ==
  /\ TrGoto(h, pc)
  /\ IF yields /\ csr[h].cur \in TrProcs
       THEN /\ trReady' = trReady \cup {csr[h].cur}
            /\ csr' = [csr EXCEPT ![h].cur = h, ![h].sie = TRUE]
       ELSE UNCHANGED <<trReady, csr>>

UserAfter(h) ==
  /\ TrAt(h, "user", "after") /\ ~dead[csr[h].cur]
  /\ TrLeave(h, "ret", TrTop(h).which = 2)
  /\ UNCHANGED <<tf, userVars, plic, trPanic>>

\* Variant: interrupts stay on.
RetIntr_on(h) == UNCHANGED csr

\* usertrapret: intr_off() before stvec is changed.
RetIntr(h) == csr' = [csr EXCEPT ![h].sie = FALSE]

usertrapret(h) ==
  /\ TrAt(h, "user", "ret")
  /\ RetIntr(h)
  /\ TrGoto(h, "vec")
  /\ UNCHANGED <<tf, userVars, trReady, plic, trPanic>>

RetVec(h) ==
  /\ TrAt(h, "user", "vec")
  /\ csr' = [csr EXCEPT ![h].stvec = "uservec"]
  /\ TrGoto(h, "epc")
  /\ UNCHANGED <<tf, userVars, trReady, plic, trPanic>>

\* sepc and sstatus; sret.
RetSret(h) ==
  LET x == csr[h].cur
  IN  /\ TrAt(h, "user", "epc")
      /\ csr' = [csr EXCEPT ![h].sepc = tf[x], ![h].spp = "U", ![h].sie = TRUE]
      /\ frames' = [frames EXCEPT ![x] = Tail(@)]
      /\ upc' = [upc EXCEPT ![x] = tf[x][3]]
      /\ UNCHANGED <<tf, due, dead, trReady, plic, trPanic>>

-----------------------------------------------------------------------------
(* devintr().                                                              *)

\* The timer's interrupt: clockintr on CPU 0 (module Ticks), and the bit is
\* cleared.
DevTimer(h, kind) ==
  /\ TrAt(h, kind, "dev") /\ TrTop(h).cause = "timer"
  /\ csr' = [csr EXCEPT ![h].sip = FALSE]
  /\ TrPut(h, [TrTop(h) EXCEPT !.pc = "after", !.which = 2])
  /\ UNCHANGED <<tf, userVars, trReady, plic, trPanic>>

\* plic_claim gives one pending interrupt, or none if another CPU was faster.
DevClaim(h, kind) ==
  /\ TrAt(h, kind, "dev") /\ TrTop(h).cause = "ext"
  /\ IF plic.pending = {}
       THEN TrPut(h, [TrTop(h) EXCEPT !.pc = "after", !.which = 1]) /\ UNCHANGED plic
       ELSE \E i \in plic.pending :
              /\ plic' = [pending |-> plic.pending \ {i}, claimed |-> plic.claimed \cup {i}]
              /\ TrPut(h, [TrTop(h) EXCEPT !.pc = "serve", !.cause = i])
  /\ UNCHANGED <<csr, tf, userVars, trReady, trPanic>>

\* Variant: the PLIC is not told.
plic_complete_no(i) == UNCHANGED plic

\* plic_complete(irq).
plic_complete(i) == plic' = [plic EXCEPT !.claimed = @ \ {i}]

\* The handler of the device, and the PLIC is told.
DevComplete(h, kind) ==
  /\ TrAt(h, kind, "serve")
  /\ plic_complete(TrTop(h).cause)
  /\ TrPut(h, [TrTop(h) EXCEPT !.pc = "after", !.which = 1, !.cause = "ext"])
  /\ UNCHANGED <<csr, tf, userVars, trReady, trPanic>>

-----------------------------------------------------------------------------
(* kerneltrap().                                                           *)

kerneltrap(h) ==
  /\ TrAt(h, "kern", "entry")
  /\ trPanic' = (csr[h].spp # "S" \/ csr[h].sie \/ TrTop(h).cause \notin {"timer", "ext"})
  /\ TrPut(h, [TrTop(h) EXCEPT !.pc = "dev", !.sepc = csr[h].sepc])
  /\ UNCHANGED <<csr, tf, userVars, trReady, plic>>

KernAfter(h) ==
  /\ TrAt(h, "kern", "after")
  /\ TrLeave(h, "restore", TrTop(h).which = 2)
  /\ UNCHANGED <<tf, userVars, plic, trPanic>>

\* Variant: sepc and sstatus are not restored.
Restored_no(h) == UNCHANGED csr

\* w_sepc and w_sstatus with what the trap found.
Restored(h) == csr' = [csr EXCEPT ![h].sepc = TrTop(h).sepc, ![h].spp = "S"]

KernRestore(h) ==
  /\ TrAt(h, "kern", "restore")
  /\ Restored(h)
  /\ TrGoto(h, "sret")
  /\ UNCHANGED <<tf, userVars, trReady, plic, trPanic>>

KernSret(h) ==
  /\ TrAt(h, "kern", "sret")
  /\ frames' = [frames EXCEPT ![csr[h].cur] = Tail(@)]
  /\ csr' = [csr EXCEPT ![h].sie = TRUE]
  /\ UNCHANGED <<tf, userVars, trReady, plic, trPanic>>

\* Variant: the process stays RUNNABLE.
Dispatch_stay(h) ==
  /\ ~trPanic /\ csr[h].cur = h /\ frames[h] = <<>>
  /\ \E x \in trReady :
       csr' = [csr EXCEPT ![h].cur = x, ![h].sie = Head(frames[x]).pc = "sys"]
  /\ UNCHANGED <<frames, tf, userVars, trReady, plic, trPanic>>

\* The scheduler runs a process: it was in a system call with interrupts on, or
\* in the middle of a trap with interrupts off.
Dispatch(h) ==
  /\ ~trPanic /\ csr[h].cur = h /\ frames[h] = <<>>
  /\ \E x \in trReady :
       /\ trReady' = trReady \ {x}
       /\ csr' = [csr EXCEPT ![h].cur = x, ![h].sie = Head(frames[x]).pc = "sys"]
  /\ UNCHANGED <<frames, tf, userVars, plic, trPanic>>

SetKilled(p) ==
  /\ ~dead[p] /\ dead' = [dead EXCEPT ![p] = TRUE]
  /\ UNCHANGED <<csr, frames, tf, upc, due, trReady, plic, trPanic>>

TrStep(h) ==
  \/ usertrap(h) \/ SyscallEnd(h) \/ SyscallSleep(h) \/ UserExit(h) \/ UserAfter(h)
  \/ usertrapret(h) \/ RetVec(h) \/ RetSret(h)
  \/ \E kind \in {"user", "kern"} : DevTimer(h, kind) \/ DevClaim(h, kind) \/ DevComplete(h, kind)
  \/ kerneltrap(h) \/ KernAfter(h) \/ KernRestore(h) \/ KernSret(h) \/ Dispatch(h)

TrNext ==
  \/ \E h \in Harts : TrStep(h) \/ Tick(h) \/ \E c \in Causes(h) : TakeTrap(h, c)
  \/ \E i \in Irqs : RaiseIrq(i)
  \/ \E p \in TrProcs : SetKilled(p)

TrSpec == TrInit /\ [][TrNext]_trVars

-----------------------------------------------------------------------------
(* Properties.                                                             *)

\* Types: a stack has at most two frames: the handlers of interrupts are never
\* interrupted themselves.
TrTypeOK ==
  In("trap") =>
    /\ \A h \in Harts : csr[h].cur \in TrProcs \cup {h} /\ csr[h].stvec \in {"uservec", "kernelvec"}
    /\ \A x \in TrProcs \cup Harts : Len(frames[x]) <= IF x \in TrProcs THEN 2 ELSE 1
    /\ \A g, h \in Harts : g # h => csr[g].cur # csr[h].cur
    /\ \A h \in Harts : csr[h].cur \notin trReady

\* Wherever a trap may come it finds the right vector: uservec in user mode,
\* kernelvec in the kernel with interrupts on. So usertrap and kerneltrap never
\* panic about where they come from.
VectorRight ==
  In("trap") =>
    /\ \A h \in Harts : csr[h].sie => (InUser(h) <=> csr[h].stvec = "uservec")
    /\ ~trPanic

\* sret of kerneltrap goes back to the place that was interrupted, with the
\* status that was interrupted, although in between the process may have moved
\* to another CPU, whose registers served other traps.
SretRight ==
  In("trap") =>
    \A h \in Harts : TrAt(h, "kern", "sret") =>
      csr[h].spp = "S" /\ csr[h].sepc = <<csr[h].cur, Len(frames[csr[h].cur]) - 1, 0>>

\* User code goes on where it has to: after the ecall it executed, or at the
\* instruction that was interrupted.
ResumeRight ==
  In("trap") =>
    \A h \in Harts : InUser(h) => upc[csr[h].cur] = due[csr[h].cur]

\* An interrupt that was claimed is being served by one CPU, which will
\* complete it: no device is left masked.
ClaimsServed ==
  In("trap") =>
    \A i \in plic.claimed :
      \E h \in Harts : frames[csr[h].cur] # <<>> /\ TrTop(h).pc = "serve" /\ TrTop(h).cause = i

\* Traps arrive where they can be handled, and end where they came from.
TrapsSound == TrTypeOK /\ VectorRight /\ SretRight /\ ResumeRight /\ ClaimsServed
=============================================================================
