----------------------------- MODULE ProcSteps ------------------------------
(***************************************************************************)
(* ProcInv is an inductive invariant of Proc, for every number of slots    *)
(* and CPUs, every set of system calls and every choice of what may fail:  *)
(*   - one lemma per action shows that the action preserves ProcInv, with  *)
(*     one step per conjunct the action can disturb (t, l, h: the types of *)
(*     the table, the locks and the threads; k: KernelStackExclusive;      *)
(*     s: PcOfState; o: RunningOnCpu; w: WaitLockHeld; i: IdxInRange;      *)
(*     u: UsedIsOwned; d: KidsDistinct; z: ToFreeZombie) and step x for    *)
(*     the conjuncts over variables it leaves alone;                       *)
(*   - where an action's effect is easier to use than its definition, step *)
(*     e states the effect.                                                *)
(* FamilyInv, about the family tree, the pids and the free slots, is       *)
(* inductive given ProcInv: one lemma per kind of step, then which action  *)
(* is of which kind. ProcProofs uses both.                                 *)
(***************************************************************************)
EXTENDS Proc, TLAPS

-----------------------------------------------------------------------------
(* Facts about the state; the scheduler, traps and returns from calls.     *)

(* The parts of TypeOK that most steps need.                               *)
FnOK ==
  /\ state \in [Procs -> States]
  /\ lock \in [Locks -> CPU \cup {NoCpu}]
  /\ pc \in [Procs -> Labels]
IdxOK ==
  /\ idx \in [Procs -> 0 .. NPROC]
  /\ kids \in [Procs -> Seq(Procs)]

\* What ProcInv says of the first entry of kids[] or to_free[].
HeadOK(p) ==
  /\ Head(kids[p]) \in Procs
  /\ Tail(kids[p]) \in Seq(Procs)
  /\ Head(kids[p]) \in Range(kids[p])
  /\ Range(Tail(kids[p])) = Range(kids[p]) \ {Head(kids[p])}
  /\ IsInjective(Tail(kids[p]))
  /\ pc[p] \in {"rollback", "pubkid"} => state[Head(kids[p])] = "USED"
  /\ pc[p] = "waitallfree" => state[Head(kids[p])] = "ZOMBIE"

\* What most steps of p's thread, running on c, do to locks, states and points:
\* the other threads stay where they are; a slot that changes state was being
\* built, or was asleep or a ZOMBIE with its lock free; and if p enters a section
\* of wait_lock it takes the lock, if it gives the lock up it leaves the section.
Local(c, p) ==
  /\ cpu' = cpu /\ cpu[c] = p
  /\ state[p] = "RUNNING" /\ state'[p] = "RUNNING" /\ lock[p] # c /\ lock'[p] # c
  /\ \A r \in Procs \ {p} : pc'[r] = pc[r]
  /\ \A r \in Procs \ {p} :
       \/ state'[r] = state[r] /\ lock'[r] = lock[r]
       \/ state[r] = "USED" /\ state'[r] \in {"USED", "RUNNABLE", "UNUSED"}
       \/ state[r] = "SLEEPING" /\ state'[r] = "RUNNABLE" /\ lock[r] = NoCpu
       \/ state[r] = "ZOMBIE" /\ state'[r] = "UNUSED" /\ lock[r] = NoCpu
  /\ \/ /\ lock'[WaitLock] = lock[WaitLock]
        /\ pc'[p] \in LockedLabels => pc[p] \in LockedLabels
     \/ lock[WaitLock] = NoCpu /\ lock'[WaitLock] = c
     \/ pc[p] \in LockedLabels /\ pc'[p] \notin LockedLabels

-----------------------------------------------------------------------------
(* Slots and scan positions.                                               *)

\* Every slot has a lock, and wait_lock is the lock of no slot.
LEMMA SlotIsLock ==
  Procs \subseteq Locks /\ WaitLock \in Locks /\ WaitLock \notin Procs
BY NPROCAssumption DEF Procs, Locks, WaitLock

\* Scans of proc[] start at a slot.
LEMMA ZeroIdx == 0 \in 0 .. NPROC /\ 0 \in Procs
BY NPROCAssumption DEF Procs

\* init has a slot.
LEMMA InitSlot == initproc \in Procs
BY NPROCAssumption DEF Procs, initproc

\* A CPU in the scheduler is on no process's stack.
LEMMA NoSlot == NoProc \notin Procs
BY NPROCAssumption DEF Procs, NoProc

\* p++ stays within proc[] unless p is the last slot.
LEMMA NextIdx ==
  \A i \in Procs : i + 1 \in 0 .. NPROC /\ (i # NPROC - 1 => i + 1 \in Procs)
BY NPROCAssumption DEF Procs

\* The loop test p < &proc[NPROC] keeps a scan within proc[].
LEMMA ScanIdx ==
  \A i \in 0 .. NPROC : i < NPROC => i + 1 \in 0 .. NPROC /\ i \in Procs
BY NPROCAssumption DEF Procs

-----------------------------------------------------------------------------
(* Sequences without repetition.                                           *)

\* The empty sequence.
LEMMA RangeEmpty == Range(<<>>) = {} /\ IsInjective(<<>>)
BY DEF Range, IsInjective

\* Appending a new element.
LEMMA RangeAppend ==
  ASSUME NEW S, NEW s \in Seq(S), NEW x \in S
  PROVE  /\ Range(Append(s, x)) = Range(s) \cup {x}
         /\ IsInjective(s) /\ x \notin Range(s) => IsInjective(Append(s, x))
BY DEF Range, IsInjective

\* Taking the first element off.
LEMMA RangeTail ==
  ASSUME NEW S, NEW s \in Seq(S), s # <<>>, IsInjective(s)
  PROVE  /\ Head(s) \in Range(s)
         /\ Range(Tail(s)) = Range(s) \ {Head(s)}
         /\ IsInjective(Tail(s))
<1>1. Head(s) = s[1] /\ 1 \in DOMAIN s BY DEF Range
<1>2. /\ DOMAIN s = 1 .. Len(s)
      /\ DOMAIN Tail(s) = 1 .. (Len(s) - 1)
      /\ \A i \in 1 .. (Len(s) - 1) : Tail(s)[i] = s[i + 1]
  BY SMTT(60)
<1>3. Head(s) \in Range(s) BY Zenon, <1>1 DEF Range
<1>4. IsInjective(Tail(s)) BY <1>2 DEF IsInjective
<1>5. ASSUME NEW y \in Range(Tail(s)) PROVE y \in Range(s) \ {Head(s)}
  <2>1. PICK i \in 1 .. (Len(s) - 1) : y = s[i + 1] BY Zenon, <1>2 DEF Range
  <2>2. i + 1 \in DOMAIN s /\ i + 1 # 1 BY <1>2
  <2> QED BY Zenon, <2>1, <2>2, <1>1 DEF Range, IsInjective
<1>6. ASSUME NEW y \in Range(s), y # Head(s) PROVE y \in Range(Tail(s))
  <2>1. PICK i \in 1 .. Len(s) : y = s[i] BY Zenon, <1>2 DEF Range
  <2>2. i - 1 \in 1 .. (Len(s) - 1) BY <2>1, <1>6, <1>1, <1>2
  <2>3. Tail(s)[i - 1] = y BY <2>1, <2>2, <1>2
  <2> QED BY Zenon, <2>2, <2>3, <1>2 DEF Range
<1> QED BY Zenon, <1>3, <1>4, <1>5, <1>6

-----------------------------------------------------------------------------
(* Consequences of ProcInv, and what preserves its parts.                  *)

\* freeproc keeps the types of the table.
LEMMA TypeFree == ASSUME TypeOK, NEW q \in Procs, freeproc(q) PROVE TableOK'
BY DEF TypeOK, TableOK, freeproc, States

\* Returning from a system call keeps the types of the threads.
LEMMA TypeReturn == ASSUME TypeOK, NEW p \in Procs, Return(p) PROVE ThreadOK'
BY ZeroIdx DEF TypeOK, ThreadOK, Return, ResetLocals, Goto, Labels

\* The types most steps need.
LEMMA InvTypes == ASSUME ProcInv PROVE FnOK /\ IdxOK
BY Zenon DEF ProcInv, TypeOK, TableOK, CpuOK, ThreadOK, FnOK, IdxOK

\* Where a thread uses idx as a slot, it is one.
LEMMA IdxFact ==
  ASSUME ProcInv, NEW p \in Procs, pc[p] \in IdxLabels PROVE idx[p] \in Procs
BY Zenon DEF ProcInv, IdxInRange

\* kids[] and to_free[] hold slots.
LEMMA KidsRange ==
  ASSUME ProcInv PROVE \A r \in Procs : Range(kids[r]) \subseteq Procs
BY InvTypes DEF IdxOK, Range

\* np is a USED slot while fork or forkn works on it.
LEMMA MakingIdx ==
  ASSUME ProcInv, NEW p \in Procs,
         pc[p] \in {"forkcopy", "forkparent", "forkrun", "forkncopy"}
  PROVE  idx[p] \in Procs /\ state[idx[p]] = "USED"
<1>1. idx[p] \in Procs BY Zenon, IdxFact DEF IdxLabels
<1>2. idx[p] \in Making(p) BY Zenon DEF Making
<1> QED BY Zenon, <1>1, <1>2 DEF ProcInv, UsedIsOwned

\* The first entry of kids[] or to_free[] is what its loop expects.
LEMMA KidsHead ==
  ASSUME ProcInv, NEW p \in Procs, kids[p] # <<>> PROVE HeadOK(p)
<1>1. kids[p] \in Seq(Procs) BY Zenon, InvTypes DEF IdxOK
<1>2. IsInjective(kids[p]) BY Zenon DEF ProcInv, KidsDistinct
<1>3. Head(kids[p]) \in Procs /\ Tail(kids[p]) \in Seq(Procs) BY <1>1
<1>4. /\ Head(kids[p]) \in Range(kids[p])
      /\ Range(Tail(kids[p])) = Range(kids[p]) \ {Head(kids[p])}
      /\ IsInjective(Tail(kids[p]))
  BY Zenon, <1>1, <1>2, RangeTail
<1>5. ASSUME pc[p] \in {"rollback", "pubkid"}
      PROVE  state[Head(kids[p])] = "USED"
  <2>1. Head(kids[p]) \in Making(p) BY Zenon, <1>5, <1>4 DEF Making
  <2> QED BY Zenon, <2>1, <1>3 DEF ProcInv, UsedIsOwned
<1>6. pc[p] = "waitallfree" => state[Head(kids[p])] = "ZOMBIE"
  BY Zenon, <1>4 DEF ProcInv, ToFreeZombie
<1> QED BY Zenon, <1>3, <1>4, <1>5, <1>6 DEF HeadOK

\* wait_lock excludes: two threads are never both inside its sections.
LEMMA WaitExclusive ==
  ASSUME ProcInv, NEW c \in CPU, NEW p \in Procs, cpu[c] = p,
         state[p] = "RUNNING", lock[p] # c, pc[p] \in WaitLabels,
         NEW r \in Procs, pc[r] \in WaitLabels
  PROVE  r = p
<1>1. lock[WaitLock] = c BY Zenon DEF ProcInv, WaitLockHeld, LockedLabels
<1>2. state[r] = "RUNNING"
  BY Zenon, InvTypes DEF FnOK, States, ProcInv, PcOfState, WaitLabels
<1>3. PICK d \in CPU : cpu[d] = r BY Zenon, <1>2 DEF ProcInv, RunningOnCpu
<1>4. lock[r] # d BY Zenon, <1>2, <1>3 DEF ProcInv, PcOfState
<1>5. lock[WaitLock] = d
  BY Zenon, <1>2, <1>3, <1>4 DEF ProcInv, WaitLockHeld, LockedLabels
<1> QED BY Zenon, <1>1, <1>3, <1>5

\* UsedIsOwned survives a step that changes no ownership,
LEMMA OwnedSame ==
  ASSUME UsedIsOwned, \A r \in Procs : Making(r)' = Making(r),
         \A q \in Procs : state'[q] = "USED" <=> state[q] = "USED"
  PROVE  UsedIsOwned'
BY DEF UsedIsOwned

\* a step in which p starts to build a slot nobody was building,
LEMMA OwnedAdd ==
  ASSUME UsedIsOwned, NEW p \in Procs, NEW x \in Procs,
         \A r \in Procs : x \notin Making(r),
         Making(p)' = Making(p) \cup {x},
         \A r \in Procs \ {p} : Making(r)' = Making(r),
         \A q \in Procs : state'[q] = "USED" <=> state[q] = "USED" \/ q = x
  PROVE  UsedIsOwned'
BY DEF UsedIsOwned

\* and a step in which p is done with a slot it was building.
LEMMA OwnedRemove ==
  ASSUME UsedIsOwned, NEW p \in Procs, NEW x \in Procs, x \in Making(p),
         Making(p)' = Making(p) \ {x},
         \A r \in Procs \ {p} : Making(r)' = Making(r),
         \A q \in Procs : state'[q] = "USED" <=> state[q] = "USED" /\ q # x
  PROVE  UsedIsOwned'
BY DEF UsedIsOwned

\* Each part of ProcInv survives a step that leaves its variables alone:
\* KernelStackExclusive,
LEMMA StackSame ==
  KernelStackExclusive /\ UNCHANGED <<cpu, state, lock>> => KernelStackExclusive'
BY DEF KernelStackExclusive

\* the points threads are at,
LEMMA PcSame == PcOfState /\ UNCHANGED <<cpu, state, lock, pc>> => PcOfState'
BY Zenon DEF PcOfState

\* the CPUs they are on,
LEMMA RunSame == RunningOnCpu /\ UNCHANGED <<cpu, state>> => RunningOnCpu'
BY Zenon DEF RunningOnCpu

\* the holder of wait_lock,
LEMMA WaitSame == WaitLockHeld /\ UNCHANGED <<cpu, state, lock, pc>> => WaitLockHeld'
BY Zenon DEF WaitLockHeld

\* scan positions,
LEMMA IdxSame == IdxInRange /\ UNCHANGED <<pc, idx>> => IdxInRange'
BY Zenon DEF IdxInRange

\* the slots being built,
LEMMA MakingSame == UsedIsOwned /\ UNCHANGED <<state, pc, idx, kids>> => UsedIsOwned'
BY DEF UsedIsOwned, Making

\* the entries of kids[],
LEMMA KidsSame == KidsDistinct /\ UNCHANGED <<pc, idx, kids>> => KidsDistinct'
BY Zenon DEF KidsDistinct

\* and those of to_free[].
LEMMA FreeSame == ToFreeZombie /\ UNCHANGED <<state, pc, idx, kids>> => ToFreeZombie'
BY Zenon DEF ToFreeZombie

\* to_free[] keeps its ZOMBIEs in a step that ends no ZOMBIE and is not waitall's.
LEMMA FreeStep ==
  ASSUME ProcInv, NEW p \in Procs, pc'[p] \notin {"waitallscan", "waitallfree"},
         \A r \in Procs \ {p} : kids'[r] = kids[r] /\ idx'[r] = idx[r] /\ pc'[r] = pc[r],
         \A q \in Procs : state[q] = "ZOMBIE" => state'[q] = "ZOMBIE"
  PROVE  ToFreeZombie'
<1>1. ASSUME NEW r \in Procs \ {p}, NEW q \in Range(kids'[r])
      PROVE  /\ pc'[r] \in {"waitallscan", "waitallfree"} => state'[q] = "ZOMBIE"
             /\ pc'[r] = "waitallscan" => q < idx'[r]
  <2>1. q \in Range(kids[r]) /\ q \in Procs BY Zenon, KidsRange
  <2> QED BY Zenon, <2>1 DEF ProcInv, ToFreeZombie
<1> QED BY Zenon, <1>1 DEF ToFreeZombie

\* A Local step keeps stacks exclusive, points and states in agreement, and
\* wait_lock held throughout its sections.
LEMMA LocalStep ==
  ASSUME ProcInv, NEW c \in CPU, NEW p \in Procs, Local(c, p)
  PROVE  KernelStackExclusive' /\ PcOfState' /\ RunningOnCpu' /\ WaitLockHeld'
<1>1. \A d \in CPU : cpu[d] = p => d = c
  BY Zenon, NoSlot DEF Local, ProcInv, KernelStackExclusive
<1>2. KernelStackExclusive'
  <2> SUFFICES ASSUME NEW d \in CPU, cpu[d] # NoProc
               PROVE  /\ \A b \in CPU : cpu[b] = cpu[d] => b = d
                      /\ state'[cpu[d]] \in {"RUNNING", "RUNNABLE", "SLEEPING", "ZOMBIE"}
                      /\ state'[cpu[d]] # "RUNNING" => lock'[cpu[d]] = d
    BY DEF KernelStackExclusive, Local
  <2>1. cpu[d] \in Procs BY Zenon DEF ProcInv, TypeOK, CpuOK
  <2>2. /\ \A b \in CPU : cpu[b] = cpu[d] => b = d
        /\ state[cpu[d]] \in {"RUNNING", "RUNNABLE", "SLEEPING", "ZOMBIE"}
        /\ state[cpu[d]] # "RUNNING" => lock[cpu[d]] = d
    BY Zenon DEF ProcInv, KernelStackExclusive
  <2>3. CASE cpu[d] = p BY Zenon, <2>2, <2>3 DEF Local
  <2>4. CASE cpu[d] # p
    <3>1. state'[cpu[d]] = state[cpu[d]] /\ lock'[cpu[d]] = lock[cpu[d]]
      BY Zenon, <2>1, <2>2, <2>4, CpuAssumption DEF Local
    <3> QED BY Zenon, <2>2, <3>1
  <2> QED BY Zenon, <2>3, <2>4
<1>3. PcOfState'
  <2> SUFFICES ASSUME NEW r \in Procs
               PROVE  /\ state'[r] = "UNUSED" => pc'[r] \in {"forkret", "zombie"}
                      /\ state'[r] = "USED" => pc'[r] = "forkret"
                      /\ state'[r] = "ZOMBIE" => pc'[r] = "zombie"
                      /\ state'[r] = "SLEEPING" => pc'[r] \in {"waitsleep", "waitallsleep"}
                      /\ state'[r] = "RUNNABLE" => pc'[r] \notin WaitLabels \cup {"zombie"}
                      /\ \A d \in CPU : cpu[d] = r /\ lock'[r] = d /\ state'[r] = "RUNNING"
                                          => pc'[r] \notin WaitLabels \cup {"zombie"}
    BY Zenon DEF PcOfState, Local
  <2>1. CASE r = p BY Zenon, <1>1, <2>1 DEF Local
  <2>2. CASE r # p BY <2>2 DEF Local, ProcInv, PcOfState, WaitLabels
  <2> QED BY Zenon, <2>1, <2>2
<1>4. RunningOnCpu'
  <2>1. \A r \in Procs : state'[r] = "RUNNING" => state[r] = "RUNNING" BY Zenon DEF Local
  <2> QED BY Zenon, <2>1 DEF Local, ProcInv, RunningOnCpu
<1>5. WaitLockHeld'
  <2> SUFFICES ASSUME NEW d \in CPU, NEW r \in Procs, cpu[d] = r, state'[r] = "RUNNING",
                      lock'[r] # d, pc'[r] \in LockedLabels
               PROVE  lock'[WaitLock] = d
    BY Zenon DEF WaitLockHeld, Local
  <2>1. CASE r = p
    <3>1. d = c BY Zenon, <1>1, <2>1
    <3>2. pc[p] \in LockedLabels => lock[WaitLock] = c
      BY Zenon DEF Local, ProcInv, WaitLockHeld
    <3> QED BY Zenon, <2>1, <3>1, <3>2 DEF Local
  <2>2. CASE r # p
    <3>1. state[r] = "RUNNING" /\ lock'[r] = lock[r] /\ pc[r] \in LockedLabels
      BY Zenon, <2>2 DEF Local
    <3>2. lock[WaitLock] = d BY Zenon, <3>1 DEF ProcInv, WaitLockHeld
    <3>3. pc[p] \in LockedLabels => lock[WaitLock] = c
      BY DEF Local, ProcInv, WaitLockHeld
    <3>4. d # c BY Zenon, <2>2 DEF Local
    <3> QED BY Zenon, <3>2, <3>3, <3>4, CpuAssumption DEF Local
  <2> QED BY Zenon, <2>1, <2>2
<1> QED BY Zenon, <1>2, <1>3, <1>4, <1>5

-----------------------------------------------------------------------------
(* One lemma per action.                                                   *)

\* scheduler: nobody else is on p's stack, because p is RUNNABLE and its
\* lock is free.
LEMMA SwitchInInv ==
  ASSUME ProcInv, NEW c \in CPU, NEW p \in Procs, SwitchIn(c, p)
  PROVE  ProcInv'
<1>1. FnOK /\ IdxOK BY Zenon, InvTypes
<1>c. cpu \in [CPU -> Procs \cup {NoProc}] BY Zenon DEF ProcInv, TypeOK, CpuOK
<1>e. /\ cpu[c] = NoProc /\ cpu'[c] = p /\ \A d \in CPU \ {c} : cpu'[d] = cpu[d]
      /\ state[p] = "RUNNABLE" /\ state'[p] = "RUNNING"
      /\ \A r \in Procs \ {p} : state'[r] = state[r]
      /\ lock[p] = NoCpu /\ lock'[p] = c
      /\ \A l \in Locks \ {p} : lock'[l] = lock[l]
      /\ pc' = pc
  BY Zenon, <1>1, <1>c, SlotIsLock DEF FnOK, SwitchIn, On, Acquire, Free
<1>r. \A r \in Procs : Range(kids[r]) \subseteq Procs BY Zenon, KidsRange
<1>t. TableOK' BY Zenon DEF ProcInv, TypeOK, TableOK, SwitchIn, table, States
<1>l. CpuOK' BY Zenon, SlotIsLock DEF ProcInv, TypeOK, CpuOK, SwitchIn, Acquire, table
<1>h. ThreadOK' BY Zenon DEF ProcInv, TypeOK, ThreadOK, SwitchIn, locals
<1>k. KernelStackExclusive'
  <2>1. \A d \in CPU : cpu[d] # p
    BY ZenonT(60), <1>e, NoSlot, CpuAssumption DEF ProcInv, KernelStackExclusive
  <2> QED
    BY <1>e, <1>c, <2>1, SlotIsLock, NoSlot DEF ProcInv, KernelStackExclusive
<1>s. PcOfState'
  BY <1>e, <1>k, NoSlot, CpuAssumption, SlotIsLock DEF ProcInv, PcOfState, WaitLabels,
     KernelStackExclusive
<1>o. RunningOnCpu'
  BY <1>e, <1>k, <1>c, NoSlot, SlotIsLock DEF ProcInv, RunningOnCpu,
     KernelStackExclusive
<1>w. WaitLockHeld'
  BY <1>e, <1>k, NoSlot, CpuAssumption, SlotIsLock DEF ProcInv, WaitLockHeld,
     WaitLabels, LockedLabels, KernelStackExclusive, PcOfState
<1>u. UsedIsOwned'
  <2>1. \A r \in Procs : Making(r)' = Making(r) BY Zenon DEF Making, SwitchIn, locals
  <2>2. \A q \in Procs : state'[q] = "USED" <=> state[q] = "USED"
    BY Zenon, <1>1 DEF FnOK, SwitchIn, On
  <2> QED BY Zenon, <2>1, <2>2, OwnedSame DEF ProcInv
<1>z. ToFreeZombie'
  BY Zenon, <1>1, <1>r, RangeEmpty DEF ProcInv, FnOK, ToFreeZombie, IdxOK, SwitchIn, On, locals
<1>x. IdxInRange' /\ KidsDistinct' BY Zenon, IdxSame, KidsSame DEF ProcInv, SwitchIn, locals
<1> QED
  BY Zenon, <1>t, <1>l, <1>h, <1>k, <1>s, <1>o, <1>w, <1>u, <1>z, <1>x DEF ProcInv, TypeOK

\* The end of forkret, yield and sleep releases p->lock with p RUNNING.
LEMMA ResumeInv ==
  ASSUME ProcInv, NEW c \in CPU, NEW p \in Procs, Resume(c, p)
  PROVE  ProcInv'
<1>1. FnOK /\ IdxOK BY InvTypes
<1>c. cpu \in [CPU -> Procs \cup {NoProc}] BY DEF ProcInv, TypeOK, CpuOK
<1>r. \A r \in Procs : Range(kids[r]) \subseteq Procs BY KidsRange
<1>t. TableOK' BY Zenon DEF ProcInv, TypeOK, TableOK, Resume
<1>l. CpuOK' BY Zenon, SlotIsLock DEF ProcInv, TypeOK, CpuOK, Resume, Release, cpus
<1>h. ThreadOK' BY Zenon DEF ProcInv, TypeOK, ThreadOK, Resume, locals, Labels
<1>k. KernelStackExclusive'
  BY <1>1, <1>c, SlotIsLock, NoSlot, CpuAssumption DEF ProcInv, FnOK,
     KernelStackExclusive, Resume, On, Release, cpus
<1>s. PcOfState'
  BY <1>1, SlotIsLock, NoSlot, CpuAssumption DEF ProcInv, FnOK, PcOfState, WaitLabels,
     KernelStackExclusive, Resume, On, Release, cpus
<1>w. WaitLockHeld'
  BY <1>1, SlotIsLock, NoSlot, CpuAssumption DEF ProcInv, FnOK, WaitLockHeld,
     WaitLabels, LockedLabels, KernelStackExclusive, PcOfState, Resume, On, Release,
     cpus
<1>i. IdxInRange'
  BY <1>1 DEF ProcInv, FnOK, IdxInRange, IdxLabels, IdxOK, Resume, On, locals
<1>u. UsedIsOwned'
  <2>1. \A r \in Procs : Making(r)' = Making(r)
    BY Zenon, <1>1, RangeEmpty DEF ProcInv, FnOK, IdxOK, Making, KidsDistinct, Resume, On,
       locals
  <2>2. state' = state BY Zenon DEF Resume
  <2> QED BY Zenon, <2>1, <2>2, OwnedSame DEF ProcInv
<1>d. KidsDistinct'
  BY Zenon, <1>1, RangeEmpty DEF ProcInv, FnOK, KidsDistinct, IdxOK, Resume, On, locals
<1>z. ToFreeZombie'
  BY Zenon, <1>1, <1>r, RangeEmpty DEF ProcInv, FnOK, ToFreeZombie, IdxOK, Resume, On, locals
<1>x. RunningOnCpu' BY Zenon, RunSame DEF ProcInv, Resume, cpus
<1> QED
  BY Zenon, <1>t, <1>l, <1>h, <1>k, <1>s, <1>w, <1>i, <1>u, <1>d, <1>z, <1>x DEF ProcInv,
     TypeOK

\* sched: c leaves p's stack and releases p->lock in one step.
LEMMA SwitchOutInv ==
  ASSUME ProcInv, NEW c \in CPU, NEW p \in Procs, SwitchOut(c, p)
  PROVE  ProcInv'
<1>1. FnOK /\ IdxOK BY InvTypes
<1>c. cpu \in [CPU -> Procs \cup {NoProc}] BY DEF ProcInv, TypeOK, CpuOK
<1>t. TableOK' BY Zenon DEF ProcInv, TypeOK, TableOK, SwitchOut, table
<1>l. CpuOK' BY Zenon, SlotIsLock DEF ProcInv, TypeOK, CpuOK, SwitchOut, Release, table
<1>h. ThreadOK' BY Zenon DEF ProcInv, TypeOK, ThreadOK, SwitchOut, locals
<1>k. KernelStackExclusive'
  BY ZenonT(60), <1>1, <1>c, SlotIsLock, NoSlot, CpuAssumption DEF ProcInv, FnOK,
     KernelStackExclusive, SwitchOut, On, Release
<1>s. PcOfState'
  BY <1>1, SlotIsLock, NoSlot, CpuAssumption DEF ProcInv, FnOK, PcOfState, WaitLabels,
     KernelStackExclusive, WaitLockHeld, LockedLabels, SwitchOut, On, Release
<1>o. RunningOnCpu'
  BY Zenon, <1>1, <1>c, NoSlot DEF ProcInv, FnOK, RunningOnCpu, KernelStackExclusive,
     SwitchOut, On
<1>w. WaitLockHeld'
  BY <1>1, SlotIsLock, NoSlot, CpuAssumption DEF ProcInv, FnOK, WaitLockHeld,
     WaitLabels, LockedLabels, KernelStackExclusive, PcOfState, SwitchOut, On, Release
<1>x. IdxInRange' /\ UsedIsOwned' /\ KidsDistinct' /\ ToFreeZombie'
  <2>1. UNCHANGED <<pc, idx, kids>> BY Zenon DEF SwitchOut, locals
  <2>2. UNCHANGED state BY Zenon DEF SwitchOut
  <2> QED BY Zenon, <2>1, <2>2, IdxSame, MakingSame, KidsSame, FreeSame DEF ProcInv
<1> QED BY Zenon, <1>t, <1>l, <1>h, <1>k, <1>s, <1>o, <1>w, <1>x DEF ProcInv, TypeOK


-----------------------------------------------------------------------------
(* allocproc, fork and forkn.                                              *)

\* allocproc passes over a slot in use.
LEMMA AllocSkipInv ==
  ASSUME ProcInv, NEW c \in CPU, NEW p \in Procs, AllocSkip(c, p)
  PROVE  ProcInv'
<1>1. FnOK /\ IdxOK BY InvTypes
<1>2. idx[p] \in Procs BY Zenon, IdxFact DEF AllocSkip, At, IdxLabels
<1>e. Local(c, p)
  BY Zenon, <1>1, <1>2 DEF FnOK, Local, LockedLabels, WaitLabels, AllocSkip, On, At, Goto,
     Return, AllocFailed, cpus, Free
<1>r. \A r \in Procs : Range(kids[r]) \subseteq Procs BY KidsRange
<1>t. TableOK' BY Zenon, <1>2 DEF ProcInv, TypeOK, TableOK, AllocSkip, table
<1>l. CpuOK' BY Zenon, <1>2 DEF ProcInv, TypeOK, CpuOK, AllocSkip, table, cpus
<1>h. ThreadOK'
  BY Zenon, <1>2, TypeReturn, NextIdx, ScanIdx, ZeroIdx DEF ProcInv, TypeOK, ThreadOK,
     AllocSkip, Goto, AllocFailed, locals, Labels
<1>k. KernelStackExclusive' /\ PcOfState' /\ RunningOnCpu' /\ WaitLockHeld'
  BY Zenon, <1>e, LocalStep
<1>i. IdxInRange'
  BY ZenonT(60), <1>1, <1>2, ZeroIdx, NextIdx DEF ProcInv, FnOK, IdxInRange, IdxLabels, IdxOK,
     AllocSkip, On, At, Goto, Return, ResetLocals, AllocFailed, locals
<1>u. UsedIsOwned'
  <2>1. \A r \in Procs : Making(r)' = Making(r)
    BY <1>1, <1>2, RangeEmpty DEF ProcInv, FnOK, IdxOK, Making, KidsDistinct, AllocSkip,
       On, At, Goto, Return, ResetLocals, AllocFailed, locals
  <2>2. state' = state BY Zenon DEF AllocSkip
  <2> QED BY <2>1, <2>2, OwnedSame DEF ProcInv
<1>d. KidsDistinct'
  BY ZenonT(60), <1>1, <1>2, RangeEmpty DEF ProcInv, FnOK, KidsDistinct, IdxOK, AllocSkip, On, At,
     Goto, Return, ResetLocals, AllocFailed, locals
<1>z. ToFreeZombie'
  BY ZenonT(60), <1>1, <1>2, <1>r, RangeEmpty DEF ProcInv, FnOK, ToFreeZombie, IdxOK, AllocSkip, On,
     At, Goto, Return, ResetLocals, AllocFailed, locals
<1> QED BY Zenon, <1>t, <1>l, <1>h, <1>k, <1>i, <1>u, <1>d, <1>z DEF ProcInv, TypeOK

\* allocproc: the slot found was UNUSED, so nobody was building it; now p
\* is.
LEMMA AllocFoundInv ==
  ASSUME ProcInv, NEW c \in CPU, NEW p \in Procs, AllocFound(c, p)
  PROVE  ProcInv'
<1>1. FnOK /\ IdxOK BY InvTypes
<1>2. idx[p] \in Procs BY Zenon, IdxFact DEF AllocFound, At, IdxLabels
<1>c. cpu \in [CPU -> Procs \cup {NoProc}] BY DEF ProcInv, TypeOK, CpuOK
<1>r. \A r \in Procs : Range(kids[r]) \subseteq Procs BY KidsRange
<1>t. TableOK' BY Zenon, <1>2 DEF ProcInv, TypeOK, TableOK, AllocFound, States, CpuOK
<1>l. CpuOK' BY <1>2, SlotIsLock DEF ProcInv, TypeOK, CpuOK, AllocFound, Acquire, cpus
<1>h. ThreadOK' BY Zenon, <1>2 DEF ProcInv, TypeOK, ThreadOK, AllocFound, locals, Labels
<1>k. KernelStackExclusive'
  BY ZenonT(60), <1>1, <1>2, <1>c, SlotIsLock, NoSlot, CpuAssumption DEF ProcInv, FnOK,
     KernelStackExclusive, AllocFound, On, At, Acquire, cpus
<1>s. PcOfState'
  BY <1>1, <1>2, SlotIsLock, NoSlot, CpuAssumption DEF ProcInv, FnOK, PcOfState,
     WaitLabels, KernelStackExclusive, AllocFound, On, At, Acquire, cpus
<1>o. RunningOnCpu'
  BY <1>1, <1>2, <1>c, NoSlot DEF ProcInv, FnOK, RunningOnCpu, KernelStackExclusive,
     AllocFound, On, At, cpus
<1>w. WaitLockHeld'
  BY <1>1, <1>2, SlotIsLock, NoSlot, CpuAssumption DEF ProcInv, FnOK, WaitLockHeld,
     WaitLabels, LockedLabels, KernelStackExclusive, AllocFound, On, At, Acquire, cpus
<1>i. IdxInRange'
  BY Zenon, <1>1, <1>2, NextIdx DEF ProcInv, FnOK, IdxInRange, IdxLabels, IdxOK, PcOfState,
     AllocFound, On, At, locals
<1>u. UsedIsOwned'
  <2>1. idx[p] # p BY Zenon, <1>2 DEF AllocFound, At
  <2>2. \A r \in Procs : idx[p] \notin Making(r)
    BY Zenon, <1>2 DEF AllocFound, ProcInv, UsedIsOwned
  <2>3. pc[idx[p]] \in {"forkret", "zombie"}
    BY Zenon, <1>2 DEF AllocFound, ProcInv, PcOfState
  <2>4. Making(p)' = Making(p) \cup {idx[p]}
    BY Zenon, <1>1, <2>1 DEF FnOK, AllocFound, At, Making, locals
  <2>5. \A r \in Procs \ {p} : Making(r)' = Making(r)
    BY Zenon, <1>1, <1>2, <2>3 DEF FnOK, AllocFound, Making, locals
  <2>6. \A q \in Procs : state'[q] = "USED" <=> state[q] = "USED" \/ q = idx[p]
    BY Zenon, <1>1, <1>2 DEF FnOK, AllocFound
  <2> QED BY Zenon, <1>2, <2>2, <2>4, <2>5, <2>6, OwnedAdd DEF ProcInv
<1>d. KidsDistinct'
  <2>1. idx[p] # p BY <1>2 DEF AllocFound, At
  <2>2. pc[idx[p]] \in {"forkret", "zombie"}
    BY <1>2 DEF AllocFound, ProcInv, PcOfState
  <2>3. idx[p] \notin Making(p)
    BY Zenon, <1>2 DEF AllocFound, ProcInv, UsedIsOwned
  <2>4. pc[p] = "forkn" => idx[p] \notin Range(kids[p])
    BY Zenon, <2>3 DEF Making
  <2> QED
    BY Zenon, <1>1, <1>2, <2>1, <2>2, <2>4
       DEF FnOK, ProcInv, KidsDistinct, AllocFound, At, locals
<1>z. ToFreeZombie'
  BY Zenon, <1>1, <1>2, <1>r, RangeEmpty DEF ProcInv, FnOK, ToFreeZombie, IdxOK, AllocFound,
     On, At, locals
<1> QED
  BY Zenon, <1>t, <1>l, <1>h, <1>k, <1>s, <1>o, <1>w, <1>i, <1>u, <1>d, <1>z DEF ProcInv,
     TypeOK

\* allocproc out of memory: the slot is UNUSED again when its lock is
\* released.
LEMMA AllocNoMemInv ==
  ASSUME ProcInv, NEW c \in CPU, NEW p \in Procs, AllocNoMem(c, p)
  PROVE  ProcInv'
<1>1. FnOK /\ IdxOK BY InvTypes
<1>2. idx[p] \in Procs BY Zenon, IdxFact DEF AllocNoMem, At, IdxLabels
<1>e. Local(c, p)
  BY Zenon, <1>1, <1>2 DEF FnOK, Local, LockedLabels, WaitLabels, AllocNoMem, On, At, Goto,
     Return, freeproc, AllocFailed, cpus, Free
<1>r. \A r \in Procs : Range(kids[r]) \subseteq Procs BY KidsRange
<1>t. TableOK' BY Zenon, <1>2, TypeFree DEF ProcInv, TypeOK, TableOK, AllocNoMem, States
<1>l. CpuOK' BY <1>2 DEF ProcInv, TypeOK, CpuOK, AllocNoMem, cpus
<1>h. ThreadOK'
  BY Zenon, <1>2, TypeReturn, NextIdx, ScanIdx, ZeroIdx DEF ProcInv, TypeOK, ThreadOK,
     AllocNoMem, Goto, AllocFailed, locals, Labels
<1>k. KernelStackExclusive' /\ PcOfState' /\ RunningOnCpu' /\ WaitLockHeld'
  BY <1>e, LocalStep
<1>i. IdxInRange'
  BY ZenonT(60), <1>1, <1>2, ZeroIdx, NextIdx DEF ProcInv, FnOK, IdxInRange, IdxLabels, IdxOK,
     AllocNoMem, On, At, Goto, Return, ResetLocals, AllocFailed, locals
<1>u. UsedIsOwned'
  <2>1. \A r \in Procs : Making(r)' = Making(r)
    BY ZenonT(60), <1>1, <1>2, RangeEmpty DEF ProcInv, FnOK, IdxOK, Making, KidsDistinct,
       AllocNoMem, On, At, Goto, Return, ResetLocals, AllocFailed, locals
  <2>2. \A q \in Procs : state'[q] = "USED" <=> state[q] = "USED"
    BY Zenon, <1>1, <1>2 DEF FnOK, AllocNoMem, On, At, freeproc
  <2> QED BY <2>1, <2>2, OwnedSame DEF ProcInv
<1>d. KidsDistinct'
  BY Zenon, <1>1, <1>2, RangeEmpty DEF ProcInv, FnOK, KidsDistinct, IdxOK, AllocNoMem, On, At,
     Goto, Return, ResetLocals, AllocFailed, locals
<1>z. ToFreeZombie'
  BY Zenon, Zenon, <1>1, <1>2, <1>r, RangeEmpty DEF ProcInv, FnOK, ToFreeZombie, IdxOK, AllocNoMem,
     On, At, Goto, Return, ResetLocals, freeproc, AllocFailed, locals
<1> QED BY <1>t, <1>l, <1>h, <1>k, <1>i, <1>u, <1>d, <1>z DEF ProcInv, TypeOK

\* fork releases np->lock; np stays USED and p still owns it.
LEMMA ForkCopyInv ==
  ASSUME ProcInv, NEW c \in CPU, NEW p \in Procs, ForkCopy(c, p)
  PROVE  ProcInv'
<1>1. FnOK /\ IdxOK BY InvTypes
<1>2. idx[p] \in Procs /\ state[idx[p]] = "USED" BY Zenon, MakingIdx DEF ForkCopy, At
<1>e. Local(c, p)
  BY Zenon, <1>1, <1>2, SlotIsLock, CpuAssumption DEF FnOK, Local, LockedLabels, WaitLabels,
     ForkCopy, On, At, Goto, Release, cpus
<1>r. \A r \in Procs : Range(kids[r]) \subseteq Procs BY KidsRange
<1>t. TableOK' BY Zenon, <1>2 DEF ProcInv, TypeOK, TableOK, ForkCopy, table
<1>l. CpuOK'
  BY Zenon, <1>2, SlotIsLock DEF ProcInv, TypeOK, CpuOK, ForkCopy, Release, table, cpus
<1>h. ThreadOK' BY Zenon, <1>2 DEF ProcInv, TypeOK, ThreadOK, ForkCopy, Goto, locals, Labels
<1>k. KernelStackExclusive' /\ PcOfState' /\ RunningOnCpu' /\ WaitLockHeld'
  BY <1>e, LocalStep
<1>i. IdxInRange'
  BY Zenon, <1>1, <1>2 DEF ProcInv, FnOK, IdxInRange, IdxLabels, IdxOK, ForkCopy, On, At, Goto,
     locals
<1>u. UsedIsOwned'
  <2>1. \A r \in Procs : Making(r)' = Making(r)
    BY Zenon, <1>1, <1>2, RangeEmpty DEF ProcInv, FnOK, IdxOK, Making, KidsDistinct, ForkCopy,
       On, At, Goto, locals
  <2>2. state' = state BY Zenon DEF ForkCopy
  <2> QED BY <2>1, <2>2, OwnedSame DEF ProcInv
<1>d. KidsDistinct'
  BY Zenon, <1>1, <1>2, RangeEmpty DEF ProcInv, FnOK, KidsDistinct, IdxOK, ForkCopy, On, At,
     Goto, locals
<1>z. ToFreeZombie'
  BY Zenon, <1>1, <1>2, <1>r, RangeEmpty DEF ProcInv, FnOK, ToFreeZombie, IdxOK, ForkCopy, On,
     At, Goto, locals
<1> QED BY <1>t, <1>l, <1>h, <1>k, <1>i, <1>u, <1>d, <1>z DEF ProcInv, TypeOK

\* fork out of memory: the slot p was building is freed.
LEMMA ForkCopyFailInv ==
  ASSUME ProcInv, NEW c \in CPU, NEW p \in Procs, ForkCopyFail(c, p)
  PROVE  ProcInv'
<1>1. FnOK /\ IdxOK BY InvTypes
<1>2. idx[p] \in Procs /\ state[idx[p]] = "USED" BY Zenon, MakingIdx DEF ForkCopyFail, At
<1>e. Local(c, p)
  BY Zenon, <1>1, <1>2, SlotIsLock, CpuAssumption DEF FnOK, Local, LockedLabels, WaitLabels,
     ForkCopyFail, On, At, Goto, Return, freeproc, Release, cpus
<1>r. \A r \in Procs : Range(kids[r]) \subseteq Procs BY KidsRange
<1>t. TableOK' BY Zenon, <1>2, TypeFree DEF ProcInv, TypeOK, TableOK, ForkCopyFail, States
<1>l. CpuOK' BY Zenon, <1>2, SlotIsLock DEF ProcInv, TypeOK, CpuOK, ForkCopyFail, Release, cpus
<1>h. ThreadOK'
  BY Zenon, <1>2, TypeReturn, ZeroIdx DEF ProcInv, TypeOK, ThreadOK, ForkCopyFail, Goto, Labels
<1>k. KernelStackExclusive' /\ PcOfState' /\ RunningOnCpu' /\ WaitLockHeld'
  BY <1>e, LocalStep
<1>i. IdxInRange'
  BY Zenon, <1>1, <1>2, ZeroIdx DEF ProcInv, FnOK, IdxInRange, IdxLabels, IdxOK, ForkCopyFail,
     On, At, Goto, Return, ResetLocals
<1>u. UsedIsOwned'
  <2>1. idx[p] \in Making(p) /\ idx[p] \in Procs
    BY Zenon, <1>1, <1>2 DEF Making, At, ForkCopyFail
  <2>2. Making(p)' = Making(p) \ {idx[p]}
    BY Zenon, <1>1, <1>2, RangeEmpty DEF FnOK, IdxOK, ProcInv, KidsDistinct, Making,
       ForkCopyFail, On, At, Goto, Return, ResetLocals
  <2>3. \A r \in Procs \ {p} : Making(r)' = Making(r)
    BY Zenon, <1>1 DEF FnOK, IdxOK, Making, ForkCopyFail, Goto, Return, ResetLocals
  <2>4. \A q \in Procs : state'[q] = "USED" <=> state[q] = "USED" /\ q # idx[p]
    BY Zenon, <1>1, <1>2, <2>1 DEF FnOK, ForkCopyFail, freeproc
  <2> QED BY Zenon, <2>1, <2>2, <2>3, <2>4, OwnedRemove DEF ProcInv
<1>d. KidsDistinct'
  BY Zenon, <1>1, <1>2, RangeEmpty DEF ProcInv, FnOK, KidsDistinct, IdxOK, ForkCopyFail, On,
     At, Goto, Return, ResetLocals
<1>z. ToFreeZombie'
  BY Zenon, <1>1, <1>2, <1>r, RangeEmpty DEF ProcInv, FnOK, ToFreeZombie, IdxOK, ForkCopyFail,
     On, At, Goto, Return, ResetLocals, freeproc
<1> QED BY <1>t, <1>l, <1>h, <1>k, <1>i, <1>u, <1>d, <1>z DEF ProcInv, TypeOK

\* fork sets np->parent.
LEMMA ForkParentInv ==
  ASSUME ProcInv, NEW c \in CPU, NEW p \in Procs, ForkParent(c, p)
  PROVE  ProcInv'
<1>1. FnOK /\ IdxOK BY InvTypes
<1>2. idx[p] \in Procs /\ state[idx[p]] = "USED" BY Zenon, MakingIdx DEF ForkParent, At
<1>e. Local(c, p)
  BY Zenon, <1>1, <1>2 DEF FnOK, Local, LockedLabels, WaitLabels, ForkParent, On, At, Goto,
     cpus, Free
<1>r. \A r \in Procs : Range(kids[r]) \subseteq Procs BY KidsRange
<1>t. TableOK' BY Zenon, <1>2 DEF ProcInv, TypeOK, TableOK, ForkParent
<1>l. CpuOK' BY Zenon, <1>2 DEF ProcInv, TypeOK, CpuOK, ForkParent, cpus
<1>h. ThreadOK' BY Zenon, <1>2 DEF ProcInv, TypeOK, ThreadOK, ForkParent, Goto, locals, Labels
<1>k. KernelStackExclusive' /\ PcOfState' /\ RunningOnCpu' /\ WaitLockHeld'
  BY <1>e, LocalStep
<1>i. IdxInRange'
  BY Zenon, <1>1, <1>2 DEF ProcInv, FnOK, IdxInRange, IdxLabels, IdxOK, ForkParent, On, At,
     Goto, locals
<1>u. UsedIsOwned'
  <2>1. \A r \in Procs : Making(r)' = Making(r)
    BY Zenon, <1>1, <1>2, RangeEmpty DEF ProcInv, FnOK, IdxOK, Making, KidsDistinct,
       ForkParent, On, At, Goto, locals
  <2>2. state' = state BY Zenon DEF ForkParent
  <2> QED BY <2>1, <2>2, OwnedSame DEF ProcInv
<1>d. KidsDistinct'
  BY Zenon, <1>1, <1>2, RangeEmpty DEF ProcInv, FnOK, KidsDistinct, IdxOK, ForkParent, On, At,
     Goto, locals
<1>z. ToFreeZombie'
  BY Zenon, <1>1, <1>2, <1>r, RangeEmpty DEF ProcInv, FnOK, ToFreeZombie, IdxOK, ForkParent,
     On, At, Goto, locals
<1> QED BY <1>t, <1>l, <1>h, <1>k, <1>i, <1>u, <1>d, <1>z DEF ProcInv, TypeOK

\* fork's child becomes RUNNABLE, so p no longer builds it.
LEMMA ForkRunInv ==
  ASSUME ProcInv, NEW c \in CPU, NEW p \in Procs, ForkRun(c, p)
  PROVE  ProcInv'
<1>1. FnOK /\ IdxOK BY InvTypes
<1>2. idx[p] \in Procs /\ state[idx[p]] = "USED" BY Zenon, MakingIdx DEF ForkRun, At
<1>e. Local(c, p)
  BY Zenon, <1>1, <1>2 DEF FnOK, Local, LockedLabels, WaitLabels, ForkRun, On, At, Goto,
     Return, cpus, Free
<1>r. \A r \in Procs : Range(kids[r]) \subseteq Procs BY KidsRange
<1>t. TableOK' BY Zenon, <1>2 DEF ProcInv, TypeOK, TableOK, ForkRun, table, States
<1>l. CpuOK' BY Zenon, <1>2 DEF ProcInv, TypeOK, CpuOK, ForkRun, table, cpus
<1>h. ThreadOK'
  BY Zenon, <1>2, TypeReturn, ZeroIdx DEF ProcInv, TypeOK, ThreadOK, ForkRun, Goto, Labels
<1>k. KernelStackExclusive' /\ PcOfState' /\ RunningOnCpu' /\ WaitLockHeld'
  BY <1>e, LocalStep
<1>i. IdxInRange'
  BY Zenon, <1>1, <1>2, ZeroIdx DEF ProcInv, FnOK, IdxInRange, IdxLabels, IdxOK, ForkRun, On,
     At, Goto, Return, ResetLocals
<1>u. UsedIsOwned'
  <2>1. idx[p] \in Making(p) /\ idx[p] \in Procs BY Zenon, <1>1, <1>2 DEF Making, At, ForkRun
  <2>2. Making(p)' = Making(p) \ {idx[p]}
    BY Zenon, <1>1, <1>2, RangeEmpty DEF FnOK, IdxOK, ProcInv, KidsDistinct, Making, ForkRun,
       On, At, Goto, Return, ResetLocals
  <2>3. \A r \in Procs \ {p} : Making(r)' = Making(r)
    BY Zenon, <1>1 DEF FnOK, IdxOK, Making, ForkRun, Goto, Return, ResetLocals
  <2>4. \A q \in Procs : state'[q] = "USED" <=> state[q] = "USED" /\ q # idx[p]
    BY <1>1, <1>2, <2>1 DEF FnOK, ForkRun
  <2> QED BY <2>1, <2>2, <2>3, <2>4, OwnedRemove DEF ProcInv
<1>d. KidsDistinct'
  BY Zenon, <1>1, <1>2, RangeEmpty DEF ProcInv, FnOK, KidsDistinct, IdxOK, ForkRun, On, At,
     Goto, Return, ResetLocals
<1>z. ToFreeZombie'
  BY Zenon, <1>1, <1>2, <1>r, RangeEmpty DEF ProcInv, FnOK, ToFreeZombie, IdxOK, ForkRun, On,
     At, Goto, Return, ResetLocals
<1> QED BY <1>t, <1>l, <1>h, <1>k, <1>i, <1>u, <1>d, <1>z DEF ProcInv, TypeOK

\* forkn moves np from its local variable to kids[].
LEMMA ForknCopyInv ==
  ASSUME ProcInv, NEW c \in CPU, NEW p \in Procs, ForknCopy(c, p)
  PROVE  ProcInv'
<1>1. FnOK /\ IdxOK BY InvTypes
<1>2. idx[p] \in Procs /\ state[idx[p]] = "USED" BY Zenon, MakingIdx DEF ForknCopy, At
<1>e. Local(c, p)
  BY Zenon, <1>1, <1>2, SlotIsLock, CpuAssumption DEF FnOK, Local, LockedLabels, WaitLabels,
     ForknCopy, On, At, Goto, Release, cpus
<1>t. TableOK' BY Zenon, <1>2 DEF ProcInv, TypeOK, TableOK, ForknCopy, table
<1>l. CpuOK'
  BY Zenon, <1>2, SlotIsLock DEF ProcInv, TypeOK, CpuOK, ForknCopy, Release, table, cpus
<1>h. ThreadOK' BY <1>2, ZeroIdx DEF ProcInv, TypeOK, ThreadOK, ForknCopy, Goto, Labels
<1>k. KernelStackExclusive' /\ PcOfState' /\ RunningOnCpu' /\ WaitLockHeld'
  BY <1>e, LocalStep
<1>i. IdxInRange'
  BY Zenon, <1>1, <1>2, ZeroIdx DEF ProcInv, FnOK, IdxInRange, IdxLabels, IdxOK, ForknCopy, On,
     At, Goto
<1>u. UsedIsOwned'
  <2>1. ASSUME NEW r \in Procs PROVE Making(r)' = Making(r)
    <3>1. Range(Append(kids[p], idx[p])) = Range(kids[p]) \cup {idx[p]}
      BY <1>1, <1>2, RangeAppend DEF IdxOK
    <3> QED
      BY Zenon, <1>1, <3>1 DEF FnOK, IdxOK, Making, ForknCopy, At, Goto
  <2>2. state' = state BY Zenon DEF ForknCopy
  <2> QED BY Zenon, <2>1, <2>2, OwnedSame DEF ProcInv
<1>d. KidsDistinct'
  <2>1. IsInjective(Append(kids[p], idx[p]))
    BY Zenon, <1>1, <1>2, RangeAppend DEF IdxOK, ProcInv, KidsDistinct, ForknCopy, At
  <2> QED
    BY Zenon, <1>1, <2>1 DEF FnOK, IdxOK, ProcInv, KidsDistinct, ForknCopy, Goto
<1>z. ToFreeZombie' BY Zenon, <1>1 DEF FnOK, IdxOK, ProcInv, ToFreeZombie, ForknCopy, Goto
<1> QED BY <1>t, <1>l, <1>h, <1>k, <1>i, <1>u, <1>d, <1>z DEF ProcInv, TypeOK

\* forkn out of memory: np is freed, the lock it leaks is not a process's
\* that runs.
LEMMA ForknCopyFailInv ==
  ASSUME ProcInv, NEW c \in CPU, NEW p \in Procs, ForknCopyFail(c, p)
  PROVE  ProcInv'
<1>1. FnOK /\ IdxOK BY InvTypes
<1>2. idx[p] \in Procs /\ state[idx[p]] = "USED" BY Zenon, MakingIdx DEF ForknCopyFail, At
<1>e. Local(c, p)
  BY Zenon, <1>1, <1>2 DEF FnOK, Local, LockedLabels, WaitLabels, ForknCopyFail, On, At, Goto,
     freeproc, cpus
<1>r. \A r \in Procs : Range(kids[r]) \subseteq Procs BY KidsRange
<1>t. TableOK' BY Zenon, <1>2, TypeFree DEF ProcInv, TypeOK, TableOK, ForknCopyFail, States
<1>l. CpuOK' BY Zenon, <1>2 DEF ProcInv, TypeOK, CpuOK, ForknCopyFail, cpus
<1>h. ThreadOK'
  BY Zenon, <1>2 DEF ProcInv, TypeOK, ThreadOK, ForknCopyFail, Goto, locals, Labels
<1>k. KernelStackExclusive' /\ PcOfState' /\ RunningOnCpu' /\ WaitLockHeld'
  BY <1>e, LocalStep
<1>i. IdxInRange'
  BY Zenon, <1>1, <1>2 DEF ProcInv, FnOK, IdxInRange, IdxLabels, IdxOK, ForknCopyFail, On, At,
     Goto, locals
<1>u. UsedIsOwned'
  <2>1. idx[p] \in Making(p) /\ idx[p] \in Procs
    BY Zenon, <1>1, <1>2 DEF Making, At, ForknCopyFail
  <2>2. Making(p)' = Making(p) \ {idx[p]}
    BY Zenon, <1>1, <1>2, RangeEmpty DEF FnOK, IdxOK, ProcInv, KidsDistinct, Making,
       ForknCopyFail, On, At, Goto, locals
  <2>3. \A r \in Procs \ {p} : Making(r)' = Making(r)
    BY Zenon, <1>1 DEF FnOK, IdxOK, Making, ForknCopyFail, Goto, locals
  <2>4. \A q \in Procs : state'[q] = "USED" <=> state[q] = "USED" /\ q # idx[p]
    BY <1>1, <1>2, <2>1 DEF FnOK, ForknCopyFail, freeproc
  <2> QED BY <2>1, <2>2, <2>3, <2>4, OwnedRemove DEF ProcInv
<1>d. KidsDistinct'
  BY Zenon, <1>1, <1>2, RangeEmpty DEF ProcInv, FnOK, KidsDistinct, IdxOK, ForknCopyFail, On,
     At, Goto, locals
<1>z. ToFreeZombie'
  BY Zenon, <1>1, <1>2, <1>r, RangeEmpty DEF ProcInv, FnOK, ToFreeZombie, IdxOK, ForknCopyFail,
     On, At, Goto, freeproc, locals
<1> QED BY <1>t, <1>l, <1>h, <1>k, <1>i, <1>u, <1>d, <1>z DEF ProcInv, TypeOK

\* forkn's clean-up frees the head of kids[], a USED slot.
LEMMA ForknRollbackInv ==
  ASSUME ProcInv, NEW c \in CPU, NEW p \in Procs, ForknRollback(c, p)
  PROVE  ProcInv'
<1>1. FnOK /\ IdxOK BY InvTypes
<1>2. kids[p] # <<>> => HeadOK(p) BY Zenon, KidsHead
<1>3. kids[p] # <<>> => state[Head(kids[p])] = "USED"
  BY ZenonT(60), <1>2 DEF ForknRollback, At, HeadOK
<1>e. Local(c, p)
  BY Zenon, <1>1, <1>2, <1>3 DEF FnOK, Local, HeadOK, LockedLabels, WaitLabels, ForknRollback,
     On, At, Goto, Return, freeproc, cpus, Free
<1>t. TableOK'
  BY Zenon, <1>2, <1>3, TypeFree DEF ProcInv, TypeOK, TableOK, HeadOK, ForknRollback, States
<1>l. CpuOK' BY Zenon DEF ProcInv, TypeOK, CpuOK, ForknRollback, cpus
<1>h. ThreadOK'
  BY Zenon, Zenon, <1>2, <1>3, TypeReturn, ZeroIdx DEF ProcInv, TypeOK, ThreadOK, HeadOK,
     ForknRollback, Goto, Labels
<1>k. KernelStackExclusive' /\ PcOfState' /\ RunningOnCpu' /\ WaitLockHeld'
  BY <1>e, LocalStep
<1>i. IdxInRange'
  BY ZenonT(60), <1>1, <1>2, <1>3, ZeroIdx DEF ProcInv, FnOK, IdxInRange, IdxLabels, IdxOK,
     ForknRollback, On, At, Goto, Return, ResetLocals
<1>u. UsedIsOwned'
  <2>0. CASE kids[p] = <<>>
    <3>1. \A r \in Procs : Making(r)' = Making(r)
      BY <2>0, RangeEmpty, <1>1 DEF FnOK, IdxOK, Making, ForknRollback, On, At, Goto,
         Return, ResetLocals
    <3>2. state' = state BY Zenon, <2>0 DEF ForknRollback
    <3> QED BY <3>1, <3>2, OwnedSame DEF ProcInv
  <2>9. CASE kids[p] # <<>>
    <3>1. Head(kids[p]) \in Making(p) /\ Head(kids[p]) \in Procs
      BY Zenon, <1>1, <1>2, <1>3, <2>9 DEF Making, At, ForknRollback, HeadOK
    <3>2. Making(p)' = Making(p) \ {Head(kids[p])}
      BY ZenonT(60), <1>1, <1>2, <1>3, <2>9, RangeEmpty DEF FnOK, IdxOK, ProcInv, KidsDistinct,
         Making, HeadOK, ForknRollback, On, At, Goto, Return, ResetLocals
    <3>3. \A r \in Procs \ {p} : Making(r)' = Making(r)
      BY Zenon, <1>1, <2>9 DEF FnOK, IdxOK, Making, ForknRollback, Goto, Return, ResetLocals
    <3>4. \A q \in Procs : state'[q] = "USED" <=> state[q] = "USED" /\ q # Head(kids[p])
      BY Zenon, <1>1, <1>2, <1>3, <2>9, <3>1 DEF FnOK, ForknRollback, freeproc
    <3> QED BY Zenon, <3>1, <3>2, <3>3, <3>4, OwnedRemove DEF ProcInv
  <2> QED BY Zenon, <2>0, <2>9
<1>d. KidsDistinct'
  <2>1. CASE kids[p] = <<>>
    BY Zenon, <1>1, <2>1, RangeEmpty DEF FnOK, IdxOK, ProcInv, KidsDistinct,
       ForknRollback, Return, ResetLocals, Goto
  <2>2. CASE kids[p] # <<>>
    <3>1. kids' = [kids EXCEPT ![p] = Tail(@)] /\ pc' = pc /\ idx' = idx
      BY Zenon, <2>2 DEF ForknRollback
    <3>2. IsInjective(Tail(kids[p])) BY Zenon, <1>2, <2>2 DEF HeadOK
    <3>3. pc[p] = "rollback" BY Zenon DEF ForknRollback, At
    <3> QED
      BY Zenon, <1>1, <3>1, <3>2, <3>3 DEF IdxOK, ProcInv, KidsDistinct
  <2> QED BY <2>1, <2>2
<1>z. ToFreeZombie'
  <2>1. \A r \in Procs \ {p} : kids'[r] = kids[r] /\ idx'[r] = idx[r] /\ pc'[r] = pc[r]
    BY Zenon, <1>1 DEF FnOK, IdxOK, ForknRollback, Return, ResetLocals, Goto
  <2>2. pc'[p] \notin {"waitallscan", "waitallfree"}
    BY Zenon, <1>1 DEF FnOK, ForknRollback, At, Return, ResetLocals, Goto
  <2>3. \A q \in Procs : state[q] = "ZOMBIE" => state'[q] = "ZOMBIE"
    BY Zenon, <1>1, <1>2, <1>3 DEF FnOK, HeadOK, ForknRollback, freeproc
  <2> QED BY Zenon, <2>1, <2>2, <2>3, FreeStep
<1> QED BY <1>t, <1>l, <1>h, <1>k, <1>i, <1>u, <1>d, <1>z DEF ProcInv, TypeOK

-----------------------------------------------------------------------------
(* exit, wait, waitall and sleep.                                          *)

\* exit takes wait_lock, which was free.
LEMMA ExitLockInv ==
  ASSUME ProcInv, NEW c \in CPU, NEW p \in Procs, ExitLock(c, p)
  PROVE  ProcInv'
<1>1. FnOK /\ IdxOK BY InvTypes
<1>e. Local(c, p)
  BY Zenon, <1>1, SlotIsLock, CpuAssumption DEF FnOK, Local, LockedLabels, WaitLabels,
     ExitLock, On, At, Goto, Acquire, cpus, Free
<1>r. \A r \in Procs : Range(kids[r]) \subseteq Procs BY KidsRange
<1>t. TableOK' BY Zenon DEF ProcInv, TypeOK, TableOK, ExitLock, table
<1>l. CpuOK' BY Zenon, SlotIsLock DEF ProcInv, TypeOK, CpuOK, ExitLock, Acquire, table, cpus
<1>h. ThreadOK' BY Zenon DEF ProcInv, TypeOK, ThreadOK, ExitLock, Goto, locals, Labels
<1>k. KernelStackExclusive' /\ PcOfState' /\ RunningOnCpu' /\ WaitLockHeld'
  BY <1>e, LocalStep
<1>i. IdxInRange'
  BY Zenon, <1>1 DEF ProcInv, FnOK, IdxInRange, IdxLabels, IdxOK, ExitLock, On, At, Goto,
     locals
<1>u. UsedIsOwned'
  <2>1. \A r \in Procs : Making(r)' = Making(r)
    BY Zenon, <1>1, RangeEmpty DEF ProcInv, FnOK, IdxOK, Making, KidsDistinct, ExitLock, On,
       At, Goto, locals
  <2>2. state' = state BY Zenon DEF ExitLock
  <2> QED BY <2>1, <2>2, OwnedSame DEF ProcInv
<1>d. KidsDistinct'
  BY Zenon, <1>1, RangeEmpty DEF ProcInv, FnOK, KidsDistinct, IdxOK, ExitLock, On, At, Goto,
     locals
<1>z. ToFreeZombie'
  BY Zenon, <1>1, <1>r, RangeEmpty DEF ProcInv, FnOK, ToFreeZombie, IdxOK, ExitLock, On, At,
     Goto, locals
<1> QED BY <1>t, <1>l, <1>h, <1>k, <1>i, <1>u, <1>d, <1>z DEF ProcInv, TypeOK

\* reparent changes parent only.
LEMMA ReparentInv ==
  ASSUME ProcInv, NEW c \in CPU, NEW p \in Procs, Reparent(c, p)
  PROVE  ProcInv'
<1>1. FnOK /\ IdxOK BY InvTypes
<1>e. Local(c, p)
  BY Zenon, <1>1 DEF FnOK, Local, LockedLabels, WaitLabels, Reparent, On, At, Goto, cpus
<1>r. \A r \in Procs : Range(kids[r]) \subseteq Procs BY KidsRange
<1>t. TableOK' BY InitSlot DEF ProcInv, TypeOK, TableOK, Reparent, Children
<1>l. CpuOK' BY Zenon DEF ProcInv, TypeOK, CpuOK, Reparent, cpus
<1>h. ThreadOK' BY Zenon DEF ProcInv, TypeOK, ThreadOK, Reparent, Goto, locals, Labels
<1>k. KernelStackExclusive' /\ PcOfState' /\ RunningOnCpu' /\ WaitLockHeld'
  BY <1>e, LocalStep
<1>i. IdxInRange'
  BY Zenon, <1>1 DEF ProcInv, FnOK, IdxInRange, IdxLabels, IdxOK, Reparent, On, At, Goto,
     locals
<1>u. UsedIsOwned'
  <2>1. \A r \in Procs : Making(r)' = Making(r)
    BY <1>1, RangeEmpty DEF ProcInv, FnOK, IdxOK, Making, KidsDistinct, Reparent, On,
       At, Goto, locals
  <2>2. state' = state BY Zenon DEF Reparent
  <2> QED BY <2>1, <2>2, OwnedSame DEF ProcInv
<1>d. KidsDistinct'
  BY Zenon, <1>1, RangeEmpty DEF ProcInv, FnOK, KidsDistinct, IdxOK, Reparent, On, At, Goto,
     locals
<1>z. ToFreeZombie'
  BY <1>1, <1>r, RangeEmpty DEF ProcInv, FnOK, ToFreeZombie, IdxOK, Reparent, On, At,
     Goto, locals
<1> QED BY <1>t, <1>l, <1>h, <1>k, <1>i, <1>u, <1>d, <1>z DEF ProcInv, TypeOK

\* wakeup of init turns SLEEPING into RUNNABLE, under a lock that was free.
LEMMA ReparentWakeInv ==
  ASSUME ProcInv, NEW c \in CPU, NEW p \in Procs, ReparentWake(c, p)
  PROVE  ProcInv'
<1>1. FnOK /\ IdxOK BY InvTypes
<1>2. idx[p] \in Procs BY IdxFact DEF ReparentWake, At, IdxLabels
<1>e. Local(c, p)
  BY Zenon, <1>1, <1>2 DEF FnOK, Local, LockedLabels, WaitLabels, ReparentWake, On, At, Goto,
     WakeupSlot, cpus, Free
<1>t. TableOK'
  BY Zenon, <1>2 DEF ProcInv, TypeOK, TableOK, ReparentWake, WakeupSlot, table, States
<1>l. CpuOK'
  BY Zenon DEF ProcInv, TypeOK, CpuOK, ReparentWake, WakeupSlot, table, cpus
<1>h. ThreadOK'
  BY ZenonT(60), <1>2, NextIdx, ScanIdx, ZeroIdx DEF ProcInv, TypeOK, ThreadOK, ReparentWake, Goto,
     WakeupSlot, Labels
<1>k. KernelStackExclusive' /\ PcOfState' /\ RunningOnCpu' /\ WaitLockHeld'
  BY <1>e, LocalStep
<1>i. IdxInRange'
  BY ZenonT(60), <1>1, <1>2, ZeroIdx, NextIdx DEF ProcInv, FnOK, IdxInRange, IdxLabels, IdxOK,
     ReparentWake, On, At, Goto, WakeupSlot
<1>u. UsedIsOwned'
  <2>1. \A r \in Procs : Making(r)' = Making(r)
    BY <1>1, <1>2, RangeEmpty DEF ProcInv, FnOK, IdxOK, Making, KidsDistinct,
       ReparentWake, On, At, Goto, WakeupSlot
  <2>2. \A q \in Procs : state'[q] = "USED" <=> state[q] = "USED"
    BY Zenon, <1>1, <1>2 DEF FnOK, ReparentWake, On, At, WakeupSlot
  <2> QED BY <2>1, <2>2, OwnedSame DEF ProcInv
<1>d. KidsDistinct'
  BY Zenon, <1>1, <1>2, RangeEmpty DEF ProcInv, FnOK, KidsDistinct, IdxOK, ReparentWake, On,
     At, Goto, WakeupSlot
<1>z. ToFreeZombie'
  <2>1. \A r \in Procs \ {p} : kids'[r] = kids[r] /\ idx'[r] = idx[r] /\ pc'[r] = pc[r]
    BY Zenon, <1>1 DEF FnOK, IdxOK, ReparentWake, WakeupSlot, Goto
  <2>2. pc'[p] \notin {"waitallscan", "waitallfree"}
    BY Zenon, <1>1 DEF FnOK, ReparentWake, At, WakeupSlot, Goto
  <2>3. \A q \in Procs : state[q] = "ZOMBIE" => state'[q] = "ZOMBIE"
    BY Zenon, <1>1, <1>2 DEF FnOK, ReparentWake, WakeupSlot
  <2> QED BY <2>1, <2>2, <2>3, FreeStep
<1> QED BY <1>t, <1>l, <1>h, <1>k, <1>i, <1>u, <1>d, <1>z DEF ProcInv, TypeOK

\* wakeup of the parent turns SLEEPING into RUNNABLE, under a lock that was
\* free.
LEMMA ExitWakeInv ==
  ASSUME ProcInv, NEW c \in CPU, NEW p \in Procs, ExitWake(c, p)
  PROVE  ProcInv'
<1>1. FnOK /\ IdxOK BY InvTypes
<1>2. idx[p] \in Procs BY Zenon, IdxFact DEF ExitWake, At, IdxLabels
<1>e. Local(c, p)
  BY Zenon, <1>1, <1>2 DEF FnOK, Local, LockedLabels, WaitLabels, ExitWake, On, At, Goto,
     WakeupSlot, cpus, Free
<1>t. TableOK' BY Zenon, <1>2 DEF ProcInv, TypeOK, TableOK, ExitWake, WakeupSlot, table, States
<1>l. CpuOK'
  BY Zenon DEF ProcInv, TypeOK, CpuOK, ExitWake, WakeupSlot, table, cpus
<1>h. ThreadOK'
  BY ZenonT(60), <1>2, NextIdx, ScanIdx, ZeroIdx DEF ProcInv, TypeOK, ThreadOK, ExitWake, Goto,
     WakeupSlot, Labels
<1>k. KernelStackExclusive' /\ PcOfState' /\ RunningOnCpu' /\ WaitLockHeld'
  BY <1>e, LocalStep
<1>i. IdxInRange'
  BY ZenonT(60), <1>1, <1>2, ZeroIdx, NextIdx DEF ProcInv, FnOK, IdxInRange, IdxLabels, IdxOK,
     ExitWake, On, At, Goto, WakeupSlot
<1>u. UsedIsOwned'
  <2>1. \A r \in Procs : Making(r)' = Making(r)
    BY Zenon, <1>1, <1>2, RangeEmpty DEF ProcInv, FnOK, IdxOK, Making, KidsDistinct, ExitWake,
       On, At, Goto, WakeupSlot
  <2>2. \A q \in Procs : state'[q] = "USED" <=> state[q] = "USED"
    BY Zenon, <1>1, <1>2 DEF FnOK, ExitWake, On, At, WakeupSlot
  <2> QED BY <2>1, <2>2, OwnedSame DEF ProcInv
<1>d. KidsDistinct'
  BY Zenon, <1>1, <1>2, RangeEmpty DEF ProcInv, FnOK, KidsDistinct, IdxOK, ExitWake, On, At,
     Goto, WakeupSlot
<1>z. ToFreeZombie'
  <2>1. \A r \in Procs \ {p} : kids'[r] = kids[r] /\ idx'[r] = idx[r] /\ pc'[r] = pc[r]
    BY Zenon, <1>1 DEF FnOK, IdxOK, ExitWake, WakeupSlot, Goto
  <2>2. pc'[p] \notin {"waitallscan", "waitallfree"}
    BY ZenonT(60), <1>1 DEF FnOK, ExitWake, At, WakeupSlot, Goto
  <2>3. \A q \in Procs : state[q] = "ZOMBIE" => state'[q] = "ZOMBIE"
    BY Zenon, <1>1, <1>2 DEF FnOK, ExitWake, WakeupSlot
  <2> QED BY <2>1, <2>2, <2>3, FreeStep
<1> QED BY <1>t, <1>l, <1>h, <1>k, <1>i, <1>u, <1>d, <1>z DEF ProcInv, TypeOK

\* exit becomes a ZOMBIE with p->lock held, so wait cannot free its stack
\* yet.
LEMMA ExitZombieInv ==
  ASSUME ProcInv, NEW c \in CPU, NEW p \in Procs, ExitZombie(c, p)
  PROVE  ProcInv'
<1>1. FnOK /\ IdxOK BY InvTypes
<1>c. cpu \in [CPU -> Procs \cup {NoProc}] BY DEF ProcInv, TypeOK, CpuOK
<1>r. \A r \in Procs : Range(kids[r]) \subseteq Procs BY KidsRange
<1>t. TableOK' BY Zenon DEF ProcInv, TypeOK, TableOK, ThreadOK, ExitZombie, States
<1>l. CpuOK' BY Zenon, SlotIsLock DEF ProcInv, TypeOK, CpuOK, ExitZombie, cpus
<1>h. ThreadOK' BY ZeroIdx DEF ProcInv, TypeOK, ThreadOK, ExitZombie, ResetLocals
<1>k. KernelStackExclusive'
  BY ZenonT(60), <1>1, <1>c, SlotIsLock, NoSlot, CpuAssumption DEF ProcInv, FnOK,
     KernelStackExclusive, ExitZombie, On, At, cpus
<1>s. PcOfState'
  BY ZenonT(60), <1>1, SlotIsLock, NoSlot, CpuAssumption DEF ProcInv, FnOK, PcOfState, WaitLabels,
     KernelStackExclusive, ExitZombie, On, At, cpus
<1>o. RunningOnCpu'
  BY Zenon, <1>1, <1>c, NoSlot DEF ProcInv, FnOK, RunningOnCpu, KernelStackExclusive,
     ExitZombie, On, At, cpus
<1>w. WaitLockHeld'
  <2>1. /\ cpu' = cpu /\ pc' = pc /\ cpu[c] = p /\ state'[p] = "ZOMBIE"
        /\ \A r \in Procs \ {p} : state'[r] = state[r] /\ lock'[r] = lock[r]
    BY Zenon, <1>1, SlotIsLock DEF FnOK, ExitZombie, At, On, cpus
  <2>2. lock[WaitLock] = c
    BY Zenon DEF ExitZombie, At, On, ProcInv, WaitLockHeld, LockedLabels
  <2> QED BY ZenonT(60), <2>1, <2>2 DEF ProcInv, WaitLockHeld
<1>i. IdxInRange'
  BY Zenon, <1>1, ZeroIdx DEF ProcInv, FnOK, IdxInRange, IdxLabels, IdxOK, ExitZombie, On, At,
     ResetLocals
<1>u. UsedIsOwned'
  <2>1. \A r \in Procs : Making(r)' = Making(r)
    BY Zenon, <1>1, RangeEmpty DEF ProcInv, FnOK, IdxOK, Making, KidsDistinct, ExitZombie, On,
       At, ResetLocals
  <2>2. \A q \in Procs : state'[q] = "USED" <=> state[q] = "USED"
    BY Zenon, <1>1 DEF FnOK, ExitZombie, On, At
  <2> QED BY <2>1, <2>2, OwnedSame DEF ProcInv
<1>d. KidsDistinct'
  BY Zenon, <1>1, RangeEmpty DEF ProcInv, FnOK, KidsDistinct, IdxOK, ExitZombie, On, At,
     ResetLocals
<1>z. ToFreeZombie'
  BY Zenon, <1>1, <1>r, RangeEmpty DEF ProcInv, FnOK, ToFreeZombie, IdxOK, ExitZombie, On, At,
     ResetLocals
<1> QED
  BY Zenon, <1>t, <1>l, <1>h, <1>k, <1>s, <1>o, <1>w, <1>i, <1>u, <1>d, <1>z DEF ProcInv,
     TypeOK

\* wait and waitall take wait_lock, which was free.
LEMMA WaitStartInv ==
  ASSUME ProcInv, NEW c \in CPU, NEW p \in Procs, WaitStart(c, p)
  PROVE  ProcInv'
<1>1. FnOK /\ IdxOK BY InvTypes
<1>e. Local(c, p)
  BY Zenon, <1>1, SlotIsLock, CpuAssumption DEF FnOK, Local, LockedLabels, WaitLabels,
     WaitStart, On, At, Acquire, cpus, Free
<1>r. \A r \in Procs : Range(kids[r]) \subseteq Procs BY KidsRange
<1>t. TableOK' BY Zenon DEF ProcInv, TypeOK, TableOK, WaitStart, table
<1>l. CpuOK' BY Zenon, SlotIsLock DEF ProcInv, TypeOK, CpuOK, WaitStart, Acquire, table, cpus
<1>h. ThreadOK' BY ZeroIdx DEF ProcInv, TypeOK, ThreadOK, WaitStart, Labels
<1>k. KernelStackExclusive' /\ PcOfState' /\ RunningOnCpu' /\ WaitLockHeld'
  BY <1>e, LocalStep
<1>i. IdxInRange'
  BY Zenon, <1>1, ZeroIdx DEF ProcInv, FnOK, IdxInRange, IdxLabels, IdxOK, WaitStart, On, At
<1>u. UsedIsOwned'
  <2>1. \A r \in Procs : Making(r)' = Making(r)
    BY Zenon, <1>1, RangeEmpty DEF ProcInv, FnOK, IdxOK, Making, KidsDistinct, WaitStart, On,
       At
  <2>2. state' = state BY Zenon DEF WaitStart
  <2> QED BY <2>1, <2>2, OwnedSame DEF ProcInv
<1>d. KidsDistinct'
  BY Zenon, <1>1, RangeEmpty DEF ProcInv, FnOK, KidsDistinct, IdxOK, WaitStart, On, At
<1>z. ToFreeZombie'
  BY Zenon, <1>1, <1>r, RangeEmpty DEF ProcInv, FnOK, ToFreeZombie, IdxOK, WaitStart, On, At
<1> QED BY <1>t, <1>l, <1>h, <1>k, <1>i, <1>u, <1>d, <1>z DEF ProcInv, TypeOK

\* wait's scan changes its own locals only.
LEMMA WaitScanInv ==
  ASSUME ProcInv, NEW c \in CPU, NEW p \in Procs, WaitScan(c, p)
  PROVE  ProcInv'
<1>1. FnOK /\ IdxOK BY InvTypes
<1>2. idx[p] \in Procs BY Zenon, <1>1, ScanIdx DEF WaitScan, IdxOK
<1>e. Local(c, p)
  BY Zenon, <1>1, <1>2 DEF FnOK, Local, LockedLabels, WaitLabels, WaitScan, On, At, cpus, Free
<1>r. \A r \in Procs : Range(kids[r]) \subseteq Procs BY KidsRange
<1>t. TableOK' BY Zenon, <1>2 DEF ProcInv, TypeOK, TableOK, WaitScan, table
<1>l. CpuOK' BY Zenon DEF ProcInv, TypeOK, CpuOK, WaitScan, table, cpus
<1>h. ThreadOK'
  BY Zenon, <1>2, NextIdx, ScanIdx, ZeroIdx DEF ProcInv, TypeOK, ThreadOK, WaitScan
<1>k. KernelStackExclusive' /\ PcOfState' /\ RunningOnCpu' /\ WaitLockHeld'
  BY <1>e, LocalStep
<1>i. IdxInRange'
  BY Zenon, <1>1, <1>2, ZeroIdx DEF ProcInv, FnOK, IdxInRange, IdxLabels, IdxOK, WaitScan, On,
     At
<1>u. UsedIsOwned'
  <2>1. \A r \in Procs : Making(r)' = Making(r)
    BY Zenon, <1>1, <1>2, RangeEmpty DEF ProcInv, FnOK, IdxOK, Making, KidsDistinct, WaitScan,
       On, At
  <2>2. state' = state BY Zenon DEF WaitScan
  <2> QED BY <2>1, <2>2, OwnedSame DEF ProcInv
<1>d. KidsDistinct'
  BY Zenon, <1>1, <1>2, RangeEmpty DEF ProcInv, FnOK, KidsDistinct, IdxOK, WaitScan, On, At
<1>z. ToFreeZombie'
  BY Zenon, <1>1, <1>2, <1>r, RangeEmpty DEF ProcInv, FnOK, ToFreeZombie, IdxOK, WaitScan, On,
     At
<1> QED BY <1>t, <1>l, <1>h, <1>k, <1>i, <1>u, <1>d, <1>z DEF ProcInv, TypeOK

\* wait frees a ZOMBIE whose lock is free, so no CPU is on its stack.
LEMMA WaitReapInv ==
  ASSUME ProcInv, NEW c \in CPU, NEW p \in Procs, WaitReap(c, p)
  PROVE  ProcInv'
<1>1. FnOK /\ IdxOK BY InvTypes
<1>2. idx[p] \in Procs BY Zenon, <1>1, ScanIdx DEF WaitReap, IdxOK
<1>e. Local(c, p)
  BY Zenon, <1>1, <1>2, SlotIsLock, CpuAssumption DEF FnOK, Local, LockedLabels, WaitLabels,
     WaitReap, On, At, Goto, Return, freeproc, Release, cpus, Free
<1>t. TableOK' BY Zenon, <1>2, TypeFree DEF ProcInv, TypeOK, TableOK, WaitReap, States
<1>l. CpuOK' BY Zenon, SlotIsLock DEF ProcInv, TypeOK, CpuOK, WaitReap, Release, cpus
<1>h. ThreadOK'
  BY ZenonT(60), <1>2, TypeReturn, NextIdx, ScanIdx, ZeroIdx DEF ProcInv, TypeOK, ThreadOK,
     WaitReap, Goto, Labels
<1>k. KernelStackExclusive' /\ PcOfState' /\ RunningOnCpu' /\ WaitLockHeld'
  BY <1>e, LocalStep
<1>i. IdxInRange'
  BY Zenon, <1>1, <1>2, ZeroIdx DEF ProcInv, FnOK, IdxInRange, IdxLabels, IdxOK, WaitReap, On,
     At, Goto, Return, ResetLocals
<1>u. UsedIsOwned'
  <2>1. \A r \in Procs : Making(r)' = Making(r)
    BY Zenon, <1>1, <1>2, RangeEmpty DEF ProcInv, FnOK, IdxOK, Making, KidsDistinct, WaitReap,
       On, At, Goto, Return, ResetLocals
  <2>2. \A q \in Procs : state'[q] = "USED" <=> state[q] = "USED"
    BY Zenon, <1>1, <1>2 DEF FnOK, WaitReap, On, At, freeproc
  <2> QED BY <2>1, <2>2, OwnedSame DEF ProcInv
<1>d. KidsDistinct'
  BY Zenon, <1>1, <1>2, RangeEmpty DEF ProcInv, FnOK, KidsDistinct, IdxOK, WaitReap, On, At,
     Goto, Return, ResetLocals
<1>z. ToFreeZombie'
  <2>1. \A r \in Procs \ {p} : pc[r] \notin {"waitallscan", "waitallfree"}
    BY Zenon, WaitExclusive DEF WaitLabels, WaitReap, At, On
  <2>2. pc' = [pc EXCEPT ![p] = "ret"] BY Zenon DEF WaitReap, Return, Goto
  <2>3. \A r \in Procs : pc'[r] \notin {"waitallscan", "waitallfree"}
    BY Zenon, <1>1, <2>1, <2>2 DEF FnOK
  <2> QED BY Zenon, <2>3 DEF ToFreeZombie
<1> QED BY <1>t, <1>l, <1>h, <1>k, <1>i, <1>u, <1>d, <1>z DEF ProcInv, TypeOK

\* wait's failing copyout releases the locks and returns.
LEMMA WaitCopyoutFailInv ==
  ASSUME ProcInv, NEW c \in CPU, NEW p \in Procs, WaitCopyoutFail(c, p)
  PROVE  ProcInv'
<1>1. FnOK /\ IdxOK BY InvTypes
<1>e. Local(c, p)
  BY Zenon, <1>1, SlotIsLock, CpuAssumption DEF FnOK, Local, LockedLabels, WaitLabels,
     WaitCopyoutFail, On, At, Goto, Return, Release, cpus, Free
<1>r. \A r \in Procs : Range(kids[r]) \subseteq Procs BY KidsRange
<1>t. TableOK' BY Zenon DEF ProcInv, TypeOK, TableOK, WaitCopyoutFail, table
<1>l. CpuOK'
  <2>1. /\ lock' = [lock EXCEPT ![WaitLock] = NoCpu]
        /\ cpu' = cpu /\ panicked' = panicked /\ nextpid' = nextpid
    BY Zenon DEF WaitCopyoutFail, Release, table, cpus
  <2> QED BY Zenon, <2>1, SlotIsLock DEF ProcInv, TypeOK, CpuOK
<1>h. ThreadOK'
  BY Zenon, TypeReturn, ZeroIdx DEF ProcInv, TypeOK, ThreadOK, WaitCopyoutFail, Goto, Labels
<1>k. KernelStackExclusive' /\ PcOfState' /\ RunningOnCpu' /\ WaitLockHeld'
  BY <1>e, LocalStep
<1>i. IdxInRange'
  BY Zenon, <1>1, ZeroIdx DEF ProcInv, FnOK, IdxInRange, IdxLabels, IdxOK, WaitCopyoutFail, On,
     At, Goto, Return, ResetLocals
<1>u. UsedIsOwned'
  <2>1. \A r \in Procs : Making(r)' = Making(r)
    BY SMTT(30), <1>1, RangeEmpty DEF ProcInv, FnOK, IdxOK, Making, KidsDistinct, WaitCopyoutFail,
       On, At, Goto, Return, ResetLocals
  <2>2. state' = state BY DEF WaitCopyoutFail
  <2> QED BY <2>1, <2>2, OwnedSame DEF ProcInv
<1>d. KidsDistinct'
  BY Zenon, <1>1, RangeEmpty DEF ProcInv, FnOK, KidsDistinct, IdxOK, WaitCopyoutFail, On, At,
     Goto, Return, ResetLocals
<1>z. ToFreeZombie'
  BY Zenon, <1>1, <1>r, RangeEmpty DEF ProcInv, FnOK, ToFreeZombie, IdxOK, WaitCopyoutFail, On,
     At, Goto, Return, ResetLocals
<1> QED BY <1>t, <1>l, <1>h, <1>k, <1>i, <1>u, <1>d, <1>z DEF ProcInv, TypeOK

\* wait returns, or goes to sleep with wait_lock still held.
LEMMA WaitCheckInv ==
  ASSUME ProcInv, NEW c \in CPU, NEW p \in Procs, WaitCheck(c, p)
  PROVE  ProcInv'
<1>1. FnOK /\ IdxOK BY InvTypes
<1>e. Local(c, p)
  BY Zenon, <1>1, SlotIsLock, CpuAssumption DEF FnOK, Local, LockedLabels, WaitLabels,
     WaitCheck, On, At, Goto, Return, Release, cpus, Free
<1>r. \A r \in Procs : Range(kids[r]) \subseteq Procs BY KidsRange
<1>t. TableOK' BY Zenon DEF ProcInv, TypeOK, TableOK, WaitCheck, table
<1>l. CpuOK' BY Zenon, SlotIsLock DEF ProcInv, TypeOK, CpuOK, WaitCheck, Release, table, cpus
<1>h. ThreadOK'
  BY ZenonT(60), TypeReturn, ZeroIdx DEF ProcInv, TypeOK, ThreadOK, WaitCheck, Goto, locals, Labels
<1>k. KernelStackExclusive' /\ PcOfState' /\ RunningOnCpu' /\ WaitLockHeld'
  BY <1>e, LocalStep
<1>i. IdxInRange'
  BY ZenonT(60), <1>1, ZeroIdx DEF ProcInv, FnOK, IdxInRange, IdxLabels, IdxOK, WaitCheck, On, At,
     Goto, Return, ResetLocals, locals
<1>u. UsedIsOwned'
  <2>1. \A r \in Procs : Making(r)' = Making(r)
    BY <1>1, RangeEmpty DEF ProcInv, FnOK, IdxOK, Making, KidsDistinct, WaitCheck, On,
       At, Goto, Return, ResetLocals, locals
  <2>2. state' = state BY Zenon DEF WaitCheck
  <2> QED BY <2>1, <2>2, OwnedSame DEF ProcInv
<1>d. KidsDistinct'
  BY ZenonT(60), <1>1, RangeEmpty DEF ProcInv, FnOK, KidsDistinct, IdxOK, WaitCheck, On, At, Goto,
     Return, ResetLocals, locals
<1>z. ToFreeZombie'
  BY <1>1, <1>r, RangeEmpty DEF ProcInv, FnOK, ToFreeZombie, IdxOK, WaitCheck, On, At,
     Goto, Return, ResetLocals, locals
<1> QED BY <1>t, <1>l, <1>h, <1>k, <1>i, <1>u, <1>d, <1>z DEF ProcInv, TypeOK

\* sleep takes p->lock before it releases wait_lock.
LEMMA sleepInv ==
  ASSUME ProcInv, NEW c \in CPU, NEW p \in Procs, sleep(c, p)
  PROVE  ProcInv'
<1>1. FnOK /\ IdxOK BY InvTypes
<1>c. cpu \in [CPU -> Procs \cup {NoProc}] BY DEF ProcInv, TypeOK, CpuOK
<1>r. \A r \in Procs : Range(kids[r]) \subseteq Procs BY KidsRange
<1>t. TableOK' BY Zenon DEF ProcInv, TypeOK, TableOK, sleep, States
<1>l. CpuOK' BY Zenon, SlotIsLock DEF ProcInv, TypeOK, CpuOK, sleep, cpus
<1>h. ThreadOK' BY ZeroIdx DEF ProcInv, TypeOK, ThreadOK, sleep, ResetLocals
<1>k. KernelStackExclusive'
  BY <1>1, <1>c, SlotIsLock, NoSlot, CpuAssumption DEF ProcInv, FnOK,
     KernelStackExclusive, sleep, On, At, cpus
<1>s. PcOfState'
  BY ZenonT(60), <1>1, SlotIsLock, NoSlot, CpuAssumption DEF ProcInv, FnOK, PcOfState, WaitLabels,
     KernelStackExclusive, sleep, On, At, cpus
<1>o. RunningOnCpu'
  BY Zenon, <1>1, <1>c, NoSlot DEF ProcInv, FnOK, RunningOnCpu, KernelStackExclusive, sleep,
     On, At, cpus
<1>w. WaitLockHeld'
  <2>1. /\ cpu' = cpu /\ pc' = pc /\ cpu[c] = p /\ state'[p] = "SLEEPING"
        /\ \A r \in Procs \ {p} : state'[r] = state[r] /\ lock'[r] = lock[r]
    BY Zenon, <1>1, SlotIsLock DEF FnOK, sleep, At, On, cpus
  <2>2. lock[WaitLock] = c
    BY DEF sleep, At, On, ProcInv, WaitLockHeld, LockedLabels
  <2> QED BY ZenonT(60), <2>1, <2>2 DEF ProcInv, WaitLockHeld
<1>i. IdxInRange'
  BY Zenon, <1>1, ZeroIdx DEF ProcInv, FnOK, IdxInRange, IdxLabels, IdxOK, sleep, On, At,
     ResetLocals
<1>u. UsedIsOwned'
  <2>1. \A r \in Procs : Making(r)' = Making(r)
    BY Zenon, <1>1, RangeEmpty DEF ProcInv, FnOK, IdxOK, Making, KidsDistinct, sleep, On, At,
       ResetLocals
  <2>2. \A q \in Procs : state'[q] = "USED" <=> state[q] = "USED"
    BY Zenon, <1>1 DEF FnOK, sleep, On, At
  <2> QED BY <2>1, <2>2, OwnedSame DEF ProcInv
<1>d. KidsDistinct'
  BY Zenon, <1>1, RangeEmpty DEF ProcInv, FnOK, KidsDistinct, IdxOK, sleep, On, At, ResetLocals
<1>z. ToFreeZombie'
  BY Zenon, <1>1, <1>r, RangeEmpty DEF ProcInv, FnOK, ToFreeZombie, IdxOK, sleep, On, At,
     ResetLocals
<1> QED
  BY Zenon, <1>t, <1>l, <1>h, <1>k, <1>s, <1>o, <1>w, <1>i, <1>u, <1>d, <1>z DEF ProcInv,
     TypeOK

\* waitall appends a ZOMBIE child to to_free[], behind the slots scanned
\* before.
LEMMA WaitallScanInv ==
  ASSUME ProcInv, NEW c \in CPU, NEW p \in Procs, WaitallScan(c, p)
  PROVE  ProcInv'
<1>1. FnOK /\ IdxOK BY InvTypes
<1>2. idx[p] \in Procs BY Zenon, <1>1, ScanIdx DEF WaitallScan, IdxOK
<1>e. Local(c, p)
  BY Zenon, <1>1, <1>2 DEF FnOK, Local, LockedLabels, WaitLabels, WaitallScan, On, At, cpus,
     Free
<1>r. \A r \in Procs : Range(kids[r]) \subseteq Procs BY KidsRange
<1>t. TableOK' BY Zenon, <1>2 DEF ProcInv, TypeOK, TableOK, WaitallScan, table
<1>l. CpuOK' BY Zenon DEF ProcInv, TypeOK, CpuOK, WaitallScan, table, cpus
<1>h. ThreadOK'
  <2>1. Append(kids[p], idx[p]) \in Seq(Procs) BY <1>1, <1>2 DEF IdxOK
  <2>2. kids' \in [Procs -> Seq(Procs)] BY Zenon, <1>1, <2>1 DEF IdxOK, WaitallScan
  <2>3. idx' \in [Procs -> 0 .. NPROC]
    BY Zenon, <1>1, ScanIdx DEF IdxOK, WaitallScan
  <2>4. have' \in [Procs -> {0, 1}] /\ allDone' \in [Procs -> {0, 1}]
    BY Zenon DEF ProcInv, TypeOK, ThreadOK, WaitallScan
  <2> QED BY Zenon, <2>2, <2>3, <2>4 DEF ProcInv, TypeOK, ThreadOK, WaitallScan
<1>k. KernelStackExclusive' /\ PcOfState' /\ RunningOnCpu' /\ WaitLockHeld'
  BY <1>e, LocalStep
<1>i. IdxInRange'
  BY ZenonT(60), <1>1, <1>2, ZeroIdx DEF ProcInv, FnOK, IdxInRange, IdxLabels, IdxOK, WaitallScan,
     On, At
<1>u. UsedIsOwned'
  <2>1. \A r \in Procs : Making(r)' = Making(r)
    BY <1>1, <1>2, RangeEmpty DEF ProcInv, FnOK, IdxOK, Making, KidsDistinct,
       WaitallScan, On, At
  <2>2. state' = state BY Zenon DEF WaitallScan
  <2> QED BY <2>1, <2>2, OwnedSame DEF ProcInv
<1>d. KidsDistinct'
  <2>1. idx[p] \notin Range(kids[p])
    BY <1>1, <1>2 DEF IdxOK, Procs, ProcInv, ToFreeZombie, WaitallScan, At
  <2>2. IsInjective(Append(kids[p], idx[p]))
    BY Zenon, <1>1, <1>2, <2>1, RangeAppend DEF IdxOK, ProcInv, KidsDistinct
  <2> QED
    BY Zenon, <1>1, <2>2 DEF IdxOK, ProcInv, KidsDistinct, WaitallScan, At
<1>z. ToFreeZombie'
  <2>1. Range(Append(kids[p], idx[p])) = Range(kids[p]) \cup {idx[p]}
    BY <1>1, <1>2, RangeAppend DEF IdxOK
  <2>2. \A r \in Procs \ {p} : kids'[r] = kids[r] /\ idx'[r] = idx[r]
    BY Zenon, <1>1 DEF IdxOK, WaitallScan
  <2>3. idx'[p] = idx[p] + 1 /\ pc' = pc /\ state' = state
    BY Zenon, <1>1 DEF IdxOK, WaitallScan
  <2>4. \/ kids'[p] = kids[p]
        \/ state[idx[p]] = "ZOMBIE" /\ kids'[p] = Append(kids[p], idx[p])
    BY Zenon, <1>1 DEF IdxOK, WaitallScan
  <2>5. pc[p] = "waitallscan" BY Zenon DEF WaitallScan, At
  <2>6. \A q \in Range(kids[p]) : q < idx[p] /\ state[q] = "ZOMBIE"
    BY Zenon, <2>5 DEF ToFreeZombie, ProcInv
  <2>7. \A q \in Procs : q < idx[p] => q < idx[p] + 1
    BY <1>2 DEF Procs
  <2>8. idx[p] < idx[p] + 1 BY <1>2 DEF Procs
  <2>9. \A q \in Range(kids'[p]) : q < idx[p] + 1 /\ state[q] = "ZOMBIE"
    BY Zenon, <1>r, <2>1, <2>4, <2>6, <2>7, <2>8
  <2>10. SUFFICES ASSUME NEW r \in Procs, NEW q \in Range(kids'[r])
                  PROVE  /\ pc'[r] \in {"waitallscan", "waitallfree"} => state'[q] = "ZOMBIE"
                         /\ pc'[r] = "waitallscan" => q < idx'[r]
    BY Zenon DEF ToFreeZombie
  <2>11. CASE r = p
    <3>1. q < idx[p] + 1 /\ state[q] = "ZOMBIE" BY Zenon, <2>9, <2>11
    <3> QED BY Zenon, <3>1, <2>3, <2>11
  <2>12. CASE r # p
    <3>1. kids'[r] = kids[r] /\ idx'[r] = idx[r] BY Zenon, <2>2, <2>12
    <3>2. /\ pc[r] \in {"waitallscan", "waitallfree"} => state[q] = "ZOMBIE"
          /\ pc[r] = "waitallscan" => q < idx[r]
      BY Zenon, <3>1 DEF ToFreeZombie, ProcInv
    <3> QED BY Zenon, <3>1, <3>2, <2>3
  <2> QED BY Zenon, <2>11, <2>12
<1> QED BY <1>t, <1>l, <1>h, <1>k, <1>i, <1>u, <1>d, <1>z DEF ProcInv, TypeOK

\* waitall returns, or goes on with wait_lock still held.
LEMMA WaitallCheckInv ==
  ASSUME ProcInv, NEW c \in CPU, NEW p \in Procs, WaitallCheck(c, p)
  PROVE  ProcInv'
<1>1. FnOK /\ IdxOK BY InvTypes
<1>e. Local(c, p)
  BY ZenonT(60), <1>1, SlotIsLock, CpuAssumption DEF FnOK, Local, LockedLabels, WaitLabels,
     WaitallCheck, On, At, Goto, Return, Release, cpus, Free
<1>t. TableOK' BY Zenon DEF ProcInv, TypeOK, TableOK, WaitallCheck, table
<1>l. CpuOK'
  BY Zenon, SlotIsLock DEF ProcInv, TypeOK, CpuOK, WaitallCheck, Release, table, cpus
<1>h. ThreadOK'
  BY ZenonT(60), TypeReturn, ZeroIdx DEF ProcInv, TypeOK, ThreadOK, WaitallCheck, Goto, locals,
     Labels
<1>k. KernelStackExclusive' /\ PcOfState' /\ RunningOnCpu' /\ WaitLockHeld'
  BY <1>e, LocalStep
<1>i. IdxInRange'
  BY ZenonT(60), <1>1, ZeroIdx DEF ProcInv, FnOK, IdxInRange, IdxLabels, IdxOK, WaitallCheck, On,
     At, Goto, Return, ResetLocals, locals
<1>u. UsedIsOwned'
  <2>1. \A r \in Procs : Making(r)' = Making(r)
    BY ZenonT(60), Zenon, <1>1, RangeEmpty
       DEF ProcInv, FnOK, IdxOK, Making, KidsDistinct, WaitallCheck,
       On, At, Goto, Return, ResetLocals, locals
  <2>2. state' = state BY Zenon DEF WaitallCheck
  <2> QED BY <2>1, <2>2, OwnedSame DEF ProcInv
<1>d. KidsDistinct'
  BY ZenonT(60), <1>1, RangeEmpty DEF ProcInv, FnOK, KidsDistinct, IdxOK, WaitallCheck, On, At,
     Goto, Return, ResetLocals, locals
<1>z. ToFreeZombie'
  <2>1. \A r \in Procs \ {p} : kids'[r] = kids[r] /\ idx'[r] = idx[r] /\ pc'[r] = pc[r]
    BY Zenon, <1>1 DEF FnOK, IdxOK, WaitallCheck, Return, ResetLocals, Goto, locals
  <2>2. \/ pc'[p] = "ret"
        \/ kids'[p] = kids[p] /\ pc'[p] \in {"waitallfree", "waitallsleep"}
    BY Zenon, <1>1 DEF FnOK, IdxOK, WaitallCheck, Return, Goto, locals
  <2>3. pc[p] = "waitallscan" /\ state' = state BY Zenon DEF WaitallCheck, At
  <2> QED BY ZenonT(60), <2>1, <2>2, <2>3 DEF ToFreeZombie, ProcInv
<1> QED BY <1>t, <1>l, <1>h, <1>k, <1>i, <1>u, <1>d, <1>z DEF ProcInv, TypeOK

-----------------------------------------------------------------------------
(* kill, the scheduler and all the steps together.                         *)

\* yield keeps p->lock held until the scheduler has switched away.
LEMMA yieldInv ==
  ASSUME ProcInv, NEW c \in CPU, NEW p \in Procs, yield(c, p)
  PROVE  ProcInv'
<1>1. FnOK /\ IdxOK BY InvTypes
<1>c. cpu \in [CPU -> Procs \cup {NoProc}] BY DEF ProcInv, TypeOK, CpuOK
<1>r. \A r \in Procs : Range(kids[r]) \subseteq Procs BY KidsRange
<1>t. TableOK' BY Zenon DEF ProcInv, TypeOK, TableOK, yield, table, States
<1>l. CpuOK' BY Zenon, SlotIsLock DEF ProcInv, TypeOK, CpuOK, yield, Acquire, table, cpus
<1>h. ThreadOK' BY Zenon DEF ProcInv, TypeOK, ThreadOK, yield, locals
<1>k. KernelStackExclusive'
  BY ZenonT(40), <1>1, <1>c, SlotIsLock, NoSlot, CpuAssumption DEF ProcInv, FnOK,
     KernelStackExclusive, yield, On, Acquire, cpus
<1>e. /\ cpu' = cpu /\ cpu[c] = p /\ pc' = pc
      /\ state[p] = "RUNNING" /\ lock[p] = NoCpu /\ lock'[p] = c
      /\ pc[p] # "user" => \A l \in Locks : lock[l] # c
      /\ \A r \in Procs \ {p} : state'[r] = state[r] /\ lock'[r] = lock[r]
      /\ state'[p] = "RUNNABLE" /\ lock'[WaitLock] = lock[WaitLock]
  BY Zenon, <1>1, SlotIsLock DEF FnOK, yield, On, Acquire, Free, Holds, cpus
<1>p. pc[p] \notin WaitLabels \cup {"zombie"}
  BY <1>e, SlotIsLock, CpuAssumption DEF ProcInv, WaitLockHeld, LockedLabels, WaitLabels
<1>s. PcOfState'
  <2>1. ProcInv => PcOfState BY Zenon DEF ProcInv
  <2> QED BY <1>e, <1>p, <2>1 DEF PcOfState
<1>o. RunningOnCpu' BY Zenon, <1>e DEF ProcInv, RunningOnCpu
<1>w. WaitLockHeld' BY <1>e DEF ProcInv, WaitLockHeld
<1>u. UsedIsOwned'
  <2>1. \A r \in Procs : Making(r)' = Making(r) BY Zenon DEF Making, yield, locals
  <2>2. \A q \in Procs : state'[q] = "USED" <=> state[q] = "USED"
    BY Zenon, <1>1 DEF FnOK, yield, On
  <2> QED BY <2>1, <2>2, OwnedSame DEF ProcInv
<1>z. ToFreeZombie'
  BY Zenon, <1>1, <1>r, RangeEmpty DEF ProcInv, FnOK, ToFreeZombie, IdxOK, yield, On, locals
<1>x. IdxInRange' /\ KidsDistinct' BY Zenon, IdxSame, KidsSame DEF ProcInv, yield, locals
<1> QED
  BY <1>t, <1>l, <1>h, <1>k, <1>s, <1>o, <1>w, <1>u, <1>z, <1>x DEF ProcInv, TypeOK

\* usertrap's killed check changes p's own point only.
LEMMA TrapKilledInv ==
  ASSUME ProcInv, NEW c \in CPU, NEW p \in Procs, TrapKilled(c, p)
  PROVE  ProcInv'
<1>1. FnOK /\ IdxOK BY InvTypes
<1>e. Local(c, p)
  BY Zenon, <1>1 DEF FnOK, Local, LockedLabels, WaitLabels, TrapKilled, On, At, Goto, cpus,
     Free
<1>r. \A r \in Procs : Range(kids[r]) \subseteq Procs BY KidsRange
<1>t. TableOK' BY Zenon DEF ProcInv, TypeOK, TableOK, TrapKilled
<1>l. CpuOK' BY Zenon DEF ProcInv, TypeOK, CpuOK, TrapKilled, cpus
<1>h. ThreadOK' BY DEF ProcInv, TypeOK, ThreadOK, TrapKilled, Goto, Labels
<1>k. KernelStackExclusive' /\ PcOfState' /\ RunningOnCpu' /\ WaitLockHeld'
  BY <1>e, LocalStep
<1>i. IdxInRange'
  BY Zenon, <1>1 DEF ProcInv, FnOK, IdxInRange, IdxLabels, IdxOK, TrapKilled, On, At, Goto
<1>u. UsedIsOwned'
  <2>1. \A r \in Procs : Making(r)' = Making(r)
    BY Zenon, <1>1, RangeEmpty DEF ProcInv, FnOK, IdxOK, Making, KidsDistinct, TrapKilled, On,
       At, Goto
  <2>2. state' = state BY Zenon DEF TrapKilled
  <2> QED BY <2>1, <2>2, OwnedSame DEF ProcInv
<1>d. KidsDistinct'
  BY Zenon, <1>1, RangeEmpty DEF ProcInv, FnOK, KidsDistinct, IdxOK, TrapKilled, On, At, Goto
<1>z. ToFreeZombie'
  BY Zenon, <1>1, <1>r, RangeEmpty DEF ProcInv, FnOK, ToFreeZombie, IdxOK, TrapKilled, On, At,
     Goto
<1> QED BY Zenon, <1>t, <1>l, <1>h, <1>k, <1>i, <1>u, <1>d, <1>z DEF ProcInv, TypeOK

\* The way out of a system call changes p's own point only.
LEMMA SysReturnInv ==
  ASSUME ProcInv, NEW c \in CPU, NEW p \in Procs, SysReturn(c, p)
  PROVE  ProcInv'
<1>1. FnOK /\ IdxOK BY InvTypes
<1>e. Local(c, p)
  BY Zenon, <1>1 DEF FnOK, Local, LockedLabels, WaitLabels, SysReturn, On, At, Goto, cpus, Free
<1>r. \A r \in Procs : Range(kids[r]) \subseteq Procs BY KidsRange
<1>t. TableOK' BY Zenon DEF ProcInv, TypeOK, TableOK, SysReturn, table
<1>l. CpuOK' BY Zenon DEF ProcInv, TypeOK, CpuOK, SysReturn, table, cpus
<1>h. ThreadOK'
  <2>1. arg' \in [Procs -> Int] BY DEF ProcInv, TypeOK, ThreadOK, SysReturn
  <2>2. pc' \in [Procs -> Labels]
    BY Zenon DEF ProcInv, TypeOK, ThreadOK, SysReturn, Goto, Labels
  <2> QED BY Zenon, <2>1, <2>2 DEF ProcInv, TypeOK, ThreadOK, SysReturn
<1>k. KernelStackExclusive' /\ PcOfState' /\ RunningOnCpu' /\ WaitLockHeld'
  BY <1>e, LocalStep
<1>i. IdxInRange'
  BY Zenon, <1>1 DEF ProcInv, FnOK, IdxInRange, IdxLabels, IdxOK, SysReturn, On, At, Goto
<1>u. UsedIsOwned'
  <2>1. \A r \in Procs : Making(r)' = Making(r)
    BY Zenon, <1>1, RangeEmpty DEF ProcInv, FnOK, IdxOK, Making, KidsDistinct, SysReturn, On,
       At, Goto
  <2>2. state' = state BY Zenon DEF SysReturn
  <2> QED BY <2>1, <2>2, OwnedSame DEF ProcInv
<1>d. KidsDistinct'
  BY Zenon, <1>1, RangeEmpty DEF ProcInv, FnOK, KidsDistinct, IdxOK, SysReturn, On, At, Goto
<1>z. ToFreeZombie'
  BY <1>1, <1>r, RangeEmpty DEF ProcInv, FnOK, ToFreeZombie, IdxOK, SysReturn, On, At,
     Goto
<1> QED BY <1>t, <1>l, <1>h, <1>k, <1>i, <1>u, <1>d, <1>z DEF ProcInv, TypeOK

\* forkn takes wait_lock, which was free: nobody else is in such a section.
LEMMA ForknPublishInv ==
  ASSUME ProcInv, NEW c \in CPU, NEW p \in Procs, ForknPublish(c, p)
  PROVE  ProcInv'
<1>1. FnOK /\ IdxOK BY InvTypes
<1>e. Local(c, p)
  BY Zenon, <1>1, SlotIsLock, CpuAssumption DEF FnOK, Local, LockedLabels, WaitLabels,
     ForknPublish, On, At, Goto, Acquire, cpus, Free
<1>r. \A r \in Procs : Range(kids[r]) \subseteq Procs BY KidsRange
<1>t. TableOK' BY Zenon DEF ProcInv, TypeOK, TableOK, ForknPublish, table
<1>l. CpuOK'
  BY Zenon, SlotIsLock DEF ProcInv, TypeOK, CpuOK, ForknPublish, Acquire, table, cpus
<1>h. ThreadOK' BY Zenon DEF ProcInv, TypeOK, ThreadOK, ForknPublish, Goto, locals, Labels
<1>k. KernelStackExclusive' /\ PcOfState' /\ RunningOnCpu' /\ WaitLockHeld'
  BY <1>e, LocalStep
<1>i. IdxInRange'
  BY Zenon, <1>1 DEF ProcInv, FnOK, IdxInRange, IdxLabels, IdxOK, ForknPublish, On, At, Goto,
     locals
<1>u. UsedIsOwned'
  <2>1. \A r \in Procs : Making(r)' = Making(r)
    BY Zenon, <1>1, RangeEmpty DEF ProcInv, FnOK, IdxOK, Making, KidsDistinct, ForknPublish,
       On, At, Goto, locals
  <2>2. state' = state BY Zenon DEF ForknPublish
  <2> QED BY <2>1, <2>2, OwnedSame DEF ProcInv
<1>d. KidsDistinct'
  BY Zenon, <1>1, RangeEmpty DEF ProcInv, FnOK, KidsDistinct, IdxOK, ForknPublish, On, At,
     Goto, locals
<1>z. ToFreeZombie'
  BY Zenon, <1>1, <1>r, RangeEmpty DEF ProcInv, FnOK, ToFreeZombie, IdxOK, ForknPublish, On,
     At, Goto, locals
<1> QED BY <1>t, <1>l, <1>h, <1>k, <1>i, <1>u, <1>d, <1>z DEF ProcInv, TypeOK

\* forkn makes the head of kids[] RUNNABLE.
LEMMA ForknPubKidInv ==
  ASSUME ProcInv, NEW c \in CPU, NEW p \in Procs, ForknPubKid(c, p)
  PROVE  ProcInv'
<1>1. FnOK /\ IdxOK BY InvTypes
<1>2. kids[p] # <<>> => HeadOK(p) BY KidsHead
<1>3. kids[p] # <<>> => state[Head(kids[p])] = "USED"
  BY Zenon, <1>2 DEF ForknPubKid, At, HeadOK
<1>e. Local(c, p)
  BY Zenon, <1>1, <1>2, <1>3, SlotIsLock, CpuAssumption DEF FnOK, Local, HeadOK, LockedLabels,
     WaitLabels, ForknPubKid, On, At, Goto, Return, Release, cpus, Free
<1>t. TableOK' BY ZenonT(60), <1>2, <1>3 DEF ProcInv, TypeOK, TableOK, HeadOK, ForknPubKid, States
<1>l. CpuOK' BY Zenon, SlotIsLock DEF ProcInv, TypeOK, CpuOK, ForknPubKid, Release, cpus
<1>h. ThreadOK'
  BY Zenon, <1>2, <1>3, TypeReturn, ZeroIdx DEF ProcInv, TypeOK, ThreadOK, HeadOK, ForknPubKid,
     Goto, Labels
<1>k. KernelStackExclusive' /\ PcOfState' /\ RunningOnCpu' /\ WaitLockHeld'
  BY <1>e, LocalStep
<1>i. IdxInRange'
  BY ZenonT(60), <1>1, <1>2, <1>3, ZeroIdx DEF ProcInv, FnOK, IdxInRange, IdxLabels, IdxOK,
     ForknPubKid, On, At, Goto, Return, ResetLocals
<1>u. UsedIsOwned'
  <2>0. CASE kids[p] = <<>>
    <3>1. \A r \in Procs : Making(r)' = Making(r)
      BY <2>0, RangeEmpty, <1>1 DEF FnOK, IdxOK, Making, ForknPubKid, On, At, Goto,
         Return, ResetLocals
    <3>2. state' = state BY Zenon, <2>0 DEF ForknPubKid
    <3> QED BY <3>1, <3>2, OwnedSame DEF ProcInv
  <2>9. CASE kids[p] # <<>>
    <3>1. Head(kids[p]) \in Making(p) /\ Head(kids[p]) \in Procs
      BY Zenon, <1>1, <1>2, <1>3, <2>9 DEF Making, At, ForknPubKid, HeadOK
    <3>2. Making(p)' = Making(p) \ {Head(kids[p])}
      BY ZenonT(60), <1>1, <1>2, <1>3, <2>9, RangeEmpty DEF FnOK, IdxOK, ProcInv, KidsDistinct,
         Making, HeadOK, ForknPubKid, On, At, Goto, Return, ResetLocals
    <3>3. \A r \in Procs \ {p} : Making(r)' = Making(r)
      BY Zenon, <1>1, <2>9 DEF FnOK, IdxOK, Making, ForknPubKid, Goto, Return, ResetLocals
    <3>4. \A q \in Procs : state'[q] = "USED" <=> state[q] = "USED" /\ q # Head(kids[p])
      BY Zenon, <1>1, <1>2, <1>3, <2>9, <3>1 DEF FnOK, ForknPubKid
    <3> QED BY <3>1, <3>2, <3>3, <3>4, OwnedRemove DEF ProcInv
  <2> QED BY <2>0, <2>9
<1>d. KidsDistinct'
  <2>1. CASE kids[p] = <<>>
    BY Zenon, <1>1, <2>1, RangeEmpty DEF FnOK, IdxOK, ProcInv, KidsDistinct,
       ForknPubKid, Return, ResetLocals, Goto
  <2>2. CASE kids[p] # <<>>
    <3>1. kids' = [kids EXCEPT ![p] = Tail(@)] /\ pc' = pc /\ idx' = idx
      BY Zenon, <2>2 DEF ForknPubKid
    <3>2. IsInjective(Tail(kids[p])) BY <1>2, <2>2 DEF HeadOK
    <3>3. pc[p] = "pubkid" BY Zenon DEF ForknPubKid, At
    <3> QED
      BY Zenon, <1>1, <3>1, <3>2, <3>3 DEF IdxOK, ProcInv, KidsDistinct
  <2> QED BY <2>1, <2>2
<1>z. ToFreeZombie'
  <2>1. \A r \in Procs \ {p} : kids'[r] = kids[r] /\ idx'[r] = idx[r] /\ pc'[r] = pc[r]
    BY Zenon, <1>1 DEF FnOK, IdxOK, ForknPubKid, Return, ResetLocals, Goto
  <2>2. pc'[p] \notin {"waitallscan", "waitallfree"}
    BY Zenon, <1>1 DEF FnOK, ForknPubKid, At, Return, ResetLocals, Goto
  <2>3. \A q \in Procs : state[q] = "ZOMBIE" => state'[q] = "ZOMBIE"
    BY Zenon, <1>1, <1>2, <1>3 DEF FnOK, HeadOK, ForknPubKid
  <2> QED BY <2>1, <2>2, <2>3, FreeStep
<1> QED BY <1>t, <1>l, <1>h, <1>k, <1>i, <1>u, <1>d, <1>z DEF ProcInv, TypeOK

\* waitall frees the head of to_free[]: still a ZOMBIE, because nobody else
\* reaps while wait_lock is held, and off its stack, because its lock is
\* free.
LEMMA WaitallFreeInv ==
  ASSUME ProcInv, NEW c \in CPU, NEW p \in Procs, WaitallFree(c, p)
  PROVE  ProcInv'
<1>1. FnOK /\ IdxOK BY InvTypes
<1>2. kids[p] # <<>> => HeadOK(p) BY Zenon, KidsHead
<1>3. kids[p] # <<>> => state[Head(kids[p])] = "ZOMBIE"
  BY Zenon, <1>2 DEF WaitallFree, At, HeadOK
<1>e. Local(c, p)
  BY ZenonT(60), <1>1, <1>2, <1>3, SlotIsLock, CpuAssumption DEF FnOK, Local, HeadOK, LockedLabels,
     WaitLabels, WaitallFree, On, At, Goto, Return, freeproc, Release, cpus, Free
<1>r. \A r \in Procs : Range(kids[r]) \subseteq Procs BY KidsRange
<1>t. TableOK'
  BY Zenon, <1>2, <1>3, TypeFree DEF ProcInv, TypeOK, TableOK, HeadOK, WaitallFree, States
<1>l. CpuOK' BY Zenon, SlotIsLock DEF ProcInv, TypeOK, CpuOK, WaitallFree, Release, cpus
<1>h. ThreadOK'
  BY Zenon, <1>2, <1>3, TypeReturn, ZeroIdx DEF ProcInv, TypeOK, ThreadOK, HeadOK, WaitallFree,
     Goto, Labels
<1>k. KernelStackExclusive' /\ PcOfState' /\ RunningOnCpu' /\ WaitLockHeld'
  BY <1>e, LocalStep
<1>i. IdxInRange'
  BY ZenonT(60), <1>1, <1>2, <1>3, ZeroIdx DEF ProcInv, FnOK, IdxInRange, IdxLabels, IdxOK,
     WaitallFree, On, At, Goto, Return, ResetLocals
<1>u. UsedIsOwned'
  <2>1. \A r \in Procs : Making(r)' = Making(r)
    BY ZenonT(60), <1>1, <1>2, <1>3, RangeEmpty DEF ProcInv, FnOK, IdxOK, Making, KidsDistinct,
       WaitallFree, On, At, Goto, Return, ResetLocals
  <2>2. \A q \in Procs : state'[q] = "USED" <=> state[q] = "USED"
    BY Zenon, <1>1, <1>2, <1>3 DEF FnOK, WaitallFree, On, At, freeproc
  <2> QED BY <2>1, <2>2, OwnedSame DEF ProcInv
<1>d. KidsDistinct'
  <2>1. CASE kids[p] = <<>>
    BY ZenonT(60), <1>1, <2>1, RangeEmpty DEF FnOK, IdxOK, ProcInv, KidsDistinct,
       WaitallFree, Return, ResetLocals, Goto
  <2>2. CASE kids[p] # <<>>
    <3>1. kids' = [kids EXCEPT ![p] = Tail(@)] /\ pc' = pc /\ idx' = idx
      BY Zenon, <2>2 DEF WaitallFree
    <3>2. IsInjective(Tail(kids[p])) BY <1>2, <2>2 DEF HeadOK
    <3>3. pc[p] = "waitallfree" BY ZenonT(60) DEF WaitallFree, At
    <3> QED
      BY Zenon, <1>1, <3>1, <3>2, <3>3 DEF IdxOK, ProcInv, KidsDistinct
  <2> QED BY <2>1, <2>2
<1>z. ToFreeZombie'
  <2>1. \A r \in Procs \ {p} : pc[r] \notin {"waitallscan", "waitallfree"}
    BY WaitExclusive DEF WaitallFree, At, On, WaitLabels
  <2>2. CASE kids[p] = <<>>
    BY ZenonT(60), <1>1, <2>1, <2>2 DEF FnOK, IdxOK, ToFreeZombie, WaitallFree, Return,
                            ResetLocals, Goto
  <2>3. CASE kids[p] # <<>>
    <3>1. \A q \in Range(kids'[p]) : q \in Procs /\ q # Head(kids[p]) /\ q \in Range(kids[p])
      BY Zenon, <1>1, <1>2, <1>r, <2>3 DEF IdxOK, HeadOK, WaitallFree
    <3>2. pc'[p] = "waitallfree" /\ pc[p] = "waitallfree"
      BY Zenon, <2>3 DEF WaitallFree, At
    <3>3. \A r \in Procs \ {p} : pc'[r] = pc[r]
      BY Zenon, <2>3 DEF WaitallFree
    <3>4. \A q \in Procs : q # Head(kids[p]) => state'[q] = state[q]
      BY ZenonT(40), <1>1, <2>3 DEF FnOK, WaitallFree, freeproc
    <3> QED
      BY Zenon, <2>1, <3>1, <3>2, <3>3, <3>4 DEF ToFreeZombie, ProcInv
  <2> QED BY <2>2, <2>3
<1> QED BY <1>t, <1>l, <1>h, <1>k, <1>i, <1>u, <1>d, <1>z DEF ProcInv, TypeOK

\* kill turns SLEEPING into RUNNABLE, under a lock that is free.
LEMMA killInv ==
  ASSUME ProcInv, NEW c \in CPU, NEW p \in Procs, kill(c, p)
  PROVE  ProcInv'
<1>1. FnOK /\ IdxOK BY InvTypes
<1>2. idx[p] \in Procs BY Zenon, IdxFact DEF kill, At, IdxLabels
<1>e. Local(c, p)
  BY <1>1, <1>2 DEF FnOK, Local, LockedLabels, WaitLabels, kill, On, At, Goto, Return,
     cpus, Free
<1>t. TableOK' BY Zenon, <1>2 DEF ProcInv, TypeOK, TableOK, kill, States
<1>l. CpuOK' BY Zenon, <1>2 DEF ProcInv, TypeOK, CpuOK, kill, cpus
<1>h. ThreadOK'
  BY ZenonT(60), <1>2, TypeReturn, NextIdx, ScanIdx, ZeroIdx DEF ProcInv, TypeOK, ThreadOK, kill,
     Goto, Labels
<1>k. KernelStackExclusive' /\ PcOfState' /\ RunningOnCpu' /\ WaitLockHeld'
  BY <1>e, LocalStep
<1>i. IdxInRange'
  <2>1. \/ Return(p)
        \/ pc' = pc /\ idx' = [idx EXCEPT ![p] = @ + 1] /\ idx[p] # NPROC - 1
    BY Zenon DEF kill
  <2> QED
    BY ZenonT(60), <1>1, <1>2, <2>1, ZeroIdx, NextIdx
       DEF FnOK, IdxOK, ProcInv, IdxInRange, IdxLabels, Return, ResetLocals, Goto
<1>u. UsedIsOwned'
  <2>1. \A r \in Procs : Making(r)' = Making(r)
    BY ZenonT(60), <1>1, <1>2, RangeEmpty DEF ProcInv, FnOK, IdxOK, Making, KidsDistinct, kill, On,
       At, Goto, Return, ResetLocals
  <2>2. \A q \in Procs : state'[q] = "USED" <=> state[q] = "USED"
    BY Zenon, <1>1, <1>2 DEF FnOK, kill, On, At
  <2> QED BY <2>1, <2>2, OwnedSame DEF ProcInv
<1>d. KidsDistinct'
  BY Zenon, <1>1, <1>2, RangeEmpty DEF ProcInv, FnOK, KidsDistinct, IdxOK, kill, On, At, Goto,
     Return, ResetLocals
<1>z. ToFreeZombie'
  <2>1. \A r \in Procs \ {p} : kids'[r] = kids[r] /\ idx'[r] = idx[r] /\ pc'[r] = pc[r]
    BY Zenon, <1>1 DEF FnOK, IdxOK, kill, Return, ResetLocals, Goto
  <2>2. pc'[p] \notin {"waitallscan", "waitallfree"}
    BY Zenon, <1>1 DEF FnOK, kill, At, Return, ResetLocals, Goto
  <2>3. \A q \in Procs : state[q] = "ZOMBIE" => state'[q] = "ZOMBIE"
    BY Zenon, <1>1, <1>2 DEF FnOK, kill
  <2> QED BY <2>1, <2>2, <2>3, FreeStep
<1> QED BY <1>t, <1>l, <1>h, <1>k, <1>i, <1>u, <1>d, <1>z DEF ProcInv, TypeOK

\* The entry of a system call changes p's own point and argument only.
LEMMA EnterInv ==
  ASSUME ProcInv, NEW c \in CPU, NEW p \in Procs, NEW op, NEW a \in Int,
         NEW l \in {"ret", "fork", "forkn", "exit", "wait", "waitall", "kill"},
         Enter(c, p, op, l, a)
  PROVE  ProcInv'
<1>1. FnOK /\ IdxOK BY Zenon, InvTypes
<1>e. /\ cpu' = cpu /\ state' = state /\ lock' = lock /\ idx' = idx /\ kids' = kids
      /\ pc' = [pc EXCEPT ![p] = l] /\ pc[p] = "user" /\ state[p] = "RUNNING"
  BY Zenon DEF Enter, At, Goto, cpus
<1>t. TableOK' BY Zenon DEF ProcInv, TypeOK, TableOK, Enter, table
<1>l. CpuOK' BY Zenon DEF ProcInv, TypeOK, CpuOK, Enter, table, cpus
<1>h. ThreadOK' BY Zenon DEF ProcInv, TypeOK, ThreadOK, Enter, Goto, Labels
<1>k. KernelStackExclusive' /\ PcOfState' /\ RunningOnCpu' /\ WaitLockHeld'
  <2>1. Local(c, p)
    BY Zenon, <1>1, <1>e DEF FnOK, Local, LockedLabels, WaitLabels, Enter, At, On
  <2> QED BY Zenon, <2>1, LocalStep
<1>i. IdxInRange' BY Zenon, <1>1, <1>e DEF FnOK, ProcInv, IdxInRange, IdxLabels
<1>u. UsedIsOwned'
  <2>1. kids[p] = <<>> BY Zenon, <1>e DEF ProcInv, KidsDistinct
  <2>2. \A r \in Procs : Making(r)' = Making(r)
    BY Zenon, <1>1, <1>e, <2>1, RangeEmpty DEF FnOK, Making
  <2> QED BY Zenon, <1>e, <2>2, OwnedSame DEF ProcInv
<1>d. KidsDistinct' BY Zenon, <1>1, <1>e DEF FnOK, ProcInv, KidsDistinct
<1>z. ToFreeZombie' BY Zenon, <1>1, <1>e DEF FnOK, ProcInv, ToFreeZombie
<1> QED
  BY Zenon, <1>t, <1>l, <1>h, <1>k, <1>i, <1>u, <1>d, <1>z DEF ProcInv, TypeOK

\* panic() stops a CPU and changes nothing ProcInv speaks of.
LEMMA PanicInv ==
  ASSUME ProcInv, NEW c \in CPU, NEW p \in Procs,
         SchedPanic(c, p) \/ AcquirePanic(c, p)
  PROVE  ProcInv'
<1>e. /\ panicked' = panicked \cup {c}
      /\ UNCHANGED <<state, table, lock, cpu, pc, locals>>
  BY Zenon, Zenon DEF SchedPanic, AcquirePanic
<1>t. TypeOK'
  BY Zenon, <1>e DEF ProcInv, TypeOK, TableOK, CpuOK, ThreadOK, table, locals
<1>x. /\ KernelStackExclusive' /\ PcOfState' /\ RunningOnCpu' /\ WaitLockHeld'
      /\ IdxInRange' /\ UsedIsOwned' /\ KidsDistinct' /\ ToFreeZombie'
  BY Zenon, <1>e, StackSame, PcSame, RunSame, WaitSame, IdxSame, MakingSame, KidsSame, FreeSame
     DEF ProcInv, locals
<1> QED BY Zenon, <1>t, <1>x DEF ProcInv

\* The system calls and traps of the user program.
LEMMA UserStepInv ==
  ASSUME ProcInv, NEW c \in CPU, NEW p \in Procs, UserStep(c, p)
  PROVE  ProcInv'
<1>1. CASE TrapKilled(c, p) BY Zenon, <1>1, TrapKilledInv
<1>2. CASE SysFork(c, p) BY <1>2, EnterInv DEF SysFork
<1>3. CASE SysForkn(c, p) BY <1>3, EnterInv, ArgAssumption DEF SysForkn
<1>4. CASE SysExit(c, p) BY Zenon, <1>4, EnterInv, ArgAssumption DEF SysExit
<1>5. CASE SysWait(c, p) BY <1>5, EnterInv DEF SysWait
<1>6. CASE SysWaitall(c, p) BY <1>6, EnterInv DEF SysWaitall
<1>7. CASE SysKill(c, p) BY Zenon, <1>7, EnterInv, ArgAssumption DEF SysKill
<1> QED BY Zenon, <1>1, <1>2, <1>3, <1>4, <1>5, <1>6, <1>7 DEF UserStep

\* The state main() leaves satisfies the invariant.
LEMMA InitInv == ASSUME Init PROVE ProcInv
<1> USE DEF Init
<1>1. TypeOK
  BY ZeroIdx, InitSlot
     DEF TypeOK, TableOK, CpuOK, ThreadOK, States, Labels
<1>2. KernelStackExclusive /\ PcOfState /\ RunningOnCpu /\ WaitLockHeld
  BY Zenon, NoSlot DEF KernelStackExclusive, PcOfState, RunningOnCpu, WaitLockHeld, WaitLabels
<1>3. IdxInRange /\ ToFreeZombie BY Zenon, ZeroIdx DEF IdxInRange, ToFreeZombie
<1>4. UsedIsOwned
  <2>1. \A p \in Procs : Making(p) = {} BY Zenon DEF Making
  <2> QED BY Zenon, <2>1 DEF UsedIsOwned
<1>5. KidsDistinct BY Zenon, RangeEmpty DEF KidsDistinct
<1> QED BY Zenon, <1>1, <1>2, <1>3, <1>4, <1>5 DEF ProcInv

\* Every step of the kernel preserves the invariant.
LEMMA StepInv == ASSUME ProcInv, [Next]_vars PROVE ProcInv'
<1>1. CASE UNCHANGED vars
  <2>1. TypeOK'
    BY Zenon, <1>1 DEF ProcInv, TypeOK, TableOK, CpuOK, ThreadOK, vars
  <2>2. /\ KernelStackExclusive' /\ PcOfState' /\ RunningOnCpu' /\ WaitLockHeld'
        /\ IdxInRange' /\ UsedIsOwned' /\ KidsDistinct' /\ ToFreeZombie'
    BY Zenon, <1>1, StackSame, PcSame, RunSame, WaitSame, IdxSame, MakingSame, KidsSame, FreeSame
       DEF ProcInv, vars
  <2> QED BY Zenon, <2>1, <2>2 DEF ProcInv
<1>2. ASSUME NEW c \in CPU, NEW p \in Procs, SchedStep(c, p) PROVE ProcInv'
  BY Zenon, <1>2, SwitchInInv, ResumeInv, SwitchOutInv, yieldInv DEF SchedStep
<1>3. ASSUME NEW c \in CPU, NEW p \in Procs, UserStep(c, p) PROVE ProcInv'
  BY Zenon, <1>3, UserStepInv
<1>4. ASSUME NEW c \in CPU, NEW p \in Procs, KernelStep(c, p) PROVE ProcInv'
  BY Zenon, <1>4, SysReturnInv, AllocSkipInv, AllocFoundInv, AllocNoMemInv, ForkCopyInv,
     ForkCopyFailInv, ForkParentInv, ForkRunInv, ForknCopyInv, ForknCopyFailInv,
     ForknRollbackInv, ForknPublishInv, ForknPubKidInv, ExitLockInv, ReparentInv,
     ReparentWakeInv, ExitWakeInv, ExitZombieInv, WaitStartInv, WaitScanInv,
     WaitReapInv, WaitCopyoutFailInv, WaitCheckInv, sleepInv, WaitallScanInv,
     WaitallCheckInv, WaitallFreeInv, killInv
     DEF KernelStep
<1>5. ASSUME NEW c \in CPU, NEW p \in Procs, SchedPanic(c, p) \/ AcquirePanic(c, p)
      PROVE  ProcInv'
  BY Zenon, <1>5, PanicInv
<1> QED BY Zenon, <1>1, <1>2, <1>3, <1>4, <1>5 DEF Next

-----------------------------------------------------------------------------
(* The theorems.                                                           *)

\* ProcInv holds in every reachable state.
THEOREM Invariance == Spec => []ProcInv
<1>1. Init => ProcInv BY Zenon, InitInv
<1>2. ProcInv /\ [Next]_vars => ProcInv' BY Zenon, StepInv
<1> QED BY <1>1, <1>2, PTL DEF Spec

\* The process table, locks and threads keep their types, whatever is called
\* and whatever fails: no scan of proc[] leaves the table.
THEOREM TypeCorrect == Spec => []TypeOK
<1>1. ProcInv => TypeOK BY Zenon DEF ProcInv
<1> QED BY <1>1, Invariance, PTL

\* Two CPUs are never on one kernel stack, and wait never frees a stack that
\* a CPU is still on.
THEOREM StackSafety == Spec => []KernelStackExclusive
<1>1. ProcInv => KernelStackExclusive BY Zenon DEF ProcInv
<1> QED BY <1>1, Invariance, PTL

\* fork and forkn, with all their failure paths, leak no slot of the process
\* table and never build one slot twice.
THEOREM NoSlotLeak == Spec => []UsedIsOwned
<1>1. ProcInv => UsedIsOwned BY Zenon DEF ProcInv
<1> QED BY <1>1, Invariance, PTL

-----------------------------------------------------------------------------
(* The family tree, the pids and the free slots: FamilyInv.                *)

Alive == {"RUNNABLE", "RUNNING", "SLEEPING"}
ExitLabels == {"exit", "reparent", "reparentwake", "exitwake", "zombie"}

\* init lives, keeps its pid, is nobody's child and never exits.
InitLives ==
  /\ state[initproc] \in Alive
  /\ pid[initproc] = 1
  /\ parent[initproc] = NoProc
  /\ killed[initproc] = 0
  /\ pc[initproc] \notin ExitLabels

\* Every other process that has started has a living parent, even while
\* wait_lock is held: exit gives its children away before it becomes a ZOMBIE.
HasParent ==
  \A q \in Procs \ {initproc} :
    state[q] \in Alive \cup {"ZOMBIE"} =>
      parent[q] \in Procs /\ state[parent[q]] \in Alive

\* A slot being built has no parent but between the second and the third
\* section of fork.
NewbornParent ==
  /\ \A q \in Procs : state[q] = "USED" /\ parent[q] # NoProc =>
       pc[parent[q]] = "forkrun" /\ idx[parent[q]] = q
  /\ \A p \in Procs : pc[p] = "forkrun" => parent[idx[p]] = p

\* Once reparent is done, nobody is the exiting process's child.
Childless ==
  \A p \in Procs : pc[p] \in {"exitwake", "zombie"} =>
    \A q \in Procs : parent[q] # p

\* freeproc leaves nothing behind; only kill(0) marks a free slot.
FreeClean ==
  \A q \in Procs : state[q] = "UNUSED" =>
    /\ parent[q] = NoProc
    /\ pid[q] = 0
    /\ 0 \notin KillPids => killed[q] = 0

\* The pids in use are distinct and below nextpid.
PidsBelow ==
  /\ nextpid > 1
  /\ \A p \in Procs : state[p] # "UNUSED" => pid[p] > 0 /\ pid[p] < nextpid

KillArg == \A p \in Procs : pc[p] = "kill" => arg[p] \in KillPids

FamilyInv ==
  /\ InitLives
  /\ HasParent
  /\ NewbornParent
  /\ Childless
  /\ FreeClean
  /\ PidsBelow
  /\ UniquePids
  /\ KillArg

-----------------------------------------------------------------------------
(* Kinds of steps, as FamilyInv sees them.                                 *)

\* The other threads stay where they are.
OthersStay(p) ==
  \A r \in Procs \ {p} : pc'[r] = pc[r] /\ idx'[r] = idx[r] /\ arg'[r] = arg[r]

\* Nobody is born, freed or given another parent, and nobody becomes a ZOMBIE.
LifeSame(p) ==
  /\ parent' = parent /\ pid' = pid /\ nextpid' = nextpid
  /\ \A q \in Procs : state'[q] = state[q] \/ (state[q] \in Alive /\ state'[q] \in Alive)
  /\ \A q \in Procs : \/ killed'[q] = killed[q]
                      \/ q # initproc /\ state[q] # "UNUSED"
                      \/ pid[q] \in KillPids
  /\ OthersStay(p)
  /\ pc[p] = "forkrun" \/ pc'[p] = "forkrun" => pc'[p] = pc[p] /\ idx'[p] = idx[p]
  /\ pc'[p] \in {"exitwake", "zombie"} =>
       pc[p] \in {"exitwake", "zombie"} \/ \A q \in Procs : parent[q] # p
  /\ p = initproc => pc'[p] \notin ExitLabels
  /\ pc'[p] = "kill" => arg'[p] \in KillPids

\* freeproc(q), of a slot whose process nobody is the child of.
Freed(p, q) ==
  /\ freeproc(q)
  /\ nextpid' \in Nat /\ nextpid' >= nextpid
  /\ q # initproc
  /\ \A r \in Procs : parent[r] # q
  /\ \A r \in Procs : pc[r] = "forkrun" => idx[r] # q
  /\ OthersStay(p)
  /\ pc[p] # "forkrun"
  /\ pc'[p] \notin ExitLabels \cup {"forkrun", "kill"}

-----------------------------------------------------------------------------
(* Each kind preserves FamilyInv.                                          *)

\* The types FamilyInv needs.
FamilyTypes ==
  /\ state \in [Procs -> States]
  /\ pid \in [Procs -> Nat]
  /\ nextpid \in Nat
  /\ parent \in [Procs -> Procs \cup {NoProc}]
  /\ killed \in [Procs -> {0, 1}]
  /\ pc \in [Procs -> Labels]
  /\ idx \in [Procs -> 0 .. NPROC]
  /\ arg \in [Procs -> Int]

\* The process table and the local variables have their types.
LEMMA InvFamilyTypes == ASSUME ProcInv PROVE FamilyTypes
BY Zenon DEF ProcInv, TypeOK, TableOK, CpuOK, ThreadOK, FamilyTypes

\* A step that starts and ends nobody's life keeps the family tree.
LEMMA LifeSameInv ==
  ASSUME ProcInv, FamilyInv, NEW p \in Procs, LifeSame(p) PROVE FamilyInv'
<1> USE DEF FamilyInv, LifeSame, OthersStay
<1>1. FamilyTypes BY Zenon, InvFamilyTypes
<1>2. \A q \in Procs : state'[q] = "UNUSED" <=> state[q] = "UNUSED" BY Zenon DEF Alive
<1>3. InitLives' BY Zenon, InitSlot, InitAssumption DEF InitLives, Alive
<1>4. HasParent' BY Zenon DEF HasParent, Alive
<1>5. NewbornParent'
  <2>1. \A q \in Procs : state'[q] = "USED" => state[q] = "USED" BY Zenon DEF Alive
  <2>2. \A r \in Procs : pc[r] = "forkrun" \/ pc'[r] = "forkrun" =>
                           pc'[r] = pc[r] /\ idx'[r] = idx[r]
    BY Zenon
  <2>3. \A q \in Procs : parent[q] # NoProc => parent[q] \in Procs BY Zenon, <1>1 DEF FamilyTypes
  <2> QED BY <2>1, <2>2, <2>3 DEF NewbornParent
<1>6. Childless' BY Zenon DEF Childless
<1>7. FreeClean' BY Zenon, <1>2, InitSlot DEF FreeClean
<1>8. PidsBelow' /\ UniquePids' BY Zenon, <1>2 DEF PidsBelow, UniquePids
<1>9. KillArg' BY Zenon DEF KillArg
<1> QED BY Zenon, <1>3, <1>4, <1>5, <1>6, <1>7, <1>8, <1>9

\* freeproc of a slot without children keeps the family tree.
LEMMA FreedInv ==
  ASSUME ProcInv, FamilyInv, NEW p \in Procs, NEW q \in Procs, Freed(p, q) PROVE FamilyInv'
<1> USE DEF FamilyInv, OthersStay
<1>1. FamilyTypes BY Zenon, InvFamilyTypes
<1>e. /\ \A r \in Procs : r # q => /\ state'[r] = state[r] /\ pid'[r] = pid[r]
                                   /\ parent'[r] = parent[r] /\ killed'[r] = killed[r]
      /\ state'[q] = "UNUSED" /\ pid'[q] = 0 /\ parent'[q] = NoProc /\ killed'[q] = 0
  BY Zenon, <1>1 DEF Freed, freeproc, FamilyTypes
<1>2. \A r \in Procs : parent'[r] \in Procs => r # q /\ parent'[r] # q
  BY Zenon, <1>1, <1>e, NoSlot DEF FamilyTypes, Freed
<1>3. InitLives' BY Zenon, <1>e, InitSlot DEF InitLives, Freed
<1>4. HasParent' BY <1>e, <1>2, NoSlot DEF HasParent, Alive
<1>5. NewbornParent'
  <2>1. \A r \in Procs : pc'[r] = "forkrun" => r # p /\ pc[r] = "forkrun" /\ idx'[r] = idx[r]
    BY Zenon DEF Freed
  <2>2. \A r \in Procs : pc[r] = "forkrun" => r # p /\ pc'[r] = "forkrun" /\ idx'[r] = idx[r]
    BY Zenon DEF Freed
  <2>3. \A r \in Procs : pc[r] = "forkrun" => idx[r] \in Procs /\ idx[r] # q
    BY Zenon, MakingIdx DEF Freed
  <2>4. ASSUME NEW r \in Procs, state'[r] = "USED", parent'[r] # NoProc
        PROVE  pc'[parent'[r]] = "forkrun" /\ idx'[parent'[r]] = r
    <3>1. r # q /\ state[r] = "USED" /\ parent'[r] = parent[r] BY Zenon, <2>4, <1>e
    <3>2. parent[r] \in Procs BY ZenonT(60), <3>1, <2>4, <1>1 DEF FamilyTypes
    <3> QED BY Zenon, <2>4, <3>1, <3>2, <2>2 DEF NewbornParent
  <2>5. ASSUME NEW r \in Procs, pc'[r] = "forkrun" PROVE parent'[idx'[r]] = r
    BY SMTT(30), <2>5, <2>1, <2>3, <1>e DEF NewbornParent
  <2> QED BY Zenon, <2>4, <2>5 DEF NewbornParent
<1>6. Childless' BY <1>e, NoSlot DEF Childless, Freed, ExitLabels
<1>7. FreeClean' BY Zenon, <1>e DEF FreeClean
<1>8. PidsBelow' BY <1>1, <1>e DEF PidsBelow, Freed, FamilyTypes
<1>9. UniquePids' BY <1>e DEF UniquePids
<1>10. KillArg' BY Zenon DEF KillArg, Freed
<1> QED BY Zenon, <1>3, <1>4, <1>5, <1>6, <1>7, <1>8, <1>9, <1>10

\* fork and forkn make the child they have built RUNNABLE.
Started(p, q) ==
  /\ pid' = pid /\ killed' = killed /\ nextpid' = nextpid
  /\ state[q] = "USED" /\ state'[q] = "RUNNABLE" /\ parent'[q] = p
  /\ \A r \in Procs \ {q} : state'[r] = state[r] /\ parent'[r] = parent[r]
  /\ \A r \in Procs \ {p} : pc[r] = "forkrun" => idx[r] # q
  /\ OthersStay(p)
  /\ state[p] = "RUNNING"
  /\ pc[p] \in {"forkrun", "pubkid"} /\ (pc[p] = "forkrun" => idx[p] = q)
  /\ pc'[p] \in {"ret", "pubkid"}

\* The step of fork or forkn that makes a child RUNNABLE keeps the family tree.
LEMMA StartedInv ==
  ASSUME ProcInv, FamilyInv, NEW p \in Procs, NEW q \in Procs, Started(p, q) PROVE FamilyInv'
<1> USE DEF FamilyInv, OthersStay
<1>1. FamilyTypes BY Zenon, InvFamilyTypes
<1>2. q # initproc /\ p # q BY Zenon DEF Started, InitLives, Alive
<1>3. \A r \in Procs : parent[r] # q
  <2>1. ASSUME NEW r \in Procs, parent[r] = q PROVE FALSE
    <3>1. CASE state[r] \in Alive \cup {"ZOMBIE"}
      <4>1. r # initproc BY Zenon, <2>1, NoSlot DEF InitLives
      <4> QED BY Zenon, <2>1, <3>1, <4>1 DEF HasParent, Started, Alive
    <3>2. CASE state[r] = "USED"
      <4>1. pc[q] = "forkrun" BY Zenon, <2>1, <3>2, NoSlot DEF NewbornParent
      <4> QED BY Zenon, <4>1 DEF Started, ProcInv, PcOfState
    <3>3. CASE state[r] = "UNUSED" BY Zenon, <2>1, <3>3, NoSlot DEF FreeClean
    <3> QED BY Zenon, <3>1, <3>2, <3>3, <1>1 DEF FamilyTypes, States, Alive
  <2> QED BY Zenon, <2>1
<1>4. InitLives' BY Zenon, <1>2, InitSlot DEF InitLives, Started, ExitLabels
<1>5. HasParent'
  <2>1. \A r \in Procs : state[r] \in Alive => state'[r] \in Alive BY Zenon DEF Started, Alive
  <2>2. state'[p] \in Alive BY Zenon, <1>2 DEF Started, Alive
  <2> QED BY Zenon, <2>1, <2>2 DEF HasParent, Started
<1>6. NewbornParent'
  <2>1. \A r \in Procs : pc'[r] = "forkrun" => r # p /\ pc[r] = "forkrun" /\ idx'[r] = idx[r]
    BY Zenon DEF Started
  <2>2. \A r \in Procs \ {p} : pc[r] = "forkrun" => pc'[r] = "forkrun" /\ idx'[r] = idx[r]
    BY Zenon DEF Started
  <2>3. \A r \in Procs : pc[r] = "forkrun" => idx[r] \in Procs BY Zenon, MakingIdx
  <2>4. ASSUME NEW r \in Procs, state'[r] = "USED", parent'[r] # NoProc
        PROVE  pc'[parent'[r]] = "forkrun" /\ idx'[parent'[r]] = r
    <3>1. r # q /\ state[r] = "USED" /\ parent'[r] = parent[r] BY Zenon, <2>4 DEF Started
    <3>2. parent[r] \in Procs BY Zenon, <3>1, <2>4, <1>1 DEF FamilyTypes
    <3>3. pc[parent[r]] = "forkrun" /\ idx[parent[r]] = r BY Zenon, <2>4, <3>1 DEF NewbornParent
    <3>4. parent[r] # p BY ZenonT(60), <3>1, <3>3 DEF Started
    <3> QED BY Zenon, <3>1, <3>2, <3>3, <3>4, <2>2
  <2>5. ASSUME NEW r \in Procs, pc'[r] = "forkrun" PROVE parent'[idx'[r]] = r
    BY <2>5, <2>1, <2>3 DEF NewbornParent, Started
  <2> QED BY <2>4, <2>5 DEF NewbornParent
<1>7. Childless' BY Zenon DEF Childless, Started
<1>8. FreeClean' BY Zenon DEF FreeClean, Started
<1>9. PidsBelow' /\ UniquePids'
  <2>1. \A r \in Procs : state'[r] = "UNUSED" <=> state[r] = "UNUSED" BY Zenon DEF Started
  <2> QED BY Zenon, <2>1 DEF PidsBelow, UniquePids, Started
<1>10. KillArg' BY Zenon DEF KillArg, Started
<1> QED BY Zenon, <1>4, <1>5, <1>6, <1>7, <1>8, <1>9, <1>10

\* allocproc takes a slot that nobody is the child of and gives it a new pid.
LEMMA AllocFoundFamily ==
  ASSUME ProcInv, FamilyInv, NEW c \in CPU, NEW p \in Procs, AllocFound(c, p) PROVE FamilyInv'
<1> USE DEF FamilyInv
<1>1. FamilyTypes BY Zenon, InvFamilyTypes
<1>2. idx[p] \in Procs BY Zenon, IdxFact DEF AllocFound, At, IdxLabels
<1> DEFINE q == idx[p]
<1>e. /\ p # q /\ q # initproc /\ state[q] = "UNUSED"
      /\ \A r \in Procs \ {q} : state'[r] = state[r] /\ pid'[r] = pid[r]
      /\ state'[q] = "USED" /\ pid'[q] = nextpid /\ nextpid' = nextpid + 1
      /\ \A r \in Procs \ {p, q} : pc'[r] = pc[r]
      /\ pc[p] \in {"fork", "forkn"} /\ pc'[p] \in {"forkcopy", "forkncopy"} /\ pc'[q] = "forkret"
      /\ parent' = parent /\ killed' = killed /\ idx' = idx /\ arg' = arg
  BY Zenon, <1>1, <1>2 DEF FamilyTypes, AllocFound, At, locals, InitLives, Alive
<1>3. parent[q] = NoProc BY Zenon, <1>e, <1>2 DEF FreeClean
<1>4. InitLives' BY Zenon, <1>e, InitSlot DEF InitLives, ExitLabels
<1>5. HasParent'
  <2>1. \A r \in Procs : state[r] \in Alive => state'[r] \in Alive BY Zenon, <1>e DEF Alive
  <2> QED BY Zenon, <1>e, <2>1 DEF HasParent, Alive
<1>6. NewbornParent'
  <2>1. pc[q] # "forkrun" BY Zenon, <1>e, <1>2 DEF ProcInv, PcOfState
  <2>2. \A r \in Procs : pc'[r] = "forkrun" <=> pc[r] = "forkrun" BY Zenon, <1>e, <2>1
  <2>3. \A r \in Procs : parent[r] # NoProc => parent[r] \in Procs BY Zenon, <1>1 DEF FamilyTypes
  <2> QED BY <1>e, <1>3, <2>2, <2>3 DEF NewbornParent
<1>7. Childless' BY Zenon, <1>e DEF Childless
<1>8. FreeClean' BY Zenon, <1>e DEF FreeClean
<1>9. PidsBelow'
  <2>1. \A r \in Procs \ {q} : state'[r] = state[r] /\ pid'[r] = pid[r] /\ pid[r] \in Nat
    BY Zenon, <1>e, <1>1 DEF FamilyTypes
  <2>2. nextpid \in Nat /\ nextpid' = nextpid + 1 /\ pid'[q] = nextpid BY Zenon, <1>e, <1>1
      DEF FamilyTypes
  <2> HIDE DEF q
  <2> QED BY <2>1, <2>2 DEF PidsBelow
<1>10. UniquePids'
  <2>1. \A r \in Procs \ {q} : state'[r] # "UNUSED" => state[r] # "UNUSED" /\ pid[r] # nextpid
    BY <1>e, <1>1 DEF FamilyTypes, PidsBelow
  <2> QED BY <1>e, <2>1 DEF UniquePids
<1>11. KillArg' BY Zenon, <1>e DEF KillArg
<1> QED BY Zenon, <1>4, <1>5, <1>6, <1>7, <1>8, <1>9, <1>10, <1>11

\* fork gives the slot it is building a parent.
LEMMA ForkParentFamily ==
  ASSUME ProcInv, FamilyInv, NEW c \in CPU, NEW p \in Procs, ForkParent(c, p) PROVE FamilyInv'
<1> USE DEF FamilyInv
<1>1. FamilyTypes BY InvFamilyTypes
<1> DEFINE q == idx[p]
<1>2. q \in Procs /\ state[q] = "USED" BY Zenon, MakingIdx DEF ForkParent, At
<1>3. \A r \in Procs \ {p} : pc[r] = "forkrun" => idx[r] # q
  <2>1. q \in Making(p) BY Zenon DEF Making, ForkParent, At
  <2>2. \A r \in Procs : pc[r] = "forkrun" => idx[r] \in Making(r) BY Zenon DEF Making
  <2> QED BY Zenon, <2>1, <2>2 DEF ProcInv, UsedIsOwned
<1>e. /\ parent'[q] = p /\ \A r \in Procs \ {q} : parent'[r] = parent[r]
      /\ pc[p] = "forkparent" /\ pc'[p] = "forkrun" /\ \A r \in Procs \ {p} : pc'[r] = pc[r]
      /\ state' = state /\ pid' = pid /\ killed' = killed /\ nextpid' = nextpid
      /\ idx' = idx /\ arg' = arg
  BY Zenon, <1>1, <1>2 DEF FamilyTypes, ForkParent, At, Goto, locals
<1>4. q # initproc BY Zenon, <1>2 DEF InitLives, Alive
<1>5. InitLives' BY Zenon, <1>e, <1>4, InitSlot DEF InitLives, ExitLabels
<1>6. HasParent' BY Zenon, <1>e, <1>2 DEF HasParent, Alive
<1>7. NewbornParent'
  <2>1. \A r \in Procs : parent[r] # NoProc => parent[r] \in Procs BY <1>1 DEF FamilyTypes
  <2>2. \A r \in Procs : pc[r] = "forkrun" => idx[r] \in Procs BY Zenon, MakingIdx
  <2> QED BY <1>e, <1>2, <1>3, <2>1, <2>2 DEF NewbornParent
<1>8. Childless' BY Zenon, <1>e DEF Childless
<1>9. FreeClean' BY Zenon, <1>e, <1>2 DEF FreeClean
<1>10. PidsBelow' /\ UniquePids' BY Zenon, <1>e DEF PidsBelow, UniquePids
<1>11. KillArg' BY Zenon, <1>e DEF KillArg
<1> QED BY Zenon, <1>5, <1>6, <1>7, <1>8, <1>9, <1>10, <1>11

\* reparent gives a child of the exiting process to init.
LEMMA ReparentFamily ==
  ASSUME ProcInv, FamilyInv, NEW c \in CPU, NEW p \in Procs, Reparent(c, p), Children(p) # {}
  PROVE  FamilyInv'
<1> USE DEF FamilyInv
<1>1. FamilyTypes BY Zenon, InvFamilyTypes
<1>2. PICK q \in Children(p) : parent' = [parent EXCEPT ![q] = initproc]
  BY Zenon DEF Reparent
<1>e. /\ q \in Procs /\ parent[q] = p /\ pc[p] = "reparent" /\ pc'[p] = "reparentwake"
      /\ parent'[q] = initproc /\ \A r \in Procs \ {q} : parent'[r] = parent[r]
      /\ \A r \in Procs \ {p} : pc'[r] = pc[r]
      /\ state' = state /\ pid' = pid /\ killed' = killed /\ nextpid' = nextpid
      /\ idx' = idx /\ arg' = arg
  BY Zenon, <1>1, <1>2 DEF FamilyTypes, Reparent, At, Goto, locals, Children
<1>3. q # initproc /\ p # initproc BY Zenon, <1>e, NoSlot DEF InitLives, ExitLabels
<1>4. state[q] # "USED" /\ state[q] # "UNUSED"
  BY Zenon, <1>e, NoSlot DEF NewbornParent, FreeClean
<1>5. InitLives' BY Zenon, <1>e, <1>3, InitSlot DEF InitLives
<1>6. HasParent' BY Zenon, <1>e, InitSlot DEF HasParent, InitLives
<1>7. NewbornParent'
  <2>1. \A r \in Procs : parent[r] # NoProc => parent[r] \in Procs BY Zenon, <1>1 DEF FamilyTypes
  <2>2. \A r \in Procs : pc[r] = "forkrun" => idx[r] \in Procs /\ state[idx[r]] = "USED"
    BY Zenon, MakingIdx
  <2> QED BY <1>e, <1>4, <2>1, <2>2 DEF NewbornParent
<1>8. Childless' BY <1>e, <1>3 DEF Childless, InitLives, ExitLabels
<1>9. FreeClean' BY Zenon, <1>e, <1>4 DEF FreeClean
<1>10. PidsBelow' /\ UniquePids' BY Zenon, <1>e DEF PidsBelow, UniquePids
<1>11. KillArg' BY Zenon, <1>e DEF KillArg
<1> QED BY Zenon, <1>5, <1>6, <1>7, <1>8, <1>9, <1>10, <1>11

\* exit becomes a ZOMBIE, which nobody is the child of.
LEMMA ExitZombieFamily ==
  ASSUME ProcInv, FamilyInv, NEW c \in CPU, NEW p \in Procs, ExitZombie(c, p) PROVE FamilyInv'
<1> USE DEF FamilyInv
<1>1. FamilyTypes BY InvFamilyTypes
<1>e. /\ state[p] = "RUNNING" /\ state'[p] = "ZOMBIE" /\ pc[p] = "zombie"
      /\ \A r \in Procs \ {p} : state'[r] = state[r] /\ idx'[r] = idx[r] /\ arg'[r] = arg[r]
      /\ pc' = pc /\ parent' = parent /\ pid' = pid /\ killed' = killed /\ nextpid' = nextpid
  BY Zenon, <1>1 DEF FamilyTypes, ExitZombie, At, ResetLocals
<1>2. p # initproc BY Zenon, <1>e DEF InitLives, ExitLabels
<1>3. \A r \in Procs : parent[r] # p BY Zenon, <1>e DEF Childless
<1>4. InitLives' BY Zenon, <1>e, <1>2, InitSlot DEF InitLives
<1>5. HasParent' BY Zenon, <1>e, <1>3 DEF HasParent, Alive
<1>6. NewbornParent'
  <2>1. \A r \in Procs : parent[r] # NoProc => parent[r] \in Procs BY <1>1 DEF FamilyTypes
  <2> QED BY <1>e, <1>3, <2>1 DEF NewbornParent
<1>7. Childless' BY Zenon, <1>e DEF Childless
<1>8. FreeClean' BY Zenon, <1>e DEF FreeClean
<1>9. PidsBelow' /\ UniquePids'
  <2>1. \A r \in Procs : state'[r] = "UNUSED" <=> state[r] = "UNUSED" BY Zenon, <1>e
  <2> QED BY Zenon, <1>e, <2>1 DEF PidsBelow, UniquePids
<1>10. KillArg' BY Zenon, <1>e DEF KillArg
<1> QED BY <1>4, <1>5, <1>6, <1>7, <1>8, <1>9, <1>10

-----------------------------------------------------------------------------
(* Which step is of which kind.                                            *)

\* A slot that is ZOMBIE, USED without a parent, or free is nobody's parent,
\* and no fork is about to start it.
LEMMA NoChildren ==
  ASSUME ProcInv, FamilyInv, NEW q \in Procs, state[q] \in {"ZOMBIE", "USED", "UNUSED"},
         state[q] = "USED" => parent[q] = NoProc
  PROVE  /\ q # initproc
         /\ \A r \in Procs : parent[r] # q
         /\ \A r \in Procs : pc[r] = "forkrun" => idx[r] # q
<1> USE DEF FamilyInv
<1>1. FamilyTypes BY Zenon, InvFamilyTypes
<1>2. q # initproc BY Zenon DEF InitLives, Alive
<1>3. pc[q] # "forkrun" BY Zenon DEF ProcInv, PcOfState
<1>4. ASSUME NEW r \in Procs, parent[r] = q PROVE FALSE
  <2>1. CASE state[r] \in Alive \cup {"ZOMBIE"}
    <3>1. r # initproc BY Zenon, <1>4, NoSlot DEF InitLives
    <3> QED BY Zenon, <1>4, <2>1, <3>1 DEF HasParent, Alive
  <2>2. CASE state[r] = "USED" BY Zenon, <1>3, <1>4, <2>2, NoSlot DEF NewbornParent
  <2>3. CASE state[r] = "UNUSED" BY Zenon, <1>4, <2>3, NoSlot DEF FreeClean
  <2> QED BY Zenon, <2>1, <2>2, <2>3, <1>1 DEF FamilyTypes, States, Alive
<1>5. ASSUME NEW r \in Procs, pc[r] = "forkrun", idx[r] = q PROVE FALSE
  <2>1. state[q] = "USED" BY Zenon, <1>5, MakingIdx
  <2>2. parent[q] = r BY Zenon, <1>5 DEF NewbornParent
  <2> QED BY Zenon, <2>1, <2>2, NoSlot
<1> QED BY Zenon, <1>2, <1>4, <1>5

\* A slot p is building is USED, and has no parent unless p is in fork's last
\* section.
LEMMA MakingNewborn ==
  ASSUME ProcInv, FamilyInv, NEW p \in Procs, NEW q \in Procs, q \in Making(p),
         pc[p] # "forkrun"
  PROVE  state[q] = "USED" /\ parent[q] = NoProc
<1>1. state[q] = "USED" BY Zenon DEF ProcInv, UsedIsOwned
<1>2. ASSUME parent[q] # NoProc PROVE FALSE
  <2>1. parent[q] \in Procs BY Zenon, <1>2, InvFamilyTypes DEF FamilyTypes
  <2>2. pc[parent[q]] = "forkrun" /\ idx[parent[q]] = q
    BY Zenon, <1>1, <1>2 DEF FamilyInv, NewbornParent
  <2>3. q \in Making(parent[q]) BY Zenon, <2>2 DEF Making
  <2> QED BY Zenon, <2>1, <2>2, <2>3 DEF ProcInv, UsedIsOwned
<1> QED BY Zenon, <1>1, <1>2

\* Steps that leave the table but for states of living processes alone.
LEMMA LifeSteps ==
  ASSUME ProcInv, FamilyInv, NEW c \in CPU, NEW p \in Procs,
         \/ SchedStep(c, p)    \/ UserStep(c, p)      \/ SchedPanic(c, p)  \/ AcquirePanic(c, p)
         \/ SysReturn(c, p)    \/ AllocSkip(c, p)     \/ ForkCopy(c, p)    \/ ForknCopy(c, p)
         \/ ForknPublish(c, p) \/ ExitLock(c, p)      \/ ReparentWake(c, p) \/ ExitWake(c, p)
         \/ WaitStart(c, p)    \/ WaitScan(c, p)      \/ WaitCopyoutFail(c, p)
         \/ WaitCheck(c, p)    \/ sleep(c, p)         \/ WaitallScan(c, p)
         \/ WaitallCheck(c, p) \/ kill(c, p)
  PROVE  LifeSame(p)
<1>1. FamilyTypes BY Zenon, InvFamilyTypes
<1>i. InitLives /\ KillArg BY Zenon DEF FamilyInv
<1> USE <1>1 DEF FamilyTypes, LifeSame, OthersStay, Alive, ExitLabels, table, locals, cpus
<1>2. CASE SwitchIn(c, p) BY Zenon, <1>2, <1>i DEF SwitchIn, InitLives, KillArg
<1>3. CASE Resume(c, p) BY Zenon, <1>3, <1>i DEF Resume, InitLives, KillArg
<1>4. CASE SwitchOut(c, p) BY Zenon, <1>4, <1>i DEF SwitchOut, InitLives, KillArg
<1>5. CASE yield(c, p) BY Zenon, <1>5, <1>i DEF yield, InitLives, KillArg
<1>6. CASE TrapKilled(c, p) BY Zenon, <1>6 DEF TrapKilled, At, Goto
<1>7. CASE UserStep(c, p) BY ZenonT(40), <1>6, <1>7
                             DEF UserStep, SysFork, SysForkn, SysExit, SysWait,
                             SysWaitall, SysKill, Enter, At, Goto
<1>8. CASE SchedPanic(c, p) \/ AcquirePanic(c, p) BY Zenon, <1>8, <1>i 
       DEF SchedPanic, AcquirePanic, InitLives, KillArg
<1>9. CASE SysReturn(c, p) BY <1>9, <1>i DEF SysReturn, At, Goto, InitLives
<1>10. CASE AllocSkip(c, p) BY Zenon, <1>10
                               DEF AllocSkip, AllocFailed, At, Goto, Return, ResetLocals
<1>11. CASE ForkCopy(c, p) BY Zenon, <1>11 DEF ForkCopy, At, Goto
<1>12. CASE ForknCopy(c, p) BY Zenon, <1>12 DEF ForknCopy, At, Goto
<1>13. CASE ForknPublish(c, p) BY Zenon, <1>13 DEF ForknPublish, At, Goto
<1>14. CASE ExitLock(c, p) BY Zenon, <1>14, <1>i DEF ExitLock, At, Goto, InitLives
<1>15. CASE ReparentWake(c, p) BY Zenon, <1>15, <1>i, IdxFact
                                  DEF ReparentWake, WakeupSlot, At, Goto, InitLives, IdxLabels
<1>16. CASE ExitWake(c, p) BY Zenon, <1>16, <1>i, IdxFact
                              DEF ExitWake, WakeupSlot, At, Goto, InitLives, IdxLabels
<1>17. CASE WaitStart(c, p) BY Zenon, <1>17 DEF WaitStart, At
<1>18. CASE WaitScan(c, p) BY Zenon, <1>18 DEF WaitScan, At
<1>19. CASE WaitCopyoutFail(c, p) BY Zenon, <1>19 DEF WaitCopyoutFail, At, Goto, Return, ResetLocals
<1>20. CASE WaitCheck(c, p) BY Zenon, <1>20 DEF WaitCheck, At, Goto, Return, ResetLocals
<1>21. CASE sleep(c, p) BY Zenon, <1>21 DEF sleep, At, ResetLocals
<1>22. CASE WaitallScan(c, p) BY Zenon, <1>22 DEF WaitallScan, At
<1>23. CASE WaitallCheck(c, p) BY Zenon, <1>23 DEF WaitallCheck, At, Goto, Return, ResetLocals
<1>24. CASE kill(c, p) BY ZenonT(60), <1>24, <1>i, IdxFact
                          DEF kill, At, Goto, Return, ResetLocals, KillArg, IdxLabels
<1> QED BY ZenonT(60), <1>2, <1>3, <1>4, <1>5, <1>7, <1>8, <1>9, <1>10, <1>11, <1>12, <1>13,
           <1>14, <1>15,
           <1>16, <1>17, <1>18, <1>19, <1>20, <1>21, <1>22, <1>23, <1>24 DEF SchedStep

\* Steps that free a slot, where they do.
LEMMA FreeSteps ==
  ASSUME ProcInv, FamilyInv, NEW c \in CPU, NEW p \in Procs,
         \/ AllocNoMem(c, p) \/ ForkCopyFail(c, p) \/ ForknCopyFail(c, p)
         \/ ForknRollback(c, p) \/ WaitReap(c, p) \/ WaitallFree(c, p)
  PROVE  LifeSame(p) \/ \E q \in Procs : Freed(p, q)
<1>1. FamilyTypes BY Zenon, InvFamilyTypes
<1>2. CASE AllocNoMem(c, p)
  <2>1. idx[p] \in Procs BY Zenon, <1>2, IdxFact DEF AllocNoMem, At, IdxLabels
  <2>2. state[idx[p]] = "UNUSED" BY Zenon, <1>2 DEF AllocNoMem
  <2>3. Freed(p, idx[p])
    BY <1>1, <1>2, <2>1, <2>2, NoChildren DEF Freed, AllocNoMem, AllocFailed, At, Goto, Return,
       ResetLocals, OthersStay, FamilyTypes, ExitLabels, locals
  <2> QED BY Zenon, <2>1, <2>3
<1>3. CASE ForkCopyFail(c, p) \/ ForknCopyFail(c, p)
  <2>1. idx[p] \in Procs BY Zenon, <1>3, MakingIdx DEF ForkCopyFail, ForknCopyFail, At
  <2>2. state[idx[p]] = "USED" /\ parent[idx[p]] = NoProc
    BY Zenon, <1>3, <2>1, MakingNewborn DEF ForkCopyFail, ForknCopyFail, At, Making
  <2>3. Freed(p, idx[p])
    BY <1>1, <1>3, <2>1, <2>2, NoChildren DEF Freed, ForkCopyFail, ForknCopyFail, At, Goto, Return,
       ResetLocals, OthersStay, FamilyTypes, ExitLabels, locals
  <2> QED BY Zenon, <2>1, <2>3
<1>4. CASE ForknRollback(c, p) /\ kids[p] # <<>>
  <2>1. HeadOK(p) BY Zenon, <1>4, KidsHead
  <2>2. state[Head(kids[p])] = "USED" /\ parent[Head(kids[p])] = NoProc
    BY Zenon, <1>4, <2>1, MakingNewborn DEF ForknRollback, At, Making, HeadOK
  <2>3. /\ freeproc(Head(kids[p])) /\ nextpid' = nextpid
        /\ pc[p] = "rollback" /\ pc'[p] = pc[p] /\ OthersStay(p)
    BY Zenon, <1>4 DEF ForknRollback, At, OthersStay
  <2>4. Freed(p, Head(kids[p]))
    BY SMTT(30), <1>1, <2>1, <2>2, <2>3, NoChildren DEF HeadOK, Freed, FamilyTypes, ExitLabels
  <2> QED BY Zenon, <2>1, <2>4 DEF HeadOK
<1>5. CASE WaitReap(c, p)
  <2>1. idx[p] \in Procs BY Zenon, <1>1, <1>5, ScanIdx DEF FamilyTypes, WaitReap
  <2>2. state[idx[p]] = "ZOMBIE" BY Zenon, <1>5 DEF WaitReap
  <2>3. OthersStay(p) /\ pc[p] = "waitscan" /\ pc'[p] = "ret"
    BY Zenon, <1>1, <1>5 DEF WaitReap, At, Goto, Return, ResetLocals, OthersStay, FamilyTypes
  <2>4. freeproc(idx[p]) /\ nextpid' = nextpid BY Zenon, <1>5 DEF WaitReap
  <2>5. Freed(p, idx[p])
    BY <1>1, <2>1, <2>2, <2>3, <2>4, NoChildren DEF Freed, FamilyTypes, ExitLabels
  <2> QED BY <2>1, <2>5
<1>6. CASE WaitallFree(c, p) /\ kids[p] # <<>>
  <2>1. HeadOK(p) BY Zenon, <1>6, KidsHead
  <2>2. state[Head(kids[p])] = "ZOMBIE" BY Zenon, <1>6, <2>1 DEF WaitallFree, At, HeadOK
  <2>3. /\ freeproc(Head(kids[p])) /\ nextpid' = nextpid
        /\ pc[p] = "waitallfree" /\ pc'[p] = pc[p] /\ OthersStay(p)
    BY Zenon, <1>6 DEF WaitallFree, At, OthersStay
  <2>4. Freed(p, Head(kids[p]))
    BY SMTT(30), <1>1, <2>1, <2>2, <2>3, NoChildren DEF HeadOK, Freed, FamilyTypes, ExitLabels
  <2> QED BY Zenon, <2>1, <2>4 DEF HeadOK
<1>7. CASE ForknRollback(c, p) /\ kids[p] = <<>>
  BY Zenon, <1>1, <1>7 DEF LifeSame, ForknRollback, At, Goto, Return, ResetLocals, OthersStay,
     FamilyTypes, ExitLabels
<1>8. CASE WaitallFree(c, p) /\ kids[p] = <<>>
  BY Zenon, <1>1, <1>8 DEF LifeSame, WaitallFree, At, Goto, Return, ResetLocals, OthersStay,
     FamilyTypes, ExitLabels
<1> QED BY Zenon, <1>2, <1>3, <1>4, <1>5, <1>6, <1>7, <1>8

\* Steps that start a child, where they do.
LEMMA StartSteps ==
  ASSUME ProcInv, FamilyInv, NEW c \in CPU, NEW p \in Procs,
         ForkRun(c, p) \/ ForknPubKid(c, p)
  PROVE  LifeSame(p) \/ \E q \in Procs : Started(p, q)
<1>1. FamilyTypes BY Zenon, InvFamilyTypes
<1>2. ASSUME NEW q \in Procs, q \in Making(p)
      PROVE  \A r \in Procs \ {p} : pc[r] = "forkrun" => idx[r] # q
  <2>1. \A r \in Procs : pc[r] = "forkrun" => idx[r] \in Making(r) BY Zenon DEF Making
  <2> QED BY <1>2, <2>1 DEF ProcInv, UsedIsOwned
<1>3. CASE ForkRun(c, p)
  <2>1. idx[p] \in Procs /\ state[idx[p]] = "USED" BY Zenon, <1>3, MakingIdx DEF ForkRun, At
  <2>2. idx[p] \in Making(p) /\ parent[idx[p]] = p
    BY Zenon, <1>3 DEF ForkRun, At, Making, FamilyInv, NewbornParent
  <2>3. Started(p, idx[p])
    BY Zenon, <1>1, <1>2, <1>3, <2>1, <2>2 DEF Started, ForkRun, At, Goto, Return, ResetLocals,
       OthersStay, FamilyTypes, table
  <2> QED BY Zenon, <2>1, <2>3
<1>4. CASE ForknPubKid(c, p) /\ kids[p] # <<>>
  <2>1. HeadOK(p) BY Zenon, <1>4, KidsHead
  <2>2. Head(kids[p]) \in Making(p) /\ state[Head(kids[p])] = "USED"
    BY Zenon, <1>4, <2>1 DEF ForknPubKid, At, Making, HeadOK
  <2>3. Started(p, Head(kids[p]))
    BY Zenon, <1>1, <1>2, <1>4, <2>1, <2>2
       DEF HeadOK, Started, ForknPubKid, At, OthersStay, FamilyTypes
  <2> QED BY Zenon, <2>1, <2>3 DEF HeadOK
<1>5. CASE ForknPubKid(c, p) /\ kids[p] = <<>>
  BY Zenon, <1>1, <1>5 DEF LifeSame, ForknPubKid, At, Goto, Return, ResetLocals, OthersStay,
     FamilyTypes, ExitLabels
<1> QED BY Zenon, <1>3, <1>4, <1>5

\* FamilyInv is inductive, given ProcInv.
LEMMA FamilyStep == ASSUME ProcInv, FamilyInv, [Next]_vars PROVE FamilyInv'
<1>1. CASE UNCHANGED vars
  BY Zenon, <1>1 DEF FamilyInv, InitLives, HasParent, NewbornParent, Childless, FreeClean,
     PidsBelow, UniquePids, KillArg, vars
<1>2. ASSUME NEW c \in CPU, NEW p \in Procs, ForkParent(c, p) \/ AllocFound(c, p)
      PROVE  FamilyInv'
  BY Zenon, <1>2, ForkParentFamily, AllocFoundFamily
<1>3. ASSUME NEW c \in CPU, NEW p \in Procs, Reparent(c, p) PROVE FamilyInv'
  <2>1. CASE Children(p) = {}
    <3>1. LifeSame(p)
      BY Zenon, <1>3, <2>1, InvFamilyTypes
         DEF FamilyTypes, Reparent, LifeSame, OthersStay, At, Goto,
         Children, FamilyInv, InitLives, ExitLabels, locals
    <3> QED BY Zenon, <3>1, LifeSameInv
  <2>2. CASE Children(p) # {} BY Zenon, <1>3, <2>2, ReparentFamily
  <2> QED BY Zenon, <2>1, <2>2
<1>4. ASSUME NEW c \in CPU, NEW p \in Procs, ExitZombie(c, p) PROVE FamilyInv'
  BY Zenon, <1>4, ExitZombieFamily
<1>5. ASSUME NEW c \in CPU, NEW p \in Procs,
             \/ AllocNoMem(c, p) \/ ForkCopyFail(c, p) \/ ForknCopyFail(c, p)
             \/ ForknRollback(c, p) \/ WaitReap(c, p) \/ WaitallFree(c, p)
      PROVE  FamilyInv'
  <2>1. LifeSame(p) \/ \E q \in Procs : Freed(p, q) BY Zenon, <1>5, FreeSteps
  <2> QED BY Zenon, <2>1, LifeSameInv, FreedInv
<1>6. ASSUME NEW c \in CPU, NEW p \in Procs, ForkRun(c, p) \/ ForknPubKid(c, p)
      PROVE  FamilyInv'
  <2>1. LifeSame(p) \/ \E q \in Procs : Started(p, q) BY Zenon, <1>6, StartSteps
  <2> QED BY Zenon, <2>1, LifeSameInv, StartedInv
<1>7. ASSUME NEW c \in CPU, NEW p \in Procs,
         \/ SchedStep(c, p)    \/ UserStep(c, p)      \/ SchedPanic(c, p)  \/ AcquirePanic(c, p)
         \/ SysReturn(c, p)    \/ AllocSkip(c, p)     \/ ForkCopy(c, p)    \/ ForknCopy(c, p)
         \/ ForknPublish(c, p) \/ ExitLock(c, p)      \/ ReparentWake(c, p) \/ ExitWake(c, p)
         \/ WaitStart(c, p)    \/ WaitScan(c, p)      \/ WaitCopyoutFail(c, p)
         \/ WaitCheck(c, p)    \/ sleep(c, p)         \/ WaitallScan(c, p)
         \/ WaitallCheck(c, p) \/ kill(c, p)
      PROVE  FamilyInv'
  <2>1. LifeSame(p) BY Zenon, <1>7, LifeSteps
  <2> QED BY <2>1, LifeSameInv
<1> QED BY <1>1, <1>2, <1>3, <1>4, <1>5, <1>6, <1>7 DEF Next, KernelStep

\* main() leaves init alone in the table.
LEMMA FamilyInit == ASSUME Init PROVE FamilyInv
BY InitSlot, NoSlot DEF Init, FamilyInv, InitLives, HasParent, NewbornParent, Childless,
   FreeClean, PidsBelow, UniquePids, KillArg, Alive, ExitLabels

\* No step but allocproc's makes an UNUSED slot USED.
LEMMA OnlyAllocproc ==
  ASSUME ProcInv, FamilyInv, Next, NEW q \in Procs, state[q] = "UNUSED", state'[q] = "USED"
  PROVE  \E c \in CPU, p \in Procs : AllocFound(c, p)
<1>1. state \in [Procs -> States] BY Zenon DEF ProcInv, TypeOK, TableOK
<1>2. ASSUME NEW p \in Procs, LifeSame(p) PROVE FALSE BY Zenon, <1>2 DEF LifeSame, Alive
<1>3. ASSUME NEW p \in Procs, NEW r \in Procs, Freed(p, r) PROVE FALSE
  BY Zenon, <1>1, <1>3 DEF Freed, freeproc
<1>4. ASSUME NEW p \in Procs, NEW r \in Procs, Started(p, r) PROVE FALSE BY Zenon, <1>4 DEF Started
<1>5. ASSUME NEW c \in CPU, NEW p \in Procs,
             ForkParent(c, p) \/ Reparent(c, p) \/ ExitZombie(c, p)
      PROVE  FALSE
  BY Zenon, <1>1, <1>5 DEF ForkParent, Reparent, ExitZombie, At
<1>6. ASSUME NEW c \in CPU, NEW p \in Procs,
             \/ AllocNoMem(c, p) \/ ForkCopyFail(c, p) \/ ForknCopyFail(c, p)
             \/ ForknRollback(c, p) \/ WaitReap(c, p) \/ WaitallFree(c, p)
      PROVE  FALSE
  BY Zenon, <1>2, <1>3, <1>6, FreeSteps
<1>7. ASSUME NEW c \in CPU, NEW p \in Procs, ForkRun(c, p) \/ ForknPubKid(c, p) PROVE FALSE
  BY Zenon, <1>2, <1>4, <1>7, StartSteps
<1>8. ASSUME NEW c \in CPU, NEW p \in Procs,
         \/ SchedStep(c, p)    \/ UserStep(c, p)      \/ SchedPanic(c, p)  \/ AcquirePanic(c, p)
         \/ SysReturn(c, p)    \/ AllocSkip(c, p)     \/ ForkCopy(c, p)    \/ ForknCopy(c, p)
         \/ ForknPublish(c, p) \/ ExitLock(c, p)      \/ ReparentWake(c, p) \/ ExitWake(c, p)
         \/ WaitStart(c, p)    \/ WaitScan(c, p)      \/ WaitCopyoutFail(c, p)
         \/ WaitCheck(c, p)    \/ sleep(c, p)         \/ WaitallScan(c, p)
         \/ WaitallCheck(c, p) \/ kill(c, p)
      PROVE  FALSE
  BY Zenon, <1>2, <1>8, LifeSteps
<1> QED BY ZenonT(40), <1>5, <1>6, <1>7, <1>8 DEF Next, KernelStep
=============================================================================
