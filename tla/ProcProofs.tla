----------------------------- MODULE ProcProofs -----------------------------
(***************************************************************************)
(* What Proc promises, for every number of slots and CPUs, every set of    *)
(* system calls and every choice of what may fail. Four invariants, each   *)
(* inductive given the ones before it: ProcInv and FamilyInv (ProcSteps)   *)
(* and, here, LockInv (who holds which lock and why a CPU stops) and       *)
(* WakeInv (no wakeup is lost).                                            *)
(***************************************************************************)
EXTENDS ProcSteps

-----------------------------------------------------------------------------
(* Locks.                                                                  *)

\* The lock of a slot in use is held by the CPU switching to or from its
\* process, or by the one copying into it.
SlotOwner ==
  \A c \in CPU, l \in Procs : lock[l] = c =>
    \/ state[l] = "UNUSED"
    \/ cpu[c] = l
    \/ \E p \in Procs :
         /\ cpu[c] = p /\ state[p] = "RUNNING" /\ lock[p] # c
         /\ pc[p] \in {"forkcopy", "forkncopy"} /\ idx[p] = l

\* wait_lock is held by a CPU whose thread is inside one of its sections.
WaitOwner ==
  \A c \in CPU : lock[WaitLock] = c =>
    /\ cpu[c] \in Procs /\ state[cpu[c]] = "RUNNING" /\ lock[cpu[c]] # c
    /\ pc[cpu[c]] \in LockedLabels

\* The lock of a free slot stays held only after forkn's uvmcopy failed.
LeakCause ==
  /\ \A p \in Procs : pc[p] \in {"forkn", "forkncopy"} => "forkn" \in Ops
  /\ \A c \in CPU : Leaked(c) => "forkn" \in Ops /\ "uvmcopy" \in Fails

LockInv == SlotOwner /\ WaitOwner /\ LeakCause /\ PanicOnlyByLeak

-----------------------------------------------------------------------------
(* Locks: LockInv is inductive, given ProcInv.                             *)

\* A step of p's thread between two switches: what it releases is the lock of
\* the slot it is building, or wait_lock on leaving its section.
Inside(c, p) ==
  /\ cpu' = cpu /\ cpu[c] = p /\ panicked' = panicked
  /\ state[p] = "RUNNING" /\ lock[p] # c
  /\ \A r \in Procs : state[r] = "RUNNING" => state'[r] = "RUNNING"
  /\ \A r \in Procs : state[r] = "UNUSED" => state'[r] = "UNUSED"
  /\ \A r \in Procs \ {p} : pc'[r] = pc[r] /\ idx'[r] = idx[r]
  /\ \A l \in Procs : lock'[l] = lock[l] \/ (lock'[l] = NoCpu /\ state[l] = "USED")
  /\ \A l \in Procs : state[l] # "UNUSED" /\ state'[l] = "UNUSED" =>
       lock'[l] = NoCpu \/ ("forkn" \in Ops /\ "uvmcopy" \in Fails)
  /\ pc[p] \in {"forkcopy", "forkncopy"} =>
       lock'[idx[p]] = NoCpu \/ state'[idx[p]] = "UNUSED"
  /\ \/ lock'[WaitLock] = NoCpu
     \/ lock'[WaitLock] = c /\ pc'[p] \in LockedLabels
     \/ /\ lock'[WaitLock] = lock[WaitLock]
        /\ pc[p] \in LockedLabels => pc'[p] \in LockedLabels
  /\ pc'[p] \in {"forkn", "forkncopy"} => "forkn" \in Ops

\* A leaked lock stays leaked.
LEMMA LeakStays ==
  ASSUME NEW c \in CPU, Leaked(c),
         \A l \in Procs : state[l] = "UNUSED" /\ lock[l] = c => state'[l] = "UNUSED" /\ lock'[l] = c
  PROVE  Leaked(c)'
BY Zenon DEF Leaked

\* A step between two switches keeps the owners of all locks right.
LEMMA InsideInv ==
  ASSUME ProcInv, LockInv, NEW c \in CPU, NEW p \in Procs, Inside(c, p) PROVE LockInv'
<1>1. FnOK BY Zenon, InvTypes
<1>2. \A d \in CPU : cpu[d] = p => d = c
  BY NoSlot DEF Inside, ProcInv, KernelStackExclusive
<1>3. SlotOwner'
  <2> SUFFICES ASSUME NEW d \in CPU, NEW l \in Procs, lock'[l] = d, state'[l] # "UNUSED", cpu[d] # l
               PROVE  \E r \in Procs :
                        /\ cpu[d] = r /\ state'[r] = "RUNNING" /\ lock'[r] # d
                        /\ pc'[r] \in {"forkcopy", "forkncopy"} /\ idx'[r] = l
    BY DEF SlotOwner, Inside
  <2>1. lock[l] = d /\ state[l] # "UNUSED" BY Zenon, CpuAssumption DEF Inside
  <2>2. PICK r \in Procs :
               /\ cpu[d] = r /\ state[r] = "RUNNING" /\ lock[r] # d
               /\ pc[r] \in {"forkcopy", "forkncopy"} /\ idx[r] = l
    BY Zenon, <2>1 DEF LockInv, SlotOwner
  <2>3. r # p BY <2>2, CpuAssumption DEF Inside
  <2>4. state'[r] = "RUNNING" /\ lock'[r] # d BY Zenon, <2>2, CpuAssumption DEF Inside
  <2> QED BY <2>2, <2>3, <2>4 DEF Inside
<1>4. WaitOwner'
  <2> SUFFICES ASSUME NEW d \in CPU, lock'[WaitLock] = d
               PROVE  /\ cpu[d] \in Procs /\ state'[cpu[d]] = "RUNNING" /\ lock'[cpu[d]] # d
                      /\ pc'[cpu[d]] \in LockedLabels
    BY Zenon DEF WaitOwner, Inside
  <2>1. CASE d = c
    <3>1. lock'[p] # c BY Zenon, CpuAssumption DEF Inside
    <3>2. pc'[p] \in LockedLabels BY <2>1, CpuAssumption DEF Inside, LockInv, WaitOwner
    <3> QED BY Zenon, <2>1, <3>1, <3>2 DEF Inside
  <2>2. CASE d # c
    <3>1. lock[WaitLock] = d BY Zenon, <2>2, CpuAssumption DEF Inside
    <3>2. /\ cpu[d] \in Procs /\ state[cpu[d]] = "RUNNING" /\ lock[cpu[d]] # d
          /\ pc[cpu[d]] \in LockedLabels
      BY Zenon, <3>1 DEF LockInv, WaitOwner
    <3>3. cpu[d] # p BY Zenon, <1>2, <2>2
    <3> QED BY Zenon, <3>2, <3>3, CpuAssumption DEF Inside
  <2> QED BY Zenon, <2>1, <2>2
<1>5. \A d \in CPU : Leaked(d) => Leaked(d)'
  <2> SUFFICES ASSUME NEW d \in CPU, Leaked(d) PROVE Leaked(d)' BY Zenon
  <2>1. \A l \in Procs : state[l] = "UNUSED" /\ lock[l] = d => state'[l] = "UNUSED" /\ lock'[l] = d
    BY Zenon DEF Inside
  <2> QED BY Zenon, <2>1, LeakStays
<1>6. LeakCause'
  <2>1. ASSUME NEW d \in CPU, Leaked(d)' PROVE "forkn" \in Ops /\ "uvmcopy" \in Fails
    <3>1. PICK l \in Procs : lock'[l] = d /\ state'[l] = "UNUSED" BY Zenon, <2>1 DEF Leaked
    <3>2. lock[l] = d BY Zenon, <3>1, CpuAssumption DEF Inside
    <3>3. CASE state[l] = "UNUSED" BY Zenon, <3>2, <3>3 DEF LockInv, LeakCause, Leaked
    <3>4. CASE state[l] # "UNUSED" BY Zenon, <3>1, <3>4, CpuAssumption DEF Inside
    <3> QED BY Zenon, <3>3, <3>4
  <2>2. \A r \in Procs : pc'[r] \in {"forkn", "forkncopy"} => "forkn" \in Ops
    BY Zenon DEF Inside, LockInv, LeakCause
  <2> QED BY Zenon, <2>1, <2>2 DEF LeakCause
<1>7. PanicOnlyByLeak'
  BY Zenon, <1>5 DEF Inside, LockInv, PanicOnlyByLeak, ProcInv, TypeOK, CpuOK
<1> QED BY Zenon, <1>3, <1>4, <1>6, <1>7 DEF LockInv

\* Most steps are of this kind.
LEMMA InsideSteps ==
  ASSUME ProcInv, LockInv, NEW c \in CPU, NEW p \in Procs,
         \/ UserStep(c, p)       \/ SysReturn(c, p)     \/ AllocSkip(c, p)
         \/ AllocNoMem(c, p)     \/ ForkCopy(c, p)      \/ ForkCopyFail(c, p)
         \/ ForkParent(c, p)     \/ ForkRun(c, p)       \/ ForknCopy(c, p)
         \/ ForknCopyFail(c, p)  \/ ForknRollback(c, p) \/ ForknPublish(c, p)
         \/ ForknPubKid(c, p)    \/ ExitLock(c, p)      \/ Reparent(c, p)
         \/ ReparentWake(c, p)   \/ ExitWake(c, p)      \/ WaitStart(c, p)
         \/ WaitScan(c, p)       \/ WaitReap(c, p)      \/ WaitCopyoutFail(c, p)
         \/ WaitCheck(c, p)      \/ WaitallScan(c, p)   \/ WaitallCheck(c, p)
         \/ WaitallFree(c, p)    \/ kill(c, p)
  PROVE  Inside(c, p)
<1>1. FnOK /\ IdxOK BY Zenon, InvTypes
<1>2. WaitLock \notin Procs /\ WaitLock \in Locks /\ Procs \subseteq Locks BY Zenon, SlotIsLock
<1>3. \A r \in Procs : pc[r] \in {"forkn", "forkncopy"} => "forkn" \in Ops
  BY Zenon DEF LockInv, LeakCause
<1> USE <1>1, <1>2 DEF FnOK, IdxOK, Inside, At, On, LockedLabels, WaitLabels, table, locals, cpus
<1>4. CASE TrapKilled(c, p) BY ZenonT(60), <1>4 DEF TrapKilled, Goto
<1>5. CASE UserStep(c, p) BY ZenonT(60), <1>4, <1>5
                             DEF UserStep, SysFork, SysForkn, SysExit, SysWait,
                             SysWaitall, SysKill, Enter, Goto
<1>6. CASE SysReturn(c, p) BY Zenon, <1>6 DEF SysReturn, Goto
<1>7. CASE AllocSkip(c, p) BY Zenon, <1>3, <1>7
                              DEF AllocSkip, AllocFailed, Goto, Return, ResetLocals
<1>8. CASE AllocNoMem(c, p)
  <2>1. idx[p] \in Procs BY SMTT(30), <1>8, IdxFact DEF AllocNoMem, IdxLabels
  <2> QED BY Zenon, <1>8, <2>1 DEF AllocNoMem, AllocFailed, freeproc, Goto, Return, ResetLocals
<1>9. CASE ForkCopy(c, p) \/ ForkCopyFail(c, p)
  <2>1. idx[p] \in Procs /\ state[idx[p]] = "USED"
    BY Zenon, <1>9, MakingIdx DEF ForkCopy, ForkCopyFail
  <2> QED BY <1>9, <2>1 DEF ForkCopy, ForkCopyFail, freeproc, Release, Goto, Return, ResetLocals
<1>10. CASE ForkParent(c, p) BY Zenon, <1>10 DEF ForkParent, Goto
<1>11. CASE ForkRun(c, p)
  <2>1. idx[p] \in Procs /\ state[idx[p]] = "USED" BY Zenon, <1>11, MakingIdx DEF ForkRun
  <2> QED BY Zenon, <1>11, <2>1 DEF ForkRun, Goto, Return, ResetLocals
<1>12. CASE ForknCopy(c, p) \/ ForknCopyFail(c, p)
  <2>1. idx[p] \in Procs /\ state[idx[p]] = "USED"
    BY Zenon, <1>12, MakingIdx DEF ForknCopy, ForknCopyFail
  <2>2. "forkn" \in Ops BY Zenon, <1>12, <1>3 DEF ForknCopy, ForknCopyFail
  <2>3. CASE ForknCopy(c, p) BY Zenon, <2>1, <2>2, <2>3 DEF ForknCopy, Release, Goto
  <2>4. CASE ForknCopyFail(c, p) BY Zenon, <2>1, <2>2, <2>4 DEF ForknCopyFail, freeproc, Goto
  <2> QED BY Zenon, <1>12, <2>3, <2>4
<1>13. CASE ForknRollback(c, p)
  <2>1. CASE kids[p] = <<>> BY ZenonT(60), <1>13, <2>1 DEF ForknRollback, Goto, Return, ResetLocals
  <2>2. CASE kids[p] # <<>>
    BY Zenon, <1>13, <2>2, KidsHead DEF ForknRollback, HeadOK, freeproc, Free
  <2> QED BY Zenon, <2>1, <2>2
<1>14. CASE ForknPublish(c, p) BY Zenon, <1>14 DEF ForknPublish, Acquire, Goto
<1>15. CASE ForknPubKid(c, p)
  <2>1. CASE kids[p] = <<>> BY ZenonT(60), <1>15, <2>1
                               DEF ForknPubKid, Release, Goto, Return, ResetLocals
  <2>2. CASE kids[p] # <<>> BY Zenon, <1>15, <2>2, KidsHead DEF ForknPubKid, HeadOK
  <2> QED BY Zenon, <2>1, <2>2
<1>16. CASE ExitLock(c, p) BY Zenon, <1>16 DEF ExitLock, Acquire, Goto
<1>17. CASE Reparent(c, p) BY Zenon, <1>17 DEF Reparent, Goto
<1>18. CASE ReparentWake(c, p) \/ ExitWake(c, p)
  <2>1. idx[p] \in Procs BY SMTT(30), <1>18, IdxFact DEF ReparentWake, ExitWake, IdxLabels
  <2> QED BY Zenon, <1>18, <2>1 DEF ReparentWake, ExitWake, WakeupSlot, Goto
<1>19. CASE WaitStart(c, p) BY Zenon, <1>19 DEF WaitStart, Acquire
<1>20. CASE WaitScan(c, p) BY ZenonT(60), <1>20 DEF WaitScan
<1>21. CASE WaitReap(c, p)
  <2>1. idx[p] \in Procs BY Zenon, <1>21, ScanIdx DEF WaitReap
  <2> QED BY Zenon, <1>21, <2>1 DEF WaitReap, freeproc, Free, Release, Goto, Return, ResetLocals
<1>22. CASE WaitCopyoutFail(c, p)
  BY Zenon, <1>22 DEF WaitCopyoutFail, Release, Goto, Return, ResetLocals
<1>23. CASE WaitCheck(c, p) BY Zenon, <1>23 DEF WaitCheck, Release, Goto, Return, ResetLocals
<1>24. CASE WaitallScan(c, p) BY Zenon, <1>24 DEF WaitallScan
<1>25. CASE WaitallCheck(c, p) BY Zenon, <1>25 DEF WaitallCheck, Release, Goto, Return, ResetLocals
<1>26. CASE WaitallFree(c, p)
  <2>1. CASE kids[p] = <<>> BY Zenon, <1>26, <2>1
                               DEF WaitallFree, Release, Goto, Return, ResetLocals
  <2>2. CASE kids[p] # <<>> BY Zenon, <1>26, <2>2, KidsHead DEF WaitallFree, HeadOK, freeproc, Free
  <2> QED BY Zenon, <2>1, <2>2
<1>27. CASE kill(c, p)
  <2>1. idx[p] \in Procs BY Zenon, <1>27, IdxFact DEF kill, IdxLabels
  <2> QED BY ZenonT(60), <1>27, <2>1 DEF kill, Goto, Return, ResetLocals
<1> QED BY ZenonT(60), <1>5, <1>6, <1>7, <1>8, <1>9, <1>10, <1>11, <1>12, <1>13, <1>14, <1>15,
           <1>16,
           <1>17, <1>18, <1>19, <1>20, <1>21, <1>22, <1>23, <1>24, <1>25, <1>26, <1>27

\* SlotOwner survives a step that makes no holder's reason go away.
LEMMA OwnerStep ==
  ASSUME SlotOwner,
         \A l \in Procs : state[l] = "UNUSED" => state'[l] = "UNUSED",
         \A d \in CPU, l \in Procs : lock'[l] = d =>
           (lock[l] = d /\ (cpu[d] = l => cpu'[d] = l)) \/ cpu'[d] = l,
         \A d \in CPU, r \in Procs :
           /\ cpu[d] = r /\ state[r] = "RUNNING" /\ lock[r] # d
           /\ pc[r] \in {"forkcopy", "forkncopy"} /\ idx[r] \in Procs /\ lock[idx[r]] = d
           => cpu'[d] = r /\ state'[r] = "RUNNING" /\ lock'[r] # d /\ pc'[r] = pc[r] /\ idx'[r] = idx[r]
  PROVE  SlotOwner'
<1> SUFFICES ASSUME NEW d \in CPU, NEW l \in Procs, lock'[l] = d, state'[l] # "UNUSED", cpu'[d] # l
             PROVE  \E r \in Procs :
                      /\ cpu'[d] = r /\ state'[r] = "RUNNING" /\ lock'[r] # d
                      /\ pc'[r] \in {"forkcopy", "forkncopy"} /\ idx'[r] = l
  BY DEF SlotOwner
<1>1. lock[l] = d /\ cpu[d] # l /\ state[l] # "UNUSED" BY Zenon
<1>2. PICK r \in Procs : /\ cpu[d] = r /\ state[r] = "RUNNING" /\ lock[r] # d
                         /\ pc[r] \in {"forkcopy", "forkncopy"} /\ idx[r] = l
  BY SMTT(30), <1>1 DEF SlotOwner
<1> QED BY ZenonT(60), <1>1, <1>2

\* WaitOwner survives a step that takes no lock of the holder's process.
LEMMA WaitOwnerStep ==
  ASSUME ProcInv, WaitOwner, lock'[WaitLock] \in {lock[WaitLock], NoCpu},
         \A d \in CPU, r \in Procs :
           cpu[d] = r /\ state[r] = "RUNNING" /\ lock[r] # d /\ pc[r] \in LockedLabels
             /\ lock'[WaitLock] = d
           => cpu'[d] = r /\ state'[r] = "RUNNING" /\ lock'[r] # d /\ pc'[r] \in LockedLabels
  PROVE  WaitOwner'
<1> SUFFICES ASSUME NEW d \in CPU, lock'[WaitLock] = d
             PROVE  /\ cpu'[d] \in Procs /\ state'[cpu'[d]] = "RUNNING" /\ lock'[cpu'[d]] # d
                    /\ pc'[cpu'[d]] \in LockedLabels
  BY Zenon DEF WaitOwner
<1>1. lock[WaitLock] = d BY Zenon, CpuAssumption
<1> QED BY <1>1 DEF WaitOwner

\* A leaked lock is still explained after a step that leaks none.
LEMMA LeakStep ==
  ASSUME LeakCause, PanicOnlyByLeak, panicked' = panicked, panicked \subseteq CPU,
         \A r \in Procs : pc'[r] \in {"forkn", "forkncopy"} => "forkn" \in Ops,
         \A d \in CPU : Leaked(d)' => Leaked(d),
         \A d \in panicked : Leaked(d) => Leaked(d)'
  PROVE  LeakCause' /\ PanicOnlyByLeak'
<1>1. LeakCause' BY Zenon DEF LeakCause
<1>2. PanicOnlyByLeak' BY Zenon DEF PanicOnlyByLeak
<1> QED BY Zenon, <1>1, <1>2

\* The steps that give p->lock to or take it from the scheduler, and allocproc's
\* success.
LEMMA HandOverInv ==
  ASSUME ProcInv, LockInv, NEW c \in CPU, NEW p \in Procs,
         \/ SwitchIn(c, p) \/ Resume(c, p) \/ SwitchOut(c, p) \/ yield(c, p)
         \/ AllocFound(c, p) \/ ExitZombie(c, p) \/ sleep(c, p)
  PROVE  LockInv'
<1>1. FnOK /\ IdxOK BY Zenon, InvTypes
<1>2. WaitLock \notin Procs /\ WaitLock \in Locks /\ Procs \subseteq Locks BY Zenon, SlotIsLock
<1>c. cpu \in [CPU -> Procs \cup {NoProc}] /\ panicked \subseteq CPU
  BY Zenon DEF ProcInv, TypeOK, CpuOK
<1>k. \A d, b \in CPU : cpu[d] # NoProc /\ cpu[b] = cpu[d] => b = d
  BY Zenon DEF ProcInv, KernelStackExclusive
<1>i. SlotOwner /\ WaitOwner /\ LeakCause /\ PanicOnlyByLeak BY Zenon DEF LockInv
<1> USE <1>1, <1>2, <1>c, <1>k, NoSlot, CpuAssumption DEF FnOK, IdxOK, On, table, cpus, locals
<1>n. \A r \in Procs : pc'[r] \in {"forkn", "forkncopy"} =>
        "forkn" \in Ops
  BY Zenon, <1>i
     DEF LeakCause, SwitchIn, Resume, SwitchOut, yield, AllocFound, ExitZombie, sleep, At
<1>3. CASE SwitchIn(c, p)
  <2>e. /\ cpu[c] = NoProc /\ cpu'[c] = p /\ \A d \in CPU \ {c} : cpu'[d] = cpu[d]
        /\ state[p] = "RUNNABLE" /\ lock[p] = NoCpu /\ lock'[p] = c
        /\ \A r \in Procs \ {p} : state'[r] = state[r] /\ lock'[r] = lock[r]
        /\ state'[p] = "RUNNING" /\ lock'[WaitLock] = lock[WaitLock]
        /\ pc' = pc /\ idx' = idx /\ panicked' = panicked
    BY Zenon, <1>3 DEF SwitchIn, Acquire, Free
  <2>1. SlotOwner'
    <3>1. \A l \in Procs : state[l] = "UNUSED" => state'[l] = "UNUSED" BY Zenon, <2>e
    <3>2. \A d \in CPU, l \in Procs : lock'[l] = d =>
            (lock[l] = d /\ (cpu[d] = l => cpu'[d] = l)) \/ cpu'[d] = l
      <4> TAKE d \in CPU, l \in Procs
      <4>1. CASE l = p BY Zenon, <2>e, <4>1
      <4>2. CASE l # p BY Zenon, <2>e, <4>2
      <4> QED BY ZenonT(60), <4>1, <4>2
    <3>3. \A d \in CPU, r \in Procs :
            /\ cpu[d] = r /\ state[r] = "RUNNING" /\ lock[r] # d
            /\ pc[r] \in {"forkcopy", "forkncopy"} /\ idx[r] \in Procs /\ lock[idx[r]] = d
            => /\ cpu'[d] = r /\ state'[r] = "RUNNING" /\ lock'[r] # d
               /\ pc'[r] = pc[r] /\ idx'[r] = idx[r]
      BY ZenonT(40), <2>e
    <3> QED BY ZenonT(60), <1>i, <3>1, <3>2, <3>3, OwnerStep
  <2>2. WaitOwner' BY ZenonT(60), <1>i, <2>e, WaitOwnerStep
  <2>3. \A d \in CPU : Leaked(d)' <=> Leaked(d) BY ZenonT(60), <2>e DEF Leaked
  <2>4. LeakCause' /\ PanicOnlyByLeak' BY Zenon, <1>i, <1>n, <2>e, <2>3, LeakStep
  <2> QED BY Zenon, <2>1, <2>2, <2>4 DEF LockInv
<1>4. CASE Resume(c, p)
  <2>e. /\ cpu' = cpu /\ cpu[c] = p /\ state[p] = "RUNNING" /\ lock[p] = c /\ lock'[p] = NoCpu
        /\ \A r \in Procs \ {p} : lock'[r] = lock[r] /\ pc'[r] = pc[r]
        /\ state' = state /\ lock'[WaitLock] = lock[WaitLock]
        /\ idx' = idx /\ panicked' = panicked
    BY Zenon, <1>4 DEF Resume, Release
  <2>1. SlotOwner' BY ZenonT(40), <1>i, <2>e, OwnerStep
  <2>2. WaitOwner' BY ZenonT(60), <1>i, <2>e, WaitOwnerStep
  <2>3. \A d \in CPU : Leaked(d)' <=> Leaked(d) BY Zenon, <2>e DEF Leaked
  <2>4. LeakCause' /\ PanicOnlyByLeak' BY Zenon, <1>i, <1>n, <2>e, <2>3, LeakStep
  <2> QED BY Zenon, <2>1, <2>2, <2>4 DEF LockInv
<1>5. CASE SwitchOut(c, p)
  <2>e. /\ cpu[c] = p /\ cpu'[c] = NoProc /\ \A d \in CPU \ {c} : cpu'[d] = cpu[d]
        /\ state[p] # "RUNNING" /\ lock[p] = c /\ lock'[p] = NoCpu
        /\ \A l \in Locks : lock[l] = c <=> l = p
        /\ \A r \in Procs \ {p} : lock'[r] = lock[r]
        /\ state' = state /\ lock'[WaitLock] = lock[WaitLock]
        /\ pc' = pc /\ idx' = idx /\ panicked' = panicked /\ c \notin panicked
    BY Zenon, <1>5 DEF SwitchOut, Release, Holds
  <2>1. SlotOwner'
    <3>1. ASSUME NEW d \in CPU, NEW l \in Procs, lock'[l] = d PROVE d # c /\ lock[l] = d
      <4>1. l # p BY Zenon, <2>e, <3>1
      <4> QED BY Zenon, <2>e, <3>1, <4>1
    <3>2. ASSUME NEW d \in CPU, NEW r \in Procs, cpu[d] = r, state[r] = "RUNNING", lock[r] # d
          PROVE  cpu'[d] = r /\ state'[r] = "RUNNING" /\ lock'[r] # d
      <4>1. r # p BY Zenon, <2>e, <3>2
      <4> QED BY Zenon, <2>e, <3>2, <4>1
    <3>3. \A d \in CPU, r \in Procs :
            /\ cpu[d] = r /\ state[r] = "RUNNING" /\ lock[r] # d
            /\ pc[r] \in {"forkcopy", "forkncopy"} /\ idx[r] \in Procs /\ lock[idx[r]] = d
            => /\ cpu'[d] = r /\ state'[r] = "RUNNING" /\ lock'[r] # d
               /\ pc'[r] = pc[r] /\ idx'[r] = idx[r]
      BY ZenonT(60), <2>e, <3>2
    <3>4. \A l \in Procs : state[l] = "UNUSED" => state'[l] = "UNUSED" BY Zenon, <2>e
    <3>5. \A d \in CPU, l \in Procs : lock'[l] = d =>
            (lock[l] = d /\ (cpu[d] = l => cpu'[d] = l)) \/ cpu'[d] = l
      <4>1. \A d \in CPU \ {c} : cpu'[d] = cpu[d] BY ZenonT(60), <2>e
      <4> QED BY <3>1, <4>1
    <3> QED BY Zenon, <1>i, <3>3, <3>4, <3>5, OwnerStep
  <2>2. WaitOwner' BY ZenonT(60), <1>i, <2>e, WaitOwnerStep
  <2>3. \A d \in CPU : Leaked(d)' => Leaked(d)
    <3> SUFFICES ASSUME NEW d \in CPU, NEW q \in Procs, lock'[q] = d, state'[q] = "UNUSED"
                 PROVE  lock[q] = d /\ state[q] = "UNUSED"
      BY ZenonT(60) DEF Leaked
    <3>1. q # p BY Zenon, <2>e
    <3> QED BY ZenonT(60), <2>e, <3>1
  <2>4. \A d \in CPU : Leaked(d) /\ d # c => Leaked(d)' BY Zenon, <2>e DEF Leaked
  <2>5. LeakCause' /\ PanicOnlyByLeak' BY Zenon, <1>i, <1>n, <2>e, <2>3, <2>4, LeakStep
  <2> QED BY Zenon, <2>1, <2>2, <2>5 DEF LockInv
<1>6. CASE yield(c, p)
  <2>e. /\ cpu' = cpu /\ cpu[c] = p
        /\ state[p] = "RUNNING" /\ lock[p] = NoCpu /\ lock'[p] = c
        /\ pc[p] # "user" => \A l \in Locks : lock[l] # c
        /\ \A r \in Procs \ {p} : state'[r] = state[r] /\ lock'[r] = lock[r]
        /\ state'[p] = "RUNNABLE" /\ lock'[WaitLock] = lock[WaitLock]
        /\ pc' = pc /\ idx' = idx /\ panicked' = panicked
    BY Zenon, <1>6 DEF yield, Acquire, Free, Holds
  <2>1. SlotOwner'
    <3>1. \A l \in Procs : state[l] = "UNUSED" => state'[l] = "UNUSED" BY Zenon, <2>e
    <3>2. \A d \in CPU, l \in Procs : lock'[l] = d => lock[l] = d \/ cpu[d] = l BY Zenon, <2>e
    <3>3. \A d \in CPU, r \in Procs :
            /\ cpu[d] = r /\ state[r] = "RUNNING" /\ lock[r] # d
            /\ pc[r] \in {"forkcopy", "forkncopy"} /\ idx[r] \in Procs /\ lock[idx[r]] = d
            => r # p
      BY ZenonT(60), <2>e
    <3>4. \A d \in CPU, r \in Procs :
            /\ cpu[d] = r /\ state[r] = "RUNNING" /\ lock[r] # d
            /\ pc[r] \in {"forkcopy", "forkncopy"} /\ idx[r] \in Procs /\ lock[idx[r]] = d
            => /\ cpu'[d] = r /\ state'[r] = "RUNNING" /\ lock'[r] # d
               /\ pc'[r] = pc[r] /\ idx'[r] = idx[r]
      BY Zenon, <2>e, <3>3
    <3>5. \A d \in CPU, l \in Procs : lock'[l] = d =>
            (lock[l] = d /\ (cpu[d] = l => cpu'[d] = l)) \/ cpu'[d] = l
      <4>1. cpu' = cpu BY Zenon, <2>e
      <4> QED BY Zenon, <3>2, <4>1
    <3> QED BY ZenonT(60), <1>i, <3>1, <3>4, <3>5, OwnerStep
  <2>2. WaitOwner' BY ZenonT(60), <1>i, <2>e DEF WaitOwner, LockedLabels, WaitLabels
  <2>3. \A d \in CPU : Leaked(d)' <=> Leaked(d) BY ZenonT(60), <2>e DEF Leaked
  <2>4. LeakCause' /\ PanicOnlyByLeak' BY Zenon, <1>i, <1>n, <2>e, <2>3, LeakStep
  <2> QED BY Zenon, <2>1, <2>2, <2>4 DEF LockInv
<1>7. CASE AllocFound(c, p)
  <2>0. idx[p] \in Procs BY Zenon, <1>7, IdxFact DEF AllocFound, At, IdxLabels
  <2>e. /\ cpu' = cpu /\ cpu[c] = p /\ state[p] = "RUNNING" /\ lock[p] # c
        /\ state[idx[p]] = "UNUSED" /\ idx[p] # p /\ lock[idx[p]] = NoCpu /\ lock'[idx[p]] = c
        /\ \A r \in Procs \ {idx[p]} : state'[r] = state[r] /\ lock'[r] = lock[r]
        /\ state'[idx[p]] = "USED" /\ lock'[WaitLock] = lock[WaitLock]
        /\ pc[p] \in {"fork", "forkn"} /\ pc'[p] \in {"forkcopy", "forkncopy"}
        /\ \A r \in Procs \ {p, idx[p]} : pc'[r] = pc[r]
        /\ idx' = idx /\ panicked' = panicked
    BY Zenon, <1>7, <2>0 DEF AllocFound, At, Acquire, Free
  <2>1. SlotOwner'
    <3>1. ASSUME NEW d \in CPU, NEW l \in Procs, l # idx[p], lock'[l] = d,
                 state'[l] # "UNUSED", cpu[d] # l
          PROVE  \E r \in Procs :
                    /\ cpu[d] = r /\ state'[r] = "RUNNING" /\ lock'[r] # d
                    /\ pc'[r] \in {"forkcopy", "forkncopy"} /\ idx'[r] = l
      <4>1. PICK r \in Procs :
                    /\ cpu[d] = r /\ state[r] = "RUNNING" /\ lock[r] # d
                    /\ pc[r] \in {"forkcopy", "forkncopy"} /\ idx[r] = l
        BY <3>1, <2>e, <1>i DEF SlotOwner
      <4>2. r # p /\ r # idx[p] BY Zenon, <4>1, <2>e
      <4> QED BY Zenon, <4>1, <4>2, <2>e
    <3>2. lock'[p] # c BY Zenon, <2>e
    <3> QED BY <2>0, <2>e, <3>1, <3>2 DEF SlotOwner
  <2>2. WaitOwner'
    <3>1. ASSUME NEW d \in CPU, lock'[WaitLock] = d
          PROVE  /\ cpu[d] \in Procs /\ cpu[d] # p /\ cpu[d] # idx[p]
                 /\ state[cpu[d]] = "RUNNING" /\ lock[cpu[d]] # d /\ pc[cpu[d]] \in LockedLabels
      BY Zenon, <1>i, <2>e, <3>1 DEF WaitOwner, LockedLabels, WaitLabels
    <3> QED BY <2>e, <3>1 DEF WaitOwner
  <2>3. \A d \in CPU : Leaked(d)' <=> Leaked(d) BY ZenonT(40), <2>0, <2>e DEF Leaked
  <2> HIDE DEF IdxOK
  <2> QED BY ZenonT(60), <1>7, <1>i, <2>e, <2>1, <2>2, <2>3
             DEF LockInv, LeakCause, PanicOnlyByLeak, AllocFound, At
<1>8. CASE ExitZombie(c, p) \/ sleep(c, p)
  <2>e. /\ cpu' = cpu /\ cpu[c] = p /\ lock'[p] = c /\ lock'[WaitLock] = NoCpu
        /\ state[p] = "RUNNING" /\ state'[p] \in {"ZOMBIE", "SLEEPING"} /\ lock[p] = NoCpu
        /\ \A r \in Procs \ {p} : state'[r] = state[r] /\ lock'[r] = lock[r] /\ idx'[r] = idx[r]
        /\ pc' = pc /\ pc[p] \in {"zombie", "waitsleep", "waitallsleep"} /\ panicked' = panicked
    BY <1>8 DEF ExitZombie, sleep, At, Free, ResetLocals
  <2>1. SlotOwner'
    <3>1. \A l \in Procs : state[l] = "UNUSED" => state'[l] = "UNUSED" BY ZenonT(60), <2>e
    <3>2. \A d \in CPU, l \in Procs : lock'[l] = d =>
            (lock[l] = d /\ (cpu[d] = l => cpu'[d] = l)) \/ cpu'[d] = l
      <4> TAKE d \in CPU, l \in Procs
      <4>1. CASE l = p BY Zenon, <2>e, <4>1
      <4>2. CASE l # p BY Zenon, <2>e, <4>2
      <4> QED BY <4>1, <4>2
    <3>3. \A d \in CPU, r \in Procs :
            /\ cpu[d] = r /\ state[r] = "RUNNING" /\ lock[r] # d
            /\ pc[r] \in {"forkcopy", "forkncopy"} /\ idx[r] \in Procs /\ lock[idx[r]] = d
            => /\ cpu'[d] = r /\ state'[r] = "RUNNING" /\ lock'[r] # d
               /\ pc'[r] = pc[r] /\ idx'[r] = idx[r]
      BY Zenon, <2>e
    <3> QED BY Zenon, <1>i, <3>1, <3>2, <3>3, OwnerStep
  <2>2. WaitOwner' BY Zenon, <1>i, <2>e, WaitOwnerStep
  <2>3. \A d \in CPU : Leaked(d)' <=> Leaked(d) BY ZenonT(60), <2>e DEF Leaked
  <2>4. LeakCause' /\ PanicOnlyByLeak' BY Zenon, <1>i, <1>n, <2>e, <2>3, LeakStep
  <2> QED BY Zenon, <2>1, <2>2, <2>4 DEF LockInv
<1> QED BY Zenon, <1>3, <1>4, <1>5, <1>6, <1>7, <1>8

\* A thread that executes wants no lock its CPU holds, but for a leaked one.
LEMMA WantsForeign ==
  ASSUME ProcInv, LockInv, NEW c \in CPU, NEW p \in Procs, cpu[c] = p, state[p] = "RUNNING",
         lock[p] # c, NEW l \in Locks, lock[l] = c, Wants(p) = l
  PROVE  Leaked(c)
<1>1. CASE l = WaitLock
  <2>1. pc[p] \in LockedLabels BY Zenon, <1>1 DEF LockInv, WaitOwner
  <2>2. idx[p] \in 0 .. NPROC /\ kids[p] \in Seq(Procs) BY Zenon, InvTypes DEF IdxOK
  <2>3. p # WaitLock /\ NoProc # WaitLock /\ NPROC = WaitLock
    BY SlotIsLock, NPROCAssumption DEF NoProc, WaitLock
  <2>4. kids[p] # <<>> => Head(kids[p]) # WaitLock BY Zenon, KidsHead, SlotIsLock DEF HeadOK
  <2>5. pc[p] \in {"reparentwake", "exitwake"} => idx[p] # WaitLock
    BY Zenon, IdxFact, SlotIsLock DEF IdxLabels
  <2>6. pc[p] \in {"waitscan", "waitallscan"} => Wants(p) # WaitLock
    BY <2>2, <2>3, NPROCAssumption DEF Wants
  <2>7. pc[p] \notin {"waitscan", "waitallscan"} => Wants(p) # WaitLock
    BY Zenon, <2>1, <2>3, <2>4, <2>5 DEF Wants, LockedLabels, WaitLabels
  <2> QED BY Zenon, <1>1, <2>6, <2>7
<1>2. CASE l \in Procs
  <2>1. CASE state[l] = "UNUSED" BY Zenon, <1>2, <2>1 DEF Leaked
  <2>2. CASE cpu[c] = l BY Zenon, <2>2
  <2>3. CASE pc[p] \in {"forkcopy", "forkncopy"}
    <3>1. Wants(p) = NoProc BY Zenon, <2>3 DEF Wants
    <3> QED BY Zenon, <3>1, <1>2, NoSlot
  <2> QED BY <1>2, <2>1, <2>2, <2>3 DEF LockInv, SlotOwner
<1> QED BY <1>1, <1>2, NPROCAssumption DEF Locks, Procs, WaitLock

\* sched's and acquire's checks fire only on a CPU that holds a leaked lock.
LEMMA PanicLeak ==
  ASSUME ProcInv, LockInv, NEW c \in CPU, NEW p \in Procs,
         SchedPanic(c, p) \/ AcquirePanic(c, p)
  PROVE  LockInv'
<1>e. /\ panicked' = panicked \cup {c}
      /\ UNCHANGED <<state, lock, cpu, pc, idx>>
  BY Zenon DEF SchedPanic, AcquirePanic, locals
<1>3. Leaked(c)
  <2>1. CASE SchedPanic(c, p)
    <3>1. PICK l \in Locks : lock[l] = c /\ l # p
      BY Zenon, <2>1, SlotIsLock DEF SchedPanic, Holds
    <3>2. cpu[c] = p /\ lock[p] = c BY Zenon, <2>1 DEF SchedPanic, On
    <3>3. l # WaitLock BY Zenon, <3>1, <3>2 DEF LockInv, WaitOwner
    <3>4. l \in Procs BY <3>3, NPROCAssumption DEF Locks, Procs, WaitLock
    <3>5. state[l] = "UNUSED" BY <3>1, <3>2, <3>4 DEF LockInv, SlotOwner
    <3> QED BY Zenon, <3>1, <3>4, <3>5 DEF Leaked
  <2>2. CASE AcquirePanic(c, p) BY Zenon, <2>2, WantsForeign DEF AcquirePanic, On
  <2> QED BY Zenon, <2>1, <2>2
<1>4. \A d \in CPU : Leaked(d)' <=> Leaked(d) BY SMTT(30), <1>e DEF Leaked
<1>5. SlotOwner' BY SMTT(30), <1>e DEF LockInv, SlotOwner
<1>6. WaitOwner' BY Zenon, <1>e DEF LockInv, WaitOwner
<1>7. LeakCause' BY Zenon, <1>e, <1>4 DEF LockInv, LeakCause
<1>8. PanicOnlyByLeak'
  BY Zenon, <1>e, <1>3, <1>4 DEF LockInv, PanicOnlyByLeak, ProcInv, TypeOK, CpuOK
<1> QED BY Zenon, <1>5, <1>6, <1>7, <1>8 DEF LockInv

\* LockInv is inductive, given ProcInv.
LEMMA LockStep == ASSUME ProcInv, LockInv, [Next]_vars PROVE LockInv'
<1>1. CASE UNCHANGED vars
  BY <1>1 DEF LockInv, SlotOwner, WaitOwner, LeakCause, PanicOnlyByLeak, Leaked, vars
<1>2. ASSUME NEW c \in CPU, NEW p \in Procs,
             \/ SchedStep(c, p) \/ AllocFound(c, p) \/ ExitZombie(c, p) \/ sleep(c, p)
      PROVE  LockInv'
  BY Zenon, <1>2, HandOverInv DEF SchedStep
<1>3. ASSUME NEW c \in CPU, NEW p \in Procs, SchedPanic(c, p) \/ AcquirePanic(c, p)
      PROVE  LockInv'
  BY Zenon, <1>3, PanicLeak
<1>4. ASSUME NEW c \in CPU, NEW p \in Procs,
             UserStep(c, p) \/ KernelStep(c, p),
             ~AllocFound(c, p), ~ExitZombie(c, p), ~sleep(c, p)
      PROVE  LockInv'
  <2>1. Inside(c, p) BY Zenon, <1>4, InsideSteps DEF KernelStep
  <2> QED BY Zenon, <2>1, InsideInv
<1> QED BY ZenonT(60), <1>1, <1>2, <1>3, <1>4 DEF Next

\* main() leaves every lock free.
LEMMA LockInit == ASSUME Init PROVE LockInv
BY Zenon, SlotIsLock, CpuAssumption
   DEF Init, LockInv, SlotOwner, WaitOwner, LeakCause, Leaked, PanicOnlyByLeak

\* Two CPUs spin for each other's locks only if one of them leaked its lock.
LEMMA SpinLeak == ASSUME ProcInv, LockInv PROVE SpinOnlyByLeak
<1> SUFFICES ASSUME NEW c \in CPU, NEW d \in CPU, SpinsFor(c, d), SpinsFor(d, c), ~Leaked(c), ~Leaked(d)
             PROVE  FALSE
  BY Zenon DEF SpinOnlyByLeak
<1>1. cpu[c] \in Procs /\ cpu[d] \in Procs BY Zenon DEF SpinsFor, ProcInv, TypeOK, CpuOK
<1>2. ASSUME NEW a \in CPU, NEW b \in CPU, SpinsFor(a, b), SpinsFor(b, a), cpu[a] \in Procs, ~Leaked(a)
      PROVE  lock[WaitLock] = a
  <2>1. PICK l \in Locks : Wants(cpu[b]) = l /\ lock[l] = a BY Zenon, <1>2 DEF SpinsFor
  <2>2. ASSUME l \in Procs PROVE FALSE
    <3>1. state[l] # "UNUSED" BY ZenonT(60), <1>2, <2>1, <2>2 DEF Leaked
    <3>2. cpu[a] # l BY Zenon, <1>2, <2>1 DEF SpinsFor
    <3>3. pc[cpu[a]] \in {"forkcopy", "forkncopy"} BY <2>1, <2>2, <3>1, <3>2 DEF LockInv, SlotOwner
    <3>4. Wants(cpu[a]) = NoProc BY Zenon, <3>3 DEF Wants
    <3> QED BY <1>2, <3>4, NPROCAssumption DEF SpinsFor, NoProc, Locks
  <2> QED BY <2>1, <2>2, NPROCAssumption DEF Locks, Procs, WaitLock
<1>3. lock[WaitLock] = c /\ lock[WaitLock] = d BY Zenon, <1>1, <1>2
<1>4. c = d BY Zenon, <1>3
<1>5. Leaked(c) BY Zenon, <1>1, <1>4, WantsForeign DEF SpinsFor
<1> QED BY Zenon, <1>5

-----------------------------------------------------------------------------
(* Wakeups.                                                                *)

\* p's thread executes: it is not on its way into or out of the scheduler.
Executes(p) == state[p] = "RUNNING" /\ \A c \in CPU : cpu[c] = p => lock[p] # c

\* p is asleep in wait or waitall, or about to be, with wait_lock held.
Dozing(p) ==
  state[p] = "SLEEPING" \/ (pc[p] \in {"waitsleep", "waitallsleep"} /\ Executes(p))

\* What p found when it decided to sleep.
Expects(p) ==
  /\ Children(p) # {}
  /\ pc[p] = "waitsleep" => \A q \in Children(p) : state[q] # "ZOMBIE"
  /\ pc[p] = "waitallsleep" => \E q \in Children(p) : state[q] # "ZOMBIE"

\* reparent has given init a child and its wakeup has not reached slot 0 yet.
InitToWake == \E r \in Procs : pc[r] = "reparentwake" /\ idx[r] = 0

\* The scans of wait and waitall know the slots behind them.
ScanKnows(p) ==
  /\ pc[p] = "waitscan" =>
       /\ have[p] = 1 => Children(p) # {}
       /\ \A q \in Children(p) : q < idx[p] => state[q] # "ZOMBIE"
  /\ pc[p] = "waitallscan" /\ allDone[p] = 0 =>
       \E q \in Children(p) : state[q] # "ZOMBIE"
  /\ pc[p] \in {"waitallscan", "waitallfree"} => Range(kids[p]) \subseteq Children(p)

\* Nobody sleeps through what it waits for.
SleepKnows(p) ==
  /\ Dozing(p) => Expects(p) \/ (p = initproc /\ InitToWake)
  /\ state[p] = "SLEEPING" => chan[p] = p

\* Behind the scan of a wakeup, and once exit is about to become a ZOMBIE,
\* the process to wake is awake.
WakeupDone(p) ==
  /\ pc[p] \in {"forkret", "user", "ret", "exit", "reparent", "zombie"} => idx[p] = 0
  /\ pc[p] = "exitwake" /\ idx[p] > parent[p] => state[parent[p]] # "SLEEPING"
  /\ pc[p] = "zombie" /\ state[p] = "RUNNING" => state[parent[p]] # "SLEEPING"
  /\ pc[p] = "reparentwake" /\ idx[p] > 0 => state[initproc] # "SLEEPING"

WakeOf(p) == ScanKnows(p) /\ SleepKnows(p) /\ WakeupDone(p)
WakeInv == \A p \in Procs : WakeOf(p)

-----------------------------------------------------------------------------
(* Wakeups: WakeInv is inductive, given ProcInv and FamilyInv.             *)

ScanLabels == {"waitscan", "waitallscan", "waitallfree"}

\* What a step of p may do for every other process to keep its WakeOf.
Undisturbed(p) ==
  /\ \A r \in Procs \ {p} :
       /\ \/ /\ pc'[r] = pc[r] /\ idx'[r] = idx[r] /\ have'[r] = have[r]
             /\ allDone'[r] = allDone[r] /\ kids'[r] = kids[r]
          \/ state'[r] = "USED" /\ pc'[r] = "forkret" /\ idx'[r] = 0
       /\ Dozing(r)' => Dozing(r)
       /\ state'[r] \in {"RUNNING", "SLEEPING"} => state'[r] = state[r]
       /\ state'[r] = "SLEEPING" => chan'[r] = chan[r]
       /\ pc'[r] \in ScanLabels \/ (Dozing(r)' /\ ~(r = initproc /\ InitToWake')) =>
            \A q \in Procs : /\ parent'[q] = r <=> parent[q] = r
                             /\ parent[q] = r => (state'[q] = "ZOMBIE" <=> state[q] = "ZOMBIE")
       /\ pc'[r] \in {"exitwake", "zombie"} /\ state'[r] = "RUNNING" =>
            parent'[r] = parent[r] /\ parent[r] \in Procs
       /\ pc'[r] \in {"exitwake", "reparentwake"} \/ (pc'[r] = "zombie" /\ state'[r] = "RUNNING") =>
            (state'[p] = "SLEEPING" => state[p] = "SLEEPING")
  /\ Dozing(initproc)' /\ InitToWake => InitToWake'

\* A step of p that does not disturb the others leaves what they know of the
\* table true.
LEMMA OthersWake ==
  ASSUME ProcInv, ProcInv', WakeInv, NEW p \in Procs, Undisturbed(p), NEW r \in Procs \ {p}
  PROVE  WakeOf(r)'
<1>1. WakeOf(r) BY Zenon DEF WakeInv
<1>2. CASE state'[r] = "USED" /\ pc'[r] = "forkret" /\ idx'[r] = 0
  BY Zenon, <1>2 DEF WakeOf, ScanKnows, SleepKnows, WakeupDone, Dozing, Executes
<1>3. CASE /\ pc'[r] = pc[r] /\ idx'[r] = idx[r] /\ have'[r] = have[r]
           /\ allDone'[r] = allDone[r] /\ kids'[r] = kids[r]
  <2>1. ScanKnows(r)'
    <3>1. ASSUME pc'[r] \in ScanLabels
          PROVE  /\ Children(r)' = Children(r)
                 /\ \A q \in Children(r) : state'[q] = "ZOMBIE" <=> state[q] = "ZOMBIE"
      BY <3>1 DEF Undisturbed, Children
    <3>2. CASE pc'[r] \in ScanLabels
      BY Zenon, <1>1, <1>3, <3>1, <3>2 DEF WakeOf, ScanKnows
    <3>3. CASE pc'[r] \notin ScanLabels BY Zenon, <3>3 DEF ScanKnows, ScanLabels
    <3> QED BY Zenon, <3>2, <3>3
  <2>2. SleepKnows(r)'
    <3>1. state'[r] = "SLEEPING" => chan'[r] = r
      BY Zenon, <1>1 DEF Undisturbed, WakeOf, SleepKnows
    <3>2. ASSUME Dozing(r)', ~(r = initproc /\ InitToWake') PROVE Expects(r)'
      <4>1. /\ Children(r)' = Children(r)
            /\ \A q \in Children(r) : state'[q] = "ZOMBIE" <=> state[q] = "ZOMBIE"
        BY <3>2 DEF Undisturbed, Children
      <4>2. Dozing(r) /\ ~(r = initproc /\ InitToWake) BY Zenon, <3>2 DEF Undisturbed
      <4>3. Expects(r) BY Zenon, <1>1, <4>2 DEF WakeOf, SleepKnows
      <4> QED BY Zenon, <1>3, <4>1, <4>3 DEF Expects
    <3> QED BY Zenon, <3>1, <3>2 DEF SleepKnows
  <2>3. WakeupDone(r)'
    <3>1. ASSUME NEW s \in Procs, state[s] # "SLEEPING",
                 \/ pc'[r] \in {"exitwake", "reparentwake"}
                 \/ pc'[r] = "zombie" /\ state'[r] = "RUNNING"
          PROVE  state'[s] # "SLEEPING"
      BY <3>1 DEF Undisturbed
    <3>2. pc'[r] = "exitwake" => state'[r] = "RUNNING"
      BY Zenon DEF ProcInv, TypeOK, TableOK, States, PcOfState, WaitLabels
    <3>3. state'[r] = "RUNNING" => state[r] = "RUNNING" BY Zenon DEF Undisturbed
    <3>4. pc'[r] = "exitwake" /\ idx'[r] > parent'[r] => state'[parent'[r]] # "SLEEPING"
      BY <1>1, <1>3, <3>1, <3>2 DEF Undisturbed, WakeOf, WakeupDone
    <3>5. pc'[r] = "zombie" /\ state'[r] = "RUNNING" => state'[parent'[r]] # "SLEEPING"
      BY <1>1, <1>3, <3>1, <3>3 DEF Undisturbed, WakeOf, WakeupDone
    <3>6. pc'[r] = "reparentwake" /\ idx'[r] > 0 => state'[initproc] # "SLEEPING"
      BY Zenon, <1>1, <1>3, <3>1, InitSlot DEF WakeOf, WakeupDone
    <3> QED BY Zenon, <1>1, <1>3, <3>4, <3>5, <3>6 DEF WakeOf, WakeupDone
  <2> QED BY Zenon, <2>1, <2>2, <2>3 DEF WakeOf
<1> QED BY Zenon, <1>2, <1>3 DEF Undisturbed

\* p itself, where WakeOf asks nothing of it.
Plain(p) ==
  /\ pc[p] \notin ScanLabels \cup {"reparentwake", "exitwake"}
  /\ ~Dozing(p)
  /\ ~(pc[p] = "zombie" /\ state[p] = "RUNNING")
  /\ pc[p] \in {"forkret", "user", "ret", "exit", "reparent", "zombie"} => idx[p] = 0

\* A thread outside of wait, waitall, exit and wakeup claims nothing about the table.
LEMMA PlainWake == ASSUME NEW p \in Procs, Plain(p)' PROVE WakeOf(p)'
BY Zenon DEF Plain, WakeOf, ScanKnows, SleepKnows, WakeupDone, ScanLabels, Dozing

\* A step of p's thread that ends no child of another process, and gives nobody
\* but its own children another parent.
Mild(p) ==
  /\ \A r \in Procs \ {p} :
       /\ have'[r] = have[r] /\ allDone'[r] = allDone[r] /\ kids'[r] = kids[r]
       /\ state'[r] \in {"RUNNING", "SLEEPING"} => state'[r] = state[r]
       /\ state'[r] = "SLEEPING" => chan'[r] = chan[r]
  /\ \A q \in Procs :
       \/ parent'[q] = parent[q]
       \/ /\ parent[q] \in {p, NoProc} /\ parent'[q] \in {p, NoProc}
          /\ state'[q] # "RUNNING"
  /\ \A q \in Procs : parent[q] = p \/ (state'[q] = "ZOMBIE" <=> state[q] = "ZOMBIE")
  /\ state'[p] = "RUNNING"
  /\ pc[p] = "reparentwake" => ~Dozing(initproc)' \/ InitToWake'

\* A living process other than init has a parent, and init does not exit.
LEMMA ExiterParent ==
  ASSUME ProcInv, FamilyInv, NEW r \in Procs, pc[r] \in {"exitwake", "zombie"},
         state[r] = "RUNNING"
  PROVE  r # initproc /\ parent[r] \in Procs
BY Zenon DEF FamilyInv, InitLives, ExitLabels, HasParent, Alive

\* A mild step of p disturbs nobody else.
LEMMA MildStep ==
  ASSUME ProcInv, FamilyInv, WakeInv, NEW c \in CPU, NEW p \in Procs, Inside(c, p), Mild(p)
  PROVE  Undisturbed(p)
<1>0. Dozing(initproc)' /\ InitToWake => InitToWake' BY DEF Mild, Inside, InitToWake
<1> SUFFICES ASSUME NEW r \in Procs \ {p}
             PROVE
       /\ \/ /\ pc'[r] = pc[r] /\ idx'[r] = idx[r] /\ have'[r] = have[r]
             /\ allDone'[r] = allDone[r] /\ kids'[r] = kids[r]
          \/ state'[r] = "USED" /\ pc'[r] = "forkret" /\ idx'[r] = 0
       /\ Dozing(r)' => Dozing(r)
       /\ state'[r] \in {"RUNNING", "SLEEPING"} => state'[r] = state[r]
       /\ state'[r] = "SLEEPING" => chan'[r] = chan[r]
       /\ pc'[r] \in ScanLabels \/ (Dozing(r)' /\ ~(r = initproc /\ InitToWake')) =>
            \A q \in Procs : /\ parent'[q] = r <=> parent[q] = r
                             /\ parent[q] = r => (state'[q] = "ZOMBIE" <=> state[q] = "ZOMBIE")
       /\ pc'[r] \in {"exitwake", "zombie"} /\ state'[r] = "RUNNING" =>
            parent'[r] = parent[r] /\ parent[r] \in Procs
       /\ pc'[r] \in {"exitwake", "reparentwake"} \/ (pc'[r] = "zombie" /\ state'[r] = "RUNNING") =>
            (state'[p] = "SLEEPING" => state[p] = "SLEEPING")
  BY Zenon, <1>0 DEF Undisturbed
<1>1. pc'[r] = pc[r] /\ idx'[r] = idx[r] /\ cpu' = cpu BY Zenon DEF Inside
<1>2. Dozing(r)' => Dozing(r)
  <2>1. state'[r] = "SLEEPING" => state[r] = "SLEEPING" BY Zenon DEF Mild
  <2>2. state'[r] = "RUNNING" => state[r] = "RUNNING" /\ lock'[r] = lock[r] BY Zenon
      DEF Mild, Inside
  <2> QED BY Zenon, <1>1, <2>1, <2>2 DEF Dozing, Executes
<1>3. \A q \in Procs : /\ parent'[q] = r <=> parent[q] = r
                       /\ parent[q] = r => (state'[q] = "ZOMBIE" <=> state[q] = "ZOMBIE")
  BY NoSlot DEF Mild
<1>4. pc'[r] \in {"exitwake", "zombie"} /\ state'[r] = "RUNNING" =>
        parent'[r] = parent[r] /\ parent[r] \in Procs
  BY Zenon, <1>1, ExiterParent DEF Mild
<1> QED BY Zenon, <1>1, <1>2, <1>3, <1>4 DEF Mild

\* System calls and traps outside the sections of wait_lock, and the ends of
\* those sections.
LEMMA PlainSteps ==
  ASSUME ProcInv, FamilyInv, WakeInv, NEW c \in CPU, NEW p \in Procs,
         \/ UserStep(c, p)       \/ SysReturn(c, p)     \/ AllocSkip(c, p)
         \/ AllocNoMem(c, p)     \/ ForkCopy(c, p)      \/ ForkCopyFail(c, p)
         \/ ForkParent(c, p)     \/ ForkRun(c, p)       \/ ForknCopy(c, p)
         \/ ForknCopyFail(c, p)  \/ ForknRollback(c, p) \/ ForknPublish(c, p)
         \/ ForknPubKid(c, p)    \/ ExitLock(c, p)      \/ WaitReap(c, p)
         \/ WaitCopyoutFail(c, p) \/ kill(c, p)
  PROVE  Mild(p) /\ Plain(p)'
<1>1. FnOK /\ IdxOK BY Zenon, InvTypes
<1>2. /\ have \in [Procs -> {0, 1}] /\ allDone \in [Procs -> {0, 1}]
      /\ parent \in [Procs -> Procs \cup {NoProc}] /\ chan \in [Procs -> Procs \cup {NoProc}]
  BY Zenon DEF ProcInv, TypeOK, TableOK, ThreadOK
<1>3. pc[p] \in {"user", "ret", "exit"} => idx[p] = 0 BY Zenon DEF WakeInv, WakeOf, WakeupDone
<1> USE <1>1, <1>2 DEF FnOK, IdxOK, At, On, Mild, Plain, Dozing, ScanLabels, table, locals, cpus
<1>4. CASE TrapKilled(c, p) BY Zenon, <1>3, <1>4 DEF TrapKilled, Goto
<1>5. CASE UserStep(c, p) BY ZenonT(60), <1>3, <1>4, <1>5
                             DEF UserStep, SysFork, SysForkn, SysExit, SysWait,
                             SysWaitall, SysKill, Enter, Goto
<1>6. CASE SysReturn(c, p) BY Zenon, <1>3, <1>6 DEF SysReturn, Goto
<1>7. CASE AllocSkip(c, p) BY <1>7 DEF AllocSkip, AllocFailed, Goto, Return, ResetLocals
<1>8. CASE AllocNoMem(c, p)
  <2>1. idx[p] \in Procs BY Zenon, <1>8, IdxFact DEF AllocNoMem, IdxLabels
  <2>2. state[idx[p]] = "UNUSED" /\ parent[idx[p]] = NoProc
    BY Zenon, <1>8, <2>1 DEF AllocNoMem, FamilyInv, FreeClean
  <2> QED BY <1>8, <2>1, <2>2 DEF AllocNoMem, AllocFailed, freeproc, Goto, Return, ResetLocals
<1>9. CASE ForkCopy(c, p) BY Zenon, <1>9 DEF ForkCopy, Goto
<1>10. CASE ForkCopyFail(c, p) \/ ForknCopyFail(c, p)
  <2>1. idx[p] \in Procs /\ state[idx[p]] = "USED" BY Zenon, <1>10, MakingIdx
                                                      DEF ForkCopyFail, ForknCopyFail
  <2>2. parent[idx[p]] = NoProc
    BY Zenon, <1>10, <2>1, MakingNewborn DEF ForkCopyFail, ForknCopyFail, Making
  <2> QED BY <1>10, <2>1, <2>2 DEF ForkCopyFail, ForknCopyFail, freeproc, Goto, Return, ResetLocals
<1>11. CASE ForkParent(c, p)
  <2>1. idx[p] \in Procs /\ state[idx[p]] = "USED" BY Zenon, <1>11, MakingIdx DEF ForkParent
  <2>2. parent[idx[p]] = NoProc BY Zenon, <1>11, <2>1, MakingNewborn DEF ForkParent, Making
  <2> QED BY Zenon, <1>11, <2>1, <2>2 DEF ForkParent, Goto
<1>12. CASE ForkRun(c, p)
  <2>1. idx[p] \in Procs /\ state[idx[p]] = "USED" BY Zenon, <1>12, MakingIdx DEF ForkRun
  <2> QED BY Zenon, <1>12, <2>1 DEF ForkRun, Goto, Return, ResetLocals
<1>13. CASE ForknCopy(c, p) BY Zenon, <1>13 DEF ForknCopy, Goto
<1>14. CASE ForknRollback(c, p)
  <2>1. CASE kids[p] = <<>> BY Zenon, <1>14, <2>1 DEF ForknRollback, Goto, Return, ResetLocals
  <2>2. CASE kids[p] # <<>>
    <3>1. HeadOK(p) BY Zenon, <2>2, KidsHead
    <3>2. state[Head(kids[p])] = "USED" /\ parent[Head(kids[p])] = NoProc
      BY Zenon, <1>14, <3>1, MakingNewborn DEF ForknRollback, Making, HeadOK
    <3> QED BY <1>14, <2>2, <3>1, <3>2 DEF ForknRollback, HeadOK, freeproc
  <2> QED BY Zenon, <2>1, <2>2
<1>15. CASE ForknPublish(c, p) BY Zenon, <1>15 DEF ForknPublish, Goto
<1>16. CASE ForknPubKid(c, p)
  <2>1. CASE kids[p] = <<>> BY Zenon, <1>16, <2>1 DEF ForknPubKid, Goto, Return, ResetLocals
  <2>2. CASE kids[p] # <<>>
    <3>1. HeadOK(p) BY <2>2, KidsHead
    <3>2. state[Head(kids[p])] = "USED" /\ parent[Head(kids[p])] = NoProc
      BY Zenon, <1>16, <3>1, MakingNewborn DEF ForknPubKid, Making, HeadOK
    <3> QED BY ZenonT(60), <1>16, <2>2, <3>1, <3>2 DEF ForknPubKid, HeadOK
  <2> QED BY Zenon, <2>1, <2>2
<1>17. CASE ExitLock(c, p) BY Zenon, <1>3, <1>17 DEF ExitLock, Goto
<1>18. CASE WaitReap(c, p)
  <2>1. idx[p] \in Procs BY Zenon, <1>18, ScanIdx DEF WaitReap
  <2> QED BY Zenon, <1>18, <2>1 DEF WaitReap, freeproc, Goto, Return, ResetLocals
<1>19. CASE WaitCopyoutFail(c, p) BY Zenon, <1>19 DEF WaitCopyoutFail, Goto, Return, ResetLocals
<1>20. CASE kill(c, p)
  <2>1. idx[p] \in Procs BY Zenon, <1>20, IdxFact DEF kill, IdxLabels
  <2> QED BY <1>20, <2>1 DEF kill, Goto, Return, ResetLocals
<1> QED BY ZenonT(60), <1>5, <1>6, <1>7, <1>8, <1>9, <1>10, <1>11, <1>12, <1>13, <1>14, <1>15,
           <1>16,
           <1>17, <1>18, <1>19, <1>20

\* Nobody else is inside a section of wait_lock, or about to sleep in one, while
\* p is.
LEMMA SectionExclusive ==
  ASSUME ProcInv, NEW c \in CPU, NEW p \in Procs, cpu[c] = p, state[p] = "RUNNING", lock[p] # c,
         pc[p] \in LockedLabels, NEW r \in Procs \ {p}
  PROVE  /\ pc[r] \notin WaitLabels
         /\ ~(Executes(r) /\ pc[r] \in LockedLabels)
         /\ Dozing(r) => state[r] = "SLEEPING"
<1>1. lock[WaitLock] = c BY Zenon DEF ProcInv, WaitLockHeld
<1>2. ASSUME state[r] = "RUNNING", pc[r] \in LockedLabels, Executes(r) PROVE FALSE
  <2>1. PICK d \in CPU : cpu[d] = r BY Zenon, <1>2 DEF ProcInv, RunningOnCpu
  <2>2. lock[WaitLock] = d BY Zenon, <1>2, <2>1 DEF ProcInv, WaitLockHeld, Executes
  <2> QED BY Zenon, <1>1, <2>1, <2>2
<1>3. pc[r] \in WaitLabels => state[r] = "RUNNING" /\ Executes(r)
  BY Zenon, InvTypes DEF FnOK, States, ProcInv, PcOfState, WaitLabels, Executes
<1> QED BY Zenon, <1>2, <1>3 DEF Executes, Dozing, LockedLabels

\* The scans of wait and waitall, and waitall's loop over to_free[].
LEMMA ScanSteps ==
  ASSUME ProcInv, FamilyInv, WakeInv, NEW c \in CPU, NEW p \in Procs,
         \/ WaitStart(c, p)   \/ WaitScan(c, p)     \/ WaitCheck(c, p)
         \/ WaitallScan(c, p) \/ WaitallCheck(c, p) \/ WaitallFree(c, p)
  PROVE  Mild(p) /\ WakeOf(p)'
<1>1. FnOK /\ IdxOK BY Zenon, InvTypes
<1>2. /\ have \in [Procs -> {0, 1}] /\ allDone \in [Procs -> {0, 1}]
      /\ parent \in [Procs -> Procs \cup {NoProc}] /\ chan \in [Procs -> Procs \cup {NoProc}]
  BY Zenon DEF ProcInv, TypeOK, TableOK, ThreadOK
<1>3. ScanKnows(p) BY Zenon DEF WakeInv, WakeOf
<1>4. \A q \in Procs : ~(q < 0) /\ q < NPROC BY NPROCAssumption DEF Procs
<1> USE <1>1, <1>2 DEF FnOK, IdxOK, At, On, table, locals, cpus
<1>5. CASE WaitStart(c, p)
  <2>1. Mild(p) BY Zenon, <1>5 DEF WaitStart, Mild
  <2>e. /\ state' = state /\ parent' = parent /\ state[p] = "RUNNING"
        /\ pc'[p] \in {"waitscan", "waitallscan"} /\ idx'[p] = 0 /\ have'[p] = 0
        /\ allDone'[p] = 1 /\ kids'[p] = <<>>
    BY ZenonT(60), <1>5 DEF WaitStart
  <2>2. ScanKnows(p)' BY <1>4, <2>e, RangeEmpty DEF ScanKnows, Children
  <2>3. SleepKnows(p)' /\ WakeupDone(p)' BY Zenon, <2>e DEF SleepKnows, WakeupDone, Dozing
  <2> QED BY Zenon, <2>1, <2>2, <2>3 DEF WakeOf
<1>6. CASE WaitScan(c, p)
  <2>1. Mild(p) BY Zenon, <1>6 DEF WaitScan, Mild
  <2>e. /\ state' = state /\ parent' = parent /\ state[p] = "RUNNING"
        /\ pc[p] = "waitscan" /\ pc' = pc /\ idx[p] \in Procs /\ idx'[p] = idx[p] + 1
        /\ parent[idx[p]] = p => state[idx[p]] # "ZOMBIE"
        /\ have'[p] = IF parent[idx[p]] = p THEN 1 ELSE have[p]
    BY Zenon, <1>6, ScanIdx DEF WaitScan
  <2>2. \A q \in Procs : q < idx[p] + 1 => q < idx[p] \/ q = idx[p] BY <2>e DEF Procs
  <2>3. ScanKnows(p)' BY Zenon, <1>3, <2>e, <2>2 DEF ScanKnows, Children
  <2>4. SleepKnows(p)' /\ WakeupDone(p)' BY Zenon, <2>e DEF SleepKnows, WakeupDone, Dozing
  <2> QED BY <2>1, <2>3, <2>4 DEF WakeOf
<1>7. CASE WaitCheck(c, p)
  <2>1. Mild(p) BY Zenon, <1>7 DEF WaitCheck, Mild, Goto, Return, ResetLocals
  <2>2. CASE have[p] = 0 \/ killed[p] = 1
    <3>1. Plain(p)' BY Zenon, <1>7, <2>2
                       DEF WaitCheck, Plain, Dozing, ScanLabels, Goto, Return, ResetLocals
    <3> QED BY Zenon, <2>1, <3>1, PlainWake
  <2>3. CASE ~(have[p] = 0 \/ killed[p] = 1)
    <3>e. /\ state' = state /\ parent' = parent /\ state[p] = "RUNNING"
          /\ pc[p] = "waitscan" /\ pc'[p] = "waitsleep" /\ idx[p] = NPROC /\ have[p] = 1
      BY Zenon, <1>7, <2>3 DEF WaitCheck, Goto
    <3>1. Expects(p)' BY Zenon, <1>3, <1>4, <3>e DEF Expects, ScanKnows, Children
    <3>2. ScanKnows(p)' /\ SleepKnows(p)' /\ WakeupDone(p)'
      BY Zenon, <3>e, <3>1 DEF ScanKnows, SleepKnows, WakeupDone
    <3> QED BY Zenon, <2>1, <3>2 DEF WakeOf
  <2> QED BY Zenon, <2>2, <2>3
<1>8. CASE WaitallScan(c, p)
  <2>1. Mild(p) BY Zenon, <1>8 DEF WaitallScan, Mild
  <2>e. /\ state' = state /\ parent' = parent /\ state[p] = "RUNNING"
        /\ pc[p] = "waitallscan" /\ pc' = pc /\ idx[p] \in Procs
        /\ kids'[p] = kids[p] \/ (parent[idx[p]] = p /\ kids'[p] = Append(kids[p], idx[p]))
        /\ allDone'[p] = allDone[p] \/ (parent[idx[p]] = p /\ state[idx[p]] # "ZOMBIE")
    BY Zenon, <1>8, ScanIdx DEF WaitallScan
  <2>2. Range(kids'[p]) \subseteq Children(p)
    <3>1. Range(kids[p]) \subseteq Children(p) BY Zenon, <1>3, <2>e DEF ScanKnows
    <3>2. kids[p] \in Seq(Procs) BY ZenonT(60)
    <3>3. Range(Append(kids[p], idx[p])) = Range(kids[p]) \cup {idx[p]}
      BY <2>e, <3>2, RangeAppend
    <3> QED BY Zenon, <2>e, <3>1, <3>3 DEF Children
  <2>3. allDone'[p] = 0 => \E q \in Children(p) : state[q] # "ZOMBIE"
    BY Zenon, <1>3, <2>e DEF ScanKnows, Children
  <2>4. ScanKnows(p)' BY Zenon, <2>e, <2>2, <2>3 DEF ScanKnows, Children
  <2>5. SleepKnows(p)' /\ WakeupDone(p)' BY Zenon, <2>e DEF SleepKnows, WakeupDone, Dozing
  <2> QED BY <2>1, <2>4, <2>5 DEF WakeOf
<1>9. CASE WaitallCheck(c, p)
  <2>1. Mild(p) BY ZenonT(60), <1>9 DEF WaitallCheck, Mild, Goto, Return, ResetLocals
  <2>e. /\ state' = state /\ parent' = parent /\ state[p] = "RUNNING" /\ pc[p] = "waitallscan"
        /\ \/ pc'[p] = "ret" /\ idx'[p] = 0
           \/ pc'[p] = "waitallfree" /\ kids' = kids
           \/ pc'[p] = "waitallsleep" /\ allDone[p] = 0
    BY Zenon, <1>9 DEF WaitallCheck, Goto, Return, ResetLocals
  <2>2. CASE pc'[p] = "ret" /\ idx'[p] = 0
    <3>1. Plain(p)' BY Zenon, <2>e, <2>2 DEF Plain, Dozing, ScanLabels
    <3> QED BY <2>1, <3>1, PlainWake
  <2>3. CASE pc'[p] = "waitallfree" /\ kids' = kids
    <3>1. ScanKnows(p)' BY Zenon, <1>3, <2>e, <2>3 DEF ScanKnows, Children
    <3>2. SleepKnows(p)' /\ WakeupDone(p)' BY Zenon, <2>e, <2>3 DEF SleepKnows, WakeupDone, Dozing
    <3> QED BY <2>1, <3>1, <3>2 DEF WakeOf
  <2>4. CASE pc'[p] = "waitallsleep" /\ allDone[p] = 0
    <3>1. Expects(p)' BY Zenon, <1>3, <2>e, <2>4 DEF Expects, ScanKnows, Children
    <3>2. ScanKnows(p)' /\ SleepKnows(p)' /\ WakeupDone(p)'
      BY Zenon, <2>e, <2>4, <3>1 DEF ScanKnows, SleepKnows, WakeupDone
    <3> QED BY <2>1, <3>2 DEF WakeOf
  <2> QED BY Zenon, <2>e, <2>2, <2>3, <2>4
<1>10. CASE WaitallFree(c, p) /\ kids[p] = <<>>
  <2>1. Mild(p) BY Zenon, <1>10 DEF WaitallFree, Mild, Goto, Return, ResetLocals
  <2>2. Plain(p)' BY <1>10 DEF WaitallFree, Plain, Dozing, ScanLabels, Goto, Return, ResetLocals
  <2> QED BY <2>1, <2>2, PlainWake
<1>11. CASE WaitallFree(c, p) /\ kids[p] # <<>>
  <2>1. HeadOK(p) BY Zenon, <1>11, KidsHead
  <2>2. parent[Head(kids[p])] = p /\ state[Head(kids[p])] = "ZOMBIE"
    BY ZenonT(60), <1>3, <1>11, <2>1 DEF ScanKnows, Children, HeadOK, WaitallFree
  <2>3. Mild(p) BY <1>11, <2>1, <2>2 DEF WaitallFree, Mild, freeproc, HeadOK
  <2>e. /\ \A q \in Procs \ {Head(kids[p])} : parent'[q] = parent[q]
        /\ state'[p] = "RUNNING" /\ pc' = pc /\ pc[p] = "waitallfree"
        /\ kids'[p] = Tail(kids[p])
    BY Zenon, <1>11, <2>1, <2>2 DEF WaitallFree, freeproc, HeadOK
  <2>4. ScanKnows(p)' BY Zenon, <1>3, <2>1, <2>e DEF ScanKnows, Children, HeadOK
  <2>5. SleepKnows(p)' /\ WakeupDone(p)' BY Zenon, <2>e DEF SleepKnows, WakeupDone, Dozing
  <2> QED BY <2>3, <2>4, <2>5 DEF WakeOf
<1> QED BY Zenon, <1>5, <1>6, <1>7, <1>8, <1>9, <1>10, <1>11

\* The loops of exit that wake init and the parent.
LEMMA WakeupSteps ==
  ASSUME ProcInv, FamilyInv, WakeInv, NEW c \in CPU, NEW p \in Procs,
         \/ Reparent(c, p) /\ Children(p) = {}
         \/ ReparentWake(c, p) \/ ExitWake(c, p)
  PROVE  Mild(p) /\ WakeOf(p)'
<1>1. FnOK /\ IdxOK BY Zenon, InvTypes
<1>2. /\ have \in [Procs -> {0, 1}] /\ allDone \in [Procs -> {0, 1}]
      /\ parent \in [Procs -> Procs \cup {NoProc}] /\ chan \in [Procs -> Procs \cup {NoProc}]
  BY Zenon DEF ProcInv, TypeOK, TableOK, ThreadOK
<1>3. WakeupDone(p) BY Zenon DEF WakeInv, WakeOf
<1>4. cpu[c] = p /\ state[p] = "RUNNING" /\ lock[p] # c /\ pc[p] \in WaitLabels
  BY Zenon DEF Reparent, ReparentWake, ExitWake, At, On, WaitLabels
<1>5. p # initproc /\ parent[p] \in Procs
  BY Zenon, <1>4
     DEF Reparent, ReparentWake, ExitWake, At, FamilyInv, InitLives, ExitLabels, HasParent, Alive
<1>6. \A r \in Procs : state[r] = "SLEEPING" => chan[r] = r
  BY Zenon DEF WakeInv, WakeOf, SleepKnows
<1>7. \A q \in Procs : q \in Int /\ q >= 0 /\ q <= NPROC - 1 BY NPROCAssumption DEF Procs
<1>n. \A q \in Procs : q # NPROC - 1 => q < NPROC - 1 BY NPROCAssumption DEF Procs
<1> USE <1>1, <1>2 DEF FnOK, IdxOK, At, On, table, locals, cpus
<1>8. CASE Reparent(c, p) /\ Children(p) = {}
  <2>1. Mild(p) BY Zenon, <1>8 DEF Reparent, Mild, Goto
  <2>e. /\ state' = state /\ parent' = parent /\ pc[p] = "reparent" /\ pc'[p] = "exitwake"
        /\ idx' = idx
    BY Zenon, <1>8 DEF Reparent, Goto
  <2>2. ~(idx'[p] > parent'[p]) BY <1>3, <1>5, <1>7, <2>e DEF WakeupDone
  <2>3. WakeupDone(p)' BY Zenon, <2>e, <2>2 DEF WakeupDone
  <2>4. ScanKnows(p)' /\ SleepKnows(p)' BY Zenon, <1>4, <2>e DEF ScanKnows, SleepKnows, Dozing
  <2> QED BY Zenon, <2>1, <2>3, <2>4 DEF WakeOf
<1>9. ASSUME NEW ch \in Procs, NEW next \in {"reparent", "zombie"},
             pc[p] \in {"reparentwake", "exitwake"}, WakeupSlot(c, p, ch, next)
      PROVE  /\ idx[p] \in Procs
             /\ \A r \in Procs : state'[r] = state[r] \/ (state[r] = "SLEEPING" /\ state'[r] = "RUNNABLE")
             /\ state'[p] = "RUNNING"
             /\ idx[p] = ch => state'[ch] # "SLEEPING"
             /\ UNCHANGED <<parent, chan, have, allDone, kids, lock, cpu>>
             /\ \A r \in Procs \ {p} : pc'[r] = pc[r] /\ idx'[r] = idx[r]
             /\ \/ idx[p] = NPROC - 1 /\ idx'[p] = 0 /\ pc'[p] = next
                \/ idx[p] < NPROC - 1 /\ idx'[p] = idx[p] + 1 /\ pc'[p] = pc[p]
  <2>1. idx[p] \in Procs BY Zenon, <1>9, IdxFact DEF IdxLabels
  <2>2. idx[p] = ch => state'[ch] # "SLEEPING"
    BY Zenon, <1>4, <1>6, <1>9, <2>1 DEF WakeupSlot
  <2>3. /\ \A r \in Procs : state'[r] = state[r] \/ (state[r] = "SLEEPING" /\ state'[r] = "RUNNABLE")
        /\ state'[p] = "RUNNING"
    BY Zenon, <1>4, <1>9, <2>1 DEF WakeupSlot
  <2>4. \/ idx[p] = NPROC - 1 /\ idx'[p] = 0 /\ pc'[p] = next
        \/ idx[p] < NPROC - 1 /\ idx'[p] = idx[p] + 1 /\ pc'[p] = pc[p]
    <3>1. \/ idx[p] = NPROC - 1 /\ idx'[p] = 0 /\ pc'[p] = next
          \/ idx[p] # NPROC - 1 /\ idx'[p] = idx[p] + 1 /\ pc'[p] = pc[p]
      BY Zenon, <1>9 DEF WakeupSlot, Goto
    <3> QED BY Zenon, <1>n, <2>1, <3>1
  <2>5. /\ UNCHANGED <<parent, chan, have, allDone, kids, lock, cpu>>
        /\ \A r \in Procs \ {p} : pc'[r] = pc[r] /\ idx'[r] = idx[r]
    BY Zenon, <1>9 DEF WakeupSlot, Goto
  <2> QED BY Zenon, <2>1, <2>2, <2>3, <2>4, <2>5
<1>10. CASE ReparentWake(c, p)
  <2>e. /\ pc[p] = "reparentwake" /\ idx[p] \in Procs
        /\ \A r \in Procs : state'[r] = state[r] \/ (state[r] = "SLEEPING" /\ state'[r] = "RUNNABLE")
        /\ state'[p] = "RUNNING"
        /\ idx[p] = initproc => state'[initproc] # "SLEEPING"
        /\ UNCHANGED <<parent, chan, have, allDone, kids, lock, cpu>>
        /\ \A r \in Procs \ {p} : pc'[r] = pc[r] /\ idx'[r] = idx[r]
        /\ \/ idx[p] = NPROC - 1 /\ idx'[p] = 0 /\ pc'[p] = "reparent"
           \/ idx[p] < NPROC - 1 /\ idx'[p] = idx[p] + 1 /\ pc'[p] = "reparentwake"
    BY Zenon, <1>9, <1>10, InitSlot DEF ReparentWake
  <2>1. state'[initproc] # "SLEEPING"
    BY <1>3, <1>7, <2>e, InitSlot DEF WakeupDone, initproc
  <2>2. ~Dozing(initproc)'
    <3>1. ~(Executes(initproc) /\ pc[initproc] \in LockedLabels)
      BY Zenon, <1>4, <1>5, InitSlot, SectionExclusive DEF LockedLabels
    <3>2. Executes(initproc)' => Executes(initproc) BY Zenon, <2>e, InitSlot DEF Executes
    <3> QED BY Zenon, <1>5, <2>1, <2>e, <3>1, <3>2, InitSlot DEF Dozing, LockedLabels
  <2>3. Mild(p) BY Zenon, <2>e, <2>2 DEF Mild
  <2>4. WakeupDone(p)' BY Zenon, <2>1, <2>e DEF WakeupDone
  <2>5. ScanKnows(p)' /\ SleepKnows(p)' BY Zenon, <2>e DEF ScanKnows, SleepKnows, Dozing
  <2> QED BY <2>3, <2>4, <2>5 DEF WakeOf
<1>11. CASE ExitWake(c, p)
  <2>e. /\ pc[p] = "exitwake" /\ idx[p] \in Procs
        /\ \A r \in Procs : state'[r] = state[r] \/ (state[r] = "SLEEPING" /\ state'[r] = "RUNNABLE")
        /\ state'[p] = "RUNNING"
        /\ idx[p] = parent[p] => state'[parent[p]] # "SLEEPING"
        /\ UNCHANGED <<parent, chan, have, allDone, kids, lock, cpu>>
        /\ \A r \in Procs \ {p} : pc'[r] = pc[r] /\ idx'[r] = idx[r]
        /\ \/ idx[p] = NPROC - 1 /\ idx'[p] = 0 /\ pc'[p] = "zombie"
           \/ idx[p] < NPROC - 1 /\ idx'[p] = idx[p] + 1 /\ pc'[p] = "exitwake"
    BY Zenon, <1>5, <1>9, <1>11 DEF ExitWake
  <2>1. idx[p] >= parent[p] => state'[parent[p]] # "SLEEPING"
    BY <1>3, <1>5, <1>7, <2>e DEF WakeupDone
  <2>2. Mild(p) BY Zenon, <2>e DEF Mild
  <2>3. WakeupDone(p)' BY <1>5, <1>7, <2>1, <2>e DEF WakeupDone
  <2>4. ScanKnows(p)' /\ SleepKnows(p)' BY Zenon, <2>e DEF ScanKnows, SleepKnows, Dozing
  <2> QED BY <2>2, <2>3, <2>4 DEF WakeOf
<1> QED BY Zenon, <1>8, <1>10, <1>11

\* reparent gives init a child: init, if it sleeps, is to be woken.
LEMMA ReparentWakes ==
  ASSUME ProcInv, ProcInv', FamilyInv, WakeInv, NEW c \in CPU, NEW p \in Procs,
         Reparent(c, p), Children(p) # {}
  PROVE  WakeInv'
<1>1. FamilyTypes BY Zenon, InvFamilyTypes
<1>2. PICK q \in Children(p) : parent' = [parent EXCEPT ![q] = initproc]
  BY Zenon DEF Reparent
<1>e. /\ q \in Procs /\ parent[q] = p /\ pc[p] = "reparent" /\ pc'[p] = "reparentwake"
      /\ parent'[q] = initproc /\ \A r \in Procs \ {q} : parent'[r] = parent[r]
      /\ \A r \in Procs \ {p} : pc'[r] = pc[r]
      /\ UNCHANGED <<state, chan, idx, have, allDone, kids, lock, cpu>>
      /\ cpu[c] = p /\ state[p] = "RUNNING" /\ lock[p] # c
  BY Zenon, <1>1, <1>2 DEF FamilyTypes, Reparent, At, On, Goto, locals, cpus, Children
<1>3. idx[p] = 0 BY Zenon, <1>e DEF WakeInv, WakeOf, WakeupDone
<1>4. InitToWake' BY ZenonT(60), <1>e, <1>3 DEF InitToWake
<1>5. WakeOf(p)'
  BY <1>e, <1>3 DEF WakeOf, ScanKnows, SleepKnows, WakeupDone, Dozing
<1>6. \A r \in Procs \ {p} : pc[r] \notin WaitLabels
  BY Zenon, <1>e, SectionExclusive DEF WaitLabels, LockedLabels
<1>7. \A r \in Procs \ {p} : ~(pc[r] = "zombie" /\ state[r] = "RUNNING")
  <2> SUFFICES ASSUME NEW r \in Procs \ {p}, pc[r] = "zombie", state[r] = "RUNNING" PROVE FALSE
    BY Zenon
  <2>1. Executes(r) BY Zenon DEF Executes, ProcInv, PcOfState
  <2> QED BY Zenon, <1>e, <2>1, SectionExclusive DEF WaitLabels, LockedLabels
<1>8. Undisturbed(p)
  <2>1. \A r \in Procs \ {p} : Dozing(r)' <=> Dozing(r) BY Zenon, <1>e DEF Dozing, Executes
  <2>2. \A r \in Procs \ {p, initproc} : \A s \in Procs : parent'[s] = r <=> parent[s] = r
    BY Zenon, <1>e
  <2>3. \A r \in Procs \ {p} : pc'[r] \notin ScanLabels \cup {"exitwake", "reparentwake"}
    BY ZenonT(60), <1>e, <1>6 DEF ScanLabels, WaitLabels
  <2> QED BY Zenon, <1>e, <1>4, <1>7, <2>1, <2>2, <2>3 DEF Undisturbed
<1> QED BY Zenon, <1>5, <1>8, OthersWake DEF WakeInv

\* exit becomes a ZOMBIE when its parent is awake; sleep puts p to sleep when
\* nobody is waking it.
LEMMA SectionEnds ==
  ASSUME ProcInv, ProcInv', FamilyInv, WakeInv, NEW c \in CPU, NEW p \in Procs,
         ExitZombie(c, p) \/ sleep(c, p)
  PROVE  WakeInv'
<1>1. FnOK /\ IdxOK BY Zenon, InvTypes
<1>2. /\ have \in [Procs -> {0, 1}] /\ allDone \in [Procs -> {0, 1}]
      /\ parent \in [Procs -> Procs \cup {NoProc}] /\ chan \in [Procs -> Procs \cup {NoProc}]
  BY Zenon DEF ProcInv, TypeOK, TableOK, ThreadOK
<1>3. p \in Locks /\ WaitLock \in Locks /\ p # WaitLock BY Zenon, SlotIsLock
<1>e. /\ cpu' = cpu /\ cpu[c] = p /\ pc' = pc /\ parent' = parent
      /\ \A r \in Procs \ {p} :
           /\ state'[r] = state[r] /\ lock'[r] = lock[r] /\ idx'[r] = idx[r] /\ have'[r] = have[r]
           /\ allDone'[r] = allDone[r] /\ kids'[r] = kids[r] /\ chan'[r] = chan[r]
      /\ state[p] = "RUNNING" /\ lock[p] # c /\ idx'[p] = 0
      /\ \/ state'[p] = "ZOMBIE" /\ pc[p] = "zombie"
         \/ state'[p] = "SLEEPING" /\ chan'[p] = p /\ pc[p] \in {"waitsleep", "waitallsleep"}
  BY ZenonT(60), <1>1, <1>2, <1>3, SlotIsLock
     DEF FnOK, IdxOK, ExitZombie, sleep, At, On, Free, ResetLocals, cpus
<1>4. pc[p] \in LockedLabels BY Zenon, <1>e DEF LockedLabels
<1>5. \A r \in Procs \ {p} : /\ pc[r] \notin WaitLabels
                             /\ ~(Executes(r) /\ pc[r] \in LockedLabels)
  BY Zenon, <1>e, <1>4, SectionExclusive
<1>6. \A r \in Procs \ {p} : ~(pc[r] = "zombie" /\ state[r] = "RUNNING")
  <2> SUFFICES ASSUME NEW r \in Procs \ {p}, pc[r] = "zombie", state[r] = "RUNNING" PROVE FALSE
    BY Zenon
  <2>1. Executes(r) BY Zenon DEF Executes, ProcInv, PcOfState
  <2> QED BY Zenon, <1>5, <2>1 DEF LockedLabels
<1>7. \A r \in Procs \ {p} : Dozing(r)' => state[r] = "SLEEPING" /\ Dozing(r)
  BY ZenonT(60), <1>e, <1>5 DEF Dozing, Executes, LockedLabels
<1>8. InitToWake' <=> InitToWake
  <2>1. pc[p] # "reparentwake" BY Zenon, <1>e
  <2> QED BY Zenon, <1>e, <2>1 DEF InitToWake
<1>9. \A r \in Procs \ {p} : pc'[r] \notin ScanLabels \cup {"exitwake", "reparentwake"}
  BY Zenon, <1>e, <1>5 DEF ScanLabels, WaitLabels
<1>10. CASE state'[p] = "ZOMBIE"
  <2>1. pc[p] = "zombie" BY Zenon, <1>e, <1>10
  <2>2. state[parent[p]] # "SLEEPING" BY Zenon, <1>e, <2>1 DEF WakeInv, WakeOf, WakeupDone
  <2>3. \A r \in Procs \ {p} : Dozing(r)' => parent[p] # r BY ZenonT(60), <1>7, <2>2
  <2>4. Undisturbed(p)
    BY <1>e, <1>6, <1>7, <1>8, <1>9, <1>10, <2>3 DEF Undisturbed
  <2>5. WakeOf(p)'
    BY Zenon, <1>e, <1>10, <2>1 DEF WakeOf, ScanKnows, SleepKnows, WakeupDone, Dozing, Executes
  <2> QED BY Zenon, <2>4, <2>5, OthersWake DEF WakeInv
<1>11. CASE state'[p] = "SLEEPING"
  <2>1. Undisturbed(p)
    BY <1>e, <1>6, <1>7, <1>8, <1>9, <1>11 DEF Undisturbed
  <2>2. Executes(p)
    BY Zenon, <1>e, NoSlot DEF Executes, ProcInv, KernelStackExclusive
  <2>3. Dozing(p) BY Zenon, <1>e, <1>11, <2>2 DEF Dozing
  <2>4. Expects(p) \/ (p = initproc /\ InitToWake) BY ZenonT(60), <2>3
                                                      DEF WakeInv, WakeOf, SleepKnows
  <2>5. Expects(p) => Expects(p)'
    <3>1. state[p] # "ZOMBIE" /\ state'[p] # "ZOMBIE" BY Zenon, <1>e, <1>11
    <3>2. \A q \in Procs : state'[q] = "ZOMBIE" <=> state[q] = "ZOMBIE" BY Zenon, <1>e, <3>1
    <3> QED BY <1>e, <3>2 DEF Expects, Children
  <2>6. WakeOf(p)'
    BY Zenon, <1>e, <1>8, <1>11, <2>4, <2>5 DEF WakeOf, ScanKnows, SleepKnows, WakeupDone
  <2> QED BY <2>1, <2>6, OthersWake DEF WakeInv
<1> QED BY Zenon, <1>e, <1>10, <1>11

\* Switching to and from a process, and allocproc's success.
LEMMA SwitchWakes ==
  ASSUME ProcInv, ProcInv', FamilyInv, WakeInv, NEW c \in CPU, NEW p \in Procs,
         SwitchIn(c, p) \/ Resume(c, p) \/ yield(c, p) \/ AllocFound(c, p)
  PROVE  WakeInv'
<1>1. FnOK /\ IdxOK BY Zenon, InvTypes
<1>2. /\ parent \in [Procs -> Procs \cup {NoProc}] /\ chan \in [Procs -> Procs \cup {NoProc}]
      /\ cpu \in [CPU -> Procs \cup {NoProc}]
  BY ZenonT(40) DEF ProcInv, TypeOK, TableOK, CpuOK
<1>3. AllocFound(c, p) => idx[p] \in Procs BY Zenon, IdxFact DEF AllocFound, At, IdxLabels
<1>4. Procs \subseteq Locks BY Zenon, SlotIsLock
<1>e. /\ parent' = parent /\ UNCHANGED locals
      /\ \A r \in Procs \ {p} :
           /\ pc'[r] = pc[r] \/ (state[r] = "UNUSED" /\ state'[r] = "USED" /\ pc'[r] = "forkret")
           /\ state'[r] = state[r] \/ (state[r] = "UNUSED" /\ state'[r] = "USED")
           /\ state'[r] = "RUNNING" => lock'[r] = lock[r]
           /\ \A d \in CPU : cpu'[d] = r <=> cpu[d] = r
           /\ chan'[r] = chan[r]
      /\ state[p] \in {"RUNNABLE", "RUNNING"} /\ state'[p] \in {"RUNNABLE", "RUNNING"}
  <2> USE <1>1, <1>2, <1>4, NoSlot DEF FnOK, IdxOK, On, At, table, locals, cpus
  <2>1. CASE SwitchIn(c, p) BY Zenon, <2>1 DEF SwitchIn, Acquire
  <2>2. CASE Resume(c, p) BY Zenon, <2>2 DEF Resume, Release
  <2>3. CASE yield(c, p) BY Zenon, <2>3 DEF yield, Acquire
  <2>4. CASE AllocFound(c, p) BY Zenon, <1>3, <2>4 DEF AllocFound, Acquire
  <2> QED BY Zenon, <2>1, <2>2, <2>3, <2>4
<1>5. pc[p] # "reparentwake"
  BY SMTT(30), <1>1, SlotIsLock, CpuAssumption
     DEF FnOK, SwitchIn, Resume, yield, AllocFound, At, On, Holds,
     ProcInv, PcOfState, WaitLabels, WaitLockHeld, LockedLabels, Acquire, Free
<1>6. Undisturbed(p)
  <2>1. InitToWake => InitToWake'
    <3> SUFFICES ASSUME InitToWake PROVE InitToWake' BY Zenon
    <3>1. PICK r \in Procs : pc[r] = "reparentwake" /\ idx[r] = 0 BY Zenon DEF InitToWake
    <3>2. state[r] # "UNUSED" BY Zenon, <3>1 DEF ProcInv, PcOfState
    <3>3. pc'[r] = pc[r] /\ idx' = idx BY Zenon, <1>e, <1>5, <3>1, <3>2 DEF locals
    <3> QED BY Zenon, <3>1, <3>3 DEF InitToWake
  <2>2. ASSUME NEW r \in Procs \ {p}, Dozing(r)' PROVE Dozing(r)
    <3>1. state'[r] \in {"SLEEPING", "RUNNING"} BY Zenon, <2>2 DEF Dozing, Executes
    <3>2. state'[r] = state[r] BY Zenon, <1>e, <3>1
    <3>3. CASE state'[r] = "SLEEPING" BY Zenon, <3>2, <3>3 DEF Dozing
    <3>4. CASE state'[r] = "RUNNING"
      <4>1. pc'[r] = pc[r] /\ lock'[r] = lock[r] BY Zenon, <1>e, <3>2, <3>4
      <4>2. \A d \in CPU : cpu'[d] = r <=> cpu[d] = r BY Zenon, <1>e
      <4>3. pc'[r] \in {"waitsleep", "waitallsleep"} /\ Executes(r)'
        BY Zenon, <2>2, <3>4 DEF Dozing
      <4>4. Executes(r) BY Zenon, <3>2, <4>1, <4>2, <4>3 DEF Executes
      <4> QED BY Zenon, <4>1, <4>3, <4>4 DEF Dozing
    <3> QED BY Zenon, <3>1, <3>3, <3>4
  <2>3. \A r \in Procs : state[r] = "UNUSED" => idx[r] = 0
    BY Zenon DEF ProcInv, PcOfState, WakeInv, WakeOf, WakeupDone
  <2>4. \A r \in Procs \ {p} : pc'[r] \in {"exitwake", "zombie"} /\ state'[r] = "RUNNING" =>
          parent'[r] = parent[r] /\ parent[r] \in Procs
    BY Zenon, <1>e, ExiterParent
  <2> QED BY Zenon, <1>e, <2>1, <2>2, <2>3, <2>4 DEF Undisturbed, locals
<1>7. Plain(p)'
  <2>0. pc[p] \in {"forkret", "user", "ret", "exit", "reparent", "zombie"} => idx[p] = 0
    BY Zenon DEF WakeInv, WakeOf, WakeupDone
  <2>1. CASE SwitchIn(c, p)
    BY ZenonT(60), <1>1, <1>2, <1>4, <2>0, <2>1
       DEF FnOK, IdxOK, SwitchIn, Acquire, On, locals, Plain, Dozing,
       Executes, ProcInv, PcOfState, WaitLabels, ScanLabels
  <2>2. CASE Resume(c, p)
    BY ZenonT(60), <1>1, <1>2, <1>4, <2>0, <2>2 DEF FnOK, IdxOK, Resume, On, locals, Plain, Dozing,
       Executes, ProcInv, PcOfState, WaitLabels, ScanLabels
  <2>3. CASE yield(c, p)
    BY ZenonT(60), <1>e, <1>1, <2>0, <2>3 DEF FnOK, IdxOK, yield, locals, Plain, Dozing,
       Executes, ProcInv, PcOfState, WaitLabels, ScanLabels
  <2>4. CASE AllocFound(c, p)
    BY Zenon, <1>e, <1>1, <1>3, <2>4
       DEF FnOK, IdxOK, AllocFound, At, locals, Plain, Dozing, ScanLabels
  <2> QED BY Zenon, <2>1, <2>2, <2>3, <2>4
<1>8. WakeOf(p)' BY Zenon, <1>7, PlainWake
<1> QED BY Zenon, <1>6, <1>8, OthersWake DEF WakeInv

\* The scheduler's half of a switch, and panic(), change nothing WakeInv speaks of.
LEMMA StillWakes ==
  ASSUME ProcInv, WakeInv, NEW c \in CPU, NEW p \in Procs,
         SwitchOut(c, p) \/ SchedPanic(c, p) \/ AcquirePanic(c, p)
  PROVE  WakeInv'
<1>e. /\ UNCHANGED <<state, parent, chan, pc, idx, have, allDone, kids>>
      /\ \/ UNCHANGED <<lock, cpu>>
         \/ /\ state[p] # "RUNNING" /\ cpu' = [cpu EXCEPT ![c] = NoProc]
            /\ lock' = [lock EXCEPT ![p] = NoCpu] /\ cpu[c] = p
  BY Zenon DEF SwitchOut, SchedPanic, AcquirePanic, On, Release, table, locals
<1>1. \A r \in Procs : Dozing(r)' <=> Dozing(r)
  <2> TAKE r \in Procs
  <2>1. CASE UNCHANGED <<lock, cpu>> BY Zenon, <1>e, <2>1 DEF Dozing, Executes
  <2>2. CASE state[r] # "RUNNING" BY Zenon, <1>e, <2>2 DEF Dozing, Executes
  <2>3. CASE /\ state[p] # "RUNNING" /\ cpu' = [cpu EXCEPT ![c] = NoProc] /\ state[r] = "RUNNING"
             /\ lock' = [lock EXCEPT ![p] = NoCpu] /\ cpu[c] = p
    <3>1. r # p BY Zenon, <2>3
    <3>2. cpu \in [CPU -> Procs \cup {NoProc}] /\ lock \in [Locks -> CPU \cup {NoCpu}]
      BY Zenon DEF ProcInv, TypeOK, CpuOK
    <3>3. lock'[r] = lock[r] /\ \A d \in CPU : cpu'[d] = r <=> cpu[d] = r
      BY Zenon, <2>3, <3>1, <3>2, NoSlot, SlotIsLock
    <3> QED BY Zenon, <1>e, <3>3 DEF Dozing, Executes
  <2> QED BY Zenon, <1>e, <2>1, <2>2, <2>3
<1>2. ASSUME NEW r \in Procs, WakeOf(r) PROVE WakeOf(r)'
  BY ZenonT(60), <1>e, <1>1, <1>2
     DEF WakeOf, ScanKnows, SleepKnows, WakeupDone, Expects, Children, InitToWake
<1> QED BY Zenon, <1>2 DEF WakeInv

\* WakeInv is inductive, given the other invariants.
LEMMA WakeStep ==
  ASSUME ProcInv, FamilyInv, LockInv, WakeInv, [Next]_vars PROVE WakeInv'
<1>0. ProcInv' BY Zenon, StepInv
<1>1. CASE UNCHANGED vars
  <2>1. ASSUME NEW r \in Procs, WakeOf(r) PROVE WakeOf(r)'
    BY ZenonT(60), <1>1, <2>1
       DEF WakeOf, ScanKnows, SleepKnows, WakeupDone, Expects, Children, InitToWake,
       Dozing, Executes, vars
  <2> QED BY Zenon, <2>1 DEF WakeInv
<1>2. ASSUME NEW c \in CPU, NEW p \in Procs, Inside(c, p), Mild(p), WakeOf(p)' PROVE WakeInv'
  BY Zenon, <1>0, <1>2, MildStep, OthersWake DEF WakeInv
<1>3. ASSUME NEW c \in CPU, NEW p \in Procs,
             SchedStep(c, p) \/ SchedPanic(c, p) \/ AcquirePanic(c, p)
      PROVE  WakeInv'
  BY Zenon, <1>0, <1>3, StillWakes, SwitchWakes DEF SchedStep
<1>4. ASSUME NEW c \in CPU, NEW p \in Procs, AllocFound(c, p) \/ ExitZombie(c, p) \/ sleep(c, p)
      PROVE  WakeInv'
  BY Zenon, <1>0, <1>4, SwitchWakes, SectionEnds
<1>5. ASSUME NEW c \in CPU, NEW p \in Procs, Reparent(c, p), Children(p) # {} PROVE WakeInv'
  BY Zenon, <1>0, <1>5, ReparentWakes
<1>6. ASSUME NEW c \in CPU, NEW p \in Procs,
             \/ Reparent(c, p) /\ Children(p) = {}
             \/ ReparentWake(c, p) \/ ExitWake(c, p)
      PROVE  WakeInv'
  BY Zenon, <1>2, <1>6, InsideSteps, WakeupSteps
<1>7. ASSUME NEW c \in CPU, NEW p \in Procs,
             \/ WaitStart(c, p)   \/ WaitScan(c, p)     \/ WaitCheck(c, p)
             \/ WaitallScan(c, p) \/ WaitallCheck(c, p) \/ WaitallFree(c, p)
      PROVE  WakeInv'
  BY Zenon, <1>2, <1>7, InsideSteps, ScanSteps
<1>8. ASSUME NEW c \in CPU, NEW p \in Procs,
         \/ UserStep(c, p)       \/ SysReturn(c, p)     \/ AllocSkip(c, p)
         \/ AllocNoMem(c, p)     \/ ForkCopy(c, p)      \/ ForkCopyFail(c, p)
         \/ ForkParent(c, p)     \/ ForkRun(c, p)       \/ ForknCopy(c, p)
         \/ ForknCopyFail(c, p)  \/ ForknRollback(c, p) \/ ForknPublish(c, p)
         \/ ForknPubKid(c, p)    \/ ExitLock(c, p)      \/ WaitReap(c, p)
         \/ WaitCopyoutFail(c, p) \/ kill(c, p)
      PROVE  WakeInv'
  <2>1. Mild(p) /\ Plain(p)' BY Zenon, <1>8, PlainSteps
  <2>2. Inside(c, p) BY Zenon, <1>8, InsideSteps
  <2> QED BY Zenon, <1>2, <2>1, <2>2, PlainWake
<1> QED BY <1>1, <1>3, <1>4, <1>5, <1>6, <1>7, <1>8 DEF Next, KernelStep

\* Nobody scans or sleeps when init starts.
LEMMA WakeInit == ASSUME Init PROVE WakeInv
BY Zenon, ZeroIdx, InitSlot DEF Init, WakeInv, WakeOf, ScanKnows, SleepKnows, WakeupDone, Dozing

-----------------------------------------------------------------------------
(* What may happen to a ZOMBIE.                                            *)

ZombieKept(q) == state'[q] = "ZOMBIE" /\ xstate'[q] = xstate[q] /\ pid'[q] = pid[q]
ZombieReaped(q) ==
  /\ state'[q] = "UNUSED"
  /\ \E c \in CPU : cpu[c] = parent[q] /\ lock[WaitLock] = c

\* Freeing a slot that is no ZOMBIE, or whose parent runs in a section of
\* wait_lock, does no wrong to ZOMBIEs.
LEMMA FreeFate ==
  ASSUME ProcInv, NEW c \in CPU, NEW p \in Procs, cpu[c] = p, NEW z \in Procs, freeproc(z),
         state[z] # "ZOMBIE" \/ (parent[z] = p /\ lock[WaitLock] = c),
         NEW q \in Procs, state[q] = "ZOMBIE"
  PROVE  ZombieKept(q) \/ ZombieReaped(q)
<1>1. /\ state \in [Procs -> States] /\ pid \in [Procs -> Nat] /\ xstate \in [Procs -> Int]
  BY Zenon DEF ProcInv, TypeOK, TableOK
<1>2. CASE q = z BY Zenon, <1>1, <1>2 DEF freeproc, ZombieReaped
<1>3. CASE q # z BY Zenon, <1>1, <1>3 DEF freeproc, ZombieKept
<1> QED BY Zenon, <1>2, <1>3

\* Every step keeps a ZOMBIE as it is or is its parent's, with wait_lock held,
\* that frees it.
LEMMA ZombieStep ==
  ASSUME ProcInv, FamilyInv, WakeInv, Next, NEW q \in Procs, state[q] = "ZOMBIE"
  PROVE  ZombieKept(q) \/ ZombieReaped(q)
<1>1. /\ state \in [Procs -> States] /\ pid \in [Procs -> Nat] /\ xstate \in [Procs -> Int]
  BY Zenon DEF ProcInv, TypeOK, TableOK
<1>2. ASSUME NEW p \in Procs, LifeSame(p), xstate' = xstate PROVE ZombieKept(q)
  BY Zenon, <1>2 DEF LifeSame, Alive, ZombieKept
<1>3. ASSUME NEW c \in CPU, NEW p \in Procs,
         \/ SchedStep(c, p)    \/ UserStep(c, p)      \/ SchedPanic(c, p)  \/ AcquirePanic(c, p)
         \/ SysReturn(c, p)    \/ AllocSkip(c, p)     \/ ForkCopy(c, p)    \/ ForknCopy(c, p)
         \/ ForknPublish(c, p) \/ ExitLock(c, p)      \/ ReparentWake(c, p) \/ ExitWake(c, p)
         \/ WaitStart(c, p)    \/ WaitScan(c, p)      \/ WaitCopyoutFail(c, p)
         \/ WaitCheck(c, p)    \/ sleep(c, p)         \/ WaitallScan(c, p)
         \/ WaitallCheck(c, p) \/ kill(c, p)
      PROVE  ZombieKept(q)
  <2>1. LifeSame(p) BY Zenon, <1>3, LifeSteps
  <2>2. xstate' = xstate
    <3> USE DEF table
    <3>1. CASE SchedStep(c, p) BY Zenon, <3>1 DEF SchedStep, SwitchIn, Resume, SwitchOut, yield
    <3>2. CASE UserStep(c, p) BY Zenon, <3>2
                                 DEF UserStep, TrapKilled, SysFork, SysForkn, SysExit, SysWait,
                                         SysWaitall, SysKill, Enter
    <3>3. CASE ReparentWake(c, p) \/ ExitWake(c, p) BY Zenon, <3>3
                                                       DEF ReparentWake, ExitWake, WakeupSlot
    <3> QED BY Zenon, <1>3, <3>1, <3>2, <3>3
               DEF SchedPanic, AcquirePanic, SysReturn, AllocSkip, ForkCopy,
               ForknCopy, ForknPublish, ExitLock, WaitStart, WaitScan, WaitCopyoutFail, WaitCheck,
               sleep, WaitallScan, WaitallCheck, kill
  <2> QED BY Zenon, <1>2, <2>1, <2>2
<1>4. ASSUME NEW c \in CPU, NEW p \in Procs,
             AllocFound(c, p) \/ ForkParent(c, p) \/ ForkRun(c, p) \/ Reparent(c, p) \/ ExitZombie(c, p)
      PROVE  ZombieKept(q)
  <2>1. CASE AllocFound(c, p) BY Zenon, <1>1, <2>1 DEF AllocFound, ZombieKept
  <2>2. CASE ForkParent(c, p) \/ Reparent(c, p) BY Zenon, <2>2 DEF ForkParent, Reparent, ZombieKept
  <2>3. CASE ForkRun(c, p)
    <3>1. state[idx[p]] = "USED" BY Zenon, <2>3, MakingIdx DEF ForkRun, At
    <3> QED BY Zenon, <1>1, <2>3, <3>1 DEF ForkRun, ZombieKept, table
  <2>4. CASE ExitZombie(c, p) BY Zenon, <1>1, <2>4 DEF ExitZombie, At, ZombieKept
  <2> QED BY Zenon, <1>4, <2>1, <2>2, <2>3, <2>4
<1>5. ASSUME NEW c \in CPU, NEW p \in Procs,
             \/ AllocNoMem(c, p) \/ ForkCopyFail(c, p) \/ ForknCopyFail(c, p) \/ WaitReap(c, p)
      PROVE  ZombieKept(q) \/ ZombieReaped(q)
  <2>0. cpu[c] = p
    BY Zenon, <1>5 DEF AllocNoMem, ForkCopyFail, ForknCopyFail, WaitReap, At, On
  <2>1. CASE AllocNoMem(c, p)
    <3>1. idx[p] \in Procs BY Zenon, <2>1, IdxFact DEF AllocNoMem, At, IdxLabels
    <3> QED BY Zenon, <2>0, <2>1, <3>1, FreeFate DEF AllocNoMem
  <2>2. CASE ForkCopyFail(c, p) \/ ForknCopyFail(c, p)
    <3>1. idx[p] \in Procs /\ state[idx[p]] = "USED" BY Zenon, <2>2, MakingIdx
                                                        DEF ForkCopyFail, ForknCopyFail, At
    <3> QED BY Zenon, <2>0, <2>2, <3>1, FreeFate DEF ForkCopyFail, ForknCopyFail
  <2>3. CASE WaitReap(c, p)
    <3>1. idx[p] \in Procs BY Zenon, <2>3, ScanIdx, InvTypes DEF WaitReap, IdxOK
    <3>2. lock[WaitLock] = c
      BY Zenon, <2>3 DEF WaitReap, At, On, ProcInv, WaitLockHeld, LockedLabels, WaitLabels
    <3> QED BY Zenon, <2>0, <2>3, <3>1, <3>2, FreeFate DEF WaitReap
  <2> QED BY Zenon, <1>5, <2>1, <2>2, <2>3
<1>6. ASSUME NEW c \in CPU, NEW p \in Procs,
             ForknRollback(c, p) \/ WaitallFree(c, p) \/ ForknPubKid(c, p)
      PROVE  ZombieKept(q) \/ ZombieReaped(q)
  <2>0. cpu[c] = p BY Zenon, <1>6 DEF ForknRollback, WaitallFree, ForknPubKid, At, On
  <2>1. CASE kids[p] = <<>> BY Zenon, <1>6, <2>1
                               DEF ForknRollback, WaitallFree, ForknPubKid, ZombieKept
  <2>2. CASE kids[p] # <<>> /\ ForknPubKid(c, p)
    <3>1. HeadOK(p) BY Zenon, <2>2, KidsHead
    <3>2. state[Head(kids[p])] = "USED" BY Zenon, <2>2, <3>1 DEF HeadOK, ForknPubKid, At
    <3> QED BY Zenon, <1>1, <2>2, <3>1, <3>2 DEF ForknPubKid, ZombieKept
  <2>3. CASE kids[p] # <<>> /\ ForknRollback(c, p)
    <3>1. HeadOK(p) BY <2>3, KidsHead
    <3>2. state[Head(kids[p])] = "USED" BY Zenon, <2>3, <3>1 DEF HeadOK, ForknRollback, At
    <3> QED BY ZenonT(60), <2>0, <2>3, <3>1, <3>2, FreeFate DEF HeadOK, ForknRollback
  <2>4. CASE kids[p] # <<>> /\ WaitallFree(c, p)
    <3>1. HeadOK(p) BY <2>4, KidsHead
    <3>2. parent[Head(kids[p])] = p
      BY Zenon, <2>4, <3>1 DEF HeadOK, WaitallFree, At, WakeInv, WakeOf, ScanKnows, Children
    <3>3. lock[WaitLock] = c
      BY Zenon, <2>4 DEF WaitallFree, At, On, ProcInv, WaitLockHeld, LockedLabels, WaitLabels
    <3> QED BY Zenon, <2>0, <2>4, <3>1, <3>2, <3>3, FreeFate DEF HeadOK, WaitallFree
  <2> QED BY Zenon, <1>6, <2>1, <2>2, <2>3, <2>4
<1> QED BY <1>3, <1>4, <1>5, <1>6 DEF Next, KernelStep

-----------------------------------------------------------------------------
(* The theorems.                                                           *)

\* The whole invariant of the process table.
LEMMA WholeInvariance == Spec => [](ProcInv /\ FamilyInv /\ LockInv /\ WakeInv)
<1>1. Init => ProcInv /\ FamilyInv /\ LockInv /\ WakeInv
  BY Zenon, InitInv, FamilyInit, LockInit, WakeInit
<1>2. ProcInv /\ FamilyInv /\ LockInv /\ WakeInv /\ [Next]_vars =>
        (ProcInv /\ FamilyInv /\ LockInv /\ WakeInv)'
  BY Zenon, StepInv, FamilyStep, LockStep, WakeStep
<1> QED BY <1>1, <1>2, PTL DEF Spec

\* The process table is in order at all times, if nobody calls kill(0): every
\* process but init has a parent that has not exited, the pids in use are
\* distinct, and a free slot is clean.
THEOREM TableSafety == ASSUME 0 \notin KillPids PROVE Spec => []TableSound
<1>1. ProcInv /\ FamilyInv => TableSound
  <2> SUFFICES ASSUME ProcInv, FamilyInv PROVE TableSound BY Zenon
  <2>1. NoOrphans BY Zenon, NoSlot DEF FamilyInv, HasParent, NoOrphans, Alive
  <2>2. FreeSlotClean BY Zenon DEF FamilyInv, FreeClean, FreeSlotClean
  <2> QED BY Zenon, <2>1, <2>2 DEF TableSound, ProcInv, FamilyInv
<1> QED BY <1>1, WholeInvariance, PTL

\* Whatever stops a CPU for good - sched's or acquire's panic, or two CPUs
\* spinning for each other's locks - comes from the np->lock that forkn keeps
\* when uvmcopy fails.
THEOREM StopSafety == Spec => []StopsOnlyByLeak
<1>1. ProcInv /\ LockInv => StopsOnlyByLeak
  BY Zenon, SpinLeak DEF LockInv, StopsOnlyByLeak
<1> QED BY <1>1, WholeInvariance, PTL

\* So where forkn is not called, or uvmcopy does not fail, no CPU ever panics
\* or spins for ever.
THEOREM ForkNeverStops ==
  ASSUME "forkn" \notin Ops \/ "uvmcopy" \notin Fails PROVE Spec => []NoStop
<1>1. ProcInv /\ LockInv => NoStop
  <2> SUFFICES ASSUME ProcInv, LockInv PROVE NoStop BY Zenon
  <2>1. \A c \in CPU : ~Leaked(c) BY Zenon DEF LockInv, LeakCause
  <2>2. NoPanic BY Zenon, <2>1 DEF NoPanic, LockInv, PanicOnlyByLeak, ProcInv, TypeOK, CpuOK
  <2>3. NoSpinCycle BY Zenon, <2>1, SpinLeak DEF SpinOnlyByLeak, NoSpinCycle
  <2> QED BY Zenon, <2>2, <2>3 DEF NoStop
<1> QED BY <1>1, WholeInvariance, PTL

\* Whenever wait_lock is free, a process asleep in wait has a child and no
\* ZOMBIE child, and one asleep in waitall has a child that still runs: no
\* wakeup of exit, reparent or kill is ever lost.
THEOREM WakeupSafety == Spec => []NoLostWakeup
<1>1. ProcInv /\ WakeInv => NoLostWakeup
  <2> SUFFICES ASSUME ProcInv, WakeInv, Free(WaitLock), NEW p \in Procs, state[p] = "SLEEPING"
               PROVE  Expects(p)
    BY Zenon DEF NoLostWakeup, Expects
  <2>1. ASSUME NEW r \in Procs, pc[r] = "reparentwake" PROVE FALSE
    <3>1. state[r] = "RUNNING"
      BY ZenonT(60), <2>1, InvTypes DEF FnOK, States, ProcInv, PcOfState, WaitLabels
    <3>2. PICK d \in CPU : cpu[d] = r BY Zenon, <3>1 DEF ProcInv, RunningOnCpu
    <3>3. lock[r] # d BY ZenonT(60), <2>1, <3>1, <3>2 DEF ProcInv, PcOfState, WaitLabels
    <3>4. lock[WaitLock] = d
      BY ZenonT(60), <2>1, <3>1, <3>2, <3>3 DEF ProcInv, WaitLockHeld, LockedLabels, WaitLabels
    <3> QED BY Zenon, <3>4, CpuAssumption DEF Free
  <2> QED BY Zenon, <2>1 DEF WakeInv, WakeOf, SleepKnows, Dozing, InitToWake
<1> QED BY <1>1, WholeInvariance, PTL

\* A ZOMBIE keeps its exit status and pid until its parent frees it, in wait or
\* waitall with wait_lock held, and it never runs again.
THEOREM ZombieSafety == Spec => ZombieFate
<1>1. ProcInv /\ FamilyInv /\ WakeInv /\ [Next]_vars =>
        [\A q \in Procs : state[q] = "ZOMBIE" =>
           \/ state'[q] = "ZOMBIE" /\ xstate'[q] = xstate[q] /\ pid'[q] = pid[q]
           \/ /\ state'[q] = "UNUSED"
              /\ \E c \in CPU : cpu[c] = parent[q] /\ lock[WaitLock] = c]_vars
  BY Zenon, ZombieStep DEF ZombieKept, ZombieReaped
<1> QED BY <1>1, WholeInvariance, PTL DEF Spec, ZombieFate

\* A new process starts its life without a kill that was meant for another, as
\* long as nobody calls kill(0).
THEOREM NewbornSafety == ASSUME 0 \notin KillPids PROVE Spec => NewbornNotKilled
<1>1. ProcInv /\ FamilyInv /\ [Next]_vars =>
        [\A q \in Procs : state[q] = "UNUSED" /\ state'[q] = "USED" => killed'[q] = 0]_vars
  BY Zenon, OnlyAllocproc DEF AllocFound, FamilyInv, FreeClean
<1> QED BY <1>1, WholeInvariance, PTL DEF Spec, NewbornNotKilled
=============================================================================
