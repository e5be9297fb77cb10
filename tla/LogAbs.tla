------------------------------- MODULE LogAbs -------------------------------
(***************************************************************************)
(* What the log of kernel/log.c promises the file system: the writes of    *)
(* the operations become durable in groups, a group contains the whole of  *)
(* every operation in it, and a crash loses exactly the groups that have   *)
(* not been committed.                                                     *)
(***************************************************************************)
CONSTANTS Procs, Blocks, Vals, InitVal

VARIABLES
  durable,   \* what a restart would find
  mem,       \* what a reader sees
  active     \* the processes inside an operation

absvars == <<durable, mem, active>>

AbsInit ==
  /\ durable = [b \in Blocks |-> InitVal]
  /\ mem = durable
  /\ active = {}

Begin(p) == active' = active \cup {p} /\ UNCHANGED <<durable, mem>>

Write(p) ==
  /\ p \in active
  /\ \E b \in Blocks, v \in Vals : mem' = [mem EXCEPT ![b] = v]
  /\ UNCHANGED <<durable, active>>

End(p) == p \in active /\ active' = active \ {p} /\ UNCHANGED <<durable, mem>>

Commit == active = {} /\ durable' = mem /\ UNCHANGED <<mem, active>>

Crash == mem' = durable /\ active' = {} /\ UNCHANGED durable

AbsNext ==
  \/ \E p \in Procs : Begin(p) \/ Write(p) \/ End(p)
  \/ Commit
  \/ Crash

AbsSpec == AbsInit /\ [][AbsNext]_absvars
=============================================================================
