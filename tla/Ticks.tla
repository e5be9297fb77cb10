------------------------------- MODULE Ticks -------------------------------
(***************************************************************************)
(* The clock: clockintr of trap.c and sys_sleep of sysproc.c. ticks is a    *)
(* uint and wraps. A section under tickslock is a step; the check of killed *)
(* comes before the sleep, and a kill may fall in between.                 *)
(***************************************************************************)
EXTENDS Integers, Parts

CONSTANTS
  Sleepers,    \* processes that call sleep
  TickWrap,    \* 2^32
  SleepArgs    \* values of n: 0 .. 2^31 - 1 in the code

ASSUME TicksAssumption == \A n \in SleepArgs : 2 * n < TickWrap

VARIABLES
  ticks,
  sl,          \* each process: pc, n, ticks0, killed
  since        \* ticks since sys_sleep read ticks0

tkVars == <<ticks, sl, since>>

TkUser == [pc |-> "user", n |-> 0, ticks0 |-> 0, killed |-> FALSE]

TkInit ==
  /\ ticks = 0
  /\ sl = [p \in Sleepers |-> TkUser]
  /\ since = [p \in Sleepers |-> 0]

tkFree == \A p \in Sleepers : sl[p].pc \notin {"check", "tosleep"}

\* Variant: the sleepers are not woken.
TkWake_no(f) == f

\* wakeup(&ticks).
TkWake(f) == [p \in Sleepers |-> IF f[p].pc = "sleep" THEN [f[p] EXCEPT !.pc = "loop"] ELSE f[p]]

\* Bound: a process that was woken runs before the clock has gone round once
\* (2^32 ticks in the code).
InTime == \A p \in Sleepers : sl[p].pc = "loop" => since[p] < TickWrap - 1

clockintr ==
  /\ tkFree /\ InTime
  /\ ticks' = (ticks + 1) % TickWrap
  /\ sl' = TkWake(sl)
  /\ since' = [p \in Sleepers |-> IF sl[p].pc = "user" THEN 0
                                    ELSE IF since[p] < TickWrap - 1 THEN since[p] + 1 ELSE since[p]]

\* sys_sleep: ticks0 = ticks.
sys_sleep(p) ==
  /\ sl[p].pc = "user" /\ ~sl[p].killed /\ tkFree
  /\ \E n \in SleepArgs :
       sl' = [sl EXCEPT ![p] = [TkUser EXCEPT !.pc = "check", !.n = n, !.ticks0 = ticks]]
  /\ UNCHANGED <<ticks, since>>

\* Variant: compares the time of the end, which may have wrapped.
Expired_end(p) == ticks >= (sl[p].ticks0 + sl[p].n) % TickWrap

\* ticks - ticks0 >= n, as uints.
Expired(p) == (ticks - sl[p].ticks0) % TickWrap >= sl[p].n

\* The loop's condition and the check of killed.
SleepCheck(p) ==
  /\ sl[p].pc = "check"
  /\ sl' = [sl EXCEPT ![p] = IF Expired(p) \/ sl[p].killed
                             THEN [TkUser EXCEPT !.killed = sl[p].killed]
                             ELSE [sl[p] EXCEPT !.pc = "tosleep"]]
  /\ since' = [since EXCEPT ![p] = IF sl'[p].pc = "user" THEN 0 ELSE @]
  /\ UNCHANGED ticks

\* sleep(&ticks, &tickslock). Between the check of killed and this, tickslock is
\* held: no tick can come, but kill can.
SleepSleep(p) ==
  /\ sl[p].pc = "tosleep"
  /\ sl' = [sl EXCEPT ![p].pc = "sleep"]
  /\ UNCHANGED <<ticks, since>>

SleepWoken(p) ==
  /\ sl[p].pc = "loop" /\ tkFree
  /\ sl' = [sl EXCEPT ![p].pc = "check"]
  /\ UNCHANGED <<ticks, since>>

TkKill(p) ==
  /\ ~sl[p].killed
  /\ sl' = [sl EXCEPT ![p].killed = TRUE, ![p].pc = IF @ = "sleep" THEN "loop" ELSE @]
  /\ UNCHANGED <<ticks, since>>

TkExit(p) ==
  /\ sl[p].pc = "user" /\ sl[p].killed
  /\ sl' = [sl EXCEPT ![p] = TkUser]
  /\ UNCHANGED <<ticks, since>>

TkStep(p) == SleepCheck(p) \/ SleepSleep(p) \/ SleepWoken(p)
TkNext == clockintr \/ \E p \in Sleepers : sys_sleep(p) \/ TkStep(p) \/ TkKill(p) \/ TkExit(p)
TkSpec == TkInit /\ [][TkNext]_tkVars

\* The timer goes on, and a process that was woken runs.
TkFair == SF_tkVars(clockintr) /\ \A p \in Sleepers : SF_tkVars(TkStep(p))

\* sleep(n) that is not interrupted by kill returns after n ticks and not
\* before, also when ticks wraps in between.
SleepsLongEnough ==
  [][\A p \in Sleepers : sl[p].pc = "check" /\ sl'[p].pc = "user" /\ ~sl[p].killed =>
       since[p] >= sl[p].n]_tkVars

\* Nobody sleeps on when the time is over: sleep and the tick that ends it
\* exclude each other.
NoOversleep ==
  In("ticks") /\ tkFree => \A p \in Sleepers : sl[p].pc = "sleep" => ~Expired(p)

\* sleep(n) returns.
SleepReturns == \A p \in Sleepers : sl[p].pc = "check" ~> sl[p].pc = "user"
=============================================================================
