---------------------------- MODULE LockProofs ----------------------------
(***************************************************************************)
(* Spinlocks are sound on any number of CPUs and threads: LocksSound, from *)
(* an inductive invariant about what is on each stack, what each CPU's     *)
(* registers and push_off counters then are, and who holds which lock.     *)
(***************************************************************************)
EXTENDS Spinlock, FiniteSetTheorems, TLAPS

Kinds == {"base", "forkret", "irq", "call"}
Frames == [pc : SpPoints, lk : SpLocks, old : BOOLEAN, saved : BOOLEAN, kind : Kinds]

Acquiring == {"push", "off", "spin", "own", "unlock", "pop"}

\* Where a frame of each kind can be, and for which lock.
FrameOK(x, f) ==
  /\ f.kind = "forkret" => x \in Threads /\ f.lk = x /\ f.pc \in {"rel", "unlock", "pop"}
  /\ f.kind = "base" /\ x \in Threads =>
       \/ f.pc \in {"run", "ret"}
       \/ f.pc \in Acquiring /\ f.lk \in {dev, x}
       \/ f.pc = "crit" /\ f.lk = dev
       \/ f.pc \in {"sched", "rel"} /\ f.lk = x
  /\ f.kind = "base" /\ x \notin Threads =>
       f.pc = "loop" \/ (f.pc \in Acquiring \cup {"pick", "rel"} /\ f.lk \in Threads)
  /\ f.kind = "irq" =>
       \/ f.pc = "iret"
       \/ f.pc \in Acquiring \cup {"crit", "post"} /\ f.lk = dev
       \/ f.pc \in Acquiring \cup {"sched", "rel"} /\ f.lk = x /\ x \in Threads
  /\ f.kind = "call" => f.pc \in Acquiring \cup {"crit"} /\ f.lk \in Threads

\* An interrupt comes only where interrupts are on.
Interruptible(f) ==
  f.kind = "base" /\ (f.pc \in {"run", "push", "ret", "loop"} \/ (f.pc = "off" /\ f.old))

\* A base frame, an interrupt above it, and a call from the section of dev in
\* either.
StackOK(x, s) ==
  /\ s \in Seq(Frames)
  /\ \A k \in 1 .. Len(s) : FrameOK(x, s[k])
  /\ \/ Len(s) = 1 /\ s[1].kind \in {"base", "forkret"}
     \/ Len(s) = 2 /\ s[1].kind = "irq" /\ Interruptible(s[2])
     \/ Len(s) = 2 /\ s[1].kind = "call" /\ s[2].kind = "base" /\ s[2].pc = "crit"
     \/ /\ Len(s) = 3 /\ s[1].kind = "call" /\ s[2].kind = "irq" /\ s[2].pc = "crit"
        /\ Interruptible(s[3])

Stacks == \A x \in Contexts : StackOK(x, stack[x])

\* The frame that a call was made from, or the frame itself.
Main(s) == IF s[1].kind = "call" THEN s[2] ELSE s[1]
Counts(f) == Inside(f) \/ f.pc \in {"spin", "pop"}

\* What the registers of a CPU are while x runs there with f on top of its stack
\* and m its main frame: noff counts the locks, and intena says whether x was
\* interruptible before the first one.
HartOK(h, x, f, m) ==
  /\ h.noff = (IF Counts(f) THEN 1 ELSE 0) + (IF f.kind = "call" THEN 1 ELSE 0)
  /\ h.intr => f.kind = "base" /\ f.pc \in {"run", "push", "off", "ret", "loop"}
  /\ x \in Threads /\ f.kind = "base" /\ f.pc \in {"run", "push", "off"} => h.intr
  /\ f.kind # "call" /\ f.pc = "off" => f.old = h.intr
  /\ Counts(m) /\ (m.kind = "irq" \/ (m.kind = "base" /\ x \in Threads)) =>
       h.intena = (m.kind = "base")

HartsOK ==
  \A c \in SpCpus :
    HartOK(hart[c], hart[c].cur, stack[hart[c].cur][1], Main(stack[hart[c].cur]))

\* A CPU runs its scheduler or a thread that no other CPU runs; in the second
\* case the scheduler waits in swtch for that thread.
Current ==
  \A c \in SpCpus :
    /\ hart[c].cur \in Threads \cup {c}
    /\ \A d \in SpCpus \ {c} : hart[d].cur # hart[c].cur
    /\ hart[c].cur \in Threads =>
         Len(stack[c]) = 1 /\ stack[c][1].pc = "rel" /\ stack[c][1].lk = hart[c].cur

\* A thread that no CPU runs waits in swtch, and has saved its intena.
Suspended ==
  /\ \A x \in Threads : x \in ready <=> \A c \in SpCpus : hart[c].cur # x
  /\ \A x \in ready :
       /\ stack[x][1].pc = "rel" /\ stack[x][1].kind # "call"
       /\ stack[x][1].kind # "forkret" => stack[x][1].saved = (stack[x][1].kind = "base")

\* The locks of the thread whose stack has f on top: the ones whose cpu field
\* names its CPU, and all of them.
Marked(f, l) ==
  (f.kind = "call" /\ l = dev) \/ (f.lk = l /\ f.pc \in {"crit", "rel", "sched", "pick"})
HoldsLock(f, l) == Marked(f, l) \/ (f.lk = l /\ f.pc \in {"own", "unlock"})
TopOn(c) == stack[hart[c].cur][1]

Owners ==
  \A c \in SpCpus : \A l \in SpLocks :
    /\ HoldsLock(TopOn(c), l) => slock[l].locked
    /\ Marked(TopOn(c), l) <=> c \in slock[l].cpu
    /\ HoldsLock(TopOn(c), l) => \A d \in SpCpus \ {c} : ~HoldsLock(TopOn(d), l)

Harts == [intr : BOOLEAN, noff : Nat, intena : BOOLEAN, cur : Contexts]

SpTypes ==
  /\ slock \in [SpLocks -> [locked : BOOLEAN, cpu : SUBSET SpCpus]]
  /\ hart \in [SpCpus -> Harts]
  /\ DOMAIN stack = Contexts
  /\ ready \subseteq Threads

SpInv == SpTypes /\ ~spPanic /\ Stacks /\ HartsOK /\ Current /\ Suspended /\ Owners

-----------------------------------------------------------------------------
(* Stacks.                                                                 *)

\* A new frame on top of a stack.
LEMMA PushFrame ==
  ASSUME NEW S, NEW s \in Seq(S), NEW f \in S
  PROVE  /\ <<f>> \o s \in Seq(S)
         /\ Len(<<f>> \o s) = Len(s) + 1
         /\ (<<f>> \o s)[1] = f
         /\ Len(s) >= 1 => (<<f>> \o s)[2] = s[1]
         /\ Len(s) >= 2 => (<<f>> \o s)[3] = s[2]
<1>1. <<f>> \in Seq(S) /\ Len(<<f>>) = 1 /\ <<f>>[1] = f OBVIOUS
<1>2. Len(s) \in Nat OBVIOUS
<1>3. <<f>> \o s \in Seq(S) BY <1>1
<1>4. Len(<<f>> \o s) = Len(s) + 1 BY <1>1, <1>2
<1>5. (<<f>> \o s)[1] = f BY <1>1, <1>2
<1>6. Len(s) >= 1 => (<<f>> \o s)[2] = s[1] BY <1>1, <1>2
<1>7. Len(s) >= 2 => (<<f>> \o s)[3] = s[2] BY <1>1, <1>2
<1> QED BY Zenon, <1>3, <1>4, <1>5, <1>6, <1>7

\* The stack below its top.
LEMMA PopFrame ==
  ASSUME NEW S, NEW s \in Seq(S), Len(s) >= 1
  PROVE  /\ Tail(s) \in Seq(S)
         /\ Len(Tail(s)) = Len(s) - 1
         /\ Len(s) >= 2 => Tail(s)[1] = s[2]
         /\ Len(s) >= 3 => Tail(s)[2] = s[3]
         /\ <<>> \o Tail(s) = Tail(s)
<1>1. s # <<>> OBVIOUS
<1>2. Len(s) \in Nat OBVIOUS
<1>3. Tail(s) \in Seq(S) BY <1>1
<1>4. Len(Tail(s)) = Len(s) - 1 BY <1>1, <1>2
<1>5. Len(s) >= 2 => Tail(s)[1] = s[2] BY <1>1, <1>2
<1>6. Len(s) >= 3 => Tail(s)[2] = s[3] BY <1>1, <1>2
<1>7. <<>> \o Tail(s) = Tail(s) BY <1>3
<1> QED BY Zenon, <1>3, <1>4, <1>5, <1>6, <1>7

\* Another frame in the place of the one on top.
LEMMA SetTop ==
  ASSUME NEW S, NEW s \in Seq(S), Len(s) >= 1, NEW f \in S
  PROVE  /\ <<f>> \o Tail(s) \in Seq(S)
         /\ Len(<<f>> \o Tail(s)) = Len(s)
         /\ (<<f>> \o Tail(s))[1] = f
         /\ Len(s) >= 2 => (<<f>> \o Tail(s))[2] = s[2]
         /\ Len(s) >= 3 => (<<f>> \o Tail(s))[3] = s[3]
<1>1. Len(s) \in Nat OBVIOUS
<1> QED BY <1>1, PopFrame, PushFrame

-----------------------------------------------------------------------------
(* Steps of the thread that a CPU runs.                                    *)

\* What runs on c.
LEMMA OnCpu ==
  ASSUME SpInv, NEW c \in SpCpus
  PROVE  /\ hart[c] \in Harts /\ hart[c].cur \in Contexts
         /\ hart[c].cur \in Threads \cup {c} /\ c \notin Threads /\ c \in Contexts
         /\ stack[hart[c].cur] \in Seq(Frames) /\ Len(stack[hart[c].cur]) >= 1
         /\ Top(hart[c].cur) = TopOn(c) /\ TopOn(c) \in Frames
         /\ FrameOK(hart[c].cur, TopOn(c))
         /\ HartOK(hart[c], hart[c].cur, TopOn(c), Main(stack[hart[c].cur]))
<1>1. hart[c] \in Harts /\ hart[c].cur \in Contexts BY Zenon DEF SpInv, SpTypes, Harts
<1>2. hart[c].cur \in Threads \cup {c} /\ c \notin Threads /\ c \in Contexts
  BY Zenon, SpAssumption DEF SpInv, Current, Contexts
<1>3. StackOK(hart[c].cur, stack[hart[c].cur]) BY Zenon, <1>1 DEF SpInv, Stacks
<1>4. stack[hart[c].cur] \in Seq(Frames) /\ Len(stack[hart[c].cur]) >= 1 BY <1>3 DEF StackOK
<1>5. Top(hart[c].cur) = TopOn(c) /\ TopOn(c) \in Frames BY <1>4 DEF Top, TopOn
<1>6. FrameOK(hart[c].cur, TopOn(c)) BY <1>3, <1>4 DEF StackOK, TopOn
<1> QED BY Zenon, <1>1, <1>2, <1>4, <1>5, <1>6 DEF SpInv, HartsOK, TopOn

\* The stack of c's thread becomes s, and c's registers h; the thread stays on c.
Local(c, s, h) ==
  /\ stack' = [stack EXCEPT ![hart[c].cur] = s]
  /\ hart' = [hart EXCEPT ![c] = h]
  /\ h.cur = hart[c].cur

\* The other CPUs run other stacks.
LEMMA OtherCpus ==
  ASSUME SpInv, NEW c \in SpCpus, NEW s, NEW h, Local(c, s, h)
  PROVE  /\ \A d \in SpCpus \ {c} : /\ hart'[d] = hart[d] /\ hart[d].cur # hart[c].cur
                                    /\ stack'[hart[d].cur] = stack[hart[d].cur]
                                    /\ TopOn(d)' = TopOn(d)
         /\ hart'[c] = h /\ stack'[hart[c].cur] = s /\ TopOn(c)' = s[1]
         /\ \A d \in SpCpus : hart'[d].cur = hart[d].cur
         /\ \A x \in Contexts : x # hart[c].cur => stack'[x] = stack[x]
<1>1. \A d \in SpCpus : hart[d].cur \in Contexts BY Zenon, OnCpu
<1>2. \A d \in SpCpus \ {c} : hart[d].cur # hart[c].cur BY Zenon DEF SpInv, Current
<1>3. DOMAIN hart = SpCpus /\ DOMAIN stack = Contexts BY Zenon DEF SpInv, SpTypes
<1>4. /\ hart'[c] = h /\ stack'[hart[c].cur] = s
      /\ \A d \in SpCpus \ {c} : hart'[d] = hart[d]
      /\ \A x \in Contexts : x # hart[c].cur => stack'[x] = stack[x]
  BY Zenon, <1>1, <1>3 DEF Local
<1> QED BY <1>1, <1>2, <1>4 DEF TopOn, Local

\* c's thread changes its stack and c's registers, and stays on c.
LEMMA LocalStep ==
  ASSUME SpInv, NEW c \in SpCpus, NEW s, NEW h \in Harts, Local(c, s, h),
         slock' \in [SpLocks -> [locked : BOOLEAN, cpu : SUBSET SpCpus]],
         ready' = ready, spPanic' = spPanic,
         StackOK(hart[c].cur, s), HartOK(h, hart[c].cur, s[1], Main(s)), Owners'
  PROVE  SpInv'
<1>1. /\ \A d \in SpCpus \ {c} : /\ hart'[d] = hart[d]
                                 /\ stack'[hart[d].cur] = stack[hart[d].cur]
      /\ hart'[c] = h /\ stack'[hart[c].cur] = s
      /\ \A d \in SpCpus : hart'[d].cur = hart[d].cur
      /\ \A x \in Contexts : x # hart[c].cur => stack'[x] = stack[x]
  BY OtherCpus
<1>2. SpTypes'
  <2>1. hart' \in [SpCpus -> Harts] BY Zenon DEF SpInv, SpTypes, Local
  <2> QED BY Zenon, <2>1 DEF SpInv, SpTypes, Local
<1>3. Stacks' BY Zenon, <1>1 DEF SpInv, Stacks
<1>4. HartsOK' BY Zenon, <1>1 DEF SpInv, HartsOK
<1>5. Current'
  <2>1. ASSUME NEW d \in SpCpus, hart[d].cur \in Threads PROVE stack'[d] = stack[d]
    <3>1. d # hart[c].cur BY <2>1, SpAssumption DEF SpInv, Current
    <3> QED BY Zenon, <1>1, <3>1 DEF Contexts
  <2> QED BY <1>1, <2>1 DEF SpInv, Current
<1>6. Suspended'
  <2>1. \A x \in ready : x # hart[c].cur /\ x \in Contexts
    BY DEF SpInv, SpTypes, Suspended, Contexts
  <2> QED BY <1>1, <2>1 DEF SpInv, Suspended
<1>7. ~spPanic' BY Zenon DEF SpInv
<1> QED BY Zenon, <1>2, <1>3, <1>4, <1>5, <1>6, <1>7 DEF SpInv

\* A frame stays of its kind, but forkret ends as the base of the process.
Follows(f, t) == f.kind = t.kind \/ (t.kind = "forkret" /\ f.kind = "base")

\* The frame on top of c's stack becomes f.
LEMMA TurnStep ==
  ASSUME SpInv, NEW c \in SpCpus, NEW f \in Frames, NEW h \in Harts,
         SetFrame(c, f), Follows(f, TopOn(c)), FrameOK(hart[c].cur, f),
         hart' = [hart EXCEPT ![c] = h], h.cur = hart[c].cur,
         HartOK(h, hart[c].cur, f, IF f.kind = "call" THEN Main(stack[hart[c].cur]) ELSE f),
         slock' \in [SpLocks -> [locked : BOOLEAN, cpu : SUBSET SpCpus]],
         ready' = ready, spPanic' = spPanic, Owners'
  PROVE  SpInv'
<1> DEFINE x == hart[c].cur
           s == stack[x]
           u == <<f>> \o Tail(s)
<1>1. /\ x \in Contexts /\ s \in Seq(Frames) /\ Len(s) >= 1 /\ TopOn(c) = s[1]
  BY Zenon, OnCpu DEF TopOn
<1>2. StackOK(x, s) BY Zenon, <1>1 DEF SpInv, Stacks
<1>3. /\ u \in Seq(Frames) /\ Len(u) = Len(s) /\ u[1] = f
      /\ Len(s) >= 2 => u[2] = s[2]
      /\ Len(s) >= 3 => u[3] = s[3]
  BY <1>1, SetTop
<1>4. Local(c, u, h) BY ZenonT(60) DEF SetFrame, Local
<1> HIDE DEF u
<1>5. StackOK(x, u)
  <2>1. \A k \in 1 .. Len(u) : FrameOK(x, u[k])
    <3>1. Len(s) \in 1 .. 3 BY <1>2 DEF StackOK
    <3>2. ASSUME NEW n \in 1 .. 3, NEW k \in 1 .. n
          PROVE  k = 1 \/ (k = 2 /\ n >= 2) \/ (k = 3 /\ n >= 3)
      OBVIOUS
    <3> QED BY <1>2, <1>3, <3>2 DEF StackOK
  <2> QED BY <1>1, <1>2, <1>3, <2>1 DEF StackOK, Follows
<1>6. Main(u) = IF f.kind = "call" THEN Main(s) ELSE f
  <2>1. f.kind = "call" => s[1].kind = "call" /\ Len(s) >= 2 BY <1>1, <1>2 DEF StackOK, Follows
  <2> QED BY Zenon, <1>1, <1>3, <2>1 DEF Main
<1> QED BY Zenon, <1>3, <1>4, <1>5, <1>6, LocalStep

\* A step that takes and releases nothing keeps the locks' owners right.
LEMMA OwnersStay ==
  ASSUME SpInv, NEW c \in SpCpus, NEW s, NEW h, Local(c, s, h), slock' = slock,
         \A l \in SpLocks : /\ Marked(s[1], l) <=> Marked(TopOn(c), l)
                            /\ HoldsLock(s[1], l) <=> HoldsLock(TopOn(c), l)
  PROVE  Owners'
<1>1. \A d \in SpCpus : \A l \in SpLocks :
        /\ Marked(TopOn(d)', l) <=> Marked(TopOn(d), l)
        /\ HoldsLock(TopOn(d)', l) <=> HoldsLock(TopOn(d), l)
  BY OtherCpus
<1> QED BY <1>1 DEF SpInv, Owners, Marked, HoldsLock

\* The frames on top when c's thread has turned to f.
LEMMA TurnTops ==
  ASSUME SpInv, NEW c \in SpCpus, NEW f \in Frames, NEW h,
         SetFrame(c, f), hart' = [hart EXCEPT ![c] = h], h.cur = hart[c].cur
  PROVE  TopOn(c)' = f /\ \A d \in SpCpus \ {c} : TopOn(d)' = TopOn(d)
<1> DEFINE s == <<f>> \o Tail(stack[hart[c].cur])
<1>1. Local(c, s, h) BY Zenon DEF SetFrame, Local
<1>2. s[1] = f BY OnCpu, SetTop
<1> HIDE DEF s
<1> QED BY Zenon, <1>1, <1>2, OtherCpus

\* A turn that takes and releases nothing.
LEMMA QuietTurn ==
  ASSUME SpInv, NEW c \in SpCpus, NEW f \in Frames, NEW h \in Harts,
         SetFrame(c, f), Follows(f, TopOn(c)), FrameOK(hart[c].cur, f),
         hart' = [hart EXCEPT ![c] = h], h.cur = hart[c].cur,
         HartOK(h, hart[c].cur, f, IF f.kind = "call" THEN Main(stack[hart[c].cur]) ELSE f),
         UNCHANGED <<slock, ready, spPanic>>,
         \A l \in SpLocks : /\ Marked(f, l) <=> Marked(TopOn(c), l)
                            /\ HoldsLock(f, l) <=> HoldsLock(TopOn(c), l)
  PROVE  SpInv'
<1>1. TopOn(c)' = f /\ \A d \in SpCpus \ {c} : TopOn(d)' = TopOn(d) BY Zenon, TurnTops
<1>2. \A d \in SpCpus : \A l \in SpLocks :
        /\ Marked(TopOn(d)', l) <=> Marked(TopOn(d), l)
        /\ HoldsLock(TopOn(d)', l) <=> HoldsLock(TopOn(d), l)
  BY <1>1
<1>3. Owners' BY <1>2 DEF SpInv, Owners, Marked, HoldsLock
<1>4. slock' \in [SpLocks -> [locked : BOOLEAN, cpu : SUBSET SpCpus]] BY Zenon DEF SpInv, SpTypes
<1> QED BY Zenon, <1>3, <1>4, TurnStep

\* What push_off and pop_off make of a CPU's registers.
Registers(h, i, n, e) == [h EXCEPT !.intr = i, !.noff = n, !.intena = e]

\* They are registers again.
LEMMA HartUpdate ==
  ASSUME NEW h \in Harts, NEW i \in BOOLEAN, NEW n \in Nat, NEW e \in BOOLEAN
  PROVE  /\ Registers(h, i, n, e) \in Harts
         /\ Registers(h, i, n, e).intr = i /\ Registers(h, i, n, e).noff = n
         /\ Registers(h, i, n, e).intena = e /\ Registers(h, i, n, e).cur = h.cur
BY Zenon DEF Harts, Registers

\* hart' = hart as an update, for the lemmas above.
LEMMA HartStays ==
  ASSUME SpInv, NEW c \in SpCpus, hart' = hart PROVE hart' = [hart EXCEPT ![c] = hart[c]]
BY Zenon DEF SpInv, SpTypes

\* int old = intr_get().
LEMMA IntrGetInv == ASSUME SpInv, NEW c \in SpCpus, IntrGet(c) PROVE SpInv'
<1> DEFINE x == hart[c].cur
           t == TopOn(c)
           f == [t EXCEPT !.pc = "off", !.old = hart[c].intr]
<1>1. /\ hart[c] \in Harts /\ t \in Frames /\ Top(x) = t /\ FrameOK(x, t)
      /\ HartOK(hart[c], x, t, Main(stack[x]))
  BY Zenon, OnCpu
<1>2. t.pc = "push" /\ SetFrame(c, f) /\ hart' = hart BY Zenon, <1>1 DEF IntrGet, SpRuns
<1>3. f \in Frames /\ f.kind = t.kind /\ f.lk = t.lk /\ f.pc = "off" /\ f.old = hart[c].intr
  BY Zenon, <1>1 DEF Frames, Harts, SpPoints
<1>4. FrameOK(x, f) BY Zenon, <1>1, <1>2, <1>3 DEF FrameOK, Acquiring
<1>5. \A l \in SpLocks : /\ Marked(f, l) <=> Marked(t, l)
                         /\ HoldsLock(f, l) <=> HoldsLock(t, l)
  BY Zenon, <1>2, <1>3 DEF Marked, HoldsLock
<1>6. HartOK(hart[c], x, f, IF f.kind = "call" THEN Main(stack[x]) ELSE f)
  BY Zenon, <1>1, <1>2, <1>3 DEF HartOK, Counts, Inside
<1> HIDE DEF f
<1> QED BY Zenon, <1>1, <1>2, <1>3, <1>4, <1>5, <1>6, HartStays, QuietTurn DEF Follows, IntrGet

\* The rest of push_off: c holds no lock of the kind it is going to take.
LEMMA IntrOffInv == ASSUME SpInv, NEW c \in SpCpus, IntrOff(c) PROVE SpInv'
<1> DEFINE x == hart[c].cur
           t == TopOn(c)
           f == [t EXCEPT !.pc = "spin"]
           e == IF hart[c].noff = 0 THEN t.old ELSE hart[c].intena
           h == Registers(hart[c], FALSE, hart[c].noff + 1, e)
<1>1. /\ hart[c] \in Harts /\ t \in Frames /\ Top(x) = t /\ FrameOK(x, t)
      /\ HartOK(hart[c], x, t, Main(stack[x]))
  BY OnCpu
<1>2. t.pc = "off" /\ SetFrame(c, f) BY Zenon, <1>1 DEF IntrOff, SpRuns, SpGoto
<1>3. hart' = [hart EXCEPT ![c] = h]
  BY Zenon, <1>1 DEF IntrOff, push_off, SpInv, SpTypes, Harts, Registers
<1>4. h \in Harts /\ h.cur = x /\ h.intr = FALSE /\ h.noff = hart[c].noff + 1
      /\ h.intena = e
  <2>1. hart[c].noff + 1 \in Nat /\ e \in BOOLEAN BY <1>1 DEF Harts, Frames
  <2> HIDE DEF e
  <2>2. h \in Harts BY Zenon, <1>1, <2>1, HartUpdate
  <2>3. h.cur = x BY ZenonT(40), <1>1, <2>1, HartUpdate
  <2>4. h.intr = FALSE BY Zenon, <1>1, <2>1, HartUpdate
  <2>5. h.noff = hart[c].noff + 1 BY Zenon, <1>1, <2>1, HartUpdate
  <2>6. h.intena = e BY Zenon, <1>1, <2>1, HartUpdate
  <2> QED BY Zenon, <2>2, <2>3, <2>4, <2>5, <2>6
<1>5. f \in Frames /\ f.kind = t.kind /\ f.lk = t.lk /\ f.pc = "spin"
  BY Zenon, <1>1 DEF Frames, SpPoints
<1>6. spPanic' = spPanic
  <2>1. t.lk \in SpLocks BY Zenon, <1>1 DEF Frames
  <2>2. ~Marked(t, t.lk)
    BY <1>1, <1>2 DEF Marked, FrameOK, Threads, dev
  <2>3. ~holding(c, Lk(c)) BY Zenon, <1>1, <2>1, <2>2 DEF holding, Lk, SpInv, Owners
  <2> QED BY Zenon, <2>3 DEF IntrOff
<1>7. FrameOK(x, f) BY Zenon, <1>1, <1>2, <1>5 DEF FrameOK, Acquiring
<1>8. \A l \in SpLocks : /\ Marked(f, l) <=> Marked(t, l)
                         /\ HoldsLock(f, l) <=> HoldsLock(t, l)
  BY Zenon, <1>2, <1>5 DEF Marked, HoldsLock
<1>9. HartOK(h, x, f, IF f.kind = "call" THEN Main(stack[x]) ELSE f)
  <2>1. t.old \in BOOLEAN /\ hart[c].intr \in BOOLEAN /\ t.kind \in Kinds BY Zenon, <1>1
      DEF Frames, Harts
  <2> HIDE DEF f, h, t
  <2>2. CASE t.kind = "call" BY <1>1, <1>2, <1>4, <1>5, <2>2 DEF HartOK, Counts, Inside
  <2>3. CASE t.kind # "call"
    BY <1>1, <1>2, <1>4, <1>5, <2>1, <2>3 DEF HartOK, Counts, Inside, Kinds
  <2> QED BY Zenon, <2>2, <2>3
<1> HIDE DEF f, h
<1> QED BY Zenon, <1>1, <1>2, <1>3, <1>4, <1>5, <1>6, <1>7, <1>8, <1>9, QuietTurn
           DEF Follows, IntrOff

\* The swap that finds the lock free: nobody is inside.
LEMMA SwapInv == ASSUME SpInv, NEW c \in SpCpus, Swap(c) PROVE SpInv'
<1> DEFINE x == hart[c].cur
           t == TopOn(c)
           f == [t EXCEPT !.pc = "own"]
<1>1. /\ hart[c] \in Harts /\ t \in Frames /\ Top(x) = t /\ FrameOK(x, t)
      /\ HartOK(hart[c], x, t, Main(stack[x]))
  BY OnCpu
<1>2. t.pc = "spin" /\ SetFrame(c, f) /\ hart' = [hart EXCEPT ![c] = hart[c]]
  BY Zenon, <1>1, HartStays DEF Swap, SpRuns, SpGoto
<1>3. f \in Frames /\ f.kind = t.kind /\ f.lk = t.lk /\ f.pc = "own"
  BY Zenon, <1>1 DEF Frames, SpPoints
<1>4. FrameOK(x, f) BY Zenon, <1>1, <1>2, <1>3 DEF FrameOK, Acquiring
<1>5. HartOK(hart[c], x, f, IF f.kind = "call" THEN Main(stack[x]) ELSE f)
  <2> HIDE DEF f, t
  <2>1. Main(stack[x]) = IF t.kind = "call" THEN Main(stack[x]) ELSE t BY Zenon DEF Main, TopOn, t
  <2> QED BY Zenon, <1>1, <1>2, <1>3, <2>1 DEF HartOK, Counts, Inside
<1>6. /\ t.lk \in SpLocks /\ ~slock[t.lk].locked
      /\ slock' = [slock EXCEPT ![t.lk].locked = TRUE]
  BY Zenon, <1>1 DEF Swap, Lk, Frames
<1>7. /\ slock' \in [SpLocks -> [locked : BOOLEAN, cpu : SUBSET SpCpus]]
      /\ slock'[t.lk].locked
      /\ \A l \in SpLocks : slock'[l].cpu = slock[l].cpu /\ (slock[l].locked => slock'[l].locked)
  BY Zenon, <1>6 DEF SpInv, SpTypes
<1>8. Owners'
  <2>1. TopOn(c)' = f /\ \A d \in SpCpus \ {c} : TopOn(d)' = TopOn(d)
    BY Zenon, <1>1, <1>2, <1>3, TurnTops
  <2>2. \A d \in SpCpus : ~HoldsLock(TopOn(d), t.lk) BY Zenon, <1>6 DEF SpInv, Owners
  <2>3. \A l \in SpLocks : /\ Marked(f, l) <=> Marked(t, l)
                           /\ HoldsLock(f, l) <=> HoldsLock(t, l) \/ l = t.lk
    BY Zenon, <1>2, <1>3 DEF Marked, HoldsLock
  <2> HIDE DEF f, t
  <2>4. \A d \in SpCpus : \A l \in SpLocks : Marked(TopOn(d)', l) <=> Marked(TopOn(d), l)
    BY Zenon, <2>1, <2>3 DEF t
  <2>5. \A d \in SpCpus : \A l \in SpLocks :
          HoldsLock(TopOn(d)', l) <=> HoldsLock(TopOn(d), l) \/ (d = c /\ l = t.lk)
    BY Zenon, <2>1, <2>3 DEF t
  <2> SUFFICES ASSUME NEW d \in SpCpus, NEW l \in SpLocks
               PROVE  /\ HoldsLock(TopOn(d)', l) => slock'[l].locked
                      /\ Marked(TopOn(d)', l) <=> d \in slock'[l].cpu
                      /\ HoldsLock(TopOn(d)', l) => \A e \in SpCpus \ {d} : ~HoldsLock(TopOn(e)', l)
    BY Zenon DEF Owners, HoldsLock, Marked
  <2> QED BY <1>7, <2>2, <2>4, <2>5 DEF SpInv, Owners
<1> HIDE DEF f
<1> QED BY Zenon, <1>1, <1>2, <1>3, <1>4, <1>5, <1>7, <1>8, TurnStep DEF Follows, Swap

\* lk->cpu = mycpu().
LEMMA OwnInv == ASSUME SpInv, NEW c \in SpCpus, Own(c) PROVE SpInv'
<1> DEFINE x == hart[c].cur
           t == TopOn(c)
           g == IF t.lk = dev \/ t.kind = "call" THEN "crit" ELSE IF x = c THEN "pick" ELSE "sched"
           f == [t EXCEPT !.pc = g]
<1>1. /\ hart[c] \in Harts /\ t \in Frames /\ Top(x) = t /\ FrameOK(x, t)
      /\ HartOK(hart[c], x, t, Main(stack[x])) /\ x \in Threads \cup {c} /\ c \notin Threads
  BY Zenon, OnCpu
<1>2. t.pc = "own" /\ SetFrame(c, f) /\ hart' = [hart EXCEPT ![c] = hart[c]]
  BY Zenon, <1>1, HartStays DEF Own, SpRuns, SpGoto, Lk
<1>3. f \in Frames /\ f.kind = t.kind /\ f.lk = t.lk /\ f.pc = g
  BY Zenon, <1>1 DEF Frames, SpPoints
<1>4. FrameOK(x, f)
  BY <1>1, <1>2, <1>3 DEF FrameOK, Acquiring, Threads, dev
<1>5. HartOK(hart[c], x, f, IF f.kind = "call" THEN Main(stack[x]) ELSE f)
  <2>1. g \in {"crit", "pick", "sched"} BY Zenon
  <2> HIDE DEF f, t, g
  <2>2. Main(stack[x]) = IF t.kind = "call" THEN Main(stack[x]) ELSE t BY DEF Main, TopOn, t
  <2> QED BY Zenon, <1>1, <1>2, <1>3, <2>1, <2>2 DEF HartOK, Counts, Inside
<1>6. t.lk \in SpLocks /\ slock' = [slock EXCEPT ![t.lk].cpu = {c}]
  BY Zenon, <1>1 DEF Own, Lk, Frames
<1>7. /\ slock' \in [SpLocks -> [locked : BOOLEAN, cpu : SUBSET SpCpus]]
      /\ slock'[t.lk].cpu = {c}
      /\ \A l \in SpLocks : /\ slock'[l].locked = slock[l].locked
                            /\ l # t.lk => slock'[l].cpu = slock[l].cpu
  BY Zenon, <1>6 DEF SpInv, SpTypes
<1>8. Owners'
  <2>1. TopOn(c)' = f /\ \A d \in SpCpus \ {c} : TopOn(d)' = TopOn(d)
    BY Zenon, <1>1, <1>2, <1>3, TurnTops
  <2>2. HoldsLock(t, t.lk) BY Zenon, <1>2 DEF HoldsLock
  <2>3. \A d \in SpCpus \ {c} : ~Marked(TopOn(d), t.lk)
    BY Zenon, <1>6, <2>2 DEF SpInv, Owners, HoldsLock
  <2>4. g \in {"crit", "pick", "sched"} OBVIOUS
  <2>5. \A l \in SpLocks : /\ Marked(f, l) <=> Marked(t, l) \/ l = t.lk
                           /\ HoldsLock(f, l) <=> HoldsLock(t, l)
    BY Zenon, <1>2, <1>3, <2>4 DEF Marked, HoldsLock
  <2> HIDE DEF f, t, g
  <2>6. \A d \in SpCpus : \A l \in SpLocks :
          Marked(TopOn(d)', l) <=> Marked(TopOn(d), l) \/ (d = c /\ l = t.lk)
    BY Zenon, <2>1, <2>5 DEF t
  <2>7. \A d \in SpCpus : \A l \in SpLocks :
          HoldsLock(TopOn(d)', l) <=> HoldsLock(TopOn(d), l)
    BY Zenon, <2>1, <2>5 DEF t
  <2> SUFFICES ASSUME NEW d \in SpCpus, NEW l \in SpLocks
               PROVE  /\ HoldsLock(TopOn(d)', l) => slock'[l].locked
                      /\ Marked(TopOn(d)', l) <=> d \in slock'[l].cpu
                      /\ HoldsLock(TopOn(d)', l) => \A e \in SpCpus \ {d} : ~HoldsLock(TopOn(e)', l)
    BY DEF Owners, HoldsLock, Marked
  <2>8. Marked(TopOn(d)', l) <=> d \in slock'[l].cpu
    BY <1>7, <2>3, <2>6 DEF SpInv, Owners
  <2> QED BY Zenon, <1>7, <2>7, <2>8 DEF SpInv, Owners
<1> HIDE DEF f, g
<1> QED BY Zenon, <1>1, <1>2, <1>3, <1>4, <1>5, <1>7, <1>8, TurnStep DEF Follows, Own

\* release() is called by who holds the lock.
LEMMA DisownInv == ASSUME SpInv, NEW c \in SpCpus, Disown(c) PROVE SpInv'
<1> DEFINE x == hart[c].cur
           t == TopOn(c)
           f == [t EXCEPT !.pc = "unlock"]
<1>1. /\ hart[c] \in Harts /\ t \in Frames /\ Top(x) = t /\ FrameOK(x, t)
      /\ HartOK(hart[c], x, t, Main(stack[x]))
  BY OnCpu
<1>2. t.pc \in {"crit", "rel"} /\ SetFrame(c, f) /\ hart' = [hart EXCEPT ![c] = hart[c]]
  BY Zenon, <1>1, HartStays DEF Disown, SpRuns, SpGoto
<1>3. f \in Frames /\ f.kind = t.kind /\ f.lk = t.lk /\ f.pc = "unlock"
  BY Zenon, <1>1 DEF Frames, SpPoints
<1>4. FrameOK(x, f) BY Zenon, <1>1, <1>2, <1>3 DEF FrameOK, Acquiring
<1>5. HartOK(hart[c], x, f, IF f.kind = "call" THEN Main(stack[x]) ELSE f)
  <2> HIDE DEF f, t
  <2>1. Main(stack[x]) = IF t.kind = "call" THEN Main(stack[x]) ELSE t BY DEF Main, TopOn, t
  <2> QED BY Zenon, <1>1, <1>2, <1>3, <2>1 DEF HartOK, Counts, Inside
<1>6. t.lk \in SpLocks /\ slock' = [slock EXCEPT ![t.lk].cpu = {}]
  BY Zenon, <1>1 DEF Disown, Lk, Frames
<1>7. /\ slock' \in [SpLocks -> [locked : BOOLEAN, cpu : SUBSET SpCpus]]
      /\ slock'[t.lk].cpu = {}
      /\ \A l \in SpLocks : /\ slock'[l].locked = slock[l].locked
                            /\ l # t.lk => slock'[l].cpu = slock[l].cpu
  BY Zenon, <1>6 DEF SpInv, SpTypes
<1>8. Marked(t, t.lk) /\ HoldsLock(t, t.lk) BY Zenon, <1>2 DEF Marked, HoldsLock
<1>9. spPanic' = spPanic
  <2>1. holding(c, Lk(c)) BY Zenon, <1>1, <1>6, <1>8 DEF holding, Lk, SpInv, Owners
  <2> QED BY Zenon, <2>1 DEF Disown
<1>10. Owners'
  <2>1. TopOn(c)' = f /\ \A d \in SpCpus \ {c} : TopOn(d)' = TopOn(d)
    BY Zenon, <1>1, <1>2, <1>3, TurnTops
  <2>2. \A d \in SpCpus \ {c} : ~Marked(TopOn(d), t.lk)
    BY Zenon, <1>6, <1>8 DEF SpInv, Owners, HoldsLock
  <2>3. t.kind = "call" => t.lk # dev BY <1>1 DEF FrameOK, Threads, dev
  <2>4. \A l \in SpLocks : /\ Marked(f, l) <=> Marked(t, l) /\ l # t.lk
                           /\ HoldsLock(f, l) <=> HoldsLock(t, l)
    BY Zenon, <1>2, <1>3, <2>3 DEF Marked, HoldsLock
  <2> HIDE DEF f, t
  <2>5. \A d \in SpCpus : \A l \in SpLocks :
          Marked(TopOn(d)', l) <=> Marked(TopOn(d), l) /\ l # t.lk
    BY Zenon, <2>1, <2>2, <2>4 DEF t
  <2>6. \A d \in SpCpus : \A l \in SpLocks :
          HoldsLock(TopOn(d)', l) <=> HoldsLock(TopOn(d), l)
    BY Zenon, <2>1, <2>4 DEF t
  <2> SUFFICES ASSUME NEW d \in SpCpus, NEW l \in SpLocks
               PROVE  /\ HoldsLock(TopOn(d)', l) => slock'[l].locked
                      /\ Marked(TopOn(d)', l) <=> d \in slock'[l].cpu
                      /\ HoldsLock(TopOn(d)', l) => \A e \in SpCpus \ {d} : ~HoldsLock(TopOn(e)', l)
    BY DEF Owners, HoldsLock, Marked
  <2>7. Marked(TopOn(d)', l) <=> d \in slock'[l].cpu
    BY <1>7, <2>5 DEF SpInv, Owners
  <2> QED BY Zenon, <1>7, <2>6, <2>7 DEF SpInv, Owners
<1> HIDE DEF f
<1> QED BY Zenon, <1>1, <1>2, <1>3, <1>4, <1>5, <1>7, <1>9, <1>10, TurnStep DEF Follows, Disown

\* The store that frees the lock.
LEMMA UnlockInv == ASSUME SpInv, NEW c \in SpCpus, Unlock(c) PROVE SpInv'
<1> DEFINE x == hart[c].cur
           t == TopOn(c)
           f == [t EXCEPT !.pc = "pop"]
<1>1. /\ hart[c] \in Harts /\ t \in Frames /\ Top(x) = t /\ FrameOK(x, t)
      /\ HartOK(hart[c], x, t, Main(stack[x]))
  BY OnCpu
<1>2. t.pc = "unlock" /\ SetFrame(c, f) /\ hart' = [hart EXCEPT ![c] = hart[c]]
  BY Zenon, <1>1, HartStays DEF Unlock, SpRuns, SpGoto
<1>3. f \in Frames /\ f.kind = t.kind /\ f.lk = t.lk /\ f.pc = "pop"
  BY Zenon, <1>1 DEF Frames, SpPoints
<1>4. FrameOK(x, f) BY Zenon, <1>1, <1>2, <1>3 DEF FrameOK, Acquiring
<1>5. HartOK(hart[c], x, f, IF f.kind = "call" THEN Main(stack[x]) ELSE f)
  <2> HIDE DEF f, t
  <2>1. Main(stack[x]) = IF t.kind = "call" THEN Main(stack[x]) ELSE t BY DEF Main, TopOn, t
  <2> QED BY Zenon, <1>1, <1>2, <1>3, <2>1 DEF HartOK, Counts, Inside
<1>6. t.lk \in SpLocks /\ slock' = [slock EXCEPT ![t.lk].locked = FALSE]
  BY Zenon, <1>1 DEF Unlock, Lk, Frames
<1>7. /\ slock' \in [SpLocks -> [locked : BOOLEAN, cpu : SUBSET SpCpus]]
      /\ \A l \in SpLocks : /\ slock'[l].cpu = slock[l].cpu
                            /\ l # t.lk => slock'[l].locked = slock[l].locked
  BY Zenon, <1>6 DEF SpInv, SpTypes
<1>8. Owners'
  <2>1. TopOn(c)' = f /\ \A d \in SpCpus \ {c} : TopOn(d)' = TopOn(d)
    BY Zenon, <1>1, <1>2, <1>3, TurnTops
  <2>2. \A d \in SpCpus \ {c} : ~HoldsLock(TopOn(d), t.lk)
    BY Zenon, <1>2, <1>6 DEF SpInv, Owners, HoldsLock
  <2>3. t.kind = "call" => t.lk # dev BY <1>1 DEF FrameOK, Threads, dev
  <2>4. \A l \in SpLocks : /\ Marked(f, l) <=> Marked(t, l)
                           /\ HoldsLock(f, l) <=> HoldsLock(t, l) /\ l # t.lk
    BY Zenon, <1>2, <1>3, <2>3 DEF Marked, HoldsLock
  <2> HIDE DEF f, t
  <2>5. \A d \in SpCpus : \A l \in SpLocks : Marked(TopOn(d)', l) <=> Marked(TopOn(d), l)
    BY Zenon, <2>1, <2>4 DEF t
  <2>6. \A d \in SpCpus : \A l \in SpLocks :
          HoldsLock(TopOn(d)', l) <=> HoldsLock(TopOn(d), l) /\ l # t.lk
    BY Zenon, <2>1, <2>2, <2>4 DEF t
  <2> SUFFICES ASSUME NEW d \in SpCpus, NEW l \in SpLocks
               PROVE  /\ HoldsLock(TopOn(d)', l) => slock'[l].locked
                      /\ Marked(TopOn(d)', l) <=> d \in slock'[l].cpu
                      /\ HoldsLock(TopOn(d)', l) => \A e \in SpCpus \ {d} : ~HoldsLock(TopOn(e)', l)
    BY DEF Owners, HoldsLock, Marked
  <2> QED BY Zenon, <1>7, <2>5, <2>6 DEF SpInv, Owners
<1> HIDE DEF f
<1> QED BY Zenon, <1>1, <1>2, <1>3, <1>4, <1>5, <1>7, <1>8, TurnStep DEF Follows, Unlock

\* Kernel code calls acquire, or yield.
LEMMA KernelCodeInv == ASSUME SpInv, NEW c \in SpCpus, KernelCode(c) PROVE SpInv'
<1> DEFINE x == hart[c].cur
           t == TopOn(c)
<1>1. /\ hart[c] \in Harts /\ t \in Frames /\ Top(x) = t /\ FrameOK(x, t)
      /\ HartOK(hart[c], x, t, Main(stack[x])) /\ hart' = [hart EXCEPT ![c] = hart[c]]
  BY Zenon, OnCpu, HartStays DEF KernelCode
<1>2. t.pc = "run" BY Zenon, <1>1 DEF KernelCode, SpRuns
<1>3. t.kind = "base" /\ x \in Threads BY Zenon, <1>1, <1>2 DEF FrameOK, Acquiring, Frames, Kinds
<1>4. PICK l \in {dev, x} : SetFrame(c, [t EXCEPT !.pc = "push", !.lk = l])
  BY Zenon, <1>1 DEF KernelCode
<1> DEFINE f == [t EXCEPT !.pc = "push", !.lk = l]
<1>5. l \in SpLocks BY Zenon, <1>3 DEF SpLocks
<1>6. f \in Frames /\ f.kind = "base" /\ f.lk = l /\ f.pc = "push"
  BY Zenon, <1>1, <1>3, <1>5 DEF Frames, SpPoints
<1>7. FrameOK(x, f) BY Zenon, <1>3, <1>6 DEF FrameOK, Acquiring
<1>8. HartOK(hart[c], x, f, IF f.kind = "call" THEN Main(stack[x]) ELSE f)
  BY Zenon, <1>1, <1>2, <1>3, <1>6 DEF HartOK, Counts, Inside
<1>9. \A m \in SpLocks : /\ Marked(f, m) <=> Marked(t, m)
                         /\ HoldsLock(f, m) <=> HoldsLock(t, m)
  BY Zenon, <1>2, <1>3, <1>6 DEF Marked, HoldsLock
<1> HIDE DEF f
<1> QED BY Zenon, <1>1, <1>3, <1>4, <1>6, <1>7, <1>8, <1>9, QuietTurn DEF Follows, KernelCode, f

\* intr_on at the start of a system call, and in the scheduler's loop.
LEMMA InterruptsOn ==
  ASSUME NEW h \in Harts
  PROVE  LET g == [h EXCEPT !.intr = TRUE]
         IN  g \in Harts /\ g.intr = TRUE /\ g.noff = h.noff /\ g.intena = h.intena /\ g.cur = h.cur
BY Zenon DEF Harts

\* A system call starts.
LEMMA UserModeInv == ASSUME SpInv, NEW c \in SpCpus, UserMode(c) PROVE SpInv'
<1> DEFINE x == hart[c].cur
           t == TopOn(c)
           f == [t EXCEPT !.pc = "run"]
           h == [hart[c] EXCEPT !.intr = TRUE]
<1>1. /\ hart[c] \in Harts /\ t \in Frames /\ Top(x) = t /\ FrameOK(x, t)
      /\ HartOK(hart[c], x, t, Main(stack[x]))
  BY OnCpu
<1>2. t.pc = "ret" /\ SetFrame(c, f) BY Zenon, <1>1 DEF UserMode, SpRuns, SpGoto
<1>3. hart' = [hart EXCEPT ![c] = h] BY Zenon DEF UserMode
<1>4. h \in Harts /\ h.intr = TRUE /\ h.noff = hart[c].noff /\ h.intena = hart[c].intena /\ h.cur = x
  BY Zenon, <1>1, InterruptsOn
<1>5. t.kind = "base" /\ x \in Threads BY Zenon, <1>1, <1>2 DEF FrameOK, Acquiring, Frames, Kinds
<1>6. f \in Frames /\ f.kind = "base" /\ f.lk = t.lk /\ f.pc = "run"
  BY Zenon, <1>1, <1>5 DEF Frames, SpPoints
<1>7. FrameOK(x, f) BY Zenon, <1>5, <1>6 DEF FrameOK
<1>8. HartOK(h, x, f, IF f.kind = "call" THEN Main(stack[x]) ELSE f)
  BY Zenon, <1>1, <1>2, <1>4, <1>5, <1>6 DEF HartOK, Counts, Inside
<1>9. \A m \in SpLocks : /\ Marked(f, m) <=> Marked(t, m)
                         /\ HoldsLock(f, m) <=> HoldsLock(t, m)
  BY Zenon, <1>2, <1>5, <1>6 DEF Marked, HoldsLock
<1> HIDE DEF f, h
<1> QED BY Zenon, <1>1, <1>2, <1>3, <1>4, <1>5, <1>6, <1>7, <1>8, <1>9, QuietTurn
           DEF Follows, UserMode

\* A pass of the scheduler starts.
LEMMA SchedulerTopInv == ASSUME SpInv, NEW c \in SpCpus, SchedulerTop(c) PROVE SpInv'
<1> DEFINE x == hart[c].cur
           t == TopOn(c)
           f == Frame("push", 1)
           h == [hart[c] EXCEPT !.intr = TRUE]
<1>1. /\ hart[c] \in Harts /\ t \in Frames /\ Top(x) = t /\ FrameOK(x, t)
      /\ HartOK(hart[c], x, t, Main(stack[x]))
  BY OnCpu
<1>2. t.pc = "loop" /\ SetFrame(c, f) BY Zenon, <1>1 DEF SchedulerTop, SpRuns, SpGoto
<1>3. hart' = [hart EXCEPT ![c] = h] BY Zenon DEF SchedulerTop
<1>4. h \in Harts /\ h.intr = TRUE /\ h.noff = hart[c].noff /\ h.intena = hart[c].intena /\ h.cur = x
  BY <1>1, InterruptsOn
<1>5. t.kind = "base" /\ x \notin Threads BY Zenon, <1>1, <1>2 DEF FrameOK, Acquiring, Frames, Kinds
<1>6. 1 \in Threads /\ 1 # dev BY SpAssumption DEF Threads, dev
<1>7. f \in Frames /\ f.kind = "base" /\ f.lk = 1 /\ f.pc = "push"
  BY Zenon, <1>6 DEF Frame, Frames, SpPoints, SpLocks, Kinds
<1>8. FrameOK(x, f) BY Zenon, <1>5, <1>6, <1>7 DEF FrameOK, Acquiring
<1>9. HartOK(h, x, f, IF f.kind = "call" THEN Main(stack[x]) ELSE f)
  BY Zenon, <1>1, <1>2, <1>4, <1>5, <1>7 DEF HartOK, Counts, Inside
<1>10. \A m \in SpLocks : /\ Marked(f, m) <=> Marked(t, m)
                          /\ HoldsLock(f, m) <=> HoldsLock(t, m)
  BY Zenon, <1>2, <1>5, <1>7 DEF Marked, HoldsLock
<1> HIDE DEF f, h
<1> QED BY Zenon, <1>1, <1>2, <1>3, <1>4, <1>5, <1>7, <1>8, <1>9, <1>10, QuietTurn
           DEF Follows, SchedulerTop

\* kerneltrap returns or yields.
LEMMA TrapYieldInv == ASSUME SpInv, NEW c \in SpCpus, TrapYield(c) PROVE SpInv'
<1> DEFINE x == hart[c].cur
           t == TopOn(c)
<1>1. /\ hart[c] \in Harts /\ t \in Frames /\ Top(x) = t /\ FrameOK(x, t)
      /\ HartOK(hart[c], x, t, Main(stack[x])) /\ hart' = [hart EXCEPT ![c] = hart[c]]
  BY Zenon, OnCpu, HartStays DEF TrapYield
<1>2. t.pc = "post" BY Zenon, <1>1 DEF TrapYield, SpRuns
<1>3. t.kind = "irq" BY Zenon, <1>1, <1>2 DEF FrameOK, Acquiring, Frames, Kinds
<1>4. PICK f \in Frames : /\ SetFrame(c, f) /\ f.kind = "irq"
                          /\ f.pc = "iret" \/ (f.pc = "push" /\ f.lk = x /\ x \in Threads)
  <2>1. CASE SpGoto(c, "iret")
    <3>1. [t EXCEPT !.pc = "iret"] \in Frames BY Zenon, <1>1 DEF Frames, SpPoints
    <3>2. SetFrame(c, [t EXCEPT !.pc = "iret"]) BY Zenon, <1>1, <2>1 DEF SpGoto
    <3>3. [t EXCEPT !.pc = "iret"].kind = "irq" /\ [t EXCEPT !.pc = "iret"].pc = "iret"
      BY Zenon, <1>1, <1>3 DEF Frames
    <3> QED BY Zenon, <3>1, <3>2, <3>3
  <2>2. CASE /\ x \in Threads
             /\ SetFrame(c, [t EXCEPT !.pc = "push", !.lk = x])
    <3>1. x \in SpLocks BY Zenon, <2>2 DEF SpLocks
    <3>2. [t EXCEPT !.pc = "push", !.lk = x] \in Frames BY Zenon, <1>1, <3>1 DEF Frames, SpPoints
    <3>3. /\ [t EXCEPT !.pc = "push", !.lk = x].kind = "irq"
          /\ [t EXCEPT !.pc = "push", !.lk = x].pc = "push"
          /\ [t EXCEPT !.pc = "push", !.lk = x].lk = x
      BY Zenon, <1>1, <1>3 DEF Frames
    <3> QED BY Zenon, <2>2, <3>2, <3>3
  <2> QED BY Zenon, <1>1, <2>1, <2>2 DEF TrapYield
<1>5. FrameOK(x, f) BY Zenon, <1>4 DEF FrameOK, Acquiring
<1>6. HartOK(hart[c], x, f, IF f.kind = "call" THEN Main(stack[x]) ELSE f)
  BY Zenon, <1>1, <1>2, <1>3, <1>4 DEF HartOK, Counts, Inside
<1>7. \A m \in SpLocks : /\ Marked(f, m) <=> Marked(t, m)
                         /\ HoldsLock(f, m) <=> HoldsLock(t, m)
  BY Zenon, <1>2, <1>3, <1>4 DEF Marked, HoldsLock
<1> QED BY Zenon, <1>1, <1>3, <1>4, <1>5, <1>6, <1>7, QuietTurn DEF Follows, TrapYield

-----------------------------------------------------------------------------
(* Interrupts and calls.                                                   *)

\* The frame below an interrupt holds nothing.
LEMMA InterruptedHoldsNothing ==
  ASSUME NEW f, Interruptible(f), NEW l PROVE ~Marked(f, l) /\ ~HoldsLock(f, l)
BY Zenon DEF Interruptible, Marked, HoldsLock

\* A new frame on c's stack, of an interrupt or of a call.
LEMMA PushStep ==
  ASSUME SpInv, NEW c \in SpCpus, NEW f \in Frames, NEW h \in Harts,
         stack' = [stack EXCEPT ![hart[c].cur] = <<f>> \o @],
         hart' = [hart EXCEPT ![c] = h], h.cur = hart[c].cur,
         FrameOK(hart[c].cur, f),
         \/ f.kind = "irq" /\ Interruptible(TopOn(c)) /\ Len(stack[hart[c].cur]) = 1
         \/ f.kind = "call" /\ TopOn(c).kind \in {"base", "irq"} /\ TopOn(c).pc = "crit",
         HartOK(h, hart[c].cur, f, IF f.kind = "call" THEN TopOn(c) ELSE f),
         UNCHANGED <<slock, ready, spPanic>>,
         \A l \in SpLocks : /\ Marked(f, l) <=> Marked(TopOn(c), l)
                            /\ HoldsLock(f, l) <=> HoldsLock(TopOn(c), l)
  PROVE  SpInv'
<1> DEFINE x == hart[c].cur
           s == stack[x]
           u == <<f>> \o s
<1>1. /\ x \in Contexts /\ s \in Seq(Frames) /\ Len(s) >= 1 /\ TopOn(c) = s[1]
  BY Zenon, OnCpu DEF TopOn
<1>2. StackOK(x, s) BY ZenonT(60), <1>1 DEF SpInv, Stacks
<1>3. Len(s) \in 1 .. 3 BY <1>2 DEF StackOK
<1>4. /\ u \in Seq(Frames) /\ Len(u) = Len(s) + 1 /\ u[1] = f
      /\ u[2] = s[1]
      /\ Len(s) >= 2 => u[3] = s[2]
  BY <1>1, PushFrame
<1>5. Local(c, u, h) BY Zenon DEF Local
<1> HIDE DEF u
<1>6. StackOK(x, u)
  <2>1. CASE f.kind = "irq" /\ Interruptible(s[1]) /\ Len(s) = 1
    <3>1. \A k \in 1 .. Len(u) : k = 1 \/ k = 2 BY <1>4, <2>1
    <3>2. \A k \in 1 .. Len(u) : FrameOK(x, u[k]) BY <1>2, <1>4, <2>1, <3>1 DEF StackOK
    <3> QED BY <1>4, <2>1, <3>2 DEF StackOK
  <2>2. CASE f.kind = "call" /\ s[1].kind \in {"base", "irq"} /\ s[1].pc = "crit"
    <3>1. \/ Len(s) = 1 /\ s[1].kind = "base"
          \/ Len(s) = 2 /\ s[1].kind = "irq" /\ Interruptible(s[2])
      BY Zenon, <1>2, <2>2 DEF StackOK
    <3>2. CASE Len(s) = 1
      <4>1. Len(u) = 2 BY <1>4, <3>2
      <4>2. \A k \in 1 .. 2 : k = 1 \/ k = 2 OBVIOUS
      <4>3. FrameOK(x, s[1]) /\ s[1].kind = "base" BY <1>2, <3>1, <3>2 DEF StackOK
      <4> QED BY Zenon, <1>4, <2>2, <4>1, <4>2, <4>3 DEF StackOK
    <3>3. CASE Len(s) = 2
      <4>1. Len(u) = 3 BY <1>4, <3>3
      <4>2. \A k \in 1 .. 3 : k = 1 \/ k = 2 \/ k = 3 OBVIOUS
      <4>3. FrameOK(x, s[1]) /\ FrameOK(x, s[2]) BY <1>2, <3>3 DEF StackOK
      <4>4. s[1].kind = "irq" /\ Interruptible(s[2]) /\ u[3] = s[2] BY <1>4, <3>1, <3>3
      <4> QED BY Zenon, <1>4, <2>2, <4>1, <4>2, <4>3, <4>4 DEF StackOK
    <3> QED BY Zenon, <3>1, <3>2, <3>3
  <2> QED BY Zenon, <1>1, <2>1, <2>2
<1>7. Main(u) = IF f.kind = "call" THEN TopOn(c) ELSE f BY Zenon, <1>1, <1>4 DEF Main
<1>8. Owners' BY Zenon, <1>4, <1>5, OwnersStay
<1>9. slock' \in [SpLocks -> [locked : BOOLEAN, cpu : SUBSET SpCpus]] BY Zenon DEF SpInv, SpTypes
<1> QED BY Zenon, <1>4, <1>5, <1>6, <1>7, <1>8, <1>9, LocalStep

\* The frame on top of c's stack goes away.
LEMMA PopStep ==
  ASSUME SpInv, NEW c \in SpCpus, NEW h \in Harts,
         stack' = [stack EXCEPT ![hart[c].cur] = Tail(@)],
         hart' = [hart EXCEPT ![c] = h], h.cur = hart[c].cur,
         TopOn(c).kind \in {"irq", "call"},
         HartOK(h, hart[c].cur, stack[hart[c].cur][2], stack[hart[c].cur][2]),
         UNCHANGED <<slock, ready, spPanic>>,
         \A l \in SpLocks : /\ Marked(stack[hart[c].cur][2], l) <=> Marked(TopOn(c), l)
                            /\ HoldsLock(stack[hart[c].cur][2], l) <=> HoldsLock(TopOn(c), l)
  PROVE  SpInv'
<1> DEFINE x == hart[c].cur
           s == stack[x]
           u == Tail(s)
<1>1. /\ x \in Contexts /\ s \in Seq(Frames) /\ Len(s) >= 1 /\ TopOn(c) = s[1]
  BY Zenon, OnCpu DEF TopOn
<1>2. StackOK(x, s) BY Zenon, <1>1 DEF SpInv, Stacks
<1>3. Len(s) \in 2 .. 3 /\ s[2].kind \in {"base", "irq"}
  <2>1. s[1].kind \notin {"base", "forkret"} BY ZenonT(60), <1>1
  <2>2. Len(s) \in 2 .. 3 BY <1>2, <2>1 DEF StackOK
  <2>3. s[2].kind \in {"base", "irq"} BY Zenon, <1>2, <2>1 DEF StackOK, Interruptible
  <2> QED BY Zenon, <2>2, <2>3
<1>4. u \in Seq(Frames) /\ Len(u) = Len(s) - 1 /\ u[1] = s[2] /\ (Len(s) = 3 => u[2] = s[3])
  BY <1>1, <1>3, PopFrame
<1>5. Local(c, u, h) BY Zenon DEF Local
<1> HIDE DEF u
<1>6. StackOK(x, u)
  <2>1. CASE Len(s) = 2
    <3>1. \A k \in 1 .. Len(u) : k = 1 BY <1>4, <2>1
    <3>2. \A k \in 1 .. Len(u) : FrameOK(x, u[k]) BY SMTT(30), <1>2, <1>4, <2>1, <3>1 DEF StackOK
    <3> QED BY <1>2, <1>4, <2>1, <3>2 DEF StackOK, Interruptible
  <2>2. CASE Len(s) = 3
    <3>1. \A k \in 1 .. Len(u) : k = 1 \/ k = 2 BY <1>4, <2>2
    <3>2. \A k \in 1 .. Len(u) : FrameOK(x, u[k]) BY <1>2, <1>4, <2>2, <3>1 DEF StackOK
    <3> QED BY <1>2, <1>4, <2>2, <3>2 DEF StackOK
  <2> QED BY SMTT(30), <1>3, <2>1, <2>2
<1>7. Main(u) = s[2] BY Zenon, <1>3, <1>4 DEF Main
<1>8. Owners' BY Zenon, <1>4, <1>5, OwnersStay
<1>9. slock' \in [SpLocks -> [locked : BOOLEAN, cpu : SUBSET SpCpus]] BY Zenon DEF SpInv, SpTypes
<1> QED BY Zenon, <1>4, <1>5, <1>6, <1>7, <1>8, <1>9, LocalStep

\* An interrupt comes only where the base frame runs with interrupts on.
LEMMA InterruptInv == ASSUME SpInv, NEW c \in SpCpus, Interrupt(c) PROVE SpInv'
<1> DEFINE x == hart[c].cur
           t == TopOn(c)
           f == [Frame("push", dev) EXCEPT !.kind = "irq"]
           h == [hart[c] EXCEPT !.intr = FALSE]
<1>1. /\ hart[c] \in Harts /\ t \in Frames /\ FrameOK(x, t) /\ t = stack[x][1] /\ x \in Contexts
      /\ HartOK(hart[c], x, t, Main(stack[x])) /\ hart[c].intr
  BY Zenon, OnCpu DEF Interrupt, TopOn
<1>2. /\ stack' = [stack EXCEPT ![hart[c].cur] = <<f>> \o @] /\ hart' = [hart EXCEPT ![c] = h]
      /\ UNCHANGED <<slock, ready, spPanic>>
  BY Zenon DEF Interrupt
<1>3. h \in Harts /\ h.intr = FALSE /\ h.noff = hart[c].noff /\ h.cur = x
  BY Zenon, <1>1 DEF Harts
<1>4. f \in Frames /\ f.kind = "irq" /\ f.pc = "push" /\ f.lk = dev
  BY Zenon DEF Frame, Frames, SpPoints, SpLocks, Kinds
<1>5. t.kind = "base" /\ Interruptible(t) BY Zenon, <1>1 DEF HartOK, Interruptible
<1>6. Len(stack[x]) = 1 BY Zenon, <1>1, <1>5 DEF SpInv, Stacks, StackOK
<1>7. FrameOK(x, f) BY Zenon, <1>4 DEF FrameOK, Acquiring
<1>8. HartOK(h, x, f, f)
  BY Zenon, <1>1, <1>3, <1>4, <1>5 DEF HartOK, Counts, Inside, Interruptible
<1>9. \A l \in SpLocks : /\ Marked(f, l) <=> Marked(t, l)
                         /\ HoldsLock(f, l) <=> HoldsLock(t, l)
  BY Zenon, <1>4, <1>5, InterruptedHoldsNothing DEF Marked, HoldsLock
<1> HIDE DEF f, h, t
<1> QED BY Zenon, <1>2, <1>3, <1>4, <1>5, <1>6, <1>7, <1>8, <1>9, PushStep DEF t

\* wakeup() is called with the device's lock held.
LEMMA NestedInv == ASSUME SpInv, NEW c \in SpCpus, Nested(c) PROVE SpInv'
<1> DEFINE x == hart[c].cur
           t == TopOn(c)
<1>1. /\ hart[c] \in Harts /\ t \in Frames /\ FrameOK(x, t) /\ Top(x) = t
      /\ HartOK(hart[c], x, t, Main(stack[x])) /\ hart' = [hart EXCEPT ![c] = hart[c]]
  BY Zenon, OnCpu, HartStays DEF Nested
<1>2. t.pc = "crit" /\ t.lk = dev BY Zenon, <1>1 DEF Nested, SpRuns, Lk
<1>3. dev \notin Threads BY DEF dev, Threads
<1>4. t.kind \in {"base", "irq"} BY Zenon, <1>1, <1>2, <1>3 DEF FrameOK, Frames, Kinds, Acquiring
<1>5. Main(stack[x]) = t BY Zenon, <1>4 DEF Main, TopOn
<1>6. PICK y \in Threads :
        stack' = [stack EXCEPT ![x] = <<[Frame("push", y) EXCEPT !.kind = "call"]>> \o @]
  BY Zenon DEF Nested
<1> DEFINE f == [Frame("push", y) EXCEPT !.kind = "call"]
<1>7. f \in Frames /\ f.kind = "call" /\ f.pc = "push" /\ f.lk = y
  BY Zenon DEF Frame, Frames, SpPoints, SpLocks, Kinds
<1>8. FrameOK(x, f) BY Zenon, <1>7 DEF FrameOK, Acquiring
<1>9. HartOK(hart[c], x, f, t)
  BY <1>1, <1>2, <1>4, <1>5, <1>7 DEF HartOK, Counts, Inside
<1>10. \A l \in SpLocks : /\ Marked(f, l) <=> Marked(t, l)
                          /\ HoldsLock(f, l) <=> HoldsLock(t, l)
  BY Zenon, <1>2, <1>4, <1>7 DEF Marked, HoldsLock
<1>11. stack' = [stack EXCEPT ![x] = <<f>> \o @] BY Zenon, <1>6
<1> HIDE DEF f, t
<1> QED BY Zenon, <1>1, <1>2, <1>4, <1>7, <1>8, <1>9, <1>10, <1>11, PushStep DEF t, Nested

\* sret goes back to the base frame, which had interrupts on.
LEMMA IretInv == ASSUME SpInv, NEW c \in SpCpus, Iret(c) PROVE SpInv'
<1> DEFINE x == hart[c].cur
           t == TopOn(c)
           b == stack[x][2]
           h == [hart[c] EXCEPT !.intr = TRUE]
<1>1. /\ hart[c] \in Harts /\ t \in Frames /\ FrameOK(x, t) /\ Top(x) = t /\ t = stack[x][1]
      /\ x \in Contexts /\ HartOK(hart[c], x, t, Main(stack[x]))
  BY Zenon, OnCpu DEF TopOn
<1>2. t.pc = "iret" BY Zenon, <1>1 DEF Iret, SpRuns
<1>3. t.kind = "irq" BY Zenon, <1>1, <1>2 DEF FrameOK, Frames, Kinds, Acquiring
<1>4. Interruptible(b) BY Zenon, <1>1, <1>3 DEF SpInv, Stacks, StackOK
<1>5. h \in Harts /\ h.intr = TRUE /\ h.noff = hart[c].noff /\ h.intena = hart[c].intena /\ h.cur = x
  BY Zenon, <1>1, InterruptsOn
<1>6. b.kind = "base" /\ b.pc \in {"run", "push", "off", "ret", "loop"} /\ (b.pc = "off" => b.old = TRUE)
  <2>1. b \in Frames BY <1>1, <1>3 DEF SpInv, Stacks, StackOK
  <2>2. b.old \in BOOLEAN BY Zenon, <2>1 DEF Frames
  <2> QED BY Zenon, <1>4, <2>2 DEF Interruptible
<1> HIDE DEF h, t, b
<1>7. HartOK(h, x, b, b)
  BY Zenon, <1>1, <1>2, <1>3, <1>5, <1>6 DEF HartOK, Counts, Inside
<1>8. \A l \in SpLocks : /\ Marked(b, l) <=> Marked(t, l)
                         /\ HoldsLock(b, l) <=> HoldsLock(t, l)
  BY Zenon, <1>2, <1>3, <1>4, InterruptedHoldsNothing DEF Marked, HoldsLock
<1> QED BY Zenon, <1>3, <1>5, <1>7, <1>8, PopStep DEF t, b, h, Iret

\* pop_off finds interrupts off and noff positive, and restores intena with the
\* last lock.
LEMMA PopOffInv == ASSUME SpInv, NEW c \in SpCpus, pop_off(c) PROVE SpInv'
<1> DEFINE x == hart[c].cur
           t == TopOn(c)
           b == stack[x][2]
           i == hart[c].noff = 1 /\ hart[c].intena
           h == Registers(hart[c], i, hart[c].noff - 1, hart[c].intena)
<1>1. /\ hart[c] \in Harts /\ t \in Frames /\ FrameOK(x, t) /\ Top(x) = t /\ t = stack[x][1]
      /\ x \in Contexts /\ HartOK(hart[c], x, t, Main(stack[x])) /\ x \in Threads \cup {c}
      /\ c \notin Threads
  BY Zenon, OnCpu DEF TopOn
<1>2. t.pc = "pop" BY Zenon, <1>1 DEF pop_off, SpRuns
<1>3. /\ hart[c].intr = FALSE /\ hart[c].noff = IF t.kind = "call" THEN 2 ELSE 1
      /\ hart[c].intena \in BOOLEAN
  BY <1>1, <1>2 DEF HartOK, Counts, Harts
<1>4. UNCHANGED <<slock, ready, spPanic>> BY <1>3 DEF pop_off
<1>5. hart' = [hart EXCEPT ![c] = h]
  BY Zenon, <1>1, <1>3 DEF pop_off, SpInv, SpTypes, Harts, Registers
<1>6. /\ h \in Harts /\ h.intr = i /\ h.noff = hart[c].noff - 1
      /\ h.intena = hart[c].intena /\ h.cur = x
  <2>1. hart[c].noff - 1 \in Nat /\ i \in BOOLEAN BY <1>3
  <2> HIDE DEF i
  <2>2. h \in Harts BY Zenon, <1>1, <1>3, <2>1, HartUpdate
  <2>3. h.intr = i BY <1>1, <1>3, <2>1, HartUpdate
  <2>4. h.noff = hart[c].noff - 1 BY <1>1, <1>3, <2>1, HartUpdate
  <2>5. h.intena = hart[c].intena BY <1>1, <1>3, <2>1, HartUpdate
  <2>6. h.cur = x BY <1>1, <1>3, <2>1, HartUpdate
  <2> QED BY Zenon, <2>2, <2>3, <2>4, <2>5, <2>6
<1>7. stack' = [stack EXCEPT ![x] = Resumed(c, t) \o Tail(@)]
  BY Zenon, <1>1 DEF pop_off, Resume, Top
<1>8. CASE t.kind = "call"
  <2>1. StackOK(x, stack[x]) BY Zenon, <1>1 DEF SpInv, Stacks
  <2>2. b.kind \in {"base", "irq"} /\ b.pc = "crit" /\ Len(stack[x]) >= 2 /\ b \in Frames /\ FrameOK(x, b)
    BY <1>1, <1>8, <2>1 DEF StackOK
  <2>3. b.lk = dev BY Zenon, <1>1, <2>2, <2>1 DEF FrameOK, Acquiring
  <2>4. Resumed(c, t) = <<>> BY Zenon, <1>8 DEF Resumed
  <2>5. stack' = [stack EXCEPT ![x] = Tail(@)]
    <3>1. <<>> \o Tail(stack[x]) = Tail(stack[x]) BY <2>1, <2>2, PopFrame DEF StackOK
    <3> QED BY Zenon, <1>7, <2>4, <3>1
  <2>6. Main(stack[x]) = b BY Zenon, <1>1, <1>8 DEF Main
  <2> HIDE DEF t, b, h
  <2>7. HartOK(h, x, b, b)
    <3>1. hart[c].noff = 2 BY Zenon, <1>3, <1>8
    <3>2. h.noff = 1 BY <1>6, <3>1
    <3>3. i = FALSE BY <3>1
    <3> HIDE DEF i
    <3>4. h.intr = FALSE BY Zenon, <1>6, <3>3
    <3> QED BY <1>1, <1>6, <1>8, <2>2, <2>6, <3>2, <3>4 DEF HartOK, Counts, Inside
  <2>8. \A l \in SpLocks : /\ Marked(b, l) <=> Marked(t, l)
                           /\ HoldsLock(b, l) <=> HoldsLock(t, l)
    BY Zenon, <1>2, <1>8, <2>2, <2>3 DEF Marked, HoldsLock
  <2> QED BY Zenon, <1>4, <1>5, <1>6, <1>8, <2>5, <2>7, <2>8, PopStep DEF t, b
<1>9. CASE t.kind # "call"
  <2>1. PICK f \in Frames :
          /\ Resumed(c, t) = <<f>>
          /\ Follows(f, t)
          /\ \/ t.kind = "forkret" /\ f.kind = "base" /\ f.pc = "ret"
             \/ t.kind = "irq" /\ f.pc \in {"post", "iret"} /\ (f.pc = "post" => f.lk = dev)
             \/ t.kind = "base" /\ x # c /\ f.pc = "run"
             \/ t.kind = "base" /\ x = c /\ (f.pc = "loop" \/ (f.pc = "push" /\ f.lk \in Threads))
    <3>1. CASE t.kind = "forkret"
      <4>1. Resumed(c, t) = <<Frame("ret", dev)>> BY Zenon, <3>1 DEF Resumed
      <4>2. Frame("ret", dev) \in Frames /\ Frame("ret", dev).kind = "base" /\ Frame("ret", dev).pc = "ret"
        BY Zenon DEF Frame, Frames, SpPoints, SpLocks, Kinds
      <4> QED BY Zenon, <3>1, <4>1, <4>2 DEF Follows
    <3>2. CASE t.kind = "irq"
      <4> DEFINE f == [t EXCEPT !.pc = IF t.lk = dev THEN "post" ELSE "iret"]
      <4>1. Resumed(c, t) = <<f>> BY Zenon, <3>2 DEF Resumed
      <4>2. f \in Frames /\ f.kind = t.kind /\ f.lk = t.lk /\ f.pc = IF t.lk = dev THEN "post" ELSE "iret"
        BY Zenon, <1>1 DEF Frames, SpPoints
      <4> HIDE DEF f
      <4> QED BY Zenon, <3>2, <4>1, <4>2 DEF Follows
    <3>3. CASE t.kind = "base" /\ x # c
      <4>1. Resumed(c, t) = <<Frame("run", dev)>> BY Zenon, <3>3 DEF Resumed
      <4>2. Frame("run", dev) \in Frames /\ Frame("run", dev).kind = "base" /\ Frame("run", dev).pc = "run"
        BY Zenon DEF Frame, Frames, SpPoints, SpLocks, Kinds
      <4> QED BY Zenon, <3>3, <4>1, <4>2 DEF Follows
    <3>4. CASE t.kind = "base" /\ x = c
      <4>1. Resumed(c, t) = <<IF t.lk = NThreads THEN Frame("loop", dev) ELSE Frame("push", t.lk + 1)>>
        BY Zenon, <3>4 DEF Resumed
      <4>2. Frame("loop", dev) \in Frames /\ Frame("loop", dev).kind = "base" /\ Frame("loop", dev).pc = "loop"
        BY Zenon DEF Frame, Frames, SpPoints, SpLocks, Kinds
      <4>3. t.lk \in Threads BY Zenon, <1>1, <1>2, <3>4 DEF FrameOK, Acquiring
      <4>4. ASSUME t.lk # NThreads PROVE t.lk + 1 \in Threads
        BY <4>3, <4>4, SpAssumption DEF Threads
      <4>5. ASSUME NEW l \in Threads
            PROVE  /\ Frame("push", l) \in Frames /\ Frame("push", l).kind = "base"
                   /\ Frame("push", l).pc = "push" /\ Frame("push", l).lk = l
        BY Zenon DEF Frame, Frames, SpPoints, SpLocks, Kinds
      <4> QED BY Zenon, <3>4, <4>1, <4>2, <4>4, <4>5 DEF Follows
    <3> QED BY Zenon, <1>1, <1>9, <3>1, <3>2, <3>3, <3>4 DEF Frames, Kinds
  <2>2. SetFrame(c, f) BY Zenon, <1>7, <2>1 DEF SetFrame
  <2>3. FrameOK(x, f) BY Zenon, <1>1, <2>1 DEF Follows, FrameOK, Acquiring
  <2>4. f.kind # "call" BY Zenon, <1>9, <2>1 DEF Follows
  <2>5. Main(stack[x]) = t BY Zenon, <1>1, <1>9 DEF Main
  <2>6. \A l \in SpLocks : /\ Marked(f, l) <=> Marked(t, l)
                           /\ HoldsLock(f, l) <=> HoldsLock(t, l)
    BY ZenonT(60), <1>2, <1>9, <2>1, <2>4 DEF Marked, HoldsLock
  <2> HIDE DEF t, h
  <2>7. HartOK(h, x, f, f)
    BY <1>1, <1>2, <1>3, <1>6, <1>9, <2>1, <2>4, <2>5 DEF HartOK, Counts, Inside, Follows
  <2> QED BY Zenon, <1>1, <1>4, <1>5, <1>6, <2>1, <2>2, <2>3, <2>4, <2>6, <2>7, QuietTurn DEF t
<1> QED BY Zenon, <1>8, <1>9

-----------------------------------------------------------------------------
(* swtch.                                                                  *)

\* A thread hands its CPU and its lock to the scheduler.
LEMMA SchedInv == ASSUME SpInv, NEW c \in SpCpus, sched(c) PROVE SpInv'
<1> DEFINE x == hart[c].cur
           t == TopOn(c)
           f == [t EXCEPT !.pc = "rel", !.saved = hart[c].intena]
           u == <<f>> \o Tail(stack[x])
           h == [hart[c] EXCEPT !.cur = c]
<1>1. /\ hart[c] \in Harts /\ t \in Frames /\ FrameOK(x, t) /\ Top(x) = t /\ t = stack[x][1]
      /\ x \in Contexts /\ HartOK(hart[c], x, t, Main(stack[x])) /\ c \notin Threads /\ c \in Contexts
      /\ stack[x] \in Seq(Frames) /\ Len(stack[x]) >= 1
  BY Zenon, OnCpu DEF TopOn
<1>2. t.pc = "sched" BY Zenon, <1>1 DEF sched, SpRuns
<1>3. x \in Threads /\ t.lk = x /\ t.kind \in {"base", "irq"}
  BY ZenonT(60), <1>1, <1>2 DEF FrameOK, Frames, Kinds, Acquiring
<1>4. /\ hart[c].noff = 1 /\ hart[c].intr = FALSE /\ hart[c].intena = (t.kind = "base")
  BY <1>1, <1>2, <1>3 DEF HartOK, Counts, Inside, Main, Harts
<1>5. Marked(t, x) /\ HoldsLock(t, x) /\ x \in SpLocks BY Zenon, <1>2, <1>3
                                                          DEF Marked, HoldsLock, SpLocks
<1>6. holding(c, x) BY Zenon, <1>5 DEF holding, SpInv, Owners
<1>7. /\ stack' = [stack EXCEPT ![x] = u] /\ hart' = [hart EXCEPT ![c] = h]
      /\ ready' = ready \cup {x} /\ spPanic' = spPanic /\ slock' = slock
  BY Zenon, <1>1, <1>4, <1>6 DEF sched, SetFrame, SpInv, SpTypes, Harts
<1>8. /\ f \in Frames /\ f.kind = t.kind /\ f.lk = x /\ f.pc = "rel" /\ f.saved = hart[c].intena
  BY Zenon, <1>1, <1>3 DEF Frames, SpPoints, Harts
<1>9. /\ h \in Harts /\ h.intr = FALSE /\ h.noff = 1 /\ h.intena = hart[c].intena /\ h.cur = c
  BY Zenon, <1>1, <1>4 DEF Harts
<1>10. StackOK(x, stack[x]) BY Zenon, <1>1 DEF SpInv, Stacks
<1>11. /\ u \in Seq(Frames) /\ Len(u) = Len(stack[x]) /\ u[1] = f
       /\ Len(stack[x]) >= 2 => u[2] = stack[x][2]
  BY <1>1, <1>8, SetTop
<1>12. Len(stack[c]) = 1 /\ stack[c][1].pc = "rel" /\ stack[c][1].lk = x /\ c # x
  BY Zenon, <1>1, <1>3 DEF SpInv, Current
<1>13. StackOK(c, stack[c]) /\ stack[c][1].kind = "base"
  <2>1. StackOK(c, stack[c]) BY Zenon, <1>1 DEF SpInv, Stacks
  <2>2. stack[c][1].kind \in {"base", "forkret"} /\ FrameOK(c, stack[c][1])
    BY <1>12, <2>1 DEF StackOK
  <2> QED BY Zenon, <1>1, <2>1, <2>2 DEF FrameOK
<1> HIDE DEF u, f, h, t
<1>14. /\ stack'[x] = u /\ \A y \in Contexts : y # x => stack'[y] = stack[y]
       /\ hart'[c] = h /\ \A d \in SpCpus : d # c => hart'[d] = hart[d]
       /\ DOMAIN stack' = Contexts
  BY Zenon, <1>1, <1>7 DEF SpInv, SpTypes
<1>15. \A d \in SpCpus : d # c => hart[d].cur # x /\ hart[d].cur # c /\ hart[d].cur \in Contexts
  BY Zenon, <1>1, OnCpu DEF SpInv, Current
<1>16. SpTypes'
  <2>1. hart' \in [SpCpus -> Harts] BY Zenon, <1>7, <1>9 DEF SpInv, SpTypes
  <2> QED BY Zenon, <1>3, <1>7, <1>14, <2>1 DEF SpInv, SpTypes
<1>17. Stacks'
  <2>1. StackOK(x, u)
    <3>1. FrameOK(x, f) BY Zenon, <1>3, <1>8 DEF FrameOK
    <3>2. \/ Len(stack[x]) = 1 /\ t.kind = "base"
          \/ Len(stack[x]) = 2 /\ t.kind = "irq" /\ Interruptible(stack[x][2])
      BY Zenon, <1>1, <1>3, <1>10 DEF StackOK
    <3>3. CASE Len(stack[x]) = 1 /\ t.kind = "base"
      <4>1. \A k \in 1 .. 1 : k = 1 OBVIOUS
      <4> QED BY Zenon, <1>8, <1>11, <3>1, <3>3, <4>1 DEF StackOK
    <3>4. CASE Len(stack[x]) = 2 /\ t.kind = "irq" /\ Interruptible(stack[x][2])
      <4>1. \A k \in 1 .. 2 : k = 1 \/ k = 2 OBVIOUS
      <4>2. FrameOK(x, stack[x][2]) BY <1>10, <3>4 DEF StackOK
      <4> QED BY <1>8, <1>11, <3>1, <3>4, <4>1, <4>2 DEF StackOK
    <3> QED BY Zenon, <3>2, <3>3, <3>4
  <2> QED BY Zenon, <1>14, <2>1 DEF SpInv, Stacks
<1>18. HartsOK'
  <2>1. HartOK(h, c, stack[c][1], Main(stack[c]))
    <3>1. Main(stack[c]) = stack[c][1] BY Zenon, <1>13 DEF Main
    <3>2. Counts(stack[c][1]) BY Zenon, <1>12 DEF Counts, Inside
    <3> QED BY <1>1, <1>9, <1>12, <1>13, <3>1, <3>2 DEF HartOK
  <2>2. \A d \in SpCpus : d # c => stack'[hart'[d].cur] = stack[hart[d].cur]
    BY Zenon, <1>14, <1>15
  <2>3. hart'[c].cur = c /\ stack'[c] = stack[c] BY Zenon, <1>1, <1>9, <1>12, <1>14
  <2> QED BY ZenonT(60), <1>14, <2>1, <2>2, <2>3 DEF SpInv, HartsOK
<1>19. Current'
  <2>1. \A d \in SpCpus : hart[d].cur \in Threads /\ d # c => stack'[d] = stack[d]
    BY Zenon, <1>3, <1>14, SpAssumption DEF Contexts
  <2> QED BY <1>1, <1>9, <1>14, <1>15, <2>1 DEF SpInv, Current
<1>20. Suspended'
  <2>1. \A y \in ready : y # x /\ y \in Contexts /\ y \in Threads BY Zenon
      DEF SpInv, SpTypes, Suspended, Contexts
  <2>2. \A d \in SpCpus : hart'[d].cur # x BY Zenon, <1>9, <1>12, <1>14, <1>15
  <2>3. \A y \in Threads : y # x => (y \in ready' <=> \A d \in SpCpus : hart'[d].cur # y)
    <3>1. \A y \in Threads : y # x =>
            ((\A d \in SpCpus : hart'[d].cur # y) <=> (\A d \in SpCpus : hart[d].cur # y))
      BY Zenon, <1>1, <1>9, <1>14
    <3> QED BY Zenon, <1>7, <3>1 DEF SpInv, Suspended
  <2>4. \A y \in ready : stack'[y] = stack[y] BY Zenon, <1>14, <2>1
  <2>5. /\ stack'[x][1].pc = "rel" /\ stack'[x][1].kind # "call"
        /\ stack'[x][1].saved = (stack'[x][1].kind = "base")
    BY Zenon, <1>3, <1>4, <1>8, <1>11, <1>14
  <2> QED BY <1>3, <1>7, <2>2, <2>3, <2>4, <2>5 DEF SpInv, Suspended
<1>21. Owners'
  <2>1. TopOn(c)' = stack[c][1] /\ \A d \in SpCpus : d # c => TopOn(d)' = TopOn(d)
    BY <1>1, <1>9, <1>12, <1>14, <1>15 DEF TopOn
  <2>2. \A l \in SpLocks : /\ Marked(stack[c][1], l) <=> Marked(t, l)
                           /\ HoldsLock(stack[c][1], l) <=> HoldsLock(t, l)
    BY Zenon, <1>2, <1>3, <1>12, <1>13 DEF Marked, HoldsLock
  <2>3. \A d \in SpCpus : \A l \in SpLocks :
          /\ Marked(TopOn(d)', l) <=> Marked(TopOn(d), l)
          /\ HoldsLock(TopOn(d)', l) <=> HoldsLock(TopOn(d), l)
    BY Zenon, <2>1, <2>2 DEF t
  <2> QED BY <1>7, <2>3 DEF SpInv, Owners, Marked, HoldsLock
<1> QED BY Zenon, <1>7, <1>16, <1>17, <1>18, <1>19, <1>20, <1>21 DEF SpInv

\* The scheduler hands its CPU and the lock to a thread that nobody runs, or
\* keeps both.
LEMMA SchedulerPickInv == ASSUME SpInv, NEW c \in SpCpus, SchedulerPick(c) PROVE SpInv'
<1> DEFINE t == TopOn(c)
           x == t.lk
           f == [t EXCEPT !.pc = "rel"]
           u == <<f>> \o Tail(stack[c])
           h == [hart[c] EXCEPT !.cur = x, !.intena = Intena(c, x)]
<1>1. /\ hart[c] \in Harts /\ t \in Frames /\ FrameOK(hart[c].cur, t) /\ Top(hart[c].cur) = t
      /\ t = stack[hart[c].cur][1] /\ HartOK(hart[c], hart[c].cur, t, Main(stack[hart[c].cur]))
      /\ c \notin Threads /\ c \in Contexts
      /\ stack[hart[c].cur] \in Seq(Frames) /\ Len(stack[hart[c].cur]) >= 1
      /\ hart[c].cur \in Threads \cup {c}
  BY Zenon, OnCpu DEF TopOn
<1>2. t.pc = "pick" BY Zenon, <1>1 DEF SchedulerPick, SpRuns
<1>3. t.kind = "base" /\ hart[c].cur = c /\ x \in Threads /\ x # dev
  BY <1>1, <1>2 DEF FrameOK, Frames, Kinds, Acquiring, Threads, dev
<1>4. hart[c].noff = 1 /\ hart[c].intr = FALSE
  BY <1>1, <1>2, <1>3 DEF HartOK, Counts, Inside, Harts
<1>5. f \in Frames /\ f.kind = "base" /\ f.lk = x /\ f.pc = "rel"
  BY Zenon, <1>1, <1>3 DEF Frames, SpPoints
<1>6. SetFrame(c, f) BY Zenon, <1>1 DEF SchedulerPick, SpGoto
<1>7. FrameOK(c, f) BY Zenon, <1>1, <1>3, <1>5 DEF FrameOK
<1>8. \A l \in SpLocks : /\ Marked(f, l) <=> Marked(t, l)
                         /\ HoldsLock(f, l) <=> HoldsLock(t, l)
  BY Zenon, <1>2, <1>3, <1>5 DEF Marked, HoldsLock
<1>9. CASE x \notin ready
  <2>1. UNCHANGED <<hart, slock, ready, spPanic>> BY Zenon, <1>1, <1>9 DEF SchedulerPick, Lk
  <2>2. hart' = [hart EXCEPT ![c] = hart[c]] BY ZenonT(60), <2>1, HartStays
  <2> HIDE DEF f, t, x
  <2>3. HartOK(hart[c], c, f, f)
    BY <1>1, <1>4, <1>5 DEF HartOK, Counts, Inside
  <2> QED BY Zenon, <1>1, <1>3, <1>5, <1>6, <1>7, <1>8, <2>1, <2>2, <2>3, QuietTurn DEF Follows, t
<1>10. CASE x \in ready
  <2>1. /\ hart' = [hart EXCEPT ![c].cur = x, ![c].intena = Intena(c, x)]
        /\ ready' = ready \ {x} /\ UNCHANGED <<slock, spPanic>>
    BY Zenon, <1>1, <1>10 DEF SchedulerPick, Lk
  <2>2. hart' = [hart EXCEPT ![c] = h] BY Zenon, <1>1, <2>1 DEF SpInv, SpTypes, Harts
  <2>3. stack' = [stack EXCEPT ![c] = u] BY Zenon, <1>3, <1>6 DEF SetFrame
  <2>4. x \in Contexts /\ StackOK(x, stack[x]) /\ x # c
    BY Zenon, <1>1, <1>3 DEF SpInv, Stacks, Contexts
  <2> DEFINE g == stack[x][1]
  <2>5. g \in Frames /\ FrameOK(x, g) /\ Top(x) = g /\ Len(stack[x]) >= 1
    BY <2>4 DEF StackOK, Top
  <2>6. /\ g.pc = "rel" /\ g.kind # "call"
        /\ g.kind # "forkret" => g.saved = (g.kind = "base")
    BY Zenon, <1>10 DEF SpInv, Suspended
  <2>7. g.lk = x BY Zenon, <1>3, <2>5, <2>6 DEF FrameOK, Frames, Kinds, Acquiring
  <2>8. /\ Intena(c, x) \in BOOLEAN
        /\ g.kind # "forkret" => Intena(c, x) = (g.kind = "base")
    BY Zenon, <1>1, <2>5, <2>6 DEF Intena, Frames, Harts
  <2>9. h \in Harts /\ h.intr = FALSE /\ h.noff = 1 /\ h.cur = x /\ h.intena = Intena(c, x)
    BY Zenon, <1>1, <1>4, <2>4, <2>8 DEF Harts
  <2>10. /\ u \in Seq(Frames) /\ Len(u) = Len(stack[c]) /\ u[1] = f
    BY <1>1, <1>3, <1>5, SetTop
  <2>11. StackOK(c, stack[c]) BY Zenon, <1>1 DEF SpInv, Stacks
  <2>12. Len(u) = 1 BY Zenon, <1>1, <1>3, <2>10, <2>11 DEF StackOK
  <2> HIDE DEF h, u, f, g, t, x
  <2>13. /\ stack'[c] = u /\ \A y \in Contexts : y # c => stack'[y] = stack[y]
         /\ hart'[c] = h /\ \A d \in SpCpus : d # c => hart'[d] = hart[d]
         /\ DOMAIN stack' = Contexts
    BY Zenon, <1>1, <2>2, <2>3 DEF SpInv, SpTypes
  <2>14. \A d \in SpCpus : d # c => hart[d].cur # c /\ hart[d].cur # x /\ hart[d].cur \in Contexts
    BY <1>1, <1>3, <1>10, OnCpu DEF SpInv, Current, Suspended
  <2>15. SpTypes'
    <3>1. hart' \in [SpCpus -> Harts] BY Zenon, <2>2, <2>9 DEF SpInv, SpTypes
    <3> QED BY Zenon, <2>1, <2>13, <3>1 DEF SpInv, SpTypes
  <2>16. Stacks'
    <3>1. \A k \in 1 .. 1 : k = 1 OBVIOUS
    <3>2. StackOK(c, u) BY Zenon, <1>5, <1>7, <2>10, <2>12, <3>1 DEF StackOK
    <3> QED BY Zenon, <2>13, <3>2 DEF SpInv, Stacks
  <2>17. HartsOK'
    <3>1. Main(stack[x]) = g BY Zenon, <2>6 DEF Main, g
    <3>2. HartOK(h, x, g, g)
      BY <2>5, <2>6, <2>8, <2>9 DEF HartOK, Counts, Inside, Frames, Kinds
    <3>3. \A d \in SpCpus : d # c => stack'[hart'[d].cur] = stack[hart[d].cur] BY Zenon, <2>13,
        <2>14
    <3>4. hart'[c].cur = x /\ stack'[x] = stack[x] BY Zenon, <2>4, <2>9, <2>13
    <3> QED BY <2>13, <3>1, <3>2, <3>3, <3>4 DEF SpInv, HartsOK, g
  <2>18. Current'
    <3>1. \A d \in SpCpus : d # c => stack'[d] = stack[d] BY Zenon, <2>13 DEF Contexts
    <3> QED BY <1>3, <1>5, <2>9, <2>10, <2>12, <2>13, <2>14, <3>1 DEF SpInv, Current
  <2>19. Suspended'
    <3>1. \A y \in ready : y # c /\ y \in Contexts /\ y \in Threads
      BY Zenon, <1>1 DEF SpInv, SpTypes, Contexts
    <3>2. \A y \in Threads : y # x =>
            ((\A d \in SpCpus : hart'[d].cur # y) <=> (\A d \in SpCpus : hart[d].cur # y))
      BY <1>1, <1>3, <2>9, <2>13
    <3>3. hart'[c].cur = x BY Zenon, <2>9, <2>13
    <3>4. \A y \in Threads : y \in ready' <=> \A d \in SpCpus : hart'[d].cur # y
      BY Zenon, <2>1, <3>2, <3>3 DEF SpInv, Suspended
    <3>5. \A y \in ready : stack'[y] = stack[y] BY Zenon, <2>13, <3>1
    <3>6. \A y \in ready :
            /\ stack'[y][1].pc = "rel" /\ stack'[y][1].kind # "call"
            /\ stack'[y][1].kind # "forkret" => stack'[y][1].saved = (stack'[y][1].kind = "base")
      BY <3>5 DEF SpInv, Suspended
    <3>7. ready' \subseteq ready BY Zenon, <2>1
    <3> QED BY Zenon, <3>4, <3>6, <3>7 DEF Suspended
  <2>20. Owners'
    <3>1. TopOn(c)' = g /\ \A d \in SpCpus : d # c => TopOn(d)' = TopOn(d)
      BY Zenon, <2>4, <2>9, <2>13, <2>14 DEF TopOn, g
    <3>2. \A l \in SpLocks : /\ Marked(g, l) <=> Marked(t, l)
                             /\ HoldsLock(g, l) <=> HoldsLock(t, l)
      BY Zenon, <1>2, <1>3, <2>6, <2>7 DEF Marked, HoldsLock, x
    <3>3. \A d \in SpCpus : \A l \in SpLocks :
            /\ Marked(TopOn(d)', l) <=> Marked(TopOn(d), l)
            /\ HoldsLock(TopOn(d)', l) <=> HoldsLock(TopOn(d), l)
      BY Zenon, <3>1, <3>2 DEF t
    <3> QED BY <2>1, <3>3 DEF SpInv, Owners, Marked, HoldsLock
  <2>21. ~spPanic' BY Zenon, <2>1 DEF SpInv
  <2> QED BY Zenon, <2>15, <2>16, <2>17, <2>18, <2>19, <2>20, <2>21 DEF SpInv
<1> QED BY Zenon, <1>9, <1>10

-----------------------------------------------------------------------------
(* LocksSound.                                                             *)

\* Every CPU starts in scheduler(), and every thread in forkret.
LEMMA LocksInit == ASSUME SpInit PROVE SpInv
<1>1. dev \in SpLocks /\ \A x \in Threads : x \in SpLocks BY Zenon DEF SpLocks
<1>2. SpTypes
  BY Zenon DEF SpInit, SpTypes, Harts, Contexts
<1>3. ASSUME NEW f \in Frames
      PROVE  <<f>> \in Seq(Frames) /\ Len(<<f>>) = 1 /\ <<f>>[1] = f /\ \A k \in 1 .. Len(<<f>>) : k = 1
  OBVIOUS
<1>4. ASSUME NEW x \in Threads
      PROVE  /\ StackOK(x, stack[x])
             /\ stack[x][1].kind = "forkret" /\ stack[x][1].pc = "rel"
  <2> DEFINE f == [Frame("rel", x) EXCEPT !.kind = "forkret"]
  <2>1. f \in Frames /\ f.kind = "forkret" /\ f.pc = "rel" /\ f.lk = x
    BY Zenon, <1>1 DEF Frame, Frames, SpPoints, Kinds
  <2>2. stack[x] = <<f>> BY Zenon DEF SpInit, Contexts
  <2> HIDE DEF f
  <2>3. FrameOK(x, f) BY Zenon, <2>1 DEF FrameOK
  <2> QED BY Zenon, <1>3, <2>1, <2>2, <2>3 DEF StackOK
<1>5. ASSUME NEW c \in SpCpus
      PROVE  /\ StackOK(c, stack[c]) /\ c \notin Threads /\ TopOn(c) = stack[c][1]
             /\ stack[c][1].kind = "base" /\ stack[c][1].pc = "loop"
             /\ hart[c].cur = c /\ hart[c].intr = FALSE /\ hart[c].noff = 0
  <2> DEFINE f == Frame("loop", dev)
  <2>1. f \in Frames /\ f.kind = "base" /\ f.pc = "loop"
    BY Zenon, <1>1 DEF Frame, Frames, SpPoints, Kinds
  <2>2. c \notin Threads BY Zenon, SpAssumption
  <2>3. stack[c] = <<f>> BY Zenon, <2>2 DEF SpInit, Contexts
  <2>4. hart[c].cur = c /\ hart[c].intr = FALSE /\ hart[c].noff = 0 BY Zenon DEF SpInit
  <2>5. TopOn(c) = stack[c][1] BY Zenon, <2>4 DEF TopOn
  <2> HIDE DEF f
  <2>6. FrameOK(c, f) BY Zenon, <2>1, <2>2 DEF FrameOK
  <2>7. StackOK(c, <<f>>) BY Zenon, <1>3, <2>1, <2>6 DEF StackOK
  <2> QED BY Zenon, <1>3, <2>1, <2>2, <2>3, <2>4, <2>5, <2>7
<1>6. Stacks BY Zenon, <1>4, <1>5 DEF Stacks, Contexts
<1>7. \A c \in SpCpus : hart[c].cur = c /\ c \notin Threads BY Zenon, <1>5
<1>8. HartsOK
  <2>1. ASSUME NEW c \in SpCpus PROVE HartOK(hart[c], c, stack[c][1], Main(stack[c]))
    <3> DEFINE f == stack[c][1]
    <3>1. f.kind = "base" /\ f.pc = "loop" BY Zenon, <1>5
    <3>2. hart[c].intr = FALSE /\ hart[c].noff = 0 /\ c \notin Threads BY Zenon, <1>5
    <3>3. Main(stack[c]) = f BY Zenon, <3>1 DEF Main
    <3> HIDE DEF f
    <3>4. HartOK(hart[c], c, f, f) BY <3>1, <3>2 DEF HartOK, Counts, Inside
    <3> QED BY Zenon, <3>3, <3>4 DEF f
  <2> QED BY Zenon, <1>7, <2>1 DEF HartsOK
<1>9. Current BY Zenon, <1>7 DEF Current
<1>10. Suspended
  <2>1. ready = Threads BY Zenon DEF SpInit
  <2>2. \A x \in Threads : \A c \in SpCpus : hart[c].cur # x BY Zenon, <1>5
  <2> QED BY Zenon, <1>4, <2>1, <2>2 DEF Suspended
<1>11. Owners
  <2>1. \A c \in SpCpus : \A l \in SpLocks : ~Marked(TopOn(c), l) /\ ~HoldsLock(TopOn(c), l)
    BY Zenon, <1>5 DEF Marked, HoldsLock
  <2>2. \A l \in SpLocks : slock[l].cpu = {} BY Zenon DEF SpInit
  <2> QED BY Zenon, <2>1, <2>2 DEF Owners
<1> QED BY Zenon, <1>2, <1>6, <1>8, <1>9, <1>10, <1>11 DEF SpInv, SpInit

\* SpInv is inductive.
LEMMA LocksStep == ASSUME SpInv, [SpNext]_spVars PROVE SpInv'
<1>1. CASE UNCHANGED spVars
  BY <1>1 DEF spVars, SpInv, SpTypes, Stacks, HartsOK, Current, Suspended, Owners, TopOn
<1>2. ASSUME NEW c \in SpCpus, SpStep(c) PROVE SpInv'
  BY Zenon, <1>2, IntrGetInv, IntrOffInv, SwapInv, OwnInv, DisownInv, UnlockInv, PopOffInv,
     KernelCodeInv,
     UserModeInv, NestedInv, SchedInv, SchedulerTopInv, SchedulerPickInv, InterruptInv,
     TrapYieldInv, IretInv DEF SpStep
<1> QED BY ZenonT(60), <1>1, <1>2 DEF SpNext

\* The locks that c's frames hold are the ones its top frame stands for.
LEMMA HeldIsHolds ==
  ASSUME SpInv, NEW c \in SpCpus
  PROVE  \A l \in HeldBy(c) : l \in SpLocks /\ HoldsLock(TopOn(c), l)
<1> DEFINE s == stack[hart[c].cur]
<1>1. StackOK(hart[c].cur, s) /\ TopOn(c) = s[1] BY Zenon, OnCpu DEF SpInv, Stacks, TopOn
<1>2. ASSUME NEW f \in Frames, Interruptible(f) PROVE ~Inside(f) BY Zenon, <1>2
    DEF Interruptible, Inside
<1>3. ASSUME NEW k \in DOMAIN s, Inside(s[k])
      PROVE  s[k].lk \in SpLocks /\ HoldsLock(TopOn(c), s[k].lk)
  <2>0. s \in Seq(Frames) /\ DOMAIN s = 1 .. Len(s) BY <1>1 DEF StackOK
  <2>1. k \in 1 .. Len(s) /\ s[k] \in Frames /\ s[k].lk \in SpLocks /\ FrameOK(hart[c].cur, s[k])
    <3> HIDE DEF s
    <3>1. k \in 1 .. Len(s) /\ s[k] \in Frames BY <2>0
    <3> QED BY Zenon, <1>1, <3>1 DEF StackOK, Frames
  <2>2. CASE k = 1 BY Zenon, <1>1, <1>3, <2>1, <2>2 DEF HoldsLock, Marked, Inside
  <2>3. CASE k # 1
    <3>1. k = 2 \/ k = 3 BY <1>1, <2>1, <2>3 DEF StackOK
    <3>2. ~Interruptible(s[k]) BY ZenonT(60), <1>2, <1>3, <2>1
    <3>3. k = 2 /\ s[1].kind = "call" /\ s[2].kind \in {"base", "irq"} /\ s[2].pc = "crit"
      BY <1>1, <2>1, <3>1, <3>2 DEF StackOK
    <3>4. s[2].lk = dev BY Zenon, <2>1, <3>3 DEF FrameOK, Acquiring
    <3> QED BY ZenonT(60), <1>1, <2>1, <3>3, <3>4 DEF HoldsLock, Marked
  <2> QED BY Zenon, <2>2, <2>3
<1> QED BY Zenon, <1>3 DEF HeldBy

\* noff is the number of frames that hold or wait for a lock.
LEMMA NoffCounts ==
  ASSUME SpInv, NEW c \in SpCpus
  PROVE  hart[c].noff = Cardinality({k \in DOMAIN stack[hart[c].cur] :
           Inside(stack[hart[c].cur][k]) \/ stack[hart[c].cur][k].pc \in {"spin", "pop"}})
<1> DEFINE s == stack[hart[c].cur]
           K == {k \in DOMAIN s : Inside(s[k]) \/ s[k].pc \in {"spin", "pop"}}
<1>1. StackOK(hart[c].cur, s) /\ HartOK(hart[c], hart[c].cur, s[1], Main(s)) /\ DOMAIN s = 1 .. Len(s)
  BY OnCpu DEF SpInv, Stacks, TopOn
<1>2. ASSUME NEW f, Interruptible(f) PROVE ~Counts(f) BY Zenon, <1>2
                                                         DEF Interruptible, Inside, Counts
<1>3. \A k \in 1 .. Len(s) : k \in K <=> Counts(s[k]) BY Zenon, <1>1 DEF Counts
<1>4. K \subseteq 1 .. Len(s) BY Zenon, <1>1
<1> HIDE DEF K
<1>5. CASE s[1].kind # "call"
  <2>1. \A k \in 1 .. Len(s) : k # 1 => ~Counts(s[k]) BY SMTT(30), <1>1, <1>2, <1>5 DEF StackOK
  <2>2. 1 \in 1 .. Len(s) BY <1>1 DEF StackOK
  <2>3. K = IF Counts(s[1]) THEN {1} ELSE {} BY Zenon, <1>3, <1>4, <2>1, <2>2
  <2>4. hart[c].noff = IF Counts(s[1]) THEN 1 ELSE 0 BY <1>1, <1>5 DEF HartOK
  <2>5. Cardinality({1}) = 1 /\ Cardinality({}) = 0 BY Zenon, FS_Singleton, FS_EmptySet
  <2>6. hart[c].noff = Cardinality(K) BY Zenon, <2>3, <2>4, <2>5
  <2> QED BY ZenonT(60), <2>6 DEF K
<1>6. CASE s[1].kind = "call"
  <2>1. Len(s) >= 2 /\ Counts(s[2]) BY <1>1, <1>6 DEF StackOK, Counts, Inside
  <2>2. \A k \in 1 .. Len(s) : k # 1 /\ k # 2 => ~Counts(s[k])
    BY SMTT(30), <1>1, <1>2, <1>6 DEF StackOK
  <2>3. 1 \in 1 .. Len(s) /\ 2 \in 1 .. Len(s) BY <1>1, <2>1 DEF StackOK
  <2>4. K = IF Counts(s[1]) THEN {1, 2} ELSE {2} BY Zenon, <1>3, <1>4, <2>1, <2>2, <2>3
  <2>5. Cardinality({1, 2}) = 2
    <3>1. IsFiniteSet({2}) /\ Cardinality({2}) = 1 BY Zenon, FS_Singleton
    <3>2. Cardinality({2} \cup {1}) = 2 BY <3>1, FS_AddElement
    <3>3. {2} \cup {1} = {1, 2} BY Zenon
    <3> QED BY Zenon, <3>2, <3>3
  <2>6. hart[c].noff = IF Counts(s[1]) THEN 2 ELSE 1 BY <1>1, <1>6 DEF HartOK
  <2>7. Cardinality({2}) = 1 BY Zenon, FS_Singleton
  <2>8. hart[c].noff = Cardinality(K) BY Zenon, <2>4, <2>5, <2>6, <2>7
  <2> QED BY <2>8 DEF K
<1> QED BY Zenon, <1>5, <1>6

\* SpInv is more than LocksSound.
LEMMA InvSound == ASSUME SpInv PROVE LocksSound
<1>1. SpTypeOK
  <2>1. ASSUME NEW c \in SpCpus PROVE hart[c].noff \in 0 .. 2
    BY OnCpu DEF HartOK
  <2>2. hart \in [SpCpus -> [intr : BOOLEAN, noff : 0 .. 2, intena : BOOLEAN, cur : Contexts]]
    BY Zenon, <2>1 DEF SpInv, SpTypes, Harts
  <2>3. ASSUME NEW x \in Contexts
        PROVE  Len(stack[x]) \in 1 .. 3 /\ \A k \in DOMAIN stack[x] : stack[x][k].pc \in SpPoints
    <3>1. StackOK(x, stack[x]) BY Zenon DEF SpInv, Stacks
    <3>2. stack[x] \in Seq(Frames) /\ Len(stack[x]) \in 1 .. 3 BY <3>1 DEF StackOK
    <3>3. \A k \in DOMAIN stack[x] : stack[x][k] \in Frames BY <3>2
    <3> QED BY Zenon, <3>2, <3>3 DEF Frames
  <2> QED BY Zenon, <2>2, <2>3 DEF SpTypeOK, SpInv, SpTypes
<1>2. MutualExclusion BY Zenon, HeldIsHolds DEF MutualExclusion, SpInv, Owners
<1>3. NoSpPanic BY Zenon DEF NoSpPanic, SpInv
<1>4. LocksMaskIntr
  <2>1. ASSUME NEW c \in SpCpus, HeldBy(c) # {} PROVE ~hart[c].intr
    <3>1. PICK l \in HeldBy(c) : HoldsLock(TopOn(c), l) BY Zenon, <2>1, HeldIsHolds
    <3> QED BY Zenon, <3>1, OnCpu DEF HoldsLock, Marked, HartOK
  <2> QED BY Zenon, <2>1, NoffCounts DEF LocksMaskIntr
<1>5. IntrRestored
  <2>1. ASSUME NEW c \in SpCpus
        PROVE  /\ Top(hart[c].cur).pc = "run" => hart[c].intr
               /\ Top(hart[c].cur).kind \in {"irq", "call"} => ~hart[c].intr
    <3> DEFINE t == TopOn(c)
    <3>1. /\ t \in Frames /\ FrameOK(hart[c].cur, t) /\ Top(hart[c].cur) = t
          /\ HartOK(hart[c], hart[c].cur, t, Main(stack[hart[c].cur]))
      BY Zenon, OnCpu
    <3>2. t.pc = "run" => t.kind = "base" /\ hart[c].cur \in Threads
      BY Zenon, <3>1 DEF FrameOK, Acquiring, Frames, Kinds
    <3> QED BY Zenon, <3>1, <3>2 DEF HartOK
  <2> QED BY Zenon, <2>1 DEF IntrRestored
<1> QED BY Zenon, <1>1, <1>2, <1>3, <1>4, <1>5 DEF LocksSound

\* Spinlocks exclude on any number of CPUs, through swtch and against interrupts
\* of the same CPU, none of their panics fires, noff counts the locks held, and
\* interrupts are on again where they were on before the first acquire.
THEOREM LockSafety == SpSpec => []LocksSound
<1>1. SpInit => SpInv BY Zenon, LocksInit
<1>2. SpInv /\ [SpNext]_spVars => SpInv' BY Zenon, LocksStep
<1>3. SpInv => LocksSound BY Zenon, InvSound
<1> QED BY <1>1, <1>2, <1>3, PTL DEF SpSpec
=============================================================================
