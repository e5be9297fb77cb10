----------------------------- MODULE TrapProofs -----------------------------
(***************************************************************************)
(* Proofs about module Trap, for any number of CPUs, processes and devices: *)
(* traps arrive at the vector that fits and end where they came from.       *)
(*                                                                         *)
(* A CPU's registers are described by what the context on it is doing       *)
(* (RegsOK), a stack by the frames it may have (StackOK), and the saved     *)
(* user program counter by the frame that will restore it (ReturnOK). A     *)
(* step of a CPU changes one CPU, one stack and one process: what holds of  *)
(* the others stays (OthersStay).                                           *)
(***************************************************************************)
EXTENDS Trap, TLAPS

Contexts == TrProcs \cup Harts
UserPoints == {"entry", "sys", "dev", "serve", "after", "ret", "vec", "epc"}
KernPoints == {"entry", "dev", "serve", "after", "restore", "sret"}
TrPlaces == {<<>>} \cup (Contexts \X (0 .. 1) \X (0 .. 1))
TrFrames == [kind : {"user", "kern"}, pc : UserPoints \cup KernPoints,
             cause : {"none", "timer", "ext", "ecall", "fault"} \cup Irqs,
             which : 0 .. 2, sepc : TrPlaces]
Csrs == [cur : Contexts, sie : BOOLEAN, stvec : {"uservec", "kernelvec"},
         sepc : TrPlaces, spp : {"U", "S"}, sip : BOOLEAN]

\* A frame of usertrap.
UserOK(f) ==
  /\ f \in TrFrames /\ f.kind = "user" /\ f.pc \in UserPoints
  /\ f.pc = "dev" => f.cause \in {"timer", "ext"}

\* A frame of kerneltrap of context x with n frames below.
KernOK(x, n, f) ==
  /\ f \in TrFrames /\ f.kind = "kern" /\ f.pc \in KernPoints
  /\ f.pc = "entry" => f.cause \in {"timer", "ext"}
  /\ f.pc # "entry" => f.sepc = <<x, n, 0>>

\* The stack of x: a trap from user space, on top of it an interrupt of the
\* kernel where interrupts are on; a scheduler has only the second.
StackOK(x, s) ==
  \/ s = <<>>
  \/ x \in TrProcs /\ Len(s) = 1 /\ s = <<s[1]>> /\ UserOK(s[1])
  \/ /\ x \in TrProcs /\ Len(s) = 2 /\ s = <<s[1], s[2]>>
     /\ KernOK(x, 1, s[1]) /\ UserOK(s[2]) /\ s[2].pc \in {"sys", "after", "ret"}
  \/ x \in Harts /\ Len(s) = 1 /\ s = <<s[1]>> /\ KernOK(x, 0, s[1])

\* e is p->trapframe->epc, u the user program counter, d where it has to go on,
\* k whether p is killed: from usertrap on the trapframe says where to go on,
\* but for a killed process that will exit.
ReturnOK(p, s, e, u, d, k) ==
  /\ s = <<>> => u = d
  /\ s # <<>> => LET b == s[Len(s)]
                 IN  b.pc # "entry" /\ ~(b.pc = "after" /\ k) => e = <<p, 0, d>>

\* The registers of h, which runs a context with stack s.
UserRegs(c, f, u, d) ==
  /\ f.pc \in {"entry", "dev", "serve", "vec", "epc"} => ~c.sie
  /\ f.pc = "sys" => c.sie
  /\ c.stvec = IF f.pc \in {"entry", "epc"} THEN "uservec" ELSE "kernelvec"
  /\ f.pc = "entry" => /\ c.spp = "U" /\ c.sepc = <<c.cur, 0, u>>
                       /\ d = IF f.cause = "ecall" THEN 1 - u ELSE u
KernRegs(c, f, n) ==
  /\ ~c.sie /\ c.stvec = "kernelvec"
  /\ f.pc \in {"entry", "sret"} => c.spp = "S" /\ c.sepc = <<c.cur, n, 0>>
RegsOK(h, c, s, u, d) ==
  /\ s = <<>> => /\ c.sie
                 /\ c.stvec = IF c.cur = h THEN "kernelvec" ELSE "uservec"
  /\ s # <<>> => IF Head(s).kind = "user" THEN UserRegs(c, Head(s), u, d)
                                          ELSE KernRegs(c, Head(s), Len(s) - 1)

\* A process that waits for a CPU has given it up at one of these points.
ReadyOK(s) ==
  /\ s # <<>>
  /\ IF Head(s).kind = "user" THEN Head(s).pc \in {"sys", "ret"} ELSE Head(s).pc = "restore"

Upc(x) == IF x \in TrProcs THEN upc[x] ELSE 0
Due(x) == IF x \in TrProcs THEN due[x] ELSE 0

TrTypes ==
  /\ csr \in [Harts -> Csrs] /\ DOMAIN frames = Contexts
  /\ DOMAIN tf = TrProcs /\ upc \in [TrProcs -> 0 .. 1] /\ due \in [TrProcs -> 0 .. 1]
  /\ dead \in [TrProcs -> BOOLEAN] /\ trReady \subseteq TrProcs
  /\ plic \in [pending : SUBSET Irqs, claimed : SUBSET Irqs] /\ trPanic = FALSE

\* Who runs where: a process on one CPU or none, a scheduler on its own.
Placed ==
  /\ \A h \in Harts : csr[h].cur \in TrProcs \cup {h} /\ csr[h].cur \notin trReady
  /\ \A g, h \in Harts : g # h => csr[g].cur # csr[h].cur
  /\ \A h \in Harts : csr[h].cur # h => frames[h] = <<>>

\* s is the stack of a context that serves the interrupt i.
Serves(s, i) == s # <<>> /\ Head(s).pc = "serve" /\ Head(s).cause = i

Stacks == \A x \in Contexts : StackOK(x, frames[x])
Returns == \A p \in TrProcs : ReturnOK(p, frames[p], tf[p], upc[p], due[p], dead[p])
RegsAt(h) == RegsOK(h, csr[h], frames[csr[h].cur], Upc(csr[h].cur), Due(csr[h].cur))
Registers == \A h \in Harts : RegsAt(h)
Waiting == \A p \in trReady : ReadyOK(frames[p])
Served == \A i \in plic.claimed : \E h \in Harts : Serves(frames[csr[h].cur], i)

TrInv == TrTypes /\ Placed /\ Stacks /\ Returns /\ Registers /\ Waiting /\ Served

-----------------------------------------------------------------------------
(* Stacks.                                                                 *)

\* Sequences of one and of two frames.
LEMMA SeqOne ==
  ASSUME NEW a
  PROVE  /\ Head(<<a>>) = a /\ Len(<<a>>) = 1 /\ <<a>>[1] = a /\ <<a>> # <<>>
         /\ Tail(<<a>>) = <<>> /\ \A g : <<g>> \o Tail(<<a>>) = <<g>>
<1>1. Head(<<a>>) = a /\ Len(<<a>>) = 1 /\ <<a>>[1] = a /\ <<a>> # <<>> OBVIOUS
<1>2. <<a>> \in Seq({a}) OBVIOUS
<1>3. Tail(<<a>>) = <<>> BY <1>1, <1>2
<1>4. ASSUME NEW g PROVE <<g>> \o <<>> = <<g>>
  <2>1. <<g>> \in Seq({g}) OBVIOUS
  <2> QED BY <2>1
<1> QED BY Zenon, <1>1, <1>3, <1>4
LEMMA SeqTwo ==
  ASSUME NEW a, NEW b
  PROVE  /\ Head(<<a, b>>) = a /\ Len(<<a, b>>) = 2 /\ <<a, b>> # <<>>
         /\ <<a, b>>[1] = a /\ <<a, b>>[2] = b
         /\ Tail(<<a, b>>) = <<b>> /\ \A g : <<g>> \o Tail(<<a, b>>) = <<g, b>>
<1>1. /\ Head(<<a, b>>) = a /\ Len(<<a, b>>) = 2 /\ <<a, b>> # <<>>
      /\ <<a, b>>[1] = a /\ <<a, b>>[2] = b
  OBVIOUS
<1>2. <<a, b>> \in Seq({a, b}) OBVIOUS
<1>3. Tail(<<a, b>>) = <<b>> BY <1>1, <1>2
<1>4. ASSUME NEW g PROVE <<g>> \o <<b>> = <<g, b>>
  <2> DEFINE l == <<g>> \o <<b>>
  <2>1. /\ <<g>> \in Seq({g, b}) /\ <<b>> \in Seq({g, b}) /\ <<g, b>> \in Seq({g, b})
        /\ Len(<<g>>) = 1 /\ Len(<<b>>) = 1 /\ Len(<<g, b>>) = 2
    OBVIOUS
  <2>2. l \in Seq({g, b}) /\ Len(l) = 2 /\ l[1] = g /\ l[2] = b BY <2>1
  <2> HIDE DEF l
  <2>3. \A k \in 1 .. 2 : l[k] = <<g, b>>[k] BY <2>2
  <2>4. l = <<g, b>> BY <2>1, <2>2, <2>3
  <2> QED BY Zenon, <2>4 DEF l
<1> QED BY Zenon, <1>1, <1>3, <1>4

\* The three shapes of a stack, by the frames it is made of.
UserShape(x, s, a) == x \in TrProcs /\ s = <<a>> /\ UserOK(a)
BothShape(x, s, a, b) ==
  /\ x \in TrProcs /\ s = <<a, b>> /\ KernOK(x, 1, a)
  /\ UserOK(b) /\ b.pc \in {"sys", "after", "ret"}
KernShape(x, s, a) == x \in Harts /\ s = <<a>> /\ KernOK(x, 0, a)

LEMMA StackShape ==
  ASSUME NEW x, NEW s, StackOK(x, s), s # <<>>
  PROVE  \/ \E a : UserShape(x, s, a)
         \/ \E a, b : BothShape(x, s, a, b)
         \/ \E a : KernShape(x, s, a)
BY Zenon DEF StackOK, UserShape, BothShape, KernShape

LEMMA ShapeStack ==
  ASSUME NEW x, NEW s, NEW a, NEW b,
         UserShape(x, s, a) \/ BothShape(x, s, a, b) \/ KernShape(x, s, a)
  PROVE  StackOK(x, s)
<1>1. /\ Len(<<a>>) = 1 /\ <<a>>[1] = a
      /\ Len(<<a, b>>) = 2 /\ <<a, b>>[1] = a /\ <<a, b>>[2] = b
  BY Zenon, SeqOne, SeqTwo
<1>2. CASE UserShape(x, s, a) BY Zenon, <1>1, <1>2 DEF UserShape, StackOK
<1>3. CASE BothShape(x, s, a, b) BY Zenon, <1>1, <1>3 DEF BothShape, StackOK
<1>4. CASE KernShape(x, s, a) BY Zenon, <1>1, <1>4 DEF KernShape, StackOK
<1> QED BY Zenon, <1>2, <1>3, <1>4

\* The stack of a trap from user space alone: it is the stack of a process, and
\* what replaces its only frame is again a stack of one frame.
LEMMA UserStack ==
  ASSUME NEW x, NEW s, StackOK(x, s), s # <<>>, Head(s).kind = "user"
  PROVE  /\ x \in TrProcs /\ s = <<Head(s)>> /\ UserOK(Head(s)) /\ Len(s) = 1
         /\ s[1] = Head(s) /\ Tail(s) = <<>> /\ \A g : <<g>> \o Tail(s) = <<g>>
<1>1. ASSUME NEW a, NEW b, BothShape(x, s, a, b) PROVE FALSE
  <2>1. s = <<a, b>> /\ a.kind = "kern" BY Zenon, <1>1 DEF BothShape, KernOK
  <2>2. Head(s) = a BY <2>1
  <2> QED BY Zenon, <2>1, <2>2
<1>2. ASSUME NEW a, KernShape(x, s, a) PROVE FALSE
  BY Zenon, <1>2, SeqOne DEF KernShape, KernOK
<1>3. PICK a : UserShape(x, s, a) BY Zenon, <1>1, <1>2, StackShape
<1>4. s = <<a>> /\ Head(s) = a BY Zenon, <1>3, SeqOne DEF UserShape
<1> QED BY Zenon, <1>3, <1>4, SeqOne DEF UserShape

\* The stack of an interrupt of the kernel: replacing its top frame by another
\* of kerneltrap leaves the frame below, and so where user code goes on.
LEMMA KernStack ==
  ASSUME NEW x, NEW s, StackOK(x, s), s # <<>>, Head(s).kind = "kern"
  PROVE  /\ Len(s) = IF x \in TrProcs THEN 2 ELSE 1
         /\ KernOK(x, Len(s) - 1, Head(s))
         /\ x \in TrProcs \/ x \in Harts
         /\ \A g : KernOK(x, Len(s) - 1, g) =>
              LET t == <<g>> \o Tail(s)
              IN  /\ StackOK(x, t) /\ t # <<>> /\ Head(t) = g /\ Len(t) = Len(s)
                  /\ x \in TrProcs => t[2] = s[2]
         /\ x \in Harts => Tail(s) = <<>>
         /\ x \in TrProcs => /\ Tail(s) = <<s[2]>> /\ UserOK(s[2])
                             /\ s[2].pc \in {"sys", "after", "ret"}
<1>1. ASSUME NEW a, UserShape(x, s, a) PROVE FALSE
  BY Zenon, <1>1, SeqOne DEF UserShape, UserOK
<1>2. CASE \E a, b : BothShape(x, s, a, b)
  <2>1. PICK a, b : BothShape(x, s, a, b) BY Zenon, <1>2
  <2>2. x \in TrProcs /\ x \notin Harts BY Zenon, <2>1, TrAssumption DEF BothShape
  <2>3. /\ Head(s) = a /\ Len(s) = 2 /\ s[2] = b /\ Tail(s) = <<b>>
        /\ \A g : <<g>> \o Tail(s) = <<g, b>>
    <3>1. s = <<a, b>> BY Zenon, <2>1 DEF BothShape
    <3> QED BY <3>1, SeqTwo
  <2>4. Len(s) - 1 = 1 BY <2>3
  <2>5. ASSUME NEW g, KernOK(x, Len(s) - 1, g)
        PROVE  LET t == <<g>> \o Tail(s)
               IN  /\ StackOK(x, t) /\ t # <<>> /\ Head(t) = g /\ Len(t) = Len(s)
                   /\ t[2] = s[2]
    <3>1. <<g>> \o Tail(s) = <<g, b>> BY Zenon, <2>3
    <3>2. BothShape(x, <<g, b>>, g, b) BY Zenon, <2>1, <2>4, <2>5 DEF BothShape
    <3>3. StackOK(x, <<g, b>>) BY Zenon, <3>2, ShapeStack
    <3>4. /\ Head(<<g, b>>) = g /\ Len(<<g, b>>) = 2 /\ <<g, b>> # <<>>
          /\ <<g, b>>[2] = b
      BY Zenon, SeqTwo
    <3> QED BY Zenon, <2>3, <3>1, <3>3, <3>4
  <2> QED BY Zenon, <2>1, <2>2, <2>3, <2>4, <2>5 DEF BothShape
<1>3. CASE \E a : KernShape(x, s, a)
  <2>1. PICK a : KernShape(x, s, a) BY Zenon, <1>3
  <2>2. x \in Harts /\ x \notin TrProcs BY Zenon, <2>1, TrAssumption DEF KernShape
  <2>3. /\ Head(s) = a /\ Len(s) = 1 /\ Tail(s) = <<>>
        /\ \A g : <<g>> \o Tail(s) = <<g>>
    BY Zenon, <2>1, SeqOne DEF KernShape
  <2>4. Len(s) - 1 = 0 BY <2>3
  <2>5. ASSUME NEW g, KernOK(x, Len(s) - 1, g)
        PROVE  LET t == <<g>> \o Tail(s)
               IN  StackOK(x, t) /\ t # <<>> /\ Head(t) = g /\ Len(t) = Len(s)
    <3>1. <<g>> \o Tail(s) = <<g>> BY Zenon, <2>3
    <3>2. KernShape(x, <<g>>, g) BY Zenon, <2>1, <2>4, <2>5 DEF KernShape
    <3>3. StackOK(x, <<g>>) BY Zenon, <3>2, ShapeStack
    <3> QED BY Zenon, <2>3, <3>1, <3>3, SeqOne
  <2> QED BY Zenon, <2>1, <2>2, <2>3, <2>4, <2>5 DEF KernShape
<1> QED BY Zenon, <1>1, <1>2, <1>3, StackShape

\* A stack of one frame of usertrap.
LEMMA OneFrame ==
  ASSUME NEW x \in TrProcs, NEW g, UserOK(g)
  PROVE  /\ StackOK(x, <<g>>) /\ <<g>> # <<>> /\ Head(<<g>>) = g
         /\ Len(<<g>>) = 1 /\ <<g>>[1] = g
<1>1. UserShape(x, <<g>>, g) BY Zenon DEF UserShape
<1> QED BY Zenon, <1>1, ShapeStack, SeqOne

-----------------------------------------------------------------------------
(* What a step of one CPU leaves alone.                                    *)

\* A step of h changes h's registers, the stack of the context on h, and what
\* belongs to that process.
OthersStay(h) ==
  /\ csr' \in [Harts -> Csrs] /\ \A g \in Harts : g # h => csr'[g] = csr[g]
  /\ DOMAIN frames' = Contexts
  /\ \A y \in Contexts : y # csr[h].cur => frames'[y] = frames[y]
  /\ DOMAIN tf' = TrProcs /\ upc' \in [TrProcs -> 0 .. 1] /\ due' \in [TrProcs -> 0 .. 1]
  /\ dead' \in [TrProcs -> BOOLEAN] /\ trPanic' = FALSE
  /\ \A p \in TrProcs : p # csr[h].cur =>
       tf'[p] = tf[p] /\ upc'[p] = upc[p] /\ due'[p] = due[p] /\ dead'[p] = dead[p]

\* h goes on with its context, or gives the process up and goes to its scheduler.
StaysOrYields(h) ==
  \/ csr'[h].cur = csr[h].cur /\ trReady' = trReady /\ RegsAt(h)'
  \/ /\ csr[h].cur \in TrProcs /\ trReady' = trReady \cup {csr[h].cur}
     /\ ReadyOK(frames'[csr[h].cur])
     /\ csr'[h].cur = h /\ csr'[h].sie /\ csr'[h].stvec = "kernelvec"

\* The interrupts claimed now: those other CPUs serve, or the one h serves.
ClaimsStay(h) ==
  /\ plic' \in [pending : SUBSET Irqs, claimed : SUBSET Irqs]
  /\ \A i \in plic'.claimed :
       \/ i \in plic.claimed /\ ~Serves(frames[csr[h].cur], i)
       \/ csr'[h].cur = csr[h].cur /\ Serves(frames'[csr[h].cur], i)

LEMMA HartStep ==
  ASSUME TrInv, NEW h \in Harts, OthersStay(h), StaysOrYields(h), ClaimsStay(h),
         StackOK(csr[h].cur, frames'[csr[h].cur]),
         csr[h].cur \in TrProcs =>
           ReturnOK(csr[h].cur, frames'[csr[h].cur], tf'[csr[h].cur], upc'[csr[h].cur],
                    due'[csr[h].cur], dead'[csr[h].cur])
  PROVE  TrInv'
<1> DEFINE x == csr[h].cur
<1>1. /\ x \in TrProcs \cup {h} /\ x \in Contexts /\ x \notin trReady
      /\ \A g \in Harts : g # h => csr[g].cur # x
      /\ \A g \in Harts : csr[g].cur \in TrProcs \cup {g} /\ csr[g].cur \in Contexts
      /\ \A g \in Harts : g # h => g # x
  BY Zenon, TrAssumption DEF TrInv, Placed, Contexts
<1>2. TrTypes'
  BY Zenon DEF TrInv, TrTypes, OthersStay, StaysOrYields, ClaimsStay
<1>3. /\ \A g \in Harts : g # h => /\ csr'[g] = csr[g]
                                   /\ frames'[csr[g].cur] = frames[csr[g].cur]
      /\ \A y \in Contexts : y # x => frames'[y] = frames[y]
  BY Zenon, <1>1 DEF OthersStay
<1>4. csr'[h].cur # x => csr'[h].cur = h /\ x # h /\ x \in TrProcs /\ frames'[h] = <<>>
  BY Zenon, <1>1, <1>3, TrAssumption DEF StaysOrYields, TrInv, Placed, Contexts
<1>5. Placed'
  <2>1. ASSUME NEW g \in Harts PROVE csr'[g].cur \in TrProcs \cup {g} /\ csr'[g].cur \notin trReady'
    BY <1>1, <1>3, <1>4, TrAssumption DEF StaysOrYields, TrInv, Placed, TrTypes
  <2>2. ASSUME NEW f \in Harts, NEW g \in Harts, f # g PROVE csr'[f].cur # csr'[g].cur
    BY <1>1, <1>3, <1>4, <2>2, TrAssumption DEF TrInv, Placed
  <2>3. ASSUME NEW g \in Harts, csr'[g].cur # g PROVE frames'[g] = <<>>
    <3>1. CASE g # h BY Zenon, <1>1, <1>3, <2>3, <3>1 DEF TrInv, Placed, Contexts
    <3>2. CASE g = h
      <4>1. csr'[h].cur = x /\ x # h BY Zenon, <1>4, <2>3, <3>2
      <4> QED BY Zenon, <1>3, <3>2, <4>1 DEF TrInv, Placed, Contexts
    <3> QED BY Zenon, <3>1, <3>2
  <2> QED BY Zenon, <2>1, <2>2, <2>3 DEF Placed
<1>6. Stacks' BY Zenon, <1>3 DEF TrInv, Stacks
<1>7. Returns' BY Zenon DEF TrInv, Returns, OthersStay, Contexts
<1>8. Registers'
  <2>1. ASSUME NEW g \in Harts PROVE RegsAt(g)'
    <3>1. CASE g # h
      <4>1. Upc(csr[g].cur)' = Upc(csr[g].cur) /\ Due(csr[g].cur)' = Due(csr[g].cur)
        BY <1>1, <1>3, <3>1 DEF Upc, Due, OthersStay
      <4>2. RegsAt(g) BY Zenon DEF TrInv, Registers
      <4> QED BY Zenon, <1>3, <3>1, <4>1, <4>2 DEF RegsAt
    <3>2. CASE g = h /\ csr'[h].cur = x
      BY Zenon, <1>1, <1>4, <3>2, TrAssumption DEF StaysOrYields
    <3>3. CASE g = h /\ csr'[h].cur # x
      <4>1. frames'[csr'[h].cur] = <<>> /\ csr'[h].cur = h BY Zenon, <1>4, <3>3
      <4>2. csr'[h].sie /\ csr'[h].stvec = "kernelvec" BY Zenon, <3>3 DEF StaysOrYields
      <4> QED BY Zenon, <3>3, <4>1, <4>2 DEF RegsAt, RegsOK
    <3> QED BY Zenon, <3>1, <3>2, <3>3
  <2> QED BY Zenon, <2>1 DEF Registers
<1>9. Waiting'
  <2>1. ASSUME NEW p \in trReady' PROVE ReadyOK(frames'[p])
    <3>1. CASE p \in trReady BY Zenon, <1>1, <1>3, <3>1 DEF TrInv, Waiting, TrTypes, Contexts
    <3>2. CASE p \notin trReady BY Zenon, <2>1, <3>2 DEF StaysOrYields
    <3> QED BY Zenon, <3>1, <3>2
  <2> QED BY Zenon, <2>1 DEF Waiting
<1>10. Served'
  <2>1. ASSUME NEW i \in plic'.claimed PROVE \E g \in Harts : Serves(frames'[csr'[g].cur], i)
    <3>1. CASE i \in plic.claimed /\ ~Serves(frames[x], i)
      <4>1. PICK g \in Harts : Serves(frames[csr[g].cur], i) BY Zenon, <3>1 DEF TrInv, Served
      <4>2. g # h BY Zenon, <3>1, <4>1
      <4> QED BY Zenon, <1>3, <4>1, <4>2
    <3>2. CASE csr'[h].cur = x /\ Serves(frames'[x], i) BY Zenon, <3>2
    <3> QED BY Zenon, <2>1, <3>1, <3>2 DEF ClaimsStay
  <2> QED BY Zenon, <2>1 DEF Served
<1> QED BY Zenon, <1>2, <1>5, <1>6, <1>7, <1>8, <1>9, <1>10 DEF TrInv

-----------------------------------------------------------------------------
(* Steps inside usertrap and inside kerneltrap.                            *)

\* What holds of a CPU in usertrap or usertrapret.
LEMMA UserAt ==
  ASSUME TrInv, NEW h \in Harts, NEW pc, TrAt(h, "user", pc)
  PROVE  LET x == csr[h].cur
             f == TrTop(h)
         IN  /\ x \in TrProcs /\ x # h /\ csr[h] \in Csrs
             /\ frames[x] = <<f>> /\ frames[x] # <<>> /\ Head(frames[x]) = f
             /\ UserOK(f) /\ f.kind = "user" /\ f.pc = pc
             /\ Tail(frames[x]) = <<>> /\ \A g : <<g>> \o Tail(frames[x]) = <<g>>
             /\ UserRegs(csr[h], f, upc[x], due[x])
             /\ pc # "entry" /\ ~(pc = "after" /\ dead[x]) => tf[x] = <<x, 0, due[x]>>
<1> DEFINE x == csr[h].cur
           f == TrTop(h)
<1>1. /\ x \in Contexts /\ csr[h] \in Csrs /\ frames[x] # <<>> /\ Head(frames[x]) = f
      /\ f.kind = "user" /\ f.pc = pc /\ StackOK(x, frames[x]) /\ RegsAt(h)
  BY Zenon DEF TrInv, TrTypes, Csrs, Placed, Stacks, Registers, Contexts, TrAt, TrTop
<1>2. /\ x \in TrProcs /\ frames[x] = <<f>> /\ UserOK(f) /\ Len(frames[x]) = 1
      /\ frames[x][1] = f
      /\ Tail(frames[x]) = <<>> /\ \A g : <<g>> \o Tail(frames[x]) = <<g>>
  BY Zenon, <1>1, UserStack
<1>3. UserRegs(csr[h], f, upc[x], due[x])
  BY Zenon, <1>1, <1>2 DEF RegsAt, RegsOK, Upc, Due
<1>4. pc # "entry" /\ ~(pc = "after" /\ dead[x]) => tf[x] = <<x, 0, due[x]>>
  BY Zenon, <1>1, <1>2 DEF TrInv, Returns, ReturnOK
<1>5. x # h BY Zenon, <1>2, TrAssumption
<1> QED BY Zenon, <1>1, <1>2, <1>3, <1>4, <1>5

\* TrPut in usertrap leaves the one frame g.
LEMMA UserPut ==
  ASSUME TrInv, NEW h \in Harts, NEW pc, TrAt(h, "user", pc), NEW g, TrPut(h, g)
  PROVE  frames' = [frames EXCEPT ![csr[h].cur] = <<g>>]
<1> DEFINE x == csr[h].cur
<1>1. x \in TrProcs /\ \A k : <<k>> \o Tail(frames[x]) = <<k>> BY Zenon, UserAt
<1>2. <<g>> \o Tail(frames[x]) = <<g>> BY Zenon, <1>1
<1>3. frames' = [frames EXCEPT ![x] = <<g>> \o Tail(frames[x])]
  BY Zenon, <1>1 DEF TrInv, TrTypes, TrPut, Contexts
<1> QED BY Zenon, <1>2, <1>3

\* A step that replaces the frame of usertrap by g.
LEMMA UserStep ==
  ASSUME TrInv, NEW h \in Harts, NEW pc, TrAt(h, "user", pc),
         NEW g, UserOK(g), frames'[csr[h].cur] = <<g>>, OthersStay(h), ClaimsStay(h),
         g.pc # "entry",
         ~(g.pc = "after" /\ dead'[csr[h].cur]) =>
           tf'[csr[h].cur] = <<csr[h].cur, 0, due'[csr[h].cur]>>,
         \/ /\ csr'[h].cur = csr[h].cur /\ trReady' = trReady
            /\ UserRegs(csr'[h], g, upc'[csr[h].cur], due'[csr[h].cur])
         \/ /\ trReady' = trReady \cup {csr[h].cur} /\ g.pc \in {"sys", "ret"}
            /\ csr'[h].cur = h /\ csr'[h].sie /\ csr'[h].stvec = "kernelvec"
  PROVE  TrInv'
<1> DEFINE x == csr[h].cur
<1>1. x \in TrProcs BY Zenon, UserAt
<1>2. /\ StackOK(x, <<g>>) /\ <<g>> # <<>> /\ Head(<<g>>) = g /\ Len(<<g>>) = 1
      /\ <<g>>[1] = g /\ g.kind = "user"
  BY Zenon, <1>1, OneFrame DEF UserOK
<1>3. ReturnOK(x, frames'[x], tf'[x], upc'[x], due'[x], dead'[x])
  BY Zenon, <1>2 DEF ReturnOK
<1>4. StaysOrYields(h)
  <2>1. CASE /\ csr'[h].cur = x /\ trReady' = trReady
             /\ UserRegs(csr'[h], g, upc'[x], due'[x])
    <3>1. RegsAt(h)' BY Zenon, <1>1, <1>2, <2>1 DEF RegsAt, RegsOK, Upc, Due
    <3> QED BY Zenon, <2>1, <3>1 DEF StaysOrYields
  <2>2. CASE /\ trReady' = trReady \cup {x} /\ g.pc \in {"sys", "ret"}
             /\ csr'[h].cur = h /\ csr'[h].sie /\ csr'[h].stvec = "kernelvec"
    BY Zenon, <1>1, <1>2, <2>2 DEF StaysOrYields, ReadyOK
  <2> QED BY Zenon, <2>1, <2>2
<1>5. StackOK(x, frames'[x]) BY Zenon, <1>2
<1> QED BY Zenon, <1>3, <1>4, <1>5, HartStep

\* What holds of a CPU in kerneltrap.
LEMMA KernAt ==
  ASSUME TrInv, NEW h \in Harts, NEW pc, TrAt(h, "kern", pc)
  PROVE  LET x == csr[h].cur
             f == TrTop(h)
             n == Len(frames[x]) - 1
         IN  /\ x \in TrProcs \cup {h} /\ x \in Contexts /\ csr[h] \in Csrs
             /\ frames[x] # <<>> /\ Head(frames[x]) = f /\ StackOK(x, frames[x])
             /\ n = IF x \in TrProcs THEN 1 ELSE 0
             /\ KernOK(x, n, f) /\ f.kind = "kern" /\ f.pc = pc
             /\ KernRegs(csr[h], f, n)
<1> DEFINE x == csr[h].cur
           f == TrTop(h)
<1>1. /\ x \in TrProcs \cup {h} /\ x \in Contexts /\ csr[h] \in Csrs
      /\ frames[x] # <<>> /\ Head(frames[x]) = f
      /\ f.kind = "kern" /\ f.pc = pc /\ StackOK(x, frames[x]) /\ RegsAt(h)
  BY Zenon DEF TrInv, TrTypes, Csrs, Placed, Stacks, Registers, Contexts, TrAt, TrTop
<1>2. /\ Len(frames[x]) = IF x \in TrProcs THEN 2 ELSE 1
      /\ KernOK(x, Len(frames[x]) - 1, f)
  <2>1. /\ Len(frames[x]) = IF x \in TrProcs THEN 2 ELSE 1
        /\ KernOK(x, Len(frames[x]) - 1, Head(frames[x]))
    BY Zenon, <1>1, KernStack
  <2> QED BY Zenon, <1>1, <2>1
<1>3. KernRegs(csr[h], f, Len(frames[x]) - 1)
  BY Zenon, <1>1 DEF RegsAt, RegsOK
<1>4. Len(frames[x]) - 1 = IF x \in TrProcs THEN 1 ELSE 0 BY <1>2
<1> QED BY Zenon, <1>1, <1>2, <1>3, <1>4

\* A step that replaces the frame of kerneltrap by g.
LEMMA KernStep ==
  ASSUME TrInv, NEW h \in Harts, NEW pc, TrAt(h, "kern", pc),
         NEW g, KernOK(csr[h].cur, Len(frames[csr[h].cur]) - 1, g),
         frames'[csr[h].cur] = <<g>> \o Tail(frames[csr[h].cur]),
         OthersStay(h), ClaimsStay(h), UNCHANGED <<tf, upc, due, dead>>,
         \/ /\ csr'[h].cur = csr[h].cur /\ trReady' = trReady
            /\ KernRegs(csr'[h], g, Len(frames[csr[h].cur]) - 1)
         \/ /\ csr[h].cur \in TrProcs /\ trReady' = trReady \cup {csr[h].cur}
            /\ g.pc = "restore"
            /\ csr'[h].cur = h /\ csr'[h].sie /\ csr'[h].stvec = "kernelvec"
  PROVE  TrInv'
<1> DEFINE x == csr[h].cur
           t == <<g>> \o Tail(frames[x])
<1>1. /\ x \in Contexts /\ frames[x] # <<>> /\ Head(frames[x]).kind = "kern"
      /\ StackOK(x, frames[x])
  BY Zenon, KernAt
<1>2. /\ StackOK(x, t) /\ t # <<>> /\ Head(t) = g /\ Len(t) = Len(frames[x])
      /\ x \in TrProcs => Len(t) = 2 /\ t[2] = frames[x][2] /\ Len(frames[x]) = 2
      /\ g.kind = "kern"
  <2>1. /\ StackOK(x, t) /\ t # <<>> /\ Head(t) = g /\ Len(t) = Len(frames[x])
        /\ x \in TrProcs => t[2] = frames[x][2]
    <3>1. \A k : KernOK(x, Len(frames[x]) - 1, k) =>
            LET l == <<k>> \o Tail(frames[x])
            IN  /\ StackOK(x, l) /\ l # <<>> /\ Head(l) = k /\ Len(l) = Len(frames[x])
                /\ x \in TrProcs => l[2] = frames[x][2]
      BY Zenon, <1>1, KernStack
    <3> QED BY Zenon, <3>1
  <2>2. Len(frames[x]) = IF x \in TrProcs THEN 2 ELSE 1 BY Zenon, <1>1, KernStack
  <2>3. g.kind = "kern" BY Zenon DEF KernOK
  <2> QED BY Zenon, <2>1, <2>2, <2>3
<1> HIDE DEF t
<1>3. frames'[x] = t BY Zenon DEF t
<1>4. ASSUME x \in TrProcs PROVE ReturnOK(x, frames'[x], tf'[x], upc'[x], due'[x], dead'[x])
  <2>1. ReturnOK(x, frames[x], tf[x], upc[x], due[x], dead[x]) BY Zenon, <1>4 DEF TrInv, Returns
  <2> QED BY <1>1, <1>2, <1>3, <1>4, <2>1 DEF ReturnOK
<1>5. StaysOrYields(h)
  <2>1. CASE /\ csr'[h].cur = x /\ trReady' = trReady
             /\ KernRegs(csr'[h], g, Len(frames[x]) - 1)
    <3>1. RegsAt(h)' BY Zenon, <1>2, <1>3, <2>1 DEF RegsAt, RegsOK
    <3> QED BY Zenon, <2>1, <3>1 DEF StaysOrYields
  <2>2. CASE /\ x \in TrProcs /\ trReady' = trReady \cup {x} /\ g.pc = "restore"
             /\ csr'[h].cur = h /\ csr'[h].sie /\ csr'[h].stvec = "kernelvec"
    BY Zenon, <1>2, <1>3, <2>2 DEF StaysOrYields, ReadyOK
  <2> QED BY Zenon, <2>1, <2>2
<1>6. StackOK(x, frames'[x]) BY Zenon, <1>2, <1>3
<1> QED BY Zenon, <1>4, <1>5, <1>6, HartStep

\* A step that gives h the registers c and its context the stack s.
LEMMA Kept ==
  ASSUME TrInv, NEW h \in Harts, NEW c \in Csrs, csr' = [csr EXCEPT ![h] = c],
         NEW s, frames' = [frames EXCEPT ![csr[h].cur] = s], csr[h].cur \in Contexts,
         UNCHANGED <<tf, upc, due, dead, trPanic>>
  PROVE  OthersStay(h) /\ csr'[h] = c /\ frames'[csr[h].cur] = s
BY Zenon DEF TrInv, TrTypes, OthersStay

\* h serves no interrupt, and none is claimed or completed.
LEMMA KeptClaims ==
  ASSUME TrInv, NEW h \in Harts, plic' = plic,
         frames[csr[h].cur] # <<>> => Head(frames[csr[h].cur]).pc # "serve"
  PROVE  ClaimsStay(h)
BY Zenon DEF TrInv, TrTypes, ClaimsStay, Serves

\* A frame whose pc is changed.
LEMMA FrameGoto ==
  ASSUME NEW f \in TrFrames, NEW pc \in UserPoints \cup KernPoints
  PROVE  LET g == [f EXCEPT !.pc = pc]
         IN  /\ g \in TrFrames /\ g.pc = pc /\ g.kind = f.kind /\ g.cause = f.cause
             /\ g.sepc = f.sepc /\ g.which = f.which
BY Zenon DEF TrFrames

-----------------------------------------------------------------------------
(* usertrap() and usertrapret().                                           *)

LEMMA usertrapInv ==
  ASSUME TrInv, NEW h \in Harts, usertrap(h)
  PROVE  TrInv'
<1> DEFINE x == csr[h].cur
           f == TrTop(h)
           u == upc[x]
           sys == f.cause = "ecall" /\ ~dead[x]
           to == IF sys THEN "sys" ELSE IF f.cause \in {"timer", "ext"} THEN "dev" ELSE "after"
           g == [f EXCEPT !.pc = to]
<1>1. TrAt(h, "user", "entry") BY Zenon DEF usertrap
<1>2. /\ x \in TrProcs /\ csr[h] \in Csrs /\ UserOK(f) /\ f.pc = "entry"
      /\ f.kind = "user" /\ frames[x] # <<>> /\ Head(frames[x]) = f
      /\ \A k : <<k>> \o Tail(frames[x]) = <<k>>
      /\ UserRegs(csr[h], f, u, due[x])
  BY Zenon, <1>1, UserAt
<1>3. /\ csr[h].spp = "U" /\ csr[h].sepc = <<x, 0, u>> /\ ~csr[h].sie
      /\ u \in 0 .. 1 /\ due[x] = IF f.cause = "ecall" THEN 1 - u ELSE u
      /\ dead[x] \in BOOLEAN /\ csr \in [Harts -> Csrs] /\ x \in Contexts
  BY Zenon, <1>2 DEF UserRegs, TrInv, TrTypes, Contexts
<1>4. to \in {"sys", "dev", "after"} BY Zenon
<1>5. g \in TrFrames /\ g.pc = to /\ g.kind = "user" /\ g.cause = f.cause
  BY <1>2, <1>4, FrameGoto DEF UserOK, UserPoints
<1>6. UserOK(g) BY <1>5 DEF UserOK, UserPoints
<1>7. /\ csr'[h] = [csr[h] EXCEPT !.stvec = "kernelvec", !.sie = sys]
      /\ csr' \in [Harts -> Csrs] /\ \A k \in Harts : k # h => csr'[k] = csr[k]
  <2>1. csr' = [csr EXCEPT ![h].stvec = "kernelvec", ![h].sie = sys] BY Zenon DEF usertrap
  <2>2. sys \in BOOLEAN BY Zenon
  <2> HIDE DEF sys
  <2>3. csr' = [csr EXCEPT ![h] = [csr[h] EXCEPT !.stvec = "kernelvec", !.sie = sys]]
    BY Zenon, <1>3, <2>1
  <2>4. [csr[h] EXCEPT !.stvec = "kernelvec", !.sie = sys] \in Csrs
    BY Zenon, <1>2, <2>2 DEF Csrs
  <2> QED BY Zenon, <1>3, <2>3, <2>4
<1>8. csr'[h].cur = x /\ csr'[h].stvec = "kernelvec" /\ csr'[h].sie = sys
  BY Zenon, <1>2, <1>7 DEF Csrs
<1>9. frames' = [frames EXCEPT ![x] = <<g>>]
  <2>1. TrPut(h, g) BY Zenon DEF usertrap, TrGoto
  <2> QED BY Zenon, <1>1, <2>1, UserPut
<1>10. frames'[x] = <<g>> BY Zenon, <1>3, <1>9 DEF TrInv, TrTypes
<1>11. Next4(<<x, 0, u>>) = <<x, 0, 1 - u>> BY DEF Next4
<1>12. tf' = [tf EXCEPT ![x] = IF sys THEN <<x, 0, 1 - u>> ELSE <<x, 0, u>>]
  BY Zenon, <1>2, <1>3, <1>11 DEF usertrap
<1>13. tf'[x] = IF sys THEN <<x, 0, 1 - u>> ELSE <<x, 0, u>>
  BY Zenon, <1>2, <1>12 DEF TrInv, TrTypes
<1>14. /\ dead' \in [TrProcs -> BOOLEAN] /\ \A p \in TrProcs : p # x => dead'[p] = dead[p]
       /\ dead[x] => dead'[x]
  BY Zenon, <1>2 DEF usertrap, TrInv, TrTypes
<1>15. OthersStay(h)
  BY Zenon, <1>3, <1>7, <1>9, <1>12, <1>14 DEF usertrap, TrInv, TrTypes, OthersStay
<1>16. due' = due /\ upc' = upc /\ trReady' = trReady /\ plic' = plic BY Zenon DEF usertrap
<1>17. ~(g.pc = "after" /\ dead'[x]) => tf'[x] = <<x, 0, due'[x]>>
  BY Zenon, <1>3, <1>5, <1>13, <1>14, <1>16
<1>18. UserRegs(csr'[h], g, upc'[x], due'[x])
  BY Zenon, <1>4, <1>5, <1>8 DEF UserRegs
<1>19. ClaimsStay(h) BY Zenon, <1>2, <1>16, KeptClaims
<1>20. g.pc # "entry" BY <1>4, <1>5
<1> HIDE DEF x, f, u, sys, to, g
<1> QED BY Zenon, <1>1, <1>6, <1>8, <1>10, <1>15, <1>16, <1>17, <1>18, <1>19, <1>20, UserStep DEF x

\* A step that keeps the process: h gets the registers c, the frame becomes g,
\* and the trapframe stays.
LEMMA UserMove ==
  ASSUME TrInv, NEW h \in Harts, NEW pc, TrAt(h, "user", pc), pc # "entry",
         NEW c \in Csrs, csr' = [csr EXCEPT ![h] = c], NEW g, UserOK(g), TrPut(h, g),
         UNCHANGED <<tf, upc, due, dead, trPanic>>, ClaimsStay(h), g.pc # "entry",
         pc = "after" => ~dead[csr[h].cur],
         \/ /\ c.cur = csr[h].cur /\ trReady' = trReady
            /\ UserRegs(c, g, upc[csr[h].cur], due[csr[h].cur])
         \/ /\ trReady' = trReady \cup {csr[h].cur} /\ g.pc \in {"sys", "ret"}
            /\ c.cur = h /\ c.sie /\ c.stvec = "kernelvec"
  PROVE  TrInv'
<1> DEFINE x == csr[h].cur
<1>1. x \in TrProcs /\ x \in Contexts /\ tf[x] = <<x, 0, due[x]>>
  BY ZenonT(60), UserAt DEF Contexts
<1>2. frames' = [frames EXCEPT ![x] = <<g>>] BY Zenon, UserPut
<1>3. OthersStay(h) /\ csr'[h] = c /\ frames'[x] = <<g>> BY Zenon, <1>1, <1>2, Kept
<1>4. tf'[x] = <<x, 0, due'[x]>> /\ upc'[x] = upc[x] /\ due'[x] = due[x] BY Zenon, <1>1
<1> QED BY Zenon, <1>3, <1>4, UserStep

\* The frame and the registers at a step of usertrap.
LEMMA UserFrame ==
  ASSUME TrInv, NEW h \in Harts, NEW pc, TrAt(h, "user", pc)
  PROVE  /\ TrTop(h) \in TrFrames /\ TrTop(h).kind = "user" /\ TrTop(h).pc = pc
         /\ csr \in [Harts -> Csrs] /\ csr[h] \in Csrs
         /\ frames[csr[h].cur] # <<>> /\ Head(frames[csr[h].cur]) = TrTop(h)
         /\ UserRegs(csr[h], TrTop(h), upc[csr[h].cur], due[csr[h].cur])
BY Zenon, UserAt DEF UserOK, TrInv, TrTypes

LEMMA SyscallEndInv ==
  ASSUME TrInv, NEW h \in Harts, SyscallEnd(h)
  PROVE  TrInv'
<1> DEFINE g == [TrTop(h) EXCEPT !.pc = "after"]
<1>1. TrAt(h, "user", "sys") BY Zenon DEF SyscallEnd
<1>2. /\ g \in TrFrames /\ g.pc = "after" /\ g.kind = "user" /\ g.pc # "entry"
  <2>1. "after" \in UserPoints \cup KernPoints BY Zenon DEF UserPoints
  <2>2. TrTop(h) \in TrFrames /\ TrTop(h).kind = "user" BY Zenon, <1>1, UserFrame
  <2>3. g \in TrFrames /\ g.pc = "after" /\ g.kind = "user" BY Zenon, <2>1, <2>2, FrameGoto
  <2> QED BY Zenon, <2>3
<1>3. UserOK(g) BY Zenon, <1>2 DEF UserOK, UserPoints
<1>4. TrPut(h, g) BY Zenon DEF SyscallEnd, TrGoto
<1>5. csr[h].stvec = "kernelvec" BY Zenon, <1>1, UserFrame DEF UserRegs
<1>6. UserRegs(csr[h], g, upc[csr[h].cur], due[csr[h].cur]) BY Zenon, <1>2, <1>5 DEF UserRegs
<1>7. csr' = [csr EXCEPT ![h] = csr[h]] /\ csr[h] \in Csrs
  BY Zenon, <1>1, UserFrame DEF SyscallEnd
<1>8. ClaimsStay(h) BY Zenon, <1>1, UserFrame, KeptClaims DEF SyscallEnd
<1>9. UNCHANGED <<tf, upc, due, dead, trPanic>> /\ trReady' = trReady
  BY Zenon DEF SyscallEnd, userVars
<1>10. "sys" # "entry" /\ "sys" # "after" BY Zenon
<1> HIDE DEF g
<1> QED BY ZenonT(30), <1>1, <1>2, <1>3, <1>4, <1>6, <1>7, <1>8, <1>9, <1>10, UserMove

\* A system call that sleeps gives the process up and leaves its frame.
LEMMA SyscallSleepInv ==
  ASSUME TrInv, NEW h \in Harts, SyscallSleep(h)
  PROVE  TrInv'
<1> DEFINE x == csr[h].cur
           c == [csr[h] EXCEPT !.cur = h, !.sie = TRUE]
<1>1. TrAt(h, "user", "sys") BY Zenon DEF SyscallSleep
<1>2. /\ x \in TrProcs /\ x \in Contexts /\ frames[x] = <<TrTop(h)>> /\ UserOK(TrTop(h))
      /\ TrTop(h).pc = "sys" /\ tf[x] = <<x, 0, due[x]>>
  <2>1. "sys" # "entry" /\ "sys" # "after" OBVIOUS
  <2> QED BY Zenon, <1>1, <2>1, UserAt DEF Contexts
<1>3. csr \in [Harts -> Csrs] /\ csr[h] \in Csrs /\ csr[h].stvec = "kernelvec"
  BY Zenon, <1>1, UserFrame DEF UserRegs
<1>4. csr' = [csr EXCEPT ![h] = c] BY Zenon, <1>3 DEF SyscallSleep
<1>5. c \in Csrs /\ c.cur = h /\ c.sie /\ c.stvec = "kernelvec" BY Zenon, <1>3 DEF Csrs, Contexts
<1>6. frames' = frames BY Zenon DEF SyscallSleep
<1>7. UNCHANGED <<tf, upc, due, dead, trPanic>> /\ trReady' = trReady \cup {x}
  BY Zenon DEF SyscallSleep, userVars
<1> HIDE DEF c
<1>8. OthersStay(h) /\ csr'[h] = c /\ frames'[x] = <<TrTop(h)>>
  BY Zenon, <1>2, <1>3, <1>4, <1>5, <1>6, <1>7 DEF OthersStay, TrInv, TrTypes
<1>9. ClaimsStay(h) BY Zenon, <1>1, UserFrame, KeptClaims DEF SyscallSleep
<1>10. tf'[x] = <<x, 0, due'[x]>> BY Zenon, <1>2, <1>7
<1>11. TrTop(h).pc # "entry" BY Zenon, <1>2
<1> QED BY ZenonT(30), <1>1, <1>2, <1>5, <1>7, <1>8, <1>9, <1>10, <1>11, UserStep

\* The frame goes on at another point, but not into devintr().
LEMMA UserGoto ==
  ASSUME TrInv, NEW h \in Harts, NEW pc, TrAt(h, "user", pc),
         NEW to \in {"after", "ret", "vec", "epc"}, TrGoto(h, to)
  PROVE  LET g == [TrTop(h) EXCEPT !.pc = to]
         IN  UserOK(g) /\ g.pc = to /\ TrPut(h, g)
<1> DEFINE g == [TrTop(h) EXCEPT !.pc = to]
<1>1. to \in UserPoints \cup KernPoints BY Zenon DEF UserPoints
<1>2. TrTop(h) \in TrFrames /\ TrTop(h).kind = "user" BY Zenon, UserFrame
<1>3. g \in TrFrames /\ g.pc = to /\ g.kind = "user" BY Zenon, <1>1, <1>2, FrameGoto
<1>4. UserOK(g) BY Zenon, <1>3 DEF UserOK, UserPoints
<1>5. TrPut(h, g) BY Zenon DEF TrGoto
<1> QED BY Zenon, <1>3, <1>4, <1>5

\* exit: the slot's next process starts in forkret.
LEMMA UserExitInv ==
  ASSUME TrInv, NEW h \in Harts, UserExit(h)
  PROVE  TrInv'
<1> DEFINE x == csr[h].cur
           c == [csr[h] EXCEPT !.cur = h, !.sie = TRUE]
           g == TrFrame("user", "ret")
<1>1. TrAt(h, "user", "after") BY Zenon DEF UserExit
<1>2. x \in TrProcs /\ x \in Contexts BY Zenon, <1>1, UserAt DEF Contexts
<1>3. csr \in [Harts -> Csrs] /\ csr[h] \in Csrs /\ csr[h].stvec = "kernelvec"
  BY <1>1, UserFrame DEF UserRegs
<1>4. csr' = [csr EXCEPT ![h] = c] BY Zenon, <1>3 DEF UserExit
<1>5. c \in Csrs /\ c.cur = h /\ c.sie /\ c.stvec = "kernelvec" BY Zenon, <1>3 DEF Csrs, Contexts
<1>6. UserOK(g) /\ g.pc = "ret" BY DEF TrFrame, UserOK, UserPoints, TrFrames, TrPlaces
<1> HIDE DEF c, g
<1>7. TrPut(h, g) BY Zenon DEF UserExit, g
<1>8. frames' = [frames EXCEPT ![x] = <<g>>] BY Zenon, <1>1, <1>7, UserPut
<1>9. frames'[x] = <<g>> /\ csr'[h] = c
  BY Zenon, <1>2, <1>3, <1>4, <1>8 DEF TrInv, TrTypes
<1>10. tf'[x] = <<x, 0, 0>> /\ due'[x] = 0 /\ trReady' = trReady \cup {x}
  BY Zenon, <1>2 DEF UserExit, TrInv, TrTypes
<1>11. OthersStay(h)
  <2>1. /\ csr' \in [Harts -> Csrs] /\ \A k \in Harts : k # h => csr'[k] = csr[k]
    BY Zenon, <1>3, <1>4, <1>5
  <2>2. DOMAIN frames' = Contexts /\ \A k \in Contexts : k # x => frames'[k] = frames[k]
    BY Zenon, <1>8 DEF TrInv, TrTypes
  <2>3. /\ DOMAIN tf' = TrProcs /\ upc' = upc /\ due' \in [TrProcs -> 0 .. 1]
        /\ dead' \in [TrProcs -> BOOLEAN] /\ trPanic' = trPanic
        /\ \A p \in TrProcs : p # x => tf'[p] = tf[p] /\ due'[p] = due[p] /\ dead'[p] = dead[p]
    BY <1>2 DEF UserExit, TrInv, TrTypes
  <2> QED BY Zenon, <2>1, <2>2, <2>3 DEF OthersStay, TrInv, TrTypes
<1>12. ClaimsStay(h) BY Zenon, <1>1, UserFrame, KeptClaims DEF UserExit
<1>13. tf'[x] = <<x, 0, due'[x]>> BY Zenon, <1>10
<1>14. g.pc # "entry" BY Zenon, <1>6
<1> QED BY ZenonT(30), <1>1, <1>5, <1>6, <1>9, <1>10, <1>11, <1>12, <1>13, <1>14, UserStep

LEMMA UserAfterInv ==
  ASSUME TrInv, NEW h \in Harts, UserAfter(h)
  PROVE  TrInv'
<1> DEFINE x == csr[h].cur
           g == [TrTop(h) EXCEPT !.pc = "ret"]
           y == [csr[h] EXCEPT !.cur = h, !.sie = TRUE]
<1>1. TrAt(h, "user", "after") /\ ~dead[x] BY Zenon DEF UserAfter
<1>2. UserOK(g) /\ g.pc = "ret" /\ TrPut(h, g)
  BY Zenon, <1>1, UserGoto DEF UserAfter, TrLeave
<1>3. csr \in [Harts -> Csrs] /\ csr[h] \in Csrs /\ csr[h].stvec = "kernelvec"
  BY <1>1, UserFrame DEF UserRegs
<1>4. UNCHANGED <<tf, upc, due, dead, trPanic>> BY Zenon DEF UserAfter, userVars
<1>5. ClaimsStay(h) BY Zenon, <1>1, UserFrame, KeptClaims DEF UserAfter
<1>6. "after" # "entry" /\ g.pc # "entry" BY Zenon, <1>2
<1>7. CASE UNCHANGED <<trReady, csr>>
  <2>1. csr' = [csr EXCEPT ![h] = csr[h]] /\ trReady' = trReady BY Zenon, <1>3, <1>7
  <2>2. UserRegs(csr[h], g, upc[x], due[x]) BY Zenon, <1>2, <1>3 DEF UserRegs
  <2> HIDE DEF g
  <2> QED BY ZenonT(30), <1>1, <1>2, <1>3, <1>4, <1>5, <1>6, <2>1, <2>2, UserMove
<1>8. CASE /\ trReady' = trReady \cup {x}
           /\ csr' = [csr EXCEPT ![h].cur = h, ![h].sie = TRUE]
  <2>1. csr' = [csr EXCEPT ![h] = y] BY Zenon, <1>3, <1>8
  <2>2. y \in Csrs /\ y.cur = h /\ y.sie /\ y.stvec = "kernelvec" BY Zenon, <1>3 DEF Csrs, Contexts
  <2> HIDE DEF g, y
  <2> QED BY ZenonT(30), <1>1, <1>2, <1>4, <1>5, <1>6, <1>8, <2>1, <2>2, UserMove
<1> QED BY Zenon, <1>7, <1>8 DEF UserAfter, TrLeave

LEMMA usertrapretInv ==
  ASSUME TrInv, NEW h \in Harts, usertrapret(h)
  PROVE  TrInv'
<1> DEFINE x == csr[h].cur
           g == [TrTop(h) EXCEPT !.pc = "vec"]
           c == [csr[h] EXCEPT !.sie = FALSE]
<1>1. TrAt(h, "user", "ret") BY Zenon DEF usertrapret
<1>2. UserOK(g) /\ g.pc = "vec" /\ TrPut(h, g) BY Zenon, <1>1, UserGoto DEF usertrapret
<1>3. csr \in [Harts -> Csrs] /\ csr[h] \in Csrs /\ csr[h].stvec = "kernelvec"
  BY <1>1, UserFrame DEF UserRegs
<1>4. UNCHANGED <<tf, upc, due, dead, trPanic>> /\ trReady' = trReady
  BY Zenon DEF usertrapret, userVars
<1>5. ClaimsStay(h) BY Zenon, <1>1, UserFrame, KeptClaims DEF usertrapret
<1>6. "ret" # "entry" /\ "ret" # "after" /\ g.pc # "entry" BY Zenon, <1>2
<1>7. csr' = [csr EXCEPT ![h] = c] BY Zenon, <1>3 DEF usertrapret, RetIntr
<1>8. c \in Csrs /\ c.cur = x /\ ~c.sie /\ c.stvec = "kernelvec" BY Zenon, <1>3 DEF Csrs
<1>9. UserRegs(c, g, upc[x], due[x]) BY Zenon, <1>2, <1>8 DEF UserRegs
<1> HIDE DEF g, c
<1> QED BY ZenonT(30), <1>1, <1>2, <1>4, <1>5, <1>6, <1>7, <1>8, <1>9, UserMove

LEMMA RetVecInv ==
  ASSUME TrInv, NEW h \in Harts, RetVec(h)
  PROVE  TrInv'
<1> DEFINE x == csr[h].cur
           g == [TrTop(h) EXCEPT !.pc = "epc"]
           c == [csr[h] EXCEPT !.stvec = "uservec"]
<1>1. TrAt(h, "user", "vec") BY Zenon DEF RetVec
<1>2. UserOK(g) /\ g.pc = "epc" /\ TrPut(h, g) BY Zenon, <1>1, UserGoto DEF RetVec
<1>3. csr \in [Harts -> Csrs] /\ csr[h] \in Csrs /\ ~csr[h].sie
  BY Zenon, <1>1, UserFrame DEF UserRegs
<1>4. UNCHANGED <<tf, upc, due, dead, trPanic>> /\ trReady' = trReady
  BY Zenon DEF RetVec, userVars
<1>5. ClaimsStay(h) BY Zenon, <1>1, UserFrame, KeptClaims DEF RetVec
<1>6. "vec" # "entry" /\ "vec" # "after" /\ g.pc # "entry" BY Zenon, <1>2
<1>7. csr' = [csr EXCEPT ![h] = c] BY Zenon, <1>3 DEF RetVec
<1>8. c \in Csrs /\ c.cur = x /\ ~c.sie /\ c.stvec = "uservec" BY Zenon, <1>3 DEF Csrs
<1>9. UserRegs(c, g, upc[x], due[x]) BY Zenon, <1>2, <1>8 DEF UserRegs
<1> HIDE DEF g, c
<1> QED BY ZenonT(30), <1>1, <1>2, <1>4, <1>5, <1>6, <1>7, <1>8, <1>9, UserMove

\* sret goes to user space, where the trapframe says.
LEMMA RetSretInv ==
  ASSUME TrInv, NEW h \in Harts, RetSret(h)
  PROVE  TrInv'
<1> DEFINE x == csr[h].cur
           c == [csr[h] EXCEPT !.sepc = tf[x], !.spp = "U", !.sie = TRUE]
<1>1. TrAt(h, "user", "epc") BY Zenon DEF RetSret
<1>2. /\ x \in TrProcs /\ x # h /\ x \in Contexts /\ Tail(frames[x]) = <<>>
      /\ tf[x] = <<x, 0, due[x]>>
  <2>1. "epc" # "entry" /\ "epc" # "after" BY Zenon
  <2> QED BY Zenon, <1>1, <2>1, UserAt DEF Contexts
<1>3. csr \in [Harts -> Csrs] /\ csr[h] \in Csrs /\ csr[h].stvec = "uservec"
  BY Zenon, <1>1, UserFrame DEF UserRegs
<1>4. due[x] \in 0 .. 1 BY Zenon, <1>2 DEF TrInv, TrTypes
<1>5. tf[x] \in TrPlaces /\ tf[x][3] = due[x] BY <1>2, <1>4 DEF TrPlaces
<1>6. csr' = [csr EXCEPT ![h] = c] BY Zenon, <1>3 DEF RetSret
<1>7. c \in Csrs /\ c.cur = x /\ c.sie /\ c.stvec = "uservec" BY Zenon, <1>3, <1>5 DEF Csrs
<1> HIDE DEF c
<1>8. frames' = [frames EXCEPT ![x] = <<>>]
  <2>1. frames' = [frames EXCEPT ![x] = Tail(frames[x])]
    BY Zenon, <1>2 DEF RetSret, TrInv, TrTypes
  <2> QED BY Zenon, <1>2, <2>1
<1>9. upc' = [upc EXCEPT ![x] = due[x]] BY Zenon, <1>5 DEF RetSret
<1>10. /\ frames'[x] = <<>> /\ csr'[h] = c /\ upc'[x] = due'[x] /\ trReady' = trReady
  BY Zenon, <1>2, <1>3, <1>6, <1>8, <1>9 DEF RetSret, TrInv, TrTypes
<1>11. OthersStay(h)
  <2>1. /\ csr' \in [Harts -> Csrs] /\ \A k \in Harts : k # h => csr'[k] = csr[k]
    BY Zenon, <1>3, <1>6, <1>7
  <2>2. DOMAIN frames' = Contexts /\ \A k \in Contexts : k # x => frames'[k] = frames[k]
    BY Zenon, <1>8 DEF TrInv, TrTypes
  <2>3. /\ upc' \in [TrProcs -> 0 .. 1] /\ \A p \in TrProcs : p # x => upc'[p] = upc[p]
    BY Zenon, <1>2, <1>4, <1>9 DEF TrInv, TrTypes
  <2> QED BY Zenon, <2>1, <2>2, <2>3 DEF RetSret, OthersStay, TrInv, TrTypes
<1>12. ClaimsStay(h) BY Zenon, <1>1, UserFrame, KeptClaims DEF RetSret
<1>13. RegsAt(h)' BY Zenon, <1>2, <1>7, <1>10 DEF RegsAt, RegsOK
<1>14. StaysOrYields(h) BY Zenon, <1>7, <1>10, <1>13 DEF StaysOrYields
<1>15. StackOK(x, frames'[x]) BY Zenon, <1>10 DEF StackOK
<1>16. ReturnOK(x, frames'[x], tf'[x], upc'[x], due'[x], dead'[x]) BY Zenon, <1>10 DEF ReturnOK
<1> QED BY Zenon, <1>11, <1>12, <1>14, <1>15, <1>16, HartStep

-----------------------------------------------------------------------------
(* kerneltrap() and devintr().                                             *)

\* TrPut replaces the top frame.
LEMMA TopPut ==
  ASSUME TrInv, NEW h \in Harts, NEW kind, NEW pc, TrAt(h, kind, pc), NEW g, TrPut(h, g)
  PROVE  LET x == csr[h].cur
         IN  /\ x \in Contexts
             /\ frames' = [frames EXCEPT ![x] = <<g>> \o Tail(frames[x])]
             /\ frames'[x] = <<g>> \o Tail(frames[x])
             /\ frames'[x] # <<>> /\ Head(frames'[x]) = g
<1> DEFINE x == csr[h].cur
           s == frames[x]
<1>1. x \in Contexts /\ StackOK(x, s) /\ s # <<>>
  BY Zenon DEF TrInv, Placed, Stacks, Contexts, TrAt
<1>2. /\ frames' = [frames EXCEPT ![x] = <<g>> \o Tail(s)]
      /\ frames'[x] = <<g>> \o Tail(s)
  BY Zenon, <1>1 DEF TrInv, TrTypes, TrPut
<1>3. ASSUME NEW a, s = <<a>> PROVE <<g>> \o Tail(s) # <<>> /\ Head(<<g>> \o Tail(s)) = g
  <2>1. <<g>> \o Tail(s) = <<g>> BY Zenon, <1>3, SeqOne
  <2> QED BY Zenon, <2>1, SeqOne
<1>4. ASSUME NEW a, NEW b, s = <<a, b>>
      PROVE  <<g>> \o Tail(s) # <<>> /\ Head(<<g>> \o Tail(s)) = g
  <2>1. <<g>> \o Tail(s) = <<g, b>> BY <1>4, SeqTwo
  <2>2. <<g, b>> # <<>> /\ Head(<<g, b>>) = g BY Zenon, SeqTwo
  <2> QED BY Zenon, <2>1, <2>2
<1>5. \/ \E a : s = <<a>>
      \/ \E a, b : s = <<a, b>>
  <2>1. \/ \E a : UserShape(x, s, a)
        \/ \E a, b : BothShape(x, s, a, b)
        \/ \E a : KernShape(x, s, a)
    BY Zenon, <1>1, StackShape
  <2> HIDE DEF x, s
  <2> QED BY Zenon, <2>1 DEF UserShape, BothShape, KernShape
<1>6. <<g>> \o Tail(s) # <<>> /\ Head(<<g>> \o Tail(s)) = g BY Zenon, <1>3, <1>4, <1>5
<1> QED BY Zenon, <1>1, <1>2, <1>6

\* A step of kerneltrap: h gets the registers c, the top frame becomes g.
LEMMA KernMove ==
  ASSUME TrInv, NEW h \in Harts, NEW pc, TrAt(h, "kern", pc),
         NEW c \in Csrs, csr' = [csr EXCEPT ![h] = c],
         NEW g, KernOK(csr[h].cur, Len(frames[csr[h].cur]) - 1, g), TrPut(h, g),
         UNCHANGED <<tf, upc, due, dead, trPanic>>, ClaimsStay(h),
         \/ /\ c.cur = csr[h].cur /\ trReady' = trReady
            /\ KernRegs(c, g, Len(frames[csr[h].cur]) - 1)
         \/ /\ csr[h].cur \in TrProcs /\ trReady' = trReady \cup {csr[h].cur}
            /\ g.pc = "restore" /\ c.cur = h /\ c.sie /\ c.stvec = "kernelvec"
  PROVE  TrInv'
<1> DEFINE x == csr[h].cur
           t == <<g>> \o Tail(frames[x])
<1>1. x \in Contexts /\ frames' = [frames EXCEPT ![x] = t] BY Zenon, TopPut
<1> HIDE DEF t
<1>2. OthersStay(h) /\ csr'[h] = c /\ frames'[x] = t BY Zenon, <1>1, Kept
<1>3. frames'[x] = <<g>> \o Tail(frames[x]) BY Zenon, <1>2 DEF t
<1> HIDE DEF x
<1>4. UNCHANGED <<tf, upc, due, dead>> BY Zenon
<1> QED BY ZenonT(30), <1>2, <1>3, <1>4, KernStep DEF x

\* A step of devintr, in either kind of trap.
LEMMA DevMove ==
  ASSUME TrInv, NEW h \in Harts, NEW kind \in {"user", "kern"}, NEW pc \in {"dev", "serve"},
         TrAt(h, kind, pc), NEW c \in Csrs, csr' = [csr EXCEPT ![h] = c],
         c.cur = csr[h].cur, c.stvec = csr[h].stvec, c.sie = csr[h].sie,
         NEW g \in TrFrames, g.kind = kind, g.pc \in {"serve", "after"},
         g.sepc = TrTop(h).sepc, TrPut(h, g),
         UNCHANGED <<tf, userVars, trReady, trPanic>>, ClaimsStay(h)
  PROVE  TrInv'
<1> DEFINE x == csr[h].cur
           n == Len(frames[x]) - 1
<1>1. UNCHANGED <<tf, upc, due, dead, trPanic>> /\ trReady' = trReady BY Zenon DEF userVars
<1>2. pc # "entry" /\ pc # "after" /\ g.pc # "entry" BY Zenon
<1>3. CASE kind = "user"
  <2>1. TrAt(h, "user", pc) BY Zenon, <1>3
  <2>2. UserOK(g) BY Zenon, <1>3 DEF UserOK, UserPoints
  <2>3. UserRegs(csr[h], TrTop(h), upc[x], due[x]) /\ TrTop(h).pc = pc
    BY Zenon, <2>1, UserFrame
  <2>4. ~csr[h].sie /\ csr[h].stvec = "kernelvec" BY Zenon, <2>3 DEF UserRegs
  <2>5. UserRegs(c, g, upc[x], due[x]) BY Zenon, <2>4 DEF UserRegs
  <2> QED BY ZenonT(30), <1>1, <1>2, <2>1, <2>2, <2>5, UserMove
<1>4. CASE kind = "kern"
  <2>1. TrAt(h, "kern", pc) BY Zenon, <1>4
  <2>2. KernOK(x, n, TrTop(h)) /\ TrTop(h).pc = pc /\ KernRegs(csr[h], TrTop(h), n)
    BY Zenon, <2>1, KernAt
  <2> HIDE DEF n
  <2>3. KernOK(x, n, g) BY Zenon, <1>4, <2>2 DEF KernOK, KernPoints
  <2>4. KernRegs(c, g, n) BY Zenon, <2>2 DEF KernRegs
  <2> QED BY ZenonT(30), <1>1, <2>1, <2>3, <2>4, KernMove DEF n
<1> QED BY Zenon, <1>3, <1>4

\* The frame and the registers at a step of devintr.
LEMMA DevFrame ==
  ASSUME TrInv, NEW h \in Harts, NEW kind \in {"user", "kern"}, NEW pc, TrAt(h, kind, pc)
  PROVE  /\ TrTop(h) \in TrFrames /\ TrTop(h).kind = kind /\ TrTop(h).pc = pc
         /\ csr \in [Harts -> Csrs] /\ csr[h] \in Csrs
         /\ frames[csr[h].cur] # <<>> /\ Head(frames[csr[h].cur]) = TrTop(h)
<1>1. CASE kind = "user" BY Zenon, <1>1, UserFrame
<1>2. CASE kind = "kern"
  <2>1. TrAt(h, "kern", pc) BY Zenon, <1>2
  <2> QED BY Zenon, <1>2, <2>1, KernAt DEF KernOK, TrInv, TrTypes
<1> QED BY Zenon, <1>1, <1>2

\* The frame when devintr returns w.
LEMMA DevReturns ==
  ASSUME NEW f \in TrFrames, NEW w \in 0 .. 2
  PROVE  /\ LET g == [f EXCEPT !.pc = "after", !.which = w]
            IN  g \in TrFrames /\ g.kind = f.kind /\ g.pc = "after" /\ g.sepc = f.sepc
         /\ LET g == [f EXCEPT !.pc = "after", !.which = w, !.cause = "ext"]
            IN  g \in TrFrames /\ g.kind = f.kind /\ g.pc = "after" /\ g.sepc = f.sepc
<1>1. "after" \in UserPoints \cup KernPoints BY Zenon DEF UserPoints
<1> QED BY Zenon, <1>1 DEF TrFrames

LEMMA DevTimerInv ==
  ASSUME TrInv, NEW h \in Harts, NEW kind \in {"user", "kern"}, DevTimer(h, kind)
  PROVE  TrInv'
<1> DEFINE g == [TrTop(h) EXCEPT !.pc = "after", !.which = 2]
           c == [csr[h] EXCEPT !.sip = FALSE]
<1>1. TrAt(h, kind, "dev") BY Zenon DEF DevTimer
<1>2. /\ TrTop(h) \in TrFrames /\ TrTop(h).kind = kind /\ TrTop(h).pc = "dev"
      /\ csr \in [Harts -> Csrs] /\ csr[h] \in Csrs
      /\ frames[csr[h].cur] # <<>> /\ Head(frames[csr[h].cur]) = TrTop(h)
  BY Zenon, <1>1, DevFrame
<1>3. g \in TrFrames /\ g.kind = kind /\ g.pc = "after" /\ g.sepc = TrTop(h).sepc
  <2>1. 2 \in 0 .. 2 OBVIOUS
  <2> QED BY Zenon, <1>2, <2>1, DevReturns
<1>4. /\ csr' = [csr EXCEPT ![h] = c] /\ c \in Csrs /\ c.cur = csr[h].cur
      /\ c.stvec = csr[h].stvec /\ c.sie = csr[h].sie
  BY Zenon, <1>2 DEF DevTimer, Csrs
<1>5. ClaimsStay(h) BY Zenon, <1>2, KeptClaims DEF DevTimer
<1>6. TrPut(h, g) /\ UNCHANGED <<tf, userVars, trReady, trPanic>> BY Zenon DEF DevTimer
<1>7. "dev" \in {"dev", "serve"} /\ g.pc \in {"serve", "after"} BY Zenon, <1>3
<1> HIDE DEF g, c
<1> QED BY ZenonT(30), <1>1, <1>3, <1>4, <1>5, <1>6, <1>7, DevMove

\* plic_claim: the interrupt is served by h, or another CPU has it.
LEMMA DevClaimInv ==
  ASSUME TrInv, NEW h \in Harts, NEW kind \in {"user", "kern"}, DevClaim(h, kind)
  PROVE  TrInv'
<1>1. TrAt(h, kind, "dev") BY Zenon DEF DevClaim
<1>2. /\ TrTop(h) \in TrFrames /\ TrTop(h).kind = kind /\ TrTop(h).pc = "dev"
      /\ csr \in [Harts -> Csrs] /\ csr[h] \in Csrs
      /\ frames[csr[h].cur] # <<>> /\ Head(frames[csr[h].cur]) = TrTop(h)
  BY Zenon, <1>1, DevFrame
<1>3. UNCHANGED <<tf, userVars, trReady, trPanic>> BY Zenon DEF DevClaim
<1>4. csr' = [csr EXCEPT ![h] = csr[h]] BY Zenon, <1>2 DEF DevClaim
<1>5. "dev" \in {"dev", "serve"} BY Zenon
<1>6. CASE plic.pending = {}
  <2> DEFINE g == [TrTop(h) EXCEPT !.pc = "after", !.which = 1]
  <2>1. /\ g \in TrFrames /\ g.kind = kind /\ g.pc \in {"serve", "after"}
        /\ g.sepc = TrTop(h).sepc
    <3>1. 1 \in 0 .. 2 OBVIOUS
    <3>2. g \in TrFrames /\ g.kind = kind /\ g.pc = "after" /\ g.sepc = TrTop(h).sepc
      BY Zenon, <1>2, <3>1, DevReturns
    <3> QED BY Zenon, <3>2
  <2>2. TrPut(h, g) /\ plic' = plic BY Zenon, <1>6 DEF DevClaim
  <2>3. ClaimsStay(h) BY Zenon, <1>2, <2>2, KeptClaims
  <2> HIDE DEF g
  <2> QED BY ZenonT(30), <1>1, <1>2, <1>3, <1>4, <1>5, <2>1, <2>2, <2>3, DevMove
<1>7. CASE plic.pending # {}
  <2>1. PICK i \in plic.pending :
          /\ plic' = [pending |-> plic.pending \ {i}, claimed |-> plic.claimed \cup {i}]
          /\ TrPut(h, [TrTop(h) EXCEPT !.pc = "serve", !.cause = i])
    BY Zenon, <1>7 DEF DevClaim
  <2> DEFINE g == [TrTop(h) EXCEPT !.pc = "serve", !.cause = i]
  <2>2. i \in Irqs /\ plic \in [pending : SUBSET Irqs, claimed : SUBSET Irqs]
    BY Zenon, <2>1 DEF TrInv, TrTypes
  <2>3. /\ g \in TrFrames /\ g.kind = kind /\ g.pc \in {"serve", "after"}
        /\ g.sepc = TrTop(h).sepc /\ g.pc = "serve" /\ g.cause = i
    BY Zenon, <1>2, <2>2 DEF TrFrames, UserPoints
  <2>4. TrPut(h, g) BY Zenon, <2>1
  <2> HIDE DEF g
  <2>5. Serves(frames'[csr[h].cur], i)
    <3>1. frames'[csr[h].cur] # <<>> /\ Head(frames'[csr[h].cur]) = g
      BY Zenon, <1>1, <2>4, TopPut
    <3> QED BY Zenon, <2>3, <3>1 DEF Serves
  <2>6. \A j : ~Serves(frames[csr[h].cur], j) BY Zenon, <1>2 DEF Serves
  <2>7. csr'[h].cur = csr[h].cur BY Zenon, <1>2, <1>4
  <2>8. ClaimsStay(h) BY Zenon, <2>1, <2>2, <2>5, <2>6, <2>7 DEF ClaimsStay
  <2> QED BY ZenonT(30), <1>1, <1>2, <1>3, <1>4, <1>5, <2>3, <2>4, <2>8, DevMove
<1> QED BY Zenon, <1>6, <1>7

LEMMA DevCompleteInv ==
  ASSUME TrInv, NEW h \in Harts, NEW kind \in {"user", "kern"}, DevComplete(h, kind)
  PROVE  TrInv'
<1> DEFINE g == [TrTop(h) EXCEPT !.pc = "after", !.which = 1, !.cause = "ext"]
<1>1. TrAt(h, kind, "serve") BY Zenon DEF DevComplete
<1>2. /\ TrTop(h) \in TrFrames /\ TrTop(h).kind = kind /\ TrTop(h).pc = "serve"
      /\ csr \in [Harts -> Csrs] /\ csr[h] \in Csrs
      /\ frames[csr[h].cur] # <<>> /\ Head(frames[csr[h].cur]) = TrTop(h)
  BY Zenon, <1>1, DevFrame
<1>3. UNCHANGED <<tf, userVars, trReady, trPanic>> /\ TrPut(h, g) BY Zenon DEF DevComplete
<1>4. csr' = [csr EXCEPT ![h] = csr[h]] BY Zenon, <1>2 DEF DevComplete
<1>5. "serve" \in {"dev", "serve"} BY Zenon
<1>6. /\ g \in TrFrames /\ g.kind = kind /\ g.pc \in {"serve", "after"}
      /\ g.sepc = TrTop(h).sepc
  <2>1. 1 \in 0 .. 2 OBVIOUS
  <2>2. g \in TrFrames /\ g.kind = kind /\ g.pc = "after" /\ g.sepc = TrTop(h).sepc
    BY Zenon, <1>2, <2>1, DevReturns
  <2> QED BY Zenon, <2>2
<1>7. ClaimsStay(h)
  <2>1. plic' = [plic EXCEPT !.claimed = @ \ {TrTop(h).cause}] BY Zenon
      DEF DevComplete, plic_complete
  <2>2. plic \in [pending : SUBSET Irqs, claimed : SUBSET Irqs] BY Zenon DEF TrInv, TrTypes
  <2>3. /\ plic' \in [pending : SUBSET Irqs, claimed : SUBSET Irqs]
        /\ plic'.claimed = plic.claimed \ {TrTop(h).cause}
    BY Zenon, <2>1, <2>2
  <2>4. ASSUME NEW i \in plic'.claimed
        PROVE  i \in plic.claimed /\ ~Serves(frames[csr[h].cur], i)
    BY Zenon, <1>2, <2>3, <2>4 DEF Serves
  <2> QED BY Zenon, <2>3, <2>4 DEF ClaimsStay
<1> HIDE DEF g
<1> QED BY ZenonT(30), <1>1, <1>2, <1>3, <1>4, <1>5, <1>6, <1>7, DevMove

LEMMA kerneltrapInv ==
  ASSUME TrInv, NEW h \in Harts, kerneltrap(h)
  PROVE  TrInv'
<1> DEFINE x == csr[h].cur
           f == TrTop(h)
           n == Len(frames[x]) - 1
           g == [f EXCEPT !.pc = "dev", !.sepc = csr[h].sepc]
<1>1. TrAt(h, "kern", "entry") BY Zenon DEF kerneltrap
<1>2. /\ csr[h] \in Csrs /\ frames[x] # <<>> /\ Head(frames[x]) = f
      /\ KernOK(x, n, f) /\ f.kind = "kern" /\ f.pc = "entry" /\ KernRegs(csr[h], f, n)
  BY Zenon, <1>1, KernAt
<1>3. TrPut(h, g) BY Zenon DEF kerneltrap
<1>4. trPanic' = (csr[h].spp # "S" \/ csr[h].sie \/ f.cause \notin {"timer", "ext"})
  BY Zenon DEF kerneltrap
<1> HIDE DEF f, n, x
<1>5. /\ csr[h].spp = "S" /\ csr[h].sepc = <<csr[h].cur, n, 0>> /\ ~csr[h].sie
      /\ csr[h].stvec = "kernelvec" /\ f.cause \in {"timer", "ext"} /\ f \in TrFrames
  BY Zenon, <1>2 DEF KernOK, KernRegs
<1>6. trPanic' = trPanic BY Zenon, <1>4, <1>5 DEF TrInv, TrTypes
<1>7. csr[h].sepc \in TrPlaces BY Zenon, <1>2 DEF Csrs
<1>8. g \in TrFrames /\ g.kind = "kern" /\ g.pc = "dev" /\ g.sepc = csr[h].sepc
  <2>1. "dev" \in UserPoints \cup KernPoints BY Zenon DEF UserPoints
  <2> QED BY Zenon, <1>2, <1>5, <1>7, <2>1 DEF TrFrames
<1>9. KernOK(x, n, g) BY Zenon, <1>5, <1>8 DEF KernOK, KernPoints, x
<1>10. KernRegs(csr[h], g, n) BY Zenon, <1>5, <1>8 DEF KernRegs
<1>11. csr' = [csr EXCEPT ![h] = csr[h]] BY Zenon DEF kerneltrap, TrInv, TrTypes
<1>12. UNCHANGED <<tf, upc, due, dead, trPanic>> /\ trReady' = trReady
  BY Zenon, <1>6 DEF kerneltrap, userVars
<1>13. ClaimsStay(h)
  <2>1. plic' = plic BY Zenon DEF kerneltrap
  <2>2. frames[csr[h].cur] # <<>> => Head(frames[csr[h].cur]).pc # "serve" BY Zenon, <1>2 DEF x
  <2> QED BY Zenon, <2>1, <2>2, KeptClaims
<1> HIDE DEF g
<1> QED BY ZenonT(30), <1>1, <1>2, <1>3, <1>9, <1>10, <1>11, <1>12, <1>13, KernMove DEF x, n

LEMMA KernAfterInv ==
  ASSUME TrInv, NEW h \in Harts, KernAfter(h)
  PROVE  TrInv'
<1> DEFINE x == csr[h].cur
           f == TrTop(h)
           n == Len(frames[x]) - 1
           g == [f EXCEPT !.pc = "restore"]
           y == [csr[h] EXCEPT !.cur = h, !.sie = TRUE]
<1>1. TrAt(h, "kern", "after") BY Zenon DEF KernAfter
<1>2. /\ csr[h] \in Csrs /\ frames[x] # <<>> /\ Head(frames[x]) = f
      /\ KernOK(x, n, f) /\ f.kind = "kern" /\ f.pc = "after" /\ KernRegs(csr[h], f, n)
  BY Zenon, <1>1, KernAt
<1>3. TrPut(h, g) BY Zenon DEF KernAfter, TrLeave, TrGoto
<1> HIDE DEF f, n
<1>4. g \in TrFrames /\ g.kind = "kern" /\ g.pc = "restore" /\ g.sepc = f.sepc
  <2>1. "restore" \in UserPoints \cup KernPoints BY Zenon DEF KernPoints
  <2>2. f \in TrFrames BY Zenon, <1>2 DEF KernOK
  <2> QED BY Zenon, <1>2, <2>1, <2>2, FrameGoto
<1>5. KernOK(x, n, g) BY Zenon, <1>2, <1>4 DEF KernOK, KernPoints
<1>6. KernRegs(csr[h], g, n) /\ csr[h].stvec = "kernelvec" BY Zenon, <1>2, <1>4 DEF KernRegs
<1>7. UNCHANGED <<tf, upc, due, dead, trPanic>> BY Zenon DEF KernAfter, userVars
<1>8. ClaimsStay(h)
  <2>1. plic' = plic BY Zenon DEF KernAfter
  <2> QED BY Zenon, <1>2, <2>1, KeptClaims
<1>9. csr \in [Harts -> Csrs] BY Zenon DEF TrInv, TrTypes
<1>10. CASE UNCHANGED <<trReady, csr>>
  <2>1. csr' = [csr EXCEPT ![h] = csr[h]] /\ trReady' = trReady BY Zenon, <1>9, <1>10
  <2> HIDE DEF g
  <2> QED BY ZenonT(30), <1>1, <1>2, <1>3, <1>5, <1>6, <1>7, <1>8, <2>1, KernMove DEF n
<1>11. CASE /\ x \in TrProcs /\ trReady' = trReady \cup {x}
            /\ csr' = [csr EXCEPT ![h].cur = h, ![h].sie = TRUE]
  <2>1. csr' = [csr EXCEPT ![h] = y] BY Zenon, <1>9, <1>11
  <2>2. y \in Csrs /\ y.cur = h /\ y.sie /\ y.stvec = "kernelvec"
    BY Zenon, <1>2, <1>6 DEF Csrs, Contexts
  <2> HIDE DEF g, y
  <2> QED BY ZenonT(30), <1>1, <1>3, <1>4, <1>5, <1>7, <1>8, <1>11, <2>1, <2>2, KernMove DEF n
<1> QED BY Zenon, <1>10, <1>11 DEF KernAfter, TrLeave

\* sepc and sstatus get what the trap found, whatever other traps the CPU has
\* served since, or whichever CPU this is.
LEMMA KernRestoreInv ==
  ASSUME TrInv, NEW h \in Harts, KernRestore(h)
  PROVE  TrInv'
<1> DEFINE x == csr[h].cur
           f == TrTop(h)
           n == Len(frames[x]) - 1
           g == [f EXCEPT !.pc = "sret"]
           c == [csr[h] EXCEPT !.sepc = f.sepc, !.spp = "S"]
<1>1. TrAt(h, "kern", "restore") BY Zenon DEF KernRestore
<1>2. /\ csr[h] \in Csrs /\ frames[x] # <<>> /\ Head(frames[x]) = f
      /\ KernOK(x, n, f) /\ f.kind = "kern" /\ f.pc = "restore" /\ KernRegs(csr[h], f, n)
  BY Zenon, <1>1, KernAt
<1>3. TrPut(h, g) BY Zenon DEF KernRestore, TrGoto
<1>4. csr \in [Harts -> Csrs] BY DEF TrInv, TrTypes
<1>5. csr' = [csr EXCEPT ![h].sepc = f.sepc, ![h].spp = "S"] BY Zenon DEF KernRestore, Restored
<1> HIDE DEF f, n
<1>6. csr' = [csr EXCEPT ![h] = c] BY Zenon, <1>4, <1>5
<1>7. f \in TrFrames /\ f.sepc = <<x, n, 0>> /\ f.sepc \in TrPlaces
  BY Zenon, <1>2 DEF KernOK, TrFrames
<1>8. g \in TrFrames /\ g.kind = "kern" /\ g.pc = "sret" /\ g.sepc = f.sepc
  <2>1. "sret" \in UserPoints \cup KernPoints BY Zenon DEF KernPoints
  <2> QED BY Zenon, <1>2, <1>7, <2>1, FrameGoto
<1>9. KernOK(x, n, g) BY Zenon, <1>7, <1>8 DEF KernOK, KernPoints
<1>10. /\ c \in Csrs /\ c.cur = x /\ c.stvec = csr[h].stvec /\ c.sie = csr[h].sie
       /\ c.sepc = f.sepc /\ c.spp = "S"
  BY Zenon, <1>2, <1>7 DEF Csrs
<1>11. KernRegs(c, g, n) BY Zenon, <1>2, <1>7, <1>10 DEF KernRegs
<1>12. UNCHANGED <<tf, upc, due, dead, trPanic>> /\ trReady' = trReady
  BY Zenon DEF KernRestore, userVars
<1>13. ClaimsStay(h)
  <2>1. plic' = plic BY Zenon DEF KernRestore
  <2> QED BY Zenon, <1>2, <2>1, KeptClaims
<1> HIDE DEF g, c
<1> QED BY ZenonT(30), <1>1, <1>3, <1>6, <1>9, <1>10, <1>11, <1>12, <1>13, KernMove DEF n

\* sret of kerneltrap: back to the scheduler's loop, or into the trap below.
LEMMA KernSretInv ==
  ASSUME TrInv, NEW h \in Harts, KernSret(h)
  PROVE  TrInv'
<1> DEFINE x == csr[h].cur
           s == frames[x]
           c == [csr[h] EXCEPT !.sie = TRUE]
<1>1. TrAt(h, "kern", "sret") BY Zenon DEF KernSret
<1>2. /\ x \in TrProcs \cup {h} /\ x \in Contexts /\ csr[h] \in Csrs
      /\ s # <<>> /\ Head(s) = TrTop(h) /\ StackOK(x, s)
      /\ TrTop(h).kind = "kern" /\ TrTop(h).pc = "sret"
      /\ KernRegs(csr[h], TrTop(h), Len(s) - 1)
  BY Zenon, <1>1, KernAt
<1>3. /\ x \in Harts => Tail(s) = <<>>
      /\ x \in TrProcs => /\ Tail(s) = <<s[2]>> /\ UserOK(s[2]) /\ Len(s) = 2
                          /\ s[2].pc \in {"sys", "after", "ret"}
  <2>1. Head(s).kind = "kern" BY Zenon, <1>2
  <2> QED BY Zenon, <1>2, <2>1, KernStack
<1>4. csr \in [Harts -> Csrs] /\ csr[h].stvec = "kernelvec"
  BY Zenon, <1>2 DEF KernRegs, TrInv, TrTypes
<1>5. csr' = [csr EXCEPT ![h] = c] BY Zenon, <1>4 DEF KernSret
<1>6. c \in Csrs /\ c.cur = x /\ c.sie /\ c.stvec = "kernelvec" BY Zenon, <1>2, <1>4 DEF Csrs
<1>7. frames' = [frames EXCEPT ![x] = Tail(s)]
  BY Zenon, <1>2 DEF KernSret, TrInv, TrTypes
<1>8. UNCHANGED <<tf, upc, due, dead, trPanic>> /\ trReady' = trReady
  BY Zenon DEF KernSret, userVars
<1> HIDE DEF c
<1>9. OthersStay(h) /\ csr'[h] = c /\ frames'[x] = Tail(s)
  BY Zenon, <1>2, <1>5, <1>6, <1>7, <1>8, Kept
<1>10. ClaimsStay(h)
  <2>1. plic' = plic BY Zenon DEF KernSret
  <2> QED BY Zenon, <1>2, <2>1, KeptClaims
<1>11. CASE x \in TrProcs
  <2> DEFINE b == s[2]
  <2>1. frames'[x] = <<b>> /\ UserOK(b) BY Zenon, <1>3, <1>9, <1>11
  <2>2. ReturnOK(x, s, tf[x], upc[x], due[x], dead[x]) BY Zenon, <1>11 DEF TrInv, Returns
  <2>3. b.pc # "entry" /\ (~(b.pc = "after" /\ dead[x]) => tf[x] = <<x, 0, due[x]>>)
    BY Zenon, <1>2, <1>3, <1>11, <2>2 DEF ReturnOK
  <2>4. b.pc \in {"sys", "after", "ret"} /\ b.kind = "user" BY Zenon, <1>3, <1>11 DEF UserOK
  <2> HIDE DEF b
  <2>5. /\ StackOK(x, <<b>>) /\ <<b>> # <<>> /\ Head(<<b>>) = b /\ Len(<<b>>) = 1
        /\ <<b>>[1] = b
    BY Zenon, <1>11, <2>1, OneFrame
  <2>6. ReturnOK(x, frames'[x], tf'[x], upc'[x], due'[x], dead'[x])
    BY Zenon, <1>8, <2>1, <2>3, <2>5 DEF ReturnOK
  <2>7. UserRegs(c, b, upc[x], due[x]) BY Zenon, <1>6, <2>4 DEF UserRegs
  <2>8. RegsAt(h)' BY Zenon, <1>6, <1>8, <1>9, <1>11, <2>1, <2>4, <2>5, <2>7
                      DEF RegsAt, RegsOK, Upc, Due
  <2>9. StaysOrYields(h) BY Zenon, <1>6, <1>8, <1>9, <2>8 DEF StaysOrYields
  <2>10. StackOK(x, frames'[x]) BY Zenon, <2>1, <2>5
  <2> QED BY Zenon, <1>9, <1>10, <2>6, <2>9, <2>10, HartStep
<1>12. CASE x = h
  <2>1. frames'[x] = <<>> /\ x \notin TrProcs BY Zenon, <1>3, <1>9, <1>12, TrAssumption
  <2>2. RegsAt(h)' BY Zenon, <1>6, <1>9, <1>12, <2>1 DEF RegsAt, RegsOK
  <2>3. StaysOrYields(h) BY <1>6, <1>8, <1>9, <2>2 DEF StaysOrYields
  <2>4. StackOK(x, frames'[x]) BY Zenon, <2>1 DEF StackOK
  <2> QED BY Zenon, <1>9, <1>10, <2>1, <2>3, <2>4, HartStep
<1> QED BY Zenon, <1>2, <1>11, <1>12

\* The scheduler runs a process that waits.
LEMMA DispatchInv ==
  ASSUME TrInv, NEW h \in Harts, Dispatch(h)
  PROVE  TrInv'
<1>1. PICK x \in trReady :
        /\ trReady' = trReady \ {x}
        /\ csr' = [csr EXCEPT ![h].cur = x, ![h].sie = Head(frames[x]).pc = "sys"]
  BY Zenon DEF Dispatch
<1> DEFINE on == Head(frames[x]).pc = "sys"
           c == [csr[h] EXCEPT !.cur = x, !.sie = on]
<1>2. /\ csr[h].cur = h /\ frames[h] = <<>> BY Zenon DEF Dispatch
<1>3. UNCHANGED <<frames, tf, upc, due, dead, plic, trPanic>> BY Zenon DEF Dispatch, userVars
<1>4. x \in TrProcs /\ x \in Contexts /\ x # h /\ ReadyOK(frames[x]) /\ StackOK(x, frames[x])
  BY Zenon, TrAssumption DEF TrInv, TrTypes, Waiting, Stacks, Contexts
<1>5. csr \in [Harts -> Csrs] /\ csr[h] \in Csrs /\ csr[h].stvec = "kernelvec"
  <2>1. RegsAt(h) BY Zenon DEF TrInv, Registers
  <2>2. csr \in [Harts -> Csrs] BY Zenon DEF TrInv, TrTypes
  <2> QED BY Zenon, <1>2, <2>1, <2>2 DEF RegsAt, RegsOK
<1>6. on \in BOOLEAN BY Zenon
<1>7. csr' = [csr EXCEPT ![h] = c] BY Zenon, <1>1, <1>5
<1>8. c \in Csrs /\ c.cur = x /\ c.sie = on /\ c.stvec = "kernelvec"
  <2> HIDE DEF on
  <2> QED BY Zenon, <1>4, <1>5, <1>6 DEF Csrs
<1> HIDE DEF c
<1>9. csr' \in [Harts -> Csrs] /\ csr'[h] = c /\ \A g \in Harts : g # h => csr'[g] = csr[g]
  BY Zenon, <1>5, <1>7, <1>8
<1>10. TrTypes' BY Zenon, <1>1, <1>3, <1>9 DEF TrInv, TrTypes
<1>11. Placed' BY <1>1, <1>2, <1>3, <1>4, <1>8, <1>9 DEF TrInv, Placed, TrTypes
<1>12. Stacks' /\ Returns' /\ Waiting' BY Zenon, <1>1, <1>3 DEF TrInv, Stacks, Returns, Waiting
<1>13. RegsAt(h)'
  <2>1. frames[x] # <<>> BY Zenon, <1>4 DEF ReadyOK
  <2>2. CASE Head(frames[x]).kind = "user"
    <3>1. Head(frames[x]).pc \in {"sys", "ret"} BY Zenon, <1>4, <2>2 DEF ReadyOK
    <3>2. UserRegs(c, Head(frames[x]), upc[x], due[x]) BY Zenon, <1>8, <3>1 DEF UserRegs
    <3> QED BY Zenon, <1>3, <1>4, <1>8, <1>9, <2>1, <2>2, <3>2 DEF RegsAt, RegsOK, Upc, Due
  <2>3. CASE Head(frames[x]).kind # "user"
    <3>1. Head(frames[x]).pc = "restore" BY Zenon, <1>4, <2>3 DEF ReadyOK
    <3>2. KernRegs(c, Head(frames[x]), Len(frames[x]) - 1) BY Zenon, <1>8, <3>1 DEF KernRegs
    <3> QED BY Zenon, <1>3, <1>8, <1>9, <2>1, <2>3, <3>2 DEF RegsAt, RegsOK
  <2> QED BY Zenon, <2>2, <2>3
<1>14. Registers'
  <2>1. ASSUME NEW g \in Harts, g # h PROVE RegsAt(g)'
    <3>1. RegsAt(g) BY Zenon DEF TrInv, Registers
    <3> QED BY Zenon, <1>3, <1>9, <2>1, <3>1 DEF RegsAt, Upc, Due
  <2> QED BY Zenon, <1>13, <2>1 DEF Registers
<1>15. Served'
  <2>1. ASSUME NEW i \in plic.claimed PROVE \E g \in Harts : Serves(frames[csr'[g].cur], i)
    <3>1. PICK g \in Harts : Serves(frames[csr[g].cur], i) BY Zenon DEF TrInv, Served
    <3>2. g # h BY Zenon, <1>2, <3>1 DEF Serves
    <3> QED BY Zenon, <1>9, <3>1, <3>2
  <2> QED BY Zenon, <1>3, <2>1 DEF Served
<1> QED BY Zenon, <1>10, <1>11, <1>12, <1>14, <1>15 DEF TrInv

-----------------------------------------------------------------------------
(* The hardware, and other CPUs' writes.                                   *)

\* A new frame of a trap.
LEMMA EntryFrame ==
  ASSUME NEW kind \in {"user", "kern"}, NEW cause \in {"timer", "ext", "ecall", "fault"}
  PROVE  LET g == [TrFrame(kind, "entry") EXCEPT !.cause = cause]
         IN  g \in TrFrames /\ g.kind = kind /\ g.pc = "entry" /\ g.cause = cause
BY DEF TrFrame, TrFrames, UserPoints, TrPlaces

\* A trap from user space: stvec holds uservec there.
LEMMA UserTraps ==
  ASSUME TrInv, NEW h \in Harts, NEW cause, TakeTrap(h, cause), InUser(h)
  PROVE  TrInv'
<1> DEFINE x == csr[h].cur
           g == [TrFrame("user", "entry") EXCEPT !.cause = cause]
           c == [csr[h] EXCEPT !.sie = FALSE, !.sepc = <<x, 0, upc[x]>>, !.spp = "U"]
<1>1. x \in TrProcs /\ x \in Contexts /\ x # h /\ frames[x] = <<>> /\ RegsAt(h)
  BY Zenon, TrAssumption DEF InUser, Contexts, TrInv, Registers
<1>2. csr \in [Harts -> Csrs] /\ csr[h] \in Csrs /\ csr[h].stvec = "uservec"
  <2>1. csr \in [Harts -> Csrs] BY Zenon DEF TrInv, TrTypes
  <2> QED BY Zenon, <1>1, <2>1 DEF RegsAt, RegsOK
<1>3. upc[x] \in 0 .. 1 /\ due[x] = upc[x]
  BY Zenon, <1>1 DEF TrInv, TrTypes, Returns, ReturnOK
<1>4. cause \in {"timer", "ext", "ecall", "fault"} BY Zenon DEF TakeTrap, Causes
<1>5. g \in TrFrames /\ g.kind = "user" /\ g.pc = "entry" /\ g.cause = cause
  BY Zenon, <1>4, EntryFrame
<1>6. Here(h) = <<x, 0, upc[x]>>
  <2>1. Len(frames[x]) = 0 BY <1>1
  <2> QED BY Zenon, <2>1 DEF Here
<1>7. csr' = [csr EXCEPT ![h] = c] BY Zenon, <1>2, <1>6 DEF TakeTrap
<1>8. <<x, 0, upc[x]>> \in TrPlaces BY <1>1, <1>3 DEF TrPlaces
<1>9. /\ c \in Csrs /\ c.cur = x /\ ~c.sie /\ c.stvec = "uservec" /\ c.spp = "U"
      /\ c.sepc = <<x, 0, upc[x]>>
  BY Zenon, <1>2, <1>8 DEF Csrs
<1>10. frames' = [frames EXCEPT ![x] = <<g>> \o frames[x]]
  BY Zenon, <1>1, <1>2 DEF TakeTrap, TrInv, TrTypes
<1> HIDE DEF c, g
<1>11. <<g>> \o <<>> = <<g>>
  <2>1. Tail(<<g>>) = <<>> /\ <<g>> \o Tail(<<g>>) = <<g>> BY Zenon, SeqOne
  <2> QED BY Zenon, <2>1
<1>12. frames' = [frames EXCEPT ![x] = <<g>>] BY Zenon, <1>1, <1>10, <1>11
<1>13. due' = [due EXCEPT ![x] = IF cause = "ecall" THEN 1 - upc[x] ELSE upc[x]]
  BY Zenon, <1>1, <1>3 DEF TakeTrap, TrInv, TrTypes
<1>14. /\ due' \in [TrProcs -> 0 .. 1] /\ \A p \in TrProcs : p # x => due'[p] = due[p]
       /\ due'[x] = IF cause = "ecall" THEN 1 - upc[x] ELSE upc[x]
  BY <1>1, <1>3, <1>13 DEF TrInv, TrTypes
<1>15. UNCHANGED <<tf, upc, dead, trReady, plic, trPanic>> BY Zenon DEF TakeTrap
<1>16. csr' \in [Harts -> Csrs] /\ csr'[h] = c /\ \A k \in Harts : k # h => csr'[k] = csr[k]
  BY Zenon, <1>2, <1>7, <1>9
<1>17. /\ DOMAIN frames' = Contexts /\ frames'[x] = <<g>>
       /\ \A k \in Contexts : k # x => frames'[k] = frames[k]
  BY Zenon, <1>1, <1>12 DEF TrInv, TrTypes
<1>18. OthersStay(h) BY Zenon, <1>14, <1>15, <1>16, <1>17 DEF OthersStay, TrInv, TrTypes
<1>19. UserOK(g) BY Zenon, <1>5 DEF UserOK, UserPoints
<1>20. /\ StackOK(x, <<g>>) /\ <<g>> # <<>> /\ Head(<<g>>) = g /\ Len(<<g>>) = 1
       /\ <<g>>[1] = g
  BY Zenon, <1>1, <1>19, OneFrame
<1>21. ReturnOK(x, frames'[x], tf'[x], upc'[x], due'[x], dead'[x])
  BY Zenon, <1>5, <1>17, <1>20 DEF ReturnOK
<1>22. UserRegs(c, g, upc'[x], due'[x])
  BY Zenon, <1>5, <1>9, <1>14, <1>15 DEF UserRegs
<1>23. RegsAt(h)' BY <1>1, <1>5, <1>9, <1>16, <1>17, <1>20, <1>22 DEF RegsAt, RegsOK, Upc, Due
<1>24. StaysOrYields(h) BY Zenon, <1>9, <1>15, <1>16, <1>23 DEF StaysOrYields
<1>25. ClaimsStay(h) BY Zenon, <1>1, <1>15, KeptClaims
<1>26. StackOK(x, frames'[x]) BY Zenon, <1>17, <1>20
<1> QED BY Zenon, <1>18, <1>21, <1>24, <1>25, <1>26, HartStep

\* An interrupt of the kernel, where interrupts are on: of the scheduler, or of
\* usertrap and usertrapret at the points where they have them on.
LEMMA KernTraps ==
  ASSUME TrInv, NEW h \in Harts, NEW cause, TakeTrap(h, cause), ~InUser(h)
  PROVE  TrInv'
<1> DEFINE x == csr[h].cur
           s == frames[x]
           g == [TrFrame("kern", "entry") EXCEPT !.cause = cause]
           c == [csr[h] EXCEPT !.sie = FALSE, !.sepc = <<x, Len(s), 0>>, !.spp = "S"]
<1>1. /\ x \in TrProcs \cup {h} /\ x \in Contexts /\ RegsAt(h) /\ StackOK(x, s) /\ csr[h].sie
      /\ csr \in [Harts -> Csrs] /\ csr[h] \in Csrs
  BY Zenon DEF TakeTrap, Contexts, TrInv, Registers, Placed, Stacks, TrTypes
<1>2. cause \in {"timer", "ext"} BY Zenon DEF TakeTrap, Causes
<1>3. g \in TrFrames /\ g.kind = "kern" /\ g.pc = "entry" /\ g.cause = cause
  <2>1. cause \in {"timer", "ext", "ecall", "fault"} BY Zenon, <1>2
  <2> QED BY Zenon, <2>1, EntryFrame
<1>4. Here(h) = <<x, Len(s), 0>> BY Zenon DEF Here
<1>5. csr' = [csr EXCEPT ![h] = c] BY Zenon, <1>1, <1>4 DEF TakeTrap
<1>6. /\ csr[h].stvec = "kernelvec"
      /\ \/ s = <<>> /\ x = h /\ x \notin TrProcs /\ Len(s) = 0
         \/ \E f : /\ s = <<f>> /\ x \in TrProcs /\ UserOK(f) /\ Len(s) = 1
                   /\ f.pc \in {"sys", "after", "ret"}
  <2>1. CASE s = <<>>
    <3>1. x = h /\ x \notin TrProcs BY Zenon, <1>1, <2>1, TrAssumption DEF InUser
    <3>2. Len(s) = 0 BY <2>1
    <3> QED BY Zenon, <1>1, <2>1, <3>1, <3>2 DEF RegsAt, RegsOK
  <2>2. CASE s # <<>>
    <3>1. Head(s).kind = "user" BY Zenon, <1>1, <2>2 DEF RegsAt, RegsOK, KernRegs
    <3>2. x \in TrProcs /\ s = <<Head(s)>> /\ UserOK(Head(s)) /\ Len(s) = 1
      BY Zenon, <1>1, <2>2, <3>1, UserStack
    <3>3. UserRegs(csr[h], Head(s), Upc(x), Due(x))
      BY Zenon, <1>1, <2>2, <3>1 DEF RegsAt, RegsOK
    <3>4. Head(s).pc \in {"sys", "after", "ret"} /\ csr[h].stvec = "kernelvec"
      BY Zenon, <1>1, <3>2, <3>3 DEF UserRegs, UserOK, UserPoints
    <3> QED BY Zenon, <3>2, <3>4
  <2> QED BY Zenon, <2>1, <2>2
<1>7. Len(s) \in 0 .. 1 BY <1>6
<1>8. <<x, Len(s), 0>> \in TrPlaces
  <2>1. \A n \in 0 .. 1 : <<x, n, 0>> \in TrPlaces BY <1>1 DEF TrPlaces
  <2> QED BY Zenon, <1>7, <2>1
<1>9. /\ c \in Csrs /\ c.cur = x /\ ~c.sie /\ c.stvec = "kernelvec" /\ c.spp = "S"
      /\ c.sepc = <<x, Len(s), 0>>
  BY Zenon, <1>1, <1>6, <1>8 DEF Csrs
<1>10. frames' = [frames EXCEPT ![x] = <<g>> \o s]
  BY Zenon, <1>1, <1>6 DEF TakeTrap, TrInv, TrTypes
<1>11. UNCHANGED <<tf, upc, due, dead, trReady, plic, trPanic>> BY Zenon DEF TakeTrap
<1> DEFINE t == <<g>> \o s
<1> HIDE DEF c, g, t
<1>12. OthersStay(h) /\ csr'[h] = c /\ frames'[x] = t
  <2>1. UNCHANGED <<tf, upc, due, dead, trPanic>> BY Zenon, <1>11
  <2> QED BY Zenon, <1>1, <1>5, <1>9, <1>10, <2>1, Kept DEF t
<1>13. CASE s = <<>> /\ x = h /\ x \notin TrProcs /\ Len(s) = 0
  <2>1. <<g>> \o <<>> = <<g>>
    <3>1. Tail(<<g>>) = <<>> /\ <<g>> \o Tail(<<g>>) = <<g>> BY Zenon, SeqOne
    <3> QED BY Zenon, <3>1
  <2>2. t = <<g>> BY Zenon, <1>13, <2>1 DEF t
  <2>3. <<g>> # <<>> /\ Head(<<g>>) = g /\ Len(<<g>>) = 1 BY Zenon, SeqOne
  <2>4. KernOK(x, 0, g) BY Zenon, <1>2, <1>3 DEF KernOK, KernPoints
  <2>5. StackOK(x, <<g>>)
    <3>1. KernShape(x, <<g>>, g) BY Zenon, <1>13, <2>4 DEF KernShape
    <3> QED BY Zenon, <3>1, ShapeStack
  <2>6. KernRegs(c, g, 0) BY Zenon, <1>3, <1>9, <1>13 DEF KernRegs
  <2>7. RegsAt(h)'
    <3>1. /\ csr'[h] = c /\ frames'[csr'[h].cur] = <<g>> /\ Len(<<g>>) - 1 = 0
      BY <1>9, <1>12, <2>2, <2>3
    <3> QED BY Zenon, <1>3, <2>3, <2>6, <3>1 DEF RegsAt, RegsOK
  <2>8. StaysOrYields(h) BY Zenon, <1>9, <1>11, <1>12, <2>7 DEF StaysOrYields
  <2>9. ClaimsStay(h) BY Zenon, <1>11, <1>13, KeptClaims
  <2>10. StackOK(x, frames'[x]) BY Zenon, <1>12, <2>2, <2>5
  <2> QED BY Zenon, <1>12, <1>13, <2>8, <2>9, <2>10, HartStep
<1>14. ASSUME NEW f, s = <<f>>, x \in TrProcs, UserOK(f), Len(s) = 1,
              f.pc \in {"sys", "after", "ret"}
       PROVE  TrInv'
  <2>1. t = <<g, f>>
    <3>1. Tail(<<f, f>>) = <<f>> /\ <<g>> \o Tail(<<f, f>>) = <<g, f>> BY SeqTwo
    <3>2. <<g>> \o <<f>> = <<g, f>> BY Zenon, <3>1
    <3> QED BY Zenon, <1>14, <3>2 DEF t
  <2>2. <<g, f>> # <<>> /\ Head(<<g, f>>) = g /\ Len(<<g, f>>) = 2 /\ <<g, f>>[2] = f
    BY Zenon, SeqTwo
  <2>3. KernOK(x, 1, g) BY Zenon, <1>2, <1>3 DEF KernOK, KernPoints
  <2>4. StackOK(x, <<g, f>>)
    <3>1. BothShape(x, <<g, f>>, g, f) BY Zenon, <1>14, <2>3 DEF BothShape
    <3> QED BY Zenon, <3>1, ShapeStack
  <2>5. KernRegs(c, g, 1) BY Zenon, <1>3, <1>9, <1>14 DEF KernRegs
  <2>6. RegsAt(h)'
    <3>1. /\ csr'[h] = c /\ frames'[csr'[h].cur] = <<g, f>> /\ Len(<<g, f>>) - 1 = 1
      BY <1>9, <1>12, <2>1, <2>2
    <3> QED BY Zenon, <1>3, <2>2, <2>5, <3>1 DEF RegsAt, RegsOK
  <2>7. StaysOrYields(h) BY <1>9, <1>11, <1>12, <2>6 DEF StaysOrYields
  <2>8. <<f>>[1] = f /\ <<f>> # <<>> /\ Head(<<f>>) = f BY Zenon, SeqOne
  <2>9. ReturnOK(x, <<f>>, tf[x], upc[x], due[x], dead[x])
    BY Zenon, <1>14 DEF TrInv, Returns
  <2>10. ReturnOK(x, frames'[x], tf'[x], upc'[x], due'[x], dead'[x])
    BY Zenon, <1>11, <1>12, <1>14, <2>1, <2>2, <2>8, <2>9 DEF ReturnOK
  <2>11. ClaimsStay(h) BY Zenon, <1>11, <1>14, <2>8, KeptClaims
  <2>12. StackOK(x, frames'[x]) BY Zenon, <1>12, <2>1, <2>4
  <2> QED BY Zenon, <1>12, <2>7, <2>10, <2>11, <2>12, HartStep
<1> QED BY Zenon, <1>6, <1>13, <1>14

LEMMA TickInv ==
  ASSUME TrInv, NEW h \in Harts, Tick(h)
  PROVE  TrInv'
<1> DEFINE x == csr[h].cur
           c == [csr[h] EXCEPT !.sip = TRUE]
<1>1. csr \in [Harts -> Csrs] /\ csr[h] \in Csrs /\ x \in Contexts /\ RegsAt(h)
  BY Zenon DEF TrInv, TrTypes, Placed, Contexts, Registers
<1>2. csr' = [csr EXCEPT ![h] = c] BY Zenon, <1>1 DEF Tick
<1>3. /\ c \in Csrs /\ c.cur = x /\ c.sie = csr[h].sie /\ c.stvec = csr[h].stvec
      /\ c.sepc = csr[h].sepc /\ c.spp = csr[h].spp
  BY Zenon, <1>1 DEF Csrs
<1>4. UNCHANGED <<frames, tf, upc, due, dead, trReady, plic, trPanic>> BY Zenon DEF Tick, userVars
<1> HIDE DEF c
<1>5. csr' \in [Harts -> Csrs] /\ csr'[h] = c /\ \A g \in Harts : g # h => csr'[g] = csr[g]
  BY Zenon, <1>1, <1>2, <1>3
<1>6. OthersStay(h) BY Zenon, <1>4, <1>5 DEF OthersStay, TrInv, TrTypes
<1>7. RegsAt(h)'
  <2>1. csr'[h].cur = x /\ frames' = frames /\ upc' = upc /\ due' = due BY Zenon, <1>3, <1>4, <1>5
  <2>2. RegsOK(h, c, frames[x], Upc(x), Due(x))
    BY Zenon, <1>1, <1>3 DEF RegsAt, RegsOK, UserRegs, KernRegs
  <2> QED BY Zenon, <1>5, <2>1, <2>2 DEF RegsAt, Upc, Due
<1>8. StaysOrYields(h) BY Zenon, <1>3, <1>4, <1>5, <1>7 DEF StaysOrYields
<1>9. ClaimsStay(h) BY Zenon, <1>3, <1>4, <1>5 DEF ClaimsStay, TrInv, TrTypes
<1>10. StackOK(x, frames'[x]) BY Zenon, <1>1, <1>4 DEF TrInv, Stacks
<1>11. x \in TrProcs => ReturnOK(x, frames'[x], tf'[x], upc'[x], due'[x], dead'[x])
  BY Zenon, <1>4 DEF TrInv, Returns
<1> QED BY Zenon, <1>6, <1>8, <1>9, <1>10, <1>11, HartStep

LEMMA RaiseIrqInv ==
  ASSUME TrInv, NEW i \in Irqs, RaiseIrq(i)
  PROVE  TrInv'
<1>1. UNCHANGED <<csr, frames, tf, upc, due, dead, trReady, trPanic>> BY Zenon
    DEF RaiseIrq, userVars
<1>2. plic \in [pending : SUBSET Irqs, claimed : SUBSET Irqs] BY Zenon DEF TrInv, TrTypes
<1>3. /\ plic' \in [pending : SUBSET Irqs, claimed : SUBSET Irqs]
      /\ plic'.claimed = plic.claimed
  BY Zenon, <1>2 DEF RaiseIrq
<1>4. TrTypes' BY Zenon, <1>1, <1>3 DEF TrInv, TrTypes
<1>5. Placed' /\ Stacks' /\ Returns' /\ Waiting'
  BY Zenon, <1>1 DEF TrInv, Placed, Stacks, Returns, Waiting
<1>6. Registers' BY Zenon, <1>1 DEF TrInv, Registers, RegsAt, Upc, Due
<1>7. Served' BY Zenon, <1>1, <1>3 DEF TrInv, Served
<1> QED BY Zenon, <1>4, <1>5, <1>6, <1>7 DEF TrInv

\* kill by another CPU, at any point of the trap.
LEMMA SetKilledInv ==
  ASSUME TrInv, NEW q \in TrProcs, SetKilled(q)
  PROVE  TrInv'
<1>1. UNCHANGED <<csr, frames, tf, upc, due, trReady, plic, trPanic>> BY Zenon DEF SetKilled
<1>2. /\ dead' \in [TrProcs -> BOOLEAN] /\ dead'[q]
      /\ \A p \in TrProcs : p # q => dead'[p] = dead[p]
  BY Zenon DEF SetKilled, TrInv, TrTypes
<1>3. TrTypes' BY Zenon, <1>1, <1>2 DEF TrInv, TrTypes
<1>4. Placed' /\ Stacks' /\ Waiting' /\ Served'
  BY Zenon, <1>1 DEF TrInv, Placed, Stacks, Waiting, Served
<1>5. Registers' BY Zenon, <1>1 DEF TrInv, Registers, RegsAt, Upc, Due
<1>6. Returns'
  <2>1. ASSUME NEW p \in TrProcs PROVE ReturnOK(p, frames[p], tf[p], upc[p], due[p], dead'[p])
    <3>1. ReturnOK(p, frames[p], tf[p], upc[p], due[p], dead[p]) BY Zenon DEF TrInv, Returns
    <3>2. dead[p] => dead'[p] BY Zenon, <1>2
    <3> QED BY Zenon, <3>1, <3>2 DEF ReturnOK
  <2> QED BY Zenon, <1>1, <2>1 DEF Returns
<1> QED BY Zenon, <1>3, <1>4, <1>5, <1>6 DEF TrInv

-----------------------------------------------------------------------------
(* The theorem.                                                            *)

LEMMA TrapInit == TrInit => TrInv
<1> SUFFICES ASSUME TrInit PROVE TrInv BY Zenon
<1> DEFINE g == TrFrame("user", "ret")
<1>1. UserOK(g) /\ g.pc = "ret" /\ g.kind = "user"
  BY DEF TrFrame, UserOK, UserPoints, TrFrames, TrPlaces
<1> HIDE DEF g
<1>2. /\ \A p \in TrProcs : frames[p] = <<g>>
      /\ \A h \in Harts : frames[h] = <<>> /\ csr[h].cur = h /\ csr[h].sie /\ csr[h].stvec = "kernelvec"
  BY Zenon, TrAssumption DEF TrInit, g
<1>3. <<g>> # <<>> /\ Head(<<g>>) = g /\ Len(<<g>>) = 1 /\ <<g>>[1] = g BY Zenon, SeqOne
<1>4. TrTypes
  <2>1. csr \in [Harts -> Csrs] BY Zenon DEF TrInit, Csrs, Contexts, TrPlaces
  <2> QED BY <2>1 DEF TrInit, TrTypes, Contexts
<1>5. Placed BY Zenon, <1>2, TrAssumption DEF TrInit, Placed
<1>6. Stacks
  <2>1. ASSUME NEW p \in TrProcs PROVE StackOK(p, frames[p])
    <3>1. StackOK(p, <<g>>) BY Zenon, <1>1, OneFrame
    <3>2. frames[p] = <<g>> BY Zenon, <1>2
    <3> QED BY Zenon, <3>1, <3>2
  <2>2. ASSUME NEW h \in Harts PROVE StackOK(h, frames[h]) BY Zenon, <1>2 DEF StackOK
  <2> QED BY Zenon, <2>1, <2>2 DEF Stacks, Contexts
<1>7. Returns
  <2>1. ASSUME NEW p \in TrProcs
        PROVE  ReturnOK(p, frames[p], tf[p], upc[p], due[p], dead[p])
    <3>1. tf[p] = <<p, 0, due[p]>> BY Zenon DEF TrInit
    <3> QED BY Zenon, <1>2, <1>3, <3>1 DEF ReturnOK
  <2> QED BY Zenon, <2>1 DEF Returns
<1>8. Registers BY Zenon, <1>2 DEF Registers, RegsAt, RegsOK
<1>9. Waiting
  <2>1. ASSUME NEW p \in trReady PROVE ReadyOK(frames[p])
    <3>1. frames[p] = <<g>> BY Zenon, <1>2 DEF TrInit
    <3> QED BY Zenon, <1>1, <1>3, <3>1 DEF ReadyOK
  <2> QED BY Zenon, <2>1 DEF Waiting
<1>10. Served BY Zenon DEF TrInit, Served
<1> QED BY Zenon, <1>4, <1>5, <1>6, <1>7, <1>8, <1>9, <1>10 DEF TrInv

LEMMA TrapStep == TrInv /\ [TrNext]_trVars => TrInv'
<1> SUFFICES ASSUME TrInv, [TrNext]_trVars PROVE TrInv' BY Zenon
<1>1. ASSUME NEW h \in Harts, TrStep(h) PROVE TrInv'
  <2>1. CASE usertrap(h) BY Zenon, <2>1, usertrapInv
  <2>2. CASE SyscallEnd(h) BY Zenon, <2>2, SyscallEndInv
  <2>3. CASE SyscallSleep(h) BY <2>3, SyscallSleepInv
  <2>4. CASE UserExit(h) BY <2>4, UserExitInv
  <2>5. CASE UserAfter(h) BY <2>5, UserAfterInv
  <2>6. CASE usertrapret(h) BY <2>6, usertrapretInv
  <2>7. CASE RetVec(h) BY <2>7, RetVecInv
  <2>8. CASE RetSret(h) BY <2>8, RetSretInv
  <2>9. ASSUME NEW kind \in {"user", "kern"},
               DevTimer(h, kind) \/ DevClaim(h, kind) \/ DevComplete(h, kind)
        PROVE  TrInv'
    BY Zenon, <2>9, DevTimerInv, DevClaimInv, DevCompleteInv
  <2>10. CASE kerneltrap(h) BY <2>10, kerneltrapInv
  <2>11. CASE KernAfter(h) BY <2>11, KernAfterInv
  <2>12. CASE KernRestore(h) BY <2>12, KernRestoreInv
  <2>13. CASE KernSret(h) BY <2>13, KernSretInv
  <2>14. CASE Dispatch(h) BY <2>14, DispatchInv
  <2> QED BY Zenon, <1>1, <2>1, <2>2, <2>3, <2>4, <2>5, <2>6, <2>7, <2>8, <2>9, <2>10, <2>11,
             <2>12, <2>13, <2>14 DEF TrStep
<1>2. ASSUME NEW h \in Harts, Tick(h) PROVE TrInv' BY <1>2, TickInv
<1>3. ASSUME NEW h \in Harts, NEW c \in Causes(h), TakeTrap(h, c) PROVE TrInv'
  BY Zenon, <1>3, UserTraps, KernTraps
<1>4. ASSUME NEW i \in Irqs, RaiseIrq(i) PROVE TrInv' BY <1>4, RaiseIrqInv
<1>5. ASSUME NEW p \in TrProcs, SetKilled(p) PROVE TrInv' BY <1>5, SetKilledInv
<1>6. CASE UNCHANGED trVars
  <2>1. UNCHANGED <<csr, frames, tf, upc, due, dead, trReady, plic, trPanic>> BY Zenon, <1>6
      DEF trVars
  <2>2. TrTypes' /\ Placed' /\ Stacks' /\ Returns' /\ Waiting' /\ Served'
    BY Zenon, <2>1 DEF TrInv, TrTypes, Placed, Stacks, Returns, Waiting, Served
  <2>3. Registers' BY Zenon, <2>1 DEF TrInv, Registers, RegsAt, Upc, Due
  <2> QED BY Zenon, <2>2, <2>3 DEF TrInv
<1> QED BY Zenon, <1>1, <1>2, <1>3, <1>4, <1>5, <1>6 DEF TrNext

\* The invariant says what TrapsSound says of a state.
LEMMA TrapImplies == TrInv => TrapsSound
<1> SUFFICES ASSUME TrInv PROVE TrapsSound BY Zenon
<1>1. ASSUME NEW h \in Harts
      PROVE  /\ csr[h].cur \in TrProcs \cup {h} /\ csr[h].cur \in Contexts
             /\ StackOK(csr[h].cur, frames[csr[h].cur]) /\ RegsAt(h)
             /\ csr[h].stvec \in {"uservec", "kernelvec"}
  BY Zenon DEF TrInv, TrTypes, Csrs, Placed, Contexts, Stacks, Registers
<1>2. TrTypeOK
  <2>1. ASSUME NEW x \in TrProcs \cup Harts
        PROVE  Len(frames[x]) <= IF x \in TrProcs THEN 2 ELSE 1
    <3>1. StackOK(x, frames[x]) BY Zenon DEF TrInv, Stacks, Contexts
    <3>2. CASE frames[x] = <<>> BY <3>2
    <3>3. CASE frames[x] # <<>>
      <4>1. Len(frames[x]) = 1 \/ (x \in TrProcs /\ Len(frames[x]) = 2)
        BY Zenon, <3>1, <3>3 DEF StackOK
      <4>2. 1 <= 1 /\ 1 <= 2 /\ 2 <= 2 OBVIOUS
      <4> QED BY Zenon, <4>1, <4>2
    <3> QED BY Zenon, <3>2, <3>3
  <2> QED BY Zenon, <1>1, <2>1 DEF TrTypeOK, TrInv, Placed
<1>3. VectorRight
  <2>1. ASSUME NEW h \in Harts, csr[h].sie PROVE InUser(h) <=> csr[h].stvec = "uservec"
    <3> DEFINE x == csr[h].cur
               s == frames[x]
    <3>1. CASE s = <<>>
      BY Zenon, <1>1, <3>1, TrAssumption DEF InUser, RegsAt, RegsOK
    <3>2. CASE s # <<>>
      <4>1. Head(s).kind = "user" BY Zenon, <1>1, <2>1, <3>2 DEF RegsAt, RegsOK, KernRegs
      <4>2. UserRegs(csr[h], Head(s), Upc(x), Due(x)) BY Zenon, <1>1, <3>2, <4>1 DEF RegsAt, RegsOK
      <4>3. csr[h].stvec = "kernelvec" BY Zenon, <1>1, <2>1, <3>2, <4>1, <4>2, UserStack
                                          DEF UserRegs, UserOK, UserPoints
      <4> QED BY Zenon, <3>2, <4>3 DEF InUser
    <3> QED BY Zenon, <3>1, <3>2
  <2> QED BY Zenon, <2>1 DEF VectorRight, TrInv, TrTypes
<1>4. SretRight
  <2>1. ASSUME NEW h \in Harts, TrAt(h, "kern", "sret")
        PROVE  csr[h].spp = "S" /\ csr[h].sepc = <<csr[h].cur, Len(frames[csr[h].cur]) - 1, 0>>
    <3>1. KernRegs(csr[h], TrTop(h), Len(frames[csr[h].cur]) - 1) /\ TrTop(h).pc = "sret"
      BY Zenon, <2>1, KernAt
    <3> QED BY Zenon, <3>1 DEF KernRegs
  <2> QED BY Zenon, <2>1 DEF SretRight
<1>5. ResumeRight BY Zenon DEF TrInv, Returns, ReturnOK, ResumeRight, InUser
<1>6. ClaimsServed BY Zenon DEF TrInv, Served, Serves, ClaimsServed, TrTop
<1> QED BY Zenon, <1>2, <1>3, <1>4, <1>5, <1>6 DEF TrapsSound

\* Traps arrive where they can be handled and end where they came from: in every
\* reachable state, with any number of CPUs, processes and devices, interrupts
\* that are on find the vector that fits (so usertrap and kerneltrap never panic
\* about where they come from), a kernel trap returns to the place and with the
\* status it interrupted although its process may have moved to another CPU,
\* user code goes on where it has to, and every claimed interrupt is being served.
THEOREM TrapSafety == TrSpec => []TrapsSound
<1>1. TrSpec => []TrInv BY TrapInit, TrapStep, PTL DEF TrSpec
<1> QED BY <1>1, TrapImplies, PTL
=============================================================================
