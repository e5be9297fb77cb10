------------------------------- MODULE Strings -------------------------------
(***************************************************************************)
(* The byte and string functions of kernel/string.c and user/ulib.c, the   *)
(* path walker skipelem of kernel/fs.c, and the number and format printing *)
(* of user/printf.c and kernel/printf.c: each as the loop it is, compared  *)
(* with what it is for on every small memory, number and format.           *)
(***************************************************************************)
EXTENDS Integers, Sequences, FiniteSets, FiniteSetsExt, Parts

CONSTANTS
  MemSize,   \* bytes of memory: addresses 0 .. MemSize - 1
  IntBits,   \* 32: the width of int
  FmtLen,    \* longest format
  DIRSIZ

ASSUME StringsAssumption == MemSize > 1 /\ IntBits > 1 /\ DIRSIZ > 0

VARIABLES mem,   \* bytes: 0 is NUL, 1 is '/', 2 a letter
          xx,    \* a number
          fmt    \* a format

StrAddrs == 0 .. MemSize - 1
Pow2(k) == 2 ^ k
Zeros == [a \in StrAddrs |-> 0]
FmtChars == {"%", "d", "x", "s", "c", "l", "z"}

StrInit == mem \in [StrAddrs -> 0 .. 2] /\ xx = 0 /\ fmt = <<>>
-----------------------------------------------------------------------------
(* memmove, strncpy, safestrcpy, strncmp, memcmp, strlen.                  *)

RECURSIVE CopyUp(_, _, _, _), CopyDown(_, _, _, _)
CopyUp(m, d, s, n) == IF n = 0 THEN m ELSE CopyUp([m EXCEPT ![d] = m[s]], d + 1, s + 1, n - 1)
CopyDown(m, d, s, n) ==
  IF n = 0 THEN m ELSE CopyDown([m EXCEPT ![d + n - 1] = m[s + n - 1]], d, s, n - 1)

\* Variant: copies upwards when the target begins inside the source.
memmove_up(m, d, s, n) == CopyUp(m, d, s, n)

\* The kernel's, and the one of user programs.
memmove(m, d, s, n) == IF s < d /\ s + n > d THEN CopyDown(m, d, s, n) ELSE CopyUp(m, d, s, n)
umemmove(m, d, s, n) == IF s > d THEN CopyUp(m, d, s, n) ELSE CopyDown(m, d, s, n)

RECURSIVE ZeroFill(_, _, _), strncpy(_, _, _, _), SafeCopy(_, _, _, _)
ZeroFill(m, s, n) == IF n <= 0 THEN m ELSE ZeroFill([m EXCEPT ![s] = 0], s + 1, n - 1)

strncpy(m, s, t, n) ==
  IF n <= 0 THEN m
  ELSE IF m[t] = 0 THEN ZeroFill([m EXCEPT ![s] = 0], s + 1, n - 1)
  ELSE strncpy([m EXCEPT ![s] = m[t]], s + 1, t + 1, n - 1)

\* Variant: the loop runs n times, and the NUL follows.
SafeCopy_n(m, s, t, n) ==
  IF n = 0 THEN [m EXCEPT ![s] = 0]
  ELSE IF m[t] = 0 THEN [m EXCEPT ![s] = 0, ![s + 1] = 0]
  ELSE SafeCopy([m EXCEPT ![s] = m[t]], s + 1, t + 1, n - 1)

\* The loop of safestrcpy, and the NUL after it: a second one when the loop
\* ended with the string.
SafeCopy(m, s, t, n) ==
  IF n - 1 <= 0 THEN [m EXCEPT ![s] = 0]
  ELSE IF m[t] = 0 THEN [m EXCEPT ![s] = 0, ![s + 1] = 0]
  ELSE SafeCopy([m EXCEPT ![s] = m[t]], s + 1, t + 1, n - 1)
safestrcpy(m, s, t, n) == IF n <= 0 THEN m ELSE SafeCopy(m, s, t, n)

RECURSIVE strncmp(_, _, _, _)
\* Variant: goes on behind a NUL.
strncmp_nul(m, p, q, n) ==
  IF n > 0 /\ p + 1 < MemSize /\ q + 1 < MemSize /\ m[p] = m[q] THEN strncmp(m, p + 1, q + 1, n - 1)
  ELSE IF n = 0 THEN 0 ELSE m[p] - m[q]

RECURSIVE memcmp(_, _, _, _), strlen(_, _)
strncmp(m, p, q, n) ==
  IF n > 0 /\ m[p] # 0 /\ m[p] = m[q] THEN strncmp(m, p + 1, q + 1, n - 1)
  ELSE IF n = 0 THEN 0 ELSE m[p] - m[q]
memcmp(m, p, q, n) ==
  IF n = 0 THEN 0 ELSE IF m[p] # m[q] THEN m[p] - m[q] ELSE memcmp(m, p + 1, q + 1, n - 1)
strlen(m, s) == IF m[s] = 0 THEN 0 ELSE 1 + strlen(m, s + 1)

\* skipelem(path, name): the next element, cut to DIRSIZ, and the rest; there is
\* one letter, so a name is its length, and 0 stands for the return of 0.
RECURSIVE SkipSlashes(_, _), ElemEnd(_, _)
SkipSlashes(m, p) == IF m[p] = 1 THEN SkipSlashes(m, p + 1) ELSE p
ElemEnd(m, p) == IF m[p] \in {0, 1} THEN p ELSE ElemEnd(m, p + 1)
\* Variant: does not skip the slashes after the element.
skipelem_stay(m, path) ==
  LET s == path
      e == ElemEnd(m, s)
  IN  [name |-> IF e - s >= DIRSIZ THEN DIRSIZ ELSE e - s, rest |-> e]

skipelem(m, path) ==
  LET s == SkipSlashes(m, path)
      e == ElemEnd(m, s)
  IN  [name |-> IF e - s >= DIRSIZ THEN DIRSIZ ELSE e - s, rest |-> SkipSlashes(m, e)]
RECURSIVE Elements(_, _)
Elements(m, p) ==
  LET r == skipelem(m, p) IN IF r.name = 0 THEN <<>> ELSE <<r.name>> \o Elements(m, r.rest)
-----------------------------------------------------------------------------
(* printint and vprintf.                                                   *)

\* -x or x, converted to uint.
Magnitude(x, sgn) == (IF sgn /\ x < 0 THEN -x ELSE x) % Pow2(IntBits)
RECURSIVE Digits(_, _)
Digits(x, base) ==
  IF x \div base = 0 THEN <<x % base>> ELSE Digits(x \div base, base) \o <<x % base>>

\* Variant: tests for the end before the first digit.
printint_do(x, base, sgn) ==
  [neg |-> sgn /\ x < 0,
   digits |-> IF Magnitude(x, sgn) = 0 THEN <<>>
              ELSE Digits(Magnitude(x, sgn), base)]

\* The digits as they are printed, the sign apart.
printint(x, base, sgn) ==
  [neg |-> sgn /\ x < 0, digits |-> Digits(Magnitude(x, sgn), base)]

RECURSIVE atoi(_, _)
atoi(s, n) == IF s = <<>> THEN n ELSE atoi(Tail(s), n * 10 + Head(s))

\* vprintf of user programs, from position i in the state st; what it prints is
\* characters and, marked, converted arguments.
Conv(c) == <<"conv", c>>
Unknown(c) == <<<<"char", "%">>, <<"char", c>>>>
UserConv(c) ==
  IF c \in {"d", "l", "x", "p", "s", "c"} THEN <<Conv(c)>>
  ELSE IF c = "%" THEN <<<<"char", c>>>> ELSE Unknown(c)

\* Variant: the state is not reset after a conversion.
AfterConv_same == "%"

AfterConv == "0"
RECURSIVE vprintf(_, _, _)
vprintf(f, i, st) ==
  IF i > Len(f) THEN <<>>
  ELSE IF st = "%" THEN UserConv(f[i]) \o vprintf(f, i + 1, AfterConv)
  ELSE IF f[i] = "%" THEN vprintf(f, i + 1, "%")
  ELSE <<<<"char", f[i]>>>> \o vprintf(f, i + 1, st)

\* printf of the kernel, which knows fewer conversions.
KernConv(c) ==
  IF c \in {"d", "x", "p", "s"} THEN <<Conv(c)>>
  ELSE IF c = "%" THEN <<<<"char", c>>>> ELSE Unknown(c)
RECURSIVE printf(_, _)
printf(f, i) ==
  IF i > Len(f) THEN <<>>
  ELSE IF f[i] # "%" THEN <<<<"char", f[i]>>>> \o printf(f, i + 1)
  ELSE IF i = Len(f) THEN <<>>
  ELSE KernConv(f[i + 1]) \o printf(f, i + 2)

strVars == <<mem, xx, fmt>>

\* A program calls one of the copying functions. safestrcpy and strncpy get a
\* string at t.
Copying ==
  /\ xx = 0 /\ fmt = <<>>
  /\ \E n \in 1 .. MemSize : \E d, s \in 0 .. MemSize - n :
       \/ mem' = memmove(mem, d, s, n)
       \/ (\E a \in s .. s + n - 1 : mem[a] = 0) /\ mem' = strncpy(mem, d, s, n)
       \/ (\E a \in s .. s + n - 1 : mem[a] = 0) /\ mem' = safestrcpy(mem, d, s, n)
  /\ UNCHANGED <<xx, fmt>>

\* A program prints the ints in turn, and longer and longer formats.
Counting ==
  /\ mem = Zeros /\ fmt = <<>>
  /\ xx' = IF xx = Pow2(IntBits - 1) - 1 THEN -Pow2(IntBits - 1) ELSE xx + 1
  /\ UNCHANGED <<mem, fmt>>
Formatting ==
  /\ mem = Zeros /\ xx = 0
  /\ IF Len(fmt) = FmtLen THEN fmt' = <<>> ELSE \E c \in FmtChars : fmt' = Append(fmt, c)
  /\ UNCHANGED <<mem, xx>>

StrNext == Copying \/ Counting \/ Formatting
StrSpec == StrInit /\ [][StrNext]_strVars
-----------------------------------------------------------------------------
(* Properties.                                                             *)

\* memmove of kernel and user programs copies n bytes as if all were read
\* before any is written, however the two areas overlap.
MoveExact ==
  In("strings") =>
    \A n \in 0 .. MemSize : \A d, s \in 0 .. MemSize - n :
      LET moved == [a \in StrAddrs |-> IF a \in d .. d + n - 1 THEN mem[a - d + s] ELSE mem[a]]
      IN  memmove(mem, d, s, n) = moved /\ umemmove(mem, d, s, n) = moved

\* The string at t: its bytes before the NUL. Only such addresses are passed.
Ended(t) == \E a \in t .. MemSize - 1 : mem[a] = 0
Str(m, t) == LET z == Min({a \in t .. MemSize - 1 : m[a] = 0}) IN [k \in 1 .. z - t |-> m[t + k - 1]]

\* strncpy fills exactly n bytes; safestrcpy leaves a string of at most n - 1
\* characters ("guaranteed to NUL-terminate", string.c) and writes at most n
\* bytes, neither beyond its n.
CopyBounded ==
  In("strings") =>
    \A t \in StrAddrs : Ended(t) => \A n \in 1 .. MemSize : \A s \in 0 .. MemSize - n :
      LET str == Str(mem, t)
          apart == {s + k : k \in 0 .. n - 1} \cap (t .. t + Len(str)) = {}
          a == strncpy(mem, s, t, n)
          b == safestrcpy(mem, s, t, n)
      IN  apart =>
            /\ a = [x \in StrAddrs |-> IF x \notin s .. s + n - 1 THEN mem[x]
                                    ELSE IF x - s < Len(str) THEN str[x - s + 1] ELSE 0]
            /\ Str(b, s) = SubSeq(str, 1, IF Len(str) < n THEN Len(str) ELSE n - 1)
            /\ \A x \in StrAddrs \ (s .. s + n - 1) : b[x] = mem[x]

\* p sorts before q in the first n characters.
Before(p, q, n) ==
  \E k \in 1 .. n :
    /\ k <= Len(q) /\ k <= Len(p) + 1 /\ SubSeq(p, 1, k - 1) = SubSeq(q, 1, k - 1)
    /\ k = Len(p) + 1 \/ p[k] < q[k]

\* strlen finds the first NUL; memcmp and strncmp agree before it; and
\* strncmp, which namecmp uses on names that need not end within DIRSIZ, orders
\* strings by their first n characters and looks at nothing behind a NUL.
CompareExact ==
  In("strings") =>
    \A s, t \in StrAddrs : Ended(s) /\ Ended(t) => \A n \in 0 .. MemSize :
      LET p == Str(mem, s)
          q == Str(mem, t)
          r == strncmp(mem, s, t, n)
      IN  /\ (r < 0) = Before(p, q, n) /\ (r > 0) = Before(q, p, n)
          /\ strlen(mem, s) = Len(p)
          /\ (n <= Len(p) /\ n <= Len(q)) => memcmp(mem, s, t, n) = r

\* The elements of a path are its runs of characters between slashes, whatever
\* slashes lead, follow or repeat, each cut to DIRSIZ.
ElemStarts == {a \in StrAddrs : mem[a] = 2 /\ (a = 0 \/ mem[a - 1] # 2) /\ \A b \in 0 .. a : mem[b] # 0}
RECURSIVE ElemLens(_, _)
ElemLens(m, S) ==
  IF S = {} THEN <<>>
  ELSE LET len == ElemEnd(m, Min(S)) - Min(S)
       IN  <<IF len < DIRSIZ THEN len ELSE DIRSIZ>> \o ElemLens(m, S \ {Min(S)})
PathExact ==
  In("strings") /\ Ended(0) => Elements(mem, 0) = ElemLens(mem, ElemStarts)

RECURSIVE Value(_, _)
Value(ds, base) ==
  IF ds = <<>> THEN 0 ELSE Value(SubSeq(ds, 1, Len(ds) - 1), base) * base + ds[Len(ds)]

\* printint prints every int: the digits have its value, the lowest int, whose
\* negation overflows, included; buf[16] is long enough for each; and atoi
\* reads the non-negative ones back.
PrintExact ==
  In("strings") =>
    \A base \in {10, 16} :
      LET s == printint(xx, base, TRUE)
          u == printint(xx, base, FALSE)
      IN  /\ (IF s.neg THEN -1 ELSE 1) * Value(s.digits, base) = xx
          /\ Value(u.digits, base) = xx % Pow2(IntBits)
          /\ s.digits # <<>> /\ Len(s.digits) + (IF s.neg THEN 1 ELSE 0) <= 16
          /\ Len(s.digits) > 1 => s.digits[1] # 0
          /\ xx >= 0 /\ base = 10 => atoi(s.digits, 0) = xx

\* A % begins a conversion unless it ends one, that is, unless an odd number of
\* % stand before it.
Opens(f, i) ==
  f[i] = "%" /\ \E k \in 1 .. i : /\ \A j \in k .. i : f[j] = "%"
                                  /\ k = 1 \/ f[k - 1] # "%"
                                  /\ (i - k) % 2 = 0
Piece(f, i) ==
  IF Opens(f, i) THEN <<>>
  ELSE IF i > 1 /\ Opens(f, i - 1) THEN UserConv(f[i])
  ELSE <<<<"char", f[i]>>>>
RECURSIVE Pieces(_, _)
Pieces(f, i) == IF i > Len(f) THEN <<>> ELSE Piece(f, i) \o Pieces(f, i + 1)

\* The state of vprintf tells conversions from text in every format, and the
\* kernel's printf agrees with it on the conversions both know.
FormatExact ==
  In("strings") =>
    /\ vprintf(fmt, 1, "0") = Pieces(fmt, 1)
    /\ (\A i \in 1 .. Len(fmt) : fmt[i] \notin {"l", "c"}) => printf(fmt, 1) = vprintf(fmt, 1, "0")
=============================================================================
