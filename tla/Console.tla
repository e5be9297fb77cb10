------------------------------ MODULE Console ------------------------------
(***************************************************************************)
(* Input of the console: consoleintr edits a line in cons.buf, consoleread  *)
(* hands lines to processes. The indices r, w and e of cons.buf are uints   *)
(* that only grow; they wrap at ConWrap.                                   *)
(*                                                                         *)
(* consoleintr runs under cons.lock and is a step. consoleread keeps       *)
(* cons.lock from one byte to the next and gives it up in sleep.           *)
(***************************************************************************)
EXTENDS Integers, Sequences, SequencesExt, FiniteSetsExt, Parts

CONSTANTS
  ConReaders,       \* processes that read the console
  INPUT_BUF_SIZE,
  ConWrap,          \* 2^32
  ConSizes          \* values of n in consoleread

ASSUME ConAssumption ==
  /\ INPUT_BUF_SIZE \in Nat \ {0} /\ ConWrap % INPUT_BUF_SIZE = 0
  /\ INPUT_BUF_SIZE < ConWrap

VARIABLES
  cons,             \* buf, r, w, e
  inline,           \* bytes of finished lines that are not read yet
  edit,             \* the line being typed
  rd                \* each reader: pc, n, what it got, killed

conVars == <<cons, inline, edit, rd>>

\* x is any ordinary character; nl stands for '\n' and '\r', D is end-of-file.
Stored == {"x", "nl", "D"}
Typed == Stored \cup {"U", "H", "P"}
ConUser == [pc |-> "user", n |-> 0, got |-> <<>>, killed |-> FALSE]

ConInit ==
  /\ cons = [buf |-> [k \in 0 .. INPUT_BUF_SIZE - 1 |-> "x"], r |-> 0, w |-> 0, e |-> 0]
  /\ inline = <<>> /\ edit = <<>>
  /\ rd = [p \in ConReaders |-> ConUser]

ConAt(k) == cons.buf[k % INPUT_BUF_SIZE]
ConPlus(k) == (k + 1) % ConWrap
ConMinus(k) == (k - 1) % ConWrap
\* e - r and e - w as uints.
Pending == (cons.e - cons.r) % ConWrap
Editing == (cons.e - cons.w) % ConWrap

ConFree == \A p \in ConReaders : rd[p].pc # "loop"
\* wakeup(&cons.r): the sleepers reacquire cons.lock.
ConWake == [p \in ConReaders |-> IF rd[p].pc = "sleep" THEN [rd[p] EXCEPT !.pc = "lock"]
                                                       ELSE rd[p]]

-----------------------------------------------------------------------------
(* consoleintr(c).                                                         *)

\* Variant: no test for the end of the line being edited.
Backspace_any ==
  /\ cons' = [cons EXCEPT !.e = ConMinus(@)]
  /\ edit' = IF edit = <<>> THEN <<>> ELSE Front(edit)

Backspace ==
  IF cons.e # cons.w
    THEN cons' = [cons EXCEPT !.e = ConMinus(@)] /\ edit' = Front(edit)
    ELSE UNCHANGED <<cons, edit>>

\* ^U: back to w, or to just after a newline.
KillLine ==
  LET stop == {k \in 0 .. Editing : k = Editing \/ ConAt(cons.e - 1 - k) = "nl"}
      len == CHOOSE k \in stop : \A j \in stop : k <= j
  IN  /\ cons' = [cons EXCEPT !.e = (@ - len) % ConWrap]
      /\ edit' = <<>>

\* Variant: room is counted from w.
HasRoom_w == Editing < INPUT_BUF_SIZE

HasRoom == Pending < INPUT_BUF_SIZE

\* The line is finished: by its last byte or because the buffer is full.
Ends(c, pending) == c \in {"nl", "D"} \/ pending = INPUT_BUF_SIZE

\* Variant: a full line is not announced.
Announced_no == rd

Announced == ConWake

\* Any other character; without room it is dropped.
Store(c) ==
  IF ~HasRoom THEN UNCHANGED <<cons, inline, edit, rd>>
  ELSE /\ cons' = [cons EXCEPT !.buf[cons.e % INPUT_BUF_SIZE] = c, !.e = ConPlus(@),
                               !.w = IF Ends(c, Pending + 1) THEN ConPlus(cons.e) ELSE @]
       /\ IF Ends(c, Pending + 1)
            THEN /\ inline' = inline \o Append(edit, c) /\ edit' = <<>>
                 /\ rd' = Announced
            ELSE edit' = Append(edit, c) /\ UNCHANGED <<inline, rd>>

consoleintr(c) ==
  /\ ConFree
  /\ \/ c = "P" /\ UNCHANGED <<cons, inline, edit, rd>>
     \/ c = "U" /\ KillLine /\ UNCHANGED <<inline, rd>>
     \/ c = "H" /\ Backspace /\ UNCHANGED <<inline, rd>>
     \/ c \in Stored /\ Store(c)

-----------------------------------------------------------------------------
(* consoleread(dst, n).                                                    *)

ConCall(p) ==
  /\ rd[p].pc = "user" /\ ~rd[p].killed
  /\ \E n \in ConSizes : rd' = [rd EXCEPT ![p] = [ConUser EXCEPT !.pc = "lock", !.n = n]]
  /\ UNCHANGED <<cons, inline, edit>>

ConLock(p) ==
  /\ rd[p].pc = "lock" /\ ConFree
  /\ rd' = [rd EXCEPT ![p].pc = "loop"]
  /\ UNCHANGED <<cons, inline, edit>>

\* Return with target - n bytes, or -1.
ConReturn(p) == rd' = [rd EXCEPT ![p].pc = "user", ![p].n = 0]

\* Nothing to read: return if killed, else sleep.
ConWait(p) ==
  /\ rd[p].pc = "loop" /\ rd[p].n > 0 /\ cons.r = cons.w
  /\ IF rd[p].killed THEN ConReturn(p) ELSE rd' = [rd EXCEPT ![p].pc = "sleep"]
  /\ UNCHANGED <<cons, inline, edit>>

\* Variant: the ^D that ends a read with bytes is gone.
EofKept_no(p) == FALSE

\* ^D after some bytes is left for the next read, which returns 0 bytes.
EofKept(p) == rd[p].got # <<>>

\* One byte, or the end of the file. copyout may fail: the byte is gone. After
\* a newline the loop ends, here with n = 0.
ConByte(p) ==
  /\ rd[p].pc = "loop" /\ rd[p].n > 0 /\ cons.r # cons.w
  /\ IF ConAt(cons.r) = "D" /\ EofKept(p)
       THEN UNCHANGED <<cons, inline>>
       ELSE cons' = [cons EXCEPT !.r = ConPlus(@)] /\ inline' = Tail(inline)
  /\ IF ConAt(cons.r) = "D" THEN ConReturn(p)
     ELSE \/ ConReturn(p)
          \/ rd' = [rd EXCEPT ![p].n = IF ConAt(cons.r) = "nl" THEN 0 ELSE @ - 1,
                              ![p].got = Append(@, ConAt(cons.r))]
  /\ UNCHANGED edit

ConDone(p) ==
  /\ rd[p].pc = "loop" /\ rd[p].n = 0
  /\ ConReturn(p)
  /\ UNCHANGED <<cons, inline, edit>>

\* kill(), and the process's exit and replacement by another reader.
ConKill(p) ==
  /\ ~rd[p].killed
  /\ rd' = [rd EXCEPT ![p].killed = TRUE, ![p].pc = IF @ = "sleep" THEN "lock" ELSE @]
  /\ UNCHANGED <<cons, inline, edit>>
ConExit(p) ==
  /\ rd[p].pc = "user" /\ rd[p].killed
  /\ rd' = [rd EXCEPT ![p] = ConUser]
  /\ UNCHANGED <<cons, inline, edit>>

ConStep(p) == ConLock(p) \/ ConWait(p) \/ ConByte(p) \/ ConDone(p)

ConNext ==
  \/ \E c \in Typed : consoleintr(c)
  \/ \E p \in ConReaders : ConCall(p) \/ ConStep(p) \/ ConKill(p) \/ ConExit(p)

ConSpec == ConInit /\ [][ConNext]_conVars

-----------------------------------------------------------------------------
(* Properties.                                                             *)

\* Types; r, w and e follow each other within one buffer, across the wrap of
\* each of them.
ConTypeOK ==
  In("console") =>
    /\ {cons.r, cons.w, cons.e} \subseteq 0 .. ConWrap - 1
    /\ Editing <= Pending /\ Pending <= INPUT_BUF_SIZE
    /\ \A p \in ConReaders : rd[p].pc \in {"user", "lock", "loop", "sleep"}
                             /\ rd[p].n \in 0 .. Max(ConSizes)

ConSlice(from, len) == [k \in 1 .. len |-> ConAt(from + k - 1)]

\* The ring is what a terminal promises: what was typed, edited by ^U and
\* backspace, in order, nothing overwritten before it is read, and no finished
\* line changed by editing.
InputExact ==
  In("console") =>
    /\ ConSlice(cons.r, (cons.w - cons.r) % ConWrap) = inline
    /\ ConSlice(cons.w, Editing) = edit

\* Nobody sleeps in consoleread while there is something to read; and when the
\* buffer is full something is: input can go on.
ConSleepsOnEmpty ==
  In("console") =>
    /\ \A p \in ConReaders : rd[p].pc = "sleep" => cons.r = cons.w
    /\ Pending = INPUT_BUF_SIZE => cons.r # cons.w

\* consoleread consumes a ^D only when it returns 0 bytes, so that every ^D
\* ends exactly one sequence of reads.
EofIsEmptyRead ==
  [][inline # <<>> /\ inline' = Tail(inline) /\ Head(inline) = "D" =>
       \E p \in ConReaders : rd[p].pc = "loop" /\ rd'[p].pc = "user" /\ rd'[p].got = <<>>]_conVars
=============================================================================
