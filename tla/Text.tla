-------------------------------- MODULE Text --------------------------------
(***************************************************************************)
(* Programs that read text from a descriptor in whatever pieces read       *)
(* returns: user/grep.c with its buffer and its matcher, and user/wc.c.    *)
(* Both read the same stream; NUL characters do not occur in it.           *)
(***************************************************************************)
EXTENDS Integers, Sequences, Parts

CONSTANTS
  TxChars,   \* characters of the stream; "n" is the newline, " " the blank
  GrepBuf,   \* 1024: sizeof(buf) of grep
  WcBuf,     \* 512: sizeof(buf) of wc
  MaxText,   \* bound: length of the stream
  TxRes,     \* patterns grep may be given
  TxAllRes   \* patterns the matcher is tried with

ASSUME TextAssumption == GrepBuf > 1 /\ WcBuf > 0 /\ "n" \in TxChars

VARIABLES text,    \* the stream, as far as it has been produced
          grepped, \* pattern, position in text, the m bytes in buf, output, end
          counted  \* position in text, l, w, c, inword

txVars == <<text, grepped, counted>>

From(s, i) == SubSeq(s, i, Len(s))
-----------------------------------------------------------------------------
(* match, matchhere and matchstar of grep.c.                               *)

RECURSIVE matchhere(_, _), matchstar(_, _, _)

\* Variant: a star matches one instance or more.
matchstar_one(c, re, t) ==
  t # <<>> /\ (Head(t) = c \/ c = ".") /\ (matchhere(re, Tail(t)) \/ matchstar(c, re, Tail(t)))

matchstar(c, re, t) ==
  \/ matchhere(re, t)
  \/ t # <<>> /\ (Head(t) = c \/ c = ".") /\ matchstar(c, re, Tail(t))

matchhere(re, t) ==
  IF re = <<>> THEN TRUE
  ELSE IF Len(re) > 1 /\ re[2] = "*" THEN matchstar(re[1], From(re, 3), t)
  ELSE IF re = <<"$">> THEN t = <<>>
  ELSE /\ t # <<>>
       /\ re[1] = "." \/ re[1] = Head(t)
       /\ matchhere(Tail(re), Tail(t))

RECURSIVE MatchFrom(_, _)
MatchFrom(re, t) == matchhere(re, t) \/ (t # <<>> /\ MatchFrom(re, Tail(t)))
match(re, t) == IF re # <<>> /\ re[1] = "^" THEN matchhere(Tail(re), t) ELSE MatchFrom(re, t)
-----------------------------------------------------------------------------
(* The reading loops.                                                      *)

Newlines(s) == {i \in 1 .. Len(s) : s[i] = "n"}
FirstNl(s) == CHOOSE i \in Newlines(s) : \A j \in Newlines(s) : i <= j

\* The inner loop of grep: the complete lines in b, and what stays.
RECURSIVE GrepLines(_, _, _)
GrepLines(re, b, out) ==
  IF Newlines(b) = {} THEN [buf |-> b, out |-> out]
  ELSE LET q == FirstNl(b)
           p == SubSeq(b, 1, q - 1)
       IN  GrepLines(re, From(b, q + 1), IF match(re, p) THEN out \o p \o <<"n">> ELSE out)

\* Variant: what is left of a line is thrown away with the buffer.
Kept_none(b) == <<>>

\* The unfinished line, moved to the front of buf.
Kept(b) == b

\* read returns n bytes: at most the room in buf, and less as the writer likes.
GrepRead ==
  /\ ~grepped.ended
  /\ \E n \in 1 .. GrepBuf - Len(grepped.buf) - 1 :
       /\ grepped.pos + n <= Len(text)
       /\ \E r \in {GrepLines(grepped.re,
                              grepped.buf \o SubSeq(text, grepped.pos + 1, grepped.pos + n),
                              grepped.out)} :
            grepped' = [grepped EXCEPT !.pos = @ + n, !.buf = Kept(r.buf), !.out = r.out]
  /\ UNCHANGED <<text, counted>>

\* The buffer is full of one line: read is asked for no bytes and returns 0.
GrepFull ==
  /\ ~grepped.ended /\ Len(grepped.buf) = GrepBuf - 1
  /\ grepped' = [grepped EXCEPT !.ended = TRUE]
  /\ UNCHANGED <<text, counted>>

Blank(ch) == ch \in {" ", "n"}

\* The loop of wc over what read returned.
RECURSIVE WcBytes(_, _)
WcBytes(w, b) ==
  IF b = <<>> THEN w
  ELSE WcBytes([w EXCEPT !.c = @ + 1,
                         !.l = IF Head(b) = "n" THEN @ + 1 ELSE @,
                         !.w = IF ~Blank(Head(b)) /\ ~w.inword THEN @ + 1 ELSE @,
                         !.inword = ~Blank(Head(b))],
               Tail(b))

\* Variant: a read begins outside of a word.
WcStart_out(w) == [w EXCEPT !.inword = FALSE]

\* What wc keeps from one read to the next.
WcStart(w) == w

WcRead ==
  /\ \E n \in 1 .. WcBuf :
       /\ counted.c + n <= Len(text)
       /\ counted' = WcBytes(WcStart(counted), SubSeq(text, counted.c + 1, counted.c + n))
  /\ UNCHANGED <<text, grepped>>

\* Whoever writes the stream goes on, until it is closed and another begins.
Produce ==
  /\ Len(text) < MaxText
  /\ \E ch \in TxChars : text' = Append(text, ch)
  /\ UNCHANGED <<grepped, counted>>

TxBegin(re) ==
  [grepped |-> [re |-> re, pos |-> 0, buf |-> <<>>, out |-> <<>>, ended |-> FALSE],
   counted |-> [c |-> 0, l |-> 0, w |-> 0, inword |-> FALSE]]

TxEof ==
  /\ Len(text) = MaxText
  /\ grepped.ended \/ grepped.pos = MaxText
  /\ counted.c = MaxText
  /\ text' = <<>>
  /\ grepped' = TxBegin(grepped.re).grepped
  /\ counted' = TxBegin(grepped.re).counted

TxInit ==
  /\ text = <<>>
  /\ \E re \in TxRes : grepped = TxBegin(re).grepped /\ counted = TxBegin(re).counted
TxNext == GrepRead \/ GrepFull \/ WcRead \/ Produce \/ TxEof
TxSpec == TxInit /\ [][TxNext]_txVars
-----------------------------------------------------------------------------
(* What a pattern means: ^ and $ at its ends anchor it, and between them   *)
(* stand items, a character or a dot, each perhaps with a star.            *)

RECURSIVE Items(_)
Items(re) ==
  IF re = <<>> THEN <<>>
  ELSE IF Len(re) > 1 /\ re[2] = "*" THEN <<[ch |-> re[1], star |-> TRUE]>> \o Items(From(re, 3))
  ELSE IF re = <<"$">> THEN <<[ch |-> "end", star |-> FALSE]>>
  ELSE <<[ch |-> re[1], star |-> FALSE]>> \o Items(Tail(re))

\* An item matches the k characters of t after position i.
ItemSpan(it, t, i, k) ==
  /\ it.ch = "end" => k = 0 /\ i = Len(t)
  /\ it.ch # "end" => /\ it.star \/ k = 1
                      /\ \A j \in i + 1 .. i + k : it.ch = "." \/ t[j] = it.ch

\* The items divide a piece of t, the whole beginning of it if anchored.
Means(re, t) ==
  LET anchored == re # <<>> /\ re[1] = "^"
      items == Items(IF anchored THEN Tail(re) ELSE re)
      n == Len(items)
  IN  \E cut \in [0 .. n -> 0 .. Len(t)] :
        /\ anchored => cut[0] = 0
        /\ \A k \in 1 .. n :
             cut[k - 1] <= cut[k] /\ ItemSpan(items[k], t, cut[k - 1], cut[k] - cut[k - 1])

\* The lines of the stream that are complete and match, joined.
RECURSIVE Matching(_, _)
Matching(re, s) ==
  IF Newlines(s) = {} THEN <<>>
  ELSE (IF Means(re, SubSeq(s, 1, FirstNl(s) - 1)) THEN SubSeq(s, 1, FirstNl(s)) ELSE <<>>)
         \o Matching(re, From(s, FirstNl(s) + 1))

\* grep has printed exactly the matching lines among those it has read, in
\* order and whole, however read cut the stream into pieces; it gives up
\* only over a line that does not fit its buffer.
GrepExact ==
  In("text") =>
    /\ grepped.out = Matching(grepped.re, SubSeq(text, 1, grepped.pos))
    /\ grepped.ended =>
         \E i \in 0 .. grepped.pos - GrepBuf + 1 : \A j \in i + 1 .. i + GrepBuf - 1 : text[j] # "n"

\* The backtracking matcher of Kernighan and Pike finds a match exactly when the
\* pattern's items can be laid over a piece of the text.
MatchExact ==
  In("text") /\ (grepped.pos = 0 /\ counted.c = 0 /\ Newlines(text) = {}) =>
      \A re \in TxAllRes : match(re, text) = Means(re, text)

\* wc has counted the lines and words of what it has read: a word cut by a read
\* is one word.
WcExact ==
  In("text") =>
    LET s == SubSeq(text, 1, counted.c)
    IN  /\ counted.l = Len(SelectSeq(s, LAMBDA ch : ch = "n"))
        /\ counted.w = Len(SelectSeq([i \in 1 .. Len(s) |-> ~Blank(s[i]) /\ (i = 1 \/ Blank(s[i - 1]))],
                                     LAMBDA start : start))
=============================================================================
