------------------------------- MODULE ShParse -------------------------------
(***************************************************************************)
(* The parser of the shell (user/sh.c): a recursive descent over the       *)
(* characters of a line that builds a tree of commands whose words are     *)
(* pieces of the line, and nulterminate, which cuts the line into strings. *)
(* It is compared with the grammar it is meant for, on every short line.   *)
(***************************************************************************)
EXTENDS Integers, Sequences, FiniteSets, FiniteSetsExt, Parts

CONSTANTS
  ShChars,     \* characters of a line
  MaxLine,     \* longest line typed
  MAXARGS

VARIABLE line  \* buf of main(), up to the first NUL

whitespace == {" "}
symbols == {"<", "|", ">", "&", ";", "(", ")"}

\* The line is s[1 .. es - 1], and a NUL follows.
CharAt(s, i) == IF i <= Len(s) THEN s[i] ELSE "nul"
SkipSpace(s, i) == Min({j \in i .. Len(s) + 1 : CharAt(s, j) \notin whitespace})
WordEnd(s, i) ==
  Min({j \in i .. Len(s) + 1 : CharAt(s, j) \in whitespace \cup symbols \cup {"nul"}})

\* Variant: the end of the token is taken after the space that follows it.
TokenEnd_skip(s, q) ==
  SkipSpace(s, IF CharAt(s, q) = "nul" THEN q
               ELSE IF CharAt(s, q) = ">" /\ CharAt(s, q + 1) = ">" THEN q + 2
               ELSE IF CharAt(s, q) \in symbols THEN q + 1
               ELSE WordEnd(s, q))

TokenEnd(s, q) ==
  IF CharAt(s, q) = "nul" THEN q
  ELSE IF CharAt(s, q) = ">" /\ CharAt(s, q + 1) = ">" THEN q + 2
  ELSE IF CharAt(s, q) \in symbols THEN q + 1
  ELSE WordEnd(s, q)

\* ret ("+" is >>, "a" a word), q, eq and the new *ps.
Token(s, q, eq) ==
  [tok |-> IF CharAt(s, q) \in symbols \cup {"nul"}
             THEN IF CharAt(s, q) = ">" /\ eq = q + 2 THEN "+" ELSE CharAt(s, q)
             ELSE "a",
   q |-> q, eq |-> eq, ps |-> SkipSpace(s, eq)]
gettoken(s, i) == Token(s, SkipSpace(s, i), TokenEnd(s, SkipSpace(s, i)))

peek(s, i, toks) == CharAt(s, SkipSpace(s, i)) \in toks

\* The constructors. A word is the piece q .. eq - 1 of the line.
Word(t) == [q |-> t.q, eq |-> t.eq]
execcmd == [type |-> "EXEC", argv |-> <<>>]
Mode(tok) == CASE tok = "<" -> "O_RDONLY" [] tok = ">" -> "O_TRUNC" [] OTHER -> "O_CREATE"
redircmd(cmd, w, tok) ==
  [type |-> "REDIR", cmd |-> cmd, file |-> w, mode |-> Mode(tok),
   fd |-> IF tok = "<" THEN 0 ELSE 1]
pipecmd(l, r) == [type |-> "PIPE", left |-> l, right |-> r]
listcmd(l, r) == [type |-> "LIST", left |-> l, right |-> r]
backcmd(c) == [type |-> "BACK", cmd |-> c]

\* What a parsing function returns: the command and where it stopped, or a
\* panic, which ends the process.
Parsed(cmd, i) == [ok |-> TRUE, cmd |-> cmd, ps |-> i]
Panic == [ok |-> FALSE, cmd |-> execcmd, ps |-> 0]

RECURSIVE parseredirs(_, _, _), RedirFile(_, _, _, _)
parseredirs(cmd, s, i) ==
  IF peek(s, i, {"<", ">"})
    THEN RedirFile(cmd, s, gettoken(s, i).tok, gettoken(s, gettoken(s, i).ps))
    ELSE Parsed(cmd, i)
RedirFile(cmd, s, tok, f) ==
  IF f.tok = "a" THEN parseredirs(redircmd(cmd, Word(f), tok), s, f.ps) ELSE Panic

\* cmd->argv[argc] = q, for the execcmd below the redirections in ret.
RECURSIVE AddArg(_, _)
AddArg(ret, w) ==
  IF ret.type = "EXEC" THEN [ret EXCEPT !.argv = Append(@, w)]
                       ELSE [ret EXCEPT !.cmd = AddArg(@, w)]

\* The loop of parseexec, from the point where ret is parsed.
RECURSIVE ExecWords(_, _, _), ExecWord(_, _, _, _)
ExecWords(r, s, argc) ==
  IF ~r.ok \/ peek(s, r.ps, {"|", ")", "&", ";"}) THEN r
  ELSE ExecWord(r, s, argc, gettoken(s, r.ps))
ExecWord(r, s, argc, t) ==
  IF t.tok = "nul" THEN Parsed(r.cmd, t.ps)
  ELSE IF t.tok # "a" \/ argc + 1 >= MAXARGS THEN Panic
  ELSE ExecWords(parseredirs(AddArg(r.cmd, Word(t)), s, t.ps), s, argc + 1)

RECURSIVE parseline(_, _), LineBack(_, _), LineRest(_, _), parsepipe(_, _),
          PipeRest(_, _), parseblock(_, _), BlockEnd(_, _), parseexec(_, _)
parseexec(s, i) ==
  IF peek(s, i, {"("}) THEN parseblock(s, i)
  ELSE ExecWords(parseredirs(execcmd, s, i), s, 0)

\* A block: "(", a line, ")" and redirections.
parseblock(s, i) == BlockEnd(s, parseline(s, gettoken(s, i).ps))
BlockEnd(s, r) ==
  IF r.ok /\ peek(s, r.ps, {")"})
    THEN parseredirs(r.cmd, s, gettoken(s, r.ps).ps)
    ELSE Panic

parsepipe(s, i) == PipeRest(s, parseexec(s, i))
PipeRest(s, l) ==
  IF ~l.ok \/ ~peek(s, l.ps, {"|"}) THEN l
  ELSE LET r == parsepipe(s, gettoken(s, l.ps).ps)
       IN  IF r.ok THEN Parsed(pipecmd(l.cmd, r.cmd), r.ps) ELSE Panic

\* Variant: one "&" at most.
LineBack_one(s, r) ==
  IF r.ok /\ peek(s, r.ps, {"&"})
    THEN Parsed(backcmd(r.cmd), gettoken(s, r.ps).ps)
    ELSE r

parseline(s, i) == LineRest(s, LineBack(s, parsepipe(s, i)))
LineBack(s, r) ==
  IF r.ok /\ peek(s, r.ps, {"&"})
    THEN LineBack(s, Parsed(backcmd(r.cmd), gettoken(s, r.ps).ps))
    ELSE r
LineRest(s, l) ==
  IF ~l.ok \/ ~peek(s, l.ps, {";"}) THEN l
  ELSE LET r == parseline(s, gettoken(s, l.ps).ps)
       IN  IF r.ok THEN Parsed(listcmd(l.cmd, r.cmd), r.ps) ELSE Panic

\* parsecmd, without nulterminate: nothing may be left over.
Complete(s, r) == IF r.ok /\ SkipSpace(s, r.ps) = Len(s) + 1 THEN r ELSE Panic
parsecmd(s) == Complete(s, parseline(s, 1))

\* Where nulterminate writes a NUL.
RECURSIVE nulterminate(_)
nulterminate(cmd) ==
  CASE cmd.type = "EXEC" -> {cmd.argv[k].eq : k \in DOMAIN cmd.argv}
    [] cmd.type = "REDIR" -> nulterminate(cmd.cmd) \cup {cmd.file.eq}
    [] cmd.type = "BACK" -> nulterminate(cmd.cmd)
    [] OTHER -> nulterminate(cmd.left) \cup nulterminate(cmd.right)

\* The lines: what getcmd has read so far; main reads the next one after it.
ShInit == line = <<>>
getcmd ==
  \/ Len(line) < MaxLine /\ \E c \in ShChars : line' = Append(line, c)
  \/ line # <<>> /\ line' = <<>>
ShSpec == ShInit /\ [][getcmd]_line
-----------------------------------------------------------------------------
(* The grammar, as the set of all trees of a sequence of tokens:           *)
(*   line  ::= stmt | stmt ; line        stmt ::= pipe | stmt &            *)
(*   pipe  ::= cmd | cmd "|" pipe        redir ::= < word | > word | >> word *)
(*   cmd   ::= ( line ) redir*  |  (word | redir)* with less than MAXARGS words *)

IsWordChar(s, j) == j \in 1 .. Len(s) /\ s[j] \notin whitespace \cup symbols

\* Where tokens start: a word where no word goes on, and of several > in a
\* row every other one.
TokenStarts(s) ==
  {j \in 1 .. Len(s) :
     \/ IsWordChar(s, j) /\ ~IsWordChar(s, j - 1)
     \/ s[j] \in symbols \ {">"}
     \/ /\ s[j] = ">"
        /\ \E k \in 1 .. j : /\ \A m \in k .. j : s[m] = ">"
                             /\ CharAt(<<"nul">> \o s, k) # ">"
                             /\ (j - k) % 2 = 0}
TokenFrom(s, j) ==
  IF IsWordChar(s, j)
    THEN [tok |-> "a", q |-> j, eq |-> Max({m \in j .. Len(s) : \A k \in j .. m : IsWordChar(s, k)}) + 1]
    ELSE [tok |-> IF s[j] = ">" /\ CharAt(s, j + 1) = ">" THEN "+" ELSE s[j], q |-> j, eq |-> 0]
RECURSIVE TokensOf(_, _)
TokensOf(s, S) ==
  IF S = {} THEN <<>> ELSE <<TokenFrom(s, Min(S))>> \o TokensOf(s, S \ {Min(S)})
Tokens(s) == TokensOf(s, TokenStarts(s))

Where(ts, toks) == {k \in DOMAIN ts : ts[k].tok \in toks}
Upto(ts, k) == SubSeq(ts, 1, k - 1)
After(ts, k) == SubSeq(ts, k + 1, Len(ts))

\* Words and redirections: the commands redirect from left to right.
RedirOps(ts) == Where(ts, {"<", ">", "+"})
Args(ts) == {k \in Where(ts, {"a"}) : k - 1 \notin RedirOps(ts)}
Flat(ts) ==
  /\ Where(ts, {"a"}) \cup RedirOps(ts) = DOMAIN ts
  /\ \A k \in RedirOps(ts) : k + 1 \in Where(ts, {"a"})
RECURSIVE Redirected(_, _, _)
Redirected(cmd, ts, K) ==
  IF K = {} THEN cmd
  ELSE Redirected(redircmd(cmd, Word(ts[Min(K) + 1]), ts[Min(K)].tok), ts, K \ {Min(K)})
RECURSIVE WordsOf(_, _)
WordsOf(ts, K) == IF K = {} THEN <<>> ELSE <<Word(ts[Min(K)])>> \o WordsOf(ts, K \ {Min(K)})

RECURSIVE Lines(_), Stmts(_), Pipes(_), Cmds(_)
Cmds(ts) ==
  {Redirected([type |-> "EXEC", argv |-> WordsOf(ts, Args(ts))], ts, RedirOps(ts)) :
     x \in {y \in {0} : Flat(ts) /\ Cardinality(Args(ts)) < MAXARGS}}
  \cup UNION {{Redirected(c, After(ts, k), RedirOps(After(ts, k))) : c \in Lines(SubSeq(ts, 2, k - 1))} :
     k \in {m \in Where(ts, {")"}) : /\ ts[1].tok = "("
                                     /\ Flat(After(ts, m)) /\ Args(After(ts, m)) = {}}}
Pipes(ts) ==
  Cmds(ts) \cup UNION {{pipecmd(l, r) : l \in Cmds(Upto(ts, k)), r \in Pipes(After(ts, k))} :
                         k \in Where(ts, {"|"})}
Stmts(ts) ==
  Pipes(ts) \cup {backcmd(c) : c \in IF Len(ts) \in Where(ts, {"&"}) THEN Stmts(Upto(ts, Len(ts))) ELSE {}}
Lines(ts) ==
  Stmts(ts) \cup UNION {{listcmd(l, r) : l \in Stmts(Upto(ts, k)), r \in Lines(After(ts, k))} :
                          k \in Where(ts, {";"})}

\* The parser accepts exactly the lines of the grammar and builds the only tree
\* the grammar gives them; every other line ends in a panic, none in a tree
\* for a part of the line.
ParseIsGrammar ==
  In("parse") =>
    Lines(Tokens(line)) = IF parsecmd(line).ok THEN {parsecmd(line).cmd} ELSE {}

RECURSIVE AllWords(_)
AllWords(cmd) ==
  CASE cmd.type = "EXEC" -> {cmd.argv[k] : k \in DOMAIN cmd.argv}
    [] cmd.type = "REDIR" -> AllWords(cmd.cmd) \cup {cmd.file}
    [] cmd.type = "BACK" -> AllWords(cmd.cmd)
    [] OTHER -> AllWords(cmd.left) \cup AllWords(cmd.right)

\* The string that starts at q once nulterminate has written NULs at Z.
CString(s, q, Z) ==
  SubSeq(s, q, Min({j \in q .. Len(s) + 1 : j \in Z \/ j = Len(s) + 1}) - 1)

\* "NUL-terminate all the counted strings" (sh.c): after nulterminate every
\* word of the command is, as a C string, a whole word of the line: no NUL
\* cuts a word that shares the line with it, and none is missing.
WordsIntact ==
  In("parse") =>
    LET r == parsecmd(line)
    IN  r.ok => \A w \in AllWords(r.cmd) :
                  LET str == CString(line, w.q, nulterminate(r.cmd))
                  IN  /\ str # <<>> /\ \A k \in DOMAIN str : IsWordChar(str, k)
                      /\ ~IsWordChar(line, w.q - 1) /\ ~IsWordChar(line, w.q + Len(str))

\* The shell runs the commands the line means, with the words it contains.
ParseExact == ParseIsGrammar /\ WordsIntact
=============================================================================
