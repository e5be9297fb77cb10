-------------------------------- MODULE ShRun --------------------------------
(***************************************************************************)
(* How the shell runs a parsed command (main and runcmd of user/sh.c): the *)
(* processes it forks, their descriptors, the pipes between them and the   *)
(* waits. A process runs alone up to its next fork, wait or exit, so the   *)
(* close and dup calls in between belong to one step.                      *)
(*                                                                         *)
(* Programs are named by one letter: "c" reads its input to the end, "e"   *)
(* ends by itself, "y" writes until its write fails.                       *)
(***************************************************************************)
EXTENDS ShParse

CONSTANTS
  ShLines,    \* the lines typed
  ShSlots,    \* processes 1 .. ShSlots; 1 is the shell
  MaxLoose,   \* the next line is typed with at most that many left running
  ShFails     \* subset of {"fork", "pipe", "open", "exec"}

VARIABLE sproc  \* what each process is doing; a child of 0 is one of init's

ShProcs == 1 .. ShSlots
File(k, i) == [k |-> k, i |-> i]
NoFd == File("none", 0)
Console3 == [fd \in 0 .. 4 |-> IF fd < 3 THEN File("console", 0) ELSE NoFd]
NoProc == [pc |-> "none", cmd |-> execcmd, buf |-> <<>>, fds |-> [fd \in 0 .. 4 |-> NoFd],
           parent |-> 0, loose |-> FALSE]
Prompting == [NoProc EXCEPT !.pc = "prompt", !.fds = Console3]

SrInit == line = <<>> /\ sproc = [p \in ShProcs |-> IF p = 1 THEN Prompting ELSE NoProc]

At(p, l) == sproc[p].pc = l
Runs(p, type) == At(p, "run") /\ sproc[p].cmd.type = type
Kids(p) == {q \in ShProcs : sproc[q].pc # "none" /\ sproc[q].parent = p}
FreeSlots == {q \in ShProcs : At(q, "none")}
Holders(f) == {p \in ShProcs : \E fd \in 0 .. 4 : sproc[p].fds[fd] = f}

\* close, dup and open on the descriptors fds; the lowest free one is taken.
Close(fds, fd) == [fds EXCEPT ![fd] = NoFd]
Put(fds, f) == [fds EXCEPT ![Min({fd \in 0 .. 4 : fds[fd] = NoFd})] = f]

\* The processes p has started, directly or not.
RECURSIVE Below(_, _)
Below(p, q) == sproc[q].parent # 0 /\ (sproc[q].parent = p \/ Below(p, sproc[q].parent))

\* exit: the files are closed, children go to init, which waits for them. A
\* panic in the shell leaves its children running.
Exited(p, panic) ==
  [q \in ShProcs |->
     IF q = p THEN IF sproc[p].parent = 0 THEN NoProc
                   ELSE [NoProc EXCEPT !.pc = "zombie", !.parent = sproc[p].parent,
                                       !.loose = sproc[p].loose]
     ELSE IF q \in Kids(p) /\ At(q, "zombie") THEN NoProc
     ELSE IF Below(p, q)
       THEN [sproc[q] EXCEPT !.parent = IF @ = p THEN 0 ELSE @, !.loose = @ \/ panic]
     ELSE sproc[q]]

\* fork1: p goes on as me, the child as kid. A failing fork is a panic.
Fork1(p, me, kid) ==
  \/ /\ FreeSlots # {}
     /\ sproc' = [sproc EXCEPT ![p] = me, ![Min(FreeSlots)] = [kid EXCEPT !.parent = p]]
  \/ /\ FreeSlots = {} \/ "fork" \in ShFails
     /\ sproc' = Exited(p, TRUE)

\* wait: takes a zombie child, or returns at once without children.
Wait(p, me) ==
  \/ \E q \in Kids(p) : At(q, "zombie") /\ sproc' = [sproc EXCEPT ![p] = me, ![q] = NoProc]
  \/ Kids(p) = {} /\ sproc' = [sproc EXCEPT ![p] = me]
-----------------------------------------------------------------------------
(* main().                                                                 *)

\* The next line. cd is done by the shell itself; for the others a child
\* parses and runs the line, and a line it cannot parse ends it. When fork
\* fails the shell ends and init starts another.
IsCd(l) == \A k \in 1 .. 3 : CharAt(l, k) = <<"c", "d", " ">>[k]
main ==
  /\ At(1, "prompt") /\ Cardinality({q \in ShProcs : sproc[q].loose}) <= MaxLoose
  /\ \E l \in ShLines :
       \/ /\ IsCd(l) \/ FreeSlots = {} \/ "fork" \in ShFails
          /\ UNCHANGED <<line, sproc>>
       \/ /\ ~IsCd(l) /\ FreeSlots # {}
          /\ line' = l
          /\ sproc' = [sproc EXCEPT ![1].pc = "wait", ![Min(FreeSlots)] =
               IF parsecmd(l).ok
                 THEN [NoProc EXCEPT !.pc = "run", !.cmd = parsecmd(l).cmd, !.buf = l,
                                     !.fds = sproc[1].fds, !.parent = 1]
                 ELSE [NoProc EXCEPT !.pc = "zombie", !.parent = 1]]

MainWait == At(1, "wait") /\ Wait(1, Prompting) /\ line' = <<>>
-----------------------------------------------------------------------------
(* runcmd().                                                               *)

RunExec(p) ==
  /\ Runs(p, "EXEC")
  /\ \/ sproc[p].cmd.argv # <<>> /\ sproc' = [sproc EXCEPT ![p].pc = "prog"]
     \/ (sproc[p].cmd.argv = <<>> \/ "exec" \in ShFails) /\ sproc' = Exited(p, FALSE)
  /\ UNCHANGED line

RunRedir(p) ==
  /\ Runs(p, "REDIR")
  /\ \/ sproc' = [sproc EXCEPT ![p].cmd = sproc[p].cmd.cmd,
                               ![p].fds = Put(Close(@, sproc[p].cmd.fd), File("file", 0))]
     \/ "open" \in ShFails /\ sproc' = Exited(p, FALSE)
  /\ UNCHANGED line

\* Variant: does not wait for the left command.
RunList_nowait(p) ==
  /\ Runs(p, "LIST")
  /\ Fork1(p, [sproc[p] EXCEPT !.cmd = sproc[p].cmd.right], [sproc[p] EXCEPT !.cmd = sproc[p].cmd.left])
  /\ UNCHANGED line

RunList(p) ==
  /\ Runs(p, "LIST")
  /\ Fork1(p, [sproc[p] EXCEPT !.pc = "list"], [sproc[p] EXCEPT !.cmd = sproc[p].cmd.left])
  /\ UNCHANGED line

ListRight(p) ==
  /\ At(p, "list")
  /\ Wait(p, [sproc[p] EXCEPT !.pc = "run", !.cmd = sproc[p].cmd.right])
  /\ UNCHANGED line

\* The pipe a process makes gets the descriptors p[0] = 3 and p[1] = 4.
PipesInUse == {sproc[q].fds[fd].i : q \in ShProcs, fd \in 0 .. 4}
FreePipes == (1 .. 3 * ShSlots) \ PipesInUse
RunPipe(p) ==
  /\ Runs(p, "PIPE")
  /\ \/ sproc' = [sproc EXCEPT ![p].pc = "left",
                    ![p].fds = Put(Put(@, File("r", Min(FreePipes))), File("w", Min(FreePipes)))]
     \/ "pipe" \in ShFails /\ sproc' = Exited(p, TRUE)
  /\ UNCHANGED line

\* Variant: p[1] stays open in the left command.
LeftFds_keep(fds) == Close(Put(Close(fds, 1), fds[4]), 3)

LeftFds(fds) == Close(Close(Put(Close(fds, 1), fds[4]), 3), 4)

RightFds(fds) == Close(Close(Put(Close(fds, 0), fds[3]), 3), 4)

PipeLeft(p) ==
  /\ At(p, "left")
  /\ Fork1(p, [sproc[p] EXCEPT !.pc = "right"],
           [sproc[p] EXCEPT !.pc = "run", !.cmd = sproc[p].cmd.left, !.fds = LeftFds(@)])
  /\ UNCHANGED line

PipeRight(p) ==
  /\ At(p, "right")
  /\ Fork1(p, [sproc[p] EXCEPT !.pc = "wait2", !.fds = Close(Close(@, 3), 4)],
           [sproc[p] EXCEPT !.pc = "run", !.cmd = sproc[p].cmd.right, !.fds = RightFds(@)])
  /\ UNCHANGED line

\* Variant: exits after the first of the two commands.
PipeWait_once(p) ==
  /\ \/ sproc[p].pc \in {"wait1", "wait2"} /\ Wait(p, [sproc[p] EXCEPT !.pc = "exit"])
     \/ At(p, "exit") /\ sproc' = Exited(p, FALSE)
  /\ UNCHANGED line

\* Variant: waits for a third command, again and again.
PipeWait_more(p) ==
  /\ \/ At(p, "wait2") /\ Wait(p, [sproc[p] EXCEPT !.pc = "wait1"])
     \/ At(p, "wait1") /\ Wait(p, sproc[p])
     \/ At(p, "exit") /\ sproc' = Exited(p, FALSE)
  /\ UNCHANGED line

PipeWait(p) ==
  /\ \/ At(p, "wait2") /\ Wait(p, [sproc[p] EXCEPT !.pc = "wait1"])
     \/ At(p, "wait1") /\ Wait(p, [sproc[p] EXCEPT !.pc = "exit"])
     \/ At(p, "exit") /\ sproc' = Exited(p, FALSE)
  /\ UNCHANGED line

RunBack(p) ==
  /\ Runs(p, "BACK")
  /\ Fork1(p, [sproc[p] EXCEPT !.pc = "exit"],
           [sproc[p] EXCEPT !.cmd = sproc[p].cmd.cmd, !.loose = TRUE])
  /\ UNCHANGED line

\* The end of a program: of "c" when nobody can write to the pipe it reads, of
\* "y" when nobody can read from the pipe it writes to. Terminal input ends.
ProgName(p) == CharAt(sproc[p].buf, sproc[p].cmd.argv[1].q)
ProgEnd(p) ==
  /\ At(p, "prog")
  /\ ProgName(p) = "c" /\ sproc[p].fds[0].k = "r" => Holders(File("w", sproc[p].fds[0].i)) = {}
  /\ ProgName(p) = "y" => /\ sproc[p].fds[1].k = "w"
                          /\ Holders(File("r", sproc[p].fds[1].i)) = {}
  /\ sproc' = Exited(p, FALSE)
  /\ UNCHANGED line

ShStep(p) ==
  \/ RunExec(p) \/ RunRedir(p) \/ RunList(p) \/ ListRight(p) \/ RunPipe(p) \/ PipeLeft(p)
  \/ PipeRight(p) \/ PipeWait(p) \/ RunBack(p) \/ ProgEnd(p)

SrNext == main \/ MainWait \/ \E p \in ShProcs : ShStep(p)

srVars == <<line, sproc>>
SrFair == WF_srVars(MainWait) /\ \A p \in ShProcs : WF_srVars(ShStep(p))
SrSpec == SrInit /\ [][SrNext]_srVars
-----------------------------------------------------------------------------
(* Properties.                                                             *)

\* A program, and the shell while it waits, has no end of a pipe except as
\* its input and output: nobody keeps a pipe open who does not use it.
NoStrayEnds ==
  In("shell") =>
    \A p \in ShProcs :
      sproc[p].pc \in {"prog", "prompt", "wait", "list", "wait1", "wait2", "exit"} =>
        \A fd \in 0 .. 4 : LET k == sproc[p].fds[fd].k
                           IN  (k = "r" => fd = 0) /\ (k = "w" => fd = 1)

\* A command starts only when the process that runs it has no command running:
\* the parts of a list run one after the other.
StartsAlone ==
  In("shell") =>
    \A p \in ShProcs : sproc[p].pc \in {"run", "prog", "prompt"} => Kids(p) = {}

\* At the prompt nothing of earlier commands is left except what was started
\* with & and what a panic of the shell left behind: a pipeline is over only
\* when both its sides are.
PromptWhenDone ==
  In("shell") /\ At(1, "prompt") => \A q \in ShProcs \ {1} : sproc[q].pc # "none" => sproc[q].loose

\* Every command ends and the shell comes back: a reader sees the end of its
\* pipe and a writer the loss of its reader, whatever runs in the background.
PromptReturns == At(1, "wait") ~> At(1, "prompt")

\* Commands run when they should and with the descriptors they should have.
ShellSound == StartsAlone /\ NoStrayEnds /\ PromptWhenDone
=============================================================================
