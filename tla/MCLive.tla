------------------------------- MODULE MCLive -------------------------------
(***************************************************************************)
(* Components that do not share state, side by side: part says which one a *)
(* behaviour is about, and the others stay in their initial states. The    *)
(* run checks each of them, with its fairness.                             *)
(***************************************************************************)
EXTENDS Pipe, Uart, Virtio, Ticks, ShRun

CONSTANTS r1, w1, w2, c1, p1, p2, p3

\* The lines typed into the shell: pipelines of three and two commands, a list
\* in a block with a redirection, a background command, a syntax error, cd.
MCLines ==
  {<<"e", "|", "c", "|", "c">>, <<"y", "|", "e">>,
   <<"(", "e", ";", "e", ")", "|", "c", ">", "e">>, <<"e", "&">>, <<")">>,
   <<"c", "d", " ", "e">>}

SumInit ==
  /\ part \in {"pipe", "uart", "virtio", "ticks", "shell"}
  /\ Init /\ UartInit /\ VdInit /\ TkInit /\ SrInit
  /\ ~In("pipe") => /\ data = [k \in 0 .. PIPESIZE - 1 |-> CHOOSE b \in Bytes : TRUE]
                      /\ ch = [r \in Readers |-> CHOOSE b \in Bytes : TRUE]

SumVars == <<part, vars, uartVars, vdVars, tkVars, srVars>>
InPipe == In("pipe") /\ UNCHANGED <<part, uartVars, vdVars, tkVars, srVars>>
InUart == In("uart") /\ UNCHANGED <<part, vars, vdVars, tkVars, srVars>>
InVirtio == In("virtio") /\ UNCHANGED <<part, vars, uartVars, tkVars, srVars>>
InTicks == In("ticks") /\ UNCHANGED <<part, vars, uartVars, vdVars, srVars>>
InShell == In("shell") /\ UNCHANGED <<part, vars, uartVars, vdVars, tkVars>>

SumNext ==
  \/ InPipe /\ Next
  \/ InUart /\ UartNext
  \/ InVirtio /\ VdNext
  \/ InTicks /\ TkNext
  \/ InShell /\ SrNext

\* The fairness of every component (FairSpec of Pipe, UartFair, VdFair, TkFair,
\* SrFair). Only one of them takes steps, so that the k-th fair step of all of
\* them together is the k-th fair step of that one.
StrongStep(k) ==
  \/ InPipe /\ k \in 1 .. 3 /\ Step(<<r1, w1, w2>>[k])
  \/ InUart /\ k \in 1 .. 4 /\ UartStep(<<w1, w2, c1, Handler>>[k])
  \/ InVirtio /\ k \in 1 .. 3 /\ VdStep(<<p1, p2, p3>>[k])
  \/ InVirtio /\ k = 4 /\ VdHandler
  \/ InTicks /\ k \in 1 .. 2 /\ TkStep(<<p1, p2>>[k])
  \/ InTicks /\ k = 3 /\ clockintr
WeakStep(k) ==
  \/ InUart /\ k = 1 /\ uartintr
  \/ InUart /\ k = 2 /\ Transmit
  \/ InVirtio /\ k = 1 /\ DevFetch
  \/ InVirtio /\ k = 2 /\ DevRaise
  \/ InVirtio /\ k \in 3 .. 5 /\ DevFor(<<0, 0, p1, p2, p3>>[k])
  \/ InShell /\ k \in 1 .. 6 /\ ShStep(k)
  \/ InShell /\ k = 7 /\ MainWait

SumSpec ==
  /\ SumInit /\ [][SumNext]_SumVars
  /\ \A k \in 1 .. 4 : SF_SumVars(StrongStep(k))
  /\ \A k \in 1 .. 7 : WF_SumVars(WeakStep(k))

=============================================================================
