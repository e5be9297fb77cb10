------------------------------- MODULE MCParts -------------------------------
(***************************************************************************)
(* Components that do not share state, side by side: part says which one a *)
(* behaviour is about, and the others stay as they are.                   *)
(***************************************************************************)
EXTENDS Memory, FileTable, Pipe, Spinlock, Console, Uart, Bio, Virtio, Trap, Ticks,
        Umalloc, ShRun, Text, Strings, Mkfs

\* Programs for exec: segments that grow, overlap, wrap around or fail to load,
\* argument vectors and arguments in and outside of memory.
Seg(v, s, k) == [vaddr |-> v, memsz |-> s, kind |-> k]
Arg(a, l) == [at |-> a, len |-> l]
Exec(segs, argv, args) == [image |-> [elf |-> TRUE, segs |-> segs], argv |-> argv, args |-> args]
Small == <<Seg(0, 1, "ok")>>
MCExecs ==
  {Exec(segs, 0, <<Arg(0, 1)>>) : segs \in {
     Small, <<>>, <<Seg(0, 0, "ok")>>, <<Seg(1, 1, "ok")>>, <<Seg(PGSIZE, UINT - 1, "ok")>>,
     <<Seg(PGSIZE, 1, "ok"), Seg(7, 1, "skip"), Seg(0, PGSIZE, "ok")>>,
     <<Seg(0, 1, "ok"), Seg(PGSIZE, 1, "load")>>, <<Seg(0, 1, "ok"), Seg(0, 1, "header")>>}} \cup
  {Exec(Small, argv, <<>>) : argv \in {1, PGSIZE - 1, UINT - 1}} \cup
  {Exec(Small, 0, args) : args \in {
     <<Arg(0, 5), Arg(1, 1)>>, <<Arg(0, 6), Arg(1, 5)>>, <<Arg(0, 1), Arg(UINT - 1, 1)>>,
     <<Arg(0, 0), Arg(0, 0), Arg(0, 0)>>}} \cup
  {[image |-> [elf |-> FALSE, segs |-> <<>>], argv |-> 0, args |-> <<>>]}
MCAddrs == {0, 1, PGSIZE - 1, 2 * PGSIZE}
MCGrow == {-1000, -PGSIZE, 1, PGSIZE + 1, 20 * PGSIZE}

\* Command lines: pipelines of three and two commands, a list in a block with a
\* redirection, a background command, a syntax error, cd.
MCLines ==
  {<<"e", "|", "c", "|", "c">>, <<"y", "<", "e", "|", "e">>,
   <<"(", "e", ";", "e", ")", "|", "c", ">", "e">>, <<"e", "&">>, <<")">>,
   <<"c", "d", " ", "e">>}

\* Patterns for grep, and all patterns of three characters for its matcher.
MCRes == {<<>>, <<"a">>, <<"^", "$">>, <<"a", "*", "$">>}
MCAllRes == UNION {[1 .. k -> {"a", ".", "*", "^", "$"}] : k \in 0 .. 3}

SumInit ==
  /\ part \in {"memory", "files", "pipe", "spinlock", "console", "uart", "bio", "virtio", "trap",
              "ticks", "umalloc", "parse", "shell", "text", "strings", "mkfs"}
  /\ MemInit /\ FtInit /\ Init /\ SpInit /\ ConInit /\ UartInit /\ BioInit /\ VdInit /\ TrInit
  /\ TkInit /\ UmInit /\ SrInit /\ TxInit /\ StrInit /\ MkInit
  \* One state of the components that stand still.
  /\ ~In("pipe") => /\ data = [k \in 0 .. PIPESIZE - 1 |-> CHOOSE b \in Bytes : TRUE]
                    /\ ch = [r \in Readers |-> CHOOSE b \in Bytes : TRUE]
  /\ ~In("text") => grepped.re = <<>>
  /\ ~In("strings") => mem = Zeros

memP == <<memVars, ftVars, vars>>
lockP == <<spVars, trVars, tkVars>>
devP == <<conVars, uartVars, bioVars, vdVars>>
userP == <<umVars, srVars, txVars, strVars, mkVars>>
sumVars == <<part, memP, lockP, devP, userP>>

KeepMem == UNCHANGED <<part, lockP, devP, userP>>
KeepLock == UNCHANGED <<part, memP, devP, userP>>
KeepDev == UNCHANGED <<part, memP, lockP, userP>>
KeepUser == UNCHANGED <<part, memP, lockP, devP>>

SumNext ==
  \/ In("memory") /\ MemNext /\ UNCHANGED <<ftVars, vars>> /\ KeepMem
  \/ In("files") /\ FtNext /\ UNCHANGED <<memVars, vars>> /\ KeepMem
  \/ In("pipe") /\ Next /\ UNCHANGED <<memVars, ftVars>> /\ KeepMem
  \/ In("spinlock") /\ SpNext /\ UNCHANGED <<trVars, tkVars>> /\ KeepLock
  \/ In("trap") /\ TrNext /\ UNCHANGED <<spVars, tkVars>> /\ KeepLock
  \/ In("ticks") /\ TkNext /\ UNCHANGED <<spVars, trVars>> /\ KeepLock
  \/ In("console") /\ ConNext /\ UNCHANGED <<uartVars, bioVars, vdVars>> /\ KeepDev
  \/ In("uart") /\ UartNext /\ UNCHANGED <<conVars, bioVars, vdVars>> /\ KeepDev
  \/ In("bio") /\ BioNext /\ UNCHANGED <<conVars, uartVars, vdVars>> /\ KeepDev
  \/ In("virtio") /\ VdNext /\ UNCHANGED <<conVars, uartVars, bioVars>> /\ KeepDev
  \/ In("umalloc") /\ UmNext /\ UNCHANGED <<srVars, txVars, strVars, mkVars>> /\ KeepUser
  \/ In("parse") /\ getcmd /\ UNCHANGED <<sproc, umVars, txVars, strVars, mkVars>> /\ KeepUser
  \/ In("shell") /\ SrNext /\ UNCHANGED <<umVars, txVars, strVars, mkVars>> /\ KeepUser
  \/ In("text") /\ TxNext /\ UNCHANGED <<umVars, srVars, strVars, mkVars>> /\ KeepUser
  \/ In("strings") /\ StrNext /\ UNCHANGED <<umVars, srVars, txVars, mkVars>> /\ KeepUser
  \/ In("mkfs") /\ MkNext /\ UNCHANGED <<umVars, srVars, txVars, strVars>> /\ KeepUser

SumSpec == SumInit /\ [][SumNext]_sumVars

\* Nobody sleeps while what they sleep for is there: readers and writers of a
\* pipe, of the console and of the UART, holders-to-be of a buffer, and callers
\* of sleep whose time is up.
SleepsWithReason ==
  /\ NoMutualSleep /\ ReaderSleepsOnEmpty /\ WriterSleepsOnFull
  /\ ConSleepsOnEmpty /\ TxSleepsOnFull /\ SleepsOnLocked /\ NoOversleep

\* Bytes pass through the rings unharmed: nobody touches a pipe that has been
\* freed, what is typed is what is read, and what is written is what is sent.
StreamsExact ==
  /\ TypeOK /\ NoUseAfterFree
  /\ ConTypeOK /\ InputExact /\ UartTypeOK /\ TxInOrder /\ FifoFits

\* What the end of a call may never be: a failed call has changed nothing, a
\* child's memory is its parent's, a read of end-of-file returns no byte, and
\* sleep(n) does not return early.
CallsExact == FailureRestores /\ ChildLikeParent /\ EofIsEmptyRead /\ SleepsLongEnough

\* The loops over text, bytes, paths, numbers and formats compute what they are
\* for.
LoopsExact ==
  /\ GrepExact /\ MatchExact /\ WcExact
  /\ MoveExact /\ CopyBounded /\ CompareExact /\ PathExact /\ PrintExact
  /\ FormatExact
=============================================================================
