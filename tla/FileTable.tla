------------------------------ MODULE FileTable ------------------------------
(***************************************************************************)
(* Open files: ftable of file.c, the descriptors p->ofile[] and the calls  *)
(* that share them: open, dup, close, pipe, fork, forkn and exit.          *)
(*                                                                         *)
(* A section under ftable.lock is a step. fileclose drops the lock before  *)
(* it closes the pipe end or puts the inode: ff is its copy of the file.   *)
(***************************************************************************)
EXTENDS Integers, Sequences, FiniteSets, FiniteSetsExt, Parts

CONSTANTS
  FtNPROC,      \* process slots: 1 .. FtNPROC
  NFILE,      \* entries of ftable: 1 .. NFILE
  NOFILE,     \* descriptors of a process: 0 .. NOFILE - 1
  NPipes,     \* pages kalloc has for pipes
  ForknFails  \* allocproc or uvmcopy may fail in forkn after some children

ASSUME FtAssumption ==
  /\ FtNPROC \in Nat \ {0} /\ NFILE \in Nat /\ NOFILE \in Nat /\ NPipes \in Nat
  /\ ForknFails \in BOOLEAN

VARIABLES
  ft,         \* ftable.file[]: ref, type ("r" and "w" are ends of a pipe), pipe
  pipe,       \* the open ends of every pipe
  ofile,      \* p->ofile[], 0 is none; also of slots that are not in use
  run         \* per slot: is it in use, exiting, and what it closes next

ftVars == <<ft, pipe, ofile, run>>

FtSlots == 1 .. FtNPROC
Files == 1 .. NFILE
Fds == 0 .. NOFILE - 1
NoFile == [ref |-> 0, type |-> "none", pipe |-> 0]
Unused == [pc |-> "unused", fd |-> -1, todo |-> <<>>, ff |-> NoFile]
Idle == [Unused EXCEPT !.pc = "user"]
Busy(p) == run[p].todo # <<>> \/ run[p].ff # NoFile
User(p) == run[p].pc = "user" /\ ~Busy(p)

FtInit ==
  /\ ft = [f \in Files |-> NoFile]
  /\ pipe = [i \in 1 .. NPipes |-> {}]
  /\ ofile = [p \in FtSlots |-> [fd \in Fds |-> 0]]
  /\ run = [p \in FtSlots |-> IF p = 1 THEN Idle ELSE Unused]

FreeFiles == {f \in Files : ft[f].ref = 0}
FreeFds(p) == {fd \in Fds : ofile[p][fd] = 0}

\* open: filealloc, fdalloc, then the fields. Without a free file or a free
\* descriptor all is undone, and fileclose finds FD_NONE.
sys_open(p) ==
  /\ User(p) /\ FreeFiles # {} /\ FreeFds(p) # {}
  /\ ft' = [ft EXCEPT ![Min(FreeFiles)] = [ref |-> 1, type |-> "inode", pipe |-> 0]]
  /\ ofile' = [ofile EXCEPT ![p][Min(FreeFds(p))] = Min(FreeFiles)]
  /\ UNCHANGED <<pipe, run>>

\* Variant: the new descriptor is not counted.
sys_dup_nocount(p, fd) ==
  /\ User(p) /\ ofile[p][fd] # 0 /\ FreeFds(p) # {}
  /\ ofile' = [ofile EXCEPT ![p][Min(FreeFds(p))] = ofile[p][fd]]
  /\ UNCHANGED <<ft, pipe, run>>

sys_dup(p, fd) ==
  /\ User(p) /\ ofile[p][fd] # 0 /\ FreeFds(p) # {}
  /\ ofile' = [ofile EXCEPT ![p][Min(FreeFds(p))] = ofile[p][fd]]
  /\ ft' = [ft EXCEPT ![ofile[p][fd]].ref = @ + 1]
  /\ UNCHANGED <<pipe, run>>

\* pipealloc, then two descriptors and copyout. If one of these fails the two
\* files are closed again, the read end first.
sys_pipe(p) ==
  LET rf == Min(FreeFiles)
      wf == Min(FreeFiles \ {rf})
      i == Min({j \in 1 .. NPipes : pipe[j] = {}})
      fd0 == Min(FreeFds(p))
      fd1 == Min(FreeFds(p) \ {fd0})
  IN  /\ User(p) /\ Cardinality(FreeFiles) >= 2 /\ \E j \in 1 .. NPipes : pipe[j] = {}
      /\ ft' = [ft EXCEPT ![rf] = [ref |-> 1, type |-> "r", pipe |-> i],
                          ![wf] = [ref |-> 1, type |-> "w", pipe |-> i]]
      /\ pipe' = [pipe EXCEPT ![i] = {"r", "w"}]
      /\ \/ /\ Cardinality(FreeFds(p)) >= 2
            /\ ofile' = [ofile EXCEPT ![p][fd0] = rf, ![p][fd1] = wf]
            /\ UNCHANGED run
         \/ /\ run' = [run EXCEPT ![p].todo = <<rf, wf>>]
            /\ UNCHANGED ofile

sys_close(p, fd) ==
  /\ User(p) /\ ofile[p][fd] # 0
  /\ ofile' = [ofile EXCEPT ![p][fd] = 0]
  /\ run' = [run EXCEPT ![p].todo = <<ofile[p][fd]>>]
  /\ UNCHANGED <<ft, pipe>>

\* Variant: the last reference does not go on to close ff.
DropRef_drop(p) ==
  LET f == Head(run[p].todo)
  IN  /\ run[p].todo # <<>> /\ run[p].ff = NoFile /\ ft[f].ref >= 1
      /\ run' = [run EXCEPT ![p].todo = Tail(@)]
      /\ ft' = [ft EXCEPT ![f] = IF @.ref > 1 THEN [@ EXCEPT !.ref = @ - 1] ELSE NoFile]
      /\ UNCHANGED <<pipe, ofile>>

\* Variant: the type is left in the free entry.
DropRef_type(p) ==
  LET f == Head(run[p].todo)
  IN  /\ run[p].todo # <<>> /\ run[p].ff = NoFile /\ ft[f].ref >= 1
      /\ ft' = [ft EXCEPT ![f].ref = @ - 1]
      /\ run' = [run EXCEPT ![p].todo = Tail(@),
                            ![p].ff = IF ft[f].ref > 1 THEN NoFile ELSE [ft[f] EXCEPT !.ref = 0]]
      /\ UNCHANGED <<pipe, ofile>>

\* The section of fileclose under ftable.lock. A ref of 0 is a panic.
DropRef(p) ==
  LET f == Head(run[p].todo)
  IN  /\ run[p].todo # <<>> /\ run[p].ff = NoFile /\ ft[f].ref >= 1
      /\ \/ /\ ft[f].ref > 1
            /\ ft' = [ft EXCEPT ![f].ref = @ - 1]
            /\ run' = [run EXCEPT ![p].todo = Tail(@)]
         \/ /\ ft[f].ref = 1
            /\ ft' = [ft EXCEPT ![f] = NoFile]
            /\ run' = [run EXCEPT ![p].todo = Tail(@), ![p].ff = [ft[f] EXCEPT !.ref = 0]]
      /\ UNCHANGED <<pipe, ofile>>

\* Its end: pipeclose, or iput in a transaction (module Fs).
CloseEnd(p) ==
  LET ff == run[p].ff
  IN  /\ ff # NoFile
      /\ pipe' = IF ff.type = "inode" THEN pipe ELSE [pipe EXCEPT ![ff.pipe] = @ \ {ff.type}]
      /\ run' = [run EXCEPT ![p].ff = NoFile]
      /\ UNCHANGED <<ft, ofile>>

\* The descriptors of a child; what freeproc left in the slot stays where the
\* parent has none.
Inherited(p, q) == [fd \in Fds |-> IF ofile[p][fd] # 0 THEN ofile[p][fd] ELSE ofile[q][fd]]
Copies(p, n) == [f \in Files |->
  [ft[f] EXCEPT !.ref = @ + n * Cardinality({fd \in Fds : ofile[p][fd] = f})]]

fork(p, q) ==
  /\ User(p) /\ run[q].pc = "unused"
  /\ ft' = Copies(p, 1)
  /\ ofile' = [ofile EXCEPT ![q] = Inherited(p, q)]
  /\ run' = [run EXCEPT ![q] = Idle]
  /\ UNCHANGED pipe

\* forkn with the children qs. When it fails after these were made, freeproc
\* takes their slots back and leaves ofile[] and the counts as they are.
forkn(p, qs) ==
  /\ User(p) /\ \A q \in qs : run[q].pc = "unused"
  /\ ft' = Copies(p, Cardinality(qs))
  /\ ofile' = [q \in FtSlots |-> IF q \in qs THEN Inherited(p, q) ELSE ofile[q]]
  /\ \/ run' = [q \in FtSlots |-> IF q \in qs THEN Idle ELSE run[q]]
     \/ ForknFails /\ UNCHANGED run
  /\ UNCHANGED pipe

\* exit closes one descriptor after the other and clears each after that.
exit(p) ==
  LET open == {fd \in Fds : ofile[p][fd] # 0}
  IN  /\ p # 1 /\ ~Busy(p)
      /\ \/ /\ run[p].pc = "user"
            /\ run' = [run EXCEPT ![p].pc = "exit"]
            /\ UNCHANGED ofile
         \/ /\ run[p].pc = "exit" /\ run[p].fd = -1 /\ open # {}
            /\ run' = [run EXCEPT ![p].fd = Min(open), ![p].todo = <<ofile[p][Min(open)]>>]
            /\ UNCHANGED ofile
         \/ /\ run[p].pc = "exit" /\ run[p].fd # -1
            /\ ofile' = [ofile EXCEPT ![p][run[p].fd] = 0]
            /\ run' = [run EXCEPT ![p].fd = -1]
         \/ /\ run[p].pc = "exit" /\ run[p].fd = -1 /\ open = {}
            /\ run' = [run EXCEPT ![p] = Unused]
            /\ UNCHANGED ofile
      /\ UNCHANGED <<ft, pipe>>

FtNext ==
  \E p \in FtSlots :
    \/ sys_open(p) \/ sys_pipe(p) \/ DropRef(p) \/ CloseEnd(p) \/ exit(p)
    \/ \E fd \in Fds : sys_dup(p, fd) \/ sys_close(p, fd)
    \/ \E q \in FtSlots : fork(p, q)
    \/ \E qs \in SUBSET FtSlots \ {{}} : forkn(p, qs)

FtSpec == FtInit /\ [][FtNext]_ftVars
-----------------------------------------------------------------------------
(* Properties.                                                             *)

\* Entries and descriptors have their types; a free entry is FD_NONE, so that
\* a failing open or pipe closes nothing that an earlier user left there.
FtTypeOK ==
  In("files") =>
    /\ \A f \in Files : ft[f].ref \in 0 .. FtNPROC * (NOFILE + 2) /\ (ft[f].ref = 0) = (ft[f] = NoFile)
    /\ \A i \in 1 .. NPipes : pipe[i] \subseteq {"r", "w"}
    /\ \A p \in FtSlots, fd \in Fds : ofile[p][fd] \in 0 .. NFILE

\* The references to f: descriptors of processes, but for the one exit is
\* closing, and files that fileclose has been called for (the j-th from the end
\* of todo).
Descriptors(f) ==
  {d \in FtSlots \X Fds :
     run[d[1]].pc # "unused" /\ ofile[d[1]][d[2]] = f /\ run[d[1]].fd # d[2]}
FromEnd(s, j) == s[Len(s) + 1 - j]
Closing(f) ==
  {d \in FtSlots \X {1, 2} :
     d[2] <= Len(run[d[1]].todo) /\ FromEnd(run[d[1]].todo, d[2]) = f}

\* "int ref; // reference count" (file.h): it counts the references exactly, so
\* that no file is closed under a process that has it open, and the last close
\* is noticed. A stale descriptor would be one without a count.
RefsExact ==
  In("files") =>
    \A f \in Files : ft[f].ref = Cardinality(Descriptors(f)) + Cardinality(Closing(f))

\* An end of a pipe is open exactly as long as a file stands for it or the
\* last fileclose of it is on its way: readers see end-of-file, and writers
\* that nobody reads, neither too early nor never.
EndsFollowFiles ==
  In("files") =>
    \A i \in 1 .. NPipes, end \in {"r", "w"} :
      end \in pipe[i] <=> \/ \E f \in Files : ft[f].type = end /\ ft[f].pipe = i
                          \/ \E p \in FtSlots : run[p].ff.type = end /\ run[p].ff.pipe = i

\* The table, its counts and the ends of the pipes agree.
FilesSound == FtTypeOK /\ RefsExact /\ EndsFollowFiles
=============================================================================
