----------------------------- MODULE FileProofs -----------------------------
(***************************************************************************)
(* Theorems about module FileTable: the reference counts of the file table *)
(* are exact, and the ends of a pipe are open exactly as long as a file    *)
(* stands for them, for any number of processes, files and descriptors,    *)
(* as long as forkn does not fail halfway.                                 *)
(***************************************************************************)
EXTENDS FileTable, WellFoundedInduction, FiniteSetTheorems, TLAPS

\* The list of a process that closes nothing is empty.
LEMMA EmptyList ==
  ASSUME NEW S
  PROVE  /\ <<>> \in Seq(S) /\ Len(<<>>) = 0
         /\ \A s \in Seq(S) : s # <<>> => Len(s) \in Nat \ {0}
<1>1. <<>> \in Seq(S) /\ Len(<<>>) = 0 OBVIOUS
<1>2. ASSUME NEW s \in Seq(S), Len(s) = 0 PROVE s = <<>> BY <1>2
<1>3. \A s \in Seq(S) : Len(s) \in Nat OBVIOUS
<1> QED BY Zenon, <1>1, <1>2, <1>3

Ends == {"r", "w"}
FileRec == [ref : Nat, type : {"none", "inode", "r", "w"}, pipe : 0 .. NPipes]
RunRec == [pc : {"unused", "user", "exit"}, fd : -1 .. NOFILE - 1, todo : Seq(Files), ff : FileRec]

\* A file that is open: it has a type, and a pipe if it is an end of one.
OpenFile(r) == r.type # "none" /\ (r.type \in Ends => r.pipe \in 1 .. NPipes)

\* Types. A slot that is not in use has no descriptors, which is what forkn
\* breaks when it fails; a free file is FD_NONE.
TypeInv ==
  /\ ft \in [Files -> FileRec]
  /\ pipe \in [1 .. NPipes -> SUBSET Ends]
  /\ ofile \in [FtSlots -> [Fds -> 0 .. NFILE]]
  /\ run \in [FtSlots -> RunRec]
  /\ \A p \in FtSlots :
       /\ Len(run[p].todo) <= 2
       /\ run[p].pc = "unused" => run[p] = Unused /\ \A fd \in Fds : ofile[p][fd] = 0
       /\ run[p].pc = "user" => run[p].fd = -1
       /\ run[p].ff = NoFile \/ OpenFile(run[p].ff)
  /\ \A f \in Files : IF ft[f].ref = 0 THEN ft[f] = NoFile ELSE OpenFile(ft[f])

\* The file f, or the file that p closes, stands for an end of pipe i.
FileIs(f, i, end) == ft[f].type = end /\ ft[f].pipe = i
LastIs(p, i, end) == run[p].ff.type = end /\ run[p].ff.pipe = i

\* At most one file, or one fileclose, stands for an end.
EndInv ==
  \A i \in 1 .. NPipes, end \in Ends :
    /\ end \in pipe[i] <=> \/ \E f \in Files : FileIs(f, i, end)
                           \/ \E p \in FtSlots : LastIs(p, i, end)
    /\ \A f, g \in Files : FileIs(f, i, end) /\ FileIs(g, i, end) => f = g
    /\ \A p, q \in FtSlots : LastIs(p, i, end) /\ LastIs(q, i, end) => p = q
    /\ \A f \in Files, p \in FtSlots : ~(FileIs(f, i, end) /\ LastIs(p, i, end))

CountInv == \A f \in Files : ft[f].ref = Cardinality(Descriptors(f)) + Cardinality(Closing(f))

FtInv == TypeInv /\ EndInv /\ CountInv

-----------------------------------------------------------------------------
(* The lowest free entry, and sets that grow or shrink by one.             *)

\* The scans of filealloc and fdalloc stop at the first free entry.
LEMMA LowestOf ==
  ASSUME NEW T \in SUBSET Nat, T # {}
  PROVE  Min(T) \in T
<1> DEFINE Below == {0 .. x : x \in T}
<1>1. Below \subseteq FiniteSubsetsOf(Nat)
  <2>1. \A x \in T : 0 .. x \in SUBSET Nat /\ IsFiniteSet(0 .. x) BY FS_Interval
  <2> QED BY Zenon, <2>1 DEF FiniteSubsetsOf
<1>2. Below # {} BY ZenonT(60)
<1>3. PICK S \in Below : \A U \in Below : <<U, S>> \notin StrictSubsetOrdering(Nat)
  <2> HIDE DEF Below
  <2> QED BY Zenon, <1>1, <1>2, FS_StrictSubsetOrderingWellFounded, WFMin
<1>4. PICK x \in T : S = 0 .. x BY Zenon, <1>3
<1>5. ASSUME NEW y \in T, ~(x <= y) PROVE FALSE
  <2>1. 0 .. y \in Below BY Zenon
  <2>2. 0 .. y \subseteq 0 .. x /\ 0 .. y # 0 .. x BY <1>5
  <2>3. <<0 .. y, 0 .. x>> \in StrictSubsetOrdering(Nat) BY <2>2 DEF StrictSubsetOrdering
  <2> QED BY ZenonT(60), <2>1, <2>3, <1>3, <1>4
<1>6. \A y \in T : x <= y BY Zenon, <1>5
<1> QED BY ZenonT(60), <1>6 DEF Min

\* A set of at least two numbers has a lowest one and one above it.
LEMMA LowestTwo ==
  ASSUME NEW T \in SUBSET Nat, IsFiniteSet(T), Cardinality(T) >= 2
  PROVE  Min(T) \in T /\ Min(T \ {Min(T)}) \in T \ {Min(T)}
<1>1. T # {} BY FS_EmptySet
<1>2. Min(T) \in T BY Zenon, <1>1, LowestOf
<1>3. Cardinality(T \ {Min(T)}) = Cardinality(T) - 1 BY Zenon, <1>2, FS_RemoveElement
<1>4. Cardinality(T) \in Nat BY Zenon, FS_CardinalityType
<1>5. T \ {Min(T)} # {} BY <1>3, <1>4, FS_EmptySet
<1>6. T \ {Min(T)} \in SUBSET Nat BY ZenonT(60)
<1> QED BY Zenon, <1>2, <1>5, <1>6, LowestOf

\* The tables are finite.
LEMMA Sizes ==
  /\ IsFiniteSet(FtSlots) /\ Cardinality(FtSlots) = FtNPROC
  /\ IsFiniteSet(Fds) /\ Cardinality(Fds) = NOFILE
  /\ IsFiniteSet(Files)
  /\ IsFiniteSet({1, 2}) /\ Cardinality({1, 2}) = 2
<1>1. FtNPROC \in Nat \ {0} /\ NOFILE \in Nat /\ NFILE \in Nat BY Zenon, FtAssumption
<1>2. IsFiniteSet(FtSlots) /\ Cardinality(FtSlots) = FtNPROC BY <1>1, FS_Interval DEF FtSlots
<1>3. IsFiniteSet(Fds) /\ Cardinality(Fds) = NOFILE BY <1>1, FS_Interval DEF Fds
<1>4. IsFiniteSet(Files) BY <1>1, FS_Interval DEF Files
<1>5. IsFiniteSet({1, 2}) /\ Cardinality({1, 2}) = 2
  <2>1. IsFiniteSet({1}) /\ Cardinality({1}) = 1 BY Zenon, FS_Singleton
  <2>2. {1, 2} = {1} \cup {2} /\ 2 \notin {1} OBVIOUS
  <2> QED BY <2>1, <2>2, FS_AddElement
<1> QED BY Zenon, <1>2, <1>3, <1>4, <1>5

\* References are finitely many.
LEMMA RefsFinite ==
  ASSUME NEW S, S \subseteq FtSlots \X Fds \/ S \subseteq FtSlots \X {1, 2}
  PROVE  IsFiniteSet(S) /\ Cardinality(S) \in Nat
<1>1. IsFiniteSet(FtSlots \X Fds) /\ IsFiniteSet(FtSlots \X {1, 2}) BY Zenon, Sizes, FS_Product
<1>2. IsFiniteSet(S) BY Zenon, <1>1, FS_Subset
<1> QED BY Zenon, <1>2, FS_CardinalityType

\* One more reference.
LEMMA OneMore ==
  ASSUME NEW S, NEW x, IsFiniteSet(S), x \notin S
  PROVE  Cardinality(S \cup {x}) = Cardinality(S) + 1
BY Zenon, FS_AddElement

\* One less.
LEMMA OneLess ==
  ASSUME NEW S, NEW x, IsFiniteSet(S), x \in S
  PROVE  Cardinality(S \ {x}) = Cardinality(S) - 1
BY Zenon, FS_RemoveElement

\* Both kinds of references are sets of pairs.
LEMMA RefSets ==
  ASSUME NEW f
  PROVE  /\ IsFiniteSet(Descriptors(f)) /\ Cardinality(Descriptors(f)) \in Nat
         /\ IsFiniteSet(Closing(f)) /\ Cardinality(Closing(f)) \in Nat
         /\ IsFiniteSet(Descriptors(f)') /\ Cardinality(Descriptors(f)') \in Nat
         /\ IsFiniteSet(Closing(f)') /\ Cardinality(Closing(f)') \in Nat
<1>1. Descriptors(f) \subseteq FtSlots \X Fds /\ Descriptors(f)' \subseteq FtSlots \X Fds
  BY Zenon DEF Descriptors
<1>2. Closing(f) \subseteq FtSlots \X {1, 2} /\ Closing(f)' \subseteq FtSlots \X {1, 2}
  BY Zenon DEF Closing
<1> QED BY Zenon, <1>1, <1>2, RefsFinite

\* What fileclose does to the list of files to close.
LEMMA TodoTail ==
  ASSUME NEW s \in Seq(Files), s # <<>>, Len(s) <= 2
  PROVE  /\ Tail(s) \in Seq(Files) /\ Len(Tail(s)) = Len(s) - 1 /\ Len(s) \in 1 .. 2
         /\ \A j \in 1 .. Len(s) - 1 : FromEnd(Tail(s), j) = FromEnd(s, j)
         /\ FromEnd(s, Len(s)) = Head(s) /\ Head(s) \in Files
<1>1. Len(s) \in 1 .. 2
  <2>1. Len(s) \in Nat OBVIOUS
  <2>2. Len(s) # 0 BY Zenon, EmptyList
  <2>3. \A n \in Nat : n # 0 /\ n <= 2 => n \in 1 .. 2 OBVIOUS
  <2> QED BY Zenon, <2>1, <2>2, <2>3
<1>2. Tail(s) \in Seq(Files) /\ Len(Tail(s)) = Len(s) - 1 OBVIOUS
<1>3. \A k \in 1 .. Len(s) - 1 : Tail(s)[k] = s[k + 1] OBVIOUS
<1>4. ASSUME NEW j \in 1 .. Len(s) - 1 PROVE FromEnd(Tail(s), j) = FromEnd(s, j)
  <2>1. Len(s) - j \in 1 .. Len(s) - 1 BY <1>1
  <2>2. Tail(s)[Len(s) - j] = s[Len(s) + 1 - j] BY <2>1, <1>3, <1>1
  <2> QED BY <2>2, <1>2, <1>1 DEF FromEnd
<1>5. Head(s) = s[1] /\ Head(s) \in Files OBVIOUS
<1>6. FromEnd(s, Len(s)) = s[1] BY <1>1 DEF FromEnd
<1> QED BY Zenon, <1>1, <1>2, <1>4, <1>5, <1>6

\* One file, or two, to close.
LEMMA TodoNew ==
  ASSUME NEW f \in Files, NEW g \in Files
  PROVE  /\ <<f>> \in Seq(Files) /\ Len(<<f>>) = 1 /\ FromEnd(<<f>>, 1) = f
         /\ <<f, g>> \in Seq(Files) /\ Len(<<f, g>>) = 2
         /\ FromEnd(<<f, g>>, 1) = g /\ FromEnd(<<f, g>>, 2) = f
         /\ <<f>> # <<>> /\ <<f, g>> # <<>> /\ Len(<<>>) = 0 /\ <<>> \in Seq(Files)
BY DEF FromEnd

-----------------------------------------------------------------------------
(* Updates of one slot or one file.                                        *)

SetTodo(r, s) == [r EXCEPT !.todo = s]
SetFd(r, n) == [r EXCEPT !.fd = n]
SetFf(r, h) == [r EXCEPT !.ff = h]
SetPc(r, c) == [r EXCEPT !.pc = c]
SetRef(r, n) == [r EXCEPT !.ref = n]

\* Each assignment leaves the other fields of the slot alone.
LEMMA TodoFields ==
  ASSUME NEW r \in RunRec, NEW s \in Seq(Files)
  PROVE  /\ SetTodo(r, s) \in RunRec /\ SetTodo(r, s).todo = s
         /\ SetTodo(r, s).pc = r.pc /\ SetTodo(r, s).fd = r.fd /\ SetTodo(r, s).ff = r.ff
BY Zenon DEF SetTodo, RunRec

\* The descriptor that exit closes.
LEMMA FdFields ==
  ASSUME NEW r \in RunRec, NEW n \in -1 .. NOFILE - 1
  PROVE  /\ SetFd(r, n) \in RunRec /\ SetFd(r, n).fd = n
         /\ SetFd(r, n).pc = r.pc /\ SetFd(r, n).todo = r.todo /\ SetFd(r, n).ff = r.ff
BY Zenon DEF SetFd, RunRec

\* fileclose's copy of the file.
LEMMA FfFields ==
  ASSUME NEW r \in RunRec, NEW h \in FileRec
  PROVE  /\ SetFf(r, h) \in RunRec /\ SetFf(r, h).ff = h
         /\ SetFf(r, h).pc = r.pc /\ SetFf(r, h).todo = r.todo /\ SetFf(r, h).fd = r.fd
BY Zenon DEF SetFf, RunRec

\* The start of exit.
LEMMA PcFields ==
  ASSUME NEW r \in RunRec, NEW c \in {"unused", "user", "exit"}
  PROVE  /\ SetPc(r, c) \in RunRec /\ SetPc(r, c).pc = c
         /\ SetPc(r, c).fd = r.fd /\ SetPc(r, c).todo = r.todo /\ SetPc(r, c).ff = r.ff
BY Zenon DEF SetPc, RunRec

\* filedup and fileclose change the count only.
LEMMA RefFields ==
  ASSUME NEW r \in FileRec, NEW n \in Nat
  PROVE  /\ SetRef(r, n) \in FileRec /\ SetRef(r, n).ref = n
         /\ SetRef(r, n).type = r.type /\ SetRef(r, n).pipe = r.pipe
BY Zenon DEF SetRef, FileRec

\* A free slot, a new process and a free file.
LEMMA Blank ==
  /\ NoFile \in FileRec /\ NoFile.ref = 0 /\ NoFile.type = "none" /\ NoFile.pipe = 0
  /\ Unused \in RunRec /\ Unused.pc = "unused" /\ Unused.fd = -1
  /\ Unused.todo = <<>> /\ Unused.ff = NoFile
  /\ Idle \in RunRec /\ Idle.pc = "user" /\ Idle.fd = -1
  /\ Idle.todo = <<>> /\ Idle.ff = NoFile
<1>1. NoFile \in FileRec /\ NoFile.ref = 0 /\ NoFile.type = "none" /\ NoFile.pipe = 0
  BY FtAssumption DEF NoFile, FileRec
<1>2. <<>> \in Seq(Files) BY Zenon, EmptyList
<1>3. -1 \in -1 .. NOFILE - 1 BY FtAssumption
<1>4. /\ Unused \in RunRec /\ Unused.pc = "unused" /\ Unused.fd = -1
      /\ Unused.todo = <<>> /\ Unused.ff = NoFile
  <2> HIDE DEF NoFile
  <2> QED BY Zenon, <1>1, <1>2, <1>3 DEF Unused, RunRec
<1>5. Idle = SetPc(Unused, "user") BY Zenon DEF Idle, SetPc
<1>6. /\ Idle \in RunRec /\ Idle.pc = "user" /\ Idle.fd = -1
      /\ Idle.todo = <<>> /\ Idle.ff = NoFile
  BY Zenon, <1>4, <1>5, PcFields
<1> QED BY Zenon, <1>1, <1>4, <1>6

\* What TypeInv says of one slot.
LEMMA SlotFacts ==
  ASSUME TypeInv, NEW p \in FtSlots
  PROVE  /\ run[p] \in RunRec /\ ofile[p] \in [Fds -> 0 .. NFILE]
         /\ run[p].pc \in {"unused", "user", "exit"} /\ run[p].fd \in -1 .. NOFILE - 1
         /\ run[p].todo \in Seq(Files) /\ run[p].ff \in FileRec /\ Len(run[p].todo) <= 2
         /\ run[p].pc = "unused" => run[p] = Unused
         /\ run[p].pc = "unused" => \A fd \in Fds : ofile[p][fd] = 0
         /\ run[p].pc = "user" => run[p].fd = -1
         /\ run[p].ff = NoFile \/ OpenFile(run[p].ff)
<1>1. run[p] \in RunRec /\ ofile[p] \in [Fds -> 0 .. NFILE] BY Zenon DEF TypeInv
<1>2. /\ run[p].pc \in {"unused", "user", "exit"} /\ run[p].fd \in -1 .. NOFILE - 1
      /\ run[p].todo \in Seq(Files) /\ run[p].ff \in FileRec
  BY Zenon, <1>1 DEF RunRec
<1> QED BY Zenon, <1>1, <1>2 DEF TypeInv

\* What it says of one file.
LEMMA FileFacts ==
  ASSUME TypeInv, NEW f \in Files
  PROVE  /\ ft[f] \in FileRec /\ ft[f].ref \in Nat /\ ft[f].pipe \in 0 .. NPipes
         /\ ft[f].type \in {"none", "inode", "r", "w"}
         /\ ft[f].ref = 0 => ft[f] = NoFile
         /\ ft[f].ref # 0 => OpenFile(ft[f])
<1>1. ft[f] \in FileRec BY Zenon DEF TypeInv
<1> QED BY Zenon, <1>1 DEF TypeInv, FileRec

\* A step of one slot that keeps the types.
LEMMA SlotStep ==
  ASSUME TypeInv, NEW p \in FtSlots, NEW r \in RunRec, run' = [run EXCEPT ![p] = r],
         Len(r.todo) <= 2, r.pc = "user" => r.fd = -1,
         r.pc = "unused" => r = Unused /\ \A fd \in Fds : ofile'[p][fd] = 0,
         r.ff = NoFile \/ OpenFile(r.ff),
         ofile' \in [FtSlots -> [Fds -> 0 .. NFILE]],
         \A q \in FtSlots \ {p} : ofile'[q] = ofile[q],
         pipe' \in [1 .. NPipes -> SUBSET Ends],
         ft' \in [Files -> FileRec],
         \A f \in Files : IF ft'[f].ref = 0 THEN ft'[f] = NoFile ELSE OpenFile(ft'[f])
  PROVE  TypeInv'
<1>1. run \in [FtSlots -> RunRec] BY Zenon DEF TypeInv
<1>2. run' \in [FtSlots -> RunRec] /\ run'[p] = r BY Zenon, <1>1
<1>3. \A q \in FtSlots \ {p} : run'[q] = run[q] BY Zenon, <1>1
<1>4. ASSUME NEW q \in FtSlots
      PROVE  /\ Len(run'[q].todo) <= 2
             /\ run'[q].pc = "unused" => run'[q] = Unused /\ \A fd \in Fds : ofile'[q][fd] = 0
             /\ run'[q].pc = "user" => run'[q].fd = -1
             /\ run'[q].ff = NoFile \/ OpenFile(run'[q].ff)
  <2>1. CASE q = p BY Zenon, <1>2, <2>1
  <2>2. CASE q # p BY <1>3, <2>2 DEF TypeInv
  <2> QED BY Zenon, <2>1, <2>2
<1> QED BY Zenon, <1>2, <1>4 DEF TypeInv

\* One file changes.
LEMMA FileStep ==
  ASSUME TypeInv, NEW f \in Files, NEW r \in FileRec, ft' = [ft EXCEPT ![f] = r],
         r.ref = 0 => r = NoFile, r.ref # 0 => OpenFile(r)
  PROVE  /\ ft' \in [Files -> FileRec] /\ ft'[f] = r
         /\ \A g \in Files \ {f} : ft'[g] = ft[g]
         /\ \A g \in Files : IF ft'[g].ref = 0 THEN ft'[g] = NoFile ELSE OpenFile(ft'[g])
<1>1. ft \in [Files -> FileRec] BY Zenon DEF TypeInv
<1>2. ft' \in [Files -> FileRec] /\ ft'[f] = r /\ \A g \in Files \ {f} : ft'[g] = ft[g] BY Zenon,
    <1>1
<1>3. ASSUME NEW g \in Files
      PROVE  IF ft'[g].ref = 0 THEN ft'[g] = NoFile ELSE OpenFile(ft'[g])
  <2>1. CASE g = f BY Zenon, <2>1, <1>2
  <2>2. CASE g # f BY Zenon, <2>2, <1>2 DEF TypeInv
  <2> QED BY Zenon, <2>1, <2>2
<1> QED BY Zenon, <1>2, <1>3

\* A step that opens or closes no end.
LEMMA EndsKept ==
  ASSUME EndInv, pipe' = pipe,
         \A f \in Files, i \in 1 .. NPipes, end \in Ends : FileIs(f, i, end)' <=> FileIs(f, i, end),
         \A p \in FtSlots, i \in 1 .. NPipes, end \in Ends : LastIs(p, i, end)' <=> LastIs(p, i, end)
  PROVE  EndInv'
<1> SUFFICES ASSUME NEW i \in (1 .. NPipes)', NEW end \in Ends'
             PROVE /\ (end \in pipe[i])' <=> \/ \E f \in Files : FileIs(f, i, end)'
                                             \/ \E p \in FtSlots : LastIs(p, i, end)'
                   /\ \A f, g \in Files : FileIs(f, i, end)' /\ FileIs(g, i, end)' => f = g
                   /\ \A p, q \in FtSlots : LastIs(p, i, end)' /\ LastIs(q, i, end)' => p = q
                   /\ \A f \in Files, p \in FtSlots : ~(FileIs(f, i, end)' /\ LastIs(p, i, end)')
  BY Zenon DEF EndInv, Files, FtSlots
<1>1. i \in 1 .. NPipes /\ end \in Ends BY Zenon DEF Ends
<1> HIDE DEF FileIs, LastIs, Ends, Files, FtSlots
<1> QED BY Zenon, <1>1 DEF EndInv

\* The last fileclose of f takes over the end that f stands for.
LEMMA EndsMoved ==
  ASSUME EndInv, NEW p \in FtSlots, NEW f \in Files, pipe' = pipe,
         run[p].ff = NoFile, ft'[f] = NoFile,
         run'[p].ff.type = ft[f].type, run'[p].ff.pipe = ft[f].pipe,
         \A k \in Files \ {f} : ft'[k] = ft[k], \A q \in FtSlots \ {p} : run'[q] = run[q]
  PROVE  EndInv'
<1> SUFFICES ASSUME NEW i \in 1 .. NPipes, NEW end \in Ends
             PROVE /\ end \in pipe'[i] <=> \/ \E k \in Files : FileIs(k, i, end)'
                                           \/ \E q \in FtSlots : LastIs(q, i, end)'
                   /\ \A k, l \in Files : FileIs(k, i, end)' /\ FileIs(l, i, end)' => k = l
                   /\ \A x, y \in FtSlots : LastIs(x, i, end)' /\ LastIs(y, i, end)' => x = y
                   /\ \A k \in Files, x \in FtSlots : ~(FileIs(k, i, end)' /\ LastIs(x, i, end)')
  BY Zenon DEF EndInv, Files, FtSlots, Ends
<1>1. /\ end \in pipe[i] <=> \/ \E k \in Files : FileIs(k, i, end)
                             \/ \E q \in FtSlots : LastIs(q, i, end)
      /\ \A k, l \in Files : FileIs(k, i, end) /\ FileIs(l, i, end) => k = l
      /\ \A x, y \in FtSlots : LastIs(x, i, end) /\ LastIs(y, i, end) => x = y
      /\ \A k \in Files, x \in FtSlots : ~(FileIs(k, i, end) /\ LastIs(x, i, end))
  BY Zenon DEF EndInv
<1>2. end # "none" BY Zenon DEF Ends
<1>3. ~FileIs(f, i, end)' /\ ~LastIs(p, i, end) BY Zenon, <1>2, Blank DEF FileIs, LastIs
<1>4. LastIs(p, i, end)' <=> FileIs(f, i, end) BY Zenon DEF FileIs, LastIs
<1>5. /\ \A k \in Files \ {f} : FileIs(k, i, end)' <=> FileIs(k, i, end)
      /\ \A q \in FtSlots \ {p} : LastIs(q, i, end)' <=> LastIs(q, i, end)
  BY Zenon DEF FileIs, LastIs
<1>6. pipe'[i] = pipe[i] BY Zenon
<1> QED BY Zenon, <1>1, <1>3, <1>4, <1>5, <1>6

-----------------------------------------------------------------------------
(* Counting references.                                                    *)

\* Which slots are in use, and the descriptor that exit closes, stay.
SlotsKept == \A q \in FtSlots : (run'[q].pc = "unused" <=> run[q].pc = "unused") /\ run'[q].fd = run[q].fd
TodoKept == \A q \in FtSlots : run'[q].todo = run[q].todo

\* The descriptors stay.
LEMMA DescriptorsKept ==
  ASSUME SlotsKept, ofile' = ofile, NEW f
  PROVE  Descriptors(f)' = Descriptors(f)
BY Zenon DEF SlotsKept, Descriptors, FtSlots, Fds

\* What is being closed stays.
LEMMA ClosingKept ==
  ASSUME TodoKept, NEW f
  PROVE  Closing(f)' = Closing(f)
BY Zenon DEF TodoKept, Closing, FtSlots, FromEnd

\* fdalloc: a descriptor for g.
LEMMA DescriptorAdded ==
  ASSUME SlotsKept, ofile \in [FtSlots -> [Fds -> 0 .. NFILE]],
         NEW p \in FtSlots, NEW fd \in Fds, NEW g \in Files,
         ofile[p][fd] = 0, run[p].pc # "unused", run[p].fd = -1,
         ofile' = [ofile EXCEPT ![p][fd] = g], NEW f \in Files
  PROVE  Cardinality(Descriptors(f)') = IF f = g THEN Cardinality(Descriptors(f)) + 1
                                                 ELSE Cardinality(Descriptors(f))
<1>1. /\ ofile'[p][fd] = g
      /\ \A q \in FtSlots, k \in Fds : <<q, k>> # <<p, fd>> => ofile'[q][k] = ofile[q][k]
  BY Zenon
<1>2. f # 0 /\ g # 0 BY DEF Files
<1>3. fd # -1 BY DEF Fds
<1>4. <<p, fd>> \notin Descriptors(f) BY Zenon, <1>2 DEF Descriptors
<1>5. CASE f = g
  <2>1. Descriptors(f)' = Descriptors(f) \cup {<<p, fd>>}
    <3>1. ASSUME NEW d \in FtSlots \X Fds
          PROVE  d \in Descriptors(f)' <=> d \in Descriptors(f) \cup {<<p, fd>>}
      <4>1. PICK q \in FtSlots, k \in Fds : d = <<q, k>> OBVIOUS
      <4>2. CASE d = <<p, fd>> BY Zenon, <4>2, <1>1, <1>3, <1>5 DEF Descriptors, SlotsKept
      <4>3. CASE d # <<p, fd>> BY <4>1, <4>3, <1>1 DEF Descriptors, SlotsKept
      <4> QED BY Zenon, <4>2, <4>3
    <3> QED BY <3>1 DEF Descriptors
  <2> QED BY Zenon, <2>1, <1>4, <1>5, RefSets, OneMore
<1>6. CASE f # g
  <2>1. Descriptors(f)' = Descriptors(f)
    <3>1. ASSUME NEW d \in FtSlots \X Fds
          PROVE  d \in Descriptors(f)' <=> d \in Descriptors(f)
      <4>1. PICK q \in FtSlots, k \in Fds : d = <<q, k>> OBVIOUS
      <4>2. CASE d = <<p, fd>> BY <4>2, <1>1, <1>2, <1>6 DEF Descriptors, SlotsKept
      <4>3. CASE d # <<p, fd>> BY <4>1, <4>3, <1>1 DEF Descriptors, SlotsKept
      <4> QED BY Zenon, <4>2, <4>3
    <3> QED BY Zenon, <3>1 DEF Descriptors
  <2> QED BY Zenon, <2>1, <1>6
<1> QED BY Zenon, <1>5, <1>6

\* A descriptor of p is cleared, or exit takes it to close it.
LEMMA DescriptorTaken ==
  ASSUME NEW p \in FtSlots, NEW fd \in Fds, NEW f \in Files,
         ofile \in [FtSlots -> [Fds -> 0 .. NFILE]],
         run[p].pc # "unused", run[p].fd = -1,
         \A q \in FtSlots : run'[q].pc = "unused" <=> run[q].pc = "unused",
         \A q \in FtSlots \ {p} : run'[q].fd = run[q].fd,
         \/ ofile' = [ofile EXCEPT ![p][fd] = 0] /\ run'[p].fd = -1
         \/ ofile' = ofile /\ run'[p].fd = fd
  PROVE  Cardinality(Descriptors(f)') = IF ofile[p][fd] = f THEN Cardinality(Descriptors(f)) - 1
                                                            ELSE Cardinality(Descriptors(f))
<1>1. f # 0 BY DEF Files
<1>2. fd # -1 /\ -1 \notin Fds BY DEF Fds
<1>3. Descriptors(f)' = Descriptors(f) \ {<<p, fd>>}
  <2>1. ASSUME NEW d \in FtSlots \X Fds
        PROVE  d \in Descriptors(f)' <=> d \in Descriptors(f) \ {<<p, fd>>}
    <3>1. PICK q \in FtSlots, k \in Fds : d = <<q, k>> OBVIOUS
    <3>2. CASE d = <<p, fd>> BY <3>2, <1>1 DEF Descriptors
    <3>3. CASE d # <<p, fd>> /\ q = p
      <4>1. k # fd /\ ofile'[p][k] = ofile[p][k] /\ run'[p].fd # k /\ run[p].fd # k BY <3>1, <3>3,
          <1>2
      <4> QED BY Zenon, <3>1, <3>3, <4>1 DEF Descriptors
    <3>4. CASE d # <<p, fd>> /\ q # p
      <4>1. ofile'[q][k] = ofile[q][k] /\ run'[q].fd = run[q].fd BY Zenon, <3>4
      <4> QED BY Zenon, <3>1, <3>4, <4>1 DEF Descriptors
    <3> QED BY Zenon, <3>2, <3>3, <3>4
  <2> QED BY Zenon, <2>1 DEF Descriptors
<1>4. CASE ofile[p][fd] = f
  <2>1. <<p, fd>> \in Descriptors(f) BY Zenon, <1>2, <1>4 DEF Descriptors
  <2> QED BY ZenonT(60), <2>1, <1>3, <1>4, RefSets, OneLess
<1>5. CASE ofile[p][fd] # f
  <2>1. <<p, fd>> \notin Descriptors(f) BY Zenon, <1>5 DEF Descriptors
  <2> QED BY ZenonT(60), <2>1, <1>3, <1>5
<1> QED BY Zenon, <1>4, <1>5

\* p has one file to close.
LEMMA ClosingOne ==
  ASSUME NEW p \in FtSlots, NEW g \in Files, NEW f \in Files, Len(run[p].todo) = 0,
         Len(run'[p].todo) = 1, FromEnd(run'[p].todo, 1) = g,
         \A q \in FtSlots \ {p} : run'[q].todo = run[q].todo
  PROVE  Cardinality(Closing(f)') = IF f = g THEN Cardinality(Closing(f)) + 1
                                             ELSE Cardinality(Closing(f))
<1>1. ASSUME NEW j \in {1, 2}
      PROVE  /\ <<p, j>> \in Closing(f) <=> j <= 0 /\ FromEnd(run[p].todo, j) = f
             /\ <<p, j>> \in Closing(f)' <=> j <= 1 /\ FromEnd(run'[p].todo, j) = f
  <2>1. <<p, j>> \in Closing(f) <=> j <= Len(run[p].todo) /\ FromEnd(run[p].todo, j) = f
    BY Zenon DEF Closing, FromEnd
  <2>2. <<p, j>> \in Closing(f)' <=> j <= Len(run'[p].todo) /\ FromEnd(run'[p].todo, j) = f
    BY Zenon DEF Closing, FromEnd
  <2> QED BY Zenon, <2>1, <2>2
<1>2. \A j \in {1, 2} : <<p, j>> \notin Closing(f) BY <1>1
<1>3. <<p, 1>> \in Closing(f)' <=> f = g BY <1>1
<1>4. <<p, 2>> \notin Closing(f)' BY <1>1
<1>5. \A q \in FtSlots \ {p}, j \in {1, 2} : <<q, j>> \in Closing(f)' <=> <<q, j>> \in Closing(f)
  BY Zenon DEF Closing, FromEnd
<1>6. Closing(f)' = Closing(f) \cup (IF f = g THEN {<<p, 1>>} ELSE {})
  <2>1. ASSUME NEW d \in FtSlots \X {1, 2}
        PROVE  d \in Closing(f)' <=> d \in Closing(f) \cup (IF f = g THEN {<<p, 1>>} ELSE {})
    <3>1. PICK q \in FtSlots, j \in {1, 2} : d = <<q, j>> OBVIOUS
    <3>2. CASE q = p BY Zenon, <3>1, <3>2, <1>2, <1>3, <1>4
    <3>3. CASE q # p BY ZenonT(60), <3>1, <3>3, <1>5
    <3> QED BY Zenon, <3>2, <3>3
  <2>2. Closing(f) \subseteq FtSlots \X {1, 2} /\ Closing(f)' \subseteq FtSlots \X {1, 2}
    BY Zenon DEF Closing
  <2> QED BY Zenon, <2>1, <2>2
<1>7. CASE f = g BY <1>2, <1>6, <1>7, RefSets, OneMore
<1>8. CASE f # g BY Zenon, <1>6, <1>8
<1> QED BY Zenon, <1>7, <1>8

\* p has two files to close: a pipe that found no descriptors.
LEMMA ClosingTwo ==
  ASSUME NEW p \in FtSlots, NEW g \in Files, NEW h \in Files, g # h, NEW f \in Files,
         Len(run[p].todo) = 0,
         Len(run'[p].todo) = 2, FromEnd(run'[p].todo, 1) = h, FromEnd(run'[p].todo, 2) = g,
         \A q \in FtSlots \ {p} : run'[q].todo = run[q].todo
  PROVE  Cardinality(Closing(f)') = IF f \in {g, h} THEN Cardinality(Closing(f)) + 1
                                                    ELSE Cardinality(Closing(f))
<1>1. ASSUME NEW j \in {1, 2}
      PROVE  /\ <<p, j>> \in Closing(f) <=> j <= 0 /\ FromEnd(run[p].todo, j) = f
             /\ <<p, j>> \in Closing(f)' <=> j <= 2 /\ FromEnd(run'[p].todo, j) = f
  <2>1. <<p, j>> \in Closing(f) <=> j <= Len(run[p].todo) /\ FromEnd(run[p].todo, j) = f
    BY Zenon DEF Closing, FromEnd
  <2>2. <<p, j>> \in Closing(f)' <=> j <= Len(run'[p].todo) /\ FromEnd(run'[p].todo, j) = f
    BY ZenonT(60) DEF Closing, FromEnd
  <2> QED BY Zenon, <2>1, <2>2
<1>2. \A j \in {1, 2} : <<p, j>> \notin Closing(f) BY <1>1
<1>3. (<<p, 1>> \in Closing(f)' <=> f = h) /\ (<<p, 2>> \in Closing(f)' <=> f = g) BY <1>1
<1>4. \A q \in FtSlots \ {p}, j \in {1, 2} : <<q, j>> \in Closing(f)' <=> <<q, j>> \in Closing(f)
  BY Zenon DEF Closing, FromEnd
<1>5. ASSUME NEW d \in FtSlots \X {1, 2}
      PROVE  d \in Closing(f)' <=> \/ d \in Closing(f)
                                   \/ f = h /\ d = <<p, 1>>
                                   \/ f = g /\ d = <<p, 2>>
  <2>1. PICK q \in FtSlots, j \in {1, 2} : d = <<q, j>> OBVIOUS
  <2>2. CASE q = p BY Zenon, <2>1, <2>2, <1>2, <1>3
  <2>3. CASE q # p BY ZenonT(60), <2>1, <2>3, <1>4
  <2> QED BY Zenon, <2>2, <2>3
<1>6. Closing(f) \subseteq FtSlots \X {1, 2} /\ Closing(f)' \subseteq FtSlots \X {1, 2}
  BY Zenon DEF Closing
<1>7. CASE f = h
  <2>1. Closing(f)' = Closing(f) \cup {<<p, 1>>} BY Zenon, <1>5, <1>6, <1>7
  <2> QED BY <2>1, <1>2, <1>7, RefSets, OneMore
<1>8. CASE f = g
  <2>1. Closing(f)' = Closing(f) \cup {<<p, 2>>} BY Zenon, <1>5, <1>6, <1>8
  <2> QED BY <2>1, <1>2, <1>8, RefSets, OneMore
<1>9. CASE f \notin {g, h}
  <2>1. Closing(f)' = Closing(f) BY ZenonT(60), <1>5, <1>6, <1>9
  <2> QED BY Zenon, <2>1, <1>9
<1> QED BY Zenon, <1>7, <1>8, <1>9

\* fileclose takes the first file of p's list.
LEMMA ClosingLess ==
  ASSUME NEW p \in FtSlots, NEW f \in Files, NEW g, NEW n \in {1, 2},
         Len(run[p].todo) = n, FromEnd(run[p].todo, n) = g, Len(run'[p].todo) = n - 1,
         \A j \in 1 .. n - 1 : FromEnd(run'[p].todo, j) = FromEnd(run[p].todo, j),
         \A q \in FtSlots \ {p} : run'[q].todo = run[q].todo
  PROVE  Cardinality(Closing(f)') = IF f = g THEN Cardinality(Closing(f)) - 1
                                             ELSE Cardinality(Closing(f))
<1>1. ASSUME NEW j \in {1, 2}
      PROVE  /\ <<p, j>> \in Closing(f) <=> j <= n /\ FromEnd(run[p].todo, j) = f
             /\ <<p, j>> \in Closing(f)' <=> j <= n - 1 /\ FromEnd(run'[p].todo, j) = f
  <2>1. <<p, j>> \in Closing(f) <=> j <= Len(run[p].todo) /\ FromEnd(run[p].todo, j) = f
    BY Zenon DEF Closing, FromEnd
  <2>2. <<p, j>> \in Closing(f)' <=> j <= Len(run'[p].todo) /\ FromEnd(run'[p].todo, j) = f
    BY Zenon DEF Closing, FromEnd
  <2> QED BY Zenon, <2>1, <2>2
<1>2. ASSUME NEW j \in {1, 2}
      PROVE  <<p, j>> \in Closing(f)' <=> <<p, j>> \in Closing(f) /\ j # n
  <2>1. j <= n - 1 <=> j <= n /\ j # n OBVIOUS
  <2>2. j <= n - 1 => j \in 1 .. n - 1 OBVIOUS
  <2> QED BY Zenon, <2>1, <2>2, <1>1
<1>3. <<p, n>> \in Closing(f) <=> f = g BY <1>1
<1>4. \A q \in FtSlots \ {p}, j \in {1, 2} : <<q, j>> \in Closing(f)' <=> <<q, j>> \in Closing(f)
  BY Zenon DEF Closing, FromEnd
<1>5. ASSUME NEW d \in FtSlots \X {1, 2}
      PROVE  d \in Closing(f)' <=> d \in Closing(f) /\ d # <<p, n>>
  <2>1. PICK q \in FtSlots, j \in {1, 2} : d = <<q, j>> OBVIOUS
  <2>2. CASE q = p BY Zenon, <2>1, <2>2, <1>2
  <2>3. CASE q # p BY ZenonT(60), <2>1, <2>3, <1>4
  <2> QED BY Zenon, <2>2, <2>3
<1>6. Closing(f) \subseteq FtSlots \X {1, 2} /\ Closing(f)' \subseteq FtSlots \X {1, 2}
  BY Zenon DEF Closing
<1>7. Closing(f)' = Closing(f) \ {<<p, n>>} BY Zenon, <1>5, <1>6
<1>8. CASE f = g BY <1>3, <1>7, <1>8, RefSets, OneLess
<1>9. CASE f # g
  <2>1. Closing(f)' = Closing(f) BY Zenon, <1>3, <1>7, <1>9
  <2> QED BY Zenon, <2>1, <1>9
<1> QED BY Zenon, <1>8, <1>9

-----------------------------------------------------------------------------
(* The calls.                                                              *)

\* A process between calls.
LEMMA UserFacts ==
  ASSUME TypeInv, NEW p \in FtSlots, User(p)
  PROVE  /\ run[p].pc = "user" /\ run[p].fd = -1 /\ run[p].todo = <<>>
         /\ Len(run[p].todo) = 0 /\ run[p].ff = NoFile
<1>1. run[p].pc = "user" /\ run[p].todo = <<>> /\ run[p].ff = NoFile BY Zenon DEF User, Busy
<1>2. Len(<<>>) = 0 BY Zenon, EmptyList
<1> QED BY Zenon, <1>1, <1>2, SlotFacts

\* filealloc finds a file that is free, fdalloc a descriptor that is.
LEMMA LowestFree ==
  ASSUME TypeInv, NEW p \in FtSlots
  PROVE  /\ FreeFiles # {} => Min(FreeFiles) \in Files /\ ft[Min(FreeFiles)] = NoFile
         /\ FreeFds(p) # {} => Min(FreeFds(p)) \in Fds /\ ofile[p][Min(FreeFds(p))] = 0
<1>1. FreeFiles \in SUBSET Nat BY DEF FreeFiles, Files
<1>2. FreeFds(p) \in SUBSET Nat BY FtAssumption DEF FreeFds, Fds
<1>3. FreeFiles # {} => Min(FreeFiles) \in FreeFiles BY Zenon, <1>1, LowestOf
<1>4. FreeFds(p) # {} => Min(FreeFds(p)) \in FreeFds(p) BY Zenon, <1>2, LowestOf
<1>5. \A f \in FreeFiles : f \in Files /\ ft[f] = NoFile BY Zenon, FileFacts DEF FreeFiles
<1>6. \A fd \in FreeFds(p) : fd \in Fds /\ ofile[p][fd] = 0 BY Zenon DEF FreeFds
<1> QED BY Zenon, <1>3, <1>4, <1>5, <1>6

\* open gives a new file one reference.
LEMMA OpenInv ==
  ASSUME FtInv, NEW p \in FtSlots, sys_open(p)
  PROVE  FtInv'
<1> DEFINE f == Min(FreeFiles)
           fd == Min(FreeFds(p))
           r == [ref |-> 1, type |-> "inode", pipe |-> 0]
<1>t. TypeInv BY Zenon DEF FtInv
<1>1. f \in Files /\ ft[f] = NoFile /\ fd \in Fds /\ ofile[p][fd] = 0
  BY Zenon, <1>t, LowestFree DEF sys_open
<1>2. r \in FileRec /\ r.ref = 1 /\ OpenFile(r) /\ r.type = "inode"
  BY FtAssumption DEF FileRec, OpenFile, Ends
<1>3. /\ ft' = [ft EXCEPT ![f] = r] /\ ofile' = [ofile EXCEPT ![p][fd] = f]
      /\ pipe' = pipe /\ run' = run /\ User(p)
  BY Zenon DEF sys_open
<1> HIDE DEF f, fd, r
<1>4. ft \in [Files -> FileRec] /\ ofile \in [FtSlots -> [Fds -> 0 .. NFILE]] BY Zenon, <1>t
    DEF TypeInv
<1>5. /\ ft' \in [Files -> FileRec] /\ ft'[f] = r /\ \A g \in Files \ {f} : ft'[g] = ft[g]
      /\ \A g \in Files : IF ft'[g].ref = 0 THEN ft'[g] = NoFile ELSE OpenFile(ft'[g])
  <2>1. r.ref # 0 BY <1>2
  <2> QED BY ZenonT(60), <2>1, <1>1, <1>2, <1>3, <1>t, FileStep
<1>6. run[p].pc = "user" /\ run[p].fd = -1 BY Zenon, <1>t, <1>3, UserFacts
<1>7. TypeInv'
  <2>1. f \in 0 .. NFILE BY <1>1 DEF Files
  <2>2. ofile' \in [FtSlots -> [Fds -> 0 .. NFILE]] BY Zenon, <1>1, <1>3, <1>4, <2>1
  <2>3. \A q \in FtSlots : q # p => ofile'[q] = ofile[q] BY Zenon, <1>3, <1>4
  <2>4. \A q \in FtSlots : run[q].pc = "unused" => \A k \in Fds : ofile'[q][k] = 0
    BY ZenonT(60), <2>3, <1>6, <1>t DEF TypeInv
  <2> QED BY Zenon, <2>2, <2>4, <1>5, <1>3, <1>t DEF TypeInv
<1>8. EndInv'
  <2>1. ASSUME NEW g \in Files, NEW i \in 1 .. NPipes, NEW end \in Ends
        PROVE  FileIs(g, i, end)' <=> FileIs(g, i, end)
    <3>1. end # "none" /\ end # "inode" BY Zenon DEF Ends
    <3>2. CASE g = f BY Zenon, <3>1, <3>2, <1>1, <1>2, <1>5, Blank DEF FileIs
    <3>3. CASE g # f BY Zenon, <3>3, <1>5 DEF FileIs
    <3> QED BY Zenon, <3>2, <3>3
  <2>2. \A q \in FtSlots, i \in 1 .. NPipes, end \in Ends : LastIs(q, i, end)' <=> LastIs(q, i, end)
    BY Zenon, <1>3 DEF LastIs
  <2> QED BY Zenon, <2>1, <2>2, <1>3, EndsKept DEF FtInv
<1>9. CountInv'
  <2> SUFFICES ASSUME NEW g \in Files
               PROVE  ft'[g].ref = Cardinality(Descriptors(g)') + Cardinality(Closing(g)')
    BY Zenon DEF CountInv
  <2>1. SlotsKept /\ TodoKept BY Zenon, <1>3 DEF SlotsKept, TodoKept
  <2>2. Cardinality(Descriptors(g)') = IF g = f THEN Cardinality(Descriptors(g)) + 1
                                                ELSE Cardinality(Descriptors(g))
    BY ZenonT(60), <2>1, <1>1, <1>3, <1>4, <1>6, DescriptorAdded
  <2>3. Closing(g)' = Closing(g) BY Zenon, <2>1, ClosingKept
  <2>4. ft[g].ref = Cardinality(Descriptors(g)) + Cardinality(Closing(g)) BY Zenon
      DEF FtInv, CountInv
  <2>5. CASE g = f BY <2>2, <2>3, <2>4, <2>5, <1>1, <1>2, <1>5, RefSets, Blank
  <2>6. CASE g # f BY Zenon, <2>2, <2>3, <2>4, <2>6, <1>5
  <2> QED BY Zenon, <2>5, <2>6
<1> QED BY Zenon, <1>7, <1>8, <1>9 DEF FtInv

\* dup shares a file and counts the new descriptor.
LEMMA DupInv ==
  ASSUME FtInv, NEW p \in FtSlots, NEW k \in Fds, sys_dup(p, k)
  PROVE  FtInv'
<1> DEFINE f == ofile[p][k]
           fd == Min(FreeFds(p))
           r == SetRef(ft[f], ft[f].ref + 1)
<1>t. TypeInv BY Zenon DEF FtInv
<1>1. f \in Files /\ fd \in Fds /\ ofile[p][fd] = 0
  BY <1>t, LowestFree, SlotFacts DEF sys_dup, Files
<1>2. /\ ft' = [ft EXCEPT ![f] = r] /\ ofile' = [ofile EXCEPT ![p][fd] = f]
      /\ pipe' = pipe /\ run' = run /\ User(p)
  BY Zenon DEF sys_dup, SetRef
<1>3. run[p].pc = "user" /\ run[p].fd = -1 BY Zenon, <1>t, <1>2, UserFacts
<1>4. ft \in [Files -> FileRec] /\ ofile \in [FtSlots -> [Fds -> 0 .. NFILE]] BY Zenon, <1>t
    DEF TypeInv
<1>5. <<p, k>> \in Descriptors(f) /\ Cardinality(Descriptors(f)) # 0
  <2>1. run[p].fd # k BY <1>3 DEF Fds
  <2>2. <<p, k>> \in Descriptors(f) BY Zenon, <1>3, <2>1 DEF Descriptors
  <2> HIDE DEF f
  <2> QED BY Zenon, <2>2, RefSets, FS_EmptySet
<1>6. ft[f].ref # 0 /\ ft[f].ref \in Nat
  <2>1. ft[f].ref = Cardinality(Descriptors(f)) + Cardinality(Closing(f))
    BY Zenon, <1>1 DEF FtInv, CountInv
  <2> HIDE DEF f
  <2> QED BY <2>1, <1>1, <1>5, RefSets
<1>7. /\ r \in FileRec /\ r.ref = ft[f].ref + 1 /\ r.type = ft[f].type /\ r.pipe = ft[f].pipe
  <2> HIDE DEF f
  <2>1. ft[f] \in FileRec /\ ft[f].ref + 1 \in Nat BY <1>1, <1>4, <1>6
  <2> QED BY ZenonT(60), <2>1, RefFields
<1> HIDE DEF f, fd, r
<1>8. /\ ft' \in [Files -> FileRec] /\ ft'[f] = r /\ \A g \in Files \ {f} : ft'[g] = ft[g]
      /\ \A g \in Files : IF ft'[g].ref = 0 THEN ft'[g] = NoFile ELSE OpenFile(ft'[g])
  <2>1. OpenFile(r) BY Zenon, <1>1, <1>6, <1>7, <1>t, FileFacts DEF OpenFile
  <2>2. r.ref # 0 BY <1>6, <1>7
  <2> QED BY ZenonT(60), <2>1, <2>2, <1>1, <1>2, <1>7, <1>t, FileStep
<1>9. TypeInv'
  <2>1. f \in 0 .. NFILE BY <1>1 DEF Files
  <2>2. ofile' \in [FtSlots -> [Fds -> 0 .. NFILE]] BY Zenon, <1>1, <1>2, <1>4, <2>1
  <2>3. \A q \in FtSlots : q # p => ofile'[q] = ofile[q] BY Zenon, <1>2, <1>4
  <2>4. \A q \in FtSlots : run[q].pc = "unused" => \A j \in Fds : ofile'[q][j] = 0
    BY ZenonT(60), <2>3, <1>3, <1>t DEF TypeInv
  <2> QED BY Zenon, <2>2, <2>4, <1>8, <1>2, <1>t DEF TypeInv
<1>10. EndInv'
  <2>1. \A g \in Files, i \in 1 .. NPipes, end \in Ends : FileIs(g, i, end)' <=> FileIs(g, i, end)
    BY Zenon, <1>7, <1>8 DEF FileIs
  <2>2. \A q \in FtSlots, i \in 1 .. NPipes, end \in Ends : LastIs(q, i, end)' <=> LastIs(q, i, end)
    BY Zenon, <1>2 DEF LastIs
  <2> QED BY Zenon, <2>1, <2>2, <1>2, EndsKept DEF FtInv
<1>11. CountInv'
  <2> SUFFICES ASSUME NEW g \in Files
               PROVE  ft'[g].ref = Cardinality(Descriptors(g)') + Cardinality(Closing(g)')
    BY Zenon DEF CountInv
  <2>1. SlotsKept /\ TodoKept BY Zenon, <1>2 DEF SlotsKept, TodoKept
  <2>2. Cardinality(Descriptors(g)') = IF g = f THEN Cardinality(Descriptors(g)) + 1
                                                ELSE Cardinality(Descriptors(g))
    BY ZenonT(60), <2>1, <1>1, <1>2, <1>3, <1>4, DescriptorAdded
  <2>3. Closing(g)' = Closing(g) BY Zenon, <2>1, ClosingKept
  <2>4. ft[g].ref = Cardinality(Descriptors(g)) + Cardinality(Closing(g)) BY Zenon
      DEF FtInv, CountInv
  <2>5. CASE g = f BY <2>2, <2>3, <2>4, <2>5, <1>7, <1>8, RefSets
  <2>6. CASE g # f BY Zenon, <2>2, <2>3, <2>4, <2>6, <1>8
  <2> QED BY Zenon, <2>5, <2>6
<1> QED BY Zenon, <1>9, <1>10, <1>11 DEF FtInv

\* close takes the descriptor away and goes on with fileclose.
LEMMA CloseInv ==
  ASSUME FtInv, NEW p \in FtSlots, NEW fd \in Fds, sys_close(p, fd)
  PROVE  FtInv'
<1> DEFINE f == ofile[p][fd]
           r == SetTodo(run[p], <<f>>)
<1>t. TypeInv BY DEF FtInv
<1>1. f \in Files BY <1>t, SlotFacts DEF sys_close, Files
<1>2. /\ ft' = ft /\ pipe' = pipe /\ ofile' = [ofile EXCEPT ![p][fd] = 0]
      /\ run' = [run EXCEPT ![p] = r] /\ User(p)
  BY Zenon DEF sys_close, SetTodo
<1>3. run[p].pc = "user" /\ run[p].fd = -1 /\ Len(run[p].todo) = 0 /\ run[p].ff = NoFile
  BY Zenon, <1>t, <1>2, UserFacts
<1>4. ofile \in [FtSlots -> [Fds -> 0 .. NFILE]] /\ run \in [FtSlots -> RunRec] BY Zenon, <1>t
    DEF TypeInv
<1>5. /\ r \in RunRec /\ Len(r.todo) = 1 /\ FromEnd(r.todo, 1) = f
      /\ r.pc = "user" /\ r.fd = -1 /\ r.ff = NoFile
  <2> HIDE DEF f
  <2>1. <<f>> \in Seq(Files) /\ Len(<<f>>) = 1 /\ FromEnd(<<f>>, 1) = f BY Zenon, <1>1, TodoNew
  <2>2. run[p] \in RunRec BY Zenon, <1>4
  <2>3. r \in RunRec /\ r.todo = <<f>> /\ r.pc = "user" /\ r.fd = -1 /\ r.ff = NoFile
    BY ZenonT(60), <2>1, <2>2, <1>3, TodoFields
  <2> QED BY Zenon, <2>1, <2>3
<1> HIDE DEF r
<1>6. run'[p] = r /\ \A q \in FtSlots \ {p} : run'[q] = run[q] BY Zenon, <1>2, <1>4
<1>7. TypeInv'
  <2>1. 0 \in 0 .. NFILE BY FtAssumption
  <2>2. ofile' \in [FtSlots -> [Fds -> 0 .. NFILE]] BY Zenon, <1>2, <1>4, <2>1
  <2>3. \A q \in FtSlots \ {p} : ofile'[q] = ofile[q] BY Zenon, <1>2, <1>4
  <2>4. pipe' \in [1 .. NPipes -> SUBSET Ends] /\ ft' \in [Files -> FileRec] BY Zenon, <1>2,
      <1>t DEF TypeInv
  <2>5. \A g \in Files : IF ft'[g].ref = 0 THEN ft'[g] = NoFile ELSE OpenFile(ft'[g])
    BY Zenon, <1>2, <1>t DEF TypeInv
  <2>6. Len(r.todo) <= 2 /\ r.pc # "unused" BY <1>5
  <2> QED BY ZenonT(60), <2>2, <2>3, <2>4, <2>5, <2>6, <1>2, <1>5, <1>t, SlotStep
<1>8. EndInv'
  <2>1. \A g \in Files, i \in 1 .. NPipes, end \in Ends : FileIs(g, i, end)' <=> FileIs(g, i, end)
    BY Zenon, <1>2 DEF FileIs
  <2>2. \A q \in FtSlots, i \in 1 .. NPipes, end \in Ends : LastIs(q, i, end)' <=> LastIs(q, i, end)
    BY Zenon, <1>3, <1>5, <1>6 DEF LastIs
  <2> QED BY Zenon, <2>1, <2>2, <1>2, EndsKept DEF FtInv
<1>9. CountInv'
  <2> SUFFICES ASSUME NEW g \in Files
               PROVE  ft'[g].ref = Cardinality(Descriptors(g)') + Cardinality(Closing(g)')
    BY DEF CountInv
  <2>1. \A q \in FtSlots : run'[q].pc = "unused" <=> run[q].pc = "unused" BY Zenon, <1>3, <1>5, <1>6
  <2>2. \A q \in FtSlots \ {p} : run'[q].fd = run[q].fd /\ run'[q].todo = run[q].todo BY Zenon, <1>6
  <2>3. Cardinality(Descriptors(g)') = IF f = g THEN Cardinality(Descriptors(g)) - 1
                                                ELSE Cardinality(Descriptors(g))
    <3>1. run'[p].fd = -1 /\ run[p].pc # "unused" BY Zenon, <1>3, <1>5, <1>6
    <3> QED BY ZenonT(60), <2>1, <2>2, <3>1, <1>2, <1>3, <1>4, DescriptorTaken
  <2>4. Cardinality(Closing(g)') = IF g = f THEN Cardinality(Closing(g)) + 1
                                            ELSE Cardinality(Closing(g))
    <3> HIDE DEF f
    <3>1. Len(run'[p].todo) = 1 /\ FromEnd(run'[p].todo, 1) = f BY Zenon, <1>5, <1>6
    <3> QED BY Zenon, <2>2, <3>1, <1>1, <1>3, ClosingOne
  <2>5. ft[g].ref = Cardinality(Descriptors(g)) + Cardinality(Closing(g)) BY DEF FtInv, CountInv
  <2>6. ft'[g].ref = ft[g].ref BY Zenon, <1>2
  <2> HIDE DEF f
  <2> QED BY <2>3, <2>4, <2>5, <2>6, RefSets
<1> QED BY <1>7, <1>8, <1>9 DEF FtInv

\* The end of fileclose: the last one closes the end of the pipe it stands for.
LEMMA CloseEndInv ==
  ASSUME FtInv, NEW p \in FtSlots, CloseEnd(p)
  PROVE  FtInv'
<1> DEFINE h == run[p].ff
           r == SetFf(run[p], NoFile)
<1>t. TypeInv BY DEF FtInv
<1>1. /\ ft' = ft /\ ofile' = ofile /\ run' = [run EXCEPT ![p] = r] /\ h # NoFile
      /\ pipe' = IF h.type = "inode" THEN pipe ELSE [pipe EXCEPT ![h.pipe] = @ \ {h.type}]
  BY Zenon DEF CloseEnd, SetFf
<1>2. run[p] \in RunRec /\ run \in [FtSlots -> RunRec] BY Zenon, <1>t DEF TypeInv
<1>3. /\ r \in RunRec /\ r.ff = NoFile
      /\ r.pc = run[p].pc /\ r.todo = run[p].todo /\ r.fd = run[p].fd
  BY Zenon, <1>2, FfFields, Blank
<1>4. h \in FileRec /\ OpenFile(h) BY Zenon, <1>t, <1>1, SlotFacts
<1> HIDE DEF r
<1>5. run'[p] = r /\ \A q \in FtSlots \ {p} : run'[q] = run[q] BY Zenon, <1>1, <1>2
<1>6. run[p].pc # "unused" BY Zenon, <1>t, <1>1, SlotFacts, Blank
<1>7. h.type = "inode" \/ (h.type \in Ends /\ h.pipe \in 1 .. NPipes)
  BY Zenon, <1>4 DEF FileRec, OpenFile, Ends
<1>8. pipe \in [1 .. NPipes -> SUBSET Ends] BY Zenon, <1>t DEF TypeInv
<1>9. TypeInv'
  <2>1. pipe' \in [1 .. NPipes -> SUBSET Ends]
    <3>1. CASE h.type = "inode" BY Zenon, <3>1, <1>1, <1>8
    <3>2. CASE h.type \in Ends /\ h.pipe \in 1 .. NPipes
      <4>1. h.type # "inode" BY Zenon, <3>2 DEF Ends
      <4> HIDE DEF h
      <4> QED BY ZenonT(60), <4>1, <1>1, <1>8
    <3> QED BY Zenon, <3>1, <3>2, <1>7
  <2>2. /\ ofile' \in [FtSlots -> [Fds -> 0 .. NFILE]] /\ ft' \in [Files -> FileRec]
        /\ \A q \in FtSlots \ {p} : ofile'[q] = ofile[q]
        /\ \A f \in Files : IF ft'[f].ref = 0 THEN ft'[f] = NoFile ELSE OpenFile(ft'[f])
    BY Zenon, <1>1, <1>t DEF TypeInv
  <2>3. Len(r.todo) <= 2 /\ r.pc # "unused" /\ (r.pc = "user" => r.fd = -1)
    BY Zenon, <1>3, <1>6, <1>t, SlotFacts
  <2> QED BY ZenonT(60), <2>1, <2>2, <2>3, <1>1, <1>3, <1>t, SlotStep
<1>10. CountInv'
  <2>1. SlotsKept /\ TodoKept BY Zenon, <1>3, <1>5 DEF SlotsKept, TodoKept
  <2>2. ASSUME NEW f \in Files PROVE Descriptors(f)' = Descriptors(f) /\ Closing(f)' = Closing(f)
    BY Zenon, <2>1, <1>1, DescriptorsKept, ClosingKept
  <2> QED BY Zenon, <2>2, <1>1 DEF FtInv, CountInv
<1>11. ASSUME NEW i \in 1 .. NPipes, NEW end \in Ends
       PROVE  /\ \A f \in Files : FileIs(f, i, end)' <=> FileIs(f, i, end)
              /\ \A q \in FtSlots \ {p} : LastIs(q, i, end)' <=> LastIs(q, i, end)
              /\ ~LastIs(p, i, end)'
              /\ LastIs(p, i, end) <=> h.type = end /\ h.pipe = i
  <2>1. \A f \in Files : FileIs(f, i, end)' <=> FileIs(f, i, end) BY Zenon, <1>1 DEF FileIs
  <2>2. \A q \in FtSlots \ {p} : LastIs(q, i, end)' <=> LastIs(q, i, end) BY Zenon, <1>5 DEF LastIs
  <2>3. ~LastIs(p, i, end)' BY Zenon, <1>3, <1>5, Blank DEF LastIs, Ends
  <2> QED BY Zenon, <2>1, <2>2, <2>3 DEF LastIs
<1>12. ASSUME NEW i \in 1 .. NPipes, NEW end \in Ends
       PROVE  end \in pipe'[i] <=> end \in pipe[i] /\ ~LastIs(p, i, end)
  <2>1. CASE h.type = "inode" BY Zenon, <2>1, <1>1, <1>11 DEF Ends
  <2>2. CASE h.type \in Ends /\ h.pipe \in 1 .. NPipes
    <3>1. h.type # "inode" BY Zenon, <2>2 DEF Ends
    <3> HIDE DEF h
    <3> QED BY Zenon, <2>2, <3>1, <1>1, <1>8, <1>11
  <2> QED BY Zenon, <2>1, <2>2, <1>7
<1>13. EndInv'
  <2> SUFFICES ASSUME NEW i \in 1 .. NPipes, NEW end \in Ends
               PROVE /\ end \in pipe'[i] <=> \/ \E f \in Files : FileIs(f, i, end)'
                                             \/ \E q \in FtSlots : LastIs(q, i, end)'
                     /\ \A f, g \in Files : FileIs(f, i, end)' /\ FileIs(g, i, end)' => f = g
                     /\ \A x, y \in FtSlots : LastIs(x, i, end)' /\ LastIs(y, i, end)' => x = y
                     /\ \A f \in Files, x \in FtSlots : ~(FileIs(f, i, end)' /\ LastIs(x, i, end)')
    BY Zenon DEF EndInv, Files, FtSlots, Ends
  <2>1. /\ end \in pipe[i] <=> \/ \E f \in Files : FileIs(f, i, end)
                               \/ \E q \in FtSlots : LastIs(q, i, end)
        /\ \A f, g \in Files : FileIs(f, i, end) /\ FileIs(g, i, end) => f = g
        /\ \A x, y \in FtSlots : LastIs(x, i, end) /\ LastIs(y, i, end) => x = y
        /\ \A f \in Files, x \in FtSlots : ~(FileIs(f, i, end) /\ LastIs(x, i, end))
    BY Zenon DEF FtInv, EndInv
  <2> HIDE DEF h
  <2> QED BY <2>1, <1>11, <1>12
<1> QED BY Zenon, <1>9, <1>10, <1>13 DEF FtInv

\* fileclose under ftable.lock: it drops a reference that it has on its list,
\* and keeps a copy of the file when that was the last one.
LEMMA DropRefInv ==
  ASSUME FtInv, NEW p \in FtSlots, DropRef(p)
  PROVE  FtInv'
<1> DEFINE s == run[p].todo
           f == Head(s)
<1>t. TypeInv BY DEF FtInv
<1>1. /\ s \in Seq(Files) /\ s # <<>> /\ Len(s) <= 2 /\ run[p] \in RunRec /\ run[p].ff = NoFile
      /\ run[p].pc = "user" => run[p].fd = -1
      /\ ofile' = ofile /\ pipe' = pipe
  BY Zenon, <1>t, SlotFacts DEF DropRef
<1>2. /\ Tail(s) \in Seq(Files) /\ Len(Tail(s)) = Len(s) - 1 /\ Len(s) \in 1 .. 2
      /\ \A j \in 1 .. Len(s) - 1 : FromEnd(Tail(s), j) = FromEnd(s, j)
      /\ FromEnd(s, Len(s)) = f /\ f \in Files
  <2> HIDE DEF s
  <2> QED BY Zenon, <1>1, TodoTail
<1>3. run[p].pc # "unused" BY Zenon, <1>1, <1>t, SlotFacts, Blank
<1> DEFINE r == SetTodo(run[p], Tail(s))
<1>4. /\ r \in RunRec /\ r.todo = Tail(s) /\ r.pc = run[p].pc /\ r.fd = run[p].fd /\ r.ff = NoFile
  BY ZenonT(60), <1>1, <1>2, TodoFields
<1>5. /\ ft[f].ref >= 1
      /\ \/ /\ ft[f].ref > 1 /\ run' = [run EXCEPT ![p] = r]
            /\ ft' = [ft EXCEPT ![f] = SetRef(ft[f], ft[f].ref - 1)]
         \/ /\ ft[f].ref = 1 /\ run' = [run EXCEPT ![p] = SetFf(r, SetRef(ft[f], 0))]
            /\ ft' = [ft EXCEPT ![f] = NoFile]
  BY ZenonT(60) DEF DropRef, SetRef, SetTodo, SetFf
<1>6. ft[f] \in FileRec /\ ft[f].ref \in Nat /\ OpenFile(ft[f]) BY <1>2, <1>5, <1>t, FileFacts
<1>7. run \in [FtSlots -> RunRec] BY Zenon, <1>t DEF TypeInv
<1>8. pipe' \in [1 .. NPipes -> SUBSET Ends] /\ ofile' \in [FtSlots -> [Fds -> 0 .. NFILE]]
  BY Zenon, <1>1, <1>t DEF TypeInv
<1> HIDE DEF s, f, r
<1>9. Len(r.todo) <= 2 BY <1>1, <1>2, <1>4
<1>10. ASSUME NEW g \in FileRec, NEW r1 \in RunRec, r1.todo = r.todo, r1.pc = r.pc, r1.fd = r.fd,
              ft' = [ft EXCEPT ![f] = g], run' = [run EXCEPT ![p] = r1],
              g.ref = ft[f].ref - 1, g.ref = 0 => g = NoFile, g.ref # 0 => OpenFile(g),
              r1.ff = NoFile \/ OpenFile(r1.ff)
       PROVE  TypeInv' /\ CountInv' /\ ft'[f] = g /\ run'[p] = r1
              /\ (\A k \in Files \ {f} : ft'[k] = ft[k]) /\ \A q \in FtSlots \ {p} : run'[q] = run[q]
  <2>1. /\ ft' \in [Files -> FileRec] /\ ft'[f] = g
        /\ \A k \in Files \ {f} : ft'[k] = ft[k]
        /\ \A k \in Files : IF ft'[k].ref = 0 THEN ft'[k] = NoFile ELSE OpenFile(ft'[k])
    BY ZenonT(60), <1>2, <1>10, <1>t, FileStep
  <2>2. run'[p] = r1 /\ \A q \in FtSlots \ {p} : run'[q] = run[q] BY Zenon, <1>7, <1>10
  <2>3. TypeInv'
    <3>1. /\ Len(r1.todo) <= 2 /\ r1.pc # "unused" /\ (r1.pc = "user" => r1.fd = -1)
          /\ \A q \in FtSlots \ {p} : ofile'[q] = ofile[q]
      BY Zenon, <1>1, <1>3, <1>4, <1>9, <1>10
    <3> QED BY ZenonT(60), <3>1, <2>1, <1>8, <1>10, <1>t, SlotStep
  <2>4. CountInv'
    <3> SUFFICES ASSUME NEW k \in Files
                 PROVE  ft'[k].ref = Cardinality(Descriptors(k)') + Cardinality(Closing(k)')
      BY Zenon DEF CountInv
    <3>1. SlotsKept BY Zenon, <2>2, <1>3, <1>4, <1>10 DEF SlotsKept
    <3>2. Descriptors(k)' = Descriptors(k) BY Zenon, <3>1, <1>1, DescriptorsKept
    <3>3. Cardinality(Closing(k)') = IF k = f THEN Cardinality(Closing(k)) - 1
                                              ELSE Cardinality(Closing(k))
      <4>1. PICK n \in {1, 2} : n = Len(s) BY <1>2
      <4>2. run[p].todo = s /\ run'[p].todo = Tail(s) BY Zenon, <2>2, <1>4, <1>10 DEF s
      <4>3. Len(run[p].todo) = n /\ FromEnd(run[p].todo, n) = f BY Zenon, <4>1, <4>2, <1>2
      <4>4. Len(run'[p].todo) = n - 1 BY Zenon, <4>1, <4>2, <1>2
      <4>5. \A j \in 1 .. n - 1 : FromEnd(run'[p].todo, j) = FromEnd(run[p].todo, j)
        BY Zenon, <4>1, <4>2, <1>2
      <4>6. \A q \in FtSlots \ {p} : run'[q].todo = run[q].todo BY Zenon, <2>2
      <4> QED BY ZenonT(60), <4>3, <4>4, <4>5, <4>6, ClosingLess
    <3>4. ft[k].ref = Cardinality(Descriptors(k)) + Cardinality(Closing(k)) BY Zenon
        DEF FtInv, CountInv
    <3>5. CASE k = f BY <3>2, <3>3, <3>4, <3>5, <2>1, <1>10, RefSets
    <3>6. CASE k # f BY Zenon, <3>2, <3>3, <3>4, <3>6, <2>1
    <3> QED BY Zenon, <3>5, <3>6
  <2> QED BY Zenon, <2>1, <2>2, <2>3, <2>4
<1>11. CASE ft[f].ref > 1 /\ run' = [run EXCEPT ![p] = r]
            /\ ft' = [ft EXCEPT ![f] = SetRef(ft[f], ft[f].ref - 1)]
  <2> DEFINE g == SetRef(ft[f], ft[f].ref - 1)
  <2>1. ft[f].ref - 1 \in Nat /\ ft[f].ref - 1 # 0 BY <1>6, <1>11
  <2>2. /\ g \in FileRec /\ g.ref = ft[f].ref - 1
        /\ g.type = ft[f].type /\ g.pipe = ft[f].pipe
    BY ZenonT(60), <1>6, <2>1, RefFields
  <2>3. ft' = [ft EXCEPT ![f] = g] BY Zenon, <1>11
  <2> HIDE DEF g
  <2>4. OpenFile(g) BY Zenon, <1>6, <2>2 DEF OpenFile
  <2>5. TypeInv' /\ CountInv' /\ ft'[f] = g /\ run'[p] = r
        /\ (\A k \in Files \ {f} : ft'[k] = ft[k]) /\ \A q \in FtSlots \ {p} : run'[q] = run[q]
    BY ZenonT(60), <2>1, <2>2, <2>3, <2>4, <1>4, <1>10, <1>11
  <2>6. \A k \in Files, i \in 1 .. NPipes, end \in Ends : FileIs(k, i, end)' <=> FileIs(k, i, end)
    BY Zenon, <2>2, <2>5 DEF FileIs
  <2>7. \A q \in FtSlots, i \in 1 .. NPipes, end \in Ends : LastIs(q, i, end)' <=> LastIs(q, i, end)
    BY Zenon, <2>5, <1>1, <1>4 DEF LastIs
  <2>8. EndInv' BY Zenon, <2>6, <2>7, <1>1, EndsKept DEF FtInv
  <2> QED BY Zenon, <2>5, <2>8 DEF FtInv
<1>12. CASE ft[f].ref = 1 /\ run' = [run EXCEPT ![p] = SetFf(r, SetRef(ft[f], 0))]
            /\ ft' = [ft EXCEPT ![f] = NoFile]
  <2> DEFINE h == SetRef(ft[f], 0)
             r1 == SetFf(r, h)
  <2>1. h \in FileRec /\ h.type = ft[f].type /\ h.pipe = ft[f].pipe BY Zenon, <1>6, RefFields
  <2>2. run' = [run EXCEPT ![p] = r1] BY Zenon, <1>12
  <2>3. r1 \in RunRec /\ r1.todo = r.todo /\ r1.pc = r.pc /\ r1.fd = r.fd /\ r1.ff = h
    <3> HIDE DEF h
    <3> QED BY Zenon, <2>1, <1>4, FfFields
  <2> HIDE DEF h, r1
  <2>4. OpenFile(h) BY Zenon, <1>6, <2>1 DEF OpenFile
  <2>5. NoFile \in FileRec /\ NoFile.ref = ft[f].ref - 1 /\ NoFile.ref = 0 BY Blank, <1>12
  <2>6. TypeInv' /\ CountInv' /\ ft'[f] = NoFile /\ run'[p] = r1
        /\ (\A k \in Files \ {f} : ft'[k] = ft[k]) /\ \A q \in FtSlots \ {p} : run'[q] = run[q]
    BY ZenonT(60), <2>2, <2>3, <2>4, <2>5, <1>10, <1>12
  <2>7. run'[p].ff.type = ft[f].type /\ run'[p].ff.pipe = ft[f].pipe BY Zenon, <2>1, <2>3, <2>6
  <2>8. EndInv' BY Zenon, <2>6, <2>7, <1>1, <1>2, EndsMoved DEF FtInv
  <2> QED BY Zenon, <2>6, <2>8 DEF FtInv
<1> QED BY SMTT(30), <1>5, <1>11, <1>12

\* exit: it marks the process, closes descriptor after descriptor, and leaves
\* a slot without any.
LEMMA ExitInv ==
  ASSUME FtInv, NEW p \in FtSlots, exit(p)
  PROVE  FtInv'
<1> DEFINE open == {fd \in Fds : ofile[p][fd] # 0}
<1>t. TypeInv BY DEF FtInv
<1>1. /\ ft' = ft /\ pipe' = pipe /\ run[p].todo = <<>> /\ run[p].ff = NoFile
      /\ run[p] \in RunRec /\ run \in [FtSlots -> RunRec]
      /\ ofile \in [FtSlots -> [Fds -> 0 .. NFILE]] /\ ofile[p] \in [Fds -> 0 .. NFILE]
  BY Zenon, <1>t DEF exit, Busy, TypeInv
<1>2. Len(run[p].todo) = 0 BY Zenon, <1>1, EmptyList
<1>3. ASSUME NEW r \in RunRec, run' = [run EXCEPT ![p] = r], r.ff = NoFile,
             Len(r.todo) <= 2, r.pc = "user" => r.fd = -1,
             r.pc = "unused" => r = Unused /\ \A fd \in Fds : ofile'[p][fd] = 0,
             ofile' \in [FtSlots -> [Fds -> 0 .. NFILE]],
             \A q \in FtSlots \ {p} : ofile'[q] = ofile[q]
      PROVE  TypeInv' /\ EndInv' /\ run'[p] = r /\ \A q \in FtSlots \ {p} : run'[q] = run[q]
  <2>1. run'[p] = r /\ \A q \in FtSlots \ {p} : run'[q] = run[q] BY Zenon, <1>1, <1>3
  <2>2. pipe' \in [1 .. NPipes -> SUBSET Ends] /\ ft' \in [Files -> FileRec] BY Zenon, <1>1,
      <1>t DEF TypeInv
  <2>3. \A g \in Files : IF ft'[g].ref = 0 THEN ft'[g] = NoFile ELSE OpenFile(ft'[g])
    BY Zenon, <1>1, <1>t DEF TypeInv
  <2>4. TypeInv' BY ZenonT(60), <2>2, <2>3, <1>3, <1>t, SlotStep
  <2>5. \A g \in Files, i \in 1 .. NPipes, end \in Ends : FileIs(g, i, end)' <=> FileIs(g, i, end)
    BY Zenon, <1>1 DEF FileIs
  <2>6. \A q \in FtSlots, i \in 1 .. NPipes, end \in Ends : LastIs(q, i, end)' <=> LastIs(q, i, end)
    BY Zenon, <1>1, <1>3, <2>1 DEF LastIs
  <2>7. EndInv' BY Zenon, <2>5, <2>6, <1>1, EndsKept DEF FtInv
  <2> QED BY Zenon, <2>1, <2>4, <2>7
<1>4. ASSUME \A f \in Files : Cardinality(Descriptors(f)') + Cardinality(Closing(f)')
                                = Cardinality(Descriptors(f)) + Cardinality(Closing(f))
      PROVE  CountInv'
  BY Zenon, <1>1, <1>4 DEF FtInv, CountInv
<1>5. CASE run[p].pc = "user" /\ run' = [run EXCEPT ![p].pc = "exit"] /\ ofile' = ofile
  <2> DEFINE r == SetPc(run[p], "exit")
  <2>1. run' = [run EXCEPT ![p] = r] BY Zenon, <1>5 DEF SetPc
  <2>2. r \in RunRec /\ r.pc = "exit" /\ r.fd = run[p].fd /\ r.todo = run[p].todo /\ r.ff = run[p].ff
    BY Zenon, <1>1, PcFields
  <2> HIDE DEF r
  <2>3. TypeInv' /\ EndInv' /\ run'[p] = r /\ \A q \in FtSlots \ {p} : run'[q] = run[q]
    <3>1. Len(r.todo) <= 2 BY <2>2, <1>2
    <3> QED BY ZenonT(60), <3>1, <2>1, <2>2, <1>1, <1>3, <1>5
  <2>4. SlotsKept /\ TodoKept BY Zenon, <2>2, <2>3, <1>5 DEF SlotsKept, TodoKept
  <2>5. \A f \in Files : Descriptors(f)' = Descriptors(f) /\ Closing(f)' = Closing(f)
    BY Zenon, <2>4, <1>5, DescriptorsKept, ClosingKept
  <2> QED BY Zenon, <2>3, <2>5, <1>4 DEF FtInv
<1>6. CASE /\ run[p].pc = "exit" /\ run[p].fd = -1 /\ open # {} /\ ofile' = ofile
           /\ run' = [run EXCEPT ![p].fd = Min(open), ![p].todo = <<ofile[p][Min(open)]>>]
  <2>1. Min(open) \in open
    <3>1. open \in SUBSET Nat BY FtAssumption DEF Fds
    <3> HIDE DEF open
    <3> QED BY Zenon, <3>1, <1>6, LowestOf
  <2>2. PICK fd \in Fds : fd = Min(open) BY Zenon, <2>1
  <2>3. ofile[p][fd] # 0 BY Zenon, <2>1, <2>2
  <2>4. PICK g \in Files : g = ofile[p][fd] BY <2>3, <1>1 DEF Files
  <2> HIDE DEF open
  <2> DEFINE r0 == SetFd(run[p], fd)
             r == SetTodo(r0, <<g>>)
  <2>5. run' = [run EXCEPT ![p] = r] BY ZenonT(60), <2>2, <2>4, <1>6 DEF SetFd, SetTodo
  <2>6. fd \in -1 .. NOFILE - 1 BY DEF Fds
  <2>7. r0 \in RunRec /\ r0.fd = fd /\ r0.pc = "exit" /\ r0.ff = NoFile
    BY Zenon, <2>6, <1>1, <1>6, FdFields
  <2>8. <<g>> \in Seq(Files) /\ Len(<<g>>) = 1 /\ FromEnd(<<g>>, 1) = g BY Zenon, TodoNew
  <2>9. r \in RunRec /\ r.todo = <<g>> /\ r.fd = fd /\ r.pc = "exit" /\ r.ff = NoFile
    <3> HIDE DEF r0
    <3> QED BY ZenonT(60), <2>7, <2>8, TodoFields
  <2>10. Len(r.todo) = 1 /\ FromEnd(r.todo, 1) = g BY Zenon, <2>8, <2>9
  <2> HIDE DEF r, r0
  <2>11. TypeInv' /\ EndInv' /\ run'[p] = r /\ \A q \in FtSlots \ {p} : run'[q] = run[q]
    <3>1. Len(r.todo) <= 2 BY <2>10
    <3> QED BY ZenonT(60), <3>1, <2>5, <2>9, <1>1, <1>3, <1>6
  <2>12. ASSUME NEW f \in Files
         PROVE  Cardinality(Descriptors(f)') + Cardinality(Closing(f)')
                  = Cardinality(Descriptors(f)) + Cardinality(Closing(f))
    <3>1. \A q \in FtSlots : run'[q].pc = "unused" <=> run[q].pc = "unused"
      BY ZenonT(60), <2>9, <2>11, <1>6
    <3>2. \A q \in FtSlots \ {p} : run'[q].fd = run[q].fd /\ run'[q].todo = run[q].todo BY Zenon,
        <2>11
    <3>3. run'[p].fd = fd /\ run[p].pc # "unused" /\ run[p].fd = -1 /\ ofile' = ofile
      BY Zenon, <2>9, <2>11, <1>6
    <3>4. Cardinality(Descriptors(f)') = IF ofile[p][fd] = f THEN Cardinality(Descriptors(f)) - 1
                                                             ELSE Cardinality(Descriptors(f))
      BY Zenon, <3>1, <3>2, <3>3, <1>1, DescriptorTaken
    <3>5. Len(run'[p].todo) = 1 /\ FromEnd(run'[p].todo, 1) = g BY Zenon, <2>10, <2>11
    <3>6. Cardinality(Closing(f)') = IF f = g THEN Cardinality(Closing(f)) + 1
                                              ELSE Cardinality(Closing(f))
      BY <3>2, <3>5, <1>2, ClosingOne
    <3> QED BY <3>4, <3>6, <2>4, RefSets
  <2> QED BY Zenon, <2>11, <2>12, <1>4 DEF FtInv
<1>7. CASE /\ run[p].pc = "exit" /\ run[p].fd # -1
           /\ ofile' = [ofile EXCEPT ![p][run[p].fd] = 0] /\ run' = [run EXCEPT ![p].fd = -1]
  <2>1. run[p].fd \in -1 .. NOFILE - 1 BY Zenon, <1>t, SlotFacts
  <2>2. PICK fd \in Fds : fd = run[p].fd BY <2>1, <1>7, FtAssumption DEF Fds
  <2> DEFINE r == SetFd(run[p], -1)
  <2>3. run' = [run EXCEPT ![p] = r] BY Zenon, <1>7 DEF SetFd
  <2>4. -1 \in -1 .. NOFILE - 1 /\ 0 \in 0 .. NFILE BY FtAssumption
  <2>5. r \in RunRec /\ r.pc = "exit" /\ r.fd = -1 /\ r.todo = run[p].todo /\ r.ff = NoFile
    BY Zenon, <2>4, <1>1, <1>7, FdFields
  <2> HIDE DEF r
  <2>6. /\ ofile' \in [FtSlots -> [Fds -> 0 .. NFILE]] /\ ofile'[p][fd] = 0
        /\ \A q \in FtSlots \ {p} : ofile'[q] = ofile[q]
        /\ \A k \in Fds \ {fd} : ofile'[p][k] = ofile[p][k]
    BY Zenon, <2>2, <2>4, <1>1, <1>7
  <2>7. TypeInv' /\ EndInv' /\ run'[p] = r /\ \A q \in FtSlots \ {p} : run'[q] = run[q]
    <3>1. Len(r.todo) <= 2 BY <2>5, <1>2
    <3> QED BY ZenonT(60), <3>1, <2>3, <2>5, <2>6, <1>3
  <2>8. ASSUME NEW f \in Files PROVE Descriptors(f)' = Descriptors(f) /\ Closing(f)' = Closing(f)
    <3>1. TodoKept BY Zenon, <2>5, <2>7 DEF TodoKept
    <3>2. f # 0 /\ -1 \notin Fds BY DEF Files, Fds
    <3>3. ASSUME NEW d \in FtSlots \X Fds
          PROVE  d \in Descriptors(f)' <=> d \in Descriptors(f)
      <4>1. PICK q \in FtSlots, k \in Fds : d = <<q, k>> OBVIOUS
      <4>2. CASE q # p BY <4>1, <4>2, <2>6, <2>7 DEF Descriptors
      <4>3. CASE q = p /\ k = fd BY Zenon, <4>1, <4>3, <2>2, <2>6, <3>2 DEF Descriptors
      <4>4. CASE q = p /\ k # fd
        <5>1. ofile'[p][k] = ofile[p][k] /\ run[p].fd # k /\ run'[p].fd # k
          BY Zenon, <4>4, <2>2, <2>5, <2>6, <2>7, <3>2
        <5>2. run[p].pc # "unused" /\ run'[p].pc # "unused" BY Zenon, <2>5, <2>7, <1>7
        <5> QED BY Zenon, <4>1, <4>4, <5>1, <5>2 DEF Descriptors
      <4> QED BY Zenon, <4>2, <4>3, <4>4
    <3>4. Descriptors(f)' = Descriptors(f) BY Zenon, <3>3 DEF Descriptors
    <3> QED BY Zenon, <3>1, <3>4, ClosingKept
  <2> QED BY Zenon, <2>7, <2>8, <1>4 DEF FtInv
<1>8. CASE /\ run[p].pc = "exit" /\ run[p].fd = -1 /\ open = {} /\ ofile' = ofile
           /\ run' = [run EXCEPT ![p] = Unused]
  <2>1. \A fd \in Fds : ofile[p][fd] = 0 BY Zenon, <1>8
  <2>2. TypeInv' /\ EndInv' /\ run'[p] = Unused /\ \A q \in FtSlots \ {p} : run'[q] = run[q]
    <3>1. Unused \in RunRec /\ Unused.ff = NoFile /\ Unused.pc = "unused" BY Zenon, Blank
    <3>2. Len(Unused.todo) <= 2 BY <1>2, <1>1, Blank
    <3> QED BY ZenonT(60), <3>1, <3>2, <2>1, <1>1, <1>3, <1>8
  <2>3. ASSUME NEW f \in Files PROVE Descriptors(f)' = Descriptors(f) /\ Closing(f)' = Closing(f)
    <3>1. TodoKept BY ZenonT(60), <2>2, <1>1, Blank DEF TodoKept
    <3>2. f # 0 BY DEF Files
    <3>3. ASSUME NEW d \in FtSlots \X Fds
          PROVE  d \in Descriptors(f)' <=> d \in Descriptors(f)
      <4>1. PICK q \in FtSlots, k \in Fds : d = <<q, k>> OBVIOUS
      <4>2. CASE q # p BY <4>1, <4>2, <2>2, <1>8 DEF Descriptors
      <4>3. CASE q = p BY Zenon, <4>1, <4>3, <2>1, <3>2, <1>8 DEF Descriptors
      <4> QED BY Zenon, <4>2, <4>3
    <3>4. Descriptors(f)' = Descriptors(f) BY Zenon, <3>3 DEF Descriptors
    <3> QED BY Zenon, <3>1, <3>4, ClosingKept
  <2> QED BY Zenon, <2>2, <2>3, <1>4 DEF FtInv
<1> QED BY Zenon, <1>5, <1>6, <1>7, <1>8 DEF exit

\* pipe: two new files for the ends of a pipe that nobody has, with a descriptor
\* each, or to be closed again.
LEMMA PipeCallInv ==
  ASSUME FtInv, NEW p \in FtSlots, sys_pipe(p)
  PROVE  FtInv'
<1>t. TypeInv BY DEF FtInv
<1>u. User(p) /\ Cardinality(FreeFiles) >= 2 BY Zenon DEF sys_pipe
<1>1. PICK rf \in Files, wf \in Files :
        /\ rf = Min(FreeFiles) /\ wf = Min(FreeFiles \ {rf}) /\ rf # wf
        /\ ft[rf] = NoFile /\ ft[wf] = NoFile
  <2>1. FreeFiles \in SUBSET Nat /\ FreeFiles \subseteq Files BY DEF FreeFiles, Files
  <2>2. IsFiniteSet(FreeFiles)
    BY ZenonT(60), Sizes, <2>1, FS_Subset
  <2>3. Min(FreeFiles) \in FreeFiles /\ Min(FreeFiles \ {Min(FreeFiles)}) \in FreeFiles \ {Min(FreeFiles)}
    BY Zenon, <1>u, <2>1, <2>2, LowestTwo
  <2>4. \A f \in FreeFiles : f \in Files /\ ft[f] = NoFile BY Zenon, <1>t, FileFacts DEF FreeFiles
  <2> QED BY Zenon, <2>3, <2>4
<1>2. PICK i \in 1 .. NPipes : pipe[i] = {} /\ i = Min({j \in 1 .. NPipes : pipe[j] = {}})
  <2> DEFINE I == {j \in 1 .. NPipes : pipe[j] = {}}
  <2>1. I \in SUBSET Nat OBVIOUS
  <2>2. I # {} BY Zenon DEF sys_pipe
  <2>3. Min(I) \in I
    <3> HIDE DEF I
    <3> QED BY Zenon, <2>1, <2>2, LowestOf
  <2> QED BY Zenon, <2>3
<1> DEFINE R == [ref |-> 1, type |-> "r", pipe |-> i]
           W == [ref |-> 1, type |-> "w", pipe |-> i]
<1>3. /\ R \in FileRec /\ R.ref = 1 /\ R.type = "r" /\ R.pipe = i /\ OpenFile(R)
      /\ W \in FileRec /\ W.ref = 1 /\ W.type = "w" /\ W.pipe = i /\ OpenFile(W)
  BY DEF FileRec, OpenFile
<1>4. /\ ft' = [ft EXCEPT ![rf] = R, ![wf] = W] /\ pipe' = [pipe EXCEPT ![i] = {"r", "w"}]
      /\ \/ /\ Cardinality(FreeFds(p)) >= 2 /\ run' = run
            /\ ofile' = [ofile EXCEPT ![p][Min(FreeFds(p))] = rf,
                                      ![p][Min(FreeFds(p) \ {Min(FreeFds(p))})] = wf]
         \/ run' = [run EXCEPT ![p].todo = <<rf, wf>>] /\ ofile' = ofile
  BY Zenon, <1>1, <1>2 DEF sys_pipe
<1> HIDE DEF R, W
<1>5. /\ ft \in [Files -> FileRec] /\ pipe \in [1 .. NPipes -> SUBSET Ends]
      /\ ofile \in [FtSlots -> [Fds -> 0 .. NFILE]] /\ run \in [FtSlots -> RunRec]
  BY Zenon, <1>t DEF TypeInv
<1>6. run[p].pc = "user" /\ run[p].fd = -1 /\ Len(run[p].todo) = 0 /\ run[p].ff = NoFile
  BY Zenon, <1>t, <1>u, UserFacts
<1>7. /\ ft' \in [Files -> FileRec] /\ ft'[rf] = R /\ ft'[wf] = W
      /\ \A g \in Files \ {rf, wf} : ft'[g] = ft[g]
  BY ZenonT(60), <1>1, <1>3, <1>4, <1>5
<1>8. ASSUME NEW g \in Files PROVE IF ft'[g].ref = 0 THEN ft'[g] = NoFile ELSE OpenFile(ft'[g])
  <2>1. CASE g \in {rf, wf} BY <2>1, <1>3, <1>7
  <2>2. CASE g \notin {rf, wf} BY Zenon, <2>2, <1>7, <1>t DEF TypeInv
  <2> QED BY Zenon, <2>1, <2>2
<1>9. pipe' \in [1 .. NPipes -> SUBSET Ends] /\ pipe'[i] = Ends /\ \A j \in 1 .. NPipes \ {i} : pipe'[j] = pipe[j]
  BY SMTT(30), <1>4, <1>5 DEF Ends
<1>10. ASSUME \A q \in FtSlots : run'[q].ff = run[q].ff PROVE EndInv'
  <2> SUFFICES ASSUME NEW j \in 1 .. NPipes, NEW end \in Ends
               PROVE /\ end \in pipe'[j] <=> \/ \E f \in Files : FileIs(f, j, end)'
                                             \/ \E q \in FtSlots : LastIs(q, j, end)'
                     /\ \A f, g \in Files : FileIs(f, j, end)' /\ FileIs(g, j, end)' => f = g
                     /\ \A x, y \in FtSlots : LastIs(x, j, end)' /\ LastIs(y, j, end)' => x = y
                     /\ \A f \in Files, x \in FtSlots : ~(FileIs(f, j, end)' /\ LastIs(x, j, end)')
    BY Zenon DEF EndInv, Files, FtSlots, Ends
  <2>1. /\ end \in pipe[j] <=> \/ \E f \in Files : FileIs(f, j, end)
                               \/ \E q \in FtSlots : LastIs(q, j, end)
        /\ \A f, g \in Files : FileIs(f, j, end) /\ FileIs(g, j, end) => f = g
        /\ \A x, y \in FtSlots : LastIs(x, j, end) /\ LastIs(y, j, end) => x = y
        /\ \A f \in Files, x \in FtSlots : ~(FileIs(f, j, end) /\ LastIs(x, j, end))
    BY Zenon DEF FtInv, EndInv
  <2>2. end \in {"r", "w"} /\ end # "none" BY Zenon DEF Ends
  <2>3. ~FileIs(rf, j, end) /\ ~FileIs(wf, j, end) BY Zenon, <2>2, <1>1, Blank DEF FileIs
  <2>4. (FileIs(rf, j, end)' <=> j = i /\ end = "r") /\ (FileIs(wf, j, end)' <=> j = i /\ end = "w")
    BY Zenon, <1>3, <1>7 DEF FileIs
  <2>5. \A f \in Files \ {rf, wf} : FileIs(f, j, end)' <=> FileIs(f, j, end) BY Zenon, <1>7
      DEF FileIs
  <2>6. \A q \in FtSlots : LastIs(q, j, end)' <=> LastIs(q, j, end) BY Zenon, <1>10 DEF LastIs
  <2>7. CASE j = i
    <3>1. /\ \A f \in Files : ~FileIs(f, j, end)
          /\ \A q \in FtSlots : ~LastIs(q, j, end)
      BY ZenonT(60), <2>1, <2>7, <1>2
    <3>2. end \in pipe'[j] BY Zenon, <2>7, <1>9
    <3>3. \A f \in Files : FileIs(f, j, end)' <=> f = IF end = "r" THEN rf ELSE wf
      BY Zenon, <3>1, <2>2, <2>4, <2>5, <2>7, <1>1
    <3>4. \A q \in FtSlots : ~LastIs(q, j, end)' BY Zenon, <3>1, <2>6
    <3>5. (IF end = "r" THEN rf ELSE wf) \in Files BY Zenon
    <3> QED BY SMTT(30), <3>2, <3>3, <3>4, <3>5
  <2>8. CASE j # i
    <3>1. pipe'[j] = pipe[j] BY Zenon, <2>8, <1>9
    <3>2. \A f \in Files : FileIs(f, j, end)' <=> FileIs(f, j, end) BY SMTT(30), <2>3, <2>4, <2>5,
        <2>8
    <3> QED BY Zenon, <3>1, <3>2, <2>1, <2>6
  <2> QED BY Zenon, <2>7, <2>8
<1>11. \A g \in Files : ft'[g].ref = IF g \in {rf, wf} THEN ft[g].ref + 1 ELSE ft[g].ref
  BY <1>1, <1>3, <1>7, Blank
<1>12. \A g \in Files : ft[g].ref = Cardinality(Descriptors(g)) + Cardinality(Closing(g))
  BY Zenon DEF FtInv, CountInv
<1>13. CASE /\ Cardinality(FreeFds(p)) >= 2 /\ run' = run
            /\ ofile' = [ofile EXCEPT ![p][Min(FreeFds(p))] = rf,
                                      ![p][Min(FreeFds(p) \ {Min(FreeFds(p))})] = wf]
  <2>1. PICK a \in Fds, b \in Fds :
          /\ a = Min(FreeFds(p)) /\ b = Min(FreeFds(p) \ {a}) /\ a # b
          /\ ofile[p][a] = 0 /\ ofile[p][b] = 0
    <3>1. FreeFds(p) \in SUBSET Nat /\ FreeFds(p) \subseteq Fds BY FtAssumption DEF FreeFds, Fds
    <3>2. IsFiniteSet(FreeFds(p))
      BY Zenon, Sizes, <3>1, FS_Subset
    <3>3. Min(FreeFds(p)) \in FreeFds(p) /\ Min(FreeFds(p) \ {Min(FreeFds(p))}) \in FreeFds(p) \ {Min(FreeFds(p))}
      BY Zenon, <1>13, <3>1, <3>2, LowestTwo
    <3>4. \A k \in FreeFds(p) : k \in Fds /\ ofile[p][k] = 0 BY Zenon DEF FreeFds
    <3> QED BY Zenon, <3>3, <3>4
  <2>2. ofile' = [ofile EXCEPT ![p][a] = rf, ![p][b] = wf] /\ run' = run BY Zenon, <2>1, <1>13
  <2>3. rf \in 0 .. NFILE /\ wf \in 0 .. NFILE BY DEF Files
  <2>4. /\ ofile' \in [FtSlots -> [Fds -> 0 .. NFILE]] /\ ofile'[p][a] = rf /\ ofile'[p][b] = wf
        /\ \A q \in FtSlots \ {p} : ofile'[q] = ofile[q]
        /\ \A k \in Fds \ {a, b} : ofile'[p][k] = ofile[p][k]
    BY ZenonT(60), <2>1, <2>2, <2>3, <1>5
  <2>5. TypeInv'
    <3>1. \A q \in FtSlots : run[q].pc = "unused" => \A k \in Fds : ofile'[q][k] = 0
      BY ZenonT(60), <2>4, <1>6, <1>t DEF TypeInv
    <3> QED BY Zenon, <3>1, <2>2, <2>4, <1>7, <1>8, <1>9, <1>t DEF TypeInv
  <2>6. CountInv'
    <3> SUFFICES ASSUME NEW g \in Files
                 PROVE  ft'[g].ref = Cardinality(Descriptors(g)') + Cardinality(Closing(g)')
      BY ZenonT(60) DEF CountInv
    <3>1. TodoKept BY Zenon, <2>2 DEF TodoKept
    <3>2. Closing(g)' = Closing(g) BY Zenon, <3>1, ClosingKept
    <3>3. g # 0 /\ rf # 0 /\ wf # 0 /\ -1 \notin Fds BY DEF Files, Fds
    <3>4. ASSUME NEW d \in FtSlots \X Fds
          PROVE  d \in Descriptors(g)' <=> \/ d \in Descriptors(g)
                                           \/ g = rf /\ d = <<p, a>>
                                           \/ g = wf /\ d = <<p, b>>
      <4>1. PICK q \in FtSlots, k \in Fds : d = <<q, k>> OBVIOUS
      <4>2. CASE q # p BY SMTT(30), <4>1, <4>2, <2>2, <2>4 DEF Descriptors
      <4>3. CASE q = p /\ k \notin {a, b} BY SMTT(30), <4>1, <4>3, <2>2, <2>4 DEF Descriptors
      <4>4. CASE q = p /\ k = a
        BY SMTT(30), <4>1, <4>4, <2>1, <2>2, <2>4, <3>3, <1>6 DEF Descriptors
      <4>5. CASE q = p /\ k = b
        BY SMTT(30), <4>1, <4>5, <2>1, <2>2, <2>4, <3>3, <1>6 DEF Descriptors
      <4> QED BY Zenon, <4>2, <4>3, <4>4, <4>5
    <3>5. Descriptors(g) \subseteq FtSlots \X Fds /\ Descriptors(g)' \subseteq FtSlots \X Fds
      BY Zenon DEF Descriptors
    <3>6. <<p, a>> \notin Descriptors(g) /\ <<p, b>> \notin Descriptors(g)
      BY Zenon, <2>1, <3>3 DEF Descriptors
    <3>7. CASE g = rf
      <4>1. Descriptors(g)' = Descriptors(g) \cup {<<p, a>>} BY ZenonT(60), <3>4, <3>5, <3>7, <1>1
      <4> QED BY SMTT(30), <4>1, <3>2, <3>6, <3>7, <1>11, <1>12, RefSets, OneMore
    <3>8. CASE g = wf
      <4>1. Descriptors(g)' = Descriptors(g) \cup {<<p, b>>} BY ZenonT(60), <3>4, <3>5, <3>8, <1>1
      <4> QED BY <4>1, <3>2, <3>6, <3>8, <1>11, <1>12, RefSets, OneMore
    <3>9. CASE g \notin {rf, wf}
      <4>1. Descriptors(g)' = Descriptors(g) BY Zenon, <3>4, <3>5, <3>9
      <4> QED BY Zenon, <4>1, <3>2, <3>9, <1>11, <1>12
    <3> QED BY Zenon, <3>7, <3>8, <3>9
  <2>7. EndInv' BY Zenon, <2>2, <1>10
  <2> QED BY Zenon, <2>5, <2>6, <2>7 DEF FtInv
<1>14. CASE run' = [run EXCEPT ![p].todo = <<rf, wf>>] /\ ofile' = ofile
  <2> DEFINE r == SetTodo(run[p], <<rf, wf>>)
  <2>1. run' = [run EXCEPT ![p] = r] /\ ofile' = ofile BY Zenon, <1>14 DEF SetTodo
  <2>2. /\ <<rf, wf>> \in Seq(Files) /\ Len(<<rf, wf>>) = 2
        /\ FromEnd(<<rf, wf>>, 1) = wf /\ FromEnd(<<rf, wf>>, 2) = rf
    BY Zenon, TodoNew
  <2>3. /\ r \in RunRec /\ r.todo = <<rf, wf>> /\ r.pc = "user" /\ r.fd = -1 /\ r.ff = NoFile
    <3>1. run[p] \in RunRec BY Zenon, <1>5
    <3> QED BY ZenonT(60), <3>1, <2>2, <1>6, TodoFields
  <2>4. Len(r.todo) = 2 /\ FromEnd(r.todo, 1) = wf /\ FromEnd(r.todo, 2) = rf BY Zenon, <2>2, <2>3
  <2> HIDE DEF r
  <2>5. run'[p] = r /\ \A q \in FtSlots \ {p} : run'[q] = run[q] BY Zenon, <2>1, <1>5
  <2>6. TypeInv'
    <3>1. Len(r.todo) <= 2 /\ r.pc # "unused" BY <2>3, <2>4
    <3>2. ofile' \in [FtSlots -> [Fds -> 0 .. NFILE]] /\ \A q \in FtSlots \ {p} : ofile'[q] = ofile[q]
      BY Zenon, <2>1, <1>5
    <3> QED BY ZenonT(60), <3>1, <3>2, <2>1, <2>3, <1>7, <1>8, <1>9, <1>t, SlotStep
  <2>7. EndInv'
    <3>1. \A q \in FtSlots : run'[q].ff = run[q].ff BY SMTT(30), <2>3, <2>5, <1>6
    <3> QED BY Zenon, <3>1, <1>10
  <2>8. CountInv'
    <3> SUFFICES ASSUME NEW g \in Files
                 PROVE  ft'[g].ref = Cardinality(Descriptors(g)') + Cardinality(Closing(g)')
      BY Zenon DEF CountInv
    <3>1. SlotsKept BY Zenon, <2>3, <2>5, <1>6 DEF SlotsKept
    <3>2. Descriptors(g)' = Descriptors(g) BY Zenon, <3>1, <2>1, DescriptorsKept
    <3>3. /\ Len(run'[p].todo) = 2 /\ FromEnd(run'[p].todo, 1) = wf /\ FromEnd(run'[p].todo, 2) = rf
      BY Zenon, <2>4, <2>5
    <3>4. \A q \in FtSlots \ {p} : run'[q].todo = run[q].todo BY Zenon, <2>5
    <3>5. Cardinality(Closing(g)') = IF g \in {rf, wf} THEN Cardinality(Closing(g)) + 1
                                                       ELSE Cardinality(Closing(g))
      BY Zenon, <3>3, <3>4, <1>1, <1>6, ClosingTwo
    <3> QED BY SMTT(30), <3>2, <3>5, <1>11, <1>12, RefSets
  <2> QED BY Zenon, <2>6, <2>7, <2>8 DEF FtInv
<1> QED BY Zenon, <1>4, <1>13, <1>14

\* fork and forkn, when they succeed: every child has the parent's descriptors,
\* and each is counted.
LEMMA ForkedInv ==
  ASSUME FtInv, NEW p \in FtSlots, User(p), NEW qs \in SUBSET FtSlots,
         \A q \in qs : run[q].pc = "unused", pipe' = pipe,
         ft' = Copies(p, Cardinality(qs)),
         ofile' = [q \in FtSlots |-> IF q \in qs THEN Inherited(p, q) ELSE ofile[q]],
         run' = [q \in FtSlots |-> IF q \in qs THEN Idle ELSE run[q]]
  PROVE  FtInv'
<1> DEFINE D(f) == {fd \in Fds : ofile[p][fd] = f}
           n == Cardinality(qs)
<1>t. TypeInv BY SMTT(30) DEF FtInv
<1>1. /\ ft \in [Files -> FileRec] /\ pipe \in [1 .. NPipes -> SUBSET Ends]
      /\ ofile \in [FtSlots -> [Fds -> 0 .. NFILE]] /\ run \in [FtSlots -> RunRec]
  BY Zenon, <1>t DEF TypeInv
<1>2. run[p].pc = "user" /\ run[p].fd = -1 BY Zenon, <1>t, UserFacts
<1>3. \A q \in qs : run[q] = Unused /\ \A fd \in Fds : ofile[q][fd] = 0 BY Zenon, <1>t, SlotFacts
<1>4. /\ \A q \in qs : run'[q] = Idle
      /\ \A q \in FtSlots \ qs : run'[q] = run[q] /\ ofile'[q] = ofile[q]
  BY Zenon
<1>5. \A q \in qs : ofile'[q] = ofile[p]
  <2>1. ASSUME NEW q \in qs PROVE ofile'[q] = ofile[p]
    <3>1. ofile'[q] = [fd \in Fds |-> IF ofile[p][fd] # 0 THEN ofile[p][fd] ELSE ofile[q][fd]]
      BY Zenon DEF Inherited
    <3>2. \A fd \in Fds : ofile'[q][fd] = ofile[p][fd] BY <3>1, <1>3
    <3>3. ofile[p] = [fd \in Fds |-> ofile[p][fd]] BY Zenon, <1>1
    <3> QED BY Zenon, <3>1, <3>2, <3>3
  <2> QED BY Zenon, <2>1
<1>6. IsFiniteSet(qs) /\ n \in Nat
  BY Zenon, Sizes, FS_Subset, FS_CardinalityType
<1>7. ASSUME NEW f
      PROVE  IsFiniteSet(D(f)) /\ Cardinality(D(f)) \in Nat
  <2>1. D(f) \subseteq Fds BY Zenon
  <2> HIDE DEF D
  <2> QED BY Zenon, <2>1, Sizes, FS_Subset, FS_CardinalityType
<1>8. ASSUME NEW f \in Files PROVE ft'[f] = SetRef(ft[f], ft[f].ref + n * Cardinality(D(f)))
  BY Zenon DEF Copies, SetRef
<1>d. \A f : \A fd \in D(f) : fd \in Fds /\ ofile[p][fd] = f BY Zenon
<1>e. \A f : \A fd \in Fds : ofile[p][fd] = f => fd \in D(f) BY Zenon
<1>s. \A f : D(f) \subseteq Fds BY Zenon
<1>f. \A f \in Files : f # 0 BY DEF Files
<1>g. -1 \notin Fds BY DEF Fds
<1> HIDE DEF D, n
<1>9. ASSUME NEW f \in Files
      PROVE  Cardinality(Descriptors(f)') = Cardinality(Descriptors(f)) + n * Cardinality(D(f))
  <2>1. ASSUME NEW d \in FtSlots \X Fds
        PROVE  d \in Descriptors(f)' <=> d \in Descriptors(f) \/ d \in qs \X D(f)
    <3>1. PICK q \in FtSlots, k \in Fds : d = <<q, k>> OBVIOUS
    <3>2. CASE q \in qs
      <4>1. d \notin Descriptors(f) BY SMTT(30), <3>1, <3>2, <1>3, <1>f DEF Descriptors
      <4>2. d \in Descriptors(f)' <=> ofile[p][k] = f
        BY ZenonT(60), <3>1, <3>2, <1>4, <1>5, <1>g, Blank DEF Descriptors
      <4>3. d \in qs \X D(f) <=> k \in D(f) BY Zenon, <3>1, <3>2
      <4> QED BY Zenon, <4>1, <4>2, <4>3, <1>d, <1>e
    <3>3. CASE q \notin qs
      <4>1. d \in Descriptors(f)' <=> d \in Descriptors(f) BY Zenon, <3>1, <3>3, <1>4
          DEF Descriptors
      <4>2. d \notin qs \X D(f) BY Zenon, <3>1, <3>3
      <4> QED BY Zenon, <4>1, <4>2
    <3> QED BY Zenon, <3>2, <3>3
  <2>2. Descriptors(f) \subseteq FtSlots \X Fds /\ Descriptors(f)' \subseteq FtSlots \X Fds
    BY Zenon DEF Descriptors
  <2>3. qs \X D(f) \subseteq FtSlots \X Fds BY Zenon, <1>s
  <2>4. Descriptors(f)' = Descriptors(f) \cup (qs \X D(f)) BY Zenon, <2>1, <2>2, <2>3
  <2>5. Descriptors(f) \cap (qs \X D(f)) = {}
    <3>1. ASSUME NEW d \in Descriptors(f), d \in qs \X D(f) PROVE FALSE
      <4>1. PICK q \in qs, k \in D(f) : d = <<q, k>> BY <3>1
      <4>2. ofile[q][k] = f BY Zenon, <4>1, <3>1 DEF Descriptors
      <4> QED BY Zenon, <4>1, <4>2, <1>3, <1>d, <1>f
    <3> QED BY Zenon, <3>1
  <2>6. IsFiniteSet(qs \X D(f)) /\ Cardinality(qs \X D(f)) = n * Cardinality(D(f))
    BY Zenon, <1>6, <1>7, FS_Product DEF n
  <2>7. Cardinality(Descriptors(f) \cup (qs \X D(f)))
          = Cardinality(Descriptors(f)) + Cardinality(qs \X D(f)) - Cardinality({})
    <3>1. IsFiniteSet(Descriptors(f)) BY Zenon, RefSets
    <3> QED BY <3>1, <2>5, <2>6, FS_Union
  <2>8. Cardinality({}) = 0 BY Zenon, FS_EmptySet
  <2>9. Cardinality(qs \X D(f)) \in Nat BY Zenon, <2>6, FS_CardinalityType
  <2> QED BY SMTT(30), <2>4, <2>6, <2>7, <2>8, <2>9, RefSets
<1>10. ASSUME NEW f \in Files
       PROVE  /\ ft'[f] \in FileRec /\ ft'[f].ref = ft[f].ref + n * Cardinality(D(f))
              /\ ft'[f].type = ft[f].type /\ ft'[f].pipe = ft[f].pipe
  <2>1. ft[f] \in FileRec /\ ft[f].ref \in Nat BY SMTT(30), <1>t, FileFacts
  <2>2. n * Cardinality(D(f)) \in Nat BY <1>6, <1>7
  <2>3. ft[f].ref + n * Cardinality(D(f)) \in Nat BY <2>1, <2>2
  <2> QED BY SMTT(30), <2>1, <2>3, <1>8, RefFields
<1>11. ASSUME NEW f \in Files PROVE ft[f].ref = Cardinality(Descriptors(f)) + Cardinality(Closing(f))
  BY Zenon DEF FtInv, CountInv
<1>12. ASSUME NEW f \in Files PROVE IF ft'[f].ref = 0 THEN ft'[f] = NoFile ELSE OpenFile(ft'[f])
  <2>1. CASE ft[f].ref = 0
    <3>1. Cardinality(Descriptors(f)) = 0 BY <2>1, <1>11, RefSets
    <3>2. Descriptors(f) = {} BY Zenon, <3>1, RefSets, FS_EmptySet
    <3>3. D(f) = {}
      <4>1. ASSUME NEW k \in D(f) PROVE FALSE
        <5>1. k \in Fds /\ ofile[p][k] = f /\ k # -1 BY Zenon, <1>d, <1>g
        <5>2. <<p, k>> \in Descriptors(f) BY Zenon, <5>1, <1>2 DEF Descriptors
        <5> QED BY Zenon, <5>2, <3>2
      <4> QED BY Zenon, <4>1
    <3>4. Cardinality(D(f)) = 0 BY Zenon, <3>3, FS_EmptySet
    <3>5. ft'[f] = SetRef(NoFile, 0)
      <4>1. ft[f] = NoFile BY Zenon, <2>1, <1>t, FileFacts
      <4>2. ft[f].ref + n * Cardinality(D(f)) = 0 BY <2>1, <3>4, <1>6
      <4> QED BY Zenon, <4>1, <4>2, <1>8
    <3>6. SetRef(NoFile, 0) = NoFile BY DEF SetRef, NoFile
    <3> QED BY SMTT(30), <3>5, <3>6, Blank
  <2>2. CASE ft[f].ref # 0
    <3>1. OpenFile(ft[f]) /\ ft[f].ref \in Nat BY SMTT(30), <2>2, <1>t, FileFacts
    <3>2. n * Cardinality(D(f)) \in Nat BY <1>6, <1>7
    <3>3. ft'[f].ref # 0 BY <2>2, <3>1, <3>2, <1>10
    <3>4. OpenFile(ft'[f]) BY SMTT(30), <3>1, <1>10 DEF OpenFile
    <3> QED BY Zenon, <3>3, <3>4
  <2> QED BY Zenon, <2>1, <2>2
<1>13. TypeInv'
  <2>1. ft' \in [Files -> FileRec]
    <3>1. ft' = [f \in Files |-> ft'[f]] BY Zenon DEF Copies
    <3> QED BY Zenon, <3>1, <1>10
  <2>2. ASSUME NEW q \in FtSlots
        PROVE  /\ run'[q] \in RunRec /\ ofile'[q] \in [Fds -> 0 .. NFILE]
               /\ Len(run'[q].todo) <= 2
               /\ run'[q].pc = "unused" => run'[q] = Unused /\ \A fd \in Fds : ofile'[q][fd] = 0
               /\ run'[q].pc = "user" => run'[q].fd = -1
               /\ run'[q].ff = NoFile \/ OpenFile(run'[q].ff)
    <3>1. CASE q \in qs
      <4>1. run'[q] = Idle /\ ofile'[q] = ofile[p] BY Zenon, <3>1, <1>4, <1>5
      <4>2. Len(run'[q].todo) = 0 BY ZenonT(60), <4>1, Blank, EmptyList
      <4> QED BY <4>1, <4>2, <1>1, Blank
    <3>2. CASE q \notin qs
      <4>1. run'[q] = run[q] /\ ofile'[q] = ofile[q] BY Zenon, <3>2, <1>4
      <4> QED BY Zenon, <4>1, <1>t, SlotFacts
    <3> QED BY SMTT(30), <3>1, <3>2
  <2>3. run' \in [FtSlots -> RunRec] /\ ofile' \in [FtSlots -> [Fds -> 0 .. NFILE]] BY Zenon, <2>2
  <2> QED BY Zenon, <2>1, <2>2, <2>3, <1>1, <1>12 DEF TypeInv
<1>14. EndInv'
  <2>1. \A g \in Files, i \in 1 .. NPipes, end \in Ends : FileIs(g, i, end)' <=> FileIs(g, i, end)
    BY Zenon, <1>10 DEF FileIs
  <2>2. \A q \in FtSlots : run'[q].ff = run[q].ff BY Zenon, <1>3, <1>4, Blank
  <2>3. \A q \in FtSlots, i \in 1 .. NPipes, end \in Ends : LastIs(q, i, end)' <=> LastIs(q, i, end)
    BY SMTT(30), <2>2 DEF LastIs
  <2> QED BY Zenon, <2>1, <2>3, EndsKept DEF FtInv
<1>15. CountInv'
  <2> SUFFICES ASSUME NEW g \in Files
               PROVE  ft'[g].ref = Cardinality(Descriptors(g)') + Cardinality(Closing(g)')
    BY Zenon DEF CountInv
  <2>1. TodoKept BY Zenon, <1>3, <1>4, Blank DEF TodoKept
  <2>2. Closing(g)' = Closing(g) BY Zenon, <2>1, ClosingKept
  <2>3. n * Cardinality(D(g)) \in Nat BY <1>6, <1>7
  <2> QED BY SMTT(30), <2>2, <2>3, <1>9, <1>10, <1>11, RefSets
<1> QED BY Zenon, <1>13, <1>14, <1>15 DEF FtInv

-----------------------------------------------------------------------------
(* The theorem.                                                            *)

\* fileinit and userinit.
LEMMA FtInitInv == FtInit => FtInv
<1> SUFFICES ASSUME FtInit PROVE FtInv BY Zenon
<1>1. 0 \in 0 .. NFILE /\ 1 \in FtSlots BY FtAssumption DEF FtSlots
<1>2. \A f \in Files : ft[f] = NoFile BY Zenon DEF FtInit
<1>3. \A p \in FtSlots : run[p] \in {Idle, Unused} BY Zenon DEF FtInit
<1>4. \A p \in FtSlots : run[p] \in RunRec /\ run[p].ff = NoFile /\ run[p].fd = -1 /\ run[p].todo = <<>>
  BY Zenon, <1>3, Blank
<1>5. \A p \in FtSlots : Len(run[p].todo) = 0 BY Zenon, <1>4, EmptyList
<1>6. \A p \in FtSlots, fd \in Fds : ofile[p][fd] = 0 BY Zenon DEF FtInit
<1>7. TypeInv
  <2>1. ft \in [Files -> FileRec] /\ run \in [FtSlots -> RunRec] BY Zenon, <1>4, Blank DEF FtInit
  <2>2. pipe \in [1 .. NPipes -> SUBSET Ends] BY Zenon DEF FtInit
  <2>3. ofile \in [FtSlots -> [Fds -> 0 .. NFILE]] BY Zenon, <1>1 DEF FtInit
  <2>4. \A p \in FtSlots : run[p].pc = "unused" => run[p] = Unused BY Zenon, <1>3, Blank
  <2>5. \A p \in FtSlots : Len(run[p].todo) <= 2 BY <1>5
  <2>6. \A f \in Files : IF ft[f].ref = 0 THEN ft[f] = NoFile ELSE OpenFile(ft[f]) BY Zenon, <1>2,
      Blank
  <2> QED BY SMTT(30), <2>1, <2>2, <2>3, <2>4, <2>5, <2>6, <1>4, <1>6 DEF TypeInv
<1>8. EndInv
  <2>1. \A f \in Files, i \in 1 .. NPipes, end \in Ends : ~FileIs(f, i, end) BY Zenon, <1>2,
      Blank DEF FileIs, Ends
  <2>2. \A p \in FtSlots, i \in 1 .. NPipes, end \in Ends : ~LastIs(p, i, end) BY Zenon, <1>4,
      Blank DEF LastIs, Ends
  <2>3. \A i \in 1 .. NPipes : pipe[i] = {} BY Zenon DEF FtInit
  <2> QED BY Zenon, <2>1, <2>2, <2>3 DEF EndInv
<1>9. CountInv
  <2> SUFFICES ASSUME NEW f \in Files
               PROVE  ft[f].ref = Cardinality(Descriptors(f)) + Cardinality(Closing(f))
    BY Zenon DEF CountInv
  <2>1. Descriptors(f) = {} BY <1>6 DEF Descriptors, Files
  <2>2. Closing(f) = {}
    <3>1. ASSUME NEW q \in FtSlots, NEW j \in {1, 2} PROVE ~(j <= Len(run[q].todo)) BY <1>5
    <3> QED BY Zenon, <3>1 DEF Closing
  <2> QED BY <2>1, <2>2, <1>2, Blank, FS_EmptySet
<1> QED BY Zenon, <1>7, <1>8, <1>9 DEF FtInv

\* Every step keeps FtInv, as long as forkn does not fail halfway.
LEMMA FtNextInv ==
  ASSUME ~ForknFails, FtInv, [FtNext]_ftVars
  PROVE  FtInv'
<1>1. CASE UNCHANGED ftVars
  <2>1. ft' = ft /\ pipe' = pipe /\ ofile' = ofile /\ run' = run BY Zenon, <1>1 DEF ftVars
  <2>2. TypeInv' BY Zenon, <2>1 DEF FtInv, TypeInv
  <2>3. EndInv'
    <3>1. \A f \in Files, i \in 1 .. NPipes, end \in Ends : FileIs(f, i, end)' <=> FileIs(f, i, end)
      BY Zenon, <2>1 DEF FileIs
    <3>2. \A p \in FtSlots, i \in 1 .. NPipes, end \in Ends : LastIs(p, i, end)' <=> LastIs(p, i, end)
      BY Zenon, <2>1 DEF LastIs
    <3> QED BY Zenon, <3>1, <3>2, <2>1, EndsKept DEF FtInv
  <2>4. SlotsKept /\ TodoKept BY Zenon, <2>1 DEF SlotsKept, TodoKept
  <2>5. \A f \in Files : Descriptors(f)' = Descriptors(f) /\ Closing(f)' = Closing(f)
    BY Zenon, <2>1, <2>4, DescriptorsKept, ClosingKept
  <2>6. CountInv' BY Zenon, <2>1, <2>5 DEF FtInv, CountInv
  <2> QED BY Zenon, <2>2, <2>3, <2>6 DEF FtInv
<1>2. ASSUME NEW p \in FtSlots, sys_open(p) PROVE FtInv' BY Zenon, <1>2, OpenInv
<1>3. ASSUME NEW p \in FtSlots, sys_pipe(p) PROVE FtInv' BY Zenon, <1>3, PipeCallInv
<1>4. ASSUME NEW p \in FtSlots, DropRef(p) PROVE FtInv' BY <1>4, DropRefInv
<1>5. ASSUME NEW p \in FtSlots, CloseEnd(p) PROVE FtInv' BY <1>5, CloseEndInv
<1>6. ASSUME NEW p \in FtSlots, exit(p) PROVE FtInv' BY <1>6, ExitInv
<1>7. ASSUME NEW p \in FtSlots, NEW fd \in Fds, sys_dup(p, fd) PROVE FtInv' BY Zenon, <1>7, DupInv
<1>8. ASSUME NEW p \in FtSlots, NEW fd \in Fds, sys_close(p, fd) PROVE FtInv' BY Zenon, <1>8,
    CloseInv
<1>9. ASSUME NEW p \in FtSlots, NEW q \in FtSlots, fork(p, q) PROVE FtInv'
  <2>1. {q} \in SUBSET FtSlots /\ Cardinality({q}) = 1 BY Zenon, FS_Singleton
  <2>2. User(p) /\ run[q].pc = "unused" /\ ft' = Copies(p, 1) /\ pipe' = pipe BY Zenon, <1>9
      DEF fork
  <2>3. \A x \in {q} : run[x].pc = "unused" BY Zenon, <2>2
  <2>4. run \in [FtSlots -> RunRec] /\ ofile \in [FtSlots -> [Fds -> 0 .. NFILE]]
    BY Zenon DEF FtInv, TypeInv
  <2>5. ofile' = [x \in FtSlots |-> IF x \in {q} THEN Inherited(p, x) ELSE ofile[x]]
    <3>1. ofile' = [ofile EXCEPT ![q] = Inherited(p, q)] BY Zenon, <1>9 DEF fork
    <3> QED BY ZenonT(60), <3>1, <2>4
  <2>6. run' = [x \in FtSlots |-> IF x \in {q} THEN Idle ELSE run[x]]
    <3>1. run' = [run EXCEPT ![q] = Idle] BY Zenon, <1>9 DEF fork
    <3> QED BY ZenonT(60), <3>1, <2>4
  <2>7. ft' = Copies(p, Cardinality({q})) BY Zenon, <2>1, <2>2
  <2> QED BY Zenon, <2>1, <2>2, <2>3, <2>5, <2>6, <2>7, ForkedInv
<1>10. ASSUME NEW p \in FtSlots, NEW qs \in SUBSET FtSlots \ {{}}, forkn(p, qs) PROVE FtInv'
  BY Zenon, <1>10, ForkedInv DEF forkn
<1> QED BY Zenon, <1>1, <1>2, <1>3, <1>4, <1>5, <1>6, <1>7, <1>8, <1>9, <1>10 DEF FtNext

\* FtInv implies what the runs check; the counts are bounded by the number of
\* descriptors there are.
LEMMA FtInvSound == FtInv => FilesSound
<1> SUFFICES ASSUME FtInv PROVE FilesSound BY Zenon
<1>1. RefsExact BY Zenon DEF FtInv, CountInv, RefsExact
<1>2. EndsFollowFiles
  <2>1. \A i \in 1 .. NPipes, end \in Ends :
          end \in pipe[i] <=> \/ \E f \in Files : FileIs(f, i, end)
                              \/ \E p \in FtSlots : LastIs(p, i, end)
    BY Zenon DEF FtInv, EndInv
  <2> QED BY Zenon, <2>1 DEF EndsFollowFiles, FileIs, LastIs, Ends
<1>3. ASSUME NEW f \in Files PROVE ft[f].ref \in 0 .. FtNPROC * (NOFILE + 2)
  <2>1. Descriptors(f) \subseteq FtSlots \X Fds /\ Closing(f) \subseteq FtSlots \X {1, 2}
    BY Zenon DEF Descriptors, Closing
  <2>2. /\ IsFiniteSet(FtSlots \X Fds) /\ Cardinality(FtSlots \X Fds) = FtNPROC * NOFILE
        /\ IsFiniteSet(FtSlots \X {1, 2}) /\ Cardinality(FtSlots \X {1, 2}) = FtNPROC * 2
    BY Zenon, Sizes, FS_Product
  <2>3. Cardinality(Descriptors(f)) <= FtNPROC * NOFILE /\ Cardinality(Closing(f)) <= FtNPROC * 2
    BY <2>1, <2>2, FS_Subset
  <2>4. FtNPROC * (NOFILE + 2) = FtNPROC * NOFILE + FtNPROC * 2 BY FtAssumption
  <2>5. FtNPROC * NOFILE \in Nat /\ FtNPROC * 2 \in Nat BY FtAssumption
  <2>6. ft[f].ref = Cardinality(Descriptors(f)) + Cardinality(Closing(f)) BY Zenon
      DEF FtInv, CountInv
  <2> QED BY <2>3, <2>4, <2>5, <2>6, RefSets
<1>4. FtTypeOK
  <2>1. \A f \in Files : (ft[f].ref = 0) = (ft[f] = NoFile) BY Zenon, FileFacts, Blank DEF FtInv
  <2>2. \A i \in 1 .. NPipes : pipe[i] \subseteq {"r", "w"} BY Zenon DEF FtInv, TypeInv, Ends
  <2>3. \A p \in FtSlots, fd \in Fds : ofile[p][fd] \in 0 .. NFILE BY Zenon DEF FtInv, TypeInv
  <2> QED BY Zenon, <2>1, <2>2, <2>3, <1>3 DEF FtTypeOK
<1> QED BY Zenon, <1>1, <1>2, <1>4 DEF FilesSound

\* As long as forkn does not fail after it made children, the reference counts
\* of file.c are exact, and an end of a pipe is open exactly as long as a file,
\* or the last fileclose of one, stands for it: for any number of processes,
\* files, descriptors and pipes.
THEOREM FilesSafety == ~ForknFails => (FtSpec => []FilesSound)
<1> SUFFICES ASSUME ~ForknFails PROVE FtSpec => []FilesSound BY Zenon
<1>1. FtInv /\ [FtNext]_ftVars => FtInv' BY Zenon, FtNextInv
<1> QED BY <1>1, FtInitInv, FtInvSound, PTL DEF FtSpec

============================================================================
