-------------------------------- MODULE MCFs --------------------------------
EXTENDS Fs, TLC
Abs(e) == [abs |-> TRUE, elems |-> e]
Rel(e) == [abs |-> FALSE, elems |-> e]
MCPaths == {Abs(<<>>), Abs(<<"a">>), Abs(<<"a", "b">>), Rel(<<"b">>)}
\* A root directory with a directory a that holds a file b of two blocks.
Nested ==
  LET a == Created(Mkfs, 1, Mkfs.ino[1], "a", "dir", 2)
      b == Created(a.fs, 2, a.ip, "b", "file", 3)
      w == writei(b.fs, 3, b.ip, 0, BSIZE, Cell("data", 1))
  IN  writei(w.fs, 3, w.ip, BSIZE, BSIZE, Cell("data", 1)).fs
MCDisks == {Mkfs, Nested}
\* A root directory with directories a and a/b.
MCDeepDisks ==
  LET a == Created(Mkfs, 1, Mkfs.ino[1], "a", "dir", 2)
  IN  {Created(a.fs, 2, a.ip, "b", "dir", 3).fs}
MCDeepPaths == {Abs(<<"a">>), Abs(<<"a", "b">>), Rel(<<"..">>)}
ProcSymmetry == Permutations(Procs)
=============================================================================
