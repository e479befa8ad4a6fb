------------------------------ MODULE PosixFile ------------------------------
(***************************************************************************)
(* Regular files as the block store uses them through open, lseek, read,   *)
(* write and ftruncate (operating system, external to the repository).     *)
(* A file is the sequence of its cells, a cell being the 8-byte unit both  *)
(* file formats of the store are made of.  Position 0 is the first cell.   *)
(* A system call is one step of the page cache: a later read by any        *)
(* process sees a completed write, and the death of a process loses        *)
(* nothing that was written.                                               *)
(***************************************************************************)
EXTENDS Naturals, Sequences

\* write() of the cells b at position pos.  Between the old end and pos the
\* file has a hole, which reads as zero.
WriteAt(f, pos, b, zero) ==
  [i \in 1 .. (IF pos + Len(b) > Len(f) THEN pos + Len(b) ELSE Len(f)) |->
     IF i \in pos + 1 .. pos + Len(b) THEN b[i - pos]
     ELSE IF i \in 1 .. Len(f) THEN f[i] ELSE zero]

\* lseek(fd, 0, SEEK_END).
End(f) == Len(f)

\* read() of n cells at position pos: short at the end of the file.
ReadAt(f, pos, n) == SubSeq(f, pos + 1, IF pos + n > Len(f) THEN Len(f) ELSE pos + n)

\* ftruncate() to n cells: cuts the file, or extends it with zeros.
Truncate(f, n, zero) == [i \in 1 .. n |-> IF i \in 1 .. Len(f) THEN f[i] ELSE zero]

\* What a write() of b that came back short has written.
ShortWrites(b) == {SubSeq(b, 1, k) : k \in 0 .. Len(b) - 1}
=============================================================================
