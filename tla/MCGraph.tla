------------------------------- MODULE MCGraph -------------------------------
(* Small instances of Graph. *)
EXTENDS Graph, TLC

\* Nodes of two sizes; a cell of the second shows a length that fits the file.
TwoNodes == {<<PayloadCell(Huge)>>, <<PayloadCell(0), PayloadCell(1)>>}
Symmetry == Permutations(Conns)
=============================================================================
