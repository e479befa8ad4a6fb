----------------------------- MODULE MCController -----------------------------
(* Small instances of Controller. *)
EXTENDS Controller, TLC

CONSTANTS t1, t2, p1, p2

\* Threads are interchangeable, and so are payloads.
Symmetry == Permutations({t1, t2}) \cup Permutations({p1, p2})
=============================================================================
