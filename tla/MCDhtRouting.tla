---------------------------- MODULE MCDhtRouting ----------------------------
(* A small instance of DhtRouting. *)
EXTENDS DhtRouting

FewLists == {<<1, 4>>}
=============================================================================
