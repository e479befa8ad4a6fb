-------------------------- MODULE MCSeaBlockShared ---------------------------
(* Small instances of SeaBlockShared. *)
EXTENDS SeaBlockShared

TwoPayloads == {<<PayloadCell(0)>>, <<PayloadCell(1), PayloadCell(0)>>}
=============================================================================
