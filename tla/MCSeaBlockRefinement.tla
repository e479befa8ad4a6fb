------------------------ MODULE MCSeaBlockRefinement -------------------------
(* Small instances of SeaBlock, checked against RecordStore. *)
EXTENDS SeaBlockRefinement

\* Two payloads of one length, as the callers of sea_block_update give.
SameLength == {<<PayloadCell(0)>>, <<PayloadCell(1)>>}
NoQueries == {}
=============================================================================
