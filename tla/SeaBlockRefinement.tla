------------------------- MODULE SeaBlockRefinement --------------------------
(***************************************************************************)
(* SeaBlock implements RecordStore: the store is what a handle opened now  *)
(* would read, id by id.                                                   *)
(***************************************************************************)
EXTENDS SeaBlock

NoCall == [pc |-> "none"]

\* The payloads of the records the index on disk counts.
Visible ==
  IF CanOpen
  THEN [i \in 1 .. DiskCount |->
          ReadRecord(data, 0,
            IndexQueryByRecordId(ReadAt(index, 0, HEADER_SIZE), index, i - 1).offs[1]).payload]
  ELSE <<>>

\* The append of the writer, as its caller sees it.
CallerView ==
  CASE op[Writer].pc \in {"entry", "header"} -> [pc |-> "busy", payload |-> op[Writer].payload]
    [] op[Writer].pc = "done" /\ op[Writer].call = "append" /\ op[Writer].ret = "ok" ->
         [pc |-> "ok", payload |-> op[Writer].payload, id |-> op[Writer].id,
          overlimit |-> op[Writer].overlimit]
    [] op[Writer].pc = "done" /\ op[Writer].call = "append" /\ op[Writer].ret = "error" ->
         [pc |-> "error"]
    [] OTHER -> NoCall

Store == INSTANCE RecordStore WITH store <- Visible, call <- CallerView

\* Every step of the block is a step of the abstract store or changes nothing
\* a client can see: an append takes effect at the one write of the index
\* header, with the id and the payload its caller is answered with
\* (sea_block_append, sea_block_index_append).
RefinesRecordStore == Store!Spec
=============================================================================
