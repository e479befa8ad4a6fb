-------------------------------- MODULE Graph --------------------------------
(***************************************************************************)
(* The graph database (src/src/block/graph): nodes with their edges and    *)
(* attributes are records of a data block; the records of an index block   *)
(* say where each node is, and a node's id is that of its index record.    *)
(* One process, any number of connections one after the other or at once.  *)
(*                                                                         *)
(* Both blocks are files of SeaBlockFormat.  An append to one of them is   *)
(* one step with the outcomes SeaBlock gives it, every short write and     *)
(* death between its system calls included; the process may also die       *)
(* between the appends to the two blocks.  What the second look-up through *)
(* one handle reads is SeaBlock's subject (Reuse): here every look-up is   *)
(* the first, and positions of descriptors are left out.                   *)
(***************************************************************************)
EXTENDS SeaBlockFormat, Functions

CONSTANTS
  Conns,     \* the connections
  Nodes,     \* what clients insert: the payloads of create_node_data
  MaxData,   \* bound: no append goes beyond this many cells
  Events     \* the failures and calls that happen, out of AllEvents

AllEvents == {"short_data",    \* the write of a data record is short
              "short_entry",   \* the write of an index entry is short
              "short_header",  \* the write of an index header is short
              "short_update",  \* the write over an index record is short
              "crash",         \* the process dies
              "destroy",       \* graph_db_destroy, and creation after it
              "update"}        \* graph_db_update

ASSUME GraphAssumption ==
  /\ MaxData \in Nat /\ Events \subseteq AllEvents
  /\ Nodes \subseteq Seq(Cell) /\ <<>> \notin Nodes
  /\ \A n \in Nodes : \A i \in DOMAIN n : n[i].kind = "payload"

VARIABLES
  block,   \* per block id: its two files
  conn,    \* per connection: the handles on the two blocks
  op,      \* the insert or update under way
  placed,  \* history: the node inserted under every id a client was given
  spoiled  \* history: what has happened that takes nodes away

vars == <<block, conn, op, placed, spoiled>>

\* graph_db_get_block_id(db_name), and the fixed id of the data block.
IndexBlock == "index"
DataBlock == "data"
Blocks == {IndexBlock, DataBlock}

\* A payload cell that shows the length 0 and holds v.
ValueCell(v) == [kind |-> "payload", length |-> 0, value |-> v]
\* struct graph_db_index_node_data: the block id; the record id and the pad.
IndexNode(id, record) == <<ValueCell(id), ValueCell(record)>>

NULL == [open |-> FALSE, header |-> NewHeader(0, 0)]
Closed == [open |-> FALSE, index |-> NULL, data |-> NULL, data_id |-> DataBlock]
Idle == [pc |-> "idle"]

Init ==
  /\ block = [b \in Blocks |-> [index |-> <<>>, data |-> <<>>, exists |-> FALSE]]
  /\ conn = [c \in Conns |-> Closed]
  /\ op = Idle
  /\ placed = <<>>
  /\ spoiled = {}

-----------------------------------------------------------------------------
(* The block operations the graph calls.                                   *)

\* sea_block_create: a new header over whatever index there is.
CreatedOver(b) == [index |-> WriteAt(b.index, 0, NewHeader(0, 0), 0), data |-> b.data, exists |-> TRUE]

\* sea_block_open
Opened(b) ==
  IF b.exists /\ Len(b.index) >= HEADER_SIZE
  THEN [open |-> TRUE, header |-> ReadAt(b.index, 0, HEADER_SIZE)]
  ELSE NULL

\* An append that gives no id: what it leaves of the block and the handle,
\* whether its entry is not whole, whether the process has died in it.
Failed(left, handle, torn, dies) ==
  [ok |-> FALSE, id |-> 0, block |-> left, handle |-> handle, torn |-> torn, dies |-> dies]

\* sea_block_append: the outcomes, each with what it leaves of the block b and
\* the handle h.  A failed header write cuts the index at the cached count; a
\* failed entry write leaves the cached count one ahead; a death leaves what
\* was written.
Appends(b, h, payload) ==
  LET record == Record(payload)
      header == [h.header EXCEPT ![COUNT] = @ + 1]
      counted == [h EXCEPT !.header = header]
      address == Entry(0, End(b.data))
      entry == WriteAt(b.index, End(b.index), address, 0)
      whole == [b EXCEPT !.data = @ \o record]
  IN  {[ok |-> TRUE, id |-> h.header[COUNT],
        block |-> [whole EXCEPT !.index = WriteAt(entry, 0, header, 0)],
        handle |-> counted, torn |-> FALSE, dies |-> FALSE]}
      \cup
      {Failed([b EXCEPT !.data = @ \o w], h, FALSE, FALSE)
         : w \in IF "short_data" \in Events THEN ShortWrites(record) ELSE {}}
      \cup
      {Failed([whole EXCEPT !.index = WriteAt(b.index, End(b.index), w, 0)], counted, TRUE, FALSE)
         : w \in IF "short_entry" \in Events THEN ShortWrites(address) ELSE {}}
      \cup
      {Failed([whole EXCEPT !.index = Truncate(entry, EntryAt(h.header[COUNT]), 0)], h, FALSE, FALSE)
         : e \in Events \cap {"short_header"}}
      \cup
      {Failed([whole EXCEPT !.index = index], h, FALSE, TRUE)
         : index \in IF "crash" \in Events THEN {b.index, entry} ELSE {}}

\* sea_block_query_by_record_id on a handle: whether it succeeds, and the
\* payload it copies (nothing at all when the record is not read).
QueryRecord(b, h, id) ==
  LET list == IndexQueryByRecordId(h.header, b.index, id)
      r == ReadRecord(b.data, 0, list.offs[1])
  IN  [ok |-> ~list.null,
       payload |-> IF ~list.null /\ list.offs # <<>> /\ r.ok THEN r.payload ELSE <<>>]

-----------------------------------------------------------------------------
(* graph_db_create, _destroy, _open, _close.                               *)

Create ==
  /\ op.pc = "idle" /\ (block[IndexBlock].index # <<>> => "destroy" \in Events)
  /\ block' = [block EXCEPT ![IndexBlock] = CreatedOver(@)]
  /\ spoiled' = spoiled \cup (IF Len(block[IndexBlock].index) > HEADER_SIZE THEN {"recreated"} ELSE {})
  /\ placed' = <<>>
  /\ UNCHANGED <<conn, op>>

\* Only the data file of the index block is removed: its index file and the
\* data block stay.  Callers close their connections first.
Destroy ==
  /\ "destroy" \in Events
  /\ op.pc = "idle" /\ \A c \in Conns : ~conn[c].open
  /\ block[IndexBlock].exists
  /\ block' = [block EXCEPT ![IndexBlock].data = <<>>, ![IndexBlock].exists = FALSE]
  /\ placed' = <<>>
  /\ UNCHANGED <<conn, op, spoiled>>

\* Succeeds whether or not there is an index block.
Open(c) ==
  /\ op.pc = "idle" /\ ~conn[c].open
  /\ conn' = [conn EXCEPT ![c] = [Closed EXCEPT !.open = TRUE, !.index = Opened(block[IndexBlock])]]
  /\ UNCHANGED <<block, op, placed, spoiled>>

Close(c) ==
  /\ op.pc = "idle" /\ conn[c].open
  /\ conn' = [conn EXCEPT ![c] = Closed]
  /\ UNCHANGED <<block, op, placed, spoiled>>

AllClosed == [c \in Conns |-> Closed]

Dies ==
  /\ conn' = AllClosed
  /\ op' = Idle
  /\ UNCHANGED <<block, placed, spoiled>>

Crash == "crash" \in Events /\ Dies

-----------------------------------------------------------------------------
(* __graph_db_insert_internal: the node, then its index record.            *)

\* Whether the outcome a of an append to b has cut off entries of others, or
\* left its handle's count ahead of the entries.
Damage(b, a) ==
  (IF Len(a.block.index) < Len(b.index) THEN {"cut"} ELSE {})
    \cup (IF a.torn THEN {"torn"} ELSE {})

\* When the connection has no data block yet, the one of this id is created,
\* over any block that exists, and opened.
\* Mutant: it is only opened.
MutantDataBlockUnmade(b) == b
DataBlockMade(b) == CreatedOver(b)

WriteNode(c, id, node, then) ==
  LET known == conn[c].data.open
      bid == IF known THEN conn[c].data_id ELSE id
      b == IF known THEN block[bid] ELSE DataBlockMade(block[bid])
      h == IF known THEN conn[c].data ELSE Opened(b)
  IN
  /\ Len(b.data) + Len(Record(node)) <= MaxData
  /\ \E a \in Appends(b, h, node) :
       /\ block' = [block EXCEPT ![bid] = a.block]
       /\ conn' = IF a.dies THEN AllClosed
                  ELSE [conn EXCEPT ![c].data = a.handle, ![c].data_id = bid]
       /\ op' = IF a.ok THEN [then EXCEPT !.record = a.id] ELSE Idle
       /\ spoiled' = spoiled
            \cup (IF ~known /\ (\/ Len(block[bid].index) > HEADER_SIZE
                             \/ \E d \in Conns : conn[d].data.open) THEN {"reset"} ELSE {})
            \cup Damage(block[bid], a)
            \cup (IF bid = IndexBlock THEN {"misdirected"} ELSE {})

InsertNode(c, node) ==
  /\ op.pc = "idle" /\ conn[c].open
  /\ WriteNode(c, DataBlock, node,
               [pc |-> "insert", conn |-> c, node |-> node, id |-> 0, record |-> 0])
  /\ UNCHANGED placed

\* The index record of a new node.  Mutants: it holds its own place; or the
\* place after the node.
MutantIndexOwnId(data_record, index_record) == IndexNode(IndexBlock, index_record)
MutantIndexNextRecord(data_record, index_record) == IndexNode(DataBlock, data_record + 1)
NewIndexNode(data_record, index_record) == IndexNode(DataBlock, data_record)

InsertIndex ==
  LET c == op.conn
      h == conn[c].index
      b == block[IndexBlock]
      node == NewIndexNode(op.record, h.header[COUNT])
  IN
  /\ op.pc = "insert"
  /\ IF ~h.open THEN UNCHANGED <<block, conn, placed, spoiled>>
     ELSE \E a \in Appends(b, h, node) :
            /\ block' = [block EXCEPT ![IndexBlock] = a.block]
            /\ conn' = IF a.dies THEN AllClosed ELSE [conn EXCEPT ![c].index = a.handle]
            /\ placed' = IF ~a.ok THEN placed
                         ELSE [i \in DOMAIN placed \cup {a.id} |->
                                 IF i = a.id THEN op.node ELSE placed[i]]
            /\ spoiled' = spoiled \cup Damage(b, a)
  /\ op' = Idle

\* graph_db_update looks the node up, never finds it fit to be updated in
\* place, removes nothing, and writes the new node to the connection's data
\* block: the index block itself when it has none, since the id of a node is
\* that of an index record.
UpdateNode(c, id, node) ==
  /\ "update" \in Events
  /\ op.pc = "idle" /\ conn[c].open /\ conn[c].index.open
  /\ WriteNode(c, IndexBlock, node,
               [pc |-> "update", conn |-> c, node |-> node, id |-> id, record |-> 0])
  /\ UNCHANGED placed

\* What the updated index record holds: the id the client called it by.
UpdatedIndexNode(id) == IndexNode(IndexBlock, id)

UpdateIndex ==
  LET h == conn[op.conn].index
      list == IndexQueryByRecordId(h.header, block[IndexBlock].index, op.id)
      off == IF list.offs = <<>> THEN 0 ELSE list.offs[1]
      record == Record(UpdatedIndexNode(op.id))
      short == IF "short_update" \in Events THEN ShortWrites(record) ELSE {}
  IN
  /\ op.pc = "update"
  /\ IF list.null THEN UNCHANGED <<block, conn, placed, spoiled>>
     ELSE \E w \in {record} \cup short :
            /\ block' = [block EXCEPT ![IndexBlock].data = WriteAt(@, off, w, HoleCell)]
            /\ placed' = IF w # record THEN placed
                         ELSE [i \in DOMAIN placed |-> IF i = op.id THEN op.node ELSE placed[i]]
            /\ spoiled' = spoiled \cup {"updated"} \cup (IF w = record THEN {} ELSE {"torn"})
            /\ UNCHANGED conn
  /\ op' = Idle

\* graph_db_remove does nothing and succeeds.
Remove(c, id) == op.pc = "idle" /\ conn[c].open /\ UNCHANGED vars

-----------------------------------------------------------------------------
(* graph_db_find.                                                          *)

\* What the index record says.  When nothing was copied it is whatever the
\* stack held: anything, here no block.
Place(payload) ==
  IF Len(payload) = 2 /\ \A i \in 1 .. 2 : "value" \in DOMAIN payload[i]
  THEN [block |-> payload[1].value, record |-> payload[2].value]
  ELSE [block |-> "none", record |-> 0]

Missing == <<>>

\* The node found through a handle on the index block, on a new handle on the
\* block the index record names.
Found(h, id) ==
  LET index == QueryRecord(block[IndexBlock], h, id)
      place == Place(index.payload)
      data == Opened(block[place.block])
      node == QueryRecord(block[place.block], data, place.record)
  IN  IF index.ok /\ place.block \in Blocks /\ data.open /\ node.ok
      THEN node.payload ELSE Missing

\* A find changes no file; without an index block it reads through a null
\* pointer.
Find(c, id) ==
  /\ op.pc = "idle" /\ conn[c].open
  /\ IF conn[c].index.open THEN UNCHANGED vars ELSE Dies

Next ==
  \/ Create \/ Destroy \/ Crash
  \/ \E c \in Conns :
       \/ Open(c) \/ Close(c)
       \/ \E n \in Nodes : InsertNode(c, n) \/ \E id \in DOMAIN placed : UpdateNode(c, id, n)
       \/ \E id \in DOMAIN placed \cup {0} : Find(c, id) \/ Remove(c, id)
  \/ InsertIndex \/ UpdateIndex

Spec == Init /\ [][Next]_vars

-----------------------------------------------------------------------------
(* Properties.                                                             *)

\* Counts are numbers, every handle open on a block was opened on files that
\* are there, and an insert or update under way has an open connection.
TypeOK ==
  /\ \A b \in Blocks : block[b].exists => block[b].index \in Seq(Nat)
  /\ \A c \in Conns : /\ conn[c].data.open \/ conn[c].index.open => conn[c].open
                      /\ conn[c].data.header[COUNT] \in Nat /\ conn[c].data_id \in Blocks
  /\ op.pc # "idle" => conn[op.conn].open /\ conn[op.conn].data.open

\* What a connection opened now finds first.
FreshFind(id) == Found(Opened(block[IndexBlock]), id)
Counted(b) == IF Opened(block[b]).open THEN block[b].index[COUNT] ELSE 0

\* As long as one connection does all the inserting, no node is updated and
\* every index entry is written whole, a new connection finds every node under
\* the id it was given: through short writes of records and headers, the
\* roll-back of the latter, and deaths between any two system calls of an
\* append or of its two appends (graph_db_insert, graph_db_find).
InsertedFindable ==
  spoiled = {} => \A id \in DOMAIN placed : FreshFind(id) = placed[id]

\* An index record that counts never says more than is there: the entry it
\* leads to is in the index file of the block it names and addresses a whole
\* record, because the node is written first (graph.c:104-120), even after a
\* later connection has reset the count of the data block and after deaths inside
\* an append have left entries no count covers.  What takes it away is named: a
\* failed header write after a reset, which cuts the index at the new count, an
\* entry or an update not written whole, an update through a connection without
\* a data block, a block created anew.  The record is a node, or, when the index
\* record has been updated, that index record itself.
IndexAddressesData ==
  spoiled \subseteq {"reset", "updated"} =>
  \A id \in 0 .. Counted(IndexBlock) - 1 :
    LET place == Place(QueryRecord(block[IndexBlock], Opened(block[IndexBlock]), id).payload)
        index == block[place.block].index
    IN  /\ place.block \in Blocks
        /\ place.block = IndexBlock => place.record = id
        /\ EntryAt(place.record + 1) <= Len(index)
        /\ \E n \in IF place.block = DataBlock THEN Nodes ELSE {UpdatedIndexNode(id)} :
             HoldsRecord(block[place.block].data, index[EntryAt(place.record) + 2], n)

=============================================================================
