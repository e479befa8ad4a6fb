------------------------------- MODULE SeaBlock -------------------------------
(***************************************************************************)
(* The time-series block store (src/src/block/time): one block on disk, a  *)
(* writer process that keeps a handle open (as the controller does) and    *)
(* readers that open handles of their own.  One action per system call     *)
(* whose effect another process can see, in the order of the code.         *)
(*                                                                         *)
(* A handle caches the index header it read at open; the writer's cached   *)
(* count is where record ids come from.                                    *)
(***************************************************************************)
EXTENDS SeaBlockFormat

CONSTANTS
  Writer,    \* the process that creates, appends to and destroys the block
  Readers,   \* the processes that query it; the writer may be one of them
  Payloads,  \* the payloads clients append
  Queries,   \* the queries readers make
  MaxCount,  \* max_count given to sea_block_create
  MaxTime,   \* bound: get_current_mills returns values up to MaxTime
  MaxData,   \* bound: nothing is appended beyond this many data cells
  Reuse,     \* whether a reader queries a handle it has already read with
  Events     \* the failures and rare calls that happen, out of AllEvents

AllEvents == {
  "short_data",    \* the write of a data record is short (disk full)
  "short_entry",   \* the write of an index entry is short
  "short_header",  \* the write of the index header is short or fails
  "short_update",  \* the rewrite of a data record is short
  "short_create",  \* the first write of the index header is short
  "crash",         \* the server process dies, with all its threads
  "clock_back",    \* gettimeofday goes backwards
  "destroy",       \* sea_block_destroy is called
  "recreate",      \* sea_block_create is called on a block that can be opened
  "update",        \* sea_block_update is called
  "past_end"}      \* query_by_count is asked for a page past the last record

\* sea_block_append refuses an empty payload.
ASSUME PayloadsAssumption == Payloads \subseteq Seq(Cell) /\ <<>> \notin Payloads
ASSUME BoundsAssumption == MaxCount \in Nat /\ MaxTime \in Nat
ASSUME EventsAssumption == Events \subseteq AllEvents
ASSUME QueriesAssumption ==
  \A q \in Queries : /\ q.by \in {"id", "count", "time"} /\ q.first \in Nat
                     /\ q.by = "count" => q.count \in Nat
                     /\ q.by = "time" => q.stop \in Nat

\* Callers of sea_block_update (the graph index, the super block) replace a
\* record by one of the same length.
ASSUME UpdateAssumption ==
  "update" \in Events => \A p, q \in Payloads : Len(p) = Len(q)

VARIABLES
  index,    \* the index file; no cells when it does not exist
  data,     \* the data file
  exists,   \* whether the data file exists
  handle,   \* per process: the sea_block it holds open
  op,       \* per process: the call it is in, or the outcome of the last one
  clock,    \* the latest time any call has read
  acked     \* history: the payload of every record id returned to a client, unless
            \* an update of the record failed (it may hold either payload, torn)

vars == <<index, data, exists, handle, op, clock, acked>>

Procs == {Writer} \cup Readers

NoHeader == <<0, 0, 0, 0, 0>>
Closed == [open |-> FALSE, header |-> NoHeader, dpos |-> 0]
Idle == [pc |-> "idle", call |-> "none", ret |-> "none", id |-> 0,
         payload |-> <<>>, overlimit |-> FALSE, offs |-> <<>>, real_count |-> 0, got |-> <<>>]

Times == IF "clock_back" \in Events THEN 0 .. MaxTime ELSE clock .. MaxTime
Fits(p) == Len(data) + Len(Record(p)) <= MaxData

\* The process is between calls; the caller of the last one has its outcome.
Ready(p) == op[p].pc \in {"idle", "done"}
Return(p, call, ret) == op' = [op EXCEPT ![p] = [Idle EXCEPT !.pc = "done", !.call = call, !.ret = ret]]

Init ==
  /\ index = <<>> /\ data = <<>> /\ exists = FALSE
  /\ handle = [p \in Procs |-> Closed]
  /\ op = [p \in Procs |-> Idle]
  /\ clock = 0
  /\ acked = <<>>

-----------------------------------------------------------------------------
(* Creating, opening, closing and destroying the block.                    *)

CanOpen == exists /\ Len(index) >= HEADER_SIZE

\* sea_block_index_create: no O_TRUNC, so the entries of an existing index
\* stay behind the new header.  A short write counts as success.
CreateIndex(ts) ==
  /\ Ready(Writer) /\ ~handle[Writer].open
  /\ CanOpen => "recreate" \in Events
  /\ \E w \in {NewHeader(MaxCount, ts)} \cup
              (IF "short_create" \in Events THEN ShortWrites(NewHeader(MaxCount, ts)) ELSE {}) :
       index' = WriteAt(index, 0, w, 0)
  /\ op' = [op EXCEPT ![Writer] = [Idle EXCEPT !.pc = "create_data", !.call = "create"]]
  /\ clock' = ts
  /\ UNCHANGED <<data, exists, handle, acked>>

\* sea_block_data_create
CreateData ==
  /\ op[Writer].pc = "create_data"
  /\ exists' = TRUE
  /\ Return(Writer, "create", "ok")
  /\ UNCHANGED <<index, data, handle, clock, acked>>

\* sea_block_index_open: the handle keeps the header it has read.
\* Mutant: its count is not taken over.
MutantCountNotCached == [ReadAt(index, 0, HEADER_SIZE) EXCEPT ![COUNT] = 0]
CachedHeader == ReadAt(index, 0, HEADER_SIZE)

\* sea_block_open: fails, with no effect, unless both files can be opened
\* and the header can be read.
Open(p) ==
  /\ Ready(p) /\ ~handle[p].open /\ CanOpen
  /\ handle' = [handle EXCEPT ![p] =
       [open |-> TRUE, header |-> CachedHeader, dpos |-> 0]]
  /\ op' = [op EXCEPT ![p] = Idle]
  /\ UNCHANGED <<index, data, exists, clock, acked>>

\* sea_block_close
Close(p) ==
  /\ Ready(p) /\ handle[p].open
  /\ handle' = [handle EXCEPT ![p] = Closed]
  /\ op' = [op EXCEPT ![p] = Idle]
  /\ UNCHANGED <<index, data, exists, clock, acked>>

\* sea_block_destroy unlinks the data file, then the index file.  The callers
\* close their handles first.
DestroyData ==
  /\ "destroy" \in Events
  /\ \A p \in Procs : Ready(p) /\ ~handle[p].open
  /\ exists
  /\ data' = <<>> /\ exists' = FALSE
  /\ acked' = <<>>
  /\ op' = [op EXCEPT ![Writer] = [Idle EXCEPT !.pc = "destroy_index", !.call = "destroy"]]
  /\ UNCHANGED <<index, handle, clock>>

DestroyIndex ==
  /\ op[Writer].pc = "destroy_index"
  /\ index' = <<>>
  /\ Return(Writer, "destroy", "ok")
  /\ UNCHANGED <<data, exists, handle, clock, acked>>

-----------------------------------------------------------------------------
(* sea_block_append: data record, index entry, index header.               *)

\* sea_block_data_append.  A short write leaves its cells in the file.
AppendData(p) ==
  /\ Ready(Writer) /\ handle[Writer].open
  /\ Fits(p)
  /\ \/ /\ data' = WriteAt(data, End(data), Record(p), HoleCell)
        /\ op' = [op EXCEPT ![Writer] = [Idle EXCEPT
             !.pc = "entry", !.call = "append", !.payload = p, !.offs = <<End(data)>>]]
     \/ /\ "short_data" \in Events
        /\ \E w \in ShortWrites(Record(p)) : data' = WriteAt(data, End(data), w, HoleCell)
        /\ Return(Writer, "append", "error")
  /\ handle' = [handle EXCEPT ![Writer].dpos = Len(data')]
  /\ UNCHANGED <<index, exists, clock, acked>>

\* *overlimit (callers look at it only when the append succeeds).
\* Mutant: reported one record too late.
MutantOverLimitLate(header) == header[COUNT] > header[MAX_COUNT]
OverLimit(header) == header[COUNT] >= header[MAX_COUNT]

\* sea_block_index_append, up to the write of the entry.  The cached header
\* is changed first, and stays changed when that write is short.
AppendEntry(ts) ==
  LET header == handle[Writer].header
      entry == Entry(ts, op[Writer].offs[1])
  IN
  /\ op[Writer].pc = "entry"
  /\ handle' = [handle EXCEPT ![Writer].header =
       [header EXCEPT ![COUNT] = header[COUNT] + 1, ![STOP] = ts]]
  /\ \/ /\ index' = WriteAt(index, End(index), entry, 0)
        /\ op' = [op EXCEPT ![Writer].pc = "header", ![Writer].id = header[COUNT],
             ![Writer].overlimit = OverLimit(handle'[Writer].header)]
     \/ /\ "short_entry" \in Events
        /\ \E w \in ShortWrites(entry) : index' = WriteAt(index, End(index), w, 0)
        /\ Return(Writer, "append", "error")
  /\ clock' = ts
  /\ UNCHANGED <<data, exists, acked>>

\* What a failed write of the header leaves of the count, and of the file.
\* Mutants: the count is not taken back, or is taken back twice; the file is
\* cut without regard to its header.
MutantNoRollback(count) == count
MutantRollbackTwice(count) == count - 2
Rollback(count) == count - 1
MutantRollbackSizeNoHeader(count) == ENTRY_SIZE * count
RollbackSize(count) == EntryAt(count)

\* The write of the header, and on failure the rollback of count and entry.
AppendHeader ==
  LET header == handle[Writer].header
      id == op[Writer].id
  IN
  /\ op[Writer].pc = "header"
  /\ \/ /\ index' = WriteAt(index, 0, header, 0)
        /\ op' = [op EXCEPT ![Writer].pc = "done", ![Writer].ret = "ok",
             ![Writer].offs = <<>>]
        /\ acked' = [i \in DOMAIN acked \cup {id} |->
                       IF i = id THEN op[Writer].payload ELSE acked[i]]
        /\ UNCHANGED handle
     \/ /\ "short_header" \in Events
        /\ LET count == Rollback(header[COUNT])
           IN  /\ handle' = [handle EXCEPT ![Writer].header = [header EXCEPT ![COUNT] = count]]
               /\ \E w \in ShortWrites(header) :
                    index' = Truncate(WriteAt(index, 0, w, 0), RollbackSize(count), 0)
        /\ Return(Writer, "append", "error")
        /\ UNCHANGED acked
  /\ UNCHANGED <<data, exists, clock>>

\* Where sea_block_update writes.  Mutant: always the first record.
MutantUpdateFirst(list) == 0
UpdateOffset(list) == IF list.offs = <<>> THEN 0 ELSE list.offs[1]

\* sea_block_update rewrites a record where it is, whatever its length.  With
\* no offset in the list the rewrite goes to offset 0 (the list is zeroed).
Update(id, p) ==
  LET list == IndexQueryByRecordId(handle[Writer].header, index, id)
      off == UpdateOffset(list)
  IN
  /\ "update" \in Events
  /\ Ready(Writer) /\ handle[Writer].open
  /\ IF list.null
     THEN Return(Writer, "update", "error") /\ UNCHANGED <<data, handle, acked>>
     ELSE /\ \/ /\ data' = WriteAt(data, off, Record(p), HoleCell)
                /\ Return(Writer, "update", "ok")
                /\ acked' = [i \in DOMAIN acked |-> IF i = id THEN p ELSE acked[i]]
                /\ handle' = [handle EXCEPT ![Writer].dpos = off + Len(Record(p))]
             \/ /\ "short_update" \in Events
                /\ \E w \in ShortWrites(Record(p)) :
                     /\ data' = WriteAt(data, off, w, HoleCell)
                     /\ handle' = [handle EXCEPT ![Writer].dpos = off + Len(w)]
                /\ Return(Writer, "update", "error")
                /\ acked' = [i \in DOMAIN acked \ {id} |-> acked[i]]
  /\ UNCHANGED <<index, exists, clock>>

-----------------------------------------------------------------------------
(* The queries: one read of the index, then the records one by one.        *)

IndexQuery(header, q) ==
  CASE q.by = "id"    -> IndexQueryByRecordId(header, index, q.first)
    [] q.by = "count" -> IndexQueryByCount(header, index, q.first, q.count)
    [] q.by = "time"  -> IndexQueryByTime(header, index, q.stop, q.first)

QueryIndex(p, q) ==
  LET list == IndexQuery(handle[p].header, q)
  IN
  /\ Ready(p) /\ handle[p].open
  /\ Reuse \/ op[p].pc = "idle"
  /\ (q.by = "count" /\ list.null) => "past_end" \in Events
  /\ op' = [op EXCEPT ![p] = [Idle EXCEPT
       !.pc = IF list.null \/ list.offs = <<>> THEN "done" ELSE "read",
       !.call = q.by, !.ret = IF list.null THEN "error" ELSE "ok", !.id = q.first,
       !.offs = list.offs, !.real_count = Len(list.offs)]]
  /\ UNCHANGED <<index, data, exists, handle, clock, acked>>

\* The loop of sea_block_data_query_by_offsets; it ends at a short read, and
\* the records read so far are a success.
ReadNext(p) ==
  LET r == ReadRecord(data, handle[p].dpos, op[p].offs[1])
      rest == IF r.ok THEN Tail(op[p].offs) ELSE <<>>
  IN
  /\ op[p].pc = "read"
  /\ handle' = [handle EXCEPT ![p].dpos = r.dpos]
  /\ op' = [op EXCEPT ![p].offs = rest,
       ![p].got = IF r.ok THEN Append(@, r.payload) ELSE @,
       ![p].pc = IF rest = <<>> THEN "done" ELSE "read"]
  /\ UNCHANGED <<index, data, exists, clock, acked>>

-----------------------------------------------------------------------------
\* The server process is gone: its threads, handles and calls with it.
ProcessDies ==
  /\ handle' = [p \in Procs |-> Closed]
  /\ op' = [p \in Procs |-> Idle]
  /\ UNCHANGED <<index, data, exists, clock, acked>>

Crash == "crash" \in Events /\ ProcessDies

\* sea_block_index_query_by_count frees an uninitialised pointer when the
\* first id is past the end: undefined, here the build where it aborts.
QueryAborts(p, q) ==
  /\ "past_end" \in Events
  /\ Ready(p) /\ handle[p].open
  /\ Reuse \/ op[p].pc = "idle"
  /\ q.by = "count" /\ PastEnd(handle[p].header, q.first)
  /\ ProcessDies

WriterStep ==
  \/ \E ts \in Times : CreateIndex(ts)
  \/ CreateData
  \/ DestroyData
  \/ DestroyIndex
  \/ \E p \in Payloads : AppendData(p)
  \/ \E ts \in Times : AppendEntry(ts)
  \/ AppendHeader
  \/ \E id \in 0 .. handle[Writer].header[COUNT], p \in Payloads : Update(id, p)

ReaderStep(p) ==
  \/ \E q \in Queries : QueryIndex(p, q) \/ QueryAborts(p, q)
  \/ ReadNext(p)

Next ==
  \/ WriterStep
  \/ \E p \in Procs : Open(p) \/ Close(p)
  \/ \E p \in Readers : ReaderStep(p)
  \/ Crash

Spec == Init /\ [][Next]_vars

-----------------------------------------------------------------------------
(* Properties.                                                             *)

Call == [pc : {"idle", "done", "create_data", "destroy_index", "entry", "header", "read"},
         call : {"none", "create", "destroy", "append", "update", "id", "count", "time"},
         ret : {"none", "ok", "error"}, id : Nat, payload : Payloads \cup {<<>>}, overlimit : BOOLEAN,
         offs : Seq(Nat), real_count : Nat, got : Seq(Seq(Cell))]

\* Files are sequences of words or cells, handles cache a header, every call
\* is at a known step, and every acknowledged id has a client's payload.
TypeOK ==
  /\ index \in Seq(Nat)
  /\ data \in Seq(Cell)
  /\ exists \in BOOLEAN
  /\ handle \in [Procs -> [open : BOOLEAN, header : [1 .. HEADER_SIZE -> Nat], dpos : Nat]]
  /\ op \in [Procs -> Call]
  /\ clock \in 0 .. MaxTime
  /\ \A id \in DOMAIN acked : id \in Nat /\ acked[id] \in Payloads

OffsetOf(id) == index[EntryAt(id) + 2]
DiskCount == index[COUNT]

\* Opening the block now and asking for id would return p.
FreshRead(id, p) ==
  LET list == IndexQueryByRecordId(ReadAt(index, 0, HEADER_SIZE), index, id)
      r == ReadRecord(data, 0, list.offs[1])
  IN  CanOpen /\ list.offs # <<>> /\ r.ok /\ r.payload = p

\* Every record whose append was acknowledged is found by a handle opened at
\* any later moment, whatever appends failed in between
\* (sea_block_append / sea_block_query_by_record_id).
AckedReadable == \A id \in DOMAIN acked : FreshRead(id, acked[id])

\* Every id below the count on disk addresses the whole record of one append:
\* the count is never ahead of the entries, nor an entry ahead of its record
\* (the write order of sea_block_append and sea_block_index_append).
WholeRecords ==
  CanOpen => \A id \in 0 .. DiskCount - 1 :
               /\ EntryAt(id + 1) <= Len(index)
               /\ \E p \in Payloads : HoldsRecord(data, OffsetOf(id), p)

\* Between appends the index file holds exactly as many entries as its header
\* counts (header.count, "number of index entries in this index file").
CountIsEntries ==
  CanOpen /\ op[Writer].pc \notin {"header", "create_data", "destroy_index"}
    => Len(index) = EntryAt(DiskCount)

\* An append never answers with a record id that an earlier client was given:
\* the cached count survives rollbacks, restarts and failed appends.
IdNeverReissued ==
  [][op[Writer].pc = "header" /\ op'[Writer].ret = "ok" => op[Writer].id \notin DOMAIN acked]_vars

\* A reader on a handle of its own, opened after id was acknowledged, gets
\* the record, while the writer appends and fails and rolls back.
ReadsAcked ==
  \A r \in Readers :
    /\ op[r].pc = "done" /\ op[r].call = "id"
    /\ op[r].id \in DOMAIN acked /\ handle[r].header[COUNT] > op[r].id
    => op[r].ret = "ok" /\ op[r].got = <<acked[op[r].id]>>

\* The offsets of the first records of the page [first, first + count).
Page(first, count) ==
  [i \in 1 .. (IF first + count < DiskCount THEN count ELSE DiskCount - first) |-> OffsetOf(first + i - 1)]

\* Pages that neither start past the end nor reach 2^32 are exact.
PagesExact ==
  CanOpen => \A first \in 0 .. DiskCount - 1, count \in 0 .. UintMod - 1 :
    first + count < UintMod =>
      IndexQueryByCount(ReadAt(index, 0, HEADER_SIZE), index, first, count).offs = Page(first, count)

\* The scan by time stops at the first entry at or after stop, and misses
\* none before it: entries are in the order of their timestamps.
TimeScanComplete ==
  CanOpen => \A first \in 0 .. DiskCount - 1, stop \in 0 .. MaxTime + 1 :
    LET before == {id \in first .. DiskCount - 1 : index[EntryAt(id) + 1] < stop}
        list == IndexQueryByTime(ReadAt(index, 0, HEADER_SIZE), index, stop, first)
    IN  {list.offs[i] : i \in DOMAIN list.offs} = {OffsetOf(id) : id \in before}
=============================================================================
