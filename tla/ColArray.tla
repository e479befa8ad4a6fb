------------------------------- MODULE ColArray -------------------------------
(***************************************************************************)
(* Column files (src/src/block/array): a header with the number of records *)
(* and their type, then records of one size, with nothing between them.    *)
(* One process uses any number of columns through any number of handles;   *)
(* a handle caches the header it read at open.                             *)
(*                                                                         *)
(* A cell is a byte of a record, or a field of the header: the count, and  *)
(* the type and name together.  The errors of this code are errno, which a *)
(* short write or read does not set: such a call may report success.       *)
(***************************************************************************)
EXTENDS PosixFile, Functions

CONSTANTS
  Paths,      \* the paths columns are created at or looked for
  Handles,    \* the col_arrays the process may hold open
  ValueType,  \* info->record_type, of every column
  Batches,    \* what callers append: a sequence of values and the bytes after them
  MaxRecords, \* bound: no append goes beyond this many records
  UintMod,    \* 2^32: the range of the uint32_t counts and sizes
  Events      \* the failures that happen, out of AllEvents

AllEvents == {"short_create",  \* the write of a new header is short
              "short_data",    \* the write of records is short or fails
              "short_header",  \* the rewrite of the header is short or fails
              "crash"}         \* the process dies

VARIABLES
  file,     \* per path: the file, and whether it is there
  handle,   \* per handle: the col_array
  op,       \* the append under way, or "idle"
  acked,    \* history: per path, the values of acknowledged appends, in order, as
            \* long as there is no doubt about the path
  doubt     \* history: <<path, why>> when an append was "unanswered" (the process
            \* died in it), "torn" (it died with a short write not undone), or
            \* "lost" (a short write was acknowledged)

vars == <<file, handle, op, acked, doubt>>

\* VALUE_TYPE_ARR_*, VALUE_TYPE_SIZE_*; the size of any other type is 4.
TypeSize(type) ==
  LET sizes == <<1, 1, 2, 2, 4, 4, 8, 8, 8, 8, 16>>
  IN  IF type \in DOMAIN sizes THEN sizes[type] ELSE 4
Size == TypeSize(ValueType)

\* What callers append is cut into its whole records and the bytes left over.
ASSUME ColumnAssumption ==
  /\ UintMod \in Nat \ {0} /\ MaxRecords \in Nat
  /\ Events \subseteq AllEvents
  /\ \A b \in Batches : b.values \in Seq(Nat) /\ b.extra \in 0 .. Size - 1

\* struct col_array_hdr
HEADER == 2
HeaderCells(count) == <<<<"count", count>>, <<"type_and_name", 0>>>>
NoCell == <<0, 0>>
ValueCells(values) == [i \in 1 .. Size * Len(values) |->
                         <<values[1 + ((i - 1) \div Size)], 1 + ((i - 1) % Size)>>]

Whole(path) == file[path].exists /\ Len(file[path].cells) >= HEADER

\* col_array_append writes whole records only: bytes after the last one are
\* left out.
RecordCount(batch) == (Size * Len(batch.values) + batch.extra) \div Size

\* Where col_array_read starts: the product is computed in 32 bits.
StartOffset(start) == ((start * Size) % UintMod) + HEADER

\* How much it reads: what was asked for, or what the buffer has room for.
\* Mutant: the buffer is filled whatever was asked for.
MutantReadBuffer(start, stop, room) == (room \div Size) * Size
ReadSize(start, stop, room) ==
  LET buffer == (room \div Size) * Size
      asked == ((stop - start) * Size) % UintMod
  IN  IF buffer > asked THEN asked ELSE buffer

\* The records col_array_read returns, each as its cells.
Read(path, start, stop, room) ==
  LET got == ReadAt(file[path].cells, StartOffset(start), ReadSize(start, stop, room))
  IN  [i \in 1 .. Len(got) \div Size |-> SubSeq(got, Size * (i - 1) + 1, Size * i)]

-----------------------------------------------------------------------------
NoFile == [exists |-> FALSE, cells |-> <<>>]
NoHandle == [state |-> "closed", path |-> CHOOSE p \in Paths : TRUE, count |-> 0]
Idle == [pc |-> "idle"]

ColInit ==
  /\ file = [p \in Paths |-> NoFile]
  /\ handle = [h \in Handles |-> NoHandle]
  /\ op = Idle
  /\ acked = [p \in Paths |-> <<>>]
  /\ doubt = {}

InDoubt(path) == \E d \in doubt : d[1] = path

\* A call that does nothing but fail or succeed.
NoEffect == UNCHANGED vars

\* The process is gone.  The append it was in is not answered.
Dies ==
  /\ handle' = [h \in Handles |-> NoHandle]
  /\ op' = Idle
  /\ doubt' = doubt \cup (CASE op.pc = "header" -> {<<op.path, "unanswered">>}
                             [] op.pc = "undo" -> {<<op.path, "torn">>}
                             [] OTHER -> {})
  /\ UNCHANGED <<file, acked>>

\* col_array_create: no O_TRUNC, so the records of an existing column stay
\* behind a header that counts none.
Create(path) ==
  /\ op.pc = "idle"
  /\ \E w \in {HeaderCells(0)} \cup
              (IF "short_create" \in Events THEN ShortWrites(HeaderCells(0)) ELSE {}) :
       file' = [file EXCEPT ![path] = [exists |-> TRUE, cells |-> WriteAt(@.cells, 0, w, NoCell)]]
  /\ UNCHANGED <<handle, op, acked, doubt>>

\* col_array_destroy: unlinks a name it never set (here: of no column).
Destroy(path) == op.pc = "idle" /\ NoEffect

\* The count a new handle caches.
CachedCount(path) == file[path].cells[1][2]

\* col_array_open.  When it fails it frees the array and returns it all the
\* same; when the file is too short and errno happens to be 0, it returns one
\* it has not filled in.  Either way the caller has an unusable handle.
Open(h, path) ==
  /\ op.pc = "idle" /\ handle[h].state = "closed"
  /\ handle' = [handle EXCEPT ![h] =
       IF Whole(path) THEN [state |-> "open", path |-> path, count |-> CachedCount(path)]
       ELSE [NoHandle EXCEPT !.state = "unusable"]]
  /\ UNCHANGED <<file, op, acked, doubt>>

\* col_array_close
Close(h) ==
  /\ op.pc = "idle" /\ handle[h].state = "open"
  /\ handle' = [handle EXCEPT ![h] = NoHandle]
  /\ UNCHANGED <<file, op, acked, doubt>>

\* Closing, appending to or reading from an unusable handle is undefined: the
\* process dies, or the call fails on a descriptor that is none.
UseUnusable(h) ==
  /\ op.pc = "idle" /\ handle[h].state = "unusable"
  /\ Dies \/ NoEffect

\* col_array_append up to the write of the records.  Whether a short write is
\* answered with success depends on what errno was before.
AppendData(h, batch) ==
  LET path == handle[h].path
      end == End(file[path].cells)
      n == RecordCount(batch)
      records == SubSeq(ValueCells(batch.values), 1, n * Size)
      Starts(pc, answer) == op' = [pc |-> pc, handle |-> h, path |-> path, offset |-> end,
                                   values |-> batch.values, answer |-> answer]
      Writes(w) == file' = [file EXCEPT ![path].cells = WriteAt(@, end, w, NoCell)]
  IN
  /\ op.pc = "idle" /\ handle[h].state = "open"
  /\ end + n * Size <= HEADER + MaxRecords * Size
  /\ \/ Writes(records) /\ Starts("header", "ok")
     \/ /\ "short_data" \in Events
        /\ \E w \in ShortWrites(records), answer \in {"ok", "error"} :
             /\ w = <<>> => answer = "error"
             /\ Writes(w) /\ Starts("undo", answer)
  /\ UNCHANGED <<handle, acked, doubt>>

\* The ftruncate after a short write.  Mutants: nothing is cut off; everything
\* is, the header too.
MutantUndoNothing(f, offset) == f
MutantUndoAll(f, offset) == <<>>
Undone(f, offset) == Truncate(f, offset, NoCell)

AppendUndo ==
  /\ op.pc = "undo"
  /\ file' = [file EXCEPT ![op.path].cells = Undone(@, op.offset)]
  /\ doubt' = IF op.answer = "ok" THEN doubt \cup {<<op.path, "lost">>} ELSE doubt
  /\ op' = Idle
  /\ UNCHANGED <<handle, acked>>

\* The count after an append of n records.  Mutant: bytes are counted.
MutantCountBytes(count, n) == (count + n * Size) % UintMod
NewCount(count, n) == (count + n) % UintMod

\* The write of the header, after the records; its failure is ignored.
AppendHeader ==
  LET count == NewCount(handle[op.handle].count, Len(op.values))
  IN
  /\ op.pc = "header"
  /\ handle' = [handle EXCEPT ![op.handle].count = count]
  /\ \E w \in {HeaderCells(count)} \cup
              (IF "short_header" \in Events THEN ShortWrites(HeaderCells(count)) ELSE {}) :
       file' = [file EXCEPT ![op.path].cells = WriteAt(@, 0, w, NoCell)]
  /\ acked' = IF InDoubt(op.path) THEN acked ELSE [acked EXCEPT ![op.path] = @ \o op.values]
  /\ op' = Idle
  /\ UNCHANGED doubt

Crash == "crash" \in Events /\ Dies

ColNext ==
  \/ \E p \in Paths : Create(p) \/ Destroy(p) \/ \E h \in Handles : Open(h, p)
  \/ \E h \in Handles : Close(h) \/ UseUnusable(h) \/ \E b \in Batches : AppendData(h, b)
  \/ AppendUndo \/ AppendHeader \/ Crash
=============================================================================
