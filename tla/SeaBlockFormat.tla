--------------------------- MODULE SeaBlockFormat ----------------------------
(***************************************************************************)
(* The two files of a sea block (src/src/block/time) and the reads the     *)
(* store makes of them.                                                    *)
(*                                                                         *)
(* Index file: a header of five words, then two words per record.          *)
(* Data file: for every record a header cell, the payload and a tail cell. *)
(* Nothing marks a cell as a header: the length a reader takes from a cell *)
(* is whatever its last four bytes say, so a data cell is modelled by what *)
(* it is and by the length it shows when it is read as a header.  A tail   *)
(* shows Huge (its magic byte '$' is the high byte), a payload cell what   *)
(* the client put there.                                                   *)
(***************************************************************************)
EXTENDS PosixFile, FiniteSets

CONSTANTS
  Huge,      \* a length no data file reaches
  UintMod    \* 2^32: the range of the uint32_t record ids and counts

ASSUME FormatAssumption == Huge \in Nat /\ UintMod \in Nat \ {0}

\* struct sea_block_index_header: the word each field is in
BLOCK_ID == 1
MAX_COUNT == 2
START == 3
STOP == 4
COUNT == 5
HEADER_SIZE == 5   \* SEA_BLOCK_INDEX_HEADER_SIZE
ENTRY_SIZE == 2    \* SEA_BLOCK_INDEX_ENTRY_SIZE

NewHeader(max_count, ts) == <<0, max_count, ts, ts, 0>>
Entry(ts, offset) == <<ts, offset>>
EntryAt(id) == HEADER_SIZE + ENTRY_SIZE * id

Cell == [kind : {"header", "payload", "tail"}, length : Nat]
HeaderCell(n) == [kind |-> "header", length |-> n]
PayloadCell(n) == [kind |-> "payload", length |-> n]
TailCell == [kind |-> "tail", length |-> Huge]
HoleCell == PayloadCell(0)

\* Mutant: the header counts itself and the tail (buf_len for length).
MutantRecordBufLen(p) == <<HeaderCell(Len(p) + 2)>> \o p \o <<TailCell>>
Record(p) == <<HeaderCell(Len(p))>> \o p \o <<TailCell>>

\* The data file f holds the record of p at off.
HoldsRecord(f, off, p) ==
  /\ off + Len(Record(p)) <= Len(f)
  /\ \A i \in 1 .. Len(Record(p)) : f[off + i] = Record(p)[i]

-----------------------------------------------------------------------------
(* sea_block_index_query_by_*: the list of data offsets, or none (NULL).   *)

NoList == [null |-> TRUE, offs |-> <<>>]
OffsetList(s) == [null |-> FALSE, offs |-> s]

PastEnd(header, id) == header[COUNT] <= id

IndexQueryByRecordId(header, index, id) ==
  LET entry == ReadAt(index, EntryAt(id), ENTRY_SIZE)
  IN  IF PastEnd(header, id) THEN NoList
      ELSE OffsetList(IF Len(entry) = ENTRY_SIZE THEN <<entry[2]>> ELSE <<>>)

\* first + count is computed in uint32_t.  Mutant: a page is not cut at the end.
MutantReadCountUncut(header, first, count) == count
ReadCount(header, first, count) ==
  IF header[COUNT] > (first + count) % UintMod THEN count ELSE header[COUNT] - first

IndexQueryByCount(header, index, first, count) ==
  LET n == ReadCount(header, first, count)
      entries == ReadAt(index, EntryAt(first), ENTRY_SIZE * n)
  IN  IF PastEnd(header, first) THEN NoList
      ELSE OffsetList(IF Len(entries) = ENTRY_SIZE * n
                      THEN [i \in 1 .. n |-> entries[ENTRY_SIZE * i]] ELSE <<>>)

\* Mutant: stop is included.
MutantUpToStop(ts, stop) == ts <= stop
BeforeStop(ts, stop) == ts < stop

\* Neither the start of the period nor the count limits the result: the scan
\* runs from the first id to the first entry at or after stop, to the first
\* short read, or to the end.
IndexQueryByTime(header, index, stop, first) ==
  LET entries == ReadAt(index, EntryAt(first), ENTRY_SIZE * (header[COUNT] - first))
      whole == Len(entries) \div ENTRY_SIZE
      taken == {k \in 1 .. whole : \A i \in 1 .. k : BeforeStop(entries[ENTRY_SIZE * i - 1], stop)}
  IN  IF PastEnd(header, first) THEN NoList
      ELSE OffsetList([i \in 1 .. Cardinality(taken) |-> entries[ENTRY_SIZE * i]])

-----------------------------------------------------------------------------
(* One turn of the loop of sea_block_data_query_by_offsets on a descriptor *)
(* at position dpos.  The seek to the record's header is relative to the   *)
(* descriptor (SEEK_CUR); the seek to its payload is absolute.             *)

HeaderPos(dpos, off) == dpos + off
\* Mutant: the payload is read where the header is.
MutantPayloadAtHeader(off) == off
PayloadPos(off) == off + 1

ReadRecord(data, dpos, off) ==
  LET hpos == HeaderPos(dpos, off)
      header == ReadAt(data, hpos, 1)
      n == header[1].length
      payload == ReadAt(data, PayloadPos(off), n)
  IN  IF header = <<>> THEN [ok |-> FALSE, payload |-> <<>>, dpos |-> hpos]
      ELSE [ok |-> Len(payload) = n, payload |-> payload,
            dpos |-> PayloadPos(off) + Len(payload)]
=============================================================================
