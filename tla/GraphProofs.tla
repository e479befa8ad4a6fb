----------------------------- MODULE GraphProofs -----------------------------
(***************************************************************************)
(* What the graph database keeps, for any connections, nodes and failures: *)
(* TypeOK, IndexAddressesData and InsertedFindable of Graph.               *)
(***************************************************************************)
EXTENDS Graph, SeaBlockLemmas

-----------------------------------------------------------------------------
(* The types of the state.                                                 *)

\* The cells of the two data files: those of index records show a value too.
GraphCell == Cell \cup [kind : {"payload"}, length : Nat, value : Blocks \cup Nat]
Block == [index : Seq(Nat), data : Seq(GraphCell), exists : BOOLEAN]
Handle == [open : BOOLEAN, header : Header]
Conn == [open : BOOLEAN, index : Handle, data : Handle, data_id : Blocks]
Call == [pc : {"insert", "update"}, conn : Conns, node : Nodes, id : Nat, record : Nat]

Index(b) == block[b].index
Data(b) == block[b].data

\* An index file has a header, and the data block is never destroyed.
Files ==
  /\ \A b \in Blocks : Index(b) # <<>> \/ block[b].exists => Len(Index(b)) >= HEADER_SIZE
  /\ Index(DataBlock) # <<>> => block[DataBlock].exists
\* A handle is held by an open connection, on a file that has been created.
Handles ==
  \A c \in Conns :
    /\ conn[c].index.open => conn[c].open /\ Index(IndexBlock) # <<>>
    /\ conn[c].data.open => conn[c].open /\ Index(conn[c].data_id) # <<>>

TypeInv ==
  /\ block \in [Blocks -> Block] /\ conn \in [Conns -> Conn] /\ op \in {Idle} \cup Call
  /\ Files /\ Handles
  /\ op # Idle => conn[op.conn].data.open
  /\ DOMAIN placed \subseteq Nat /\ \A id \in DOMAIN placed : placed[id] \in Nodes

-----------------------------------------------------------------------------
(* Records made of these cells.                                            *)

\* An index record is made of cells of the graph, and so is a node.
LEMMA PayloadTypes ==
  /\ \A b \in Blocks, r \in Nat : IndexNode(b, r) \in Seq(GraphCell) /\ Len(IndexNode(b, r)) = 2
  /\ Nodes \subseteq Seq(GraphCell)
<1>1. ASSUME NEW b \in Blocks, NEW r \in Nat
      PROVE  IndexNode(b, r) \in Seq(GraphCell) /\ Len(IndexNode(b, r)) = 2
  <2>1. ValueCell(b) \in GraphCell /\ ValueCell(r) \in GraphCell
    BY DEF ValueCell, GraphCell
  <2> QED
    BY <2>1 DEF IndexNode
<1>2. \A n \in Seq(Cell) : n \in Seq(GraphCell)
  BY DEF GraphCell
<1> QED
  BY <1>1, <1>2, GraphAssumption

\* A record is a header, the payload and a tail (sea_block_data_append).
LEMMA GraphRecord ==
  ASSUME NEW p \in Seq(GraphCell)
  PROVE  /\ Record(p) \in Seq(GraphCell)
         /\ Len(Record(p)) = Len(p) + 2
         /\ Record(p)[1] = HeaderCell(Len(p))
         /\ \A i \in 1 .. Len(p) : Record(p)[i + 1] = p[i]
<1>1. HeaderCell(Len(p)) \in GraphCell /\ TailCell \in GraphCell
  BY FormatAssumption DEF HeaderCell, TailCell, Cell, GraphCell
<1> QED
  BY <1>1 DEF Record

\* A read within the file.
LEMMA GraphRead ==
  ASSUME NEW f \in Seq(GraphCell), NEW pos \in Nat, NEW n \in Nat, pos + n <= Len(f)
  PROVE  /\ ReadAt(f, pos, n) \in Seq(GraphCell) /\ Len(ReadAt(f, pos, n)) = n
         /\ \A i \in 1 .. n : ReadAt(f, pos, n)[i] = f[pos + i]
<1>1. ReadAt(f, pos, n) = SubSeq(f, pos + 1, pos + n)
  BY DEF ReadAt
<1> QED
  BY <1>1, RunProperties

\* A record that is there is read back (sea_block_data_query_by_offsets on a
\* descriptor nothing was read from).
LEMMA GraphReads ==
  ASSUME NEW f \in Seq(GraphCell), NEW off \in Nat, NEW p \in Seq(GraphCell), HoldsRecord(f, off, p)
  PROVE  ReadRecord(f, 0, off).ok /\ ReadRecord(f, 0, off).payload = p
<1> DEFINE header == ReadAt(f, HeaderPos(0, off), 1)
           payload == ReadAt(f, PayloadPos(off), Len(p))
<1>1. off + Len(p) + 2 <= Len(f) /\ Len(p) \in Nat /\ Len(f) \in Nat
  BY GraphRecord, SMTT(30) DEF HoldsRecord
<1>2. f[off + 1] = HeaderCell(Len(p))
  <2>1. 1 \in 1 .. Len(Record(p)) /\ Record(p)[1] = HeaderCell(Len(p))
    BY GraphRecord, <1>1
  <2> QED
    BY <2>1 DEF HoldsRecord
<1>3. \A i \in 1 .. Len(p) : f[off + 1 + i] = p[i]
  <2> TAKE i \in 1 .. Len(p)
  <2>1. i + 1 \in 1 .. Len(Record(p)) /\ Record(p)[i + 1] = p[i]
    BY GraphRecord, <1>1
  <2>2. f[off + (i + 1)] = Record(p)[i + 1]
    BY <2>1 DEF HoldsRecord
  <2> QED
    BY <2>1, <2>2
<1>4. header \in Seq(GraphCell) /\ Len(header) = 1 /\ header[1] = f[off + 1]
  <2>1. header = ReadAt(f, off, 1) /\ off + 1 <= Len(f)
    BY <1>1 DEF HeaderPos
  <2> HIDE DEF header
  <2>2. PICK l \in Nat : l = 1
    OBVIOUS
  <2>3. header = ReadAt(f, off, l) /\ off + l <= Len(f)
    BY <2>1, <2>2
  <2>4. /\ ReadAt(f, off, l) \in Seq(GraphCell) /\ Len(ReadAt(f, off, l)) = l
        /\ \A i \in 1 .. l : ReadAt(f, off, l)[i] = f[off + i]
    BY <2>3, GraphRead
  <2> QED
    BY <2>2, <2>3, <2>4
<1>5. payload \in Seq(GraphCell) /\ Len(payload) = Len(p) /\ \A i \in 1 .. Len(p) : payload[i] = p[i]
  <2> DEFINE pos == off + 1
             l == Len(p)
  <2>1. payload = ReadAt(f, pos, l) /\ pos \in Nat /\ l \in Nat /\ pos + l <= Len(f)
    BY <1>1 DEF PayloadPos
  <2>2. \A i \in 1 .. l : f[pos + i] = p[i]
    BY <1>3
  <2> HIDE DEF pos, l, payload
  <2>3. /\ ReadAt(f, pos, l) \in Seq(GraphCell) /\ Len(ReadAt(f, pos, l)) = l
        /\ \A i \in 1 .. l : ReadAt(f, pos, l)[i] = f[pos + i]
    BY <2>1, GraphRead
  <2> QED
    BY <2>1, <2>2, <2>3 DEF l
<1>6. payload = p
  BY <1>5
<1>7. header # <<>> /\ header[1].length = Len(p)
  BY <1>2, <1>4 DEF HeaderCell
<1> QED
  BY <1>6, <1>7 DEF ReadRecord

\* The file g begins with the file f.
Grows(f, g) == Len(f) <= Len(g) /\ \A i \in 1 .. Len(f) : g[i] = f[i]

\* What is appended is there, and what was there stays.
LEMMA GraphAppend ==
  ASSUME NEW f \in Seq(GraphCell), NEW w \in Seq(GraphCell)
  PROVE  f \o w \in Seq(GraphCell) /\ Grows(f, f \o w) /\ Len(f \o w) = Len(f) + Len(w)
BY DEF Grows

LEMMA GraphAppended ==
  ASSUME NEW f \in Seq(GraphCell), NEW p \in Seq(GraphCell)
  PROVE  HoldsRecord(f \o Record(p), Len(f), p)
<1>1. Record(p) \in Seq(GraphCell)
  BY GraphRecord
<1>2. PICK w \in Seq(GraphCell) : w = Record(p)
  BY <1>1
<1>3. Len(f) + Len(w) <= Len(f \o w) /\ \A i \in 1 .. Len(w) : (f \o w)[Len(f) + i] = w[i]
  OBVIOUS
<1> QED
  BY <1>2, <1>3 DEF HoldsRecord

LEMMA GraphStable ==
  ASSUME NEW f \in Seq(GraphCell), NEW g \in Seq(GraphCell), Grows(f, g),
         NEW off \in Nat, NEW p \in Seq(GraphCell), HoldsRecord(f, off, p)
  PROVE  HoldsRecord(g, off, p)
<1>1. Len(Record(p)) \in Nat
  BY GraphRecord
<1>2. off + Len(Record(p)) <= Len(g)
  BY <1>1 DEF HoldsRecord, Grows
<1>3. ASSUME NEW i \in 1 .. Len(Record(p)) PROVE g[off + i] = Record(p)[i]
  <2>1. off + i \in 1 .. Len(f)
    BY <1>1 DEF HoldsRecord
  <2> QED
    BY <2>1 DEF HoldsRecord, Grows
<1> QED
  BY <1>2, <1>3 DEF HoldsRecord

-----------------------------------------------------------------------------
(* What an append does (sea_block_append).                                 *)

\* The new index keeps the entries of the old one.
Extends(ix, iy) == Len(ix) <= Len(iy) /\ \A i \in 6 .. Len(ix) : iy[i] = ix[i]

\* The record is written, and its entry at the end of the index.
Recorded(b, p, a) ==
  /\ Len(a.block.index) = Len(b.index) + 2 /\ Extends(b.index, a.block.index)
  /\ a.block.index[Len(b.index) + 2] = Len(b.data)
  /\ HoldsRecord(a.block.data, Len(b.data), p)

\* An append that succeeds writes record, entry and the count of the handle;
\* one that is rolled back leaves the handle, and the index as it was or cut at
\* the count of the handle; one the process dies in leaves the header, and the
\* index as it was or with the entry.
Appended(b, h, p, a) ==
  /\ a.ok /\ ~a.dies /\ a.id = h.header[COUNT]
  /\ Recorded(b, p, a)
  /\ a.block.index[COUNT] = h.header[COUNT] + 1 /\ a.handle.header[COUNT] = h.header[COUNT] + 1

NotAppended(b, h, a) ==
  /\ ~a.ok /\ ~a.dies /\ a.handle = h
  /\ \/ a.block.index = b.index
     \/ /\ Len(a.block.index) = EntryAt(h.header[COUNT])
        /\ \A i \in 6 .. Len(b.index) : i <= Len(a.block.index) => a.block.index[i] = b.index[i]
        /\ a.block.index[COUNT] = b.index[COUNT]

Orphaned(b, h, p, a) ==
  /\ ~a.ok /\ a.dies /\ a.handle = h
  /\ a.block.index[COUNT] = b.index[COUNT]
  /\ a.block.index = b.index \/ Recorded(b, p, a)

LEMMA HandleCount == ASSUME NEW h \in Handle PROVE h.header[COUNT] \in Nat
BY DEF Handle, Header, HEADER_SIZE, COUNT

\* A header is five words of the index file.
LEMMA HeaderWords ==
  ASSUME NEW header \in Header
  PROVE  header \in Seq(Nat) /\ Len(header) = 5 /\ header[COUNT] \in Nat
<1>1. header = [i \in 1 .. 5 |-> header[i]] /\ \A i \in 1 .. 5 : header[i] \in Nat
  BY DEF Header, HEADER_SIZE
<1>2. [i \in 1 .. 5 |-> header[i]] \in Seq(Nat) /\ Len([i \in 1 .. 5 |-> header[i]]) = 5
  BY <1>1
<1> QED
  BY <1>1, <1>2 DEF COUNT

LEMMA EntryWords ==
  ASSUME NEW n \in Nat
  PROVE  EntryAt(n) = 5 + 2 * n /\ EntryAt(n) \in Nat /\ EntryAt(n) >= 5
BY DEF EntryAt, HEADER_SIZE, ENTRY_SIZE

\* The index after the write of an entry at its end, and of a header over it.
EntryWritten(ix, off) == WriteAt(ix, Len(ix), Entry(0, off), 0)

LEMMA EntryWrite ==
  ASSUME NEW ix \in Seq(Nat), NEW off \in Nat
  PROVE  /\ EntryWritten(ix, off) \in Seq(Nat) /\ Len(EntryWritten(ix, off)) = Len(ix) + 2
         /\ EntryWritten(ix, off)[Len(ix) + 2] = off
         /\ \A i \in 1 .. Len(ix) : EntryWritten(ix, off)[i] = ix[i]
<1>1. Entry(0, off) \in Seq(Nat) /\ Len(Entry(0, off)) = 2 /\ Entry(0, off)[2] = off
  BY DEF Entry
<1>2. PICK w \in Seq(Nat) : w = Entry(0, off)
  BY <1>1
<1>3. PICK e : e = WriteAt(ix, Len(ix), w, 0)
  OBVIOUS
<1>4. /\ e \in Seq(Nat) /\ Len(e) = Len(ix) + Len(w)
      /\ \A i \in 1 .. Len(w) : e[Len(ix) + i] = w[i]
      /\ \A i \in 1 .. Len(ix) : e[i] = ix[i]
  BY <1>3, IndexAppend
<1>5. e = EntryWritten(ix, off)
  BY <1>2, <1>3 DEF EntryWritten
<1>6. Len(w) = 2 /\ w[2] = off
  BY <1>1, <1>2
<1>7. e[Len(ix) + 2] = off
  BY <1>4, <1>6
<1> QED
  BY <1>4, <1>5, <1>6, <1>7

LEMMA HeaderWrite ==
  ASSUME NEW ix \in Seq(Nat), NEW header \in Header
  PROVE  /\ WriteAt(ix, 0, header, 0) \in Seq(Nat)
         /\ Len(WriteAt(ix, 0, header, 0)) = IF Len(ix) < 5 THEN 5 ELSE Len(ix)
         /\ WriteAt(ix, 0, header, 0)[COUNT] = header[COUNT]
         /\ \A i \in 6 .. Len(ix) : WriteAt(ix, 0, header, 0)[i] = ix[i]
<1>1. header \in Seq(Nat) /\ Len(header) = 5
  BY HeaderWords
<1>2. PICK w : w = WriteAt(ix, 0, header, 0)
  OBVIOUS
<1>3. /\ w \in Seq(Nat) /\ Len(w) = IF Len(header) > Len(ix) THEN Len(header) ELSE Len(ix)
      /\ \A i \in 1 .. Len(header) : w[i] = header[i]
      /\ \A i \in 1 .. Len(ix) : i > Len(header) => w[i] = ix[i]
  BY <1>1, <1>2, IndexHeaderWrite
<1>4. Len(w) = IF Len(ix) < 5 THEN 5 ELSE Len(ix)
  BY <1>1, <1>3
<1>5. w[COUNT] = header[COUNT]
  BY <1>1, <1>3 DEF COUNT
<1>6. \A i \in 6 .. Len(ix) : w[i] = ix[i]
  BY <1>1, <1>3
<1> QED
  BY <1>2, <1>3, <1>4, <1>5, <1>6

\* An append that is rolled back cuts the index at the count of the handle.
EntryRolledBack(ix, off, n) == Truncate(EntryWritten(ix, off), EntryAt(n), 0)

LEMMA EntryCut ==
  ASSUME NEW ix \in Seq(Nat), Len(ix) >= 5, NEW off \in Nat, NEW n \in Nat
  PROVE  /\ EntryRolledBack(ix, off, n) \in Seq(Nat)
         /\ Len(EntryRolledBack(ix, off, n)) = EntryAt(n)
         /\ EntryRolledBack(ix, off, n)[COUNT] = ix[COUNT]
         /\ \A i \in 6 .. Len(ix) : i <= EntryAt(n) => EntryRolledBack(ix, off, n)[i] = ix[i]
<1> DEFINE cut == EntryRolledBack(ix, off, n)
<1>1. PICK e : e = EntryWritten(ix, off)
  OBVIOUS
<1>2. e \in Seq(Nat) /\ Len(e) = Len(ix) + 2 /\ \A i \in 1 .. Len(ix) : e[i] = ix[i]
  BY <1>1, EntryWrite
<1>3. PICK m \in Nat : m = EntryAt(n) /\ m >= 5
  BY EntryWords
<1>4. cut = Truncate(e, m, 0)
  BY <1>1, <1>3 DEF EntryRolledBack
<1> HIDE DEF cut
<1>5. cut \in Seq(Nat) /\ Len(cut) = m /\ \A i \in 1 .. Len(e) : i <= m => cut[i] = e[i]
  <2>1. e \in Seq(Nat)
    BY <1>2
  <2>2. Truncate(e, m, 0) \in Seq(Nat)
    BY <2>1, TruncateProperties
  <2>3. /\ Len(Truncate(e, m, 0)) = m
        /\ \A i \in 1 .. Len(e) : i <= m => Truncate(e, m, 0)[i] = e[i]
    BY <2>1, IndexTruncate
  <2> QED
    BY <1>4, <2>2, <2>3
<1>6. ASSUME NEW i \in 1 .. Len(ix), i <= m PROVE cut[i] = ix[i]
  <2>1. i \in 1 .. Len(e)
    BY <1>2
  <2> QED
    BY <1>2, <1>5, <1>6, <2>1
<1>7. cut[5] = ix[5]
  BY <1>3, <1>6
<1>8. \A i \in 6 .. Len(ix) : i <= m => cut[i] = ix[i]
  BY <1>6
<1> QED
  BY <1>3, <1>5, <1>7, <1>8 DEF COUNT, cut

LEMMA AppendsEffect ==
  ASSUME NEW b \in Block, Len(b.index) >= HEADER_SIZE, NEW h \in Handle,
         NEW p \in Seq(GraphCell), NEW a \in Appends(b, h, p)
  PROVE  /\ a.block \in Block /\ a.block.exists = b.exists /\ Len(a.block.index) >= HEADER_SIZE
         /\ a.handle \in Handle /\ a.handle.open = h.open
         /\ a.ok \in BOOLEAN /\ a.id \in Nat
         /\ Grows(b.data, a.block.data)
         /\ a.torn \in BOOLEAN /\ a.dies \in BOOLEAN /\ (a.ok => ~a.dies)
         /\ \/ Appended(b, h, p, a) \/ NotAppended(b, h, a) \/ Orphaned(b, h, p, a)
            \/ a.torn /\ ~a.ok
<1> DEFINE record == Record(p)
           count == h.header[COUNT]
           header == [h.header EXCEPT ![COUNT] = @ + 1]
           n == Len(b.index)
           off == Len(b.data)
           entry == EntryWritten(b.index, off)
           whole == [b EXCEPT !.data = @ \o record]
           index == WriteAt(entry, 0, header, 0)
           cut == EntryRolledBack(b.index, off, count)
           counted == [h EXCEPT !.header = header]
<1>1. /\ record \in Seq(GraphCell) /\ count \in Nat /\ b.index \in Seq(Nat) /\ b.data \in Seq(GraphCell)
      /\ n \in Nat /\ n >= 5 /\ off \in Nat /\ b.exists \in BOOLEAN /\ h.open \in BOOLEAN
  <2>1. record \in Seq(GraphCell)
    BY GraphRecord
  <2>2. count \in Nat
    BY HandleCount
  <2>3. b.index \in Seq(Nat) /\ b.data \in Seq(GraphCell) /\ b.exists \in BOOLEAN /\ h.open \in BOOLEAN
    BY DEF Block, Handle
  <2>4. n \in Nat /\ off \in Nat
    BY <2>3
  <2>5. n >= 5
    BY DEF HEADER_SIZE
  <2> QED
    BY <2>1, <2>2, <2>3, <2>4, <2>5
<1>2. header \in Header /\ header[COUNT] = count + 1
  BY DEF Handle, Header, HEADER_SIZE, COUNT
<1> HIDE DEF record, header
<1>4. /\ entry \in Seq(Nat) /\ Len(entry) = n + 2 /\ entry[n + 2] = off
      /\ \A i \in 1 .. n : entry[i] = b.index[i]
  BY <1>1, EntryWrite
<1>7. /\ cut \in Seq(Nat) /\ Len(cut) = EntryAt(count) /\ cut[COUNT] = b.index[COUNT]
      /\ \A i \in 6 .. Len(b.index) : i <= Len(cut) => cut[i] = b.index[i]
  <2>1. b.index \in Seq(Nat) /\ Len(b.index) >= 5 /\ off \in Nat /\ count \in Nat
    BY <1>1
  <2> HIDE DEF off, count
  <2> QED
    BY <2>1, EntryCut
<1>6. EntryAt(count) \in Nat /\ EntryAt(count) >= 5
  BY <1>1, EntryWords
<1> HIDE DEF entry, n, count
<1>5. /\ index \in Seq(Nat) /\ Len(index) = n + 2 /\ index[n + 2] = off /\ index[COUNT] = count + 1
      /\ \A i \in 6 .. n : index[i] = b.index[i]
  <2>1. /\ index \in Seq(Nat) /\ Len(index) = IF Len(entry) < 5 THEN 5 ELSE Len(entry)
        /\ index[COUNT] = header[COUNT]
        /\ \A i \in 6 .. Len(entry) : index[i] = entry[i]
    BY <1>2, <1>4, HeaderWrite
  <2> HIDE DEF index
  <2>2. n + 2 \in 6 .. Len(entry) /\ \A i \in 6 .. n : i \in 1 .. n /\ i \in 6 .. Len(entry)
    BY <1>1, <1>4
  <2> QED
    BY <1>1, <1>2, <1>4, <2>1, <2>2
<1>8. /\ b.data \o record \in Seq(GraphCell) /\ Grows(b.data, b.data \o record)
      /\ HoldsRecord(b.data \o record, off, p)
  BY <1>1, GraphAppend, GraphAppended DEF record
<1> HIDE DEF index, cut, off
<1>9. CASE a = [ok |-> TRUE, id |-> count, block |-> [whole EXCEPT !.index = index],
                handle |-> counted, torn |-> FALSE, dies |-> FALSE]
  <2>1. /\ a.block.index = index /\ a.block.data = b.data \o record /\ a.block.exists = b.exists
        /\ a.block \in Block
    BY <1>1, <1>5, <1>8, <1>9 DEF Block
  <2>2. a.handle \in Handle /\ a.handle.open = h.open /\ a.handle.header = header
    BY <1>1, <1>2, <1>9 DEF Handle
  <2>3. a.ok = TRUE /\ a.id = count /\ a.torn = FALSE /\ a.dies = FALSE
    BY <1>9
  <2>4. Appended(b, h, p, a)
    BY <1>1, <1>2, <1>5, <1>8, <2>1, <2>2, <2>3 DEF Appended, Recorded, Extends, n, off, count
  <2>5. Len(a.block.index) >= HEADER_SIZE /\ Grows(b.data, a.block.data)
    BY <1>1, <1>5, <1>8, <2>1 DEF HEADER_SIZE
  <2> QED
    BY <1>1, <2>1, <2>2, <2>3, <2>4, <2>5
<1>10. ASSUME NEW w \in ShortWrites(record), a = Failed([b EXCEPT !.data = @ \o w], h, FALSE, FALSE)
       PROVE  /\ a.block \in Block /\ a.block.exists = b.exists /\ a.block.index = b.index
              /\ a.handle = h /\ a.ok = FALSE /\ a.id = 0 /\ Grows(b.data, a.block.data)
              /\ a.torn = FALSE /\ a.dies = FALSE
  <2>1. w \in Seq(GraphCell)
    BY <1>1, ShortWritesProperties
  <2>2. b.data \o w \in Seq(GraphCell) /\ Grows(b.data, b.data \o w)
    BY <1>1, <2>1, GraphAppend
  <2>3. a.block.index = b.index /\ a.block.data = b.data \o w /\ a.block.exists = b.exists /\ a.block \in Block
    BY <1>1, <1>10, <2>2 DEF Block, Failed
  <2> QED
    BY <1>10, <2>2, <2>3 DEF Failed
<1>11. CASE \E w \in ShortWrites(record) : a = Failed([b EXCEPT !.data = @ \o w], h, FALSE, FALSE)
  <2>1. PICK w \in ShortWrites(record) : a = Failed([b EXCEPT !.data = @ \o w], h, FALSE, FALSE)
    BY <1>11
  <2>2. /\ a.block \in Block /\ a.block.exists = b.exists /\ a.block.index = b.index
        /\ a.handle = h /\ a.ok = FALSE /\ a.id = 0 /\ Grows(b.data, a.block.data)
        /\ a.torn = FALSE /\ a.dies = FALSE
    BY <1>10, <2>1
  <2>3. a.handle \in Handle /\ a.handle.open = h.open /\ NotAppended(b, h, a)
    BY <2>2 DEF NotAppended
  <2>4. Len(a.block.index) >= HEADER_SIZE /\ a.id \in Nat
    BY <2>2
  <2> QED
    BY <2>2, <2>3, <2>4
\* The record is whole, whatever is left of the index.
<1>12. ASSUME NEW left \in Seq(Nat), NEW handle \in Handle, NEW torn \in BOOLEAN, NEW dies \in BOOLEAN,
              a = Failed([whole EXCEPT !.index = left], handle, torn, dies)
       PROVE  /\ a.block \in Block /\ a.block.exists = b.exists /\ a.block.index = left
              /\ a.block.data = b.data \o record /\ Grows(b.data, a.block.data)
              /\ a.handle = handle /\ a.ok = FALSE /\ a.id = 0 /\ a.torn = torn /\ a.dies = dies
  <2>1. a.block.index = left /\ a.block.data = b.data \o record /\ a.block.exists = b.exists /\ a.block \in Block
    BY <1>1, <1>8, <1>12 DEF Block, Failed
  <2> QED
    BY <1>8, <1>12, <2>1 DEF Failed
<1>13. CASE a = Failed([whole EXCEPT !.index = cut], h, FALSE, FALSE)
  <2>1. /\ a.block \in Block /\ a.block.exists = b.exists /\ a.block.index = cut
        /\ Grows(b.data, a.block.data)
        /\ a.handle = h /\ a.ok = FALSE /\ a.id = 0 /\ a.torn = FALSE /\ a.dies = FALSE
    BY <1>7, <1>12, <1>13
  <2>2. NotAppended(b, h, a)
    BY <1>7, <2>1 DEF NotAppended, n, count
  <2>3. Len(a.block.index) >= HEADER_SIZE
    BY <1>6, <1>7, <2>1 DEF HEADER_SIZE
  <2>4. a.handle \in Handle /\ a.handle.open = h.open /\ a.id \in Nat
    BY <2>1
  <2>14. a.torn \in BOOLEAN /\ a.dies \in BOOLEAN
    BY <2>1
  <2> QED
    BY <2>1, <2>2, <2>3, <2>4, <2>14
<1>14. ASSUME NEW left, left = b.index \/ left = entry, a = Failed([whole EXCEPT !.index = left], h, FALSE, TRUE)
       PROVE  /\ a.block \in Block /\ a.block.exists = b.exists /\ Len(a.block.index) >= HEADER_SIZE
              /\ Grows(b.data, a.block.data) /\ a.handle = h /\ a.id = 0 /\ a.torn = FALSE
              /\ a.ok = FALSE /\ a.dies = TRUE /\ Orphaned(b, h, p, a)
  <2>1. left \in Seq(Nat)
    BY <1>1, <1>4, <1>14
  <2>2. /\ a.block \in Block /\ a.block.exists = b.exists /\ a.block.index = left
        /\ a.block.data = b.data \o record /\ Grows(b.data, a.block.data)
        /\ a.handle = h /\ a.ok = FALSE /\ a.id = 0 /\ a.torn = FALSE /\ a.dies = TRUE
    BY <1>12, <1>14, <2>1
  <2>3. Len(left) >= 5 /\ left[COUNT] = b.index[COUNT]
    <3>1. PICK l \in Nat : l = n /\ l >= 5
      BY <1>1
    <3>2. Len(entry) >= 5 /\ 5 \in 1 .. l
      BY <1>4, <3>1
    <3>3. entry[5] = b.index[5]
      BY <1>4, <3>1, <3>2
    <3> QED
      BY <1>1, <1>14, <3>2, <3>3 DEF COUNT, n
  <2>4. left = b.index \/ Recorded(b, p, a)
    <3> SUFFICES ASSUME left = entry PROVE Recorded(b, p, a)
      BY <1>14
    <3>1. Extends(b.index, entry)
      BY <1>1, <1>4 DEF Extends, n
    <3> QED
      BY <1>1, <1>4, <1>8, <2>2, <3>1 DEF Recorded, n, off
  <2> QED
    BY <2>2, <2>3, <2>4 DEF Orphaned, HEADER_SIZE
<1>15. CASE \E left \in {b.index, entry} : a = Failed([whole EXCEPT !.index = left], h, FALSE, TRUE)
  <2>1. PICK left \in {b.index, entry} : a = Failed([whole EXCEPT !.index = left], h, FALSE, TRUE)
    BY <1>15
  <2>2. left = b.index \/ left = entry
    BY <2>1
  <2>3. /\ a.block \in Block /\ a.block.exists = b.exists /\ Len(a.block.index) >= HEADER_SIZE
        /\ Grows(b.data, a.block.data) /\ a.handle = h /\ a.id = 0 /\ a.torn = FALSE
        /\ a.ok = FALSE /\ a.dies = TRUE /\ Orphaned(b, h, p, a)
    BY <1>14, <2>1, <2>2
  <2>4. a.handle \in Handle /\ a.handle.open = h.open /\ a.id \in Nat
    BY <2>3
  <2>14. a.torn \in BOOLEAN /\ a.dies \in BOOLEAN
    BY <2>3
  <2> QED
    BY <2>3, <2>4, <2>14
<1>16. CASE \E w \in ShortWrites(Entry(0, off)) :
              a = Failed([whole EXCEPT !.index = WriteAt(b.index, n, w, 0)], counted, TRUE, FALSE)
  <2>1. PICK w \in ShortWrites(Entry(0, off)) :
          a = Failed([whole EXCEPT !.index = WriteAt(b.index, n, w, 0)], counted, TRUE, FALSE)
    BY <1>16
  <2>2. w \in Seq(Nat)
    <3>1. Entry(0, off) \in Seq(Nat)
      BY <1>1 DEF Entry
    <3> QED
      BY <3>1, ShortWritesProperties
  <2>3. PICK left : left = WriteAt(b.index, n, w, 0)
    OBVIOUS
  <2>4. left \in Seq(Nat) /\ Len(left) = Len(b.index) + Len(w)
    BY <1>1, <2>2, <2>3, IndexAppend DEF n
  <2>5. Len(left) >= 5
    BY <1>1, <2>2, <2>4 DEF n
  <2>6. counted \in Handle /\ counted.open = h.open
    BY <1>1, <1>2 DEF Handle
  <2>7. a = Failed([whole EXCEPT !.index = left], counted, TRUE, FALSE)
    BY <2>1, <2>3
  <2> HIDE DEF counted
  <2>8. /\ a.block \in Block /\ a.block.exists = b.exists /\ a.block.index = left
        /\ Grows(b.data, a.block.data)
        /\ a.handle = counted /\ a.ok = FALSE /\ a.id = 0 /\ a.torn = TRUE /\ a.dies = FALSE
    BY <1>12, <2>4, <2>6, <2>7
  <2>9. Len(a.block.index) >= HEADER_SIZE
    BY <2>5, <2>8 DEF HEADER_SIZE
  <2>10. a.handle \in Handle /\ a.handle.open = h.open /\ a.id \in Nat
    BY <2>6, <2>8
  <2>20. a.torn \in BOOLEAN /\ a.dies \in BOOLEAN
    BY <2>6, <2>8
  <2> QED
    BY <2>8, <2>9, <2>10, <2>20
<1>17. \/ a = [ok |-> TRUE, id |-> count, block |-> [whole EXCEPT !.index = index],
               handle |-> counted, torn |-> FALSE, dies |-> FALSE]
       \/ \E w \in ShortWrites(record) : a = Failed([b EXCEPT !.data = @ \o w], h, FALSE, FALSE)
       \/ \E w \in ShortWrites(Entry(0, off)) :
            a = Failed([whole EXCEPT !.index = WriteAt(b.index, n, w, 0)], counted, TRUE, FALSE)
       \/ a = Failed([whole EXCEPT !.index = cut], h, FALSE, FALSE)
       \/ \E left \in {b.index, entry} : a = Failed([whole EXCEPT !.index = left], h, FALSE, TRUE)
  BY DEF Appends, End, EntryWritten, EntryRolledBack, record, header, entry, index, cut, n, off, count
<1> QED
  BY <1>9, <1>11, <1>13, <1>15, <1>16, <1>17

\* Creation writes a new header, and keeps entries and records.
LEMMA CreatedEffect ==
  ASSUME NEW b \in Block
  PROVE  /\ CreatedOver(b) \in Block /\ CreatedOver(b).exists /\ CreatedOver(b).data = b.data
         /\ Len(CreatedOver(b).index) = IF Len(b.index) < 5 THEN 5 ELSE Len(b.index)
         /\ CreatedOver(b).index[COUNT] = 0 /\ Extends(b.index, CreatedOver(b).index)
<1>1. NewHeader(0, 0) \in Header /\ NewHeader(0, 0)[COUNT] = 0
  BY DEF NewHeader, Header, HEADER_SIZE, COUNT
<1>2. b.index \in Seq(Nat) /\ b.data \in Seq(GraphCell)
  BY DEF Block
<1>3. PICK header \in Header : header = NewHeader(0, 0)
  BY <1>1
<1>4. PICK w : w = WriteAt(b.index, 0, header, 0)
  OBVIOUS
<1>5. /\ w \in Seq(Nat) /\ Len(w) = IF Len(b.index) < 5 THEN 5 ELSE Len(b.index)
      /\ w[COUNT] = header[COUNT] /\ \A i \in 6 .. Len(b.index) : w[i] = b.index[i]
  BY <1>2, <1>4, HeaderWrite
<1>6. CreatedOver(b) = [index |-> w, data |-> b.data, exists |-> TRUE]
  BY <1>3, <1>4 DEF CreatedOver
<1>7. Extends(b.index, w)
  <2>1. PICK l \in Nat : l = Len(b.index)
    BY <1>2
  <2>2. Len(w) = IF l < 5 THEN 5 ELSE l
    BY <1>5, <2>1
  <2>3. l <= Len(w)
    BY <2>2
  <2> QED
    BY <1>5, <2>1, <2>3 DEF Extends
<1>8. CreatedOver(b) \in Block
  BY <1>2, <1>5, <1>6 DEF Block
<1> QED
  BY <1>1, <1>3, <1>5, <1>6, <1>7, <1>8

\* The words read from the start of an index file.
LEMMA FirstWords ==
  ASSUME NEW ix \in Seq(Nat), NEW n \in Nat, n <= Len(ix)
  PROVE  ReadAt(ix, 0, n) \in [1 .. n -> Nat] /\ \A i \in 1 .. n : ReadAt(ix, 0, n)[i] = ix[i]
<1>1. ReadAt(ix, 0, n) = SubSeq(ix, 1, n)
  BY DEF ReadAt
<1>2. SubSeq(ix, 1, n) \in Seq(Nat) /\ Len(SubSeq(ix, 1, n)) = n /\ \A i \in 1 .. n : SubSeq(ix, 1, n)[i] = ix[i]
  OBVIOUS
<1>3. ASSUME NEW t \in Seq(Nat), Len(t) = n PROVE t \in [1 .. n -> Nat]
  BY <1>3
<1> QED
  BY <1>1, <1>2, <1>3

\* A handle holds the header that is in the file (sea_block_open).
LEMMA OpenedEffect ==
  ASSUME NEW b \in Block
  PROVE  /\ Opened(b) \in Handle
         /\ Opened(b).open <=> b.exists /\ Len(b.index) >= HEADER_SIZE
         /\ Opened(b).open => Opened(b).header[COUNT] = b.index[COUNT]
<1>1. b.index \in Seq(Nat) /\ HEADER_SIZE = 5 /\ COUNT = 5
  BY DEF Block, HEADER_SIZE, COUNT
<1>2. CASE b.exists /\ Len(b.index) >= HEADER_SIZE
  <2>1. Opened(b) = [open |-> TRUE, header |-> ReadAt(b.index, 0, HEADER_SIZE)]
    BY <1>2 DEF Opened
  <2>2. /\ ReadAt(b.index, 0, 5) \in [1 .. 5 -> Nat] /\ ReadAt(b.index, 0, 5)[5] = b.index[5]
    <3>1. PICK ix \in Seq(Nat) : ix = b.index
      BY <1>1
    <3>2. Len(ix) >= 5
      BY <1>1, <1>2, <3>1
    <3>3. ReadAt(ix, 0, 5) \in [1 .. 5 -> Nat] /\ ReadAt(ix, 0, 5)[5] = ix[5]
      <4>1. PICK n \in Nat : n = 5
        OBVIOUS
      <4>2. n <= Len(ix)
        BY <3>2, <4>1
      <4>3. ReadAt(ix, 0, n) \in [1 .. n -> Nat] /\ \A i \in 1 .. n : ReadAt(ix, 0, n)[i] = ix[i]
        BY <4>2, FirstWords
      <4>4. 5 \in 1 .. n
        BY <4>1
      <4> QED
        BY <4>1, <4>3, <4>4
    <3> QED
      BY <3>1, <3>3
  <2> QED
    BY <1>1, <1>2, <2>1, <2>2 DEF Handle, Header
<1>3. CASE ~(b.exists /\ Len(b.index) >= HEADER_SIZE)
  <2>1. NewHeader(0, 0) \in Header
    BY DEF NewHeader, Header, HEADER_SIZE
  <2>2. Opened(b) = [open |-> FALSE, header |-> NewHeader(0, 0)]
    BY <1>3 DEF Opened, NULL
  <2> QED
    BY <1>3, <2>1, <2>2 DEF Handle
<1> QED
  BY <1>2, <1>3

LEMMA ClosedType == Closed \in Conn /\ ~Closed.open /\ ~Closed.index.open /\ ~Closed.data.open
<1>1. NewHeader(0, 0) \in Header
  BY DEF NewHeader, Header, HEADER_SIZE
<1>2. NULL \in Handle /\ ~NULL.open
  BY <1>1 DEF NULL, Handle
<1> QED
  BY <1>2 DEF Closed, Conn, DataBlock, Blocks

\* A death leaves no connection.
LEMMA AllClosedType ==
  AllClosed \in [Conns -> Conn] /\ \A c \in Conns : AllClosed[c] = Closed
BY ClosedType DEF AllClosed

-----------------------------------------------------------------------------
(* The calls.                                                              *)

LEMMA Types ==
  ASSUME TypeInv
  PROVE  /\ \A b \in Blocks : /\ block[b] \in Block /\ Index(b) \in Seq(Nat) /\ Data(b) \in Seq(GraphCell)
                               /\ Len(Index(b)) \in Nat
         /\ \A c \in Conns : /\ conn[c] \in Conn /\ conn[c].index \in Handle /\ conn[c].data \in Handle
                              /\ conn[c].data_id \in Blocks
         /\ IndexBlock \in Blocks /\ DataBlock \in Blocks /\ IndexBlock # DataBlock
         /\ op # Idle => op \in Call
<1>1. \A b \in Blocks : block[b] \in Block
  BY DEF TypeInv
<1>2. \A b \in Blocks : Index(b) \in Seq(Nat) /\ Data(b) \in Seq(GraphCell) /\ Len(Index(b)) \in Nat
  BY <1>1 DEF Block, Index, Data
<1>3. \A c \in Conns : conn[c] \in Conn
  BY DEF TypeInv
<1>4. \A c \in Conns : conn[c].index \in Handle /\ conn[c].data \in Handle /\ conn[c].data_id \in Blocks
  BY <1>3 DEF Conn
<1> QED
  BY <1>1, <1>2, <1>3, <1>4 DEF TypeInv, IndexBlock, DataBlock, Blocks

\* The write of a node: to the connection's data block, or to one it creates,
\* over any block of that name (__graph_db_insert_internal).
WriteStep(c, id, node, then, bid, made, h, a) ==
  /\ IF conn[c].data.open THEN bid = conn[c].data_id /\ made = block[bid] /\ h = conn[c].data
     ELSE bid = id /\ made = CreatedOver(block[bid]) /\ h = Opened(made)
  /\ block' = [block EXCEPT ![bid] = a.block]
  /\ conn' = IF a.dies THEN AllClosed ELSE [conn EXCEPT ![c].data = a.handle, ![c].data_id = bid]
  /\ op' = IF a.ok THEN [then EXCEPT !.record = a.id] ELSE Idle
  /\ spoiled' = spoiled
       \cup (IF ~conn[c].data.open /\ (\/ Len(Index(bid)) > HEADER_SIZE
                                      \/ \E d \in Conns : conn[d].data.open) THEN {"reset"} ELSE {})
       \cup Damage(block[bid], a)
       \cup (IF bid = IndexBlock THEN {"misdirected"} ELSE {})

LEMMA WriteNodeEffect ==
  ASSUME TypeInv, NEW c \in Conns, NEW id \in Blocks, NEW node \in Nodes, NEW then,
         WriteNode(c, id, node, then)
  PROVE  \E bid \in Blocks, made \in Block, h \in Handle :
           /\ Len(made.index) >= HEADER_SIZE /\ made.exists = (block[bid].exists \/ ~conn[c].data.open)
           /\ h.open
           /\ \E a \in Appends(made, h, node) : WriteStep(c, id, node, then, bid, made, h, a)
<1> DEFINE known == conn[c].data.open
           bid == IF known THEN conn[c].data_id ELSE id
           made == IF known THEN block[bid] ELSE CreatedOver(block[bid])
           h == IF known THEN conn[c].data ELSE Opened(made)
<1>1. bid \in Blocks /\ block[bid] \in Block
  BY Types
<1>2. made \in Block /\ h \in Handle /\ h.open /\ Len(made.index) >= HEADER_SIZE
      /\ made.exists = (block[bid].exists \/ ~known)
  <2>1. CASE known
    <3>1. Len(Index(bid)) >= HEADER_SIZE
      BY <1>1, <2>1 DEF TypeInv, Files, Handles
    <3> QED
      BY <1>1, <2>1, <3>1, Types DEF Index, Conn, Block
  <2>2. CASE ~known
    <3>1. /\ CreatedOver(block[bid]) \in Block /\ CreatedOver(block[bid]).exists
          /\ Len(CreatedOver(block[bid]).index) >= HEADER_SIZE
      <4>1. PICK b \in Block : b = block[bid]
        BY <1>1
      <4>2. Len(b.index) \in Nat
        BY DEF Block
      <4>3. /\ CreatedOver(b) \in Block /\ CreatedOver(b).exists
            /\ Len(CreatedOver(b).index) = IF Len(b.index) < 5 THEN 5 ELSE Len(b.index)
        BY CreatedEffect
      <4> QED
        BY <4>1, <4>2, <4>3 DEF HEADER_SIZE
    <3>2. Opened(CreatedOver(block[bid])) \in Handle /\ Opened(CreatedOver(block[bid])).open
      BY <3>1, OpenedEffect
    <3> QED
      BY <2>2, <3>1, <3>2 DEF Block
  <2> QED
    BY <2>1, <2>2
<1>3. PICK a \in Appends(made, h, node) : WriteStep(c, id, node, then, bid, made, h, a)
  <2>1. \E a \in Appends(made, h, node) :
          /\ block' = [block EXCEPT ![bid] = a.block]
          /\ conn' = IF a.dies THEN AllClosed
                     ELSE [conn EXCEPT ![c].data = a.handle, ![c].data_id = bid]
          /\ op' = IF a.ok THEN [then EXCEPT !.record = a.id] ELSE Idle
          /\ spoiled' = spoiled
               \cup (IF ~known /\ (\/ Len(block[bid].index) > HEADER_SIZE
                                  \/ \E d \in Conns : conn[d].data.open) THEN {"reset"} ELSE {})
               \cup Damage(block[bid], a)
               \cup (IF bid = IndexBlock THEN {"misdirected"} ELSE {})
    BY DEF WriteNode, DataBlockMade
  <2>2. IF known THEN bid = conn[c].data_id /\ made = block[bid] /\ h = conn[c].data
        ELSE bid = id /\ made = CreatedOver(block[bid]) /\ h = Opened(made)
    OBVIOUS
  <2> HIDE DEF bid, made, h
  <2> QED
    BY <2>1, <2>2 DEF WriteStep, Index
<1> HIDE DEF bid, made, h
<1> QED
  BY <1>1, <1>2, <1>3

-----------------------------------------------------------------------------
(* Types are kept.                                                         *)

LEMMA TypeInvInit == Init => TypeInv
<1> SUFFICES ASSUME Init PROVE TypeInv
  OBVIOUS
<1>1. block \in [Blocks -> Block]
  BY DEF Init, Block
<1>2. conn \in [Conns -> Conn] /\ Handles
  BY ClosedType DEF Init, Handles
<1>3. Files
  BY DEF Init, Files, Index, Blocks, IndexBlock, DataBlock
<1> QED
  BY <1>1, <1>2, <1>3 DEF Init, TypeInv

LEMMA TypeInvCreates == TypeInv /\ Create => TypeInv'
<1> SUFFICES ASSUME TypeInv, Create PROVE TypeInv'
  OBVIOUS
<1>1. PICK b \in Block : b = block[IndexBlock]
  BY Types
<1>2. PICK m : m = CreatedOver(b)
  OBVIOUS
<1>3. m \in Block /\ m.exists /\ Len(m.index) >= HEADER_SIZE
  <2>1. m \in Block /\ m.exists /\ Len(m.index) = IF Len(b.index) < 5 THEN 5 ELSE Len(b.index)
    BY <1>2, CreatedEffect
  <2>2. Len(b.index) \in Nat
    BY DEF Block
  <2> QED
    BY <2>1, <2>2 DEF HEADER_SIZE
<1>4. block' = [block EXCEPT ![IndexBlock] = m] /\ UNCHANGED <<conn, op>> /\ placed' = <<>>
  BY <1>1, <1>2 DEF Create
<1>5. block' \in [Blocks -> Block] /\ block'[IndexBlock] = m /\ block'[DataBlock] = block[DataBlock]
  BY <1>3, <1>4, Types DEF TypeInv
<1>6. m.index # <<>>
  BY <1>3 DEF HEADER_SIZE
<1>7. Files'
  BY <1>3, <1>5 DEF TypeInv, Files, Index, Blocks
<1>8. Handles'
  <2>1. \A b1 \in Blocks : Index(b1) # <<>> => Index(b1)' # <<>>
    BY <1>5, <1>6 DEF Index, Blocks
  <2>2. conn' = conn
    BY <1>4
  <2> QED
    BY <2>1, <2>2, Types DEF TypeInv, Handles
<1> QED
  BY <1>4, <1>5, <1>7, <1>8 DEF TypeInv

\* What graph_db_destroy leaves: the index file of the index block.
LEMMA DestroyEffect ==
  ASSUME TypeInv, Destroy
  PROVE  /\ block' \in [Blocks -> Block] /\ block'[DataBlock] = block[DataBlock]
         /\ block'[IndexBlock].index = Index(IndexBlock) /\ block'[IndexBlock].exists = FALSE
<1>1. block' = [block EXCEPT ![IndexBlock].data = <<>>, ![IndexBlock].exists = FALSE]
  BY DEF Destroy
<1>2. PICK b \in Block : b = block[IndexBlock]
  BY Types
<1>3. PICK k : k = [b EXCEPT !.data = <<>>, !.exists = FALSE]
  OBVIOUS
<1>4. k \in Block /\ k.index = b.index /\ k.exists = FALSE
  <2>1. <<>> \in Seq(GraphCell)
    OBVIOUS
  <2> QED
    BY <1>3, <2>1 DEF Block
<1>5. block' = [block EXCEPT ![IndexBlock] = k]
  BY <1>1, <1>2, <1>3, Types DEF TypeInv
<1>6. block' \in [Blocks -> Block] /\ block'[DataBlock] = block[DataBlock] /\ block'[IndexBlock] = k
  BY <1>4, <1>5, Types DEF TypeInv
<1> QED
  BY <1>2, <1>4, <1>6 DEF Index

LEMMA TypeInvDestroys == TypeInv /\ Destroy => TypeInv'
<1> SUFFICES ASSUME TypeInv, Destroy PROVE TypeInv'
  OBVIOUS
<1>1. UNCHANGED <<conn, op>> /\ placed' = <<>>
  BY DEF Destroy
<1>2. /\ block' \in [Blocks -> Block] /\ block'[DataBlock] = block[DataBlock]
      /\ block'[IndexBlock].index = Index(IndexBlock) /\ block'[IndexBlock].exists = FALSE
  BY DestroyEffect
<1>3. Files'
  BY <1>2 DEF TypeInv, Files, Index, Blocks
<1>4. Handles'
  BY <1>1, <1>2, Types DEF TypeInv, Handles, Index, Blocks
<1> QED
  BY <1>1, <1>2, <1>3, <1>4 DEF TypeInv

LEMMA TypeInvDies == TypeInv /\ Dies => TypeInv'
<1> SUFFICES ASSUME TypeInv, Dies PROVE TypeInv'
  OBVIOUS
<1>1. conn' \in [Conns -> Conn] /\ Handles'
  BY AllClosedType, ClosedType DEF Dies, Handles
<1>2. Files'
  BY DEF Dies, TypeInv, Files, Index
<1> QED
  BY <1>1, <1>2 DEF Dies, TypeInv

LEMMA TypeInvOpens == ASSUME TypeInv, NEW c \in Conns, Open(c) \/ Close(c) PROVE TypeInv'
<1>1. PICK k \in Conn :
        /\ conn' = [conn EXCEPT ![c] = k] /\ ~k.data.open
        /\ k.index.open => k.open /\ Index(IndexBlock) # <<>>
  <2>1. CASE Close(c)
    BY <2>1, ClosedType DEF Close
  <2>2. CASE Open(c)
    <3>1. PICK h \in Handle : h = Opened(block[IndexBlock])
      BY OpenedEffect, Types
    <3>2. h.open => Len(Index(IndexBlock)) >= 5
      BY <3>1, OpenedEffect, Types DEF Index, HEADER_SIZE
    <3>3. h.open => Index(IndexBlock) # <<>>
      BY <3>2
    <3>4. PICK k : k = [Closed EXCEPT !.open = TRUE, !.index = h]
      OBVIOUS
    <3>5. k \in Conn /\ ~k.data.open /\ k.open = TRUE /\ k.index = h
      BY <3>4, ClosedType DEF Conn
    <3> QED
      BY <2>2, <3>1, <3>3, <3>4, <3>5 DEF Open
  <2> QED
    BY <2>1, <2>2
<1>2. UNCHANGED <<block, op, placed>> /\ op = Idle
  BY DEF Open, Close, Idle, TypeInv, Call
<1>3. conn' \in [Conns -> Conn] /\ conn'[c] = k /\ \A d \in Conns : d # c => conn'[d] = conn[d]
  BY <1>1 DEF TypeInv
<1>4. Handles'
  BY <1>1, <1>2, <1>3 DEF TypeInv, Handles, Index
<1>5. Files'
  BY <1>2 DEF TypeInv, Files, Index
<1> QED
  BY <1>2, <1>3, <1>4, <1>5 DEF TypeInv

\* A step that rewrites one block, leaving it a header.
LEMMA BlockWritten ==
  ASSUME TypeInv, NEW bid \in Blocks, NEW k \in Block, Len(k.index) >= HEADER_SIZE,
         bid = DataBlock => k.exists, block' = [block EXCEPT ![bid] = k]
  PROVE  /\ block' \in [Blocks -> Block] /\ block'[bid] = k
         /\ \A b \in Blocks : b # bid => block'[b] = block[b]
         /\ Files' /\ \A b \in Blocks : Index(b) # <<>> => Index(b)' # <<>>
<1>1. block' \in [Blocks -> Block] /\ block'[bid] = k /\ \A b \in Blocks : b # bid => block'[b] = block[b]
  BY DEF TypeInv
<1>2. k.index # <<>>
  BY DEF HEADER_SIZE
<1>3. \A b \in Blocks : Index(b) # <<>> => Index(b)' # <<>>
  BY <1>1, <1>2 DEF Index
<1>4. Files'
  BY <1>1, Types DEF TypeInv, Files, Index
<1> QED
  BY <1>1, <1>3, <1>4

\* A step that sets the data handle of a connection.
SetsData(c, h, bid) == conn' = [conn EXCEPT ![c].data = h, ![c].data_id = bid]

LEMMA DataHandleSet ==
  ASSUME TypeInv, NEW c \in Conns, NEW h \in Handle, NEW bid \in Blocks, SetsData(c, h, bid)
  PROVE  /\ conn' \in [Conns -> Conn]
         /\ conn'[c].data = h /\ conn'[c].data_id = bid
         /\ conn'[c].index = conn[c].index /\ conn'[c].open = conn[c].open
         /\ \A d \in Conns : d # c => conn'[d] = conn[d]
<1>1. conn' = [conn EXCEPT ![c] = [conn[c] EXCEPT !.data = h, !.data_id = bid]]
  BY DEF TypeInv, SetsData
<1>2. PICK k : k = [conn[c] EXCEPT !.data = h, !.data_id = bid]
  OBVIOUS
<1>3. k \in Conn /\ k.data = h /\ k.data_id = bid /\ k.index = conn[c].index /\ k.open = conn[c].open
  BY <1>2, Types DEF Conn
<1>4. conn' \in [Conns -> Conn] /\ conn'[c] = k /\ \A d \in Conns : d # c => conn'[d] = conn[d]
  BY <1>1, <1>2, <1>3 DEF TypeInv
<1> QED
  BY <1>3, <1>4

\* A step that sets the index handle of a connection.
SetsIndex(c, h) == conn' = [conn EXCEPT ![c].index = h]

LEMMA IndexHandleSet ==
  ASSUME TypeInv, NEW c \in Conns, NEW h \in Handle, SetsIndex(c, h)
  PROVE  /\ conn' \in [Conns -> Conn] /\ conn'[c].index = h
         /\ conn'[c].data = conn[c].data /\ conn'[c].data_id = conn[c].data_id
         /\ conn'[c].open = conn[c].open
         /\ \A d \in Conns : d # c => conn'[d] = conn[d]
<1>1. conn' = [conn EXCEPT ![c] = [conn[c] EXCEPT !.index = h]]
  BY DEF TypeInv, SetsIndex
<1>2. PICK k : k = [conn[c] EXCEPT !.index = h]
  OBVIOUS
<1>3. /\ k \in Conn /\ k.index = h /\ k.data = conn[c].data /\ k.data_id = conn[c].data_id
      /\ k.open = conn[c].open
  BY <1>2, Types DEF Conn
<1>4. conn' \in [Conns -> Conn] /\ conn'[c] = k /\ \A d \in Conns : d # c => conn'[d] = conn[d]
  BY <1>1, <1>2, <1>3 DEF TypeInv
<1> QED
  BY <1>3, <1>4

LEMMA TypeInvWrites ==
  ASSUME TypeInv, NEW c \in Conns, conn[c].open, NEW id \in Blocks, NEW node \in Nodes,
         NEW then \in Call, then.conn = c, WriteNode(c, id, node, then), UNCHANGED placed
  PROVE  TypeInv'
<1>1. PICK bid \in Blocks, made \in Block, h \in Handle :
        /\ Len(made.index) >= HEADER_SIZE /\ made.exists = (block[bid].exists \/ ~conn[c].data.open)
        /\ h.open
        /\ \E a \in Appends(made, h, node) : WriteStep(c, id, node, then, bid, made, h, a)
  BY WriteNodeEffect
<1>2. PICK a \in Appends(made, h, node) : WriteStep(c, id, node, then, bid, made, h, a)
  BY <1>1
<1>3. node \in Seq(GraphCell)
  BY PayloadTypes
<1>4. /\ a.block \in Block /\ a.block.exists = made.exists /\ Len(a.block.index) >= HEADER_SIZE
      /\ a.handle \in Handle /\ a.handle.open = h.open /\ a.id \in Nat
      /\ a.ok \in BOOLEAN /\ a.dies \in BOOLEAN /\ (a.ok => ~a.dies)
  <2>1. Len(made.index) >= HEADER_SIZE
    BY <1>1
  <2> QED
    BY <1>3, <2>1, AppendsEffect
<1>5. bid = DataBlock => made.exists
  <2>1. CASE conn[c].data.open
    <3>1. Index(bid) # <<>>
      BY <1>2, <2>1 DEF WriteStep, TypeInv, Handles
    <3> QED
      BY <1>1, <2>1, <3>1 DEF TypeInv, Files
  <2> QED
    BY <1>1, <2>1
<1>6. /\ block' \in [Blocks -> Block] /\ block'[bid] = a.block
      /\ Files' /\ \A b \in Blocks : Index(b) # <<>> => Index(b)' # <<>>
  <2>1. block' = [block EXCEPT ![bid] = a.block]
    BY <1>2 DEF WriteStep
  <2> QED
    BY <1>4, <1>5, <2>1, BlockWritten
<1>7. ASSUME ~a.dies
      PROVE
      /\ conn' \in [Conns -> Conn] /\ conn'[c].data = a.handle /\ conn'[c].data_id = bid
      /\ conn'[c].index = conn[c].index /\ conn'[c].open = conn[c].open
      /\ \A d \in Conns : d # c => conn'[d] = conn[d]
  <2>1. SetsData(c, a.handle, bid)
    BY <1>2, <1>7 DEF WriteStep, SetsData
  <2> QED
    BY <1>4, <2>1, DataHandleSet
<1>8. Index(bid)' # <<>>
  BY <1>4, <1>6 DEF Index, HEADER_SIZE
<1>9. conn' \in [Conns -> Conn] /\ Handles'
  <2>1. CASE a.dies
    <3>1. conn' = AllClosed
      BY <1>2, <2>1 DEF WriteStep
    <3> QED
      BY <3>1, AllClosedType, ClosedType DEF Handles
  <2>2. CASE ~a.dies
    <3>1. \A b \in Blocks : Index(b) # <<>> => block'[b].index # <<>>
      BY <1>6 DEF Index
    <3>2. block'[bid].index # <<>>
      BY <1>8 DEF Index
    <3>3. ASSUME NEW d \in Conns, d # c
          PROVE  /\ conn'[d].index.open => conn'[d].open /\ block'[IndexBlock].index # <<>>
                 /\ conn'[d].data.open => conn'[d].open /\ block'[conn'[d].data_id].index # <<>>
      BY <1>7, <2>2, <3>1, <3>3, Types DEF TypeInv, Handles
    <3>4. /\ conn'[c].index.open => conn'[c].open /\ block'[IndexBlock].index # <<>>
          /\ conn'[c].data.open => conn'[c].open /\ block'[conn'[c].data_id].index # <<>>
      BY <1>7, <2>2, <3>1, <3>2, Types DEF TypeInv, Handles
    <3> QED
      BY <1>7, <2>2, <3>3, <3>4 DEF Handles, Index
  <2> QED
    BY <1>4, <2>1, <2>2
<1>10. op' \in {Idle} \cup Call /\ (op' # Idle => conn'[op'.conn].data.open)
  <2>1. op' = IF a.ok THEN [then EXCEPT !.record = a.id] ELSE Idle
    BY <1>2 DEF WriteStep
  <2>2. PICK t : t = [then EXCEPT !.record = a.id]
    OBVIOUS
  <2>3. t \in Call /\ t.conn = c
    BY <1>4, <2>2 DEF Call
  <2> QED
    BY <1>1, <1>4, <1>7, <2>1, <2>2, <2>3
<1> QED
  BY <1>6, <1>9, <1>10 DEF TypeInv

\* The outcome of the second half of an insert.
LEMMA InsertIndexEffect ==
  ASSUME TypeInv, InsertIndex
  PROVE  /\ op \in Call /\ op.pc = "insert" /\ op' = Idle
         /\ \/ UNCHANGED <<block, conn, placed, spoiled>>
            \/ \E a \in Appends(block[IndexBlock], conn[op.conn].index, IndexNode(DataBlock, op.record)) :
                 /\ conn[op.conn].index.open
                 /\ block' = [block EXCEPT ![IndexBlock] = a.block]
                 /\ conn' = IF a.dies THEN AllClosed ELSE [conn EXCEPT ![op.conn].index = a.handle]
                 /\ placed' = IF ~a.ok THEN placed
                              ELSE [i \in DOMAIN placed \cup {a.id} |->
                                      IF i = a.id THEN op.node ELSE placed[i]]
                 /\ spoiled' = spoiled \cup Damage(block[IndexBlock], a)
<1>1. op \in Call
  BY Types DEF InsertIndex, Idle
<1> QED
  BY <1>1 DEF InsertIndex, NewIndexNode

\* The connection an insert is under way on.
LEMMA CallTypes ==
  ASSUME TypeInv, op \in Call
  PROVE  /\ op.conn \in Conns /\ op.node \in Nodes /\ op.id \in Nat /\ op.record \in Nat
         /\ conn[op.conn].data.open /\ conn[op.conn].open /\ op.pc \in {"insert", "update"}
<1>1. op.conn \in Conns /\ op.node \in Nodes /\ op.id \in Nat /\ op.record \in Nat /\ op.pc \in {"insert", "update"}
  BY DEF Call
<1>2. op # Idle
  BY <1>1 DEF Idle
<1> QED
  BY <1>1, <1>2 DEF TypeInv, Handles

LEMMA TypeInvInsertsIndex == TypeInv /\ InsertIndex => TypeInv'
<1> SUFFICES ASSUME TypeInv, InsertIndex PROVE TypeInv'
  OBVIOUS
<1>1. op \in Call /\ op' = Idle
  BY InsertIndexEffect
<1>2. CASE UNCHANGED <<block, conn, placed, spoiled>>
  BY <1>1, <1>2 DEF TypeInv, Files, Handles, Index
<1>3. ASSUME NEW a \in Appends(block[IndexBlock], conn[op.conn].index, IndexNode(DataBlock, op.record)),
             conn[op.conn].index.open,
             block' = [block EXCEPT ![IndexBlock] = a.block],
             conn' = IF a.dies THEN AllClosed ELSE [conn EXCEPT ![op.conn].index = a.handle],
             placed' = IF ~a.ok THEN placed
                       ELSE [i \in DOMAIN placed \cup {a.id} |-> IF i = a.id THEN op.node ELSE placed[i]]
      PROVE  TypeInv'
  <2>1. PICK c \in Conns : c = op.conn
    BY <1>1, CallTypes
  <2>2. PICK b \in Block, h \in Handle : b = block[IndexBlock] /\ h = conn[c].index
    BY Types
  <2>3. PICK p \in Seq(GraphCell) : p = IndexNode(DataBlock, op.record)
    BY <1>1, CallTypes, PayloadTypes, Types
  <2>4. Len(b.index) >= HEADER_SIZE
    BY <1>3, <2>1, <2>2, Types DEF TypeInv, Files, Handles, Index
  <2>5. a \in Appends(b, h, p)
    BY <2>1, <2>2, <2>3
  <2>6. /\ a.block \in Block /\ Len(a.block.index) >= HEADER_SIZE
        /\ a.handle \in Handle /\ a.handle.open = h.open /\ a.id \in Nat
        /\ a.dies \in BOOLEAN
    BY <2>4, <2>5, AppendsEffect
  <2>7. /\ block' \in [Blocks -> Block]
        /\ Files' /\ \A b1 \in Blocks : Index(b1) # <<>> => Index(b1)' # <<>>
    BY <1>3, <2>6, Types, BlockWritten
  <2>8. ASSUME ~a.dies
        PROVE
        /\ conn' \in [Conns -> Conn] /\ conn'[c].index = a.handle
        /\ conn'[c].data = conn[c].data /\ conn'[c].data_id = conn[c].data_id
        /\ conn'[c].open = conn[c].open
        /\ \A d \in Conns : d # c => conn'[d] = conn[d]
    <3>1. SetsIndex(c, a.handle)
      BY <1>3, <2>1, <2>8 DEF SetsIndex
    <3> QED
      BY <2>6, <3>1, IndexHandleSet
  <2>9. conn' \in [Conns -> Conn] /\ Handles'
    <3>1. CASE a.dies
      BY <1>3, <3>1, AllClosedType, ClosedType DEF Handles
    <3>2. CASE ~a.dies
      <4>1. \A b1 \in Blocks : Index(b1) # <<>> => block'[b1].index # <<>>
        BY <2>7 DEF Index
      <4>2. ASSUME NEW d \in Conns
            PROVE  /\ conn'[d].index.open => conn'[d].open /\ block'[IndexBlock].index # <<>>
                   /\ conn'[d].data.open => conn'[d].open /\ block'[conn'[d].data_id].index # <<>>
        <5>1. CASE d = c
          BY <1>3, <2>1, <2>2, <2>6, <2>8, <3>2, <4>1, <5>1, Types DEF TypeInv, Handles
        <5>2. CASE d # c
          BY <2>8, <3>2, <4>1, <5>2, Types DEF TypeInv, Handles
        <5> QED
          BY <5>1, <5>2
      <4> QED
        BY <2>8, <3>2, <4>2 DEF Handles, Index
    <3> QED
      BY <2>6, <3>1, <3>2
  <2>10. DOMAIN placed' \subseteq Nat /\ \A i \in DOMAIN placed' : placed'[i] \in Nodes
    BY <1>1, <1>3, <2>6, CallTypes DEF TypeInv
  <2> QED
    BY <1>1, <2>7, <2>9, <2>10 DEF TypeInv
<1> QED
  BY <1>2, <1>3, InsertIndexEffect

\* The second half of an update: the index record is overwritten with its own
\* id, where the handle's entry of that id says (graph_db_update).
UpdateOff(list) == IF list.offs = <<>> THEN 0 ELSE list.offs[1]

LEMMA UpdateIndexEffect ==
  ASSUME TypeInv, UpdateIndex
  PROVE  /\ op \in Call /\ op.pc = "update" /\ op' = Idle /\ UNCHANGED conn
         /\ \/ UNCHANGED <<block, placed, spoiled>>
            \/ LET list == IndexQueryByRecordId(conn[op.conn].index.header, Index(IndexBlock), op.id)
                   record == Record(UpdatedIndexNode(op.id))
               IN  /\ ~list.null
                   /\ \E w \in {record} \cup ShortWrites(record) :
                        /\ block' = [block EXCEPT ![IndexBlock].data = WriteAt(@, UpdateOff(list), w, HoleCell)]
                        /\ placed' = IF w # record THEN placed
                                     ELSE [i \in DOMAIN placed |-> IF i = op.id THEN op.node ELSE placed[i]]
                        /\ spoiled' = spoiled \cup {"updated"} \cup (IF w = record THEN {} ELSE {"torn"})
<1>1. op \in Call
  BY Types DEF UpdateIndex, Idle
<1> QED
  BY <1>1 DEF UpdateIndex, UpdateOff, Index

LEMMA UpdatedBlock ==
  ASSUME TypeInv, op \in Call, NEW off \in Nat,
         NEW v \in Seq(GraphCell),
         block' = [block EXCEPT ![IndexBlock].data = WriteAt(@, off, v, HoleCell)]
  PROVE  /\ block' \in [Blocks -> Block] /\ block'[DataBlock] = block[DataBlock]
         /\ block'[IndexBlock].index = Index(IndexBlock)
         /\ block'[IndexBlock].exists = block[IndexBlock].exists
         /\ block'[IndexBlock].data = WriteAt(Data(IndexBlock), off, v, HoleCell)
<1>1. PICK b \in Block : b = block[IndexBlock]
  BY Types
<1>2. PICK w : w = WriteAt(b.data, off, v, HoleCell)
  OBVIOUS
<1>3. w \in Seq(GraphCell)
  <2>1. PICK r \in Seq(GraphCell) : r = v
    OBVIOUS
  <2>2. PICK z \in GraphCell : z = HoleCell
    BY HoleType DEF GraphCell
  <2>3. w = WriteAt(b.data, off, r, z)
    BY <1>2, <2>1, <2>2
  <2>4. b.data \in Seq(GraphCell)
    BY DEF Block
  <2> QED
    BY <2>3, <2>4, WriteAtProperties
<1>4. PICK k : k = [b EXCEPT !.data = w]
  OBVIOUS
<1>5. k \in Block /\ k.index = b.index /\ k.exists = b.exists /\ k.data = w
  BY <1>3, <1>4 DEF Block
<1>6. block' = [block EXCEPT ![IndexBlock] = k]
  BY <1>1, <1>2, <1>4, Types DEF TypeInv
<1>7. block' \in [Blocks -> Block] /\ block'[DataBlock] = block[DataBlock] /\ block'[IndexBlock] = k
  <2>1. block \in [Blocks -> Block] /\ DataBlock \in Blocks /\ IndexBlock \in Blocks /\ DataBlock # IndexBlock
    BY Types DEF TypeInv
  <2> QED
    BY <1>5, <1>6, <2>1
<1> QED
  BY <1>1, <1>2, <1>5, <1>7 DEF Index, Data

\* What a write over an index record, whole or short, writes.
LEMMA UpdateCells ==
  ASSUME TypeInv, op \in Call,
         NEW w \in {Record(UpdatedIndexNode(op.id))} \cup ShortWrites(Record(UpdatedIndexNode(op.id)))
  PROVE  w \in Seq(GraphCell)
<1>1. Record(UpdatedIndexNode(op.id)) \in Seq(GraphCell)
  BY CallTypes, PayloadTypes, GraphRecord, Types DEF UpdatedIndexNode
<1> QED
  BY <1>1, WrittenProperties

LEMMA UpdateOffType ==
  ASSUME TypeInv, op \in Call
  PROVE  UpdateOff(IndexQueryByRecordId(conn[op.conn].index.header, Index(IndexBlock), op.id)) \in Nat
<1>1. PICK header \in Header, ix \in Seq(Nat), id \in Nat :
        header = conn[op.conn].index.header /\ ix = Index(IndexBlock) /\ id = op.id
  BY CallTypes, Types DEF Handle
<1>2. PICK s \in Seq(Nat) : s = IndexQueryByRecordId(header, ix, id).offs
  BY QueryByRecordIdType
<1>3. (IF s = <<>> THEN 0 ELSE s[1]) \in Nat
  OBVIOUS
<1> QED
  BY <1>1, <1>2, <1>3 DEF UpdateOff

LEMMA TypeInvUpdatesIndex == TypeInv /\ UpdateIndex => TypeInv'
<1> SUFFICES ASSUME TypeInv, UpdateIndex PROVE TypeInv'
  OBVIOUS
<1>1. op \in Call /\ op' = Idle /\ UNCHANGED conn
  BY UpdateIndexEffect
<1>2. CASE UNCHANGED <<block, placed, spoiled>>
  BY <1>1, <1>2 DEF TypeInv, Files, Handles, Index
<1>3. ASSUME NEW off \in Nat, NEW w \in Seq(GraphCell),
             block' = [block EXCEPT ![IndexBlock].data = WriteAt(@, off, w, HoleCell)],
             \/ placed' = placed
             \/ placed' = [i \in DOMAIN placed |-> IF i = op.id THEN op.node ELSE placed[i]]
      PROVE  TypeInv'
  <2>1. /\ block' \in [Blocks -> Block] /\ block'[DataBlock] = block[DataBlock]
        /\ block'[IndexBlock].index = Index(IndexBlock)
        /\ block'[IndexBlock].exists = block[IndexBlock].exists
    BY <1>1, <1>3, UpdatedBlock
  <2>2. Files'
    BY <2>1 DEF TypeInv, Files, Index, Blocks
  <2>3. Handles'
    BY <1>1, <2>1, Types DEF TypeInv, Handles, Index, Blocks
  <2>4. DOMAIN placed' \subseteq Nat /\ \A i \in DOMAIN placed' : placed'[i] \in Nodes
    BY <1>1, <1>3, CallTypes DEF TypeInv
  <2> QED
    BY <1>1, <2>1, <2>2, <2>3, <2>4 DEF TypeInv
<1> QED
  <2>1. UpdateOff(IndexQueryByRecordId(conn[op.conn].index.header, Index(IndexBlock), op.id)) \in Nat
    BY <1>1, UpdateOffType
  <2> QED
    BY <1>1, <1>2, <1>3, <2>1, UpdateCells, UpdateIndexEffect

LEMMA TypeInvStep == TypeInv /\ [Next]_vars => TypeInv'
<1> SUFFICES ASSUME TypeInv, [Next]_vars PROVE TypeInv'
  OBVIOUS
<1>1. CASE UNCHANGED vars
  BY <1>1 DEF vars, TypeInv, Files, Handles, Index
<1>2. ASSUME NEW c \in Conns, NEW n \in Nodes, InsertNode(c, n) PROVE TypeInv'
  <2>1. PICK then : then = [pc |-> "insert", conn |-> c, node |-> n, id |-> 0, record |-> 0]
    OBVIOUS
  <2>2. then \in Call /\ then.conn = c
    BY <2>1 DEF Call
  <2>3. conn[c].open /\ WriteNode(c, DataBlock, n, then) /\ UNCHANGED placed
    BY <1>2, <2>1 DEF InsertNode
  <2> QED
    BY <2>2, <2>3, TypeInvWrites, Types
<1>3. ASSUME NEW c \in Conns, NEW n \in Nodes, NEW id \in DOMAIN placed, UpdateNode(c, id, n) PROVE TypeInv'
  <2>1. PICK then : then = [pc |-> "update", conn |-> c, node |-> n, id |-> id, record |-> 0]
    OBVIOUS
  <2>2. then \in Call /\ then.conn = c
    BY <2>1 DEF Call, TypeInv
  <2>3. conn[c].open /\ WriteNode(c, IndexBlock, n, then) /\ UNCHANGED placed
    BY <1>3, <2>1 DEF UpdateNode
  <2> QED
    BY <2>2, <2>3, TypeInvWrites, Types
<1>4. ASSUME NEW c \in Conns, NEW id, Find(c, id) \/ Remove(c, id) PROVE TypeInv'
  BY <1>1, <1>4, TypeInvDies DEF Find, Remove
<1>5. CASE Crash
  BY <1>5, TypeInvDies DEF Crash
<1> QED
  BY <1>1, <1>2, <1>3, <1>4, <1>5, TypeInvCreates, TypeInvDestroys, TypeInvOpens,
     TypeInvInsertsIndex, TypeInvUpdatesIndex DEF Next

\* What a connection holds open was created, counts are numbers, and an insert
\* or update under way has an open connection with a data block, whatever write
\* is short and wherever in an append the process dies.
THEOREM TypeCorrect == Spec => []TypeOK
<1>1. TypeInv => TypeOK
  <2> SUFFICES ASSUME TypeInv PROVE TypeOK
    OBVIOUS
  <2>1. \A b \in Blocks : block[b].index \in Seq(Nat)
    BY Types DEF Index
  <2>2. \A c \in Conns : conn[c].data.header[COUNT] \in Nat
    BY HandleCount, Types
  <2>3. op.pc # "idle" => conn[op.conn].open /\ conn[op.conn].data.open
    BY CallTypes, Types DEF Idle
  <2> QED
    BY <2>1, <2>2, <2>3, Types DEF TypeOK, TypeInv, Handles
<1>2. Spec => []TypeInv
  BY TypeInvInit, TypeInvStep, PTL DEF Spec
<1> QED
  BY <1>1, <1>2, PTL

-----------------------------------------------------------------------------
(* Entries.                                                                *)

\* The ids that have an entry in the index file ix, counted or not.
Entries(ix) == {j \in 0 .. Len(ix) : EntryAt(j) + ENTRY_SIZE <= Len(ix)}

\* After its header an index file is a sequence of whole entries, and it has
\* those it counts.
GoodIndex(ix) ==
  ix # <<>> => /\ \E n \in 0 .. Len(ix) : Len(ix) = EntryAt(n)
               /\ EntryAt(ix[COUNT]) <= Len(ix)

LEMMA EntryFacts ==
  ASSUME NEW ix \in Seq(Nat)
  PROVE  /\ \A j : j \in Entries(ix) <=> j \in Nat /\ 7 + 2 * j <= Len(ix)
         /\ \A j \in Entries(ix) : /\ j \in Nat /\ EntryAt(j) = 5 + 2 * j
                                    /\ EntryAt(j) + 2 \in 6 .. Len(ix) /\ Offset(ix, j) \in Nat
<1>1. ASSUME NEW j PROVE j \in Entries(ix) <=> j \in Nat /\ 7 + 2 * j <= Len(ix)
  BY DEF Entries, EntryAt, HEADER_SIZE, ENTRY_SIZE
<1>2. ASSUME NEW j \in Entries(ix)
      PROVE  /\ j \in Nat /\ EntryAt(j) = 5 + 2 * j
             /\ EntryAt(j) + 2 \in 6 .. Len(ix) /\ Offset(ix, j) \in Nat
  <2>1. j \in Nat /\ 7 + 2 * j <= Len(ix)
    BY <1>1
  <2>2. EntryAt(j) = 5 + 2 * j
    BY <2>1, EntryWords
  <2>3. EntryAt(j) + 2 \in 6 .. Len(ix) /\ EntryAt(j) + 2 \in 1 .. Len(ix)
    BY <2>1, <2>2
  <2> QED
    BY <2>1, <2>2, <2>3 DEF Offset
<1> QED
  BY <1>1, <1>2

\* An index that keeps its entries keeps their offsets.
LEMMA EntriesKept ==
  ASSUME NEW ix \in Seq(Nat), NEW iy \in Seq(Nat), Extends(ix, iy), NEW j \in Entries(ix)
  PROVE  j \in Entries(iy) /\ Offset(iy, j) = Offset(ix, j)
<1>1. j \in Nat /\ 7 + 2 * j <= Len(ix) /\ EntryAt(j) + 2 \in 6 .. Len(ix)
  BY EntryFacts
<1>2. Len(ix) <= Len(iy) /\ Len(ix) \in Nat /\ Len(iy) \in Nat
  BY DEF Extends
<1>3. j \in Entries(iy)
  <2>1. 7 + 2 * j <= Len(iy)
    BY <1>1, <1>2
  <2> QED
    BY <1>1, <2>1, EntryFacts
<1> QED
  BY <1>1, <1>3 DEF Offset, Extends

\* A new header adds none.
LEMMA EntriesAsBefore ==
  ASSUME NEW ix \in Seq(Nat), NEW iy \in Seq(Nat), Len(iy) = Len(ix) \/ Len(iy) <= 5, NEW j \in Entries(iy)
  PROVE  j \in Entries(ix)
<1>1. j \in Nat /\ 7 + 2 * j <= Len(iy)
  BY EntryFacts
<1>2. Len(iy) = Len(ix)
  BY <1>1
<1>3. 7 + 2 * j <= Len(ix)
  BY <1>1, <1>2
<1> QED
  BY <1>1, <1>3, EntryFacts

\* An entry written behind n others is the entry n.
LEMMA EntryAdded ==
  ASSUME NEW ix \in Seq(Nat), NEW iy \in Seq(Nat), NEW n \in Nat, Len(ix) = EntryAt(n), Len(iy) = Len(ix) + 2
  PROVE  /\ n \in Entries(iy) /\ Offset(iy, n) = iy[Len(ix) + 2]
         /\ \A j \in Entries(ix) : j < n
         /\ \A j \in Entries(iy) : j # n => j \in Entries(ix)
         /\ Len(iy) = EntryAt(n + 1) /\ n + 1 \in 0 .. Len(iy)
<1>1. Len(ix) = 5 + 2 * n /\ EntryAt(n + 1) = 5 + 2 * (n + 1)
  BY EntryWords
<1>2. n \in Entries(iy)
  <2>1. 7 + 2 * n <= Len(iy)
    BY <1>1
  <2> QED
    BY <2>1, EntryFacts
<1>3. ASSUME NEW j \in Entries(ix) PROVE j < n
  <2>1. j \in Nat /\ 7 + 2 * j <= Len(ix)
    BY EntryFacts
  <2> QED
    BY <1>1, <2>1
<1>4. ASSUME NEW j \in Entries(iy), j # n PROVE j \in Entries(ix)
  <2>1. j \in Nat /\ 7 + 2 * j <= Len(iy)
    BY EntryFacts
  <2>2. 7 + 2 * j <= Len(ix)
    BY <1>1, <1>4, <2>1
  <2> QED
    BY <2>1, <2>2, EntryFacts
<1>5. Offset(iy, n) = iy[Len(ix) + 2]
  BY DEF Offset
<1> QED
  BY <1>1, <1>2, <1>3, <1>4, <1>5

\* The entry n of the index iy is behind all those of the index ix.
AddsEntry(ix, iy, n) ==
  /\ n \in Entries(iy) /\ \A j \in Entries(ix) : j < n
  /\ \A j \in Entries(iy) : j # n => j \in Entries(ix)

\* What an append leaves of the entries that neither cuts any off nor fails to
\* write one whole.
LEMMA AppendsEntries ==
  ASSUME NEW b \in Block, Len(b.index) >= HEADER_SIZE, GoodIndex(b.index),
         NEW h \in Handle, EntryAt(h.header[COUNT]) <= Len(b.index),
         NEW p \in Seq(GraphCell), NEW a \in Appends(b, h, p), Len(a.block.index) >= Len(b.index), ~a.torn
  PROVE  /\ Extends(b.index, a.block.index) /\ GoodIndex(a.block.index)
         /\ EntryAt(a.handle.header[COUNT]) <= Len(a.block.index)
         /\ \/ /\ Appended(b, h, p, a) \/ Orphaned(b, h, p, a)
               /\ HoldsRecord(a.block.data, Len(b.data), p)
               /\ \E n \in Nat : /\ Len(b.index) = EntryAt(n) /\ AddsEntry(b.index, a.block.index, n)
                                  /\ Offset(a.block.index, n) = Len(b.data)
            \/ /\ ~a.ok /\ a.handle = h /\ Len(a.block.index) = Len(b.index)
               /\ a.block.index[COUNT] = b.index[COUNT]
<1>1. PICK ix \in Seq(Nat), iy \in Seq(Nat), c \in Nat : ix = b.index /\ iy = a.block.index /\ c = h.header[COUNT]
  <2>1. a.block \in Block
    BY AppendsEffect
  <2> QED
    BY <2>1, HandleCount DEF Block
<1>2. Appended(b, h, p, a) \/ NotAppended(b, h, a) \/ Orphaned(b, h, p, a)
  BY AppendsEffect
<1>3. PICK n \in Nat : Len(ix) = EntryAt(n)
  <2>1. ix # <<>>
    BY <1>1 DEF HEADER_SIZE
  <2>2. \E n \in 0 .. Len(ix) : Len(ix) = EntryAt(n)
    BY <1>1, <2>1 DEF GoodIndex
  <2> QED
    BY <2>2
<1>4. EntryAt(c) = 5 + 2 * c /\ EntryAt(c) <= Len(ix) /\ EntryAt(c + 1) = 5 + 2 * (c + 1)
  <2>1. EntryAt(c) <= Len(ix)
    BY <1>1
  <2>2. PICK d \in Nat : d = c + 1
    OBVIOUS
  <2>3. EntryAt(c) = 5 + 2 * c /\ EntryAt(d) = 5 + 2 * d
    BY EntryWords
  <2> QED
    BY <2>1, <2>2, <2>3
<1>5. ASSUME Recorded(b, p, a), NEW m \in Nat, iy[COUNT] = m, m = c \/ m = c + 1 \/ EntryAt(m) <= Len(ix)
      PROVE  /\ Extends(ix, iy) /\ GoodIndex(iy) /\ EntryAt(c + 1) <= Len(iy) /\ EntryAt(c) <= Len(iy)
             /\ HoldsRecord(a.block.data, Len(b.data), p)
             /\ Len(ix) = EntryAt(n) /\ AddsEntry(ix, iy, n) /\ Offset(iy, n) = Len(b.data)
  <2>1. /\ Len(iy) = Len(ix) + 2 /\ Extends(ix, iy) /\ iy[Len(ix) + 2] = Len(b.data)
        /\ HoldsRecord(a.block.data, Len(b.data), p)
    BY <1>1, <1>5 DEF Recorded
  <2>2. EntryAt(c + 1) <= Len(iy) /\ EntryAt(c) <= Len(iy)
    <3>1. PICK k \in Nat, l \in Nat : k = Len(ix) /\ l = Len(iy)
      OBVIOUS
    <3>2. l = k + 2 /\ 5 + 2 * c <= k
      BY <1>4, <2>1, <3>1
    <3>3. 5 + 2 * (c + 1) <= l /\ 5 + 2 * c <= l
      BY <3>2
    <3> QED
      BY <1>4, <3>1, <3>3
  <2>3. /\ n \in Entries(iy) /\ Offset(iy, n) = iy[Len(ix) + 2]
        /\ \A j \in Entries(ix) : j < n
        /\ \A j \in Entries(iy) : j # n => j \in Entries(ix)
        /\ Len(iy) = EntryAt(n + 1) /\ n + 1 \in 0 .. Len(iy)
    BY <1>3, <2>1, EntryAdded
  <2>4. EntryAt(m) <= Len(iy)
    <3>1. EntryAt(m) <= Len(ix) => EntryAt(m) <= Len(iy)
      <4>1. EntryAt(m) \in Nat
        BY EntryWords
      <4> QED
        BY <2>1, <4>1
    <3> QED
      BY <1>5, <2>2, <3>1
  <2>5. GoodIndex(iy)
    BY <1>5, <2>3, <2>4 DEF GoodIndex
  <2>6. Offset(iy, n) = Len(b.data) /\ AddsEntry(ix, iy, n)
    BY <2>1, <2>3 DEF AddsEntry
  <2> QED
    BY <1>3, <2>1, <2>2, <2>5, <2>6
<1>7. CASE Appended(b, h, p, a)
  <2>1. Recorded(b, p, a) /\ iy[COUNT] = c + 1 /\ a.handle.header[COUNT] = c + 1
    BY <1>1, <1>7 DEF Appended
  <2>2. PICK m \in Nat : m = c + 1
    OBVIOUS
  <2> QED
    BY <1>1, <1>5, <1>7, <2>1, <2>2
\* The index as it was.
<1>8. ASSUME Len(iy) = Len(ix), iy[COUNT] = ix[COUNT], \A i \in 6 .. Len(ix) : iy[i] = ix[i], a.handle = h
      PROVE  Extends(ix, iy) /\ GoodIndex(iy) /\ EntryAt(a.handle.header[COUNT]) <= Len(iy)
  <2>1. Extends(ix, iy)
    BY <1>8 DEF Extends
  <2>2. GoodIndex(iy)
    <3>1. ix # <<>> /\ GoodIndex(ix)
      BY <1>1 DEF HEADER_SIZE
    <3> QED
      BY <1>8, <3>1 DEF GoodIndex
  <2>3. EntryAt(a.handle.header[COUNT]) <= Len(iy)
    BY <1>1, <1>4, <1>8
  <2> QED
    BY <2>1, <2>2, <2>3
<1>9. CASE Orphaned(b, h, p, a)
  <2>1. ~a.ok /\ a.handle = h /\ iy[COUNT] = ix[COUNT] /\ (iy = ix \/ Recorded(b, p, a))
    BY <1>1, <1>9 DEF Orphaned
  <2>2. CASE iy = ix
    BY <1>1, <1>8, <2>1, <2>2
  <2>3. CASE Recorded(b, p, a)
    <3>1. Len(ix) >= 5 /\ ix # <<>>
      BY <1>1 DEF HEADER_SIZE
    <3>2. PICK m \in Nat : m = ix[COUNT]
      BY <3>1 DEF COUNT
    <3>3. EntryAt(m) <= Len(ix)
      BY <1>1, <3>1, <3>2 DEF GoodIndex
    <3> QED
      BY <1>1, <1>5, <1>9, <2>1, <2>3, <3>2, <3>3
  <2> QED
    BY <2>1, <2>2, <2>3
<1>6. CASE NotAppended(b, h, a)
  <2>1. ~a.ok /\ a.handle = h
    BY <1>6 DEF NotAppended
  <2>2. Len(iy) = Len(ix) /\ iy[COUNT] = ix[COUNT] /\ \A i \in 6 .. Len(ix) : iy[i] = ix[i]
    <3>1. CASE iy = ix
      BY <3>1
    <3>2. CASE iy # ix
      <4>1. /\ Len(iy) = EntryAt(c) /\ iy[COUNT] = ix[COUNT]
            /\ \A i \in 6 .. Len(ix) : i <= Len(iy) => iy[i] = ix[i]
        BY <1>1, <1>6, <3>2 DEF NotAppended
      <4>2. Len(iy) = Len(ix)
        <5>1. PICK k \in Nat, l \in Nat : k = Len(ix) /\ l = Len(iy)
          OBVIOUS
        <5>2. l >= k /\ l <= k
          BY <1>1, <1>4, <4>1, <5>1
        <5> QED
          BY <5>1, <5>2
      <4> QED
        BY <4>1, <4>2
    <3> QED
      BY <3>1, <3>2
  <2> QED
    BY <1>1, <1>8, <2>1, <2>2
<1> QED
  BY <1>2, <1>6, <1>7, <1>9

-----------------------------------------------------------------------------
(* An index record leads to a record.                                      *)

\* Every entry of the data block addresses a node.
NodesIn(b) == \A j \in Entries(b.index) : \E n \in Nodes : HoldsRecord(b.data, Offset(b.index, j), n)

\* Every entry of the index block addresses the place of an entry of the data
\* block, or, once updated, its own; and no two of them overlap.
HoldsPlace(b, ix, j) ==
  \/ HoldsRecord(b.data, Offset(b.index, j), UpdatedIndexNode(j))
  \/ \E r \in Entries(ix) : HoldsRecord(b.data, Offset(b.index, j), IndexNode(DataBlock, r))
PlacesIn(b, ix) == \A j \in Entries(b.index) : HoldsPlace(b, ix, j)
Apart(b) == \A i, j \in Entries(b.index) : i < j => Offset(b.index, i) + 4 <= Offset(b.index, j)

\* The files have what the handles count, and data blocks are not confused.
HandlesWithin ==
  \A c \in Conns :
    /\ conn[c].data_id = DataBlock
    /\ conn[c].data.open => EntryAt(conn[c].data.header[COUNT]) <= Len(Index(DataBlock))
    /\ conn[c].index.open => /\ block[IndexBlock].exists
                             /\ EntryAt(conn[c].index.header[COUNT]) <= Len(Index(IndexBlock))

Addressed ==
  /\ \A b \in Blocks : GoodIndex(Index(b))
  /\ HandlesWithin
  /\ NodesIn(block[DataBlock])
  /\ block[IndexBlock].exists => PlacesIn(block[IndexBlock], Index(DataBlock)) /\ Apart(block[IndexBlock])
  /\ op.pc = "insert" => op.record \in Entries(Index(DataBlock))
  /\ op.pc = "update" => conn[op.conn].index.open

AddressInv == spoiled \subseteq {"reset", "updated"} => Addressed

LEMMA NodesAppended ==
  ASSUME NEW b \in Block, Len(b.index) >= HEADER_SIZE, GoodIndex(b.index), NodesIn(b),
         NEW h \in Handle, EntryAt(h.header[COUNT]) <= Len(b.index),
         NEW p \in Nodes, NEW a \in Appends(b, h, p), Len(a.block.index) >= Len(b.index), ~a.torn
  PROVE  NodesIn(a.block)
<1> SUFFICES ASSUME NEW j \in Entries(a.block.index)
             PROVE  \E n \in Nodes : HoldsRecord(a.block.data, Offset(a.block.index, j), n)
  BY DEF NodesIn
<1>1. p \in Seq(GraphCell)
  BY PayloadTypes
<1>2. a.block \in Block /\ Grows(b.data, a.block.data)
  BY <1>1, AppendsEffect
<1>3. PICK ix \in Seq(Nat), iy \in Seq(Nat), f \in Seq(GraphCell), g \in Seq(GraphCell) :
        ix = b.index /\ iy = a.block.index /\ f = b.data /\ g = a.block.data
  BY <1>2 DEF Block
<1>4. /\ Extends(ix, iy)
      /\ \/ /\ HoldsRecord(g, Len(f), p)
            /\ \E n \in Nat : Offset(iy, n) = Len(f) /\ AddsEntry(ix, iy, n)
         \/ Len(iy) = Len(ix)
  BY <1>1, <1>3, AppendsEntries
<1>5. CASE j \in Entries(ix)
  <2>1. Offset(iy, j) = Offset(ix, j) /\ Offset(ix, j) \in Nat
    BY <1>4, <1>5, EntriesKept, EntryFacts
  <2>2. PICK n \in Nodes : HoldsRecord(f, Offset(ix, j), n)
    BY <1>3, <1>5 DEF NodesIn
  <2>3. n \in Seq(GraphCell) /\ Grows(f, g)
    BY <1>2, <1>3, PayloadTypes
  <2>4. HoldsRecord(g, Offset(ix, j), n)
    BY <2>1, <2>2, <2>3, GraphStable
  <2> QED
    BY <1>3, <2>1, <2>4
<1>6. CASE j \notin Entries(ix)
  <2>1. Len(iy) # Len(ix)
    BY <1>3, <1>6, EntriesAsBefore
  <2>2. HoldsRecord(g, Len(f), p) /\ Offset(iy, j) = Len(f)
    BY <1>3, <1>4, <1>6, <2>1 DEF AddsEntry
  <2> QED
    BY <1>3, <2>2
<1> QED
  BY <1>5, <1>6

\* The end of an index record.
LEMMA PlaceEnd ==
  ASSUME NEW b \in Block, NEW ix \in Seq(Nat), NEW j \in Entries(b.index), HoldsPlace(b, ix, j)
  PROVE  Offset(b.index, j) + 4 <= Len(b.data)
<1>1. PICK p \in Seq(GraphCell) : Len(p) = 2 /\ HoldsRecord(b.data, Offset(b.index, j), p)
  <2>1. j \in Nat /\ \A r \in Entries(ix) : r \in Nat
    BY EntryFacts DEF Block
  <2>2. IndexBlock \in Blocks /\ DataBlock \in Blocks
    BY DEF Blocks
  <2> QED
    BY <2>1, <2>2, PayloadTypes DEF HoldsPlace, UpdatedIndexNode
<1>2. Len(Record(p)) = 4
  <2>1. Len(Record(p)) = Len(p) + 2
    BY GraphRecord
  <2> QED
    BY <1>1, <2>1
<1> QED
  BY <1>1, <1>2 DEF HoldsRecord

LEMMA PlacesAppended ==
  ASSUME NEW b \in Block, Len(b.index) >= HEADER_SIZE, GoodIndex(b.index),
         NEW ix \in Seq(Nat), PlacesIn(b, ix), Apart(b), NEW r \in Entries(ix),
         NEW h \in Handle, EntryAt(h.header[COUNT]) <= Len(b.index),
         NEW a \in Appends(b, h, IndexNode(DataBlock, r)), Len(a.block.index) >= Len(b.index), ~a.torn
  PROVE  PlacesIn(a.block, ix) /\ Apart(a.block)
<1>1. PICK p \in Seq(GraphCell) : p = IndexNode(DataBlock, r)
  BY PayloadTypes, EntryFacts DEF Blocks
<1>2. a.block \in Block /\ Grows(b.data, a.block.data) /\ a \in Appends(b, h, p)
  BY <1>1, AppendsEffect
<1>3. PICK iy \in Seq(Nat), iz \in Seq(Nat), f \in Seq(GraphCell), g \in Seq(GraphCell) :
        iy = b.index /\ iz = a.block.index /\ f = b.data /\ g = a.block.data
  BY <1>2 DEF Block
<1>4. /\ Extends(iy, iz)
      /\ \/ /\ HoldsRecord(g, Len(f), p)
            /\ \E n \in Nat : Offset(iz, n) = Len(f) /\ AddsEntry(iy, iz, n)
         \/ Len(iz) = Len(iy)
  BY <1>2, <1>3, AppendsEntries
<1>5. ASSUME NEW j \in Entries(iy)
      PROVE  /\ Offset(iz, j) = Offset(iy, j) /\ Offset(iy, j) \in Nat
             /\ HoldsPlace(a.block, ix, j) /\ Offset(iy, j) + 4 <= Len(f)
  <2>1. Offset(iz, j) = Offset(iy, j) /\ Offset(iy, j) \in Nat
    BY <1>4, EntriesKept, EntryFacts
  <2>2. HoldsPlace(b, ix, j)
    BY <1>3 DEF PlacesIn
  <2>3. ASSUME NEW q \in Seq(GraphCell), HoldsRecord(f, Offset(iy, j), q) PROVE HoldsRecord(g, Offset(iz, j), q)
    BY <1>2, <1>3, <2>1, <2>3, GraphStable
  <2>4. j \in Nat /\ (\A k \in Entries(ix) : k \in Nat) /\ IndexBlock \in Blocks /\ DataBlock \in Blocks
    BY EntryFacts DEF Blocks
  <2>5. /\ UpdatedIndexNode(j) \in Seq(GraphCell)
        /\ \A k \in Entries(ix) : IndexNode(DataBlock, k) \in Seq(GraphCell)
    BY <2>4, PayloadTypes DEF UpdatedIndexNode
  <2>6. HoldsPlace(a.block, ix, j)
    BY <1>3, <2>2, <2>3, <2>5 DEF HoldsPlace
  <2>7. Offset(iy, j) + 4 <= Len(f)
    BY <1>3, <2>2, PlaceEnd
  <2> QED
    BY <2>1, <2>6, <2>7
<1>6. CASE Len(iz) = Len(iy)
  <2>1. \A j \in Entries(iz) : j \in Entries(iy)
    BY <1>6, EntriesAsBefore
  <2>2. PlacesIn(a.block, ix)
    BY <1>3, <1>5, <2>1 DEF PlacesIn
  <2>3. Apart(a.block)
    BY <1>3, <1>5, <2>1 DEF Apart
  <2> QED
    BY <2>2, <2>3
<1>7. ASSUME HoldsRecord(g, Len(f), p), NEW n \in Nat, Offset(iz, n) = Len(f), AddsEntry(iy, iz, n)
      PROVE  PlacesIn(a.block, ix) /\ Apart(a.block)
  <2>1. HoldsPlace(a.block, ix, n)
    <3> QED
      BY <1>1, <1>3, <1>7 DEF HoldsPlace
  <2>2. PlacesIn(a.block, ix)
    BY <1>3, <1>5, <1>7, <2>1 DEF PlacesIn, AddsEntry
  <2>3. Apart(a.block)
    <3> SUFFICES ASSUME NEW i \in Entries(iz), NEW j \in Entries(iz), i < j
                 PROVE  Offset(iz, i) + 4 <= Offset(iz, j)
      BY <1>3 DEF Apart
    <3>1. i # n
      <4>1. i \in Nat /\ j \in Nat /\ (j # n => j < n)
        BY <1>7, EntryFacts DEF AddsEntry
      <4> QED
        BY <4>1
    <3>2. i \in Entries(iy)
      BY <1>7, <3>1 DEF AddsEntry
    <3>3. CASE j = n
      BY <1>5, <1>7, <3>2, <3>3
    <3>4. CASE j # n
      <4>1. j \in Entries(iy)
        BY <1>7, <3>4 DEF AddsEntry
      <4> QED
        BY <1>3, <1>5, <3>2, <4>1 DEF Apart
    <3> QED
      BY <3>3, <3>4
  <2> QED
    BY <2>2, <2>3
<1> QED
  BY <1>4, <1>6, <1>7

\* The write of a node that neither goes astray nor cuts off entries: the data
\* block before the append keeps the entries and records it had.
WriteReady(made, h, node, a) ==
  /\ a \in Appends(made, h, node)
  /\ Len(made.index) >= HEADER_SIZE /\ GoodIndex(made.index) /\ NodesIn(made)
  /\ Extends(Index(DataBlock), made.index) /\ made.data = Data(DataBlock)
  /\ made.exists /\ h.open
  /\ EntryAt(h.header[COUNT]) <= Len(made.index) /\ Len(a.block.index) >= Len(made.index) /\ ~a.torn

LEMMA WriteClean ==
  ASSUME TypeInv, Addressed, NEW c \in Conns, NEW id \in Blocks, NEW node \in Nodes, NEW then,
         WriteNode(c, id, node, then), spoiled' \subseteq {"reset", "updated"}
  PROVE  \E made \in Block, h \in Handle : \E a \in Appends(made, h, node) :
           /\ WriteStep(c, id, node, then, DataBlock, made, h, a)
           /\ WriteReady(made, h, node, a)
<1>1. PICK bid \in Blocks, made \in Block, h \in Handle :
        /\ Len(made.index) >= HEADER_SIZE /\ made.exists = (block[bid].exists \/ ~conn[c].data.open)
        /\ h.open
        /\ \E a \in Appends(made, h, node) : WriteStep(c, id, node, then, bid, made, h, a)
  BY WriteNodeEffect
<1>2. PICK a \in Appends(made, h, node) : WriteStep(c, id, node, then, bid, made, h, a)
  BY <1>1
<1>3. bid = DataBlock /\ Damage(block[bid], a) = {} /\ ~a.torn
  <2>1. (IF bid = IndexBlock THEN {"misdirected"} ELSE {}) \subseteq {"reset", "updated"}
        /\ Damage(block[bid], a) \subseteq {"reset", "updated"}
    BY <1>2 DEF WriteStep
  <2>2. bid # IndexBlock
    BY <2>1
  <2>3. Damage(block[bid], a) = {} /\ ~a.torn
    BY <2>1 DEF Damage
  <2> QED
    BY <2>2, <2>3 DEF Blocks
<1>4. WriteStep(c, id, node, then, DataBlock, made, h, a)
  BY <1>2, <1>3
<1>5. node \in Seq(GraphCell) /\ a.block \in Block
  <2>1. node \in Seq(GraphCell)
    BY PayloadTypes
  <2> QED
    BY <1>1, <2>1, AppendsEffect
<1>6. PICK ix \in Seq(Nat), iy \in Seq(Nat), iz \in Seq(Nat) :
        ix = Index(DataBlock) /\ iy = made.index /\ iz = a.block.index
  BY <1>5, Types DEF Block
<1>7. Len(iz) >= Len(ix)
  <2>1. ~(Len(a.block.index) < Len(block[bid].index))
    BY <1>3 DEF Damage
  <2> QED
    BY <1>3, <1>6, <2>1 DEF Index
<1>8. GoodIndex(ix) /\ NodesIn(block[DataBlock])
  BY <1>6, Types DEF Addressed
<1>9. CASE conn[c].data.open
  <2>1. made = block[DataBlock] /\ h = conn[c].data
    BY <1>4, <1>9 DEF WriteStep
  <2>2. made.data = Data(DataBlock) /\ iy = ix /\ GoodIndex(iy) /\ NodesIn(made)
    BY <1>6, <1>8, <2>1 DEF Index, Data
  <2>3. Extends(ix, iy)
    BY <2>2 DEF Extends
  <2>4. EntryAt(h.header[COUNT]) <= Len(iy)
    BY <1>6, <1>9, <2>1, <2>2 DEF Addressed, HandlesWithin
  <2>5. made.exists
    <3>1. Index(DataBlock) # <<>>
      BY <1>1, <1>6, <2>2 DEF HEADER_SIZE
    <3> QED
      BY <2>1, <3>1 DEF TypeInv, Files
  <2> QED
    BY <1>1, <1>4, <1>3, <1>6, <1>7, <2>2, <2>3, <2>4, <2>5 DEF WriteReady
<1>10. CASE ~conn[c].data.open
  <2>1. made = CreatedOver(block[DataBlock]) /\ h = Opened(made)
    BY <1>4, <1>10 DEF WriteStep
  <2>2. /\ made.exists /\ made.data = Data(DataBlock)
        /\ Len(iy) = IF Len(ix) < 5 THEN 5 ELSE Len(ix)
        /\ iy[COUNT] = 0 /\ Extends(ix, iy)
    <3>1. PICK b \in Block : b = block[DataBlock]
      BY Types
    <3>2. /\ CreatedOver(b).exists /\ CreatedOver(b).data = b.data
          /\ Len(CreatedOver(b).index) = IF Len(b.index) < 5 THEN 5 ELSE Len(b.index)
          /\ CreatedOver(b).index[COUNT] = 0 /\ Extends(b.index, CreatedOver(b).index)
      BY CreatedEffect
    <3> QED
      BY <1>6, <2>1, <3>1, <3>2 DEF Index, Data
  <2>3. h.header[COUNT] = 0
    BY <1>1, <1>6, <2>1, <2>2, OpenedEffect
  <2>4. EntryAt(0) = 5
    BY DEF EntryAt, HEADER_SIZE, ENTRY_SIZE
  <2>5. Len(ix) = 0 \/ Len(ix) >= 5
    <3>1. Index(DataBlock) # <<>> => Len(Index(DataBlock)) >= 5
      BY Types DEF TypeInv, Files, HEADER_SIZE
    <3> QED
      BY <1>6, <3>1
  <2>6. Len(iy) = Len(ix) \/ (Len(ix) = 0 /\ Len(iy) = 5)
    BY <2>2, <2>5
  <2>7. GoodIndex(iy)
    <3>1. CASE Len(ix) = 0
      BY <2>2, <2>4, <2>6, <3>1 DEF GoodIndex
    <3>2. CASE Len(ix) # 0
      <4>1. ix # <<>> /\ Len(iy) = Len(ix) /\ Len(iy) >= 5
        BY <2>5, <2>6, <3>2
      <4>2. PICK n \in 0 .. Len(ix) : Len(ix) = EntryAt(n)
        BY <1>8, <4>1 DEF GoodIndex
      <4> QED
        BY <2>2, <2>4, <4>1, <4>2 DEF GoodIndex
    <3> QED
      BY <3>1, <3>2
  <2>8. NodesIn(made)
    <3>1. ASSUME NEW j \in Entries(iy) PROVE j \in Entries(ix) /\ Offset(iy, j) = Offset(ix, j)
      <4>1. Len(iy) = Len(ix) \/ Len(iy) <= 5
        <5>1. PICK k \in Nat, l \in Nat : k = Len(ix) /\ l = Len(iy)
          OBVIOUS
        <5>2. l = k \/ l = 5
          BY <2>6, <5>1
        <5>3. l = k \/ l <= 5
          BY <5>2
        <5> QED
          BY <5>1, <5>3, Zenon
      <4>2. j \in Entries(ix)
        BY <4>1, EntriesAsBefore
      <4> QED
        BY <2>2, <4>2, EntriesKept
    <3> QED
      BY <1>6, <1>8, <2>2, <3>1 DEF NodesIn, Index, Data
  <2>9. EntryAt(h.header[COUNT]) <= Len(iy) /\ Len(iz) >= Len(iy)
    <3>1. Len(iz) >= 5
      <4>1. Len(a.block.index) >= HEADER_SIZE
        BY <1>1, <1>5, AppendsEffect
      <4> QED
        BY <1>6, <4>1 DEF HEADER_SIZE
    <3>2. Len(iy) >= 5 /\ Len(iz) >= Len(iy)
      <4>1. PICK k \in Nat, l \in Nat, m \in Nat : k = Len(ix) /\ l = Len(iy) /\ m = Len(iz)
        OBVIOUS
      <4>2. m >= k /\ m >= 5 /\ (k = 0 \/ k >= 5) /\ (l = IF k < 5 THEN 5 ELSE k)
        BY <1>7, <2>2, <2>5, <3>1, <4>1
      <4> QED
        BY <4>1, <4>2
    <3> QED
      BY <2>3, <2>4, <3>2
  <2> QED
    BY <1>1, <1>3, <1>4, <1>6, <2>2, <2>7, <2>8, <2>9 DEF WriteReady
<1> QED
  BY <1>9, <1>10

\* What an entry leads to stays there while the data block only grows.
LEMMA PlacesKept ==
  ASSUME NEW b \in Block, NEW ix \in Seq(Nat), NEW iy \in Seq(Nat), Extends(ix, iy), PlacesIn(b, ix)
  PROVE  PlacesIn(b, iy)
<1>1. \A r \in Entries(ix) : r \in Entries(iy)
  BY EntriesKept
<1> QED
  BY <1>1 DEF PlacesIn, HoldsPlace

\* An index file of a header alone.
LEMMA HeaderAlone ==
  ASSUME NEW ix \in Seq(Nat), Len(ix) = 5, ix[COUNT] = 0
  PROVE  GoodIndex(ix) /\ Entries(ix) = {}
<1>1. EntryAt(0) = 5
  BY DEF EntryAt, HEADER_SIZE, ENTRY_SIZE
<1>2. \A j : j \notin Entries(ix)
  <2>1. \A j \in Nat : ~(7 + 2 * j <= Len(ix))
    OBVIOUS
  <2> QED
    BY <2>1, EntryFacts
<1>3. GoodIndex(ix)
  BY <1>1 DEF GoodIndex
<1> QED
  BY <1>2, <1>3

LEMMA AddressedCreates ==
  ASSUME TypeInv, Addressed, Create, spoiled' \subseteq {"reset", "updated"}
  PROVE  Addressed'
<1>1. PICK b \in Block : b = block[IndexBlock]
  BY Types
<1>2. PICK m : m = CreatedOver(b)
  OBVIOUS
<1>3. /\ m \in Block /\ m.exists /\ Len(m.index) = IF Len(b.index) < 5 THEN 5 ELSE Len(b.index)
      /\ m.index[COUNT] = 0
  BY <1>2, CreatedEffect
<1>4. Len(b.index) <= 5
  <2>1. (IF Len(b.index) > HEADER_SIZE THEN {"recreated"} ELSE {}) \subseteq {"reset", "updated"}
    BY <1>1 DEF Create
  <2>2. ~(Len(b.index) > HEADER_SIZE)
    BY <2>1
  <2>3. Len(b.index) \in Nat
    BY DEF Block
  <2> QED
    BY <2>2, <2>3 DEF HEADER_SIZE
<1>5. PICK ix \in Seq(Nat) : ix = m.index
  BY <1>3 DEF Block
<1>6. Len(ix) = 5 /\ ix[COUNT] = 0 /\ Len(b.index) <= Len(ix)
  <2>1. PICK n \in Nat, l \in Nat : n = Len(b.index) /\ l = Len(ix)
    BY DEF Block
  <2>2. n <= 5 /\ (l = IF n < 5 THEN 5 ELSE n) /\ ix[COUNT] = 0
    BY <1>3, <1>4, <1>5, <2>1
  <2>3. l = 5
    BY <2>2
  <2> QED
    BY <2>1, <2>2, <2>3
<1>7. GoodIndex(ix) /\ Entries(ix) = {}
  BY <1>6, HeaderAlone
<1>8. /\ block' = [block EXCEPT ![IndexBlock] = m] /\ UNCHANGED <<conn, op>>
      /\ block'[IndexBlock] = m /\ block'[DataBlock] = block[DataBlock]
  BY <1>1, <1>2, Types DEF Create, TypeInv
<1>9. \A b1 \in Blocks : GoodIndex(block'[b1].index)
  BY <1>5, <1>7, <1>8 DEF Addressed, Index, Blocks
<1>10. HandlesWithin'
  <2>1. ASSUME NEW c \in Conns
        PROVE  /\ conn[c].data_id = DataBlock
               /\ conn[c].data.open => EntryAt(conn[c].data.header[COUNT]) <= Len(block'[DataBlock].index)
               /\ conn[c].index.open => /\ block'[IndexBlock].exists
                                        /\ EntryAt(conn[c].index.header[COUNT]) <= Len(block'[IndexBlock].index)
    <3>1. PICK n \in Nat : n = EntryAt(conn[c].index.header[COUNT])
      BY HandleCount, EntryWords, Types
    <3>2. conn[c].index.open => n <= Len(b.index)
      BY <1>1, <3>1 DEF Addressed, HandlesWithin, Index
    <3>3. conn[c].index.open => n <= Len(ix)
      <4>1. Len(b.index) \in Nat /\ Len(ix) \in Nat
        BY DEF Block
      <4> QED
        BY <1>6, <3>2, <4>1
    <3> QED
      BY <1>3, <1>5, <1>8, <3>1, <3>3 DEF Addressed, HandlesWithin, Index
  <2> QED
    BY <1>8, <2>1 DEF HandlesWithin, Index
<1>11. NodesIn(block'[DataBlock])
  BY <1>8 DEF Addressed
<1>12. PlacesIn(m, block'[DataBlock].index) /\ Apart(m)
  BY <1>5, <1>7 DEF PlacesIn, Apart
<1> QED
  BY <1>8, <1>9, <1>10, <1>11, <1>12 DEF Addressed, Index

LEMMA AddressedDestroys ==
  ASSUME TypeInv, Addressed, Destroy
  PROVE  Addressed'
<1>1. UNCHANGED <<conn, op>> /\ \A c \in Conns : ~conn[c].open
  BY DEF Destroy
<1>2. /\ block'[DataBlock] = block[DataBlock]
      /\ block'[IndexBlock].index = Index(IndexBlock) /\ block'[IndexBlock].exists = FALSE
  BY DestroyEffect
<1>3. \A b \in Blocks : block'[b].index = Index(b)
  BY <1>2 DEF Index, Blocks
<1>4. HandlesWithin'
  BY <1>1, <1>3, Types DEF Addressed, HandlesWithin, Index, TypeInv, Handles
<1> QED
  BY <1>1, <1>2, <1>3, <1>4, Types DEF Addressed, Index

LEMMA AddressedDies ==
  ASSUME TypeInv, Addressed, Dies
  PROVE  Addressed'
<1>1. HandlesWithin'
  BY AllClosedType, ClosedType DEF Dies, HandlesWithin, Closed
<1>2. op'.pc = "idle"
  BY DEF Dies, Idle
<1> QED
  BY <1>1, <1>2 DEF Dies, Addressed, Index

LEMMA AddressedOpens ==
  ASSUME TypeInv, Addressed, NEW c \in Conns, Open(c) \/ Close(c)
  PROVE  Addressed'
<1>1. UNCHANGED <<block, op>> /\ op.pc = "idle"
  BY DEF Open, Close
<1>2. PICK k \in Conn :
        /\ conn' = [conn EXCEPT ![c] = k] /\ ~k.data.open /\ k.data_id = DataBlock
        /\ k.index.open => /\ block[IndexBlock].exists
                           /\ EntryAt(k.index.header[COUNT]) <= Len(Index(IndexBlock))
  <2>1. CASE Close(c)
    BY <2>1, ClosedType DEF Close, Closed
  <2>2. CASE Open(c)
    <3>1. PICK b \in Block : b = block[IndexBlock]
      BY Types
    <3>2. PICK h \in Handle : h = Opened(b)
      BY OpenedEffect
    <3>3. h.open => b.exists /\ Len(b.index) >= HEADER_SIZE /\ h.header[COUNT] = b.index[COUNT]
      BY <3>2, OpenedEffect
    <3>4. h.open => EntryAt(h.header[COUNT]) <= Len(b.index)
      <4>1. Len(b.index) >= HEADER_SIZE => b.index # <<>>
        BY DEF HEADER_SIZE, Block
      <4>2. GoodIndex(b.index)
        BY <3>1, Types DEF Addressed, Index
      <4> QED
        BY <3>3, <4>1, <4>2 DEF GoodIndex
    <3>5. PICK k : k = [Closed EXCEPT !.open = TRUE, !.index = h]
      OBVIOUS
    <3>6. k \in Conn /\ ~k.data.open /\ k.index = h /\ k.data_id = DataBlock
      <4>1. k.data_id = DataBlock
        BY <3>5 DEF Closed
      <4> QED
        BY <3>5, <4>1, ClosedType DEF Conn
    <3> QED
      BY <2>2, <3>1, <3>2, <3>3, <3>4, <3>5, <3>6 DEF Open, Index
  <2> QED
    BY <2>1, <2>2
<1>3. conn'[c] = k /\ \A d \in Conns : d # c => conn'[d] = conn[d]
  BY <1>2 DEF TypeInv
<1>4. HandlesWithin'
  BY <1>1, <1>2, <1>3 DEF Addressed, HandlesWithin, Index
<1> QED
  BY <1>1, <1>4 DEF Addressed, Index

LEMMA ExtendsTwice ==
  ASSUME NEW ix \in Seq(Nat), NEW iy \in Seq(Nat), NEW iz \in Seq(Nat), Extends(ix, iy), Extends(iy, iz)
  PROVE  Extends(ix, iz)
<1>1. Len(ix) <= Len(iz) /\ \A i \in 6 .. Len(ix) : i \in 6 .. Len(iy)
  BY DEF Extends
<1> QED
  BY <1>1 DEF Extends

\* The id an append gives is that of an entry, which need not be the entry the
\* append has written (sea_block_append on a handle that is behind).
LEMMA IdHasEntry ==
  ASSUME NEW ix \in Seq(Nat), NEW iy \in Seq(Nat), NEW n \in Nat, EntryAt(n) <= Len(ix), Len(iy) = Len(ix) + 2
  PROVE  n \in Entries(iy)
<1>1. EntryAt(n) = 5 + 2 * n
  BY EntryWords
<1>2. 7 + 2 * n <= Len(iy)
  BY <1>1
<1> QED
  BY <1>2, EntryFacts

LEMMA AddressedWrites ==
  ASSUME TypeInv, Addressed, NEW c \in Conns, NEW id \in Blocks, NEW node \in Nodes,
         NEW then \in Call, then.conn = c, then.pc = "update" => conn[c].index.open,
         WriteNode(c, id, node, then), spoiled' \subseteq {"reset", "updated"}
  PROVE  Addressed'
<1>1. PICK made \in Block, h \in Handle : \E a \in Appends(made, h, node) :
        /\ WriteStep(c, id, node, then, DataBlock, made, h, a)
        /\ WriteReady(made, h, node, a)
  BY WriteClean
<1>2. PICK a \in Appends(made, h, node) :
        /\ WriteStep(c, id, node, then, DataBlock, made, h, a)
        /\ WriteReady(made, h, node, a)
  BY <1>1
<1>3. node \in Seq(GraphCell)
  BY PayloadTypes
<1>4. /\ Len(made.index) >= HEADER_SIZE /\ GoodIndex(made.index) /\ NodesIn(made)
      /\ Extends(Index(DataBlock), made.index) /\ made.data = Data(DataBlock)
      /\ made.exists /\ h.open
      /\ EntryAt(h.header[COUNT]) <= Len(made.index) /\ Len(a.block.index) >= Len(made.index) /\ ~a.torn
  BY <1>2 DEF WriteReady
<1>5. /\ a.block \in Block /\ a.block.exists = made.exists /\ Len(a.block.index) >= HEADER_SIZE
      /\ a.handle \in Handle /\ a.ok \in BOOLEAN /\ a.dies \in BOOLEAN /\ a.id \in Nat /\ (a.ok => ~a.dies)
  BY <1>3, <1>4, AppendsEffect
<1>6. PICK ix \in Seq(Nat), iy \in Seq(Nat), iz \in Seq(Nat) :
        ix = Index(DataBlock) /\ iy = made.index /\ iz = a.block.index
  BY <1>5, Types DEF Block
<1>7. /\ block' \in [Blocks -> Block] /\ block'[DataBlock] = a.block
      /\ block'[IndexBlock] = block[IndexBlock]
  <2>1. block' = [block EXCEPT ![DataBlock] = a.block]
    BY <1>2 DEF WriteStep
  <2> QED
    BY <1>4, <1>5, <2>1, BlockWritten, Types
<1>8. ASSUME ~a.dies
      PROVE
      /\ conn'[c].data = a.handle /\ conn'[c].data_id = DataBlock /\ conn'[c].index = conn[c].index
      /\ \A d \in Conns : d # c => conn'[d] = conn[d]
  <2>1. SetsData(c, a.handle, DataBlock)
    BY <1>2, <1>8 DEF WriteStep, SetsData
  <2> QED
    BY <1>5, <2>1, DataHandleSet, Types
<1>9. /\ Extends(iy, iz) /\ GoodIndex(iz) /\ EntryAt(a.handle.header[COUNT]) <= Len(iz)
      /\ Appended(made, h, node, a) \/ ~a.ok
  <2>1. Orphaned(made, h, node, a) => ~a.ok
    BY DEF Orphaned
  <2> QED
    BY <1>3, <1>4, <1>6, <2>1, AppendsEntries
<1>10. Extends(ix, iz)
  BY <1>4, <1>6, <1>9, ExtendsTwice
<1>11. NodesIn(a.block)
  BY <1>4, NodesAppended
<1>12. block[IndexBlock].exists => PlacesIn(block[IndexBlock], iz) /\ Apart(block[IndexBlock])
  <2>1. PICK b \in Block : b = block[IndexBlock]
    BY Types
  <2>2. b.exists => PlacesIn(b, ix) /\ Apart(b)
    BY <1>6, <2>1 DEF Addressed
  <2> QED
    BY <1>10, <2>1, <2>2, PlacesKept
<1>13. HandlesWithin'
  <2>1. ASSUME ~a.dies, NEW d \in Conns
        PROVE  /\ conn'[d].data_id = DataBlock
               /\ conn'[d].data.open => EntryAt(conn'[d].data.header[COUNT]) <= Len(block'[DataBlock].index)
               /\ conn'[d].index.open => /\ block'[IndexBlock].exists
                                         /\ EntryAt(conn'[d].index.header[COUNT]) <= Len(block'[IndexBlock].index)
    <3>1. CASE d = c
      BY <1>6, <1>7, <1>8, <1>9, <2>1, <3>1 DEF Addressed, HandlesWithin, Index
    <3>2. CASE d # c
      <4>1. PICK n \in Nat : n = EntryAt(conn[d].data.header[COUNT])
        BY HandleCount, EntryWords, Types
      <4>2. conn[d].data.open => n <= Len(ix)
        BY <1>6, <4>1 DEF Addressed, HandlesWithin
      <4>3. conn[d].data.open => n <= Len(iz)
        BY <1>10, <4>2 DEF Extends
      <4> QED
        BY <1>6, <1>7, <1>8, <2>1, <3>2, <4>1, <4>3 DEF Addressed, HandlesWithin, Index
    <3> QED
      BY <3>1, <3>2
  <2>2. ASSUME a.dies PROVE HandlesWithin'
    <3>1. conn' = AllClosed
      BY <1>2, <2>2 DEF WriteStep
    <3> QED
      BY <3>1, AllClosedType, ClosedType DEF HandlesWithin, Closed
  <2> QED
    BY <1>5, <2>1, <2>2 DEF HandlesWithin, Index
<1>14. op'.pc = "insert" => op'.record \in Entries(iz)
  <2>1. op' = IF a.ok THEN [then EXCEPT !.record = a.id] ELSE Idle
    BY <1>2 DEF WriteStep
  <2>2. CASE ~a.ok
    BY <2>1, <2>2 DEF Idle
  <2>3. CASE a.ok
    <3>1. PICK n \in Nat : n = h.header[COUNT]
      BY HandleCount
    <3>2. Appended(made, h, node, a)
      BY <1>9, <2>3
    <3>3. a.id = n /\ Len(iz) = Len(iy) + 2 /\ EntryAt(n) <= Len(iy)
      BY <1>4, <1>6, <3>1, <3>2 DEF Appended, Recorded
    <3>4. n \in Entries(iz)
      BY <3>3, IdHasEntry
    <3>5. op'.record = a.id
      BY <2>1, <2>3 DEF Call
    <3> QED
      BY <3>3, <3>4, <3>5
  <2> QED
    BY <2>2, <2>3
<1>15. op'.pc = "update" => conn'[op'.conn].index.open
  <2>1. op' = IF a.ok THEN [then EXCEPT !.record = a.id] ELSE Idle
    BY <1>2 DEF WriteStep
  <2>2. op' # Idle => op'.pc = then.pc /\ op'.conn = c
    BY <2>1 DEF Call
  <2> QED
    BY <1>5, <1>8, <2>1, <2>2 DEF Idle
<1>16. \A b \in Blocks : GoodIndex(block'[b].index)
  BY <1>6, <1>7, <1>9 DEF Addressed, Index, Blocks
<1> QED
  BY <1>6, <1>7, <1>11, <1>12, <1>13, <1>14, <1>15, <1>16 DEF Addressed, Index

LEMMA AddressedInsertsIndex ==
  ASSUME TypeInv, Addressed, InsertIndex, spoiled' \subseteq {"reset", "updated"}
  PROVE  Addressed'
<1>1. op \in Call /\ op.pc = "insert" /\ op' = Idle
  BY InsertIndexEffect
<1>2. op'.pc = "idle"
  BY <1>1 DEF Idle
<1>3. CASE UNCHANGED <<block, conn, placed, spoiled>>
  BY <1>2, <1>3 DEF Addressed, HandlesWithin, Index
<1>4. ASSUME NEW a \in Appends(block[IndexBlock], conn[op.conn].index, IndexNode(DataBlock, op.record)),
             conn[op.conn].index.open,
             block' = [block EXCEPT ![IndexBlock] = a.block],
             conn' = IF a.dies THEN AllClosed ELSE [conn EXCEPT ![op.conn].index = a.handle],
             spoiled' = spoiled \cup Damage(block[IndexBlock], a)
      PROVE  Addressed'
  <2>1. PICK c \in Conns : c = op.conn
    BY <1>1, CallTypes
  <2>2. PICK b \in Block, h \in Handle : b = block[IndexBlock] /\ h = conn[c].index
    BY Types
  <2>3. PICK ix \in Seq(Nat) : ix = Index(DataBlock)
    BY Types
  <2>4. PICK r \in Entries(ix) : r = op.record
    BY <1>1, <2>3 DEF Addressed
  <2>5. PICK p \in Seq(GraphCell) : p = IndexNode(DataBlock, r)
    BY PayloadTypes, EntryFacts, Types
  <2>6. a \in Appends(b, h, p) /\ a \in Appends(b, h, IndexNode(DataBlock, r))
    BY <2>1, <2>2, <2>4, <2>5
  <2>7. b.exists /\ h.open /\ EntryAt(h.header[COUNT]) <= Len(b.index)
    BY <1>4, <2>1, <2>2 DEF Addressed, HandlesWithin, Index
  <2>8. Len(b.index) >= HEADER_SIZE
    BY <2>2, <2>7, Types DEF TypeInv, Files, Index
  <2>9. /\ a.block \in Block /\ a.block.exists = b.exists /\ Len(a.block.index) >= HEADER_SIZE
        /\ a.handle \in Handle /\ a.dies \in BOOLEAN
    BY <2>6, <2>8, AppendsEffect
  <2>10. Len(a.block.index) >= Len(b.index) /\ ~a.torn
    <3>1. Damage(b, a) \subseteq {"reset", "updated"}
      BY <1>4, <2>2
    <3>2. ~(Len(a.block.index) < Len(b.index)) /\ ~a.torn
      BY <3>1 DEF Damage
    <3>3. Len(a.block.index) \in Nat /\ Len(b.index) \in Nat
      BY <2>9 DEF Block
    <3> QED
      BY <3>2, <3>3
  <2>11. GoodIndex(b.index) /\ PlacesIn(b, ix) /\ Apart(b)
    BY <2>2, <2>3, <2>7, Types DEF Addressed, Index
  <2>12. PICK iy \in Seq(Nat), iz \in Seq(Nat) : iy = b.index /\ iz = a.block.index
    BY <2>9 DEF Block
  <2>13. Extends(iy, iz) /\ GoodIndex(iz) /\ EntryAt(a.handle.header[COUNT]) <= Len(iz)
    BY <2>6, <2>7, <2>8, <2>10, <2>11, <2>12, AppendsEntries
  <2>14. PlacesIn(a.block, ix) /\ Apart(a.block)
    BY <2>6, <2>7, <2>8, <2>10, <2>11, PlacesAppended
  <2>15. block'[IndexBlock] = a.block /\ block'[DataBlock] = block[DataBlock]
    BY <1>4, <2>9, BlockWritten, Types
  <2>16. ASSUME ~a.dies
         PROVE
         /\ conn'[c].index = a.handle
         /\ conn'[c].data = conn[c].data /\ conn'[c].data_id = conn[c].data_id
         /\ \A d \in Conns : d # c => conn'[d] = conn[d]
    <3>1. SetsIndex(c, a.handle)
      BY <1>4, <2>1, <2>16 DEF SetsIndex
    <3> QED
      BY <2>9, <3>1, IndexHandleSet
  <2>17. HandlesWithin'
    <3>1. ASSUME ~a.dies, NEW d \in Conns
          PROVE  /\ conn'[d].data_id = DataBlock
                 /\ conn'[d].data.open => EntryAt(conn'[d].data.header[COUNT]) <= Len(block'[DataBlock].index)
                 /\ conn'[d].index.open => /\ block'[IndexBlock].exists
                                           /\ EntryAt(conn'[d].index.header[COUNT]) <= Len(block'[IndexBlock].index)
      <4>1. CASE d = c
        BY <2>7, <2>9, <2>12, <2>13, <2>15, <2>16, <3>1, <4>1 DEF Addressed, HandlesWithin, Index
      <4>2. CASE d # c
        <5>1. PICK n \in Nat : n = EntryAt(conn[d].index.header[COUNT])
          BY HandleCount, EntryWords, Types
        <5>2. conn[d].index.open => n <= Len(iy)
          BY <2>2, <2>12, <5>1 DEF Addressed, HandlesWithin, Index
        <5>3. conn[d].index.open => n <= Len(iz)
          BY <2>13, <5>2 DEF Extends
        <5> QED
          BY <2>7, <2>9, <2>12, <2>15, <2>16, <3>1, <4>2, <5>1, <5>3 DEF Addressed, HandlesWithin, Index
      <4> QED
        BY <4>1, <4>2
    <3>2. ASSUME a.dies PROVE HandlesWithin'
      BY <1>4, <3>2, AllClosedType, ClosedType DEF HandlesWithin, Closed
    <3> QED
      BY <2>9, <3>1, <3>2 DEF HandlesWithin, Index
  <2>18. \A b1 \in Blocks : GoodIndex(block'[b1].index)
    BY <2>12, <2>13, <2>15 DEF Addressed, Index, Blocks
  <2> QED
    BY <1>2, <2>3, <2>14, <2>15, <2>17, <2>18 DEF Addressed, Index
<1> QED
  BY <1>3, <1>4, InsertIndexEffect

\* A write within the file.
LEMMA GraphWrite ==
  ASSUME NEW f \in Seq(GraphCell), NEW pos \in Nat, NEW w \in Seq(GraphCell), NEW z \in GraphCell,
         pos + Len(w) <= Len(f)
  PROVE  /\ Len(WriteAt(f, pos, w, z)) = Len(f)
         /\ \A i \in 1 .. Len(w) : WriteAt(f, pos, w, z)[pos + i] = w[i]
         /\ \A i \in 1 .. Len(f) : i <= pos \/ i > pos + Len(w) => WriteAt(f, pos, w, z)[i] = f[i]
<1>1. PICK l \in Nat, m \in Nat : l = Len(f) /\ m = Len(w) /\ pos + m <= l
  OBVIOUS
<1>2. PICK g : g = WriteAt(f, pos, w, z)
  OBVIOUS
<1>3. g = [i \in 1 .. l |-> IF i \in pos + 1 .. pos + m THEN w[i - pos]
                           ELSE IF i \in 1 .. l THEN f[i] ELSE z]
  <2>1. (IF pos + m > l THEN pos + m ELSE l) = l
    BY <1>1
  <2> QED
    BY <1>1, <1>2, <2>1 DEF WriteAt
<1>4. Len(g) = l
  BY <1>3
<1>5. ASSUME NEW i \in 1 .. m PROVE g[pos + i] = w[i]
  <2>1. pos + i \in 1 .. l /\ pos + i \in pos + 1 .. pos + m /\ (pos + i) - pos = i
    BY <1>1
  <2> QED
    BY <1>3, <2>1
<1>6. ASSUME NEW i \in 1 .. l, i <= pos \/ i > pos + m PROVE g[i] = f[i]
  <2>1. i \notin pos + 1 .. pos + m
    BY <1>6
  <2> QED
    BY <1>3, <2>1
<1> QED
  BY <1>1, <1>2, <1>4, <1>5, <1>6

\* A record rewritten in place by one as long leaves the records that do not
\* overlap it.
LEMMA PlacesRewritten ==
  ASSUME NEW b \in Block, NEW ix \in Seq(Nat), PlacesIn(b, ix), Apart(b), NEW id \in Entries(b.index),
         NEW k \in Block, k.index = b.index,
         k.data = WriteAt(b.data, Offset(b.index, id), Record(UpdatedIndexNode(id)), HoleCell)
  PROVE  PlacesIn(k, ix) /\ Apart(k)
<1>1. PICK iy \in Seq(Nat), f \in Seq(GraphCell), g \in Seq(GraphCell) : iy = b.index /\ f = b.data /\ g = k.data
  BY DEF Block
<1>2. PICK off \in Nat : off = Offset(iy, id)
  BY <1>1, EntryFacts
<1>3. off + 4 <= Len(f)
  BY <1>1, <1>2, PlaceEnd DEF PlacesIn
<1>4. id \in Nat /\ (\A j \in Entries(iy) : j \in Nat) /\ (\A j \in Entries(ix) : j \in Nat)
  BY <1>1, EntryFacts
<1>5. IndexBlock \in Blocks /\ DataBlock \in Blocks
  BY DEF Blocks
<1>6. PICK w \in Seq(GraphCell) : w = Record(UpdatedIndexNode(id)) /\ Len(w) = 4
  <2>1. UpdatedIndexNode(id) \in Seq(GraphCell) /\ Len(UpdatedIndexNode(id)) = 2
    BY <1>4, <1>5, PayloadTypes DEF UpdatedIndexNode
  <2>2. /\ Record(UpdatedIndexNode(id)) \in Seq(GraphCell)
        /\ Len(Record(UpdatedIndexNode(id))) = Len(UpdatedIndexNode(id)) + 2
    BY <2>1, GraphRecord
  <2> QED
    BY <2>1, <2>2
<1>7. /\ Len(g) = Len(f) /\ \A i \in 1 .. 4 : g[off + i] = w[i]
      /\ \A i \in 1 .. Len(f) : i <= off \/ i > off + 4 => g[i] = f[i]
  <2>1. PICK z \in GraphCell : z = HoleCell
    BY HoleType DEF GraphCell
  <2>2. g = WriteAt(f, off, w, z)
    BY <1>1, <1>2, <1>6, <2>1
  <2>3. /\ Len(WriteAt(f, off, w, z)) = Len(f)
        /\ \A i \in 1 .. Len(w) : WriteAt(f, off, w, z)[off + i] = w[i]
        /\ \A i \in 1 .. Len(f) : i <= off \/ i > off + Len(w) => WriteAt(f, off, w, z)[i] = f[i]
    <3>1. off + Len(w) <= Len(f)
      BY <1>3, <1>6
    <3> QED
      BY <3>1, GraphWrite
  <2> QED
    BY <1>6, <2>2, <2>3
<1>8. HoldsRecord(g, off, UpdatedIndexNode(id))
  BY <1>3, <1>6, <1>7 DEF HoldsRecord
<1>9. ASSUME NEW j \in Entries(iy), j # id, NEW q \in Seq(GraphCell), Len(q) = 2, HoldsRecord(f, Offset(iy, j), q)
      PROVE  HoldsRecord(g, Offset(iy, j), q)
  <2>1. PICK o \in Nat : o = Offset(iy, j)
    BY EntryFacts
  <2>2. o + 4 <= off \/ off + 4 <= o
    <3>1. j < id \/ id < j
      BY <1>4, <1>9
    <3> QED
      BY <1>1, <1>2, <2>1, <3>1 DEF Apart
  <2>3. PICK v \in Seq(GraphCell) : v = Record(q) /\ Len(v) = 4
    <3>1. Record(q) \in Seq(GraphCell) /\ Len(Record(q)) = Len(q) + 2
      BY GraphRecord
    <3> QED
      BY <1>9, <3>1
  <2>4. o + 4 <= Len(f) /\ \A i \in 1 .. 4 : f[o + i] = v[i]
    BY <1>9, <2>1, <2>3 DEF HoldsRecord
  <2>5. ASSUME NEW i \in 1 .. 4 PROVE g[o + i] = v[i]
    <3>1. o + i \in 1 .. Len(f) /\ (o + i <= off \/ o + i > off + 4)
      <4>1. PICK l \in Nat : l = Len(f) /\ o + 4 <= l
        BY <2>4
      <4>2. PICK n \in Nat : n = off
        OBVIOUS
      <4>3. o + 4 <= n \/ n + 4 <= o
        BY <2>2, <4>2
      <4>4. o + i \in 1 .. l /\ (o + i <= n \/ o + i > n + 4)
        BY <4>1, <4>3
      <4> QED
        BY <4>1, <4>2, <4>4
    <3>2. g[o + i] = f[o + i]
      BY <1>7, <3>1
    <3> QED
      BY <2>4, <3>2
  <2> QED
    BY <1>7, <2>1, <2>3, <2>4, <2>5 DEF HoldsRecord
<1>10. ASSUME NEW j \in Entries(iy) PROVE HoldsPlace(k, ix, j)
  <2>1. CASE j = id
    BY <1>1, <1>2, <1>8, <2>1 DEF HoldsPlace
  <2>2. CASE j # id
    <3>1. HoldsPlace(b, ix, j)
      BY <1>1 DEF PlacesIn
    <3>2. UpdatedIndexNode(j) \in Seq(GraphCell) /\ Len(UpdatedIndexNode(j)) = 2
      BY <1>4, <1>5, PayloadTypes DEF UpdatedIndexNode
    <3>3. \A r \in Entries(ix) : IndexNode(DataBlock, r) \in Seq(GraphCell) /\ Len(IndexNode(DataBlock, r)) = 2
      BY <1>4, <1>5, PayloadTypes
    <3> QED
      BY <1>1, <1>9, <2>2, <3>1, <3>2, <3>3 DEF HoldsPlace
  <2> QED
    BY <2>1, <2>2
<1>11. PlacesIn(k, ix)
  BY <1>1, <1>10 DEF PlacesIn
<1>12. Apart(k)
  BY DEF Apart
<1> QED
  BY <1>11, <1>12

LEMMA AddressedUpdatesIndex ==
  ASSUME TypeInv, Addressed, UpdateIndex, spoiled' \subseteq {"reset", "updated"}
  PROVE  Addressed'
<1>1. op \in Call /\ op.pc = "update" /\ op' = Idle /\ UNCHANGED conn
  BY UpdateIndexEffect
<1>2. op'.pc = "idle"
  BY <1>1 DEF Idle
<1>3. CASE UNCHANGED <<block, placed, spoiled>>
  BY <1>1, <1>2, <1>3 DEF Addressed, HandlesWithin, Index
<1>4. PICK c \in Conns, id \in Nat : c = op.conn /\ id = op.id
  BY <1>1, CallTypes
<1>5. PICK iy \in Seq(Nat), h \in Handle : iy = Index(IndexBlock) /\ h = conn[c].index
  BY Types
<1>6. PICK list : list = IndexQueryByRecordId(h.header, iy, id)
  OBVIOUS
<1>7. ASSUME ~list.null,
             block' = [block EXCEPT ![IndexBlock].data =
                         WriteAt(@, UpdateOff(list), Record(UpdatedIndexNode(id)), HoleCell)]
      PROVE  Addressed'
  <2>1. block[IndexBlock].exists /\ EntryAt(h.header[COUNT]) <= Len(iy)
    BY <1>1, <1>4, <1>5 DEF Addressed, HandlesWithin
  <2>2. ~PastEnd(h.header, id)
    BY <1>6, <1>7 DEF IndexQueryByRecordId, NoList
  <2>3. id \in Entries(iy)
    <3>1. PICK n \in Nat : n = h.header[COUNT]
      BY HandleCount
    <3>2. EntryAt(n) = 5 + 2 * n
      BY EntryWords
    <3>3. EntryAt(n) <= Len(iy) /\ ~(n <= id)
      BY <2>1, <2>2, <3>1 DEF PastEnd
    <3>4. 7 + 2 * id <= Len(iy)
      BY <3>2, <3>3
    <3> QED
      BY <3>4, EntryFacts
  <2>4. list.offs # <<>> /\ list.offs[1] = Offset(iy, id)
    <3>1. EntryAt(id) + 2 <= Len(iy)
      BY <2>3, EntryFacts
    <3> QED
      BY <1>6, <2>2, <3>1, QueryFindsEntry
  <2>5. PICK off \in Nat : off = UpdateOff(list) /\ off = Offset(iy, id)
    BY <2>3, <2>4, EntryFacts DEF UpdateOff
  <2>6. /\ block' \in [Blocks -> Block] /\ block'[DataBlock] = block[DataBlock]
        /\ block'[IndexBlock].index = Index(IndexBlock)
        /\ block'[IndexBlock].exists = block[IndexBlock].exists
        /\ block'[IndexBlock].data =
             WriteAt(Data(IndexBlock), off, Record(UpdatedIndexNode(op.id)), HoleCell)
    <3>1. PICK w \in Seq(GraphCell) : w = Record(UpdatedIndexNode(op.id))
      BY <1>1, UpdateCells
    <3>2. block' = [block EXCEPT ![IndexBlock].data = WriteAt(@, off, w, HoleCell)]
      BY <1>4, <1>7, <2>5, <3>1
    <3> QED
      BY <1>1, <3>1, <3>2, UpdatedBlock
  <2>7. PICK b \in Block, k \in Block, ix \in Seq(Nat) :
          b = block[IndexBlock] /\ k = block'[IndexBlock] /\ ix = Index(DataBlock)
    BY <2>6, Types
  <2>8. PlacesIn(b, ix) /\ Apart(b)
    BY <2>1, <2>7 DEF Addressed
  <2>9. /\ id \in Entries(b.index) /\ k.index = b.index
        /\ k.data = WriteAt(b.data, Offset(b.index, id), Record(UpdatedIndexNode(id)), HoleCell)
    BY <1>4, <1>5, <2>3, <2>5, <2>6, <2>7 DEF Index, Data
  <2>10. PlacesIn(k, ix) /\ Apart(k)
    BY <2>8, <2>9, PlacesRewritten
  <2>11. \A b1 \in Blocks : block'[b1].index = Index(b1)
    BY <2>6 DEF Index, Blocks
  <2>12. HandlesWithin'
    BY <1>1, <2>6, <2>11, Types DEF Addressed, HandlesWithin, Index
  <2> QED
    BY <1>2, <2>6, <2>7, <2>10, <2>11, <2>12, Types DEF Addressed, Index
\* An update that is short is not among what the property bears.
<1>8. ASSUME NEW w, NEW record, spoiled' = spoiled \cup {"updated"} \cup (IF w = record THEN {} ELSE {"torn"})
      PROVE  w = record
  BY <1>8
<1> QED
  BY <1>1, <1>3, <1>4, <1>5, <1>6, <1>7, <1>8, UpdateIndexEffect

LEMMA AddressedStep ==
  ASSUME TypeInv, Addressed, [Next]_vars, spoiled' \subseteq {"reset", "updated"}
  PROVE  Addressed'
<1>1. CASE UNCHANGED vars
  BY <1>1 DEF vars, Addressed, HandlesWithin, Index
<1>2. ASSUME NEW c \in Conns, NEW n \in Nodes, InsertNode(c, n) PROVE Addressed'
  <2>1. PICK then : then = [pc |-> "insert", conn |-> c, node |-> n, id |-> 0, record |-> 0]
    OBVIOUS
  <2>2. then \in Call /\ then.conn = c /\ then.pc = "insert"
    BY <2>1 DEF Call
  <2>3. WriteNode(c, DataBlock, n, then)
    BY <1>2, <2>1 DEF InsertNode
  <2> QED
    BY <2>2, <2>3, AddressedWrites, Types
<1>3. ASSUME NEW c \in Conns, NEW n \in Nodes, NEW id \in DOMAIN placed, UpdateNode(c, id, n) PROVE Addressed'
  <2>1. PICK then : then = [pc |-> "update", conn |-> c, node |-> n, id |-> id, record |-> 0]
    OBVIOUS
  <2>2. then \in Call /\ then.conn = c
    BY <2>1 DEF Call, TypeInv
  <2>3. conn[c].index.open /\ WriteNode(c, IndexBlock, n, then)
    BY <1>3, <2>1 DEF UpdateNode
  <2> QED
    BY <2>2, <2>3, AddressedWrites, Types
<1>4. ASSUME NEW c \in Conns, NEW id, Find(c, id) \/ Remove(c, id) PROVE Addressed'
  BY <1>1, <1>4, AddressedDies DEF Find, Remove
<1>5. CASE Crash
  BY <1>5, AddressedDies DEF Crash
<1> QED
  BY <1>1, <1>2, <1>3, <1>4, <1>5, AddressedCreates, AddressedDestroys, AddressedOpens,
     AddressedInsertsIndex, AddressedUpdatesIndex DEF Next

LEMMA AddressedInit == Init => Addressed
<1> SUFFICES ASSUME Init PROVE Addressed
  OBVIOUS
<1>1. \A b \in Blocks : Index(b) = <<>> /\ block[b].exists = FALSE
  BY DEF Init, Index
<1>2. IndexBlock \in Blocks /\ DataBlock \in Blocks
  BY DEF Blocks
<1>3. PICK ix \in Seq(Nat) : ix = <<>>
  <2>1. <<>> \in Seq(Nat)
    OBVIOUS
  <2> QED
    BY <2>1
<1>4. Entries(ix) = {}
  <2>1. Len(ix) = 0
    BY <1>3
  <2>2. \A j \in Nat : ~(7 + 2 * j <= Len(ix))
    BY <2>1
  <2> QED
    BY <2>2, EntryFacts
<1>5. HandlesWithin
  BY ClosedType DEF Init, HandlesWithin, Closed
<1>6. NodesIn(block[DataBlock])
  BY <1>1, <1>2, <1>3, <1>4 DEF NodesIn, Index
<1>7. op.pc = "idle"
  BY DEF Init, Idle
<1> QED
  BY <1>1, <1>2, <1>5, <1>6, <1>7 DEF Addressed, GoodIndex

\* What has taken nodes away is not forgotten.
LEMMA SpoiledStays == [Next]_vars => spoiled \subseteq spoiled'
<1> SUFFICES ASSUME [Next]_vars PROVE spoiled \subseteq spoiled'
  OBVIOUS
<1>1. ASSUME NEW c \in Conns, NEW id, NEW node, NEW then, WriteNode(c, id, node, then)
      PROVE  spoiled \subseteq spoiled'
  BY <1>1 DEF WriteNode
<1>2. CASE InsertIndex
  BY <1>2 DEF InsertIndex
<1>3. CASE UpdateIndex
  BY <1>3 DEF UpdateIndex
<1> QED
  BY <1>1, <1>2, <1>3 DEF Next, vars, Create, Destroy, Crash, Dies, Open, Close, InsertNode, UpdateNode,
     Find, Remove

\* A record that is counted and there is found (sea_block_query_by_record_id).
LEMMA QueryReads ==
  ASSUME NEW b \in Block, NEW h \in Handle, NEW id \in Entries(b.index), id < h.header[COUNT],
         NEW p \in Seq(GraphCell), HoldsRecord(b.data, Offset(b.index, id), p)
  PROVE  QueryRecord(b, h, id).ok /\ QueryRecord(b, h, id).payload = p
<1>1. PICK ix \in Seq(Nat), f \in Seq(GraphCell) : ix = b.index /\ f = b.data
  BY DEF Block
<1>2. id \in Nat /\ EntryAt(id) + 2 <= Len(ix) /\ Offset(ix, id) \in Nat
  BY <1>1, EntryFacts
<1>3. ~PastEnd(h.header, id)
  <2>1. PICK n \in Nat : n = h.header[COUNT]
    BY HandleCount
  <2>2. id < n
    BY <2>1
  <2>3. ~(n <= id)
    BY <1>2, <2>2
  <2> QED
    BY <2>1, <2>3 DEF PastEnd
<1>4. PICK list : list = IndexQueryByRecordId(h.header, ix, id)
  OBVIOUS
<1>5. list.null = FALSE /\ list.offs # <<>> /\ list.offs[1] = Offset(ix, id)
  BY <1>2, <1>3, <1>4, QueryFindsEntry
<1>6. PICK off \in Nat : off = Offset(ix, id)
  BY <1>2
<1>7. ReadRecord(f, 0, off).ok /\ ReadRecord(f, 0, off).payload = p
  BY <1>1, <1>6, GraphReads
<1> QED
  BY <1>1, <1>4, <1>5, <1>6, <1>7 DEF QueryRecord

\* An index record says where its node is (graph_db_find).
LEMMA PlaceRead ==
  ASSUME NEW b \in Blocks, NEW r \in Nat
  PROVE  Place(IndexNode(b, r)).block = b /\ Place(IndexNode(b, r)).record = r
<1>1. PICK p : p = IndexNode(b, r)
  OBVIOUS
<1>2. Len(p) = 2 /\ p[1] = ValueCell(b) /\ p[2] = ValueCell(r)
  BY <1>1 DEF IndexNode
<1>3. /\ \A v : "value" \in DOMAIN ValueCell(v) /\ ValueCell(v).value = v
  BY DEF ValueCell
<1>4. \A i \in 1 .. 2 : "value" \in DOMAIN p[i]
  <2>1. \A i \in 1 .. 2 : i = 1 \/ i = 2
    OBVIOUS
  <2> QED
    BY <1>2, <1>3, <2>1
<1>5. Place(p) = [block |-> p[1].value, record |-> p[2].value]
  BY <1>2, <1>4 DEF Place
<1> QED
  BY <1>1, <1>2, <1>3, <1>5

\* The ids a new connection counts have entries.
LEMMA CountedEntries ==
  ASSUME TypeInv, NEW b \in Blocks, GoodIndex(Index(b)), NEW id \in 0 .. Counted(b) - 1
  PROVE  /\ block[b].exists /\ id \in Nat /\ id \in Entries(Index(b))
         /\ id < Opened(block[b]).header[COUNT]
<1>1. PICK k \in Block, ix \in Seq(Nat) : k = block[b] /\ ix = k.index
  BY Types DEF Block
<1>2. Opened(k).open /\ id \in 0 .. ix[COUNT] - 1
  BY <1>1 DEF Counted
<1>3. k.exists /\ Len(ix) >= 5 /\ Opened(k).header[COUNT] = ix[COUNT]
  BY <1>1, <1>2, OpenedEffect DEF HEADER_SIZE
<1>4. PICK n \in Nat : n = ix[COUNT]
  BY <1>3 DEF COUNT
<1>5. EntryAt(n) <= Len(ix)
  <2>1. ix # <<>> /\ GoodIndex(ix)
    BY <1>1, <1>3 DEF Index
  <2> QED
    BY <1>4, <2>1 DEF GoodIndex
<1>6. id \in Nat /\ id < n
  BY <1>2, <1>4
<1>7. EntryAt(n) = 5 + 2 * n
  BY EntryWords
<1>8. 7 + 2 * id <= Len(ix)
  BY <1>5, <1>6, <1>7
<1> QED
  BY <1>1, <1>3, <1>4, <1>6, <1>8, EntryFacts DEF Index

\* What IndexAddressesData says of one index record.
LeadsToRecord(id) ==
  LET place == Place(QueryRecord(block[IndexBlock], Opened(block[IndexBlock]), id).payload)
      index == block[place.block].index
  IN  /\ place.block \in Blocks
      /\ place.block = IndexBlock => place.record = id
      /\ EntryAt(place.record + 1) <= Len(index)
      /\ \E n \in IF place.block = DataBlock THEN Nodes ELSE {UpdatedIndexNode(id)} :
           HoldsRecord(block[place.block].data, index[EntryAt(place.record) + 2], n)

LEMMA AddressedLeads ==
  ASSUME TypeInv, Addressed, NEW id \in 0 .. Counted(IndexBlock) - 1
  PROVE  LeadsToRecord(id)
<1>1. PICK b \in Block : b = block[IndexBlock]
  BY Types
<1>2. PICK h \in Handle : h = Opened(b)
  BY OpenedEffect
<1>3. b.exists /\ id \in Nat /\ id \in Entries(b.index) /\ id < h.header[COUNT]
  <2>1. IndexBlock \in Blocks /\ GoodIndex(Index(IndexBlock))
    BY Types DEF Addressed
  <2> QED
    BY <1>1, <1>2, <2>1, CountedEntries DEF Index
<1>4. HoldsPlace(b, Index(DataBlock), id)
  BY <1>1, <1>3 DEF Addressed, PlacesIn
<1>5. ASSUME NEW bid \in Blocks, NEW r \in Entries(Index(bid)), bid = IndexBlock => r = id,
             HoldsRecord(b.data, Offset(b.index, id), IndexNode(bid, r)),
             \E n \in IF bid = DataBlock THEN Nodes ELSE {UpdatedIndexNode(id)} :
               HoldsRecord(Data(bid), Offset(Index(bid), r), n)
      PROVE  LeadsToRecord(id)
  <2>1. PICK ix \in Seq(Nat) : ix = Index(bid)
    BY Types
  <2>2. r \in Nat /\ 7 + 2 * r <= Len(ix)
    BY <2>1, EntryFacts
  <2>3. PICK p \in Seq(GraphCell) : p = IndexNode(bid, r)
    BY <2>2, PayloadTypes
  <2>4. QueryRecord(b, h, id).payload = p
    BY <1>3, <1>5, <2>3, QueryReads
  <2>5. PICK place : place = Place(p)
    OBVIOUS
  <2>6. place.block = bid /\ place.record = r
    BY <2>2, <2>3, <2>5, PlaceRead
  <2>7. EntryAt(r + 1) <= Len(ix)
    <3>1. PICK s \in Nat : s = r + 1
      BY <2>2
    <3>2. EntryAt(s) = 5 + 2 * s
      BY EntryWords
    <3>3. 5 + 2 * s <= Len(ix)
      BY <2>2, <3>1
    <3> QED
      BY <3>1, <3>2, <3>3
  <2>8. \E n \in IF bid = DataBlock THEN Nodes ELSE {UpdatedIndexNode(id)} :
          HoldsRecord(block[bid].data, ix[EntryAt(r) + 2], n)
    BY <1>5, <2>1 DEF Offset, Data
  <2> QED
    BY <1>1, <1>2, <1>5, <2>1, <2>4, <2>5, <2>6, <2>7, <2>8 DEF LeadsToRecord, Index
<1>6. CASE HoldsRecord(b.data, Offset(b.index, id), UpdatedIndexNode(id))
  <2>1. HoldsRecord(b.data, Offset(b.index, id), IndexNode(IndexBlock, id))
    BY <1>6 DEF UpdatedIndexNode
  <2>2. HoldsRecord(Data(IndexBlock), Offset(Index(IndexBlock), id), UpdatedIndexNode(id))
    BY <1>1, <1>6 DEF Data, Index
  <2>3. id \in Entries(Index(IndexBlock)) /\ IndexBlock # DataBlock /\ IndexBlock \in Blocks
    BY <1>1, <1>3, Types DEF Index
  <2> QED
    BY <1>5, <2>1, <2>2, <2>3
<1>7. ASSUME NEW r \in Entries(Index(DataBlock)),
             HoldsRecord(b.data, Offset(b.index, id), IndexNode(DataBlock, r))
      PROVE  LeadsToRecord(id)
  <2>1. \E n \in Nodes : HoldsRecord(Data(DataBlock), Offset(Index(DataBlock), r), n)
    BY DEF Addressed, NodesIn, Index, Data
  <2> QED
    BY <1>5, <1>7, <2>1, Types
<1> QED
  BY <1>4, <1>6, <1>7 DEF HoldsPlace

\* Every index record a new connection counts names an entry that is in the
\* index file of its block, and that entry addresses a whole node (or the
\* updated index record itself): for any number of connections that insert and
\* reset the data block, short writes of records, roll-backs of headers, and a
\* process that dies between any two system calls of an append or between the
\* two appends of __graph_db_insert_internal.  It says nothing any more once a
\* roll-back after a reset cuts off entries, an index entry or an update of an
\* index record is not written whole, an update goes astray for want of a data
\* block, or a used index block is created again.
THEOREM IndexLeadsToRecords == Spec => []IndexAddressesData
<1>1. Init => TypeInv /\ AddressInv
  BY TypeInvInit, AddressedInit DEF AddressInv
<1>2. TypeInv /\ AddressInv /\ [Next]_vars => (TypeInv /\ AddressInv)'
  <2> SUFFICES ASSUME TypeInv, AddressInv, [Next]_vars, spoiled' \subseteq {"reset", "updated"}
               PROVE  Addressed'
    BY TypeInvStep DEF AddressInv
  <2>1. Addressed
    BY SpoiledStays DEF AddressInv
  <2> QED
    BY <2>1, AddressedStep
<1>3. TypeInv /\ AddressInv => IndexAddressesData
  BY AddressedLeads DEF AddressInv, IndexAddressesData, LeadsToRecord
<1> QED
  BY <1>1, <1>2, <1>3, PTL DEF Spec

-----------------------------------------------------------------------------
(* An inserted node is found.                                              *)

\* An index file has the entries it counts and no others: so it is while a
\* connection writes, since every failure short of a death rolls back.
Exact(ix) == ix # <<>> => Len(ix) = EntryAt(ix[COUNT])
WriterExact == \A c \in Conns : conn[c].data.open => \A b \in Blocks : Exact(Index(b))

\* Nothing has been inserted over a data block another connection writes, so
\* one connection writes, and its counts are those in the files.
OneWriter == \A c, d \in Conns : conn[c].data.open /\ conn[d].data.open => c = d
WriterCurrent ==
  \A c \in Conns : conn[c].data.open =>
    /\ conn[c].data.header[COUNT] = Index(DataBlock)[COUNT]
    /\ conn[c].index.open => conn[c].index.header[COUNT] = Index(IndexBlock)[COUNT]

\* The data block has entries before the index block has, so that a connection
\* that writes for the first time after a death finds entries to reset.
IndexBehind == Len(Index(DataBlock)) <= HEADER_SIZE => Len(Index(IndexBlock)) <= HEADER_SIZE

\* The index record of the id, in the block b, leads to the node in the block d.
LeadsTo(b, d, id, node) ==
  /\ b.exists /\ id \in Entries(b.index) /\ id < b.index[COUNT]
  /\ \E r \in Entries(d.index) :
       /\ r < d.index[COUNT]
       /\ HoldsRecord(b.data, Offset(b.index, id), IndexNode(DataBlock, r))
       /\ HoldsRecord(d.data, Offset(d.index, r), node)

Findable ==
  /\ WriterExact /\ OneWriter /\ WriterCurrent /\ IndexBehind
  /\ \A id \in DOMAIN placed : LeadsTo(block[IndexBlock], block[DataBlock], id, placed[id])
  /\ op.pc = "insert" =>
       /\ op.record < Index(DataBlock)[COUNT]
       /\ HoldsRecord(Data(DataBlock), Offset(Index(DataBlock), op.record), op.node)

FindInv == spoiled = {} => Findable

\* An append through a handle that is current, to an index that is exact.
LEMMA AppendsExact ==
  ASSUME NEW b \in Block, Len(b.index) >= HEADER_SIZE, GoodIndex(b.index), Exact(b.index),
         NEW h \in Handle, h.header[COUNT] = b.index[COUNT],
         NEW p \in Seq(GraphCell), NEW a \in Appends(b, h, p), Len(a.block.index) >= Len(b.index), ~a.torn
  PROVE  /\ ~a.dies => Exact(a.block.index) /\ a.handle.header[COUNT] = a.block.index[COUNT]
         /\ Extends(b.index, a.block.index) /\ b.index[COUNT] <= a.block.index[COUNT]
         /\ a.ok => /\ a.id \in Entries(a.block.index) /\ a.id < a.block.index[COUNT]
                    /\ HoldsRecord(a.block.data, Offset(a.block.index, a.id), p)
<1>1. PICK ix \in Seq(Nat), iy \in Seq(Nat), c \in Nat :
        ix = b.index /\ iy = a.block.index /\ c = h.header[COUNT] /\ c = ix[COUNT]
  <2>1. a.block \in Block
    BY AppendsEffect
  <2> QED
    BY <2>1, HandleCount DEF Block
<1>2. Len(ix) = EntryAt(c) /\ Len(ix) >= 5
  <2>1. Len(ix) >= 5 /\ ix # <<>>
    BY <1>1 DEF HEADER_SIZE
  <2> QED
    BY <1>1, <2>1 DEF Exact
<1>3. EntryAt(h.header[COUNT]) <= Len(b.index)
  BY <1>1, <1>2
<1>4. /\ Extends(ix, iy)
      /\ \/ /\ Appended(b, h, p, a) \/ Orphaned(b, h, p, a)
            /\ \E n \in Nat : Len(ix) = EntryAt(n) /\ Offset(iy, n) = Len(b.data)
         \/ /\ ~a.ok /\ a.handle = h /\ Len(iy) = Len(ix) /\ iy[COUNT] = ix[COUNT]
  BY <1>1, <1>3, AppendsEntries
<1>5. ASSUME Appended(b, h, p, a), NEW n \in Nat, Len(ix) = EntryAt(n), Offset(iy, n) = Len(b.data)
      PROVE  /\ Exact(iy) /\ a.handle.header[COUNT] = iy[COUNT] /\ ix[COUNT] <= iy[COUNT]
             /\ a.id < iy[COUNT] /\ a.id \in Entries(iy) /\ HoldsRecord(a.block.data, Offset(iy, a.id), p)
  <2>1. /\ a.id = c /\ Len(iy) = Len(ix) + 2 /\ iy[COUNT] = c + 1 /\ a.handle.header[COUNT] = c + 1
        /\ HoldsRecord(a.block.data, Len(b.data), p)
    BY <1>1, <1>5 DEF Appended, Recorded
  <2>2. PICK d \in Nat : d = c + 1
    OBVIOUS
  <2>3. EntryAt(c) = 5 + 2 * c /\ EntryAt(d) = 5 + 2 * d /\ EntryAt(n) = 5 + 2 * n
    BY EntryWords
  <2>4. n = c /\ Len(iy) = EntryAt(d)
    <3>1. PICK k \in Nat, l \in Nat : k = Len(ix) /\ l = Len(iy)
      OBVIOUS
    <3>2. k = 5 + 2 * c /\ k = 5 + 2 * n /\ l = k + 2
      BY <1>2, <1>5, <2>1, <2>3, <3>1
    <3>3. n = c /\ l = 5 + 2 * d
      BY <2>2, <3>2
    <3> QED
      BY <2>3, <3>1, <3>3
  <2>5. c \in Entries(iy)
    BY <1>2, <2>1, IdHasEntry
  <2>6. Exact(iy) /\ a.handle.header[COUNT] = iy[COUNT]
    BY <2>1, <2>2, <2>4 DEF Exact
  <2>7. ix[COUNT] <= iy[COUNT] /\ a.id < iy[COUNT]
    <3>1. ix[COUNT] = c /\ iy[COUNT] = d /\ a.id = c
      BY <1>1, <2>1, <2>2
    <3>2. c <= d /\ c < d
      BY <2>2
    <3> QED
      BY <3>1, <3>2
  <2> QED
    BY <1>5, <2>1, <2>4, <2>5, <2>6, <2>7
<1>6. CASE ~a.ok /\ a.handle = h /\ Len(iy) = Len(ix) /\ iy[COUNT] = ix[COUNT]
  BY <1>1, <1>2, <1>4, <1>6 DEF Exact
<1>7. CASE Orphaned(b, h, p, a)
  <2>1. ~a.ok /\ a.dies /\ iy[COUNT] = ix[COUNT] /\ ix[COUNT] = c
    BY <1>1, <1>7 DEF Orphaned
  <2>2. ix[COUNT] <= iy[COUNT]
    BY <2>1
  <2> QED
    BY <1>1, <1>4, <2>1, <2>2
<1> QED
  BY <1>1, <1>4, <1>5, <1>6, <1>7

\* What a step keeps when it only adds entries and records to the two blocks.
LEMMA LeadsToKept ==
  ASSUME NEW b \in Block, NEW b1 \in Block, NEW d \in Block, NEW d1 \in Block,
         Extends(b.index, b1.index), Grows(b.data, b1.data), b1.exists = b.exists,
         Extends(d.index, d1.index), Grows(d.data, d1.data),
         b.index[COUNT] <= b1.index[COUNT], d.index[COUNT] <= d1.index[COUNT],
         NEW id, NEW node \in Nodes, LeadsTo(b, d, id, node)
  PROVE  LeadsTo(b1, d1, id, node)
<1>1. PICK ix \in Seq(Nat), iy \in Seq(Nat), jx \in Seq(Nat), jy \in Seq(Nat) :
        ix = b.index /\ iy = b1.index /\ jx = d.index /\ jy = d1.index
  BY DEF Block
<1>2. PICK f \in Seq(GraphCell), f1 \in Seq(GraphCell), g \in Seq(GraphCell), g1 \in Seq(GraphCell) :
        f = b.data /\ f1 = b1.data /\ g = d.data /\ g1 = d1.data
  BY DEF Block
<1>3. PICK r \in Entries(jx) : /\ r < jx[COUNT]
                               /\ HoldsRecord(f, Offset(ix, id), IndexNode(DataBlock, r))
                               /\ HoldsRecord(g, Offset(jx, r), node)
  BY <1>1, <1>2 DEF LeadsTo
<1>4. /\ id \in Entries(iy) /\ Offset(iy, id) = Offset(ix, id) /\ Offset(ix, id) \in Nat
  BY <1>1, EntriesKept, EntryFacts DEF LeadsTo
<1>5. /\ r \in Nat /\ r \in Entries(jy) /\ Offset(jy, r) = Offset(jx, r) /\ Offset(jx, r) \in Nat
  BY <1>1, EntriesKept, EntryFacts
<1>6. HoldsRecord(f1, Offset(ix, id), IndexNode(DataBlock, r))
  <2>1. PICK p \in Seq(GraphCell) : p = IndexNode(DataBlock, r)
    BY <1>5, PayloadTypes DEF Blocks
  <2> QED
    BY <1>2, <1>3, <1>4, <2>1, GraphStable
<1>7. HoldsRecord(g1, Offset(jx, r), node)
  <2>1. node \in Seq(GraphCell)
    BY PayloadTypes
  <2> QED
    BY <1>2, <1>3, <1>5, <2>1, GraphStable
\* A count that grows still counts what it did.
<1>8. ASSUME NEW kx \in Seq(Nat), NEW ky \in Seq(Nat), NEW j \in Entries(kx), j \in Entries(ky),
             j < kx[COUNT], kx[COUNT] <= ky[COUNT]
      PROVE  j < ky[COUNT]
  <2>1. j \in Nat /\ 7 + 2 * j <= Len(kx) /\ 7 + 2 * j <= Len(ky)
    BY <1>8, EntryFacts
  <2>2. 5 \in 1 .. Len(kx) /\ 5 \in 1 .. Len(ky)
    BY <2>1
  <2>3. PICK m \in Nat, n \in Nat : m = kx[COUNT] /\ n = ky[COUNT]
    <3>1. ASSUME NEW s \in Seq(Nat), 5 \in 1 .. Len(s)
          PROVE  s[5] \in Nat
      BY <3>1
    <3>2. kx[5] \in Nat
      BY <2>2, <3>1
    <3>3. ky[5] \in Nat
      BY <2>2, <3>1
    <3> QED
      BY <3>2, <3>3 DEF COUNT
  <2>4. j < m /\ m <= n
    BY <1>8, <2>3
  <2>5. j < n
    BY <2>1, <2>4
  <2> QED
    BY <2>3, <2>5
<1>9. id \in Entries(ix) /\ id < ix[COUNT]
  BY <1>1 DEF LeadsTo
<1>10. id < iy[COUNT]
  BY <1>1, <1>4, <1>8, <1>9
<1>11. r < jy[COUNT]
  BY <1>1, <1>3, <1>5, <1>8
<1> QED
  BY <1>1, <1>2, <1>4, <1>5, <1>6, <1>7, <1>10, <1>11 DEF LeadsTo

LEMMA FindableInit == Init => Findable
<1> SUFFICES ASSUME Init PROVE Findable
  OBVIOUS
<1>1. \A b \in Blocks : Index(b) = <<>>
  BY DEF Init, Index
<1>2. WriterExact /\ OneWriter /\ WriterCurrent
  BY ClosedType DEF Init, WriterExact, OneWriter, WriterCurrent
<1>3. IndexBehind
  <2>1. Index(IndexBlock) = <<>> /\ Len(<<>>) = 0
    BY <1>1 DEF Blocks
  <2> QED
    BY <2>1 DEF IndexBehind, HEADER_SIZE
<1>4. op.pc = "idle" /\ DOMAIN placed = {}
  BY DEF Init, Idle
<1> QED
  BY <1>1, <1>2, <1>3, <1>4 DEF Findable

\* The count of a handle on an index file that has no entries.
LEMMA NothingCounted ==
  ASSUME NEW h \in Handle, NEW l \in Nat, EntryAt(h.header[COUNT]) <= l, l <= 5
  PROVE  h.header[COUNT] = 0
<1>1. PICK n \in Nat : n = h.header[COUNT]
  BY HandleCount
<1>2. EntryAt(n) = 5 + 2 * n /\ EntryAt(n) <= l
  BY <1>1, EntryWords
<1> QED
  BY <1>1, <1>2

\* An index file with no more than a header is exact.
LEMMA HeaderExact ==
  ASSUME NEW ix \in Seq(Nat), GoodIndex(ix), Len(ix) <= 5
  PROVE  Exact(ix)
<1> SUFFICES ASSUME ix # <<>> PROVE Len(ix) = EntryAt(ix[COUNT])
  BY DEF Exact
<1>1. PICK n \in Nat : Len(ix) = EntryAt(n)
  <2>1. \E n \in 0 .. Len(ix) : Len(ix) = EntryAt(n)
    BY DEF GoodIndex
  <2> QED
    BY <2>1
<1>2. EntryAt(n) = 5 + 2 * n
  BY EntryWords
<1>3. Len(ix) = 5
  BY <1>1, <1>2
<1>4. PICK m \in Nat : m = ix[COUNT]
  <2>1. 5 \in 1 .. Len(ix)
    BY <1>3
  <2> QED
    BY <2>1 DEF COUNT
<1>5. EntryAt(m) = 5 + 2 * m /\ EntryAt(m) <= Len(ix)
  BY <1>4, EntryWords DEF GoodIndex
<1>6. m = 0
  BY <1>3, <1>5
<1> QED
  BY <1>3, <1>4, <1>5, <1>6

LEMMA FindableCreates ==
  ASSUME TypeInv, Addressed, Findable, Create, spoiled' = {}
  PROVE  Findable'
<1>1. PICK b \in Block : b = block[IndexBlock]
  BY Types
<1>2. PICK m : m = CreatedOver(b)
  OBVIOUS
<1>3. /\ m \in Block /\ m.exists /\ Len(m.index) = IF Len(b.index) < 5 THEN 5 ELSE Len(b.index)
      /\ m.index[COUNT] = 0
  BY <1>2, CreatedEffect
<1>4. PICK n \in Nat : n = Len(b.index)
  BY DEF Block
<1>5. n <= 5
  <2>1. (IF Len(b.index) > HEADER_SIZE THEN {"recreated"} ELSE {}) = {}
    BY <1>1 DEF Create
  <2> QED
    BY <1>4, <2>1 DEF HEADER_SIZE
<1>6. PICK ix \in Seq(Nat) : ix = m.index
  BY <1>3 DEF Block
<1>7. Len(ix) = 5 /\ ix[COUNT] = 0
  <2>1. PICK l \in Nat : l = Len(ix)
    OBVIOUS
  <2>2. (l = IF n < 5 THEN 5 ELSE n) /\ ix[COUNT] = 0
    BY <1>3, <1>4, <1>6, <2>1
  <2>3. l = 5
    BY <1>5, <2>2
  <2> QED
    BY <2>1, <2>2, <2>3
<1>8. /\ block' = [block EXCEPT ![IndexBlock] = m] /\ UNCHANGED <<conn, op>> /\ op.pc = "idle"
      /\ placed' = <<>> /\ block'[IndexBlock] = m /\ block'[DataBlock] = block[DataBlock]
  BY <1>1, <1>2, Types DEF Create, TypeInv
<1>9. WriterExact'
  <2>1. EntryAt(0) = 5
    BY DEF EntryAt, HEADER_SIZE, ENTRY_SIZE
  <2>2. Exact(ix)
    BY <1>7, <2>1 DEF Exact
  <2>3. ASSUME NEW c \in Conns, conn[c].data.open PROVE \A b1 \in Blocks : Exact(block'[b1].index)
    BY <1>6, <1>8, <2>2, <2>3 DEF Findable, WriterExact, Index, Blocks
  <2> QED
    BY <1>8, <2>3 DEF WriterExact, Index
<1>10. WriterCurrent'
  <2>1. ASSUME NEW c \in Conns, conn[c].data.open
        PROVE  /\ conn[c].data.header[COUNT] = Index(DataBlock)[COUNT]
               /\ conn[c].index.open => conn[c].index.header[COUNT] = ix[COUNT]
    <3>1. PICK h \in Handle : h = conn[c].index
      BY Types
    <3>2. h.open => EntryAt(h.header[COUNT]) <= n
      BY <1>1, <1>4, <3>1 DEF Addressed, HandlesWithin, Index
    <3>3. h.open => h.header[COUNT] = 0
      BY <1>5, <3>2, NothingCounted
    <3> QED
      BY <1>7, <2>1, <3>1, <3>3 DEF Findable, WriterCurrent
  <2> QED
    BY <1>6, <1>8, <2>1 DEF WriterCurrent, Index
<1>11. OneWriter'
  BY <1>8 DEF Findable, OneWriter
<1>12. IndexBehind'
  <2>1. Len(block'[IndexBlock].index) = HEADER_SIZE
    BY <1>6, <1>7, <1>8 DEF HEADER_SIZE
  <2>2. Len(block'[IndexBlock].index) <= HEADER_SIZE
    BY <2>1 DEF HEADER_SIZE
  <2> QED
    BY <2>2 DEF IndexBehind, Index
<1> QED
  BY <1>8, <1>9, <1>10, <1>11, <1>12 DEF Findable, Index

LEMMA FindableDestroys ==
  ASSUME TypeInv, Findable, Destroy
  PROVE  Findable'
<1>1. UNCHANGED <<conn, op>> /\ op.pc = "idle" /\ placed' = <<>> /\ \A c \in Conns : ~conn[c].open
  BY DEF Destroy
<1>2. \A c \in Conns : ~conn'[c].data.open
  BY <1>1 DEF TypeInv, Handles
<1>3. \A b \in Blocks : block'[b].index = Index(b)
  BY DestroyEffect DEF Index, Blocks
<1>4. WriterExact' /\ OneWriter' /\ WriterCurrent'
  BY <1>2 DEF WriterExact, OneWriter, WriterCurrent
<1>5. IndexBehind'
  BY <1>3, Types DEF Findable, IndexBehind, Index
<1> QED
  BY <1>1, <1>3, <1>4, <1>5 DEF Findable, Index

LEMMA FindableDies ==
  ASSUME Findable, Dies
  PROVE  Findable'
<1>1. WriterExact' /\ OneWriter' /\ WriterCurrent'
  BY AllClosedType, ClosedType DEF Dies, WriterExact, OneWriter, WriterCurrent
<1>2. op'.pc = "idle"
  BY DEF Dies, Idle
<1> QED
  BY <1>1, <1>2 DEF Dies, Findable, IndexBehind, Index

LEMMA FindableOpens ==
  ASSUME TypeInv, Findable, NEW c \in Conns, Open(c) \/ Close(c)
  PROVE  Findable'
<1>1. UNCHANGED <<block, op, placed>> /\ op.pc = "idle"
  BY DEF Open, Close
<1>2. PICK k : conn' = [conn EXCEPT ![c] = k] /\ ~k.data.open
  <2>1. CASE Close(c)
    BY <2>1, ClosedType DEF Close
  <2>2. CASE Open(c)
    <3>1. PICK k : k = [Closed EXCEPT !.open = TRUE, !.index = Opened(block[IndexBlock])]
      OBVIOUS
    <3>2. k.data = Closed.data
      BY <3>1, ClosedType DEF Conn
    <3> QED
      BY <2>2, <3>1, <3>2, ClosedType DEF Open
  <2> QED
    BY <2>1, <2>2
<1>3. conn'[c] = k /\ \A d \in Conns : d # c => conn'[d] = conn[d]
  BY <1>2 DEF TypeInv
<1>4. WriterExact' /\ OneWriter' /\ WriterCurrent'
  BY <1>1, <1>2, <1>3 DEF Findable, WriterExact, OneWriter, WriterCurrent, Index
<1> QED
  BY <1>1, <1>4 DEF Findable, IndexBehind, Index

\* The write of a node when nothing spoils the database: the connection that
\* writes is the only one that does, or the first, and its counts are current.
LEMMA WriterReady ==
  ASSUME TypeInv, Addressed, Findable, NEW c \in Conns, NEW id, NEW node, NEW then,
         NEW made \in Block, NEW h \in Handle, NEW a, spoiled' = {},
         WriteStep(c, id, node, then, DataBlock, made, h, a), WriteReady(made, h, node, a)
  PROVE  /\ Exact(made.index) /\ h.header[COUNT] = made.index[COUNT]
         /\ Exact(Index(IndexBlock))
         /\ made.index[COUNT] = Index(DataBlock)[COUNT] \/ Entries(Index(DataBlock)) = {}
         /\ \A d \in Conns : d # c => ~conn[d].data.open
         /\ conn[c].index.open => conn[c].index.header[COUNT] = Index(IndexBlock)[COUNT]
<1>1. CASE conn[c].data.open
  <2>1. made = block[DataBlock] /\ h = conn[c].data
    BY <1>1 DEF WriteStep
  <2>2. \A d \in Conns : d # c => ~conn[d].data.open
    BY <1>1 DEF Findable, OneWriter
  <2> QED
    BY <1>1, <2>1, <2>2, Types DEF Findable, WriterExact, WriterCurrent, Index
<1>2. CASE ~conn[c].data.open
  <2>1. made = CreatedOver(block[DataBlock]) /\ h = Opened(made)
    BY <1>2 DEF WriteStep
  <2>2. ~(Len(Index(DataBlock)) > HEADER_SIZE \/ \E d \in Conns : conn[d].data.open)
    <3>1. (IF ~conn[c].data.open /\ (\/ Len(Index(DataBlock)) > HEADER_SIZE
                                     \/ \E d \in Conns : conn[d].data.open) THEN {"reset"} ELSE {}) = {}
      BY DEF WriteStep
    <3> QED
      BY <1>2, <3>1
  <2>3. PICK n \in Nat, k \in Nat : n = Len(Index(DataBlock)) /\ k = Len(Index(IndexBlock))
    BY Types
  <2>4. n <= 5 /\ k <= 5
    <3>1. n <= 5
      BY <2>2, <2>3 DEF HEADER_SIZE
    <3> QED
      BY <2>3, <3>1 DEF Findable, IndexBehind, HEADER_SIZE
  <2>5. PICK iy \in Seq(Nat) : iy = made.index
    BY DEF Block
  <2>6. Len(iy) = 5 /\ iy[COUNT] = 0
    <3>1. PICK b \in Block : b = block[DataBlock]
      BY Types
    <3>2. /\ Len(CreatedOver(b).index) = IF Len(b.index) < 5 THEN 5 ELSE Len(b.index)
          /\ CreatedOver(b).index[COUNT] = 0
      BY CreatedEffect
    <3>3. PICK l \in Nat : l = Len(iy)
      OBVIOUS
    <3>4. (l = IF n < 5 THEN 5 ELSE n) /\ iy[COUNT] = 0
      BY <2>1, <2>3, <2>5, <3>1, <3>2, <3>3 DEF Index
    <3>5. l = 5
      BY <2>4, <3>4
    <3> QED
      BY <3>3, <3>4, <3>5
  <2>7. h.header[COUNT] = iy[COUNT]
    BY <2>1, <2>5, OpenedEffect DEF WriteReady
  <2>8. EntryAt(0) = 5
    BY DEF EntryAt, HEADER_SIZE, ENTRY_SIZE
  <2>9. Exact(iy)
    BY <2>6, <2>8 DEF Exact
  <2>11. Exact(Index(IndexBlock))
    BY <2>3, <2>4, Types, HeaderExact DEF Addressed
  <2>12. Entries(Index(DataBlock)) = {}
    <3>1. PICK ix \in Seq(Nat) : ix = Index(DataBlock)
      BY Types
    <3>2. \A j \in Nat : ~(7 + 2 * j <= Len(ix))
      BY <2>3, <2>4, <3>1
    <3> QED
      BY <3>1, <3>2, EntryFacts
  <2>10. conn[c].index.open => conn[c].index.header[COUNT] = Index(IndexBlock)[COUNT]
    <3> SUFFICES ASSUME conn[c].index.open PROVE conn[c].index.header[COUNT] = Index(IndexBlock)[COUNT]
      OBVIOUS
    <3>1. PICK hx \in Handle : hx = conn[c].index
      BY Types
    <3>2. EntryAt(hx.header[COUNT]) <= k
      BY <2>3, <3>1 DEF Addressed, HandlesWithin
    <3>3. hx.header[COUNT] = 0
      BY <2>4, <3>2, NothingCounted
    <3>4. PICK ix \in Seq(Nat) : ix = Index(IndexBlock)
      BY Types
    <3>5. Len(ix) = EntryAt(ix[COUNT]) /\ Len(ix) >= 5
      <4>1. ix # <<>>
        BY <3>4 DEF TypeInv, Handles
      <4>2. IndexBlock \in Blocks
        BY Types
      <4> QED
        BY <2>11, <3>4, <4>1, <4>2 DEF TypeInv, Files, HEADER_SIZE, Exact
    <3>6. PICK m \in Nat : m = ix[COUNT]
      BY <3>5 DEF COUNT
    <3>7. EntryAt(m) = 5 + 2 * m
      BY EntryWords
    <3>8. m = 0
      <4>1. k = 5 + 2 * m
        BY <2>3, <3>4, <3>5, <3>6, <3>7
      <4> QED
        BY <2>4, <4>1
    <3> QED
      BY <3>1, <3>3, <3>4, <3>6, <3>8
  <2> QED
    BY <2>2, <2>5, <2>7, <2>9, <2>10, <2>11, <2>12
<1> QED
  BY <1>1, <1>2

LEMMA FindableWrites ==
  ASSUME TypeInv, Addressed, Findable, NEW c \in Conns, NEW id \in Blocks, NEW node \in Nodes,
         NEW then \in Call, then.node = node, WriteNode(c, id, node, then), UNCHANGED placed, spoiled' = {}
  PROVE  Findable'
<1>1. PICK made \in Block, h \in Handle : \E a \in Appends(made, h, node) :
        /\ WriteStep(c, id, node, then, DataBlock, made, h, a)
        /\ WriteReady(made, h, node, a)
  BY WriteClean
<1>2. PICK a \in Appends(made, h, node) :
        /\ WriteStep(c, id, node, then, DataBlock, made, h, a)
        /\ WriteReady(made, h, node, a)
  BY <1>1
<1>3. node \in Seq(GraphCell)
  BY PayloadTypes
<1>4. /\ Len(made.index) >= HEADER_SIZE /\ GoodIndex(made.index)
      /\ Extends(Index(DataBlock), made.index) /\ made.data = Data(DataBlock)
      /\ made.exists /\ Len(a.block.index) >= Len(made.index) /\ ~a.torn
  BY <1>2 DEF WriteReady
<1>5. /\ a.block \in Block /\ a.block.exists = made.exists /\ Len(a.block.index) >= HEADER_SIZE
      /\ a.ok \in BOOLEAN /\ a.dies \in BOOLEAN /\ (a.ok => ~a.dies)
      /\ a.handle \in Handle /\ a.id \in Nat /\ Grows(made.data, a.block.data)
  BY <1>3, <1>4, AppendsEffect
<1>6. /\ Exact(made.index) /\ h.header[COUNT] = made.index[COUNT]
      /\ Exact(Index(IndexBlock))
      /\ made.index[COUNT] = Index(DataBlock)[COUNT] \/ Entries(Index(DataBlock)) = {}
      /\ \A d \in Conns : d # c => ~conn[d].data.open
      /\ conn[c].index.open => conn[c].index.header[COUNT] = Index(IndexBlock)[COUNT]
  BY <1>2, WriterReady
<1>7. /\ ~a.dies => Exact(a.block.index) /\ a.handle.header[COUNT] = a.block.index[COUNT]
      /\ Extends(made.index, a.block.index) /\ made.index[COUNT] <= a.block.index[COUNT]
      /\ a.ok => a.id < a.block.index[COUNT] /\ HoldsRecord(a.block.data, Offset(a.block.index, a.id), node)
  BY <1>3, <1>4, <1>6, AppendsExact
<1>8. /\ block'[DataBlock] = a.block /\ block'[IndexBlock] = block[IndexBlock]
  <2>1. block' = [block EXCEPT ![DataBlock] = a.block]
    BY <1>2 DEF WriteStep
  <2> QED
    BY <1>4, <1>5, <2>1, BlockWritten, Types
<1>9. ASSUME ~a.dies
      PROVE
      /\ conn'[c].data = a.handle /\ conn'[c].index = conn[c].index
      /\ \A d \in Conns : d # c => conn'[d] = conn[d]
  <2>1. SetsData(c, a.handle, DataBlock)
    BY <1>2, <1>9 DEF WriteStep, SetsData
  <2> QED
    BY <1>5, <2>1, DataHandleSet, Types
<1>10. PICK b \in Block, d \in Block, d1 \in Block :
         b = block[IndexBlock] /\ d = block[DataBlock] /\ d1 = a.block
  BY <1>5, Types
<1>11. Extends(d.index, d1.index) /\ Grows(d.data, d1.data)
  <2>1. PICK ix \in Seq(Nat), iy \in Seq(Nat), iz \in Seq(Nat) :
          ix = d.index /\ iy = made.index /\ iz = d1.index
    BY DEF Block
  <2>2. Extends(ix, iy) /\ Extends(iy, iz)
    BY <1>4, <1>7, <1>10, <2>1 DEF Index
  <2>3. Extends(ix, iz)
    BY <2>2, ExtendsTwice
  <2> QED
    BY <1>4, <1>5, <1>10, <2>1, <2>3 DEF Data
<1>12. \A k \in DOMAIN placed : LeadsTo(b, d1, k, placed[k])
  <2>1. Extends(b.index, b.index) /\ Grows(b.data, b.data)
    BY DEF Extends, Grows, Block
  <2>3. ASSUME NEW k, NEW n, LeadsTo(b, d, k, n) PROVE b.index[COUNT] <= b.index[COUNT] /\ d.index[COUNT] <= d1.index[COUNT]
    <3>1. PICK ix \in Seq(Nat) : ix = b.index
      BY DEF Block
    <3>2. k \in Nat /\ 7 + 2 * k <= Len(ix)
      BY <2>3, <3>1, EntryFacts DEF LeadsTo
    <3>3. ix[COUNT] \in Nat
      BY <3>2 DEF COUNT
    <3>4. Entries(d.index) # {}
      BY <2>3 DEF LeadsTo
    <3>5. d.index[COUNT] <= d1.index[COUNT]
      BY <1>6, <1>7, <1>10, <3>4 DEF Index
    <3> QED
      BY <3>1, <3>3, <3>5
  <2>2. ASSUME NEW k \in DOMAIN placed PROVE LeadsTo(b, d1, k, placed[k])
    <3>1. PICK n \in Nodes : n = placed[k]
      BY DEF TypeInv
    <3>2. LeadsTo(b, d, k, n)
      BY <1>10, <3>1 DEF Findable
    <3>3. LeadsTo(b, d1, k, n)
      BY <1>11, <2>1, <2>3, <3>2, LeadsToKept
    <3> QED
      BY <3>1, <3>3
  <2> QED
    BY <2>2
<1>13. WriterExact' /\ OneWriter' /\ WriterCurrent'
  <2>1. CASE ~a.dies
    <3>1. \A b1 \in Blocks : Exact(block'[b1].index)
      BY <1>6, <1>7, <1>8, <2>1 DEF Index, Blocks
    <3>2. WriterExact' /\ OneWriter'
      BY <1>6, <1>9, <2>1, <3>1 DEF WriterExact, OneWriter, Index
    <3>3. WriterCurrent'
      BY <1>6, <1>7, <1>8, <1>9, <2>1 DEF WriterCurrent, Index
    <3> QED
      BY <3>2, <3>3
  <2>2. CASE a.dies
    <3>1. conn' = AllClosed
      BY <1>2, <2>2 DEF WriteStep
    <3>2. \A e \in Conns : ~conn'[e].data.open
      BY <3>1, AllClosedType, ClosedType
    <3> QED
      BY <3>2 DEF WriterExact, OneWriter, WriterCurrent
  <2> QED
    BY <1>5, <2>1, <2>2
<1>15. IndexBehind'
  <2>1. PICK m \in Nat, n \in Nat : m = Len(d.index) /\ n = Len(d1.index)
    BY DEF Block
  <2>2. m <= n
    BY <1>11, <2>1 DEF Extends
  <2>3. n <= HEADER_SIZE => m <= HEADER_SIZE
    BY <2>2 DEF HEADER_SIZE
  <2> QED
    BY <1>8, <1>10, <2>1, <2>3 DEF Findable, IndexBehind, Index
<1>16. op'.pc = "insert" => /\ op'.record < d1.index[COUNT]
                            /\ HoldsRecord(d1.data, Offset(d1.index, op'.record), op'.node)
  <2>1. op' = IF a.ok THEN [then EXCEPT !.record = a.id] ELSE Idle
    BY <1>2 DEF WriteStep
  <2>2. CASE ~a.ok
    BY <2>1, <2>2 DEF Idle
  <2>3. CASE a.ok
    <3>1. op'.record = a.id /\ op'.node = node
      BY <2>1, <2>3 DEF Call
    <3> QED
      BY <1>7, <1>10, <2>3, <3>1
  <2> QED
    BY <2>2, <2>3
<1> QED
  BY <1>8, <1>10, <1>12, <1>13, <1>15, <1>16 DEF Findable, Index, Data

LEMMA FindableInsertsIndex ==
  ASSUME TypeInv, Addressed, Findable, InsertIndex, spoiled' = {}
  PROVE  Findable'
<1>1. op \in Call /\ op.pc = "insert" /\ op' = Idle
  BY InsertIndexEffect
<1>2. op'.pc = "idle"
  BY <1>1 DEF Idle
<1>3. CASE UNCHANGED <<block, conn, placed, spoiled>>
  BY <1>2, <1>3 DEF Findable, WriterExact, OneWriter, WriterCurrent, IndexBehind, Index
<1>4. ASSUME NEW a \in Appends(block[IndexBlock], conn[op.conn].index, IndexNode(DataBlock, op.record)),
             conn[op.conn].index.open,
             block' = [block EXCEPT ![IndexBlock] = a.block],
             conn' = IF a.dies THEN AllClosed ELSE [conn EXCEPT ![op.conn].index = a.handle],
             placed' = IF ~a.ok THEN placed
                       ELSE [i \in DOMAIN placed \cup {a.id} |-> IF i = a.id THEN op.node ELSE placed[i]],
             spoiled' = spoiled \cup Damage(block[IndexBlock], a)
      PROVE  Findable'
  <2>1. PICK c \in Conns : c = op.conn
    BY <1>1, CallTypes
  <2>2. PICK b \in Block, d \in Block, h \in Handle :
          b = block[IndexBlock] /\ d = block[DataBlock] /\ h = conn[c].index
    BY Types
  <2>3. PICK r \in Entries(d.index) : r = op.record
    BY <1>1, <2>2 DEF Addressed, Index
  <2>4. r \in Nat
    BY EntryFacts DEF Block
  <2>5. PICK p \in Seq(GraphCell) : p = IndexNode(DataBlock, r)
    BY <2>4, PayloadTypes, Types
  <2>6. a \in Appends(b, h, p)
    BY <2>1, <2>2, <2>3, <2>5
  <2>7. conn[c].data.open /\ h.open /\ b.exists
    BY <1>1, <1>4, <2>1, <2>2, CallTypes DEF Addressed, HandlesWithin
  <2>8. Len(b.index) >= HEADER_SIZE /\ GoodIndex(b.index) /\ Exact(b.index)
    BY <2>1, <2>2, <2>7, Types DEF TypeInv, Files, Index, Addressed, Findable, WriterExact
  <2>9. /\ a.block \in Block /\ a.block.exists = b.exists /\ Len(a.block.index) >= HEADER_SIZE
        /\ a.handle \in Handle /\ a.dies \in BOOLEAN /\ Grows(b.data, a.block.data)
    BY <2>6, <2>8, AppendsEffect
  <2>10. Len(a.block.index) >= Len(b.index) /\ ~a.torn
    <3>1. Damage(b, a) = {}
      BY <1>4, <2>2
    <3>2. ~(Len(a.block.index) < Len(b.index)) /\ ~a.torn
      BY <3>1 DEF Damage
    <3>3. Len(a.block.index) \in Nat /\ Len(b.index) \in Nat
      BY <2>9 DEF Block
    <3> QED
      BY <3>2, <3>3
  <2>11. h.header[COUNT] = b.index[COUNT]
    BY <2>2, <2>7 DEF Findable, WriterCurrent, Index
  <2>12. /\ ~a.dies => Exact(a.block.index) /\ a.handle.header[COUNT] = a.block.index[COUNT]
         /\ Extends(b.index, a.block.index) /\ b.index[COUNT] <= a.block.index[COUNT]
         /\ a.ok => /\ a.id \in Entries(a.block.index) /\ a.id < a.block.index[COUNT]
                    /\ HoldsRecord(a.block.data, Offset(a.block.index, a.id), p)
    BY <2>6, <2>8, <2>10, <2>11, AppendsExact
  <2>13. block'[IndexBlock] = a.block /\ block'[DataBlock] = d
    BY <1>4, <2>2, <2>9, BlockWritten, Types
  <2>14. ASSUME ~a.dies
         PROVE
         /\ conn'[c].index = a.handle /\ conn'[c].data = conn[c].data
         /\ \A e \in Conns : e # c => conn'[e] = conn[e]
    <3>1. SetsIndex(c, a.handle)
      BY <1>4, <2>1, <2>14 DEF SetsIndex
    <3> QED
      BY <2>9, <3>1, IndexHandleSet
  <2>15. \A e \in Conns : e # c => ~conn[e].data.open
    BY <2>7 DEF Findable, OneWriter
  <2>16. WriterExact' /\ OneWriter' /\ WriterCurrent'
    <3>1. CASE ~a.dies
      <4>1. Exact(d.index)
        BY <2>2, <2>7, Types DEF Findable, WriterExact, Index
      <4>2. \A b1 \in Blocks : Exact(block'[b1].index)
        BY <2>12, <2>13, <3>1, <4>1 DEF Blocks, IndexBlock, DataBlock
      <4>3. WriterExact' /\ OneWriter'
        BY <2>14, <2>15, <3>1, <4>2 DEF WriterExact, OneWriter, Index
      <4>4. WriterCurrent'
        BY <2>2, <2>7, <2>12, <2>13, <2>14, <2>15, <3>1 DEF Findable, WriterCurrent, Index
      <4> QED
        BY <4>3, <4>4
    <3>2. CASE a.dies
      <4>1. \A e \in Conns : ~conn'[e].data.open
        BY <1>4, <3>2, AllClosedType, ClosedType
      <4> QED
        BY <4>1 DEF WriterExact, OneWriter, WriterCurrent
    <3> QED
      BY <2>9, <3>1, <3>2
  <2>18. IndexBehind'
    <3>1. PICK ix \in Seq(Nat) : ix = d.index
      BY DEF Block
    <3>2. 7 + 2 * r <= Len(ix)
      BY <3>1, EntryFacts
    <3>3. ~(Len(ix) <= HEADER_SIZE)
      BY <2>4, <3>2 DEF HEADER_SIZE
    <3> QED
      BY <2>13, <3>1, <3>3 DEF IndexBehind, Index
  <2>20. PICK b1 \in Block : b1 = a.block
    BY <2>9
  <2>21. ASSUME NEW k \in DOMAIN placed PROVE LeadsTo(b1, d, k, placed[k])
    <3>1. PICK n \in Nodes : n = placed[k]
      BY DEF TypeInv
    <3>2. LeadsTo(b, d, k, n)
      BY <2>2, <3>1 DEF Findable
    <3>3. Extends(d.index, d.index) /\ Grows(d.data, d.data) /\ d.index[COUNT] <= d.index[COUNT]
      <4>1. PICK ix \in Seq(Nat) : ix = d.index
        BY DEF Block
      <4>2. 7 + 2 * r <= Len(ix)
        BY <4>1, EntryFacts
      <4>3. ix[COUNT] \in Nat
        BY <2>4, <4>2 DEF COUNT
      <4>4. ix[COUNT] <= ix[COUNT]
        BY <4>3
      <4> QED
        BY <4>1, <4>4 DEF Extends, Grows, Block
    <3>4. LeadsTo(b1, d, k, n)
      BY <2>9, <2>12, <2>20, <3>2, <3>3, LeadsToKept
    <3> QED
      BY <3>1, <3>4
  <2>22. a.ok => LeadsTo(b1, d, a.id, op.node)
    <3>1. r < d.index[COUNT] /\ HoldsRecord(d.data, Offset(d.index, r), op.node)
      BY <1>1, <2>2, <2>3 DEF Findable, Index, Data
    <3> QED
      BY <2>5, <2>7, <2>9, <2>12, <2>20, <3>1 DEF LeadsTo
  <2>23. \A k \in DOMAIN placed' : LeadsTo(b1, d, k, placed'[k])
    BY <1>4, <2>21, <2>22
  <2> QED
    BY <1>2, <2>13, <2>16, <2>18, <2>20, <2>23 DEF Findable, Index
<1> QED
  BY <1>3, <1>4, InsertIndexEffect

LEMMA FindableUpdatesIndex ==
  ASSUME TypeInv, Findable, UpdateIndex, spoiled' = {}
  PROVE  Findable'
<1>1. op' = Idle /\ UNCHANGED conn /\ UNCHANGED <<block, placed, spoiled>>
  BY UpdateIndexEffect
<1>2. op'.pc = "idle"
  BY <1>1 DEF Idle
<1> QED
  BY <1>1, <1>2 DEF Findable, WriterExact, OneWriter, WriterCurrent, IndexBehind, Index

LEMMA FindableStep ==
  ASSUME TypeInv, Addressed, Findable, [Next]_vars, spoiled' = {}
  PROVE  Findable'
<1>1. CASE UNCHANGED vars
  BY <1>1 DEF vars, Findable, WriterExact, OneWriter, WriterCurrent, IndexBehind, Index, Data
<1>2. ASSUME NEW c \in Conns, NEW n \in Nodes, InsertNode(c, n) PROVE Findable'
  <2>1. PICK then : then = [pc |-> "insert", conn |-> c, node |-> n, id |-> 0, record |-> 0]
    OBVIOUS
  <2>2. then \in Call /\ then.node = n
    BY <2>1 DEF Call
  <2>3. WriteNode(c, DataBlock, n, then) /\ UNCHANGED placed
    BY <1>2, <2>1 DEF InsertNode
  <2> QED
    BY <2>2, <2>3, FindableWrites, Types
<1>3. ASSUME NEW c \in Conns, NEW n \in Nodes, NEW id \in DOMAIN placed, UpdateNode(c, id, n) PROVE Findable'
  <2>1. PICK then : then = [pc |-> "update", conn |-> c, node |-> n, id |-> id, record |-> 0]
    OBVIOUS
  <2>2. then \in Call /\ then.node = n
    BY <2>1 DEF Call, TypeInv
  <2>3. WriteNode(c, IndexBlock, n, then) /\ UNCHANGED placed
    BY <1>3, <2>1 DEF UpdateNode
  <2> QED
    BY <2>2, <2>3, FindableWrites, Types
<1>4. ASSUME NEW c \in Conns, NEW id, Find(c, id) \/ Remove(c, id) PROVE Findable'
  BY <1>1, <1>4, FindableDies DEF Find, Remove
<1>5. CASE Crash
  BY <1>5, FindableDies DEF Crash
<1> QED
  BY <1>1, <1>2, <1>3, <1>4, <1>5, FindableCreates, FindableDestroys, FindableOpens,
     FindableInsertsIndex, FindableUpdatesIndex DEF Next

\* A new connection counts what the index file counts.
LEMMA OpensCounted ==
  ASSUME NEW b \in Block, b.exists, Len(b.index) >= HEADER_SIZE
  PROVE  Opened(b) \in Handle /\ Opened(b).open /\ Opened(b).header[COUNT] = b.index[COUNT]
BY OpenedEffect

LEMMA FindableFound ==
  ASSUME TypeInv, Findable, NEW id \in DOMAIN placed
  PROVE  FreshFind(id) = placed[id]
<1>1. PICK b \in Block, d \in Block, n \in Nodes : b = block[IndexBlock] /\ d = block[DataBlock] /\ n = placed[id]
  BY Types DEF TypeInv
<1>2. b.exists /\ id \in Entries(b.index) /\ id < b.index[COUNT]
  BY <1>1 DEF Findable, LeadsTo
<1>3. PICK r \in Entries(d.index) : /\ r < d.index[COUNT]
                                    /\ HoldsRecord(b.data, Offset(b.index, id), IndexNode(DataBlock, r))
                                    /\ HoldsRecord(d.data, Offset(d.index, r), n)
  BY <1>1 DEF Findable, LeadsTo
<1>4. r \in Nat /\ d.index # <<>>
  <2>1. PICK ix \in Seq(Nat) : ix = d.index
    BY DEF Block
  <2>2. r \in Nat /\ 7 + 2 * r <= Len(ix)
    BY <2>1, EntryFacts
  <2>3. Len(ix) # 0
    BY <2>2
  <2> QED
    BY <2>1, <2>2, <2>3
<1>5. Len(b.index) >= HEADER_SIZE /\ d.exists /\ Len(d.index) >= HEADER_SIZE
  BY <1>1, <1>2, <1>4, Types DEF TypeInv, Files, Findable, Index
<1>6. Opened(b) \in Handle /\ id < Opened(b).header[COUNT]
  BY <1>2, <1>5, OpensCounted
<1>7. Opened(d) \in Handle /\ Opened(d).open /\ r < Opened(d).header[COUNT]
  BY <1>3, <1>5, OpensCounted
<1>8. PICK p \in Seq(GraphCell) : p = IndexNode(DataBlock, r)
  BY <1>4, PayloadTypes, Types
<1>9. QueryRecord(b, Opened(b), id).ok /\ QueryRecord(b, Opened(b), id).payload = p
  BY <1>2, <1>3, <1>6, <1>8, QueryReads
<1>10. Place(p).block = DataBlock /\ Place(p).record = r
  BY <1>4, <1>8, PlaceRead, Types
<1>11. QueryRecord(d, Opened(d), r).ok /\ QueryRecord(d, Opened(d), r).payload = n
  <2>1. n \in Seq(GraphCell)
    BY PayloadTypes
  <2> QED
    BY <1>3, <1>7, <2>1, QueryReads
<1>12. DataBlock \in Blocks
  BY Types
<1> QED
  BY <1>1, <1>7, <1>9, <1>10, <1>11, <1>12 DEF FreshFind, Found

\* While nothing spoils the database (one connection at a time inserts into a
\* new database, none updates, no roll-back cuts off entries and every index
\* entry that is written is written whole), a new connection finds every node
\* under the id its insert returned: through short writes of records, short
\* writes of headers and their roll-back, and a process that dies between any
\* two system calls of an append or between the two appends.
THEOREM InsertedStayFindable == Spec => []InsertedFindable
<1>1. Init => TypeInv /\ AddressInv /\ FindInv
  BY TypeInvInit, AddressedInit, FindableInit DEF AddressInv, FindInv
<1>2. TypeInv /\ AddressInv /\ FindInv /\ [Next]_vars => (TypeInv /\ AddressInv /\ FindInv)'
  <2> SUFFICES ASSUME TypeInv, AddressInv, FindInv, [Next]_vars PROVE (TypeInv /\ AddressInv /\ FindInv)'
    OBVIOUS
  <2>1. ASSUME spoiled' \subseteq {"reset", "updated"} PROVE Addressed'
    <3>1. Addressed
      BY <2>1, SpoiledStays DEF AddressInv
    <3> QED
      BY <2>1, <3>1, AddressedStep
  <2>2. ASSUME spoiled' = {} PROVE Findable'
    <3>1. spoiled = {}
      BY <2>2, SpoiledStays
    <3>2. Addressed /\ Findable
      BY <3>1 DEF AddressInv, FindInv
    <3> QED
      BY <2>2, <3>2, FindableStep
  <2> QED
    BY <2>1, <2>2, TypeInvStep DEF AddressInv, FindInv
<1>3. TypeInv /\ FindInv => InsertedFindable
  BY FindableFound DEF FindInv, InsertedFindable
<1> QED
  BY <1>1, <1>2, <1>3, PTL DEF Spec
=============================================================================
