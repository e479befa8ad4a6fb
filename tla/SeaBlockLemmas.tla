--------------------------- MODULE SeaBlockLemmas ----------------------------
(* What the operations on files and records return, for every file and      *)
(* every payload: cited by the proofs about the block store.                *)
EXTENDS SeaBlockFormat, FiniteSetTheorems, TLAPS

-----------------------------------------------------------------------------
(* What the calls on files return, for every file.                         *)

\* A write leaves the cells it does not cover, and puts those it is given
\* where it is told to (write() of src/src/block/time).
LEMMA WriteAtProperties ==
  ASSUME NEW S, NEW f \in Seq(S), NEW pos \in Nat, NEW b \in Seq(S), NEW zero \in S
  PROVE  /\ WriteAt(f, pos, b, zero) \in Seq(S)
         /\ pos + Len(b) >= Len(f) => Len(WriteAt(f, pos, b, zero)) = pos + Len(b)
         /\ pos + Len(b) <= Len(f) => Len(WriteAt(f, pos, b, zero)) = Len(f)
         /\ \A i \in 1 .. Len(b) : WriteAt(f, pos, b, zero)[pos + i] = b[i]
         /\ \A i \in 1 .. Len(f) : i <= pos \/ i > pos + Len(b) => WriteAt(f, pos, b, zero)[i] = f[i]
<1> DEFINE n == IF pos + Len(b) > Len(f) THEN pos + Len(b) ELSE Len(f)
           w == WriteAt(f, pos, b, zero)
<1>1. n \in Nat /\ Len(b) \in Nat /\ Len(f) \in Nat
  OBVIOUS
<1>2. w = [i \in 1 .. n |-> IF i \in pos + 1 .. pos + Len(b) THEN b[i - pos]
                            ELSE IF i \in 1 .. Len(f) THEN f[i] ELSE zero]
  BY DEF WriteAt
<1>3. w \in [1 .. n -> S]
  BY <1>1, <1>2
<1>4. w \in Seq(S) /\ Len(w) = n
  <2> HIDE DEF w, n
  <2> QED
    BY <1>1, <1>3
<1>5. ASSUME NEW i \in 1 .. Len(b) PROVE w[pos + i] = b[i]
  BY <1>1, <1>2
<1>6. ASSUME NEW i \in 1 .. Len(f), i <= pos \/ i > pos + Len(b) PROVE w[i] = f[i]
  <2>1. i \in 1 .. n /\ ~(i \in pos + 1 .. pos + Len(b))
    BY <1>1, <1>6
  <2> QED
    BY <1>2, <2>1
<1> QED
  BY <1>1, <1>4, <1>5, <1>6

\* A read within the file returns the cells it names, a read that reaches
\* the end of the file is short (read() of src/src/block/time).
LEMMA ReadAtProperties ==
  ASSUME NEW S, NEW f \in Seq(S), NEW pos \in Nat, NEW n \in Nat
  PROVE  /\ ReadAt(f, pos, n) \in Seq(S)
         /\ pos + n <= Len(f) => /\ Len(ReadAt(f, pos, n)) = n
                                 /\ \A i \in 1 .. n : ReadAt(f, pos, n)[i] = f[pos + i]
         /\ pos + n > Len(f) /\ n > 0 => Len(ReadAt(f, pos, n)) < n
BY SMTT(30) DEF ReadAt

\* Truncation to a length within the file keeps the cells before it.
LEMMA TruncateProperties ==
  ASSUME NEW S, NEW f \in Seq(S), NEW n \in Nat, NEW zero \in S
  PROVE  /\ Truncate(f, n, zero) \in Seq(S)
         /\ Len(Truncate(f, n, zero)) = n
         /\ \A i \in 1 .. Len(f) : i <= n => Truncate(f, n, zero)[i] = f[i]
<1>1. \A i \in 1 .. n : (IF i \in 1 .. Len(f) THEN f[i] ELSE zero) \in S
  OBVIOUS
<1> QED
  BY <1>1 DEF Truncate

\* What a short write has written is a proper prefix.
LEMMA ShortWritesProperties ==
  ASSUME NEW S, NEW b \in Seq(S), NEW w \in ShortWrites(b)
  PROVE  /\ w \in Seq(S)
         /\ Len(w) < Len(b)
         /\ \A i \in 1 .. Len(w) : w[i] = b[i]
<1>1. PICK k \in 0 .. Len(b) - 1 : w = SubSeq(b, 1, k)
  BY DEF ShortWrites
<1> QED
  BY <1>1

\* What a write call has put in the file when it returns.
LEMMA WrittenProperties ==
  ASSUME NEW S, NEW b \in Seq(S), NEW w \in {b} \cup ShortWrites(b)
  PROVE  /\ w \in Seq(S)
         /\ Len(w) \in 0 .. Len(b)
         /\ \A i \in 1 .. Len(w) : w[i] = b[i]
         /\ w # b => Len(w) < Len(b)
<1>1. CASE w = b
  BY <1>1
<1>2. CASE w \in ShortWrites(b)
  <2>1. PICK k \in 0 .. Len(b) - 1 : w = SubSeq(b, 1, k)
    BY <1>2 DEF ShortWrites
  <2> QED
    BY <2>1
<1> QED
  BY <1>1, <1>2

\* A run of cells within a file.
LEMMA RunProperties ==
  ASSUME NEW S, NEW f \in Seq(S), NEW p \in Nat, NEW l \in Nat, p + l <= Len(f)
  PROVE  /\ SubSeq(f, p + 1, p + l) \in Seq(S)
         /\ Len(SubSeq(f, p + 1, p + l)) = l
         /\ \A i \in 1 .. l : SubSeq(f, p + 1, p + l)[i] = f[p + i]
OBVIOUS

-----------------------------------------------------------------------------
(* The record format.                                                      *)

\* A record is two cells longer than its payload, and made of cells
\* (the buffer sea_block_data_append writes).
LEMMA RecordProperties ==
  ASSUME NEW p \in Seq(Cell)
  PROVE  /\ Record(p) \in Seq(Cell)
         /\ Len(Record(p)) = Len(p) + 2
         /\ Record(p)[1] = HeaderCell(Len(p))
         /\ \A i \in 1 .. Len(p) : Record(p)[i + 1] = p[i]
<1>1. HeaderCell(Len(p)) \in Cell /\ TailCell \in Cell
  BY FormatAssumption DEF HeaderCell, TailCell, Cell
<1> QED
  BY <1>1 DEF Record

\* A read at the offset of a whole record, on a descriptor nothing was read
\* from, returns its payload (sea_block_data_query_by_offsets).
LEMMA ReadRecordWhole ==
  ASSUME NEW f \in Seq(Cell), NEW off \in Nat, NEW p \in Seq(Cell), HoldsRecord(f, off, p)
  PROVE  /\ ReadRecord(f, 0, off).ok
         /\ ReadRecord(f, 0, off).payload = p
<1> DEFINE header == ReadAt(f, HeaderPos(0, off), 1)
           payload == ReadAt(f, PayloadPos(off), Len(p))
<1>1. off + Len(p) + 2 <= Len(f) /\ Len(p) \in Nat /\ Len(f) \in Nat
  BY RecordProperties, SMTT(30) DEF HoldsRecord
<1>2. f[off + 1] = HeaderCell(Len(p))
  <2>1. 1 \in 1 .. Len(Record(p)) /\ Record(p)[1] = HeaderCell(Len(p))
    BY RecordProperties, <1>1
  <2> QED
    BY <2>1 DEF HoldsRecord
<1>3. \A i \in 1 .. Len(p) : f[off + 1 + i] = p[i]
  <2> TAKE i \in 1 .. Len(p)
  <2>1. i + 1 \in 1 .. Len(Record(p)) /\ Record(p)[i + 1] = p[i]
    BY RecordProperties, <1>1
  <2>2. off + (i + 1) = off + 1 + i
    BY <1>1
  <2> QED
    BY <2>1, <2>2 DEF HoldsRecord
<1>4. Len(header) = 1 /\ header[1] = HeaderCell(Len(p))
  BY <1>1, <1>2 DEF ReadAt, HeaderPos
<1>5. payload = p
  <2>1. payload \in Seq(Cell) /\ Len(payload) = Len(p)
    BY <1>1 DEF ReadAt, PayloadPos
  <2>2. \A i \in 1 .. Len(p) : payload[i] = p[i]
    BY <1>1, <1>3 DEF ReadAt, PayloadPos
  <2> QED
    BY <2>1, <2>2
<1>6. header[1].length = Len(p) /\ header # <<>>
  BY <1>4 DEF HeaderCell
<1> QED
  BY <1>5, <1>6 DEF ReadRecord

LEMMA EmptyPayloadType == <<>> \in Seq(Cell)
OBVIOUS

LEMMA HoleType == HoleCell \in Cell
BY DEF HoleCell, PayloadCell, Cell

\* The two files keep the types of what is written to them.
LEMMA DataWriteType ==
  ASSUME NEW f \in Seq(Cell), NEW pos \in Nat, NEW b \in Seq(Cell)
  PROVE  WriteAt(f, pos, b, HoleCell) \in Seq(Cell)
BY HoleType, WriteAtProperties

\* A write at the end of the data file appends (lseek SEEK_END, then write).
LEMMA DataAppend ==
  ASSUME NEW f \in Seq(Cell), NEW b \in Seq(Cell)
  PROVE  /\ WriteAt(f, Len(f), b, HoleCell) \in Seq(Cell)
         /\ Len(WriteAt(f, Len(f), b, HoleCell)) = Len(f) + Len(b)
         /\ \A i \in 1 .. Len(b) : WriteAt(f, Len(f), b, HoleCell)[Len(f) + i] = b[i]
         /\ \A i \in 1 .. Len(f) : WriteAt(f, Len(f), b, HoleCell)[i] = f[i]
<1> DEFINE n == Len(f) + Len(b)
           w == WriteAt(f, Len(f), b, HoleCell)
<1>1. n \in Nat /\ Len(b) \in Nat /\ Len(f) \in Nat
  OBVIOUS
<1>2. w = [i \in 1 .. n |-> IF i \in Len(f) + 1 .. n THEN b[i - Len(f)]
                            ELSE IF i \in 1 .. Len(f) THEN f[i] ELSE HoleCell]
  <2>1. (IF n > Len(f) THEN n ELSE Len(f)) = n
    BY <1>1
  <2> QED
    BY <2>1 DEF WriteAt
<1>3. \A i \in 1 .. n : w[i] \in Cell
  BY <1>1, <1>2, HoleType
<1>4. w \in Seq(Cell) /\ Len(w) = n
  BY <1>1, <1>2, <1>3
<1>5. ASSUME NEW i \in 1 .. Len(b) PROVE w[Len(f) + i] = b[i]
  BY <1>1, <1>2
<1>6. ASSUME NEW i \in 1 .. Len(f) PROVE w[i] = f[i]
  <2>1. i \in 1 .. n /\ ~(i \in Len(f) + 1 .. n)
    BY <1>1
  <2> QED
    BY <1>2, <2>1
<1> QED
  BY <1>4, <1>5, <1>6

LEMMA IndexWriteType ==
  ASSUME NEW f \in Seq(Nat), NEW pos \in Nat, NEW b \in Seq(Nat)
  PROVE  WriteAt(f, pos, b, 0) \in Seq(Nat)
BY WriteAtProperties

\* A write at the end of the index file appends.
LEMMA IndexAppend ==
  ASSUME NEW f \in Seq(Nat), NEW b \in Seq(Nat)
  PROVE  /\ WriteAt(f, Len(f), b, 0) \in Seq(Nat)
         /\ Len(WriteAt(f, Len(f), b, 0)) = Len(f) + Len(b)
         /\ \A i \in 1 .. Len(b) : WriteAt(f, Len(f), b, 0)[Len(f) + i] = b[i]
         /\ \A i \in 1 .. Len(f) : WriteAt(f, Len(f), b, 0)[i] = f[i]
<1> DEFINE n == Len(f) + Len(b)
           word(i) == IF i \in Len(f) + 1 .. n THEN b[i - Len(f)]
                      ELSE IF i \in 1 .. Len(f) THEN f[i] ELSE 0
           w == WriteAt(f, Len(f), b, 0)
<1>1. n \in Nat /\ Len(b) \in Nat /\ Len(f) \in Nat
  OBVIOUS
<1>2. w = [i \in 1 .. n |-> word(i)]
  <2>1. (IF n > Len(f) THEN n ELSE Len(f)) = n
    BY <1>1
  <2> QED
    BY <2>1 DEF WriteAt
<1>3. ASSUME NEW i \in 1 .. n PROVE word(i) \in Nat
  <2>1. CASE i \in Len(f) + 1 .. n
    <3>1. i - Len(f) \in 1 .. Len(b)
      BY <1>1, <2>1
    <3> QED
      BY <2>1, <3>1
  <2>2. CASE ~(i \in Len(f) + 1 .. n)
    BY <2>2
  <2> QED
    BY <2>1, <2>2
<1>4. w \in Seq(Nat) /\ Len(w) = n /\ \A i \in 1 .. n : w[i] = word(i)
  <2> HIDE DEF word, w, n
  <2> QED
    BY <1>1, <1>2, <1>3
<1>5. ASSUME NEW i \in 1 .. Len(b) PROVE w[Len(f) + i] = b[i]
  <2>1. Len(f) + i \in 1 .. n /\ Len(f) + i \in Len(f) + 1 .. n /\ (Len(f) + i) - Len(f) = i
    BY <1>1
  <2> HIDE DEF w
  <2> QED
    BY <1>4, <2>1
<1>6. ASSUME NEW i \in 1 .. Len(f) PROVE w[i] = f[i]
  <2>1. i \in 1 .. n /\ ~(i \in Len(f) + 1 .. n)
    BY <1>1
  <2> HIDE DEF w
  <2> QED
    BY <1>4, <2>1
<1> QED
  BY <1>4, <1>5, <1>6

\* A write at the start of the index file leaves what is behind it.
LEMMA IndexHeaderWrite ==
  ASSUME NEW f \in Seq(Nat), NEW b \in Seq(Nat)
  PROVE  /\ WriteAt(f, 0, b, 0) \in Seq(Nat)
         /\ Len(WriteAt(f, 0, b, 0)) = IF Len(b) > Len(f) THEN Len(b) ELSE Len(f)
         /\ \A i \in 1 .. Len(b) : WriteAt(f, 0, b, 0)[i] = b[i]
         /\ \A i \in 1 .. Len(f) : i > Len(b) => WriteAt(f, 0, b, 0)[i] = f[i]
<1> DEFINE n == IF Len(b) > Len(f) THEN Len(b) ELSE Len(f)
           word(i) == IF i \in 1 .. Len(b) THEN b[i] ELSE IF i \in 1 .. Len(f) THEN f[i] ELSE 0
           w == WriteAt(f, 0, b, 0)
<1>1. n \in Nat /\ Len(b) \in Nat /\ Len(f) \in Nat /\ n >= Len(b) /\ n >= Len(f)
  OBVIOUS
<1>2. w = [i \in 1 .. n |-> word(i)]
  <2>1. 0 + Len(b) = Len(b) /\ 0 + 1 = 1
    BY <1>1
  <2>2. \A i \in 1 .. n : i - 0 = i
    BY <1>1
  <2> QED
    BY <2>1, <2>2 DEF WriteAt
<1>3. ASSUME NEW i \in 1 .. n PROVE word(i) \in Nat
  OBVIOUS
<1>4. w \in Seq(Nat) /\ Len(w) = n /\ \A i \in 1 .. n : w[i] = word(i)
  <2> HIDE DEF word, w, n
  <2> QED
    BY <1>1, <1>2, <1>3
<1>5. ASSUME NEW i \in 1 .. Len(b) PROVE w[i] = b[i]
  <2>1. i \in 1 .. n
    BY <1>1
  <2> HIDE DEF w, n
  <2> QED
    BY <1>4, <2>1
<1>6. ASSUME NEW i \in 1 .. Len(f), i > Len(b) PROVE w[i] = f[i]
  <2>1. i \in 1 .. n /\ ~(i \in 1 .. Len(b))
    BY <1>1, <1>6
  <2> HIDE DEF w, n
  <2> QED
    BY <1>4, <2>1
<1> QED
  BY <1>4, <1>5, <1>6

LEMMA IndexTruncate ==
  ASSUME NEW f \in Seq(Nat), NEW n \in Nat
  PROVE  /\ Len(Truncate(f, n, 0)) = n
         /\ \A i \in 1 .. Len(f) : i <= n => Truncate(f, n, 0)[i] = f[i]
<1>1. Truncate(f, n, 0) = [i \in 1 .. n |-> IF i \in 1 .. Len(f) THEN f[i] ELSE 0]
  BY DEF Truncate
<1> QED
  BY <1>1

\* What is whole stays whole while the file only grows at its end.
LEMMA HoldsRecordStable ==
  ASSUME NEW f \in Seq(Cell), NEW g \in Seq(Cell), NEW off \in Nat, NEW p \in Seq(Cell),
         Len(f) <= Len(g), \A i \in 1 .. Len(f) : g[i] = f[i],
         HoldsRecord(f, off, p)
  PROVE  HoldsRecord(g, off, p)
<1>1. Len(Record(p)) \in Nat
  BY RecordProperties
<1>2. \A i \in 1 .. Len(Record(p)) : off + i \in 1 .. Len(f)
  BY <1>1 DEF HoldsRecord
<1>3. off + Len(Record(p)) <= Len(g)
  BY <1>1 DEF HoldsRecord
<1>4. ASSUME NEW i \in 1 .. Len(Record(p)) PROVE g[off + i] = Record(p)[i]
  BY <1>2 DEF HoldsRecord
<1> QED
  BY <1>3, <1>4 DEF HoldsRecord

\* A read of a record yields cells, and a position.
LEMMA ReadRecordType ==
  ASSUME NEW f \in Seq(Cell), NEW dpos \in Nat, NEW off \in Nat
  PROVE  /\ ReadRecord(f, dpos, off).ok \in BOOLEAN
         /\ ReadRecord(f, dpos, off).payload \in Seq(Cell)
         /\ ReadRecord(f, dpos, off).dpos \in Nat
<1> DEFINE hpos == HeaderPos(dpos, off)
           header == ReadAt(f, hpos, 1)
           n == header[1].length
           payload == ReadAt(f, PayloadPos(off), n)
<1>1. hpos \in Nat /\ PayloadPos(off) \in Nat
  BY DEF HeaderPos, PayloadPos
<1>2. header \in Seq(Cell)
  BY <1>1, ReadAtProperties
<1> HIDE DEF header
<1>3. CASE header = <<>>
  <2>1. ReadRecord(f, dpos, off) = [ok |-> FALSE, payload |-> <<>>, dpos |-> hpos]
    BY <1>3 DEF ReadRecord, header
  <2> QED
    BY <1>1, <2>1, EmptyPayloadType
<1>4. CASE header # <<>>
  <2>1. n \in Nat
    <3>1. 1 \in 1 .. Len(header)
      BY <1>2, <1>4
    <3>2. header[1] \in Cell
      BY <1>2, <3>1
    <3> QED
      BY <3>2 DEF Cell
  <2> HIDE DEF n
  <2>2. payload \in Seq(Cell)
    BY <1>1, <2>1, ReadAtProperties
  <2>3. ReadRecord(f, dpos, off) = [ok |-> Len(payload) = n, payload |-> payload,
                                    dpos |-> PayloadPos(off) + Len(payload)]
    BY <1>4 DEF ReadRecord, header, n
  <2> HIDE DEF payload
  <2>4. Len(payload) \in Nat
    BY <2>2
  <2> QED
    BY <1>1, <2>1, <2>2, <2>3, <2>4
<1> QED
  BY <1>3, <1>4

-----------------------------------------------------------------------------
(* The queries of the index yield lists of offsets.                        *)

Header == [1 .. HEADER_SIZE -> Nat]

LEMMA QueryByRecordIdType ==
  ASSUME NEW header \in Header, NEW index \in Seq(Nat), NEW id \in Nat
  PROVE  /\ IndexQueryByRecordId(header, index, id).null \in BOOLEAN
         /\ IndexQueryByRecordId(header, index, id).offs \in Seq(Nat)
<1> DEFINE entry == ReadAt(index, EntryAt(id), ENTRY_SIZE)
<1>1. EntryAt(id) \in Nat /\ ENTRY_SIZE \in Nat
  BY DEF EntryAt, HEADER_SIZE, ENTRY_SIZE
<1>2. entry \in Seq(Nat)
  BY <1>1, ReadAtProperties
<1>3. Len(entry) = ENTRY_SIZE => entry[2] \in Nat
  BY <1>2 DEF ENTRY_SIZE
<1>4. CASE Len(entry) = ENTRY_SIZE /\ ~PastEnd(header, id)
  <2>1. IndexQueryByRecordId(header, index, id) = OffsetList(<<entry[2]>>)
    BY <1>4 DEF IndexQueryByRecordId
  <2> QED
    BY <1>3, <1>4, <2>1 DEF OffsetList
<1>5. CASE Len(entry) # ENTRY_SIZE \/ PastEnd(header, id)
  <2>1. \/ IndexQueryByRecordId(header, index, id) = NoList
        \/ IndexQueryByRecordId(header, index, id) = OffsetList(<<>>)
    BY <1>5 DEF IndexQueryByRecordId
  <2>2. NoList.null \in BOOLEAN /\ NoList.offs = <<>>
    BY DEF NoList
  <2>3. OffsetList(<<>>).null \in BOOLEAN /\ OffsetList(<<>>).offs = <<>>
    BY DEF OffsetList
  <2>4. <<>> \in Seq(Nat)
    OBVIOUS
  <2> QED
    BY <2>1, <2>2, <2>3, <2>4
<1> QED
  BY <1>4, <1>5

LEMMA QueryByCountType ==
  ASSUME NEW header \in Header, NEW index \in Seq(Nat), NEW first \in Nat, NEW count \in Nat
  PROVE  /\ IndexQueryByCount(header, index, first, count).null \in BOOLEAN
         /\ IndexQueryByCount(header, index, first, count).offs \in Seq(Nat)
<1> DEFINE n == ReadCount(header, first, count)
           entries == ReadAt(index, EntryAt(first), ENTRY_SIZE * n)
           offs == [i \in 1 .. n |-> entries[ENTRY_SIZE * i]]
<1>1. CASE PastEnd(header, first)
  BY <1>1 DEF IndexQueryByCount, NoList
<1>2. CASE ~PastEnd(header, first)
  <2>1. n \in Nat
    BY <1>2 DEF ReadCount, PastEnd, Header, HEADER_SIZE, COUNT
  <2> HIDE DEF n
  <2>2. EntryAt(first) \in Nat /\ ENTRY_SIZE * n \in Nat
    BY <2>1 DEF EntryAt, HEADER_SIZE, ENTRY_SIZE
  <2>3. entries \in Seq(Nat)
    BY <2>2, ReadAtProperties
  <2> HIDE DEF entries
  <2>4. Len(entries) = ENTRY_SIZE * n => offs \in Seq(Nat)
    BY <2>1, <2>3 DEF ENTRY_SIZE
  <2>5. IndexQueryByCount(header, index, first, count) =
          OffsetList(IF Len(entries) = ENTRY_SIZE * n THEN offs ELSE <<>>)
    BY <1>2 DEF IndexQueryByCount, n, entries
  <2> HIDE DEF offs
  <2> QED
    BY <2>4, <2>5 DEF OffsetList
<1> QED
  BY <1>1, <1>2

LEMMA QueryByTimeType ==
  ASSUME NEW header \in Header, NEW index \in Seq(Nat), NEW stop \in Nat, NEW first \in Nat
  PROVE  /\ IndexQueryByTime(header, index, stop, first).null \in BOOLEAN
         /\ IndexQueryByTime(header, index, stop, first).offs \in Seq(Nat)
<1> DEFINE n == header[COUNT] - first
           entries == ReadAt(index, EntryAt(first), ENTRY_SIZE * n)
           whole == Len(entries) \div ENTRY_SIZE
           taken == {k \in 1 .. whole : \A i \in 1 .. k : BeforeStop(entries[ENTRY_SIZE * i - 1], stop)}
           offs == [i \in 1 .. Cardinality(taken) |-> entries[ENTRY_SIZE * i]]
<1>1. CASE PastEnd(header, first)
  BY <1>1 DEF IndexQueryByTime, NoList
<1>2. CASE ~PastEnd(header, first)
  <2>1. n \in Nat
    BY <1>2 DEF PastEnd, Header, HEADER_SIZE, COUNT
  <2> HIDE DEF n
  <2>2. EntryAt(first) \in Nat /\ ENTRY_SIZE * n \in Nat
    BY <2>1 DEF EntryAt, HEADER_SIZE, ENTRY_SIZE
  <2>3. entries \in Seq(Nat)
    BY <2>2, ReadAtProperties
  <2> HIDE DEF entries
  <2>4. whole \in Nat /\ ENTRY_SIZE * whole <= Len(entries)
    BY <2>3 DEF ENTRY_SIZE
  <2> HIDE DEF whole
  <2>5. Cardinality(taken) \in Nat /\ Cardinality(taken) <= whole
    <3>1. IsFiniteSet(1 .. whole) /\ Cardinality(1 .. whole) = whole
      BY <2>4, FS_Interval
    <3>2. taken \subseteq 1 .. whole
      OBVIOUS
    <3> HIDE DEF taken
    <3> QED
      BY <3>1, <3>2, FS_Subset, FS_CardinalityType
  <2> HIDE DEF taken
  <2>6. offs \in Seq(Nat)
    BY <2>3, <2>4, <2>5, SMTT(30) DEF ENTRY_SIZE
  <2>7. IndexQueryByTime(header, index, stop, first) = OffsetList(offs)
    BY <1>2 DEF IndexQueryByTime, n, entries, whole, taken
  <2> HIDE DEF offs
  <2> QED
    BY <2>6, <2>7 DEF OffsetList
<1> QED
  BY <1>1, <1>2

-----------------------------------------------------------------------------
(* An index whose entries all address whole records.                       *)

\* Where the entry of record id says its record is, and where that ends.
Offset(ix, id) == ix[EntryAt(id) + 2]
RecordEnd(f, off) == off + f[off + 1].length + 2

\* The n entries of the index ix address records of the data file f whose
\* payloads are in C; they follow each other in the order of their ids.
Whole(C, ix, f, n) ==
  /\ Len(ix) = EntryAt(n)
  /\ \A id \in 0 .. n - 1 : \E p \in C : HoldsRecord(f, Offset(ix, id), p)
  /\ \A i, j \in 0 .. n - 1 : i < j => RecordEnd(f, Offset(ix, i)) <= Offset(ix, j)

\* The record that will be addressed next is behind them.
Behind(ix, f, n, off) == \A id \in 0 .. n - 1 : RecordEnd(f, Offset(ix, id)) <= off

\* Entries are two words wide, behind a header of five.
LEMMA EntryArithmetic ==
  /\ HEADER_SIZE = 5 /\ ENTRY_SIZE = 2 /\ COUNT = 5
  /\ \A n \in Nat : EntryAt(n) = 5 + 2 * n
  /\ \A m, n \in Nat : m < n => EntryAt(m) + 2 <= EntryAt(n)
BY DEF EntryAt, HEADER_SIZE, ENTRY_SIZE, COUNT

\* Where an entry is in the index.
LEMMA OffsetFacts ==
  ASSUME NEW ix \in Seq(Nat), NEW n \in Nat, Len(ix) >= EntryAt(n), NEW id \in 0 .. n - 1
  PROVE  /\ EntryAt(id) + 2 \in 6 .. EntryAt(n)
         /\ EntryAt(id) + 2 \in 1 .. Len(ix)
         /\ Offset(ix, id) \in Nat
<1>1. EntryAt(n) = 5 + 2 * n /\ EntryAt(id) = 5 + 2 * id /\ id \in Nat /\ id < n
  BY EntryArithmetic
<1>2. EntryAt(id) + 2 \in 6 .. EntryAt(n) /\ EntryAt(id) + 2 \in 1 .. Len(ix)
  <2>1. Len(ix) \in Nat
    OBVIOUS
  <2> QED
    BY <1>1, <2>1
<1> QED
  BY <1>2 DEF Offset

\* A whole record begins with its length and ends within the file.
LEMMA HeldEnd ==
  ASSUME NEW f \in Seq(Cell), NEW off \in Nat, NEW p \in Seq(Cell), HoldsRecord(f, off, p)
  PROVE  /\ f[off + 1] = HeaderCell(Len(p))
         /\ RecordEnd(f, off) = off + Len(p) + 2
         /\ RecordEnd(f, off) <= Len(f)
         /\ off + 1 \in 1 .. Len(f)
<1>1. Len(Record(p)) = Len(p) + 2 /\ Record(p)[1] = HeaderCell(Len(p)) /\ Len(p) \in Nat
  BY RecordProperties
<1>2. f[off + 1] = HeaderCell(Len(p))
  <2>1. 1 \in 1 .. Len(Record(p))
    BY <1>1
  <2> QED
    BY <1>1, <2>1 DEF HoldsRecord
<1>3. RecordEnd(f, off) = off + Len(p) + 2
  BY <1>2 DEF RecordEnd, HeaderCell
<1>4. off + (Len(p) + 2) <= Len(f)
  BY <1>1 DEF HoldsRecord
<1> QED
  BY <1>1, <1>2, <1>3, <1>4

\* The record of a given offset has one payload.
LEMMA HeldUnique ==
  ASSUME NEW f \in Seq(Cell), NEW off \in Nat, NEW p \in Seq(Cell), NEW q \in Seq(Cell),
         HoldsRecord(f, off, p), HoldsRecord(f, off, q)
  PROVE  p = q
<1>1. ReadRecord(f, 0, off).payload = p /\ ReadRecord(f, 0, off).payload = q
  BY ReadRecordWhole
<1> QED
  BY <1>1

\* Every entry of a whole index addresses a record.
LEMMA WholeRecord ==
  ASSUME NEW C \in SUBSET Seq(Cell), NEW ix \in Seq(Nat), NEW f \in Seq(Cell), NEW n \in Nat,
         Whole(C, ix, f, n), NEW id \in 0 .. n - 1
  PROVE  /\ Offset(ix, id) \in Nat /\ Offset(ix, id) + 1 \in 1 .. Len(f)
         /\ RecordEnd(f, Offset(ix, id)) \in Nat /\ RecordEnd(f, Offset(ix, id)) <= Len(f)
         /\ \E p \in C : HoldsRecord(f, Offset(ix, id), p)
<1>1. Offset(ix, id) \in Nat
  <2>1. Len(ix) >= EntryAt(n)
    BY EntryArithmetic DEF Whole
  <2> QED
    BY <2>1, OffsetFacts
<1>2. PICK p \in C : HoldsRecord(f, Offset(ix, id), p)
  BY DEF Whole
<1>3. /\ RecordEnd(f, Offset(ix, id)) = Offset(ix, id) + Len(p) + 2
      /\ RecordEnd(f, Offset(ix, id)) <= Len(f) /\ Offset(ix, id) + 1 \in 1 .. Len(f)
  BY <1>1, <1>2, HeldEnd
<1>4. Len(p) \in Nat
  OBVIOUS
<1> QED
  BY <1>1, <1>2, <1>3, <1>4

\* Appending to the data file keeps the records.
LEMMA WholeGrows ==
  ASSUME NEW C \in SUBSET Seq(Cell), NEW ix \in Seq(Nat), NEW f \in Seq(Cell), NEW n \in Nat,
         Whole(C, ix, f, n),
         NEW g \in Seq(Cell), Len(f) <= Len(g), \A i \in 1 .. Len(f) : g[i] = f[i]
  PROVE  Whole(C, ix, g, n) /\ Behind(ix, g, n, Len(f))
<1>1. ASSUME NEW id \in 0 .. n - 1
      PROVE  /\ \E p \in C : HoldsRecord(g, Offset(ix, id), p)
             /\ RecordEnd(g, Offset(ix, id)) = RecordEnd(f, Offset(ix, id))
             /\ RecordEnd(f, Offset(ix, id)) <= Len(f)
  <2>1. /\ Offset(ix, id) \in Nat /\ Offset(ix, id) + 1 \in 1 .. Len(f)
        /\ RecordEnd(f, Offset(ix, id)) <= Len(f)
    BY WholeRecord
  <2>2. PICK p \in C : HoldsRecord(f, Offset(ix, id), p)
    BY WholeRecord
  <2>3. HoldsRecord(g, Offset(ix, id), p)
    BY <2>1, <2>2, HoldsRecordStable
  <2> QED
    BY <2>1, <2>3 DEF RecordEnd
<1>2. Whole(C, ix, g, n)
  BY <1>1 DEF Whole
<1> QED
  BY <1>1, <1>2 DEF Behind

\* An entry behind the others takes the next id.
LEMMA WholeEntry ==
  ASSUME NEW C \in SUBSET Seq(Cell), NEW ix \in Seq(Nat), NEW f \in Seq(Cell), NEW n \in Nat,
         Whole(C, ix, f, n),
         NEW off \in Nat, NEW p \in C, HoldsRecord(f, off, p), Behind(ix, f, n, off),
         NEW iy \in Seq(Nat), Len(iy) = Len(ix) + 2, iy[Len(ix) + 2] = off,
         \A i \in 1 .. Len(ix) : iy[i] = ix[i]
  PROVE  /\ Whole(C, iy, f, n + 1)
         /\ Offset(iy, n) = off
         /\ \A id \in 0 .. n - 1 : Offset(iy, id) = Offset(ix, id)
<1>1. Len(ix) = EntryAt(n) /\ EntryAt(n) = 5 + 2 * n /\ EntryAt(n + 1) = 5 + 2 * (n + 1)
  BY EntryArithmetic DEF Whole
<1>2. Offset(iy, n) = off
  BY <1>1 DEF Offset
<1>3. ASSUME NEW id \in 0 .. n - 1 PROVE Offset(iy, id) = Offset(ix, id)
  <2>1. EntryAt(id) + 2 \in 1 .. Len(ix)
    <3>1. Len(ix) >= EntryAt(n)
      BY <1>1
    <3> QED
      BY <3>1, OffsetFacts
  <2> QED
    BY <2>1 DEF Offset
<1>4. Len(iy) = EntryAt(n + 1)
  BY <1>1
<1>5. \A id \in 0 .. (n + 1) - 1 : id = n \/ id \in 0 .. n - 1
  OBVIOUS
<1>6. ASSUME NEW id \in 0 .. (n + 1) - 1 PROVE \E q \in C : HoldsRecord(f, Offset(iy, id), q)
  BY <1>2, <1>3, <1>5 DEF Whole
<1>7. ASSUME NEW i \in 0 .. (n + 1) - 1, NEW j \in 0 .. (n + 1) - 1, i < j
      PROVE  RecordEnd(f, Offset(iy, i)) <= Offset(iy, j)
  <2>1. i \in 0 .. n - 1
    BY <1>7
  <2>2. CASE j = n
    BY <1>2, <1>3, <2>1, <2>2 DEF Behind
  <2>3. CASE j # n
    <3>1. j \in 0 .. n - 1
      BY <1>5, <2>3
    <3> QED
      BY <1>3, <1>7, <2>1, <3>1 DEF Whole
  <2> QED
    BY <2>2, <2>3
<1> QED
  BY <1>2, <1>3, <1>4, <1>6, <1>7 DEF Whole

\* Writing the header, and cutting the last entries off, keeps the records.
LEMMA WholeCut ==
  ASSUME NEW C \in SUBSET Seq(Cell), NEW ix \in Seq(Nat), NEW f \in Seq(Cell), NEW n \in Nat,
         Whole(C, ix, f, n),
         NEW m \in Nat, m <= n, NEW iy \in Seq(Nat), Len(iy) = EntryAt(m),
         \A i \in 6 .. EntryAt(m) : iy[i] = ix[i]
  PROVE  /\ Whole(C, iy, f, m)
         /\ \A id \in 0 .. m - 1 : Offset(iy, id) = Offset(ix, id)
<1>1. ASSUME NEW id \in 0 .. m - 1 PROVE Offset(iy, id) = Offset(ix, id) /\ id \in 0 .. n - 1
  <2>1. EntryAt(id) + 2 \in 6 .. EntryAt(m)
    <3>1. Len(iy) >= EntryAt(m)
      BY EntryArithmetic
    <3> QED
      BY <3>1, OffsetFacts
  <2> QED
    BY <2>1 DEF Offset
<1>2. Whole(C, iy, f, m)
  BY <1>1 DEF Whole
<1> QED
  BY <1>1, <1>2

\* A record that is rewritten in place, wholly or in part: p over q.
Torn(p, q, k) == SubSeq(p, 1, k) \o SubSeq(q, k + 1, Len(q))

\* It has their length, the cells of p up to k and those of q behind.
LEMMA TornProperties ==
  ASSUME NEW p \in Seq(Cell), NEW q \in Seq(Cell), Len(p) = Len(q), NEW k \in 0 .. Len(p)
  PROVE  /\ Torn(p, q, k) \in Seq(Cell) /\ Len(Torn(p, q, k)) = Len(p)
         /\ \A i \in 1 .. Len(p) : Torn(p, q, k)[i] = IF i <= k THEN p[i] ELSE q[i]
         /\ k = Len(p) => Torn(p, q, k) = p
<1> DEFINE a == SubSeq(p, 1, k)
           b == SubSeq(q, k + 1, Len(q))
           t == a \o b
<1>1. a \in Seq(Cell) /\ Len(a) = k /\ \A i \in 1 .. k : a[i] = p[i]
  OBVIOUS
<1>2. b \in Seq(Cell) /\ Len(b) = Len(p) - k /\ \A i \in 1 .. Len(p) - k : b[i] = q[k + i]
  OBVIOUS
<1>3. k \in Nat /\ Len(p) \in Nat /\ k <= Len(p)
  OBVIOUS
<1> HIDE DEF a, b
<1>4. t \in Seq(Cell) /\ Len(t) = Len(p)
  BY <1>1, <1>2, <1>3
<1>5. ASSUME NEW i \in 1 .. Len(p) PROVE t[i] = IF i <= k THEN p[i] ELSE q[i]
  <2>1. CASE i <= k
    <3>1. i \in 1 .. Len(a)
      BY <1>1, <1>3, <2>1
    <3>2. t[i] = a[i]
      BY <1>1, <1>2, <3>1
    <3> QED
      BY <1>1, <2>1, <3>1, <3>2
  <2>2. CASE ~(i <= k)
    <3>1. i - k \in 1 .. Len(p) - k /\ k + (i - k) = i
      BY <1>3, <2>2
    <3>2. t[i] = b[i - k]
      BY <1>1, <1>2, <1>3, <2>2, <3>1
    <3> QED
      BY <1>2, <2>2, <3>1, <3>2
  <2> QED
    BY <2>1, <2>2
<1> HIDE DEF t
<1>6. ASSUME k = Len(p) PROVE t = p
  <2>1. \A i \in 1 .. Len(p) : t[i] = p[i]
    BY <1>5, <1>6
  <2> QED
    BY <1>4, <2>1
<1> QED
  BY <1>4, <1>5, <1>6 DEF Torn, a, b, t

\* What a write puts in the data file, and what it leaves.
LEMMA DataWrite ==
  ASSUME NEW f \in Seq(Cell), NEW pos \in Nat, NEW b \in Seq(Cell)
  PROVE  /\ WriteAt(f, pos, b, HoleCell) \in Seq(Cell)
         /\ pos + Len(b) <= Len(f) => Len(WriteAt(f, pos, b, HoleCell)) = Len(f)
         /\ \A i \in 1 .. Len(b) : WriteAt(f, pos, b, HoleCell)[pos + i] = b[i]
         /\ \A i \in 1 .. Len(f) : i <= pos \/ i > pos + Len(b) => WriteAt(f, pos, b, HoleCell)[i] = f[i]
<1>1. pos + Len(b) <= Len(f) => Len(WriteAt(f, pos, b, HoleCell)) = Len(f)
  BY DEF WriteAt
<1>2. \A i \in 1 .. Len(b) : WriteAt(f, pos, b, HoleCell)[pos + i] = b[i]
  BY SMTT(30) DEF WriteAt
<1>3. \A i \in 1 .. Len(f) : i <= pos \/ i > pos + Len(b) => WriteAt(f, pos, b, HoleCell)[i] = f[i]
  <2> SUFFICES ASSUME NEW i \in 1 .. Len(f), i <= pos \/ i > pos + Len(b)
               PROVE  WriteAt(f, pos, b, HoleCell)[i] = f[i]
    OBVIOUS
  <2>1. ~(i \in pos + 1 .. pos + Len(b))
    OBVIOUS
  <2> QED
    BY <2>1, SMTT(30) DEF WriteAt
<1> QED
  BY <1>1, <1>2, <1>3, DataWriteType

\* A rewrite of a record by one of the same length, or the part of it that a
\* short write makes, leaves a whole record of mixed payload and touches
\* nothing else (sea_block_update).
LEMMA HeldRewritten ==
  ASSUME NEW f \in Seq(Cell), NEW off \in Nat, NEW q \in Seq(Cell), HoldsRecord(f, off, q),
         NEW p \in Seq(Cell), Len(p) = Len(q),
         NEW w \in {Record(p)} \cup ShortWrites(Record(p)),
         NEW g, g = WriteAt(f, off, w, HoleCell)
  PROVE  /\ g \in Seq(Cell) /\ Len(g) = Len(f)
         /\ \A i \in 1 .. Len(f) : i <= off \/ i > RecordEnd(f, off) => g[i] = f[i]
         /\ g[off + 1] = f[off + 1]
         /\ \E k \in 0 .. Len(p) : HoldsRecord(g, off, Torn(p, q, k)) /\ (w = Record(p) => k = Len(p))
<1>1. /\ Record(p) \in Seq(Cell) /\ Len(Record(p)) = Len(p) + 2 /\ Len(p) \in Nat /\ Len(f) \in Nat
      /\ Record(p)[1] = HeaderCell(Len(p)) /\ \A i \in 1 .. Len(p) : Record(p)[i + 1] = p[i]
  <2>1. Len(p) \in Nat /\ Len(f) \in Nat
    OBVIOUS
  <2>2. Record(p) \in Seq(Cell) /\ Len(Record(p)) = Len(p) + 2
    BY RecordProperties
  <2>3. Record(p)[1] = HeaderCell(Len(p)) /\ \A i \in 1 .. Len(p) : Record(p)[i + 1] = p[i]
    BY RecordProperties
  <2> QED
    BY <2>1, <2>2, <2>3
<1>2. /\ Record(q) \in Seq(Cell) /\ Len(Record(q)) = Len(p) + 2
      /\ Record(q)[1] = HeaderCell(Len(p)) /\ \A i \in 1 .. Len(p) : Record(q)[i + 1] = q[i]
  BY RecordProperties
<1>3. Record(p)[Len(p) + 2] = TailCell /\ Record(q)[Len(p) + 2] = TailCell
  BY DEF Record
<1>4. /\ RecordEnd(f, off) = off + Len(p) + 2 /\ RecordEnd(f, off) <= Len(f)
      /\ f[off + 1] = HeaderCell(Len(p)) /\ off + 1 \in 1 .. Len(f)
  BY HeldEnd
<1>5. PICK l \in Nat : /\ w \in Seq(Cell) /\ l = Len(w) /\ l <= Len(p) + 2
                       /\ \A i \in 1 .. l : w[i] = Record(p)[i]
                       /\ w # Record(p) => l < Len(p) + 2
  <2>1. /\ w \in Seq(Cell) /\ Len(w) \in 0 .. Len(Record(p)) /\ \A i \in 1 .. Len(w) : w[i] = Record(p)[i]
        /\ w # Record(p) => Len(w) < Len(Record(p))
    BY <1>1, WrittenProperties
  <2>2. Len(w) \in Nat /\ Len(w) <= Len(p) + 2
    BY <1>1, <2>1
  <2> QED
    BY <1>1, <2>1, <2>2
<1>6. off + l <= Len(f) /\ off + (Len(p) + 2) <= Len(f)
  BY <1>1, <1>4, <1>5
<1>7. HoleCell \in Cell
  BY HoleType
<1>8. /\ g \in Seq(Cell) /\ Len(g) = Len(f)
      /\ \A i \in 1 .. l : g[off + i] = w[i]
      /\ \A i \in 1 .. Len(f) : i <= off \/ i > off + l => g[i] = f[i]
  <2>1. off + Len(w) <= Len(f)
    BY <1>5, <1>6
  <2>2. /\ g \in Seq(Cell) /\ Len(g) = Len(f)
        /\ \A i \in 1 .. Len(w) : g[off + i] = w[i]
        /\ \A i \in 1 .. Len(f) : i <= off \/ i > off + Len(w) => g[i] = f[i]
    BY <1>5, <2>1, DataWrite
  <2> QED
    BY <1>5, <2>2
<1>9. \A i \in 1 .. Len(p) + 2 : g[off + i] = IF i <= l THEN Record(p)[i] ELSE Record(q)[i]
  <2> SUFFICES ASSUME NEW i \in 1 .. Len(p) + 2
               PROVE  g[off + i] = IF i <= l THEN Record(p)[i] ELSE Record(q)[i]
    OBVIOUS
  <2>1. off + i \in 1 .. Len(f)
    BY <1>1, <1>6
  <2>2. f[off + i] = Record(q)[i]
    BY <1>2 DEF HoldsRecord
  <2>3. CASE i <= l
    BY <1>5, <1>8, <2>3
  <2>4. CASE ~(i <= l)
    <3>1. off + i > off + l
      BY <1>5, <2>4
    <3> QED
      BY <1>8, <2>1, <2>2, <2>4, <3>1
  <2> QED
    BY <2>3, <2>4
<1>10. PICK k \in 0 .. Len(p) : /\ l <= k + 1 \/ k = Len(p)
                                /\ k # 0 => k < l
                                /\ w = Record(p) => k = Len(p)
  <2>1. CASE l = 0
    <3>1. 0 \in 0 .. Len(p) /\ l <= 0 + 1
      BY <1>1, <2>1
    <3>2. w # Record(p)
      <4>1. Len(w) # Len(Record(p))
        BY <1>1, <1>5, <2>1
      <4> QED
        BY <4>1
    <3> QED
      BY <3>1, <3>2
  <2>2. CASE l # 0 /\ l <= Len(p) + 1
    <3>1. l - 1 \in 0 .. Len(p) /\ l <= (l - 1) + 1 /\ l - 1 < l
      BY <1>1, <1>5, <2>2
    <3>2. w # Record(p)
      <4>1. Len(w) # Len(Record(p))
        BY <1>1, <1>5, <2>2
      <4> QED
        BY <4>1
    <3> QED
      BY <3>1, <3>2
  <2>3. CASE l = Len(p) + 2
    <3>1. Len(p) \in 0 .. Len(p) /\ Len(p) < l
      BY <1>1, <2>3
    <3> QED
      BY <3>1
  <2> QED
    BY <1>1, <1>5, <2>1, <2>2, <2>3
<1> DEFINE t == Torn(p, q, k)
<1>11. /\ t \in Seq(Cell) /\ Len(t) = Len(p)
       /\ \A i \in 1 .. Len(p) : t[i] = IF i <= k THEN p[i] ELSE q[i]
  BY TornProperties
<1> HIDE DEF t
<1>12. /\ Len(Record(t)) = Len(p) + 2 /\ Record(t)[1] = HeaderCell(Len(p))
       /\ Record(t)[Len(p) + 2] = TailCell /\ \A i \in 1 .. Len(p) : Record(t)[i + 1] = t[i]
  BY <1>11, RecordProperties DEF Record
<1>13. HoldsRecord(g, off, t)
  <2>1. ASSUME NEW i \in 1 .. Len(p) + 2 PROVE g[off + i] = Record(t)[i]
    <3>1. CASE i = 1
      BY <1>1, <1>2, <1>9, <1>12, <3>1
    <3>2. CASE i = Len(p) + 2
      BY <1>1, <1>3, <1>9, <1>12, <3>2
    <3>3. CASE i # 1 /\ i # Len(p) + 2
      <4>1. PICK j \in 1 .. Len(p) : i = j + 1
        <5>1. i - 1 \in 1 .. Len(p) /\ i = (i - 1) + 1
          BY <1>1, <3>3
        <5> QED
          BY <5>1
      <4>2. Record(p)[i] = p[j] /\ Record(q)[i] = q[j] /\ Record(t)[i] = IF j <= k THEN p[j] ELSE q[j]
        BY <1>1, <1>2, <1>11, <1>12, <4>1
      <4>3. CASE j <= k
        <5>1. i <= l
          BY <1>1, <1>5, <1>10, <4>1, <4>3
        <5> QED
          BY <1>9, <4>2, <4>3, <5>1
      <4>4. CASE ~(j <= k)
        <5>1. ~(i <= l)
          BY <1>1, <1>5, <1>10, <4>1, <4>4
        <5> QED
          BY <1>9, <4>2, <4>4, <5>1
      <4> QED
        BY <4>3, <4>4
    <3> QED
      BY <3>1, <3>2, <3>3
  <2> QED
    BY <1>6, <1>8, <1>12, <2>1 DEF HoldsRecord
<1>14. g[off + 1] = f[off + 1]
  <2>1. 1 \in 1 .. Len(p) + 2
    BY <1>1
  <2> QED
    BY <1>1, <1>2, <1>4, <1>9, <2>1
<1>15. \A i \in 1 .. Len(f) : i <= off \/ i > RecordEnd(f, off) => g[i] = f[i]
  <2> SUFFICES ASSUME NEW i \in 1 .. Len(f), i <= off \/ i > off + Len(p) + 2 PROVE g[i] = f[i]
    BY <1>4
  <2>1. i <= off \/ i > off + l
    BY <1>1, <1>5
  <2> QED
    BY <1>8, <2>1
<1> QED
  BY <1>8, <1>10, <1>13, <1>14, <1>15 DEF t

\* g is f with only the payload of the record at off rewritten.
OnlyPayloadDiffers(f, g, off) ==
  /\ Len(g) = Len(f) /\ g[off + 1] = f[off + 1]
  /\ \A i \in 1 .. Len(f) : i <= off \/ i > RecordEnd(f, off) => g[i] = f[i]

\* The record of one id is rewritten in place: the others stay as they are.
LEMMA WholeRewritten ==
  ASSUME NEW C \in SUBSET Seq(Cell), NEW ix \in Seq(Nat), NEW f \in Seq(Cell), NEW g \in Seq(Cell),
         NEW n \in Nat, NEW id \in 0 .. n - 1, NEW t \in C,
         Whole(C, ix, f, n), HoldsRecord(g, Offset(ix, id), t), OnlyPayloadDiffers(f, g, Offset(ix, id))
  PROVE  /\ Whole(C, ix, g, n)
         /\ \A k \in 0 .. n - 1, p \in Seq(Cell) :
              k # id /\ HoldsRecord(f, Offset(ix, k), p) => HoldsRecord(g, Offset(ix, k), p)
<1> DEFINE off == Offset(ix, id)
           stop == RecordEnd(f, off)
<1>0. /\ Len(g) = Len(f) /\ g[off + 1] = f[off + 1]
      /\ \A i \in 1 .. Len(f) : i <= off \/ i > stop => g[i] = f[i]
  BY DEF OnlyPayloadDiffers
<1>1. off \in Nat /\ stop \in Nat /\ Len(f) \in Nat
  BY WholeRecord
<1>2. ASSUME NEW k \in 0 .. n - 1, k # id
      PROVE  /\ Offset(ix, k) \in Nat /\ RecordEnd(f, Offset(ix, k)) \in Nat
             /\ Offset(ix, k) + 1 \in 1 .. Len(f)
             /\ RecordEnd(f, Offset(ix, k)) <= off \/ stop <= Offset(ix, k)
  <2>1. k < id \/ id < k
    BY <1>2
  <2> QED
    BY <2>1, WholeRecord DEF Whole
<1>3. ASSUME NEW k \in 0 .. n - 1, k # id, NEW p \in Seq(Cell), HoldsRecord(f, Offset(ix, k), p)
      PROVE  HoldsRecord(g, Offset(ix, k), p)
  <2> DEFINE o == Offset(ix, k)
             len == Len(Record(p))
  <2>1. /\ o \in Nat /\ len = Len(p) + 2 /\ Len(p) \in Nat /\ RecordEnd(f, o) = o + Len(p) + 2
        /\ RecordEnd(f, o) <= Len(f) /\ (RecordEnd(f, o) <= off \/ stop <= o)
    <3>1. o \in Nat /\ (RecordEnd(f, o) <= off \/ stop <= o)
      BY <1>2, <1>3
    <3>2. RecordEnd(f, o) = o + Len(p) + 2 /\ RecordEnd(f, o) <= Len(f)
      BY <1>3, <3>1, HeldEnd
    <3>3. len = Len(p) + 2 /\ Len(p) \in Nat
      BY RecordProperties
    <3> QED
      BY <3>1, <3>2, <3>3
  <2>2. len \in Nat /\ o + len <= Len(f) /\ (o + len <= off \/ stop <= o)
    <3> HIDE DEF o, len, off, stop
    <3> QED
      BY <2>1
  <2>3. ASSUME NEW i \in 1 .. len PROVE g[o + i] = f[o + i]
    <3>1. o + i \in 1 .. Len(f) /\ (o + i <= off \/ o + i > stop)
      <4> HIDE DEF o, len, off, stop
      <4> QED
        BY <1>1, <2>1, <2>2
    <3> QED
      BY <1>0, <3>1
  <2>4. \A i \in 1 .. len : f[o + i] = Record(p)[i]
    BY <1>3 DEF HoldsRecord
  <2> QED
    BY <1>0, <2>2, <2>3, <2>4 DEF HoldsRecord
<1>4. ASSUME NEW k \in 0 .. n - 1 PROVE RecordEnd(g, Offset(ix, k)) = RecordEnd(f, Offset(ix, k))
  <2>1. CASE k = id
    BY <1>0, <2>1 DEF RecordEnd
  <2>2. CASE k # id
    <3>1. PICK p \in C : HoldsRecord(f, Offset(ix, k), p)
      BY WholeRecord
    <3>2. HoldsRecord(g, Offset(ix, k), p)
      BY <1>3, <2>2, <3>1
    <3>3. f[Offset(ix, k) + 1] = HeaderCell(Len(p)) /\ g[Offset(ix, k) + 1] = HeaderCell(Len(p))
      BY <1>2, <2>2, <3>1, <3>2, HeldEnd
    <3> QED
      BY <3>3 DEF RecordEnd
  <2> QED
    BY <2>1, <2>2
<1>5. ASSUME NEW k \in 0 .. n - 1 PROVE \E p \in C : HoldsRecord(g, Offset(ix, k), p)
  <2>1. CASE k = id
    BY <2>1
  <2>2. CASE k # id
    <3>1. PICK p \in C : HoldsRecord(f, Offset(ix, k), p)
      BY WholeRecord
    <3> QED
      BY <1>3, <2>2, <3>1
  <2> QED
    BY <2>1, <2>2
<1>6. Whole(C, ix, g, n)
  BY <1>0, <1>4, <1>5 DEF Whole
<1> QED
  BY <1>3, <1>4, <1>6

\* The query of a counted id whose entry is in the index file finds that entry.
LEMMA QueryFindsEntry ==
  ASSUME NEW ix \in Seq(Nat), NEW header, NEW id \in Nat, EntryAt(id) + 2 <= Len(ix), ~PastEnd(header, id)
  PROVE  /\ IndexQueryByRecordId(header, ix, id).null = FALSE
         /\ IndexQueryByRecordId(header, ix, id).offs # <<>>
         /\ IndexQueryByRecordId(header, ix, id).offs[1] = Offset(ix, id)
<1> DEFINE entry == ReadAt(ix, EntryAt(id), ENTRY_SIZE)
           n == EntryAt(id)
<1>1. n \in Nat /\ Len(ix) \in Nat
  <2>1. n = 5 + 2 * id
    BY EntryArithmetic
  <2> QED
    BY <2>1
<1>2. Len(entry) = 2 /\ entry[2] = ix[n + 2]
  <2> HIDE DEF n
  <2>1. n + 2 <= Len(ix)
    BY DEF n
  <2>2. ReadAt(ix, n, 2) = SubSeq(ix, n + 1, n + 2)
    <3>1. (IF n + 2 > Len(ix) THEN Len(ix) ELSE n + 2) = n + 2
      BY <1>1, <2>1
    <3> QED
      BY <3>1, Zenon DEF ReadAt
  <2>3. Len(SubSeq(ix, n + 1, n + 2)) = 2 /\ SubSeq(ix, n + 1, n + 2)[2] = ix[n + 2]
    <3>1. PICK l \in Nat : l = 2
      OBVIOUS
    <3>2. n + l <= Len(ix)
      BY <2>1, <3>1
    <3>3. /\ Len(SubSeq(ix, n + 1, n + l)) = l
          /\ \A i \in 1 .. l : SubSeq(ix, n + 1, n + l)[i] = ix[n + i]
      BY <1>1, <3>2, RunProperties
    <3>4. 2 \in 1 .. l
      BY <3>1
    <3> QED
      BY <3>1, <3>3, <3>4
  <2> QED
    BY <2>2, <2>3 DEF n, ENTRY_SIZE
<1> HIDE DEF entry
<1>3. IndexQueryByRecordId(header, ix, id) = OffsetList(<<entry[2]>>)
  BY <1>2 DEF IndexQueryByRecordId, entry, ENTRY_SIZE
<1> DEFINE off == entry[2]
<1>4. off = Offset(ix, id) /\ IndexQueryByRecordId(header, ix, id) = OffsetList(<<off>>)
  BY <1>2, <1>3 DEF Offset
<1> HIDE DEF off
<1>5. <<off>> # <<>> /\ <<off>>[1] = off
  OBVIOUS
<1> QED
  BY <1>4, <1>5 DEF OffsetList

\* A query by id of a counted record finds its offset and nothing else.
LEMMA QueryOffset ==
  ASSUME NEW ix \in Seq(Nat), NEW header, NEW id \in Nat, EntryAt(id) + 2 <= Len(ix), ~PastEnd(header, id)
  PROVE  /\ IndexQueryByRecordId(header, ix, id).null = FALSE
         /\ IndexQueryByRecordId(header, ix, id).offs = <<Offset(ix, id)>>
<1>1. /\ IndexQueryByRecordId(header, ix, id).null = FALSE
      /\ IndexQueryByRecordId(header, ix, id).offs # <<>>
      /\ IndexQueryByRecordId(header, ix, id).offs[1] = Offset(ix, id)
  BY QueryFindsEntry
<1>2. PICK e : IndexQueryByRecordId(header, ix, id).offs = <<e>>
  BY <1>1 DEF IndexQueryByRecordId, OffsetList, NoList
<1> QED
  BY <1>1, <1>2

-----------------------------------------------------------------------------
(* Pages of entries, and entries before a time.                            *)

\* When the record of an entry was appended.
TimeOf(ix, id) == ix[EntryAt(id) + 1]

\* The m entries of an index from the first one on.
EntriesFrom(ix, first, m, entries) ==
  /\ Len(entries) = ENTRY_SIZE * m
  /\ \A i \in 1 .. m : /\ entries[ENTRY_SIZE * i] = Offset(ix, first + i - 1)
                       /\ entries[ENTRY_SIZE * i - 1] = TimeOf(ix, first + i - 1)

\* What a read of entries that are in the index returns.
LEMMA EntriesRead ==
  ASSUME NEW ix \in Seq(Nat), NEW n \in Nat, EntryAt(n) <= Len(ix),
         NEW first \in Nat, NEW m \in Nat, first + m <= n
  PROVE  EntriesFrom(ix, first, m, ReadAt(ix, EntryAt(first), ENTRY_SIZE * m))
<1>0. PICK entries : entries = ReadAt(ix, EntryAt(first), ENTRY_SIZE * m)
  OBVIOUS
<1>1. PICK p \in Nat, l \in Nat : p = EntryAt(first) /\ p = 5 + 2 * first /\ l = ENTRY_SIZE * m /\ l = 2 * m
  BY EntryArithmetic
<1>2. p + l <= Len(ix) /\ Len(ix) \in Nat
  <2>1. EntryAt(n) = 5 + 2 * n
    BY EntryArithmetic
  <2>2. PICK k \in Nat : k = Len(ix)
    OBVIOUS
  <2> QED
    BY <1>1, <2>1, <2>2
<1>3. entries = SubSeq(ix, p + 1, p + l)
  <2>1. (IF p + l > Len(ix) THEN Len(ix) ELSE p + l) = p + l
    BY <1>2
  <2> QED
    BY <1>0, <1>1, <2>1 DEF ReadAt
<1>4. Len(entries) = l /\ \A i \in 1 .. l : entries[i] = ix[p + i]
  BY <1>2, <1>3, RunProperties
<1>5. ASSUME NEW i \in 1 .. m
      PROVE  /\ entries[ENTRY_SIZE * i] = Offset(ix, first + i - 1)
             /\ entries[ENTRY_SIZE * i - 1] = TimeOf(ix, first + i - 1)
  <2>1. PICK id \in Nat : id = first + i - 1
    OBVIOUS
  <2>2. EntryAt(id) = 5 + 2 * id
    BY EntryArithmetic
  <2>3. EntryAt(id) + 2 = p + 2 * i /\ EntryAt(id) + 1 = p + (2 * i - 1)
    BY <1>1, <2>1, <2>2
  <2>4. 2 * i \in 1 .. l /\ 2 * i - 1 \in 1 .. l /\ ENTRY_SIZE = 2
    BY <1>1, EntryArithmetic
  <2>5. entries[2 * i] = ix[p + 2 * i] /\ entries[2 * i - 1] = ix[p + (2 * i - 1)]
    BY <1>4, <2>4
  <2> QED
    BY <2>1, <2>3, <2>4, <2>5 DEF Offset, TimeOf
<1> QED
  BY <1>0, <1>1, <1>4, <1>5 DEF EntriesFrom

\* The page of an index with n entries.
PageOf(ix, n, first, count) ==
  [i \in 1 .. (IF first + count < n THEN count ELSE n - first) |-> Offset(ix, first + i - 1)]

\* A page of a block whose index has the entries that it counts.
LEMMA PageFound ==
  ASSUME NEW ix \in Seq(Nat), NEW header, NEW n \in Nat, header[COUNT] = n, EntryAt(n) <= Len(ix),
         NEW first \in 0 .. n - 1, NEW count \in Nat, first + count < UintMod
  PROVE  IndexQueryByCount(header, ix, first, count).offs = PageOf(ix, n, first, count)
<1>0. PICK m : m = IF first + count < n THEN count ELSE n - first
  OBVIOUS
<1>1. first \in Nat /\ m \in Nat /\ first + m <= n /\ ~(n <= first)
  BY <1>0
<1>2. ReadCount(header, first, count) = m
  <2>1. (first + count) % UintMod = first + count
    BY <1>1, FormatAssumption
  <2> QED
    BY <1>0, <1>1, <2>1 DEF ReadCount
<1>3. PICK entries : entries = ReadAt(ix, EntryAt(first), ENTRY_SIZE * m)
  OBVIOUS
<1>5. /\ Len(entries) = ENTRY_SIZE * m
      /\ \A i \in 1 .. m : /\ entries[ENTRY_SIZE * i] = Offset(ix, first + i - 1)
                           /\ entries[ENTRY_SIZE * i - 1] = TimeOf(ix, first + i - 1)
  <2>1. EntriesFrom(ix, first, m, entries)
    BY <1>1, <1>3, EntriesRead
  <2> QED
    BY <2>1 DEF EntriesFrom
<1>6. IndexQueryByCount(header, ix, first, count) = OffsetList([i \in 1 .. m |-> entries[ENTRY_SIZE * i]])
  BY <1>1, <1>2, <1>3, <1>5 DEF IndexQueryByCount, PastEnd
<1>7. [i \in 1 .. m |-> entries[ENTRY_SIZE * i]] = [i \in 1 .. m |-> Offset(ix, first + i - 1)]
  BY <1>5
<1> QED
  BY <1>0, <1>6, <1>7 DEF OffsetList, PageOf

\* A set of numbers that has the smaller ones with each is an interval.
LEMMA InitialInterval ==
  ASSUME NEW m \in Nat, NEW S \in SUBSET (1 .. m), \A k \in S : 1 .. k \subseteq S
  PROVE  Cardinality(S) \in Nat /\ S = 1 .. Cardinality(S)
<1>1. IsFiniteSet(1 .. m)
  BY FS_Interval
<1>2. IsFiniteSet(S) /\ Cardinality(S) \in Nat
  BY <1>1, FS_Subset, FS_CardinalityType
<1>3. ASSUME NEW k \in S PROVE k \in 1 .. Cardinality(S)
  <2>1. k \in Nat /\ k >= 1
    OBVIOUS
  <2>2. Cardinality(1 .. k) = k
    BY <2>1, FS_Interval
  <2>3. Cardinality(1 .. k) <= Cardinality(S)
    BY <1>2, FS_Subset
  <2> QED
    BY <1>2, <2>1, <2>2, <2>3
<1>4. IsFiniteSet(1 .. Cardinality(S)) /\ Cardinality(1 .. Cardinality(S)) = Cardinality(S)
  BY <1>2, FS_Interval
<1>5. S \in SUBSET (1 .. Cardinality(S))
  BY <1>3
<1> QED
  BY <1>2, <1>4, <1>5, FS_Subset

\* The entries of an index carry times that do not decrease, up to now.
InOrder(ix, now) ==
  \A i, j \in Nat :
    i <= j /\ EntryAt(j) + 2 <= Len(ix) => TimeOf(ix, i) <= TimeOf(ix, j) /\ TimeOf(ix, j) <= now

\* The offsets of a list, and of the entries before a time.
Listed(list) == {list.offs[i] : i \in DOMAIN list.offs}
OffsetsBefore(ix, n, first, stop) ==
  {Offset(ix, id) : id \in {k \in first .. n - 1 : TimeOf(ix, k) < stop}}

\* The scan of an index in order takes the entries before stop, and only those.
LEMMA ScanFound ==
  ASSUME NEW ix \in Seq(Nat), NEW header, NEW n \in Nat, header[COUNT] = n, EntryAt(n) <= Len(ix),
         NEW now, InOrder(ix, now), NEW first \in 0 .. n - 1, NEW stop \in Nat
  PROVE  Listed(IndexQueryByTime(header, ix, stop, first)) = OffsetsBefore(ix, n, first, stop)
<1>0. PICK list : list = IndexQueryByTime(header, ix, stop, first)
  OBVIOUS
<1>1. PICK m \in Nat : m = n - first /\ first \in Nat /\ first + m <= n /\ ~(n <= first)
  OBVIOUS
<1>2. PICK entries : entries = ReadAt(ix, EntryAt(first), ENTRY_SIZE * m)
  OBVIOUS
<1>3. /\ Len(entries) = ENTRY_SIZE * m
      /\ \A i \in 1 .. m : /\ entries[ENTRY_SIZE * i] = Offset(ix, first + i - 1)
                           /\ entries[ENTRY_SIZE * i - 1] = TimeOf(ix, first + i - 1)
  <2>1. EntriesFrom(ix, first, m, entries)
    BY <1>1, <1>2, EntriesRead
  <2> QED
    BY <2>1 DEF EntriesFrom
<1>4. Len(entries) \div ENTRY_SIZE = m
  BY <1>3, EntryArithmetic
<1> DEFINE taken == {k \in 1 .. m : \A i \in 1 .. k : BeforeStop(entries[ENTRY_SIZE * i - 1], stop)}
<1>5. list = OffsetList([i \in 1 .. Cardinality(taken) |-> entries[ENTRY_SIZE * i]])
  BY <1>0, <1>1, <1>2, <1>4 DEF IndexQueryByTime, PastEnd
<1>6. Cardinality(taken) \in Nat /\ taken = 1 .. Cardinality(taken)
  <2>1. taken \in SUBSET (1 .. m) /\ \A k \in taken : 1 .. k \subseteq taken
    OBVIOUS
  <2> HIDE DEF taken
  <2> QED
    BY <2>1, InitialInterval
<1>7. \A k \in 1 .. m : k \in taken <=> TimeOf(ix, first + k - 1) < stop
  <2> SUFFICES ASSUME NEW k \in 1 .. m PROVE k \in taken <=> TimeOf(ix, first + k - 1) < stop
    OBVIOUS
  <2>1. ASSUME k \in taken PROVE TimeOf(ix, first + k - 1) < stop
    <3>1. k \in 1 .. k /\ BeforeStop(entries[ENTRY_SIZE * k - 1], stop)
      BY <2>1
    <3> QED
      BY <1>3, <3>1 DEF BeforeStop
  <2>2. ASSUME TimeOf(ix, first + k - 1) < stop, NEW i \in 1 .. k
        PROVE  BeforeStop(entries[ENTRY_SIZE * i - 1], stop)
    <3>1. PICK a \in Nat, b \in Nat : a = first + i - 1 /\ b = first + k - 1 /\ a <= b /\ b < n /\ a < n
      BY <1>1
    <3>2. EntryAt(b) + 2 <= Len(ix)
      <4>1. EntryAt(b) + 2 <= EntryAt(n) /\ EntryAt(b) = 5 + 2 * b /\ EntryAt(n) = 5 + 2 * n
        BY <3>1, EntryArithmetic
      <4>2. PICK l \in Nat : l = Len(ix)
        OBVIOUS
      <4> QED
        BY <4>1, <4>2
    <3>3. TimeOf(ix, a) \in Nat /\ TimeOf(ix, b) \in Nat
      <4>1. EntryAt(a) + 1 \in 1 .. Len(ix) /\ EntryAt(b) + 1 \in 1 .. Len(ix)
        <5>1. EntryAt(a) = 5 + 2 * a /\ EntryAt(b) = 5 + 2 * b
          BY EntryArithmetic
        <5>2. PICK l \in Nat : l = Len(ix)
          OBVIOUS
        <5>3. a <= b /\ 5 + 2 * b + 2 <= l
          BY <3>1, <3>2, <5>1, <5>2
        <5>4. 5 + 2 * a + 1 \in 1 .. l /\ 5 + 2 * b + 1 \in 1 .. l
          BY <5>3
        <5> QED
          BY <5>1, <5>2, <5>4
      <4> QED
        BY <4>1 DEF TimeOf
    <3>4. TimeOf(ix, a) <= TimeOf(ix, b)
      BY <3>1, <3>2 DEF InOrder
    <3>5. TimeOf(ix, a) < stop
      BY <2>2, <3>1, <3>3, <3>4
    <3>6. i \in 1 .. m
      OBVIOUS
    <3> QED
      BY <1>3, <3>1, <3>5, <3>6 DEF BeforeStop
  <2> QED
    BY <2>1, <2>2
<1> HIDE DEF taken
<1>8. PICK c \in Nat : c = Cardinality(taken)
  BY <1>6
<1>9. \A k \in 1 .. m : k \in 1 .. c <=> TimeOf(ix, first + k - 1) < stop
  BY <1>6, <1>7, <1>8
<1>10. c <= m
  <2>1. taken \subseteq 1 .. m
    BY DEF taken
  <2>2. c \in 1 .. c => c \in 1 .. m
    BY <1>6, <1>8, <2>1
  <2> QED
    BY <2>2
<1>11. DOMAIN list.offs = 1 .. c /\ \A i \in 1 .. c : list.offs[i] = Offset(ix, first + i - 1)
  BY <1>3, <1>5, <1>8, <1>10 DEF OffsetList
<1>12. ASSUME NEW i \in 1 .. c
       PROVE  \E id \in {k \in first .. n - 1 : TimeOf(ix, k) < stop} : list.offs[i] = Offset(ix, id)
  <2>1. i \in 1 .. m
    BY <1>10
  <2>2. PICK id \in first .. n - 1 : id = first + i - 1
    BY <1>1, <2>1
  <2> QED
    BY <1>9, <1>11, <2>1, <2>2
<1>13. ASSUME NEW id \in {k \in first .. n - 1 : TimeOf(ix, k) < stop}
       PROVE  \E i \in 1 .. c : list.offs[i] = Offset(ix, id)
  <2>1. PICK i \in 1 .. m : id = first + i - 1
    <3>1. id - first + 1 \in 1 .. m /\ id = first + (id - first + 1) - 1
      BY <1>1
    <3> QED
      BY <3>1
  <2>2. i \in 1 .. c
    BY <1>9, <2>1
  <2> QED
    BY <1>11, <2>1, <2>2
<1> DEFINE listed == {list.offs[i] : i \in DOMAIN list.offs}
           before == {k \in first .. n - 1 : TimeOf(ix, k) < stop}
<1>14. listed = {list.offs[i] : i \in 1 .. c}
  BY <1>11
<1>15. ASSUME NEW o PROVE o \in listed <=> \E id \in before : o = Offset(ix, id)
  <2> HIDE DEF before
  <2>1. o \in listed <=> \E i \in 1 .. c : o = list.offs[i]
    BY <1>14
  <2> QED
    BY <2>1, <1>12, <1>13 DEF before
<1>16. Listed(list) = listed /\ OffsetsBefore(ix, n, first, stop) = {Offset(ix, id) : id \in before}
  BY DEF Listed, OffsetsBefore
<1> QED
  BY <1>0, <1>15, <1>16
=============================================================================
