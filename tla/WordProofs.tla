------------------------------ MODULE WordProofs ------------------------------
(* Theorems about the word files: columns hold whole records, the           *)
(* acknowledged documents are read back, and the count in a header never    *)
(* runs ahead of its records, for any words, paths and handles.             *)
EXTENDS Word, TLAPS

-----------------------------------------------------------------------------
(* What the calls on files return, for every file.                         *)

\* A write leaves the cells it does not cover, and puts those it is given
\* where it is told to (write() of src/src/block/time).
LEMMA WriteAtProperties ==
  ASSUME NEW S, NEW f \in Seq(S), NEW pos \in Nat, NEW b \in Seq(S), NEW zero \in S
  PROVE  /\ WriteAt(f, pos, b, zero) \in Seq(S)
         /\ pos + Len(b) >= Len(f) => Len(WriteAt(f, pos, b, zero)) = pos + Len(b)
         /\ pos + Len(b) <= Len(f) => Len(WriteAt(f, pos, b, zero)) = Len(f)
         /\ \A i \in 1 .. Len(b) : WriteAt(f, pos, b, zero)[pos + i] = b[i]
         /\ \A i \in 1 .. Len(f) : i <= pos \/ i > pos + Len(b) => WriteAt(f, pos, b, zero)[i] = f[i]
<1> DEFINE n == IF pos + Len(b) > Len(f) THEN pos + Len(b) ELSE Len(f)
           w == WriteAt(f, pos, b, zero)
<1>1. n \in Nat /\ Len(b) \in Nat /\ Len(f) \in Nat
  OBVIOUS
<1>2. w = [i \in 1 .. n |-> IF i \in pos + 1 .. pos + Len(b) THEN b[i - pos]
                            ELSE IF i \in 1 .. Len(f) THEN f[i] ELSE zero]
  BY DEF WriteAt
<1>3. w \in [1 .. n -> S]
  BY <1>1, <1>2
<1>4. w \in Seq(S) /\ Len(w) = n
  <2> HIDE DEF w, n
  <2> QED
    BY <1>1, <1>3
<1>5. ASSUME NEW i \in 1 .. Len(b) PROVE w[pos + i] = b[i]
  BY <1>1, <1>2
<1>6. ASSUME NEW i \in 1 .. Len(f), i <= pos \/ i > pos + Len(b) PROVE w[i] = f[i]
  <2>1. i \in 1 .. n /\ ~(i \in pos + 1 .. pos + Len(b))
    BY <1>1, <1>6
  <2> QED
    BY <1>2, <2>1
<1> QED
  BY <1>1, <1>4, <1>5, <1>6

\* Truncation to a length within the file keeps the cells before it.
LEMMA TruncateProperties ==
  ASSUME NEW S, NEW f \in Seq(S), NEW n \in Nat, NEW zero \in S
  PROVE  /\ Truncate(f, n, zero) \in Seq(S)
         /\ Len(Truncate(f, n, zero)) = n
         /\ \A i \in 1 .. Len(f) : i <= n => Truncate(f, n, zero)[i] = f[i]
<1>1. \A i \in 1 .. n : (IF i \in 1 .. Len(f) THEN f[i] ELSE zero) \in S
  OBVIOUS
<1> QED
  BY <1>1 DEF Truncate

\* What a short write has written is a proper prefix.
LEMMA ShortWritesProperties ==
  ASSUME NEW S, NEW b \in Seq(S), NEW w \in ShortWrites(b)
  PROVE  /\ w \in Seq(S)
         /\ Len(w) < Len(b)
         /\ \A i \in 1 .. Len(w) : w[i] = b[i]
<1>1. PICK k \in 0 .. Len(b) - 1 : w = SubSeq(b, 1, k)
  BY DEF ShortWrites
<1> QED
  BY <1>1

\* What a write call has put in the file when it returns.
LEMMA WrittenProperties ==
  ASSUME NEW S, NEW b \in Seq(S), NEW w \in {b} \cup ShortWrites(b)
  PROVE  /\ w \in Seq(S)
         /\ Len(w) \in 0 .. Len(b)
         /\ \A i \in 1 .. Len(w) : w[i] = b[i]
         /\ w # b => Len(w) < Len(b)
<1>1. CASE w = b
  BY <1>1
<1>2. CASE w \in ShortWrites(b)
  <2>1. PICK k \in 0 .. Len(b) - 1 : w = SubSeq(b, 1, k)
    BY <1>2 DEF ShortWrites
  <2> QED
    BY <2>1
<1> QED
  BY <1>1, <1>2

\* A run of cells within a file.
LEMMA RunProperties ==
  ASSUME NEW S, NEW f \in Seq(S), NEW p \in Nat, NEW l \in Nat, p + l <= Len(f)
  PROVE  /\ SubSeq(f, p + 1, p + l) \in Seq(S)
         /\ Len(SubSeq(f, p + 1, p + l)) = l
         /\ \A i \in 1 .. l : SubSeq(f, p + 1, p + l)[i] = f[p + i]
OBVIOUS

\* The l cells of a file behind the first p.
Run(f, p, l) == SubSeq(f, p + 1, p + l)

\* A run of a run is a run of the file.
LEMMA RunOfRun ==
  ASSUME NEW S, NEW f \in Seq(S), NEW p \in Nat, NEW l \in Nat, p + l <= Len(f),
         NEW a \in Nat, NEW b \in Nat, a + b <= l
  PROVE  Run(Run(f, p, l), a, b) = Run(f, p + a, b)
<1> DEFINE r == SubSeq(f, p + 1, p + l)
           s == SubSeq(r, a + 1, a + b)
           t == SubSeq(f, p + a + 1, p + a + b)
<1>1. r \in Seq(S) /\ Len(r) = l /\ \A i \in 1 .. l : r[i] = f[p + i]
  BY RunProperties
<1> HIDE DEF r
<1>2. s \in Seq(S) /\ Len(s) = b /\ \A i \in 1 .. b : s[i] = r[a + i]
  BY <1>1, RunProperties
<1>3. t \in Seq(S) /\ Len(t) = b /\ \A i \in 1 .. b : t[i] = f[p + a + i]
  <2> DEFINE q == p + a
  <2>1. q \in Nat /\ q + b <= Len(f)
    OBVIOUS
  <2> HIDE DEF q
  <2>2. /\ SubSeq(f, q + 1, q + b) \in Seq(S) /\ Len(SubSeq(f, q + 1, q + b)) = b
        /\ \A i \in 1 .. b : SubSeq(f, q + 1, q + b)[i] = f[q + i]
    BY <2>1, RunProperties
  <2> QED
    BY <2>2 DEF q
<1> HIDE DEF s, t
<1>4. \A i \in 1 .. b : s[i] = t[i]
  <2> SUFFICES ASSUME NEW i \in 1 .. b PROVE s[i] = t[i]
    OBVIOUS
  <2>1. s[i] = r[a + i] /\ a + i \in 1 .. l
    BY <1>2
  <2>2. t[i] = f[p + (a + i)]
    BY <1>3
  <2> QED
    BY <1>1, <2>1, <2>2
<1>5. s = [i \in 1 .. b |-> s[i]] /\ t = [i \in 1 .. b |-> t[i]]
  BY <1>2, <1>3
<1> QED
  BY <1>4, <1>5 DEF Run, r, s, t

-----------------------------------------------------------------------------
(* Records in cells.                                                       *)

\* The sizes of the record types (VALUE_TYPE_SIZE_* of array.h).
LEMMA SizeCases == Size \in {1, 2, 4, 8, 16}
BY DEF Size, TypeSize

LEMMA SizeNat == Size \in Nat /\ Size >= 1
BY SizeCases

\* The position of cell j of record r among the cells of the records.
Pos(r, j) == Size * (r - 1) + j

\* Cell j of record r is one of the Size * n cells of n records (the layout of
\* ValueCells).
LEMMA PosProperties ==
  ASSUME NEW n \in Nat, NEW r \in 1 .. n, NEW j \in 1 .. Size
  PROVE  /\ Pos(r, j) \in 1 .. Size * n
         /\ 1 + ((Pos(r, j) - 1) \div Size) = r
         /\ 1 + ((Pos(r, j) - 1) % Size) = j
<1>1. CASE Size = 1
  BY <1>1 DEF Pos
<1>2. CASE Size = 2
  BY <1>2 DEF Pos
<1>3. CASE Size = 4
  BY <1>3 DEF Pos
<1>4. CASE Size = 8
  BY <1>4 DEF Pos
<1>5. CASE Size = 16
  BY <1>5 DEF Pos
<1> QED
  BY <1>1, <1>2, <1>3, <1>4, <1>5, SizeCases

\* Every one of the Size * n cells of n records is a cell of one of them.
LEMMA PosCovers ==
  ASSUME NEW n \in Nat, NEW i \in 1 .. Size * n
  PROVE  /\ 1 + ((i - 1) \div Size) \in 1 .. n
         /\ 1 + ((i - 1) % Size) \in 1 .. Size
         /\ Pos(1 + ((i - 1) \div Size), 1 + ((i - 1) % Size)) = i
<1>1. CASE Size = 1
  BY <1>1 DEF Pos
<1>2. CASE Size = 2
  BY <1>2 DEF Pos
<1>3. CASE Size = 4
  BY <1>3 DEF Pos
<1>4. CASE Size = 8
  BY <1>4 DEF Pos
<1>5. CASE Size = 16
  BY <1>5 DEF Pos
<1> QED
  BY <1>1, <1>2, <1>3, <1>4, <1>5, SizeCases

\* The cells of n records, counted.
LEMMA CellsOfRecords ==
  ASSUME NEW n \in Nat
  PROVE  /\ Size * n \in Nat
         /\ n * Size = Size * n
         /\ n <= Size * n
         /\ (Size * n) \div Size = n
         /\ (Size * n) % Size = 0
<1>1. CASE Size = 1
  BY <1>1
<1>2. CASE Size = 2
  BY <1>2
<1>3. CASE Size = 4
  BY <1>3
<1>4. CASE Size = 8
  BY <1>4
<1>5. CASE Size = 16
  BY <1>5
<1> QED
  BY <1>1, <1>2, <1>3, <1>4, <1>5, SizeCases

\* Less than a record more makes no record more.
LEMMA CellsLeftOver ==
  ASSUME NEW n \in Nat, NEW extra \in 0 .. Size - 1
  PROVE  (Size * n + extra) \div Size = n
<1>1. CASE Size = 1
  BY <1>1
<1>2. CASE Size = 2
  BY <1>2
<1>3. CASE Size = 4
  BY <1>3
<1>4. CASE Size = 8
  BY <1>4
<1>5. CASE Size = 16
  BY <1>5
<1> QED
  BY <1>1, <1>2, <1>3, <1>4, <1>5, SizeCases

\* Cells add up and compare as the records do.
LEMMA CellsAdd ==
  ASSUME NEW m \in Nat, NEW n \in Nat
  PROVE  /\ Size * (m + n) = Size * m + Size * n
         /\ m <= n <=> Size * m <= Size * n
<1>1. CASE Size = 1
  BY <1>1
<1>2. CASE Size = 2
  BY <1>2
<1>3. CASE Size = 4
  BY <1>3
<1>4. CASE Size = 8
  BY <1>4
<1>5. CASE Size = 16
  BY <1>5
<1> QED
  BY <1>1, <1>2, <1>3, <1>4, <1>5, SizeCases

\* The cells of a sequence of values: Size for each, in order.
LEMMA ValueCellsProperties ==
  ASSUME NEW vals \in Seq(Nat)
  PROVE  /\ ValueCells(vals) \in Seq(Nat \X Nat)
         /\ Len(ValueCells(vals)) = Size * Len(vals)
         /\ \A r \in 1 .. Len(vals), j \in 1 .. Size :
              ValueCells(vals)[Pos(r, j)] = <<vals[r], j>>
<1>1. Len(vals) \in Nat /\ Size * Len(vals) \in Nat
  BY CellsOfRecords
<1>2. ASSUME NEW i \in 1 .. Size * Len(vals)
      PROVE  <<vals[1 + ((i - 1) \div Size)], 1 + ((i - 1) % Size)>> \in Nat \X Nat
  <2>1. 1 + ((i - 1) \div Size) \in 1 .. Len(vals) /\ 1 + ((i - 1) % Size) \in 1 .. Size
    BY <1>1, PosCovers
  <2>2. vals[1 + ((i - 1) \div Size)] \in Nat
    BY <2>1
  <2>3. 1 + ((i - 1) % Size) \in Nat
    BY <2>1, SizeNat
  <2> QED
    BY <2>2, <2>3
<1>3. ValueCells(vals) \in Seq(Nat \X Nat) /\ Len(ValueCells(vals)) = Size * Len(vals)
  BY <1>1, <1>2 DEF ValueCells
<1>4. ASSUME NEW r \in 1 .. Len(vals), NEW j \in 1 .. Size
      PROVE  ValueCells(vals)[Pos(r, j)] = <<vals[r], j>>
  <2>1. /\ Pos(r, j) \in 1 .. Size * Len(vals)
        /\ 1 + ((Pos(r, j) - 1) \div Size) = r /\ 1 + ((Pos(r, j) - 1) % Size) = j
    BY <1>1, PosProperties
  <2>2. \A i \in 1 .. Size * Len(vals) :
          ValueCells(vals)[i] = <<vals[1 + ((i - 1) \div Size)], 1 + ((i - 1) % Size)>>
    BY DEF ValueCells
  <2> QED
    BY <2>1, <2>2
<1> QED
  BY <1>3, <1>4

\* Nothing of a batch is left out but the bytes after its last record.
LEMMA RecordCountProperties ==
  ASSUME NEW b \in Batches
  PROVE  /\ b.values \in Seq(Nat)
         /\ RecordCount(b) = Len(b.values)
         /\ SubSeq(ValueCells(b.values), 1, RecordCount(b) * Size) = ValueCells(b.values)
<1>1. b.values \in Seq(Nat) /\ b.extra \in 0 .. Size - 1 /\ Len(b.values) \in Nat
  BY ColumnAssumption
<1>2. RecordCount(b) = Len(b.values)
  BY <1>1, CellsLeftOver DEF RecordCount
<1>3. RecordCount(b) * Size = Len(ValueCells(b.values))
  BY <1>1, <1>2, CellsOfRecords, ValueCellsProperties
<1>4. ValueCells(b.values) \in Seq(Nat \X Nat)
  BY <1>1, ValueCellsProperties
<1>5. \A s \in Seq(Nat \X Nat) : SubSeq(s, 1, Len(s)) = s
  OBVIOUS
<1> QED
  BY <1>1, <1>2, <1>3, <1>4, <1>5

-----------------------------------------------------------------------------
(* The inductive invariant.                                                *)

\* The cells a column may consist of.
Cell == ({"count"} \X (0 .. UintMod - 1)) \cup ({"type_and_name"} \X {0}) \cup (Nat \X Nat)

\* What the batches append.
BatchValues == UNION {Range(b.values) : b \in Batches}

AppendOp == [pc : {"header", "undo"}, handle : Handles, path : Paths, offset : Nat,
             values : Seq(Nat), answer : {"ok", "error"}]

\* The state is what the code's variables can hold; a header that is there
\* starts with the count.
StateInv ==
  /\ file \in [Paths -> [exists : BOOLEAN, cells : Seq(Cell)]]
  /\ handle \in [Handles -> [state : {"closed", "open", "unusable"}, path : Paths,
                             count : 0 .. UintMod - 1]]
  /\ op = Idle \/ op \in AppendOp
  /\ acked \in [Paths -> Seq(Nat)]
  /\ doubt \subseteq Paths \X {"unanswered", "torn", "lost"}
  /\ \A p \in Paths : Len(file[p].cells) >= 1 =>
       file[p].cells[1] \in {"count"} \X (0 .. UintMod - 1)

\* The column an append is working on.
Appending(path) == op.pc # "idle" /\ op.path = path

\* A handle is open only on a column with a whole header, and the append under
\* way writes at or after what was the end of the column its handle is open on.
OpenInv ==
  /\ \A h \in Handles : handle[h].state = "open" => Whole(handle[h].path)
  /\ op.pc # "idle" =>
       LET cells == file[op.path].cells
       IN  /\ handle[op.handle].state = "open" /\ handle[op.handle].path = op.path
           /\ op.offset >= HEADER /\ op.offset <= Len(cells)
           /\ op.values \in Seq(BatchValues)
           /\ op.pc = "header" => Len(cells) = op.offset + Size * Len(op.values)

\* The end of a column when no append is under way, and what it was when the
\* one under way began.
Base(path) == IF Appending(path) THEN op.offset ELSE Len(file[path].cells)

\* Neither the count in a header nor the one a handle caches exceeds the
\* records that were complete before the append under way.
CountInv ==
  /\ \A p \in Paths : Len(file[p].cells) >= HEADER =>
       HEADER + Size * file[p].cells[1][2] <= Base(p)
  /\ \A h \in Handles : handle[h].state = "open" =>
       HEADER + Size * handle[h].count <= Base(handle[h].path)

\* The column begins with the cells of vals.
Begins(cells, vals) ==
  /\ vals = <<>> \/ HEADER + Size * Len(vals) <= Len(cells)
  /\ \A r \in 1 .. Len(vals), j \in 1 .. Size : cells[HEADER + Pos(r, j)] = <<vals[r], j>>

\* The records of the column are vals and nothing else, but for the part of a
\* short write that is going to be cut off.
Recorded(cells, o, path, vals) ==
  /\ Begins(cells, vals)
  /\ IF o.pc = "undo" /\ o.path = path
     THEN o.offset = HEADER + Size * Len(vals)
     ELSE Len(cells) >= HEADER => Len(cells) = HEADER + Size * Len(vals)
Holds(path, vals) == Recorded(file[path].cells, op, path, vals)

\* Every record is one that was appended, where no short write stayed behind.
NotTornInv ==
  \A p \in Paths : <<p, "torn">> \notin doubt => \E vals \in Seq(BatchValues) : Holds(p, vals)

\* What the append under way is about to acknowledge.
Pending(path) == IF Appending(path) /\ op.pc = "header" THEN op.values ELSE <<>>

\* The records of a column without doubt are the acknowledged ones.
AckedInv == \A p \in Paths : ~InDoubt(p) => Holds(p, acked[p] \o Pending(p))

IInv == StateInv /\ OpenInv /\ CountInv /\ NotTornInv /\ AckedInv

-----------------------------------------------------------------------------
(* The cells of a column through writes of the header and of records.      *)

\* Headers and records are made of cells.
LEMMA CellProperties ==
  /\ NoCell \in Cell
  /\ Nat \X Nat \subseteq Cell
  /\ \A c \in 0 .. UintMod - 1 : /\ HeaderCells(c) \in Seq(Cell) /\ Len(HeaderCells(c)) = HEADER
                                 /\ HeaderCells(c)[1] = <<"count", c>>
                                 /\ <<"count", c>> \in {"count"} \X (0 .. UintMod - 1)
  /\ HEADER = 2
<1>1. NoCell \in Cell
  BY DEF NoCell, Cell
<1>2. Nat \X Nat \subseteq Cell
  BY DEF Cell
<1>3. ASSUME NEW c \in 0 .. UintMod - 1
      PROVE  /\ HeaderCells(c) \in Seq(Cell) /\ Len(HeaderCells(c)) = HEADER
             /\ HeaderCells(c)[1] = <<"count", c>>
             /\ <<"count", c>> \in {"count"} \X (0 .. UintMod - 1)
  <2>1. <<"count", c>> \in Cell /\ <<"type_and_name", 0>> \in Cell
    BY DEF Cell
  <2> QED
    BY <2>1 DEF HeaderCells, HEADER
<1> QED
  BY <1>1, <1>2, <1>3 DEF HEADER

\* What a write puts in a column, and what it leaves.
LEMMA ColumnWrite ==
  ASSUME NEW f \in Seq(Cell), NEW pos \in Nat, NEW b \in Seq(Cell)
  PROVE  /\ WriteAt(f, pos, b, NoCell) \in Seq(Cell)
         /\ pos + Len(b) >= Len(f) => Len(WriteAt(f, pos, b, NoCell)) = pos + Len(b)
         /\ pos + Len(b) <= Len(f) => Len(WriteAt(f, pos, b, NoCell)) = Len(f)
         /\ \A i \in 1 .. Len(b) : WriteAt(f, pos, b, NoCell)[pos + i] = b[i]
         /\ \A i \in 1 .. Len(f) : i <= pos \/ i > pos + Len(b) => WriteAt(f, pos, b, NoCell)[i] = f[i]
<1>1. NoCell \in Cell
  BY CellProperties
<1>2. WriteAt(f, pos, b, NoCell) \in Seq(Cell)
  BY <1>1, WriteAtProperties
<1>3. pos + Len(b) >= Len(f) => Len(WriteAt(f, pos, b, NoCell)) = pos + Len(b)
  BY DEF WriteAt
<1>4. pos + Len(b) <= Len(f) => Len(WriteAt(f, pos, b, NoCell)) = Len(f)
  BY DEF WriteAt
<1>5. \A i \in 1 .. Len(b) : WriteAt(f, pos, b, NoCell)[pos + i] = b[i]
  BY <1>1, WriteAtProperties
<1>6. \A i \in 1 .. Len(f) : i <= pos \/ i > pos + Len(b) => WriteAt(f, pos, b, NoCell)[i] = f[i]
  BY <1>1, WriteAtProperties
<1> QED
  BY <1>2, <1>3, <1>4, <1>5, <1>6

\* A write of the header, whole or short, touches no record, and leaves the
\* count it had or the count it is given (col_array_create, col_array_append).
LEMMA HeaderWrite ==
  ASSUME NEW cells \in Seq(Cell), NEW c \in 0 .. UintMod - 1,
         NEW w \in {HeaderCells(c)} \cup ShortWrites(HeaderCells(c))
  PROVE  LET new == WriteAt(cells, 0, w, NoCell)
         IN  /\ new \in Seq(Cell)
             /\ \/ Len(new) = Len(cells)
                \/ Len(cells) < Len(new) /\ Len(new) <= HEADER
             /\ \A i \in 1 .. Len(cells) : i > HEADER => new[i] = cells[i]
             /\ Len(new) >= 1 => \/ new[1] = <<"count", c>>
                                 \/ Len(new) = Len(cells) /\ new[1] = cells[1]
<1> DEFINE new == WriteAt(cells, 0, w, NoCell)
           hdr == HeaderCells(c)
<1>1. hdr \in Seq(Cell) /\ Len(hdr) = 2 /\ hdr[1] = <<"count", c>> /\ NoCell \in Cell /\ HEADER = 2
  BY CellProperties
<1>2. w \in Seq(Cell) /\ Len(w) \in 0 .. Len(hdr) /\ \A i \in 1 .. Len(w) : w[i] = hdr[i]
  BY <1>1, WrittenProperties
<1>3. /\ new \in Seq(Cell)
      /\ Len(w) >= Len(cells) => Len(new) = Len(w)
      /\ Len(w) <= Len(cells) => Len(new) = Len(cells)
      /\ \A i \in 1 .. Len(w) : new[i] = w[i]
      /\ \A i \in 1 .. Len(cells) : i > Len(w) => new[i] = cells[i]
  <2>1. /\ new \in Seq(Cell)
        /\ 0 + Len(w) >= Len(cells) => Len(new) = 0 + Len(w)
        /\ 0 + Len(w) <= Len(cells) => Len(new) = Len(cells)
        /\ \A i \in 1 .. Len(w) : new[0 + i] = w[i]
        /\ \A i \in 1 .. Len(cells) : i <= 0 \/ i > 0 + Len(w) => new[i] = cells[i]
    BY <1>2, ColumnWrite, Zenon
  <2> HIDE DEF new
  <2> QED
    BY <1>2, <2>1
<1> HIDE DEF new, hdr
<1>4. ASSUME NEW i \in 1 .. Len(cells), i > 2 PROVE new[i] = cells[i]
  <2>1. i > Len(w)
    BY <1>1, <1>2, <1>4
  <2> QED
    BY <1>3, <2>1
<1>5. Len(new) >= 1 => \/ new[1] = <<"count", c>>
                       \/ Len(new) = Len(cells) /\ new[1] = cells[1]
  <2>1. CASE Len(w) >= 1
    BY <1>1, <1>2, <1>3, <2>1
  <2>2. CASE Len(w) = 0
    BY <1>2, <1>3, <2>2
  <2> QED
    BY <1>2, <2>1, <2>2
<1>6. Len(new) = Len(cells) \/ (Len(cells) < Len(new) /\ Len(new) <= HEADER)
  BY <1>1, <1>2, <1>3
<1>7. HEADER = 2
  BY <1>1
<1> QED
  BY <1>3, <1>4, <1>5, <1>6, <1>7 DEF new

\* A column still begins with the same records when their cells are kept.
LEMMA BeginsKept ==
  ASSUME NEW cells \in Seq(Cell), NEW new \in Seq(Cell), NEW vals \in Seq(Nat),
         Begins(cells, vals),
         vals = <<>> \/ HEADER + Size * Len(vals) <= Len(new),
         \A i \in 1 .. Len(cells) :
           i > HEADER /\ i <= HEADER + Size * Len(vals) => new[i] = cells[i]
  PROVE  Begins(new, vals)
<1>1. ASSUME NEW r \in 1 .. Len(vals), NEW j \in 1 .. Size
      PROVE  new[HEADER + Pos(r, j)] = <<vals[r], j>>
  <2>1. Len(vals) \in Nat /\ Len(vals) > 0 /\ HEADER = 2
    BY DEF HEADER
  <2>2. Pos(r, j) \in 1 .. Size * Len(vals) /\ Size * Len(vals) \in Nat
    BY <2>1, PosProperties, CellsOfRecords
  <2>3. HEADER + Size * Len(vals) <= Len(cells)
    BY <2>1 DEF Begins
  <2>4. new[HEADER + Pos(r, j)] = cells[HEADER + Pos(r, j)]
    <3>1. PICK pos \in Nat, end \in Nat, l \in Nat :
            /\ pos = Pos(r, j) /\ end = Size * Len(vals) /\ l = Len(cells)
            /\ 1 <= pos /\ pos <= end /\ 2 + end <= l
      BY <2>1, <2>2, <2>3
    <3>2. 2 + pos \in 1 .. l /\ 2 + pos > 2 /\ 2 + pos <= 2 + end
      BY <3>1
    <3> QED
      BY <2>1, <3>1, <3>2
  <2> QED
    BY <2>4 DEF Begins
<1> QED
  BY <1>1 DEF Begins

\* Whole records written at the end of whole records extend them
\* (col_array_append).
LEMMA BeginsExtended ==
  ASSUME NEW cells \in Seq(Cell), NEW vals \in Seq(Nat), NEW batch \in Seq(Nat),
         Begins(cells, vals), Len(cells) = HEADER + Size * Len(vals)
  PROVE  LET new == WriteAt(cells, Len(cells), ValueCells(batch), NoCell)
         IN  /\ new \in Seq(Cell)
             /\ Begins(new, vals \o batch)
             /\ Len(new) = HEADER + Size * Len(vals \o batch)
             /\ Len(new) = Len(cells) + Size * Len(batch)
             /\ \A i \in 1 .. Len(cells) : new[i] = cells[i]
<1> DEFINE new == WriteAt(cells, Len(cells), ValueCells(batch), NoCell)
           m == Len(vals)
           n == Len(batch)
<1>1. m \in Nat /\ n \in Nat /\ HEADER = 2 /\ Size * m \in Nat /\ Size * n \in Nat
  <2>1. m \in Nat /\ n \in Nat
    OBVIOUS
  <2> QED
    BY <2>1, CellsOfRecords DEF HEADER
<1>2. ValueCells(batch) \in Seq(Cell) /\ Len(ValueCells(batch)) = Size * n /\ NoCell \in Cell
  BY ValueCellsProperties, CellProperties
<1>3. /\ new \in Seq(Cell)
      /\ Len(new) = Len(cells) + Size * n
      /\ \A i \in 1 .. Size * n : new[Len(cells) + i] = ValueCells(batch)[i]
      /\ \A i \in 1 .. Len(cells) : new[i] = cells[i]
  <2> DEFINE b == ValueCells(batch)
             l == Len(cells)
  <2>1. b \in Seq(Cell) /\ Len(b) = Size * n /\ NoCell \in Cell /\ l \in Nat /\ l + Len(b) >= l
    BY <1>1, <1>2
  <2> HIDE DEF b, l
  <2>2. /\ WriteAt(cells, l, b, NoCell) \in Seq(Cell)
        /\ l + Len(b) >= Len(cells) => Len(WriteAt(cells, l, b, NoCell)) = l + Len(b)
        /\ \A i \in 1 .. Len(b) : WriteAt(cells, l, b, NoCell)[l + i] = b[i]
        /\ \A i \in 1 .. Len(cells) :
             i <= l \/ i > l + Len(b) => WriteAt(cells, l, b, NoCell)[i] = cells[i]
    BY <2>1, ColumnWrite
  <2>3. Len(WriteAt(cells, l, b, NoCell)) = l + Len(b)
    BY <2>1, <2>2 DEF l
  <2>4. \A i \in 1 .. Len(cells) : WriteAt(cells, l, b, NoCell)[i] = cells[i]
    BY <2>1, <2>2 DEF l
  <2> QED
    BY <2>1, <2>2, <2>3, <2>4 DEF b, l
<1>4. vals \o batch \in Seq(Nat) /\ Len(vals \o batch) = m + n /\ Size * (m + n) = Size * m + Size * n
  BY <1>1, CellsAdd
<1>5. Len(new) = HEADER + Size * Len(vals \o batch)
  BY <1>1, <1>3, <1>4
<1>6. ASSUME NEW r \in 1 .. m + n, NEW j \in 1 .. Size
      PROVE  new[HEADER + Pos(r, j)] = <<(vals \o batch)[r], j>>
  <2>1. CASE r \in 1 .. m
    <3>1. Begins(new, vals)
      <4>1. HEADER + Size * Len(vals) <= Len(new)
        BY <1>1, <1>3
      <4> QED
        BY <1>3, <4>1, BeginsKept
    <3> QED
      BY <2>1, <3>1 DEF Begins
  <2>2. CASE r \in m + 1 .. m + n
    <3> DEFINE q == r - m
    <3>1. q \in 1 .. n /\ q \in Nat
      BY <1>1, <2>2
    <3>2. Pos(r, j) = Size * m + Pos(q, j)
      <4>1. q - 1 \in Nat /\ r - 1 = m + (q - 1)
        BY <1>1, <3>1
      <4>2. Size * (m + (q - 1)) = Size * m + Size * (q - 1)
        BY <1>1, <4>1, CellsAdd
      <4>3. Size * (q - 1) \in Nat
        BY <4>1, CellsOfRecords
      <4>4. j \in Nat
        BY SizeNat
      <4> HIDE DEF q
      <4> QED
        BY <1>1, <4>1, <4>2, <4>3, <4>4 DEF Pos
    <3>3. Pos(q, j) \in 1 .. Size * n
      BY <1>1, <3>1, PosProperties
    <3>4. new[Len(cells) + Pos(q, j)] = ValueCells(batch)[Pos(q, j)]
      BY <1>3, <3>3
    <3>5. ValueCells(batch)[Pos(q, j)] = <<batch[q], j>>
      BY <3>1, ValueCellsProperties
    <3>6. HEADER + Pos(r, j) = Len(cells) + Pos(q, j)
      BY <1>1, <3>2, <3>3
    <3>7. (vals \o batch)[r] = batch[q]
      BY <2>2, <1>1
    <3> QED
      BY <3>4, <3>5, <3>6, <3>7
  <2> QED
    BY <1>1, <2>1, <2>2
<1>7. Begins(new, vals \o batch)
  <2> HIDE DEF new, m, n
  <2>1. HEADER + Size * Len(vals \o batch) <= Len(new)
    BY <1>1, <1>3, <1>5
  <2>2. \A r \in 1 .. Len(vals \o batch), j \in 1 .. Size :
          new[HEADER + Pos(r, j)] = <<(vals \o batch)[r], j>>
    BY <1>4, <1>6
  <2> QED
    BY <2>1, <2>2 DEF Begins
<1> HIDE DEF new
<1> QED
  BY <1>3, <1>5, <1>7 DEF new

-----------------------------------------------------------------------------
(* Every step keeps the invariant.                                         *)

\* A column holds the same records while its cells, and what an append is
\* doing to it, are the same.
LEMMA HoldsSame ==
  ASSUME NEW p \in Paths, NEW vals, Holds(p, vals),
         file'[p].cells = file[p].cells,
         Appending(p)' <=> Appending(p),
         Appending(p) => op' = op
  PROVE  Holds(p, vals)'
BY DEF Holds, Recorded, Appending

\* A column holds the same records after its header was written while no
\* append was cutting it (col_array_create, the end of col_array_append).
LEMMA HoldsHeaderWrite ==
  ASSUME NEW p \in Paths, NEW vals \in Seq(Nat), Holds(p, vals),
         file[p].cells \in Seq(Cell), file'[p].cells \in Seq(Cell),
         ~(Appending(p) /\ op.pc = "undo"), ~Appending(p)',
         \/ Len(file'[p].cells) = Len(file[p].cells)
         \/ /\ Len(file[p].cells) < Len(file'[p].cells)
            /\ Len(file'[p].cells) <= HEADER,
         \A i \in 1 .. Len(file[p].cells) :
           i > HEADER => file'[p].cells[i] = file[p].cells[i]
  PROVE  Holds(p, vals)'
<1> DEFINE cells == file[p].cells
           new == file'[p].cells
<1>1. /\ new \in Seq(Cell)
      /\ Len(new) = Len(cells) \/ (Len(cells) < Len(new) /\ Len(new) <= HEADER)
      /\ \A i \in 1 .. Len(cells) : i > HEADER => new[i] = cells[i]
  OBVIOUS
<1>2. Begins(cells, vals) /\ (Len(cells) >= HEADER => Len(cells) = HEADER + Size * Len(vals))
  BY DEF Holds, Recorded, Appending
<1>3. cells \in Seq(Cell) /\ Len(cells) \in Nat /\ Len(new) \in Nat /\ HEADER = 2
  BY <1>1 DEF HEADER
<1>4. Len(vals) \in Nat /\ Size * Len(vals) \in Nat
  <2>1. Len(vals) \in Nat
    OBVIOUS
  <2> QED
    BY <2>1, CellsOfRecords
<1> HIDE DEF cells, new
<1>5. vals = <<>> \/ HEADER + Size * Len(vals) <= Len(cells)
  BY <1>2 DEF Begins
<1>6. vals = <<>> \/ HEADER + Size * Len(vals) <= Len(new)
  BY <1>1, <1>3, <1>4, <1>5
<1>7. Begins(new, vals)
  BY <1>1, <1>2, <1>3, <1>6, BeginsKept
<1>8. Len(new) >= HEADER => Len(new) = HEADER + Size * Len(vals)
  <2>1. CASE Len(cells) >= HEADER
    BY <1>1, <1>2, <1>3, <2>1
  <2>2. CASE Len(cells) < HEADER
    <3>1. vals = <<>>
      BY <1>3, <1>4, <1>5, <2>2
    <3>2. Len(vals) = 0 /\ Size * Len(vals) = 0
      BY <3>1, SizeNat
    <3>3. Len(new) <= HEADER
      BY <1>1, <1>3, <2>2
    <3>4. HEADER + Size * Len(vals) = HEADER
      BY <1>3, <3>2
    <3> QED
      BY <1>3, <3>3, <3>4
  <2> QED
    BY <1>3, <2>1, <2>2
<1> QED
  BY <1>7, <1>8 DEF Holds, Recorded, Appending, new

\* What batches append are numbers.
LEMMA BatchValuesType == BatchValues \subseteq Nat
<1> SUFFICES ASSUME NEW b \in Batches, NEW i \in DOMAIN b.values PROVE b.values[i] \in Nat
  BY DEF BatchValues, Range
<1> QED
  BY ColumnAssumption

\* And so are sequences of them.
LEMMA BatchValuesSeq == ASSUME NEW vals \in Seq(BatchValues) PROVE vals \in Seq(Nat)
<1>1. \A i \in 1 .. Len(vals) : vals[i] \in BatchValues
  OBVIOUS
<1>2. \A i \in 1 .. Len(vals) : vals[i] \in Nat
  BY <1>1, BatchValuesType
<1> QED
  BY <1>2

\* What an append is doing, typed.
LEMMA OpType ==
  ASSUME StateInv
  PROVE  /\ op.pc \in {"idle", "header", "undo"}
         /\ op.pc = "idle" <=> op = Idle
         /\ op.pc # "idle" => op \in AppendOp
BY DEF StateInv, Idle, AppendOp

\* A file of the column store is changed in one place.
LEMMA FileStep ==
  ASSUME StateInv, NEW path \in Paths, NEW e \in BOOLEAN, NEW new \in Seq(Cell),
         Len(new) >= 1 => new[1] \in {"count"} \X (0 .. UintMod - 1),
         file' = [file EXCEPT ![path] = [exists |-> e, cells |-> new]]
  PROVE  /\ file' \in [Paths -> [exists : BOOLEAN, cells : Seq(Cell)]]
         /\ \A p \in Paths : Len(file'[p].cells) >= 1 =>
              file'[p].cells[1] \in {"count"} \X (0 .. UintMod - 1)
         /\ file'[path].cells = new /\ file'[path].exists = e
         /\ \A p \in Paths \ {path} : file'[p] = file[p]
<1>1. file \in [Paths -> [exists : BOOLEAN, cells : Seq(Cell)]]
  BY DEF StateInv
<1>2. [exists |-> e, cells |-> new] \in [exists : BOOLEAN, cells : Seq(Cell)]
  OBVIOUS
<1>3. /\ file'[path] = [exists |-> e, cells |-> new]
      /\ \A p \in Paths \ {path} : file'[p] = file[p]
  BY <1>1
<1>4. file' \in [Paths -> [exists : BOOLEAN, cells : Seq(Cell)]]
  BY <1>1, <1>2
<1>5. ASSUME NEW p \in Paths, Len(file'[p].cells) >= 1
      PROVE  file'[p].cells[1] \in {"count"} \X (0 .. UintMod - 1)
  <2>1. CASE p = path
    BY <1>3, <1>5, <2>1
  <2>2. CASE p # path
    BY <1>3, <1>5, <2>2 DEF StateInv
  <2> QED
    BY <2>1, <2>2
<1> QED
  BY <1>3, <1>4, <1>5

\* A step that changes neither what is acknowledged nor the records of a
\* column that is not left in doubt keeps what is known of the contents.
LEMMA ContentsKept ==
  ASSUME StateInv, NotTornInv, AckedInv, OpenInv,
         doubt \subseteq doubt',
         \A p \in Paths, vals \in Seq(Nat) :
           Holds(p, vals) /\ <<p, "torn">> \notin doubt' => Holds(p, vals)',
         \A p \in Paths : ~InDoubt(p)' =>
           acked'[p] \o Pending(p)' = acked[p] \o Pending(p)
  PROVE  NotTornInv' /\ AckedInv'
<1>1. ASSUME NEW p \in Paths, <<p, "torn">> \notin doubt'
      PROVE  \E vals \in Seq(BatchValues) : Holds(p, vals)'
  <2>1. PICK vals \in Seq(BatchValues) : Holds(p, vals)
    BY <1>1 DEF NotTornInv
  <2>2. vals \in Seq(Nat)
    BY BatchValuesSeq
  <2> QED
    BY <1>1, <2>1, <2>2
<1>2. ASSUME NEW p \in Paths, ~InDoubt(p)'
      PROVE  Holds(p, acked[p] \o Pending(p))'
  <2>1. ~InDoubt(p) /\ <<p, "torn">> \notin doubt'
    BY <1>2 DEF InDoubt
  <2>2. acked[p] \in Seq(Nat) /\ Pending(p) \in Seq(Nat)
    <3>1. Pending(p) = <<>> \/ (op \in AppendOp /\ Pending(p) = op.values)
      BY OpType DEF Pending, Appending
    <3>2. acked[p] \in Seq(Nat)
      BY DEF StateInv
    <3>3. op \in AppendOp => op.values \in Seq(Nat)
      BY DEF AppendOp
    <3>4. <<>> \in Seq(Nat)
      OBVIOUS
    <3> QED
      BY <3>1, <3>2, <3>3, <3>4
  <2>3. acked[p] \o Pending(p) \in Seq(Nat)
    BY <2>2
  <2>4. Holds(p, acked[p] \o Pending(p))
    BY <2>1 DEF AckedInv
  <2> DEFINE v == acked[p] \o Pending(p)
  <2>5. v' = v
    BY <1>2
  <2> HIDE DEF v
  <2>6. \A vals : vals = v => (Holds(p, vals)' => Holds(p, v)')
    BY <2>5
  <2> QED
    BY <2>1, <2>3, <2>4, <2>5 DEF v
<1> QED
  BY <1>1, <1>2 DEF NotTornInv, AckedInv

\* col_array_create: the count may go back to zero, the records stay.
LEMMA CreateInv ==
  ASSUME IInv, NEW path \in Paths, Create(path)
  PROVE  IInv'
<1> DEFINE cells == file[path].cells
<1>0. StateInv /\ OpenInv /\ CountInv /\ NotTornInv /\ AckedInv
  BY DEF IInv
<1>2. op.pc = "idle" /\ handle' = handle /\ op' = op /\ acked' = acked /\ doubt' = doubt
  BY DEF Create
<1>3. cells \in Seq(Cell) /\ 0 \in 0 .. UintMod - 1
  BY <1>0, ColumnAssumption DEF StateInv
<1>4. PICK new \in Seq(Cell) :
        /\ file' = [file EXCEPT ![path] = [exists |-> TRUE, cells |-> new]]
        /\ Len(new) = Len(cells) \/ (Len(cells) < Len(new) /\ Len(new) <= HEADER)
        /\ \A i \in 1 .. Len(cells) : i > HEADER => new[i] = cells[i]
        /\ Len(new) >= 1 => new[1] = <<"count", 0>> \/ (Len(new) = Len(cells) /\ new[1] = cells[1])
  <2>1. PICK w \in {HeaderCells(0)} \cup ShortWrites(HeaderCells(0)) :
          file' = [file EXCEPT ![path] = [exists |-> TRUE, cells |-> WriteAt(cells, 0, w, NoCell)]]
    BY DEF Create
  <2> QED
    BY <1>3, <2>1, HeaderWrite
<1>5. Len(new) >= 1 => new[1] \in {"count"} \X (0 .. UintMod - 1)
  BY <1>0, <1>3, <1>4, CellProperties DEF StateInv
<1>6. /\ file' \in [Paths -> [exists : BOOLEAN, cells : Seq(Cell)]]
      /\ \A p \in Paths : Len(file'[p].cells) >= 1 =>
           file'[p].cells[1] \in {"count"} \X (0 .. UintMod - 1)
      /\ file'[path].cells = new /\ file'[path].exists = TRUE
      /\ \A p \in Paths \ {path} : file'[p] = file[p]
  BY <1>0, <1>4, <1>5, FileStep
<1>7. \A p \in Paths : ~Appending(p) /\ ~Appending(p)' /\ Pending(p)' = Pending(p)
  BY <1>2 DEF Appending, Pending
<1>8. Len(cells) \in Nat /\ Len(new) \in Nat /\ Len(cells) <= Len(new) /\ HEADER = 2
  BY <1>3, <1>4 DEF HEADER
<1>9. StateInv'
  BY <1>0, <1>2, <1>6 DEF StateInv
<1>10. OpenInv'
  <2>1. ASSUME NEW p \in Paths, Whole(p) PROVE Whole(p)'
    BY <1>6, <1>8, <2>1 DEF Whole
  <2>2. ASSUME NEW h \in Handles, handle'[h].state = "open" PROVE Whole(handle[h].path)'
    BY <1>0, <1>2, <2>1, <2>2 DEF OpenInv, StateInv
  <2> QED
    BY <1>0, <1>2, <2>2 DEF OpenInv
<1>11. CountInv'
  <2>1. ASSUME NEW p \in Paths, Len(file'[p].cells) >= HEADER
        PROVE  HEADER + Size * file'[p].cells[1][2] <= Len(file'[p].cells)
    <3>1. CASE p = path
      <4>1. CASE new[1] = <<"count", 0>>
        BY <1>6, <1>8, <2>1, <3>1, <4>1, SizeNat
      <4>2. CASE Len(new) = Len(cells) /\ new[1] = cells[1]
        BY <1>0, <1>2, <1>6, <1>7, <2>1, <3>1, <4>2 DEF CountInv, Base
      <4> QED
        BY <1>4, <1>6, <1>8, <2>1, <3>1, <4>1, <4>2
    <3>2. CASE p # path
      BY <1>0, <1>6, <1>7, <2>1, <3>2 DEF CountInv, Base
    <3> QED
      BY <3>1, <3>2
  <2>2. ASSUME NEW h \in Handles, handle'[h].state = "open"
        PROVE  HEADER + Size * handle[h].count <= Len(file'[handle[h].path].cells)
    <3>1. handle[h].path \in Paths /\ handle[h].count \in Nat
      BY <1>0 DEF StateInv
    <3>2. HEADER + Size * handle[h].count <= Len(file[handle[h].path].cells)
      BY <1>0, <1>2, <1>7, <2>2, <3>1 DEF CountInv, Base
    <3>3. Len(file[handle[h].path].cells) <= Len(file'[handle[h].path].cells)
      BY <1>6, <1>8, <3>1
    <3>4. Size * handle[h].count \in Nat
      BY <3>1, CellsOfRecords
    <3>5. Len(file[handle[h].path].cells) \in Nat /\ Len(file'[handle[h].path].cells) \in Nat
      BY <1>0, <1>6, <3>1 DEF StateInv
    <3> DEFINE x == HEADER + Size * handle[h].count
               y == Len(file[handle[h].path].cells)
               z == Len(file'[handle[h].path].cells)
    <3>6. x \in Nat
      BY <1>8, <3>4
    <3> HIDE DEF x, y, z
    <3>7. x <= y /\ y <= z /\ y \in Nat /\ z \in Nat
      BY <3>2, <3>3, <3>5 DEF x, y, z
    <3>8. x <= z
      BY <3>6, <3>7
    <3> QED
      BY <3>8 DEF x, z
  <2> QED
    BY <1>0, <1>2, <1>7, <2>1, <2>2 DEF CountInv, Base, StateInv
<1>12. ASSUME NEW p \in Paths, NEW vals \in Seq(Nat), Holds(p, vals)
       PROVE  Holds(p, vals)'
  <2>1. CASE p = path
    BY <1>3, <1>4, <1>6, <1>7, <1>12, <2>1, HoldsHeaderWrite
  <2>2. CASE p # path
    BY <1>6, <1>7, <1>12, <2>2, HoldsSame
  <2> QED
    BY <2>1, <2>2
<1>13. NotTornInv' /\ AckedInv'
  <2>1. \A p \in Paths : acked'[p] \o Pending(p)' = acked[p] \o Pending(p)
    BY <1>2, <1>7
  <2> QED
    BY <1>0, <1>2, <1>12, <2>1, ContentsKept
<1> QED
  BY <1>9, <1>10, <1>11, <1>13 DEF IInv

\* A step that changes no file and no append keeps what is known of contents.
LEMMA ContentsUntouched ==
  ASSUME IInv, UNCHANGED <<file, op, acked, doubt>>
  PROVE  NotTornInv' /\ AckedInv'
<1>1. StateInv /\ OpenInv /\ NotTornInv /\ AckedInv
  BY DEF IInv
<1>2. \A p \in Paths : (Appending(p)' <=> Appending(p)) /\ Pending(p)' = Pending(p)
  BY DEF Appending, Pending
<1>3. ASSUME NEW p \in Paths, NEW vals \in Seq(Nat), Holds(p, vals)
      PROVE  Holds(p, vals)'
  BY <1>2, <1>3, HoldsSame
<1> QED
  BY <1>1, <1>2, <1>3, ContentsKept

\* The count on the disk is one a handle can cache.
LEMMA CachedCountType ==
  ASSUME StateInv, NEW path \in Paths, Whole(path)
  PROVE  CachedCount(path) \in 0 .. UintMod - 1
<1>1. Len(file[path].cells) >= 1
  BY DEF Whole, HEADER, StateInv
<1>2. file[path].cells[1] \in {"count"} \X (0 .. UintMod - 1)
  BY <1>1 DEF StateInv
<1> QED
  BY <1>2 DEF CachedCount

\* A handle that is not open.
LEMMA NoHandleType ==
  /\ NoHandle \in [state : {"closed", "open", "unusable"}, path : Paths, count : 0 .. UintMod - 1]
  /\ [NoHandle EXCEPT !.state = "unusable"]
       \in [state : {"closed", "open", "unusable"}, path : Paths, count : 0 .. UintMod - 1]
  /\ NoHandle.state = "closed" /\ [NoHandle EXCEPT !.state = "unusable"].state = "unusable"
<1>1. (CHOOSE p \in Paths : TRUE) \in Paths
  BY WordAssumption
<1>2. 0 \in 0 .. UintMod - 1
  BY ColumnAssumption
<1> QED
  BY <1>1, <1>2 DEF NoHandle

\* col_array_open: the handle caches a count that is not ahead.
LEMMA OpenStepInv ==
  ASSUME IInv, NEW h \in Handles, NEW path \in Paths, Open(h, path)
  PROVE  IInv'
<1> DEFINE new == IF Whole(path)
                  THEN [state |-> "open", path |-> path, count |-> CachedCount(path)]
                  ELSE [NoHandle EXCEPT !.state = "unusable"]
<1>1. StateInv /\ OpenInv /\ CountInv
  BY DEF IInv
<1>2. op.pc = "idle" /\ UNCHANGED <<file, op, acked, doubt>>
  BY DEF Open
<1>3. handle' = [handle EXCEPT ![h] = new]
  BY DEF Open
<1>4. /\ new \in [state : {"closed", "open", "unusable"}, path : Paths, count : 0 .. UintMod - 1]
      /\ new.state = "open" => Whole(path) /\ new.path = path /\ new.count = CachedCount(path)
  <2>1. CASE Whole(path)
    BY <1>1, <2>1, CachedCountType
  <2>2. CASE ~Whole(path)
    BY <2>2, NoHandleType
  <2> QED
    BY <2>1, <2>2
<1> HIDE DEF new
<1>5. handle'[h] = new /\ \A g \in Handles \ {h} : handle'[g] = handle[g]
  BY <1>1, <1>3 DEF StateInv
<1>6. StateInv'
  BY <1>1, <1>2, <1>3, <1>4 DEF StateInv
<1>7. OpenInv'
  BY <1>1, <1>2, <1>4, <1>5 DEF OpenInv, Whole
<1>8. CountInv'
  <2>1. Whole(path) => HEADER + Size * CachedCount(path) <= Base(path)
    BY <1>1 DEF Whole, CountInv, CachedCount
  <2>2. \A p : Base(p)' = Base(p)
    BY <1>2 DEF Base, Appending
  <2> QED
    BY <1>1, <1>2, <1>4, <1>5, <2>1, <2>2 DEF CountInv
<1> QED
  BY <1>2, <1>6, <1>7, <1>8, ContentsUntouched DEF IInv

\* col_array_close
LEMMA CloseInv ==
  ASSUME IInv, NEW h \in Handles, Close(h)
  PROVE  IInv'
<1>1. StateInv /\ OpenInv /\ CountInv
  BY DEF IInv
<1>2. op.pc = "idle" /\ UNCHANGED <<file, op, acked, doubt>> /\ handle' = [handle EXCEPT ![h] = NoHandle]
  BY DEF Close
<1>3. handle'[h] = NoHandle /\ \A g \in Handles \ {h} : handle'[g] = handle[g]
  BY <1>1, <1>2 DEF StateInv
<1>4. StateInv'
  BY <1>1, <1>2, NoHandleType DEF StateInv
<1>5. OpenInv'
  BY <1>1, <1>2, <1>3, NoHandleType DEF OpenInv, Whole
<1>6. CountInv'
  BY <1>1, <1>2, <1>3, NoHandleType DEF CountInv, Base, Appending
<1> QED
  BY <1>2, <1>4, <1>5, <1>6, ContentsUntouched DEF IInv

\* The death of the process leaves in doubt the column it was appending to.
LEMMA DiesInv ==
  ASSUME IInv, Dies
  PROVE  IInv'
<1>1. StateInv /\ OpenInv /\ CountInv /\ NotTornInv /\ AckedInv
  BY DEF IInv
<1>2. handle' = [h \in Handles |-> NoHandle] /\ op' = Idle /\ UNCHANGED <<file, acked>>
  BY DEF Dies
<1>3. /\ op.pc = "idle" => doubt' = doubt
      /\ op.pc = "header" => doubt' = doubt \cup {<<op.path, "unanswered">>}
      /\ op.pc = "undo" => doubt' = doubt \cup {<<op.path, "torn">>}
  BY DEF Dies
<1>4. op.pc \in {"idle", "header", "undo"} /\ (op.pc # "idle" => op.path \in Paths)
  BY <1>1, OpType DEF AppendOp
<1>5. doubt' \subseteq Paths \X {"unanswered", "torn", "lost"} /\ doubt \subseteq doubt'
  BY <1>1, <1>3, <1>4 DEF StateInv
<1>6. StateInv'
  BY <1>1, <1>2, <1>5, NoHandleType DEF StateInv
<1>7. op'.pc = "idle" /\ \A h \in Handles : handle'[h].state # "open"
  BY <1>2, NoHandleType DEF Idle
<1>8. OpenInv'
  BY <1>7 DEF OpenInv
<1>9. CountInv'
  <2>1. ASSUME NEW p \in Paths, Len(file[p].cells) >= HEADER
        PROVE  HEADER + Size * file[p].cells[1][2] <= Len(file[p].cells)
    <3>1. HEADER + Size * file[p].cells[1][2] <= Base(p)
      BY <1>1, <2>1 DEF CountInv
    <3>2. CASE Appending(p)
      <4>1. op.offset <= Len(file[p].cells) /\ op.offset \in Nat /\ Len(file[p].cells) \in Nat
        BY <1>1, <3>2, OpType DEF Appending, OpenInv, StateInv, AppendOp
      <4>2. file[p].cells[1][2] \in Nat
        <5>1. Len(file[p].cells) >= 1
          BY <2>1, <4>1 DEF HEADER
        <5> QED
          BY <1>1, <5>1 DEF StateInv
      <4>3. Size * file[p].cells[1][2] \in Nat /\ HEADER \in Nat
        BY <4>2, CellsOfRecords DEF HEADER
      <4>4. HEADER + Size * file[p].cells[1][2] <= op.offset
        BY <3>1, <3>2 DEF Base
      <4> QED
        BY <4>1, <4>2, <4>3, <4>4, SizeNat, SMTT(30)
    <3>3. CASE ~Appending(p)
      BY <3>1, <3>3 DEF Base
    <3> QED
      BY <3>2, <3>3
  <2> QED
    BY <1>2, <1>7, <2>1 DEF CountInv, Base, Appending
<1>10. ASSUME NEW p \in Paths, NEW vals \in Seq(Nat), Holds(p, vals), <<p, "torn">> \notin doubt'
       PROVE  Holds(p, vals)'
  <2>1. ~(Appending(p) /\ op.pc = "undo")
    BY <1>3, <1>10 DEF Appending
  <2> QED
    BY <1>2, <1>7, <1>10, <2>1 DEF Holds, Recorded, Appending
<1>11. ASSUME NEW p \in Paths, ~InDoubt(p)'
       PROVE  acked'[p] \o Pending(p)' = acked[p] \o Pending(p)
  <2>1. ASSUME Appending(p), op.pc = "header" PROVE FALSE
    <3>1. <<p, "unanswered">> \in doubt'
      BY <1>3, <2>1 DEF Appending
    <3>2. <<p, "unanswered">>[1] = p
      OBVIOUS
    <3> QED
      BY <1>11, <3>1, <3>2 DEF InDoubt
  <2> QED
    BY <1>2, <1>7, <2>1 DEF Pending, Appending
<1> QED
  BY <1>1, <1>5, <1>6, <1>8, <1>9, <1>10, <1>11, ContentsKept DEF IInv

\* What an append changes: one file and the append under way, or one file, a
\* handle and what is acknowledged.
LEMMA AppendFile ==
  ASSUME StateInv, NEW path \in Paths, NEW new \in Seq(Cell),
         Len(new) >= 1 => new[1] \in {"count"} \X (0 .. UintMod - 1),
         file' = [file EXCEPT ![path].cells = new]
  PROVE  /\ file' \in [Paths -> [exists : BOOLEAN, cells : Seq(Cell)]]
         /\ \A p \in Paths : Len(file'[p].cells) >= 1 =>
              file'[p].cells[1] \in {"count"} \X (0 .. UintMod - 1)
         /\ file'[path].cells = new /\ file'[path].exists = file[path].exists
         /\ \A p \in Paths \ {path} : file'[p] = file[p]
<1> DEFINE e == file[path].exists
<1>1. file \in [Paths -> [exists : BOOLEAN, cells : Seq(Cell)]]
  BY DEF StateInv
<1>2. e \in BOOLEAN
  BY <1>1
<1>3. [file[path] EXCEPT !.cells = new] = [exists |-> e, cells |-> new]
  BY <1>1
<1>4. file' = [file EXCEPT ![path] = [exists |-> e, cells |-> new]]
  BY <1>1, <1>3
<1> HIDE DEF e
<1> QED
  BY <1>2, <1>4, FileStep DEF e

\* What col_array_append writes goes behind the end of the column: whole
\* records, or part of them.
LEMMA AppendDataStep ==
  ASSUME IInv, NEW h \in Handles, NEW batch \in Batches, AppendData(h, batch)
  PROVE  LET path == handle[h].path
             cells == file[path].cells
         IN  /\ path \in Paths /\ Whole(path) /\ cells \in Seq(Cell)
             /\ op.pc = "idle" /\ handle[h].state = "open"
             /\ UNCHANGED <<handle, acked, doubt>>
             /\ op' \in AppendOp /\ op'.handle = h /\ op'.path = path
             /\ op'.offset = Len(cells) /\ op'.values = batch.values
             /\ \E new \in Seq(Cell) :
                  /\ file' = [file EXCEPT ![path].cells = new]
                  /\ Len(new) >= Len(cells)
                  /\ \A i \in 1 .. Len(cells) : new[i] = cells[i]
                  /\ op'.pc = "header" =>
                       new = WriteAt(cells, Len(cells), ValueCells(batch.values), NoCell)
<1> DEFINE path == handle[h].path
           cells == file[path].cells
           records == ValueCells(batch.values)
           o(pc, answer) == [pc |-> pc, handle |-> h, path |-> path, offset |-> Len(cells),
                             values |-> batch.values, answer |-> answer]
<1>1. StateInv /\ OpenInv
  BY DEF IInv
<1>2. /\ op.pc = "idle" /\ handle[h].state = "open"
      /\ UNCHANGED <<handle, acked, doubt>>
  BY DEF AppendData
<1>3. path \in Paths /\ Whole(path) /\ cells \in Seq(Cell) /\ Len(cells) \in Nat
  BY <1>1, <1>2 DEF StateInv, OpenInv
<1>4. /\ batch.values \in Seq(Nat)
      /\ SubSeq(ValueCells(batch.values), 1, RecordCount(batch) * Size) = records
  BY RecordCountProperties
<1>5. records \in Seq(Cell)
  BY <1>4, ValueCellsProperties, CellProperties
<1>6. \/ /\ file' = [file EXCEPT ![path].cells = WriteAt(cells, Len(cells), records, NoCell)]
         /\ op' = o("header", "ok")
      \/ \E w \in ShortWrites(records), answer \in {"ok", "error"} :
           /\ file' = [file EXCEPT ![path].cells = WriteAt(cells, Len(cells), w, NoCell)]
           /\ op' = o("undo", answer)
  BY <1>4 DEF AppendData, End
<1>7. \A w \in Seq(Cell) : LET new == WriteAt(cells, Len(cells), w, NoCell)
                           IN  /\ new \in Seq(Cell)
                               /\ Len(new) >= Len(cells)
                               /\ \A i \in 1 .. Len(cells) : new[i] = cells[i]
  <2> SUFFICES ASSUME NEW w \in Seq(Cell)
               PROVE  LET new == WriteAt(cells, Len(cells), w, NoCell)
                      IN  /\ new \in Seq(Cell)
                          /\ Len(new) >= Len(cells)
                          /\ \A i \in 1 .. Len(cells) : new[i] = cells[i]
    OBVIOUS
  <2> DEFINE new == WriteAt(cells, Len(cells), w, NoCell)
  <2> HIDE DEF cells
  <2>1. Len(w) \in Nat
    OBVIOUS
  <2>2. /\ new \in Seq(Cell)
        /\ Len(cells) + Len(w) >= Len(cells) => Len(new) = Len(cells) + Len(w)
        /\ \A i \in 1 .. Len(cells) :
             i <= Len(cells) \/ i > Len(cells) + Len(w) => new[i] = cells[i]
    BY <1>3, ColumnWrite
  <2> HIDE DEF new
  <2>3. Len(new) >= Len(cells) /\ \A i \in 1 .. Len(cells) : new[i] = cells[i]
    BY <1>3, <2>1, <2>2
  <2> QED
    BY <2>2, <2>3 DEF new
<1>8. \A pc \in {"header", "undo"}, answer \in {"ok", "error"} :
        /\ o(pc, answer) \in AppendOp
        /\ o(pc, answer).pc = pc /\ o(pc, answer).handle = h /\ o(pc, answer).path = path
        /\ o(pc, answer).offset = Len(cells) /\ o(pc, answer).values = batch.values
  BY <1>3, <1>4 DEF AppendOp
<1> HIDE DEF cells, path, records, o
<1>9. CASE /\ file' = [file EXCEPT ![path].cells = WriteAt(cells, Len(cells), records, NoCell)]
           /\ op' = o("header", "ok")
  <2>1. \E new \in Seq(Cell) :
          /\ file' = [file EXCEPT ![path].cells = new]
          /\ Len(new) >= Len(cells)
          /\ \A i \in 1 .. Len(cells) : new[i] = cells[i]
          /\ op'.pc = "header" => new = WriteAt(cells, Len(cells), records, NoCell)
    BY <1>5, <1>7, <1>9
  <2> QED
    BY <1>2, <1>3, <1>8, <1>9, <2>1 DEF cells, path, records
<1>10. CASE \E w \in ShortWrites(records), answer \in {"ok", "error"} :
              /\ file' = [file EXCEPT ![path].cells = WriteAt(cells, Len(cells), w, NoCell)]
              /\ op' = o("undo", answer)
  <2>1. PICK w \in ShortWrites(records), answer \in {"ok", "error"} :
              /\ file' = [file EXCEPT ![path].cells = WriteAt(cells, Len(cells), w, NoCell)]
              /\ op' = o("undo", answer)
    BY <1>10
  <2>2. w \in Seq(Cell)
    BY <1>5, ShortWritesProperties
  <2>3. op'.pc = "undo"
    BY <1>8, <2>1
  <2>4. \E new \in Seq(Cell) :
          /\ file' = [file EXCEPT ![path].cells = new]
          /\ Len(new) >= Len(cells)
          /\ \A i \in 1 .. Len(cells) : new[i] = cells[i]
          /\ op'.pc = "header" => new = WriteAt(cells, Len(cells), records, NoCell)
    BY <1>7, <2>1, <2>2, <2>3
  <2> QED
    BY <1>2, <1>3, <1>8, <2>1, <2>4 DEF cells, path, records
<1> QED
  BY <1>6, <1>9, <1>10

\* The write of the records keeps the invariant: the column holds the old
\* records, followed by the new ones or by what is going to be cut off.
LEMMA RecordsWrite ==
  ASSUME IInv, NEW h \in Handles, NEW path \in Paths, NEW cells \in Seq(Cell),
         NEW new \in Seq(Cell), NEW values \in Seq(BatchValues),
         handle[h].state = "open", handle[h].path = path, file[path].cells = cells,
         Whole(path), op.pc = "idle", UNCHANGED <<handle, acked, doubt>>,
         op' \in AppendOp, op'.handle = h, op'.path = path,
         op'.offset = Len(cells), op'.values = values,
         file' = [file EXCEPT ![path].cells = new],
         Len(new) >= Len(cells), \A i \in 1 .. Len(cells) : new[i] = cells[i],
         op'.pc = "header" => new = WriteAt(cells, Len(cells), ValueCells(values), NoCell)
  PROVE  IInv'
<1>1. StateInv /\ OpenInv /\ CountInv /\ NotTornInv /\ AckedInv
  BY DEF IInv
<1>2. handle' = handle /\ acked' = acked /\ doubt' = doubt
  OBVIOUS
<1>3. values \in Seq(Nat)
  BY BatchValuesSeq
<1>4. Len(cells) \in Nat /\ Len(new) \in Nat /\ Len(cells) >= HEADER /\ HEADER = 2
  BY DEF Whole, HEADER
<1>5. new[1] = cells[1]
  BY <1>4
<1>6. /\ file' \in [Paths -> [exists : BOOLEAN, cells : Seq(Cell)]]
      /\ \A p \in Paths : Len(file'[p].cells) >= 1 =>
           file'[p].cells[1] \in {"count"} \X (0 .. UintMod - 1)
      /\ file'[path].cells = new /\ file'[path].exists = file[path].exists
      /\ \A p \in Paths \ {path} : file'[p] = file[p]
  <2>1. cells[1] \in {"count"} \X (0 .. UintMod - 1)
    BY <1>1, <1>4 DEF StateInv
  <2> QED
    BY <1>1, <1>5, <2>1, AppendFile
<1>7. StateInv'
  BY <1>1, <1>6 DEF StateInv
<1>8. op'.pc \in {"header", "undo"}
  BY DEF AppendOp
<1>9. /\ \A p \in Paths : ~Appending(p) /\ Pending(p) = <<>>
      /\ Appending(path)'
      /\ \A p \in Paths \ {path} : ~Appending(p)' /\ Pending(p)' = <<>>
      /\ Pending(path)' = IF op'.pc = "header" THEN values ELSE <<>>
  BY <1>8 DEF Appending, Pending
<1>10. OpenInv'
  <2>1. ASSUME NEW g \in Handles, handle[g].state = "open" PROVE Whole(handle[g].path)'
    <3>1. Whole(handle[g].path) /\ handle[g].path \in Paths
      BY <1>1, <2>1 DEF OpenInv, StateInv
    <3> QED
      BY <1>4, <1>6, <3>1 DEF Whole
  <2>2. op'.pc = "header" => Len(new) = op'.offset + Size * Len(op'.values)
    <3>1. Len(ValueCells(values)) = Size * Len(values) /\ ValueCells(values) \in Seq(Cell)
      BY <1>3, ValueCellsProperties, CellProperties
    <3>2. Len(ValueCells(values)) \in Nat
      BY <3>1
    <3>3. op'.pc = "header" =>
            (Len(cells) + Len(ValueCells(values)) >= Len(cells)
               => Len(new) = Len(cells) + Len(ValueCells(values)))
      BY <1>4, <3>1, ColumnWrite
    <3>4. Len(cells) + Len(ValueCells(values)) >= Len(cells)
      BY <1>4, <3>2
    <3> QED
      BY <3>1, <3>3, <3>4
  <2> QED
    BY <1>2, <1>4, <1>6, <2>1, <2>2 DEF OpenInv
<1>11. CountInv'
  <2>1. \A p \in Paths : Base(p)' = Base(p)
    BY <1>6, <1>9 DEF Base
  <2>2. \A p \in Paths : Len(file'[p].cells) >= HEADER =>
          Len(file[p].cells) >= HEADER /\ file'[p].cells[1] = file[p].cells[1]
    <3> SUFFICES ASSUME NEW p \in Paths, Len(file'[p].cells) >= HEADER
                 PROVE  Len(file[p].cells) >= HEADER /\ file'[p].cells[1] = file[p].cells[1]
      OBVIOUS
    <3>1. CASE p = path
      BY <1>4, <1>5, <1>6, <3>1
    <3>2. CASE p # path
      BY <1>6, <3>2
    <3> QED
      BY <3>1, <3>2
  <2> QED
    BY <1>1, <1>2, <2>1, <2>2 DEF CountInv, StateInv
<1>12. ASSUME NEW p \in Paths, p # path, NEW vals, Holds(p, vals)
       PROVE  Holds(p, vals)'
  BY <1>6, <1>9, <1>12, HoldsSame
<1>13. ASSUME NEW vals \in Seq(Nat), Holds(path, vals)
       PROVE  IF op'.pc = "header" THEN Holds(path, vals \o values)' ELSE Holds(path, vals)'
  <2>1. Begins(cells, vals) /\ Len(cells) = HEADER + Size * Len(vals)
    BY <1>4, <1>9, <1>13 DEF Holds, Recorded, Whole
  <2>2. CASE op'.pc = "header"
    <3>1. /\ Begins(new, vals \o values)
          /\ Len(new) = HEADER + Size * Len(vals \o values)
      BY <1>3, <2>1, <2>2, BeginsExtended
    <3>2. Holds(path, vals \o values)'
      BY <1>6, <2>2, <3>1 DEF Holds, Recorded
    <3> QED
      BY <2>2, <3>2
  <2>3. CASE op'.pc = "undo"
    <3>1. Begins(new, vals)
      <4>1. vals = <<>> \/ HEADER + Size * Len(vals) <= Len(new)
        BY <2>1
      <4> QED
        BY <2>1, <4>1, BeginsKept
    <3>2. Holds(path, vals)'
      BY <1>6, <2>1, <2>3, <3>1 DEF Holds, Recorded
    <3> QED
      BY <2>3, <3>2
  <2> QED
    BY <1>8, <2>2, <2>3
<1>14. NotTornInv'
  <2> SUFFICES ASSUME NEW p \in Paths, <<p, "torn">> \notin doubt'
               PROVE  \E vals \in Seq(BatchValues) : Holds(p, vals)'
    BY <1>6 DEF NotTornInv
  <2>1. PICK vals \in Seq(BatchValues) : Holds(p, vals)
    BY <1>1, <1>2 DEF NotTornInv
  <2>2. CASE p # path
    BY <1>12, <2>1, <2>2
  <2>3. CASE p = path
    <3>1. vals \in Seq(Nat) /\ vals \o values \in Seq(BatchValues)
      BY BatchValuesSeq
    <3> QED
      BY <1>13, <2>1, <2>3, <3>1
  <2> QED
    BY <2>2, <2>3
<1>15. AckedInv'
  <2> SUFFICES ASSUME NEW p \in Paths, ~InDoubt(p)'
               PROVE  Holds(p, acked[p] \o Pending(p))'
    BY DEF AckedInv
  <2>0. PICK vals \in Seq(Nat) : vals = acked[p]
    BY <1>1 DEF StateInv
  <2>1. vals \o <<>> = vals
    OBVIOUS
  <2>2. Holds(p, vals)
    <3>1. Holds(p, acked[p] \o Pending(p))
      BY <1>1, <1>2 DEF AckedInv, InDoubt
    <3> QED
      BY <1>9, <2>0, <2>1, <3>1
  <2>3. (acked[p] \o Pending(p))' = vals \o Pending(p)'
    BY <1>2, <2>0
  <2>4. CASE p # path \/ op'.pc = "undo"
    <3>1. (acked[p] \o Pending(p))' = vals
      BY <1>9, <2>1, <2>3, <2>4
    <3>2. Holds(p, vals)'
      BY <1>12, <1>13, <2>2, <2>4
    <3> QED
      BY <3>1, <3>2 DEF Holds
  <2>5. CASE p = path /\ op'.pc = "header"
    <3>1. (acked[p] \o Pending(p))' = vals \o values
      BY <1>9, <2>3, <2>5
    <3>2. Holds(p, vals \o values)'
      BY <1>13, <2>2, <2>5
    <3> QED
      BY <3>1, <3>2 DEF Holds
  <2> QED
    BY <1>8, <2>4, <2>5
<1> QED
  BY <1>7, <1>10, <1>11, <1>14, <1>15 DEF IInv

\* col_array_append up to the write of the records.
LEMMA AppendDataInv ==
  ASSUME IInv, NEW h \in Handles, NEW batch \in Batches, AppendData(h, batch)
  PROVE  IInv'
<1>1. batch.values \in Seq(BatchValues)
  <2>1. batch.values \in Seq(Nat)
    BY RecordCountProperties
  <2>2. \A i \in 1 .. Len(batch.values) : batch.values[i] \in BatchValues
    BY <2>1 DEF BatchValues, Range
  <2> QED
    BY <2>1, <2>2
<1>2. PICK path \in Paths, cells \in Seq(Cell), values \in Seq(BatchValues) :
        path = handle[h].path /\ cells = file[path].cells /\ values = batch.values
  BY <1>1, AppendDataStep
<1>3. PICK new \in Seq(Cell) :
        /\ file' = [file EXCEPT ![path].cells = new]
        /\ Len(new) >= Len(cells)
        /\ \A i \in 1 .. Len(cells) : new[i] = cells[i]
        /\ op'.pc = "header" => new = WriteAt(cells, Len(cells), ValueCells(values), NoCell)
  <2>1. PICK new \in Seq(Cell) :
          /\ file' = [file EXCEPT ![handle[h].path].cells = new]
          /\ Len(new) >= Len(file[handle[h].path].cells)
          /\ \A i \in 1 .. Len(file[handle[h].path].cells) : new[i] = file[handle[h].path].cells[i]
          /\ op'.pc = "header" =>
               new = WriteAt(file[handle[h].path].cells, Len(file[handle[h].path].cells),
                             ValueCells(batch.values), NoCell)
    BY AppendDataStep
  <2> QED
    BY <1>2, <2>1
<1>4. /\ Whole(path) /\ op.pc = "idle" /\ handle[h].state = "open"
      /\ UNCHANGED <<handle, acked, doubt>>
      /\ op' \in AppendOp /\ op'.handle = h /\ op'.path = path
      /\ op'.offset = Len(cells) /\ op'.values = values
  BY <1>2, AppendDataStep
<1> QED
  BY <1>2, <1>3, <1>4, RecordsWrite

\* The append under way, by its parts.
LEMMA OpParts ==
  ASSUME StateInv, OpenInv, op.pc # "idle"
  PROVE  \E h \in Handles, path \in Paths, offset \in Nat, values \in Seq(BatchValues) :
           /\ op.handle = h /\ op.path = path /\ op.offset = offset /\ op.values = values
           /\ handle[h].state = "open" /\ handle[h].path = path /\ Whole(path)
           /\ offset >= HEADER /\ offset <= Len(file[path].cells)
           /\ op.pc = "header" => Len(file[path].cells) = offset + Size * Len(values)
<1>1. op \in AppendOp
  BY OpType
<1>2. op.handle \in Handles /\ op.path \in Paths /\ op.offset \in Nat
  BY <1>1 DEF AppendOp
<1>3. op.values \in Seq(BatchValues)
  BY DEF OpenInv
<1> QED
  BY <1>2, <1>3 DEF OpenInv

\* The ftruncate of col_array_append leaves the records there were.
LEMMA AppendUndoInv ==
  ASSUME IInv, AppendUndo
  PROVE  IInv'
<1>1. StateInv /\ OpenInv /\ CountInv /\ NotTornInv /\ AckedInv
  BY DEF IInv
<1>2. op.pc = "undo"
  BY DEF AppendUndo
<1>3. PICK h \in Handles, path \in Paths, offset \in Nat :
        /\ op.path = path /\ op.offset = offset
        /\ Whole(path) /\ offset >= HEADER /\ offset <= Len(file[path].cells)
  BY <1>1, <1>2, OpParts
<1>4. PICK cells, new :
        cells \in Seq(Cell) /\ cells = file[path].cells /\ new = Truncate(cells, offset, NoCell)
  BY <1>1 DEF StateInv
<1> cells \in Seq(Cell)
  BY <1>4
<1>5. new \in Seq(Cell) /\ Len(new) = offset /\ \A i \in 1 .. Len(cells) : i <= offset => new[i] = cells[i]
  <2>1. NoCell \in Cell
    BY CellProperties
  <2>2. new \in Seq(Cell)
    BY <1>4, <2>1, TruncateProperties
  <2>3. Len(new) = offset
    BY <1>4 DEF Truncate
  <2>4. \A i \in 1 .. Len(cells) : i <= offset => new[i] = cells[i]
    BY <1>4 DEF Truncate
  <2> QED
    BY <2>2, <2>3, <2>4
<1>6. /\ file' = [file EXCEPT ![path].cells = new]
      /\ op'.pc = "idle" /\ op' = Idle /\ handle' = handle /\ acked' = acked
      /\ doubt' = doubt \/ doubt' = doubt \cup {<<path, "lost">>}
  BY <1>3, <1>4 DEF AppendUndo, Undone, Idle
<1>7. Len(cells) \in Nat /\ offset <= Len(cells) /\ HEADER = 2 /\ offset >= 2
  BY <1>3, <1>4 DEF HEADER
<1>8. new[1] = cells[1]
  BY <1>5, <1>7
<1>9. /\ file' \in [Paths -> [exists : BOOLEAN, cells : Seq(Cell)]]
      /\ \A p \in Paths : Len(file'[p].cells) >= 1 =>
           file'[p].cells[1] \in {"count"} \X (0 .. UintMod - 1)
      /\ file'[path].cells = new /\ file'[path].exists = file[path].exists
      /\ \A p \in Paths \ {path} : file'[p] = file[p]
  <2>1. cells[1] \in {"count"} \X (0 .. UintMod - 1)
    BY <1>1, <1>4, <1>7 DEF StateInv
  <2> QED
    BY <1>1, <1>5, <1>6, <1>8, <2>1, AppendFile
<1>10. StateInv'
  BY <1>1, <1>6, <1>9 DEF StateInv
<1>11. /\ \A p \in Paths : ~Appending(p)' /\ Pending(p)' = <<>> /\ Pending(p) = <<>>
       /\ Appending(path) /\ \A p \in Paths \ {path} : ~Appending(p)
  BY <1>2, <1>3, <1>6 DEF Appending, Pending
<1>12. OpenInv'
  <2>1. ASSUME NEW g \in Handles, handle[g].state = "open" PROVE Whole(handle[g].path)'
    <3>1. Whole(handle[g].path) /\ handle[g].path \in Paths
      BY <1>1, <2>1 DEF OpenInv, StateInv
    <3> QED
      BY <1>3, <1>5, <1>6, <1>9, <3>1 DEF Whole
  <2> QED
    BY <1>6, <2>1 DEF OpenInv
<1>13. CountInv'
  <2>1. \A p \in Paths : Base(p)' = Base(p)
    BY <1>3, <1>5, <1>9, <1>11 DEF Base
  <2>2. ASSUME NEW p \in Paths, Len(file'[p].cells) >= HEADER
        PROVE  Len(file[p].cells) >= HEADER /\ file'[p].cells[1] = file[p].cells[1]
    BY <1>4, <1>7, <1>8, <1>9, <2>2
  <2> QED
    BY <1>1, <1>6, <2>1, <2>2 DEF CountInv, StateInv
<1>14. ASSUME NEW p \in Paths, NEW vals \in Seq(Nat), Holds(p, vals)
       PROVE  Holds(p, vals)'
  <2>1. CASE p = path
    <3>1. Begins(cells, vals) /\ offset = HEADER + Size * Len(vals)
      BY <1>2, <1>3, <1>4, <1>14, <2>1 DEF Holds, Recorded
    <3>2. Begins(new, vals)
      <4>1. vals = <<>> \/ HEADER + Size * Len(vals) <= Len(new)
        BY <1>5, <3>1
      <4> QED
        BY <1>5, <3>1, <4>1, BeginsKept
    <3> QED
      BY <1>5, <1>6, <1>9, <2>1, <3>1, <3>2 DEF Holds, Recorded
  <2>2. CASE p # path
    BY <1>9, <1>11, <1>14, <2>2, HoldsSame
  <2> QED
    BY <2>1, <2>2
<1>15. NotTornInv' /\ AckedInv'
  <2>1. doubt \subseteq doubt' /\ \A p \in Paths : acked'[p] \o Pending(p)' = acked[p] \o Pending(p)
    BY <1>6, <1>11
  <2> QED
    BY <1>1, <1>14, <2>1, ContentsKept
<1> QED
  BY <1>10, <1>12, <1>13, <1>15 DEF IInv

\* The new count never exceeds the old one and the records appended.
LEMMA NewCountProperties ==
  ASSUME NEW c \in 0 .. UintMod - 1, NEW n \in Nat
  PROVE  NewCount(c, n) \in 0 .. UintMod - 1 /\ NewCount(c, n) <= c + n
<1>1. UintMod \in Nat /\ UintMod > 0
  BY ColumnAssumption
<1> QED
  BY <1>1 DEF NewCount

\* Records that are counted are there, the count being of the old records and
\* some of the new.
LEMMA CountedCells ==
  ASSUME NEW c \in Nat, NEW n \in Nat, NEW count \in Nat, count <= c + n,
         NEW offset \in Nat, HEADER + Size * c <= offset
  PROVE  HEADER + Size * count <= offset + Size * n
<1>1. Size * c \in Nat /\ Size * n \in Nat /\ Size * count \in Nat /\ Size * (c + n) \in Nat
  <2>1. c + n \in Nat
    OBVIOUS
  <2> QED
    BY <2>1, CellsOfRecords
<1>2. Size * (c + n) = Size * c + Size * n
  BY CellsAdd
<1>3. Size * count <= Size * (c + n)
  <2>1. c + n \in Nat
    OBVIOUS
  <2> QED
    BY <2>1, CellsAdd
<1> DEFINE x == Size * c
           y == Size * n
           z == Size * count
<1>4. x \in Nat /\ y \in Nat /\ z \in Nat /\ z <= x + y /\ HEADER + x <= offset /\ HEADER \in Nat
  BY <1>1, <1>2, <1>3 DEF HEADER
<1> HIDE DEF x, y, z
<1>5. HEADER + z <= offset + y
  BY <1>4
<1> QED
  BY <1>5 DEF y, z

\* The end of col_array_append: the header is written, or part of it, and the
\* appended documents are acknowledged.
LEMMA AppendHeaderInv ==
  ASSUME IInv, AppendHeader
  PROVE  IInv'
<1>1. StateInv /\ OpenInv /\ CountInv /\ NotTornInv /\ AckedInv
  BY DEF IInv
<1>2. op.pc = "header"
  BY DEF AppendHeader
<1>3. PICK h \in Handles, path \in Paths, offset \in Nat, values \in Seq(BatchValues) :
        /\ op.handle = h /\ op.path = path /\ op.offset = offset /\ op.values = values
        /\ handle[h].state = "open" /\ handle[h].path = path /\ Whole(path)
        /\ offset >= HEADER /\ Len(file[path].cells) = offset + Size * Len(values)
  BY <1>1, <1>2, OpParts
<1>4. PICK cells \in Seq(Cell), c \in 0 .. UintMod - 1, count \in 0 .. UintMod - 1 :
        /\ cells = file[path].cells /\ c = handle[h].count
        /\ count = NewCount(c, Len(values)) /\ count <= c + Len(values)
  <2>1. file[path].cells \in Seq(Cell) /\ handle[h].count \in 0 .. UintMod - 1
    BY <1>1 DEF StateInv
  <2>2. Len(values) \in Nat
    OBVIOUS
  <2> QED
    BY <2>1, <2>2, NewCountProperties
<1>5. PICK new \in Seq(Cell) :
        /\ file' = [file EXCEPT ![path].cells = new]
        /\ Len(new) = Len(cells) \/ (Len(cells) < Len(new) /\ Len(new) <= HEADER)
        /\ \A i \in 1 .. Len(cells) : i > HEADER => new[i] = cells[i]
        /\ Len(new) >= 1 => new[1] = <<"count", count>> \/ (Len(new) = Len(cells) /\ new[1] = cells[1])
  <2>1. PICK w \in {HeaderCells(count)} \cup ShortWrites(HeaderCells(count)) :
          file' = [file EXCEPT ![path].cells = WriteAt(cells, 0, w, NoCell)]
    BY <1>3, <1>4 DEF AppendHeader
  <2>2. PICK v : v = WriteAt(cells, 0, w, NoCell)
    OBVIOUS
  <2>3. /\ v \in Seq(Cell)
        /\ Len(v) = Len(cells) \/ (Len(cells) < Len(v) /\ Len(v) <= HEADER)
        /\ \A i \in 1 .. Len(cells) : i > HEADER => v[i] = cells[i]
        /\ Len(v) >= 1 => v[1] = <<"count", count>> \/ (Len(v) = Len(cells) /\ v[1] = cells[1])
    <3>1. cells \in Seq(Cell) /\ count \in 0 .. UintMod - 1
      BY <1>4
    <3> QED
      BY <2>1, <2>2, <3>1, HeaderWrite
  <2> QED
    BY <2>1, <2>2, <2>3
<1>6. /\ handle' = [handle EXCEPT ![h].count = count]
      /\ op'.pc = "idle" /\ op' = Idle /\ doubt' = doubt
      /\ acked' = IF InDoubt(path) THEN acked ELSE [acked EXCEPT ![path] = @ \o values]
  BY <1>3, <1>4 DEF AppendHeader, Idle
<1>7. /\ Len(cells) \in Nat /\ Len(cells) >= 2 /\ Len(new) = Len(cells) /\ HEADER = 2
      /\ Len(values) \in Nat /\ values \in Seq(Nat)
  BY <1>3, <1>4, <1>5, BatchValuesSeq DEF Whole, HEADER
<1>8. new[1] = <<"count", count>> \/ new[1] = cells[1]
  BY <1>5, <1>7
<1>9. /\ file' \in [Paths -> [exists : BOOLEAN, cells : Seq(Cell)]]
      /\ \A p \in Paths : Len(file'[p].cells) >= 1 =>
           file'[p].cells[1] \in {"count"} \X (0 .. UintMod - 1)
      /\ file'[path].cells = new /\ file'[path].exists = file[path].exists
      /\ \A p \in Paths \ {path} : file'[p] = file[p]
  <2>1. cells[1] \in {"count"} \X (0 .. UintMod - 1)
    BY <1>1, <1>4, <1>7 DEF StateInv
  <2>2. <<"count", count>> \in {"count"} \X (0 .. UintMod - 1)
    OBVIOUS
  <2> QED
    BY <1>1, <1>5, <1>8, <2>1, <2>2, AppendFile
<1>10. /\ handle' \in [Handles -> [state : {"closed", "open", "unusable"}, path : Paths,
                                   count : 0 .. UintMod - 1]]
       /\ handle'[h].count = count /\ \A g \in Handles \ {h} : handle'[g] = handle[g]
       /\ \A g \in Handles : handle'[g].state = handle[g].state /\ handle'[g].path = handle[g].path
  BY <1>1, <1>6 DEF StateInv
<1>11. /\ acked' \in [Paths -> Seq(Nat)]
       /\ \A p \in Paths \ {path} : acked'[p] = acked[p]
       /\ ~InDoubt(path) => acked'[path] = acked[path] \o values
  BY <1>1, <1>6, <1>7 DEF StateInv
<1>12. StateInv'
  BY <1>1, <1>6, <1>9, <1>10, <1>11 DEF StateInv
<1>13. /\ \A p \in Paths : ~Appending(p)' /\ Pending(p)' = <<>>
       /\ Appending(path) /\ Pending(path) = values
       /\ \A p \in Paths \ {path} : ~Appending(p) /\ Pending(p) = <<>>
  BY <1>2, <1>3, <1>6 DEF Appending, Pending
<1>14. OpenInv'
  <2>1. ASSUME NEW g \in Handles, handle[g].state = "open" PROVE Whole(handle[g].path)'
    <3>1. Whole(handle[g].path) /\ handle[g].path \in Paths
      BY <1>1, <2>1 DEF OpenInv, StateInv
    <3> QED
      BY <1>4, <1>7, <1>9, <1>10, <3>1, ZenonT(40) DEF Whole
  <2> QED
    BY <1>6, <1>10, <2>1 DEF OpenInv
<1>15. ASSUME NEW k \in 0 .. UintMod - 1, NEW n \in Nat, HEADER + Size * k <= offset, n <= k + Len(values)
       PROVE  HEADER + Size * n <= Len(new)
  <2>1. k \in Nat
    OBVIOUS
  <2>2. HEADER + Size * n <= offset + Size * Len(values)
    BY <1>7, <1>15, <2>1, CountedCells
  <2> QED
    BY <1>3, <1>4, <1>7, <2>2
<1>16. ASSUME NEW k \in 0 .. UintMod - 1, HEADER + Size * k <= offset
       PROVE  HEADER + Size * k <= Len(new)
  BY <1>7, <1>15, <1>16
<1>17. HEADER + Size * count <= Len(new)
  <2>1. HEADER + Size * c <= offset
    BY <1>1, <1>3, <1>4, <1>13 DEF CountInv, Base
  <2> QED
    BY <1>4, <1>15, <2>1
<1>18. CountInv'
  <2>1. ASSUME NEW p \in Paths, Len(file'[p].cells) >= HEADER
        PROVE  HEADER + Size * file'[p].cells[1][2] <= Len(file'[p].cells)
    <3>1. CASE p = path /\ new[1] = <<"count", count>>
      BY <1>9, <1>17, <3>1
    <3>2. CASE p = path /\ new[1] = cells[1]
      <4>1. cells[1][2] \in 0 .. UintMod - 1
        BY <1>1, <1>4, <1>7 DEF StateInv
      <4>2. HEADER + Size * cells[1][2] <= offset
        BY <1>1, <1>3, <1>4, <1>7, <1>13 DEF CountInv, Base
      <4>3. HEADER + Size * cells[1][2] <= Len(new)
        BY <1>16, <4>1, <4>2
      <4> QED
        BY <1>9, <3>2, <4>3
    <3>3. CASE p # path
      BY <1>1, <1>9, <1>13, <2>1, <3>3 DEF CountInv, Base
    <3> QED
      BY <1>8, <3>1, <3>2, <3>3
  <2>2. ASSUME NEW g \in Handles, handle[g].state = "open"
        PROVE  HEADER + Size * handle'[g].count <= Len(file'[handle[g].path].cells)
    <3>1. handle[g].path \in Paths /\ handle[g].count \in 0 .. UintMod - 1
      BY <1>1 DEF StateInv
    <3>2. CASE g = h
      BY <1>3, <1>9, <1>10, <1>17, <3>2
    <3>3. CASE g # h /\ handle[g].path = path
      <4>1. HEADER + Size * handle[g].count <= offset
        BY <1>1, <1>3, <1>13, <2>2, <3>3 DEF CountInv, Base
      <4>2. HEADER + Size * handle[g].count <= Len(new)
        BY <1>16, <3>1, <4>1
      <4> QED
        BY <1>9, <1>10, <3>3, <4>2
    <3>4. CASE g # h /\ handle[g].path # path
      <4>1. HEADER + Size * handle[g].count <= Len(file[handle[g].path].cells)
        BY <1>1, <1>13, <2>2, <3>1, <3>4 DEF CountInv, Base
      <4> QED
        BY <1>9, <1>10, <3>1, <3>4, <4>1
    <3> QED
      BY <3>2, <3>3, <3>4
  <2> QED
    BY <1>10, <1>13, <2>1, <2>2 DEF CountInv, Base, StateInv
<1>19. ASSUME NEW p \in Paths, NEW vals \in Seq(Nat), Holds(p, vals)
       PROVE  Holds(p, vals)'
  <2>1. CASE p = path
    <3>1. ~(Appending(p) /\ op.pc = "undo") /\ ~Appending(p)'
      BY <1>2, <1>13
    <3>2. file'[p].cells = new /\ file[p].cells = cells
      BY <1>4, <1>9, <2>1
    <3> QED
      BY <1>5, <1>7, <1>19, <3>1, <3>2, HoldsHeaderWrite
  <2>2. CASE p # path
    BY <1>9, <1>13, <1>19, <2>2, HoldsSame
  <2> QED
    BY <2>1, <2>2
<1>20. NotTornInv' /\ AckedInv'
  <2>1. ASSUME NEW p \in Paths, ~InDoubt(p)'
        PROVE  acked'[p] \o Pending(p)' = acked[p] \o Pending(p)
    <3>1. CASE p = path
      <4>1. ~InDoubt(path)
        BY <1>6, <2>1, <3>1 DEF InDoubt
      <4>2. acked'[p] = acked[path] \o values /\ Pending(p)' = <<>> /\ Pending(p) = values
        BY <1>11, <1>13, <3>1, <4>1
      <4>3. acked'[p] \in Seq(Nat)
        BY <1>11
      <4>4. acked'[p] \o <<>> = acked'[p]
        BY <4>3
      <4> QED
        BY <3>1, <4>2, <4>4
    <3>2. CASE p # path
      BY <1>11, <1>13, <3>2
    <3> QED
      BY <3>1, <3>2
  <2> QED
    BY <1>1, <1>6, <1>19, <2>1, ContentsKept
<1> QED
  BY <1>12, <1>14, <1>18, <1>20 DEF IInv

-----------------------------------------------------------------------------
(* The theorems.                                                           *)

\* The initial state: no files, no handles, nothing acknowledged.
LEMMA InitInv == Init => IInv
<1> SUFFICES ASSUME Init PROVE IInv
  OBVIOUS
<1>1. /\ file = [p \in Paths |-> NoFile] /\ handle = [h \in Handles |-> NoHandle]
      /\ op = Idle /\ acked = [p \in Paths |-> <<>>] /\ doubt = {}
  BY DEF Init, ColInit
<1>2. NoFile \in [exists : BOOLEAN, cells : Seq(Cell)] /\ Len(NoFile.cells) = 0 /\ NoFile.cells = <<>>
  BY DEF NoFile
<1>3. StateInv
  BY <1>1, <1>2, NoHandleType DEF StateInv
<1>4. op.pc = "idle" /\ \A p \in Paths : ~Appending(p) /\ Pending(p) = <<>>
  BY <1>1 DEF Idle, Appending, Pending
<1>5. \A h \in Handles : handle[h].state # "open"
  BY <1>1, NoHandleType
<1>6. OpenInv /\ CountInv
  BY <1>1, <1>2, <1>4, <1>5 DEF OpenInv, CountInv, HEADER
<1>7. \A p \in Paths : Holds(p, <<>>)
  BY <1>1, <1>2, <1>4 DEF Holds, Recorded, Begins, HEADER
<1>8. NotTornInv
  <2>1. <<>> \in Seq(BatchValues)
    OBVIOUS
  <2> QED
    BY <1>7, <2>1 DEF NotTornInv
<1>9. AckedInv
  <2>1. <<>> \o <<>> = <<>>
    OBVIOUS
  <2> QED
    BY <1>1, <1>4, <1>7, <2>1 DEF AckedInv
<1> QED
  BY <1>3, <1>6, <1>8, <1>9 DEF IInv

\* A step that changes nothing.
LEMMA StutterInv == ASSUME IInv, UNCHANGED vars PROVE IInv'
<1>1. UNCHANGED <<file, handle, op, acked, doubt>>
  BY DEF vars
<1>2. StateInv' /\ OpenInv' /\ CountInv'
  BY <1>1 DEF IInv, StateInv, OpenInv, CountInv, Base, Appending, Whole
<1> QED
  BY <1>1, <1>2, ContentsUntouched DEF IInv

\* Whatever the process does with its columns, and whichever calls fail, the
\* invariant stays.
LEMMA NextInv == IInv /\ [Next]_vars => IInv'
<1> SUFFICES ASSUME IInv, [Next]_vars PROVE IInv'
  OBVIOUS
<1>1. ASSUME NEW w \in Words, WordCreate(w) PROVE IInv'
  <2>1. CreatePaths(w) \subseteq Paths
    BY WordAssumption DEF CreatePaths
  <2> QED
    BY <1>1, <2>1, CreateInv DEF WordCreate
<1>2. ASSUME NEW w \in Words, WordDestroy(w) PROVE IInv'
  BY <1>2, StutterInv DEF WordDestroy, Destroy, NoEffect
<1>3. ASSUME NEW w \in Words, NEW h \in Handles, WordOpen(h, w) PROVE IInv'
  BY <1>3, WordAssumption, OpenStepInv DEF WordOpen
<1>4. ASSUME NEW h \in Handles, WordClose(h) PROVE IInv'
  BY <1>4, CloseInv DEF WordClose
<1>5. ASSUME NEW h \in Handles, UseUnusable(h) PROVE IInv'
  BY <1>5, DiesInv, StutterInv DEF UseUnusable, NoEffect
<1>6. ASSUME NEW h \in Handles, NEW b \in Batches, InsertDoc(h, b) PROVE IInv'
  BY <1>6, AppendDataInv DEF InsertDoc
<1>7. ASSUME Crash PROVE IInv'
  BY <1>7, DiesInv DEF Crash
<1> QED
  BY <1>1, <1>2, <1>3, <1>4, <1>5, <1>6, <1>7, AppendUndoInv, AppendHeaderInv, StutterInv DEF Next

\* The invariant holds of every behaviour.
LEMMA SpecInv == Spec => []IInv
BY InitInv, NextInv, PTL DEF Spec

\* Every handle, file and append is what the code's variables can hold
\* (struct col_array; col_array_append).
THEOREM TypeCorrect == Spec => []TypeOK
<1>1. IInv => TypeOK
  <2> SUFFICES ASSUME IInv PROVE TypeOK
    OBVIOUS
  <2>1. StateInv /\ OpenInv
    BY DEF IInv
  <2> QED
    BY <2>1 DEF StateInv, OpenInv, TypeOK
<1> QED
  BY <1>1, SpecInv, PTL

\* The count in the header of a column never exceeds the records behind it
\* (array.c:129-132), whichever writes fail and wherever the process dies.
THEOREM CountsNeverAhead == Spec => []CountNeverAhead
<1>1. IInv => CountNeverAhead
  <2> SUFFICES ASSUME IInv, NEW path \in Paths, Whole(path)
               PROVE  HEADER + Size * file[path].cells[1][2] <= Len(file[path].cells)
    BY DEF CountNeverAhead
  <2>1. StateInv /\ OpenInv /\ CountInv
    BY DEF IInv
  <2>2. PICK cells \in Seq(Cell) : cells = file[path].cells
    BY <2>1 DEF StateInv
  <2>3. Len(cells) >= HEADER /\ HEADER = 2 /\ Len(cells) \in Nat
    BY <2>2 DEF Whole, HEADER
  <2>4. cells[1][2] \in Nat
    BY <2>1, <2>2, <2>3 DEF StateInv
  <2>5. HEADER + Size * cells[1][2] <= Base(path)
    BY <2>1, <2>2, <2>3 DEF CountInv
  <2>6. Base(path) \in Nat /\ Base(path) <= Len(cells)
    BY <2>1, <2>2, <2>3, OpType DEF OpenInv, Base, Appending, AppendOp
  <2> DEFINE x == HEADER + Size * cells[1][2]
  <2>7. x \in Nat
    <3>1. Size * cells[1][2] \in Nat
      BY <2>4, CellsOfRecords
    <3> QED
      BY <2>3, <3>1
  <2> HIDE DEF x
  <2>8. x <= Len(cells)
    BY <2>3, <2>5, <2>6, <2>7 DEF x
  <2> QED
    BY <2>2, <2>8 DEF x
<1> QED
  BY <1>1, SpecInv, PTL

\* A record of a column that begins with vals, as its cells.
LEMMA RecordSlice ==
  ASSUME NEW cells \in Seq(Cell), NEW vals \in Seq(Nat), Begins(cells, vals),
         NEW k \in 1 .. Len(vals)
  PROVE  /\ SubSeq(cells, HEADER + Size * (k - 1) + 1, HEADER + Size * k) = ValueCells(<<vals[k]>>)
         /\ HEADER + Size * k <= Len(cells)
<1> DEFINE a == Size * (k - 1)
           v == vals[k]
<1>1. Len(vals) \in Nat /\ k \in Nat /\ k >= 1 /\ k - 1 \in Nat /\ 1 \in Nat /\ k <= Len(vals) /\ vals # <<>>
  OBVIOUS
<1>2. a \in Nat /\ Size * k = a + Size /\ Size \in Nat /\ Size >= 1
  <2>1. a \in Nat
    BY <1>1, CellsOfRecords
  <2>2. Size * ((k - 1) + 1) = Size * (k - 1) + Size * 1
    BY <1>1, CellsAdd
  <2>3. (k - 1) + 1 = k /\ Size * 1 = Size /\ Size \in Nat /\ Size >= 1
    BY <1>1, SizeNat
  <2> QED
    BY <2>1, <2>2, <2>3
<1>3. HEADER + Size * k <= Len(cells)
  <2>1. HEADER + Size * Len(vals) <= Len(cells)
    BY <1>1 DEF Begins
  <2>2. Size * k <= Size * Len(vals) /\ Size * k \in Nat /\ Size * Len(vals) \in Nat
    BY <1>1, CellsAdd, CellsOfRecords
  <2> DEFINE x == Size * k
             y == Size * Len(vals)
  <2> HIDE DEF x, y
  <2>3. HEADER + y <= Len(cells) /\ x <= y /\ x \in Nat /\ y \in Nat /\ HEADER \in Nat
    BY <2>1, <2>2 DEF x, y, HEADER
  <2>4. HEADER + x <= Len(cells)
    BY <2>3
  <2> QED
    BY <2>4 DEF x
<1>4. \A j \in 1 .. Size : cells[HEADER + a + j] = <<v, j>>
  <2> SUFFICES ASSUME NEW j \in 1 .. Size PROVE cells[HEADER + a + j] = <<v, j>>
    OBVIOUS
  <2>1. cells[HEADER + Pos(k, j)] = <<v, j>>
    BY DEF Begins
  <2>2. HEADER + Pos(k, j) = HEADER + a + j
    BY <1>2 DEF Pos, HEADER
  <2> QED
    BY <2>1, <2>2
<1>5. v \in Nat
  OBVIOUS
<1> HIDE DEF a, v
<1>6. /\ SubSeq(cells, HEADER + a + 1, HEADER + a + Size) \in Seq(Cell)
      /\ Len(SubSeq(cells, HEADER + a + 1, HEADER + a + Size)) = Size
      /\ \A j \in 1 .. Size : SubSeq(cells, HEADER + a + 1, HEADER + a + Size)[j] = <<v, j>>
  <2> DEFINE b == HEADER + a
  <2>1. b \in Nat /\ b + Size <= Len(cells) /\ \A j \in 1 .. Size : cells[b + j] = <<v, j>>
    <3>1. HEADER + (a + Size) <= Len(cells)
      BY <1>2, <1>3
    <3>2. \A j \in 1 .. Size : cells[b + j] = <<v, j>>
      BY <1>4
    <3>3. b \in Nat /\ b + Size = HEADER + (a + Size)
      BY <1>2 DEF HEADER
    <3> QED
      BY <3>1, <3>2, <3>3
  <2> HIDE DEF b
  <2>2. /\ SubSeq(cells, b + 1, b + Size) \in Seq(Cell)
        /\ Len(SubSeq(cells, b + 1, b + Size)) = Size
        /\ \A j \in 1 .. Size : SubSeq(cells, b + 1, b + Size)[j] = cells[b + j]
    BY <1>2, <2>1
  <2> QED
    BY <2>1, <2>2 DEF b
<1>7. /\ ValueCells(<<v>>) \in Seq(Nat \X Nat)
      /\ Len(ValueCells(<<v>>)) = Size
      /\ \A j \in 1 .. Size : ValueCells(<<v>>)[j] = <<v, j>>
  <2>1. <<v>> \in Seq(Nat) /\ Len(<<v>>) = 1 /\ <<v>>[1] = v
    BY <1>5
  <2>2. /\ ValueCells(<<v>>) \in Seq(Nat \X Nat)
        /\ Len(ValueCells(<<v>>)) = Size * 1
        /\ \A j \in 1 .. Size : ValueCells(<<v>>)[Pos(1, j)] = <<<<v>>[1], j>>
    <3>1. 1 \in 1 .. Len(<<v>>)
      BY <2>1
    <3> QED
      BY <2>1, <3>1, ValueCellsProperties
  <2>3. Size * 1 = Size /\ \A j \in 1 .. Size : Pos(1, j) = j
    BY <1>2 DEF Pos
  <2> QED
    BY <2>1, <2>2, <2>3
<1>8. SubSeq(cells, HEADER + a + 1, HEADER + a + Size) = ValueCells(<<v>>)
  <2> DEFINE s == SubSeq(cells, HEADER + a + 1, HEADER + a + Size)
             t == ValueCells(<<v>>)
  <2> HIDE DEF s, t
  <2>1. /\ s \in Seq(Cell) /\ Len(s) = Size /\ \A j \in 1 .. Size : s[j] = <<v, j>>
        /\ t \in Seq(Nat \X Nat) /\ Len(t) = Size /\ \A j \in 1 .. Size : t[j] = <<v, j>>
    BY <1>6, <1>7 DEF s, t
  <2>2. s = [j \in 1 .. Size |-> s[j]] /\ t = [j \in 1 .. Size |-> t[j]]
    BY <2>1
  <2> QED
    BY <2>1, <2>2 DEF s, t
<1>9. HEADER + a + Size = HEADER + Size * k
  BY <1>2 DEF HEADER
<1> QED
  BY <1>3, <1>8, <1>9 DEF a, v

\* A column where no short write stayed behind consists of whole records, each
\* of a value that was appended (array.c:123-126).
THEOREM RecordsNotTorn == Spec => []NoTornRecords
<1>1. IInv => NoTornRecords
  <2> SUFFICES ASSUME IInv, NEW path \in Paths, Quiet(path), <<path, "torn">> \notin doubt
               PROVE  LET cells == file[path].cells
                      IN  /\ (Len(cells) - HEADER) % Size = 0
                          /\ \A i \in 0 .. ((Len(cells) - HEADER) \div Size) - 1 :
                               \E v \in BatchValues :
                                 SubSeq(cells, HEADER + Size * i + 1, HEADER + Size * (i + 1))
                                   = ValueCells(<<v>>)
    BY DEF NoTornRecords, BatchValues
  <2>1. StateInv /\ NotTornInv
    BY DEF IInv
  <2>2. PICK cells \in Seq(Cell) : cells = file[path].cells
    BY <2>1 DEF StateInv
  <2>3. PICK vals \in Seq(BatchValues) : Holds(path, vals)
    BY <2>1 DEF NotTornInv
  <2>4. vals \in Seq(Nat) /\ Len(vals) \in Nat
    BY BatchValuesSeq
  <2>5. Begins(cells, vals) /\ Len(cells) = HEADER + Size * Len(vals)
    BY <2>1, <2>2, <2>3, OpType DEF Holds, Recorded, Quiet, Whole, Appending
  <2>6. Len(cells) - HEADER = Size * Len(vals)
    <3>1. Size * Len(vals) \in Nat
      BY <2>4, CellsOfRecords
    <3> QED
      BY <2>5, <3>1 DEF HEADER
  <2>7. (Len(cells) - HEADER) % Size = 0 /\ (Len(cells) - HEADER) \div Size = Len(vals)
    BY <2>4, <2>6, CellsOfRecords
  <2>8. ASSUME NEW i \in 0 .. Len(vals) - 1
        PROVE  \E v \in BatchValues :
                 SubSeq(cells, HEADER + Size * i + 1, HEADER + Size * (i + 1)) = ValueCells(<<v>>)
    <3>1. PICK k \in 1 .. Len(vals) : k = i + 1 /\ k - 1 = i
      BY <2>4
    <3>2. SubSeq(cells, HEADER + Size * (k - 1) + 1, HEADER + Size * k) = ValueCells(<<vals[k]>>)
      BY <2>4, <2>5, RecordSlice
    <3>3. vals[k] \in BatchValues
      OBVIOUS
    <3>4. SubSeq(cells, HEADER + Size * i + 1, HEADER + Size * (i + 1)) = ValueCells(<<vals[k]>>)
      BY <3>1, <3>2
    <3> QED
      BY <3>3, <3>4
  <2> QED
    BY <2>2, <2>7, <2>8
<1> QED
  BY <1>1, SpecInv, PTL

\* Where col_array_read starts and how much it reads, of ranges that do not
\* reach 2^32 bytes.
LEMMA ReadRange ==
  ASSUME NEW start \in 0 .. (UintMod - 1) \div Size, NEW stop \in start .. (UintMod - 1) \div Size,
         NEW room \in Nat
  PROVE  /\ start \in Nat /\ stop \in Nat /\ stop - start \in Nat /\ room \div Size \in Nat
         /\ StartOffset(start) = HEADER + Size * start
         /\ \E n \in Nat : /\ ReadSize(start, stop, room) = Size * n
                           /\ n <= stop - start /\ n <= room \div Size
                           /\ n = stop - start \/ n = room \div Size
<1> DEFINE m == UintMod - 1
<1>1. UintMod \in Nat /\ UintMod > 0 /\ m \in Nat /\ UintMod = m + 1
  BY ColumnAssumption
<1>2. \A n \in 0 .. m \div Size : n \in Nat /\ n * Size = Size * n /\ Size * n < UintMod /\ Size * n \in Nat
  <2> HIDE DEF m
  <2>1. CASE Size = 1
    BY <1>1, <2>1
  <2>2. CASE Size = 2
    BY <1>1, <2>2
  <2>3. CASE Size = 4
    BY <1>1, <2>3
  <2>4. CASE Size = 8
    BY <1>1, <2>4
  <2>5. CASE Size = 16
    BY <1>1, <2>5
  <2> QED
    BY <2>1, <2>2, <2>3, <2>4, <2>5, SizeCases
<1>3. m \div Size \in Nat
  <2> HIDE DEF m
  <2> QED
    BY <1>1, SizeNat
<1>4. start \in 0 .. m \div Size /\ stop \in 0 .. m \div Size /\ stop - start \in 0 .. m \div Size
  <2> DEFINE d == m \div Size
  <2>1. d \in Nat /\ start \in 0 .. d /\ stop \in start .. d
    BY <1>3
  <2> HIDE DEF d
  <2>2. start \in 0 .. d /\ stop \in 0 .. d /\ stop - start \in 0 .. d
    BY <2>1
  <2> QED
    BY <2>2 DEF d
<1>5. room \div Size \in Nat
  BY SizeNat
<1>6. \A n \in Nat : n < UintMod => n % UintMod = n
  BY <1>1
<1> HIDE DEF m
<1>7. (start * Size) % UintMod = Size * start
  BY <1>2, <1>4, <1>6
<1>8. StartOffset(start) = HEADER + Size * start
  <2>1. Size * start \in Nat
    BY <1>2, <1>4
  <2> QED
    BY <1>7, <2>1 DEF StartOffset, HEADER
<1>9. PICK q \in Nat, r \in Nat : q = room \div Size /\ r = stop - start /\ r \in 0 .. m \div Size
  BY <1>2, <1>4, <1>5
<1>10. (r * Size) % UintMod = Size * r
  BY <1>2, <1>6, <1>9
<1>11. q * Size = Size * q /\ Size * q \in Nat /\ Size * r \in Nat
  BY <1>9, CellsOfRecords
<1>12. q <= r <=> Size * q <= Size * r
  BY <1>9, CellsAdd
<1>13. ReadSize(start, stop, room) = IF Size * q > Size * r THEN Size * r ELSE Size * q
  BY <1>9, <1>10, <1>11 DEF ReadSize
<1>14. \E n \in Nat : /\ ReadSize(start, stop, room) = Size * n
                      /\ n <= r /\ n <= q /\ (n = r \/ n = q)
  <2>1. CASE q <= r
    <3>1. ReadSize(start, stop, room) = Size * q
      BY <1>11, <1>12, <1>13, <2>1
    <3> QED
      BY <1>9, <2>1, <3>1
  <2>2. CASE ~(q <= r)
    <3>1. ReadSize(start, stop, room) = Size * r
      BY <1>11, <1>12, <1>13, <2>2
    <3> QED
      BY <1>9, <2>2, <3>1
  <2> QED
    BY <2>1, <2>2
<1> QED
  BY <1>2, <1>4, <1>5, <1>8, <1>9, <1>14

\* What col_array_read returns: the records asked for, as far as there are
\* records and the buffer has room.
LEMMA ReadProperties ==
  ASSUME NEW path \in Paths, NEW vals \in Seq(Nat), file[path].cells \in Seq(Cell),
         Begins(file[path].cells, vals), Len(file[path].cells) = HEADER + Size * Len(vals),
         NEW start \in 0 .. (UintMod - 1) \div Size, NEW stop \in start .. (UintMod - 1) \div Size,
         NEW room \in Nat,
         NEW m \in Int,
         m \in {stop - start, room \div Size, Len(vals) - start},
         m <= stop - start, m <= room \div Size, m <= Len(vals) - start
  PROVE  Read(path, start, stop, room) = [i \in 1 .. m |-> ValueCells(<<vals[start + i]>>)]
<1>1. PICK cells, p, rs :
        cells \in Seq(Cell) /\ p \in Nat
        /\ cells = file[path].cells /\ p = StartOffset(start) /\ rs = ReadSize(start, stop, room)
        /\ p = HEADER + Size * start
  <2>1. StartOffset(start) = HEADER + Size * start /\ start \in Nat
    BY ReadRange
  <2>2. Size * start \in Nat
    BY <2>1, CellsOfRecords
  <2>3. HEADER + Size * start \in Nat
    BY <2>2 DEF HEADER
  <2> QED
    BY <2>1, <2>3
<1> cells \in Seq(Cell) /\ p \in Nat
  BY <1>1
<1>2. PICK n \in Nat : /\ rs = Size * n
                       /\ n <= stop - start /\ n <= room \div Size
                       /\ n = stop - start \/ n = room \div Size
  BY <1>1, ReadRange
<1>3. start \in Nat /\ stop \in Nat /\ Len(vals) \in Nat /\ m <= n /\ (m = n \/ m = Len(vals) - start)
      /\ room \div Size \in Nat
  <2>1. start \in Nat /\ stop \in Nat /\ room \div Size \in Nat
    BY ReadRange
  <2>2. Len(vals) \in Nat
    OBVIOUS
  <2> DEFINE q == room \div Size
  <2> HIDE DEF q
  <2>3. q \in Nat /\ m \in {stop - start, q, Len(vals) - start}
        /\ m <= stop - start /\ m <= q /\ m <= Len(vals) - start
        /\ n <= stop - start /\ n <= q /\ (n = stop - start \/ n = q)
    BY <1>2, <2>1 DEF q
  <2>4. m <= n /\ (m = n \/ m = Len(vals) - start)
    BY <2>1, <2>2, <2>3
  <2> QED
    BY <2>1, <2>2, <2>4
<1> DEFINE end == IF p + rs > Len(cells) THEN Len(cells) ELSE p + rs
           got == SubSeq(cells, p + 1, end)
<1>4. Read(path, start, stop, room) =
        [i \in 1 .. Len(got) \div Size |-> SubSeq(got, Size * (i - 1) + 1, Size * i)]
  BY <1>1 DEF Read, ReadAt
<1>5. /\ Size * start \in Nat /\ Size * n \in Nat /\ Size * Len(vals) \in Nat /\ HEADER = 2
      /\ rs = Size * n /\ rs \in Nat
      /\ Len(cells) = HEADER + Size * Len(vals) /\ Len(cells) \in Nat
  <2>1. Size * start \in Nat /\ Size * n \in Nat /\ Size * Len(vals) \in Nat
    BY <1>3, CellsOfRecords
  <2>2. Len(cells) = HEADER + Size * Len(vals) /\ Len(cells) \in Nat
    BY <1>1
  <2> QED
    BY <1>2, <2>1, <2>2 DEF HEADER
<1>6. CASE m <= 0
  <2>1. end <= p /\ end \in Nat
    <3>1. CASE n = 0
      <4>1. rs = 0
        BY <1>5, <3>1, SizeNat
      <4> QED
        BY <1>1, <1>5, <4>1
    <3>2. CASE Len(vals) <= start
      <4>1. Size * Len(vals) <= Size * start
        BY <1>3, <3>2, CellsAdd
      <4>2. Len(cells) <= p
        BY <1>1, <1>5, <4>1
      <4> QED
        BY <1>1, <1>5, <4>2
    <3> QED
      BY <1>3, <1>6, <3>1, <3>2
  <2>2. Len(got) = 0
    <3> HIDE DEF end
    <3> QED
      BY <1>1, <2>1
  <2>3. Len(got) \div Size = 0
    <3> HIDE DEF got
    <3> QED
      BY <2>2, SizeCases
  <2>4. 1 .. Len(got) \div Size = {} /\ 1 .. m = {}
    <3> HIDE DEF got
    <3> QED
      BY <1>6, <2>3
  <2> HIDE DEF got
  <2> QED
    BY <1>4, <2>4
<1>7. CASE m >= 1
  <2>1. PICK k \in Nat : k = start + m /\ k <= Len(vals) /\ k - start = m /\ m \in Nat
    BY <1>3, <1>7
  <2>2. Size * (start + m) = Size * start + Size * m /\ Size * m \in Nat /\ Size * k <= Size * Len(vals)
    BY <1>3, <2>1, CellsAdd, CellsOfRecords
  <2>3. end = p + Size * m /\ end <= Len(cells)
    <3>1. CASE m = n
      BY <1>1, <1>5, <2>1, <2>2, <3>1, SMTT(30)
    <3>2. CASE m = Len(vals) - start /\ m < n
      <4>1. Size * Len(vals) = Size * start + Size * m
        BY <1>3, <2>1, <2>2, <3>2
      <4>2. Size * m <= Size * n
        BY <1>3, <2>1, CellsAdd
      <4> QED
        BY <1>1, <1>5, <2>2, <4>1, <4>2, SMTT(30)
    <3> QED
      BY <1>3, <3>1, <3>2
  <2> HIDE DEF end
  <2>4. Len(got) = Size * m /\ got \in Seq(Cell)
        /\ \A i \in 1 .. Size * m : got[i] = cells[p + i]
    <3> DEFINE sm == Size * m
    <3>1. sm \in Nat /\ end = p + sm /\ p + sm <= Len(cells)
      BY <2>2, <2>3
    <3> HIDE DEF sm
    <3>2. got = SubSeq(cells, p + 1, p + sm)
      BY <3>1
    <3> HIDE DEF got
    <3>3. Len(got) = sm /\ got \in Seq(Cell) /\ \A i \in 1 .. sm : got[i] = cells[p + i]
      BY <3>1, <3>2, RunProperties
    <3> QED
      BY <3>3 DEF sm
  <2>5. Len(got) \div Size = m
    BY <2>1, <2>4, CellsOfRecords
  <2>6. ASSUME NEW i \in 1 .. m
        PROVE  SubSeq(got, Size * (i - 1) + 1, Size * i) = ValueCells(<<vals[start + i]>>)
    <3>1. PICK r \in 1 .. Len(vals) : r = start + i /\ r - 1 = start + (i - 1)
      BY <1>3, <2>1
    <3>2. /\ SubSeq(cells, HEADER + Size * (r - 1) + 1, HEADER + Size * r) = ValueCells(<<vals[r]>>)
      BY <1>1, RecordSlice
    <3>3. i \in Nat /\ i - 1 \in Nat /\ i <= m
      BY <2>1
    <3> DEFINE a == Size * (i - 1)
               l == Size * m
               st == Size * start
    <3>4. a \in Nat /\ l \in Nat /\ st \in Nat /\ p = HEADER + st
      BY <1>1, <1>5, <2>2, <3>3, CellsOfRecords
    <3>5. Size * (r - 1) = st + a
      BY <1>3, <3>1, <3>3, CellsAdd
    <3>6. Size * i = a + Size
      <4>1. Size * ((i - 1) + 1) = Size * (i - 1) + Size * 1
        BY <3>3, CellsAdd
      <4>2. (i - 1) + 1 = i /\ Size * 1 = Size
        BY <3>3, SizeNat
      <4> QED
        BY <4>1, <4>2
    <3>7. Size * r = st + (a + Size)
      <4>1. r = start + i
        BY <3>1
      <4>2. Size * (start + i) = Size * start + Size * i
        BY <1>3, <3>3, CellsAdd
      <4> QED
        BY <3>6, <4>1, <4>2
    <3>8. a + Size <= l
      <4>1. Size * i <= Size * m
        BY <2>1, <3>3, CellsAdd
      <4> QED
        BY <3>6, <4>1
    <3>9. got = SubSeq(cells, p + 1, p + l) /\ p + l <= Len(cells)
      BY <2>3
    <3>10. Size \in Nat
      BY SizeNat
    <3> HIDE DEF a, l, st, got
    <3>11. SubSeq(got, a + 1, a + Size) = SubSeq(cells, p + a + 1, p + a + Size)
      <4>1. Run(Run(cells, p, l), a, Size) = Run(cells, p + a, Size)
        <5>1. p + l <= Len(cells)
          BY <3>9
        <5> QED
          BY <3>4, <3>8, <3>10, <5>1, RunOfRun, SMTT(30)
      <4> QED
        BY <3>9, <4>1 DEF Run
    <3>12. HEADER + Size * (r - 1) + 1 = p + a + 1 /\ HEADER + Size * r = p + a + Size
      BY <1>5, <3>4, <3>5, <3>7, <3>10
    <3>13. SubSeq(got, a + 1, Size * i) = ValueCells(<<vals[start + i]>>)
      BY <3>1, <3>2, <3>6, <3>11, <3>12
    <3> QED
      BY <3>13 DEF a
  <2> HIDE DEF got
  <2> QED
    BY <1>4, <2>5, <2>6
<1> QED
  BY <1>6, <1>7

\* A read of a column without doubt returns exactly the acknowledged documents
\* of the range, in order, as far as the buffer has room
\* (col_array_read, array.c:136-170).
THEOREM ReadsReturnAcknowledged == Spec => []ReadsExact
<1>1. IInv => ReadsExact
  <2> SUFFICES ASSUME IInv, NEW path \in Paths, Quiet(path), ~InDoubt(path),
                      NEW start \in 0 .. (UintMod - 1) \div Size,
                      NEW room \in {0, Size, 2 * Size + 1},
                      NEW stop \in start .. (UintMod - 1) \div Size
               PROVE  LET n == {stop - start, room \div Size, Len(acked[path]) - start}
                          shortest == CHOOSE k \in n : \A l \in n : k <= l
                      IN  Read(path, start, stop, room) =
                            [i \in 1 .. shortest |-> ValueCells(<<acked[path][start + i]>>)]
    BY DEF ReadsExact
  <2>1. StateInv /\ AckedInv
    BY DEF IInv
  <2>2. PICK vals \in Seq(Nat) : vals = acked[path]
    BY <2>1 DEF StateInv
  <2>3. Holds(path, vals)
    <3>1. Holds(path, vals \o Pending(path))
      BY <2>1, <2>2 DEF AckedInv
    <3>2. Pending(path) = <<>> /\ vals \o <<>> = vals
      BY DEF Quiet, Pending, Appending
    <3> QED
      BY <3>1, <3>2
  <2>4. /\ file[path].cells \in Seq(Cell)
        /\ Begins(file[path].cells, vals) /\ Len(file[path].cells) = HEADER + Size * Len(vals)
    BY <2>1, <2>3, OpType DEF Holds, Recorded, Quiet, Whole, StateInv
  <2>5. room \in Nat
    BY SizeNat
  <2>6. start \in Nat /\ stop \in Nat /\ room \div Size \in Nat /\ Len(vals) \in Nat
    <3>1. start \in Nat /\ stop \in Nat /\ room \div Size \in Nat
      BY <2>5, ReadRange
    <3>2. Len(vals) \in Nat
      OBVIOUS
    <3> QED
      BY <3>1, <3>2
  <2> DEFINE n == {stop - start, room \div Size, Len(vals) - start}
             shortest == CHOOSE k \in n : \A l \in n : k <= l
  <2>7. \E k \in n : \A l \in n : k <= l
    <3>1. \A a, b, c \in Int : \E k \in {a, b, c} : \A l \in {a, b, c} : k <= l
      OBVIOUS
    <3> QED
      BY <2>6, <3>1
  <2>8. shortest \in n /\ \A l \in n : shortest <= l
    BY <2>7
  <2>9. PICK m : m = shortest
    OBVIOUS
  <2> HIDE DEF shortest
  <2>10. /\ m \in Int /\ m \in {stop - start, room \div Size, Len(vals) - start}
         /\ m <= stop - start /\ m <= room \div Size /\ m <= Len(vals) - start
    BY <2>6, <2>8, <2>9
  <2>11. Read(path, start, stop, room) = [i \in 1 .. m |-> ValueCells(<<vals[start + i]>>)]
    BY <2>4, <2>5, <2>10, ReadProperties
  <2> QED
    BY <2>2, <2>9, <2>11 DEF shortest
<1> QED
  BY <1>1, SpecInv, PTL
=============================================================================
