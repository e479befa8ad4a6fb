------------------------ MODULE SeaBlockSharedProofs -------------------------
(***************************************************************************)
(* However many threads append through the shared handle, and however      *)
(* their system calls interleave, the data file is not damaged.            *)
(***************************************************************************)
EXTENDS SeaBlockShared, SeaBlockLemmas

\* The shared position is at the end of the data file while any thread is
\* between its seek and its write: every write moves it there again.
AtEnd == \A t \in Threads : At(t, "write_data") => dpos = Len(data)

Holds(f, off) == \E p \in Payloads : HoldsRecord(f, off, p)

\* A thread's offset is where its record will be written, or where another
\* thread has written one since; after its own write it is always the latter.
Offsets ==
  \A t \in Threads :
    /\ At(t, "write_data") => /\ thread[t].payload \in Payloads
                              /\ thread[t].offset = Len(data) \/ Holds(data, thread[t].offset)
    /\ thread[t].pc \notin {"idle", "write_data"} => Holds(data, thread[t].offset)

USE DEF At, Goto, Idle, Steps

\* The header words of a block are a header.
LEMMA HeaderType ==
  ASSUME NEW n \in Nat
  PROVE  [NewHeader(MaxCount, 0) EXCEPT ![COUNT] = n] \in Seq(Nat)
BY BoundsAssumption DEF NewHeader, COUNT

LEMMA EntryType ==
  ASSUME NEW off \in Nat
  PROVE  Entry(0, off) \in Seq(Nat)
BY DEF Entry

\* Every thread's step preserves the types (all of sea_block_append).
THEOREM SharedTyping == Spec => []TypeOK
<1>1. Init => TypeOK
  BY BoundsAssumption DEF Init, TypeOK, Local, NewHeader, HEADER_SIZE
<1>2. TypeOK /\ [Next]_vars => TypeOK'
  <2> SUFFICES ASSUME TypeOK, [Next]_vars PROVE TypeOK'
    OBVIOUS
  <2> USE DEF TypeOK
  <2>1. ASSUME NEW t \in Threads, NEW p \in Payloads, SeekData(t, p) PROVE TypeOK'
    <3> DEFINE new == [thread[t] EXCEPT !.pc = "write_data", !.payload = p, !.offset = Len(data)]
    <3>1. Len(data) \in Nat
      OBVIOUS
    <3>2. new \in Local
      BY <3>1 DEF Local
    <3>3. thread' = [thread EXCEPT ![t] = new] /\ dpos' = Len(data)
      BY <2>1 DEF SeekData, End
    <3> QED
      BY <2>1, <3>1, <3>2, <3>3 DEF SeekData
  <2>2. ASSUME NEW t \in Threads, WriteData(t) PROVE TypeOK'
    <3>1. thread[t].payload \in Seq(Cell)
      <4>1. thread[t].payload \in Payloads \/ thread[t].payload = <<>>
        BY DEF Local
      <4> QED
        BY <4>1, PayloadsAssumption, EmptyPayloadType
    <3>2. Record(thread[t].payload) \in Seq(Cell)
      BY <3>1, RecordProperties
    <3>3. data' \in Seq(Cell)
      BY <2>2, <3>2, DataWriteType DEF WriteData
    <3>4. dpos' \in Nat
      BY <2>2, <3>2 DEF WriteData
    <3>5. thread' \in [Threads -> Local]
      BY <2>2 DEF WriteData, Local
    <3> QED
      BY <2>2, <3>3, <3>4, <3>5 DEF WriteData
  <2>3. ASSUME NEW t \in Threads, LoadId(t) PROVE TypeOK'
    BY <2>3, ZenonT(30) DEF LoadId, End, Local
  <2>4. ASSUME NEW t \in Threads, LoadCount(t) PROVE TypeOK'
    BY <2>4, ZenonT(30) DEF LoadCount, End, Local
  <2>5. ASSUME NEW t \in Threads, StoreCount(t) PROVE TypeOK'
    <3>1. thread' \in [Threads -> Local]
      BY <2>5 DEF StoreCount, Local
    <3>2. count' \in Nat /\ ipos' \in Nat
      BY <2>5 DEF StoreCount, End, Local
    <3> QED
      BY <2>5, <3>1, <3>2 DEF StoreCount
  <2>6. ASSUME NEW t \in Threads, SeekEnd(t) PROVE TypeOK'
    <3>1. thread' \in [Threads -> Local]
      BY <2>6 DEF SeekEnd, Local
    <3>2. count' \in Nat /\ ipos' \in Nat
      BY <2>6 DEF SeekEnd, End, Local
    <3> QED
      BY <2>6, <3>1, <3>2 DEF SeekEnd
  <2>7. ASSUME NEW t \in Threads, SeekHeader(t) PROVE TypeOK'
    BY <2>7 DEF SeekHeader, End, Local
  <2>8. ASSUME NEW t \in Threads, WriteEntry(t) PROVE TypeOK'
    <3>1. index' \in Seq(Nat)
      BY <2>8, EntryType, IndexWriteType DEF WriteEntry, Local
    <3>2. thread' \in [Threads -> Local]
      BY <2>8 DEF WriteEntry, Local
    <3>3. ipos' \in Nat
      BY <2>8 DEF WriteEntry, ENTRY_SIZE
    <3> QED
      BY <2>8, <3>1, <3>2, <3>3 DEF WriteEntry
  <2>9. ASSUME NEW t \in Threads, WriteHeader(t) PROVE TypeOK'
    <3>1. index' \in Seq(Nat)
      BY <2>9, HeaderType, IndexWriteType DEF WriteHeader
    <3>2. thread' \in [Threads -> Local]
      BY <2>9 DEF WriteHeader, Local
    <3>3. ipos' \in Nat
      BY <2>9 DEF WriteHeader, HEADER_SIZE
    <3> QED
      BY <2>9, <3>1, <3>2, <3>3 DEF WriteHeader
  <2>10. CASE UNCHANGED vars
    BY <2>10 DEF vars
  <2> QED
    BY <2>1, <2>2, <2>3, <2>4, <2>5, <2>6, <2>7, <2>8, <2>9, <2>10 DEF Next, Step
<1> QED
  BY <1>1, <1>2, PTL DEF Spec

-----------------------------------------------------------------------------
(* The invariant.                                                          *)

LEMMA RecordType ==
  ASSUME NEW p \in Payloads
  PROVE  p \in Seq(Cell) /\ Record(p) \in Seq(Cell) /\ Len(Record(p)) \in Nat
BY PayloadsAssumption, RecordProperties

\* Where the data file grows at its end, records that are whole stay so.
LEMMA HoldsStable ==
  ASSUME TypeOK, data' \in Seq(Cell), NEW off \in Nat,
         Len(data) <= Len(data'), \A i \in 1 .. Len(data) : data'[i] = data[i],
         Holds(data, off)
  PROVE  Holds(data', off)
<1>1. PICK p \in Payloads : HoldsRecord(data, off, p)
  BY DEF Holds
<1>2. HoldsRecord(data', off, p)
  BY <1>1, RecordType, HoldsRecordStable DEF TypeOK
<1> QED
  BY <1>2 DEF Holds

\* The one write to the data file, at the end of it.
LEMMA WriteDataAppends ==
  ASSUME TypeOK, AtEnd, Offsets, NEW t \in Threads, WriteData(t)
  PROVE  /\ data' \in Seq(Cell)
         /\ Len(data) <= Len(data')
         /\ dpos' = Len(data')
         /\ \A i \in 1 .. Len(data) : data'[i] = data[i]
         /\ HoldsRecord(data', Len(data), thread[t].payload)
<1> DEFINE p == thread[t].payload
<1>1. p \in Payloads /\ dpos = Len(data) /\ data \in Seq(Cell)
  BY DEF WriteData, AtEnd, Offsets, TypeOK
<1>2. Record(p) \in Seq(Cell) /\ Len(Record(p)) \in Nat
  BY <1>1, RecordType
<1>3. data' = WriteAt(data, Len(data), Record(p), HoleCell) /\ dpos' = Len(data) + Len(Record(p))
  BY <1>1 DEF WriteData
<1> HIDE DEF p
<1>4. /\ data' \in Seq(Cell)
      /\ Len(data') = Len(data) + Len(Record(p))
      /\ \A i \in 1 .. Len(Record(p)) : data'[Len(data) + i] = Record(p)[i]
      /\ \A i \in 1 .. Len(data) : data'[i] = data[i]
  BY <1>1, <1>2, <1>3, DataAppend
<1>5. HoldsRecord(data', Len(data), p)
  BY <1>4, <1>2, <1>1 DEF HoldsRecord
<1>6. Len(data) <= Len(data') /\ dpos' = Len(data')
  BY <1>1, <1>2, <1>3, <1>4
<1> QED
  BY <1>4, <1>5, <1>6 DEF p

\* Every step keeps the invariant: only WriteData touches the data file, and
\* only SeekData and WriteData its position.
LEMMA SharedInductive ==
  ASSUME TypeOK, TypeOK', AtEnd, Offsets, [Next]_vars
  PROVE  AtEnd' /\ Offsets'
<1>1. ASSUME NEW t \in Threads, NEW p \in Payloads, SeekData(t, p) PROVE AtEnd' /\ Offsets'
  <2>1. data' = data /\ dpos' = Len(data)
    BY <1>1 DEF SeekData, End
  <2>2. thread[t] \in Local /\ thread'[t] = [thread[t] EXCEPT !.pc = "write_data", !.payload = p, !.offset = Len(data)]
    BY <1>1 DEF SeekData, End, TypeOK
  <2>3. thread'[t].payload = p /\ thread'[t].offset = Len(data) /\ thread'[t].pc = "write_data"
    BY <2>2 DEF Local
  <2>4. \A u \in Threads : u # t => thread'[u] = thread[u]
    BY <1>1 DEF SeekData, TypeOK
  <2> QED
    BY <2>1, <2>3, <2>4 DEF AtEnd, Offsets, Holds
<1>2. ASSUME NEW t \in Threads, WriteData(t) PROVE AtEnd' /\ Offsets'
  <2>1. /\ data' \in Seq(Cell)
        /\ Len(data) <= Len(data')
        /\ dpos' = Len(data')
        /\ \A i \in 1 .. Len(data) : data'[i] = data[i]
        /\ HoldsRecord(data', Len(data), thread[t].payload)
    BY <1>2, WriteDataAppends
  <2>2. Holds(data', Len(data))
    <3>1. thread[t].payload \in Payloads
      BY <1>2 DEF Offsets, WriteData
    <3> QED
      BY <2>1, <3>1 DEF Holds
  <2>3. \A off \in Nat : Holds(data, off) => Holds(data', off)
    BY <2>1, HoldsStable
  <2>4. \A u \in Threads : thread'[u] = [thread[u] EXCEPT !.pc = IF u = t THEN "load_id" ELSE @]
    BY <1>2 DEF WriteData, TypeOK, Local
  <2>5. \A u \in Threads : thread[u].offset \in Nat /\ thread'[u].offset = thread[u].offset /\ thread'[u].payload = thread[u].payload
    <3>1. TAKE u \in Threads
    <3>2. PICK local \in Local : local = thread[u] /\ local.offset \in Nat
      BY DEF TypeOK, Local
    <3>3. PICK pc : thread'[u] = [local EXCEPT !.pc = pc]
      BY <2>4, <3>2
    <3>4. [local EXCEPT !.pc = pc].offset = local.offset /\ [local EXCEPT !.pc = pc].payload = local.payload
      BY DEF Local
    <3> QED
      BY <3>2, <3>3, <3>4
  <2>6. \A u \in Threads : u # t => thread'[u].pc = thread[u].pc
    BY <2>4 DEF TypeOK, Local
  <2>7. thread[t].pc = "write_data" /\ thread'[t].pc = "load_id"
    BY <1>2, <2>4 DEF WriteData, TypeOK, Local
  <2>8. AtEnd'
    BY <2>1 DEF AtEnd
  <2>9. \A u \in Threads : thread[u].pc # "idle" => Holds(data', thread[u].offset)
    BY <2>2, <2>3, <2>5 DEF Offsets
  <2>10. \A u \in Threads : thread'[u].pc # "idle" => thread[u].pc # "idle"
    BY <2>6, <2>7
  <2>11. \A u \in Threads : thread'[u].pc # "idle" => Holds(data', thread'[u].offset)
    BY <2>5, <2>9, <2>10
  <2>12. \A u \in Threads : thread'[u].pc = "write_data" => thread[u].payload \in Payloads
    BY <2>6, <2>7 DEF Offsets
  <2> QED
    BY <2>5, <2>8, <2>11, <2>12 DEF Offsets
<1>3. ASSUME NEW t \in Threads,
             LoadId(t) \/ LoadCount(t) \/ StoreCount(t) \/ SeekEnd(t) \/ WriteEntry(t) \/ SeekHeader(t) \/ WriteHeader(t)
      PROVE  AtEnd' /\ Offsets'
  <2>1. data' = data /\ dpos' = dpos
    BY <1>3 DEF LoadId, LoadCount, StoreCount, SeekEnd, WriteEntry, SeekHeader, WriteHeader
  <2>2. \A u \in Threads : u # t => thread'[u] = thread[u]
    BY <1>3 DEF LoadId, LoadCount, StoreCount, SeekEnd, WriteEntry, SeekHeader, WriteHeader, TypeOK
  <2>3. /\ thread[t].pc \notin {"idle", "write_data"}
        /\ thread'[t].pc # "write_data"
        /\ thread'[t].pc # "idle" => thread'[t].offset = thread[t].offset
    <3>1. t \in DOMAIN thread /\ thread[t] \in Local
      BY DEF TypeOK
    <3>2. CASE LoadId(t)
      BY <3>1, <3>2 DEF LoadId, Local
    <3>3. CASE LoadCount(t)
      BY <3>1, <3>3 DEF LoadCount, Local
    <3>4. CASE StoreCount(t)
      BY <3>1, <3>4 DEF StoreCount, Local
    <3>5. CASE SeekEnd(t)
      BY <3>1, <3>5 DEF SeekEnd, Local
    <3>6. CASE WriteEntry(t)
      BY <3>1, <3>6 DEF WriteEntry, Local
    <3>7. CASE SeekHeader(t)
      BY <3>1, <3>7 DEF SeekHeader, Local
    <3>8. CASE WriteHeader(t)
      BY <3>1, <3>8 DEF WriteHeader, Local
    <3> QED
      BY <1>3, <3>2, <3>3, <3>4, <3>5, <3>6, <3>7, <3>8
  <2>4. AtEnd'
    BY <2>1, <2>2, <2>3 DEF AtEnd
  <2>5. Offsets'
    BY <2>1, <2>2, <2>3 DEF Offsets, Holds
  <2> QED
    BY <2>4, <2>5
<1>4. CASE UNCHANGED vars
  BY <1>4 DEF vars, AtEnd, Offsets, Holds
<1> QED
  BY <1>1, <1>2, <1>3, <1>4 DEF Next, Step

LEMMA SharedInvariant == Spec => [](TypeOK /\ AtEnd /\ Offsets)
<1>1. Init => AtEnd /\ Offsets
  BY DEF Init, AtEnd, Offsets
<1>2. TypeOK /\ TypeOK' /\ AtEnd /\ Offsets /\ [Next]_vars => AtEnd' /\ Offsets'
  BY SharedInductive
<1> QED
  BY <1>1, <1>2, SharedTyping, PTL DEF Spec

\* The data file only grows at its end, for any number of threads
\* (sea_block_data_append on a shared descriptor).
THEOREM SharedDataAppendOnly == Spec => DataAppendOnly
<1> DEFINE A == /\ Len(data) <= Len(data')
                /\ \A i \in 1 .. Len(data) : data'[i] = data[i]
<1>1. TypeOK /\ AtEnd /\ Offsets /\ [Next]_vars => [A]_data
  <2> SUFFICES ASSUME TypeOK, AtEnd, Offsets, [Next]_vars PROVE [A]_data
    OBVIOUS
  <2>1. ASSUME NEW t \in Threads, WriteData(t) PROVE A
    BY <2>1, WriteDataAppends
  <2>2. ASSUME NEW t \in Threads, ~WriteData(t), Step(t) PROVE data' = data
    BY <2>2 DEF Step, SeekData, LoadId, LoadCount, StoreCount, SeekEnd, WriteEntry, SeekHeader, WriteHeader
  <2>3. CASE UNCHANGED vars
    BY <2>3 DEF vars
  <2> QED
    BY <2>1, <2>2, <2>3 DEF Next
<1> QED
  BY <1>1, SharedInvariant, PTL DEF Spec, DataAppendOnly

\* Every offset that reaches the index addresses a whole record, for any
\* number of threads, any payloads and any number of appends.
THEOREM SharedOffsetsWhole == Spec => []OffsetsWhole
<1>1. TypeOK /\ Offsets => OffsetsWhole
  <2> SUFFICES ASSUME TypeOK, Offsets, NEW t \in Threads, thread[t].pc \notin {"idle", "write_data"}
               PROVE  WholeAt(thread[t].offset)
    BY DEF OffsetsWhole
  <2>1. PICK p \in Payloads : HoldsRecord(data, thread[t].offset, p)
    BY DEF Offsets, Holds
  <2>2. thread[t].offset \in Nat /\ data \in Seq(Cell)
    BY DEF TypeOK, Local
  <2>3. /\ ReadRecord(data, 0, thread[t].offset).ok
        /\ ReadRecord(data, 0, thread[t].offset).payload = p
    BY <2>1, <2>2, RecordType, ReadRecordWhole
  <2> QED
    BY <2>3 DEF WholeAt
<1> QED
  BY <1>1, SharedInvariant, PTL
=============================================================================
