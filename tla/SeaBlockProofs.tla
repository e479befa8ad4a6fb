---------------------------- MODULE SeaBlockProofs ----------------------------
(***************************************************************************)
(* Proofs about the block store for every set of processes, every set of   *)
(* payloads and queries, and every combination of failures.                *)
(***************************************************************************)
EXTENDS SeaBlockRefinement, SeaBlockLemmas

Handle == [open : BOOLEAN, header : Header, dpos : Nat]

\* What a call that is under way relies on: the payload is a client's, the
\* entry to write or the record to read is known, and the count to write
\* includes the new record.
InCall(c, h) ==
  /\ c.pc \in {"entry", "header"} => c.payload \in Payloads
  /\ c.pc \in {"entry", "read"} => c.offs # <<>>
  /\ c.pc = "header" => h.header[COUNT] > 0

TypeInv == TypeOK /\ \A p \in Procs : InCall(op[p], handle[p])

-----------------------------------------------------------------------------
LEMMA PayloadType == \A p \in Payloads \cup {<<>>} : p \in Seq(Cell)
BY PayloadsAssumption, EmptyPayloadType

LEMMA WriterProc == Writer \in Procs /\ Readers \subseteq Procs
BY DEF Procs

LEMMA IdleType == Idle \in Call /\ Closed \in Handle
<1>1. NoHeader \in Header
  BY DEF NoHeader, Header, HEADER_SIZE
<1>2. <<>> \in Seq(Nat) /\ <<>> \in Seq(Seq(Cell))
  OBVIOUS
<1> QED
  BY <1>1, <1>2 DEF Idle, Closed, Call, Handle

LEMMA OutcomeType ==
  ASSUME NEW call \in {"create", "destroy", "append", "update"}, NEW ret \in {"ok", "error"},
         NEW p \in Procs, NEW h \in Handle
  PROVE  \E c \in Call : InCall(c, h) /\ (Return(p, call, ret) => op' = [op EXCEPT ![p] = c])
<1> DEFINE c == [Idle EXCEPT !.pc = "done", !.call = call, !.ret = ret]
<1>1. c \in Call
  BY IdleType DEF Call
<1>2. c.pc = "done"
  BY IdleType DEF Call
<1> QED
  BY <1>1, <1>2 DEF InCall, Return

LEMMA HeaderSeq ==
  ASSUME NEW header \in Header
  PROVE  header \in Seq(Nat)
<1>1. header = [i \in 1 .. 5 |-> header[i]] /\ \A i \in 1 .. 5 : header[i] \in Nat
  BY DEF Header, HEADER_SIZE
<1>2. [i \in 1 .. 5 |-> header[i]] \in Seq(Nat)
  BY <1>1
<1> QED
  BY <1>1, <1>2

LEMMA EntryType ==
  ASSUME NEW ts \in Nat, NEW off \in Nat
  PROVE  Entry(ts, off) \in Seq(Nat)
BY DEF Entry

LEMMA NewHeaderType ==
  ASSUME NEW ts \in Nat
  PROVE  NewHeader(MaxCount, ts) \in Seq(Nat)
BY BoundsAssumption DEF NewHeader

LEMMA TimesType ==
  ASSUME clock \in 0 .. MaxTime, NEW ts \in Times
  PROVE  ts \in 0 .. MaxTime /\ ts \in Nat
BY BoundsAssumption DEF Times

\* A step of one process preserves the invariants of the others.
LEMMA OneProcess ==
  ASSUME op \in [Procs -> Call], handle \in [Procs -> Handle],
         \A p \in Procs : InCall(op[p], handle[p]),
         NEW p \in Procs, NEW c \in Call, NEW h \in Handle, InCall(c, h),
         op' = [op EXCEPT ![p] = c], handle' = [handle EXCEPT ![p] = h]
  PROVE  /\ op' \in [Procs -> Call]
         /\ handle' \in [Procs -> Handle]
         /\ \A q \in Procs : InCall(op'[q], handle'[q])
<1>1. ASSUME NEW q \in Procs PROVE InCall(op'[q], handle'[q])
  <2>1. CASE q = p
    BY <2>1
  <2>2. CASE q # p
    BY <2>2
  <2> QED
    BY <2>1, <2>2
<1> QED
  BY <1>1

\* All processes' steps together, as the process dies.
LEMMA EveryProcess ==
  ASSUME ProcessDies
  PROVE  /\ op' \in [Procs -> Call]
         /\ handle' \in [Procs -> Handle]
         /\ \A q \in Procs : InCall(op'[q], handle'[q])
<1>1. InCall(Idle, Closed)
  BY DEF InCall, Idle
<1> QED
  BY <1>1, IdleType DEF ProcessDies

\* Every step preserves the types (all of sea_block.c, sea_block_index.c and
\* sea_block_data.c).
LEMMA TypeInvInit == Init => TypeInv
<1> SUFFICES ASSUME Init PROVE TypeInv
  OBVIOUS
<1>1. InCall(Idle, Closed)
  BY DEF InCall, Idle
<1>2. <<>> \in Seq(Nat) /\ <<>> \in Seq(Cell) /\ DOMAIN <<>> = {}
  OBVIOUS
<1>3. op \in [Procs -> Call] /\ handle \in [Procs -> Handle]
  BY IdleType DEF Init
<1>4. \A p \in Procs : InCall(op[p], handle[p])
  BY <1>1 DEF Init
<1>5. clock \in 0 .. MaxTime
  BY BoundsAssumption DEF Init
<1> QED
  BY <1>2, <1>3, <1>4, <1>5 DEF Init, TypeInv, TypeOK, Handle, Header

LEMMA TypeInvFacts ==
  ASSUME TypeInv
  PROVE  /\ index \in Seq(Nat) /\ data \in Seq(Cell) /\ exists \in BOOLEAN
         /\ handle \in [Procs -> Handle] /\ op \in [Procs -> Call]
         /\ clock \in 0 .. MaxTime
         /\ \A id \in DOMAIN acked : id \in Nat /\ acked[id] \in Payloads
         /\ \A p \in Procs : InCall(op[p], handle[p])
BY DEF TypeInv, TypeOK, Handle, Header

LEMMA TypeInvNext ==
  ASSUME index' \in Seq(Nat), data' \in Seq(Cell), exists' \in BOOLEAN,
         handle' \in [Procs -> Handle], op' \in [Procs -> Call],
         clock' \in 0 .. MaxTime,
         \A id \in DOMAIN acked' : id \in Nat /\ acked'[id] \in Payloads,
         \A p \in Procs : InCall(op'[p], handle'[p])
  PROVE  TypeInv'
BY DEF TypeInv, TypeOK, Handle, Header

LEMMA CreateTyped ==
  ASSUME TypeInv, NEW ts \in Times, CreateIndex(ts)
  PROVE  TypeInv'
<1>0. /\ index \in Seq(Nat) /\ data \in Seq(Cell) /\ exists \in BOOLEAN
      /\ handle \in [Procs -> Handle] /\ op \in [Procs -> Call]
      /\ clock \in 0 .. MaxTime
      /\ \A k \in DOMAIN acked : k \in Nat /\ acked[k] \in Payloads
      /\ \A x \in Procs : InCall(op[x], handle[x])
  BY TypeInvFacts
<1> USE <1>0
<1> DEFINE c == [Idle EXCEPT !.pc = "create_data", !.call = "create"]
<1>1. ts \in 0 .. MaxTime /\ ts \in Nat
  BY TimesType
<1>2. index' \in Seq(Nat)
  <2>1. NewHeader(MaxCount, ts) \in Seq(Nat)
    BY <1>1, NewHeaderType
  <2>2. PICK w \in {NewHeader(MaxCount, ts)} \cup ShortWrites(NewHeader(MaxCount, ts)) :
          index' = WriteAt(index, 0, w, 0)
    BY DEF CreateIndex
  <2>3. w \in Seq(Nat)
    BY <2>1, <2>2, WrittenProperties
  <2> QED
    BY <2>2, <2>3, IndexWriteType
<1>3. c \in Call /\ InCall(c, handle[Writer])
  BY IdleType DEF Call, Idle, InCall
<1>4. /\ op' \in [Procs -> Call]
      /\ handle' \in [Procs -> Handle]
      /\ \A q \in Procs : InCall(op'[q], handle'[q])
  <2>1. op' = [op EXCEPT ![Writer] = c] /\ handle' = [handle EXCEPT ![Writer] = handle[Writer]]
    BY DEF CreateIndex
  <2> QED
    BY <1>3, <2>1, WriterProc, OneProcess
<1> QED
  BY <1>1, <1>2, <1>4, TypeInvNext DEF CreateIndex

\* sea_block_data_create and the end of sea_block_destroy.
LEMMA LastStepTyped ==
  ASSUME TypeInv, CreateData \/ DestroyIndex
  PROVE  TypeInv'
<1>0. /\ index \in Seq(Nat) /\ data \in Seq(Cell) /\ exists \in BOOLEAN
      /\ handle \in [Procs -> Handle] /\ op \in [Procs -> Call]
      /\ clock \in 0 .. MaxTime
      /\ \A k \in DOMAIN acked : k \in Nat /\ acked[k] \in Payloads
      /\ \A x \in Procs : InCall(op[x], handle[x])
  BY TypeInvFacts
<1> USE <1>0
<1>1. PICK call \in {"create", "destroy"} : Return(Writer, call, "ok")
  BY DEF CreateData, DestroyIndex
<1>2. PICK c \in Call : InCall(c, handle[Writer]) /\ op' = [op EXCEPT ![Writer] = c]
  <2>1. handle[Writer] \in Handle
    BY WriterProc
  <2> QED
    BY <1>1, <2>1, WriterProc, OutcomeType
<1>3. handle' = [handle EXCEPT ![Writer] = handle[Writer]]
  BY DEF CreateData, DestroyIndex
<1>4. /\ op' \in [Procs -> Call]
      /\ handle' \in [Procs -> Handle]
      /\ \A q \in Procs : InCall(op'[q], handle'[q])
  BY <1>2, <1>3, WriterProc, OneProcess
<1>5. index' \in Seq(Nat) /\ data' \in Seq(Cell) /\ exists' \in BOOLEAN
  <2>1. <<>> \in Seq(Nat)
    OBVIOUS
  <2> QED
    BY <2>1 DEF CreateData, DestroyIndex
<1> QED
  BY <1>4, <1>5, TypeInvNext DEF CreateData, DestroyIndex

LEMMA OpenCloseTyped ==
  ASSUME TypeInv, NEW p \in Procs, Open(p) \/ Close(p)
  PROVE  TypeInv'
<1>0. /\ index \in Seq(Nat) /\ data \in Seq(Cell) /\ exists \in BOOLEAN
      /\ handle \in [Procs -> Handle] /\ op \in [Procs -> Call]
      /\ clock \in 0 .. MaxTime
      /\ \A k \in DOMAIN acked : k \in Nat /\ acked[k] \in Payloads
      /\ \A x \in Procs : InCall(op[x], handle[x])
  BY TypeInvFacts
<1> USE <1>0
<1>1. PICK h \in Handle : handle' = [handle EXCEPT ![p] = h]
  <2>1. CASE Open(p)
    <3>1. CachedHeader \in Header
      <4>1. Len(index) >= 5 /\ Len(index) \in Nat
        BY <2>1 DEF Open, CanOpen, HEADER_SIZE
      <4>2. CachedHeader = SubSeq(index, 1, 5)
        <5>1. 0 + 1 = 1 /\ (IF 0 + 5 > Len(index) THEN Len(index) ELSE 0 + 5) = 5
          BY <4>1
        <5>2. CachedHeader = SubSeq(index, 0 + 1, IF 0 + 5 > Len(index) THEN Len(index) ELSE 0 + 5)
          BY DEF CachedHeader, ReadAt, HEADER_SIZE
        <5> QED
          BY <5>1, <5>2
      <4>3. SubSeq(index, 1, 5) = [i \in 1 .. 5 |-> index[i]]
        BY <4>1
      <4>4. \A i \in 1 .. 5 : index[i] \in Nat
        BY <4>1
      <4> QED
        BY <4>2, <4>3, <4>4 DEF Header, HEADER_SIZE
    <3> QED
      BY <2>1, <3>1 DEF Open, Handle
  <2>2. CASE Close(p)
    BY <2>2, IdleType DEF Close
  <2> QED
    BY <2>1, <2>2
<1>2. InCall(Idle, h)
  BY DEF InCall, Idle
<1>3. op' = [op EXCEPT ![p] = Idle]
  BY DEF Open, Close
<1>4. /\ op' \in [Procs -> Call]
      /\ handle' \in [Procs -> Handle]
      /\ \A q \in Procs : InCall(op'[q], handle'[q])
  BY <1>1, <1>2, <1>3, IdleType, OneProcess
<1> QED
  BY <1>4, TypeInvNext DEF Open, Close

LEMMA DestroyTyped ==
  ASSUME TypeInv, DestroyData
  PROVE  TypeInv'
<1>0. /\ index \in Seq(Nat) /\ data \in Seq(Cell) /\ exists \in BOOLEAN
      /\ handle \in [Procs -> Handle] /\ op \in [Procs -> Call]
      /\ clock \in 0 .. MaxTime
      /\ \A k \in DOMAIN acked : k \in Nat /\ acked[k] \in Payloads
      /\ \A x \in Procs : InCall(op[x], handle[x])
  BY TypeInvFacts
<1> USE <1>0
<1> DEFINE c == [Idle EXCEPT !.pc = "destroy_index", !.call = "destroy"]
<1>1. c \in Call /\ InCall(c, handle[Writer])
  BY IdleType DEF Call, Idle, InCall
<1>2. op' = [op EXCEPT ![Writer] = c] /\ handle' = [handle EXCEPT ![Writer] = handle[Writer]]
  BY DEF DestroyData
<1>3. /\ op' \in [Procs -> Call]
      /\ handle' \in [Procs -> Handle]
      /\ \A q \in Procs : InCall(op'[q], handle'[q])
  BY <1>1, <1>2, WriterProc, OneProcess
<1>4. data' \in Seq(Cell) /\ DOMAIN acked' = {} /\ exists' \in BOOLEAN
  <2>1. DOMAIN <<>> = {}
    OBVIOUS
  <2> QED
    BY <2>1, EmptyPayloadType DEF DestroyData
<1> QED
  BY <1>3, <1>4, TypeInvNext DEF DestroyData

LEMMA ProcessDiesTyped ==
  ASSUME TypeInv, ProcessDies
  PROVE  TypeInv'
BY TypeInvFacts, EveryProcess, TypeInvNext DEF ProcessDies
LEMMA AppendDataTyped ==
  ASSUME TypeInv, NEW p \in Payloads, AppendData(p)
  PROVE  TypeInv'
<1>0. /\ index \in Seq(Nat) /\ data \in Seq(Cell) /\ exists \in BOOLEAN
      /\ handle \in [Procs -> Handle] /\ op \in [Procs -> Call]
      /\ clock \in 0 .. MaxTime
      /\ \A k \in DOMAIN acked : k \in Nat /\ acked[k] \in Payloads
      /\ \A x \in Procs : InCall(op[x], handle[x])
  BY TypeInvFacts
<1> USE <1>0
<1>1. Record(p) \in Seq(Cell) /\ Len(data) \in Nat
  BY PayloadType, RecordProperties
<1>2. data' \in Seq(Cell)
  <2>1. PICK w \in {Record(p)} \cup ShortWrites(Record(p)) : data' = WriteAt(data, Len(data), w, HoleCell)
    BY DEF AppendData, End
  <2>2. w \in Seq(Cell)
    BY <1>1, <2>1, WrittenProperties
  <2> QED
    BY <1>1, <2>1, <2>2, DataWriteType
<1>3. Writer \in Procs /\ handle[Writer] \in Handle
  BY WriterProc
<1>4. PICK h \in Handle : handle' = [handle EXCEPT ![Writer] = h]
  <2> DEFINE n == Len(data')
             h == [handle[Writer] EXCEPT !.dpos = n]
  <2>1. n \in Nat
    BY <1>2
  <2>2. handle' = [handle EXCEPT ![Writer] = h]
    BY DEF AppendData
  <2> HIDE DEF n
  <2>3. h \in Handle
    BY <1>3, <2>1 DEF Handle
  <2> QED
    BY <2>2, <2>3
<1>5. PICK c \in Call : InCall(c, h) /\ op' = [op EXCEPT ![Writer] = c]
  <2> DEFINE e == [Idle EXCEPT !.pc = "entry", !.call = "append", !.payload = p, !.offs = <<Len(data)>>]
  <2>1. e \in Call /\ InCall(e, h)
    <3>1. <<Len(data)>> \in Seq(Nat) /\ <<Len(data)>> # <<>>
      BY <1>1
    <3> QED
      BY <3>1, IdleType DEF Call, Idle, InCall
  <2>2. CASE op' = [op EXCEPT ![Writer] = e]
    BY <2>1, <2>2
  <2>3. CASE Return(Writer, "append", "error")
    BY <1>3, <2>3, OutcomeType
  <2> QED
    BY <2>2, <2>3 DEF AppendData, End
<1>6. /\ op' \in [Procs -> Call]
      /\ handle' \in [Procs -> Handle]
      /\ \A q \in Procs : InCall(op'[q], handle'[q])
  BY <1>3, <1>4, <1>5, OneProcess
<1> QED
  BY <1>2, <1>6, TypeInvNext DEF AppendData

LEMMA AppendEntryTyped ==
  ASSUME TypeInv, NEW ts \in Times, AppendEntry(ts)
  PROVE  TypeInv'
<1>0. /\ index \in Seq(Nat) /\ data \in Seq(Cell) /\ exists \in BOOLEAN
      /\ handle \in [Procs -> Handle] /\ op \in [Procs -> Call]
      /\ clock \in 0 .. MaxTime
      /\ \A k \in DOMAIN acked : k \in Nat /\ acked[k] \in Payloads
      /\ \A x \in Procs : InCall(op[x], handle[x])
  BY TypeInvFacts
<1> USE <1>0
<1> DEFINE header == handle[Writer].header
           header1 == [header EXCEPT ![COUNT] = header[COUNT] + 1, ![STOP] = ts]
           h == [handle[Writer] EXCEPT !.header = header1]
           entry == Entry(ts, op[Writer].offs[1])
<1>1. ts \in 0 .. MaxTime /\ ts \in Nat
  BY TimesType
<1>2. Writer \in Procs /\ handle[Writer] \in Handle /\ op[Writer] \in Call /\ header \in Header
  BY WriterProc DEF Handle
<1>3. header[COUNT] \in Nat
  BY <1>2 DEF Header, HEADER_SIZE, COUNT
<1>4. header1 \in Header /\ header1[COUNT] = header[COUNT] + 1
  <2> DEFINE n == header[COUNT] + 1
             header2 == [header EXCEPT ![COUNT] = n, ![STOP] = ts]
  <2>1. n \in Nat
    BY <1>3
  <2> HIDE DEF n, header
  <2>2. header2 \in Header /\ header2[COUNT] = n
    BY <1>1, <1>2, <2>1, SMTT(30) DEF Header, HEADER_SIZE, COUNT, STOP
  <2> QED
    BY <2>2 DEF n
<1>5. h \in Handle /\ h.header = header1
  <2> HIDE DEF header1
  <2> QED
    BY <1>2, <1>4 DEF Handle
<1>6. handle' = [handle EXCEPT ![Writer] = h]
  BY DEF AppendEntry
<1>7. entry \in Seq(Nat)
  <2>1. op[Writer].offs \in Seq(Nat) /\ op[Writer].offs # <<>>
    BY <1>2 DEF AppendEntry, InCall, Call
  <2>2. op[Writer].offs[1] \in Nat
    BY <2>1
  <2> QED
    BY <1>1, <2>2, EntryType
<1>8. index' \in Seq(Nat)
  <2>1. PICK w \in {entry} \cup ShortWrites(entry) : index' = WriteAt(index, Len(index), w, 0)
    BY DEF AppendEntry, End
  <2>2. w \in Seq(Nat)
    BY <1>7, <2>1, WrittenProperties
  <2>3. Len(index) \in Nat
    OBVIOUS
  <2> QED
    BY <2>1, <2>2, <2>3, IndexWriteType
<1>9. PICK c \in Call : InCall(c, h) /\ op' = [op EXCEPT ![Writer] = c]
  <2> DEFINE e == [op[Writer] EXCEPT !.pc = "header", !.id = header[COUNT],
                                     !.overlimit = OverLimit(handle'[Writer].header)]
  <2>1. OverLimit(handle'[Writer].header) \in BOOLEAN
    BY DEF OverLimit
  <2>2. e \in Call /\ e.pc = "header" /\ e.payload = op[Writer].payload
    BY <1>2, <1>3, <2>1 DEF Call
  <2>3. op[Writer].payload \in Payloads
    BY <1>2 DEF AppendEntry, InCall
  <2>4. InCall(e, h)
    BY <1>3, <1>4, <1>5, <2>2, <2>3 DEF InCall
  <2>5. CASE op' = [op EXCEPT ![Writer] = e]
    BY <2>2, <2>4, <2>5
  <2>6. CASE Return(Writer, "append", "error")
    BY <1>2, <1>5, <2>6, OutcomeType
  <2>7. \/ op' = [op EXCEPT ![Writer] = e]
        \/ Return(Writer, "append", "error")
    BY DEF AppendEntry
  <2> QED
    BY <2>5, <2>6, <2>7
<1>10. /\ op' \in [Procs -> Call]
       /\ handle' \in [Procs -> Handle]
       /\ \A q \in Procs : InCall(op'[q], handle'[q])
  BY <1>2, <1>5, <1>6, <1>9, OneProcess
<1> QED
  BY <1>1, <1>8, <1>10, TypeInvNext DEF AppendEntry
LEMMA AppendHeaderTyped ==
  ASSUME TypeInv, AppendHeader
  PROVE  TypeInv'
<1>0. /\ index \in Seq(Nat) /\ data \in Seq(Cell) /\ exists \in BOOLEAN
      /\ handle \in [Procs -> Handle] /\ op \in [Procs -> Call]
      /\ clock \in 0 .. MaxTime
      /\ \A k \in DOMAIN acked : k \in Nat /\ acked[k] \in Payloads
      /\ \A x \in Procs : InCall(op[x], handle[x])
  BY TypeInvFacts
<1> USE <1>0
<1> DEFINE header == handle[Writer].header
           count == header[COUNT] - 1
<1>1. Writer \in Procs /\ handle[Writer] \in Handle /\ op[Writer] \in Call /\ header \in Header
  BY WriterProc DEF Handle
<1>2. op[Writer].id \in Nat /\ op[Writer].payload \in Payloads /\ count \in Nat
  <2>1. header[COUNT] \in Nat
    BY <1>1 DEF Header, HEADER_SIZE, COUNT
  <2>2. header[COUNT] > 0 /\ op[Writer].payload \in Payloads
    BY <1>1 DEF AppendHeader, InCall
  <2>3. op[Writer].id \in Nat
    BY <1>1 DEF Call
  <2>4. count \in Nat
    <3> HIDE DEF header
    <3> QED
      BY <2>1, <2>2
  <2> QED
    BY <2>2, <2>3, <2>4
<1>3. header \in Seq(Nat)
  BY <1>1, HeaderSeq
<1>4. data' \in Seq(Cell) /\ exists' \in BOOLEAN /\ clock' \in 0 .. MaxTime
  BY DEF AppendHeader
<1>5. CASE /\ index' = WriteAt(index, 0, header, 0)
           /\ op' = [op EXCEPT ![Writer].pc = "done", ![Writer].ret = "ok", ![Writer].offs = <<>>]
           /\ acked' = [i \in DOMAIN acked \cup {op[Writer].id} |->
                          IF i = op[Writer].id THEN op[Writer].payload ELSE acked[i]]
           /\ handle' = handle
  <2> DEFINE c == [op[Writer] EXCEPT !.pc = "done", !.ret = "ok", !.offs = <<>>]
  <2>1. <<>> \in Seq(Nat)
    OBVIOUS
  <2>2. c \in Call /\ c.pc = "done"
    BY <1>1, <2>1 DEF Call
  <2>3. InCall(c, handle[Writer])
    BY <2>2 DEF InCall
  <2>4. op' = [op EXCEPT ![Writer] = c] /\ handle' = [handle EXCEPT ![Writer] = handle[Writer]]
    BY <1>5
  <2>5. /\ op' \in [Procs -> Call]
        /\ handle' \in [Procs -> Handle]
        /\ \A q \in Procs : InCall(op'[q], handle'[q])
    BY <1>1, <2>2, <2>3, <2>4, OneProcess
  <2>6. index' \in Seq(Nat)
    BY <1>3, <1>5, IndexWriteType
  <2>7. \A id \in DOMAIN acked' : id \in Nat /\ acked'[id] \in Payloads
    BY <1>2, <1>5
  <2> QED
    BY <1>4, <2>5, <2>6, <2>7, TypeInvNext
<1>6. CASE /\ handle' = [handle EXCEPT ![Writer].header = [header EXCEPT ![COUNT] = count]]
           /\ \E w \in ShortWrites(header) : index' = Truncate(WriteAt(index, 0, w, 0), EntryAt(count), 0)
           /\ Return(Writer, "append", "error")
           /\ acked' = acked
  <2> HIDE DEF count, header
  <2> DEFINE header1 == [header EXCEPT ![COUNT] = count]
             h == [handle[Writer] EXCEPT !.header = header1]
  <2>1. header1 \in Header
    BY <1>1, <1>2 DEF Header, HEADER_SIZE, COUNT
  <2> HIDE DEF header1
  <2>2. h \in Handle
    BY <1>1, <2>1 DEF Handle
  <2>3. handle' = [handle EXCEPT ![Writer] = h]
    BY <1>6 DEF header1
  <2>4. PICK c \in Call : InCall(c, h) /\ op' = [op EXCEPT ![Writer] = c]
    BY <1>1, <1>6, <2>2, OutcomeType
  <2>5. /\ op' \in [Procs -> Call]
        /\ handle' \in [Procs -> Handle]
        /\ \A q \in Procs : InCall(op'[q], handle'[q])
    BY <1>1, <2>2, <2>3, <2>4, OneProcess
  <2>6. index' \in Seq(Nat)
    <3>1. PICK w \in ShortWrites(header) : index' = Truncate(WriteAt(index, 0, w, 0), EntryAt(count), 0)
      BY <1>6
    <3>2. w \in Seq(Nat)
      BY <1>3, ShortWritesProperties
    <3>3. WriteAt(index, 0, w, 0) \in Seq(Nat) /\ EntryAt(count) \in Nat
      BY <1>2, <3>2, IndexWriteType DEF EntryAt, HEADER_SIZE, ENTRY_SIZE
    <3> QED
      BY <3>1, <3>3, TruncateProperties
  <2> QED
    BY <1>4, <1>6, <2>5, <2>6, TypeInvNext
<1> QED
  BY <1>5, <1>6 DEF AppendHeader, Rollback, RollbackSize

LEMMA UpdateTyped ==
  ASSUME TypeInv, NEW id \in Nat, NEW p \in Payloads, Update(id, p)
  PROVE  TypeInv'
<1>0. /\ index \in Seq(Nat) /\ data \in Seq(Cell) /\ exists \in BOOLEAN
      /\ handle \in [Procs -> Handle] /\ op \in [Procs -> Call]
      /\ clock \in 0 .. MaxTime
      /\ \A k \in DOMAIN acked : k \in Nat /\ acked[k] \in Payloads
      /\ \A x \in Procs : InCall(op[x], handle[x])
  BY TypeInvFacts
<1> USE <1>0
<1> DEFINE list == IndexQueryByRecordId(handle[Writer].header, index, id)
           off == UpdateOffset(list)
<1>1. Writer \in Procs /\ handle[Writer] \in Handle /\ handle[Writer].header \in Header
  BY WriterProc DEF Handle
<1>2. list.offs \in Seq(Nat)
  BY <1>1, QueryByRecordIdType
<1>3. off \in Nat
  BY <1>2 DEF UpdateOffset
<1>4. Record(p) \in Seq(Cell)
  BY PayloadType, RecordProperties
<1>5. index' \in Seq(Nat) /\ exists' \in BOOLEAN /\ clock' \in 0 .. MaxTime
  BY DEF Update
<1>6. \/ data' = data /\ acked' = acked /\ handle' = handle
      \/ \E w \in {Record(p)} \cup ShortWrites(Record(p)) :
           /\ data' = WriteAt(data, off, w, HoleCell)
           /\ handle' = [handle EXCEPT ![Writer].dpos = off + Len(w)]
           /\ \/ acked' = [i \in DOMAIN acked |-> IF i = id THEN p ELSE acked[i]]
              \/ acked' = [i \in DOMAIN acked \ {id} |-> acked[i]]
  BY DEF Update
<1>7. PICK ret \in {"ok", "error"} : Return(Writer, "update", ret)
  BY DEF Update
<1> HIDE DEF off
<1>8. /\ data' \in Seq(Cell)
      /\ \E h \in Handle : handle' = [handle EXCEPT ![Writer] = h]
  <2>1. CASE data' = data /\ acked' = acked /\ handle' = handle
    <3>1. handle' = [handle EXCEPT ![Writer] = handle[Writer]]
      BY <2>1
    <3> QED
      BY <1>1, <2>1, <3>1
  <2>2. ASSUME NEW w \in {Record(p)} \cup ShortWrites(Record(p)),
               data' = WriteAt(data, off, w, HoleCell),
               handle' = [handle EXCEPT ![Writer].dpos = off + Len(w)]
        PROVE  /\ data' \in Seq(Cell)
               /\ \E h \in Handle : handle' = [handle EXCEPT ![Writer] = h]
    <3> DEFINE n == off + Len(w)
               h == [handle[Writer] EXCEPT !.dpos = n]
    <3>1. w \in Seq(Cell)
      BY <1>4, WrittenProperties
    <3>2. n \in Nat
      BY <1>3, <3>1
    <3>3. handle' = [handle EXCEPT ![Writer] = h]
      BY <2>2
    <3> HIDE DEF n
    <3>4. h \in Handle
      BY <1>1, <3>2 DEF Handle
    <3>5. data' \in Seq(Cell)
      BY <1>3, <2>2, <3>1, DataWriteType
    <3> QED
      BY <3>3, <3>4, <3>5
  <2> QED
    BY <1>6, <2>1, <2>2
<1>9. \A i \in DOMAIN acked' : i \in Nat /\ acked'[i] \in Payloads
  BY <1>6
<1>10. PICK h \in Handle : handle' = [handle EXCEPT ![Writer] = h]
  BY <1>8
<1>11. PICK c \in Call : InCall(c, h) /\ op' = [op EXCEPT ![Writer] = c]
  BY <1>1, <1>7, OutcomeType
<1>12. /\ op' \in [Procs -> Call]
       /\ handle' \in [Procs -> Handle]
       /\ \A q \in Procs : InCall(op'[q], handle'[q])
  BY <1>1, <1>10, <1>11, OneProcess
<1> QED
  BY <1>5, <1>8, <1>9, <1>12, TypeInvNext
LEMMA IndexQueryType ==
  ASSUME index \in Seq(Nat), NEW header \in Header, NEW q \in Queries
  PROVE  IndexQuery(header, q).null \in BOOLEAN /\ IndexQuery(header, q).offs \in Seq(Nat)
<1>1. CASE q.by = "id"
  <2>1. IndexQuery(header, q) = IndexQueryByRecordId(header, index, q.first) /\ q.first \in Nat
    BY <1>1, QueriesAssumption DEF IndexQuery
  <2> QED
    BY <2>1, QueryByRecordIdType
<1>2. CASE q.by = "count"
  <2>1. /\ IndexQuery(header, q) = IndexQueryByCount(header, index, q.first, q.count)
        /\ q.first \in Nat /\ q.count \in Nat
    BY <1>2, QueriesAssumption DEF IndexQuery
  <2> QED
    BY <2>1, QueryByCountType
<1>3. CASE q.by = "time"
  <2>1. /\ IndexQuery(header, q) = IndexQueryByTime(header, index, q.stop, q.first)
        /\ q.first \in Nat /\ q.stop \in Nat
    BY <1>3, QueriesAssumption DEF IndexQuery
  <2> QED
    BY <2>1, QueryByTimeType
<1> QED
  BY <1>1, <1>2, <1>3, QueriesAssumption

LEMMA QueryIndexTyped ==
  ASSUME TypeInv, NEW p \in Readers, NEW q \in Queries, QueryIndex(p, q)
  PROVE  TypeInv'
<1>0. /\ index \in Seq(Nat) /\ data \in Seq(Cell) /\ exists \in BOOLEAN
      /\ handle \in [Procs -> Handle] /\ op \in [Procs -> Call]
      /\ clock \in 0 .. MaxTime
      /\ \A k \in DOMAIN acked : k \in Nat /\ acked[k] \in Payloads
      /\ \A x \in Procs : InCall(op[x], handle[x])
  BY TypeInvFacts
<1> USE <1>0
<1> DEFINE list == IndexQuery(handle[p].header, q)
           pc == IF list.null \/ list.offs = <<>> THEN "done" ELSE "read"
           ret == IF list.null THEN "error" ELSE "ok"
           c == [Idle EXCEPT !.pc = pc, !.call = q.by, !.ret = ret, !.id = q.first,
                             !.offs = list.offs, !.real_count = Len(list.offs)]
<1>1. p \in Procs /\ handle[p] \in Handle /\ handle[p].header \in Header
  BY WriterProc DEF Handle
<1>2. list.null \in BOOLEAN /\ list.offs \in Seq(Nat)
  BY <1>1, IndexQueryType
<1>3. op' = [op EXCEPT ![p] = c] /\ handle' = [handle EXCEPT ![p] = handle[p]]
  BY DEF QueryIndex
<1>4. c \in Call /\ InCall(c, handle[p])
  <2>1. q.by \in {"id", "count", "time"} /\ q.first \in Nat
    BY QueriesAssumption
  <2>2. pc \in {"done", "read"} /\ (pc = "read" => list.offs # <<>>)
    BY <1>2
  <2>3. ret \in {"ok", "error"} /\ Len(list.offs) \in Nat
    BY <1>2
  <2> HIDE DEF list, pc, ret
  <2>4. /\ c \in Call /\ c.pc = pc /\ c.offs = list.offs
    BY <1>2, <2>1, <2>2, <2>3, IdleType DEF Call
  <2> HIDE DEF c
  <2> QED
    BY <2>2, <2>4 DEF InCall
<1> HIDE DEF c
<1>5. /\ op' \in [Procs -> Call]
      /\ handle' \in [Procs -> Handle]
      /\ \A r \in Procs : InCall(op'[r], handle'[r])
  BY <1>1, <1>3, <1>4, OneProcess
<1> QED
  BY <1>5, TypeInvNext DEF QueryIndex

LEMMA ReadNextTyped ==
  ASSUME TypeInv, NEW p \in Readers, ReadNext(p)
  PROVE  TypeInv'
<1>0. /\ index \in Seq(Nat) /\ data \in Seq(Cell) /\ exists \in BOOLEAN
      /\ handle \in [Procs -> Handle] /\ op \in [Procs -> Call]
      /\ clock \in 0 .. MaxTime
      /\ \A k \in DOMAIN acked : k \in Nat /\ acked[k] \in Payloads
      /\ \A x \in Procs : InCall(op[x], handle[x])
  BY TypeInvFacts
<1> USE <1>0
<1> DEFINE r == ReadRecord(data, handle[p].dpos, op[p].offs[1])
           rest == IF r.ok THEN Tail(op[p].offs) ELSE <<>>
           got == IF r.ok THEN Append(op[p].got, r.payload) ELSE op[p].got
           pc == IF rest = <<>> THEN "done" ELSE "read"
           c == [op[p] EXCEPT !.offs = rest, !.got = got, !.pc = pc]
           h == [handle[p] EXCEPT !.dpos = r.dpos]
<1>1. p \in Procs /\ handle[p] \in Handle /\ handle[p].dpos \in Nat /\ op[p] \in Call
  BY WriterProc DEF Handle
<1>2. op[p].offs \in Seq(Nat) /\ op[p].offs # <<>> /\ op[p].got \in Seq(Seq(Cell))
  BY <1>1 DEF ReadNext, InCall, Call
<1>3. op[p].offs[1] \in Nat /\ Tail(op[p].offs) \in Seq(Nat)
  BY <1>2
<1>4. r.ok \in BOOLEAN /\ r.payload \in Seq(Cell) /\ r.dpos \in Nat
  BY <1>1, <1>3, ReadRecordType
<1>5. op' = [op EXCEPT ![p] = c] /\ handle' = [handle EXCEPT ![p] = h]
  BY DEF ReadNext
<1> HIDE DEF r
<1>6. rest \in Seq(Nat)
  <2>1. <<>> \in Seq(Nat)
    OBVIOUS
  <2> QED
    BY <1>3, <2>1
<1>7. got \in Seq(Seq(Cell))
  <2>1. Append(op[p].got, r.payload) \in Seq(Seq(Cell))
    BY <1>2, <1>4
  <2> QED
    BY <1>2, <2>1
<1>8. c \in Call /\ InCall(c, h)
  <2>1. pc \in {"done", "read"} /\ (pc = "read" => rest # <<>>)
    OBVIOUS
  <2> HIDE DEF rest, got, pc
  <2>2. c \in Call /\ c.pc = pc /\ c.offs = rest
    BY <1>1, <1>6, <1>7, <2>1 DEF Call
  <2> HIDE DEF c
  <2> QED
    BY <2>1, <2>2 DEF InCall
<1>9. h \in Handle
  BY <1>1, <1>4 DEF Handle
<1> HIDE DEF c, h
<1>10. /\ op' \in [Procs -> Call]
       /\ handle' \in [Procs -> Handle]
       /\ \A q \in Procs : InCall(op'[q], handle'[q])
  BY <1>1, <1>5, <1>8, <1>9, OneProcess
<1> QED
  BY <1>10, TypeInvNext DEF ReadNext

LEMMA TypeInvStep == TypeInv /\ [Next]_vars => TypeInv'
<1> SUFFICES ASSUME TypeInv, [Next]_vars PROVE TypeInv'
  OBVIOUS
<1>1. ASSUME WriterStep PROVE TypeInv'
  <2>1. ASSUME NEW id \in 0 .. handle[Writer].header[COUNT], NEW p \in Payloads, Update(id, p)
        PROVE TypeInv'
    BY <2>1, UpdateTyped
  <2> QED
    BY <1>1, <2>1, CreateTyped, LastStepTyped, DestroyTyped, AppendDataTyped,
       AppendEntryTyped, AppendHeaderTyped DEF WriterStep
<1>2. ASSUME NEW p \in Readers, ReaderStep(p) PROVE TypeInv'
  BY <1>2, QueryIndexTyped, ReadNextTyped, ProcessDiesTyped DEF ReaderStep, QueryAborts
<1>3. CASE UNCHANGED vars
  BY <1>3, TypeInvFacts, TypeInvNext DEF vars
<1> QED
  BY <1>1, <1>2, <1>3, OpenCloseTyped, ProcessDiesTyped DEF Next, Crash

LEMMA TypeInvariant == Spec => []TypeInv
BY TypeInvInit, TypeInvStep, PTL DEF Spec

\* In every reachable state, for any processes, payloads, queries and
\* failures, the files are made of words and cells, and every handle and call
\* is well formed (all of sea_block.c, sea_block_index.c and sea_block_data.c).
THEOREM Typing == Spec => []TypeOK
<1>1. TypeInv => TypeOK
  BY DEF TypeInv
<1> QED
  BY <1>1, TypeInvariant, PTL
-----------------------------------------------------------------------------
(* What the proofs below say of the writer's place in its calls.           *)

WriterIn(pcs) == op[Writer].pc \in pcs
Present == Len(index) >= HEADER_SIZE /\ ~WriterIn({"destroy_index"})

\* Whether there is an entry the header on disk does not count yet.
Uncounted == IF WriterIn({"header"}) THEN 1 ELSE 0

\* A record written at the end of the data file is held there.
LEMMA RecordAppended ==
  ASSUME NEW f \in Seq(Cell), NEW p \in Seq(Cell)
  PROVE  HoldsRecord(WriteAt(f, Len(f), Record(p), HoleCell), Len(f), p)
<1>1. Record(p) \in Seq(Cell) /\ Len(f) \in Nat
  BY RecordProperties
<1>2. /\ Len(WriteAt(f, Len(f), Record(p), HoleCell)) = Len(f) + Len(Record(p))
      /\ \A i \in 1 .. Len(Record(p)) : WriteAt(f, Len(f), Record(p), HoleCell)[Len(f) + i] = Record(p)[i]
  BY <1>1, DataAppend
<1>3. Len(f) + Len(Record(p)) <= Len(f) + Len(Record(p))
  BY <1>1
<1> QED
  BY <1>2, <1>3 DEF HoldsRecord

\* What a handle opened now caches is the count and the limit on disk.
LEMMA CachedCount ==
  ASSUME index \in Seq(Nat), Len(index) >= HEADER_SIZE
  PROVE  CachedHeader[COUNT] = DiskCount /\ CachedHeader[MAX_COUNT] = index[2]
<1>1. Len(index) >= 5 /\ Len(index) \in Nat
  BY DEF HEADER_SIZE
<1>2. 0 + 1 = 1 /\ (IF 0 + 5 > Len(index) THEN Len(index) ELSE 0 + 5) = 5
  BY <1>1
<1>3. CachedHeader = SubSeq(index, 1, 5)
  <2>1. CachedHeader = SubSeq(index, 0 + 1, IF 0 + 5 > Len(index) THEN Len(index) ELSE 0 + 5)
    BY DEF CachedHeader, ReadAt, HEADER_SIZE
  <2> QED
    BY <1>2, <2>1
<1>4. SubSeq(index, 1, 5)[5] = index[5] /\ SubSeq(index, 1, 5)[2] = index[2]
  BY <1>1
<1> QED
  BY <1>3, <1>4 DEF DiskCount, COUNT, MAX_COUNT

-----------------------------------------------------------------------------
(* No record id is acknowledged twice.                                     *)

Counted == IF Len(index) >= HEADER_SIZE THEN DiskCount ELSE 0

\* The acknowledged ids are below the count on disk, from which every new
\* handle goes on, and nothing is acknowledged of a block that is destroyed.
IdsCounted ==
  /\ \A id \in DOMAIN acked : id < Counted
  /\ ~exists \/ WriterIn({"destroy_index"}) => DOMAIN acked = {}

\* The writer's cached count may be ahead of the one on disk, but not behind;
\* the append whose entry is written has taken the last id it counts.
HandleAhead ==
  /\ handle[Writer].open =>
       /\ exists /\ Len(index) >= HEADER_SIZE /\ ~WriterIn({"create_data", "destroy_index"})
       /\ handle[Writer].header[COUNT] >= DiskCount + Uncounted
  /\ WriterIn({"entry", "header"}) => handle[Writer].open
  /\ WriterIn({"header"}) => op[Writer].id + 1 = handle[Writer].header[COUNT]

IdInv == TypeInv /\ IdsCounted /\ HandleAhead

LEMMA CountedType ==
  ASSUME TypeInv
  PROVE  /\ Counted \in Nat /\ Len(index) \in Nat
         /\ Len(index) >= HEADER_SIZE => DiskCount \in Nat /\ Counted = DiskCount /\ DiskCount = index[5]
         /\ HEADER_SIZE = 5 /\ COUNT = 5
<1>1. index \in Seq(Nat) /\ HEADER_SIZE = 5 /\ COUNT = 5
  BY TypeInvFacts, EntryArithmetic
<1>2. Len(index) >= HEADER_SIZE => DiskCount \in Nat
  BY <1>1 DEF DiskCount
<1> QED
  BY <1>1, <1>2 DEF Counted, DiskCount

\* The types the writer's steps rest on.
LEMMA WriterTypes ==
  ASSUME TypeInv
  PROVE  /\ index \in Seq(Nat) /\ data \in Seq(Cell) /\ Len(index) \in Nat /\ Len(data) \in Nat
         /\ op \in [Procs -> Call] /\ handle \in [Procs -> Handle] /\ Writer \in Procs
         /\ op[Writer] \in Call /\ handle[Writer] \in Handle /\ handle[Writer].header \in Header
         /\ handle[Writer].header[COUNT] \in Nat
         /\ Len(index) >= HEADER_SIZE => DiskCount \in Nat /\ DiskCount = index[5]
         /\ HEADER_SIZE = 5 /\ COUNT = 5
<1>1. /\ index \in Seq(Nat) /\ data \in Seq(Cell)
      /\ op \in [Procs -> Call] /\ handle \in [Procs -> Handle] /\ Writer \in Procs
  BY TypeInvFacts, WriterProc
<1>2. op[Writer] \in Call /\ handle[Writer] \in Handle /\ handle[Writer].header \in Header
  BY <1>1 DEF Handle
<1>3. handle[Writer].header[COUNT] \in Nat
  BY <1>2 DEF Header, HEADER_SIZE, COUNT
<1>4. Len(index) \in Nat /\ Len(data) \in Nat
  BY <1>1
<1>5. /\ HEADER_SIZE = 5 /\ COUNT = 5
      /\ Len(index) >= HEADER_SIZE => DiskCount \in Nat /\ DiskCount = index[5]
  BY CountedType
<1> QED
  BY <1>1, <1>2, <1>3, <1>4, <1>5

\* The writer goes on with a call that is not in the middle of an append, on the
\* same files.
LEMMA IdQuiet ==
  ASSUME IdInv, TypeInv', index' = index, exists' = exists,
         DOMAIN acked' \subseteq DOMAIN acked,
         ~WriterIn({"header", "create_data", "destroy_index"}),
         op'[Writer].pc \notin {"header", "create_data", "destroy_index"},
         op'[Writer].pc = "entry" => handle'[Writer].open,
         handle'[Writer].open => /\ exists /\ Len(index) >= HEADER_SIZE
                                 /\ handle'[Writer].header[COUNT] >= DiskCount
  PROVE  IdInv'
<1>1. Counted' = Counted /\ DiskCount' = DiskCount /\ Uncounted' = 0
  BY DEF Counted, DiskCount, Uncounted, WriterIn
<1>2. IdsCounted'
  BY <1>1 DEF IdInv, IdsCounted, WriterIn
<1>3. handle'[Writer].open => handle'[Writer].header[COUNT] >= DiskCount' + Uncounted'
  <2> SUFFICES ASSUME handle'[Writer].open
               PROVE  handle'[Writer].header[COUNT] >= DiskCount + 0
    BY <1>1
  <2>1. DiskCount \in Nat
    BY CountedType DEF IdInv
  <2> QED
    BY <2>1
<1>4. HandleAhead'
  BY <1>3 DEF HandleAhead, WriterIn
<1> QED
  BY <1>2, <1>4 DEF IdInv

LEMMA IdOther ==
  ASSUME IdInv, TypeInv', index' = index, exists' = exists, acked' = acked,
         op'[Writer] = op[Writer],
         handle'[Writer].open = handle[Writer].open, handle'[Writer].header = handle[Writer].header
  PROVE  IdInv'
BY DEF IdInv, IdsCounted, HandleAhead, Counted, DiskCount, Uncounted, WriterIn

\* What the handle counts while its owner is between calls.
LEMMA IdIdle ==
  ASSUME IdInv, ~WriterIn({"header"}), handle[Writer].open
  PROVE  exists /\ Len(index) >= HEADER_SIZE /\ handle[Writer].header[COUNT] >= DiskCount
<1>1. /\ exists /\ Len(index) >= HEADER_SIZE
      /\ handle[Writer].header[COUNT] >= DiskCount + Uncounted /\ Uncounted = 0
  BY DEF IdInv, HandleAhead, Uncounted
<1>2. DiskCount \in Nat
  BY <1>1, CountedType DEF IdInv
<1> QED
  BY <1>1, <1>2

\* The writer's next place in its calls.
LEMMA ReturnPc ==
  ASSUME op \in [Procs -> Call], NEW call, NEW ret, Return(Writer, call, ret)
  PROVE  op'[Writer].pc = "done" /\ op'[Writer].ret = ret /\ op'[Writer].call = call
<1>1. [Idle EXCEPT !.pc = "done", !.call = call, !.ret = ret].pc = "done"
      /\ [Idle EXCEPT !.pc = "done", !.call = call, !.ret = ret].ret = ret
      /\ [Idle EXCEPT !.pc = "done", !.call = call, !.ret = ret].call = call
  BY DEF Idle
<1> QED
  BY <1>1, WriterProc DEF Return

LEMMA IdCreates ==
  ASSUME IdInv, TypeInv', "recreate" \notin Events, NEW ts \in Times, CreateIndex(ts)
  PROVE  IdInv'
<1>1. ~CanOpen /\ ~WriterIn({"destroy_index"}) /\ ~handle[Writer].open
  BY DEF CreateIndex, Ready, WriterIn
<1>2. DOMAIN acked = {}
  <2>1. CASE ~exists
    BY <2>1 DEF IdInv, IdsCounted
  <2>2. CASE exists
    <3>1. Counted = 0
      BY <1>1, <2>2 DEF CanOpen, Counted
    <3>2. ASSUME NEW id \in DOMAIN acked PROVE FALSE
      <4>1. id < Counted
        BY <3>2 DEF IdInv, IdsCounted
      <4>2. id \in Nat
        BY <3>2, TypeInvFacts DEF IdInv
      <4> QED
        BY <3>1, <4>1, <4>2
    <3> QED
      BY <3>2
  <2> QED
    BY <2>1, <2>2
<1>3. op'[Writer].pc = "create_data" /\ handle' = handle /\ acked' = acked
  <2>1. [Idle EXCEPT !.pc = "create_data", !.call = "create"].pc = "create_data"
    BY DEF Idle
  <2> QED
    BY <2>1, WriterProc, TypeInvFacts DEF IdInv, CreateIndex
<1> QED
  BY <1>1, <1>2, <1>3 DEF IdInv, IdsCounted, HandleAhead, WriterIn

LEMMA IdLastStep ==
  ASSUME IdInv, TypeInv', CreateData \/ DestroyIndex
  PROVE  IdInv'
<1>1. op'[Writer].pc = "done" /\ handle' = handle /\ acked' = acked
  BY ReturnPc, TypeInvFacts DEF IdInv, CreateData, DestroyIndex
<1>2. ~handle[Writer].open
  BY DEF IdInv, HandleAhead, CreateData, DestroyIndex, WriterIn
<1>3. CASE CreateData
  BY <1>1, <1>2, <1>3 DEF CreateData, IdInv, IdsCounted, HandleAhead, Counted, DiskCount, WriterIn
<1>4. CASE DestroyIndex
  <2>1. DOMAIN acked = {}
    BY <1>4 DEF DestroyIndex, IdInv, IdsCounted, WriterIn
  <2> QED
    BY <1>1, <1>2, <2>1 DEF IdInv, IdsCounted, HandleAhead, WriterIn
<1> QED
  BY <1>3, <1>4

LEMMA IdDestroys ==
  ASSUME IdInv, TypeInv', DestroyData
  PROVE  IdInv'
<1>1. ~handle'[Writer].open /\ DOMAIN acked' = {} /\ op'[Writer].pc = "destroy_index"
  <2>1. DOMAIN <<>> = {}
    OBVIOUS
  <2>2. [Idle EXCEPT !.pc = "destroy_index", !.call = "destroy"].pc = "destroy_index"
    BY DEF Idle
  <2> QED
    BY <2>1, <2>2, WriterProc, TypeInvFacts DEF IdInv, DestroyData
<1> QED
  BY <1>1 DEF IdInv, IdsCounted, HandleAhead, WriterIn

LEMMA IdAppendsData ==
  ASSUME IdInv, TypeInv', NEW p \in Payloads, AppendData(p)
  PROVE  IdInv'
<1>1. /\ ~WriterIn({"header", "create_data", "destroy_index"}) /\ handle[Writer].open
      /\ index' = index /\ exists' = exists /\ acked' = acked
  BY DEF AppendData, Ready, WriterIn
<1>2. op \in [Procs -> Call] /\ handle \in [Procs -> Handle] /\ Writer \in Procs
  BY TypeInvFacts, WriterProc DEF IdInv
<1>3. op'[Writer].pc \in {"entry", "done"}
  <2>1. [Idle EXCEPT !.pc = "entry", !.call = "append", !.payload = p, !.offs = <<End(data)>>].pc = "entry"
    BY DEF Idle
  <2> QED
    BY <1>2, <2>1, ReturnPc DEF AppendData
<1>4. handle'[Writer].open /\ handle'[Writer].header = handle[Writer].header
  BY <1>1, <1>2 DEF AppendData, Handle
<1>5. exists /\ Len(index) >= HEADER_SIZE /\ handle[Writer].header[COUNT] >= DiskCount
  BY <1>1, IdIdle DEF WriterIn
<1> QED
  BY <1>1, <1>3, <1>4, <1>5, IdQuiet

LEMMA IdAppendsEntry ==
  ASSUME IdInv, TypeInv', NEW ts \in Times, AppendEntry(ts)
  PROVE  IdInv'
<1> DEFINE header == handle[Writer].header
           n == header[COUNT]
           entry == Entry(ts, op[Writer].offs[1])
<1>1. /\ op[Writer].pc = "entry" /\ op[Writer] \in Call /\ op \in [Procs -> Call]
      /\ handle \in [Procs -> Handle] /\ Writer \in Procs /\ handle[Writer] \in Handle
      /\ index \in Seq(Nat) /\ handle[Writer].open /\ InCall(op[Writer], handle[Writer])
  BY TypeInvFacts, WriterProc DEF IdInv, HandleAhead, WriterIn, AppendEntry
<1>2. exists /\ Len(index) >= HEADER_SIZE /\ n >= DiskCount
  BY <1>1, IdIdle DEF WriterIn
<1>3. HEADER_SIZE = 5 /\ COUNT = 5 /\ DiskCount \in Nat /\ Len(index) \in Nat /\ DiskCount = index[5]
      /\ Counted = DiskCount
  BY <1>2, CountedType DEF IdInv
<1>4. n \in Nat
  BY <1>1, <1>3 DEF Handle, Header
<1>5. handle'[Writer].open /\ handle'[Writer].header[COUNT] = n + 1
  <2> DEFINE m == n + 1
             header1 == [header EXCEPT ![COUNT] = m, ![STOP] = ts]
  <2>1. handle'[Writer] = [handle[Writer] EXCEPT !.header = header1]
    BY <1>1 DEF AppendEntry
  <2>2. header \in Header
    BY <1>1 DEF Handle
  <2> HIDE DEF header, m
  <2>3. header1[COUNT] = m
    BY <2>2 DEF Header, HEADER_SIZE, COUNT, STOP
  <2> HIDE DEF header1
  <2>4. handle'[Writer].header = header1 /\ handle'[Writer].open = handle[Writer].open
    BY <1>1, <2>1 DEF Handle
  <2> QED
    BY <1>1, <2>3, <2>4 DEF m
<1>6. Len(index') >= 5 /\ index'[5] = index[5]
  <2>1. ts \in Nat /\ op[Writer].offs \in Seq(Nat) /\ op[Writer].offs # <<>>
    BY <1>1, TypeInvFacts, TimesType DEF IdInv, InCall, Call
  <2>2. op[Writer].offs[1] \in Nat
    BY <2>1
  <2>3. entry \in Seq(Nat)
    BY <2>1, <2>2, EntryType
  <2>4. PICK w \in {entry} \cup ShortWrites(entry) : index' = WriteAt(index, Len(index), w, 0)
    BY DEF AppendEntry, End
  <2>5. w \in Seq(Nat)
    BY <2>3, <2>4, WrittenProperties
  <2>6. Len(index') = Len(index) + Len(w) /\ \A i \in 1 .. Len(index) : index'[i] = index[i]
    BY <1>1, <2>4, <2>5, IndexAppend
  <2>7. Len(w) \in Nat
    BY <2>5
  <2> QED
    BY <1>2, <1>3, <2>6, <2>7
<1>7. Counted' = Counted /\ DiskCount' = DiskCount /\ Len(index') >= HEADER_SIZE
  BY <1>2, <1>3, <1>6 DEF Counted, DiskCount
<1>8. \/ op'[Writer].pc = "header" /\ op'[Writer].id = n
      \/ op'[Writer].pc = "done"
  <2>1. CASE Return(Writer, "append", "error")
    BY <1>1, <2>1, ReturnPc
  <2>2. CASE op' = [op EXCEPT ![Writer].pc = "header", ![Writer].id = n,
                       ![Writer].overlimit = OverLimit(handle'[Writer].header)]
    BY <1>1, <2>2 DEF Call
  <2> QED
    BY <2>1, <2>2 DEF AppendEntry
<1>9. exists' = exists /\ acked' = acked
  BY DEF AppendEntry
<1>10. IdsCounted'
  BY <1>1, <1>2, <1>7, <1>8, <1>9 DEF IdInv, IdsCounted, WriterIn
<1>11. HandleAhead'
  <2>1. Uncounted' \in {0, 1}
    BY DEF Uncounted
  <2> DEFINE u == Uncounted'
             d == DiskCount
  <2>2. n + 1 >= d + u
    <3>1. u \in {0, 1} /\ d \in Nat /\ n \in Nat /\ n >= d
      BY <1>2, <1>3, <1>4, <2>1
    <3> HIDE DEF u, d, n
    <3> QED
      BY <3>1
  <2>3. handle'[Writer].header[COUNT] >= DiskCount' + Uncounted'
    BY <1>5, <1>7, <2>2
  <2> HIDE DEF n
  <2> QED
    BY <1>2, <1>5, <1>7, <1>8, <1>9, <2>3 DEF HandleAhead, WriterIn
<1> QED
  BY <1>10, <1>11 DEF IdInv

LEMMA IdAppendsHeader ==
  ASSUME IdInv, TypeInv', AppendHeader
  PROVE  IdInv'
<1> DEFINE header == handle[Writer].header
           n == header[COUNT]
           id == op[Writer].id
<1>1. /\ op[Writer].pc = "header" /\ op[Writer] \in Call /\ op \in [Procs -> Call]
      /\ handle \in [Procs -> Handle] /\ Writer \in Procs /\ handle[Writer] \in Handle
      /\ index \in Seq(Nat) /\ handle[Writer].open /\ header \in Header
  BY TypeInvFacts, WriterProc DEF IdInv, HandleAhead, WriterIn, AppendHeader, Handle
<1>2. /\ exists /\ Len(index) >= HEADER_SIZE /\ n >= DiskCount + 1 /\ id + 1 = n
  BY <1>1 DEF IdInv, HandleAhead, WriterIn, Uncounted
<1>3. HEADER_SIZE = 5 /\ COUNT = 5 /\ DiskCount \in Nat /\ Len(index) \in Nat /\ DiskCount = index[5]
      /\ Counted = DiskCount
  BY <1>2, CountedType DEF IdInv
<1>4. n \in Nat /\ id \in Nat /\ header \in Seq(Nat) /\ Len(header) = 5
  BY <1>1, <1>3, HeaderSeq DEF Header, Call
<1>5. exists' = exists
  BY DEF AppendHeader
<1>6. CASE /\ index' = WriteAt(index, 0, header, 0)
           /\ op' = [op EXCEPT ![Writer].pc = "done", ![Writer].ret = "ok", ![Writer].offs = <<>>]
           /\ acked' = [i \in DOMAIN acked \cup {id} |-> IF i = id THEN op[Writer].payload ELSE acked[i]]
           /\ handle' = handle
  <2>1. op'[Writer].pc = "done"
    BY <1>1, <1>6 DEF Call
  <2>2. Len(index') = Len(index) /\ index'[5] = n
    <3>1. /\ Len(index') = IF Len(header) > Len(index) THEN Len(header) ELSE Len(index)
          /\ \A i \in 1 .. Len(header) : index'[i] = header[i]
      BY <1>1, <1>4, <1>6, IndexHeaderWrite
    <3> QED
      BY <1>2, <1>3, <1>4, <3>1
  <2>3. Counted' = n /\ DiskCount' = n /\ Uncounted' = 0
    BY <1>2, <1>3, <2>1, <2>2 DEF Counted, DiskCount, Uncounted, WriterIn
  <2>4. ASSUME NEW i \in DOMAIN acked' PROVE i < n
    <3>1. CASE i = id
      BY <1>2, <1>4, <3>1
    <3>2. CASE i # id
      <4>1. i \in DOMAIN acked
        BY <1>6, <3>2
      <4>2. i \in Nat /\ i < DiskCount
        BY <1>3, <4>1, TypeInvFacts DEF IdInv, IdsCounted
      <4> HIDE DEF n
      <4> QED
        BY <1>2, <1>3, <1>4, <4>2
    <3> QED
      BY <3>1, <3>2
  <2>5. IdsCounted'
    BY <1>2, <1>5, <2>1, <2>3, <2>4 DEF IdsCounted, WriterIn
  <2>6. HandleAhead'
    <3>1. n >= n + 0
      BY <1>4
    <3> QED
      BY <1>2, <1>5, <1>6, <2>1, <2>2, <2>3, <3>1 DEF HandleAhead, WriterIn
  <2> QED
    BY <2>5, <2>6 DEF IdInv
<1>7. CASE /\ handle' = [handle EXCEPT ![Writer].header = [header EXCEPT ![COUNT] = n - 1]]
           /\ \E w \in ShortWrites(header) :
                index' = Truncate(WriteAt(index, 0, w, 0), EntryAt(n - 1), 0)
           /\ Return(Writer, "append", "error")
           /\ acked' = acked
  <2>1. n - 1 = id
    <3> HIDE DEF n, id
    <3> QED
      BY <1>2, <1>4
  <2>2. op'[Writer].pc = "done"
    BY <1>1, <1>7, ReturnPc
  <2>3. Len(index') >= 5 /\ index'[5] = index[5]
    <3>1. PICK w \in ShortWrites(header) : index' = Truncate(WriteAt(index, 0, w, 0), EntryAt(id), 0)
      BY <1>7, <2>1
    <3> DEFINE f == WriteAt(index, 0, w, 0)
    <3>2. w \in Seq(Nat) /\ Len(w) < 5
      <4>1. w \in Seq(Nat) /\ Len(w) < Len(header)
        BY <1>4, <3>1, ShortWritesProperties
      <4> QED
        BY <1>4, <4>1
    <3>3. f \in Seq(Nat) /\ Len(f) = Len(index) /\ f[5] = index[5]
      <4>1. /\ f \in Seq(Nat)
            /\ Len(f) = IF Len(w) > Len(index) THEN Len(w) ELSE Len(index)
            /\ \A i \in 1 .. Len(index) : i > Len(w) => f[i] = index[i]
        BY <1>1, <3>2, IndexHeaderWrite
      <4> HIDE DEF f
      <4> QED
        BY <1>2, <1>3, <3>2, <4>1
    <3> HIDE DEF f
    <3>4. EntryAt(id) \in Nat /\ EntryAt(id) >= 5
      <4>1. EntryAt(id) = 5 + 2 * id
        BY <1>4, EntryArithmetic
      <4> QED
        BY <1>4, <4>1
    <3> DEFINE k == EntryAt(id)
    <3>5. k \in Nat /\ k >= 5 /\ index' = Truncate(f, k, 0)
      BY <3>1, <3>4 DEF f
    <3> HIDE DEF k
    <3>6. Len(index') = k /\ \A i \in 1 .. Len(f) : i <= k => index'[i] = f[i]
      BY <3>3, <3>5, IndexTruncate
    <3> QED
      BY <1>2, <1>3, <3>3, <3>5, <3>6
  <2>4. Counted' = Counted /\ DiskCount' = DiskCount /\ Uncounted' = 0 /\ Len(index') >= HEADER_SIZE
    BY <1>2, <1>3, <2>2, <2>3 DEF Counted, DiskCount, Uncounted, WriterIn
  <2>5. handle'[Writer].open /\ handle'[Writer].header[COUNT] = n - 1
    <3> DEFINE header1 == [header EXCEPT ![COUNT] = n - 1]
    <3>1. handle'[Writer] = [handle[Writer] EXCEPT !.header = header1]
      BY <1>1, <1>7
    <3>2. header1[COUNT] = n - 1
      BY <1>1, <1>3 DEF Header
    <3> HIDE DEF header1
    <3> QED
      BY <1>1, <3>1, <3>2 DEF Handle
  <2>6. n - 1 >= DiskCount + 0
    <3> HIDE DEF n
    <3> QED
      BY <1>2, <1>3, <1>4
  <2>7. IdsCounted'
    BY <1>2, <1>5, <1>7, <2>2, <2>4 DEF IdInv, IdsCounted, WriterIn
  <2>8. HandleAhead'
    BY <1>2, <1>5, <2>2, <2>4, <2>5, <2>6 DEF HandleAhead, WriterIn
  <2> QED
    BY <2>7, <2>8 DEF IdInv
<1> QED
  BY <1>6, <1>7 DEF AppendHeader, Rollback, RollbackSize

LEMMA IdUpdates ==
  ASSUME IdInv, TypeInv', NEW id \in Nat, NEW p \in Payloads, Update(id, p)
  PROVE  IdInv'
<1>1. /\ ~WriterIn({"header", "create_data", "destroy_index"}) /\ handle[Writer].open
      /\ index' = index /\ exists' = exists /\ DOMAIN acked' \subseteq DOMAIN acked
  BY DEF Update, Ready, WriterIn
<1>2. op \in [Procs -> Call] /\ handle \in [Procs -> Handle] /\ Writer \in Procs
  BY TypeInvFacts, WriterProc DEF IdInv
<1>3. op'[Writer].pc = "done"
  BY <1>2, ReturnPc DEF Update
<1>4. handle'[Writer].open /\ handle'[Writer].header = handle[Writer].header
  BY <1>1, <1>2 DEF Update, Handle
<1>5. exists /\ Len(index) >= HEADER_SIZE /\ handle[Writer].header[COUNT] >= DiskCount
  BY <1>1, IdIdle DEF WriterIn
<1> QED
  BY <1>1, <1>3, <1>4, <1>5, IdQuiet

LEMMA IdOpensCloses ==
  ASSUME IdInv, TypeInv', NEW p \in Procs, Open(p) \/ Close(p)
  PROVE  IdInv'
<1>1. /\ index' = index /\ exists' = exists /\ acked' = acked /\ index \in Seq(Nat)
      /\ op \in [Procs -> Call] /\ handle \in [Procs -> Handle] /\ Writer \in Procs
  BY TypeInvFacts, WriterProc DEF IdInv, Open, Close
<1>2. CASE p # Writer
  <2>1. op'[Writer] = op[Writer] /\ handle'[Writer] = handle[Writer]
    BY <1>1, <1>2 DEF Open, Close
  <2> QED
    BY <1>1, <2>1, IdOther
<1>3. CASE p = Writer
  <2>1. ~WriterIn({"entry", "header", "create_data", "destroy_index"}) /\ op'[Writer].pc = "idle"
    BY <1>1, <1>3 DEF Open, Close, Ready, WriterIn, Idle
  <2>2. handle'[Writer].open => /\ exists /\ Len(index) >= HEADER_SIZE
                                /\ handle'[Writer].header[COUNT] >= DiskCount
    <3>1. CASE Open(p)
      <4>1. exists /\ Len(index) >= HEADER_SIZE /\ handle'[Writer].header[COUNT] = DiskCount
        BY <1>1, <1>3, <3>1, CachedCount DEF Open, CanOpen
      <4>2. DiskCount \in Nat
        BY <4>1, CountedType DEF IdInv
      <4> QED
        BY <4>1, <4>2
    <3>2. CASE Close(p)
      BY <1>1, <1>3, <3>2 DEF Close, Closed
    <3> QED
      BY <3>1, <3>2
  <2> QED
    BY <1>1, <2>1, <2>2, IdQuiet DEF WriterIn
<1> QED
  BY <1>2, <1>3

\* A reader reads the index or a record, or its query aborts the process.
Reads(p) == ReadNext(p) \/ \E q \in Queries : QueryIndex(p, q)

LEMMA ReaderSteps ==
  ASSUME NEW p \in Readers, ReaderStep(p)
  PROVE  Reads(p) \/ ("past_end" \in Events /\ ProcessDies)
BY DEF ReaderStep, Reads, QueryAborts

\* A reader's step changes only where its own call stands.
LEMMA ReaderChanges ==
  ASSUME TypeInv, NEW p \in Readers, Reads(p)
  PROVE  /\ UNCHANGED <<index, data, exists, clock, acked>>
         /\ op[p].pc \in {"idle", "done", "read"} /\ op'[p].pc \in {"done", "read"}
         /\ \/ op'[p].call \in {"id", "count", "time"}
            \/ op[p].pc = "read" /\ op'[p].call = op[p].call
         /\ handle'[p].open = handle[p].open /\ handle'[p].header = handle[p].header
         /\ \A q \in Procs \ {p} : op'[q] = op[q] /\ handle'[q] = handle[q]
<1>1. p \in Procs /\ op \in [Procs -> Call] /\ handle \in [Procs -> Handle]
      /\ op[p] \in Call /\ handle[p] \in Handle
  BY TypeInvFacts, WriterProc
<1>2. CASE ReadNext(p)
  <2> DEFINE r == ReadRecord(data, handle[p].dpos, op[p].offs[1])
             rest == IF r.ok THEN Tail(op[p].offs) ELSE <<>>
             got == IF r.ok THEN Append(op[p].got, r.payload) ELSE op[p].got
             pc == IF rest = <<>> THEN "done" ELSE "read"
             c == [op[p] EXCEPT !.offs = rest, !.got = got, !.pc = pc]
             h == [handle[p] EXCEPT !.dpos = r.dpos]
  <2>1. op' = [op EXCEPT ![p] = c] /\ handle' = [handle EXCEPT ![p] = h]
    BY <1>2 DEF ReadNext
  <2>2. pc \in {"done", "read"}
    OBVIOUS
  <2> HIDE DEF r, rest, got, pc
  <2>3. c.pc = pc /\ c.call = op[p].call /\ h.open = handle[p].open /\ h.header = handle[p].header
    BY <1>1 DEF Call, Handle
  <2> HIDE DEF c, h
  <2> QED
    BY <1>1, <1>2, <2>1, <2>2, <2>3 DEF ReadNext
<1>3. ASSUME NEW q \in Queries, QueryIndex(p, q) PROVE
         /\ UNCHANGED <<index, data, exists, clock, acked>>
         /\ op[p].pc \in {"idle", "done", "read"} /\ op'[p].pc \in {"done", "read"}
         /\ op'[p].call \in {"id", "count", "time"}
         /\ handle' = handle
         /\ \A r \in Procs \ {p} : op'[r] = op[r]
  <2> DEFINE list == IndexQuery(handle[p].header, q)
             c == [Idle EXCEPT !.pc = IF list.null \/ list.offs = <<>> THEN "done" ELSE "read",
                     !.call = q.by, !.ret = IF list.null THEN "error" ELSE "ok", !.id = q.first,
                     !.offs = list.offs, !.real_count = Len(list.offs)]
  <2>1. c.pc \in {"done", "read"} /\ c.call = q.by
    BY DEF Idle
  <2>2. q.by \in {"id", "count", "time"}
    BY QueriesAssumption
  <2>3. op' = [op EXCEPT ![p] = c]
    BY <1>3 DEF QueryIndex
  <2> HIDE DEF c
  <2> QED
    BY <1>1, <1>3, <2>1, <2>2, <2>3 DEF QueryIndex, Ready
<1> QED
  BY <1>2, <1>3 DEF Reads

LEMMA IdReads ==
  ASSUME IdInv, TypeInv', NEW p \in Readers, Reads(p)
  PROVE  IdInv'
<1>1. /\ UNCHANGED <<index, data, exists, acked>>
      /\ op[p].pc \in {"idle", "done", "read"} /\ op'[p].pc \in {"done", "read"}
      /\ handle'[p].open = handle[p].open /\ handle'[p].header = handle[p].header
      /\ \A q \in Procs \ {p} : op'[q] = op[q] /\ handle'[q] = handle[q]
  BY ReaderChanges DEF IdInv
<1>2. CASE p = Writer
  <2>1. handle[Writer].open => exists /\ Len(index) >= HEADER_SIZE /\ handle[Writer].header[COUNT] >= DiskCount
    BY <1>1, <1>2, IdIdle DEF WriterIn
  <2> QED
    BY <1>1, <1>2, <2>1, IdQuiet DEF WriterIn
<1>3. CASE p # Writer
  BY <1>1, <1>3, WriterProc, IdOther
<1> QED
  BY <1>2, <1>3

LEMMA IdDies ==
  ASSUME IdInv, TypeInv', ProcessDies
  PROVE  IdInv'
<1>1. op'[Writer].pc = "idle" /\ ~handle'[Writer].open
  BY WriterProc DEF ProcessDies, Idle, Closed
<1> QED
  BY <1>1 DEF ProcessDies, IdInv, IdsCounted, HandleAhead, Counted, DiskCount, WriterIn

LEMMA IdInvInit == Init => IdInv
<1> SUFFICES ASSUME Init PROVE IdInv
  OBVIOUS
<1>1. op[Writer].pc = "idle" /\ ~handle[Writer].open /\ DOMAIN acked = {}
  <2>1. DOMAIN <<>> = {}
    OBVIOUS
  <2> QED
    BY <2>1, WriterProc DEF Init, Idle, Closed
<1> QED
  BY <1>1, TypeInvInit DEF IdInv, IdsCounted, HandleAhead, WriterIn

LEMMA IdInvStep ==
  ASSUME "recreate" \notin Events
  PROVE  IdInv /\ [Next]_vars => IdInv'
<1> SUFFICES ASSUME IdInv, [Next]_vars PROVE IdInv'
  OBVIOUS
<1>1. TypeInv'
  BY TypeInvStep DEF IdInv
<1>2. ASSUME WriterStep PROVE IdInv'
  <2>1. handle[Writer].header[COUNT] \in Nat
    BY WriterTypes DEF IdInv
  <2>2. \A id \in 0 .. handle[Writer].header[COUNT] : id \in Nat
    BY <2>1
  <2> QED
    BY <1>1, <1>2, <2>2, IdCreates, IdLastStep, IdDestroys, IdAppendsData, IdAppendsEntry,
       IdAppendsHeader, IdUpdates DEF WriterStep
<1>3. ASSUME NEW p \in Readers, Reads(p) PROVE IdInv'
  BY <1>1, <1>3, IdReads
<1>4. CASE ProcessDies
  BY <1>1, <1>4, IdDies
<1>5. CASE UNCHANGED vars
  BY <1>1, <1>5, IdOther DEF vars
<1> QED
  BY <1>1, <1>2, <1>3, <1>4, <1>5, IdOpensCloses, ReaderSteps DEF Next, Crash

\* The record whose append is under way has an id that nobody was given.
LEMMA NextIdNew ==
  ASSUME IdInv, op[Writer].pc = "header"
  PROVE  op[Writer].id \notin DOMAIN acked
<1>1. /\ handle[Writer].open /\ Len(index) >= HEADER_SIZE
      /\ handle[Writer].header[COUNT] >= DiskCount + 1
      /\ op[Writer].id + 1 = handle[Writer].header[COUNT]
  BY DEF IdInv, HandleAhead, WriterIn, Uncounted
<1>2. DiskCount \in Nat /\ Counted = DiskCount /\ op[Writer].id \in Nat
  <2>1. op[Writer] \in Call
    BY TypeInvFacts, WriterProc DEF IdInv
  <2> QED
    BY <1>1, <2>1, CountedType DEF IdInv, Call
<1>3. ~(op[Writer].id < DiskCount)
  BY <1>1, <1>2
<1> QED
  BY <1>2, <1>3 DEF IdInv, IdsCounted

\* Unless sea_block_create is called on a block that is there, no id is
\* acknowledged twice: whatever writes come back short, however often the
\* process dies between two writes of sea_block_append and a new handle
\* goes on from the count on disk.
THEOREM IdsNotReissued == "recreate" \notin Events => (Spec => IdNeverReissued)
<1> SUFFICES ASSUME "recreate" \notin Events PROVE Spec => IdNeverReissued
  OBVIOUS
<1>1. IdInv /\ [Next]_vars => IdInv'
  BY IdInvStep
<1>2. IdInv => [op[Writer].pc = "header" /\ op'[Writer].ret = "ok" => op[Writer].id \notin DOMAIN acked]_vars
  BY NextIdNew
<1> QED
  BY <1>1, <1>2, IdInvInit, PTL DEF Spec, IdNeverReissued

-----------------------------------------------------------------------------
(* What the calls of the writer do to the files and to its handle, in every *)
(* state.                                                                  *)

\* sea_block_index_create writes the header, or a part of it, over what is there.
LEMMA CreateEffect ==
  ASSUME TypeInv, NEW ts \in Times, CreateIndex(ts)
  PROVE  /\ UNCHANGED <<data, exists, handle, acked>>
         /\ ~handle[Writer].open /\ op[Writer].pc \in {"idle", "done"}
         /\ CanOpen => "recreate" \in Events
         /\ op'[Writer].pc = "create_data"
         /\ Len(index) >= 5 => /\ Len(index') = Len(index) /\ index'[5] \in {0, index[5]}
                               /\ \A i \in 6 .. Len(index) : index'[i] = index[i]
         /\ Len(index) < 5 /\ Len(index') >= 5 =>
              Len(index') = 5 /\ index'[5] = 0 /\ index'[2] = MaxCount
         /\ Len(index') \in Nat
<1>1. ts \in Nat /\ index \in Seq(Nat) /\ Len(index) \in Nat /\ op \in [Procs -> Call] /\ Writer \in Procs
  BY TypeInvFacts, TimesType, WriterTypes
<1>2. /\ NewHeader(MaxCount, ts) \in Seq(Nat) /\ Len(NewHeader(MaxCount, ts)) = 5
      /\ NewHeader(MaxCount, ts)[5] = 0 /\ NewHeader(MaxCount, ts)[2] = MaxCount
  BY <1>1, BoundsAssumption DEF NewHeader
<1>3. PICK w \in {NewHeader(MaxCount, ts)} \cup ShortWrites(NewHeader(MaxCount, ts)) :
        index' = WriteAt(index, 0, w, 0)
  BY DEF CreateIndex
<1> DEFINE whole == w = NewHeader(MaxCount, ts)
           l == Len(w)
           d == Len(index)
           d1 == Len(index')
<1>4. /\ w \in Seq(Nat) /\ l \in Nat
      /\ whole => l = 5 /\ w[5] = 0 /\ w[2] = MaxCount
      /\ ~whole => l < 5
  <2>1. w \in Seq(Nat) /\ (~whole => l < Len(NewHeader(MaxCount, ts)))
    BY <1>2, <1>3, WrittenProperties
  <2>2. whole => l = 5 /\ w[5] = 0 /\ w[2] = MaxCount
    BY <1>2
  <2>3. ~whole => l < 5
    BY <1>2, <2>1
  <2>4. l \in Nat
    BY <2>1
  <2> QED
    BY <2>1, <2>2, <2>3, <2>4
<1>5. /\ d1 = IF l > d THEN l ELSE d
      /\ \A i \in 1 .. l : index'[i] = w[i]
      /\ \A i \in 1 .. d : i > l => index'[i] = index[i]
      /\ d \in Nat
  BY <1>1, <1>3, <1>4, IndexHeaderWrite
<1> HIDE DEF whole, l, d, d1
<1>6. ASSUME d >= 5
      PROVE  /\ d1 = d /\ index'[5] \in {0, index[5]}
             /\ \A i \in 6 .. d : index'[i] = index[i]
  <2>1. CASE whole
    BY <1>4, <1>5, <1>6, <2>1
  <2>2. CASE ~whole
    BY <1>4, <1>5, <1>6, <2>2
  <2> QED
    BY <2>1, <2>2
<1>7. ASSUME d < 5, d1 >= 5
      PROVE  d1 = 5 /\ index'[5] = 0 /\ index'[2] = MaxCount
  <2>1. whole
    BY <1>4, <1>5, <1>7
  <2> QED
    BY <1>4, <1>5, <1>7, <2>1
<1>8. op'[Writer].pc = "create_data"
  <2>1. op' = [op EXCEPT ![Writer] = [Idle EXCEPT !.pc = "create_data", !.call = "create"]]
    BY DEF CreateIndex
  <2>2. [Idle EXCEPT !.pc = "create_data", !.call = "create"].pc = "create_data"
    BY DEF Idle
  <2> QED
    BY <1>1, <2>1, <2>2
<1>9. d1 \in Nat
  BY <1>4, <1>5
<1> QED
  BY <1>6, <1>7, <1>8, <1>9 DEF CreateIndex, Ready, d, d1

\* sea_block_data_append extends the data file, by a whole record if it goes on.
LEMMA AppendDataEffect ==
  ASSUME TypeInv, NEW p \in Payloads, AppendData(p)
  PROVE  /\ UNCHANGED <<index, exists, acked>>
         /\ op[Writer].pc \in {"idle", "done"} /\ handle[Writer].open
         /\ handle'[Writer].open /\ handle'[Writer].header = handle[Writer].header
         /\ data' \in Seq(Cell) /\ Len(data) <= Len(data')
         /\ \A i \in 1 .. Len(data) : data'[i] = data[i]
         /\ \/ /\ op'[Writer].pc = "entry" /\ op'[Writer].call = "append"
               /\ op'[Writer].payload = p /\ op'[Writer].offs[1] = Len(data)
               /\ HoldsRecord(data', Len(data), p)
            \/ op'[Writer].pc = "done" /\ op'[Writer].call = "append" /\ op'[Writer].ret = "error"
<1>1. /\ data \in Seq(Cell) /\ op \in [Procs -> Call] /\ handle \in [Procs -> Handle]
      /\ Writer \in Procs /\ handle[Writer] \in Handle
      /\ p \in Seq(Cell) /\ Record(p) \in Seq(Cell)
  BY WriterTypes, PayloadType, RecordProperties
<1>2. PICK w \in {Record(p)} \cup ShortWrites(Record(p)) : data' = WriteAt(data, Len(data), w, HoleCell)
  BY DEF AppendData, End
<1>3. w \in Seq(Cell)
  BY <1>1, <1>2, WrittenProperties
<1>4. data' \in Seq(Cell) /\ Len(data') = Len(data) + Len(w) /\ \A i \in 1 .. Len(data) : data'[i] = data[i]
  BY <1>1, <1>2, <1>3, DataAppend
<1>5. Len(data) <= Len(data')
  <2>1. Len(data) \in Nat /\ Len(w) \in Nat
    BY <1>1, <1>3
  <2> QED
    BY <1>4, <2>1
<1>6. handle'[Writer].open = handle[Writer].open /\ handle'[Writer].header = handle[Writer].header
  <2>1. handle'[Writer] = [handle[Writer] EXCEPT !.dpos = Len(data')]
    BY <1>1 DEF AppendData
  <2> QED
    BY <1>1, <2>1 DEF Handle
<1>7. CASE Return(Writer, "append", "error")
  <2>1. op'[Writer].pc = "done" /\ op'[Writer].call = "append" /\ op'[Writer].ret = "error"
    BY <1>1, <1>7, ReturnPc
  <2> QED
    BY <1>4, <1>5, <1>6, <2>1 DEF AppendData, Ready
<1>8. CASE ~Return(Writer, "append", "error")
  <2> DEFINE c == [Idle EXCEPT !.pc = "entry", !.call = "append", !.payload = p, !.offs = <<Len(data)>>]
  <2>1. data' = WriteAt(data, Len(data), Record(p), HoleCell) /\ op' = [op EXCEPT ![Writer] = c]
    BY <1>8 DEF AppendData, End
  <2>2. c.pc = "entry" /\ c.call = "append" /\ c.offs[1] = Len(data) /\ c.payload = p
    BY DEF Idle
  <2> HIDE DEF c
  <2>3. op'[Writer] = c
    BY <1>1, <2>1
  <2>4. HoldsRecord(data', Len(data), p)
    BY <1>1, <2>1, RecordAppended
  <2> QED
    BY <1>4, <1>5, <1>6, <2>2, <2>3, <2>4 DEF AppendData, Ready
<1> QED
  BY <1>7, <1>8

\* sea_block_index_append counts the record in the cached header, and puts
\* its entry behind the others.
LEMMA AppendEntryEffect ==
  ASSUME TypeInv, "short_entry" \notin Events, NEW ts \in Times, AppendEntry(ts)
  PROVE  /\ UNCHANGED <<data, exists, acked>>
         /\ op[Writer].pc = "entry" /\ op[Writer].payload \in Payloads /\ op[Writer].offs[1] \in Nat
         /\ index' \in Seq(Nat) /\ Len(index') = Len(index) + 2
         /\ index'[Len(index) + 2] = op[Writer].offs[1]
         /\ \A i \in 1 .. Len(index) : index'[i] = index[i]
         /\ handle'[Writer].open = handle[Writer].open
         /\ handle'[Writer].header[COUNT] = handle[Writer].header[COUNT] + 1
         /\ handle'[Writer].header[MAX_COUNT] = handle[Writer].header[MAX_COUNT]
         /\ op'[Writer].pc = "header" /\ op'[Writer].id = handle[Writer].header[COUNT]
         /\ op'[Writer].call = op[Writer].call /\ op'[Writer].payload = op[Writer].payload
         /\ op'[Writer].overlimit =
              (handle[Writer].header[COUNT] + 1 >= handle[Writer].header[MAX_COUNT])
<1> DEFINE off == op[Writer].offs[1]
           entry == Entry(ts, off)
           header == handle[Writer].header
           n == header[COUNT] + 1
           header1 == [header EXCEPT ![COUNT] = n, ![STOP] = ts]
<1>1. /\ index \in Seq(Nat) /\ op \in [Procs -> Call] /\ handle \in [Procs -> Handle]
      /\ Writer \in Procs /\ op[Writer] \in Call /\ handle[Writer] \in Handle /\ header \in Header
  BY WriterTypes
<1>2. /\ op[Writer].pc = "entry" /\ index' = WriteAt(index, Len(index), entry, 0)
      /\ op' = [op EXCEPT ![Writer].pc = "header", ![Writer].id = header[COUNT],
                          ![Writer].overlimit = OverLimit(handle'[Writer].header)]
      /\ handle' = [handle EXCEPT ![Writer].header = header1]
      /\ UNCHANGED <<data, exists, acked>>
  BY DEF AppendEntry, End
<1>3. ts \in Nat /\ off \in Nat /\ op[Writer].payload \in Payloads
  <2>1. InCall(op[Writer], handle[Writer])
    BY <1>1, TypeInvFacts
  <2>2. op[Writer].offs \in Seq(Nat) /\ op[Writer].offs # <<>> /\ op[Writer].payload \in Payloads
    BY <1>1, <1>2, <2>1 DEF InCall, Call
  <2>3. ts \in Nat
    BY TypeInvFacts, TimesType
  <2> QED
    BY <2>2, <2>3
<1>4. entry \in Seq(Nat) /\ Len(entry) = 2 /\ entry[2] = off
  BY <1>3 DEF Entry
<1> HIDE DEF entry
<1>5. /\ index' \in Seq(Nat) /\ Len(index') = Len(index) + 2 /\ index'[Len(index) + 2] = off
      /\ \A i \in 1 .. Len(index) : index'[i] = index[i]
  <2>1. /\ index' \in Seq(Nat) /\ Len(index') = Len(index) + Len(entry)
        /\ \A i \in 1 .. Len(entry) : index'[Len(index) + i] = entry[i]
        /\ \A i \in 1 .. Len(index) : index'[i] = index[i]
    <3>1. index' = WriteAt(index, Len(index), entry, 0)
      BY <1>2
    <3> QED
      BY <1>1, <1>4, <3>1, IndexAppend
  <2> QED
    BY <1>4, <2>1
<1>6. /\ handle'[Writer].open = handle[Writer].open
      /\ handle'[Writer].header[COUNT] = n /\ handle'[Writer].header[MAX_COUNT] = header[MAX_COUNT]
  <2>1. handle'[Writer] = [handle[Writer] EXCEPT !.header = header1]
    BY <1>1, <1>2
  <2> HIDE DEF header, n
  <2>2. header1[COUNT] = n /\ header1[MAX_COUNT] = header[MAX_COUNT]
    BY <1>1 DEF Header, HEADER_SIZE, COUNT, STOP, MAX_COUNT
  <2> HIDE DEF header1
  <2> QED
    BY <1>1, <2>1, <2>2 DEF Handle
<1>7. /\ op'[Writer].pc = "header" /\ op'[Writer].id = header[COUNT]
      /\ op'[Writer].call = op[Writer].call /\ op'[Writer].payload = op[Writer].payload
      /\ op'[Writer].overlimit = OverLimit(handle'[Writer].header)
  BY <1>1, <1>2 DEF Call
<1>8. OverLimit(handle'[Writer].header) = (n >= header[MAX_COUNT])
  BY <1>6 DEF OverLimit
<1> QED
  BY <1>2, <1>3, <1>5, <1>6, <1>7, <1>8

\* The write of the header takes the record into the count, or its entry is
\* cut off again.
LEMMA AppendHeaderEffect ==
  ASSUME TypeInv, AppendHeader,
         NEW id \in Nat, handle[Writer].header[COUNT] = id + 1, Len(index) >= EntryAt(id)
  PROVE  /\ UNCHANGED <<data, exists>>
         /\ op[Writer].pc = "header" /\ op'[Writer].pc = "done" /\ op[Writer].payload \in Payloads
         /\ handle'[Writer].open = handle[Writer].open
         /\ handle'[Writer].header[MAX_COUNT] = handle[Writer].header[MAX_COUNT]
         /\ \/ /\ op'[Writer].ret = "ok" /\ op'[Writer].call = op[Writer].call
               /\ op'[Writer].id = op[Writer].id /\ op'[Writer].payload = op[Writer].payload
               /\ op'[Writer].overlimit = op[Writer].overlimit
               /\ acked' = [i \in DOMAIN acked \cup {op[Writer].id} |->
                              IF i = op[Writer].id THEN op[Writer].payload ELSE acked[i]]
               /\ Len(index') = Len(index) /\ index'[5] = id + 1
               /\ index'[2] = handle[Writer].header[MAX_COUNT]
               /\ \A i \in 6 .. Len(index) : index'[i] = index[i]
               /\ handle'[Writer].header[COUNT] = id + 1
            \/ /\ op'[Writer].ret = "error" /\ op'[Writer].call = "append"
               /\ acked' = acked
               /\ Len(index') = EntryAt(id) /\ index'[5] = index[5]
               /\ index'[2] \in {index[2], handle[Writer].header[MAX_COUNT]}
               /\ \A i \in 6 .. EntryAt(id) : index'[i] = index[i]
               /\ handle'[Writer].header[COUNT] = id
<1> DEFINE header == handle[Writer].header
           d == Len(index)
<1>1. /\ index \in Seq(Nat) /\ d \in Nat /\ op \in [Procs -> Call] /\ handle \in [Procs -> Handle]
      /\ Writer \in Procs /\ op[Writer] \in Call /\ handle[Writer] \in Handle /\ header \in Header
  BY WriterTypes
<1>2. op[Writer].pc = "header" /\ op[Writer].payload \in Payloads
  BY <1>1, TypeInvFacts DEF AppendHeader, InCall
<1>3. EntryAt(id) = 5 + 2 * id /\ EntryAt(id) \in Nat /\ EntryAt(id) >= 5
  <2>1. EntryAt(id) = 5 + 2 * id
    BY EntryArithmetic
  <2> QED
    BY <2>1
<1> DEFINE l == Len(header)
           e == EntryAt(id)
<1>4. header \in Seq(Nat) /\ l = 5 /\ header[5] = id + 1 /\ MAX_COUNT = 2 /\ COUNT = 5
      /\ d >= e /\ e \in Nat /\ e >= 5
  <2>1. header \in Seq(Nat)
    BY <1>1, HeaderSeq
  <2>2. DOMAIN header = 1 .. 5
    BY <1>1 DEF Header, HEADER_SIZE
  <2>3. MAX_COUNT = 2 /\ COUNT = 5
    BY DEF MAX_COUNT, COUNT
  <2> HIDE DEF header
  <2>4. Len(header) = 5
    BY <2>1, <2>2
  <2> QED
    BY <1>3, <2>1, <2>3, <2>4 DEF header
<1> HIDE DEF header, d, l, e
<1>5. CASE /\ index' = WriteAt(index, 0, header, 0)
           /\ op' = [op EXCEPT ![Writer].pc = "done", ![Writer].ret = "ok", ![Writer].offs = <<>>]
           /\ acked' = [i \in DOMAIN acked \cup {op[Writer].id} |->
                          IF i = op[Writer].id THEN op[Writer].payload ELSE acked[i]]
           /\ handle' = handle
  <2> DEFINE d1 == Len(index')
  <2>1. /\ d1 = IF l > d THEN l ELSE d
        /\ \A i \in 1 .. l : index'[i] = header[i]
        /\ \A i \in 1 .. d : i > l => index'[i] = index[i]
    BY <1>1, <1>4, <1>5, IndexHeaderWrite DEF l, d
  <2> HIDE DEF d1
  <2>2. /\ d1 = d /\ index'[5] = id + 1 /\ index'[2] = header[2]
        /\ \A i \in 6 .. d : index'[i] = index[i]
    BY <1>1, <1>4, <2>1
  <2>3. /\ op'[Writer].pc = "done" /\ op'[Writer].ret = "ok" /\ op'[Writer].call = op[Writer].call
        /\ op'[Writer].id = op[Writer].id /\ op'[Writer].payload = op[Writer].payload
        /\ op'[Writer].overlimit = op[Writer].overlimit
    BY <1>1, <1>5 DEF Call
  <2> QED
    BY <1>2, <1>4, <1>5, <2>2, <2>3 DEF AppendHeader, d, d1, header
<1>6. CASE /\ handle' = [handle EXCEPT ![Writer].header = [header EXCEPT ![COUNT] = header[COUNT] - 1]]
           /\ \E w \in ShortWrites(header) :
                index' = Truncate(WriteAt(index, 0, w, 0), EntryAt(header[COUNT] - 1), 0)
           /\ Return(Writer, "append", "error")
           /\ acked' = acked
  <2>1. header[COUNT] - 1 = id
    BY <1>4
  <2>2. PICK w \in ShortWrites(header) : index' = Truncate(WriteAt(index, 0, w, 0), e, 0)
    BY <1>6, <2>1 DEF e
  <2> DEFINE f == WriteAt(index, 0, w, 0)
             k == Len(w)
  <2>3. w \in Seq(Nat) /\ k \in Nat /\ k < 5 /\ \A i \in 1 .. k : w[i] = header[i]
    <3>1. w \in Seq(Nat) /\ Len(w) < Len(header) /\ \A i \in 1 .. Len(w) : w[i] = header[i]
      BY <1>4, <2>2, ShortWritesProperties
    <3>2. k \in Nat
      BY <3>1
    <3> HIDE DEF k
    <3> QED
      BY <1>4, <3>1, <3>2 DEF k, l
  <2>4. /\ f \in Seq(Nat) /\ Len(f) = IF k > d THEN k ELSE d
        /\ \A i \in 1 .. k : f[i] = w[i]
        /\ \A i \in 1 .. d : i > k => f[i] = index[i]
    BY <1>1, <2>3, IndexHeaderWrite DEF d
  <2>5. index' = Truncate(f, e, 0) /\ e \in Nat
    BY <1>4, <2>2
  <2> HIDE DEF f, k
  <2>6. Len(f) = d
    BY <1>1, <1>4, <2>3, <2>4
  <2>7. Len(index') = e /\ \A i \in 1 .. d : i <= e => index'[i] = f[i]
    BY <2>4, <2>5, <2>6, IndexTruncate
  <2>8. index'[5] = index[5] /\ index'[2] \in {index[2], header[2]}
    <3>1. index'[5] = f[5] /\ index'[2] = f[2] /\ f[5] = index[5]
      <4>1. /\ 5 \in 1 .. d /\ 5 <= e /\ 2 \in 1 .. d /\ 2 <= e /\ 5 > k
        BY <1>1, <1>4, <2>3
      <4> QED
        BY <2>4, <2>7, <4>1
    <3>2. f[2] \in {index[2], header[2]}
      <4>1. CASE k < 2
        <5>1. 2 \in 1 .. d /\ 2 > k
          BY <1>1, <1>4, <2>3, <4>1
        <5> QED
          BY <2>4, <5>1
      <4>2. CASE k >= 2
        BY <2>3, <2>4, <4>2
      <4> QED
        BY <2>3, <4>1, <4>2
    <3> QED
      BY <3>1, <3>2
  <2>9. ASSUME NEW i \in 6 .. e PROVE index'[i] = index[i]
    <3>1. i \in 1 .. d /\ i <= e /\ i > k
      BY <1>1, <1>4, <2>3
    <3> QED
      BY <2>4, <2>7, <3>1
  <2>10. /\ handle'[Writer].open = handle[Writer].open
         /\ handle'[Writer].header[COUNT] = id /\ handle'[Writer].header[2] = header[2]
    <3> DEFINE n == header[COUNT] - 1
               header1 == [header EXCEPT ![COUNT] = n]
    <3>1. handle'[Writer] = [handle[Writer] EXCEPT !.header = header1]
      BY <1>1, <1>6
    <3>2. header1[COUNT] = n /\ header1[2] = header[2]
      BY <1>1, <1>4 DEF Header, HEADER_SIZE
    <3> HIDE DEF header1
    <3> QED
      BY <1>1, <2>1, <3>1, <3>2 DEF Handle
  <2>11. op'[Writer].pc = "done" /\ op'[Writer].ret = "error" /\ op'[Writer].call = "append"
    BY <1>1, <1>6, ReturnPc
  <2> QED
    BY <1>2, <1>4, <1>6, <2>7, <2>8, <2>9, <2>10, <2>11 DEF AppendHeader, e, header
<1> QED
  BY <1>5, <1>6 DEF AppendHeader, Rollback, RollbackSize, header

\* sea_block_update rewrites the record of a counted id where its entry says.
LEMMA UpdateEffect ==
  ASSUME TypeInv, NEW id \in Nat, NEW p \in Payloads, Update(id, p),
         NEW n \in Nat, handle[Writer].header[COUNT] <= n, Len(index) >= EntryAt(n)
  PROVE  /\ UNCHANGED <<index, exists>>
         /\ "update" \in Events
         /\ op[Writer].pc \in {"idle", "done"} /\ handle[Writer].open
         /\ handle'[Writer].open /\ handle'[Writer].header = handle[Writer].header
         /\ op'[Writer].pc = "done" /\ op'[Writer].call = "update"
         /\ \/ data' = data /\ acked' = acked
            \/ /\ id < handle[Writer].header[COUNT] /\ id \in 0 .. n - 1
               /\ \E w \in {Record(p)} \cup ShortWrites(Record(p)) :
                    /\ data' = WriteAt(data, Offset(index, id), w, HoleCell)
                    /\ \/ w = Record(p) /\ acked' = [i \in DOMAIN acked |-> IF i = id THEN p ELSE acked[i]]
                       \/ "short_update" \in Events /\ acked' = [i \in DOMAIN acked \ {id} |-> acked[i]]
<1> DEFINE list == IndexQueryByRecordId(handle[Writer].header, index, id)
           count == handle[Writer].header[COUNT]
<1>1. /\ index \in Seq(Nat) /\ op \in [Procs -> Call] /\ handle \in [Procs -> Handle]
      /\ Writer \in Procs /\ handle[Writer] \in Handle /\ count \in Nat
  BY WriterTypes
<1>2. op'[Writer].pc = "done" /\ op'[Writer].call = "update"
  BY <1>1, ReturnPc DEF Update
<1>3. handle'[Writer].open = handle[Writer].open /\ handle'[Writer].header = handle[Writer].header
  <2>1. handle' = handle \/ \E k : handle' = [handle EXCEPT ![Writer].dpos = k]
    BY DEF Update
  <2> QED
    BY <1>1, <2>1 DEF Handle
<1>4. CASE list.null
  BY <1>2, <1>3, <1>4 DEF Update, Ready
<1>5. CASE ~list.null
  <2>1. ~PastEnd(handle[Writer].header, id)
    <3>1. PastEnd(handle[Writer].header, id) => list = NoList
      BY DEF IndexQueryByRecordId
    <3> QED
      BY <1>5, <3>1 DEF NoList
  <2>2. id < count /\ id \in 0 .. n - 1
    BY <1>1, <2>1 DEF PastEnd
  <2>3. EntryAt(id) + 2 <= Len(index)
    BY <1>1, <2>2, OffsetFacts
  <2>4. UpdateOffset(list) = Offset(index, id)
    BY <1>1, <2>1, <2>3, QueryFindsEntry DEF UpdateOffset
  <2> HIDE DEF list
  <2>5. \/ /\ data' = WriteAt(data, Offset(index, id), Record(p), HoleCell)
           /\ acked' = [i \in DOMAIN acked |-> IF i = id THEN p ELSE acked[i]]
        \/ /\ "short_update" \in Events
           /\ \E w \in ShortWrites(Record(p)) : data' = WriteAt(data, Offset(index, id), w, HoleCell)
           /\ acked' = [i \in DOMAIN acked \ {id} |-> acked[i]]
    BY <1>5, <2>4 DEF Update, list
  <2> QED
    BY <1>2, <1>3, <2>2, <2>5 DEF Update, Ready
<1> QED
  BY <1>4, <1>5

-----------------------------------------------------------------------------
(* Every counted record is whole, though the process dies between any two  *)
(* steps of its calls.                                                     *)

\* No entry write is short, and the process does not die inside a
\* sea_block_destroy (which leaves the index of a data file that is gone).
WholeEvents ==
  "short_entry" \notin Events /\ ("destroy" \in Events => Events \cap {"crash", "past_end"} = {})

\* What records hold: clients' payloads, and mixes of two of them where an
\* update came back short.
Contents == {p \in Seq(Cell) : \E q \in Payloads : Len(p) = Len(q) /\ (p = q \/ "short_update" \in Events)}

\* The writer's cached count is the one on disk, and its own record.
WriterCounts ==
  /\ handle[Writer].open => /\ Present /\ ~WriterIn({"create_data"})
                            /\ handle[Writer].header[COUNT] = DiskCount + Uncounted
  /\ WriterIn({"entry", "header"}) => handle[Writer].open
  /\ WriterIn({"destroy_index"}) => ~exists /\ "destroy" \in Events

\* All entries of the index file, those the header does not count included,
\* address whole records one behind the other, and the record that waits for
\* its entry is behind them.
EntriesWhole ==
  Present => \E n \in Nat :
    /\ Whole(Contents, index, data, n) /\ DiskCount + Uncounted <= n
    /\ WriterIn({"entry"}) => /\ HoldsRecord(data, op[Writer].offs[1], op[Writer].payload)
                              /\ Behind(index, data, n, op[Writer].offs[1])

WholeInv == TypeInv /\ WriterCounts /\ EntriesWhole

LEMMA ContentsType ==
  /\ Contents \in SUBSET Seq(Cell)
  /\ \A p \in Payloads : p \in Contents
  /\ "short_update" \notin Events => \A p \in Contents : p \in Payloads
BY PayloadType DEF Contents

LEMMA UncountedType == Uncounted \in {0, 1} /\ (~WriterIn({"header"}) => Uncounted = 0)
BY DEF Uncounted

\* The entries, while the writer is not between entry and header.
LEMMA WholeEntries ==
  ASSUME WholeInv, Present
  PROVE  \E n \in Nat :
           /\ Whole(Contents, index, data, n) /\ DiskCount + Uncounted <= n
           /\ Len(index) = EntryAt(n) /\ Len(index) = 5 + 2 * n
           /\ DiskCount \in Nat /\ DiskCount = index[5] /\ DiskCount <= n
           /\ WriterIn({"entry"}) => /\ HoldsRecord(data, op[Writer].offs[1], op[Writer].payload)
                                     /\ Behind(index, data, n, op[Writer].offs[1])
<1>1. PICK n \in Nat :
        /\ Whole(Contents, index, data, n) /\ DiskCount + Uncounted <= n
        /\ WriterIn({"entry"}) => /\ HoldsRecord(data, op[Writer].offs[1], op[Writer].payload)
                                  /\ Behind(index, data, n, op[Writer].offs[1])
  BY DEF WholeInv, EntriesWhole
<1>2. DiskCount \in Nat /\ DiskCount = index[5]
  BY WriterTypes DEF WholeInv, Present
<1>3. DiskCount <= n
  BY <1>1, <1>2, UncountedType
<1>4. Len(index) = EntryAt(n) /\ EntryAt(n) = 5 + 2 * n
  BY <1>1, EntryArithmetic DEF Whole
<1> QED
  BY <1>1, <1>2, <1>3, <1>4

\* The writer goes on with a call that is not in the middle of an append, on
\* the same files.
LEMMA WholeQuiet ==
  ASSUME WholeInv, TypeInv', index' = index, data' = data, ~WriterIn({"destroy_index"}),
         op'[Writer].pc \notin {"entry", "header", "destroy_index"},
         handle'[Writer].open => /\ Len(index) >= HEADER_SIZE /\ op'[Writer].pc # "create_data"
                                 /\ handle'[Writer].header[COUNT] = DiskCount
  PROVE  WholeInv'
<1>1. Present' = Present /\ DiskCount' = DiskCount /\ Uncounted' = 0
  BY DEF Present, DiskCount, Uncounted, WriterIn
<1>2. WriterCounts'
  <2>1. ASSUME handle'[Writer].open PROVE handle'[Writer].header[COUNT] = DiskCount' + Uncounted'
    <3>1. Present /\ DiskCount \in Nat
      BY <2>1, WriterTypes DEF WholeInv, Present
    <3> QED
      BY <1>1, <2>1, <3>1
  <2> QED
    BY <1>1, <2>1 DEF WriterCounts, WriterIn, Present
<1>3. EntriesWhole'
  <2> SUFFICES ASSUME Present PROVE \E n \in Nat : Whole(Contents, index, data, n) /\ DiskCount + 0 <= n
    BY <1>1 DEF EntriesWhole, WriterIn
  <2>1. PICK n \in Nat : Whole(Contents, index, data, n) /\ DiskCount \in Nat /\ DiskCount <= n
    BY WholeEntries
  <2> QED
    BY <2>1
<1> QED
  BY <1>2, <1>3 DEF WholeInv

\* A step of another process.
LEMMA WholeOther ==
  ASSUME WholeInv, TypeInv', index' = index, data' = data, exists' = exists, op'[Writer] = op[Writer],
         handle'[Writer].open = handle[Writer].open, handle'[Writer].header = handle[Writer].header
  PROVE  WholeInv'
BY DEF WholeInv, WriterCounts, EntriesWhole, Present, DiskCount, Uncounted, WriterIn

\* sea_block_index_create leaves all entries, and counts none or as many as before.
LEMMA WholeCreates ==
  ASSUME WholeInv, TypeInv', NEW ts \in Times, CreateIndex(ts)
  PROVE  WholeInv'
<1>1. /\ UNCHANGED <<data, exists, handle, acked>>
      /\ ~handle[Writer].open /\ op[Writer].pc \in {"idle", "done"} /\ op'[Writer].pc = "create_data"
      /\ Len(index) >= 5 => /\ Len(index') = Len(index) /\ index'[5] \in {0, index[5]}
                            /\ \A i \in 6 .. Len(index) : index'[i] = index[i]
      /\ Len(index) < 5 /\ Len(index') >= 5 => Len(index') = 5 /\ index'[5] = 0
  BY CreateEffect DEF WholeInv
<1>2. DiskCount' = index'[5] /\ Uncounted' = 0 /\ index' \in Seq(Nat) /\ index \in Seq(Nat) /\ data \in Seq(Cell)
  BY <1>1, TypeInvFacts DEF WholeInv, TypeInv, TypeOK, DiskCount, COUNT, Uncounted, WriterIn
<1>3. EntriesWhole'
  <2> SUFFICES ASSUME Len(index') >= 5 PROVE \E n \in Nat : Whole(Contents, index', data, n) /\ index'[5] + 0 <= n
    BY <1>1, <1>2, EntryArithmetic DEF EntriesWhole, Present, WriterIn
  <2>1. CASE Len(index) >= 5
    <3>1. Present
      BY <1>1, <2>1, EntryArithmetic DEF Present, WriterIn
    <3>2. PICK n \in Nat : /\ Whole(Contents, index, data, n) /\ Len(index) = EntryAt(n)
                           /\ DiskCount \in Nat /\ DiskCount = index[5] /\ DiskCount <= n
      BY <3>1, WholeEntries
    <3>3. n <= n /\ Len(index') = EntryAt(n) /\ \A i \in 6 .. EntryAt(n) : index'[i] = index[i]
      BY <1>1, <2>1, <3>2
    <3>4. Whole(Contents, index', data, n)
      BY <1>2, <3>2, <3>3, ContentsType, WholeCut
    <3>5. index'[5] + 0 <= n
      BY <1>1, <2>1, <3>2
    <3> QED
      BY <3>4, <3>5
  <2>2. CASE ~(Len(index) >= 5)
    <3>1. Len(index) < 5
      BY <1>2, <2>2
    <3>2. Len(index') = EntryAt(0) /\ index'[5] + 0 <= 0
      <4>1. EntryAt(0) = 5
        BY EntryArithmetic
      <4>2. Len(index') = 5 /\ index'[5] = 0
        BY <1>1, <3>1
      <4> QED
        BY <4>1, <4>2
    <3>3. Whole(Contents, index', data, 0)
      BY <3>2 DEF Whole
    <3> QED
      BY <3>2, <3>3
  <2> QED
    BY <2>1, <2>2
<1>4. WriterCounts'
  BY <1>1 DEF WriterCounts, WriterIn
<1> QED
  BY <1>3, <1>4 DEF WholeInv

\* The last steps of sea_block_create and sea_block_destroy, and the first of
\* sea_block_destroy.
LEMMA WholeLastStep ==
  ASSUME WholeInv, TypeInv', CreateData \/ DestroyIndex
  PROVE  WholeInv'
<1>1. op'[Writer].pc = "done" /\ handle' = handle
  BY ReturnPc, TypeInvFacts DEF WholeInv, TypeInv, CreateData, DestroyIndex
<1>2. CASE CreateData
  <2>1. WriterIn({"create_data"}) /\ index' = index /\ data' = data
    BY <1>2 DEF CreateData, WriterIn
  <2>2. ~handle'[Writer].open
    BY <1>1, <2>1 DEF WholeInv, WriterCounts
  <2> QED
    BY <1>1, <2>1, <2>2, WholeQuiet DEF WriterIn
<1>3. CASE DestroyIndex
  <2>1. WriterIn({"destroy_index"}) /\ index' = <<>>
    BY <1>3 DEF DestroyIndex, WriterIn
  <2>2. ~handle'[Writer].open
    BY <1>1, <2>1 DEF WholeInv, WriterCounts, Present
  <2>3. ~Present'
    <3>1. Len(<<>>) = 0 /\ HEADER_SIZE = 5
      BY EntryArithmetic
    <3> QED
      BY <2>1, <3>1 DEF Present
  <2> QED
    BY <1>1, <2>2, <2>3 DEF WholeInv, WriterCounts, EntriesWhole, WriterIn
<1> QED
  BY <1>2, <1>3

\* What is left of the index while the block is being destroyed is not opened.
LEMMA WholeDestroys ==
  ASSUME WholeInv, TypeInv', DestroyData
  PROVE  WholeInv'
<1>1. op'[Writer].pc = "destroy_index" /\ ~handle'[Writer].open /\ ~exists' /\ "destroy" \in Events
  <2>1. op \in [Procs -> Call] /\ Writer \in Procs
    BY WriterTypes DEF WholeInv
  <2>2. [Idle EXCEPT !.pc = "destroy_index", !.call = "destroy"].pc = "destroy_index"
    BY DEF Idle
  <2> QED
    BY <2>1, <2>2 DEF DestroyData
<1> QED
  BY <1>1 DEF WholeInv, WriterCounts, EntriesWhole, Present, WriterIn

\* A record goes behind all others.
LEMMA WholeAppendsData ==
  ASSUME WholeInv, TypeInv', NEW p \in Payloads, AppendData(p)
  PROVE  WholeInv'
<1>1. /\ index' = index /\ exists' = exists /\ op[Writer].pc \in {"idle", "done"} /\ handle[Writer].open
      /\ handle'[Writer].open /\ handle'[Writer].header = handle[Writer].header
      /\ data' \in Seq(Cell) /\ Len(data) <= Len(data')
      /\ \A i \in 1 .. Len(data) : data'[i] = data[i]
      /\ \/ /\ op'[Writer].pc = "entry" /\ op'[Writer].payload = p /\ op'[Writer].offs[1] = Len(data)
            /\ HoldsRecord(data', Len(data), p)
         \/ op'[Writer].pc = "done"
  BY AppendDataEffect DEF WholeInv
<1>2. Present /\ Present' /\ DiskCount' = DiskCount /\ Uncounted' = Uncounted
  BY <1>1 DEF WholeInv, WriterCounts, Present, DiskCount, Uncounted, WriterIn
<1>3. WriterCounts'
  BY <1>1, <1>2 DEF WholeInv, WriterCounts, WriterIn
<1>4. EntriesWhole'
  <2>1. PICK n \in Nat : Whole(Contents, index, data, n) /\ DiskCount + Uncounted <= n
    BY <1>2, WholeEntries
  <2>2. Whole(Contents, index, data', n) /\ Behind(index, data', n, Len(data))
    BY <1>1, <2>1, WriterTypes, ContentsType, WholeGrows DEF WholeInv
  <2> QED
    BY <1>1, <1>2, <2>1, <2>2 DEF EntriesWhole, WriterIn
<1> QED
  BY <1>3, <1>4 DEF WholeInv

\* The entry of the record behind the others is the last one.
LEMMA WholeAppendsEntry ==
  ASSUME WholeInv, TypeInv', "short_entry" \notin Events, NEW ts \in Times, AppendEntry(ts)
  PROVE  WholeInv'
<1> DEFINE off == op[Writer].offs[1]
           p == op[Writer].payload
           count == handle[Writer].header[COUNT]
           count1 == handle'[Writer].header[COUNT]
<1>1. /\ data' = data /\ exists' = exists
      /\ op[Writer].pc = "entry" /\ p \in Payloads /\ off \in Nat
      /\ index' \in Seq(Nat) /\ Len(index') = Len(index) + 2 /\ index'[Len(index) + 2] = off
      /\ \A i \in 1 .. Len(index) : index'[i] = index[i]
      /\ handle'[Writer].open = handle[Writer].open /\ count1 = count + 1
      /\ op'[Writer].pc = "header"
  BY AppendEntryEffect DEF WholeInv
<1>2. handle[Writer].open /\ Present /\ count = DiskCount + Uncounted /\ Uncounted = 0 /\ Uncounted' = 1
  BY <1>1 DEF WholeInv, WriterCounts, Uncounted, WriterIn
<1>3. PICK n \in Nat : /\ Whole(Contents, index, data, n) /\ Len(index) = EntryAt(n) /\ Len(index) = 5 + 2 * n
                       /\ DiskCount \in Nat /\ DiskCount = index[5] /\ DiskCount <= n
                       /\ HoldsRecord(data, off, p) /\ Behind(index, data, n, off)
  BY <1>1, <1>2, WholeEntries DEF WriterIn
<1> HIDE DEF off, p, count, count1
<1>4. Present' /\ DiskCount' = DiskCount
  <2>1. Len(index') >= 5 /\ 5 \in 1 .. Len(index)
    BY <1>1, <1>3
  <2> QED
    BY <1>1, <1>3, <2>1, EntryArithmetic DEF Present, DiskCount, WriterIn
<1>5. WriterCounts'
  <2>1. count1 = DiskCount' + Uncounted'
    BY <1>1, <1>2, <1>3, <1>4
  <2> QED
    BY <1>1, <1>2, <1>4, <2>1 DEF WriterCounts, WriterIn, count1
<1>6. EntriesWhole'
  <2>1. Whole(Contents, index', data, n + 1)
    BY <1>1, <1>3, WriterTypes, ContentsType, WholeEntry DEF WholeInv
  <2>2. DiskCount' + Uncounted' <= n + 1
    BY <1>2, <1>3, <1>4
  <2>3. n + 1 \in Nat /\ ~WriterIn({"entry"})'
    BY <1>1 DEF WriterIn
  <2> QED
    BY <1>1, <2>1, <2>2, <2>3 DEF EntriesWhole
<1> QED
  BY <1>5, <1>6 DEF WholeInv

\* The count takes the next entry, or its entry and all behind it are cut off.
LEMMA WholeAppendsHeader ==
  ASSUME WholeInv, TypeInv', AppendHeader
  PROVE  WholeInv'
<1> DEFINE count == handle[Writer].header[COUNT]
           count1 == handle'[Writer].header[COUNT]
           id == DiskCount
<1>1. op[Writer].pc = "header"
  BY DEF AppendHeader
<1>2. handle[Writer].open /\ Present /\ count = id + Uncounted /\ Uncounted = 1
  BY <1>1 DEF WholeInv, WriterCounts, Uncounted, WriterIn
<1>3. PICK n \in Nat : /\ Whole(Contents, index, data, n) /\ Len(index) = EntryAt(n) /\ Len(index) = 5 + 2 * n
                       /\ id \in Nat /\ id = index[5] /\ id + Uncounted <= n
  BY <1>2, WholeEntries
<1>4. count = id + 1 /\ EntryAt(id) = 5 + 2 * id /\ Len(index) >= EntryAt(id) /\ id + 1 <= n
  <2>1. EntryAt(id) = 5 + 2 * id
    BY <1>3, EntryArithmetic
  <2> HIDE DEF id
  <2> QED
    BY <1>2, <1>3, <2>1
<1>5. /\ data' = data /\ exists' = exists /\ op'[Writer].pc = "done"
      /\ handle'[Writer].open = handle[Writer].open
      /\ \/ /\ Len(index') = Len(index) /\ index'[5] = id + 1
            /\ \A i \in 6 .. Len(index) : index'[i] = index[i]
            /\ count1 = id + 1
         \/ /\ Len(index') = EntryAt(id) /\ index'[5] = index[5]
            /\ \A i \in 6 .. EntryAt(id) : index'[i] = index[i]
            /\ count1 = id
  BY <1>3, <1>4, AppendHeaderEffect DEF WholeInv
<1>6. index' \in Seq(Nat) /\ index \in Seq(Nat) /\ data \in Seq(Cell)
  BY TypeInvFacts DEF WholeInv, TypeInv, TypeOK
<1>7. DiskCount' = index'[5] /\ Uncounted' = 0
  BY <1>5 DEF DiskCount, COUNT, Uncounted, WriterIn
<1> HIDE DEF id, count, count1
<1>8. \E m \in Nat : /\ m <= n /\ Len(index') = EntryAt(m) /\ \A i \in 6 .. EntryAt(m) : index'[i] = index[i]
                     /\ index'[5] + 0 <= m /\ Len(index') >= 5 /\ count1 = index'[5] + 0
  <2>1. CASE /\ Len(index') = Len(index) /\ index'[5] = id + 1
             /\ \A i \in 6 .. Len(index) : index'[i] = index[i]
             /\ count1 = id + 1
    <3>1. /\ n <= n /\ Len(index') = EntryAt(n) /\ \A i \in 6 .. EntryAt(n) : index'[i] = index[i]
          /\ index'[5] + 0 <= n /\ Len(index') >= 5 /\ count1 = index'[5] + 0
      BY <1>3, <1>4, <2>1
    <3> QED
      BY <3>1
  <2>2. CASE /\ Len(index') = EntryAt(id) /\ index'[5] = index[5]
             /\ \A i \in 6 .. EntryAt(id) : index'[i] = index[i]
             /\ count1 = id
    <3>1. index'[5] = id
      BY <1>3, <2>2
    <3>2. id <= n /\ id + 0 <= id /\ count1 = id + 0
      <4>1. id \in Nat /\ n \in Nat /\ id + 1 <= n /\ count1 = id
        BY <1>3, <1>4, <2>2
      <4> QED
        BY <4>1
    <3>3. Len(index') >= 5
      BY <1>3, <1>4, <2>2
    <3> QED
      BY <1>3, <2>2, <3>1, <3>2, <3>3
  <2> QED
    BY <1>5, <2>1, <2>2
<1>9. PICK m \in Nat : /\ m <= n /\ Len(index') = EntryAt(m) /\ \A i \in 6 .. EntryAt(m) : index'[i] = index[i]
                       /\ index'[5] + 0 <= m /\ Len(index') >= 5 /\ count1 = index'[5] + 0
  BY <1>8
<1>10. WriterCounts'
  BY <1>2, <1>5, <1>7, <1>9, EntryArithmetic DEF WriterCounts, WriterIn, Present, count1
<1>11. EntriesWhole'
  <2>1. Whole(Contents, index', data, m)
    BY <1>3, <1>6, <1>9, ContentsType, WholeCut
  <2> QED
    BY <1>5, <1>7, <1>9, <2>1 DEF EntriesWhole, WriterIn
<1> QED
  BY <1>10, <1>11 DEF WholeInv

\* A record and one of the same length are rewritten into one that holds
\* either, or a mix of them where the write may be short.
LEMMA MixedContents ==
  ASSUME "update" \in Events, NEW p \in Payloads, NEW q \in Contents
  PROVE  /\ Len(p) = Len(q) /\ p \in Seq(Cell) /\ q \in Seq(Cell)
         /\ \A k \in 0 .. Len(p) : k = Len(p) \/ "short_update" \in Events => Torn(p, q, k) \in Contents
<1>1. PICK r \in Payloads : Len(q) = Len(r) /\ q \in Seq(Cell)
  BY DEF Contents
<1>2. Len(p) = Len(r) /\ p \in Seq(Cell)
  BY PayloadType, UpdateAssumption
<1>3. ASSUME NEW k \in 0 .. Len(p), k = Len(p) \/ "short_update" \in Events PROVE Torn(p, q, k) \in Contents
  <2>1. /\ Torn(p, q, k) \in Seq(Cell) /\ Len(Torn(p, q, k)) = Len(p)
        /\ k = Len(p) => Torn(p, q, k) = p
    BY <1>1, <1>2, TornProperties
  <2> QED
    BY <1>3, <2>1 DEF Contents
<1> QED
  BY <1>1, <1>2, <1>3

\* What a rewrite of the record of id leaves of all records.
LEMMA RecordRewritten ==
  ASSUME "update" \in Events, NEW p \in Payloads, index \in Seq(Nat), data \in Seq(Cell),
         NEW n \in Nat, Whole(Contents, index, data, n), NEW id \in 0 .. n - 1,
         NEW w \in {Record(p)} \cup ShortWrites(Record(p)),
         w = Record(p) \/ "short_update" \in Events,
         data' = WriteAt(data, Offset(index, id), w, HoleCell)
  PROVE  /\ Whole(Contents, index, data', n)
         /\ \E q \in Contents, k \in 0 .. Len(p) :
              /\ HoldsRecord(data, Offset(index, id), q) /\ HoldsRecord(data', Offset(index, id), Torn(p, q, k))
              /\ w = Record(p) => k = Len(p) /\ Torn(p, q, k) = p
         /\ \A k \in 0 .. n - 1, q \in Seq(Cell) :
              k # id /\ HoldsRecord(data, Offset(index, k), q) => HoldsRecord(data', Offset(index, k), q)
<1> DEFINE off == Offset(index, id)
<1>1. off \in Nat /\ Len(data) \in Nat
  <2>1. off \in Nat
    BY WholeRecord, ContentsType
  <2> QED
    BY <2>1
<1>2. PICK q \in Contents : HoldsRecord(data, off, q)
  BY WholeRecord, ContentsType
<1>3. /\ Len(p) = Len(q) /\ p \in Seq(Cell) /\ q \in Seq(Cell)
      /\ \A k \in 0 .. Len(p) : k = Len(p) \/ "short_update" \in Events => Torn(p, q, k) \in Contents
  BY MixedContents
<1>4. /\ data' \in Seq(Cell) /\ Len(data') = Len(data)
      /\ \A i \in 1 .. Len(data) : i <= off \/ i > RecordEnd(data, off) => data'[i] = data[i]
      /\ data'[off + 1] = data[off + 1]
      /\ \E k \in 0 .. Len(p) : HoldsRecord(data', off, Torn(p, q, k)) /\ (w = Record(p) => k = Len(p))
  <2> HIDE DEF off
  <2> QED
    BY <1>1, <1>2, <1>3, HeldRewritten DEF off
<1>5. PICK k \in 0 .. Len(p) : HoldsRecord(data', off, Torn(p, q, k)) /\ (w = Record(p) => k = Len(p))
  BY <1>4
<1>6. Torn(p, q, k) \in Contents /\ (w = Record(p) => k = Len(p) /\ Torn(p, q, k) = p)
  BY <1>3, <1>5, TornProperties
<1>7. /\ Whole(Contents, index, data', n)
      /\ \A j \in 0 .. n - 1, r \in Seq(Cell) :
           j # id /\ HoldsRecord(data, Offset(index, j), r) => HoldsRecord(data', Offset(index, j), r)
  <2> DEFINE C == Contents
             t == Torn(p, q, k)
             g == data'
  <2>1. t \in C /\ HoldsRecord(g, Offset(index, id), t) /\ g \in Seq(Cell)
    BY <1>4, <1>5, <1>6
  <2>2. C \in SUBSET Seq(Cell) /\ Whole(C, index, data, n)
    BY ContentsType
  <2>3. OnlyPayloadDiffers(data, g, Offset(index, id))
    BY <1>4 DEF OnlyPayloadDiffers
  <2> HIDE DEF C, t, g
  <2>4. /\ Whole(C, index, g, n)
        /\ \A j \in 0 .. n - 1, r \in Seq(Cell) :
             j # id /\ HoldsRecord(data, Offset(index, j), r) => HoldsRecord(g, Offset(index, j), r)
    BY <2>1, <2>2, <2>3, WholeRewritten
  <2> QED
    BY <2>4 DEF C, g
<1> QED
  BY <1>2, <1>5, <1>6, <1>7

\* An update mixes two payloads of one record.
LEMMA WholeUpdates ==
  ASSUME WholeInv, TypeInv', NEW id \in Nat, NEW p \in Payloads, Update(id, p)
  PROVE  WholeInv'
<1>1. op[Writer].pc \in {"idle", "done"} /\ handle[Writer].open
  BY DEF Update, Ready
<1>2. Present /\ Uncounted = 0 /\ handle[Writer].header[COUNT] = DiskCount + Uncounted
  BY <1>1 DEF WholeInv, WriterCounts, Uncounted, WriterIn
<1>3. PICK n \in Nat : /\ Whole(Contents, index, data, n) /\ Len(index) = EntryAt(n) /\ Len(index) = 5 + 2 * n
                       /\ DiskCount \in Nat /\ DiskCount <= n
  BY <1>2, WholeEntries
<1>4. handle[Writer].header[COUNT] = DiskCount /\ handle[Writer].header[COUNT] <= n /\ Len(index) >= EntryAt(n)
  BY <1>2, <1>3
<1>5. /\ index' = index /\ exists' = exists /\ "update" \in Events
      /\ handle'[Writer].open /\ handle'[Writer].header = handle[Writer].header /\ op'[Writer].pc = "done"
      /\ \/ data' = data
         \/ /\ id \in 0 .. n - 1
            /\ \E w \in {Record(p)} \cup ShortWrites(Record(p)) :
                 /\ data' = WriteAt(data, Offset(index, id), w, HoleCell)
                 /\ w = Record(p) \/ "short_update" \in Events
  BY <1>3, <1>4, UpdateEffect DEF WholeInv
<1>6. Whole(Contents, index, data', n)
  BY <1>3, <1>5, RecordRewritten, WriterTypes DEF WholeInv
<1>7. Present' /\ DiskCount' = DiskCount /\ Uncounted' = 0
  BY <1>2, <1>5 DEF Present, DiskCount, Uncounted, WriterIn
<1>8. DiskCount + 0 <= n /\ DiskCount + 0 = DiskCount
  BY <1>3
<1>9. WriterCounts'
  BY <1>4, <1>5, <1>7, <1>8 DEF WriterCounts, WriterIn
<1>10. EntriesWhole'
  BY <1>5, <1>6, <1>7, <1>8 DEF EntriesWhole, WriterIn
<1> QED
  BY <1>9, <1>10 DEF WholeInv

\* A handle is opened with the count on disk.
LEMMA WholeOpensCloses ==
  ASSUME WholeInv, TypeInv', NEW p \in Procs, Open(p) \/ Close(p)
  PROVE  WholeInv'
<1>1. /\ index' = index /\ data' = data /\ exists' = exists /\ index \in Seq(Nat)
      /\ op \in [Procs -> Call] /\ handle \in [Procs -> Handle] /\ Writer \in Procs
  BY WriterTypes DEF WholeInv, Open, Close
<1>2. CASE p # Writer
  <2>1. op'[Writer] = op[Writer] /\ handle'[Writer] = handle[Writer]
    BY <1>1, <1>2 DEF Open, Close
  <2> QED
    BY <1>1, <2>1, WholeOther
<1>3. CASE p = Writer
  <2>1. ~WriterIn({"destroy_index"}) /\ op'[Writer].pc = "idle"
    BY <1>1, <1>3 DEF Open, Close, Ready, WriterIn, Idle
  <2>2. handle'[Writer].open => Len(index) >= HEADER_SIZE /\ handle'[Writer].header[COUNT] = DiskCount
    <3>1. CASE Open(p)
      BY <1>1, <1>3, <3>1, CachedCount DEF Open, CanOpen
    <3>2. CASE Close(p)
      BY <1>1, <1>3, <3>2 DEF Close, Closed
    <3> QED
      BY <3>1, <3>2
  <2> QED
    BY <1>1, <2>1, <2>2, WholeQuiet
<1> QED
  BY <1>2, <1>3

LEMMA WholeReads ==
  ASSUME WholeInv, TypeInv', NEW p \in Readers, Reads(p)
  PROVE  WholeInv'
<1>1. /\ UNCHANGED <<index, data, exists>>
      /\ op[p].pc \in {"idle", "done", "read"} /\ op'[p].pc \in {"done", "read"}
      /\ handle'[p].open = handle[p].open /\ handle'[p].header = handle[p].header
      /\ \A q \in Procs \ {p} : op'[q] = op[q] /\ handle'[q] = handle[q]
  BY ReaderChanges DEF WholeInv
<1>2. CASE p = Writer
  <2>1. handle[Writer].open => Len(index) >= HEADER_SIZE /\ handle[Writer].header[COUNT] = DiskCount
    <3> SUFFICES ASSUME handle[Writer].open
                 PROVE  Len(index) >= HEADER_SIZE /\ handle[Writer].header[COUNT] = DiskCount
      OBVIOUS
    <3>1. Present /\ handle[Writer].header[COUNT] = DiskCount + 0
      BY <1>1, <1>2 DEF WholeInv, WriterCounts, Uncounted, WriterIn
    <3>2. DiskCount \in Nat /\ Len(index) >= HEADER_SIZE
      BY <3>1, WriterTypes DEF WholeInv, Present
    <3> QED
      BY <3>1, <3>2
  <2> QED
    BY <1>1, <1>2, <2>1, WholeQuiet DEF WriterIn
<1>3. CASE p # Writer
  BY <1>1, <1>3, WriterProc, WholeOther
<1> QED
  BY <1>2, <1>3

\* The process dies: an entry that is not counted stays behind, whole.
LEMMA WholeDies ==
  ASSUME WholeInv, TypeInv', "destroy" \notin Events, ProcessDies
  PROVE  WholeInv'
<1>1. op'[Writer].pc = "idle" /\ ~handle'[Writer].open /\ ~WriterIn({"destroy_index"})
  BY WriterProc DEF ProcessDies, Idle, Closed, WholeInv, WriterCounts
<1> QED
  BY <1>1, WholeQuiet DEF ProcessDies

LEMMA WholeInvInit == Init => WholeInv
<1> SUFFICES ASSUME Init PROVE WholeInv
  OBVIOUS
<1>1. op[Writer].pc = "idle" /\ ~handle[Writer].open
  BY WriterProc DEF Init, Idle, Closed
<1>2. ~Present
  <2>1. Len(<<>>) = 0 /\ HEADER_SIZE = 5
    BY EntryArithmetic
  <2> QED
    BY <2>1 DEF Init, Present
<1> QED
  BY <1>1, <1>2, TypeInvInit DEF WholeInv, WriterCounts, EntriesWhole, WriterIn

LEMMA WholeInvStep ==
  ASSUME WholeEvents
  PROVE  WholeInv /\ [Next]_vars => WholeInv'
<1> SUFFICES ASSUME WholeInv, [Next]_vars PROVE WholeInv'
  OBVIOUS
<1>1. TypeInv'
  BY TypeInvStep DEF WholeInv
<1>2. ASSUME WriterStep PROVE WholeInv'
  <2>1. \A id \in 0 .. handle[Writer].header[COUNT] : id \in Nat
    BY WriterTypes DEF WholeInv
  <2> QED
    BY <1>1, <1>2, <2>1, WholeCreates, WholeLastStep, WholeDestroys, WholeAppendsData, WholeAppendsEntry,
       WholeAppendsHeader, WholeUpdates DEF WriterStep, WholeEvents
<1>3. ASSUME NEW p \in Readers, Reads(p) PROVE WholeInv'
  BY <1>1, <1>3, WholeReads
<1>4. ASSUME "crash" \in Events \/ "past_end" \in Events, ProcessDies PROVE WholeInv'
  BY <1>1, <1>4, WholeDies DEF WholeEvents
<1>5. CASE UNCHANGED vars
  BY <1>1, <1>5, WholeOther DEF vars
<1> QED
  BY <1>1, <1>2, <1>3, <1>4, <1>5, WholeOpensCloses, ReaderSteps DEF Next, Crash

LEMMA WholeInvReadable ==
  ASSUME WholeInv, "short_update" \notin Events
  PROVE  WholeRecords
<1> SUFFICES ASSUME CanOpen, NEW id \in 0 .. DiskCount - 1
             PROVE  /\ EntryAt(id + 1) <= Len(index)
                    /\ \E p \in Payloads : HoldsRecord(data, OffsetOf(id), p)
  BY DEF WholeRecords
<1>1. Present
  BY DEF CanOpen, Present, WholeInv, WriterCounts
<1>2. PICK n \in Nat : /\ Whole(Contents, index, data, n) /\ Len(index) = 5 + 2 * n
                       /\ DiskCount \in Nat /\ DiskCount <= n
  BY <1>1, WholeEntries
<1>3. id \in 0 .. n - 1 /\ id + 1 <= n
  BY <1>2
<1>4. EntryAt(id + 1) <= Len(index)
  <2>1. EntryAt(id + 1) = 5 + 2 * (id + 1)
    BY EntryArithmetic
  <2> QED
    BY <1>2, <1>3, <2>1
<1>5. PICK p \in Contents : HoldsRecord(data, Offset(index, id), p)
  BY <1>2, <1>3, WholeRecord, WriterTypes, ContentsType DEF WholeInv
<1> QED
  BY <1>4, <1>5, ContentsType DEF OffsetOf, Offset

\* Every id below the count on disk addresses the whole record of one append
\* (the write order of sea_block_append and sea_block_index_append), even if
\* the process dies between the writes, or the block is created once more
\* over an old index.  It takes entries that are written whole, updates too,
\* and a destroy that is not cut short.
THEOREM RecordsStayWhole ==
  ASSUME WholeEvents, "short_update" \notin Events
  PROVE  Spec => []WholeRecords
<1>1. WholeInv /\ [Next]_vars => WholeInv'
  BY WholeInvStep
<1>2. WholeInv => WholeRecords
  BY WholeInvReadable
<1> QED
  BY WholeInvInit, <1>1, <1>2, PTL DEF Spec

-----------------------------------------------------------------------------
(* The index holds exactly what its header counts, whatever appends and    *)
(* updates fail, as long as the process does not die inside a call, no     *)
(* entry write is short and no block is created over another.              *)

Tolerated == AllEvents \ {"short_entry", "crash", "past_end", "recreate"}

\* A handle is on a block that exists, and has its limit.
HandleCurrent ==
  handle[Writer].open => exists /\ handle[Writer].header[MAX_COUNT] = MaxCount

\* Every entry is counted, but the one of the append under way.
EntriesCounted ==
  Present => /\ Len(index) = EntryAt(DiskCount + Uncounted)
             /\ exists \/ WriterIn({"create_data"})
             /\ WriterIn({"create_data"}) => DiskCount = 0
             /\ index[2] = MaxCount

\* The entry that is not counted yet addresses the record of the append, and
\* its caller will be answered with the id and the limit it stands for.
AppendUnderWay ==
  WriterIn({"header"}) =>
    /\ op[Writer].id = DiskCount
    /\ HoldsRecord(data, Offset(index, op[Writer].id), op[Writer].payload)
    /\ op[Writer].overlimit = (op[Writer].id + 1 >= MaxCount)

CallKnown ==
  /\ WriterIn({"entry", "header"}) => op[Writer].call = "append"
  /\ WriterIn({"read"}) => op[Writer].call \in {"id", "count", "time"}

StoreInv == WholeInv /\ HandleCurrent /\ EntriesCounted /\ AppendUnderWay /\ CallKnown

LEMMA StoreFacts ==
  ASSUME StoreInv, Present
  PROVE  /\ DiskCount \in Nat /\ DiskCount = index[5] /\ Uncounted \in {0, 1}
         /\ Whole(Contents, index, data, DiskCount + Uncounted)
         /\ Len(index) = EntryAt(DiskCount + Uncounted)
         /\ Len(index) = 5 + 2 * (DiskCount + Uncounted)
         /\ index[2] = MaxCount
         /\ WriterIn({"entry"}) => /\ HoldsRecord(data, op[Writer].offs[1], op[Writer].payload)
                                   /\ Behind(index, data, DiskCount + Uncounted, op[Writer].offs[1])
<1>1. PICK n \in Nat :
           /\ Whole(Contents, index, data, n) /\ Len(index) = 5 + 2 * n
           /\ DiskCount \in Nat /\ DiskCount = index[5]
           /\ WriterIn({"entry"}) => /\ HoldsRecord(data, op[Writer].offs[1], op[Writer].payload)
                                     /\ Behind(index, data, n, op[Writer].offs[1])
  BY WholeEntries DEF StoreInv
<1>2. Uncounted \in {0, 1} /\ Len(index) = EntryAt(DiskCount + Uncounted) /\ index[2] = MaxCount
  BY UncountedType DEF StoreInv, EntriesCounted
<1>3. EntryAt(DiskCount + Uncounted) = 5 + 2 * (DiskCount + Uncounted)
  <2>1. DiskCount + Uncounted \in Nat
    <3> HIDE DEF DiskCount, Uncounted
    <3> QED
      BY <1>1, <1>2
  <2> QED
    BY <2>1, EntryArithmetic
<1>4. n = DiskCount + Uncounted
  <2> HIDE DEF DiskCount, Uncounted
  <2> QED
    BY <1>1, <1>2, <1>3
<1> QED
  BY <1>1, <1>2, <1>3, <1>4

\* The writer goes on with a call that leaves the index.
LEMMA StoreQuiet ==
  ASSUME StoreInv, WholeInv', index' = index, exists' = exists,
         ~WriterIn({"header", "create_data", "destroy_index"}),
         op'[Writer].pc \notin {"header", "create_data", "destroy_index"},
         op'[Writer].pc = "entry" => op'[Writer].call = "append",
         op'[Writer].pc = "read" => op'[Writer].call \in {"id", "count", "time"},
         handle'[Writer].open => exists /\ handle'[Writer].header[MAX_COUNT] = MaxCount
  PROVE  StoreInv'
<1>1. Present' = Present /\ DiskCount' = DiskCount /\ Uncounted = 0 /\ Uncounted' = 0
  BY DEF Present, DiskCount, Uncounted, WriterIn
<1>2. EntriesCounted'
  BY <1>1 DEF StoreInv, EntriesCounted, WriterIn
<1> QED
  BY <1>2 DEF StoreInv, HandleCurrent, AppendUnderWay, CallKnown, WriterIn

\* A step of another process.
LEMMA StoreOther ==
  ASSUME StoreInv, WholeInv', index' = index, data' = data, exists' = exists, op'[Writer] = op[Writer],
         handle'[Writer].open = handle[Writer].open, handle'[Writer].header = handle[Writer].header
  PROVE  StoreInv'
BY DEF StoreInv, HandleCurrent, EntriesCounted, AppendUnderWay, CallKnown, Present, DiskCount, Uncounted, WriterIn

\* A block is created where none is, so its header counts nothing.
LEMMA StoreCreates ==
  ASSUME StoreInv, WholeInv', "recreate" \notin Events, NEW ts \in Times, CreateIndex(ts)
  PROVE  StoreInv'
<1>1. /\ UNCHANGED <<data, exists, handle, acked>>
      /\ ~handle[Writer].open /\ op[Writer].pc \in {"idle", "done"} /\ ~CanOpen
      /\ op'[Writer].pc = "create_data"
      /\ Len(index) < 5 /\ Len(index') >= 5 => Len(index') = 5 /\ index'[5] = 0 /\ index'[2] = MaxCount
      /\ HEADER_SIZE = 5 /\ COUNT = 5 /\ Len(index) \in Nat
  BY CreateEffect, WriterTypes DEF StoreInv, WholeInv
<1>2. Len(index) < 5
  <2>1. ~(Len(index) >= 5)
    BY <1>1 DEF StoreInv, EntriesCounted, Present, CanOpen, WriterIn
  <2> QED
    BY <1>1, <2>1
<1>3. EntriesCounted'
  <2> SUFFICES ASSUME Len(index') >= 5
               PROVE  /\ Len(index') = EntryAt(DiskCount' + Uncounted') /\ DiskCount' = 0 /\ index'[2] = MaxCount
    BY <1>1 DEF EntriesCounted, WriterIn, Present
  <2>1. DiskCount' = 0 /\ Uncounted' = 0 /\ Len(index') = 5 /\ index'[2] = MaxCount
    BY <1>1, <1>2 DEF DiskCount, Uncounted, WriterIn
  <2>2. EntryAt(0 + 0) = 5
    BY EntryArithmetic
  <2> QED
    BY <2>1, <2>2
<1> QED
  BY <1>1, <1>3 DEF StoreInv, HandleCurrent, AppendUnderWay, CallKnown, WriterIn

LEMMA StoreLastStep ==
  ASSUME StoreInv, WholeInv', CreateData \/ DestroyIndex \/ DestroyData
  PROVE  StoreInv'
<1>1. op \in [Procs -> Call] /\ Writer \in Procs
  BY WriterTypes DEF StoreInv, WholeInv
<1>2. CASE CreateData
  <2>1. op'[Writer].pc = "done" /\ handle' = handle /\ index' = index /\ exists' /\ WriterIn({"create_data"})
    BY <1>1, <1>2, ReturnPc DEF CreateData, WriterIn
  <2>2. ~handle'[Writer].open
    BY <2>1 DEF StoreInv, WholeInv, WriterCounts
  <2>3. Present' = Present /\ DiskCount' = DiskCount /\ Uncounted' = Uncounted
    BY <2>1 DEF Present, DiskCount, Uncounted, WriterIn
  <2> QED
    BY <2>1, <2>2, <2>3 DEF StoreInv, HandleCurrent, EntriesCounted, AppendUnderWay, CallKnown, WriterIn
<1>3. CASE DestroyIndex \/ DestroyData
  <2>1. op'[Writer].pc \in {"done", "destroy_index"} /\ ~Present' /\ ~handle'[Writer].open
    <3>1. CASE DestroyIndex
      <4>1. op'[Writer].pc = "done" /\ index' = <<>> /\ handle' = handle /\ WriterIn({"destroy_index"})
        BY <1>1, <3>1, ReturnPc DEF DestroyIndex, WriterIn
      <4>2. Len(<<>>) = 0 /\ HEADER_SIZE = 5
        BY EntryArithmetic
      <4> QED
        BY <4>1, <4>2 DEF StoreInv, WholeInv, WriterCounts, Present
    <3>2. CASE DestroyData
      <4>1. [Idle EXCEPT !.pc = "destroy_index", !.call = "destroy"].pc = "destroy_index"
        BY DEF Idle
      <4> QED
        BY <1>1, <3>2, <4>1 DEF DestroyData, Present, WriterIn
    <3> QED
      BY <1>3, <3>1, <3>2
  <2> QED
    BY <2>1 DEF StoreInv, HandleCurrent, EntriesCounted, AppendUnderWay, CallKnown, WriterIn
<1> QED
  BY <1>2, <1>3

LEMMA StoreAppendsData ==
  ASSUME StoreInv, WholeInv', NEW p \in Payloads, AppendData(p)
  PROVE  StoreInv'
<1>1. /\ index' = index /\ exists' = exists
      /\ op[Writer].pc \in {"idle", "done"} /\ handle[Writer].open
      /\ handle'[Writer].open /\ handle'[Writer].header = handle[Writer].header
      /\ op'[Writer].pc \in {"entry", "done"} /\ op'[Writer].call = "append"
  BY AppendDataEffect DEF StoreInv, WholeInv
<1> QED
  BY <1>1, StoreQuiet DEF StoreInv, HandleCurrent, WriterIn

\* The entry is the one the new id addresses.
LEMMA StoreAppendsEntry ==
  ASSUME StoreInv, WholeInv', "short_entry" \notin Events, NEW ts \in Times, AppendEntry(ts)
  PROVE  StoreInv'
<1> DEFINE off == op[Writer].offs[1]
           p == op[Writer].payload
           count == handle[Writer].header[COUNT]
           limit == handle[Writer].header[MAX_COUNT]
           id == DiskCount
<1>1. /\ data' = data /\ exists' = exists
      /\ op[Writer].pc = "entry" /\ off \in Nat
      /\ Len(index') = Len(index) + 2 /\ index'[Len(index) + 2] = off
      /\ \A i \in 1 .. Len(index) : index'[i] = index[i]
      /\ handle'[Writer].open = handle[Writer].open
      /\ handle'[Writer].header[MAX_COUNT] = limit
      /\ op'[Writer].pc = "header" /\ op'[Writer].call = op[Writer].call
      /\ op'[Writer].id = count /\ op'[Writer].payload = p
      /\ op'[Writer].overlimit = (count + 1 >= limit)
  BY AppendEntryEffect DEF StoreInv, WholeInv
<1>2. handle[Writer].open /\ Present /\ count = id + Uncounted /\ Uncounted = 0 /\ Uncounted' = 1
  BY <1>1 DEF StoreInv, WholeInv, WriterCounts, Uncounted, WriterIn
<1>3. /\ limit = MaxCount /\ exists /\ op[Writer].call = "append"
  BY <1>1, <1>2 DEF StoreInv, HandleCurrent, CallKnown, WriterIn
<1>4. /\ id \in Nat /\ id = index[5] /\ Len(index) = EntryAt(id) /\ Len(index) = 5 + 2 * id
      /\ index[2] = MaxCount /\ HoldsRecord(data, off, p)
  <2>1. id + Uncounted = id
    BY <1>2, StoreFacts
  <2> QED
    BY <1>1, <1>2, <2>1, StoreFacts DEF WriterIn
<1>5. count = id
  BY <1>2, <1>4
<1> HIDE DEF off, p, count, limit
<1>6. Present' /\ DiskCount' = id /\ index'[2] = MaxCount
  <2>1. Len(index') >= 5 /\ 5 \in 1 .. Len(index) /\ 2 \in 1 .. Len(index)
    <3> DEFINE l == Len(index)
               l1 == Len(index')
    <3>1. id \in Nat /\ l = 5 + 2 * id /\ l1 = l + 2
      BY <1>1, <1>4
    <3> HIDE DEF id, l, l1
    <3>2. l1 >= 5 /\ 5 \in 1 .. l /\ 2 \in 1 .. l
      BY <3>1
    <3> QED
      BY <3>2 DEF l, l1
  <2> QED
    BY <1>1, <1>4, <2>1, EntryArithmetic DEF Present, DiskCount, WriterIn
<1>7. Len(index') = EntryAt(DiskCount' + Uncounted')
  <2>1. EntryAt(id + 1) = 5 + 2 * (id + 1)
    <3>1. id \in Nat
      BY <1>4
    <3> HIDE DEF id
    <3>2. id + 1 \in Nat
      BY <3>1
    <3> QED
      BY <3>2, EntryArithmetic
  <2>2. DiskCount' + Uncounted' = id + 1
    BY <1>2, <1>6
  <2> HIDE DEF id
  <2>3. Len(index') = 5 + 2 * (id + 1)
    BY <1>1, <1>4
  <2> QED
    BY <2>1, <2>2, <2>3
<1>8. Offset(index', id) = off
  BY <1>1, <1>4 DEF Offset
<1>9. HandleCurrent' /\ EntriesCounted' /\ CallKnown'
  BY <1>1, <1>3, <1>6, <1>7 DEF HandleCurrent, EntriesCounted, CallKnown, WriterIn, limit
<1>10. AppendUnderWay'
  BY <1>1, <1>3, <1>4, <1>5, <1>6, <1>8 DEF AppendUnderWay, p
<1> QED
  BY <1>9, <1>10 DEF StoreInv

\* The header takes the entry into the count, or the entry goes.
LEMMA StoreAppendsHeader ==
  ASSUME StoreInv, WholeInv', AppendHeader
  PROVE  StoreInv'
<1> DEFINE count == handle[Writer].header[COUNT]
           limit == handle[Writer].header[MAX_COUNT]
           id == DiskCount
<1>1. op[Writer].pc = "header"
  BY DEF AppendHeader
<1>2. handle[Writer].open /\ Present /\ count = id + Uncounted /\ Uncounted = 1
  BY <1>1 DEF StoreInv, WholeInv, WriterCounts, Uncounted, WriterIn
<1>3. /\ id \in Nat /\ id = index[5] /\ Len(index) = EntryAt(id + Uncounted)
      /\ Len(index) = 5 + 2 * (id + Uncounted) /\ index[2] = MaxCount /\ limit = MaxCount /\ exists
  BY <1>1, <1>2, StoreFacts DEF StoreInv, HandleCurrent
<1>4. count = id + 1 /\ EntryAt(id) = 5 + 2 * id /\ Len(index) >= EntryAt(id) /\ Len(index) = EntryAt(id + 1)
  <2>1. EntryAt(id) = 5 + 2 * id
    BY <1>3, EntryArithmetic
  <2> HIDE DEF id
  <2> QED
    BY <1>2, <1>3, <2>1
<1>5. /\ data' = data /\ exists' = exists /\ op'[Writer].pc = "done"
      /\ handle'[Writer].open = handle[Writer].open
      /\ handle'[Writer].header[MAX_COUNT] = limit
      /\ \/ Len(index') = Len(index) /\ index'[5] = id + 1 /\ index'[2] = limit
         \/ Len(index') = EntryAt(id) /\ index'[5] = index[5] /\ index'[2] \in {index[2], limit}
  BY <1>3, <1>4, AppendHeaderEffect DEF StoreInv, WholeInv
<1>6. DiskCount' = index'[5] /\ Uncounted' = 0 /\ index'[2] = MaxCount
  BY <1>3, <1>5 DEF DiskCount, COUNT, Uncounted, WriterIn
<1>7. Len(index') = EntryAt(DiskCount' + Uncounted')
  <2>1. (id + 1) + 0 = id + 1 /\ id + 0 = id
    BY <1>3
  <2> HIDE DEF id
  <2> QED
    BY <1>3, <1>4, <1>5, <1>6, <2>1
<1> QED
  BY <1>3, <1>5, <1>6, <1>7 DEF StoreInv, HandleCurrent, EntriesCounted, AppendUnderWay, CallKnown, WriterIn

LEMMA StoreUpdates ==
  ASSUME StoreInv, WholeInv', NEW id \in Nat, NEW p \in Payloads, Update(id, p)
  PROVE  StoreInv'
<1>1. op[Writer].pc \in {"idle", "done"} /\ handle[Writer].open
  BY DEF Update, Ready
<1>2. Present /\ handle[Writer].header[COUNT] = DiskCount + Uncounted
  BY <1>1 DEF StoreInv, WholeInv, WriterCounts
<1>3. /\ DiskCount + Uncounted \in Nat /\ Len(index) = EntryAt(DiskCount + Uncounted)
      /\ DiskCount + Uncounted <= DiskCount + Uncounted /\ Len(index) >= Len(index)
  <2>1. DiskCount \in Nat /\ Uncounted \in {0, 1} /\ Len(index) = EntryAt(DiskCount + Uncounted) /\ Len(index) \in Nat
    BY <1>2, StoreFacts, WriterTypes DEF StoreInv, WholeInv
  <2> HIDE DEF DiskCount, Uncounted
  <2> QED
    BY <2>1
<1>4. /\ index' = index /\ exists' = exists
      /\ handle'[Writer].open /\ handle'[Writer].header = handle[Writer].header /\ op'[Writer].pc = "done"
  BY <1>2, <1>3, UpdateEffect DEF StoreInv, WholeInv
<1> QED
  BY <1>1, <1>4, StoreQuiet DEF StoreInv, HandleCurrent, WriterIn

\* A handle is opened with the limit on disk.
LEMMA StoreOpensCloses ==
  ASSUME StoreInv, WholeInv', NEW p \in Procs, Open(p) \/ Close(p)
  PROVE  StoreInv'
<1>1. /\ index' = index /\ data' = data /\ exists' = exists /\ index \in Seq(Nat)
      /\ op \in [Procs -> Call] /\ handle \in [Procs -> Handle] /\ Writer \in Procs
  BY WriterTypes DEF StoreInv, WholeInv, Open, Close
<1>2. CASE p # Writer
  <2>1. op'[Writer] = op[Writer] /\ handle'[Writer] = handle[Writer]
    BY <1>1, <1>2 DEF Open, Close
  <2> QED
    BY <1>1, <2>1, StoreOther
<1>3. CASE p = Writer
  <2>1. ~WriterIn({"header", "create_data", "destroy_index"}) /\ op'[Writer].pc = "idle"
    BY <1>1, <1>3 DEF Open, Close, Ready, WriterIn, Idle
  <2>2. handle'[Writer].open => exists /\ handle'[Writer].header[MAX_COUNT] = MaxCount
    <3>1. CASE Open(p)
      <4>1. exists /\ Len(index) >= HEADER_SIZE /\ handle'[Writer].header[MAX_COUNT] = index[2]
        BY <1>1, <1>3, <3>1, CachedCount DEF Open, CanOpen
      <4>2. Present
        BY <2>1, <4>1 DEF Present, WriterIn
      <4> QED
        BY <4>1, <4>2 DEF StoreInv, EntriesCounted
    <3>2. CASE Close(p)
      BY <1>1, <1>3, <3>2 DEF Close, Closed
    <3> QED
      BY <3>1, <3>2
  <2> QED
    BY <1>1, <2>1, <2>2, StoreQuiet
<1> QED
  BY <1>2, <1>3

LEMMA StoreReads ==
  ASSUME StoreInv, WholeInv', NEW p \in Readers, Reads(p)
  PROVE  StoreInv'
<1>1. /\ UNCHANGED <<index, data, exists>>
      /\ op[p].pc \in {"idle", "done", "read"} /\ op'[p].pc \in {"done", "read"}
      /\ \/ op'[p].call \in {"id", "count", "time"}
         \/ op[p].pc = "read" /\ op'[p].call = op[p].call
      /\ handle'[p].open = handle[p].open /\ handle'[p].header = handle[p].header
      /\ \A q \in Procs \ {p} : op'[q] = op[q] /\ handle'[q] = handle[q]
  BY ReaderChanges DEF StoreInv, WholeInv
<1>2. CASE p = Writer
  <2>1. op'[Writer].call \in {"id", "count", "time"}
    BY <1>1, <1>2 DEF StoreInv, CallKnown, WriterIn
  <2> QED
    BY <1>1, <1>2, <2>1, StoreQuiet DEF StoreInv, HandleCurrent, WriterIn
<1>3. CASE p # Writer
  BY <1>1, <1>3, WriterProc, StoreOther
<1> QED
  BY <1>2, <1>3

LEMMA StoreInvInit == Init => StoreInv
<1> SUFFICES ASSUME Init PROVE StoreInv
  OBVIOUS
<1>1. op[Writer].pc = "idle" /\ ~handle[Writer].open
  BY WriterProc DEF Init, Idle, Closed
<1>2. ~Present
  <2>1. Len(<<>>) = 0 /\ HEADER_SIZE = 5
    BY EntryArithmetic
  <2> QED
    BY <2>1 DEF Init, Present
<1> QED
  BY <1>1, <1>2, WholeInvInit DEF StoreInv, HandleCurrent, EntriesCounted, AppendUnderWay, CallKnown, WriterIn

LEMMA StoreInvStep ==
  ASSUME Events \subseteq Tolerated
  PROVE  StoreInv /\ [Next]_vars => StoreInv'
<1> SUFFICES ASSUME StoreInv, [Next]_vars PROVE StoreInv'
  OBVIOUS
<1>0. /\ "short_entry" \notin Events /\ "crash" \notin Events /\ "past_end" \notin Events
      /\ "recreate" \notin Events
  BY DEF Tolerated
<1>1. WholeInv'
  BY <1>0, WholeInvStep DEF StoreInv, WholeEvents
<1>2. ASSUME WriterStep PROVE StoreInv'
  <2>1. \A id \in 0 .. handle[Writer].header[COUNT] : id \in Nat
    BY WriterTypes DEF StoreInv, WholeInv
  <2> QED
    BY <1>0, <1>1, <1>2, <2>1, StoreCreates, StoreLastStep, StoreAppendsData, StoreAppendsEntry,
       StoreAppendsHeader, StoreUpdates DEF WriterStep
<1>3. ASSUME NEW p \in Readers, Reads(p) PROVE StoreInv'
  BY <1>1, <1>3, StoreReads
<1>4. CASE UNCHANGED vars
  BY <1>1, <1>4, StoreOther DEF vars
<1> QED
  BY <1>0, <1>1, <1>2, <1>3, <1>4, StoreOpensCloses, ReaderSteps DEF Next, Crash

\* The header counts exactly the entries of the index file between two
\* appends (sea_block_index_append and its rollback), whatever appends and
\* updates fail: header.count is "number of index entries in this index file".
THEOREM CountStaysExact == Events \subseteq Tolerated => (Spec => []CountIsEntries)
<1> SUFFICES ASSUME Events \subseteq Tolerated PROVE Spec => []CountIsEntries
  OBVIOUS
<1>1. StoreInv /\ [Next]_vars => StoreInv'
  BY StoreInvStep
<1>2. StoreInv => CountIsEntries
  <2> SUFFICES ASSUME StoreInv, CanOpen, ~WriterIn({"header", "create_data", "destroy_index"})
               PROVE  Len(index) = EntryAt(DiskCount)
    BY DEF CountIsEntries, WriterIn
  <2>1. Present /\ Uncounted = 0
    BY DEF CanOpen, Present, Uncounted, WriterIn
  <2>2. DiskCount + Uncounted = DiskCount
    BY <2>1, StoreFacts
  <2> QED
    BY <2>1, <2>2, StoreFacts
<1> QED
  BY StoreInvInit, <1>1, <1>2, PTL DEF Spec

-----------------------------------------------------------------------------
(* The store a client sees: the payloads of the counted records.           *)

Length == IF CanOpen THEN DiskCount ELSE 0

\* s is what the records of the block hold, in the order of their ids.
Stored(s) ==
  /\ s \in Seq(Seq(Cell)) /\ Len(s) = Length
  /\ \A id \in 0 .. Length - 1 : HoldsRecord(data, Offset(index, id), s[id + 1])

\* The acknowledged payloads are among them.
AckedIn(s) == \A id \in DOMAIN acked : id \in 0 .. Len(s) - 1 /\ s[id + 1] = acked[id]

LEMMA LengthFacts ==
  StoreInv =>
    /\ Length \in Nat /\ (CanOpen <=> exists /\ Present)
    /\ Length # 0 => /\ exists /\ Present /\ Length = DiskCount /\ ~WriterIn({"create_data"})
                     /\ Whole(Contents, index, data, DiskCount + Uncounted)
    /\ Present /\ ~WriterIn({"create_data"}) => Length = DiskCount /\ exists
<1> SUFFICES ASSUME StoreInv
             PROVE  /\ Length \in Nat /\ (CanOpen <=> exists /\ Present)
                    /\ Length # 0 => /\ exists /\ Present /\ Length = DiskCount /\ ~WriterIn({"create_data"})
                                     /\ Whole(Contents, index, data, DiskCount + Uncounted)
                    /\ Present /\ ~WriterIn({"create_data"}) => Length = DiskCount /\ exists
  OBVIOUS
<1>1. CanOpen <=> exists /\ Present
  BY DEF CanOpen, Present, StoreInv, WholeInv, WriterCounts
<1>2. Present => /\ DiskCount \in Nat /\ Whole(Contents, index, data, DiskCount + Uncounted)
                 /\ exists \/ WriterIn({"create_data"})
                 /\ WriterIn({"create_data"}) => DiskCount = 0
  BY StoreFacts DEF StoreInv, EntriesCounted
<1>3. 0 \in Nat
  OBVIOUS
<1> HIDE DEF DiskCount, Present, Uncounted, CanOpen
<1> QED
  BY <1>1, <1>2, <1>3 DEF Length

\* A handle opened now reads the stored payloads.
LEMMA VisibleIs == \A s : StoreInv /\ Stored(s) => Visible = s
<1> SUFFICES ASSUME StoreInv, NEW s, Stored(s) PROVE Visible = s
  OBVIOUS
<1>1. /\ index \in Seq(Nat) /\ data \in Seq(Cell) /\ s \in Seq(Seq(Cell)) /\ Len(s) = Length
  BY WriterTypes DEF StoreInv, WholeInv, Stored
<1>2. CASE ~CanOpen
  <2>1. Len(s) = 0
    BY <1>1, <1>2 DEF Length
  <2> QED
    BY <1>1, <1>2, <2>1 DEF Visible
<1>3. CASE CanOpen
  <2>1. Present /\ Length = DiskCount
    BY <1>3, LengthFacts DEF Length
  <2>2. Len(s) = DiskCount /\ DiskCount \in Nat /\ Len(index) >= HEADER_SIZE
    BY <1>1, <2>1, StoreFacts DEF Present
  <2> DEFINE list(id) == IndexQueryByRecordId(ReadAt(index, 0, HEADER_SIZE), index, id)
             payload(i) == ReadRecord(data, 0, list(i - 1).offs[1]).payload
  <2>3. ASSUME NEW i \in 1 .. DiskCount PROVE payload(i) = s[i]
    <3> DEFINE id == i - 1
               off == Offset(index, id)
    <3>1. id \in 0 .. DiskCount - 1 /\ id \in Nat /\ id < DiskCount /\ id + 1 = i
      <4> HIDE DEF DiskCount
      <4> QED
        BY <2>2, <2>3
    <3>2. off \in Nat /\ EntryAt(id) + 2 <= Len(index)
      <4>1. Uncounted \in {0, 1} /\ Len(index) = 5 + 2 * (DiskCount + Uncounted)
        BY <2>1, StoreFacts
      <4>2. EntryAt(id) = 5 + 2 * id
        BY <3>1, EntryArithmetic
      <4> DEFINE l == Len(index)
                 n == DiskCount
                 e == EntryAt(id)
                 u == Uncounted
      <4>3. /\ e = 5 + 2 * id /\ l = 5 + 2 * (n + u) /\ u \in {0, 1} /\ n \in Nat
            /\ id \in Nat /\ id < n
        BY <2>2, <3>1, <4>1, <4>2
      <4> HIDE DEF l, n, e, id, u
      <4>4. e + 2 \in 1 .. l
        BY <4>3
      <4> HIDE DEF off
      <4>5. EntryAt(id) + 2 \in 1 .. Len(index)
        BY <4>4 DEF e, l
      <4> QED
        BY <1>1, <4>5 DEF off, Offset
    <3>3. ~PastEnd(ReadAt(index, 0, HEADER_SIZE), id)
      <4>1. ReadAt(index, 0, HEADER_SIZE)[COUNT] = DiskCount
        BY <1>1, <2>2, CachedCount DEF CachedHeader
      <4> HIDE DEF DiskCount, id
      <4> QED
        BY <2>2, <3>1, <4>1 DEF PastEnd
    <3>4. list(id).offs[1] = off
      <4> HIDE DEF id, off
      <4> QED
        BY <1>1, <3>1, <3>2, <3>3, QueryFindsEntry DEF off
    <3>5. HoldsRecord(data, off, s[i]) /\ s[i] \in Seq(Cell)
      <4>1. HoldsRecord(data, off, s[id + 1])
        BY <2>1, <3>1 DEF Stored
      <4>2. s[i] \in Seq(Cell)
        BY <1>1, <2>2, <2>3
      <4> QED
        BY <3>1, <4>1, <4>2
    <3>6. ReadRecord(data, 0, off).payload = s[i]
      <4> HIDE DEF off
      <4> QED
        BY <1>1, <3>2, <3>5, ReadRecordWhole
    <3> QED
      BY <3>4, <3>6
  <2>4. Visible = [i \in 1 .. DiskCount |-> payload(i)]
    BY <1>3 DEF Visible
  <2> HIDE DEF payload, DiskCount
  <2>5. Visible = [i \in 1 .. DiskCount |-> s[i]]
    BY <2>3, <2>4
  <2>6. s = [i \in 1 .. Len(s) |-> s[i]]
    BY <1>1
  <2> QED
    BY <2>2, <2>5, <2>6
<1> QED
  BY <1>2, <1>3

\* There are stored payloads.
LEMMA StoredExists == StoreInv => \E s : Stored(s)
<1> SUFFICES ASSUME StoreInv PROVE \E s : Stored(s)
  OBVIOUS
<1> DEFINE held(id) == CHOOSE p \in Seq(Cell) : HoldsRecord(data, Offset(index, id), p)
           s == [i \in 1 .. Length |-> held(i - 1)]
<1>1. Length \in Nat
  BY LengthFacts
<1>2. ASSUME NEW id \in 0 .. Length - 1
      PROVE  held(id) \in Seq(Cell) /\ HoldsRecord(data, Offset(index, id), held(id))
  <2>1. \E p \in Seq(Cell) : HoldsRecord(data, Offset(index, id), p)
    <3>1. Length # 0
      BY <1>1, <1>2
    <3>2. Whole(Contents, index, data, DiskCount + Uncounted) /\ Length = DiskCount /\ Present
      BY <3>1, LengthFacts
    <3>3. Uncounted \in {0, 1} /\ DiskCount \in Nat
      BY <3>2, StoreFacts
    <3>4. id \in 0 .. (DiskCount + Uncounted) - 1 /\ DiskCount + Uncounted \in Nat
      <4> HIDE DEF DiskCount, Uncounted, Length
      <4> QED
        BY <1>1, <1>2, <3>2, <3>3
    <3>5. index \in Seq(Nat) /\ data \in Seq(Cell)
      BY WriterTypes DEF StoreInv, WholeInv
    <3>6. \E p \in Contents : HoldsRecord(data, Offset(index, id), p)
      <4> HIDE DEF DiskCount, Uncounted, Length
      <4> QED
        BY <3>2, <3>4, <3>5, ContentsType, WholeRecord
    <3> QED
      BY <3>6, ContentsType
  <2> QED
    BY <2>1
<1> HIDE DEF held, Length
<1>3. s \in Seq(Seq(Cell)) /\ Len(s) = Length
  <2>1. \A i \in 1 .. Length : i - 1 \in 0 .. Length - 1
    BY <1>1
  <2> QED
    BY <1>1, <1>2, <2>1
<1>4. ASSUME NEW id \in 0 .. Length - 1 PROVE s[id + 1] = held(id)
  <2>1. id + 1 \in 1 .. Length /\ (id + 1) - 1 = id
    BY <1>1, <1>4
  <2> QED
    BY <2>1
<1> QED
  BY <1>2, <1>3, <1>4 DEF Stored

-----------------------------------------------------------------------------
(* Every step of the block is one of the abstract store.                   *)

\* A step of the store, on whose result the acknowledged payloads still are.
StoreStep == [Store!Next]_(Store!vars) /\ (AckedIn(Visible) => AckedIn(Visible)')

LEMMA VisibleThen == (\A s : StoreInv /\ Stored(s) => Visible = s)'
BY VisibleIs, PTL

LEMMA VisibleBoth ==
  ASSUME StoreInv, StoreInv', NEW s, NEW t, Stored(s), Stored(t)'
  PROVE  Visible = s /\ Visible' = t
<1>1. Visible = s
  BY VisibleIs
<1>2. StoreInv' /\ Stored(t)' => Visible' = t
  BY VisibleThen
<1> QED
  BY <1>1, <1>2

\* Where the entries of the counted records are.
LEMMA StoredOffset ==
  ASSUME StoreInv, NEW id \in 0 .. Length - 1
  PROVE  /\ id \in Nat /\ Offset(index, id) \in Nat
         /\ EntryAt(id) + 2 \in 6 .. EntryAt(Length) /\ EntryAt(Length) <= Len(index)
         /\ Length # 0 /\ Present /\ exists /\ Length = DiskCount /\ ~WriterIn({"create_data"})
<1>1. Length \in Nat /\ Length # 0 /\ id \in Nat /\ id < Length
  BY LengthFacts
<1>2. Present /\ Length = DiskCount /\ exists /\ ~WriterIn({"create_data"})
  BY <1>1, LengthFacts
<1>3. Uncounted \in {0, 1} /\ Len(index) = 5 + 2 * (Length + Uncounted) /\ index \in Seq(Nat)
  BY <1>2, StoreFacts, WriterTypes DEF StoreInv, WholeInv
<1> DEFINE l == Len(index)
           e == EntryAt(id)
           m == EntryAt(Length)
           n == Length
           u == Uncounted
<1>4. e = 5 + 2 * id /\ m = 5 + 2 * n /\ l = 5 + 2 * (n + u) /\ u \in {0, 1} /\ n \in Nat /\ id \in Nat /\ id < n
  BY <1>1, <1>3, EntryArithmetic
<1> HIDE DEF l, e, m, n, u
<1>5. e + 2 \in 6 .. m /\ m <= l /\ e + 2 \in 1 .. l
  BY <1>4
<1>6. Offset(index, id) \in Nat
  BY <1>3, <1>5 DEF Offset, e, l
<1> QED
  BY <1>1, <1>2, <1>5, <1>6 DEF e, l, m, n

\* The files grow behind what is counted.
LEMMA StoredKept ==
  ASSUME StoreInv, NEW s, Stored(s), Length' = Length, data' \in Seq(Cell), Len(data) <= Len(data'),
         \A i \in 1 .. Len(data) : data'[i] = data[i],
         \A i \in 6 .. EntryAt(Length) : index'[i] = index[i]
  PROVE  Stored(s)'
<1>1. data \in Seq(Cell) /\ s \in Seq(Seq(Cell)) /\ Len(s) = Length /\ Length \in Nat
  BY WriterTypes, LengthFacts DEF StoreInv, WholeInv, Stored
<1>2. ASSUME NEW id \in 0 .. Length - 1 PROVE HoldsRecord(data', Offset(index', id), s[id + 1])
  <2>1. Offset(index, id) \in Nat /\ Offset(index', id) = Offset(index, id)
    BY <1>2, StoredOffset DEF Offset
  <2>2. HoldsRecord(data, Offset(index, id), s[id + 1])
    BY <1>2 DEF Stored
  <2>3. s[id + 1] \in Seq(Cell)
    <3>1. id + 1 \in 1 .. Len(s)
      <4> HIDE DEF Length
      <4> QED
        BY <1>1, <1>2
    <3> QED
      BY <1>1, <3>1
  <2> QED
    BY <1>1, <2>1, <2>2, <2>3, HoldsRecordStable
<1> QED
  BY <1>1, <1>2 DEF Stored

\* Nothing a client can see changes.
LEMMA StoreStands ==
  ASSUME StoreInv, StoreInv', NEW s, Stored(s), Stored(s)', acked' = acked
  PROVE  Visible' = Visible /\ (AckedIn(Visible) => AckedIn(Visible)')
<1>1. Visible = s /\ Visible' = s
  BY VisibleBoth
<1> QED
  BY <1>1 DEF AckedIn

\* The writer does something else than an append, on an unchanged store.
LEMMA StoreProceeds ==
  ASSUME StoreInv, StoreInv', NEW s, Stored(s), Stored(s)', acked' = acked,
         ~WriterIn({"entry", "header"}), op'[Writer].pc \notin {"entry", "header"},
         op'[Writer].pc = "done" => op'[Writer].call # "append"
  PROVE  StoreStep
<1>1. CallerView' = NoCall
  BY DEF CallerView
<1>2. ~Store!InAppend
  BY DEF CallerView, Store!InAppend, NoCall, WriterIn
<1>3. Store!Next
  BY <1>1, <1>2, StoreStands DEF Store!Next, Store!Proceed
<1> QED
  BY <1>3, StoreStands DEF StoreStep

LEMMA StoreStutters ==
  ASSUME StoreInv, StoreInv', NEW s, Stored(s), Stored(s)', acked' = acked, CallerView' = CallerView
  PROVE  StoreStep
<1>1. UNCHANGED Store!vars
  BY StoreStands DEF Store!vars
<1> QED
  BY <1>1, StoreStands DEF StoreStep

\* The files are not written, and their writer is not in an append.
LEMMA StepQuiet ==
  ASSUME StoreInv, StoreInv', NEW s, Stored(s), UNCHANGED <<index, data, exists, acked>>,
         \/ op'[Writer] = op[Writer]
         \/ /\ ~WriterIn({"entry", "header"}) /\ op'[Writer].pc \notin {"entry", "header"}
            /\ op'[Writer].pc = "done" => op'[Writer].call # "append"
  PROVE  StoreStep
<1>1. Stored(s)'
  BY DEF Stored, Length, CanOpen, DiskCount
<1>2. CASE op'[Writer] = op[Writer]
  <2>1. CallerView' = CallerView
    BY <1>2 DEF CallerView
  <2> QED
    BY <1>1, <2>1, StoreStutters
<1> QED
  BY <1>1, <1>2, StoreProceeds

\* An empty block stays empty while it is created, and after it is destroyed.
LEMMA StepEmpty ==
  ASSUME StoreInv, StoreInv', NEW s, Stored(s), \/ \E ts \in Times : CreateIndex(ts)
                                                \/ CreateData \/ DestroyIndex,
         "recreate" \notin Events
  PROVE  StoreStep
<1>1. op \in [Procs -> Call] /\ Writer \in Procs
  BY WriterTypes DEF StoreInv, WholeInv
<1>2. /\ Length = 0 /\ Length' = 0 /\ acked' = acked
      /\ ~WriterIn({"entry", "header"}) /\ op'[Writer].pc \notin {"entry", "header"}
      /\ op'[Writer].pc = "done" => op'[Writer].call # "append"
  <2>1. ASSUME NEW ts \in Times, CreateIndex(ts)
        PROVE  /\ ~CanOpen /\ op'[Writer].pc = "create_data" /\ acked' = acked
               /\ ~WriterIn({"entry", "header"}) /\ exists' = exists
    BY <2>1, CreateEffect DEF StoreInv, WholeInv, WriterIn
  <2>2. ASSUME CreateData
        PROVE  /\ WriterIn({"create_data"}) /\ op'[Writer].pc = "done" /\ op'[Writer].call = "create"
               /\ acked' = acked /\ index' = index
    BY <1>1, <2>2, ReturnPc DEF CreateData, WriterIn
  <2>3. ASSUME DestroyIndex
        PROVE  /\ WriterIn({"destroy_index"}) /\ op'[Writer].pc = "done" /\ op'[Writer].call = "destroy"
               /\ acked' = acked /\ exists' = exists
    BY <1>1, <2>3, ReturnPc DEF DestroyIndex, WriterIn
  <2>4. CASE \E ts \in Times : CreateIndex(ts)
    <3>1. Length = 0 /\ op'[Writer].pc = "create_data"
      BY <2>1, <2>4 DEF Length
    <3>2. Length' = 0
      BY <3>1 DEF Length, CanOpen, StoreInv, EntriesCounted, Present, WriterIn
    <3> QED
      BY <2>1, <2>4, <3>1, <3>2
  <2>5. CASE CreateData
    <3>1. WriterIn({"create_data"}) /\ op'[Writer].pc = "done" /\ index' = index
      BY <2>2, <2>5
    <3>2. Length = 0 /\ Length' = 0
      BY <3>1 DEF Length, CanOpen, StoreInv, EntriesCounted, Present, WriterIn, DiskCount
    <3> QED
      BY <2>2, <2>5, <3>2 DEF WriterIn
  <2>6. CASE DestroyIndex
    <3>1. ~exists /\ ~exists'
      BY <2>3, <2>6 DEF StoreInv, WholeInv, WriterCounts
    <3> QED
      BY <2>3, <2>6, <3>1 DEF Length, CanOpen, WriterIn
  <2> QED
    BY <2>4, <2>5, <2>6
<1>3. Stored(<<>>) /\ Stored(<<>>)'
  <2>1. <<>> \in Seq(Seq(Cell)) /\ Len(<<>>) = 0 /\ 0 .. 0 - 1 = {}
    OBVIOUS
  <2> QED
    BY <1>2, <2>1 DEF Stored
<1> QED
  BY <1>2, <1>3, StoreProceeds

\* sea_block_destroy clears the store at once.
LEMMA StepDestroys ==
  ASSUME StoreInv, StoreInv', NEW s, Stored(s), DestroyData
  PROVE  StoreStep
<1>1. ~exists' /\ acked' = <<>> /\ op'[Writer].pc = "destroy_index" /\ ~WriterIn({"entry", "header"})
  <2>1. op \in [Procs -> Call] /\ Writer \in Procs
    BY WriterTypes DEF StoreInv, WholeInv
  <2>2. [Idle EXCEPT !.pc = "destroy_index", !.call = "destroy"].pc = "destroy_index"
    BY DEF Idle
  <2> QED
    BY <2>1, <2>2 DEF DestroyData, Ready, WriterIn
<1>2. Stored(<<>>)'
  <2>1. <<>> \in Seq(Seq(Cell)) /\ Len(<<>>) = 0 /\ 0 .. 0 - 1 = {}
    OBVIOUS
  <2> QED
    BY <1>1, <2>1 DEF Stored, Length, CanOpen
<1>3. Visible' = <<>>
  BY <1>2, VisibleBoth
<1>4. CallerView' = NoCall /\ ~Store!InAppend
  BY <1>1 DEF CallerView, Store!InAppend, NoCall, WriterIn
<1>5. Store!Next
  BY <1>3, <1>4 DEF Store!Next, Store!Clear
<1>6. AckedIn(Visible)'
  <2>1. DOMAIN <<>> = {}
    OBVIOUS
  <2> QED
    BY <1>1, <2>1 DEF AckedIn
<1> QED
  BY <1>5, <1>6 DEF StoreStep

\* An append begins, or fails at the data file: nothing is counted yet.
LEMMA StepAppendsData ==
  ASSUME StoreInv, StoreInv', NEW s, Stored(s), NEW p \in Payloads, AppendData(p)
  PROVE  StoreStep
<1>1. /\ UNCHANGED <<index, exists, acked>>
      /\ op[Writer].pc \in {"idle", "done"}
      /\ data' \in Seq(Cell) /\ Len(data) <= Len(data')
      /\ \A i \in 1 .. Len(data) : data'[i] = data[i]
      /\ \/ op'[Writer].pc = "entry" /\ op'[Writer].payload = p
         \/ op'[Writer].pc = "done" /\ op'[Writer].call = "append" /\ op'[Writer].ret = "error"
  BY AppendDataEffect DEF StoreInv, WholeInv
<1>2. Stored(s)'
  <2>1. Length' = Length /\ \A i \in 6 .. EntryAt(Length) : index'[i] = index[i]
    BY <1>1 DEF Length, CanOpen, DiskCount
  <2> QED
    BY <1>1, <2>1, StoredKept
<1>3. ~Store!InAppend
  BY <1>1 DEF CallerView, Store!InAppend, NoCall
<1>4. Visible' = Visible /\ (AckedIn(Visible) => AckedIn(Visible)')
  BY <1>1, <1>2, StoreStands
<1>5. CASE op'[Writer].pc = "entry" /\ op'[Writer].payload = p
  <2>1. CallerView' = Store!Busy(p)
    BY <1>5 DEF CallerView, Store!Busy
  <2>2. Store!Request(p)
    BY <1>3, <1>4, <2>1 DEF Store!Request
  <2> QED
    BY <1>4, <2>2 DEF StoreStep, Store!Next
<1>6. CASE op'[Writer].pc = "done" /\ op'[Writer].call = "append" /\ op'[Writer].ret = "error"
  <2>1. CallerView' = Store!Failed
    BY <1>6 DEF CallerView, Store!Failed
  <2>2. Store!Refuse
    BY <1>4, <2>1 DEF Store!Refuse
  <2> QED
    BY <1>4, <2>2 DEF StoreStep, Store!Next
<1> QED
  BY <1>1, <1>5, <1>6

\* The entry is not counted yet.
LEMMA StepAppendsEntry ==
  ASSUME StoreInv, StoreInv', NEW s, Stored(s), "short_entry" \notin Events, NEW ts \in Times, AppendEntry(ts)
  PROVE  StoreStep
<1>1. /\ UNCHANGED <<data, exists, acked>>
      /\ op[Writer].pc = "entry" /\ op'[Writer].pc = "header" /\ op'[Writer].payload = op[Writer].payload
      /\ Len(index') = Len(index) + 2
      /\ \A i \in 1 .. Len(index) : index'[i] = index[i]
  BY AppendEntryEffect DEF StoreInv, WholeInv
<1>2. Present /\ Present' /\ data \in Seq(Cell) /\ Len(data) \in Nat /\ Len(index) \in Nat
  BY <1>1, WriterTypes DEF StoreInv, WholeInv, WriterCounts, WriterIn
<1>3. DiskCount' = DiskCount
  <2>1. 5 \in 1 .. Len(index)
    BY <1>2, EntryArithmetic DEF Present
  <2> QED
    BY <1>1, <2>1, EntryArithmetic DEF DiskCount
<1>4. Length' = Length
  BY <1>1, <1>2, <1>3 DEF Length, CanOpen, Present
<1>5. \A i \in 6 .. EntryAt(Length) : i \in 1 .. Len(index)
  <2> SUFFICES ASSUME NEW i \in 6 .. EntryAt(Length) PROVE i \in 1 .. Len(index)
    OBVIOUS
  <2>1. Length \in Nat
    BY LengthFacts
  <2>2. CASE Length = 0
    <3>1. EntryAt(0) = 5
      BY EntryArithmetic
    <3> QED
      BY <2>2, <3>1
  <2>3. CASE Length # 0
    <3>1. EntryAt(Length) <= Len(index)
      <4>1. 0 \in 0 .. Length - 1
        <5> HIDE DEF Length
        <5> QED
          BY <2>1, <2>3
      <4> QED
        BY <4>1, StoredOffset
    <3>2. EntryAt(Length) = 5 + 2 * Length
      BY <2>1, EntryArithmetic
    <3> HIDE DEF Length
    <3> QED
      BY <1>2, <2>1, <3>1, <3>2
  <2> QED
    BY <2>2, <2>3
<1>6. Stored(s)'
  BY <1>1, <1>2, <1>4, <1>5, StoredKept
<1>7. CallerView' = CallerView
  BY <1>1 DEF CallerView
<1> QED
  BY <1>1, <1>6, <1>7, StoreStutters

\* The write of the header is where the append takes effect; if it fails, the
\* append has none.
LEMMA StepAppendsHeader ==
  ASSUME StoreInv, StoreInv', NEW s, Stored(s), AppendHeader
  PROVE  StoreStep
<1> DEFINE id == DiskCount
           p == op[Writer].payload
<1>1. op[Writer].pc = "header" /\ p \in Payloads
  BY WriterTypes, TypeInvFacts DEF AppendHeader, InCall, StoreInv, WholeInv
<1>2. /\ handle[Writer].open /\ Present /\ ~WriterIn({"create_data"}) /\ Uncounted = 1
      /\ handle[Writer].header[COUNT] = id + Uncounted
      /\ op[Writer].id = id /\ HoldsRecord(data, Offset(index, id), p)
      /\ op[Writer].overlimit = (id + 1 >= MaxCount) /\ op[Writer].call = "append"
  BY <1>1 DEF StoreInv, WholeInv, WriterCounts, Uncounted, WriterIn, AppendUnderWay, CallKnown
<1>3. /\ id \in Nat /\ id = index[5] /\ Length = id /\ exists /\ COUNT = 5
      /\ Len(index) = 5 + 2 * (id + Uncounted) /\ index \in Seq(Nat) /\ data \in Seq(Cell)
      /\ Len(data) \in Nat /\ s \in Seq(Seq(Cell)) /\ Len(s) = id /\ p \in Seq(Cell)
  BY <1>1, <1>2, StoreFacts, LengthFacts, WriterTypes, PayloadType DEF StoreInv, WholeInv, Stored
<1>4. EntryAt(id) = 5 + 2 * id /\ Len(index) >= EntryAt(id) /\ handle[Writer].header[COUNT] = id + 1
  <2>1. EntryAt(id) = 5 + 2 * id
    BY <1>3, EntryArithmetic
  <2> HIDE DEF id
  <2> QED
    BY <1>2, <1>3, <2>1
<1>5. /\ UNCHANGED <<data, exists>> /\ op'[Writer].pc = "done"
      /\ \/ /\ op'[Writer].ret = "ok" /\ op'[Writer].call = "append"
            /\ op'[Writer].id = id /\ op'[Writer].payload = p
            /\ op'[Writer].overlimit = (id + 1 >= MaxCount)
            /\ acked' = [i \in DOMAIN acked \cup {id} |-> IF i = id THEN p ELSE acked[i]]
            /\ Len(index') = Len(index) /\ index'[5] = id + 1
            /\ \A i \in 6 .. Len(index) : index'[i] = index[i]
         \/ /\ op'[Writer].ret = "error" /\ op'[Writer].call = "append" /\ acked' = acked
            /\ Len(index') = EntryAt(id) /\ index'[5] = index[5]
            /\ \A i \in 6 .. EntryAt(id) : index'[i] = index[i]
  <2>1. TypeInv /\ AppendHeader
    BY DEF StoreInv, WholeInv
  <2> HIDE DEF id
  <2>2. /\ UNCHANGED <<data, exists>> /\ op'[Writer].pc = "done"
        /\ \/ /\ op'[Writer].ret = "ok" /\ op'[Writer].call = op[Writer].call
              /\ op'[Writer].id = op[Writer].id /\ op'[Writer].payload = p
              /\ op'[Writer].overlimit = op[Writer].overlimit
              /\ acked' = [i \in DOMAIN acked \cup {op[Writer].id} |->
                             IF i = op[Writer].id THEN p ELSE acked[i]]
              /\ Len(index') = Len(index) /\ index'[5] = id + 1
              /\ \A i \in 6 .. Len(index) : index'[i] = index[i]
           \/ /\ op'[Writer].ret = "error" /\ op'[Writer].call = "append" /\ acked' = acked
              /\ Len(index') = EntryAt(id) /\ index'[5] = index[5]
              /\ \A i \in 6 .. EntryAt(id) : index'[i] = index[i]
    BY <1>3, <1>4, <2>1, AppendHeaderEffect
  <2> HIDE DEF p
  <2> QED
    BY <1>2, <2>2
<1>6. DiskCount' = index'[5] /\ CanOpen' /\ Length' = index'[5]
  <2>1. DiskCount' = index'[5] /\ HEADER_SIZE = 5
    BY <1>3, EntryArithmetic DEF DiskCount
  <2>2. Len(index') >= 5
    <3> HIDE DEF id
    <3> QED
      BY <1>2, <1>3, <1>4, <1>5
  <2> QED
    BY <1>3, <1>5, <2>1, <2>2 DEF CanOpen, Length
<1>7. CASE /\ op'[Writer].ret = "ok" /\ op'[Writer].call = "append"
           /\ op'[Writer].id = id /\ op'[Writer].payload = p
           /\ op'[Writer].overlimit = (id + 1 >= MaxCount)
           /\ acked' = [i \in DOMAIN acked \cup {id} |-> IF i = id THEN p ELSE acked[i]]
           /\ Len(index') = Len(index) /\ index'[5] = id + 1
           /\ \A i \in 6 .. Len(index) : index'[i] = index[i]
  <2> HIDE DEF id, p
  <2>0. PICK t : t = Append(s, p)
    OBVIOUS
  <2>1. /\ t \in Seq(Seq(Cell)) /\ Len(t) = id + 1 /\ t[id + 1] = p
        /\ \A i \in 0 .. id - 1 : t[i + 1] = s[i + 1]
    BY <1>3, <2>0
  <2>2. ASSUME NEW i \in 0 .. id PROVE Offset(index', i) = Offset(index, i)
    <3>1. i \in Nat /\ i <= id
      BY <1>3, <2>2
    <3>2. EntryAt(i) = 5 + 2 * i
      BY <3>1, EntryArithmetic
    <3> DEFINE e == EntryAt(i)
               l == Len(index)
    <3>3. e = 5 + 2 * i /\ l = 5 + 2 * (id + 1)
      BY <1>2, <1>3, <3>2
    <3> HIDE DEF e, l
    <3>4. e + 2 \in 6 .. l
      <4>1. id \in Nat
        BY <1>3
      <4> QED
        BY <3>1, <3>3, <4>1
    <3> QED
      BY <1>7, <3>4 DEF Offset, e, l
  <2>3. ASSUME NEW i \in 0 .. id PROVE HoldsRecord(data, Offset(index, i), t[i + 1])
    <3>1. CASE i = id
      BY <1>2, <2>1, <3>1
    <3>2. CASE i # id
      <4>1. i \in 0 .. id - 1
        BY <1>3, <2>3, <3>2
      <4>2. HoldsRecord(data, Offset(index, i), s[i + 1])
        BY <1>3, <4>1 DEF Stored
      <4> QED
        BY <2>1, <4>1, <4>2
    <3> QED
      BY <3>1, <3>2
  <2>4. Stored(t)'
    <3>1. Length' = id + 1 /\ (id + 1) - 1 = id
      BY <1>3, <1>6, <1>7
    <3> QED
      BY <1>5, <2>1, <2>2, <2>3, <3>1 DEF Stored
  <2>5. Visible = s /\ Visible' = t
    BY <2>4, VisibleBoth
  <2>6. CallerView = Store!Busy(p)
    BY <1>1 DEF CallerView, Store!Busy, p
  <2>7. CallerView' = Store!Answer(p, id)
    BY <1>5, <1>7 DEF CallerView, Store!Answer
  <2>8. Store!Commit
    <3>1. CallerView # NoCall /\ CallerView.pc = "busy" /\ CallerView.payload = p
      BY <2>6 DEF NoCall, Store!Busy
    <3> QED
      BY <1>3, <2>0, <2>5, <2>7, <3>1 DEF Store!Commit, Store!InAppend
  <2>9. AckedIn(s) => AckedIn(t)'
    <3> SUFFICES ASSUME AckedIn(s), NEW i \in DOMAIN acked' PROVE i \in 0 .. Len(t) - 1 /\ t[i + 1] = acked'[i]
      BY DEF AckedIn
    <3>1. CASE i = id
      <4>1. acked'[i] = p
        BY <1>7, <3>1
      <4>2. i \in 0 .. Len(t) - 1
        BY <1>3, <2>1, <3>1
      <4> QED
        BY <2>1, <3>1, <4>1, <4>2
    <3>2. CASE i # id
      <4>1. i \in DOMAIN acked /\ acked'[i] = acked[i]
        BY <1>7, <3>2
      <4>2. i \in 0 .. id - 1 /\ s[i + 1] = acked[i]
        BY <1>3, <4>1 DEF AckedIn
      <4>3. i \in 0 .. Len(t) - 1
        <5>1. id \in Nat /\ i \in 0 .. id - 1 /\ Len(t) = id + 1
          BY <1>3, <2>1, <4>2
        <5>2. i \in 0 .. id
          BY <5>1
        <5> QED
          BY <5>1, <5>2
      <4>4. t[i + 1] = s[i + 1]
        BY <2>1, <4>2
      <4> QED
        BY <4>1, <4>2, <4>3, <4>4
    <3> QED
      BY <3>1, <3>2
  <2> QED
    BY <2>5, <2>8, <2>9 DEF StoreStep, Store!Next
<1>8. CASE /\ op'[Writer].ret = "error" /\ op'[Writer].call = "append" /\ acked' = acked
           /\ Len(index') = EntryAt(id) /\ index'[5] = index[5]
           /\ \A i \in 6 .. EntryAt(id) : index'[i] = index[i]
  <2>1. Stored(s)'
    <3>1. Length' = Length /\ Len(data) <= Len(data') /\ data' \in Seq(Cell)
          /\ \A i \in 1 .. Len(data) : data'[i] = data[i]
      BY <1>3, <1>5, <1>6, <1>8
    <3>2. \A i \in 6 .. EntryAt(Length) : index'[i] = index[i]
      BY <1>3, <1>8
    <3> QED
      BY <3>1, <3>2, StoredKept
  <2>2. Visible' = Visible /\ (AckedIn(Visible) => AckedIn(Visible)')
    BY <1>8, <2>1, StoreStands
  <2>3. CallerView' = Store!Failed
    BY <1>5, <1>8 DEF CallerView, Store!Failed
  <2>4. Store!Refuse
    BY <2>2, <2>3 DEF Store!Refuse
  <2> QED
    BY <2>2, <2>4 DEF StoreStep, Store!Next
<1> QED
  BY <1>5, <1>7, <1>8

\* An update overwrites the record, or tears it.
LEMMA StepUpdates ==
  ASSUME StoreInv, StoreInv', NEW s, Stored(s), NEW id \in Nat, NEW p \in Payloads, Update(id, p)
  PROVE  StoreStep
<1> DEFINE n == DiskCount
<1>1. op[Writer].pc \in {"idle", "done"} /\ handle[Writer].open
  BY DEF Update, Ready
<1>2. /\ Present /\ ~WriterIn({"create_data"}) /\ Uncounted = 0
      /\ handle[Writer].header[COUNT] = n + Uncounted
  BY <1>1 DEF StoreInv, WholeInv, WriterCounts, Uncounted, WriterIn
<1>3. /\ n \in Nat /\ n + Uncounted = n /\ Length = n /\ exists
      /\ Whole(Contents, index, data, n) /\ Len(index) = EntryAt(n)
      /\ index \in Seq(Nat) /\ data \in Seq(Cell) /\ s \in Seq(Seq(Cell)) /\ Len(s) = n
  <2>1. n \in Nat /\ Length = n /\ exists /\ Whole(Contents, index, data, n + Uncounted)
        /\ Len(index) = EntryAt(n + Uncounted)
    BY <1>2, StoreFacts, LengthFacts
  <2>2. n + Uncounted = n
    BY <1>2, <2>1
  <2> QED
    BY <2>1, <2>2, WriterTypes DEF StoreInv, WholeInv, Stored
<1>4. /\ UNCHANGED <<index, exists>> /\ "update" \in Events
      /\ op'[Writer].pc = "done" /\ op'[Writer].call = "update"
      /\ \/ data' = data /\ acked' = acked
         \/ /\ id \in 0 .. n - 1
            /\ \E w \in {Record(p)} \cup ShortWrites(Record(p)) :
                 /\ data' = WriteAt(data, Offset(index, id), w, HoleCell)
                 /\ \/ w = Record(p) /\ acked' = [i \in DOMAIN acked |-> IF i = id THEN p ELSE acked[i]]
                    \/ "short_update" \in Events /\ acked' = [i \in DOMAIN acked \ {id} |-> acked[i]]
  <2>1. handle[Writer].header[COUNT] <= n /\ Len(index) >= EntryAt(n)
    <3>1. Len(index) \in Nat
      BY <1>3
    <3> HIDE DEF n
    <3> QED
      BY <1>2, <1>3, <3>1
  <2> HIDE DEF n
  <2> QED
    BY <1>3, <2>1, UpdateEffect DEF StoreInv, WholeInv
<1>5. CASE data' = data /\ acked' = acked
  BY <1>1, <1>4, <1>5, StepQuiet DEF WriterIn
<1>6. ASSUME NEW w \in {Record(p)} \cup ShortWrites(Record(p)), id \in 0 .. n - 1,
             data' = WriteAt(data, Offset(index, id), w, HoleCell),
             \/ w = Record(p) /\ acked' = [i \in DOMAIN acked |-> IF i = id THEN p ELSE acked[i]]
             \/ "short_update" \in Events /\ acked' = [i \in DOMAIN acked \ {id} |-> acked[i]]
      PROVE  StoreStep
  <2> HIDE DEF n
  <2>1. /\ \E q \in Contents, k \in 0 .. Len(p) :
             /\ HoldsRecord(data, Offset(index, id), q) /\ HoldsRecord(data', Offset(index, id), Torn(p, q, k))
             /\ w = Record(p) => k = Len(p) /\ Torn(p, q, k) = p
        /\ \A k \in 0 .. n - 1, q \in Seq(Cell) :
             k # id /\ HoldsRecord(data, Offset(index, k), q) => HoldsRecord(data', Offset(index, k), q)
    BY <1>3, <1>4, <1>6, RecordRewritten
  <2>2. PICK q \in Contents, k \in 0 .. Len(p) :
          /\ HoldsRecord(data, Offset(index, id), q) /\ HoldsRecord(data', Offset(index, id), Torn(p, q, k))
          /\ w = Record(p) => k = Len(p) /\ Torn(p, q, k) = p
    BY <2>1
  <2>3. /\ Len(p) = Len(q) /\ p \in Seq(Cell) /\ q \in Seq(Cell)
        /\ Torn(p, q, k) \in Seq(Cell)
        /\ Torn(p, q, k) = SubSeq(p, 1, k) \o SubSeq(q, k + 1, Len(q))
    <3>1. Len(p) = Len(q) /\ p \in Seq(Cell) /\ q \in Seq(Cell)
      BY <1>4, MixedContents
    <3> QED
      BY <3>1, TornProperties DEF Torn
  <2>4. id + 1 \in 1 .. n /\ s[id + 1] = q
    <3>1. id + 1 \in 1 .. n /\ s[id + 1] \in Seq(Cell)
      BY <1>3, <1>6
    <3>2. HoldsRecord(data, Offset(index, id), s[id + 1]) /\ Offset(index, id) \in Nat
      BY <1>3, <1>6, StoredOffset DEF Stored
    <3> QED
      BY <1>3, <2>2, <2>3, <3>1, <3>2, HeldUnique
  <2>5. PICK t : t = [s EXCEPT ![id + 1] = Torn(p, q, k)]
    OBVIOUS
  <2>6. /\ t \in Seq(Seq(Cell)) /\ Len(t) = n /\ t[id + 1] = Torn(p, q, k)
        /\ \A i \in 0 .. n - 1 : i # id => t[i + 1] = s[i + 1]
    <3> DEFINE T == Torn(p, q, k)
    <3> HIDE DEF T
    <3>1. T \in Seq(Cell) /\ t = [s EXCEPT ![id + 1] = T]
      BY <2>3, <2>5 DEF T
    <3>2. t \in Seq(Seq(Cell)) /\ Len(t) = n /\ t[id + 1] = T
      BY <1>3, <2>4, <3>1
    <3>3. ASSUME NEW i \in 0 .. n - 1, i # id PROVE t[i + 1] = s[i + 1]
      <4>1. i + 1 \in 1 .. n /\ i + 1 # id + 1
        BY <1>3, <3>3
      <4> QED
        BY <1>3, <3>1, <4>1
    <3> QED
      BY <3>2, <3>3 DEF T
  <2>7. Stored(t)'
    <3>1. Length' = n
      <4>1. Length' = Length
        BY <1>4 DEF Length, CanOpen, DiskCount
      <4> QED
        BY <1>3, <4>1
    <3>2. ASSUME NEW i \in 0 .. n - 1 PROVE HoldsRecord(data', Offset(index, i), t[i + 1])
      <4>1. CASE i = id
        BY <2>2, <2>6, <4>1
      <4>2. CASE i # id
        <5>1. HoldsRecord(data, Offset(index, i), s[i + 1])
          BY <1>3, <3>2 DEF Stored
        <5>2. s[i + 1] \in Seq(Cell)
          <6>1. i + 1 \in 1 .. n
            BY <1>3, <3>2
          <6> QED
            BY <1>3, <6>1
        <5> QED
          BY <2>1, <2>6, <3>2, <4>2, <5>1, <5>2
      <4> QED
        BY <4>1, <4>2
    <3> QED
      BY <1>4, <2>6, <3>1, <3>2 DEF Stored
  <2>8. Visible = s /\ Visible' = t
    BY <2>7, VisibleBoth
  <2>9. CallerView' = NoCall /\ ~Store!InAppend
    BY <1>1, <1>4 DEF CallerView, Store!InAppend, NoCall
  <2>10. id \in 0 .. Len(Visible) - 1
    BY <1>3, <1>6, <2>8
  <2>11. CASE w = Record(p) /\ acked' = [i \in DOMAIN acked |-> IF i = id THEN p ELSE acked[i]]
    <3>1. t = [s EXCEPT ![id + 1] = p] /\ t[id + 1] = p
      BY <2>2, <2>5, <2>6, <2>11
    <3>2. Store!Overwrite(id, p)
      BY <2>8, <2>9, <2>10, <3>1 DEF Store!Overwrite
    <3>3. Store!Next
      BY <2>10, <3>2 DEF Store!Next
    <3>4. AckedIn(s) => AckedIn(t)'
      <4> SUFFICES ASSUME AckedIn(s), NEW i \in DOMAIN acked' PROVE i \in 0 .. Len(t) - 1 /\ t[i + 1] = acked'[i]
        BY DEF AckedIn
      <4>1. i \in DOMAIN acked /\ acked'[i] = IF i = id THEN p ELSE acked[i]
        BY <2>11
      <4>2. i \in 0 .. n - 1 /\ s[i + 1] = acked[i]
        BY <1>3, <4>1 DEF AckedIn
      <4> QED
        BY <2>6, <3>1, <4>1, <4>2
    <3> QED
      BY <2>8, <3>3, <3>4 DEF StoreStep
  <2>12. CASE acked' = [i \in DOMAIN acked \ {id} |-> acked[i]]
    <3>1. t = [s EXCEPT ![id + 1] = SubSeq(p, 1, k) \o SubSeq(s[id + 1], k + 1, Len(s[id + 1]))]
      BY <2>3, <2>4, <2>5
    <3>2. Store!Tear(id, p, k)
      BY <2>8, <2>9, <2>10, <3>1 DEF Store!Tear
    <3>3. Store!Next
      BY <2>10, <3>2 DEF Store!Next
    <3>4. AckedIn(s) => AckedIn(t)'
      <4> SUFFICES ASSUME AckedIn(s), NEW i \in DOMAIN acked' PROVE i \in 0 .. Len(t) - 1 /\ t[i + 1] = acked'[i]
        BY DEF AckedIn
      <4>1. i \in DOMAIN acked /\ i # id /\ acked'[i] = acked[i]
        BY <2>12
      <4>2. i \in 0 .. n - 1 /\ s[i + 1] = acked[i]
        BY <1>3, <4>1 DEF AckedIn
      <4> QED
        BY <2>6, <4>1, <4>2
    <3> QED
      BY <2>8, <3>3, <3>4 DEF StoreStep
  <2> QED
    BY <1>6, <2>11, <2>12
<1> QED
  BY <1>4, <1>5, <1>6

LEMMA EveryStoreStep ==
  ASSUME Events \subseteq Tolerated, StoreInv, StoreInv', [Next]_vars
  PROVE  StoreStep
<1>0. /\ "short_entry" \notin Events /\ "crash" \notin Events /\ "past_end" \notin Events
      /\ "recreate" \notin Events
  BY DEF Tolerated
<1>1. PICK s : Stored(s)
  BY StoredExists
<1>2. ASSUME WriterStep PROVE StoreStep
  <2>1. \A id \in 0 .. handle[Writer].header[COUNT] : id \in Nat
    BY WriterTypes DEF StoreInv, WholeInv
  <2> QED
    BY <1>0, <1>1, <1>2, <2>1, StepEmpty, StepDestroys, StepAppendsData, StepAppendsEntry,
       StepAppendsHeader, StepUpdates DEF WriterStep
<1>3. ASSUME NEW p \in Procs, Open(p) \/ Close(p) PROVE StoreStep
  <2>1. op \in [Procs -> Call] /\ Writer \in Procs
    BY WriterTypes DEF StoreInv, WholeInv
  <2>2. \/ op'[Writer] = op[Writer]
        \/ ~WriterIn({"entry", "header"}) /\ op'[Writer].pc = "idle"
    BY <1>3, <2>1 DEF Open, Close, Ready, WriterIn, Idle
  <2> QED
    BY <1>1, <1>3, <2>2, StepQuiet DEF Open, Close
<1>4. ASSUME NEW p \in Readers, Reads(p) PROVE StoreStep
  <2>1. /\ UNCHANGED <<index, data, exists, acked>>
        /\ op[p].pc \in {"idle", "done", "read"} /\ op'[p].pc \in {"done", "read"}
        /\ \/ op'[p].call \in {"id", "count", "time"}
           \/ op[p].pc = "read" /\ op'[p].call = op[p].call
        /\ \A q \in Procs \ {p} : op'[q] = op[q]
    BY <1>4, ReaderChanges DEF StoreInv, WholeInv
  <2>2. CASE p = Writer
    <3>1. op'[Writer].call # "append" /\ ~WriterIn({"entry", "header"})
      BY <2>1, <2>2 DEF StoreInv, CallKnown, WriterIn
    <3> QED
      BY <1>1, <2>1, <2>2, <3>1, StepQuiet
  <2>3. CASE p # Writer
    BY <1>1, <2>1, <2>3, WriterProc, StepQuiet
  <2> QED
    BY <2>2, <2>3
<1>5. CASE UNCHANGED vars
  BY <1>1, <1>5, StepQuiet DEF vars
<1> QED
  BY <1>0, <1>2, <1>3, <1>4, <1>5, ReaderSteps DEF Next, Crash

LEMMA StoreStarts == Init => Store!Init /\ AckedIn(Visible)
<1> SUFFICES ASSUME Init PROVE Store!Init /\ AckedIn(Visible)
  OBVIOUS
<1>1. op[Writer].pc = "idle" /\ ~CanOpen /\ DOMAIN acked = {}
  <2>1. Len(<<>>) = 0 /\ HEADER_SIZE = 5 /\ DOMAIN <<>> = {}
    BY EntryArithmetic
  <2> QED
    BY <2>1, WriterProc DEF Init, Idle, CanOpen
<1> QED
  BY <1>1 DEF Store!Init, Visible, CallerView, AckedIn

\* The block is the sequence of records RecordStore specifies: an append is
\* answered with the id its payload has got or leaves no trace, an update
\* replaces or tears one record, a destroy clears all (sea_block_append,
\* sea_block_update, sea_block_destroy), whatever of the tolerated failures
\* happens, for any clients.
THEOREM Refinement == Events \subseteq Tolerated => (Spec => RefinesRecordStore)
<1> SUFFICES ASSUME Events \subseteq Tolerated PROVE Spec => RefinesRecordStore
  OBVIOUS
<1>1. StoreInv /\ [Next]_vars => StoreInv'
  BY StoreInvStep
<1>2. StoreInv /\ StoreInv' /\ [Next]_vars => [Store!Next]_(Store!vars)
  BY EveryStoreStep DEF StoreStep
<1>3. Init => Store!Init
  BY StoreStarts
<1> QED
  BY StoreInvInit, <1>1, <1>2, <1>3, PTL DEF Spec, RefinesRecordStore, Store!Spec

\* Every acknowledged record is found by a handle opened at any later moment,
\* with the payload its client gave it last (sea_block_append, sea_block_update,
\* sea_block_query_by_record_id), whatever of the tolerated failures happens.
THEOREM AckedStayReadable == Events \subseteq Tolerated => (Spec => []AckedReadable)
<1> SUFFICES ASSUME Events \subseteq Tolerated PROVE Spec => []AckedReadable
  OBVIOUS
<1> DEFINE Inv == StoreInv /\ AckedIn(Visible)
<1>1. Inv /\ [Next]_vars => Inv'
  BY StoreInvStep, EveryStoreStep DEF StoreStep
<1>2. Init => Inv
  BY StoreInvInit, StoreStarts
<1>3. Inv => AckedReadable
  <2> SUFFICES ASSUME StoreInv, AckedIn(Visible), NEW id \in DOMAIN acked PROVE FreshRead(id, acked[id])
    BY DEF AckedReadable
  <2>1. PICK s : Stored(s) /\ Visible = s
    BY StoredExists, VisibleIs
  <2>2. id \in 0 .. Length - 1 /\ s[id + 1] = acked[id] /\ acked[id] \in Seq(Cell)
    BY <2>1, TypeInvFacts, PayloadType DEF AckedIn, Stored, StoreInv, WholeInv
  <2>3. /\ id \in Nat /\ Offset(index, id) \in Nat /\ EntryAt(id) + 2 <= Len(index)
        /\ Present /\ exists /\ Length = DiskCount /\ id < DiskCount /\ DiskCount \in Nat
    <3>1. /\ id \in Nat /\ Offset(index, id) \in Nat /\ Present /\ exists /\ Length = DiskCount
          /\ EntryAt(id) + 2 \in 6 .. EntryAt(Length) /\ EntryAt(Length) <= Len(index)
      BY <2>2, StoredOffset
    <3>2. DiskCount \in Nat /\ Len(index) \in Nat /\ EntryAt(Length) = 5 + 2 * Length /\ EntryAt(id) = 5 + 2 * id
      BY <3>1, StoreFacts, WriterTypes, EntryArithmetic DEF StoreInv, WholeInv
    <3>3. EntryAt(id) + 2 <= Len(index) /\ id < DiskCount
      <4> DEFINE l == Len(index)
                 n == DiskCount
                 m == Length
      <4>1. /\ 5 + 2 * id + 2 \in 6 .. 5 + 2 * m /\ 5 + 2 * m <= l /\ l \in Nat /\ n \in Nat /\ id \in Nat
            /\ m = n /\ id \in 0 .. m - 1
        BY <2>2, <3>1, <3>2
      <4> HIDE DEF l, n, m
      <4>2. 5 + 2 * id + 2 <= l /\ id < n
        BY <4>1
      <4> QED
        BY <3>2, <4>2 DEF l, n
    <3> QED
      BY <3>1, <3>2, <3>3
  <2>4. HoldsRecord(data, Offset(index, id), acked[id])
    BY <2>1, <2>2 DEF Stored
  <2>5. ~PastEnd(ReadAt(index, 0, HEADER_SIZE), id)
    <3>1. ReadAt(index, 0, HEADER_SIZE)[COUNT] = DiskCount
      BY <2>3, CachedCount, WriterTypes DEF CachedHeader, Present, StoreInv, WholeInv
    <3> HIDE DEF DiskCount
    <3> QED
      BY <2>3, <3>1 DEF PastEnd
  <2> DEFINE list == IndexQueryByRecordId(ReadAt(index, 0, HEADER_SIZE), index, id)
  <2>6. list.offs # <<>> /\ list.offs[1] = Offset(index, id)
    BY <2>3, <2>5, QueryFindsEntry, WriterTypes DEF StoreInv, WholeInv
  <2> HIDE DEF list
  <2>7. ReadRecord(data, 0, list.offs[1]).ok /\ ReadRecord(data, 0, list.offs[1]).payload = acked[id]
    BY <2>2, <2>3, <2>4, <2>6, ReadRecordWhole, WriterTypes DEF StoreInv, WholeInv
  <2> QED
    BY <2>3, <2>6, <2>7, LengthFacts DEF FreshRead, list
<1> QED
  BY <1>1, <1>2, <1>3, PTL DEF Spec

-----------------------------------------------------------------------------
(* Pages and scans by time, on a block opened now.                        *)

\* A handle opened now counts entries that are in the index.
LEMMA OpenedCounts ==
  ASSUME WholeInv, CanOpen
  PROVE  \E n \in Nat : /\ n = DiskCount /\ EntryAt(n) <= Len(index) /\ index \in Seq(Nat)
                        /\ ReadAt(index, 0, HEADER_SIZE)[COUNT] = n
<1>1. Present
  BY DEF CanOpen, Present, WholeInv, WriterCounts
<1>2. PICK l \in Nat : Len(index) = 5 + 2 * l /\ DiskCount \in Nat /\ DiskCount <= l
  BY <1>1, WholeEntries
<1>3. PICK n \in Nat : n = DiskCount
  BY <1>2
<1>4. EntryAt(n) <= Len(index)
  BY <1>2, <1>3, EntryArithmetic
<1>5. index \in Seq(Nat)
  BY WriterTypes DEF WholeInv
<1>6. CachedHeader[COUNT] = DiskCount
  BY <1>5, CachedCount DEF CanOpen
<1> QED
  BY <1>3, <1>4, <1>5, <1>6 DEF CachedHeader

LEMMA WholeInvPages == WholeInv => PagesExact
<1> SUFFICES ASSUME WholeInv, CanOpen, NEW first \in 0 .. DiskCount - 1, NEW count \in 0 .. UintMod - 1,
                    first + count < UintMod
             PROVE  IndexQueryByCount(ReadAt(index, 0, HEADER_SIZE), index, first, count).offs
                      = Page(first, count)
  BY DEF PagesExact
<1>1. PICK n \in Nat : /\ n = DiskCount /\ EntryAt(n) <= Len(index) /\ index \in Seq(Nat)
                      /\ ReadAt(index, 0, HEADER_SIZE)[COUNT] = n
  BY OpenedCounts
<1>2. PICK header : header = ReadAt(index, 0, HEADER_SIZE)
  OBVIOUS
<1>4. first \in 0 .. n - 1 /\ count \in Nat /\ header[COUNT] = n
  BY <1>1, <1>2, FormatAssumption
<1>5. IndexQueryByCount(header, index, first, count).offs = PageOf(index, n, first, count)
  BY <1>1, <1>4, PageFound
<1>6. Page(first, count) = PageOf(index, n, first, count)
  BY <1>1, Zenon DEF Page, PageOf, OffsetOf, Offset
<1> QED
  BY <1>2, <1>5, <1>6

\* A page that neither starts past the end nor reaches 2^32 has exactly the
\* offsets of its ids (sea_block_index_query_by_count), on a handle opened at any
\* moment: also after the death of the process, and after any update.
THEOREM PagesStayExact ==
  ASSUME WholeEvents
  PROVE  Spec => []PagesExact
<1>1. WholeInv /\ [Next]_vars => WholeInv'
  BY WholeInvStep
<1> QED
  BY WholeInvInit, WholeInvPages, <1>1, PTL DEF Spec

-----------------------------------------------------------------------------
(* Entries are in the order of their times.                                *)

TimeInv == WholeInv /\ (Present => InOrder(index, clock))

LEMMA TimeType ==
  ASSUME NEW ix \in Seq(Nat), NEW i \in Nat, NEW j \in Nat, i <= j, EntryAt(j) + 2 <= Len(ix)
  PROVE  /\ EntryAt(i) + 1 \in 6 .. Len(ix) /\ EntryAt(i) + 2 <= Len(ix) /\ TimeOf(ix, i) \in Nat
<1>1. EntryAt(i) = 5 + 2 * i /\ EntryAt(j) = 5 + 2 * j
  BY EntryArithmetic
<1>2. PICK l \in Nat : l = Len(ix)
  OBVIOUS
<1>3. 5 + 2 * j + 2 <= l
  BY <1>1, <1>2
<1>4. 5 + 2 * i + 1 \in 6 .. l /\ 5 + 2 * i + 2 <= l
  BY <1>3
<1>5. EntryAt(i) + 1 \in 6 .. Len(ix) /\ EntryAt(i) + 2 <= Len(ix)
  BY <1>1, <1>2, <1>4
<1>6. EntryAt(i) + 1 \in 1 .. Len(ix)
  BY <1>2, <1>5
<1> QED
  BY <1>5, <1>6 DEF TimeOf

\* An index keeps its order while time passes, if its header is written or its
\* last entries are cut off.
LEMMA OrderKept ==
  ASSUME NEW ix \in Seq(Nat), NEW jx \in Seq(Nat), NEW t \in Nat, NEW u \in Nat, t <= u, InOrder(ix, t),
         Len(jx) <= Len(ix), \A i \in 6 .. Len(jx) : jx[i] = ix[i]
  PROVE  InOrder(jx, u)
<1> SUFFICES ASSUME NEW i \in Nat, NEW j \in Nat, i <= j, EntryAt(j) + 2 <= Len(jx)
             PROVE  TimeOf(jx, i) <= TimeOf(jx, j) /\ TimeOf(jx, j) <= u
  BY DEF InOrder
<1>1. EntryAt(i) + 1 \in 6 .. Len(jx) /\ EntryAt(j) + 1 \in 6 .. Len(jx)
  <2>1. j <= j
    OBVIOUS
  <2>2. EntryAt(i) + 1 \in 6 .. Len(jx)
    BY TimeType
  <2>3. EntryAt(j) + 1 \in 6 .. Len(jx)
    BY <2>1, TimeType
  <2> QED
    BY <2>2, <2>3
<1>2. TimeOf(jx, i) = TimeOf(ix, i) /\ TimeOf(jx, j) = TimeOf(ix, j)
  BY <1>1 DEF TimeOf
<1>3. EntryAt(j) + 2 <= Len(ix)
  <2>1. PICK k \in Nat, l \in Nat, e \in Nat : k = Len(jx) /\ l = Len(ix) /\ e = EntryAt(j)
    BY EntryArithmetic
  <2> QED
    BY <2>1
<1>4. TimeOf(ix, i) <= TimeOf(ix, j) /\ TimeOf(ix, j) <= t
  BY <1>3 DEF InOrder
<1>5. TimeOf(ix, j) \in Nat
  BY <1>3, TimeType
<1> QED
  BY <1>2, <1>4, <1>5

\* An entry that is written now comes last.
LEMMA OrderExtended ==
  ASSUME NEW ix \in Seq(Nat), NEW jx \in Seq(Nat), NEW t \in Nat, NEW u \in Nat, t <= u, InOrder(ix, t),
         NEW n \in Nat, Len(ix) = EntryAt(n), Len(jx) = Len(ix) + 2, jx[Len(ix) + 1] = u,
         \A i \in 1 .. Len(ix) : jx[i] = ix[i]
  PROVE  InOrder(jx, u)
<1> SUFFICES ASSUME NEW i \in Nat, NEW j \in Nat, i <= j, EntryAt(j) + 2 <= Len(jx)
             PROVE  TimeOf(jx, i) <= TimeOf(jx, j) /\ TimeOf(jx, j) <= u
  BY DEF InOrder
<1>1. PICK k \in Nat : k = Len(ix) /\ k = 5 + 2 * n
  BY EntryArithmetic
<1>2. EntryAt(i) = 5 + 2 * i /\ EntryAt(j) = 5 + 2 * j
  BY EntryArithmetic
<1>3. j <= n /\ i <= n
  BY <1>1, <1>2
<1>4. ASSUME NEW m \in Nat, m < n
      PROVE  TimeOf(jx, m) = TimeOf(ix, m) /\ EntryAt(m) + 2 <= Len(ix) /\ TimeOf(ix, m) \in Nat
  <2>1. EntryAt(m) + 2 <= EntryAt(n)
    BY <1>4, EntryArithmetic
  <2>2. EntryAt(m) + 2 <= Len(ix)
    BY <2>1
  <2>3. EntryAt(m) + 1 \in 6 .. Len(ix) /\ TimeOf(ix, m) \in Nat
    <3>1. m <= m
      OBVIOUS
    <3> QED
      BY <2>2, <3>1, TimeType
  <2>4. EntryAt(m) + 1 \in 1 .. Len(ix)
    BY <1>1, <2>3
  <2> QED
    BY <2>2, <2>3, <2>4 DEF TimeOf
<1>5. TimeOf(jx, n) = u
  BY <1>1, EntryArithmetic DEF TimeOf
<1>6. ASSUME NEW m \in Nat, m < n PROVE TimeOf(jx, m) <= u
  <2>1. m <= m /\ TimeOf(jx, m) = TimeOf(ix, m) /\ EntryAt(m) + 2 <= Len(ix) /\ TimeOf(ix, m) \in Nat
    BY <1>4, <1>6
  <2>2. TimeOf(ix, m) <= t
    BY <2>1 DEF InOrder
  <2> QED
    BY <2>1, <2>2
<1>7. CASE j = n
  <2>1. i = n \/ i < n
    BY <1>3
  <2> QED
    BY <1>5, <1>6, <1>7, <2>1
<1>8. CASE j # n
  <2>1. i < n /\ j < n
    BY <1>3, <1>8
  <2>2. TimeOf(jx, i) = TimeOf(ix, i) /\ TimeOf(jx, j) = TimeOf(ix, j) /\ EntryAt(j) + 2 <= Len(ix)
    BY <1>4, <2>1
  <2>3. TimeOf(ix, i) <= TimeOf(ix, j)
    BY <2>2 DEF InOrder
  <2> QED
    BY <1>6, <2>1, <2>2, <2>3
<1> QED
  BY <1>7, <1>8

\* The clock a call reads is not behind, unless it was set back.
LEMMA TimePasses ==
  ASSUME TypeInv, "clock_back" \notin Events, NEW ts \in Times
  PROVE  clock \in Nat /\ ts \in Nat /\ clock <= ts
BY TypeInvFacts, BoundsAssumption DEF Times

\* sea_block_index_create leaves the entries behind a new header.
LEMMA TimeCreates ==
  ASSUME TimeInv, WholeInv', "clock_back" \notin Events, NEW ts \in Times, CreateIndex(ts)
  PROVE  TimeInv'
<1>1. /\ op[Writer].pc \in {"idle", "done"} /\ Len(index') \in Nat
      /\ Len(index) >= 5 => Len(index') = Len(index) /\ \A i \in 6 .. Len(index) : index'[i] = index[i]
      /\ Len(index) < 5 /\ Len(index') >= 5 => Len(index') = 5
  BY CreateEffect DEF TimeInv, WholeInv
<1>2. clock' = ts /\ clock \in Nat /\ ts \in Nat /\ clock <= ts
  BY TimePasses DEF CreateIndex, TimeInv, WholeInv
<1>3. index \in Seq(Nat) /\ index' \in Seq(Nat) /\ Len(index) \in Nat /\ HEADER_SIZE = 5
  BY WriterTypes DEF TimeInv, WholeInv, TypeInv, TypeOK
<1>4. ASSUME Present' PROVE InOrder(index', ts)
  <2>1. CASE Len(index) >= 5
    <3>1. Present /\ Len(index') <= Len(index)
      BY <1>1, <1>3, <2>1 DEF Present, WriterIn
    <3>2. InOrder(index, clock) /\ \A i \in 6 .. Len(index') : index'[i] = index[i]
      BY <1>1, <2>1, <3>1 DEF TimeInv
    <3> QED
      BY <1>2, <1>3, <3>1, <3>2, OrderKept
  <2>2. CASE ~(Len(index) >= 5)
    <3>1. Len(index') = 5
      BY <1>1, <1>3, <1>4, <2>2 DEF Present
    <3>2. ASSUME NEW j \in Nat PROVE ~(EntryAt(j) + 2 <= Len(index'))
      <4>1. EntryAt(j) = 5 + 2 * j
        BY EntryArithmetic
      <4> QED
        BY <3>1, <4>1
    <3> QED
      BY <3>2 DEF InOrder
  <2> QED
    BY <2>1, <2>2
<1> QED
  BY <1>2, <1>4 DEF TimeInv

\* An entry takes the time at which it is written.
LEMMA TimeAppendsEntry ==
  ASSUME TimeInv, WholeInv', "short_entry" \notin Events, "clock_back" \notin Events,
         NEW ts \in Times, AppendEntry(ts)
  PROVE  TimeInv'
<1>1. clock' = ts /\ clock \in Nat /\ ts \in Nat /\ clock <= ts
  BY TimePasses DEF AppendEntry, TimeInv, WholeInv
<1>2. /\ op[Writer].pc = "entry" /\ op[Writer].offs[1] \in Nat
      /\ Len(index') = Len(index) + 2 /\ \A i \in 1 .. Len(index) : index'[i] = index[i]
  BY AppendEntryEffect DEF TimeInv, WholeInv
<1>3. index \in Seq(Nat) /\ index' \in Seq(Nat)
  BY TypeInvFacts DEF TimeInv, WholeInv, TypeInv, TypeOK
<1>4. index'[Len(index) + 1] = ts
  <2>1. PICK off \in Nat : off = op[Writer].offs[1]
    BY <1>2
  <2>2. index' = WriteAt(index, Len(index), Entry(ts, off), 0)
    BY <2>1 DEF AppendEntry, End
  <2>3. PICK e \in Seq(Nat) : e = Entry(ts, off) /\ 1 \in 1 .. Len(e) /\ e[1] = ts
    <3>1. <<ts, off>> \in Seq(Nat) /\ 1 \in 1 .. Len(<<ts, off>>) /\ <<ts, off>>[1] = ts
      BY <1>1
    <3> QED
      BY <3>1 DEF Entry
  <2>4. index' = WriteAt(index, Len(index), e, 0)
    BY <2>2, <2>3
  <2>5. \A i \in 1 .. Len(e) : WriteAt(index, Len(index), e, 0)[Len(index) + i] = e[i]
    BY <1>3, IndexAppend
  <2> QED
    BY <2>3, <2>4, <2>5
<1>5. Present
  BY <1>2 DEF TimeInv, WholeInv, WriterCounts, WriterIn
<1>6. PICK n \in Nat : Len(index) = EntryAt(n)
  BY <1>5, WholeEntries DEF TimeInv
<1>7. InOrder(index, clock)
  BY <1>5 DEF TimeInv
<1>8. InOrder(index', ts)
  BY <1>1, <1>2, <1>3, <1>4, <1>6, <1>7, OrderExtended
<1> QED
  BY <1>1, <1>8 DEF TimeInv

\* The header of an append, and the entries cut off when it fails.
LEMMA TimeAppendsHeader ==
  ASSUME TimeInv, WholeInv', AppendHeader
  PROVE  TimeInv'
<1>1. op[Writer].pc = "header" /\ clock' = clock
  BY DEF AppendHeader
<1>2. handle[Writer].open /\ Present /\ handle[Writer].header[COUNT] = DiskCount + Uncounted /\ Uncounted = 1
  BY <1>1 DEF TimeInv, WholeInv, WriterCounts, Uncounted, WriterIn
<1>3. PICK n \in Nat, id \in Nat : /\ Len(index) = 5 + 2 * n /\ id = DiskCount /\ id + Uncounted <= n
  BY <1>2, WholeEntries DEF TimeInv
<1>4. handle[Writer].header[COUNT] = id + 1 /\ EntryAt(id) = 5 + 2 * id /\ Len(index) >= EntryAt(id)
  <2>1. EntryAt(id) = 5 + 2 * id
    BY <1>3, EntryArithmetic
  <2> QED
    BY <1>2, <1>3, <2>1
<1>5. \/ Len(index') = Len(index) /\ \A i \in 6 .. Len(index) : index'[i] = index[i]
      \/ Len(index') = EntryAt(id) /\ \A i \in 6 .. EntryAt(id) : index'[i] = index[i]
  BY <1>3, <1>4, AppendHeaderEffect DEF TimeInv, WholeInv
<1>6. index \in Seq(Nat) /\ index' \in Seq(Nat) /\ Len(index) \in Nat /\ clock \in Nat
  BY WriterTypes, TypeInvFacts, BoundsAssumption DEF TimeInv, WholeInv, TypeInv, TypeOK
<1>7. Len(index') <= Len(index) /\ \A i \in 6 .. Len(index') : index'[i] = index[i]
  <2>1. CASE Len(index') = Len(index) /\ \A i \in 6 .. Len(index) : index'[i] = index[i]
    <3>1. Len(index') <= Len(index)
      BY <1>6, <2>1
    <3> QED
      BY <2>1, <3>1
  <2>2. CASE Len(index') = EntryAt(id) /\ \A i \in 6 .. EntryAt(id) : index'[i] = index[i]
    <3>1. Len(index') <= Len(index)
      BY <1>4, <1>6, <2>2
    <3> QED
      BY <2>2, <3>1
  <2> QED
    BY <1>5, <2>1, <2>2
<1>8. InOrder(index, clock) /\ clock <= clock
  BY <1>2, <1>6 DEF TimeInv
<1>9. InOrder(index', clock)
  BY <1>6, <1>7, <1>8, OrderKept
<1> QED
  BY <1>1, <1>9 DEF TimeInv

\* The index is not written.
LEMMA TimeQuiet ==
  ASSUME TimeInv, WholeInv', index' = index, clock' = clock,
         op'[Writer].pc # "destroy_index" => ~WriterIn({"destroy_index"})
  PROVE  TimeInv'
<1>1. Present' => Present
  BY DEF Present, WriterIn
<1> QED
  BY <1>1 DEF TimeInv

LEMMA TimeInvStep ==
  ASSUME WholeEvents, "clock_back" \notin Events
  PROVE  TimeInv /\ [Next]_vars => TimeInv'
<1> SUFFICES ASSUME TimeInv, [Next]_vars PROVE TimeInv'
  OBVIOUS
<1>1. WholeInv' /\ WholeInv /\ TypeInv /\ "short_entry" \notin Events
  BY WholeInvStep DEF TimeInv, WholeInv, WholeEvents
<1>2. ASSUME WriterStep PROVE TimeInv'
  <2>1. ASSUME CreateData PROVE TimeInv'
    BY <1>1, <2>1, TimeQuiet DEF CreateData, WriterIn
  <2>2. ASSUME DestroyData PROVE TimeInv'
    <3>1. ~WriterIn({"destroy_index"})
      BY <2>2, WriterProc DEF DestroyData, Ready, WriterIn
    <3> QED
      BY <1>1, <2>2, <3>1, TimeQuiet DEF DestroyData
  <2>3. ASSUME DestroyIndex PROVE TimeInv'
    <3>1. Len(<<>>) = 0 /\ HEADER_SIZE = 5
      BY EntryArithmetic
    <3> QED
      BY <1>1, <2>3, <3>1 DEF DestroyIndex, TimeInv, Present
  <2>4. ASSUME NEW p \in Payloads, AppendData(p) PROVE TimeInv'
    BY <1>1, <2>4, TimeQuiet DEF AppendData, Ready, WriterIn
  <2>5. ASSUME NEW id, NEW p \in Payloads, Update(id, p) PROVE TimeInv'
    BY <1>1, <2>5, TimeQuiet DEF Update, Ready, WriterIn
  <2> QED
    BY <1>1, <1>2, <2>1, <2>2, <2>3, <2>4, <2>5, TimeCreates, TimeAppendsEntry, TimeAppendsHeader DEF WriterStep
<1>3. ASSUME NEW p \in Procs, Open(p) \/ Close(p) PROVE TimeInv'
  <2>1. index' = index /\ clock' = clock
    BY <1>3 DEF Open, Close
  <2>2. op'[Writer].pc # "destroy_index" => ~WriterIn({"destroy_index"})
    <3>1. op \in [Procs -> Call] /\ Writer \in Procs
      BY <1>1, WriterTypes
    <3> QED
      BY <1>3, <3>1 DEF Open, Close, Ready, WriterIn
  <2> QED
    BY <1>1, <2>1, <2>2, TimeQuiet
<1>4. ASSUME NEW p \in Readers, Reads(p) PROVE TimeInv'
  <2>1. /\ index' = index /\ clock' = clock /\ op[p].pc \in {"idle", "done", "read"}
        /\ \A q \in Procs \ {p} : op'[q] = op[q]
    BY <1>1, <1>4, ReaderChanges
  <2>2. op'[Writer].pc # "destroy_index" => ~WriterIn({"destroy_index"})
    BY <2>1, WriterProc DEF WriterIn
  <2> QED
    BY <1>1, <2>1, <2>2, TimeQuiet
<1>5. ASSUME "crash" \in Events \/ "past_end" \in Events, ProcessDies PROVE TimeInv'
  <2>1. ~WriterIn({"destroy_index"})
    BY <1>1, <1>5 DEF WholeInv, WriterCounts, WholeEvents
  <2> QED
    BY <1>1, <1>5, <2>1, TimeQuiet DEF ProcessDies
<1>6. CASE UNCHANGED vars
  BY <1>1, <1>6, TimeQuiet DEF vars, WriterIn
<1> QED
  BY <1>2, <1>3, <1>4, <1>5, <1>6, ReaderSteps DEF Next, Crash

LEMMA TimeInvScans == TimeInv => TimeScanComplete
<1> SUFFICES ASSUME TimeInv, CanOpen, NEW first \in 0 .. DiskCount - 1, NEW stop \in 0 .. MaxTime + 1,
                    NEW list, list = IndexQueryByTime(ReadAt(index, 0, HEADER_SIZE), index, stop, first)
             PROVE  {list.offs[i] : i \in DOMAIN list.offs}
                      = {OffsetOf(id) : id \in {k \in first .. DiskCount - 1 : index[EntryAt(k) + 1] < stop}}
  BY DEF TimeScanComplete
<1>1. PICK n \in Nat : /\ n = DiskCount /\ EntryAt(n) <= Len(index) /\ index \in Seq(Nat)
                      /\ ReadAt(index, 0, HEADER_SIZE)[COUNT] = n
  BY OpenedCounts DEF TimeInv
<1>2. PICK header : header = ReadAt(index, 0, HEADER_SIZE)
  OBVIOUS
<1>3. InOrder(index, clock)
  BY DEF TimeInv, CanOpen, Present, WholeInv, WriterCounts
<1>4. first \in 0 .. n - 1 /\ stop \in Nat /\ header[COUNT] = n
      /\ list = IndexQueryByTime(header, index, stop, first)
  BY <1>1, <1>2, BoundsAssumption
<1>5. Listed(list) = OffsetsBefore(index, n, first, stop)
  BY <1>1, <1>3, <1>4, ScanFound
<1> QED
  BY <1>1, <1>5 DEF Listed, OffsetsBefore, Offset, OffsetOf, TimeOf

\* The scan by time (sea_block_index_query_by_time), which stops at the first
\* entry at or after stop, misses no record before it, on a handle opened at any
\* moment and after any death of the process, as long as the clock is not set back.
THEOREM TimeScansStayComplete ==
  ASSUME WholeEvents, "clock_back" \notin Events
  PROVE  Spec => []TimeScanComplete
<1>1. TimeInv /\ [Next]_vars => TimeInv'
  BY TimeInvStep
<1>2. Init => TimeInv
  <2>1. Len(<<>>) = 0 /\ HEADER_SIZE = 5
    BY EntryArithmetic
  <2> QED
    BY <2>1, WholeInvInit DEF TimeInv, Init, Present
<1> QED
  BY <1>1, <1>2, TimeInvScans, PTL DEF Spec

-----------------------------------------------------------------------------
(* Readers, each on a handle of its own.                                   *)

\* Where a reader with the call c and the handle h stands.  The block it has
\* open is not destroyed, and counts at least what the handle does; a handle is
\* at the start of the data file until it is read from; the offset a query by id
\* has found is that of the id, and so is the record it has read.
ReaderAt(c, h) ==
  /\ c.pc \in {"idle", "read", "done"}
  /\ c.pc \in {"read", "done"} => h.open
  /\ h.open => /\ exists /\ Present
               /\ h.header[COUNT] <= DiskCount
               /\ c.pc = "idle" => h.dpos = 0
  /\ c.call = "id" /\ c.pc = "read" =>
       /\ h.dpos = 0 /\ c.id < h.header[COUNT]
       /\ c.ret = "ok" /\ c.got = <<>> /\ c.offs = <<Offset(index, c.id)>>
  /\ c.call = "id" /\ c.pc = "done" /\ c.id < h.header[COUNT] =>
       /\ c.ret = "ok"
       /\ \E p \in Seq(Cell) : c.got = <<p>> /\ HoldsRecord(data, Offset(index, c.id), p)

ReaderInv == StoreInv /\ \A r \in Readers : ReaderAt(op[r], handle[r])

\* The counted entries and their records are still there, and the block is open.
BlockKept ==
  /\ exists' /\ Present'
  /\ DiskCount <= DiskCount'
  /\ Len(data) <= Len(data') /\ \A i \in 1 .. Len(data) : data'[i] = data[i]
  /\ \A i \in 6 .. EntryAt(DiskCount) : index'[i] = index[i]

LEMMA ReaderTypes ==
  ASSUME TypeInv, NEW r \in Readers
  PROVE  /\ r \in Procs /\ op[r] \in Call /\ handle[r] \in Handle
         /\ op[r].id \in Nat /\ handle[r].header[COUNT] \in Nat
<1>1. r \in Procs /\ op[r] \in Call /\ handle[r] \in Handle
  BY TypeInvFacts, WriterProc
<1> QED
  BY <1>1 DEF Call, Handle, Header, HEADER_SIZE, COUNT

\* Where the entry of a counted id is, and that its record is whole.
LEMMA CountedRecord ==
  ASSUME StoreInv, Present, NEW id \in Nat, id < DiskCount
  PROVE  /\ EntryAt(id) + 2 \in 6 .. EntryAt(DiskCount) /\ EntryAt(id) + 2 <= Len(index)
         /\ Offset(index, id) \in Nat
         /\ \E p \in Seq(Cell) : HoldsRecord(data, Offset(index, id), p)
<1>1. PICK n \in Nat, u \in Nat : /\ n = DiskCount /\ u = Uncounted /\ u \in {0, 1}
                                  /\ Len(index) = 5 + 2 * (n + u) /\ Whole(Contents, index, data, n + u)
  BY StoreFacts
<1>2. EntryAt(id) = 5 + 2 * id /\ EntryAt(n) = 5 + 2 * n /\ id < n
  BY <1>1, EntryArithmetic
<1>3. PICK l \in Nat : l = Len(index) /\ l = 5 + 2 * (n + u)
  BY <1>1
<1>4. EntryAt(id) + 2 \in 6 .. EntryAt(n) /\ EntryAt(id) + 2 <= l /\ EntryAt(id) + 2 \in 1 .. l
  BY <1>2, <1>3
<1>5. Offset(index, id) \in Nat
  <2>1. index \in Seq(Nat) /\ EntryAt(id) + 2 \in 1 .. Len(index)
    BY <1>3, <1>4, WriterTypes DEF StoreInv, WholeInv
  <2> QED
    BY <2>1 DEF Offset
<1>6. id \in 0 .. (n + u) - 1
  BY <1>1, <1>2
<1>7. \E p \in Contents : HoldsRecord(data, Offset(index, id), p)
  BY <1>1, <1>6 DEF Whole
<1> QED
  BY <1>1, <1>3, <1>4, <1>5, <1>7, ContentsType

\* A step of another process leaves a reader where it stands.
LEMMA ReaderWaits ==
  ASSUME StoreInv, NEW r \in Readers, ReaderAt(op[r], handle[r]), handle[r].open => BlockKept,
         op'[r] = op[r], handle'[r] = handle[r], StoreInv'
  PROVE  ReaderAt(op[r], handle[r])'
<1>1. PICK c \in Call, h \in Handle : /\ c = op[r] /\ h = handle[r] /\ c = op'[r] /\ h = handle'[r]
                                      /\ c.id \in Nat /\ h.header[COUNT] \in Nat
  BY ReaderTypes DEF StoreInv, WholeInv
<1>2. ReaderAt(c, h)
  BY <1>1
<1>3. CASE ~h.open
  BY <1>1, <1>2, <1>3 DEF ReaderAt
<1>4. CASE h.open
  <2>1. BlockKept /\ exists /\ Present /\ h.header[COUNT] <= DiskCount
    BY <1>1, <1>2, <1>4 DEF ReaderAt
  <2>2. DiskCount \in Nat /\ DiskCount' \in Nat
    <3>1. DiskCount \in Nat
      BY <2>1, WriterTypes DEF StoreInv, WholeInv, Present
    <3>2. index' \in Seq(Nat) /\ Len(index') >= 5
      BY <2>1, EntryArithmetic DEF StoreInv, WholeInv, TypeInv, TypeOK, BlockKept, Present
    <3>3. index'[5] \in Nat
      BY <3>2
    <3> QED
      BY <3>1, <3>3 DEF DiskCount, COUNT
  <2>3. h.header[COUNT] <= DiskCount'
    BY <1>1, <2>1, <2>2 DEF BlockKept
  <2>4. ASSUME c.id < h.header[COUNT]
        PROVE  /\ Offset(index', c.id) = Offset(index, c.id)
               /\ \A p \in Seq(Cell) : HoldsRecord(data, Offset(index, c.id), p)
                                       => HoldsRecord(data', Offset(index, c.id), p)
    <3>1. PICK id \in Nat : id = c.id /\ id < DiskCount
      BY <1>1, <2>1, <2>2, <2>4
    <3>2. EntryAt(id) + 2 \in 6 .. EntryAt(DiskCount) /\ Offset(index, id) \in Nat
      BY <2>1, <3>1, CountedRecord
    <3>3. Offset(index', id) = Offset(index, id)
      BY <2>1, <3>2 DEF BlockKept, Offset
    <3>4. data \in Seq(Cell) /\ data' \in Seq(Cell)
      BY TypeInvFacts DEF StoreInv, WholeInv, TypeInv, TypeOK
    <3>5. PICK o \in Nat : o = Offset(index, id)
      BY <3>2
    <3>6. \A p \in Seq(Cell) : HoldsRecord(data, o, p) => HoldsRecord(data', o, p)
      BY <2>1, <3>4, HoldsRecordStable DEF BlockKept
    <3> QED
      BY <3>1, <3>3, <3>5, <3>6
  <2>5. ReaderAt(c, h)'
    BY <1>2, <1>4, <2>1, <2>3, <2>4 DEF ReaderAt, BlockKept
  <2> QED
    BY <1>1, <2>5
<1> QED
  BY <1>3, <1>4

\* A block that a process has open is not destroyed, and without
\* updates only grows.
LEMMA BlockGrows ==
  ASSUME Events \subseteq Tolerated, "update" \notin Events, StoreInv, StoreInv', [Next]_vars,
         exists, Present, NEW r \in Procs, handle[r].open
  PROVE  BlockKept
<1>0. /\ "short_entry" \notin Events /\ "crash" \notin Events /\ "past_end" \notin Events
      /\ "recreate" \notin Events
  BY DEF Tolerated
<1>1. /\ TypeInv /\ op \in [Procs -> Call] /\ Writer \in Procs /\ index \in Seq(Nat)
      /\ Len(index) \in Nat /\ Len(data) \in Nat
  BY WriterTypes DEF StoreInv, WholeInv
<1>2. PICK n \in Nat, l \in Nat : /\ n = DiskCount /\ n = index[5] /\ l = Len(index) /\ l >= 5 /\ l >= EntryAt(n)
                                  /\ EntryAt(n) = 5 + 2 * n
  <2>1. PICK k \in Nat, u \in Nat : /\ k = DiskCount /\ k = index[5] /\ u = Uncounted
                                    /\ Len(index) = 5 + 2 * (k + u)
    BY StoreFacts
  <2>2. EntryAt(k) = 5 + 2 * k
    BY EntryArithmetic
  <2>3. 5 + 2 * (k + u) \in Nat /\ 5 + 2 * (k + u) >= 5 /\ 5 + 2 * (k + u) >= 5 + 2 * k
    OBVIOUS
  <2> QED
    BY <2>1, <2>2, <2>3
<1>3. ASSUME index' = index, data' = data, exists' = exists,
             op'[Writer].pc # "destroy_index"
      PROVE  BlockKept
  <2>1. Present' /\ DiskCount' = n
    BY <1>2, <1>3 DEF Present, DiskCount, WriterIn
  <2>2. DiskCount <= DiskCount' /\ Len(data) <= Len(data')
    <3>1. PICK d \in Nat : d = Len(data) /\ d = Len(data')
      BY <1>1, <1>3
    <3>2. n <= n /\ d <= d
      OBVIOUS
    <3>3. n = DiskCount
      BY <1>2
    <3> QED
      BY <2>1, <3>1, <3>2, <3>3, Zenon
  <2> QED
    BY <1>3, <2>1, <2>2, Zenon DEF BlockKept
<1>4. ASSUME NEW p \in Payloads, AppendData(p) PROVE BlockKept
  <2>1. /\ index' = index /\ exists' = exists /\ Len(data) <= Len(data')
        /\ \A i \in 1 .. Len(data) : data'[i] = data[i]
        /\ op'[Writer].pc \in {"entry", "done"}
    BY <1>1, <1>4, AppendDataEffect
  <2>2. Present' /\ DiskCount' = n
    BY <1>2, <2>1 DEF Present, DiskCount, WriterIn
  <2>3. DiskCount <= DiskCount'
    <3>1. n <= n
      OBVIOUS
    <3>2. n = DiskCount
      BY <1>2
    <3> QED
      BY <2>2, <3>1, <3>2, Zenon
  <2> QED
    BY <2>1, <2>2, <2>3, Zenon DEF BlockKept
<1>5. ASSUME NEW ts \in Times, AppendEntry(ts) PROVE BlockKept
  <2>1. /\ data' = data /\ exists' = exists /\ Len(index') = l + 2
        /\ \A i \in 1 .. l : index'[i] = index[i]
        /\ op'[Writer].pc = "header"
    BY <1>0, <1>1, <1>2, <1>5, AppendEntryEffect
  <2>2. index'[5] = n /\ Len(index') >= 5 /\ \A i \in 6 .. EntryAt(n) : index'[i] = index[i]
    BY <1>2, <2>1
  <2>3. DiskCount' = n
    BY <2>2 DEF DiskCount, COUNT
  <2> QED
    BY <1>1, <1>2, <2>1, <2>2, <2>3, EntryArithmetic DEF BlockKept, Present, WriterIn
<1>6. ASSUME AppendHeader PROVE BlockKept
  <2>1. op[Writer].pc = "header"
    BY <1>6 DEF AppendHeader
  <2>2. handle[Writer].header[COUNT] = DiskCount + Uncounted /\ Uncounted = 1
    BY <2>1 DEF StoreInv, WholeInv, WriterCounts, Uncounted, WriterIn
  <2>3. handle[Writer].header[COUNT] = n + 1 /\ Len(index) >= EntryAt(n)
    BY <1>2, <2>2
  <2>4. /\ data' = data /\ exists' = exists /\ op'[Writer].pc = "done"
        /\ \/ /\ Len(index') = Len(index) /\ index'[5] = n + 1
              /\ \A i \in 6 .. Len(index) : index'[i] = index[i]
           \/ /\ Len(index') = EntryAt(n) /\ index'[5] = index[5]
              /\ \A i \in 6 .. EntryAt(n) : index'[i] = index[i]
    BY <1>1, <1>6, <2>3, AppendHeaderEffect
  <2>5. Len(index') >= 5 /\ n <= index'[5] /\ \A i \in 6 .. EntryAt(n) : index'[i] = index[i]
    <3>1. CASE /\ Len(index') = Len(index) /\ index'[5] = n + 1
               /\ \A i \in 6 .. Len(index) : index'[i] = index[i]
      <4>1. \A i \in 6 .. EntryAt(n) : i \in 6 .. l
        BY <1>2
      <4>2. n <= n + 1
        OBVIOUS
      <4> QED
        BY <1>2, <3>1, <4>1, <4>2
    <3>2. CASE /\ Len(index') = EntryAt(n) /\ index'[5] = index[5]
               /\ \A i \in 6 .. EntryAt(n) : index'[i] = index[i]
      <4>1. n <= n /\ 5 + 2 * n >= 5
        OBVIOUS
      <4> QED
        BY <1>2, <3>2, <4>1
    <3> QED
      BY <2>4, <3>1, <3>2
  <2>6. DiskCount <= DiskCount' /\ \A i \in 6 .. EntryAt(DiskCount) : index'[i] = index[i]
    <3>1. DiskCount' = index'[5] /\ n = DiskCount
      BY <1>2 DEF DiskCount, COUNT
    <3> QED
      BY <2>5, <3>1, Zenon
  <2>7. exists' /\ Present'
    BY <2>4, <2>5, EntryArithmetic DEF Present, WriterIn
  <2>8. Len(data) <= Len(data') /\ \A i \in 1 .. Len(data) : data'[i] = data[i]
    BY <1>1, <2>4
  <2> QED
    BY <2>6, <2>7, <2>8, Zenon DEF BlockKept
<1>7. ASSUME WriterStep PROVE BlockKept
  <2>1. ~(\E ts \in Times : CreateIndex(ts))
    BY <1>0 DEF CreateIndex, CanOpen, Present
  <2>2. ~DestroyIndex /\ ~DestroyData
    BY DEF DestroyIndex, DestroyData, Present, WriterIn
  <2>4. ASSUME CreateData PROVE BlockKept
    <3>1. op'[Writer].pc = "done"
      BY <1>1, <2>4 DEF CreateData, Return, Idle
    <3> QED
      BY <1>3, <2>4, <3>1 DEF CreateData
  <2>3. ~(\E id \in 0 .. handle[Writer].header[COUNT], p \in Payloads : Update(id, p))
    BY DEF Update
  <2> QED
    BY <1>4, <1>5, <1>6, <1>7, <2>1, <2>2, <2>3, <2>4 DEF WriterStep
<1>8. ASSUME NEW p \in Procs, Open(p) \/ Close(p) PROVE BlockKept
  <2>1. op'[Writer] = op[Writer] \/ op'[Writer].pc = "idle"
    <3>1. op' = [op EXCEPT ![p] = Idle] /\ Idle.pc = "idle"
      BY <1>8 DEF Open, Close, Idle
    <3> QED
      BY <1>1, <3>1
  <2> QED
    BY <1>3, <1>8, <2>1 DEF Open, Close, Present, WriterIn
<1>9. ASSUME NEW p \in Readers, Reads(p) PROVE BlockKept
  <2>1. /\ UNCHANGED <<index, data, exists>> /\ op'[p].pc \in {"done", "read"}
        /\ \A q \in Procs \ {p} : op'[q] = op[q]
    BY <1>1, <1>9, ReaderChanges
  <2>2. op'[Writer].pc # "destroy_index"
    BY <1>1, <2>1 DEF Present, WriterIn
  <2> QED
    BY <1>3, <2>1, <2>2
<1>10. CASE UNCHANGED vars
  BY <1>3, <1>10 DEF vars, Present, WriterIn
<1> QED
  BY <1>0, <1>7, <1>8, <1>9, <1>10, ReaderSteps DEF Next, Crash

\* The writer's steps leave the other processes' calls and handles alone.
LEMMA WriterAlone ==
  ASSUME TypeInv, WriterStep, NEW r \in Procs \ {Writer}
  PROVE  op'[r] = op[r] /\ handle'[r] = handle[r]
<1>1. op \in [Procs -> Call] /\ handle \in [Procs -> Handle]
  BY WriterTypes
<1>2. ASSUME NEW ts \in Times, CreateIndex(ts) PROVE op'[r] = op[r] /\ handle'[r] = handle[r]
  BY <1>1, <1>2 DEF CreateIndex
<1>3. ASSUME CreateData \/ DestroyIndex PROVE op'[r] = op[r] /\ handle'[r] = handle[r]
  BY <1>1, <1>3 DEF CreateData, DestroyIndex, Return
<1>4. ASSUME DestroyData PROVE op'[r] = op[r] /\ handle'[r] = handle[r]
  BY <1>1, <1>4 DEF DestroyData
<1>5. ASSUME NEW p \in Payloads, AppendData(p) PROVE op'[r] = op[r] /\ handle'[r] = handle[r]
  BY <1>1, <1>5 DEF AppendData, Return
<1>6. ASSUME NEW ts \in Times, AppendEntry(ts) PROVE op'[r] = op[r] /\ handle'[r] = handle[r]
  BY <1>1, <1>6 DEF AppendEntry, Return
<1>7. ASSUME AppendHeader PROVE op'[r] = op[r] /\ handle'[r] = handle[r]
  BY <1>1, <1>7 DEF AppendHeader, Return
<1>8. ASSUME NEW id, NEW p \in Payloads, Update(id, p) PROVE op'[r] = op[r] /\ handle'[r] = handle[r]
  BY <1>1, <1>8 DEF Update, Return
<1> QED
  BY <1>2, <1>3, <1>4, <1>5, <1>6, <1>7, <1>8 DEF WriterStep

LEMMA ReaderOpens ==
  ASSUME StoreInv, NEW r \in Readers, r # Writer, Open(r)
  PROVE  ReaderAt(op[r], handle[r])'
<1>1. /\ op \in [Procs -> Call] /\ handle \in [Procs -> Handle] /\ r \in Procs /\ Writer \in Procs
      /\ index \in Seq(Nat)
  BY WriterTypes, WriterProc DEF StoreInv, WholeInv
<1>2. PICK h : h = handle'[r] /\ h.open = TRUE /\ h.header = CachedHeader /\ h.dpos = 0
  BY <1>1 DEF Open
<1>3. PICK c : c = op'[r] /\ c.pc = "idle" /\ c.call = "none"
  BY <1>1 DEF Open, Idle
<1>4. /\ UNCHANGED <<index, data, exists>> /\ op'[Writer] = op[Writer] /\ CanOpen
  BY <1>1 DEF Open
<1>5. exists /\ Present
  BY <1>4, LengthFacts
<1>6. exists' /\ Present'
  BY <1>4, <1>5 DEF Present, WriterIn
<1>7. h.header[COUNT] = DiskCount
  BY <1>1, <1>2, <1>4, CachedCount DEF CanOpen
<1>8. PICK n \in Nat : n = DiskCount /\ n = DiskCount'
  BY <1>4, <1>5, StoreFacts DEF DiskCount
<1>9. h.header[COUNT] <= DiskCount'
  <2>1. n <= n
    OBVIOUS
  <2> QED
    BY <1>7, <1>8, <2>1, Zenon
<1>10. ReaderAt(c, h)'
  BY <1>2, <1>3, <1>6, <1>9 DEF ReaderAt
<1> QED
  BY <1>2, <1>3, <1>10

LEMMA ReaderCloses ==
  ASSUME StoreInv, NEW r \in Readers, Close(r)
  PROVE  ReaderAt(op[r], handle[r])'
<1>1. op \in [Procs -> Call] /\ handle \in [Procs -> Handle] /\ r \in Procs
  BY WriterTypes, WriterProc DEF StoreInv, WholeInv
<1>2. PICK h : h = handle'[r] /\ h.open = FALSE
  BY <1>1 DEF Close, Closed
<1>3. PICK c : c = op'[r] /\ c.pc = "idle" /\ c.call = "none"
  BY <1>1 DEF Close, Idle
<1>4. ReaderAt(c, h)'
  BY <1>2, <1>3 DEF ReaderAt
<1> QED
  BY <1>2, <1>3, <1>4

LEMMA ReaderQueries ==
  ASSUME ~Reuse, StoreInv, NEW r \in Readers, r # Writer, ReaderAt(op[r], handle[r]),
         NEW q \in Queries, QueryIndex(r, q)
  PROVE  ReaderAt(op[r], handle[r])'
<1>1. /\ op \in [Procs -> Call] /\ r \in Procs /\ Writer \in Procs /\ index \in Seq(Nat)
  BY WriterTypes, WriterProc DEF StoreInv, WholeInv
<1>2. PICK h \in Handle : h = handle[r] /\ h = handle'[r] /\ h.header[COUNT] \in Nat
  BY ReaderTypes DEF QueryIndex, StoreInv, WholeInv
<1>3. PICK list : list = IndexQuery(h.header, q)
  OBVIOUS
<1>4. PICK c : /\ c = op'[r] /\ c.id = q.first /\ c.call = q.by /\ c.offs = list.offs /\ c.got = <<>>
               /\ c.ret = (IF list.null THEN "error" ELSE "ok")
               /\ c.pc = (IF list.null \/ list.offs = <<>> THEN "done" ELSE "read")
  <2> DEFINE pc == IF list.null \/ list.offs = <<>> THEN "done" ELSE "read"
             ret == IF list.null THEN "error" ELSE "ok"
             d == [Idle EXCEPT !.pc = pc, !.call = q.by, !.ret = ret, !.id = q.first,
                               !.offs = list.offs, !.real_count = Len(list.offs)]
  <2>1. op' = [op EXCEPT ![r] = d]
    BY <1>2, <1>3 DEF QueryIndex
  <2> HIDE DEF pc, ret
  <2>2. d.pc = pc /\ d.call = q.by /\ d.ret = ret /\ d.id = q.first /\ d.offs = list.offs /\ d.got = <<>>
    BY DEF Idle
  <2> HIDE DEF d
  <2>3. op'[r] = d
    BY <1>1, <2>1
  <2> QED
    BY <2>2, <2>3 DEF pc, ret
<1>5. /\ UNCHANGED <<index, data, exists>> /\ op'[Writer] = op[Writer]
      /\ op[r].pc = "idle" /\ h.open
  BY <1>1, <1>2 DEF QueryIndex
<1>6. exists /\ Present /\ h.dpos = 0 /\ h.header[COUNT] <= DiskCount
  BY <1>2, <1>5 DEF ReaderAt
<1>7. exists' /\ Present' /\ h.header[COUNT] <= DiskCount'
  BY <1>5, <1>6 DEF Present, WriterIn, DiskCount
<1>8. CASE q.by # "id"
  <2>1. ReaderAt(c, h)'
    BY <1>4, <1>5, <1>7, <1>8 DEF ReaderAt
  <2> QED
    BY <1>2, <1>4, <2>1
<1>9. CASE q.by = "id" /\ ~PastEnd(h.header, q.first)
  <2>1. PICK id \in Nat : id = q.first /\ id = c.id /\ id < h.header[COUNT] /\ id < DiskCount
    BY <1>2, <1>4, <1>6, <1>9, QueriesAssumption, StoreFacts DEF PastEnd
  <2>2. EntryAt(id) + 2 <= Len(index)
    BY <1>6, <2>1, CountedRecord
  <2>3. PICK header : header = h.header
    OBVIOUS
  <2>4. /\ IndexQueryByRecordId(header, index, id).null = FALSE
        /\ IndexQueryByRecordId(header, index, id).offs = <<Offset(index, id)>>
    BY <1>1, <1>9, <2>1, <2>2, <2>3, QueryOffset
  <2>5. list.null = FALSE /\ list.offs = <<Offset(index, id)>>
    BY <1>3, <1>9, <2>1, <2>3, <2>4 DEF IndexQuery
  <2>6. c.pc = "read" /\ c.ret = "ok" /\ c.offs = <<Offset(index', c.id)>>
    BY <1>4, <1>5, <2>1, <2>5
  <2>7. ReaderAt(c, h)'
    BY <1>4, <1>5, <1>6, <1>7, <2>1, <2>6 DEF ReaderAt
  <2> QED
    BY <1>2, <1>4, <2>7
<1>10. CASE q.by = "id" /\ PastEnd(h.header, q.first)
  <2>1. list.null = TRUE
    BY <1>3, <1>10 DEF IndexQuery, IndexQueryByRecordId, NoList
  <2>2. c.pc = "done" /\ ~(c.id < h.header[COUNT])
    BY <1>2, <1>4, <1>10, <2>1, QueriesAssumption DEF PastEnd
  <2>3. ReaderAt(c, h)'
    BY <1>5, <1>7, <2>2 DEF ReaderAt
  <2> QED
    BY <1>2, <1>4, <2>3
<1> QED
  BY <1>8, <1>9, <1>10

LEMMA ReaderReads ==
  ASSUME StoreInv, NEW r \in Readers, r # Writer, ReaderAt(op[r], handle[r]), ReadNext(r)
  PROVE  ReaderAt(op[r], handle[r])'
<1>1. /\ op \in [Procs -> Call] /\ handle \in [Procs -> Handle] /\ r \in Procs /\ Writer \in Procs
      /\ data \in Seq(Cell)
  BY WriterTypes, WriterProc DEF StoreInv, WholeInv
<1>2. PICK c \in Call, h \in Handle : /\ c = op[r] /\ h = handle[r] /\ c.id \in Nat /\ h.header[COUNT] \in Nat
  BY ReaderTypes DEF StoreInv, WholeInv
<1>3. PICK g : g = handle'[r] /\ g.open = h.open /\ g.header = h.header
  <2> DEFINE dpos == ReadRecord(data, handle[r].dpos, op[r].offs[1]).dpos
             k == [handle[r] EXCEPT !.dpos = dpos]
  <2>1. handle' = [handle EXCEPT ![r] = k]
    BY DEF ReadNext
  <2> HIDE DEF dpos
  <2>2. k.open = h.open /\ k.header = h.header
    BY <1>2 DEF Handle
  <2> HIDE DEF k
  <2> QED
    BY <1>1, <2>1, <2>2
<1>4. PICK rd : rd = ReadRecord(data, h.dpos, c.offs[1])
  OBVIOUS
<1>5. PICK rest : rest = (IF rd.ok THEN Tail(c.offs) ELSE <<>>)
  OBVIOUS
<1>6. PICK d : /\ d = op'[r] /\ d.id = c.id /\ d.call = c.call /\ d.ret = c.ret
               /\ d.got = (IF rd.ok THEN Append(c.got, rd.payload) ELSE c.got)
               /\ d.pc = (IF rest = <<>> THEN "done" ELSE "read")
  <2> DEFINE got == IF rd.ok THEN Append(c.got, rd.payload) ELSE c.got
             pc == IF rest = <<>> THEN "done" ELSE "read"
             e == [c EXCEPT !.offs = rest, !.got = got, !.pc = pc]
  <2>1. op' = [op EXCEPT ![r] = e]
    BY <1>2, <1>4, <1>5 DEF ReadNext
  <2> HIDE DEF got, pc
  <2>2. e.id = c.id /\ e.call = c.call /\ e.ret = c.ret /\ e.got = got /\ e.pc = pc
    BY DEF Call
  <2> HIDE DEF e
  <2>3. op'[r] = e
    BY <1>1, <2>1
  <2> QED
    BY <2>2, <2>3 DEF got, pc
<1>7. UNCHANGED <<index, data, exists>> /\ op'[Writer] = op[Writer] /\ c.pc = "read"
  BY <1>1, <1>2 DEF ReadNext
<1>8. /\ h.open /\ exists /\ Present /\ h.header[COUNT] <= DiskCount
      /\ c.call = "id" => /\ h.dpos = 0 /\ c.id < h.header[COUNT]
                          /\ c.ret = "ok" /\ c.got = <<>> /\ c.offs = <<Offset(index, c.id)>>
  BY <1>2, <1>7 DEF ReaderAt
<1>9. exists' /\ Present' /\ g.header[COUNT] <= DiskCount'
  BY <1>3, <1>7, <1>8 DEF Present, WriterIn, DiskCount
<1>10. CASE c.call # "id"
  <2>1. ReaderAt(d, g)'
    BY <1>3, <1>6, <1>8, <1>9, <1>10 DEF ReaderAt
  <2> QED
    BY <1>3, <1>6, <2>1
<1>11. CASE c.call = "id"
  <2>1. PICK id \in Nat : id = c.id /\ id < DiskCount
    BY <1>2, <1>8, <1>11, StoreFacts
  <2>2. PICK o \in Nat, p \in Seq(Cell) : o = Offset(index, id) /\ HoldsRecord(data, o, p)
    BY <1>8, <2>1, CountedRecord
  <2>3. ReadRecord(data, 0, o).ok /\ ReadRecord(data, 0, o).payload = p
    BY <1>1, <2>2, ReadRecordWhole
  <2>4. c.offs = <<o>> /\ c.offs[1] = o /\ Tail(c.offs) = <<>>
    <3>1. c.offs = <<o>>
      BY <1>8, <1>11, <2>1, <2>2
    <3>2. <<o>>[1] = o /\ Tail(<<o>>) = <<>>
      OBVIOUS
    <3> QED
      BY <3>1, <3>2
  <2>5. rd.ok /\ rd.payload = p
    BY <1>4, <1>8, <1>11, <2>3, <2>4
  <2>6. rest = <<>> /\ d.pc = "done" /\ d.got = <<p>>
    <3>1. rest = <<>>
      BY <1>5, <2>4, <2>5
    <3>2. d.got = Append(<<>>, p)
      BY <1>6, <1>8, <1>11, <2>5
    <3>3. Append(<<>>, p) = <<p>>
      OBVIOUS
    <3> QED
      BY <1>6, <3>1, <3>2, <3>3
  <2>7. HoldsRecord(data', Offset(index', d.id), p) /\ d.ret = "ok"
    BY <1>6, <1>7, <1>8, <1>11, <2>1, <2>2
  <2>8. ReaderAt(d, g)'
    BY <1>3, <1>6, <1>8, <1>9, <2>2, <2>6, <2>7 DEF ReaderAt
  <2> QED
    BY <1>3, <1>6, <2>8
<1> QED
  BY <1>10, <1>11

LEMMA ReaderInvInit == Init => ReaderInv
<1> SUFFICES ASSUME Init, NEW r \in Readers PROVE ReaderAt(op[r], handle[r])
  BY StoreInvInit DEF ReaderInv
<1>1. op[r] = Idle /\ handle[r] = Closed
  BY WriterProc DEF Init
<1>2. PICK c, h : c = op[r] /\ h = handle[r] /\ c.pc = "idle" /\ c.call = "none" /\ h.open = FALSE
  BY <1>1 DEF Idle, Closed
<1>3. ReaderAt(c, h)
  BY <1>2 DEF ReaderAt
<1> QED
  BY <1>2, <1>3

LEMMA ReaderInvStep ==
  ASSUME Events \subseteq Tolerated, "update" \notin Events, ~Reuse, Writer \notin Readers
  PROVE  ReaderInv /\ [Next]_vars => ReaderInv'
<1> SUFFICES ASSUME ReaderInv, [Next]_vars, NEW r \in Readers, StoreInv, StoreInv'
             PROVE  ReaderAt(op[r], handle[r])'
  BY StoreInvStep DEF ReaderInv
<1>0. /\ "crash" \notin Events /\ "past_end" \notin Events
  BY DEF Tolerated
<1>1. /\ r \in Procs /\ r \in Procs \ {Writer} /\ r # Writer /\ ReaderAt(op[r], handle[r])
      /\ TypeInv /\ op \in [Procs -> Call] /\ handle \in [Procs -> Handle]
  BY WriterProc, WriterTypes DEF ReaderInv, StoreInv, WholeInv
<1>2. handle[r].open => BlockKept
  <2>1. handle[r].open => exists /\ Present
    BY <1>1 DEF ReaderAt
  <2> QED
    BY <1>1, <2>1, BlockGrows
<1>3. ASSUME op'[r] = op[r], handle'[r] = handle[r] PROVE ReaderAt(op[r], handle[r])'
  BY <1>1, <1>2, <1>3, ReaderWaits
<1>4. ASSUME WriterStep PROVE ReaderAt(op[r], handle[r])'
  BY <1>1, <1>3, <1>4, WriterAlone
<1>5. ASSUME NEW p \in Procs, Open(p) \/ Close(p) PROVE ReaderAt(op[r], handle[r])'
  <2>1. CASE p = r
    BY <1>1, <1>5, <2>1, ReaderOpens, ReaderCloses
  <2>2. CASE p # r
    <3>1. op'[r] = op[r] /\ handle'[r] = handle[r]
      BY <1>1, <1>5, <2>2 DEF Open, Close
    <3> QED
      BY <1>3, <3>1
  <2> QED
    BY <2>1, <2>2
<1>6. ASSUME NEW p \in Readers, Reads(p) PROVE ReaderAt(op[r], handle[r])'
  <2>1. CASE p = r
    BY <1>1, <1>6, <2>1, ReaderQueries, ReaderReads DEF Reads
  <2>2. CASE p # r
    <3>1. op'[r] = op[r] /\ handle'[r] = handle[r]
      BY <1>1, <1>6, <2>2, ReaderChanges
    <3> QED
      BY <1>3, <3>1
  <2> QED
    BY <2>1, <2>2
<1>7. CASE UNCHANGED vars
  BY <1>3, <1>7 DEF vars
<1> QED
  BY <1>0, <1>4, <1>5, <1>6, <1>7, ReaderSteps DEF Next, Crash

LEMMA ReaderInvReads == ReaderInv /\ AckedIn(Visible) => ReadsAcked
<1> SUFFICES ASSUME ReaderInv, AckedIn(Visible), NEW r \in Readers,
                    op[r].pc = "done", op[r].call = "id",
                    op[r].id \in DOMAIN acked, handle[r].header[COUNT] > op[r].id
             PROVE  op[r].ret = "ok" /\ op[r].got = <<acked[op[r].id]>>
  BY DEF ReadsAcked
<1>1. StoreInv /\ TypeInv /\ data \in Seq(Cell)
  BY TypeInvFacts DEF ReaderInv, StoreInv, WholeInv
<1>2. PICK c \in Call, h \in Handle : /\ c = op[r] /\ h = handle[r] /\ c.id \in Nat /\ h.header[COUNT] \in Nat
                                      /\ ReaderAt(c, h)
  BY <1>1, ReaderTypes DEF ReaderInv
<1>3. c.id < h.header[COUNT] /\ c.pc = "done" /\ c.call = "id"
  BY <1>2
<1>4. /\ c.ret = "ok" /\ h.open /\ exists /\ Present /\ h.header[COUNT] <= DiskCount
      /\ \E p \in Seq(Cell) : c.got = <<p>> /\ HoldsRecord(data, Offset(index, c.id), p)
  BY <1>2, <1>3 DEF ReaderAt
<1>5. PICK p \in Seq(Cell) : c.got = <<p>> /\ HoldsRecord(data, Offset(index, c.id), p)
  BY <1>4
<1>6. PICK id \in Nat : id = c.id /\ id < DiskCount
  BY <1>1, <1>2, <1>3, <1>4, StoreFacts
<1>7. PICK s : Stored(s) /\ Visible = s
  BY <1>1, StoredExists, VisibleIs
<1>8. id \in 0 .. Len(s) - 1 /\ s[id + 1] = acked[id] /\ acked[id] \in Seq(Cell)
  BY <1>1, <1>2, <1>6, <1>7, TypeInvFacts, PayloadType DEF AckedIn
<1>9. HoldsRecord(data, Offset(index, id), acked[id])
  BY <1>6, <1>7, <1>8 DEF Stored
<1>10. PICK o \in Nat : o = Offset(index, id)
  BY <1>1, <1>4, <1>6, CountedRecord
<1>11. p = acked[id]
  <2>1. PICK a \in Seq(Cell) : a = acked[id] /\ HoldsRecord(data, o, a)
    BY <1>8, <1>9, <1>10
  <2>2. HoldsRecord(data, o, p)
    BY <1>5, <1>6, <1>10
  <2> QED
    BY <1>1, <2>1, <2>2, HeldUnique
<1> QED
  BY <1>2, <1>4, <1>5, <1>6, <1>11

\* A reader that asks, on a handle of its own, for an id its header counts gets
\* the record that was acknowledged under it (sea_block_query_by_record_id),
\* while the writer appends, fails, rolls back, closes, opens and destroys: what
\* happens between its query of the index and its read of the data does not
\* matter.  Each query is on a fresh handle, no record is rewritten, and the
\* writer does not read.
THEOREM ReadsReturnRecords ==
  ASSUME Events \subseteq Tolerated, "update" \notin Events, ~Reuse, Writer \notin Readers
  PROVE  Spec => []ReadsAcked
<1> DEFINE Inv == ReaderInv /\ AckedIn(Visible)
<1>1. Inv /\ [Next]_vars => Inv'
  BY ReaderInvStep, EveryStoreStep DEF StoreStep, ReaderInv
<1>2. Init => Inv
  BY ReaderInvInit, StoreStarts
<1>3. Inv => ReadsAcked
  BY ReaderInvReads
<1> QED
  BY <1>1, <1>2, <1>3, PTL DEF Spec
=============================================================================
