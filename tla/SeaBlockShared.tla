--------------------------- MODULE SeaBlockShared ----------------------------
(***************************************************************************)
(* sea_block_append on one handle shared by several threads: the REST      *)
(* server answers POST requests on the threads of a task queue             *)
(* (src/src/rest/server.c), all of them append to controller->block        *)
(* (src/src/controller/controller.c), and nothing is locked.  The threads  *)
(* share the two descriptors with their positions and the cached index     *)
(* header; every system call and every access to the shared count is a     *)
(* step.  Two unsynchronised accesses to the count are a data race: here   *)
(* each load and store of the build is taken as one step.                  *)
(* Time is left out (every timestamp is 0), and so are failing writes.     *)
(***************************************************************************)
EXTENDS SeaBlockFormat

CONSTANTS
  Threads,    \* the threads that call sea_controller_write
  Payloads,   \* the payloads of the requests
  MaxCount,   \* max_count of the block
  MaxAppends  \* bound: appends a thread makes

\* sea_block_append refuses an empty payload.
ASSUME PayloadsAssumption == Payloads \subseteq Seq(Cell) /\ <<>> \notin Payloads
ASSUME BoundsAssumption == MaxCount \in Nat /\ MaxAppends \in Nat

VARIABLES
  data,     \* the data file
  index,    \* the index file
  dpos,     \* position of the shared data descriptor
  ipos,     \* position of the shared index descriptor
  count,    \* index->header.count of the shared handle
  thread    \* per thread: its step and the locals of sea_block_append

vars == <<data, index, dpos, ipos, count, thread>>

Steps == {"idle", "write_data", "load_id", "load_count", "store_count",
          "seek_end", "write_entry", "seek_header", "write_header"}

\* offset and record_id are the out-parameters, loaded the register of count++.
Idle(done, id, p) ==
  [pc |-> "idle", payload |-> p, offset |-> 0, record_id |-> id, loaded |-> 0, done |-> done]

\* A block that has just been created and opened.
Init ==
  /\ data = <<>> /\ index = NewHeader(MaxCount, 0)
  /\ dpos = 0 /\ ipos = HEADER_SIZE
  /\ count = 0
  /\ thread = [t \in Threads |-> Idle(0, 0, <<>>)]

\* Thread t is at step pc and goes on to step next.
At(t, pc) == thread[t].pc = pc
Goto(t, next) == thread' = [thread EXCEPT ![t].pc = next]

\* Mutant: SEEK_SET for SEEK_END.
MutantSeekDataStart(t, p) ==
  /\ At(t, "idle") /\ thread[t].done < MaxAppends
  /\ dpos' = 0
  /\ thread' = [thread EXCEPT ![t].pc = "write_data", ![t].payload = p, ![t].offset = 0]
  /\ UNCHANGED <<data, index, ipos, count>>

\* *offset = lseek(data->fd, 0, SEEK_END)
SeekData(t, p) ==
  /\ At(t, "idle") /\ thread[t].done < MaxAppends
  /\ dpos' = End(data)
  /\ thread' = [thread EXCEPT ![t].pc = "write_data", ![t].payload = p, ![t].offset = End(data)]
  /\ UNCHANGED <<data, index, ipos, count>>

WriteData(t) ==
  /\ At(t, "write_data")
  /\ data' = WriteAt(data, dpos, Record(thread[t].payload), HoleCell)
  /\ dpos' = dpos + Len(Record(thread[t].payload))
  /\ Goto(t, "load_id")
  /\ UNCHANGED <<index, ipos, count>>

\* *record_id = index->header.count
LoadId(t) ==
  /\ At(t, "load_id")
  /\ thread' = [thread EXCEPT ![t].pc = "load_count", ![t].record_id = count]
  /\ UNCHANGED <<data, index, dpos, ipos, count>>

\* index->header.count ++
LoadCount(t) ==
  /\ At(t, "load_count")
  /\ thread' = [thread EXCEPT ![t].pc = "store_count", ![t].loaded = count]
  /\ UNCHANGED <<data, index, dpos, ipos, count>>

StoreCount(t) ==
  /\ At(t, "store_count")
  /\ count' = thread[t].loaded + 1
  /\ Goto(t, "seek_end")
  /\ UNCHANGED <<data, index, dpos, ipos>>

\* lseek(index->fd, 0, SEEK_END)
SeekEnd(t) ==
  /\ At(t, "seek_end")
  /\ ipos' = End(index)
  /\ Goto(t, "write_entry")
  /\ UNCHANGED <<data, index, dpos, count>>

WriteEntry(t) ==
  /\ At(t, "write_entry")
  /\ index' = WriteAt(index, ipos, Entry(0, thread[t].offset), 0)
  /\ ipos' = ipos + ENTRY_SIZE
  /\ Goto(t, "seek_header")
  /\ UNCHANGED <<data, dpos, count>>

\* lseek(index->fd, 0, SEEK_SET)
SeekHeader(t) ==
  /\ At(t, "seek_header")
  /\ ipos' = 0
  /\ Goto(t, "write_header")
  /\ UNCHANGED <<data, index, dpos, count>>

WriteHeader(t) ==
  /\ At(t, "write_header")
  /\ index' = WriteAt(index, ipos, [NewHeader(MaxCount, 0) EXCEPT ![COUNT] = count], 0)
  /\ ipos' = ipos + HEADER_SIZE
  /\ thread' = [thread EXCEPT ![t] = Idle(@.done + 1, @.record_id, @.payload)]
  /\ UNCHANGED <<data, dpos, count>>

Step(t) ==
  \/ \E p \in Payloads : SeekData(t, p)
  \/ WriteData(t) \/ LoadId(t) \/ LoadCount(t) \/ StoreCount(t)
  \/ SeekEnd(t) \/ WriteEntry(t) \/ SeekHeader(t) \/ WriteHeader(t)

Next == \E t \in Threads : Step(t)

Spec == Init /\ [][Next]_vars

-----------------------------------------------------------------------------
(* Properties.                                                             *)

Local == [pc : Steps, payload : Payloads \cup {<<>>}, offset : Nat,
          record_id : Nat, loaded : Nat, done : Nat]

TypeOK ==
  /\ data \in Seq(Cell)
  /\ index \in Seq(Nat)
  /\ dpos \in Nat /\ ipos \in Nat /\ count \in Nat
  /\ thread \in [Threads -> Local]

\* However the threads interleave, a data record is written behind all the
\* others: the data file only ever grows at its end (sea_block_data_append).
DataAppendOnly ==
  [][/\ Len(data) <= Len(data')
     /\ \A i \in 1 .. Len(data) : data'[i] = data[i]]_data

\* Reading at off returns the whole payload of some client.
WholeAt(off) ==
  LET r == ReadRecord(data, 0, off) IN r.ok /\ r.payload \in Payloads

\* The offset a thread puts in its index entry addresses a whole record,
\* though perhaps the record another thread wrote there.
OffsetsWhole == \A t \in Threads : thread[t].pc \notin {"idle", "write_data"} => WholeAt(thread[t].offset)

=============================================================================
