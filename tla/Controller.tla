------------------------------ MODULE Controller ------------------------------
(***************************************************************************)
(* sea_controller_write (src/src/controller/controller.c) with the super   *)
(* block that hands out block ids (super_block.c): threads of the REST     *)
(* server post records to one controller, which keeps the block it fills   *)
(* open, expires it when it is full and goes on with the next id.  Nothing *)
(* is locked; every access to controller->block and super_block->block_id  *)
(* is a step, and so are the four parts of sea_block_append: the write of  *)
(* the data, the count, the write of the entry, the write of the header.   *)
(* Each of these writes may be short, and the process may die between any  *)
(* two steps.  One lseek and the write after it are one step here, and so  *)
(* are the load and the store of the count: threads that come between      *)
(* those are the subject of SeaBlockShared.                                *)
(*                                                                         *)
(* A block on disk is the count in its header and the cells of its index:  *)
(* two for an entry, its time stamp and then its offset, for which stands  *)
(* the payload of the record at that offset.  An entry may be torn between *)
(* its cells.  Block ids are relative to the id of the super block.        *)
(* phone_list_put is left out: nothing reads the phone list.               *)
(***************************************************************************)
EXTENDS Naturals, Sequences, FiniteSets

CONSTANTS
  Threads,      \* the server's threads
  Payloads,     \* what clients post
  MaxCount,     \* SEA_BLOCK_MAX_COUNT_DEFAULT
  MaxBlocks,    \* bound: block ids the controller goes up to
  MaxPosts,     \* bound: requests
  MaxRestarts,  \* bound: times the server process dies and is started again
  Events        \* what else happens, of AllEvents

ASSUME ThreadsAssumption == IsFiniteSet(Threads)
ASSUME BoundsAssumption ==
  MaxCount \in Nat \ {0} /\ MaxBlocks \in Nat /\ MaxPosts \in Nat /\ MaxRestarts \in Nat
AllEvents == {"restart", "short_data", "short_entry", "short_header"}
ASSUME EventsAssumption == Events \subseteq AllEvents

VARIABLES
  disk,      \* per block id: the block on disk
  block_id,  \* super_block->block_id
  block,     \* controller->block: a handle, or NULL
  heap,      \* the struct sea_block of every handle
  thread,    \* per thread: its step in sea_controller_write, and its locals
  posted,    \* history: the payload of every (block id, record id) answered
  serial,    \* history: no request has begun while another was at work
  damaged,   \* history: <<block id, count on disk>> where an entry was lost or orphaned
  posts, restarts   \* history: requests, and starts after the first

vars == <<disk, block_id, block, heap, thread, posted, serial, damaged, posts, restarts>>

NULL == 0
Handles == 1 .. Cardinality(Threads) + 2
BlockIds == 1 .. MaxBlocks

Stamp == "stamp"
Hole == "hole"
Cells == {Stamp, Hole} \cup Payloads
Entry(p) == <<Stamp, p>>

NoBlock == [exists |-> FALSE, count |-> 0, index |-> <<>>]
Closed == [open |-> FALSE, of |-> NULL, count |-> 0]
Idle == [pc |-> "idle", payload |-> NULL, block_id |-> 0, record_id |-> 0, handle |-> NULL, loaded |-> 0]

\* sync_super_block_from_disk: nobody appends a record to the super block, so
\* the query for record 0 fails and the first id is taken at every start.
\* Mutant: the id of the super block itself.
MutantFirstIsSuper == 0
FirstBlockId == 1

Init ==
  /\ disk = [b \in BlockIds |-> NoBlock]
  /\ block_id = FirstBlockId
  /\ block = NULL
  /\ heap = [h \in Handles |-> Closed]
  /\ thread = [t \in Threads |-> Idle]
  /\ posted = [r \in {} |-> NULL]
  /\ serial = TRUE
  /\ damaged = {}
  /\ posts = 0 /\ restarts = 0

At(t, pc) == thread[t].pc = pc
\* No request, or one that will not touch the controller again.
AtRest(t) == At(t, "idle") \/ At(t, "forward")
Goto(t, pc) == thread' = [thread EXCEPT ![t].pc = pc]

-----------------------------------------------------------------------------
(* Opening and creating the block.                                         *)

\* Allocated, and not closed.
Live(h) == h # NULL /\ heap[h].open

\* A handle nobody can use any more; a leaked one counts as free.
FreeHandle == CHOOSE h \in Handles : h # block /\ \A t \in Threads : thread[t].handle # h

\* The header a handle caches.
CachedCount(b) == disk[b].count

\* controller->block = sea_block_open(DATA_DIR, b)
OpenBlock(b) ==
  IF disk[b].exists
  THEN /\ block' = FreeHandle
       /\ heap' = [heap EXCEPT ![FreeHandle] = [open |-> TRUE, of |-> b, count |-> CachedCount(b)]]
  ELSE block' = NULL /\ UNCHANGED heap

\* controller_super_block_get_block_id
GetBlockId(t, p) ==
  /\ At(t, "idle") /\ posts < MaxPosts /\ block_id \in BlockIds
  /\ thread' = [thread EXCEPT ![t] = [Idle EXCEPT !.pc = "check", !.payload = p, !.block_id = block_id]]
  /\ posts' = posts + 1
  /\ serial' = (serial /\ \A u \in Threads : AtRest(u))
  /\ UNCHANGED <<disk, block_id, block, heap, posted, damaged, restarts>>

CheckBlock(t) ==
  /\ At(t, "check")
  /\ Goto(t, IF block = NULL THEN "open" ELSE "load")
  /\ UNCHANGED <<disk, block_id, block, heap, posted, serial, damaged, posts, restarts>>

OpenExisting(t) ==
  /\ At(t, "open")
  /\ OpenBlock(thread[t].block_id)
  /\ Goto(t, "recheck")
  /\ UNCHANGED <<disk, block_id, posted, serial, damaged, posts, restarts>>

\* Mutant: the block is created whether or not it could be opened.
MutantAlwaysCreate(h) == TRUE
MustCreate(h) == h = NULL

RecheckBlock(t) ==
  /\ At(t, "recheck")
  /\ Goto(t, IF MustCreate(block) THEN "create" ELSE "reopen")
  /\ UNCHANGED <<disk, block_id, block, heap, posted, serial, damaged, posts, restarts>>

\* sea_block_create: a new header; entries that are there stay.  One step:
\* half a creation leaves nothing that can be opened (SeaBlock).
Created(b) == [disk[b] EXCEPT !.exists = TRUE, !.count = 0]

CreateBlock(t) ==
  /\ At(t, "create")
  /\ disk' = [disk EXCEPT ![thread[t].block_id] = Created(thread[t].block_id)]
  /\ Goto(t, "reopen")
  /\ UNCHANGED <<block_id, block, heap, posted, serial, damaged, posts, restarts>>

\* The block is opened again even when the first open succeeded: that handle leaks.
Reopen(t) ==
  /\ At(t, "reopen")
  /\ OpenBlock(thread[t].block_id)
  /\ Goto(t, "load")
  /\ UNCHANGED <<disk, block_id, posted, serial, damaged, posts, restarts>>

-----------------------------------------------------------------------------
(* Appending, expiring, closing.                                           *)

\* The argument of sea_block_append, which refuses NULL.
LoadBlock(t) ==
  /\ At(t, "load")
  /\ thread' = [thread EXCEPT ![t].handle = block,
                              ![t].pc = IF block = NULL THEN "forward" ELSE "append"]
  /\ UNCHANGED <<disk, block_id, block, heap, posted, serial, damaged, posts, restarts>>

\* Mutant: one record too early.
MutantOverLimitEarly(count) == count + 1 >= MaxCount
OverLimit(count) == count >= MaxCount

\* The thread is done: the client gets (block id, record id) for its payload.
Answer(t) ==
  LET r == <<thread[t].block_id, thread[t].record_id>> IN
  /\ thread' = [thread EXCEPT ![t] = Idle]
  /\ posted' = [q \in DOMAIN posted \cup {r} |-> IF q = r THEN thread[t].payload ELSE posted[q]]

\* The block a thread appends to, and its mark: what is below the count on
\* disk now is not touched by what goes wrong next.
Target(t) == heap[thread[t].handle].of
Mark(t) == <<Target(t), disk[Target(t)].count>>

\* sea_block_data_append, to the end of the data.  Half a record that is left
\* there is never addressed.
WriteData(t) ==
  /\ At(t, "append") /\ Live(thread[t].handle)
  /\ \/ Goto(t, "count")
     \/ "short_data" \in Events /\ Goto(t, "forward")
  /\ UNCHANGED <<disk, block_id, block, heap, posted, serial, damaged, posts, restarts>>

\* *record_id = index->header.count; index->header.count ++
CountUp(t) ==
  LET h == thread[t].handle IN
  /\ At(t, "count") /\ Live(h)
  /\ heap' = [heap EXCEPT ![h].count = @ + 1]
  /\ thread' = [thread EXCEPT ![t].pc = "entry", ![t].record_id = heap[h].count]
  /\ UNCHANGED <<disk, block_id, block, posted, serial, damaged, posts, restarts>>

\* The entry goes to the end of the index, wherever that is.
WriteEntry(t) ==
  /\ At(t, "entry") /\ Live(thread[t].handle)
  /\ disk' = [disk EXCEPT ![Target(t)].index = @ \o Entry(thread[t].payload)]
  /\ Goto(t, "header")
  /\ UNCHANGED <<block_id, block, heap, posted, serial, damaged, posts, restarts>>

\* The write fails or is short; the handle's count stays one ahead, and half
\* an entry may stay in the file.
ShortEntry(t) ==
  /\ "short_entry" \in Events
  /\ At(t, "entry") /\ Live(thread[t].handle)
  /\ \E cells \in {<<>>, <<Stamp>>} : disk' = [disk EXCEPT ![Target(t)].index = @ \o cells]
  /\ damaged' = damaged \cup {Mark(t)}
  /\ Goto(t, "forward")
  /\ UNCHANGED <<block_id, block, heap, posted, serial, posts, restarts>>

\* The count written is the handle's by now.
WriteHeader(t) ==
  /\ At(t, "header") /\ Live(thread[t].handle)
  /\ disk' = [disk EXCEPT ![Target(t)].count = heap[thread[t].handle].count]
  /\ IF OverLimit(thread[t].record_id + 1)
     THEN Goto(t, "expire") /\ UNCHANGED posted
     ELSE Answer(t)
  /\ UNCHANGED <<block_id, block, heap, serial, damaged, posts, restarts>>

\* ftruncate, which also makes a file longer.  Mutant: the file is not cut.
MutantNotCut(index, n) == index
Resized(index, n) == [i \in 1 .. n |-> IF i <= Len(index) THEN index[i] ELSE Hole]

\* The count is taken back, and the file cut to the entries it counts.
ShortHeader(t) ==
  LET h == thread[t].handle
      count == heap[h].count - 1
  IN
  /\ "short_header" \in Events
  /\ At(t, "header") /\ Live(h)
  /\ heap' = [heap EXCEPT ![h].count = count]
  /\ disk' = [disk EXCEPT ![Target(t)].index = Resized(@, 2 * count)]
  /\ Goto(t, "forward")
  /\ UNCHANGED <<block_id, block, posted, serial, damaged, posts, restarts>>

Appending(t) == thread[t].pc \in {"append", "count", "entry", "header"}

\* On a handle another thread has closed the append fails with no effect, if
\* it does not abort (UseAfterClose).
AppendFails(t) ==
  /\ Appending(t) /\ ~Live(thread[t].handle)
  /\ Goto(t, "forward")
  /\ UNCHANGED <<disk, block_id, block, heap, posted, serial, damaged, posts, restarts>>

\* controller_super_block_expire_block_id: block_id ++, an unlocked load and
\* store.  sync_super_block_to_disk then updates record 0 of the super block,
\* which is not there: it fails with no effect, and the caller ignores it.
ExpireLoad(t) ==
  /\ At(t, "expire")
  /\ thread' = [thread EXCEPT ![t].pc = "expire_store", ![t].loaded = block_id]
  /\ UNCHANGED <<disk, block_id, block, heap, posted, serial, damaged, posts, restarts>>

ExpireStore(t) ==
  /\ At(t, "expire_store")
  /\ block_id' = thread[t].loaded + 1
  /\ Goto(t, "close")
  /\ UNCHANGED <<disk, block, heap, posted, serial, damaged, posts, restarts>>

\* sea_block_close(controller->block)
CloseBlock(t) ==
  /\ At(t, "close") /\ Live(block)
  /\ heap' = [heap EXCEPT ![block] = Closed]
  /\ Goto(t, "clear")
  /\ UNCHANGED <<disk, block_id, block, posted, serial, damaged, posts, restarts>>

ClearBlock(t) ==
  /\ At(t, "clear")
  /\ block' = NULL
  /\ Answer(t)
  /\ UNCHANGED <<disk, block_id, heap, serial, damaged, posts, restarts>>

-----------------------------------------------------------------------------
\* The process dies and is started again; threads and handles are gone.  An
\* entry whose header was still to be written stays behind, uncounted.
ProcessDies ==
  /\ restarts < MaxRestarts
  /\ restarts' = restarts + 1
  /\ block_id' = FirstBlockId
  /\ block' = NULL
  /\ heap' = [h \in Handles |-> Closed]
  /\ thread' = [t \in Threads |-> Idle]
  /\ damaged' = damaged \cup {Mark(t) : t \in {u \in Threads : At(u, "header") /\ Live(thread[u].handle)}}
  /\ UNCHANGED <<disk, posted, serial, posts>>

Restart == "restart" \in Events /\ ProcessDies

\* Memory errors, here the build where they abort: an append on a freed
\* handle, a close of NULL or of a freed handle.
UseAfterClose(t) ==
  /\ \/ Appending(t) /\ ~Live(thread[t].handle)
     \/ At(t, "close") /\ ~Live(block)
  /\ ProcessDies

\* A write that failed locally goes to dht_list_get_free_node, which reports
\* success without setting the address, and controller_data_send: the send
\* waits for a peer at that address for ever (the thread stays at "forward"),
\* or the answer is received over the memory of its caller.
ForwardAborts(t) == At(t, "forward") /\ ProcessDies

Step(t) ==
  \/ \E p \in Payloads : GetBlockId(t, p)
  \/ CheckBlock(t) \/ OpenExisting(t) \/ RecheckBlock(t) \/ CreateBlock(t) \/ Reopen(t)
  \/ LoadBlock(t) \/ WriteData(t) \/ CountUp(t) \/ WriteEntry(t) \/ ShortEntry(t)
  \/ WriteHeader(t) \/ ShortHeader(t) \/ AppendFails(t)
  \/ ExpireLoad(t) \/ ExpireStore(t) \/ CloseBlock(t) \/ ClearBlock(t)
  \/ UseAfterClose(t) \/ ForwardAborts(t)

Next == (\E t \in Threads : Step(t)) \/ Restart

Spec == Init /\ [][Next]_vars

-----------------------------------------------------------------------------
(* Properties.                                                             *)

Block == [exists : BOOLEAN, count : Nat, index : Seq(Cells)]
Handle == [open : BOOLEAN, of : {NULL} \cup BlockIds, count : Nat]
Local == [pc : {"idle", "check", "open", "recheck", "create", "reopen", "load", "append",
                "count", "entry", "header", "expire", "expire_store", "close", "clear", "forward"},
          payload : {NULL} \cup Payloads, block_id : {0} \cup BlockIds, record_id : Nat,
          handle : {NULL} \cup Handles, loaded : Nat]

\* Every block id is above the id of the super block, a handle is NULL or one
\* of the heap, and what is answered is a client's payload.
TypeOK ==
  /\ disk \in [BlockIds -> Block]
  /\ block_id \in Nat \ {0}
  /\ block \in {NULL} \cup Handles
  /\ heap \in [Handles -> Handle]
  /\ thread \in [Threads -> Local]
  /\ \A r \in DOMAIN posted : r \in BlockIds \X Nat /\ posted[r] \in Payloads
  /\ serial \in BOOLEAN /\ damaged \subseteq BlockIds \X Nat
  /\ posts \in 0 .. MaxPosts /\ restarts \in 0 .. MaxRestarts

\* sea_controller_read_from_local: what a GET of (b, id) returns; a cell that
\* is no payload stands for whatever a read at that offset gives.
LocalRead(b, id) ==
  IF disk[b].exists /\ id < disk[b].count /\ 2 * id + 2 <= Len(disk[b].index)
  THEN disk[b].index[2 * id + 2] ELSE NULL

\* What a POST was answered with returns what was posted, at any later time:
\* the block id taken at the start of sea_controller_write still names the
\* block the record is appended to.
PostedReadable == \A r \in DOMAIN posted : LocalRead(r[1], r[2]) = posted[r]

\* As long as no two requests have overlapped, what a POST was answered with
\* returns what was posted, at any later time: through expiring blocks, short
\* data, entry and header writes, deaths at any step and restarts that forget
\* which block is next.  Left out are the records a block got after an entry
\* of it had failed to be written, or been written by a process that died
\* before it wrote the header: those are misplaced, the others are not harmed.
SerialPostedReadable ==
  serial => \A r \in DOMAIN posted :
    (\A d \in damaged : d[1] = r[1] => r[2] < d[2]) => LocalRead(r[1], r[2]) = posted[r]

\* No (block id, record id) is answered twice, although every start begins
\* again at the first block (sync_super_block_from_disk) and a failed entry
\* write leaves the count of the handle ahead of the disk.
IdsUnique ==
  [][serial' => \A t \in Threads :
       /\ thread[t].pc \in {"header", "clear"} /\ thread'[t].pc = "idle" /\ restarts' = restarts
       => <<thread[t].block_id, thread[t].record_id>> \notin DOMAIN posted]_vars

\* A block is begun only when the one before it is full, whatever was lost
\* or orphaned in it.
BlocksFillInOrder ==
  serial => \A b \in BlockIds \ {1} : disk[b].exists => disk[b - 1].count >= MaxCount
=============================================================================
