# A verification project for sea

`sea` (src/) is a small distributed block store. Clients POST records to a
REST server and get an id `<block id>_<record id>` back; GET of the id returns
the record. Records live in append-only *blocks* (an index file and a data file
each); a controller fills one block after the other; nodes find each other over
a Kademlia DHT. Column files, an inverted word index and a graph database are
built beside or on top of the blocks.

This directory holds TLA+ models of the parts listed as modelled below, TLC
configurations that check them on small instances, and TLAPS proofs of the
properties that matter most, for every instance. `PROJECT.json` lists every
component, run, hazard, theorem and the source lines behind every definition.

## 1. Inventory

| component | state | operations | interacts with |
|---|---|---|---|
| **block/time** (`sea_block*.c`) | index file (header of 5 words: block id, max count, start, stop, count; one 2-word entry per record), data file (header, payload, tail per record); per open handle two descriptors and a *cached* index header | create, open, close, destroy, append, update, query by record id / count / time | the file system; other handles on the same files; threads on the same handle |
| **controller** (`controller.c`, `super_block.c`) | `controller->block` (the block being filled), `super_block->block_id`, the phone list | write (get id, open or create, append, expire, close), read | block/time, phone list, DHT look-ups; called by all server threads, unlocked |
| **phone list** (`phone_list.c` over `khash.h`) | hash map block id -> nodes | put, get | written by the controller |
| **REST** (`rest/server.c`) | the controller pointer | POST, GET on the threads of the HTTP library | controller |
| **data server** (`controller_data.c`, `data_server_process` in `rest/server.c`) | one receive and one send buffer | GET and PUT over nng request/reply | never started, see section 7 |
| **DHT client** (`dht_list.c`) | when to call `dht_periodic` next | event loop on its own thread; look-ups from a signal and from the server threads | DHT, controller |
| **DHT** (`dht.c`) | routing table of buckets, blacklist, list of searches, stored peers, token bucket | `dht_periodic` (one message, expiry, maintenance, due search steps), `dht_search`, `dht_insert_node`, `dht_get_nodes` | the network |
| **block/array** (`array.c`) | a file of fixed-size records behind a counting header; a cached header per handle | create, destroy, open, close, append, read | word |
| **block/word** (`word.c`) | a column file of document ids per word | create, destroy, open, close, insert, find | array, md5 |
| **block/graph** (`graph*.c`) | an index block and a data block; connections with two block handles | create, destroy, open, close, insert, update, remove, find | block/time |

What is hard here, and what makes each part correct:

* **Several writes per operation.** An append is a write to the data file, a
  write of an entry, a write of the header, each of which may be short, with
  the process dying between any two. A node of the graph is two such appends. An
  append to a column is a write of records and one of the header. Correct: what
  was acknowledged stays readable under its id, what was not damages nothing,
  counts and contents agree, ids are not given twice.
* **Two copies of a count**, in every open handle and on disk. Correct: the
  count on disk never gets ahead of what is there.
* **Positions of descriptors** that persist from call to call and are shared by
  threads. Correct: a read is made where the index says.
* **No locks.** Server threads share the controller, its block, the block's
  handle and descriptors, the phone list, the DHT's tables. Correct: requests that
  overlap are answered as if they did not. (They are not: see section 4.)
* **Restarts.** What the controller needs to go on must be found on disk.
* **A network** that loses, delays, reorders and duplicates replies, and nodes
  that send garbage. Correct: a search ends, has asked the closest nodes, and is
  reported once; the routing table keeps the nodes that answer.
* **Tables at their limits**: full buckets that split, arrays of peers that
  grow and are purged in place, a hash map that is rehashed in place.

The hazards, each at its line, are in `PROJECT.json`.

## 2. Modules

| module | models | built on |
|---|---|---|
| `PosixFile` | write, read, lseek to the end, ftruncate, short writes, on files as sequences of cells (external) | |
| `SeaBlockFormat` | the two file formats; the index look-ups; one read of a record | `PosixFile` |
| `SeaBlock` | one block, a writer and readers with handles of their own | `SeaBlockFormat` |
| `RecordStore` | abstract specification: a sequence of records | |
| `SeaBlockRefinement` | the refinement mapping from `SeaBlock` to `RecordStore` | both |
| `SeaBlockShared` | appends by threads through one handle | `SeaBlockFormat` |
| `Controller` | `sea_controller_write` by several threads, roll-over of blocks, restarts | |
| `ColArray` | column files, any number of handles | `PosixFile` |
| `Word` | words as columns, and under which name each is filed | `ColArray` |
| `Graph` | the graph database, connections over two blocks | `SeaBlockFormat` |
| `KHash` | the hash map: probing, growth, rehash in place | |
| `PhoneList` | puts of several threads into the hash map | `KHash` |
| `DhtIds` | node ids as numbers, distances, common prefixes | |
| `DhtTable` | the routing table as operators: buckets, splits, candidates, expiry, maintenance, closest nodes | `DhtIds` |
| `DhtRouting` | the table under any sequence of messages | `DhtTable` |
| `DhtSearch` | the list of searches, `dht_search` and its callers, the loop that drives it | `DhtIds` |
| `DhtRate` | the token bucket | |
| `PeerStore` | abstract specification: per hash a bounded set of peers with ages | |
| `DhtPeers` | storage of peers behind the token bucket, and its refinement of `PeerStore` | `DhtRate` |
| `MC...` | small instances for TLC | |
| `SeaBlockLemmas` | lemmas about files and the block formats | `SeaBlockFormat` |
| `SeaBlockProofs`, `SeaBlockSharedProofs`, `ControllerProofs`, `WordProofs`, `GraphProofs`, `DhtPeersProofs`, `DhtSearchProofs` | theorems and proofs | the module of their name (`SeaBlockProofs` also `SeaBlockRefinement`) |

### How they correspond to the code

**Files.** Both block formats consist of 8-byte units, so a file is a sequence
of cells and an offset a number of cells. An index cell is the number in it. A data
cell is what it is (header, payload, tail) and *the length it shows when it is
read as a record header*: `sea_block_data_query_by_offsets` believes any eight
bytes it lands on. A tail shows a length no file reaches (its magic byte is the
high byte), a payload cell shows what the client put there, and the payloads of
the runs include cells that show a length that fits. Payload lengths are whole
cells and a short write ends at a cell boundary. In `ColArray` a cell is a byte
of a record or a field of the header.

**`SeaBlock`.** `index` and `data` are the files, `exists` whether the data file
is there, `handle[p]` the cached header and the position of the data descriptor
of process `p`, `op[p]` the call it is in. The writer's call is split at every
write another process can see: `AppendData`, `AppendEntry`, `AppendHeader` for
`sea_block_append`; `CreateIndex`, `CreateData`; `DestroyData`, `DestroyIndex`.
A failed header write and the `ftruncate` that undoes the entry are one step,
and so are the reads of a record's header and payload, because no run has
updates and a reader at once and nothing else changes the bytes of a record.
`acked` is a history variable: the payload of every id a client was given. The
constant `Events` chooses which failures and rare calls a run includes, so that
a property is stated together with what it survives; `Reuse` whether a handle
may be queried a second time.

**`SeaBlockShared`.** The same append at a finer grain: every lseek, write, load
and store of the shared count is a step of a thread; `dpos`, `ipos` and `count`
are the shared positions and the shared cached count.

**`Controller`.** One step per access to `controller->block` and
`super_block->block_id`, in the order of `sea_controller_write_local`, and one per
part of `sea_block_append`: `WriteData`, `CountUp` (the id is read and the
handle's count incremented), `WriteEntry`, `WriteHeader`. Any of the three writes
may be short (`ShortEntry`, `ShortHeader`), other threads come between any two
steps, and so does the death of the process. One step merges an `lseek` with the
write after it, and the load of the count with its store, whose separation is the
subject of `SeaBlockShared`; and the creation of a block, half of which leaves
nothing that can be opened (`SeaBlock`). A block on disk is the count in its
header and the cells of its index, two per entry: the time stamp, and the offset,
for which stands the payload of the record there. So an entry may be torn, and what follows it
is misplaced as in the code. Handles are kept in `heap` so that a handle
that is out of date, leaked or closed stays what it is in the code. Use of a
closed handle is undefined behaviour: the process dies or the call fails with no effect.
`posted`, `serial` and `damaged` are history: what clients were answered, that no
two requests have overlapped, and where (block and count on disk) an entry was
lost by a failed write or left uncounted by a death.

**`ColArray`, `Word`.** `file` is the column files by path, `handle` the cached
header, `op` the append under way. An append is the write of the records
(`AppendData`), and either the write of the header (`AppendHeader`) or the
`ftruncate` (`AppendUndo`); the process may die in between. The header's count
is one cell, so a rewrite that is short changes it or does not. Errors are
`errno`, which a short write does not set: `answer` is what the caller may be
told. A handle whose open failed is freed and returned; using it is undefined
(`UseUnusable`). A path stands for the hash of the name it is called after;
`CreatePaths` is the name `word.c:17` cuts. `acked` and `doubt` are history.

**`Graph`.** Both blocks are files of `SeaBlockFormat`. An append is one step,
since one process makes one call at a time, with the outcomes `SeaBlock` gives it:
whole; short data; a short entry, which leaves the handle's count one ahead; a
header write that fails and is undone; and death after the write of the data or
after that of the entry. (A death before or in the write of the data leaves what
a short one and a `Crash` after it do.) The rewrite of the index record by an update may be short as
well. The process may also die between the append to the data block
(`InsertNode`) and that to the index block (`InsertIndex`). Each look-up
is made on a handle not yet read from, because what a second query on one handle
reads is the subject of `SeaBlock`. `spoiled` is history: what has happened that
takes nodes away by what the code does, with the name of the cause, so that each
property says which causes it survives: `reset` (a connection without a data
block creates it again), `updated`, `misdirected` (a node written into the index
block), `recreated`, `cut` (a failed header write after a reset truncates the
entries of others), `torn` (an entry or an update that is not written whole).

**`KHash`, `PhoneList`.** The table is the arrays of `khash.h` with its flags;
`Put` and `Resize` follow the macros bucket by bucket, kicked-out keys included.
`kh_put` is one step and the store through the bucket it returned another, so
another thread's put and rehash may come in between. That two threads are inside
`kh_put` at once is undefined behaviour without a bound and left out.

**DHT.** A node's id stands for its address, and there is one address family.
Times are ages, saturated above the largest age the code compares them with, in
units chosen per run. Each step of `DhtRouting` and `DhtSearch` is one
`dht_periodic`: the message, and then what it does on its own, where a random
deadline means that the work may or may not be done in this call. One part is
a step of its own: the requests search steps send to nodes of the routing table (`SearchAsks`), which
`dht_search` also makes from other threads. The parts are
modelled apart, each with the others free: a search begins with *any* set of
nodes of the routing table (`nearby`), a routing table sees *any* reply, and
`DhtPeers` says which requests the rate control drops.

* `DhtTable`: `buckets` in order, each with its list of nodes, the count kept by
  hand, `max_count`, and the candidate to replace a dubious node. `Split`
  re-inserts nodes one at a time and may split again. `DhtRouting` adds the
  blacklist, and the requests that searches send to nodes of the table, which count as
  unanswered there: a node that replies is asked at once by every open search
  with room (`AskedOften`), and the search a reply is for asks one more
  (`AskedNext`), before expiry looks at the counts.
* `DhtSearch`: what changes one search is an operator on it (`InsertNode`, `Ask`,
  `Step`, ...), what changes several is one on the record of all searches,
  requests, reports and offers, which every message hands on from one operator to
  the next and, at last, to `Tasks`. `searches` is the list, `sent` the requests a reply may still
  arrive to (never removed by time: replies may come arbitrarily late), `wake`
  the time until `search_time`. `Search` is `dht_search` and its callers, the
  signal and the look-up of the REST server, whose callback takes the data of an
  event that has none. `started`, `finished` and `heard` are history.
* `DhtPeers`: `storage` maps a hash to its array of peers and `maxpeers`;
  `Purged` is the removal in place, `Values` the circular walk of an answer from a
  random place. `load` in `DhtRate` is history: the requests
  let through less the rate, which is what a bound on bursts is about.

## 3. Runs that pass

| run | question | failures and interleavings in it |
|---|---|---|
| `append_faults` | Do acknowledged records stay readable, does the header count the entries, and do readers get their records? | short data and header writes, destroy; one writer, one reader, every interleaving |
| `crash` | After a death between any two system calls, does every id the header counts still address a whole record, and is an id ever given to two clients? | death, torn creation, short data and header writes, a query that aborts the process |
| `store` | Is the block the abstract record store? Are pages and time ranges exact? | short writes, torn creation, updates whole and torn, destroy |
| `shared_handle` | Can threads on one handle damage the data file, or index the middle of a record? | every interleaving of two threads, two appends each |
| `controller` | Do answered ids return what was posted, through roll-over, failed writes and restarts, as long as requests do not overlap? Are ids unique, are blocks filled in order? | two threads, every interleaving; short data, entry and header writes; deaths between any two steps |
| `columns` | Does a reader get exactly what was acknowledged, never half a record? Is the count ever ahead of the file? | short creation, data and header writes, death, re-creation, two handles with counts of their own |
| `graph` | Does an inserted node stay findable, and does an index record always lead to a whole record? | short data, entry and header writes in either block, death inside an append and between the two, updates whole and torn, a second connection that creates the data block again |
| `phone_list` | Is every key found, does every search of the table end, do entries stay with their keys through rehashing? | two threads whose puts overlap; five colliding keys; two growths |
| `dht_routing` | Do the buckets partition the ids, are nodes dropped only for cause, are the closest nodes listed? | any message at any time, silence, broken replies, requests of searches, expiry |
| `dht_search` | Does a search that is not asked for again end, once, having asked the nodes it should have? | lost, late, reordered, duplicated and garbled replies; repeated searches; nodes that send garbage |
| `dht_peers` | Do the arrays implement a store of bounded sets with ages? How large are bursts? | limits on hashes and peers, expiry in place, dropped requests |

The properties are stated next to their definitions. Those that say most:
`AckedReadable` (an acknowledged id read through a handle opened at *any*
moment), `RefinesRecordStore` (an append takes effect at exactly one write, with
the id and the payload its caller is answered with), `WholeRecords`,
`IdNeverReissued`, `SerialPostedReadable` (through short writes of every kind
and deaths, of records whose block has lost no entry before them),
`IndexAddressesData` (across two blocks, with deaths inside and between their
appends), `ReadsExact`, `SearchComplete` and `SearchEnds`, `NodesKept`,
`RefinesPeerStore`, `RateBounded`.

### Bounds

* Blocks: `MaxData` 7 to 10 cells: two to four records of one or two cells, with
  the remains of torn ones between them. Every failure can precede and follow a
  successful append, which is what a wrong rollback or offset needs to show.
  `MaxCount` 2: the limit is reached, reported and (the code does not refuse)
  passed. `MaxTime` 0 or 1: timestamps equal or different, with a range that
  ends between them.
* One writer and one reader in `SeaBlock`. Readers change nothing, so a second
  one adds no behaviour to the first.
* `Huge` is larger than any file; `UintMod` is larger than any count in a run,
  and in `columns` small enough that byte offsets do wrap.
* `store` has no reader process: its properties evaluate the queries on the
  files in every state instead.
* Threads 2, requests 4, blocks 2 of 2 records, restarts 2 in `controller`: a
  block fills, is expired and left for the next one, an entry is lost or orphaned before and after others,
  and a full first block is met again after each restart. Threads and payloads
  are interchangeable (symmetry).
* `columns`: three records, batches of one and of two with bytes after the last,
  records of 2 bytes (`ValueType` 3) so that half of one can be written; a
  word of exactly 32 characters and a longer one, which meets the name it is cut to.
* `graph`: nodes of one and two cells, 7 cells per block, two interchangeable
  connections, ids up to the number of appends that fit.
* `phone_list`: keys 3, 7 and 11 share a bucket of the table of 4, and 3 and 11
  one of the table of 8; 5 keys force the second growth.
* `dht_routing`: ids of 3 bits, buckets of 2 (1 after splits): the own bucket
  splits twice in one insertion, a full bucket has a candidate and a dubious
  node. Times are in one unit, and the thresholds keep their order (a reply
  counts at least as long as a message). Four searches: enough to ask a node that has just
  replied as often as makes `expire_buckets` drop it in the same call.
* `dht_search`: three nodes in a chain, lists of 2, one request in flight, two
  calls of `dht_search`, one duplicate: a list is full, a farther node is pushed
  out, a late reply of the first call arrives in the second. As in the code a
  step may come before it is time to ask anybody (`StepWait` is not above
  `Retransmit`). The list is as long as `Closest`, so the nodes of a list behind
  the first eight are covered by the theorem `SearchesComplete` only. New searches have
  room in the list: reuse of the slot of an expired search of *another* target
  needs a second target and is modelled but not reached here.
* `dht_peers`: four peers (two addresses, one of each family, with two ports
  each), room for three of one hash: the array is full at 2, grows, and is full
  again at its limit. An answer lists two.
* Deadlock is checked except where the bounds on appends, requests or calls, or
  the death of the server in `dht_search`, let the model stop.

### Fairness

Only `dht_search` claims liveness: `SearchEnds`, a search in progress comes to
its end though no reply may ever come. `FairSpec` assumes that the loop of
`dht_list.c` calls `dht_periodic` at the latest when it asked to be called
(`WF_vars(Wake)`: `select` has `tosleep` as its timeout) and that time passes
(`WF_vars(Tick)`). Nothing is assumed of messages or of the random deadline of
expiry. Of callers nothing is assumed either, but the property speaks of a search
that is not asked for again: it ends, or there is another call for its target. The
program does search one hash again and again, on every GET of a record it does not have
and on a signal, and each call cuts the silent nodes of the list and takes those
of the routing table back in as if they had never been asked (`dht.c:1382`,
`dht.c:1407`); calls that keep coming can keep a search from ending. The bound
`MaxCalls` is 2, so that a call ends the stretch of the first and none that of
the second. The next step is drawn from `Waits` each time.

### Assumptions

A completed write is seen by every later read and survives the death of the
process (page cache). Loss of power is not modelled: the code never calls fsync
and nothing would hold. Allocation does not fail. `sea_block_update` replaces a
record by one of the same length, as its callers do. Handles are closed before a
block is destroyed.

## 4. Where code and documentation part

`controller_race` finds a violation: two first requests overlap; the second
creates the block again over an acknowledged record (`controller.c:109`), and
the GET that `接口.md` promises returns nothing.

Other places where the code does not do what is said of it. The properties are
stated for what does not involve them, and their comments name the exclusion.

* A short write of an entry is not rolled back in the cached count
  (`sea_block_index.c:175`), so the header comes to count records that have no
  entry, and every later record of the block is misplaced. The event
  `short_entry` is in `SeaBlock`, where `Typing` and `IdsNotReissued` are proved with it,
  and in the runs `controller` and `graph`: the records a block had before are
  not harmed, and no id is given twice.
* After a death between entry and header an orphan entry shifts every later id
  by one, so a POST is acknowledged whose GET returns another client's record,
  without any requests that overlap. `crash` and `controller` include it: ids are
  still unique, address whole records, and what was answered before is not harmed.
* `SEEK_CUR` in `sea_block_data.c:158`: the second query on a handle reads the
  wrong place, and so does the second record of one query by count or time. The
  constant `Reuse` is FALSE in the runs.
* Two threads that append through one handle may each be answered with the
  other's id, or both with one (`sea_block_index.c:164`).
* An append to a column of which a short write was cut off is acknowledged when
  errno was 0 (`array.c:124`); opening a torn column gives a freed handle.
* A word of more than 32 characters is created under one name and looked for
  under another (`word.c:17`).
* An updated node of the graph is not found again: the index record of the
  update names the index block (`graph.c:155`). A connection that has not
  inserted yet creates the data block again, and nodes beyond its new count are
  not found (`graph.c:97`).
* The first put of a block into the phone list is lost: `kh_put` answers 1 for a
  new key, which is taken for an error (`phone_list.c:65`).
* A node that has just replied can be dropped from the routing table in the same
  call of `dht_periodic`: each open search with room asks it at once
  (`dht.c:1179`), each request counts as unanswered, and at four `expire_buckets`
  frees it.
* A node that sent a garbled reply to get_peers is put back into the search it
  was just cut from, as one that has replied (`dht.c:2157`), against the comment
  at `dht.c:681`.
* A GET of a record that is not there starts a search whose callback takes data
  it is not given when the search ends at once (`dht_list.c:209`).

## 5. Proofs

TLC decides the small instances; the theorems hold for every value of the
constants: any number of readers, threads, handles or connections, any payloads,
any bounds, and any assignment of the named assumptions of the modules.

**`SeaBlockLemmas`** has what the operators do to files (`WordProofs` states the
few of them it needs again, over other constants): a
write at the end keeps everything before it, a header write keeps the entries, a
truncation to the rolled-back size keeps the entries that are counted, a record
that is whole stays whole while the file grows, an update of a record leaves the
others alone, and a query of an entry that is there finds the record it
addresses (`QueryFindsEntry`).

**`SeaBlockProofs`.** Each result has the failures it survives in its statement;
the invariants build on one another:

* `Typing` (`Spec => []TypeOK`), every set of events. `TypeInv` adds, for each
  process, that it has the open handle and the offsets its place in a call needs.
* `IdsNotReissued` (`IdNeverReissued`), every failure, death and short entries
  included; only a block created over another one is excluded, which starts its
  ids again. `IdInv` adds that acknowledged ids are below the count on disk, from
  which every new handle goes on (`IdsCounted`), and that the writer's cached
  count may be ahead of the one on disk, as it is after a short entry, but never
  behind (`HandleAhead`).
* `RecordsStayWhole` (`WholeRecords`), with death between any two writes, and
  blocks that are created again over an old index. `WholeInv` is about *all* the
  entries of the index file, because those a death left uncounted are counted by
  later appends: each addresses a whole record, one behind the other, and the
  record that waits for its entry lies behind them (`EntriesWhole`); the writer's
  cached count is the one on disk and its own record (`WriterCounts`). Conditions:
  no short entry (section 4); no torn update, which mixes two payloads; and not
  both destroy and death, because a destroy that is cut short leaves an index
  whose entries address a data file that is gone, and which a block created again
  goes on from.
* `CountStaysExact`, `AckedStayReadable` (`AckedReadable`) and `Refinement`
  (`Spec => RefinesRecordStore`), for `Events \subseteq Tolerated`: short data and
  header writes, torn creation, destroy, whole and torn updates, a clock that
  goes back. Death, short entries and a block created over another are excluded
  because there the properties fail (section 4). `StoreInv` adds to `WholeInv`
  that an open handle is on a block that exists and has its limit
  (`HandleCurrent`), that every entry is counted but the one of the append under
  way (`EntriesCounted`: the next entry lands at the position of its id), which
  id, payload and limit that append will answer with (`AppendUnderWay`), and
  which call the writer is in (`CallKnown`). Over it, `Stored(s)` says that `s` is
  the sequence of the payloads of the counted records, the mapping to
  `RecordStore`. Each action takes a stored sequence to the one a step of the
  abstract store allows, or to itself; the writes of data and of the entry map to
  stuttering, the write of the header to the abstract append. `AckedIn(s)`, kept
  along the same steps, gives `AckedStayReadable`.
* `PagesStayExact` (`PagesExact`), under the conditions of `RecordsStayWhole`:
  the counted entries are in the file, so the read that `ReadCount` cuts at the
  last id returns the offsets of the page and no others (`PageFound`).
* `TimeScansStayComplete` (`TimeScanComplete`), if the clock is not set back as
  well. `TimeInv` adds that the entries, counted or not, are in the order of their
  times and none is later than the clock. The scan then stops behind a prefix of
  the entries: the loop takes a set of ids that is closed downwards, and such a
  set is an interval (`InitialInterval`, by the finiteness of the set).
* `ReadsReturnRecords` (`ReadsAcked`), for any number of readers that query each
  on a fresh handle of its own, under the tolerated failures and without updates
  (after an update, what a reader read before is no longer what was acknowledged).
  `ReaderInv` says of each reader that the block it has open is there and counts at least what its handle does,
  that the offset it holds is the one of the id it asked for, and that the record
  it has read is the one at that offset; `BlockGrows` says that no step of
  another process touches a counted entry or its record while a handle is open
  on the block.

**`SeaBlockSharedProofs`**: for any number of threads no write touches a byte of
the data file that is there (`SharedDataAppendOnly`) and every offset that
reaches an entry addresses a whole record (`SharedOffsetsWhole`). The argument:
while any thread is between its seek and its write the shared position is at the
end of the file (`AtEnd`), because every write of another thread moves it there
again; a thread's own offset is then where its record will be written, or where
another thread has written one since (`Offsets`).

**`ControllerProofs`**: for any number of server threads, requests and restarts.

* `ControllerTyping` (`Spec => []TypeOK`). Its invariant adds that a thread at
  work has a block id and a payload and appends through a handle (`InCall`). That
  a block can always be opened (`HandleFree`) is a cardinality argument: the
  handles in use are one per thread and the controller's.
* `SerialPostsReadable` (`SerialPostedReadable`), `BlocksFilledInOrder`
  (`BlocksFillInOrder`) and `IdsNeverReused` (`IdsUnique`): the guarantees while
  requests do not overlap, whichever writes of an append are short and wherever
  the process dies. The invariant is stated as long as `serial` holds. It says that
  one thread is at work; that the handle the controller holds is on the
  next block to be filled, and counts what is on disk, or more where an entry was
  lost; that the index of a block no damage was recorded for
  is exactly its counted entries, but for the entry under way; that the blocks
  before the next one are full (after a restart the first block is met again,
  found full and expired); that the ids answered are below the counts on disk,
  which is why none is answered again; where the thread at work stands, in
  particular that the block it is about to create is not there; and that what
  was answered before any damage is on disk.

**`WordProofs`**: for any number of columns, handles and batches, and every size
of record `TypeSize` knows. `IInv` has five parts, and each theorem rests on
those before it:

* `TypeCorrect` (`TypeOK`) on `StateInv`, types, and `OpenInv`: a handle is open
  only on a column with a whole header, and the append under way writes at what
  was the end of the column its handle is open on.
* `CountsNeverAhead` (`CountNeverAhead`) on `CountInv`: the counts in headers
  *and the ones that handles cache* are at most the records that were complete
  before the append under way, so that a handle with an older count may lower the
  count but never raise it above the file.
* `RecordsNotTorn` (`NoTornRecords`) on `NotTornInv`: where nothing torn was left
  behind, the cells of a column are those of some sequence of appended values, up
  to the append under way.
* `ReadsReturnAcknowledged` (`ReadsExact`) on `AckedInv`: where nothing is in
  doubt that sequence is what was acknowledged, and what is about to be.

The argument uses that callers append whole records and at most part of another
(`ColumnAssumption`): `col_array_append` divides the length by the record size.

**`GraphProofs`**: for any number of connections and any nodes.

* `TypeCorrect` (`TypeOK`). `TypeInv` adds the shape of both files and that a
  handle is only on a block that has been created.
* `IndexLeadsToRecords` (`IndexAddressesData`), through short data and header
  writes, deaths inside an append and between the two, updates, and connections
  that reset the count of the data block. `Addressed` is about all entries,
  counted or not, because a reset count grows over the old entries again: index
  files consist of whole entries and handles count within them; every entry of the data block addresses a node;
  every entry of the index block addresses a place in the data block that has an
  entry, or is an updated record that leads to itself; an update of one index
  record touches no other (`Apart`); the insert under way has its data entry.
* `InsertedStayFindable` (`InsertedFindable`). `Findable` adds that while a
  connection writes an index has exactly the entries it counts (`WriterExact`:
  every failure short of a death rolls back), that one connection writes
  (`OneWriter`) and its counts are those on disk (`WriterCurrent`), and that every
  id given out leads to its node (`LeadsTo`). Entries that a death has orphaned lie
  behind the counted ones; the data block has them before the index block does
  (`IndexBehind`), so that the next connection to insert resets the count of the
  data block, which is among what the property excludes.

**`DhtPeersProofs`**: for any hashes and peers, any limits, any size of the bucket
and any rate.

* `RateAlwaysBounded` (`RateSpec => []RateBounded`) and `ServedAlwaysBounded`
  (`Spec => []RateBounded`): in T seconds at most two full buckets and the rate's
  share are let through. Not inductive, since the tokens that a refill will bring
  are not in the state. `RateIInv` adds them: the load, the tokens and what a
  refill would bring now are together at most two buckets. `RateSpec` is the token
  bucket alone, of which every step of `DhtPeers` takes one or none.
* `PeersAlwaysTyped` (`Spec => []TypeOK`): the count of hashes and the limits
  on arrays hold through growth, refresh, expiry and removal (`PeersIInv`). The
  removal in place and the walk of an answer are loops. A loop is a recursive
  function of its step; that an invariant of the loop holds at its end is an
  induction over the numbers `0 .. n` (`StepInduction`, by the finiteness of an
  interval), so no operator has to be a parameter of the induction.
* `PeersRefine` (`Spec => RefinesPeerStore`): each step of the arrays is the step
  of `PeerStore` of the same name or stutters. `AgesOf` is the refinement mapping,
  `PurgedPeers` the lemma it needs most: a removal in place, which moves the last
  peer to the place of the one removed and looks at it again, keeps exactly the
  peers that are not expired, each once.
* `ValuesAlwaysComplete` (`[]ValuesComplete`): a walk around the array from any
  place takes each peer of the family once, or as many as fit.

**`DhtSearchProofs`**: for any nodes, targets, limits and delays, and any number of
requests in flight, replies and calls.

* `SearchesReportOnce` (`Spec => []OneDoneEach`). The invariant `SearchIInv` adds
  that the list of searches is well-formed, in particular that no two are of one
  target. Each handler is shown to keep the searches as they are, apart from their
  nodes (`Kept`), up to what `dht_periodic` does in the end: there, the searches
  that expire and those whose step is their last are counted once each (`Settled`,
  by cardinalities of sets with at most one member).
* `SearchesComplete` (`Spec => SearchComplete`). A step reports a search when the
  first `Closest` nodes that are not given up have replied (`LiveFirst`). A node
  behind them has all of them in front of it: the places in front of it that are
  not given up are at least `Closest` (`FirstBefore`).
* `SearchesDieAlone` (`Spec => []DiesOnlyAlone`). When a search begins or begins
  again, no node in its list has been asked (`Unasked`), which each insertion
  keeps; the first node of such a list has not replied, so the search ends at once
  only if there is none.
* `SearchesTyped` (`Spec => []TypeOK`): the list of a search is, in order of
  distance, the closest of all nodes offered to it. Two things are needed. The first
  is that distance is an order: the ids of `DhtIds` are numbers below `Power[Bits]`
  (a recursive function, since the provers know no powers), two ids that differ
  differ in a bit (`SameBits`, by halving), and where they part decides, so `Closer`
  is total and transitive (`CloserTotal`, `CloserTransitive`). The second is the
  invariant `Listed`, inductive together with `SearchIInv`. It has the order
  for any two places, so that removals keep it, and says of each node
  offered that it is in the list, or that the list is full of closer ones. An insertion into
  a full list drops the last node, which is then further than all that are left
  (`InsertedNearest`); a node that is cut for good reason (`flush_search_node`,
  `Restarted`) leaves the list and the offers together (`FlushNearest`).

### Only model-checked

* The phone list and the routing table: `KHash` and `DhtTable` use recursive
  operators (a rehash, a split that re-inserts and may split again), whose results
  take induction over data.
* `SearchEnds`: liveness under fairness is out of the prover's reach.

## 6. Plan

The parts of the plan are done: every component that has state of its own is
modelled, and each property of a run that the provers can reach is a theorem. What
would come next is the routing table: a split is a loop over the nodes of a bucket
and, as the loops of `DhtPeers`, could be written as a recursive function of its
step; that a split may split again makes the function one of the depth of the tree
as well.

Runs stay few: the properties of a component share one passing run per set of
failures, and a run that looks for a violation checks one property.

## 7. Not modelled

* The data server protocol (`controller_data.c`, `data_server_process`): the
  thread the main thread joins never returns (`server.c:247`), so the data server
  is never started; a node look-up returns no address. Nothing in the program's
  reachable state depends on it.
* `strtok` in the parsing of ids on several threads (`server.c:40`), and what
  two threads inside `dht.c` or `khash.h` do to its lists: undefined behaviour
  with no bound on its outcomes. Calls from different threads interleave whole.
* In `dht.c`: parsing, bencoding and printing of messages, the second table for
  IPv6, the rotation of secrets (a token matches or not), dumps.
* Positions of descriptors and torn creations of blocks in `Graph`, failures of
  two threads at once on one handle in `SeaBlockShared`, and torn creations in
  `Controller` (all three are in `SeaBlock`, for one writer).
* A creation of an index whose write returns an error, rather than short
  (`sea_block_index.c:70`), is the short write that writes nothing.
* Vendored or unused code: `queue.h`, `tree.h`, `md5.c`, `dht-example.c`, the
  ulfius wrapper `rest/sea_rest.c`.
* HTTP, configuration and logging; memory (leaks, failed allocations, the offset
  list beyond 1280 entries, where it is written past its end).
