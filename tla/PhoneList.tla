------------------------------ MODULE PhoneList ------------------------------
(***************************************************************************)
(* The phone list (src/src/controller/phone_list.c): which nodes hold a    *)
(* block.  sea_controller_write_local puts an entry after every append, on *)
(* the server's threads and without a lock; kh_put is one step here, the   *)
(* store through the bucket number it returned is the next.                *)
(***************************************************************************)
EXTENDS KHash

CONSTANTS
  Threads,   \* the server threads
  Blocks,    \* the block ids
  NodeCap    \* given to phone_list_create

ASSUME PhoneListAssumption == Blocks \subseteq 0 .. 2047 /\ NodeCap \in Nat

VARIABLES
  header,    \* the hash map: its values are entries
  call,      \* per thread: the put under way
  puts,      \* history: per block, how often it was put, up to 2
  serial     \* history: no two puts have overlapped

vars == <<header, call, puts, serial>>

Idle == [pc |-> "idle"]

\* min() of phone_list.c, which is the larger.
Smaller(a, b) == IF a > b THEN a ELSE b
Entry(block, node_len) ==
  [block_id |-> block, node_len |-> IF node_len > 0 THEN Smaller(NodeCap, node_len) ELSE NodeCap]

Init ==
  /\ header = EmptyTable
  /\ call = [t \in Threads |-> Idle]
  /\ puts = [b \in Blocks |-> 0]
  /\ serial = TRUE

\* What the answer of kh_put is taken for: anything but 0 is an error, the
\* entry is freed and the value of the new key never set.
StoresEntry(ret) == ret = 0

\* phone_list_put up to kh_put.
PutKey(t, block) ==
  LET put == Put(header, block)
  IN
  /\ call[t].pc = "idle"
  /\ header' = put.table
  /\ call' = IF StoresEntry(put.ret)
             THEN [call EXCEPT ![t] = [pc |-> "store", x |-> put.x, entry |-> Entry(block, 1)]]
             ELSE call
  /\ puts' = [puts EXCEPT ![block] = IF @ < 2 THEN @ + 1 ELSE 2]
  /\ serial' = (serial /\ \A u \in Threads : call[u].pc = "idle")

\* Where the entry goes: the bucket kh_put returned, whatever has been
\* rehashed since.
StoreEntry(t) ==
  /\ call[t].pc = "store"
  /\ header' = [header EXCEPT !.val[call[t].x] = call[t].entry]
  /\ call' = [call EXCEPT ![t] = Idle]
  /\ UNCHANGED <<puts, serial>>

Next == \E t \in Threads : StoreEntry(t) \/ \E b \in Blocks : PutKey(t, b)

Spec == Init /\ [][Next]_vars

\* phone_list_get: the value of the bucket kh_get returns, also when that is
\* none (which reads past the end) or its value was never set.
Lookup(block) ==
  LET k == Get(header, block)
  IN  IF k \in DOMAIN header.val THEN header.val[k] ELSE Unset

-----------------------------------------------------------------------------
(* Properties.                                                             *)

\* The arrays have the size of the table, and a thread stores into it.
TypeOK ==
  /\ DOMAIN header.live = 0 .. header.n - 1 /\ DOMAIN header.val = DOMAIN header.live
  /\ \A i \in DOMAIN header.live : header.live[i] => header.key[i] # Unset
  /\ \A t \in Threads : call[t].pc = "store" => call[t].x \in DOMAIN header.val

\* A key is found exactly if it was put, in the only bucket that holds it,
\* through collisions and the in-place rehashing of the table (kh_get, kh_put,
\* kh_resize), and whichever threads put it.
KeysFound ==
  \A b \in Blocks :
    IF puts[b] = 0 THEN Get(header, b) = header.n
    ELSE {i \in DOMAIN header.live : header.live[i] /\ header.key[i] = b} = {Get(header, b)}

\* There is always an empty bucket to end a search at, and the counters agree
\* with the flags (the upper bound of kh_put).
SearchesEnd ==
  /\ header.size = Cardinality({i \in DOMAIN header.live : header.live[i]})
  /\ header.occupied = header.size
  /\ header.n > 0 => header.size < header.n

\* An entry that a block has been given stays with its key: rehashing takes it
\* along whatever is kicked out on the way and whichever threads have a store
\* to come (kh_resize), and while puts do not overlap nothing else takes it
\* away (the store of phone_list_put through the bucket of kh_put).
EntriesStay ==
  [][serial' \/ header'.n # header.n =>
       \A b \in Blocks : Lookup(b) = Entry(b, 1) => Lookup(b)' = Entry(b, 1)]_vars
=============================================================================
