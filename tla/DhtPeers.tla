------------------------------ MODULE DhtPeers ------------------------------
(***************************************************************************)
(* How dht.c serves others: the peers stored for announce_peer and listed  *)
(* for get_peers, for requests that the rate control lets through.         *)
(* Addresses of both families share one list; times are kept as ages.      *)
(***************************************************************************)
EXTENDS DhtRate, Sequences, FiniteSets, Functions, FiniteSetsExt, SequencesExt

CONSTANTS
  Hashes,
  Addrs,          \* addresses with the port a packet comes from
  Inet6,          \* those of family IPv6
  Ports,          \* the ports a packet may name
  MaxHashes,      \* DHT_MAX_HASHES, 16384
  MaxPeers,       \* DHT_MAX_PEERS, 2048
  MaxValues,      \* 50: the peers of an answer
  ExpireTime      \* 32 minutes

SourcePort == 0   \* stands for the port the packet came from
Peers == Addrs \X (Ports \cup {SourcePort})

ASSUME DhtPeersAssumption ==
  /\ Inet6 \subseteq Addrs /\ SourcePort \notin Ports
  /\ MaxHashes \in Nat \ {0} /\ MaxPeers \in Nat \ {0} /\ MaxValues \in Nat \ {0}
  /\ ExpireTime \in Nat

VARIABLES
  storage,       \* per hash that is tracked: maxpeers and the array of peers
  numstorage

vars == <<storage, numstorage, rateVars>>

Init == RateInit /\ storage = <<>> /\ numstorage = 0   \* dht_init

-----------------------------------------------------------------------------
(* Storage.                                                                *)

\* The array grows in powers of two.  Mutant: beyond DHT_MAX_PEERS.
MutantGrownBeyond(max) == IF max = 0 THEN 2 ELSE 2 * max
GrownMax(max) == AtMost(IF max = 0 THEN 2 ELSE 2 * max, MaxPeers)

NewStorage == [maxpeers |-> 0, peers |-> <<>>]
StorageOf(st, h) == IF h \in DOMAIN st THEN st[h] ELSE NewStorage

\* A peer in the array of a hash.
Stored(entry, peer) ==
  LET at == {i \in DOMAIN entry.peers : entry.peers[i].peer = peer}
      full == Len(entry.peers) >= entry.maxpeers
      fresh == [peer |-> peer, age |-> 0]
  IN  IF at # {} THEN [entry EXCEPT !.peers[Min(at)].age = 0]
      ELSE IF ~full THEN [entry EXCEPT !.peers = Append(@, fresh)]
      ELSE IF entry.maxpeers >= MaxPeers THEN entry
      ELSE [maxpeers |-> GrownMax(entry.maxpeers), peers |-> Append(entry.peers, fresh)]

\* storage_store: the storage and the count of hashes.
Store(st, num, h, peer) ==
  IF h \notin DOMAIN st /\ num >= MaxHashes THEN [storage |-> st, num |-> num]
  ELSE [storage |-> [g \in DOMAIN st \cup {h} |-> IF g = h THEN Stored(StorageOf(st, h), peer) ELSE st[g]],
        num |-> IF h \in DOMAIN st THEN num ELSE num + 1]

\* expire_storage: the last peer takes the place of one that is too old, and
\* is looked at next.  Mutant: it is not.
MutantNextAt(i) == i + 1
NextAt(i) == i
TooOld(p) == p.age > ExpireTime
Overwritten(peers, i) == Front([peers EXCEPT ![i] = Last(peers)])
PurgeStep(s) ==
  IF s.at > Len(s.peers) THEN s
  ELSE IF TooOld(s.peers[s.at]) THEN [peers |-> Overwritten(s.peers, s.at), at |-> NextAt(s.at)]
  ELSE [s EXCEPT !.at = @ + 1]
\* Every step leaves one peer less to look at.
Purged(peers) ==
  LET steps[k \in 0 .. Len(peers)] ==
        IF k = 0 THEN [peers |-> peers, at |-> 1] ELSE PurgeStep(steps[k - 1])
  IN  steps[Len(peers)].peers

Expire(s) ==
  LET purged == [h \in DOMAIN s.storage |-> [s.storage[h] EXCEPT !.peers = Purged(@)]]
      left == {h \in DOMAIN purged : purged[h].peers # <<>>}
  IN  [storage |-> [h \in left |-> purged[h]], num |-> s.num - Cardinality(DOMAIN purged \ left)]

\* What dht_periodic does with the storage after a message: expiry is due at
\* times drawn at random within minutes.
Tasks(s) == \E t \in {s, Expire(s)} : storage' = t.storage /\ numstorage' = t.num

Now == [storage |-> storage, num |-> numstorage]

\* The port a peer is stored with: the packet may ask for the one it came from.
PortOf(port, implied) == IF implied THEN SourcePort ELSE port

\* announce_peer.  The token is compared with bytes that dht_hash (dht_list.c)
\* never writes, so any token of the right length may match or not; the answer
\* is the same when the peer could not be stored.
Announce(addr, h, port, implied, matches) ==
  /\ Admit
  /\ IF matches /\ (implied \/ port \in Ports)
     THEN Tasks(Store(storage, numstorage, h, <<addr, PortOf(port, implied)>>))
     ELSE Tasks(Now)

\* Any other query: ping, find_node or get_peers, which only answers.
Query == Admit /\ Tasks(Now)

\* dht_periodic without a message.
Idle == Tasks(Now) /\ UNCHANGED rateVars

Older(p) == [p EXCEPT !.age = AtMost(@ + 1, ExpireTime + 1)]
Tick ==
  /\ Second
  /\ storage' = [h \in DOMAIN storage |->
       [storage[h] EXCEPT !.peers = [i \in DOMAIN @ |-> Older(@[i])]]]
  /\ UNCHANGED numstorage

Next ==
  \/ \E addr \in Addrs, h \in Hashes, port \in Ports \cup {0}, implied, matches \in BOOLEAN :
       Announce(addr, h, port, implied, matches)
  \/ Query
  \/ Drop /\ Tasks(Now)
  \/ Idle
  \/ Tick

Spec == Init /\ [][Next]_vars

\* send_nodes_peers: the stored peers of the family of the one who asks, from
\* a random one on and around the array.  Mutant: up to its end.
MutantUpToEnd(peers, j0) == SubSeq(peers, j0, Len(peers))
Around(peers, j0) == SubSeq(peers, j0, Len(peers)) \o SubSeq(peers, 1, j0 - 1)
OfFamily(p, inet6) == (p.peer[1] \in Inet6) = inet6
Values(peers, inet6, j0) ==
  LET around == Around(peers, j0)
      taken[k \in 0 .. Len(around)] ==
        IF k = 0 THEN <<>>
        ELSE IF Len(taken[k - 1]) < MaxValues /\ OfFamily(around[k], inet6)
        THEN Append(taken[k - 1], around[k]) ELSE taken[k - 1]
  IN  taken[Len(around)]

-----------------------------------------------------------------------------
(* Properties.                                                             *)

\* Arrays and counts agree with what they count and keep within their limits.
TypeOK ==
  /\ RateTypeOK
  /\ numstorage = Cardinality(DOMAIN storage) /\ numstorage <= MaxHashes
  /\ \A h \in DOMAIN storage :
       Len(storage[h].peers) \in 1 .. storage[h].maxpeers /\ storage[h].maxpeers <= MaxPeers

\* The storage implements PeerStore: a peer is stored once, with the time since
\* it was last announced, and forgotten neither early nor late, through the
\* growth of the arrays and the removal in place (storage_store,
\* expire_storage).
PeerAge(h, peer) ==
  LET at == IF h \in DOMAIN storage THEN {p \in Range(storage[h].peers) : p.peer = peer} ELSE {}
  IN  IF at = {} THEN ExpireTime + 2 ELSE Max({p.age : p \in at})
Abstract == INSTANCE PeerStore WITH age <- [h \in Hashes |-> [p \in Peers |-> PeerAge(h, p)]]
RefinesPeerStore == Abstract!Spec

\* An answer lists no peer twice, only peers of the family of the one who asks,
\* and all of them up to MaxValues, wherever in the array it begins
\* (send_nodes_peers).
ValuesComplete ==
  \A h \in DOMAIN storage, inet6 \in BOOLEAN : \A j0 \in DOMAIN storage[h].peers :
    LET peers == storage[h].peers
        family == {p \in Range(peers) : OfFamily(p, inet6)}
        list == Values(peers, inet6, j0)
    IN  IsInjective(list) /\ Range(list) \subseteq family
        /\ Len(list) = AtMost(Cardinality({p.peer : p \in family}), MaxValues)
=============================================================================
