----------------------------- MODULE DhtRouting -----------------------------
(***************************************************************************)
(* The routing table at work: what dht_periodic of dht.c does to it for    *)
(* every message, and on its own, for any messages that other nodes may    *)
(* send in any order.  A reply is recognised by its transaction id alone,  *)
(* so one may come at any time.                                            *)
(***************************************************************************)
EXTENDS DhtTable

CONSTANTS
  Others,          \* the ids of the other nodes
  Lists,           \* the lists of nodes a reply may carry
  MaxBlacklisted,  \* 10
  Searches         \* 1024: the searches that may be open and ask nodes

ASSUME DhtRoutingAssumption ==
  /\ Others \subseteq Ids \ {MyId} /\ Lists \subseteq Seq(Ids) /\ MaxBlacklisted \in Nat \ {0}
  /\ Searches \in Nat

VARIABLES
  buckets,
  blacklist        \* the latest nodes that have sent something broken

vars == <<buckets, blacklist>>

Init ==   \* dht_init
  /\ buckets = ExpireBuckets(<<EmptyBucket>>)
  /\ blacklist = <<>>

Blacklisted(id) == id \in Range(blacklist)

\* blacklist_node: make it easy to discard and do not hear from it again.
MakeBad(b, j) == Pinged([b EXCEPT !.nodes[j].pinged = 3], j)
BlacklistNode(bs, id) ==
  LET i == FindBucket(bs, id)
      known == FindNode(bs[i], id)
  IN  IF known = {} THEN bs ELSE [bs EXCEPT ![i] = MakeBad(@, Min(known))]
Blacklist(id) ==
  LET list == Append(blacklist, id)
  IN  IF Len(list) > MaxBlacklisted THEN Tail(list) ELSE list

\* new_node, which takes no notice of nodes on the blacklist.
Learn(bs, id, confirm) == IF Blacklisted(id) THEN bs ELSE NewNode(bs, id, confirm)

\* search_send_get_peers and the announcements of search_step: a request to a
\* node counts in the table too, if the node is there.
AskNode(bs, id) ==
  LET i == FindBucket(bs, id)
      known == FindNode(bs[i], id)
  IN  IF known = {} THEN bs ELSE [bs EXCEPT ![i] = Pinged(@, Min(known))]
\* A node has replied: every open search with room takes it in and asks it,
\* unless it has done so of late (add_search_node).
AskedOften(bs, id) ==
  LET asked[n \in 0 .. Searches] == IF n = 0 THEN bs ELSE AskNode(asked[n - 1], id)
  IN  {asked[n] : n \in 0 .. Searches}
\* The search a reply is for asks another node, or none.
AskedNext(bs, from) == {bs} \cup {AskNode(bs, id) : id \in Others \ {from}}

\* The rest of dht_periodic: expire_buckets and maintenance.  The times they
\* are due at are drawn at random within minutes, so either may be due.
Tasks(bs) ==
  LET expired == {bs, ExpireBuckets(bs)}
  IN  expired \cup UNION {Maintenance(e) : e \in expired}
AfterAny(tables) == buckets' \in UNION {Tasks(bs) : bs \in tables}

\* A query: ping, find_node, get_peers or announce_peer, or a reply to a
\* search that is forgotten.  (Rate limiting only drops some of them; see
\* DhtPeers.)
Query(from) == ~Blacklisted(from) /\ AfterAny({Learn(buckets, from, 1)}) /\ UNCHANGED blacklist

\* A reply to a ping.
Pong(from) ==
  /\ ~Blacklisted(from)
  /\ AfterAny(AskedOften(Learn(buckets, from, 2), from))
  /\ UNCHANGED blacklist

\* A reply to find_node or get_peers with the nodes it lists, or to
\* announce_peer, with none.
NodesFound(from, list) ==
  /\ ~Blacklisted(from)
  /\ LET replied == AskedOften(Learn(buckets, from, 2), from)
         listed == {FoldLeft(LAMBDA cs, id : Learn(cs, id, 0), bs, list) : bs \in replied}
     IN  AfterAny(UNION {AskedNext(bs, from) : bs \in listed})
  /\ UNCHANGED blacklist

\* A reply with a truncated transaction id or a list of a wrong length.
BrokenReply(from) ==
  /\ ~Blacklisted(from)
  /\ blacklist' = Blacklist(from)
  /\ AfterAny({BlacklistNode(buckets, from)})

\* No message that counts: also one from a node on the blacklist.
Idle == AfterAny({buckets}) /\ UNCHANGED blacklist

\* A request of search_step, when dht_periodic comes to the searches or from
\* dht_search on another thread: it neither depends on the bucket that
\* maintenance asks nor changes which, so it is a step of its own.
SearchAsks(id) == Searches > 0 /\ buckets' = AskNode(buckets, id) /\ UNCHANGED blacklist

\* dht_insert_node.
Insert(id) == buckets' = Learn(buckets, id, 0) /\ UNCHANGED blacklist

Tick == buckets' = [i \in DOMAIN buckets |-> OlderBucket(buckets[i])] /\ UNCHANGED blacklist

Next ==
  \/ \E id \in Others :
       \/ Query(id) \/ Pong(id) \/ BrokenReply(id) \/ Insert(id) \/ SearchAsks(id)
       \/ \E list \in Lists : NodesFound(id, list)
  \/ Idle
  \/ Tick

Spec == Init /\ [][Next]_vars

-----------------------------------------------------------------------------
(* Properties.                                                             *)

Nodes(bs) == UNION {Range(bs[i].nodes) : i \in DOMAIN bs}
Known(bs) == {n.id : n \in Nodes(bs)}

\* The buckets are in order and cover all ids; a node is in the bucket of its
\* id and there only; no bucket counts wrongly or holds more than it may
\* (insert_node, split_bucket, expire_buckets, new_node).
TypeOK ==
  /\ buckets[1].first = 0
  /\ \A i \in 1 .. Len(buckets) - 1 : buckets[i].first < buckets[i + 1].first
  /\ \A i \in DOMAIN buckets :
       /\ buckets[i].count = Len(buckets[i].nodes)
       /\ buckets[i].count <= buckets[i].max_count
       /\ \A n \in Range(buckets[i].nodes) : n.id # MyId /\ InBucket(buckets, n.id, i)
       /\ IsInjective([j \in DOMAIN buckets[i].nodes |-> buckets[i].nodes[j].id])

\* Only the bucket of the own id is ever split, in the middle of its range, and
\* not below MinCount (bucket_maintenance divides by that): the ids of another
\* bucket are those with one number of bits in common with the own id.
BucketsByPrefix ==
  \A i \in DOMAIN buckets :
    LET ids == {id \in Ids : InBucket(buckets, id, i)}
    IN  /\ buckets[i].max_count >= MinCount
        /\ i # MyBucket(buckets) =>
             \E k \in 0 .. Bits - 1 : ids = {id \in Ids : CommonBits(id, MyId) = k}

\* A node disappears from the table only after three requests without an
\* answer or a broken reply of its own, or when the own bucket was split again
\* and the other half has no room.  The call that drops it may have sent two of
\* the requests, when a reply of another node makes room for those it lists and
\* lets a search go on; or all of them, while the node itself replies, when four
\* open searches take it in (new_node, add_search_node, search_send_get_peers,
\* expire_buckets, split_bucket).
Dropped(n) ==
  \/ n.pinged >= 3
  \/ n.id \in Range(blacklist') \ Range(blacklist)
  \/ Len(buckets') >= Len(buckets) + 2
  \/ n.pinged = 2 /\ \E from \in Others \ {n.id}, list \in Lists : NodesFound(from, list)
  \/ Searches >= 4 /\ (Pong(n.id) \/ \E list \in Lists : NodesFound(n.id, list))
NodesKept ==
  [][ LET known == Known(buckets')
      IN  \A n \in Nodes(buckets) : n.id \in known \/ Dropped(n) ]_vars

\* The list of closest nodes: what insertion into the list of eight gives is
\* the closest good nodes of three buckets, in order; when the target's bucket
\* alone has enough, there are none closer in the table.  dht_get_nodes gives
\* every good node once, those of the own bucket first.
ClosestFirst(list, ids, target) ==
  /\ Range(list) \subseteq ids /\ Len(list) = Min({MaxClosest, Cardinality(ids)})
  /\ \A k \in 2 .. Len(list) : Closer(list[k - 1], list[k], target)
  /\ \A id \in ids \ Range(list) : Closer(list[Len(list)], id, target)
AnswersClosest ==
  /\ \A target \in Ids :
       LET i == FindBucket(buckets, target)
           goodIn(js) == {n.id : n \in {m \in UNION {Range(buckets[j].nodes) : j \in js} : Good(m)}}
           list == ClosestNodes(buckets, target)
       IN  /\ ClosestFirst(list, goodIn((i - 1 .. i + 1) \cap DOMAIN buckets), target)
           /\ Cardinality(goodIn({i})) >= MaxClosest => ClosestFirst(list, goodIn(DOMAIN buckets), target)
  /\ LET all == GetNodes(buckets, GoodCount(buckets) + 1)
     IN  /\ Range(all) = {n \in Nodes(buckets) : Good(n)} /\ Len(all) = GoodCount(buckets)
         /\ \A k, l \in DOMAIN all : k < l /\ InBucket(buckets, all[l].id, MyBucket(buckets))
              => InBucket(buckets, all[k].id, MyBucket(buckets))
=============================================================================
