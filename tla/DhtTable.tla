------------------------------ MODULE DhtTable ------------------------------
(***************************************************************************)
(* The routing table of src/src/controller/dht/dht.c as operators: buckets *)
(* that cover the id space in order and are split only where the node's    *)
(* own id lies, and the nodes in them.  One address family; a node's id    *)
(* stands for its address.  Times are kept as ages, saturated above the    *)
(* largest age the code compares them with.                                *)
(***************************************************************************)
EXTENDS DhtIds, Sequences, Functions, SequencesExt

CONSTANTS
  MaxCount,     \* 128: what the first bucket holds
  MinCount,     \* 8: what every bucket holds at least
  MaxClosest,   \* 8: how many nodes an answer lists
  PingWait,     \* 15 seconds for an answer to a request
  GoodTime,     \* 900 seconds: a good node was heard of since
  ReplyTime,    \* 7200 seconds: and has replied since
  BucketTime,   \* 600 seconds until a bucket of MinCount is stale,
  MinBucketTime \* 30 seconds at least

NoNode == -1

ASSUME DhtTableAssumption ==
  /\ MinCount \in Nat \ {0} /\ MaxCount \in Nat /\ MinCount <= MaxCount
  /\ MaxClosest \in Nat \ {0}
  /\ PingWait \in Nat /\ GoodTime \in Nat /\ ReplyTime \in Nat /\ GoodTime <= ReplyTime
  /\ BucketTime \in Nat /\ MinBucketTime \in Nat /\ MinBucketTime <= BucketTime

-----------------------------------------------------------------------------
(* Buckets.                                                                *)

LastOf(bs, i) == i = Len(bs)
InBucket(bs, id, i) == bs[i].first <= id /\ (LastOf(bs, i) \/ id < bs[i + 1].first)
FindBucket(bs, id) == Min({i \in DOMAIN bs : LastOf(bs, i) \/ id < bs[i + 1].first})
MyBucket(bs) == FindBucket(bs, MyId)
\* previous_bucket, if there is one.
PreviousBucket(bs, i) == {i - 1} \cap DOMAIN bs

\* find_node: the place of an id in its bucket, if it is known; random_node:
\* any place.
FindNode(b, id) == {j \in DOMAIN b.nodes : b.nodes[j].id = id}
RandomNode(b) == DOMAIN b.nodes

\* The middle of the range of a bucket, or NoNode if it is a single id.
Middle(bs, i) ==
  LET bit == Max({LowBit(bs[i].first), IF LastOf(bs, i) THEN -1 ELSE LowBit(bs[i + 1].first)}) + 1
  IN  IF bit >= Bits THEN NoNode ELSE bs[i].first + Power[Bits - 1 - bit]

EmptyBucket == [first |-> 0, count |-> 0, max_count |-> MaxCount, age |-> BucketTime + 1,
                nodes |-> <<>>, cached |-> NoNode]

\* node_good.
Good(n) == n.pinged <= 2 /\ n.reply_age <= ReplyTime /\ n.age <= GoodTime
\* A request to the node has been waiting for an answer for long enough.
Overdue(n) == n.pinged_age > PingWait
PingedOnce(n) == [n EXCEPT !.pinged = Min({4, @ + 1}), !.pinged_age = 0]

\* send_cached_ping: the candidate is asked, and no longer one.
SendCachedPing(b) == [b EXCEPT !.cached = NoNode]

\* pinged: a request is sent to node j of a bucket.
Pinged(b, j) ==
  LET asked == [b EXCEPT !.nodes[j] = PingedOnce(@)]
  IN  IF asked.nodes[j].pinged >= 3 THEN SendCachedPing(asked) ELSE asked

\* insert_node, when the bucket has room.
InsertNode(b, n) == [b EXCEPT !.nodes = <<n>> \o @, !.count = @ + 1]

-----------------------------------------------------------------------------
(* Splitting.                                                              *)

\* Mutant: whatever the range.
MutantSplitAny(bs, i) == Middle(bs, i) # NoNode
CanSplit(bs, i) == InBucket(bs, MyId, i) /\ Middle(bs, i) # NoNode

\* The capacity of the half with the own id.
Halved(max_count) == Max({max_count \div 2, MinCount})

\* split_bucket_helper: two buckets without nodes.
SplitHelper(bs, i) ==
  LET mid == Middle(bs, i)
      mine == MyId < mid
      low == [SendCachedPing(bs[i]) EXCEPT
                !.nodes = <<>>, !.count = 0, !.max_count = IF mine THEN Halved(@) ELSE @]
      high == [low EXCEPT !.first = mid,
                          !.max_count = IF mine THEN bs[i].max_count ELSE Halved(@)]
  IN  SubSeq(bs, 1, i - 1) \o <<low, high>> \o SubSeq(bs, i + 1, Len(bs))

\* split_bucket: the nodes of the bucket are inserted again one by one; one
\* that does not fit into the own bucket makes it split again, one that does not fit
\* into another is freed.
RECURSIVE Reinsert(_, _)
Reinsert(bs, todo) ==
  IF todo = <<>> THEN bs
  ELSE LET i == FindBucket(bs, Head(todo).id)
       IN  IF bs[i].count < bs[i].max_count
           THEN Reinsert([bs EXCEPT ![i] = InsertNode(@, Head(todo))], Tail(todo))
           ELSE IF ~CanSplit(bs, i) THEN Reinsert(bs, Tail(todo))
           ELSE Reinsert(SplitHelper(bs, i), todo \o bs[i].nodes)

Split(bs, i) == Reinsert(SplitHelper(bs, i), bs[i].nodes)

-----------------------------------------------------------------------------
(* new_node: a node has been heard of (confirm 0), has sent a message (1)  *)
(* or a reply (2).                                                         *)

NewEntry(id, confirm) ==
  [id |-> id, pinged |-> 0, pinged_age |-> PingWait + 1,
   age |-> IF confirm >= 1 THEN 0 ELSE GoodTime + 1,
   reply_age |-> IF confirm = 2 THEN 0 ELSE ReplyTime + 1]

Refreshed(n, confirm) ==
  CASE confirm = 0 -> n
    [] confirm = 1 -> [n EXCEPT !.age = 0]
    [] confirm = 2 -> NewEntry(n.id, 2)

\* The entry a new node takes over.
\* Mutant: that of a node with two unanswered requests.
MutantReplaceableAt2(n) == n.pinged >= 2 /\ Overdue(n)
Replaceable(n) == n.pinged >= 3 /\ Overdue(n)

Positions(b, P(_)) == {j \in DOMAIN b.nodes : P(b.nodes[j])}

\* The bucket is full: a dubious node is pinged, if there is one it is time to
\* ping, and the new one is kept as a candidate.
Dubious(b) == \E j \in DOMAIN b.nodes : ~Good(b.nodes[j])
PingDubious(b) ==
  LET due == Positions(b, LAMBDA n : ~Good(n) /\ Overdue(n))
  IN  IF due = {} THEN b ELSE [b EXCEPT !.nodes[Min(due)] = PingedOnce(@)]
Cache(b, id, confirm) ==
  IF confirm >= 1 \/ b.cached = NoNode THEN [b EXCEPT !.cached = id] ELSE b

RECURSIVE NewNode(_, _, _)
NewNode(bs, id, confirm) ==
  LET i == FindBucket(bs, id)
      b == IF confirm = 2 THEN [bs[i] EXCEPT !.age = 0] ELSE bs[i]
      known == FindNode(b, id)
      bad == Positions(b, Replaceable)
      asked == PingDubious(b)
      Set(bucket) == [bs EXCEPT ![i] = bucket]
  IN  IF id = MyId THEN bs
      ELSE IF known # {} THEN Set([b EXCEPT !.nodes[Min(known)] = Refreshed(@, confirm)])
      ELSE IF bad # {} THEN Set([b EXCEPT !.nodes[Min(bad)] = NewEntry(id, confirm)])
      ELSE IF b.count < b.max_count THEN Set(InsertNode(b, NewEntry(id, confirm)))
      ELSE IF i # MyBucket(bs) \/ Dubious(b) THEN Set(Cache(asked, id, confirm))
      ELSE IF CanSplit(bs, i) THEN NewNode(Split(Set(b), i), id, confirm)
      ELSE Set(b)

-----------------------------------------------------------------------------
(* Periodic work.                                                          *)

\* When expire_buckets drops a node.
Expired(n) == n.pinged >= 4
\* Mutant: the count is kept.
MutantCountKept(b, kept) == b.count
CountLeft(b, kept) == b.count - (Len(b.nodes) - Len(kept))
ExpireBucket(b) ==
  LET kept == SelectSeq(b.nodes, LAMBDA n : ~Expired(n))
  IN  IF kept = b.nodes THEN b
      ELSE SendCachedPing([b EXCEPT !.nodes = kept, !.count = CountLeft(b, kept)])
ExpireBuckets(bs) == [i \in DOMAIN bs |-> ExpireBucket(bs[i])]

Older(age, limit) == Min({age + 1, limit + 1})
OlderNode(n) == [n EXCEPT !.age = Older(@, GoodTime), !.reply_age = Older(@, ReplyTime),
                          !.pinged_age = Older(@, PingWait)]
OlderBucket(b) == [b EXCEPT !.age = Older(@, BucketTime),
                            !.nodes = [j \in DOMAIN @ |-> OlderNode(@[j])]]

\* A bucket that has seen no reply for too long.
Stale(b) == b.age > Max({BucketTime \div (b.max_count \div MinCount), MinBucketTime})

\* Where maintenance of bucket i looks for a node to ask: there, in the next
\* bucket or in the one before, at random, but not in an empty bucket when the
\* other is not.
AskBuckets(bs, i) ==
  LET here == IF LastOf(bs, i) THEN {i} ELSE IF bs[i].count = 0 THEN {i + 1} ELSE {i, i + 1}
      before == {r \in PreviousBucket(bs, i) : bs[r].count > 0}
  IN  before \cup {q \in here : bs[q].count > 0 \/ before = {}}
Asks(bs, i) ==
  {[bs EXCEPT ![q] = Pinged(@, j)] : <<q, j>> \in
     {<<q, j>> \in AskBuckets(bs, i) \X (1 .. MaxCount) : j \in RandomNode(bs[q])}}
AsksNobody(bs, i) == \E q \in AskBuckets(bs, i) : bs[q].count = 0

\* bucket_maintenance: the tables it may leave when it asks a node, which it
\* does for the first stale bucket that gives one, and when it asks none.
BucketMaintenance(bs) ==
  UNION {Asks(bs, i) : i \in {i \in DOMAIN bs :
           Stale(bs[i]) /\ \A k \in 1 .. i - 1 : Stale(bs[k]) => AsksNobody(bs, k)}}
MayAskNobody(bs) == \A i \in DOMAIN bs : Stale(bs[i]) => AsksNobody(bs, i)
\* neighbourhood_maintenance, when the own bucket grew of late.
NeighbourhoodMaintenance(bs) == Asks(bs, MyBucket(bs))
Maintenance(bs) ==
  BucketMaintenance(bs) \cup
  (IF MayAskNobody(bs) THEN NeighbourhoodMaintenance(bs) \cup {bs} ELSE {})

-----------------------------------------------------------------------------
(* Answers.                                                                *)

\* insert_closest_node.  Mutant: a node is appended wherever it belongs.
MutantInsertAtEnd(list, id, target) ==
  IF id \in Range(list) \/ Len(list) = MaxClosest THEN list ELSE Append(list, id)
InsertClosest(list, id, target) ==
  LET further == {k \in DOMAIN list : Closer(id, list[k], target)}
      k == IF further = {} THEN Len(list) + 1 ELSE Min(further)
      longer == InsertAt(list, k, id)
  IN  IF id \in Range(list) THEN list
      ELSE SubSeq(longer, 1, Min({Len(longer), MaxClosest}))

\* send_closest_nodes: the good nodes of the target's bucket, the next and the
\* one before, the closest first.
BucketsAround(bs, i) == <<bs[i]>> \o (IF LastOf(bs, i) THEN <<>> ELSE <<bs[i + 1]>>)
                                 \o (IF i = 1 THEN <<>> ELSE <<bs[i - 1]>>)
GoodNodes(b) == SelectSeq(b.nodes, Good)
ClosestNodes(bs, target) ==
  LET around == BucketsAround(bs, FindBucket(bs, target))
      good == FlattenSeq([k \in DOMAIN around |-> GoodNodes(around[k])])
  IN  FoldLeft(LAMBDA list, n : InsertClosest(list, n.id, target), <<>>, good)

\* dht_get_nodes: good nodes, those of the own bucket first.
GetNodes(bs, num) ==
  LET mine == GoodNodes(bs[MyBucket(bs)])
      others == FlattenSeq([i \in DOMAIN bs |-> IF i = MyBucket(bs) THEN <<>> ELSE GoodNodes(bs[i])])
      all == mine \o others
  IN  SubSeq(all, 1, Min({num, Len(all)}))

\* dht_nodes: how many good nodes there are.
GoodCount(bs) == MapThenSumSet(LAMBDA i : Len(GoodNodes(bs[i])), DOMAIN bs)
=============================================================================
