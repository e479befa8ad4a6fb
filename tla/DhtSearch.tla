------------------------------ MODULE DhtSearch ------------------------------
(***************************************************************************)
(* Searches of dht.c: a list of the closest nodes heard of is asked, again *)
(* and again, over a network that loses, delays, reorders and duplicates,  *)
(* until those that are alive have replied.  dht_list.c starts them, from  *)
(* a signal and from the server's threads.  Of the routing table (module   *)
(* DhtRouting) only what a search begins with matters here, which may be   *)
(* any set of nodes.  Times are kept as ages, in ticks.                    *)
(***************************************************************************)
EXTENDS DhtIds, Sequences, Functions, SequencesExt

CONSTANTS
  Others,        \* the ids of the other nodes
  Knows,         \* per node: the nodes its replies list
  Near,          \* the nodes the routing table may hold
  Faulty,        \* those whose replies may be broken
  Tokenless,     \* those whose replies carry no token
  Targets,       \* the hashes searched for
  Ports,         \* what to announce, 0 for nothing
  SearchNodes,   \* 14: the nodes of a search
  Closest,       \* 8: how many of them have to reply
  MaxPings,      \* 3: requests a node may leave unanswered
  Inflight,      \* 4: requests sent in one step
  Retransmit,    \* 10 seconds for an answer to a request
  StepWait,      \* 6 seconds between steps
  Waits,         \* 10 .. 19 seconds until the next ones are looked at
  ExpireTime,    \* 62 minutes until a search is forgotten
  ReplyTime,     \* 7200 seconds: a node has replied since
  MaxSearches,   \* 1024
  TidMod,        \* 2^16
  MaxCalls,      \* bound: calls of dht_search per target
  MaxDups        \* bound: duplicated replies

ASSUME DhtSearchAssumption ==
  /\ Others \subseteq Ids \ {MyId} /\ IsFiniteSet(Others) /\ Near \cup Faulty \cup Tokenless \subseteq Others
  /\ Knows \in [Others -> Seq(Others \cup {MyId})] /\ Targets \subseteq Ids
  /\ Ports \subseteq Nat /\ Waits \subseteq Nat /\ Waits # {}
  /\ {SearchNodes, Closest, MaxPings, Inflight, MaxSearches, TidMod} \subseteq Nat \ {0}
  /\ {Retransmit, StepWait, ExpireTime, ReplyTime, MaxCalls, MaxDups} \subseteq Nat
  /\ Cardinality(Targets) <= MaxSearches

VARIABLES
  banned,      \* the nodes on the blacklist
  searches,    \* the list of searches
  search_id,
  wake,        \* ticks until search_time, or Never
  sent,        \* requests a reply may still arrive to
  calls, dups, \* bounds
  started,     \* history: per target, the calls of dht_search that returned 1
  finished,    \* history: per target, the search-done callbacks
  heard,       \* history: per target, the nodes offered since the list was last cut
  dead         \* a callback has dereferenced the NULL it was given

vars == <<banned, searches, search_id, wake, sent, calls, dups, started, finished, heard, dead>>

Never == -1
Older(age, limit) == Min({age + 1, limit + 1})

\* A list without the members at some places.
Without(list, places) ==
  LET kept[k \in 0 .. Len(list)] ==
        IF k = 0 THEN <<>> ELSE IF k \in places THEN kept[k - 1] ELSE Append(kept[k - 1], list[k])
  IN  kept[Len(list)]

Init ==
  /\ banned = {}
  /\ searches = <<>> /\ search_id = 0 /\ wake = Never
  /\ sent = {} /\ calls = [t \in Targets |-> 0] /\ dups = 0 /\ dead = FALSE
  /\ started = [t \in Targets |-> 0] /\ finished = [t \in Targets |-> 0]
  /\ heard = [t \in Targets |-> {}]

-----------------------------------------------------------------------------
(* One search.  What an operation on it changes is a record s: the search  *)
(* sr, the requests sent, and whether it has just been done.               *)

NewSearchNode(id) ==
  [id |-> id, replied |-> FALSE, acked |-> FALSE, token |-> FALSE, pinged |-> 0,
   request_age |-> Retransmit + 1, reply_age |-> ReplyTime + 1]

PlaceOf(sr, id) == {i \in DOMAIN sr.nodes : sr.nodes[i].id = id}

\* insert_search_node without a reply: the list stays sorted, the furthest
\* falls off.  Mutant: a full list takes no node.
MutantFullIsClosed(nodes, i, n) == IF Len(nodes) = SearchNodes THEN nodes ELSE InsertAt(nodes, i, n)
Inserted(nodes, i, n) ==
  LET longer == InsertAt(nodes, i, n)
  IN  SubSeq(longer, 1, Min({Len(longer), SearchNodes}))
InsertNode(sr, id) ==
  LET further == {i \in DOMAIN sr.nodes : Closer(id, sr.nodes[i].id, sr.id)}
      i == IF further = {} THEN Len(sr.nodes) + 1 ELSE Min(further)
  IN  IF PlaceOf(sr, id) # {} THEN sr
      ELSE [sr EXCEPT !.nodes = Inserted(@, i, NewSearchNode(id))]
\* ... for one node after the other.
InsertNodes(sr, ids) ==
  LET steps[k \in 0 .. Len(ids)] == IF k = 0 THEN sr ELSE InsertNode(steps[k - 1], ids[k])
  IN  steps[Len(ids)]

\* insert_search_node with a reply.
RepliedNode(n) ==
  [n EXCEPT !.replied = TRUE, !.token = @ \/ n.id \notin Tokenless, !.pinged = 0,
            !.request_age = Retransmit + 1, !.reply_age = 0]
InsertReplied(sr, id) ==
  LET longer == InsertNode(sr, id)
      at == PlaceOf(longer, id)
  IN  IF at = {} THEN longer ELSE [longer EXCEPT !.nodes[Min(at)] = RepliedNode(@)]

\* flush_search_node, for each of some nodes.
FlushNodes(sr, ids) ==
  [sr EXCEPT !.nodes = Without(@, {i \in DOMAIN sr.nodes : sr.nodes[i].id \in ids})]
Members(sr) == {sr.nodes[i].id : i \in DOMAIN sr.nodes}

\* search_send_get_peers to node i, if it is its turn.
Askable(n) == n.pinged < MaxPings /\ ~n.replied /\ n.request_age > Retransmit
Request(type, sr, i) == [type |-> type, tid |-> sr.tid, to |-> sr.nodes[i].id]
PingedNode(n) == [n EXCEPT !.pinged = @ + 1, !.request_age = 0]
Ask(s, i) ==
  IF i \in DOMAIN s.sr.nodes /\ Askable(s.sr.nodes[i])
  THEN [s EXCEPT !.sr.nodes[i] = PingedNode(@), !.sent = @ \cup {Request("get_peers", s.sr, i)}]
  ELSE s
\* Without a node: the last of the list whose turn it is.
AskAny(s) ==
  LET askable == {i \in DOMAIN s.sr.nodes : Askable(s.sr.nodes[i])}
  IN  IF askable = {} THEN s ELSE Ask(s, Max(askable))

\* The first nodes of the list that are not given up.
LiveFirst(sr) ==
  LET live == {i \in DOMAIN sr.nodes : sr.nodes[i].pinged < MaxPings}
  IN  {i \in live : Cardinality({j \in live : j < i}) < Closest}

\* Mutant: the first that have to reply are all that are asked.
MutantOneReplied(sr) == \E i \in LiveFirst(sr) : sr.nodes[i].replied
AllReplied(sr) == \A i \in LiveFirst(sr) : sr.nodes[i].replied

\* search_step: the announcement, when all have replied.
Acked(n) == n.acked \/ ~n.token
Announce(s) ==
  LET first == LiveFirst(s.sr)
      missing == {i \in first : ~Acked(s.sr.nodes[i])}
      nodes == [i \in DOMAIN s.sr.nodes |->
                  LET n == s.sr.nodes[i]
                  IN  IF i \in missing THEN PingedNode(n)
                      ELSE IF i \in first THEN [n EXCEPT !.acked = TRUE] ELSE n]
  IN  [sr |-> [s.sr EXCEPT !.nodes = nodes, !.done = missing = {}, !.step_age = 0],
       sent |-> s.sent \cup {Request("announce_peer", s.sr, i) : i \in missing},
       done |-> missing = {}]

\* search_step: the requests, when it is time for them.
AskFirst(s) ==
  LET askable == {i \in DOMAIN s.sr.nodes : Askable(s.sr.nodes[i])}
      chosen == {i \in askable : Cardinality({j \in askable : j < i}) < Inflight}
  IN  IF s.sr.step_age <= Retransmit THEN s
      ELSE [s EXCEPT !.sr.nodes = [i \in DOMAIN @ |-> IF i \in chosen THEN PingedNode(@[i]) ELSE @[i]],
                     !.sr.step_age = 0,
                     !.sent = @ \cup {Request("get_peers", s.sr, i) : i \in chosen}]

Step(s) ==
  IF ~AllReplied(s.sr) THEN AskFirst(s)
  ELSE IF s.sr.port = 0
  THEN [s EXCEPT !.sr.done = TRUE, !.sr.step_age = 0, !.done = TRUE]
  ELSE Announce(s)

-----------------------------------------------------------------------------
(* All searches.  A record a holds what an operation changes: searches,    *)
(* sent, finished and heard.                                               *)

All == [searches |-> searches, sent |-> sent, finished |-> finished, heard |-> heard]
StepOf(a, k) == [sr |-> a.searches[k], sent |-> a.sent, done |-> FALSE]
\* The outcome s of an operation on search k.
Put(a, k, s) ==
  [a EXCEPT !.searches[k] = s.sr, !.sent = s.sent,
            !.finished[s.sr.id] = IF s.done THEN @ + 1 ELSE @]
Offer(a, k, ids) ==
  [a EXCEPT !.searches[k] = InsertNodes(@, ids), !.heard[a.searches[k].id] = @ \cup Range(ids)]

\* add_search_node: a node that has replied to something joins every search
\* that has room, and is asked.
HasRoom(sr) == Len(sr.nodes) < SearchNodes
Join(s, id) ==
  LET longer == [s EXCEPT !.sr = InsertNode(@, id)]
      at == PlaceOf(longer.sr, id)
  IN  IF at = {} THEN longer ELSE Ask(longer, Min(at))
AddSearchNode(a, id) ==
  LET open == {k \in DOMAIN a.searches : HasRoom(a.searches[k])}
      joined == [k \in open |-> Join(StepOf(a, k), id)]
  IN  [a EXCEPT !.searches = [k \in DOMAIN @ |-> IF k \in open THEN joined[k].sr ELSE @[k]],
                !.sent = @ \cup UNION {joined[k].sent : k \in open},
                !.heard = [t \in Targets |-> IF \E k \in open : a.searches[k].id = t
                                            THEN @[t] \cup {id} ELSE @[t]]]

FindSearch(a, tid) == {k \in DOMAIN a.searches : a.searches[k].tid = tid}

\* The node is in the list of search k as one that has replied.
Replied(a, k, id) ==
  [a EXCEPT !.searches[k] = InsertReplied(@, id), !.heard[a.searches[k].id] = @ \cup {id}]

\* A reply to get_peers for search k: its nodes join the list, another node is
\* asked, and the replying one is marked.
GetPeersReply(a, k, from) ==
  LET others == Without(Knows[from], {i \in DOMAIN Knows[from] : Knows[from][i] = MyId})
      listed == Offer(AddSearchNode(a, from), k, others)
      asked == Put(listed, k, AskAny(StepOf(listed, k)))
  IN  Replied(asked, k, from)

\* A reply to announce_peer.
AckNode(n) == [n EXCEPT !.acked = TRUE, !.pinged = 0, !.request_age = Retransmit + 1, !.reply_age = 0]
AnnounceReply(a, k, from) ==
  LET added == AddSearchNode(a, from)
      at == PlaceOf(added.searches[k], from)
      acked == IF at = {} THEN added ELSE [added EXCEPT !.searches[k].nodes[Min(at)] = AckNode(@)]
  IN  Put(acked, k, AskAny(StepOf(acked, k)))

\* expire_searches: those not done are reported as done.
\* Mutant: they are not.
MutantNotReported(sr) == FALSE
Reported(sr) == ~sr.done
ExpireSearches(a) ==
  LET old == {k \in DOMAIN a.searches : a.searches[k].step_age > ExpireTime}
      lost == {k \in old : Reported(a.searches[k])}
  IN  [a EXCEPT !.searches = Without(@, old),
                !.finished = [t \in Targets |->
                    @[t] + Cardinality({k \in lost : a.searches[k].id = t})]]

\* Searches whose turn it is take a step.
StepDue(a) ==
  LET due == {k \in DOMAIN a.searches : ~a.searches[k].done /\ a.searches[k].step_age >= StepWait}
      step == [k \in due |-> Step(StepOf(a, k))]
  IN  [a EXCEPT !.searches = [k \in DOMAIN @ |-> IF k \in due THEN step[k].sr ELSE @[k]],
                !.sent = @ \cup UNION {step[k].sent : k \in due},
                !.finished = [t \in Targets |->
                    @[t] + Cardinality({k \in due : step[k].done /\ a.searches[k].id = t})]]
\* When to look again: at a random time after the last step of a search that
\* is not done, or never.  Mutant: of one that is done.
MutantUndone(a) == {k \in DOMAIN a.searches : a.searches[k].done}
Undone(a) == {k \in DOMAIN a.searches : ~a.searches[k].done}
NextWakes(a) ==
  IF Undone(a) = {} THEN {Never}
  ELSE {Max({0, Min({r[k] - a.searches[k].step_age : k \in Undone(a)})}) : r \in [Undone(a) -> Waits]}

\* What dht_periodic does after a message.  Expiry is due at random times.
Tasks(a) ==
  \E b \in {a, ExpireSearches(a)} : \E c \in {IF wake = 0 THEN StepDue(b) ELSE b} :
    /\ searches' = c.searches /\ sent' = c.sent /\ finished' = c.finished
    /\ heard' = [t \in Targets |-> IF \E k \in DOMAIN c.searches : c.searches[k].id = t
                                   THEN c.heard[t] ELSE {}]
    /\ wake' \in IF wake = 0 THEN NextWakes(c) ELSE {wake}

-----------------------------------------------------------------------------
(* Messages.  A reply is dealt with when it comes from no node on the      *)
(* blacklist; it may be a duplicate, which leaves its request answerable.  *)

Receive(r) ==
  /\ ~dead /\ r \in sent /\ r.to \notin banned
  /\ dups' \in {dups} \cup (IF dups < MaxDups THEN {dups + 1} ELSE {})
  /\ UNCHANGED <<search_id, calls, started, dead>>
Received(r) == [All EXCEPT !.sent = IF dups' > dups THEN @ ELSE @ \ {r}]

\* A late reply to a search that is forgotten changes none.
GetPeersReplied(r) ==
  LET ks == FindSearch(All, r.tid)
  IN  /\ Receive(r) /\ r.type = "get_peers" /\ UNCHANGED banned
      /\ Tasks(IF ks = {} THEN Received(r) ELSE GetPeersReply(Received(r), Min(ks), r.to))

AnnounceReplied(r) ==
  LET ks == FindSearch(All, r.tid)
  IN  /\ Receive(r) /\ r.type = "announce_peer" /\ UNCHANGED banned
      /\ Tasks(IF ks = {} THEN Received(r) ELSE AnnounceReply(Received(r), Min(ks), r.to))

Unchanged == UNCHANGED <<banned, search_id, calls, dups, started, dead>>

\* A pong or a reply to find_node.
Pong(from) == ~dead /\ from \notin banned /\ Tasks(AddSearchNode(All, from)) /\ Unchanged

\* blacklist_node: the node is cut from all searches.
Cut(a, from) ==
  LET cut == [k \in DOMAIN a.searches |-> FlushNodes(a.searches[k], {from})]
      shorter == {k \in DOMAIN cut : cut[k] # a.searches[k]}
  IN  [a EXCEPT !.searches = cut,
                !.heard = [t \in Targets |->
                    IF \E k \in shorter : cut[k].id = t
                    THEN UNION {Members(cut[k]) : k \in {k \in shorter : cut[k].id = t}} ELSE @[t]]]

\* A reply with a truncated transaction id, or to find_node with a list of a
\* wrong length.
BrokenReply(from) ==
  /\ ~dead /\ from \notin banned
  /\ banned' = banned \cup {from}
  /\ Tasks(Cut(All, from))
  /\ UNCHANGED <<search_id, calls, dups, started, dead>>

\* A reply to get_peers with such a list: the node is cut from all searches,
\* and then put into the one it answers, as one that has replied.
GarbledReply(r) ==
  LET ks == FindSearch(All, r.tid)
      cut == Cut(Received(r), r.to)
  IN  /\ Receive(r) /\ r.type = "get_peers" /\ r.to \in Faulty
      /\ banned' = banned \cup {r.to}
      /\ Tasks(IF ks = {} THEN cut ELSE Replied(cut, Min(ks), r.to))

\* No message that changes a search.
Idle == ~dead /\ Unchanged /\ Tasks(All)

OlderNode(n) == [n EXCEPT !.request_age = Older(@, Retransmit), !.reply_age = Older(@, ReplyTime)]
Tick ==
  /\ ~dead
  /\ UNCHANGED <<banned, search_id, sent, calls, dups, started, finished, heard, dead>>
  /\ wake' = IF wake > 0 THEN wake - 1 ELSE wake
  /\ searches' = [k \in DOMAIN searches |->
       [searches[k] EXCEPT !.step_age = Older(@, ExpireTime),
                           !.nodes = [i \in DOMAIN @ |-> OlderNode(@[i])]]]

-----------------------------------------------------------------------------
(* dht_search.                                                             *)

\* The search of the target begins again: nodes given up or silent for long
\* are cut, the others are to be asked again.  Mutant: they need not reply.
MutantStillReplied(n) == [n EXCEPT !.pinged = 0, !.token = FALSE, !.acked = FALSE]
AskAgain(n) == [n EXCEPT !.pinged = 0, !.token = FALSE, !.replied = FALSE, !.acked = FALSE]
Restarted(sr) ==
  LET silent == {n \in Range(sr.nodes) : n.pinged >= MaxPings \/ n.reply_age > ReplyTime}
      kept == FlushNodes(sr, {n.id : n \in silent})
  IN  [kept EXCEPT !.done = FALSE, !.nodes = [i \in DOMAIN @ |-> AskAgain(@[i])]]

\* new_search: the slot of the oldest search that is done, if it is expired, or
\* a new one.  (There are no more targets than searches, so there is room.)
Fresh(t) == [tid |-> search_id, id |-> t, port |-> 0, done |-> FALSE,
             step_age |-> ExpireTime + 1, nodes |-> <<>>]
Expirable == {k \in DOMAIN searches : searches[k].done /\ searches[k].step_age > ExpireTime}
NewSearch(t) ==
  IF Expirable = {}
  THEN {[k \in 1 .. Len(searches) + 1 |-> IF k = 1 THEN Fresh(t) ELSE searches[k - 1]]}
  ELSE {[searches EXCEPT ![k] = Fresh(t)] : k \in Expirable}

\* get_data_callback takes the data of an event for an address: there is none
\* when the search of dht_list_get_node, on a thread of the server, is done at once.
CallbackDies(caller, done) == done /\ caller = "rest"
Search(caller, t, port, nearby) ==
  LET old == {k \in DOMAIN searches : searches[k].id = t}
      again == old # {} /\ ~searches[Min(old)].done
  IN  /\ ~dead /\ calls[t] < MaxCalls
      /\ calls' = [calls EXCEPT ![t] = @ + 1]
      /\ search_id' = IF old = {} THEN (search_id + 1) % TidMod ELSE search_id
      /\ started' = [started EXCEPT ![t] = IF again THEN @ ELSE @ + 1]
      /\ \E list \in IF old = {} THEN NewSearch(t)
                     ELSE {[searches EXCEPT ![Min(old)] = Restarted(@)]} :
           LET k == Min({j \in DOMAIN list : list[j].id = t})
               filled == InsertNodes([list[k] EXCEPT !.port = port], SetToSeq(nearby))
               s == Step([sr |-> filled, sent |-> sent, done |-> FALSE])
               a == Put([All EXCEPT !.searches = list], k, s)
           IN  /\ searches' = a.searches /\ sent' = a.sent /\ finished' = a.finished
               /\ heard' = [u \in Targets |->
                    IF u = t THEN Members(list[k]) \cup nearby
                    ELSE IF \E j \in DOMAIN list : list[j].id = u THEN heard[u] ELSE {}]
               /\ dead' = CallbackDies(caller, s.done)
      /\ wake' = 0
      /\ UNCHANGED <<banned, dups>>

Next ==
  \/ \E r \in sent : GetPeersReplied(r)
  \/ \E r \in sent : AnnounceReplied(r)
  \/ \E r \in sent : GarbledReply(r)
  \/ \E from \in Near : Pong(from)
  \/ \E from \in Faulty : BrokenReply(from)
  \/ Idle
  \/ Tick
  \/ \E caller \in {"rest", "signal"}, t \in Targets, port \in Ports, nearby \in SUBSET Near :
       Search(caller, t, port, nearby)

Spec == Init /\ [][Next]_vars
\* The loop of dht_list.c calls dht_periodic, with a message or without, at the
\* latest when it asked to be called, and time passes.  Nothing is assumed of
\* messages, nor of the expiry of searches.
Wake == wake = 0 /\ Idle
FairSpec == Spec /\ WF_vars(Wake) /\ WF_vars(Tick)

-----------------------------------------------------------------------------
(* Properties.                                                             *)

\* A search's list is, in order, the closest of all nodes offered to it since
\* it was last cut: none is lost, doubled or misplaced by replies that arrive
\* late, twice or out of order (insert_search_node, add_search_node,
\* flush_search_node).
TypeOK ==
  \A k \in DOMAIN searches :
    LET sr == searches[k]
    IN  /\ MyId \notin Members(sr) /\ Members(sr) \subseteq heard[sr.id]
        /\ Len(sr.nodes) = Min({SearchNodes, Cardinality(heard[sr.id])})
        /\ \A i \in 2 .. Len(sr.nodes) : Closer(sr.nodes[i - 1].id, sr.nodes[i].id, sr.id)
        /\ \A id \in heard[sr.id] \ Members(sr) : Closer(Last(sr.nodes).id, id, sr.id)

\* When a search is done, every node it heard of has replied (and acknowledged
\* the announcement, if there is one and it gave a token), or has left three
\* requests unanswered, or was too far: Closest nodes that are closer have
\* replied, or it fell off a full list (search_step).
Complete(sr, ids) ==
  \A id \in ids \cap Members(sr) :
    LET i == Min(PlaceOf(sr, id))
        n == sr.nodes[i]
    IN  \/ n.replied /\ (sr.port # 0 /\ n.token => n.acked)
        \/ n.pinged >= MaxPings
        \/ Cardinality({j \in 1 .. i - 1 : sr.nodes[j].replied /\ sr.nodes[j].pinged < MaxPings}) >= Closest
SearchComplete ==
  [][ \A k \in DOMAIN searches' :
        LET sr == searches'[k]
        IN  sr.done /\ finished'[sr.id] > finished[sr.id] => Complete(sr, heard'[sr.id]) ]_vars

\* Every call of dht_search that returns 1 leads to one search-done callback
\* and no other event does: not a second call while the search goes on, and
\* not its expiry (dht_search, search_step, expire_searches).
OneDoneEach ==
  \A t \in Targets :
    started[t] = finished[t] + Cardinality({k \in DOMAIN searches : searches[k].id = t /\ ~searches[k].done})

\* The callback kills the server only when the search found no node to ask
\* (dht_search, get_data_callback of dht_list.c).
DiesOnlyAlone == dead => \E k \in DOMAIN searches : searches[k].done /\ searches[k].nodes = <<>>

\* A search that is not asked for again ends, though no reply may ever come:
\* silent nodes are given up, and the next step is always scheduled
\* (search_step, dht_periodic, dht_search).  Nothing is said of one that is
\* asked for again and again: each call takes the silent nodes of the routing
\* table back in.
InProgress(t) == \E k \in DOMAIN searches : searches[k].id = t /\ ~searches[k].done
SearchEnds ==
  \A t \in Targets : \A n \in 1 .. MaxCalls :
    InProgress(t) /\ calls[t] = n ~> ~InProgress(t) \/ dead \/ calls[t] > n
=============================================================================
