------------------------------ MODULE PeerStore ------------------------------
(***************************************************************************)
(* What the storage of dht.c promises: for every hash a bounded set of     *)
(* peers, each kept for some time after it was last announced.             *)
(***************************************************************************)
EXTENDS Naturals, FiniteSets

CONSTANTS Hashes, Peers, MaxHashes, MaxPeers, ExpireTime

\* The age of a peer that is not stored.
Absent == ExpireTime + 2

VARIABLE age   \* per hash and peer: the time since it was announced

Stored(h) == {p \in Peers : age[h][p] # Absent}
Tracked == {h \in Hashes : Stored(h) # {}}
Room(h) ==
  /\ h \in Tracked \/ Cardinality(Tracked) < MaxHashes
  /\ Cardinality(Stored(h)) < MaxPeers

Init == age = [h \in Hashes |-> [p \in Peers |-> Absent]]

\* An announcement, which is not stored when there is no room.
Announced(h, p) == IF p \in Stored(h) \/ Room(h) THEN [age EXCEPT ![h][p] = 0] ELSE age
\* Expiry drops every peer that is too old.
Kept(a) == [h \in Hashes |-> [p \in Peers |-> IF a[h][p] > ExpireTime THEN Absent ELSE a[h][p]]]
Older(a) == IF a > ExpireTime THEN a ELSE a + 1

Next ==
  \/ \E h \in Hashes, p \in Peers : age' \in {Announced(h, p), Kept(Announced(h, p))}
  \/ age' = Kept(age)
  \/ age' = [h \in Hashes |-> [p \in Peers |-> Older(age[h][p])]]

Spec == Init /\ [][Next]_age
=============================================================================
