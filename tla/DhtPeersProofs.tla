--------------------------- MODULE DhtPeersProofs ---------------------------
(***************************************************************************)
(* The rate control of module DhtRate and the storage of module DhtPeers,  *)
(* for every size of the bucket and every rate, and for any number of      *)
(* hashes and peers within any limits.                                     *)
(***************************************************************************)
EXTENDS DhtPeers, FiniteSetTheorems, TLAPS

-----------------------------------------------------------------------------
(* The rate control.                                                       *)

\* What may still be let through at once: the tokens there are, and after them
\* those of one refill.  Requests let through come out of it, and the time
\* that adds to the refill takes as much from the load.
RateIInv ==
  /\ RateTypeOK
  /\ load + tokens + Refill(token_age) <= 2 * MaxTokens

\* A refill has between none and MaxTokens tokens, none without time, some
\* with it, and a second more adds at most Rate (token_bucket).
LEMMA RefillBounds ==
  ASSUME NEW a \in Nat
  PROVE  /\ Refill(a) \in 0 .. MaxTokens
         /\ Refill(0) = 0
         /\ Refill(a + 1) <= Refill(a) + Rate
<1>1. Rate \in Nat /\ MaxTokens \in Nat /\ MaxTokens > 0
  BY DhtRateAssumption
<1>2. Rate * a \in Nat /\ Rate * 0 = 0
  BY <1>1
<1>3. Rate * (a + 1) = Rate * a + Rate
  BY <1>1
<1> QED
  BY <1>1, <1>2, <1>3 DEF Refill, AtMost

\* The refill of a time that is cut at FillTime is that of the whole time or
\* of a shorter one (the age of the last refill, kept up to FillTime).
LEMMA RefillCut ==
  ASSUME NEW a \in Nat
  PROVE  Refill(AtMost(a + 1, FillTime)) <= Refill(a) + Rate
<1>1. Rate \in Nat /\ MaxTokens \in Nat /\ Rate > 0
  BY DhtRateAssumption
<1>2. CASE AtMost(a + 1, FillTime) = a + 1
  BY <1>2, RefillBounds
<1>3. CASE AtMost(a + 1, FillTime) = MaxTokens /\ a >= MaxTokens
  <2>1. Rate * a >= MaxTokens
    <3>1. Rate * a = a + (Rate - 1) * a
      BY <1>1
    <3>2. (Rate - 1) * a \in Nat
      BY <1>1
    <3> QED
      BY <3>1, <3>2, <1>1, <1>3
  <2>2. Rate * MaxTokens \in Nat /\ Rate * a \in Nat
    BY <1>1
  <2>3. Refill(a) = MaxTokens /\ Refill(MaxTokens) <= MaxTokens
    BY <2>1, <2>2, <1>1 DEF Refill, AtMost
  <2>4. Refill(AtMost(a + 1, FillTime)) = Refill(MaxTokens)
    BY <1>3
  <2>5. Refill(MaxTokens) \in 0 .. MaxTokens
    BY <1>1, RefillBounds
  <2> QED
    BY <2>3, <2>4, <2>5, <1>1
<1> QED
  BY <1>1, <1>2, <1>3 DEF AtMost, FillTime

\* The bucket is full at first (dht_init).
LEMMA RateInitIInv == RateInit => RateIInv
<1> SUFFICES ASSUME RateInit PROVE RateIInv
  OBVIOUS
<1>1. MaxTokens \in Nat /\ Refill(0) = 0
  BY DhtRateAssumption, RefillBounds
<1>2. RateTypeOK
  BY <1>1 DEF RateInit, RateTypeOK, FillTime
<1> QED
  BY <1>1, <1>2 DEF RateInit, RateIInv

\* A request let through, one dropped, and a second keep it (token_bucket).
LEMMA RateNextIInv == RateIInv /\ [RateNext]_rateVars => RateIInv'
<1> SUFFICES ASSUME RateIInv, [RateNext]_rateVars PROVE RateIInv'
  OBVIOUS
<1>1. MaxTokens \in Nat /\ Rate \in Nat /\ Rate > 0
  BY DhtRateAssumption
<1>2. tokens \in 0 .. MaxTokens /\ token_age \in 0 .. FillTime /\ token_age \in Nat /\ load \in Nat
  BY <1>1 DEF RateIInv, RateTypeOK, FillTime
<1>3. Refill(token_age) \in 0 .. MaxTokens /\ Refill(0) = 0
  BY <1>2, RefillBounds
<1>4. load + tokens + Refill(token_age) <= 2 * MaxTokens
  BY DEF RateIInv
<1>5. CASE Admit
  <2>1. CASE tokens = 0
    <3>1. tokens' = Refill(token_age) - 1 /\ tokens' \in 0 .. MaxTokens /\ token_age' = 0
      BY <1>1, <1>3, <1>5, <2>1 DEF Admit, Available
    <3>2. Refill(token_age') = 0 /\ load' = load + 1
      BY <1>3, <1>5, <3>1 DEF Admit
    <3> QED
      BY <1>1, <1>2, <1>3, <1>4, <2>1, <3>1, <3>2 DEF RateIInv, RateTypeOK, FillTime, Refill
  <2>2. CASE tokens # 0
    <3>1. tokens' = tokens - 1 /\ token_age' = token_age /\ load' = load + 1
      BY <1>5, <2>2 DEF Admit, Available
    <3>2. Refill(token_age)' = Refill(token_age)
      BY <3>1 DEF Refill
    <3> QED
      BY <1>1, <1>2, <1>3, <1>4, <2>2, <3>1, <3>2 DEF RateIInv, RateTypeOK
  <2> QED
    BY <2>1, <2>2
<1>6. CASE Drop
  <2>1. token_age' = 0 /\ tokens' = tokens /\ load' = load
    BY <1>6 DEF Drop
  <2>2. Refill(token_age)' = 0
    BY <1>3, <2>1 DEF Refill
  <2> QED
    BY <1>1, <1>2, <1>3, <1>4, <2>1, <2>2 DEF RateIInv, RateTypeOK, FillTime
<1>7. CASE Second
  <2>1. token_age' = AtMost(token_age + 1, FillTime) /\ tokens' = tokens
    BY <1>7 DEF Second
  <2>2. Refill(token_age)' <= Refill(token_age) + Rate
    BY <1>2, <2>1, RefillCut DEF Refill
  <2>3. token_age' \in 0 .. FillTime /\ token_age' \in Nat
    BY <1>1, <1>2, <2>1 DEF AtMost, FillTime
  <2>4. Refill(token_age)' \in 0 .. MaxTokens
    BY <2>3, RefillBounds DEF Refill
  <2>5. CASE load > Rate
    <3>1. load' = load - Rate
      BY <1>7, <2>5 DEF Second
    <3> QED
      BY <1>1, <1>2, <1>3, <1>4, <2>1, <2>2, <2>3, <2>4, <2>5, <3>1 DEF RateIInv, RateTypeOK
  <2>6. CASE ~(load > Rate)
    <3>1. load' = 0
      BY <1>7, <2>6 DEF Second
    <3> QED
      BY <1>1, <1>2, <2>1, <2>3, <2>4, <3>1 DEF RateIInv, RateTypeOK
  <2> QED
    BY <2>5, <2>6
<1>8. CASE UNCHANGED rateVars
  BY <1>8 DEF rateVars, RateIInv, RateTypeOK, Refill
<1> QED
  BY <1>5, <1>6, <1>7, <1>8 DEF RateNext

\* token_bucket lets at most two full buckets through beyond its rate, for
\* every size of the bucket and every rate.
LEMMA RateIInvBounds == RateIInv => RateBounded
<1> SUFFICES ASSUME RateIInv PROVE RateBounded
  OBVIOUS
<1>1. MaxTokens \in Nat /\ tokens \in Nat /\ load \in Nat /\ token_age \in Nat
  BY DhtRateAssumption DEF RateIInv, RateTypeOK, FillTime
<1>2. Refill(token_age) \in 0 .. MaxTokens
  BY <1>1, RefillBounds
<1> QED
  BY <1>1, <1>2 DEF RateIInv, RateBounded

THEOREM RateAlwaysBounded == RateSpec => []RateBounded
BY RateIInvBounds, RateInitIInv, RateNextIInv, PTL DEF RateSpec

-----------------------------------------------------------------------------
(* Sequences of steps.                                                     *)

\* Induction over the steps of a loop: a set of numbers up to n that holds 0
\* and, with every number below n, its successor, holds them all.
LEMMA StepInduction ==
  ASSUME NEW n \in Nat, NEW S \in SUBSET (0 .. n), 0 \in S, \A k \in S : k < n => k + 1 \in S
  PROVE  S = 0 .. n
<1> SUFFICES ASSUME NEW m \in 0 .. n, m \notin S PROVE FALSE
  OBVIOUS
<1> DEFINE T == {k \in S : k < m}
<1> DEFINE U == T \ {0}
<1> DEFINE next == [k \in T |-> k + 1]
<1>1. IsFiniteSet(0 .. n)
  BY FS_Interval
<1>2. IsFiniteSet(T) /\ Cardinality(T) \in Nat
  BY <1>1, FS_Subset, FS_CardinalityType
<1>3. 0 \in T
  OBVIOUS
<1>4. IsFiniteSet(U) /\ Cardinality(U) = Cardinality(T) - 1
  BY <1>2, <1>3, FS_RemoveElement
<1>5. next \in Injection(T, U)
  <2>1. \A k \in T : k + 1 \in U
    OBVIOUS
  <2>2. next \in [T -> U]
    BY <2>1
  <2>3. \A k, l \in T : next[k] = next[l] => k = l
    OBVIOUS
  <2> QED
    BY <2>2, <2>3 DEF Injection, IsInjective
<1>6. Cardinality(T) <= Cardinality(U)
  BY <1>4, <1>5, FS_Injection
<1> QED
  BY <1>2, <1>4, <1>6

\* The states of the loop of expire_storage, from s on.
IsPurgeRun(f, s, n) == f = [k \in 0 .. n |-> IF k = 0 THEN s ELSE PurgeStep(f[k - 1])]
PurgeRun(s, n) == CHOOSE f : IsPurgeRun(f, s, n)

LEMMA PurgeRunSteps ==
  ASSUME NEW s, NEW n \in Nat
  PROVE  IsPurgeRun(PurgeRun(s, n), s, n)
<1> DEFINE runs == {j \in 0 .. n : \E f : IsPurgeRun(f, s, j)}
<1>1. \E f : IsPurgeRun(f, s, 0)
  <2>1. IsPurgeRun([k \in 0 .. 0 |-> s], s, 0)
    BY DEF IsPurgeRun
  <2> QED
    BY <2>1
<1>2. ASSUME NEW j \in runs, j < n PROVE j + 1 \in runs
  <2>1. PICK f : IsPurgeRun(f, s, j)
    OBVIOUS
  <2> DEFINE g == [k \in 0 .. j + 1 |-> IF k = j + 1 THEN PurgeStep(f[j]) ELSE f[k]]
  <2>2. ASSUME NEW k \in 0 .. j + 1
        PROVE  g[k] = IF k = 0 THEN s ELSE PurgeStep(g[k - 1])
    BY <2>1 DEF IsPurgeRun
  <2>3. IsPurgeRun(g, s, j + 1)
    BY <2>2 DEF IsPurgeRun
  <2>4. j + 1 \in 0 .. n /\ \E h : IsPurgeRun(h, s, j + 1)
    BY <1>2, <2>3
  <2> QED
    BY <2>4
<1>3. \E f : IsPurgeRun(f, s, n)
  <2>1. 0 \in runs /\ n \in 0 .. n
    BY <1>1
  <2>2. runs \in SUBSET (0 .. n) /\ \A j \in runs : j < n => j + 1 \in runs
    BY <1>2
  <2> HIDE DEF runs
  <2>3. runs = 0 .. n
    BY <2>1, <2>2, StepInduction
  <2>4. n \in runs
    BY <2>1, <2>3
  <2> QED
    BY <2>4 DEF runs
<1> QED
  BY <1>3 DEF PurgeRun

LEMMA PurgedIsRun ==
  ASSUME NEW peers
  PROVE  Purged(peers) = PurgeRun([peers |-> peers, at |-> 1], Len(peers))[Len(peers)].peers
BY DEF Purged, PurgeRun, IsPurgeRun

-----------------------------------------------------------------------------
(* The removal of the peers that are too old.                              *)

PeerEntries == [peer : Peers, age : 0 .. ExpireTime + 1]

\* No peer is stored twice.
Once(peers) == \A i, j \in 1 .. Len(peers) : peers[i].peer = peers[j].peer => i = j

\* The last peer takes the place of one that is removed (expire_storage).
LEMMA OverwrittenPeers ==
  ASSUME NEW peers \in Seq(PeerEntries), NEW i \in 1 .. Len(peers)
  PROVE  /\ Overwritten(peers, i) \in Seq(PeerEntries)
         /\ Len(Overwritten(peers, i)) = Len(peers) - 1
         /\ \A j \in 1 .. Len(peers) - 1 :
              Overwritten(peers, i)[j] = IF j = i THEN peers[Len(peers)] ELSE peers[j]
<1> DEFINE moved == [peers EXCEPT ![i] = peers[Len(peers)]]
<1>1. moved \in Seq(PeerEntries) /\ Len(moved) = Len(peers)
  OBVIOUS
<1>2. Overwritten(peers, i) = SubSeq(moved, 1, Len(peers) - 1)
  BY <1>1 DEF Overwritten, Front, Last
<1>3. \A j \in 1 .. Len(peers) - 1 : moved[j] = IF j = i THEN peers[Len(peers)] ELSE peers[j]
  OBVIOUS
<1>4. PICK n \in Nat : n = Len(peers) /\ n > 0
  OBVIOUS
<1> HIDE DEF moved
<1> QED
  BY <1>1, <1>2, <1>3, <1>4

\* What holds of the loop after k steps: as many peers less are left to look
\* at, those looked at are not too old, and no other peer is lost.
PurgeInvOf(q, m, at, peers, n, k) ==
  /\ q \in Seq(PeerEntries) /\ m = Len(q) /\ n = Len(peers) /\ at \in Nat \ {0}
  /\ m + 1 + k = n + at
  /\ \A i, j \in 1 .. m : q[i].peer = q[j].peer => i = j
  /\ \A i \in 1 .. m : \E j \in 1 .. n : q[i] = peers[j]
  /\ \A j \in 1 .. n : ~TooOld(peers[j]) => \E i \in 1 .. m : q[i] = peers[j]
  /\ \A i \in 1 .. m : i < at => ~TooOld(q[i])
PurgeInv(s, peers, k) ==
  /\ s = [peers |-> s.peers, at |-> s.at]
  /\ PurgeInvOf(s.peers, Len(s.peers), s.at, peers, Len(peers), k)

LEMMA PurgeStepKeepsInv ==
  ASSUME NEW peers \in Seq(PeerEntries), NEW k \in Nat, k < Len(peers), NEW s,
         PurgeInv(s, peers, k)
  PROVE  PurgeInv(PurgeStep(s), peers, k + 1)
<1>1. PICK q, at : q = s.peers /\ at = s.at /\ s = [peers |-> q, at |-> at]
  BY DEF PurgeInv
<1>2. PICK n \in Nat, m \in Nat : n = Len(peers) /\ m = Len(q)
  BY <1>1 DEF PurgeInv, PurgeInvOf
<1>3. PurgeInvOf(q, m, at, peers, n, k)
  BY <1>1, <1>2 DEF PurgeInv
<1>4. q \in Seq(PeerEntries) /\ at \in Nat /\ at >= 1 /\ at <= m /\ m + 1 + k = n + at /\ k < n
  BY <1>2, <1>3 DEF PurgeInvOf
<1>5. CASE TooOld(q[at])
  <2>1. PICK r : r = Overwritten(q, at)
    OBVIOUS
  <2>2. PurgeStep(s) = [peers |-> r, at |-> at]
    BY <1>1, <1>2, <1>4, <1>5, <2>1 DEF PurgeStep, NextAt
  <2>3. at \in 1 .. Len(q)
    BY <1>2, <1>4
  <2>4. /\ r \in Seq(PeerEntries) /\ Len(r) = m - 1
        /\ \A j \in 1 .. m - 1 : r[j] = IF j = at THEN q[m] ELSE q[j]
    BY <1>2, <1>4, <2>1, <2>3, OverwrittenPeers
  <2>5. PICK l \in Nat : l = m - 1 /\ m = l + 1
    BY <1>4
  <2>6. \A j \in 1 .. l : r[j] = IF j = at THEN q[m] ELSE q[j]
    BY <2>4, <2>5
  <2>7. \A i, j \in 1 .. l : r[i].peer = r[j].peer => i = j
    <3> SUFFICES ASSUME NEW i \in 1 .. l, NEW j \in 1 .. l, r[i].peer = r[j].peer PROVE i = j
      OBVIOUS
    <3>1. PICK a \in 1 .. m : r[i] = q[a] /\ a = IF i = at THEN m ELSE i
      BY <2>5, <2>6
    <3>2. PICK b \in 1 .. m : r[j] = q[b] /\ b = IF j = at THEN m ELSE j
      BY <2>5, <2>6
    <3>3. a = b
      BY <1>3, <3>1, <3>2 DEF PurgeInvOf
    <3> QED
      BY <2>5, <3>1, <3>2, <3>3
  <2>8. \A i \in 1 .. l : \E j \in 1 .. n : r[i] = peers[j]
    <3> SUFFICES ASSUME NEW i \in 1 .. l PROVE \E j \in 1 .. n : r[i] = peers[j]
      OBVIOUS
    <3>1. r[i] = q[m] \/ r[i] = q[i]
      BY <2>6
    <3>2. m \in 1 .. m /\ i \in 1 .. m
      BY <2>5
    <3> QED
      BY <1>3, <3>1, <3>2 DEF PurgeInvOf
  <2>9. \A j \in 1 .. n : ~TooOld(peers[j]) => \E i \in 1 .. l : r[i] = peers[j]
    <3> SUFFICES ASSUME NEW j \in 1 .. n, ~TooOld(peers[j]) PROVE \E i \in 1 .. l : r[i] = peers[j]
      OBVIOUS
    <3>1. PICK i \in 1 .. m : q[i] = peers[j]
      BY <1>3 DEF PurgeInvOf
    <3>2. i # at
      BY <1>5, <3>1
    <3>3. CASE i = m
      <4>1. at \in 1 .. l
        BY <1>4, <2>5, <3>2, <3>3
      <4>2. r[at] = q[m]
        BY <2>6, <4>1
      <4> QED
        BY <3>1, <3>3, <4>1, <4>2
    <3>4. CASE i # m
      <4>1. i \in 1 .. l /\ r[i] = q[i]
        BY <2>5, <2>6, <3>2, <3>4
      <4> QED
        BY <3>1, <4>1
    <3> QED
      BY <3>3, <3>4
  <2>10. \A i \in 1 .. l : i < at => ~TooOld(r[i])
    BY <1>3, <1>4, <2>5, <2>6 DEF PurgeInvOf
  <2>11. l = Len(r) /\ l + 1 + (k + 1) = n + at
    BY <1>4, <2>4, <2>5
  <2>12. PurgeInvOf(r, l, at, peers, n, k + 1)
    BY <1>2, <1>4, <2>4, <2>7, <2>8, <2>9, <2>10, <2>11 DEF PurgeInvOf
  <2> QED
    BY <1>2, <2>2, <2>11, <2>12 DEF PurgeInv
<1>6. CASE ~TooOld(q[at])
  <2>1. PurgeStep(s) = [peers |-> q, at |-> at + 1]
    BY <1>1, <1>2, <1>4, <1>6 DEF PurgeStep
  <2>2. \A i \in 1 .. m : i < at + 1 => ~TooOld(q[i])
    BY <1>3, <1>4, <1>6 DEF PurgeInvOf
  <2>3. m + 1 + (k + 1) = n + (at + 1) /\ at + 1 \in Nat \ {0}
    BY <1>4
  <2>4. PurgeInvOf(q, m, at + 1, peers, n, k + 1)
    BY <1>3, <2>2, <2>3 DEF PurgeInvOf
  <2> QED
    BY <1>2, <2>1, <2>4 DEF PurgeInv
<1> QED
  BY <1>5, <1>6

\* Expiry leaves, once each, the peers that are not too old, and no other
\* (expire_storage).
LEMMA PurgedPeers ==
  ASSUME NEW peers \in Seq(PeerEntries), Once(peers)
  PROVE  /\ Purged(peers) \in Seq(PeerEntries) /\ Once(Purged(peers))
         /\ Len(Purged(peers)) <= Len(peers)
         /\ \A i \in 1 .. Len(Purged(peers)) :
              /\ ~TooOld(Purged(peers)[i])
              /\ \E j \in 1 .. Len(peers) : Purged(peers)[i] = peers[j]
         /\ \A j \in 1 .. Len(peers) :
              ~TooOld(peers[j]) => \E i \in 1 .. Len(Purged(peers)) : Purged(peers)[i] = peers[j]
<1>1. PICK n \in Nat : n = Len(peers)
  OBVIOUS
<1>2. PICK s : s = [peers |-> peers, at |-> 1]
  OBVIOUS
<1>3. PICK run : run = PurgeRun(s, n)
  OBVIOUS
<1>4. run[0] = s /\ \A k \in 0 .. n : k < n => run[k + 1] = PurgeStep(run[k])
  <2>1. IsPurgeRun(run, s, n)
    BY <1>3, PurgeRunSteps
  <2>2. \A k \in 0 .. n : k < n => k + 1 \in 0 .. n /\ k + 1 # 0 /\ (k + 1) - 1 = k
    OBVIOUS
  <2> QED
    BY <2>1, <2>2 DEF IsPurgeRun
<1> DEFINE good == {k \in 0 .. n : PurgeInv(run[k], peers, k)}
<1>5. 0 \in good
  <2>1. PurgeInv(s, peers, 0)
    <3>1. PurgeInvOf(peers, n, 1, peers, n, 0)
      BY <1>1 DEF PurgeInvOf, Once
    <3> QED
      BY <1>1, <1>2, <3>1 DEF PurgeInv
  <2> QED
    BY <1>4, <2>1
<1>6. ASSUME NEW k \in good, k < n PROVE k + 1 \in good
  <2>1. PurgeInv(PurgeStep(run[k]), peers, k + 1)
    BY <1>1, <1>6, PurgeStepKeepsInv
  <2>2. k + 1 \in 0 .. n /\ run[k + 1] = PurgeStep(run[k])
    BY <1>4, <1>6
  <2> QED
    BY <2>1, <2>2
<1>7. PurgeInv(run[n], peers, n)
  <2>1. good \in SUBSET (0 .. n) /\ \A k \in good : k < n => k + 1 \in good
    BY <1>6
  <2> HIDE DEF good
  <2>2. good = 0 .. n
    BY <1>5, <2>1, StepInduction
  <2>3. n \in good
    BY <2>2
  <2> QED
    BY <2>3 DEF good
<1>8. PICK q, at : q = run[n].peers /\ at = run[n].at
  OBVIOUS
<1>9. q = Purged(peers)
  BY <1>1, <1>2, <1>3, <1>8, PurgedIsRun
<1>10. PICK m \in Nat : m = Len(q)
  BY <1>1, <1>7, <1>8 DEF PurgeInv, PurgeInvOf
<1>11. PurgeInvOf(q, m, at, peers, n, n)
  BY <1>1, <1>7, <1>8, <1>10 DEF PurgeInv
<1>12. q \in Seq(PeerEntries) /\ at = m + 1 /\ \A i \in 1 .. m : ~TooOld(q[i])
  BY <1>10, <1>11 DEF PurgeInvOf
<1>13. Len(q) <= n
  \* Distinct peers of an array are no more than it has places.
  <2>1. \A i \in 1 .. m : \E j \in 1 .. n : q[i] = peers[j]
    BY <1>11 DEF PurgeInvOf
  <2> DEFINE place == [i \in 1 .. m |-> CHOOSE j \in 1 .. n : q[i] = peers[j]]
  <2>2. \A i \in 1 .. m : place[i] \in 1 .. n /\ q[i] = peers[place[i]]
    BY <2>1
  <2>3. place \in [1 .. m -> 1 .. n]
    BY <2>2
  <2>4. \A i, j \in 1 .. m : q[i] = q[j] => i = j
    BY <1>11 DEF PurgeInvOf
  <2>5. \A i, j \in 1 .. m : place[i] = place[j] => i = j
    BY <2>2, <2>4
  <2>6. place \in Injection(1 .. m, 1 .. n)
    BY <2>3, <2>5 DEF Injection, IsInjective
  <2>7. IsFiniteSet(1 .. n) /\ Cardinality(1 .. n) = n /\ Cardinality(1 .. m) = m
    BY FS_Interval
  <2> QED
    BY <1>10, <2>6, <2>7, FS_Injection
<1>14. Once(q)
  BY <1>10, <1>11 DEF PurgeInvOf, Once
<1>15. \A i \in 1 .. Len(q) : ~TooOld(q[i]) /\ \E j \in 1 .. Len(peers) : q[i] = peers[j]
  BY <1>1, <1>10, <1>11, <1>12 DEF PurgeInvOf
<1>16. \A j \in 1 .. Len(peers) : ~TooOld(peers[j]) => \E i \in 1 .. Len(q) : q[i] = peers[j]
  BY <1>1, <1>10, <1>11 DEF PurgeInvOf
<1> QED
  BY <1>1, <1>9, <1>12, <1>13, <1>14, <1>15, <1>16, Zenon

-----------------------------------------------------------------------------
(* The array of a hash.                                                    *)

\* An array within its limits in which no peer is stored twice.
EntryOK(e) ==
  /\ e \in [maxpeers : 0 .. MaxPeers, peers : Seq(PeerEntries)]
  /\ Len(e.peers) <= e.maxpeers
  /\ Once(e.peers)

HasPeer(peers, p) == \E i \in 1 .. Len(peers) : peers[i].peer = p

\* A peer that is stored already is not stored again, but its time is set.
LEMMA RefreshedEntry ==
  ASSUME NEW e, EntryOK(e), NEW p \in Peers, HasPeer(e.peers, p)
  PROVE  /\ EntryOK(Stored(e, p)) /\ Len(Stored(e, p).peers) = Len(e.peers)
         /\ \A i \in 1 .. Len(e.peers) :
              Stored(e, p).peers[i] = IF e.peers[i].peer = p THEN [peer |-> p, age |-> 0] ELSE e.peers[i]
<1>1. PICK q \in Seq(PeerEntries), max \in 0 .. MaxPeers : e = [maxpeers |-> max, peers |-> q]
  BY DEF EntryOK
<1>2. PICK n \in Nat : n = Len(q) /\ n <= max
  BY <1>1 DEF EntryOK
<1>3. \A i, j \in 1 .. n : q[i].peer = q[j].peer => i = j
  BY <1>1, <1>2 DEF EntryOK, Once
<1>4. PICK k \in 1 .. n : q[k].peer = p
  BY <1>1, <1>2 DEF HasPeer
<1>5. {i \in DOMAIN e.peers : e.peers[i].peer = p} = {k}
  BY <1>1, <1>2, <1>3, <1>4
<1>6. Min({k}) = k
  BY DEF Min
<1>7. PICK r : r = [q EXCEPT ![k].age = 0]
  OBVIOUS
<1>8. Stored(e, p) = [maxpeers |-> max, peers |-> r]
  BY <1>1, <1>4, <1>5, <1>6, <1>7 DEF Stored
<1>9. r[k] = [q[k] EXCEPT !.age = 0] /\ \A i \in 1 .. n : i # k => r[i] = q[i]
  BY <1>2, <1>4, <1>7
<1>10. q[k] = [peer |-> p, age |-> q[k].age]
  <2>1. q[k] \in PeerEntries
    BY <1>2, <1>4
  <2> QED
    BY <1>4, <2>1 DEF PeerEntries
<1>11. r[k] = [peer |-> p, age |-> 0] /\ r[k] \in PeerEntries
  BY <1>9, <1>10, DhtPeersAssumption DEF PeerEntries
<1>12. r \in Seq(PeerEntries) /\ Len(r) = n
  BY <1>2, <1>4, <1>7, <1>11
<1>13. \A i \in 1 .. n : r[i] = IF q[i].peer = p THEN [peer |-> p, age |-> 0] ELSE q[i]
  BY <1>3, <1>4, <1>9, <1>11
<1>14. \A i \in 1 .. n : r[i].peer = q[i].peer
  BY <1>13
<1>15. Once(r)
  BY <1>3, <1>12, <1>14 DEF Once
<1>16. EntryOK(Stored(e, p))
  BY <1>2, <1>8, <1>12, <1>15 DEF EntryOK
<1> QED
  BY <1>1, <1>2, <1>8, <1>12, <1>13, <1>16

\* A new peer is put at the end, when there is room or the array can grow.
LEMMA AppendedEntry ==
  ASSUME NEW e, EntryOK(e), NEW p \in Peers, ~HasPeer(e.peers, p), Len(e.peers) < MaxPeers
  PROVE  /\ EntryOK(Stored(e, p))
         /\ Stored(e, p).peers = Append(e.peers, [peer |-> p, age |-> 0])
<1>1. PICK q \in Seq(PeerEntries), max \in 0 .. MaxPeers : e = [maxpeers |-> max, peers |-> q]
  BY DEF EntryOK
<1>2. PICK n \in Nat : n = Len(q) /\ n <= max /\ n < MaxPeers
  BY <1>1 DEF EntryOK
<1>3. \A i, j \in 1 .. n : q[i].peer = q[j].peer => i = j
  BY <1>1, <1>2 DEF EntryOK, Once
<1>4. \A i \in 1 .. n : q[i].peer # p
  BY <1>1, <1>2 DEF HasPeer
<1>5. {i \in DOMAIN e.peers : e.peers[i].peer = p} = {}
  BY <1>1, <1>2, <1>4
<1>6. PICK new \in PeerEntries : new = [peer |-> p, age |-> 0]
  <2>1. 0 \in 0 .. ExpireTime + 1
    BY DhtPeersAssumption
  <2>2. [peer |-> p, age |-> 0] \in PeerEntries
    BY <2>1 DEF PeerEntries
  <2> QED
    BY <2>2
<1>7. PICK r : r = Append(q, new)
  OBVIOUS
<1>8. /\ r \in Seq(PeerEntries) /\ Len(r) = n + 1 /\ r[n + 1] = new
      /\ \A i \in 1 .. n : r[i] = q[i]
  BY <1>2, <1>7
<1>9. MaxPeers \in Nat /\ MaxPeers > 0
  BY DhtPeersAssumption
<1>10. \E m \in 0 .. MaxPeers : n + 1 <= m /\ Stored(e, p) = [maxpeers |-> m, peers |-> r]
  <2>1. CASE n < max
    <3>1. Stored(e, p) = [e EXCEPT !.peers = Append(@, new)]
      BY <1>1, <1>2, <1>5, <1>6, <2>1 DEF Stored
    <3>2. Stored(e, p) = [maxpeers |-> max, peers |-> r]
      BY <1>1, <1>7, <3>1
    <3> QED
      BY <1>2, <2>1, <3>2
  <2>2. CASE ~(n < max)
    <3>1. Stored(e, p) = [maxpeers |-> GrownMax(max), peers |-> r]
      BY <1>1, <1>2, <1>5, <1>6, <1>7, <1>9, <2>2 DEF Stored
    <3>2. GrownMax(max) \in 0 .. MaxPeers /\ n + 1 <= GrownMax(max)
      BY <1>2, <1>9, <2>2 DEF GrownMax, AtMost
    <3> QED
      BY <3>1, <3>2
  <2> QED
    BY <2>1, <2>2
<1>11. Once(r)
  <2> SUFFICES ASSUME NEW i \in 1 .. n + 1, NEW j \in 1 .. n + 1, r[i].peer = r[j].peer PROVE i = j
    BY <1>8 DEF Once
  <2>1. \A k \in 1 .. n + 1 : k \in 1 .. n \/ k = n + 1
    OBVIOUS
  <2>2. r[n + 1].peer = p
    BY <1>6, <1>8
  <2> QED
    BY <1>3, <1>4, <1>8, <2>1, <2>2
<1>12. EntryOK(Stored(e, p))
  BY <1>8, <1>10, <1>11 DEF EntryOK
<1> QED
  BY <1>1, <1>6, <1>7, <1>10, <1>12

\* Otherwise nothing changes.
LEMMA FullEntry ==
  ASSUME NEW e, EntryOK(e), NEW p \in Peers, ~HasPeer(e.peers, p), ~(Len(e.peers) < MaxPeers)
  PROVE  Stored(e, p) = e
<1>1. PICK q \in Seq(PeerEntries), max \in 0 .. MaxPeers : e = [maxpeers |-> max, peers |-> q]
  BY DEF EntryOK
<1>2. PICK n \in Nat : n = Len(q) /\ n <= max /\ ~(n < MaxPeers)
  BY <1>1 DEF EntryOK
<1>3. {i \in DOMAIN e.peers : e.peers[i].peer = p} = {}
  BY <1>1, <1>2 DEF HasPeer
<1>4. MaxPeers \in Nat
  BY DhtPeersAssumption
<1>5. n >= max /\ max >= MaxPeers
  BY <1>2, <1>4
<1> QED
  BY <1>1, <1>2, <1>3, <1>5 DEF Stored

-----------------------------------------------------------------------------
(* The time since a peer of an array was announced.                        *)

Unstored == ExpireTime + 2
AgeOf(peers, p) ==
  LET at == {x \in Range(peers) : x.peer = p}
  IN  IF at = {} THEN Unstored ELSE Max({x.age : x \in at})

LEMMA AgeOfAbsent ==
  ASSUME NEW peers \in Seq(PeerEntries), NEW p, ~HasPeer(peers, p)
  PROVE  AgeOf(peers, p) = Unstored
<1>1. {x \in Range(peers) : x.peer = p} = {}
  BY DEF HasPeer, Range
<1> QED
  BY <1>1 DEF AgeOf

LEMMA AgeOfPresent ==
  ASSUME NEW peers \in Seq(PeerEntries), Once(peers), NEW i \in 1 .. Len(peers)
  PROVE  AgeOf(peers, peers[i].peer) = peers[i].age
<1>1. PICK x \in PeerEntries : x = peers[i]
  OBVIOUS
<1>2. {y \in Range(peers) : y.peer = x.peer} = {x}
  <2>1. x \in Range(peers)
    BY <1>1 DEF Range
  <2>2. ASSUME NEW y \in Range(peers), y.peer = x.peer PROVE y = x
    <3>1. PICK j \in 1 .. Len(peers) : y = peers[j]
      BY DEF Range
    <3>2. j = i
      BY <1>1, <2>2, <3>1 DEF Once
    <3> QED
      BY <1>1, <3>1, <3>2
  <2> QED
    BY <2>1, <2>2
<1>3. Max({x.age}) = x.age
  <2>1. x.age \in Nat
    BY <1>1, DhtPeersAssumption DEF PeerEntries
  <2> QED
    BY <2>1 DEF Max
<1>4. {y.age : y \in {x}} = {x.age}
  OBVIOUS
<1>5. AgeOf(peers, x.peer) = Max({x.age})
  BY <1>2, <1>4 DEF AgeOf
<1> QED
  BY <1>1, <1>3, <1>5

\* A stored peer is known by its age.
LEMMA AgeOfTells ==
  ASSUME NEW peers \in Seq(PeerEntries), Once(peers), NEW p
  PROVE  /\ AgeOf(peers, p) \in 0 .. ExpireTime + 2
         /\ HasPeer(peers, p) <=> AgeOf(peers, p) # Unstored
<1>1. ExpireTime \in Nat
  BY DhtPeersAssumption
<1>2. CASE ~HasPeer(peers, p)
  BY <1>1, <1>2, AgeOfAbsent DEF Unstored
<1>3. CASE HasPeer(peers, p)
  <2>1. PICK i \in 1 .. Len(peers) : peers[i].peer = p
    BY <1>3 DEF HasPeer
  <2>2. AgeOf(peers, p) = peers[i].age
    BY <2>1, AgeOfPresent
  <2>3. peers[i] \in PeerEntries
    BY <2>1
  <2>4. peers[i].age \in 0 .. ExpireTime + 1
    BY <2>3 DEF PeerEntries
  <2> QED
    BY <1>1, <1>3, <2>2, <2>4 DEF Unstored
<1> QED
  BY <1>2, <1>3

\* Arrays with the same peers, in whatever order, give the same ages.
LEMMA AgeOfMapped ==
  ASSUME NEW old \in Seq(PeerEntries), Once(old), NEW new \in Seq(PeerEntries), Once(new),
         NEW p, NEW i \in 1 .. Len(old), NEW j \in 1 .. Len(new),
         old[i].peer = p, new[j].peer = p
  PROVE  AgeOf(old, p) = old[i].age /\ AgeOf(new, p) = new[j].age
BY AgeOfPresent

\* What storing a peer in an array does to the ages (storage_store).
RoomIn(peers, p) == HasPeer(peers, p) \/ Len(peers) < MaxPeers

LEMMA StoredAges ==
  ASSUME NEW e, EntryOK(e), NEW p \in Peers, NEW o
  PROVE  /\ EntryOK(Stored(e, p))
         /\ AgeOf(Stored(e, p).peers, o) = IF o = p /\ RoomIn(e.peers, p) THEN 0 ELSE AgeOf(e.peers, o)
<1>1. PICK q \in Seq(PeerEntries) : q = e.peers /\ Once(q)
  BY DEF EntryOK
<1>2. CASE HasPeer(q, p)
  <2>1. PICK r : r = Stored(e, p).peers
    OBVIOUS
  <2>2. EntryOK(Stored(e, p)) /\ Len(r) = Len(q)
        /\ \A i \in 1 .. Len(q) : r[i] = IF q[i].peer = p THEN [peer |-> p, age |-> 0] ELSE q[i]
    BY <1>1, <1>2, <2>1, RefreshedEntry
  <2>3. r \in Seq(PeerEntries) /\ Once(r)
    BY <2>1, <2>2 DEF EntryOK
  <2>4. CASE HasPeer(q, o)
    <3>1. PICK i \in 1 .. Len(q) : q[i].peer = o
      BY <2>4 DEF HasPeer
    <3>2. r[i].peer = o /\ i \in 1 .. Len(r)
      BY <2>2, <3>1
    <3>3. AgeOf(q, o) = q[i].age /\ AgeOf(r, o) = r[i].age
      BY <1>1, <2>3, <3>1, <3>2, AgeOfMapped
    <3>4. r[i].age = IF o = p THEN 0 ELSE q[i].age
      BY <2>2, <3>1
    <3> QED
      BY <1>1, <1>2, <2>1, <2>2, <3>3, <3>4 DEF RoomIn
  <2>5. CASE ~HasPeer(q, o)
    <3>1. ~HasPeer(r, o) /\ o # p
      BY <1>2, <2>2, <2>5 DEF HasPeer
    <3> QED
      BY <1>1, <2>1, <2>2, <2>3, <2>5, <3>1, AgeOfAbsent
  <2> QED
    BY <2>4, <2>5
<1>3. CASE ~HasPeer(q, p) /\ Len(q) < MaxPeers
  <2>1. PICK r : r = Stored(e, p).peers
    OBVIOUS
  <2>2. EntryOK(Stored(e, p)) /\ r = Append(q, [peer |-> p, age |-> 0])
    BY <1>1, <1>3, <2>1, AppendedEntry
  <2>3. r \in Seq(PeerEntries) /\ Once(r)
    BY <2>1, <2>2 DEF EntryOK
  <2>4. PICK n \in Nat : n = Len(q)
    BY <1>1
  <2>5. Len(r) = n + 1 /\ r[n + 1] = [peer |-> p, age |-> 0] /\ \A i \in 1 .. n : r[i] = q[i]
    BY <1>1, <2>2, <2>4
  <2>6. CASE o = p
    <3>1. n + 1 \in 1 .. Len(r) /\ r[n + 1].peer = p /\ r[n + 1].age = 0
      BY <2>4, <2>5
    <3>2. AgeOf(r, p) = 0
      BY <2>3, <3>1, AgeOfPresent
    <3> QED
      BY <1>1, <1>3, <2>1, <2>2, <2>6, <3>2 DEF RoomIn
  <2>7. CASE o # p /\ HasPeer(q, o)
    <3>1. PICK i \in 1 .. n : q[i].peer = o
      BY <2>4, <2>7 DEF HasPeer
    <3>2. r[i] = q[i] /\ i \in 1 .. Len(r) /\ i \in 1 .. Len(q)
      BY <2>4, <2>5, <3>1
    <3>3. AgeOf(q, o) = AgeOf(r, o)
      BY <1>1, <2>3, <3>1, <3>2, AgeOfMapped
    <3> QED
      BY <1>1, <2>1, <2>2, <2>7, <3>3
  <2>8. CASE o # p /\ ~HasPeer(q, o)
    <3>1. ASSUME NEW i \in 1 .. n + 1 PROVE r[i].peer # o
      <4>1. CASE i = n + 1
        BY <2>5, <2>8, <4>1
      <4>2. CASE i \in 1 .. n
        BY <2>4, <2>5, <2>8, <4>2 DEF HasPeer
      <4> QED
        BY <2>4, <4>1, <4>2
    <3>2. ~HasPeer(r, o)
      BY <2>5, <3>1 DEF HasPeer
    <3> QED
      BY <1>1, <2>1, <2>2, <2>3, <2>8, <3>2, AgeOfAbsent
  <2> QED
    BY <2>6, <2>7, <2>8
<1>4. CASE ~HasPeer(q, p) /\ ~(Len(q) < MaxPeers)
  <2>1. Stored(e, p) = e
    BY <1>1, <1>4, FullEntry
  <2> QED
    BY <1>1, <1>4, <2>1 DEF RoomIn
<1> QED
  BY <1>2, <1>3, <1>4

\* What expiry does to the ages of an array (expire_storage).
LEMMA PurgedAges ==
  ASSUME NEW peers \in Seq(PeerEntries), Once(peers), NEW o
  PROVE  AgeOf(Purged(peers), o) = IF AgeOf(peers, o) > ExpireTime THEN Unstored ELSE AgeOf(peers, o)
<1>1. PICK r : r = Purged(peers)
  OBVIOUS
<1>2. r \in Seq(PeerEntries) /\ Once(r)
  BY <1>1, PurgedPeers
<1>3. ExpireTime \in Nat
  BY DhtPeersAssumption
<1>4. CASE HasPeer(r, o)
  <2>1. PICK i \in 1 .. Len(r) : r[i].peer = o
    BY <1>4 DEF HasPeer
  <2>2. ~TooOld(r[i]) /\ \E j \in 1 .. Len(peers) : r[i] = peers[j]
    BY <1>1, PurgedPeers
  <2>3. PICK j \in 1 .. Len(peers) : r[i] = peers[j]
    BY <2>2
  <2>4. AgeOf(peers, o) = r[i].age /\ AgeOf(r, o) = r[i].age
    BY <1>2, <2>1, <2>3, AgeOfMapped
  <2> QED
    BY <1>1, <2>2, <2>4 DEF TooOld
<1>5. CASE ~HasPeer(r, o) /\ HasPeer(peers, o)
  <2>1. PICK j \in 1 .. Len(peers) : peers[j].peer = o
    BY <1>5 DEF HasPeer
  <2>2. TooOld(peers[j])
    <3> SUFFICES ASSUME ~TooOld(peers[j]) PROVE FALSE
      OBVIOUS
    <3>1. PICK i \in 1 .. Len(r) : r[i] = peers[j]
      BY <1>1, PurgedPeers
    <3> QED
      BY <1>5, <2>1, <3>1 DEF HasPeer
  <2>3. AgeOf(peers, o) = peers[j].age
    BY <2>1, AgeOfPresent
  <2> QED
    BY <1>1, <1>2, <1>5, <2>2, <2>3, AgeOfAbsent DEF TooOld
<1>6. CASE ~HasPeer(r, o) /\ ~HasPeer(peers, o)
  BY <1>1, <1>2, <1>3, <1>6, AgeOfAbsent DEF Unstored
<1> QED
  BY <1>4, <1>5, <1>6

\* A second makes every peer older, up to an age at which it is expired.
Aged(peers) == [i \in DOMAIN peers |-> Older(peers[i])]

LEMMA AgedAges ==
  ASSUME NEW peers \in Seq(PeerEntries), Once(peers), NEW o
  PROVE  /\ Aged(peers) \in Seq(PeerEntries) /\ Once(Aged(peers)) /\ Len(Aged(peers)) = Len(peers)
         /\ AgeOf(Aged(peers), o) =
              IF AgeOf(peers, o) > ExpireTime THEN AgeOf(peers, o) ELSE AgeOf(peers, o) + 1
<1>1. PICK r : r = Aged(peers)
  OBVIOUS
<1>2. PICK n \in Nat : n = Len(peers)
  OBVIOUS
<1>3. ExpireTime \in Nat
  BY DhtPeersAssumption
<1>4. ASSUME NEW x \in PeerEntries
      PROVE  /\ Older(x) \in PeerEntries /\ Older(x).peer = x.peer
             /\ Older(x).age = IF x.age > ExpireTime THEN x.age ELSE x.age + 1
  <2>1. Older(x) = [x EXCEPT !.age = AtMost(x.age + 1, ExpireTime + 1)]
    BY DEF Older
  <2>2. x.age \in 0 .. ExpireTime + 1
    BY DEF PeerEntries
  <2>3. AtMost(x.age + 1, ExpireTime + 1) = IF x.age > ExpireTime THEN x.age ELSE x.age + 1
    BY <1>3, <2>2 DEF AtMost
  <2>4. (IF x.age > ExpireTime THEN x.age ELSE x.age + 1) \in 0 .. ExpireTime + 1
    BY <1>3, <2>2
  <2> QED
    BY <2>1, <2>3, <2>4 DEF PeerEntries
<1>5. \A i \in 1 .. n : r[i] = Older(peers[i]) /\ peers[i] \in PeerEntries
  BY <1>1, <1>2 DEF Aged
<1>6. r \in Seq(PeerEntries) /\ Len(r) = n
  BY <1>1, <1>2, <1>4, <1>5 DEF Aged
<1>7. Once(r)
  <2>1. \A i, j \in 1 .. n : peers[i].peer = peers[j].peer => i = j
    BY <1>2 DEF Once
  <2>2. \A i \in 1 .. n : r[i].peer = peers[i].peer
    BY <1>4, <1>5
  <2> QED
    BY <1>6, <2>1, <2>2 DEF Once
<1>8. CASE HasPeer(peers, o)
  <2>1. PICK i \in 1 .. n : peers[i].peer = o
    BY <1>2, <1>8 DEF HasPeer
  <2>2. r[i].peer = o /\ i \in 1 .. Len(r) /\ i \in 1 .. Len(peers)
    BY <1>2, <1>4, <1>5, <1>6, <2>1
  <2>3. AgeOf(peers, o) = peers[i].age /\ AgeOf(r, o) = r[i].age
    BY <1>6, <1>7, <2>1, <2>2, AgeOfMapped
  <2>4. r[i].age = IF peers[i].age > ExpireTime THEN peers[i].age ELSE peers[i].age + 1
    BY <1>4, <1>5
  <2> QED
    BY <1>1, <1>2, <1>6, <1>7, <2>3, <2>4
<1>9. CASE ~HasPeer(peers, o)
  <2>1. ~HasPeer(r, o)
    BY <1>2, <1>4, <1>5, <1>6, <1>9 DEF HasPeer
  <2>2. AgeOf(peers, o) = Unstored /\ AgeOf(r, o) = Unstored
    BY <1>6, <1>9, <2>1, AgeOfAbsent
  <2>3. Unstored > ExpireTime
    BY <1>3 DEF Unstored
  <2> QED
    BY <1>1, <1>2, <1>6, <1>7, <2>2, <2>3
<1> QED
  BY <1>8, <1>9

\* An array is empty when no peer has an age.
LEMMA AgesOfEmpty ==
  ASSUME NEW peers \in Seq(PeerEntries), Once(peers)
  PROVE  Len(peers) # 0 <=> \E p \in Peers : AgeOf(peers, p) # Unstored
<1>1. ASSUME Len(peers) # 0 PROVE \E p \in Peers : AgeOf(peers, p) # Unstored
  <2>1. 1 \in 1 .. Len(peers) /\ peers[1] \in PeerEntries
    BY <1>1
  <2>2. peers[1].peer \in Peers /\ HasPeer(peers, peers[1].peer)
    BY <2>1 DEF HasPeer, PeerEntries
  <2> QED
    BY <2>2, AgeOfTells
<1>2. ASSUME NEW p \in Peers, AgeOf(peers, p) # Unstored PROVE Len(peers) # 0
  <2>1. HasPeer(peers, p)
    BY <1>2, AgeOfTells
  <2> QED
    BY <2>1 DEF HasPeer
<1> QED
  BY <1>1, <1>2

-----------------------------------------------------------------------------
(* The storage of all hashes.                                              *)

StorageOK(st, num) ==
  /\ DOMAIN st \in SUBSET Hashes /\ IsFiniteSet(DOMAIN st)
  /\ num = Cardinality(DOMAIN st) /\ num <= MaxHashes
  /\ \A h \in DOMAIN st : EntryOK(st[h]) /\ Len(st[h].peers) # 0

AgeAt(st, h, p) == IF h \in DOMAIN st THEN AgeOf(st[h].peers, p) ELSE Unstored

LEMMA EntryPeers ==
  ASSUME NEW e, EntryOK(e)
  PROVE  e.peers \in Seq(PeerEntries) /\ Once(e.peers)
BY DEF EntryOK

\* Storing a peer sets its time, when there is room for it, and that of no
\* other (storage_store).
RoomFor(st, num, h, p) ==
  /\ h \in DOMAIN st \/ num < MaxHashes
  /\ RoomIn(StorageOf(st, h).peers, p)

LEMMA StoreEffect ==
  ASSUME NEW st, NEW num, StorageOK(st, num), NEW h \in Hashes, NEW p \in Peers,
         NEW new, new = Store(st, num, h, p)
  PROVE  /\ StorageOK(new.storage, new.num)
         /\ \A g, o : AgeAt(new.storage, g, o) =
              IF g = h /\ o = p /\ RoomFor(st, num, h, p) THEN 0 ELSE AgeAt(st, g, o)
<1>1. num \in Nat /\ MaxHashes \in Nat /\ MaxPeers \in Nat \ {0} /\ ExpireTime \in Nat
  BY FS_CardinalityType, DhtPeersAssumption DEF StorageOK
<1>2. CASE h \notin DOMAIN st /\ num >= MaxHashes
  <2>1. new = [storage |-> st, num |-> num]
    BY <1>2 DEF Store
  <2>2. ~RoomFor(st, num, h, p)
    BY <1>1, <1>2 DEF RoomFor
  <2> QED
    BY <2>1, <2>2
<1>3. CASE h \in DOMAIN st \/ num < MaxHashes
  <2>1. PICK e : e = StorageOf(st, h)
    OBVIOUS
  <2>2. PICK s : s = Stored(e, p)
    OBVIOUS
  <2>3. PICK nst : nst = [g \in DOMAIN st \cup {h} |-> IF g = h THEN s ELSE st[g]]
    OBVIOUS
  <2>4. new.storage = nst /\ new.num = IF h \in DOMAIN st THEN num ELSE num + 1
    BY <1>1, <1>3, <2>1, <2>2, <2>3 DEF Store
  <2>5. EntryOK(NewStorage) /\ ~HasPeer(NewStorage.peers, p)
    BY <1>1 DEF EntryOK, NewStorage, Once, HasPeer
  <2>6. EntryOK(e)
    BY <2>1, <2>5 DEF StorageOf, StorageOK
  <2>7. /\ EntryOK(s)
        /\ \A o : AgeOf(s.peers, o) = IF o = p /\ RoomIn(e.peers, p) THEN 0 ELSE AgeOf(e.peers, o)
    BY <2>2, <2>6, StoredAges
  <2>8. RoomFor(st, num, h, p) <=> RoomIn(e.peers, p)
    BY <1>3, <2>1 DEF RoomFor
  <2>9. \A o : AgeAt(st, h, o) = AgeOf(e.peers, o)
    <3>1. CASE h \in DOMAIN st
      BY <2>1, <3>1 DEF AgeAt, StorageOf
    <3>2. CASE h \notin DOMAIN st
      <4>1. e = NewStorage /\ e.peers = <<>> /\ e.peers \in Seq(PeerEntries)
        BY <2>1, <3>2 DEF StorageOf, NewStorage
      <4>2. \A o : ~HasPeer(e.peers, o)
        BY <4>1 DEF HasPeer
      <4> QED
        BY <3>2, <4>1, <4>2, AgeOfAbsent DEF AgeAt
    <3> QED
      BY <3>1, <3>2
  <2>10. ASSUME NEW g, NEW o
         PROVE  AgeAt(nst, g, o) = IF g = h /\ o = p /\ RoomFor(st, num, h, p) THEN 0 ELSE AgeAt(st, g, o)
    <3>1. CASE g = h
      BY <2>3, <2>7, <2>8, <2>9, <3>1 DEF AgeAt
    <3>2. CASE g # h
      BY <2>3, <3>2 DEF AgeAt
    <3> QED
      BY <3>1, <3>2
  <2>11. Len(s.peers) # 0
    <3>1. s.peers \in Seq(PeerEntries) /\ Once(s.peers) /\ e.peers \in Seq(PeerEntries) /\ Once(e.peers)
      BY <2>6, <2>7, EntryPeers
    <3>2. CASE RoomIn(e.peers, p)
      <4>1. AgeOf(s.peers, p) = 0 /\ Unstored # 0
        BY <1>1, <2>7, <3>2 DEF Unstored
      <4> QED
        BY <3>1, <4>1, AgesOfEmpty
    <3>3. CASE ~RoomIn(e.peers, p)
      <4>1. Len(e.peers) # 0
        BY <1>1, <3>1, <3>3 DEF RoomIn
      <4>2. PICK o \in Peers : AgeOf(e.peers, o) # Unstored
        BY <3>1, <4>1, AgesOfEmpty
      <4>3. AgeOf(s.peers, o) # Unstored
        BY <2>7, <3>3, <4>2
      <4> QED
        BY <3>1, <4>3, AgesOfEmpty
    <3> QED
      BY <3>2, <3>3
  <2>12. DOMAIN nst = DOMAIN st \cup {h} /\ \A g \in DOMAIN nst : EntryOK(nst[g]) /\ Len(nst[g].peers) # 0
    BY <2>3, <2>7, <2>11 DEF StorageOK
  <2>13. /\ IsFiniteSet(DOMAIN st \cup {h})
         /\ Cardinality(DOMAIN st \cup {h}) = IF h \in DOMAIN st THEN num ELSE num + 1
    BY FS_AddElement DEF StorageOK
  <2>14. new.num <= MaxHashes
    BY <1>1, <1>3, <2>4 DEF StorageOK
  <2>15. StorageOK(nst, new.num)
    BY <2>4, <2>12, <2>13, <2>14 DEF StorageOK
  <2> QED
    BY <2>4, <2>10, <2>15
<1> QED
  BY <1>1, <1>2, <1>3

\* Expiry forgets every peer that is too old, and the hashes left without one
\* (expire_storage).
LEMMA ExpireEffect ==
  ASSUME NEW s, StorageOK(s.storage, s.num), NEW new, new = Expire(s)
  PROVE  /\ StorageOK(new.storage, new.num)
         /\ \A g, o : AgeAt(new.storage, g, o) =
              IF AgeAt(s.storage, g, o) > ExpireTime THEN Unstored ELSE AgeAt(s.storage, g, o)
<1>1. PICK st, num : st = s.storage /\ num = s.num
  OBVIOUS
<1>2. PICK purged : purged = [h \in DOMAIN st |-> [st[h] EXCEPT !.peers = Purged(@)]]
  OBVIOUS
<1>3. PICK left : left = {h \in DOMAIN purged : purged[h].peers # <<>>}
  OBVIOUS
<1>4. PICK nst : nst = [h \in left |-> purged[h]]
  OBVIOUS
<1>5. new.storage = nst /\ new.num = num - Cardinality(DOMAIN purged \ left)
  BY <1>1, <1>2, <1>3, <1>4 DEF Expire
<1>6. ExpireTime \in Nat /\ MaxHashes \in Nat
  BY DhtPeersAssumption
<1>7. ASSUME NEW h \in DOMAIN st
      PROVE  /\ EntryOK(purged[h])
             /\ \A o : AgeOf(purged[h].peers, o) =
                  IF AgeOf(st[h].peers, o) > ExpireTime THEN Unstored ELSE AgeOf(st[h].peers, o)
  <2>1. PICK q \in Seq(PeerEntries), max \in 0 .. MaxPeers : st[h] = [maxpeers |-> max, peers |-> q]
    BY <1>1, <1>7 DEF StorageOK, EntryOK
  <2>2. Once(q) /\ Len(q) <= max
    BY <1>1, <1>7, <2>1 DEF StorageOK, EntryOK
  <2>3. PICK r : r = Purged(q)
    OBVIOUS
  <2>4. purged[h] = [maxpeers |-> max, peers |-> r]
    BY <1>2, <1>7, <2>1, <2>3
  <2>5. r \in Seq(PeerEntries) /\ Once(r) /\ Len(r) <= Len(q)
    BY <2>2, <2>3, PurgedPeers
  <2>6. Len(r) <= max
    <3>1. PICK a \in Nat, b \in Nat : a = Len(q) /\ b = Len(r)
      BY <2>5
    <3> QED
      BY <2>2, <2>5, <3>1
  <2>7. EntryOK(purged[h])
    BY <2>4, <2>5, <2>6 DEF EntryOK
  <2>8. st[h].peers = q /\ purged[h].peers = r
    BY <2>1, <2>4
  <2> QED
    BY <2>2, <2>3, <2>7, <2>8, PurgedAges
<1>8. DOMAIN purged = DOMAIN st /\ left \in SUBSET DOMAIN st /\ DOMAIN nst = left
  BY <1>2, <1>3, <1>4
<1>9. ASSUME NEW g, NEW o
      PROVE  AgeAt(nst, g, o) = IF AgeAt(st, g, o) > ExpireTime THEN Unstored ELSE AgeAt(st, g, o)
  <2>1. CASE g \in left
    <3>1. AgeAt(nst, g, o) = AgeOf(purged[g].peers, o) /\ AgeAt(st, g, o) = AgeOf(st[g].peers, o)
      BY <1>4, <1>8, <2>1 DEF AgeAt
    <3> QED
      BY <1>7, <1>8, <2>1, <3>1
  <2>2. CASE g \in DOMAIN st /\ g \notin left
    <3>1. purged[g].peers = <<>>
      BY <1>3, <1>8, <2>2
    <3>2. <<>> \in Seq(PeerEntries) /\ ~HasPeer(<<>>, o)
      BY DEF HasPeer
    <3>3. AgeOf(purged[g].peers, o) = Unstored
      BY <3>1, <3>2, AgeOfAbsent
    <3>4. AgeAt(nst, g, o) = Unstored /\ AgeAt(st, g, o) = AgeOf(st[g].peers, o)
      BY <1>8, <2>2 DEF AgeAt
    <3> QED
      BY <1>7, <2>2, <3>3, <3>4
  <2>3. CASE g \notin DOMAIN st
    BY <1>6, <1>8, <2>3 DEF AgeAt, Unstored
  <2> QED
    BY <2>1, <2>2, <2>3
<1>10. /\ IsFiniteSet(DOMAIN st) /\ IsFiniteSet(left) /\ IsFiniteSet(DOMAIN st \ left)
       /\ Cardinality(left) \in Nat /\ num \in Nat /\ Cardinality(DOMAIN st \ left) = num - Cardinality(left)
  <2>1. IsFiniteSet(DOMAIN st) /\ num = Cardinality(DOMAIN st)
    BY <1>1 DEF StorageOK
  <2>2. IsFiniteSet(left)
    BY <1>8, <2>1, FS_Subset
  <2>3. DOMAIN st \cap left = left
    BY <1>8
  <2> QED
    BY <2>1, <2>2, <2>3, FS_Difference, FS_CardinalityType
<1>11. new.num = Cardinality(left) /\ Cardinality(left) <= num
  <2>1. Cardinality(left) <= Cardinality(DOMAIN st)
    BY <1>8, <1>10, FS_Subset
  <2>2. new.num = num - (num - Cardinality(left))
    BY <1>5, <1>8, <1>10
  <2> QED
    BY <1>1, <1>10, <2>1, <2>2 DEF StorageOK
<1>12. \A h \in left : nst[h] = purged[h] /\ EntryOK(nst[h]) /\ Len(nst[h].peers) # 0
  <2> SUFFICES ASSUME NEW h \in left PROVE nst[h] = purged[h] /\ EntryOK(nst[h]) /\ Len(nst[h].peers) # 0
    OBVIOUS
  <2>1. nst[h] = purged[h] /\ EntryOK(purged[h]) /\ purged[h].peers # <<>>
    BY <1>3, <1>4, <1>7, <1>8
  <2>2. purged[h].peers \in Seq(PeerEntries)
    BY <2>1, EntryPeers
  <2> QED
    BY <2>1, <2>2
<1>13. DOMAIN st \in SUBSET Hashes /\ num <= MaxHashes
  BY <1>1 DEF StorageOK
<1>14. Cardinality(left) <= MaxHashes
  BY <1>6, <1>10, <1>11, <1>13
<1>15. StorageOK(nst, new.num)
  BY <1>8, <1>10, <1>11, <1>12, <1>13, <1>14 DEF StorageOK
<1> QED
  BY <1>1, <1>5, <1>9, <1>15

\* A second makes every peer older.
LEMMA TickEffect ==
  ASSUME NEW st, NEW num, StorageOK(st, num),
         NEW new, new = [h \in DOMAIN st |-> [st[h] EXCEPT !.peers = [i \in DOMAIN @ |-> Older(@[i])]]]
  PROVE  /\ StorageOK(new, num)
         /\ \A g, o : AgeAt(new, g, o) =
              IF AgeAt(st, g, o) > ExpireTime THEN AgeAt(st, g, o) ELSE AgeAt(st, g, o) + 1
<1>1. ExpireTime \in Nat
  BY DhtPeersAssumption
<1>2. ASSUME NEW h \in DOMAIN st
      PROVE  /\ EntryOK(new[h]) /\ Len(new[h].peers) # 0
             /\ \A o : AgeOf(new[h].peers, o) =
                  IF AgeOf(st[h].peers, o) > ExpireTime THEN AgeOf(st[h].peers, o) ELSE AgeOf(st[h].peers, o) + 1
  <2>1. PICK q \in Seq(PeerEntries), max \in 0 .. MaxPeers : st[h] = [maxpeers |-> max, peers |-> q]
    BY <1>2 DEF StorageOK, EntryOK
  <2>2. Once(q) /\ Len(q) <= max /\ Len(q) # 0
    BY <1>2, <2>1 DEF StorageOK, EntryOK
  <2>3. PICK r : r = Aged(q)
    OBVIOUS
  <2>4. new[h] = [maxpeers |-> max, peers |-> r]
    BY <1>2, <2>1, <2>3 DEF Aged
  <2>5. r \in Seq(PeerEntries) /\ Once(r) /\ Len(r) = Len(q)
    BY <2>2, <2>3, AgedAges
  <2>6. EntryOK(new[h]) /\ Len(new[h].peers) # 0
    BY <2>2, <2>4, <2>5 DEF EntryOK
  <2>7. st[h].peers = q /\ new[h].peers = r
    BY <2>1, <2>4
  <2> QED
    <3>1. \A o : AgeOf(r, o) = IF AgeOf(q, o) > ExpireTime THEN AgeOf(q, o) ELSE AgeOf(q, o) + 1
      BY <2>2, <2>3, AgedAges
    <3> QED
      BY <2>6, <2>7, <3>1, Zenon
<1>3. DOMAIN new = DOMAIN st
  OBVIOUS
<1>4. StorageOK(new, num)
  BY <1>2, <1>3 DEF StorageOK
<1>5. ASSUME NEW g, NEW o
      PROVE  AgeAt(new, g, o) = IF AgeAt(st, g, o) > ExpireTime THEN AgeAt(st, g, o) ELSE AgeAt(st, g, o) + 1
  <2>1. CASE g \in DOMAIN st
    BY <1>2, <1>3, <2>1 DEF AgeAt
  <2>2. CASE g \notin DOMAIN st
    BY <1>1, <1>3, <2>2 DEF AgeAt, Unstored
  <2> QED
    BY <2>1, <2>2
<1> QED
  BY <1>4, <1>5

-----------------------------------------------------------------------------
(* The invariant.                                                          *)

PeersIInv == RateIInv /\ StorageOK(storage, numstorage)

LEMMA PeersInit == Init => PeersIInv
<1> SUFFICES ASSUME Init PROVE PeersIInv
  OBVIOUS
<1>1. RateIInv
  BY RateInitIInv DEF Init
<1>2. storage = <<>> /\ numstorage = 0 /\ DOMAIN storage = {}
  BY DEF Init
<1>3. StorageOK(storage, numstorage)
  BY <1>2, FS_EmptySet, DhtPeersAssumption DEF StorageOK
<1> QED
  BY <1>1, <1>3 DEF PeersIInv

\* A step of the storage is one of an announcement, of expiry, of both or of a
\* second; the rate control takes a step of its own or none.
StoreStep ==
  \/ Tasks(Now)
  \/ \E h \in Hashes, p \in Peers : Tasks(Store(storage, numstorage, h, p))
  \/ /\ storage' = [h \in DOMAIN storage |->
                    [storage[h] EXCEPT !.peers = [i \in DOMAIN @ |-> Older(@[i])]]]
     /\ UNCHANGED numstorage
  \/ UNCHANGED <<storage, numstorage>>

LEMMA StepsOfNext ==
  ASSUME [Next]_vars
  PROVE  [RateNext]_rateVars /\ StoreStep
<1>1. ASSUME NEW addr \in Addrs, NEW h \in Hashes, NEW port \in Ports \cup {0},
             NEW implied \in BOOLEAN, NEW matches \in BOOLEAN, Announce(addr, h, port, implied, matches)
      PROVE  [RateNext]_rateVars /\ StoreStep
  <2>1. CASE matches /\ (implied \/ port \in Ports)
    <3>1. <<addr, PortOf(port, implied)>> \in Peers
      BY <2>1 DEF PortOf, Peers
    <3>2. PICK p \in Peers : p = <<addr, PortOf(port, implied)>>
      BY <3>1
    <3>3. Tasks(Store(storage, numstorage, h, p))
      BY <1>1, <2>1, <3>2 DEF Announce
    <3> QED
      BY <1>1, <3>3 DEF Announce, StoreStep, RateNext
  <2>2. CASE ~(matches /\ (implied \/ port \in Ports))
    BY <1>1, <2>2 DEF Announce, StoreStep, RateNext
  <2> QED
    BY <2>1, <2>2
<1>2. ASSUME Query \/ (Drop /\ Tasks(Now)) \/ Idle PROVE [RateNext]_rateVars /\ StoreStep
  BY <1>2 DEF Query, Idle, StoreStep, RateNext
<1>3. ASSUME Tick PROVE [RateNext]_rateVars /\ StoreStep
  BY <1>3 DEF Tick, StoreStep, RateNext
<1>4. ASSUME UNCHANGED vars PROVE [RateNext]_rateVars /\ StoreStep
  BY <1>4 DEF vars, rateVars, StoreStep
<1> QED
  BY <1>1, <1>2, <1>3, <1>4 DEF Next

LEMMA TasksKeep ==
  ASSUME NEW s, StorageOK(s.storage, s.num), Tasks(s)
  PROVE  StorageOK(storage', numstorage')
<1>1. PICK t \in {s, Expire(s)} : storage' = t.storage /\ numstorage' = t.num
  BY DEF Tasks
<1>2. StorageOK(Expire(s).storage, Expire(s).num)
  BY ExpireEffect
<1> QED
  BY <1>1, <1>2

LEMMA PeersNext == PeersIInv /\ [Next]_vars => PeersIInv'
<1> SUFFICES ASSUME PeersIInv, [Next]_vars PROVE PeersIInv'
  OBVIOUS
<1>1. [RateNext]_rateVars /\ StoreStep
  BY StepsOfNext
<1>2. RateIInv'
  BY <1>1, RateNextIInv DEF PeersIInv
<1>3. StorageOK(storage, numstorage)
  BY DEF PeersIInv
<1>4. ASSUME Tasks(Now) PROVE StorageOK(storage', numstorage')
  BY <1>3, <1>4, TasksKeep DEF Now
<1>5. ASSUME NEW h \in Hashes, NEW p \in Peers, Tasks(Store(storage, numstorage, h, p))
      PROVE  StorageOK(storage', numstorage')
  <2>1. PICK new : new = Store(storage, numstorage, h, p)
    OBVIOUS
  <2>2. StorageOK(new.storage, new.num)
    BY <1>3, <2>1, StoreEffect
  <2> QED
    BY <1>5, <2>1, <2>2, TasksKeep
<1>6. ASSUME storage' = [h \in DOMAIN storage |->
                          [storage[h] EXCEPT !.peers = [i \in DOMAIN @ |-> Older(@[i])]]],
             numstorage' = numstorage
      PROVE  StorageOK(storage', numstorage')
  BY <1>3, <1>6, TickEffect
<1>7. ASSUME UNCHANGED <<storage, numstorage>> PROVE StorageOK(storage', numstorage')
  BY <1>3, <1>7
<1>8. StorageOK(storage', numstorage')
  BY <1>1, <1>4, <1>5, <1>6, <1>7 DEF StoreStep
<1>9. StorageOK(storage, numstorage)'
  BY <1>8
<1> QED
  BY <1>2, <1>9 DEF PeersIInv

\* The requests served are bounded in the same way with the storage behind them.
THEOREM ServedAlwaysBounded == Spec => []RateBounded
<1>1. PeersIInv => RateBounded
  BY RateIInvBounds DEF PeersIInv
<1> QED
  BY <1>1, PeersInit, PeersNext, PTL DEF Spec

\* The arrays and the counts of the storage agree and keep within their limits
\* (storage_store, expire_storage).
THEOREM PeersAlwaysTyped == Spec => []TypeOK
<1>1. PeersIInv => TypeOK
  <2> SUFFICES ASSUME PeersIInv PROVE TypeOK
    OBVIOUS
  <2>1. RateTypeOK /\ StorageOK(storage, numstorage)
    BY DEF PeersIInv, RateIInv
  <2>2. ASSUME NEW h \in DOMAIN storage
        PROVE  Len(storage[h].peers) \in 1 .. storage[h].maxpeers /\ storage[h].maxpeers <= MaxPeers
    <3>1. EntryOK(storage[h]) /\ Len(storage[h].peers) # 0
      BY <2>1, <2>2 DEF StorageOK
    <3>2. PICK q \in Seq(PeerEntries), max \in 0 .. MaxPeers : storage[h] = [maxpeers |-> max, peers |-> q]
      BY <3>1 DEF EntryOK
    <3>3. PICK n \in Nat : n = Len(q)
      OBVIOUS
    <3>4. n <= max /\ n # 0
      BY <3>1, <3>2, <3>3 DEF EntryOK
    <3> QED
      BY <3>2, <3>3, <3>4, DhtPeersAssumption
  <2> QED
    BY <2>1, <2>2 DEF TypeOK, StorageOK
<1> QED
  BY <1>1, PeersInit, PeersNext, PTL DEF Spec

-----------------------------------------------------------------------------
(* The storage implements PeerStore.                                       *)

AgesOf(st) == [h \in Hashes |-> [p \in Peers |-> AgeAt(st, h, p)]]
AbstractAge == [h \in Hashes |-> [p \in Peers |-> PeerAge(h, p)]]

LEMMA AbstractAgeIs == AbstractAge = AgesOf(storage) /\ AbstractAge' = AgesOf(storage')
<1>1. ASSUME NEW h, NEW p
      PROVE  PeerAge(h, p) = AgeAt(storage, h, p) /\ PeerAge(h, p)' = AgeAt(storage', h, p)
  <2>1. PeerAge(h, p) = AgeAt(storage, h, p)
    BY DEF PeerAge, AgeAt, AgeOf, Unstored
  <2>2. PeerAge(h, p)' = AgeAt(storage', h, p)
    BY DEF PeerAge, AgeAt, AgeOf, Unstored
  <2> QED
    BY <2>1, <2>2
<1> QED
  BY <1>1 DEF AbstractAge, AgesOf

\* The peers of an array are as many as its length.
LEMMA PeersOfArray ==
  ASSUME NEW peers \in Seq(PeerEntries), Once(peers)
  PROVE  /\ IsFiniteSet({p \in Peers : HasPeer(peers, p)})
         /\ Cardinality({p \in Peers : HasPeer(peers, p)}) = Len(peers)
<1>1. PICK n \in Nat : n = Len(peers)
  OBVIOUS
<1> DEFINE P == {p \in Peers : HasPeer(peers, p)}
<1> DEFINE f == [i \in 1 .. n |-> peers[i].peer]
<1>2. \A i \in 1 .. n : f[i] \in P
  <2> SUFFICES ASSUME NEW i \in 1 .. n PROVE peers[i].peer \in P
    OBVIOUS
  <2>1. peers[i] \in PeerEntries
    BY <1>1
  <2> QED
    BY <1>1, <2>1 DEF PeerEntries, HasPeer
<1>3. \A p \in P : \E i \in 1 .. n : f[i] = p
  BY <1>1 DEF HasPeer
<1>4. \A i, j \in 1 .. n : f[i] = f[j] => i = j
  BY <1>1 DEF Once
<1>5. f \in Bijection(1 .. n, P)
  <2>1. f \in [1 .. n -> P]
    BY <1>2
  <2> QED
    BY <1>3, <1>4, <2>1 DEF Bijection, Injection, Surjection, IsInjective
<1>6. IsFiniteSet(1 .. n) /\ Cardinality(1 .. n) = n
  BY FS_Interval
<1>7. ExistsBijection(1 .. n, P)
  BY <1>5 DEF ExistsBijection
<1> HIDE DEF P
<1>8. IsFiniteSet(P) /\ Cardinality(P) = n
  BY <1>6, <1>7, FS_Bijection
<1> QED
  BY <1>1, <1>8 DEF P

\* Both modules count sets with the same operator.
LEMMA SameCardinality == \A S : Abstract!Cardinality(S) = Cardinality(S)
BY Zenon DEF Abstract!Cardinality, Cardinality

\* PeerStore tracks the hashes of the storage, and has room when it has.
LEMMA AbstractRoom ==
  ASSUME StorageOK(storage, numstorage), NEW h \in Hashes, NEW p \in Peers
  PROVE  (p \in Abstract!Stored(h) \/ Abstract!Room(h)) <=> RoomFor(storage, numstorage, h, p)
<1>1. \A g \in Hashes : Abstract!Stored(g) = {o \in Peers : AgeAt(storage, g, o) # Unstored}
  <2>1. \A g \in Hashes, o \in Peers : AbstractAge[g][o] = AgeAt(storage, g, o)
    BY AbstractAgeIs DEF AgesOf
  <2> QED
    BY <2>1 DEF Abstract!Stored, Abstract!Absent, AbstractAge, Unstored
<1>2. ASSUME NEW g \in DOMAIN storage
      PROVE  /\ storage[g].peers \in Seq(PeerEntries) /\ Once(storage[g].peers)
             /\ Len(storage[g].peers) # 0
  BY <1>2, EntryPeers DEF StorageOK
<1>3. ASSUME NEW g \in DOMAIN storage
      PROVE  Abstract!Stored(g) = {o \in Peers : HasPeer(storage[g].peers, o)}
  <2>1. g \in Hashes
    BY <1>3 DEF StorageOK
  <2>2. \A o \in Peers : AgeAt(storage, g, o) # Unstored <=> HasPeer(storage[g].peers, o)
    BY <1>2, <1>3, AgeOfTells DEF AgeAt
  <2> QED
    BY <1>1, <2>1, <2>2
<1>4. ASSUME NEW g \in Hashes, g \notin DOMAIN storage PROVE Abstract!Stored(g) = {}
  BY <1>1, <1>4 DEF AgeAt
<1>5. Abstract!Tracked = DOMAIN storage
  <2>1. ASSUME NEW g \in DOMAIN storage PROVE Abstract!Stored(g) # {}
    <3>1. PICK o \in Peers : AgeOf(storage[g].peers, o) # Unstored
      BY <1>2, <2>1, AgesOfEmpty
    <3>2. HasPeer(storage[g].peers, o)
      BY <1>2, <2>1, <3>1, AgeOfTells
    <3> QED
      BY <1>3, <2>1, <3>2
  <2>2. DOMAIN storage \in SUBSET Hashes
    BY DEF StorageOK
  <2> QED
    BY <1>4, <2>1, <2>2 DEF Abstract!Tracked
<1>6. numstorage = Cardinality(Abstract!Tracked)
  BY <1>5 DEF StorageOK
<1>7. MaxPeers \in Nat /\ MaxPeers > 0
  BY DhtPeersAssumption
<1>8. CASE h \in DOMAIN storage
  <2>1. PICK q \in Seq(PeerEntries) : q = storage[h].peers /\ Once(q)
    BY <1>2, <1>8
  <2>2. Cardinality(Abstract!Stored(h)) = Len(q)
    BY <1>3, <1>8, <2>1, PeersOfArray
  <2>3. p \in Abstract!Stored(h) <=> HasPeer(q, p)
    BY <1>3, <1>8, <2>1
  <2>4. RoomFor(storage, numstorage, h, p) <=> HasPeer(q, p) \/ Len(q) < MaxPeers
    BY <1>8, <2>1 DEF RoomFor, RoomIn, StorageOf
  <2>5. Abstract!Room(h) <=> Len(q) < MaxPeers
    BY <1>5, <1>8, <2>2, SameCardinality DEF Abstract!Room
  <2> QED
    BY <2>3, <2>4, <2>5
<1>9. CASE h \notin DOMAIN storage
  <2>1. Abstract!Stored(h) = {} /\ Cardinality(Abstract!Stored(h)) = 0
    BY <1>4, <1>9, FS_EmptySet
  <2>2. Abstract!Room(h) <=> numstorage < MaxHashes
    BY <1>5, <1>6, <1>7, <1>9, <2>1, SameCardinality DEF Abstract!Room
  <2>3. ~HasPeer(<<>>, p) /\ Len(<<>>) = 0
    BY DEF HasPeer
  <2>4. RoomFor(storage, numstorage, h, p) <=> numstorage < MaxHashes
    BY <1>7, <1>9, <2>3 DEF RoomFor, RoomIn, StorageOf, NewStorage
  <2> QED
    BY <2>1, <2>2, <2>4
<1> QED
  BY <1>8, <1>9

\* The steps of the storage are those of PeerStore.
LEMMA StoreAnnounces ==
  ASSUME StorageOK(storage, numstorage), NEW h \in Hashes, NEW p \in Peers
  PROVE  AgesOf(Store(storage, numstorage, h, p).storage) = Abstract!Announced(h, p)
<1>1. PICK new : new = Store(storage, numstorage, h, p)
  OBVIOUS
<1>2. PICK room : room = RoomFor(storage, numstorage, h, p)
  OBVIOUS
<1>3. \A g, o : AgeAt(new.storage, g, o) = IF g = h /\ o = p /\ RoomFor(storage, numstorage, h, p)
                                          THEN 0 ELSE AgeAt(storage, g, o)
  BY <1>1, StoreEffect
<1>4. AbstractAge = AgesOf(storage)
  BY AbstractAgeIs
<1>5. CASE RoomFor(storage, numstorage, h, p)
  <2>1. Abstract!Announced(h, p) = [AbstractAge EXCEPT ![h][p] = 0]
    BY <1>5, AbstractRoom DEF Abstract!Announced, AbstractAge
  <2>2. [AgesOf(storage) EXCEPT ![h][p] = 0] =
          [g \in Hashes |-> [o \in Peers |-> IF g = h /\ o = p THEN 0 ELSE AgeAt(storage, g, o)]]
    BY DEF AgesOf
  <2>3. AgesOf(new.storage) =
          [g \in Hashes |-> [o \in Peers |-> IF g = h /\ o = p THEN 0 ELSE AgeAt(storage, g, o)]]
    BY <1>3, <1>5 DEF AgesOf
  <2> QED
    BY <1>1, <1>4, <2>1, <2>2, <2>3
<1>6. CASE ~RoomFor(storage, numstorage, h, p)
  <2>1. Abstract!Announced(h, p) = AbstractAge
    BY <1>6, AbstractRoom DEF Abstract!Announced, AbstractAge
  <2>2. AgesOf(new.storage) = AgesOf(storage)
    BY <1>3, <1>6 DEF AgesOf
  <2> QED
    BY <1>1, <1>4, <2>1, <2>2
<1> QED
  BY <1>5, <1>6

LEMMA ExpireKeeps ==
  ASSUME NEW s, StorageOK(s.storage, s.num)
  PROVE  AgesOf(Expire(s).storage) = Abstract!Kept(AgesOf(s.storage))
<1>1. PICK new : new = Expire(s)
  OBVIOUS
<1>2. \A g, o : AgeAt(new.storage, g, o) =
        IF AgeAt(s.storage, g, o) > ExpireTime THEN Unstored ELSE AgeAt(s.storage, g, o)
  BY <1>1, ExpireEffect
<1> QED
  BY <1>1, <1>2 DEF AgesOf, Abstract!Kept, Abstract!Absent, Unstored

LEMMA TasksImplement ==
  ASSUME NEW s, StorageOK(s.storage, s.num), Tasks(s)
  PROVE  AbstractAge' \in {AgesOf(s.storage), Abstract!Kept(AgesOf(s.storage))}
<1>1. PICK t \in {s, Expire(s)} : storage' = t.storage
  BY DEF Tasks
<1> QED
  BY <1>1, AbstractAgeIs, ExpireKeeps

LEMMA StepsImplement ==
  PeersIInv /\ [Next]_vars => [Abstract!Next]_AbstractAge
<1> SUFFICES ASSUME PeersIInv, [Next]_vars PROVE [Abstract!Next]_AbstractAge
  OBVIOUS
<1>1. StorageOK(storage, numstorage)
  BY DEF PeersIInv
<1>2. StoreStep
  BY StepsOfNext
<1>3. AbstractAge = AgesOf(storage)
  BY AbstractAgeIs
<1>4. ASSUME Tasks(Now) PROVE [Abstract!Next]_AbstractAge
  <2>1. AbstractAge' \in {AbstractAge, Abstract!Kept(AbstractAge)}
    BY <1>1, <1>3, <1>4, TasksImplement DEF Now
  <2> QED
    BY <2>1 DEF Abstract!Next, AbstractAge
<1>5. ASSUME NEW h \in Hashes, NEW p \in Peers, Tasks(Store(storage, numstorage, h, p))
      PROVE  Abstract!Next
  <2>1. PICK new : new = Store(storage, numstorage, h, p)
    OBVIOUS
  <2>2. StorageOK(new.storage, new.num) /\ Tasks(new) /\ AgesOf(new.storage) = Abstract!Announced(h, p)
    BY <1>1, <1>5, <2>1, StoreEffect, StoreAnnounces
  <2>3. AbstractAge' \in {Abstract!Announced(h, p), Abstract!Kept(Abstract!Announced(h, p))}
    BY <2>2, TasksImplement
  <2> QED
    BY <2>3 DEF Abstract!Next, AbstractAge
<1>6. ASSUME storage' = [h \in DOMAIN storage |->
                          [storage[h] EXCEPT !.peers = [i \in DOMAIN @ |-> Older(@[i])]]]
      PROVE  Abstract!Next
  <2>1. \A g, o : AgeAt(storage', g, o) =
          IF AgeAt(storage, g, o) > ExpireTime THEN AgeAt(storage, g, o) ELSE AgeAt(storage, g, o) + 1
    BY <1>1, <1>6, TickEffect
  <2>2. AgesOf(storage') = [g \in Hashes |-> [o \in Peers |-> Abstract!Older(AgesOf(storage)[g][o])]]
    BY <2>1 DEF AgesOf, Abstract!Older
  <2>3. AbstractAge' = [g \in Hashes |-> [o \in Peers |-> Abstract!Older(AbstractAge[g][o])]]
    BY <1>3, <2>2, AbstractAgeIs
  <2> QED
    BY <2>3 DEF Abstract!Next, AbstractAge
<1>7. ASSUME UNCHANGED <<storage, numstorage>> PROVE AbstractAge' = AbstractAge
  BY <1>3, <1>7, AbstractAgeIs
<1> QED
  BY <1>2, <1>4, <1>5, <1>6, <1>7 DEF StoreStep

LEMMA InitImplements == Init => Abstract!Init
<1> SUFFICES ASSUME Init PROVE Abstract!Init
  OBVIOUS
<1>1. DOMAIN storage = {}
  BY DEF Init
<1>2. AbstractAge = [h \in Hashes |-> [p \in Peers |-> Unstored]]
  BY <1>1, AbstractAgeIs DEF AgesOf, AgeAt
<1> QED
  BY <1>2 DEF Abstract!Init, Abstract!Absent, AbstractAge, Unstored

\* Every peer that announces itself is kept for the time that PeerStore
\* promises, no longer, and within its limits: the growth of the arrays and
\* the removal in place lose none and keep none (storage_store,
\* expire_storage).
THEOREM PeersRefine == Spec => RefinesPeerStore
<1>1. PeersIInv /\ [Next]_vars => [Abstract!Next]_AbstractAge
  BY StepsImplement
<1>2. [Abstract!Next]_AbstractAge => [Abstract!Next]_([h \in Hashes |-> [p \in Peers |-> PeerAge(h, p)]])
  BY DEF AbstractAge
<1> QED
  BY <1>1, <1>2, InitImplements, PeersInit, PeersNext, PTL DEF Spec, RefinesPeerStore, Abstract!Spec

-----------------------------------------------------------------------------
(* The answers to get_peers.                                               *)

\* From any place on, around an array, every peer is met once.
LEMMA AroundPeers ==
  ASSUME NEW peers \in Seq(PeerEntries), Once(peers), NEW j0 \in 1 .. Len(peers)
  PROVE  /\ Around(peers, j0) \in Seq(PeerEntries) /\ Once(Around(peers, j0))
         /\ Len(Around(peers, j0)) = Len(peers)
         /\ \A i \in 1 .. Len(peers) : \E j \in 1 .. Len(peers) : Around(peers, j0)[i] = peers[j]
         /\ \A j \in 1 .. Len(peers) : \E i \in 1 .. Len(peers) : Around(peers, j0)[i] = peers[j]
<1>1. PICK n \in Nat : n = Len(peers) /\ j0 \in 1 .. n
  OBVIOUS
<1>2. PICK head, tail : head = SubSeq(peers, j0, n) /\ tail = SubSeq(peers, 1, j0 - 1)
  OBVIOUS
<1>3. PICK m, l : m = n - j0 + 1 /\ l = j0 - 1 /\ m \in Nat /\ l \in Nat /\ m + l = n
  BY <1>1
<1>4. /\ head \in Seq(PeerEntries) /\ Len(head) = m
      /\ \A i \in 1 .. m : head[i] = peers[j0 + i - 1]
  BY <1>1, <1>2, <1>3
<1>5. /\ tail \in Seq(PeerEntries) /\ Len(tail) = l
      /\ \A i \in 1 .. l : tail[i] = peers[i]
  BY <1>1, <1>2, <1>3
<1>6. PICK r : r = head \o tail
  OBVIOUS
<1>7. r = Around(peers, j0)
  BY <1>1, <1>2, <1>6 DEF Around
<1>8. /\ r \in Seq(PeerEntries) /\ Len(r) = n
      /\ \A i \in 1 .. n : r[i] = IF i <= m THEN head[i] ELSE tail[i - m]
  BY <1>3, <1>4, <1>5, <1>6
<1>9. \A i \in 1 .. n : r[i] = peers[IF i <= m THEN j0 + i - 1 ELSE i - m]
  <2> SUFFICES ASSUME NEW i \in 1 .. n PROVE r[i] = peers[IF i <= m THEN j0 + i - 1 ELSE i - m]
    OBVIOUS
  <2>1. CASE i <= m
    <3>1. i \in 1 .. m
      BY <1>3, <2>1
    <3> QED
      BY <1>4, <1>8, <2>1, <3>1
  <2>2. CASE ~(i <= m)
    <3>1. i - m \in 1 .. l
      BY <1>3, <2>2
    <3> QED
      BY <1>5, <1>8, <2>2, <3>1
  <2> QED
    BY <2>1, <2>2
<1>10. Once(r)
  <2> SUFFICES ASSUME NEW i \in 1 .. n, NEW j \in 1 .. n, r[i].peer = r[j].peer PROVE i = j
    BY <1>8 DEF Once
  <2>1. PICK a, b : /\ a = (IF i <= m THEN j0 + i - 1 ELSE i - m)
                    /\ b = (IF j <= m THEN j0 + j - 1 ELSE j - m)
    OBVIOUS
  <2>2. a \in 1 .. n /\ b \in 1 .. n
    BY <1>1, <1>3, <2>1
  <2>3. r[i] = peers[a] /\ r[j] = peers[b]
    BY <1>9, <2>1
  <2>4. a = b
    BY <1>1, <2>2, <2>3 DEF Once
  <2> QED
    BY <1>1, <1>3, <2>1, <2>4
<1>11. \A i \in 1 .. n : \E j \in 1 .. n : r[i] = peers[j]
  <2> SUFFICES ASSUME NEW i \in 1 .. n PROVE \E j \in 1 .. n : r[i] = peers[j]
    OBVIOUS
  <2>1. (IF i <= m THEN j0 + i - 1 ELSE i - m) \in 1 .. n
    BY <1>1, <1>3
  <2> QED
    BY <1>9, <2>1
<1>12. \A j \in 1 .. n : \E i \in 1 .. n : r[i] = peers[j]
  <2> SUFFICES ASSUME NEW j \in 1 .. n PROVE \E i \in 1 .. n : r[i] = peers[j]
    OBVIOUS
  <2>1. PICK i : i = IF j >= j0 THEN j - j0 + 1 ELSE j + m
    OBVIOUS
  <2>2. i \in 1 .. n /\ (IF i <= m THEN j0 + i - 1 ELSE i - m) = j
    BY <1>1, <1>3, <2>1
  <2> QED
    BY <1>9, <2>2
<1> QED
  BY <1>1, <1>7, <1>8, <1>10, <1>11, <1>12

\* The peers taken, after every peer of the array that is looked at.
Taken(list, p, inet6) ==
  IF Len(list) < MaxValues /\ OfFamily(p, inet6) THEN Append(list, p) ELSE list
IsTakenRun(f, around, inet6, n) ==
  f = [k \in 0 .. n |-> IF k = 0 THEN <<>> ELSE Taken(f[k - 1], around[k], inet6)]

LEMMA TakenRunSteps ==
  ASSUME NEW around, NEW inet6, NEW n \in Nat
  PROVE  \E f : IsTakenRun(f, around, inet6, n)
<1> DEFINE runs == {j \in 0 .. n : \E f : IsTakenRun(f, around, inet6, j)}
<1>1. \E f : IsTakenRun(f, around, inet6, 0)
  <2>1. IsTakenRun([k \in 0 .. 0 |-> <<>>], around, inet6, 0)
    BY DEF IsTakenRun
  <2> QED
    BY <2>1
<1>2. ASSUME NEW j \in runs, j < n PROVE j + 1 \in runs
  <2>1. PICK f : IsTakenRun(f, around, inet6, j)
    OBVIOUS
  <2> DEFINE g == [k \in 0 .. j + 1 |-> IF k = j + 1 THEN Taken(f[j], around[k], inet6) ELSE f[k]]
  <2>2. ASSUME NEW k \in 0 .. j + 1
        PROVE  g[k] = IF k = 0 THEN <<>> ELSE Taken(g[k - 1], around[k], inet6)
    BY <2>1 DEF IsTakenRun
  <2>3. IsTakenRun(g, around, inet6, j + 1)
    BY <2>2 DEF IsTakenRun
  <2>4. j + 1 \in 0 .. n /\ \E h : IsTakenRun(h, around, inet6, j + 1)
    BY <1>2, <2>3
  <2> QED
    BY <2>4
<1>3. 0 \in runs /\ runs \in SUBSET (0 .. n) /\ \A j \in runs : j < n => j + 1 \in runs
  BY <1>1, <1>2
<1>4. n \in runs
  <2> HIDE DEF runs
  <2>1. runs = 0 .. n
    BY <1>3, StepInduction
  <2> QED
    BY <2>1
<1> QED
  BY <1>4

LEMMA ValuesIsRun ==
  ASSUME NEW peers, NEW inet6, NEW j0, NEW n \in Nat, n = Len(Around(peers, j0))
  PROVE  \E f : IsTakenRun(f, Around(peers, j0), inet6, n) /\ Values(peers, inet6, j0) = f[n]
<1>1. PICK around : around = Around(peers, j0)
  OBVIOUS
<1>2. PICK f : f = CHOOSE g : IsTakenRun(g, around, inet6, n)
  OBVIOUS
<1>3. IsTakenRun(f, around, inet6, n)
  BY <1>2, TakenRunSteps
<1>4. Values(peers, inet6, j0) = f[n]
  BY <1>1, <1>2 DEF Values, IsTakenRun, Taken
<1> QED
  BY <1>1, <1>3, <1>4

\* The places before k of the peers of the family.
Before(around, inet6, k) == {j \in 1 .. k : OfFamily(around[j], inet6)}

\* What holds of the answer when k peers have been looked at.
TakenInv(list, around, inet6, k) ==
  /\ list \in Seq(PeerEntries) /\ Once(list)
  /\ \A i \in 1 .. Len(list) : \E j \in Before(around, inet6, k) : list[i] = around[j]
  /\ Len(list) = AtMost(Cardinality(Before(around, inet6, k)), MaxValues)

LEMMA TakenKeepsInv ==
  ASSUME NEW around \in Seq(PeerEntries), Once(around), NEW inet6, NEW k \in Nat, k < Len(around),
         NEW list, TakenInv(list, around, inet6, k)
  PROVE  TakenInv(Taken(list, around[k + 1], inet6), around, inet6, k + 1)
<1>1. PICK n \in Nat, l \in Nat : n = Len(around) /\ l = Len(list) /\ k < n /\ list \in Seq(PeerEntries)
  BY DEF TakenInv
<1>2. PICK b, c : b = Before(around, inet6, k) /\ c = Before(around, inet6, k + 1)
  OBVIOUS
<1>3. PICK p : p = around[k + 1] /\ p \in PeerEntries
  BY <1>1
<1>4. IsFiniteSet(b) /\ Cardinality(b) \in Nat
  <2>1. IsFiniteSet(1 .. k) /\ b \in SUBSET (1 .. k)
    BY <1>2, FS_Interval DEF Before
  <2> QED
    BY <2>1, FS_Subset, FS_CardinalityType
<1>5. k + 1 \notin b /\ b \subseteq c /\ c = IF OfFamily(p, inet6) THEN b \cup {k + 1} ELSE b
  BY <1>2, <1>3 DEF Before
<1>6. Cardinality(c) = IF OfFamily(p, inet6) THEN Cardinality(b) + 1 ELSE Cardinality(b)
  BY <1>4, <1>5, FS_AddElement
<1>7. MaxValues \in Nat /\ l = AtMost(Cardinality(b), MaxValues)
  BY <1>1, <1>2, DhtPeersAssumption DEF TakenInv
<1>8. \A i \in 1 .. l : \E j \in b : list[i] = around[j]
  BY <1>1, <1>2 DEF TakenInv
<1>9. CASE l < MaxValues /\ OfFamily(p, inet6)
  <2>1. PICK r : r = Append(list, p)
    OBVIOUS
  <2>2. /\ r \in Seq(PeerEntries) /\ Len(r) = l + 1 /\ r[l + 1] = p
        /\ \A i \in 1 .. l : r[i] = list[i]
    BY <1>1, <1>3, <2>1
  <2>3. Taken(list, around[k + 1], inet6) = r
    BY <1>1, <1>3, <1>9, <2>1 DEF Taken
  <2>4. \A i \in 1 .. l + 1 : i \in 1 .. l \/ i = l + 1
    OBVIOUS
  <2>5. \A i \in 1 .. l : r[i].peer # p.peer
    <3> SUFFICES ASSUME NEW i \in 1 .. l, r[i].peer = p.peer PROVE FALSE
      OBVIOUS
    <3>1. PICK j \in b : list[i] = around[j]
      BY <1>8
    <3>2. j \in 1 .. k /\ j \in 1 .. n /\ k + 1 \in 1 .. n
      BY <1>1, <1>2, <3>1 DEF Before
    <3>3. around[j].peer = around[k + 1].peer
      BY <1>3, <2>2, <3>1
    <3>4. j = k + 1
      BY <1>1, <3>2, <3>3 DEF Once
    <3> QED
      BY <3>2, <3>4
  <2>6. Once(r)
    <3>1. \A i, j \in 1 .. l : list[i].peer = list[j].peer => i = j
      BY <1>1 DEF TakenInv, Once
    <3> SUFFICES ASSUME NEW i \in 1 .. l + 1, NEW j \in 1 .. l + 1, r[i].peer = r[j].peer PROVE i = j
      BY <2>2 DEF Once
    <3> QED
      BY <2>2, <2>4, <2>5, <3>1
  <2>7. \A i \in 1 .. l + 1 : \E j \in c : r[i] = around[j]
    <3> SUFFICES ASSUME NEW i \in 1 .. l + 1 PROVE \E j \in c : r[i] = around[j]
      OBVIOUS
    <3>1. CASE i = l + 1
      <4>1. k + 1 \in c /\ r[i] = around[k + 1]
        BY <1>3, <1>5, <1>9, <2>2, <3>1
      <4> QED
        BY <4>1
    <3>2. CASE i \in 1 .. l
      BY <1>5, <1>8, <2>2, <3>2
    <3> QED
      BY <2>4, <3>1, <3>2
  <2>8. l + 1 = AtMost(Cardinality(c), MaxValues)
    BY <1>4, <1>6, <1>7, <1>9 DEF AtMost
  <2> QED
    BY <1>2, <2>2, <2>3, <2>6, <2>7, <2>8 DEF TakenInv
<1>10. CASE ~(l < MaxValues /\ OfFamily(p, inet6))
  <2>1. Taken(list, around[k + 1], inet6) = list
    BY <1>1, <1>3, <1>10 DEF Taken
  <2>2. l = AtMost(Cardinality(c), MaxValues)
    BY <1>1, <1>4, <1>6, <1>7, <1>10 DEF AtMost
  <2>3. \A i \in 1 .. l : \E j \in c : list[i] = around[j]
    BY <1>5, <1>8
  <2>4. Once(list)
    BY DEF TakenInv
  <2> QED
    BY <1>1, <1>2, <2>1, <2>2, <2>3, <2>4 DEF TakenInv
<1> QED
  BY <1>9, <1>10

\* The answer holds all peers of the family, or as many of them as fit.
LEMMA ValuesTaken ==
  ASSUME NEW peers \in Seq(PeerEntries), Once(peers), NEW j0 \in 1 .. Len(peers), NEW inet6
  PROVE  TakenInv(Values(peers, inet6, j0), Around(peers, j0), inet6, Len(peers))
<1>1. PICK n \in Nat : n = Len(peers)
  OBVIOUS
<1>2. PICK around : around = Around(peers, j0)
  OBVIOUS
<1>3. around \in Seq(PeerEntries) /\ Once(around) /\ Len(around) = n
  BY <1>1, <1>2, AroundPeers
<1>4. PICK f : IsTakenRun(f, around, inet6, n) /\ Values(peers, inet6, j0) = f[n]
  BY <1>2, <1>3, ValuesIsRun
<1>5. f[0] = <<>> /\ \A k \in 0 .. n : k < n => f[k + 1] = Taken(f[k], around[k + 1], inet6)
  <2>1. \A k \in 0 .. n : k < n => k + 1 \in 0 .. n /\ k + 1 # 0 /\ (k + 1) - 1 = k
    OBVIOUS
  <2> QED
    BY <1>4, <2>1 DEF IsTakenRun
<1> DEFINE good == {k \in 0 .. n : TakenInv(f[k], around, inet6, k)}
<1>6. 0 \in good
  <2>1. Before(around, inet6, 0) = {} /\ Cardinality({}) = 0
    BY FS_EmptySet DEF Before
  <2>2. AtMost(0, MaxValues) = 0 /\ Len(<<>>) = 0
    BY DhtPeersAssumption DEF AtMost
  <2>3. PICK none : none = <<>>
    OBVIOUS
  <2>4. none \in Seq(PeerEntries) /\ Len(none) = 0 /\ 1 .. Len(none) = {}
    BY <2>3
  <2>5. Once(none)
    BY <2>4 DEF Once
  <2>6. Len(none) = AtMost(Cardinality(Before(around, inet6, 0)), MaxValues)
    BY <2>1, <2>2, <2>4
  <2>7. TakenInv(none, around, inet6, 0)
    BY <2>4, <2>5, <2>6 DEF TakenInv
  <2> QED
    BY <1>5, <2>3, <2>7
<1>7. ASSUME NEW k \in good, k < n PROVE k + 1 \in good
  <2>1. k + 1 \in 0 .. n /\ f[k + 1] = Taken(f[k], around[k + 1], inet6)
    BY <1>5, <1>7
  <2>2. TakenInv(Taken(f[k], around[k + 1], inet6), around, inet6, k + 1)
    BY <1>3, <1>7, TakenKeepsInv
  <2> QED
    BY <2>1, <2>2
<1>8. good \in SUBSET (0 .. n) /\ \A k \in good : k < n => k + 1 \in good
  BY <1>7
<1>9. n \in good
  <2> HIDE DEF good
  <2>1. good = 0 .. n
    BY <1>6, <1>8, StepInduction
  <2> QED
    BY <2>1
<1>10. TakenInv(f[n], around, inet6, n)
  BY <1>9
<1> QED
  BY <1>1, <1>2, <1>4, <1>10

\* As many peers of the family are in the array as are met around it.
LEMMA FamilyAround ==
  ASSUME NEW peers \in Seq(PeerEntries), Once(peers), NEW j0 \in 1 .. Len(peers), NEW inet6
  PROVE  Cardinality({p.peer : p \in {x \in Range(peers) : OfFamily(x, inet6)}})
           = Cardinality(Before(Around(peers, j0), inet6, Len(peers)))
<1>1. PICK n \in Nat : n = Len(peers)
  OBVIOUS
<1>2. PICK r : r = Around(peers, j0)
  OBVIOUS
<1>3. /\ r \in Seq(PeerEntries) /\ Once(r) /\ Len(r) = n
      /\ \A i \in 1 .. n : \E j \in 1 .. n : r[i] = peers[j]
      /\ \A j \in 1 .. n : \E i \in 1 .. n : r[i] = peers[j]
  BY <1>1, <1>2, AroundPeers
<1> DEFINE B == Before(r, inet6, n)
<1> DEFINE F == {x \in Range(peers) : OfFamily(x, inet6)}
<1> DEFINE P == {x.peer : x \in F}
<1> DEFINE f == [j \in B |-> r[j].peer]
<1>4. \A j \in B : f[j] \in P
  <2> SUFFICES ASSUME NEW j \in B PROVE r[j] \in F
    OBVIOUS
  <2>1. j \in 1 .. n /\ OfFamily(r[j], inet6)
    BY DEF Before
  <2>2. r[j] \in Range(peers)
    <3>1. PICK i \in 1 .. n : r[j] = peers[i]
      BY <1>3, <2>1
    <3> QED
      BY <1>1, <3>1 DEF Range
  <2> QED
    BY <2>1, <2>2
<1>5. \A p \in P : \E j \in B : f[j] = p
  <2> SUFFICES ASSUME NEW x \in F PROVE \E j \in B : r[j] = x
    OBVIOUS
  <2>1. PICK i \in 1 .. n : x = peers[i]
    BY <1>1 DEF Range
  <2>2. PICK j \in 1 .. n : r[j] = x
    BY <1>3, <2>1
  <2>3. j \in B
    BY <2>2 DEF Before
  <2> QED
    BY <2>2, <2>3
<1>6. \A i, j \in B : f[i] = f[j] => i = j
  BY <1>3 DEF Once, Before
<1>7. f \in Bijection(B, P)
  <2>1. f \in [B -> P]
    BY <1>4
  <2> QED
    BY <1>5, <1>6, <2>1 DEF Bijection, Injection, Surjection, IsInjective
<1>8. IsFiniteSet(B)
  <2>1. IsFiniteSet(1 .. n) /\ B \in SUBSET (1 .. n)
    BY FS_Interval DEF Before
  <2> QED
    BY <2>1, FS_Subset
<1>9. ExistsBijection(B, P)
  BY <1>7 DEF ExistsBijection
<1>10. Cardinality(P) = Cardinality(B)
  <2> HIDE DEF B, P, f
  <2> QED
    BY <1>8, <1>9, FS_Bijection
<1> QED
  BY <1>1, <1>2, <1>10

\* An answer to get_peers lists every peer of the family once, up to as many as
\* fit, wherever it begins (send_nodes_peers).
THEOREM ValuesAlwaysComplete == Spec => []ValuesComplete
<1>1. PeersIInv => ValuesComplete
  <2> SUFFICES ASSUME PeersIInv, NEW h \in DOMAIN storage, NEW inet6 \in BOOLEAN,
                      NEW j0 \in DOMAIN storage[h].peers,
                      NEW list, list = Values(storage[h].peers, inet6, j0)
               PROVE  /\ IsInjective(list)
                      /\ Range(list) \subseteq {p \in Range(storage[h].peers) : OfFamily(p, inet6)}
                      /\ Len(list) = AtMost(Cardinality({p.peer : p \in
                              {p \in Range(storage[h].peers) : OfFamily(p, inet6)}}), MaxValues)
    BY DEF ValuesComplete
  <2>1. EntryOK(storage[h])
    BY DEF PeersIInv, StorageOK
  <2>2. PICK peers \in Seq(PeerEntries) : peers = storage[h].peers /\ Once(peers)
    BY <2>1, EntryPeers
  <2>3. PICK n \in Nat : n = Len(peers)
    OBVIOUS
  <2>4. j0 \in 1 .. Len(peers)
    BY <2>2
  <2>5. PICK around : around = Around(peers, j0)
    OBVIOUS
  <2>6. TakenInv(list, around, inet6, n)
    BY <2>2, <2>3, <2>4, <2>5, ValuesTaken
  <2>7. IsInjective(list)
    BY <2>6 DEF TakenInv, Once, IsInjective
  <2>8. \A i \in 1 .. n : \E j \in 1 .. n : around[i] = peers[j]
    <3>1. \A i \in 1 .. Len(peers) : \E j \in 1 .. Len(peers) : Around(peers, j0)[i] = peers[j]
      BY <2>2, <2>4, AroundPeers
    <3> QED
      BY <2>3, <2>5, <3>1
  <2>9. ASSUME NEW x \in Range(list) PROVE x \in Range(peers) /\ OfFamily(x, inet6)
    <3>1. PICK i \in 1 .. Len(list) : x = list[i]
      BY <2>6, <2>9 DEF Range, TakenInv
    <3>2. PICK j \in Before(around, inet6, n) : x = around[j]
      BY <2>6, <3>1 DEF TakenInv
    <3>3. j \in 1 .. n /\ OfFamily(x, inet6)
      BY <3>2 DEF Before
    <3>4. PICK a \in 1 .. n : x = peers[a]
      BY <2>8, <3>2, <3>3
    <3> QED
      BY <2>3, <3>3, <3>4 DEF Range
  <2>10. Len(list) = AtMost(Cardinality({p.peer : p \in {x \in Range(peers) : OfFamily(x, inet6)}}), MaxValues)
    BY <2>2, <2>3, <2>4, <2>5, <2>6, FamilyAround DEF TakenInv
  <2> QED
    BY <2>2, <2>7, <2>9, <2>10
<1> QED
  BY <1>1, PeersInit, PeersNext, PTL DEF Spec
=============================================================================
