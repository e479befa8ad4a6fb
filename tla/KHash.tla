-------------------------------- MODULE KHash --------------------------------
(***************************************************************************)
(* The hash map of src/src/include/khash.h as the program uses it: keys    *)
(* are put and looked up, never deleted, so a bucket is empty or live.     *)
(* Open addressing with triangular steps in a table whose size is a power  *)
(* of two; a table that is full beyond 77 % is rehashed in place.          *)
(***************************************************************************)
EXTENDS Naturals, FiniteSets, FiniteSetsExt

CONSTANT Unset  \* what memory holds that nothing was written to

\* kh_init: no buckets yet.
EmptyTable == [n |-> 0, size |-> 0, occupied |-> 0, upper |-> 0,
               live |-> <<>>, key |-> <<>>, val |-> <<>>]

\* Keys and values when the arrays are enlarged.
Grown(f, n, zero) == [i \in 0 .. n - 1 |-> IF i \in DOMAIN f THEN f[i] ELSE zero]
UpperBound(n) == (77 * n + 50) \div 100

\* kh_int64_hash_func, of which only the low bits are used: for keys below
\* 2^11 these are the key's.
Hash(key) == key

\* The bucket looked at after t steps.
Probe(key, t, n) == (Hash(key) + (t * (t + 1)) \div 2) % n
\* The steps before the search is back where it began.
Steps(n) == 0 .. 2 * n - 2

\* kh_get: the bucket of the key, or n when it is not there.
Get(h, key) ==
  LET stops == {t \in Steps(h.n) : LET i == Probe(key, t, h.n)
                                   IN  ~h.live[i] \/ h.key[i] = key}
      i == Probe(key, Min(stops), h.n)
  IN  IF h.n = 0 THEN 0
      ELSE IF stops # {} /\ h.live[i] THEN i ELSE h.n

\* The rehashing of kh_resize.  A key taken from the old table goes to the
\* first free bucket of its search in the new one; a key of the old table that
\* is still there is kicked out and goes next.
\* Mutant: it is overwritten.
RECURSIVE Settle(_, _, _, _)
MutantNotKickedOut(s, i) == FALSE
KickedOut(s, i) == i \in DOMAIN s.old /\ s.old[i]
\* The value it takes along, its own.  Mutant: the values are not swapped.
MutantValueLeft(s, i, val) == val
KickedValue(s, i, val) == s.val[i]
Settle(s, key, val, n) ==
  LET free == {t \in Steps(n) : ~s.new[Probe(key, t, n)]}
      i == Probe(key, Min(free), n)
      placed == [s EXCEPT !.new[i] = TRUE, !.key[i] = key, !.val[i] = val]
  IN  IF KickedOut(s, i)
      THEN Settle([placed EXCEPT !.old[i] = FALSE], s.key[i], KickedValue(s, i, val), n)
      ELSE placed

RECURSIVE Rehash(_, _, _)
Rehash(s, j, n) ==
  IF j \notin DOMAIN s.old THEN s
  ELSE Rehash(IF s.old[j] THEN Settle([s EXCEPT !.old[j] = FALSE], s.key[j], s.val[j], n) ELSE s,
              j + 1, n)

\* kh_resize to a larger table (allocation does not fail).
Resize(h, wanted) ==
  LET n == Min({p \in {4, 8, 16, 32} : p >= wanted})
      s == Rehash([key |-> Grown(h.key, n, Unset), val |-> Grown(h.val, n, Unset),
                   old |-> h.live, new |-> [i \in 0 .. n - 1 |-> FALSE]], 0, n)
  IN  [n |-> n, size |-> h.size, occupied |-> h.size, upper |-> UpperBound(n),
       live |-> s.new, key |-> s.key, val |-> s.val]

\* When kh_put rehashes first.  Mutant: one key too late.
MutantFullLate(h) == h.n = 0 \/ h.occupied > h.upper
Full(h) == h.occupied >= h.upper

\* A new key in an empty bucket.  Mutant: the key is not stored.
MutantKeyNotStored(g, x, key) == [g EXCEPT !.live[x] = TRUE, !.size = @ + 1, !.occupied = @ + 1]
Occupy(g, x, key) ==
  [g EXCEPT !.live[x] = TRUE, !.key[x] = key, !.size = @ + 1, !.occupied = @ + 1]

\* kh_put: the table, the bucket, and 0 when the key was there, 1 when not.
Put(h, key) ==
  LET g == IF Full(h) THEN Resize(h, h.n + 1) ELSE h
      stops == {t \in Steps(g.n) : LET i == Probe(key, t, g.n)
                                   IN  ~g.live[i] \/ g.key[i] = key}
      x == Probe(key, Min(stops), g.n)
  IN  IF g.live[x] THEN [table |-> g, x |-> x, ret |-> 0]
      ELSE [table |-> Occupy(g, x, key), x |-> x, ret |-> 1]
=============================================================================
