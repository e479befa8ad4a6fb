--------------------------- MODULE ControllerProofs ---------------------------
(***************************************************************************)
(* What holds of the controller however many threads post to it: its types *)
(* however their requests overlap, and, as long as they do not, that what  *)
(* was answered stays readable, that blocks fill one after the other and   *)
(* that no id is answered twice.                                           *)
(***************************************************************************)
EXTENDS Controller, FiniteSetTheorems, TLAPS

\* A thread at work knows its block and its payload, and appends through a
\* handle of the heap.
InCall ==
  \A t \in Threads :
    /\ thread[t].pc # "idle" => thread[t].block_id \in BlockIds /\ thread[t].payload \in Payloads
    /\ Appending(t) => thread[t].handle \in Handles

\* An open handle has a block, and its count holds one for every thread that
\* has counted its record in it and may still take it back.
OpenHandles == \A h \in Handles : heap[h].open => heap[h].of \in BlockIds
Counting(h) == {t \in Threads : thread[t].pc \in {"entry", "header"} /\ thread[t].handle = h}
CountsHold == \A h \in Handles : heap[h].open => Cardinality(Counting(h)) <= heap[h].count

TypeInv == TypeOK /\ InCall /\ OpenHandles /\ CountsHold

USE DEF At, Goto, NULL

-----------------------------------------------------------------------------
(* The cells of an index.                                                  *)

\* A whole entry, or a part of one, at the end.
LEMMA AddedCells ==
  ASSUME NEW s \in Seq(Cells), NEW p \in Payloads
  PROVE  /\ s \o Entry(p) \in Seq(Cells) /\ Len(s \o Entry(p)) = Len(s) + 2
         /\ (s \o Entry(p))[Len(s) + 2] = p
         /\ \A i \in 1 .. Len(s) : (s \o Entry(p))[i] = s[i]
<1>1. Entry(p) \in Seq(Cells) /\ Len(Entry(p)) = 2 /\ Entry(p)[2] = p
  BY DEF Entry, Cells
<1>2. PICK e \in Seq(Cells) : e = Entry(p)
  BY <1>1
<1>3. Len(s) \in Nat /\ Len(e) = 2 /\ e[2] = p
  BY <1>1, <1>2
<1>4. s \o e \in Seq(Cells) /\ Len(s \o e) = Len(s) + 2
  <2>1. s \o e \in Seq(Cells) /\ Len(s \o e) = Len(s) + Len(e)
    OBVIOUS
  <2> QED
    BY <1>3, <2>1
<1>5. (s \o e)[Len(s) + 2] = e[2]
  BY <1>3
<1>6. \A i \in 1 .. Len(s) : (s \o e)[i] = s[i]
  BY <1>3
<1> QED
  BY <1>2, <1>3, <1>4, <1>5, <1>6

LEMMA TornCells ==
  ASSUME NEW s \in Seq(Cells), NEW cells \in {<<>>, <<Stamp>>}
  PROVE  /\ s \o cells \in Seq(Cells) /\ Len(s \o cells) >= Len(s)
         /\ \A i \in 1 .. Len(s) : (s \o cells)[i] = s[i]
<1>1. <<>> \in Seq(Cells) /\ <<Stamp>> \in Seq(Cells)
  BY DEF Cells
<1>2. PICK e \in Seq(Cells) : e = cells
  BY <1>1
<1>3. Len(e) \in Nat /\ Len(s) \in Nat
  OBVIOUS
<1>4. s \o e \in Seq(Cells) /\ Len(s \o e) = Len(s) + Len(e)
  BY <1>3
<1>5. \A i \in 1 .. Len(s) : (s \o e)[i] = s[i]
  BY <1>3
<1> QED
  BY <1>2, <1>3, <1>4, <1>5

\* What a file of another length keeps.
LEMMA ResizedCells ==
  ASSUME NEW s \in Seq(Cells), NEW n \in Nat
  PROVE  /\ Resized(s, n) \in Seq(Cells) /\ Len(Resized(s, n)) = n
         /\ \A i \in 1 .. n : i <= Len(s) => Resized(s, n)[i] = s[i]
<1>1. \A i \in 1 .. n : (IF i <= Len(s) THEN s[i] ELSE Hole) \in Cells
  BY DEF Cells
<1> QED
  BY <1>1 DEF Resized

-----------------------------------------------------------------------------
(* Types.                                                                  *)

\* There is a handle for sea_block_open to return: those in use are one per
\* thread and the controller's.
LEMMA HandleFree ==
  ASSUME TypeOK
  PROVE  /\ FreeHandle \in Handles
         /\ FreeHandle # block
         /\ \A t \in Threads : thread[t].handle # FreeHandle
<1> DEFINE f == [t \in Threads |-> thread[t].handle]
           Held == {f[t] : t \in Threads}
           Used == Held \cup {block}
           n == Cardinality(Threads)
<1>1. n \in Nat
  BY ThreadsAssumption, FS_CardinalityType
<1>2. IsFiniteSet(Held) /\ Cardinality(Held) <= n
  <2>1. f \in Surjection(Threads, Held)
    BY DEF Surjection
  <2> QED
    BY <2>1, ThreadsAssumption, FS_Surjection
<1>3. IsFiniteSet(Used) /\ Cardinality(Used) <= n + 1
  <2>1. Cardinality(Held) \in Nat
    BY <1>2, FS_CardinalityType
  <2>2. IsFiniteSet(Used)
    BY <1>2, FS_AddElement
  <2>3. Cardinality(Used) = IF block \in Held THEN Cardinality(Held) ELSE Cardinality(Held) + 1
    BY <1>2, FS_AddElement
  <2> QED
    BY <1>1, <1>2, <2>1, <2>2, <2>3
<1>4. IsFiniteSet(Handles) /\ Cardinality(Handles) = n + 2
  <2>1. 1 \in Int /\ n + 2 \in Int /\ ~(1 > n + 2)
    BY <1>1
  <2> QED
    BY <1>1, <2>1, FS_Interval DEF Handles
<1>5. ~(Handles \subseteq Used)
  <2> SUFFICES ASSUME Handles \in SUBSET Used PROVE FALSE
    OBVIOUS
  <2>1. Cardinality(Handles) <= Cardinality(Used)
    BY <1>3, FS_Subset
  <2>2. Cardinality(Used) \in Nat
    BY <1>3, FS_CardinalityType
  <2> QED
    BY <1>1, <1>3, <1>4, <2>1, <2>2
<1>6. PICK h \in Handles : h \notin Used
  BY <1>5
<1>7. h # block /\ \A t \in Threads : thread[t].handle # h
  BY <1>6
<1> QED
  BY <1>7 DEF FreeHandle

\* One thread's locals change.
LEMMA OneThread ==
  ASSUME TypeOK, NEW t \in Threads, NEW l \in Local, thread' = [thread EXCEPT ![t] = l]
  PROVE  /\ thread' \in [Threads -> Local]
         /\ thread'[t] = l
         /\ \A u \in Threads \ {t} : thread'[u] = thread[u]
BY DEF TypeOK

\* The threads that have counted are as many as there are.
LEMMA CountingFinite ==
  ASSUME NEW h
  PROVE  IsFiniteSet(Counting(h)) /\ Cardinality(Counting(h)) \in Nat
<1>1. Counting(h) \in SUBSET Threads
  BY DEF Counting
<1>2. IsFiniteSet(Counting(h))
  BY <1>1, ThreadsAssumption, FS_Subset
<1> QED
  BY <1>2, FS_CardinalityType

\* A thread leaves, and what handles count stays, or grows; a handle that is
\* opened had no thread.
LEMMA CountingKept ==
  ASSUME TypeInv, NEW t \in Threads, \A u \in Threads \ {t} : thread'[u] = thread[u],
         thread'[t].pc \notin {"entry", "header"},
         \A h \in Handles :
           /\ heap'[h].count \in Nat
           /\ heap'[h].open => \/ heap[h].open /\ heap[h].count <= heap'[h].count
                              \/ \A u \in Threads : thread[u].handle # h
  PROVE  CountsHold'
<1> SUFFICES ASSUME NEW h \in Handles, heap'[h].open
             PROVE  Cardinality(Counting(h)') <= heap'[h].count
  BY DEF CountsHold
<1>1. Counting(h)' \in SUBSET Counting(h)
  BY DEF Counting
<1>2. IsFiniteSet(Counting(h)) /\ Cardinality(Counting(h)) \in Nat
  BY CountingFinite
<1>3. PICK n \in Nat : n = Cardinality(Counting(h)')
  <2>1. IsFiniteSet(Counting(h)')
    BY <1>1, <1>2, FS_Subset
  <2> QED
    BY <2>1, FS_CardinalityType
<1>4. n <= Cardinality(Counting(h))
  BY <1>1, <1>2, <1>3, FS_Subset
<1>5. heap[h].count \in Nat /\ heap'[h].count \in Nat
  BY DEF TypeInv, TypeOK, Handle
<1>6. CASE heap[h].open /\ heap[h].count <= heap'[h].count
  <2>1. Cardinality(Counting(h)) <= heap[h].count
    BY <1>6 DEF TypeInv, CountsHold
  <2> QED
    BY <1>2, <1>3, <1>4, <1>5, <1>6, <2>1
<1>7. CASE \A u \in Threads : thread[u].handle # h
  <2>1. Counting(h) = {}
    BY <1>7 DEF Counting
  <2>2. Cardinality(Counting(h)) = 0
    BY <2>1, FS_EmptySet
  <2> QED
    BY <1>3, <1>4, <1>5, <2>2
<1> QED
  BY <1>6, <1>7

\* controller->block is NULL, or a new handle with the header that is on disk.
LEMMA OpenBlockType ==
  ASSUME TypeInv, NEW b \in BlockIds, OpenBlock(b), NEW t \in Threads,
         \A u \in Threads \ {t} : thread'[u] = thread[u], thread'[t].pc \notin {"entry", "header"}
  PROVE  /\ block' \in {NULL} \cup Handles /\ heap' \in [Handles -> Handle]
         /\ OpenHandles' /\ CountsHold'
<1>1. FreeHandle \in Handles /\ \A u \in Threads : thread[u].handle # FreeHandle
  BY HandleFree DEF TypeInv
<1>2. disk[b].count \in Nat /\ heap \in [Handles -> Handle] /\ block \in {NULL} \cup Handles
  BY DEF TypeInv, TypeOK, Block
<1>3. PICK new \in Handle : new = [open |-> TRUE, of |-> b, count |-> disk[b].count]
  BY <1>2 DEF Handle
<1>4. block' \in {NULL, FreeHandle} /\ (heap' = heap \/ heap' = [heap EXCEPT ![FreeHandle] = new])
  BY <1>3 DEF OpenBlock, CachedCount
<1>5. block' \in {NULL} \cup Handles /\ heap' \in [Handles -> Handle]
  BY <1>1, <1>2, <1>3, <1>4
<1>6. \A h \in Handles \ {FreeHandle} : heap'[h] = heap[h]
  BY <1>1, <1>2, <1>4
<1>7. heap'[FreeHandle] = heap[FreeHandle] \/ heap'[FreeHandle] = new
  BY <1>1, <1>2, <1>4
<1>8. OpenHandles'
  BY <1>3, <1>6, <1>7 DEF TypeInv, OpenHandles
<1>9. \A h \in Handles : heap[h].count \in Nat /\ heap'[h].count \in Nat
  BY <1>2, <1>5 DEF Handle
<1>10. \A h \in Handles : heap[h].count <= heap[h].count
  BY <1>9
<1>11. CountsHold'
  BY <1>1, <1>6, <1>9, <1>10, CountingKept
<1> QED
  BY <1>5, <1>8, <1>11

\* A thread goes on with other locals.
LEMMA GoesOn ==
  ASSUME TypeInv, NEW t \in Threads, NEW l \in Local, thread' = [thread EXCEPT ![t] = l],
         l.pc # "idle" => l.block_id \in BlockIds /\ l.payload \in Payloads,
         l.pc \in {"append", "count", "entry", "header"} => l.handle \in Handles
  PROVE  /\ thread' \in [Threads -> Local] /\ InCall'
         /\ \A u \in Threads \ {t} : thread'[u] = thread[u]
<1>1. thread' \in [Threads -> Local] /\ thread'[t] = l
      /\ \A u \in Threads \ {t} : thread'[u] = thread[u]
  BY OneThread DEF TypeInv
<1>2. InCall
  BY DEF TypeInv
<1> QED
  BY <1>1, <1>2 DEF InCall, Appending

\* A thread goes to another place in the call and keeps the rest of its locals.
LEMMA GoesTo ==
  ASSUME TypeInv, NEW t \in Threads, thread[t].pc # "idle",
         NEW pc \in {"open", "recheck", "load", "create", "reopen", "count", "header", "expire",
                     "close", "clear", "forward"},
         pc \in {"count", "header"} => Appending(t),
         Goto(t, pc)
  PROVE  /\ thread' \in [Threads -> Local] /\ InCall'
         /\ \A u \in Threads \ {t} : thread'[u] = thread[u]
         /\ thread'[t] = [thread[t] EXCEPT !.pc = pc] /\ thread'[t].pc = pc
<1> DEFINE l == [thread[t] EXCEPT !.pc = pc]
<1>1. thread[t] \in Local
  BY DEF TypeInv, TypeOK
<1>2. /\ l \in Local /\ l.pc = pc /\ l.block_id = thread[t].block_id
      /\ l.payload = thread[t].payload /\ l.handle = thread[t].handle
  BY <1>1 DEF Local
<1>3. thread' = [thread EXCEPT ![t] = l]
  OBVIOUS
<1>4. thread[t].block_id \in BlockIds /\ thread[t].payload \in Payloads
      /\ (Appending(t) => thread[t].handle \in Handles)
  BY DEF TypeInv, InCall
<1>5. thread'[t] = l
  BY <1>3 DEF TypeInv, TypeOK
<1> HIDE DEF l
<1>6. l.pc \in {"append", "count", "entry", "header"} => l.handle \in Handles
  BY <1>2, <1>4
<1>7. thread' \in [Threads -> Local] /\ InCall' /\ \A u \in Threads \ {t} : thread'[u] = thread[u]
  BY <1>2, <1>3, <1>4, <1>6, GoesOn
<1>8. thread'[t].pc = pc
  BY <1>2, <1>5
<1> QED
  BY <1>5, <1>7, <1>8 DEF l

\* An answered thread is idle again.
LEMMA AnswerInv ==
  ASSUME TypeInv, NEW t \in Threads, thread[t].pc # "idle", Answer(t)
  PROVE  /\ thread' \in [Threads -> Local] /\ InCall'
         /\ \A u \in Threads \ {t} : thread'[u] = thread[u]
         /\ thread'[t] = Idle /\ thread'[t].pc = "idle"
         /\ \A r \in DOMAIN posted' : r \in BlockIds \X Nat /\ posted'[r] \in Payloads
<1> DEFINE a == <<thread[t].block_id, thread[t].record_id>>
<1>1. Idle \in Local /\ Idle.pc = "idle"
  BY DEF Idle, Local
<1>2. a \in BlockIds \X Nat /\ thread[t].payload \in Payloads
  BY DEF TypeInv, TypeOK, InCall, Local
<1>3. \A r \in DOMAIN posted : r \in BlockIds \X Nat /\ posted[r] \in Payloads
  BY DEF TypeInv, TypeOK
<1>4. DOMAIN posted' = DOMAIN posted \cup {a}
      /\ \A r \in DOMAIN posted' : posted'[r] = IF r = a THEN thread[t].payload ELSE posted[r]
  BY DEF Answer
<1>5. thread' = [thread EXCEPT ![t] = Idle]
  BY DEF Answer
<1> HIDE DEF a
<1>6. \A r \in DOMAIN posted' : r \in BlockIds \X Nat /\ posted'[r] \in Payloads
  BY <1>2, <1>3, <1>4
<1>7. thread' \in [Threads -> Local] /\ InCall' /\ \A u \in Threads \ {t} : thread'[u] = thread[u]
  BY <1>1, <1>5, GoesOn
<1>8. thread'[t] = Idle
  BY <1>5 DEF TypeInv, TypeOK
<1> QED
  BY <1>1, <1>6, <1>7, <1>8

\* Steps of a thread that only go to another place in the call.
Moves(t) ==
  \/ CheckBlock(t) \/ RecheckBlock(t) \/ AppendFails(t) \/ WriteData(t)

LEMMA MovesType ==
  ASSUME TypeInv, NEW t \in Threads, Moves(t)
  PROVE  /\ thread[t].pc # "idle"
         /\ \E pc \in {"open", "load", "create", "reopen", "count", "forward"} :
              Goto(t, pc) /\ (pc = "count" => Appending(t))
         /\ UNCHANGED <<disk, block_id, block, heap, posted, serial, damaged, posts, restarts>>
<1>1. CASE CheckBlock(t)
  BY <1>1 DEF CheckBlock
<1>2. CASE RecheckBlock(t)
  BY <1>2 DEF RecheckBlock
<1>3. CASE AppendFails(t)
  BY <1>3 DEF AppendFails, Appending
<1>4. CASE WriteData(t)
  BY <1>4 DEF WriteData, Appending
<1> QED
  BY <1>1, <1>2, <1>3, <1>4 DEF Moves

\* What handles count stays where it is.
LEMMA SameHeap ==
  ASSUME TypeInv, NEW t \in Threads, \A u \in Threads \ {t} : thread'[u] = thread[u],
         thread'[t].pc \notin {"entry", "header"}, heap' = heap
  PROVE  OpenHandles' /\ CountsHold'
<1>1. \A h \in Handles : heap[h].count \in Nat /\ heap[h].count <= heap[h].count
  BY DEF TypeInv, TypeOK, Handle
<1>2. CountsHold'
  BY <1>1, CountingKept
<1> QED
  BY <1>2 DEF TypeInv, OpenHandles

\* The block of a live handle, and what it is marked with.
LEMMA TargetType ==
  ASSUME TypeInv, NEW t \in Threads, Appending(t), Live(thread[t].handle)
  PROVE  /\ thread[t].handle \in Handles /\ thread[t].payload \in Payloads
         /\ heap[thread[t].handle] \in Handle /\ heap[thread[t].handle].open
         /\ heap[thread[t].handle].count \in Nat
         /\ Target(t) \in BlockIds /\ Mark(t) \in BlockIds \X Nat
         /\ disk[Target(t)] \in Block
<1>1. thread[t].handle \in Handles /\ thread[t].payload \in Payloads /\ heap[thread[t].handle].open
  BY DEF TypeInv, InCall, Appending, Live
<1>2. heap[thread[t].handle] \in Handle /\ heap[thread[t].handle].count \in Nat
  BY <1>1 DEF TypeInv, TypeOK, Handle
<1>3. Target(t) \in BlockIds
  BY <1>1 DEF TypeInv, OpenHandles, Target
<1>4. disk[Target(t)] \in Block /\ disk[Target(t)].count \in Nat
  BY <1>3 DEF TypeInv, TypeOK, Block
<1> QED
  BY <1>1, <1>2, <1>3, <1>4 DEF Mark

\* A thread that has counted has its count in its handle.
LEMMA CountedOne ==
  ASSUME TypeInv, NEW t \in Threads, thread[t].pc \in {"entry", "header"}, Live(thread[t].handle)
  PROVE  /\ Cardinality(Counting(thread[t].handle)) >= 1
         /\ heap[thread[t].handle].count >= 1
<1> DEFINE h == thread[t].handle
<1>1. h \in Handles /\ heap[h].count \in Nat /\ heap[h].open
  BY TargetType DEF Appending
<1>2. t \in Counting(h)
  BY DEF Counting
<1>3. IsFiniteSet(Counting(h)) /\ Cardinality(Counting(h)) \in Nat
  BY CountingFinite
<1>4. Cardinality(Counting(h)) # 0
  BY <1>2, <1>3, FS_EmptySet
<1>5. Cardinality(Counting(h)) <= heap[h].count
  BY <1>1 DEF TypeInv, CountsHold
<1> QED
  BY <1>1, <1>3, <1>4, <1>5

\* One block of the disk changes.
LEMMA OneBlock ==
  ASSUME TypeInv, NEW b \in BlockIds, NEW new \in Block, disk' = [disk EXCEPT ![b] = new]
  PROVE  disk' \in [BlockIds -> Block] /\ disk'[b] = new /\ \A c \in BlockIds \ {b} : disk'[c] = disk[c]
BY DEF TypeInv, TypeOK

\* index->header.count ++
LEMMA CountUpInv ==
  ASSUME TypeInv, NEW t \in Threads, CountUp(t)
  PROVE  TypeInv'
<1> DEFINE h == thread[t].handle
           l == [thread[t] EXCEPT !.pc = "entry", !.record_id = heap[h].count]
<1>1. /\ thread[t].pc = "count" /\ Appending(t) /\ Live(h)
      /\ UNCHANGED <<disk, block_id, block, posted, serial, damaged, posts, restarts>>
  BY DEF CountUp, Appending
<1>2. h \in Handles /\ heap[h] \in Handle /\ heap[h].open /\ heap[h].count \in Nat
  BY <1>1, TargetType
<1>3. PICK new \in Handle : /\ new = [heap[h] EXCEPT !.count = @ + 1] /\ new.open
                            /\ new.of = heap[h].of /\ new.count = heap[h].count + 1
  <2>1. [heap[h] EXCEPT !.count = @ + 1] \in Handle
    BY <1>2 DEF Handle
  <2> QED
    BY <1>2, <2>1 DEF Handle
<1>4. heap' = [heap EXCEPT ![h] = new] /\ heap \in [Handles -> Handle]
  BY <1>3 DEF CountUp, TypeInv, TypeOK
<1>5. heap' \in [Handles -> Handle] /\ heap'[h] = new /\ \A g \in Handles \ {h} : heap'[g] = heap[g]
  BY <1>2, <1>4
<1>6. thread[t] \in Local /\ thread[t].block_id \in BlockIds /\ thread[t].payload \in Payloads
  BY <1>1 DEF TypeInv, TypeOK, InCall
<1>7. /\ l \in Local /\ l.pc = "entry" /\ l.block_id = thread[t].block_id
      /\ l.payload = thread[t].payload /\ l.handle = h
  BY <1>2, <1>6 DEF Local
<1>8. thread' = [thread EXCEPT ![t] = l]
  BY DEF CountUp
<1>9. /\ thread' \in [Threads -> Local] /\ InCall' /\ thread'[t] = l
      /\ \A u \in Threads \ {t} : thread'[u] = thread[u]
  <2> HIDE DEF l
  <2> QED
    BY <1>2, <1>6, <1>7, <1>8, GoesOn, OneThread DEF TypeInv
<1>10. OpenHandles'
  BY <1>2, <1>3, <1>5 DEF TypeInv, OpenHandles
<1>11. ASSUME NEW g \in Handles, heap'[g].open PROVE Cardinality(Counting(g)') <= heap'[g].count
  <2> HIDE DEF l
  <2>1. IsFiniteSet(Counting(g)) /\ Cardinality(Counting(g)) \in Nat
    BY CountingFinite
  <2>2. CASE g = h
    <3>1. Counting(g)' = Counting(g) \cup {t}
      BY <1>1, <1>7, <1>9, <2>2 DEF Counting
    <3>2. t \notin Counting(g)
      BY <1>1 DEF Counting
    <3>3. Cardinality(Counting(g)') = Cardinality(Counting(g)) + 1
      BY <2>1, <3>1, <3>2, FS_AddElement
    <3>4. Cardinality(Counting(g)) <= heap[g].count
      BY <1>2, <2>2 DEF TypeInv, CountsHold
    <3>5. heap'[g].count = heap[g].count + 1 /\ heap[g].count \in Nat
      BY <1>2, <1>3, <1>5, <2>2
    <3> HIDE DEF h
    <3> QED
      BY <2>1, <3>3, <3>4, <3>5
  <2>3. CASE g # h
    <3>1. Counting(g)' = Counting(g)
      BY <1>7, <1>9, <2>3 DEF Counting
    <3> QED
      BY <1>5, <1>11, <2>3, <3>1 DEF TypeInv, CountsHold
  <2> QED
    BY <2>2, <2>3
<1>12. TypeOK'
  BY <1>1, <1>5, <1>9 DEF TypeInv, TypeOK
<1> QED
  BY <1>9, <1>10, <1>11, <1>12 DEF TypeInv, CountsHold

\* The entry is written whole: the thread has still only counted.
LEMMA WriteEntryInv ==
  ASSUME TypeInv, NEW t \in Threads, WriteEntry(t)
  PROVE  TypeInv'
<1>1. /\ thread[t].pc = "entry" /\ Appending(t) /\ Live(thread[t].handle) /\ Goto(t, "header")
      /\ UNCHANGED <<block_id, block, heap, posted, serial, damaged, posts, restarts>>
  BY DEF WriteEntry, Appending
<1>2. Target(t) \in BlockIds /\ disk[Target(t)] \in Block /\ thread[t].payload \in Payloads
  BY <1>1, TargetType
<1>3. disk[Target(t)].index \in Seq(Cells)
  BY <1>2 DEF Block
<1>4. disk[Target(t)].index \o Entry(thread[t].payload) \in Seq(Cells)
  BY <1>2, <1>3, AddedCells
<1>5. [disk[Target(t)] EXCEPT !.index = @ \o Entry(thread[t].payload)] \in Block
  BY <1>2, <1>4 DEF Block
<1>6. disk' \in [BlockIds -> Block]
  BY <1>2, <1>5, OneBlock DEF WriteEntry
<1>7. /\ thread' \in [Threads -> Local] /\ InCall'
      /\ \A u \in Threads \ {t} : thread'[u] = thread[u]
      /\ thread'[t] = [thread[t] EXCEPT !.pc = "header"]
  BY <1>1, GoesTo
<1>8. thread'[t].pc = "header" /\ thread'[t].handle = thread[t].handle
  BY <1>7 DEF TypeInv, TypeOK, Local
<1>9. \A h \in Handles : Counting(h)' = Counting(h)
  BY <1>1, <1>7, <1>8 DEF Counting
<1>10. CountsHold' /\ OpenHandles'
  BY <1>1, <1>9 DEF TypeInv, CountsHold, OpenHandles
<1>11. TypeOK'
  BY <1>1, <1>6, <1>7 DEF TypeInv, TypeOK
<1> QED
  BY <1>7, <1>10, <1>11 DEF TypeInv

LEMMA ShortEntryInv ==
  ASSUME TypeInv, NEW t \in Threads, ShortEntry(t)
  PROVE  TypeInv'
<1>1. /\ thread[t].pc = "entry" /\ Appending(t) /\ Live(thread[t].handle) /\ Goto(t, "forward")
      /\ damaged' = damaged \cup {Mark(t)}
      /\ UNCHANGED <<block_id, block, heap, posted, serial, posts, restarts>>
  BY DEF ShortEntry, Appending
<1>2. PICK cells \in {<<>>, <<Stamp>>} : disk' = [disk EXCEPT ![Target(t)].index = @ \o cells]
  BY DEF ShortEntry
<1>3. Target(t) \in BlockIds /\ disk[Target(t)] \in Block /\ Mark(t) \in BlockIds \X Nat
  BY <1>1, TargetType
<1>4. disk[Target(t)].index \o cells \in Seq(Cells)
  BY <1>3, TornCells DEF Block
<1>5. [disk[Target(t)] EXCEPT !.index = @ \o cells] \in Block
  BY <1>3, <1>4 DEF Block
<1>6. disk' \in [BlockIds -> Block]
  BY <1>2, <1>3, <1>5, OneBlock
<1>7. /\ thread' \in [Threads -> Local] /\ InCall' /\ thread'[t].pc = "forward"
      /\ \A u \in Threads \ {t} : thread'[u] = thread[u]
  BY <1>1, GoesTo
<1>8. OpenHandles' /\ CountsHold'
  BY <1>1, <1>7, SameHeap
<1>9. TypeOK'
  BY <1>1, <1>3, <1>6, <1>7 DEF TypeInv, TypeOK
<1> QED
  BY <1>7, <1>8, <1>9 DEF TypeInv

LEMMA WriteHeaderInv ==
  ASSUME TypeInv, NEW t \in Threads, WriteHeader(t)
  PROVE  TypeInv'
<1>1. /\ thread[t].pc = "header" /\ Appending(t) /\ Live(thread[t].handle)
      /\ disk' = [disk EXCEPT ![Target(t)].count = heap[thread[t].handle].count]
      /\ (Goto(t, "expire") /\ UNCHANGED posted) \/ Answer(t)
      /\ UNCHANGED <<block_id, block, heap, serial, damaged, posts, restarts>>
  BY DEF WriteHeader, Appending
<1>2. Target(t) \in BlockIds /\ disk[Target(t)] \in Block /\ heap[thread[t].handle].count \in Nat
  BY <1>1, TargetType
<1>3. [disk[Target(t)] EXCEPT !.count = heap[thread[t].handle].count] \in Block
  BY <1>2 DEF Block
<1>4. disk' \in [BlockIds -> Block]
  BY <1>1, <1>2, <1>3, OneBlock
<1>5. /\ thread' \in [Threads -> Local] /\ InCall' /\ thread'[t].pc \in {"expire", "idle"}
      /\ \A u \in Threads \ {t} : thread'[u] = thread[u]
      /\ \A r \in DOMAIN posted' : r \in BlockIds \X Nat /\ posted'[r] \in Payloads
  <2>1. CASE Goto(t, "expire") /\ UNCHANGED posted
    <3>1. \A r \in DOMAIN posted : r \in BlockIds \X Nat /\ posted[r] \in Payloads
      BY DEF TypeInv, TypeOK
    <3>2. /\ thread' \in [Threads -> Local] /\ InCall' /\ thread'[t].pc = "expire"
          /\ \A u \in Threads \ {t} : thread'[u] = thread[u]
      BY <1>1, <2>1, GoesTo
    <3> QED
      BY <2>1, <3>1, <3>2
  <2>2. CASE Answer(t)
    BY <1>1, <2>2, AnswerInv
  <2> QED
    BY <1>1, <2>1, <2>2
<1>6. OpenHandles' /\ CountsHold'
  BY <1>1, <1>5, SameHeap
<1>7. TypeOK'
  BY <1>1, <1>4, <1>5 DEF TypeInv, TypeOK
<1> QED
  BY <1>5, <1>6, <1>7 DEF TypeInv

\* The count a thread takes back is its own.
LEMMA ShortHeaderInv ==
  ASSUME TypeInv, NEW t \in Threads, ShortHeader(t)
  PROVE  TypeInv'
<1> DEFINE h == thread[t].handle
<1>1. /\ thread[t].pc = "header" /\ Appending(t) /\ Live(h) /\ Goto(t, "forward")
      /\ UNCHANGED <<block_id, block, posted, serial, damaged, posts, restarts>>
  BY DEF ShortHeader, Appending
<1>2. h \in Handles /\ heap[h] \in Handle /\ heap[h].open /\ heap[h].count \in Nat
      /\ Target(t) \in BlockIds /\ disk[Target(t)] \in Block
  BY <1>1, TargetType
<1>3. heap[h].count >= 1
  BY <1>1, CountedOne
<1>4. PICK n \in Nat : n = heap[h].count - 1
  BY <1>2, <1>3
<1>5. PICK new \in Handle : /\ new = [heap[h] EXCEPT !.count = n] /\ new.open
                            /\ new.of = heap[h].of /\ new.count = n
  <2>1. [heap[h] EXCEPT !.count = n] \in Handle
    BY <1>2, <1>4 DEF Handle
  <2> QED
    BY <1>2, <2>1 DEF Handle
<1>6. heap' = [heap EXCEPT ![h] = new] /\ heap \in [Handles -> Handle]
  BY <1>4, <1>5 DEF ShortHeader, TypeInv, TypeOK
<1>7. heap' \in [Handles -> Handle] /\ heap'[h] = new /\ \A g \in Handles \ {h} : heap'[g] = heap[g]
  BY <1>2, <1>6
<1>8. disk' = [disk EXCEPT ![Target(t)].index = Resized(@, 2 * n)]
  BY <1>4 DEF ShortHeader
<1>9. Resized(disk[Target(t)].index, 2 * n) \in Seq(Cells)
  <2>1. disk[Target(t)].index \in Seq(Cells) /\ 2 * n \in Nat
    BY <1>2 DEF Block
  <2> QED
    BY <2>1, ResizedCells
<1>10. [disk[Target(t)] EXCEPT !.index = Resized(@, 2 * n)] \in Block
  BY <1>2, <1>9 DEF Block
<1>11. disk' \in [BlockIds -> Block]
  BY <1>2, <1>8, <1>10, OneBlock
<1>12. /\ thread' \in [Threads -> Local] /\ InCall' /\ thread'[t].pc = "forward"
       /\ \A u \in Threads \ {t} : thread'[u] = thread[u]
  BY <1>1, GoesTo
<1>13. OpenHandles'
  BY <1>2, <1>5, <1>7 DEF TypeInv, OpenHandles
<1>14. ASSUME NEW g \in Handles, heap'[g].open PROVE Cardinality(Counting(g)') <= heap'[g].count
  <2>1. IsFiniteSet(Counting(g)) /\ Cardinality(Counting(g)) \in Nat
    BY CountingFinite
  <2>2. CASE g = h
    <3>1. Counting(g)' = Counting(g) \ {t}
      BY <1>1, <1>12, <2>2 DEF Counting
    <3>2. t \in Counting(g)
      BY <1>1, <2>2 DEF Counting
    <3>3. Cardinality(Counting(g)') = Cardinality(Counting(g)) - 1
      BY <2>1, <3>1, <3>2, FS_RemoveElement
    <3>4. Cardinality(Counting(g)) <= heap[g].count
      BY <1>2, <2>2 DEF TypeInv, CountsHold
    <3>5. heap'[g].count = heap[g].count - 1 /\ heap[g].count \in Nat
      BY <1>2, <1>4, <1>5, <1>7, <2>2
    <3> HIDE DEF h
    <3> QED
      BY <2>1, <3>3, <3>4, <3>5
  <2>3. CASE g # h
    <3>1. Counting(g)' = Counting(g)
      BY <1>1, <1>12, <2>3 DEF Counting
    <3> QED
      BY <1>7, <1>14, <2>3, <3>1 DEF TypeInv, CountsHold
  <2> QED
    BY <2>2, <2>3
<1>15. TypeOK'
  BY <1>1, <1>7, <1>11, <1>12 DEF TypeInv, TypeOK
<1> QED
  BY <1>12, <1>13, <1>14, <1>15 DEF TypeInv, CountsHold

\* A new process: no handle is open and no thread at work.
LEMMA ProcessDiesInv ==
  ASSUME TypeInv, ProcessDies
  PROVE  TypeInv'
<1>1. Idle \in Local /\ Closed \in Handle /\ Idle.pc = "idle" /\ ~Closed.open
  BY DEF Idle, Closed, Local, Handle
<1>2. restarts' \in 0 .. MaxRestarts
  BY BoundsAssumption DEF ProcessDies, TypeInv, TypeOK
<1>3. \A t \in Threads : At(t, "header") /\ Live(thread[t].handle) => Mark(t) \in BlockIds \X Nat
  BY TargetType DEF Appending
<1>4. damaged' \subseteq BlockIds \X Nat
  BY <1>3 DEF ProcessDies, TypeInv, TypeOK
<1>5. TypeOK'
  BY <1>1, <1>2, <1>4 DEF ProcessDies, TypeInv, TypeOK, FirstBlockId
<1>6. InCall'
  BY <1>1 DEF ProcessDies, InCall, Appending
<1>7. OpenHandles' /\ CountsHold'
  BY <1>1 DEF ProcessDies, OpenHandles, CountsHold
<1> QED
  BY <1>5, <1>6, <1>7 DEF TypeInv

\* Every step of every thread preserves the types.
LEMMA TypeInvStep ==
  ASSUME TypeInv, [Next]_vars
  PROVE  TypeInv'
<1>0. \A t \in Threads : thread[t] \in Local
  BY DEF TypeInv, TypeOK
<1>1. ASSUME NEW t \in Threads, NEW p \in Payloads, GetBlockId(t, p) PROVE TypeInv'
  <2> DEFINE l == [Idle EXCEPT !.pc = "check", !.payload = p, !.block_id = block_id]
  <2>1. block_id \in BlockIds /\ thread' = [thread EXCEPT ![t] = l]
    BY <1>1 DEF GetBlockId
  <2>2. l \in Local /\ l.pc = "check" /\ l.block_id = block_id /\ l.payload = p
    BY <2>1 DEF Local, Idle
  <2> HIDE DEF l
  <2>3. /\ thread' \in [Threads -> Local] /\ InCall' /\ thread'[t] = l
        /\ \A u \in Threads \ {t} : thread'[u] = thread[u]
    BY <2>1, <2>2, GoesOn, OneThread DEF TypeInv
  <2>4. posts' \in 0 .. MaxPosts /\ serial' \in BOOLEAN
    BY <1>1, BoundsAssumption DEF GetBlockId, TypeInv, TypeOK
  <2>5. OpenHandles' /\ CountsHold'
    BY <1>1, <2>2, <2>3, SameHeap DEF GetBlockId
  <2> QED
    BY <1>1, <2>3, <2>4, <2>5 DEF GetBlockId, TypeInv, TypeOK
<1>2. ASSUME NEW t \in Threads, Moves(t) PROVE TypeInv'
  <2>1. PICK pc \in {"open", "load", "create", "reopen", "count", "forward"} :
          Goto(t, pc) /\ (pc = "count" => Appending(t))
    BY <1>2, MovesType
  <2>2. /\ thread[t].pc # "idle"
        /\ UNCHANGED <<disk, block_id, block, heap, posted, serial, damaged, posts, restarts>>
    BY <1>2, MovesType
  <2>3. /\ thread' \in [Threads -> Local] /\ InCall' /\ thread'[t].pc = pc
        /\ \A u \in Threads \ {t} : thread'[u] = thread[u]
    BY <1>0, <2>1, <2>2, GoesTo
  <2>4. OpenHandles' /\ CountsHold'
    BY <2>2, <2>3, SameHeap
  <2> QED
    BY <2>2, <2>3, <2>4 DEF TypeInv, TypeOK
<1>3. ASSUME NEW t \in Threads, OpenExisting(t) \/ Reopen(t) PROVE TypeInv'
  <2>1. thread[t].pc # "idle" /\ OpenBlock(thread[t].block_id)
        /\ UNCHANGED <<disk, block_id, posted, serial, damaged, posts, restarts>>
    BY <1>3 DEF OpenExisting, Reopen
  <2>2. thread[t].block_id \in BlockIds
    BY <2>1 DEF TypeInv, InCall
  <2>3. Goto(t, "recheck") \/ Goto(t, "load")
    BY <1>3 DEF OpenExisting, Reopen
  <2>4. /\ thread' \in [Threads -> Local] /\ InCall' /\ thread'[t].pc \in {"recheck", "load"}
        /\ \A u \in Threads \ {t} : thread'[u] = thread[u]
    <3>1. CASE Goto(t, "recheck")
      BY <2>1, <3>1, GoesTo
    <3>2. CASE Goto(t, "load")
      BY <2>1, <3>2, GoesTo
    <3> QED
      BY <2>3, <3>1, <3>2
  <2>5. /\ block' \in {NULL} \cup Handles /\ heap' \in [Handles -> Handle]
        /\ OpenHandles' /\ CountsHold'
    BY <2>1, <2>2, <2>4, OpenBlockType
  <2> QED
    BY <2>1, <2>4, <2>5 DEF TypeInv, TypeOK
<1>4. ASSUME NEW t \in Threads, CreateBlock(t) PROVE TypeInv'
  <2>1. thread[t].pc # "idle" /\ Goto(t, "reopen")
        /\ UNCHANGED <<block_id, block, heap, posted, serial, damaged, posts, restarts>>
    BY <1>4 DEF CreateBlock
  <2>2. /\ thread' \in [Threads -> Local] /\ InCall' /\ thread'[t].pc = "reopen"
        /\ \A u \in Threads \ {t} : thread'[u] = thread[u]
    BY <1>0, <2>1, GoesTo
  <2>3. disk' \in [BlockIds -> Block]
    BY <1>4 DEF CreateBlock, Created, Block, TypeInv, TypeOK
  <2>4. OpenHandles' /\ CountsHold'
    BY <2>1, <2>2, SameHeap
  <2> QED
    BY <2>1, <2>2, <2>3, <2>4 DEF TypeInv, TypeOK
<1>5. ASSUME NEW t \in Threads, LoadBlock(t) PROVE TypeInv'
  <2> DEFINE l == [thread[t] EXCEPT !.handle = block, !.pc = IF block = NULL THEN "forward" ELSE "append"]
  <2>1. block \in {NULL} \cup Handles
        /\ UNCHANGED <<disk, block_id, block, heap, posted, serial, damaged, posts, restarts>>
    BY <1>5 DEF LoadBlock, TypeInv, TypeOK
  <2>2. l \in Local /\ l.block_id = thread[t].block_id /\ l.payload = thread[t].payload
        /\ l.handle = block /\ l.pc = IF block = NULL THEN "forward" ELSE "append"
    BY <1>0, <2>1 DEF Local
  <2>3. thread' = [thread EXCEPT ![t] = l]
    BY <1>5 DEF LoadBlock
  <2>4. thread[t].block_id \in BlockIds /\ thread[t].payload \in Payloads
    BY <1>5 DEF LoadBlock, TypeInv, InCall
  <2> HIDE DEF l
  <2>5. l.pc \in {"forward", "append"} /\ (l.pc = "append" => l.handle \in Handles)
    BY <2>1, <2>2
  <2>6. /\ thread' \in [Threads -> Local] /\ InCall' /\ thread'[t] = l
        /\ \A u \in Threads \ {t} : thread'[u] = thread[u]
    BY <2>2, <2>3, <2>4, <2>5, GoesOn, OneThread DEF TypeInv
  <2>7. OpenHandles' /\ CountsHold'
    BY <2>1, <2>5, <2>6, SameHeap
  <2> QED
    BY <2>1, <2>6, <2>7 DEF TypeInv, TypeOK
<1>6. ASSUME NEW t \in Threads,
             CountUp(t) \/ WriteEntry(t) \/ ShortEntry(t) \/ WriteHeader(t) \/ ShortHeader(t)
      PROVE  TypeInv'
  BY <1>6, CountUpInv, WriteEntryInv, ShortEntryInv, WriteHeaderInv, ShortHeaderInv
<1>7. ASSUME NEW t \in Threads, ExpireLoad(t) PROVE TypeInv'
  <2> DEFINE l == [thread[t] EXCEPT !.pc = "expire_store", !.loaded = block_id]
  <2>1. UNCHANGED <<disk, block_id, block, heap, posted, serial, damaged, posts, restarts>>
    BY <1>7 DEF ExpireLoad
  <2>2. l \in Local /\ l.pc = "expire_store" /\ l.block_id = thread[t].block_id
        /\ l.payload = thread[t].payload
    BY <1>0 DEF Local, TypeInv, TypeOK
  <2>3. thread' = [thread EXCEPT ![t] = l]
    BY <1>7 DEF ExpireLoad
  <2>4. thread[t].block_id \in BlockIds /\ thread[t].payload \in Payloads
    BY <1>7 DEF ExpireLoad, TypeInv, InCall
  <2> HIDE DEF l
  <2>5. /\ thread' \in [Threads -> Local] /\ InCall' /\ thread'[t] = l
        /\ \A u \in Threads \ {t} : thread'[u] = thread[u]
    BY <2>2, <2>3, <2>4, GoesOn, OneThread DEF TypeInv
  <2>6. OpenHandles' /\ CountsHold'
    BY <2>1, <2>2, <2>5, SameHeap
  <2> QED
    BY <2>1, <2>5, <2>6 DEF TypeInv, TypeOK
<1>8. ASSUME NEW t \in Threads, ExpireStore(t) PROVE TypeInv'
  <2>1. thread[t].pc # "idle" /\ Goto(t, "close") /\ block_id' = thread[t].loaded + 1
        /\ UNCHANGED <<disk, block, heap, posted, serial, damaged, posts, restarts>>
    BY <1>8 DEF ExpireStore
  <2>2. /\ thread' \in [Threads -> Local] /\ InCall' /\ thread'[t].pc = "close"
        /\ \A u \in Threads \ {t} : thread'[u] = thread[u]
    BY <1>0, <2>1, GoesTo
  <2>3. block_id' \in Nat \ {0}
    BY <1>0, <2>1 DEF Local
  <2>4. OpenHandles' /\ CountsHold'
    BY <2>1, <2>2, SameHeap
  <2> QED
    BY <2>1, <2>2, <2>3, <2>4 DEF TypeInv, TypeOK
<1>9. ASSUME NEW t \in Threads, CloseBlock(t) PROVE TypeInv'
  <2>1. thread[t].pc # "idle" /\ Goto(t, "clear") /\ heap' = [heap EXCEPT ![block] = Closed]
        /\ UNCHANGED <<disk, block_id, block, posted, serial, damaged, posts, restarts>>
    BY <1>9 DEF CloseBlock
  <2>2. /\ thread' \in [Threads -> Local] /\ InCall' /\ thread'[t].pc = "clear"
        /\ \A u \in Threads \ {t} : thread'[u] = thread[u]
    BY <1>0, <2>1, GoesTo
  <2>3. Closed \in Handle /\ ~Closed.open /\ heap \in [Handles -> Handle]
    BY DEF Closed, Handle, TypeInv, TypeOK
  <2>4. heap' \in [Handles -> Handle]
    BY <2>1, <2>3
  <2>5. \A h \in Handles : heap'[h].open => heap'[h] = heap[h]
    BY <2>1, <2>3
  <2>6. \A h \in Handles : /\ heap'[h].count \in Nat
                           /\ heap'[h].open => heap[h].open /\ heap[h].count <= heap'[h].count
    BY <2>3, <2>4, <2>5 DEF Handle
  <2>7. CountsHold'
    BY <2>2, <2>6, CountingKept
  <2>8. OpenHandles'
    BY <2>5 DEF OpenHandles, TypeInv
  <2> QED
    BY <2>1, <2>2, <2>4, <2>7, <2>8 DEF TypeInv, TypeOK
<1>10. ASSUME NEW t \in Threads, ClearBlock(t) PROVE TypeInv'
  <2>1. thread[t].pc # "idle" /\ Answer(t) /\ block' = NULL
        /\ UNCHANGED <<disk, block_id, heap, serial, damaged, posts, restarts>>
    BY <1>10 DEF ClearBlock
  <2>2. /\ thread' \in [Threads -> Local] /\ InCall' /\ thread'[t].pc = "idle"
        /\ \A u \in Threads \ {t} : thread'[u] = thread[u]
        /\ \A r \in DOMAIN posted' : r \in BlockIds \X Nat /\ posted'[r] \in Payloads
    BY <2>1, AnswerInv
  <2>3. OpenHandles' /\ CountsHold'
    BY <2>1, <2>2, SameHeap
  <2> QED
    BY <2>1, <2>2, <2>3 DEF TypeInv, TypeOK
<1>11. ASSUME ProcessDies PROVE TypeInv'
  BY <1>11, ProcessDiesInv
<1>12. CASE UNCHANGED vars
  <2>1. TypeOK' /\ InCall' /\ OpenHandles'
    BY <1>12 DEF vars, TypeInv, TypeOK, InCall, Appending, OpenHandles
  <2>2. \A h \in Handles : Counting(h)' = Counting(h)
    BY <1>12 DEF vars, Counting
  <2>3. CountsHold'
    BY <1>12, <2>2 DEF vars, TypeInv, CountsHold
  <2> QED
    BY <2>1, <2>3 DEF TypeInv
<1> QED
  BY <1>1, <1>2, <1>3, <1>4, <1>5, <1>6, <1>7, <1>8, <1>9, <1>10, <1>11, <1>12
     DEF Next, Step, Moves, Restart, UseAfterClose, ForwardAborts

\* The server starts with no thread at work.
LEMMA TypeInvInit == Init => TypeInv
<1> SUFFICES ASSUME Init PROVE TypeInv
  OBVIOUS
<1>1. Idle \in Local /\ Closed \in Handle /\ Idle.pc = "idle" /\ ~Closed.open /\ NoBlock \in Block
  BY DEF Idle, Closed, NoBlock, Local, Handle, Block
<1>2. TypeOK
  BY <1>1, BoundsAssumption DEF Init, TypeOK, FirstBlockId
<1> QED
  BY <1>1, <1>2 DEF TypeInv, InCall, Appending, OpenHandles, CountsHold, Init

\* The controller's state has its type with any number of threads in
\* sea_controller_write and any number of restarts: a thread always finds a
\* handle to open a block with, appends only through one of the heap, and takes
\* back no count but its own when the header is not written.
THEOREM ControllerTyping == Spec => []TypeOK
<1>1. TypeInv => TypeOK
  BY DEF TypeInv
<1> QED
  BY <1>1, TypeInvInit, TypeInvStep, PTL DEF Spec

-----------------------------------------------------------------------------
(* Requests one after the other.                                           *)

\* At most one request is at work.
OneBusy == \A t, u \in Threads : ~AtRest(t) /\ ~AtRest(u) => t = u

\* A block in which no entry was lost or orphaned; a pair (block id, record id)
\* below all that was.
Undamaged(b) == \A d \in damaged : d[1] # b
Sound(r) == \A d \in damaged : d[1] = r[1] => r[2] < d[2]

\* A block that was never created is empty, what was damaged was at its count
\* or above, and the entries of an undamaged block are the counted ones, but
\* for the one whose header is about to be written.
Unfinished(b) == \E t \in Threads : thread[t].pc = "header" /\ thread[t].block_id = b
AllCounted ==
  \A b \in BlockIds :
    /\ ~disk[b].exists => disk[b].count = 0 /\ Undamaged(b)
    /\ \A d \in damaged : d[1] = b => d[2] <= disk[b].count
    /\ Undamaged(b) /\ ~Unfinished(b) => Len(disk[b].index) = 2 * disk[b].count

\* controller->block is open on block b, and counts what is on disk, or more
\* after an entry was lost, or when a thread has counted its own.
Counted(t) == thread[t].pc \in {"entry", "header"}
OpenOn(b) ==
  /\ b \in BlockIds /\ disk[b].exists
  /\ heap[block].open /\ heap[block].of = b /\ disk[b].count <= heap[block].count
  /\ Undamaged(b) /\ (\A t \in Threads : ~Counted(t)) => heap[block].count = disk[b].count

\* Until a thread expires the block, the block that is open is the next one to
\* be filled, which is the first one, or comes after a full one.
NextBlockOpen ==
  (\A t \in Threads : thread[t].pc \notin {"close", "clear"}) /\ block # NULL => OpenOn(block_id)
NextBlockReached ==
  block_id # 1 => block_id - 1 \in BlockIds /\ disk[block_id - 1].count >= MaxCount

\* Where the thread at work stands.
BeforeExpiring == {"check", "open", "recheck", "create", "reopen", "load", "append", "count",
                   "entry", "header", "expire", "expire_store"}
Appended == {"expire", "expire_store", "close", "clear"}

\* Entry id of block b is there and has payload p.
Has(b, id, p) == 2 * id + 2 <= Len(disk[b].index) /\ disk[b].index[2 * id + 2] = p

AtWork(t) ==
  LET b == thread[t].block_id
      id == thread[t].record_id
      In(pcs) == thread[t].pc \in pcs
  IN
  /\ In(BeforeExpiring) => b = block_id
  /\ In({"close", "clear"}) => block_id = b + 1
  /\ In({"open", "create"}) => block = NULL
  /\ In({"recheck", "create"}) => (block = NULL => ~disk[b].exists)
  /\ In({"reopen"}) => disk[b].exists
  /\ In({"load", "append", "count", "entry", "header"} \cup Appended) => block # NULL
  /\ In({"append", "count", "entry", "header"}) => thread[t].handle = block
  /\ In({"entry", "header"}) => /\ heap[block].count = id + 1 /\ disk[b].count <= id
                                /\ Undamaged(b) => disk[b].count = id
  /\ In({"header"}) => (Undamaged(b) => Len(disk[b].index) = 2 * id + 2 /\ Has(b, id, thread[t].payload))
  /\ In(Appended) => /\ disk[b].exists /\ disk[b].count >= MaxCount /\ disk[b].count = id + 1
                     /\ Sound(<<b, id>>) => Has(b, id, thread[t].payload)
                     /\ <<b, id>> \notin DOMAIN posted
  /\ In({"expire_store"}) => thread[t].loaded = block_id
  /\ In({"close"}) => OpenOn(b)

\* What was answered is counted, and is there if it is below all damage.
Kept ==
  \A r \in DOMAIN posted :
    disk[r[1]].exists /\ r[2] < disk[r[1]].count /\ (Sound(r) => Has(r[1], r[2], posted[r]))

FilledInOrder == \A b \in BlockIds \ {1} : disk[b].exists => disk[b - 1].count >= MaxCount

SerialInv ==
  serial =>
    /\ OneBusy /\ AllCounted /\ NextBlockOpen /\ NextBlockReached
    /\ \A t \in Threads : AtWork(t)
    /\ Kept /\ FilledInOrder

\* A step of the thread at work leaves the others at rest.
LEMMA OtherThreads ==
  ASSUME SerialInv, serial, NEW t \in Threads, ~AtRest(t),
         \A u \in Threads \ {t} : thread'[u] = thread[u]
  PROVE  /\ \A u \in Threads \ {t} : thread[u].pc \in {"idle", "forward"} /\ thread'[u].pc \in {"idle", "forward"}
         /\ OneBusy'
         /\ AtWork(t)' => \A u \in Threads : AtWork(u)'
         /\ (thread'[t].pc \notin {"close", "clear"} /\ block' # NULL => OpenOn(block_id)')
            => NextBlockOpen'
         /\ thread'[t].pc # "header" => \A b \in BlockIds : ~Unfinished(b)'
         /\ thread[t].pc # "header" => \A b \in BlockIds : ~Unfinished(b)
         /\ \A b : b # thread[t].block_id => ~Unfinished(b)
         /\ \A b : b # thread'[t].block_id => ~Unfinished(b)'
         /\ (\A u \in Threads : ~Counted(u)) <=> ~Counted(t)
         /\ (\A u \in Threads : ~Counted(u)') <=> ~Counted(t)'
<1>1. ASSUME NEW u \in Threads \ {t}
      PROVE  AtRest(u) /\ thread[u].pc \in {"idle", "forward"} /\ thread'[u].pc \in {"idle", "forward"}
  BY <1>1 DEF SerialInv, OneBusy, AtRest
<1>2. OneBusy'
  BY <1>1 DEF OneBusy, AtRest
<1>3. ASSUME NEW u \in Threads \ {t} PROVE AtWork(u)'
  BY <1>1 DEF AtWork, BeforeExpiring, Appended
<1>4. ASSUME thread'[t].pc \notin {"close", "clear"} /\ block' # NULL => OpenOn(block_id)'
      PROVE  NextBlockOpen'
  BY <1>4 DEF NextBlockOpen
<1>5. /\ thread'[t].pc # "header" => \A b \in BlockIds : ~Unfinished(b)'
      /\ thread[t].pc # "header" => \A b \in BlockIds : ~Unfinished(b)
      /\ \A b : b # thread[t].block_id => ~Unfinished(b)
      /\ \A b : b # thread'[t].block_id => ~Unfinished(b)'
  BY <1>1 DEF Unfinished
<1>6. /\ (\A u \in Threads : ~Counted(u)) <=> ~Counted(t)
      /\ (\A u \in Threads : ~Counted(u)') <=> ~Counted(t)'
  BY <1>1 DEF Counted
<1> QED
  BY <1>1, <1>2, <1>3, <1>4, <1>5, <1>6

\* The block the thread at work is filling is open, or none is.
LEMMA WorkingBlock ==
  ASSUME TypeInv, SerialInv, serial, NEW t \in Threads, thread[t].pc \in BeforeExpiring
  PROVE  /\ thread[t].block_id = block_id /\ block_id \in BlockIds /\ ~AtRest(t)
         /\ block # NULL => OpenOn(block_id)
<1>1. ~AtRest(t)
  BY DEF AtRest, BeforeExpiring
<1>2. \A u \in Threads : thread[u].pc \notin {"close", "clear"}
  <2>1. \A u \in Threads \ {t} : AtRest(u)
    BY <1>1 DEF SerialInv, OneBusy
  <2> QED
    BY <2>1 DEF AtRest, BeforeExpiring
<1>3. thread[t].block_id = block_id
  BY DEF SerialInv, AtWork
<1>4. thread[t].block_id \in BlockIds
  BY <1>1 DEF AtRest, TypeInv, InCall
<1> QED
  BY <1>1, <1>2, <1>3, <1>4 DEF SerialInv, NextBlockOpen

\* The thread at work appends through controller->block, which is open: nobody
\* has closed it.
LEMMA AppendingBlock ==
  ASSUME TypeInv, SerialInv, serial, NEW t \in Threads, Appending(t)
  PROVE  /\ thread[t].block_id = block_id /\ block_id \in BlockIds /\ ~AtRest(t)
         /\ block # NULL /\ OpenOn(block_id) /\ thread[t].handle = block /\ Live(block)
         /\ Target(t) = block_id /\ block \in Handles
         /\ heap[block] \in Handle /\ heap[block].count \in Nat
         /\ disk[block_id] \in Block /\ disk[block_id].count \in Nat
         /\ disk[block_id].index \in Seq(Cells) /\ thread[t].record_id \in Nat
<1>1. /\ thread[t].block_id = block_id /\ block_id \in BlockIds /\ ~AtRest(t)
      /\ (block # NULL => OpenOn(block_id))
  BY WorkingBlock DEF Appending, BeforeExpiring
<1>2. AtWork(t)
  BY DEF SerialInv
<1>3. block # NULL /\ thread[t].handle = block
  BY <1>2 DEF AtWork, Appending
<1>4. Target(t) = block_id /\ Live(block) /\ OpenOn(block_id)
  BY <1>1, <1>3 DEF OpenOn, Target, Live
<1>5. block \in Handles /\ heap[block] \in Handle /\ heap[block].count \in Nat
  BY <1>3, <1>4, TargetType
<1>6. disk[block_id] \in Block /\ thread[t] \in Local
  BY <1>1 DEF TypeInv, TypeOK
<1> QED
  BY <1>1, <1>3, <1>4, <1>5, <1>6 DEF Block, Local

\* A request begins: it takes the next block to be filled.
LEMMA SerialBegins ==
  ASSUME TypeInv, SerialInv, NEW t \in Threads, NEW p \in Payloads, GetBlockId(t, p)
  PROVE  SerialInv'
<1> SUFFICES ASSUME serial' PROVE SerialInv'
  BY DEF SerialInv
<1>1. serial /\ (\A u \in Threads : AtRest(u)) /\ block_id \in BlockIds
      /\ UNCHANGED <<disk, block_id, block, heap, posted, damaged>>
  BY DEF GetBlockId
<1>2. thread'[t].pc = "check" /\ thread'[t].block_id = block_id
  BY DEF GetBlockId, TypeInv, TypeOK, Idle
<1>3. \A u \in Threads \ {t} : thread'[u] = thread[u]
  BY DEF GetBlockId, TypeInv, TypeOK
<1>4. OneBusy'
  BY <1>1, <1>3 DEF OneBusy, AtRest
<1>5. \A u \in Threads : AtWork(u)'
  BY <1>1, <1>2, <1>3 DEF AtWork, AtRest, BeforeExpiring, Appended
<1>6. /\ \A u \in Threads : ~Counted(u) /\ ~Counted(u)' /\ thread[u].pc \notin {"close", "clear"}
      /\ \A b : ~Unfinished(b) /\ ~Unfinished(b)'
  BY <1>1, <1>2, <1>3 DEF AtRest, Counted, Unfinished
<1>7. NextBlockOpen'
  BY <1>1, <1>6 DEF SerialInv, NextBlockOpen, OpenOn, Undamaged
<1>8. AllCounted'
  BY <1>1, <1>6 DEF SerialInv, AllCounted, Undamaged
<1>9. NextBlockReached' /\ Kept' /\ FilledInOrder'
  BY <1>1 DEF SerialInv, NextBlockReached, Kept, FilledInOrder, Sound, Has
<1> QED
  BY <1>4, <1>5, <1>7, <1>8, <1>9 DEF SerialInv

\* Steps before and after the writes: nothing changes on disk, and no thread
\* has counted a record that is not there.
LEMMA DiskSame ==
  ASSUME TypeInv, SerialInv, serial, NEW t \in Threads, ~AtRest(t),
         \A u \in Threads \ {t} : thread'[u] = thread[u],
         thread[t].pc # "header", thread'[t].pc # "header", UNCHANGED <<disk, damaged>>
  PROVE  AllCounted' /\ FilledInOrder' /\ (posted' = posted => Kept')
         /\ (block_id' = block_id => NextBlockReached')
<1>1. \A b \in BlockIds : ~Unfinished(b) /\ ~Unfinished(b)'
  BY OtherThreads
<1>2. AllCounted'
  BY <1>1 DEF SerialInv, AllCounted, Undamaged
<1>3. posted' = posted => Kept'
  BY DEF SerialInv, Kept, Sound, Has
<1> QED
  BY <1>2, <1>3 DEF SerialInv, FilledInOrder, NextBlockReached

\* Steps that only look: where they lead depends on the block being open.
LEMMA SerialMoves ==
  ASSUME TypeInv, SerialInv, serial, NEW t \in Threads,
         CheckBlock(t) \/ RecheckBlock(t) \/ LoadBlock(t) \/ WriteData(t) \/ AppendFails(t) \/ ExpireLoad(t)
  PROVE  SerialInv'
<1>0. ~AppendFails(t)
  BY AppendingBlock DEF AppendFails
<1>1. /\ \A u \in Threads \ {t} : thread'[u] = thread[u]
      /\ UNCHANGED <<disk, block_id, block, heap, posted, serial, damaged>>
      /\ thread'[t].block_id = thread[t].block_id /\ thread'[t].record_id = thread[t].record_id
      /\ thread'[t].payload = thread[t].payload
  <2>1. thread \in [Threads -> Local] /\ thread[t] \in Local
    BY DEF TypeInv, TypeOK
  <2>2. CASE CheckBlock(t)
    BY <2>1, <2>2 DEF CheckBlock, Local
  <2>3. CASE RecheckBlock(t)
    BY <2>1, <2>3 DEF RecheckBlock, Local
  <2>4. CASE LoadBlock(t)
    BY <2>1, <2>4 DEF LoadBlock, Local
  <2>5. CASE WriteData(t)
    BY <2>1, <2>5 DEF WriteData, Local
  <2>6. CASE ExpireLoad(t)
    BY <2>1, <2>6 DEF ExpireLoad, Local
  <2> QED
    BY <1>0, <2>2, <2>3, <2>4, <2>5, <2>6
<1>2. /\ thread[t].pc \in BeforeExpiring \ {"entry", "header"}
      /\ thread'[t].pc \notin {"entry", "header", "close", "clear"}
  <2>1. thread \in [Threads -> Local] /\ thread[t] \in Local
    BY DEF TypeInv, TypeOK
  <2>2. CASE CheckBlock(t)
    BY <2>1, <2>2 DEF CheckBlock, BeforeExpiring, Local
  <2>3. CASE RecheckBlock(t)
    BY <2>1, <2>3 DEF RecheckBlock, BeforeExpiring, Local
  <2>4. CASE LoadBlock(t)
    BY <2>1, <2>4 DEF LoadBlock, BeforeExpiring, Local
  <2>5. CASE WriteData(t)
    BY <2>1, <2>5 DEF WriteData, BeforeExpiring, Local
  <2>6. CASE ExpireLoad(t)
    BY <2>1, <2>6 DEF ExpireLoad, BeforeExpiring, Local
  <2> QED
    BY <1>0, <2>2, <2>3, <2>4, <2>5, <2>6
<1>4. thread[t].block_id = block_id /\ ~AtRest(t) /\ (block # NULL => OpenOn(block_id))
  BY <1>2, WorkingBlock
<1>5. AtWork(t)
  BY DEF SerialInv
<1>6. AtWork(t)'
  <2>1. CASE CheckBlock(t)
    <3>1. thread'[t].pc = IF block = NULL THEN "open" ELSE "load"
      BY <2>1 DEF CheckBlock, TypeInv, TypeOK, Local
    <3> QED
      BY <1>1, <1>4, <3>1 DEF AtWork, BeforeExpiring, Appended
  <2>2. CASE RecheckBlock(t)
    <3>1. thread'[t].pc = IF block = NULL THEN "create" ELSE "reopen"
      BY <2>2 DEF RecheckBlock, MustCreate, TypeInv, TypeOK, Local
    <3>2. block = NULL => ~disk[block_id].exists
      BY <1>4, <1>5, <2>2 DEF RecheckBlock, AtWork
    <3> QED
      BY <1>1, <1>4, <3>1, <3>2 DEF AtWork, BeforeExpiring, Appended, OpenOn
  <2>3. CASE LoadBlock(t)
    <3>1. thread'[t].pc = "append" /\ thread'[t].handle = block /\ block # NULL
      BY <1>5, <2>3 DEF LoadBlock, AtWork, TypeInv, TypeOK, Local
    <3> QED
      BY <1>1, <1>4, <3>1 DEF AtWork, BeforeExpiring, Appended
  <2>4. CASE WriteData(t)
    <3>1. thread[t].pc = "append" /\ thread'[t].pc \in {"count", "forward"}
          /\ thread'[t].handle = thread[t].handle
      BY <2>4 DEF WriteData, TypeInv, TypeOK, Local
    <3> QED
      BY <1>1, <1>4, <1>5, <3>1 DEF AtWork, BeforeExpiring, Appended
  <2>5. CASE ExpireLoad(t)
    <3>1. thread[t].pc = "expire" /\ thread'[t].pc = "expire_store" /\ thread'[t].loaded = block_id
      BY <2>5 DEF ExpireLoad, TypeInv, TypeOK, Local
    <3> QED
      BY <1>1, <1>4, <1>5, <3>1 DEF AtWork, BeforeExpiring, Appended, Sound, Has
  <2> QED
    BY <1>0, <2>1, <2>2, <2>3, <2>4, <2>5
<1>7. block' # NULL => OpenOn(block_id)'
  <2>1. (\A u \in Threads : ~Counted(u)) /\ \A u \in Threads : ~Counted(u)'
    BY <1>1, <1>2, <1>4, OtherThreads DEF Counted
  <2> QED
    BY <1>1, <1>4, <2>1 DEF OpenOn, Undamaged
<1>8. OneBusy' /\ NextBlockOpen' /\ \A u \in Threads : AtWork(u)'
  BY <1>1, <1>4, <1>6, <1>7, OtherThreads
<1>9. AllCounted' /\ NextBlockReached' /\ Kept' /\ FilledInOrder'
  BY <1>1, <1>2, <1>4, DiskSame
<1> QED
  BY <1>1, <1>8, <1>9 DEF SerialInv

\* sea_block_open finds the block if it is there, and counts what it holds.
LEMMA SerialOpens ==
  ASSUME TypeInv, SerialInv, serial, NEW t \in Threads, OpenExisting(t) \/ Reopen(t)
  PROVE  SerialInv'
<1>1. UNCHANGED <<disk, block_id, posted, serial, damaged>> /\ OpenBlock(thread[t].block_id)
  BY DEF OpenExisting, Reopen
<1>2. /\ \A u \in Threads \ {t} : thread'[u] = thread[u]
      /\ thread'[t].block_id = thread[t].block_id
      /\ \/ thread[t].pc = "open" /\ thread'[t].pc = "recheck"
         \/ thread[t].pc = "reopen" /\ thread'[t].pc = "load"
  <2>1. thread \in [Threads -> Local] /\ thread[t] \in Local
    BY DEF TypeInv, TypeOK
  <2>2. CASE OpenExisting(t)
    BY <2>1, <2>2 DEF OpenExisting, Local
  <2>3. CASE Reopen(t)
    BY <2>1, <2>3 DEF Reopen, Local
  <2> QED
    BY <2>2, <2>3
<1>3. thread[t].block_id = block_id /\ block_id \in BlockIds /\ ~AtRest(t)
  BY <1>2, WorkingBlock DEF BeforeExpiring
<1>4. AtWork(t)
  BY DEF SerialInv
<1>5. /\ ~disk[block_id].exists => block' = NULL
      /\ disk[block_id].exists => block' # NULL /\ OpenOn(block_id)'
  <2>1. FreeHandle \in Handles /\ FreeHandle # NULL
    BY HandleFree DEF TypeInv, Handles
  <2>2. heap \in [Handles -> Handle] /\ disk[block_id].count \in Nat
    BY <1>3 DEF TypeInv, TypeOK, Block
  <2>3. CASE ~disk[block_id].exists
    BY <1>1, <1>3, <2>3 DEF OpenBlock
  <2>4. CASE disk[block_id].exists
    <3>1. block' = FreeHandle
          /\ heap' = [heap EXCEPT ![FreeHandle] = [open |-> TRUE, of |-> block_id, count |-> disk[block_id].count]]
      BY <1>1, <1>3, <2>4 DEF OpenBlock, CachedCount
    <3>2. heap'[block'] = [open |-> TRUE, of |-> block_id, count |-> disk[block_id].count]
      BY <2>1, <2>2, <3>1
    <3>3. disk[block_id].count <= disk[block_id].count
      BY <2>2
    <3> QED
      BY <1>1, <1>3, <2>1, <2>4, <3>1, <3>2, <3>3 DEF OpenOn
  <2> QED
    BY <2>3, <2>4
<1>6. AtWork(t)'
  <2>1. CASE thread'[t].pc = "recheck"
    BY <1>1, <1>2, <1>3, <1>5, <2>1 DEF AtWork, BeforeExpiring, Appended
  <2>2. CASE thread'[t].pc = "load"
    <3>1. disk[block_id].exists
      BY <1>2, <1>3, <1>4, <2>2 DEF AtWork
    <3> QED
      BY <1>1, <1>2, <1>3, <1>5, <2>2, <3>1 DEF AtWork, BeforeExpiring, Appended
  <2> QED
    BY <1>2, <2>1, <2>2
<1>7. block' # NULL => OpenOn(block_id)'
  BY <1>5
<1>8. OneBusy' /\ NextBlockOpen' /\ \A u \in Threads : AtWork(u)'
  BY <1>2, <1>3, <1>6, <1>7, OtherThreads
<1>9. AllCounted' /\ NextBlockReached' /\ Kept' /\ FilledInOrder'
  BY <1>1, <1>2, <1>3, DiskSame
<1> QED
  BY <1>1, <1>8, <1>9 DEF SerialInv

\* A block is created where there was none, and after a full one.
LEMMA SerialCreates ==
  ASSUME TypeInv, SerialInv, serial, NEW t \in Threads, CreateBlock(t)
  PROVE  SerialInv'
<1> DEFINE b == block_id
<1>1. thread[t].block_id = b /\ b \in BlockIds /\ ~AtRest(t) /\ thread[t].pc = "create"
  BY WorkingBlock DEF CreateBlock, BeforeExpiring
<1>2. UNCHANGED <<block_id, block, heap, posted, serial, damaged>>
  BY DEF CreateBlock
<1>3. /\ \A u \in Threads \ {t} : thread'[u] = thread[u]
      /\ thread'[t].pc = "reopen" /\ thread'[t].block_id = thread[t].block_id
  BY DEF CreateBlock, TypeInv, TypeOK, Local
<1>4. block = NULL /\ ~disk[b].exists
  BY <1>1 DEF SerialInv, AtWork, CreateBlock
<1>5. disk \in [BlockIds -> Block] /\ disk[b] \in Block
  BY <1>1 DEF TypeInv, TypeOK
<1>6. disk[b].count = 0
  BY <1>1, <1>4 DEF SerialInv, AllCounted
<1>7. /\ \A c \in BlockIds : disk'[c].count = disk[c].count /\ disk'[c].index = disk[c].index
      /\ \A c \in BlockIds \ {b} : disk'[c].exists = disk[c].exists
      /\ disk'[b].exists
  BY <1>1, <1>5, <1>6 DEF CreateBlock, Created, Block
<1>8. AtWork(t)'
  BY <1>1, <1>2, <1>3, <1>7 DEF AtWork, BeforeExpiring, Appended
<1>9. /\ OneBusy' /\ NextBlockOpen' /\ \A u \in Threads : AtWork(u)'
      /\ \A c \in BlockIds : ~Unfinished(c) /\ ~Unfinished(c)'
  BY <1>1, <1>2, <1>3, <1>4, <1>8, OtherThreads
<1>10. AllCounted'
  BY <1>1, <1>2, <1>7, <1>9 DEF SerialInv, AllCounted, Undamaged
<1>11. NextBlockReached'
  BY <1>2, <1>7 DEF SerialInv, NextBlockReached
<1>12. Kept'
  <2> SUFFICES ASSUME NEW r \in DOMAIN posted
               PROVE  /\ disk'[r[1]].exists /\ r[2] < disk'[r[1]].count
                      /\ Sound(r)' => Has(r[1], r[2], posted[r])'
    BY <1>2 DEF Kept
  <2>1. r[1] \in BlockIds
    BY DEF TypeInv, TypeOK
  <2>2. disk'[r[1]].exists /\ r[2] < disk'[r[1]].count
    BY <1>7, <2>1 DEF SerialInv, Kept
  <2>3. Sound(r) => Has(r[1], r[2], posted[r])
    BY DEF SerialInv, Kept
  <2>4. Sound(r)' <=> Sound(r)
    BY <1>2 DEF Sound
  <2>5. Has(r[1], r[2], posted[r])' <=> Has(r[1], r[2], posted[r])
    BY <1>2, <1>7, <2>1 DEF Has
  <2> QED
    BY <2>2, <2>3, <2>4, <2>5
<1>13. FilledInOrder'
  <2> SUFFICES ASSUME NEW c \in BlockIds \ {1}, disk'[c].exists
               PROVE  disk'[c - 1].count >= MaxCount
    BY DEF FilledInOrder
  <2>1. c - 1 \in BlockIds
    BY BoundsAssumption DEF BlockIds
  <2>2. CASE c = b
    BY <1>7, <2>1, <2>2 DEF SerialInv, NextBlockReached
  <2>3. CASE c # b
    BY <1>7, <2>1, <2>3 DEF SerialInv, FilledInOrder
  <2> QED
    BY <2>2, <2>3
<1> QED
  BY <1>2, <1>9, <1>10, <1>11, <1>12, <1>13 DEF SerialInv

\* The count of the handle goes ahead of the disk, or further ahead.
LEMMA SerialCountsUp ==
  ASSUME TypeInv, SerialInv, serial, NEW t \in Threads, CountUp(t)
  PROVE  SerialInv'
<1> DEFINE b == block_id
<1>1. thread[t].pc = "count" /\ Appending(t)
      /\ UNCHANGED <<disk, block_id, block, posted, serial, damaged>>
  BY DEF CountUp, Appending
<1>2. /\ thread[t].block_id = b /\ b \in BlockIds /\ ~AtRest(t) /\ block # NULL /\ OpenOn(b)
      /\ thread[t].handle = block /\ block \in Handles
      /\ heap[block] \in Handle /\ heap[block].count \in Nat /\ disk[b].count \in Nat
  BY <1>1, AppendingBlock
<1>3. /\ \A u \in Threads \ {t} : thread'[u] = thread[u]
      /\ thread'[t].pc = "entry" /\ thread'[t].block_id = b /\ thread'[t].handle = block
      /\ thread'[t].record_id = heap[block].count
  BY <1>2 DEF CountUp, TypeInv, TypeOK, Local
<1>4. /\ heap'[block].open /\ heap'[block].of = b /\ heap'[block].count = heap[block].count + 1
  BY <1>2 DEF CountUp, TypeInv, TypeOK, Handle, OpenOn
<1>5. disk[b].count <= heap[block].count /\ (Undamaged(b) => heap[block].count = disk[b].count)
  <2>1. \A u \in Threads : ~Counted(u)
    BY <1>1, <1>2, <1>3, OtherThreads DEF Counted
  <2> QED
    BY <1>2, <2>1 DEF OpenOn
<1>6. OpenOn(b)'
  <2>1. disk[b].count <= heap[block].count + 1
    BY <1>2, <1>5
  <2>2. Counted(t)'
    BY <1>3 DEF Counted
  <2> QED
    BY <1>1, <1>2, <1>4, <2>1, <2>2 DEF OpenOn
<1>7. AtWork(t)'
  BY <1>1, <1>2, <1>3, <1>4, <1>5 DEF AtWork, BeforeExpiring, Appended, Undamaged
<1>8. OneBusy' /\ NextBlockOpen' /\ \A u \in Threads : AtWork(u)'
  BY <1>1, <1>2, <1>3, <1>6, <1>7, OtherThreads
<1>9. AllCounted' /\ NextBlockReached' /\ Kept' /\ FilledInOrder'
  BY <1>1, <1>2, <1>3, DiskSame
<1> QED
  BY <1>1, <1>8, <1>9 DEF SerialInv

\* The index of the block at work changes, and nothing that was answered is in
\* what changes.
LEMMA IndexChanges ==
  ASSUME TypeInv, SerialInv, serial, NEW t \in Threads, ~AtRest(t),
         \A u \in Threads \ {t} : thread'[u] = thread[u],
         thread'[t].block_id = thread[t].block_id,
         NEW b \in BlockIds, b = block_id, thread[t].block_id = b,
         disk[b].exists, disk'[b].exists, disk'[b].count = disk[b].count,
         \A c \in BlockIds \ {b} : disk'[c] = disk[c],
         \A i \in 1 .. Len(disk[b].index) : i <= 2 * disk[b].count
           => i <= Len(disk'[b].index) /\ disk'[b].index[i] = disk[b].index[i],
         damaged' = damaged \/ damaged' = damaged \cup {Mark(t)},
         Mark(t) = <<b, disk[b].count>>,
         Undamaged(b)' /\ ~Unfinished(b)' => Len(disk'[b].index) = 2 * disk[b].count,
         UNCHANGED <<block_id, block, posted, serial>>
  PROVE  AllCounted' /\ NextBlockReached' /\ Kept' /\ FilledInOrder'
<1>1. /\ \A c \in BlockIds : disk'[c].count = disk[c].count /\ disk'[c].exists = disk[c].exists
      /\ \A c \in BlockIds : disk[c].count \in Nat
  BY DEF TypeInv, TypeOK, Block
<1>2. \A d \in damaged' : d \in damaged \/ (d[1] = b /\ d[2] = disk[b].count)
  OBVIOUS
<1>3. \A c \in BlockIds \ {b} : (Undamaged(c)' <=> Undamaged(c)) /\ ~Unfinished(c) /\ ~Unfinished(c)'
  <2>1. \A c \in BlockIds \ {b} : Undamaged(c)' <=> Undamaged(c)
    BY <1>2 DEF Undamaged
  <2> QED
    BY <2>1, OtherThreads
<1>4. AllCounted'
  <2> SUFFICES ASSUME NEW c \in BlockIds
               PROVE  /\ ~disk'[c].exists => disk'[c].count = 0 /\ Undamaged(c)'
                      /\ \A d \in damaged' : d[1] = c => d[2] <= disk'[c].count
                      /\ Undamaged(c)' /\ ~Unfinished(c)' => Len(disk'[c].index) = 2 * disk'[c].count
    BY DEF AllCounted
  <2>1. \A d \in damaged' : d[1] = c => d[2] <= disk'[c].count
    <3>1. disk[c].count <= disk[c].count
      BY <1>1
    <3> QED
      BY <1>1, <1>2, <3>1 DEF SerialInv, AllCounted
  <2>2. CASE c = b
    BY <1>1, <2>1, <2>2
  <2>3. CASE c # b
    BY <1>1, <1>3, <2>1, <2>3 DEF SerialInv, AllCounted
  <2> QED
    BY <2>2, <2>3
<1>5. NextBlockReached'
  BY <1>1 DEF SerialInv, NextBlockReached
<1>6. Kept'
  <2> SUFFICES ASSUME NEW r \in DOMAIN posted
               PROVE  /\ disk'[r[1]].exists /\ r[2] < disk'[r[1]].count
                      /\ Sound(r)' => Has(r[1], r[2], posted[r])'
    BY DEF Kept
  <2>1. r[1] \in BlockIds /\ r[2] \in Nat
    BY DEF TypeInv, TypeOK
  <2>2. disk[r[1]].exists /\ r[2] < disk[r[1]].count /\ (Sound(r) => Has(r[1], r[2], posted[r]))
    BY DEF SerialInv, Kept
  <2>3. Sound(r)' => Sound(r)
    BY <1>2 DEF Sound
  <2>4. ASSUME Has(r[1], r[2], posted[r]) PROVE Has(r[1], r[2], posted[r])'
    <3>1. CASE r[1] = b
      <4>1. PICK i \in Nat : i = 2 * r[2] + 2
        BY <2>1
      <4>2. i <= Len(disk[b].index) /\ disk[b].index[i] = posted[r] /\ disk[b].index \in Seq(Cells)
        BY <2>4, <3>1, <4>1 DEF Has, TypeInv, TypeOK, Block
      <4>3. i <= 2 * disk[b].count /\ i \in 1 .. Len(disk[b].index)
        BY <1>1, <2>1, <2>2, <3>1, <4>1, <4>2
      <4>4. i <= Len(disk'[b].index) /\ disk'[b].index[i] = posted[r]
        BY <4>2, <4>3
      <4> QED
        BY <3>1, <4>1, <4>4 DEF Has
    <3>2. CASE r[1] # b
      BY <2>1, <2>4, <3>2 DEF Has
    <3> QED
      BY <3>1, <3>2
  <2> QED
    BY <1>1, <2>1, <2>2, <2>3, <2>4
<1>7. FilledInOrder'
  <2> SUFFICES ASSUME NEW c \in BlockIds \ {1}, disk'[c].exists
               PROVE  disk'[c - 1].count >= MaxCount
    BY DEF FilledInOrder
  <2>1. c - 1 \in BlockIds
    BY BoundsAssumption DEF BlockIds
  <2> QED
    BY <1>1, <2>1 DEF SerialInv, FilledInOrder
<1> QED
  BY <1>4, <1>5, <1>6, <1>7

\* The entry comes after all that are counted.
LEMMA SerialWritesEntry ==
  ASSUME TypeInv, SerialInv, serial, NEW t \in Threads, WriteEntry(t)
  PROVE  SerialInv'
<1> DEFINE b == block_id
           p == thread[t].payload
           id == thread[t].record_id
<1>1. /\ thread[t].pc = "entry" /\ Appending(t) /\ Live(thread[t].handle)
      /\ UNCHANGED <<block_id, block, heap, posted, serial, damaged>>
  BY DEF WriteEntry, Appending
<1>2. /\ thread[t].block_id = b /\ b \in BlockIds /\ ~AtRest(t) /\ block # NULL /\ OpenOn(b)
      /\ thread[t].handle = block /\ Target(t) = b /\ disk[b] \in Block /\ disk[b].count \in Nat
      /\ disk[b].index \in Seq(Cells) /\ id \in Nat
  BY <1>1, AppendingBlock
<1>3. p \in Payloads /\ Mark(t) = <<b, disk[b].count>>
  BY <1>1, <1>2, TargetType DEF Mark
<1>4. /\ \A u \in Threads \ {t} : thread'[u] = thread[u]
      /\ thread'[t].pc = "header" /\ thread'[t].block_id = b /\ thread'[t].handle = block
      /\ thread'[t].record_id = id /\ thread'[t].payload = p
  BY <1>2 DEF WriteEntry, TypeInv, TypeOK, Local
<1>5. /\ disk'[b].exists = disk[b].exists /\ disk'[b].count = disk[b].count
      /\ disk'[b].index = disk[b].index \o Entry(p)
      /\ \A c \in BlockIds \ {b} : disk'[c] = disk[c]
  BY <1>2 DEF WriteEntry, TypeInv, TypeOK, Block
<1>6. /\ Len(disk'[b].index) = Len(disk[b].index) + 2 /\ disk'[b].index[Len(disk[b].index) + 2] = p
      /\ \A i \in 1 .. Len(disk[b].index) : disk'[b].index[i] = disk[b].index[i]
      /\ Len(disk[b].index) \in Nat
  <2>1. PICK s \in Seq(Cells) : s = disk[b].index
    BY <1>2
  <2>2. PICK e \in Payloads : e = p
    BY <1>3
  <2>3. /\ Len(s \o Entry(e)) = Len(s) + 2 /\ (s \o Entry(e))[Len(s) + 2] = e
        /\ \A i \in 1 .. Len(s) : (s \o Entry(e))[i] = s[i]
    BY AddedCells
  <2>4. Len(s) \in Nat
    OBVIOUS
  <2>5. disk'[b].index = s \o Entry(e)
    BY <1>5, <2>1, <2>2
  <2> HIDE DEF b, p
  <2> QED
    BY <2>1, <2>2, <2>3, <2>4, <2>5
<1>7. heap[block].count = id + 1 /\ disk[b].count <= id /\ (Undamaged(b) => disk[b].count = id)
  BY <1>1, <1>2 DEF SerialInv, AtWork
<1>8. ASSUME Undamaged(b) PROVE Len(disk'[b].index) = 2 * id + 2 /\ disk'[b].index[2 * id + 2] = p
  <2>1. ~Unfinished(b)
    BY <1>1, <1>2, <1>4, OtherThreads
  <2>2. Len(disk[b].index) = 2 * disk[b].count /\ disk[b].count = id
    BY <1>2, <1>7, <1>8, <2>1 DEF SerialInv, AllCounted
  <2> QED
    BY <1>2, <1>6, <2>2
<1>9. Counted(t)' /\ Unfinished(b)' /\ disk[b].exists
  <2>1. Counted(t)'
    BY <1>4 DEF Counted
  <2>2. Unfinished(b)'
    BY <1>1, <1>4 DEF Unfinished
  <2> QED
    BY <1>2, <2>1, <2>2 DEF OpenOn
<1>10. OpenOn(b)'
  BY <1>1, <1>2, <1>5, <1>9 DEF OpenOn
<1>11. AtWork(t)'
  <2>1. Undamaged(b)' <=> Undamaged(b)
    BY <1>1 DEF Undamaged
  <2>2. 2 * id + 2 <= 2 * id + 2
    BY <1>2
  <2>3. Undamaged(b)' => Len(disk'[b].index) = 2 * id + 2 /\ Has(b, id, p)'
    BY <1>1, <1>4, <1>8, <2>1, <2>2 DEF Has
  <2> QED
    BY <1>1, <1>2, <1>4, <1>5, <1>7, <2>1, <2>3 DEF AtWork, BeforeExpiring, Appended
<1>12. OneBusy' /\ NextBlockOpen' /\ \A u \in Threads : AtWork(u)'
  BY <1>1, <1>2, <1>4, <1>10, <1>11, OtherThreads
<1>13. \A i \in 1 .. Len(disk[b].index) : i <= 2 * disk[b].count
           => i <= Len(disk'[b].index) /\ disk'[b].index[i] = disk[b].index[i]
  BY <1>6
<1>14. AllCounted' /\ NextBlockReached' /\ Kept' /\ FilledInOrder'
  BY <1>1, <1>2, <1>3, <1>4, <1>5, <1>9, <1>13, IndexChanges
<1> QED
  BY <1>1, <1>12, <1>14 DEF SerialInv

\* The block is damaged at its count; what is counted is not touched.
LEMMA SerialShortEntry ==
  ASSUME TypeInv, SerialInv, serial, NEW t \in Threads, ShortEntry(t)
  PROVE  SerialInv'
<1> DEFINE b == block_id
<1>1. /\ thread[t].pc = "entry" /\ Appending(t) /\ Live(thread[t].handle)
      /\ damaged' = damaged \cup {Mark(t)}
      /\ UNCHANGED <<block_id, block, heap, posted, serial>>
  BY DEF ShortEntry, Appending
<1>2. /\ thread[t].block_id = b /\ b \in BlockIds /\ ~AtRest(t) /\ block # NULL /\ OpenOn(b)
      /\ Target(t) = b /\ disk[b] \in Block /\ disk[b].index \in Seq(Cells)
  BY <1>1, AppendingBlock
<1>3. Mark(t) = <<b, disk[b].count>> /\ disk[b].exists
  BY <1>2 DEF Mark, OpenOn
<1>4. /\ \A u \in Threads \ {t} : thread'[u] = thread[u]
      /\ thread'[t].pc = "forward" /\ thread'[t].block_id = b
  BY <1>2 DEF ShortEntry, TypeInv, TypeOK, Local
<1>5. PICK cells \in {<<>>, <<Stamp>>} : disk' = [disk EXCEPT ![b].index = @ \o cells]
  BY <1>2 DEF ShortEntry
<1>6. /\ disk'[b].exists = disk[b].exists /\ disk'[b].count = disk[b].count
      /\ disk'[b].index = disk[b].index \o cells
      /\ \A c \in BlockIds \ {b} : disk'[c] = disk[c]
  BY <1>2, <1>5 DEF TypeInv, TypeOK, Block
<1>7. \A i \in 1 .. Len(disk[b].index) : i <= 2 * disk[b].count
        => i <= Len(disk'[b].index) /\ disk'[b].index[i] = disk[b].index[i]
  <2>1. disk'[b].index \in Seq(Cells) /\ Len(disk'[b].index) >= Len(disk[b].index)
        /\ \A i \in 1 .. Len(disk[b].index) : disk'[b].index[i] = disk[b].index[i]
    <3>1. PICK s \in Seq(Cells) : s = disk[b].index
      BY <1>2
    <3>2. s \o cells \in Seq(Cells) /\ Len(s \o cells) >= Len(s)
          /\ \A i \in 1 .. Len(s) : (s \o cells)[i] = s[i]
      BY TornCells
    <3> QED
      BY <1>6, <3>1, <3>2
  <2>2. Len(disk'[b].index) \in Nat /\ Len(disk[b].index) \in Nat
    BY <1>2, <2>1
  <2> QED
    BY <2>1, <2>2
<1>8. ~Undamaged(b)'
  <2>1. Mark(t) \in damaged' /\ Mark(t)[1] = b
    BY <1>1, <1>3
  <2> QED
    BY <1>1, <2>1 DEF Undamaged
<1>9. OpenOn(b)'
  BY <1>1, <1>2, <1>6, <1>8 DEF OpenOn
<1>10. AtWork(t)'
  BY <1>4 DEF AtWork, BeforeExpiring, Appended
<1>11. OneBusy' /\ NextBlockOpen' /\ \A u \in Threads : AtWork(u)'
  BY <1>1, <1>2, <1>4, <1>9, <1>10, OtherThreads
<1>12. AllCounted' /\ NextBlockReached' /\ Kept' /\ FilledInOrder'
  BY <1>1, <1>2, <1>3, <1>4, <1>6, <1>7, <1>8, IndexChanges
<1> QED
  BY <1>1, <1>11, <1>12 DEF SerialInv

\* The count is taken back to what is on disk, or to where an entry was lost,
\* and the file cut there: what is counted on disk stays.
LEMMA SerialShortHeader ==
  ASSUME TypeInv, SerialInv, serial, NEW t \in Threads, ShortHeader(t)
  PROVE  SerialInv'
<1> DEFINE b == block_id
           id == thread[t].record_id
<1>1. /\ thread[t].pc = "header" /\ Appending(t) /\ Live(thread[t].handle)
      /\ UNCHANGED <<block_id, block, posted, serial, damaged>>
  BY DEF ShortHeader, Appending
<1>2. /\ thread[t].block_id = b /\ b \in BlockIds /\ ~AtRest(t) /\ block # NULL /\ OpenOn(b)
      /\ thread[t].handle = block /\ block \in Handles /\ heap[block] \in Handle
      /\ Target(t) = b /\ disk[b] \in Block /\ disk[b].index \in Seq(Cells)
      /\ disk[b].count \in Nat /\ id \in Nat
  BY <1>1, AppendingBlock
<1>3. Mark(t) = <<b, disk[b].count>> /\ disk[b].exists
  BY <1>2 DEF Mark, OpenOn
<1>4. heap[block].count = id + 1 /\ disk[b].count <= id /\ (Undamaged(b) => disk[b].count = id)
  BY <1>1, <1>2 DEF SerialInv, AtWork
<1>5. heap[block].count - 1 = id
  BY <1>2, <1>4
<1>6. /\ \A u \in Threads \ {t} : thread'[u] = thread[u]
      /\ thread'[t].pc = "forward" /\ thread'[t].block_id = b
  BY <1>2 DEF ShortHeader, TypeInv, TypeOK, Local
<1>7. heap'[block].open /\ heap'[block].of = b /\ heap'[block].count = id
  BY <1>2, <1>5 DEF ShortHeader, TypeInv, TypeOK, Handle, OpenOn
<1>8. disk' = [disk EXCEPT ![b].index = Resized(@, 2 * id)]
  BY <1>2, <1>5 DEF ShortHeader
<1>9. /\ disk'[b].exists = disk[b].exists /\ disk'[b].count = disk[b].count
      /\ disk'[b].index = Resized(disk[b].index, 2 * id)
      /\ \A c \in BlockIds \ {b} : disk'[c] = disk[c]
  BY <1>2, <1>8 DEF TypeInv, TypeOK, Block
<1>10. Len(disk'[b].index) = 2 * id
       /\ \A i \in 1 .. 2 * id : i <= Len(disk[b].index) => disk'[b].index[i] = disk[b].index[i]
  <2>1. PICK n \in Nat : n = 2 * id
    BY <1>2
  <2>2. PICK s \in Seq(Cells) : s = disk[b].index
    BY <1>2
  <2>3. Len(Resized(s, n)) = n /\ \A i \in 1 .. n : i <= Len(s) => Resized(s, n)[i] = s[i]
    BY ResizedCells
  <2> HIDE DEF b, id
  <2> QED
    BY <1>9, <2>1, <2>2, <2>3
<1>11. \A i \in 1 .. Len(disk[b].index) : i <= 2 * disk[b].count
         => i <= Len(disk'[b].index) /\ disk'[b].index[i] = disk[b].index[i]
  <2> SUFFICES ASSUME NEW i \in 1 .. Len(disk[b].index), i <= 2 * disk[b].count
               PROVE  i <= Len(disk'[b].index) /\ disk'[b].index[i] = disk[b].index[i]
    OBVIOUS
  <2>1. Len(disk[b].index) \in Nat
    BY <1>2
  <2>2. i \in 1 .. 2 * id /\ i <= Len(disk[b].index) /\ i <= 2 * id
    BY <1>2, <1>4, <2>1
  <2> QED
    BY <1>10, <2>2
<1>12. OpenOn(b)'
  BY <1>1, <1>2, <1>3, <1>4, <1>7, <1>9 DEF OpenOn, Undamaged
<1>13. AtWork(t)'
  BY <1>6 DEF AtWork, BeforeExpiring, Appended
<1>14. OneBusy' /\ NextBlockOpen' /\ \A u \in Threads : AtWork(u)'
  BY <1>1, <1>2, <1>6, <1>12, <1>13, OtherThreads
<1>15. Undamaged(b)' => Len(disk'[b].index) = 2 * disk[b].count
  BY <1>1, <1>4, <1>10 DEF Undamaged
<1>16. AllCounted' /\ NextBlockReached' /\ Kept' /\ FilledInOrder'
  BY <1>1, <1>2, <1>3, <1>6, <1>9, <1>11, <1>15, IndexChanges
<1> QED
  BY <1>1, <1>14, <1>16 DEF SerialInv

\* The header counts the record that was written: nobody was answered with its
\* id, and if nothing was damaged before, its entry is where that id leads.
LEMMA SerialWritesHeader ==
  ASSUME TypeInv, SerialInv, serial, NEW t \in Threads, WriteHeader(t)
  PROVE  SerialInv'
<1>1. /\ thread[t].pc = "header" /\ Appending(t) /\ Live(thread[t].handle)
      /\ UNCHANGED <<block_id, block, heap, serial, damaged>>
  BY DEF WriteHeader, Appending
<1>2. PICK b, id, p : b = block_id /\ id = thread[t].record_id /\ p = thread[t].payload
  OBVIOUS
<1>3. /\ thread[t].block_id = b /\ b \in BlockIds /\ ~AtRest(t) /\ block # NULL /\ OpenOn(b)
      /\ thread[t].handle = block /\ Target(t) = b /\ disk[b] \in Block /\ disk[b].count \in Nat
      /\ id \in Nat
  BY <1>1, <1>2, AppendingBlock
<1>4. heap[block].count = id + 1 /\ disk[b].count <= id
      /\ (Undamaged(b) => disk[b].count = id /\ Len(disk[b].index) = 2 * id + 2 /\ Has(b, id, p))
  BY <1>1, <1>2, <1>3 DEF SerialInv, AtWork
<1>5. /\ disk'[b].exists /\ disk'[b].count = id + 1 /\ disk'[b].index = disk[b].index
      /\ \A c \in BlockIds \ {b} : disk'[c] = disk[c]
  BY <1>3, <1>4 DEF WriteHeader, TypeInv, TypeOK, Block, OpenOn
<1>6. /\ (OverLimit(id + 1) /\ Goto(t, "expire") /\ UNCHANGED posted) \/ Answer(t)
      /\ \A u \in Threads \ {t} : thread'[u] = thread[u]
      /\ thread'[t].pc \in {"expire", "idle"}
  <2>1. thread[t] \in Local /\ thread \in [Threads -> Local]
    BY DEF TypeInv, TypeOK
  <2>2. (OverLimit(id + 1) /\ Goto(t, "expire") /\ UNCHANGED posted) \/ Answer(t)
    BY <1>2 DEF WriteHeader
  <2>3. CASE Goto(t, "expire")
    BY <2>1, <2>2, <2>3 DEF Local
  <2>4. CASE Answer(t)
    BY <2>1, <2>2, <2>4 DEF Answer, Idle
  <2> QED
    BY <2>2, <2>3, <2>4
<1>7. \A c \in BlockIds : (Undamaged(c)' <=> Undamaged(c)) /\ ~Unfinished(c)'
      /\ (c # b => ~Unfinished(c))
  BY <1>1, <1>3, <1>6, OtherThreads DEF Undamaged
<1>8. \A r : Sound(r)' <=> Sound(r)
  BY <1>1 DEF Sound
<1>9. \A c \in BlockIds : disk[c].count \in Nat /\ disk'[c].count >= disk[c].count
                          /\ disk'[c].exists = disk[c].exists /\ disk'[c].index = disk[c].index
  <2> SUFFICES ASSUME NEW c \in BlockIds
               PROVE  disk[c].count \in Nat /\ disk'[c].count >= disk[c].count
                      /\ disk'[c].exists = disk[c].exists /\ disk'[c].index = disk[c].index
    OBVIOUS
  <2>1. disk[c].count \in Nat
    BY DEF TypeInv, TypeOK, Block
  <2>2. CASE c = b
    BY <1>3, <1>4, <1>5, <2>1, <2>2 DEF OpenOn
  <2>3. CASE c # b
    BY <1>5, <2>1, <2>3
  <2> QED
    BY <2>2, <2>3
<1>10. <<b, id>> \notin DOMAIN posted
  <2> SUFFICES ASSUME <<b, id>> \in DOMAIN posted PROVE FALSE
    OBVIOUS
  <2>1. PICK r \in DOMAIN posted : r = <<b, id>>
    OBVIOUS
  <2>2. r[2] < disk[r[1]].count
    BY DEF SerialInv, Kept
  <2>3. id < disk[b].count
    BY <2>1, <2>2
  <2> QED
    BY <1>3, <1>4, <2>3
<1>11. Sound(<<b, id>>) => Has(b, id, p)
  <2>1. CASE Undamaged(b)
    BY <1>4, <2>1
  <2>2. CASE ~Undamaged(b)
    <3>1. PICK d \in damaged : d[1] = b
      BY <2>2 DEF Undamaged
    <3>2. d[2] <= disk[b].count /\ d[2] \in Nat
      BY <1>3, <3>1 DEF SerialInv, AllCounted, TypeInv, TypeOK
    <3>3. ~(id < d[2])
      BY <1>3, <1>4, <3>2
    <3> QED
      BY <3>1, <3>3 DEF Sound
  <2> QED
    BY <2>1, <2>2
<1>12. AllCounted'
  <2> SUFFICES ASSUME NEW c \in BlockIds
               PROVE  /\ ~disk'[c].exists => disk'[c].count = 0 /\ Undamaged(c)'
                      /\ \A d \in damaged : d[1] = c => d[2] <= disk'[c].count
                      /\ Undamaged(c)' /\ ~Unfinished(c)' => Len(disk'[c].index) = 2 * disk'[c].count
    BY <1>1 DEF AllCounted
  <2>1. ASSUME NEW d \in damaged, d[1] = c PROVE d[2] <= disk'[c].count
    <3>1. d[2] <= disk[c].count /\ d[2] \in Nat /\ disk'[c].count \in Nat
      <4>1. disk'[c].count \in Nat
        BY <1>3, <1>5, <1>9
      <4> QED
        BY <2>1, <4>1 DEF SerialInv, AllCounted, TypeInv, TypeOK
    <3> QED
      BY <1>9, <3>1
  <2>2. CASE c = b
    <3>1. Undamaged(b) => Len(disk'[b].index) = 2 * (id + 1)
      BY <1>3, <1>4, <1>5
    <3> QED
      BY <1>5, <1>7, <2>1, <2>2, <3>1
  <2>3. CASE c # b
    BY <1>5, <1>7, <2>1, <2>3 DEF SerialInv, AllCounted
  <2> QED
    BY <2>2, <2>3
<1>13. NextBlockReached' /\ FilledInOrder'
  <2>1. \A c \in BlockIds : disk[c].count >= MaxCount => disk'[c].count >= MaxCount
    <3> SUFFICES ASSUME NEW c \in BlockIds, disk[c].count >= MaxCount PROVE disk'[c].count >= MaxCount
      OBVIOUS
    <3>1. disk'[c].count \in Nat
      BY <1>3, <1>5, <1>9
    <3> QED
      BY <1>9, <3>1, BoundsAssumption
  <2>2. NextBlockReached'
    BY <1>1, <2>1 DEF SerialInv, NextBlockReached
  <2>3. ASSUME NEW c \in BlockIds \ {1}, disk'[c].exists PROVE disk'[c - 1].count >= MaxCount
    <3>1. c - 1 \in BlockIds
      BY BoundsAssumption DEF BlockIds
    <3> QED
      BY <1>9, <2>1, <2>3, <3>1 DEF SerialInv, FilledInOrder
  <2> QED
    BY <2>2, <2>3 DEF FilledInOrder
<1>14. ASSUME NEW r \in DOMAIN posted
       PROVE  /\ disk'[r[1]].exists /\ r[2] < disk'[r[1]].count
              /\ Sound(r)' => Has(r[1], r[2], posted[r])'
  <2>1. r[1] \in BlockIds /\ r[2] \in Nat
    BY DEF TypeInv, TypeOK
  <2>2. disk[r[1]].exists /\ r[2] < disk[r[1]].count /\ (Sound(r) => Has(r[1], r[2], posted[r]))
    BY DEF SerialInv, Kept
  <2>3. disk'[r[1]].exists /\ disk'[r[1]].index = disk[r[1]].index
        /\ disk[r[1]].count \in Nat /\ disk'[r[1]].count >= disk[r[1]].count
    BY <1>9, <2>1, <2>2
  <2>4. disk'[r[1]].count \in Nat
    BY <1>3, <1>5, <2>1, <2>3
  <2>5. r[2] < disk'[r[1]].count
    BY <2>1, <2>2, <2>3, <2>4
  <2>6. Sound(r)' => disk'[r[1]].index[2 * r[2] + 2] = posted[r]
                     /\ 2 * r[2] + 2 <= Len(disk'[r[1]].index)
    BY <1>8, <2>2, <2>3 DEF Has
  <2>7. Sound(r)' => 2 * r[2] + 2 <= Len(disk'[r[1]].index) /\ disk'[r[1]].index[2 * r[2] + 2] = posted[r]
    BY <2>6
  <2>8. CASE posted'[r] = posted[r]
    BY <2>3, <2>5, <2>7, <2>8 DEF Has
  <2>9. CASE posted'[r] # posted[r]
    <3>1. Answer(t) /\ r = <<thread[t].block_id, thread[t].record_id>>
      BY <1>6, <2>9 DEF Answer
    <3> QED
      BY <1>2, <1>3, <1>10, <3>1
  <2> QED
    BY <2>8, <2>9
<1>15. AtWork(t)' /\ Kept'
  <2>1. CASE OverLimit(id + 1) /\ Goto(t, "expire") /\ UNCHANGED posted
    <3>1. /\ thread'[t].pc = "expire" /\ thread'[t].record_id = id /\ thread'[t].block_id = b
          /\ thread'[t].payload = p
      BY <1>2, <1>3, <2>1 DEF TypeInv, TypeOK, Local
    <3>2. Sound(<<b, id>>)' => Has(b, id, p)'
      <4>1. disk'[b].index = disk[b].index
        BY <1>5
      <4> HIDE DEF Goto
      <4> QED
        BY <1>8, <1>11, <4>1 DEF Has
    <3>3. id + 1 >= MaxCount
      BY <2>1 DEF OverLimit
    <3>4. block_id' = b /\ block' # NULL /\ <<b, id>> \notin DOMAIN posted'
      BY <1>1, <1>2, <1>3, <1>10, <2>1
    <3>5. AtWork(t)'
      BY <1>5, <3>1, <3>2, <3>3, <3>4 DEF AtWork, BeforeExpiring, Appended
    <3>6. Kept'
      BY <1>14, <2>1 DEF Kept
    <3> QED
      BY <3>5, <3>6
  <2>2. CASE Answer(t)
    <3>1. thread'[t].pc = "idle"
      BY <2>2 DEF Answer, Idle, TypeInv, TypeOK
    <3>2. AtWork(t)'
      BY <3>1 DEF AtWork, BeforeExpiring, Appended
    <3>3. DOMAIN posted' = DOMAIN posted \cup {<<b, id>>}
          /\ \A r \in DOMAIN posted' : posted'[r] = IF r = <<b, id>> THEN p ELSE posted[r]
      BY <1>2, <1>3, <2>2 DEF Answer
    <3>4. ASSUME NEW r \in DOMAIN posted'
          PROVE  /\ disk'[r[1]].exists /\ r[2] < disk'[r[1]].count
                 /\ Sound(r)' => Has(r[1], r[2], posted[r])'
      <4>1. CASE r = <<b, id>>
        <5>1. r[1] = b /\ r[2] = id /\ posted'[r] = p /\ id < id + 1
          BY <1>3, <3>3, <4>1
        <5>2. Sound(r)' => 2 * id + 2 <= Len(disk'[b].index) /\ disk'[b].index[2 * id + 2] = p
          BY <1>5, <1>8, <1>11, <4>1 DEF Has
        <5> QED
          BY <1>5, <5>1, <5>2 DEF Has
      <4>2. CASE r # <<b, id>>
        BY <1>14, <3>3, <4>2
      <4> QED
        BY <4>1, <4>2
    <3>5. Kept'
      BY <3>4 DEF Kept
    <3> QED
      BY <3>2, <3>5
  <2> QED
    BY <1>6, <2>1, <2>2
<1>16. OpenOn(b)'
  <2>1. Undamaged(b)' <=> Undamaged(b)
    BY <1>3, <1>7
  <2>2. id + 1 <= id + 1
    BY <1>3
  <2> QED
    BY <1>1, <1>3, <1>4, <1>5, <2>2 DEF OpenOn
<1>17. OneBusy' /\ NextBlockOpen' /\ \A u \in Threads : AtWork(u)'
  BY <1>1, <1>2, <1>3, <1>6, <1>15, <1>16, OtherThreads
<1> QED
  BY <1>1, <1>12, <1>13, <1>15, <1>17 DEF SerialInv

\* The block that is expired is full: the next one may be begun.
LEMMA SerialExpires ==
  ASSUME TypeInv, SerialInv, serial, NEW t \in Threads, ExpireStore(t)
  PROVE  SerialInv'
<1> DEFINE b == block_id
<1>1. thread[t].pc = "expire_store" /\ thread[t].block_id = b /\ b \in BlockIds /\ ~AtRest(t)
      /\ (block # NULL => OpenOn(b))
  BY WorkingBlock DEF ExpireStore, BeforeExpiring
<1>2. /\ thread[t].loaded = b /\ block # NULL
      /\ disk[b].exists /\ disk[b].count >= MaxCount /\ disk[b].count = thread[t].record_id + 1
      /\ Sound(<<b, thread[t].record_id>>) => Has(b, thread[t].record_id, thread[t].payload)
      /\ <<b, thread[t].record_id>> \notin DOMAIN posted
  BY <1>1 DEF SerialInv, AtWork, Appended
<1>3. block_id' = b + 1 /\ UNCHANGED <<disk, block, heap, posted, serial, damaged>>
  BY <1>2 DEF ExpireStore
<1>4. /\ \A u \in Threads \ {t} : thread'[u] = thread[u]
      /\ thread'[t].pc = "close" /\ thread'[t].block_id = thread[t].block_id
      /\ thread'[t].record_id = thread[t].record_id /\ thread'[t].payload = thread[t].payload
  BY DEF ExpireStore, TypeInv, TypeOK, Local
<1>5. (b + 1) - 1 = b /\ b \in Nat
  BY <1>1, BoundsAssumption DEF BlockIds
<1>6. OpenOn(thread[t].block_id)'
  <2>1. \A u \in Threads : ~Counted(u)
    BY <1>1, <1>4, OtherThreads DEF Counted
  <2> QED
    BY <1>1, <1>2, <1>3, <1>4, <2>1 DEF OpenOn, Undamaged
<1>7. AtWork(t)'
  BY <1>1, <1>2, <1>3, <1>4, <1>6 DEF AtWork, BeforeExpiring, Appended, Sound, Has
<1>8. OneBusy' /\ NextBlockOpen' /\ \A u \in Threads : AtWork(u)'
  BY <1>1, <1>4, <1>7, OtherThreads
<1>9. NextBlockReached'
  BY <1>1, <1>2, <1>3, <1>5 DEF NextBlockReached
<1>10. AllCounted' /\ Kept' /\ FilledInOrder'
  BY <1>1, <1>3, <1>4, DiskSame
<1> QED
  BY <1>3, <1>8, <1>9, <1>10 DEF SerialInv

\* The handle is closed; what is on disk stays.
LEMMA SerialCloses ==
  ASSUME TypeInv, SerialInv, serial, NEW t \in Threads, CloseBlock(t)
  PROVE  SerialInv'
<1>1. thread[t].pc = "close" /\ ~AtRest(t) /\ UNCHANGED <<disk, block_id, block, posted, serial, damaged>>
  BY DEF CloseBlock, AtRest
<1>2. /\ \A u \in Threads \ {t} : thread'[u] = thread[u]
      /\ thread'[t].pc = "clear" /\ thread'[t].block_id = thread[t].block_id
      /\ thread'[t].record_id = thread[t].record_id /\ thread'[t].payload = thread[t].payload
  BY DEF CloseBlock, TypeInv, TypeOK, Local
<1>3. AtWork(t)
  BY DEF SerialInv
<1>4. AtWork(t)'
  BY <1>1, <1>2, <1>3 DEF AtWork, BeforeExpiring, Appended, Sound, Has
<1>5. OneBusy' /\ NextBlockOpen' /\ \A u \in Threads : AtWork(u)'
  BY <1>1, <1>2, <1>4, OtherThreads
<1>6. AllCounted' /\ NextBlockReached' /\ Kept' /\ FilledInOrder'
  BY <1>1, <1>2, DiskSame
<1> QED
  BY <1>1, <1>5, <1>6 DEF SerialInv

\* The record that filled the block is answered.
LEMMA SerialClears ==
  ASSUME TypeInv, SerialInv, serial, NEW t \in Threads, ClearBlock(t)
  PROVE  SerialInv'
<1>1. thread[t].pc = "clear" /\ ~AtRest(t) /\ block' = NULL
      /\ UNCHANGED <<disk, block_id, heap, serial, damaged>> /\ Answer(t)
  BY DEF ClearBlock, AtRest
<1>2. thread'[t].pc = "idle" /\ \A u \in Threads \ {t} : thread'[u] = thread[u]
  BY <1>1 DEF Answer, Idle, TypeInv, TypeOK
<1>3. PICK b, id, p : b = thread[t].block_id /\ id = thread[t].record_id /\ p = thread[t].payload
  OBVIOUS
<1>4. b \in BlockIds /\ id \in Nat
  BY <1>1, <1>3 DEF TypeInv, TypeOK, InCall, Local
<1>5. disk[b].exists /\ disk[b].count = id + 1 /\ (Sound(<<b, id>>) => Has(b, id, p))
  BY <1>1, <1>3 DEF SerialInv, AtWork, Appended
<1>6. DOMAIN posted' = DOMAIN posted \cup {<<b, id>>}
      /\ \A r \in DOMAIN posted' : posted'[r] = IF r = <<b, id>> THEN p ELSE posted[r]
  BY <1>1, <1>3 DEF Answer
<1>7. Kept'
  <2> SUFFICES ASSUME NEW r \in DOMAIN posted'
               PROVE  /\ disk[r[1]].exists /\ r[2] < disk[r[1]].count
                      /\ Sound(r) => Has(r[1], r[2], posted'[r])
    BY <1>1 DEF Kept, Sound, Has
  <2>1. CASE r = <<b, id>>
    <3>1. r[1] = b /\ r[2] = id /\ posted'[r] = p /\ id < id + 1
      BY <1>4, <1>6, <2>1
    <3> QED
      BY <1>5, <2>1, <3>1
  <2>2. CASE r # <<b, id>>
    <3>1. r \in DOMAIN posted /\ posted'[r] = posted[r]
      BY <1>6, <2>2
    <3> QED
      BY <3>1 DEF SerialInv, Kept
  <2> QED
    BY <2>1, <2>2
<1>8. AtWork(t)'
  BY <1>2 DEF AtWork, BeforeExpiring, Appended
<1>9. OneBusy' /\ NextBlockOpen' /\ \A u \in Threads : AtWork(u)'
  BY <1>1, <1>2, <1>8, OtherThreads
<1>10. AllCounted' /\ NextBlockReached' /\ FilledInOrder'
  BY <1>1, <1>2, DiskSame
<1> QED
  BY <1>1, <1>7, <1>9, <1>10 DEF SerialInv

\* A new process begins again at the first block, with none open; the block
\* that has an entry it does not count is damaged there.
LEMMA SerialDies ==
  ASSUME TypeInv, SerialInv, ProcessDies
  PROVE  SerialInv'
<1>1. block_id' = 1 /\ block' = NULL /\ (\A t \in Threads : thread'[t].pc = "idle")
      /\ UNCHANGED <<disk, posted, serial>>
  BY DEF ProcessDies, FirstBlockId, Idle
<1>2. OneBusy' /\ NextBlockOpen' /\ NextBlockReached'
  BY <1>1 DEF OneBusy, AtRest, NextBlockOpen, NextBlockReached
<1>3. \A t \in Threads : AtWork(t)'
  BY <1>1 DEF AtWork, BeforeExpiring, Appended
<1>4. ASSUME serial PROVE AllCounted' /\ Kept' /\ FilledInOrder'
  <2>1. \A t \in Threads : thread[t].pc = "header"
          => /\ thread[t].block_id = block_id /\ disk[block_id].exists /\ Live(thread[t].handle)
             /\ Mark(t) = <<block_id, disk[block_id].count>>
    <3> SUFFICES ASSUME NEW t \in Threads, thread[t].pc = "header"
                 PROVE  /\ thread[t].block_id = block_id /\ disk[block_id].exists
                        /\ Live(thread[t].handle) /\ Mark(t) = <<block_id, disk[block_id].count>>
      OBVIOUS
    <3>1. /\ thread[t].block_id = block_id /\ OpenOn(block_id) /\ thread[t].handle = block
          /\ Live(block) /\ Target(t) = block_id
      BY <1>4, AppendingBlock DEF Appending
    <3> QED
      BY <3>1 DEF Mark, OpenOn
  <2>2. damaged' = damaged \cup {Mark(t) : t \in {u \in Threads : At(u, "header") /\ Live(thread[u].handle)}}
    BY DEF ProcessDies
  <2>3. \A d \in damaged' : d \in damaged \/ (d[1] = block_id /\ d[2] = disk[block_id].count /\ disk[block_id].exists)
    BY <2>1, <2>2
  <2>4. \A c \in BlockIds : Undamaged(c)' => Undamaged(c) /\ ~Unfinished(c)
    <3> SUFFICES ASSUME NEW c \in BlockIds, Undamaged(c)' PROVE Undamaged(c) /\ ~Unfinished(c)
      OBVIOUS
    <3>1. Undamaged(c)
      BY <2>2 DEF Undamaged
    <3>2. ASSUME NEW t \in Threads, thread[t].pc = "header", thread[t].block_id = c PROVE FALSE
      <4>1. Mark(t) \in damaged' /\ Mark(t)[1] = c
        BY <2>1, <2>2, <3>2
      <4> QED
        BY <4>1 DEF Undamaged
    <3> QED
      BY <3>1, <3>2 DEF Unfinished
  <2>5. AllCounted'
    <3> SUFFICES ASSUME NEW c \in BlockIds
                 PROVE  /\ ~disk[c].exists => disk[c].count = 0 /\ Undamaged(c)'
                        /\ \A d \in damaged' : d[1] = c => d[2] <= disk[c].count
                        /\ Undamaged(c)' => Len(disk[c].index) = 2 * disk[c].count
      BY <1>1 DEF AllCounted
    <3>1. disk[c].count \in Nat /\ disk[c].count <= disk[c].count
      BY DEF TypeInv, TypeOK, Block
    <3>2. ~disk[c].exists => Undamaged(c)'
      <4>1. ~disk[c].exists => Undamaged(c)
        BY <1>4 DEF SerialInv, AllCounted
      <4> QED
        BY <2>3, <4>1 DEF Undamaged
    <3> QED
      BY <1>4, <2>3, <2>4, <3>1, <3>2 DEF SerialInv, AllCounted
  <2>6. \A r : Sound(r)' => Sound(r)
    BY <2>2 DEF Sound
  <2>7. Kept'
    <3> SUFFICES ASSUME NEW r \in DOMAIN posted
                 PROVE  /\ disk[r[1]].exists /\ r[2] < disk[r[1]].count
                        /\ Sound(r)' => Has(r[1], r[2], posted[r])
      BY <1>1 DEF Kept, Has
    <3> QED
      BY <1>4, <2>6 DEF SerialInv, Kept
  <2> QED
    BY <1>1, <1>4, <2>5, <2>7 DEF SerialInv, FilledInOrder
<1> QED
  BY <1>1, <1>2, <1>3, <1>4 DEF SerialInv

LEMMA SerialInvStep ==
  ASSUME TypeInv, SerialInv, [Next]_vars
  PROVE  SerialInv'
<1>1. ASSUME NEW t \in Threads, NEW p \in Payloads, GetBlockId(t, p) PROVE SerialInv'
  BY <1>1, SerialBegins
<1>2. ASSUME ProcessDies PROVE SerialInv'
  BY <1>2, SerialDies
<1>3. ASSUME NEW t \in Threads, Step(t), ~ProcessDies, ~\E p \in Payloads : GetBlockId(t, p)
      PROVE  SerialInv'
  <2>1. \/ CheckBlock(t) \/ RecheckBlock(t) \/ LoadBlock(t) \/ WriteData(t) \/ AppendFails(t)
        \/ ExpireLoad(t) \/ OpenExisting(t) \/ Reopen(t) \/ CreateBlock(t) \/ CountUp(t)
        \/ WriteEntry(t) \/ ShortEntry(t) \/ WriteHeader(t) \/ ShortHeader(t)
        \/ ExpireStore(t) \/ CloseBlock(t) \/ ClearBlock(t)
    BY <1>3 DEF Step, UseAfterClose, ForwardAborts
  <2>2. serial' = serial
    BY <2>1 DEF CheckBlock, RecheckBlock, LoadBlock, WriteData, AppendFails, ExpireLoad, OpenExisting,
                Reopen, CreateBlock, CountUp, WriteEntry, ShortEntry, WriteHeader, ShortHeader,
                ExpireStore, CloseBlock, ClearBlock
  <2>3. CASE serial
    BY <2>1, <2>3, SerialMoves, SerialOpens, SerialCreates, SerialCountsUp, SerialWritesEntry,
       SerialShortEntry, SerialWritesHeader, SerialShortHeader, SerialExpires, SerialCloses, SerialClears
  <2>4. CASE ~serial
    BY <2>2, <2>4 DEF SerialInv
  <2> QED
    BY <2>3, <2>4
<1>4. CASE UNCHANGED vars
  BY <1>4 DEF vars, SerialInv, OneBusy, AtRest, AllCounted, Undamaged, Unfinished, NextBlockOpen, OpenOn,
              Counted, NextBlockReached, AtWork, Kept, Sound, Has, FilledInOrder
<1> QED
  BY <1>1, <1>2, <1>3, <1>4 DEF Next, Restart

LEMMA SerialInvInit == Init => SerialInv
<1> SUFFICES ASSUME Init PROVE SerialInv
  OBVIOUS
<1>1. /\ \A t \in Threads : thread[t].pc = "idle"
      /\ \A b \in BlockIds : disk[b] = NoBlock
      /\ block_id = 1 /\ block = NULL /\ DOMAIN posted = {} /\ damaged = {}
  BY DEF Init, Idle, FirstBlockId
<1>2. ~NoBlock.exists /\ NoBlock.count = 0 /\ Len(NoBlock.index) = 0
  BY DEF NoBlock
<1>3. OneBusy /\ NextBlockOpen /\ NextBlockReached /\ \A t \in Threads : AtWork(t)
  BY <1>1 DEF OneBusy, AtRest, NextBlockOpen, NextBlockReached, AtWork, BeforeExpiring, Appended
<1>4. AllCounted /\ Kept /\ FilledInOrder
  BY <1>1, <1>2 DEF AllCounted, Undamaged, Kept, FilledInOrder
<1> QED
  BY <1>3, <1>4 DEF SerialInv

\* As long as no two requests overlap, whatever a client was answered with
\* returns what it posted, at any later time, through any number of full
\* blocks, short writes of data, entry or header, and deaths between any two
\* of them: sea_controller_write answers with the block it appended to, and no
\* later append, rollback or sea_block_create takes the record away.  Nothing
\* is claimed of the records of a block from the first entry that was lost or
\* orphaned in it on (damaged): sea_block_index_append misplaces those.
THEOREM SerialPostsReadable == Spec => []SerialPostedReadable
<1>1. TypeInv /\ SerialInv => SerialPostedReadable
  <2> SUFFICES ASSUME TypeInv, SerialInv, serial, NEW r \in DOMAIN posted,
                      \A d \in damaged : d[1] = r[1] => r[2] < d[2]
               PROVE  LocalRead(r[1], r[2]) = posted[r]
    BY DEF SerialPostedReadable
  <2>1. Sound(r)
    BY DEF Sound
  <2>2. disk[r[1]].exists /\ r[2] < disk[r[1]].count /\ Has(r[1], r[2], posted[r])
    BY <2>1 DEF SerialInv, Kept
  <2> QED
    BY <2>2 DEF LocalRead, Has
<1> QED
  BY <1>1, TypeInvInit, TypeInvStep, SerialInvInit, SerialInvStep, PTL DEF Spec

\* Without overlapping requests no block is begun before the one below it holds
\* SEA_BLOCK_MAX_COUNT records, although every start of the server begins
\* again at the first block, and whatever write was short.
THEOREM BlocksFilledInOrder == Spec => []BlocksFillInOrder
<1>1. SerialInv => BlocksFillInOrder
  BY DEF SerialInv, FilledInOrder, BlocksFillInOrder
<1> QED
  BY <1>1, TypeInvInit, TypeInvStep, SerialInvInit, SerialInvStep, PTL DEF Spec

\* No step begins a history without overlaps.
LEMMA StaysOverlapped ==
  ASSUME [Next]_vars, serial'
  PROVE  serial
<1>1. CASE UNCHANGED vars
  BY <1>1 DEF vars
<1>2. ASSUME NEW t \in Threads, Step(t) PROVE serial
  BY <1>2 DEF Step, GetBlockId, CheckBlock, RecheckBlock, LoadBlock, WriteData, AppendFails, ExpireLoad,
              OpenExisting, Reopen, CreateBlock, CountUp, WriteEntry, ShortEntry, WriteHeader, ShortHeader,
              ExpireStore, CloseBlock, ClearBlock, UseAfterClose, ForwardAborts, ProcessDies
<1>3. CASE Restart
  BY <1>3 DEF Restart, ProcessDies
<1> QED
  BY <1>1, <1>2, <1>3 DEF Next

\* The ids a thread is about to answer with are new.
LEMMA IdsNew ==
  ASSUME TypeInv, SerialInv, serial, NEW t \in Threads, thread[t].pc \in {"header", "clear"}
  PROVE  <<thread[t].block_id, thread[t].record_id>> \notin DOMAIN posted
<1>1. CASE thread[t].pc = "clear"
  BY <1>1 DEF SerialInv, AtWork, Appended
<1>2. CASE thread[t].pc = "header"
  <2> SUFFICES ASSUME NEW r \in DOMAIN posted, r = <<thread[t].block_id, thread[t].record_id>>
               PROVE  FALSE
    OBVIOUS
  <2>1. thread[t].block_id \in BlockIds /\ thread[t].record_id \in Nat
    BY <1>2 DEF TypeInv, TypeOK, InCall, Local
  <2>2. disk[thread[t].block_id].count \in Nat
    BY <2>1 DEF TypeInv, TypeOK, Block
  <2>3. disk[thread[t].block_id].count <= thread[t].record_id
    BY <1>2 DEF SerialInv, AtWork
  <2>4. r[2] < disk[r[1]].count
    BY DEF SerialInv, Kept
  <2>5. thread[t].record_id < disk[thread[t].block_id].count
    BY <2>4
  <2> QED
    BY <2>1, <2>2, <2>3, <2>5
<1> QED
  BY <1>1, <1>2

\* Without overlapping requests no two clients are answered with the same block
\* id and record id: the count that sea_block_append takes the id from is
\* never behind the one on disk, and a restart goes back to blocks it then
\* finds full.
THEOREM IdsNeverReused == Spec => IdsUnique
<1>1. ASSUME TypeInv, SerialInv, [Next]_vars
      PROVE  [serial' => \A t \in Threads :
                /\ thread[t].pc \in {"header", "clear"} /\ thread'[t].pc = "idle" /\ restarts' = restarts
                => <<thread[t].block_id, thread[t].record_id>> \notin DOMAIN posted]_vars
  BY <1>1, StaysOverlapped, IdsNew
<1> QED
  BY <1>1, TypeInvInit, TypeInvStep, SerialInvInit, SerialInvStep, PTL DEF Spec, IdsUnique
=============================================================================
