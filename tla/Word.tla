--------------------------------- MODULE Word --------------------------------
(***************************************************************************)
(* The inverted word files (src/src/block/word): one column of document    *)
(* ids per word.  A word is created under the hash of the name kept in the *)
(* header, which is cut; it is opened and destroyed under the hash of the  *)
(* whole word.  A path stands for the hash of the name it is called after. *)
(***************************************************************************)
EXTENDS ColArray

CONSTANTS
  Words,    \* the words callers use
  Length,   \* per word, its length
  Prefix,   \* per word, its first 31 characters, as a path
  Stray     \* the hash of a name that runs on into other memory

ASSUME WordAssumption ==
  /\ Words \subseteq Paths /\ Stray \in Paths \ Words
  /\ Length \in [Words -> Nat] /\ Prefix \in [Words -> Paths]

\* sea_word_create cuts words of more than 32 characters to 31.  One of 32
\* leaves no room for a terminator: its hash takes in what follows in memory.
CreatePaths(w) ==
  CASE Length[w] > 32 -> {Prefix[w]}
    [] Length[w] = 32 -> {w, Stray}
    [] Length[w] < 32 -> {w}

Init == ColInit

WordCreate(w) == \E path \in CreatePaths(w) : Create(path)
WordDestroy(w) == Destroy(w)
WordOpen(h, w) == Open(h, w)
WordClose(h) == Close(h)
InsertDoc(h, batch) == AppendData(h, batch)

\* sea_word_find_doc_by_words_forward: the ids of the first documents.
FindForward(path, limit, room) == Read(path, 0, limit, room)
\* sea_word_find_doc_by_words_backward succeeds and finds nothing.
FindBackward(path, limit, room) == <<>>

Next ==
  \/ \E w \in Words : WordCreate(w) \/ WordDestroy(w) \/ \E h \in Handles : WordOpen(h, w)
  \/ \E h \in Handles :
       WordClose(h) \/ UseUnusable(h) \/ \E b \in Batches : InsertDoc(h, b)
  \/ AppendUndo \/ AppendHeader \/ Crash

Spec == Init /\ [][Next]_vars

-----------------------------------------------------------------------------
(* Properties.                                                             *)

\* Files are cells, handles are open on a path with a count in 32 bits, and an
\* append under way belongs to an open handle.
TypeOK ==
  /\ \A p \in Paths : file[p].exists \in BOOLEAN
  /\ \A h \in Handles : /\ handle[h].state \in {"closed", "open", "unusable"}
                        /\ handle[h].count \in 0 .. UintMod - 1
  /\ op.pc # "idle" => handle[op.handle].state = "open" /\ handle[op.handle].path = op.path
                       /\ op.offset >= HEADER

Quiet(path) == Whole(path) /\ ~(op.pc # "idle" /\ op.path = path)

\* As long as no append on a column was interrupted or wrongly acknowledged,
\* a read of [start, stop) returns exactly the acknowledged documents of that
\* range, in order, as far as the buffer has room: whatever other appends
\* failed, whichever handle made them, however often the word was created
\* again.  Ranges that reach 2^32 bytes are excluded: they wrap (array.c:152).
ReadsExact ==
  \A path \in Paths : Quiet(path) /\ ~InDoubt(path) =>
    \A start \in 0 .. (UintMod - 1) \div Size, room \in {0, Size, 2 * Size + 1} :
      \A stop \in start .. (UintMod - 1) \div Size :
        LET n == {stop - start, room \div Size, Len(acked[path]) - start}
            shortest == CHOOSE k \in n : \A l \in n : k <= l
        IN  Read(path, start, stop, room) =
              [i \in 1 .. shortest |-> ValueCells(<<acked[path][start + i]>>)]

\* No reader ever gets half a document id, or one joined from two: the column
\* consists of whole records, unless the process died between a short write
\* and the ftruncate that undoes it (array.c:123-126).
NoTornRecords ==
  \A path \in Paths : Quiet(path) /\ <<path, "torn">> \notin doubt =>
    LET cells == file[path].cells
    IN  /\ (Len(cells) - HEADER) % Size = 0
        /\ \A i \in 0 .. ((Len(cells) - HEADER) \div Size) - 1 :
             \E v \in UNION {Range(b.values) : b \in Batches} :
               SubSeq(cells, HEADER + Size * i + 1, HEADER + Size * (i + 1)) = ValueCells(<<v>>)

\* The count in the header never exceeds the records in the file: through a
\* failed header write, the death of the process, a second handle with an
\* older count, or a word created again (array.c:129-132).
CountNeverAhead ==
  \A path \in Paths : Whole(path) =>
    HEADER + Size * file[path].cells[1][2] <= Len(file[path].cells)
=============================================================================
