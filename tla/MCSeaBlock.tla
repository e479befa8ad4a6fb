----------------------------- MODULE MCSeaBlock ------------------------------
(* Small instances of SeaBlock. *)
EXTENDS SeaBlock

\* Two payloads of different lengths; one has a cell that, read as a record
\* header, shows a length that fits the file.
TwoPayloads == {<<PayloadCell(Huge)>>, <<PayloadCell(0), PayloadCell(1)>>}
\* Two payloads of the same length.
SameLength == {<<PayloadCell(0)>>, <<PayloadCell(1)>>}

ById(ids) == [by : {"id"}, first : ids]
ByCount(ids, counts) == [by : {"count"}, first : ids, count : counts]
ByTime(ids, stops) == [by : {"time"}, first : ids, stop : stops]

IdQueries == ById(0 .. 2)
PageQueries == ByCount(0 .. 1, 1 .. 2) \cup ByTime({0}, {2})
NoQueries == {}
=============================================================================
