----------------------------- MODULE RecordStore -----------------------------
(***************************************************************************)
(* What a sea block promises its one writer: a sequence of records.  A     *)
(* record's id is the number of records before it; an append is either     *)
(* answered with the id its own payload has got, or with an error and no   *)
(* effect.  SeaBlock implements it as long as no entry write is short and  *)
(* the process does not die (see SeaBlockRefinement).                      *)
(***************************************************************************)
EXTENDS Naturals, Sequences

CONSTANTS Payloads, MaxCount, NoCall

VARIABLES
  store,   \* the payloads, in the order of their ids
  call     \* the append in progress, or the answer to the last one

vars == <<store, call>>

Busy(p) == [pc |-> "busy", payload |-> p]
Answer(p, id) ==
  [pc |-> "ok", payload |-> p, id |-> id, overlimit |-> id + 1 >= MaxCount]
Failed == [pc |-> "error"]

InAppend == call # NoCall /\ call.pc = "busy"

Init == store = <<>> /\ call = NoCall

Request(p) == ~InAppend /\ call' = Busy(p) /\ UNCHANGED store

Commit ==
  /\ InAppend
  /\ store' = Append(store, call.payload)
  /\ call' = Answer(call.payload, Len(store))

Refuse == call' = Failed /\ UNCHANGED store

\* The writer goes on to something else.
Proceed == ~InAppend /\ call' = NoCall /\ UNCHANGED store

\* Replaces the payload of an existing record.
Overwrite(id, p) ==
  /\ ~InAppend
  /\ id \in 0 .. Len(store) - 1
  /\ store' = [store EXCEPT ![id + 1] = p]
  /\ call' = NoCall

\* A replacement that failed half-way: any prefix of it may have been written.
Tear(id, p, k) ==
  /\ ~InAppend
  /\ id \in 0 .. Len(store) - 1
  /\ store' = [store EXCEPT ![id + 1] = SubSeq(p, 1, k) \o SubSeq(@, k + 1, Len(@))]
  /\ call' = NoCall

Clear == ~InAppend /\ store' = <<>> /\ call' = NoCall

Next ==
  \/ \E p \in Payloads : Request(p)
  \/ Commit \/ Refuse \/ Proceed \/ Clear
  \/ \E id \in 0 .. Len(store) - 1, p \in Payloads :
       Overwrite(id, p) \/ \E k \in 0 .. Len(p) : Tear(id, p, k)

Spec == Init /\ [][Next]_vars
=============================================================================
