---------------------------- MODULE MCDhtSearch ----------------------------
(* A small instance of DhtSearch. *)
EXTENDS DhtSearch, TLC

Chain == 4 :> <<5>> @@ 5 :> <<7, 0>> @@ 7 :> <<4>>
=============================================================================
