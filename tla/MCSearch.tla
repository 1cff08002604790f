------------------------------ MODULE MCSearch ------------------------------
(* SearchIndexer for TLC: two versions of a message in one channel, and a  *)
(* message in another.                                                     *)
EXTENDS SearchIndexer

MCDoc == {<<"m", "x">>, <<"m", "y">>, <<"n", "x">>}
MCMessageOf == [d \in Doc |-> d[1]]
MCChannelOf == [d \in Doc |-> IF d[1] = "m" THEN "c" ELSE "d"]
MCGroveOf == [d \in Doc |-> "g"]
MCTokensOf == [d \in Doc |-> {"author", d[2]}]
=============================================================================
