----------------------------- MODULE MCSharding -----------------------------
(* Sharded export with two calls. *)
EXTENDS Sharding, TLC

CONSTANTS c1, c2

\* what they export, and where it hashes to
CallPoints ==
    LET a == [name |-> "a", label |-> "x"]
        b == [name |-> "b", label |-> "y"]
    IN  c1 :> <<a, b>> @@ c2 :> <<a>>

\* a goes to endpoint 1 and b to endpoint 2; a mixed key goes to 2
HashValues == 0..3
HashOfKey(key) == IF key = <<"a", "x">> THEN 1 ELSE 2

\* one virtual node for each endpoint, at its number
Straight == {[e \in 1..3 |-> {e}]}

\* ... and any others, also with virtual nodes that collide
AllPlacements == Straight \cup [1..3 -> SUBSET (0..2) \ {{}}]
=============================================================================
