--------------------------- MODULE MCSigningKeys ---------------------------
(* Instances of SigningKeys for TLC.                                       *)
EXTENDS SigningKeys, TLC

(* Storage lists the keys in an order that is not the order of creation,   *)
(* and the third was created at the same instant as the first.             *)
Clock == [k \in Key |-> IF k = 2 THEN 1 ELSE 2]

Interchangeable == Permutations(Node) \cup Permutations(Req) \cup Permutations(App)
=============================================================================
