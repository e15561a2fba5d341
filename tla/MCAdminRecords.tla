--------------------------- MODULE MCAdminRecords ---------------------------
(* Instances of AdminRecords for TLC.                                      *)
EXTENDS AdminRecords, TLC

CONSTANTS default, acme, item

(* An organization and one record of any other collection, perhaps its     *)
(* initial user.                                                           *)
Assigned(k) == [r \in Record |-> IF r = item THEN k ELSE "organization"]
EveryKind   == {Assigned(k) : k \in Collection \ {"organization"}}
ItemIsUser  == {Assigned("user")}
ItemInvited == [r \in Record |-> IF r = item THEN None ELSE item]

DefaultAndItem == <<default, item>>
DefaultOnly    == <<default>>

Interchangeable == Permutations(Node) \cup Permutations(Editor)
=============================================================================
