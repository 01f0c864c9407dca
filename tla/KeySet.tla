------------------------------- MODULE KeySet -------------------------------
(***************************************************************************)
(* What a search tree promises: it stores a set of keys, an insertion adds *)
(* its key, a deletion removes its key, and nothing else changes the set.  *)
(* call is the last call made, until it is forgotten.                      *)
(***************************************************************************)
CONSTANT Keys
VARIABLES stored, call
vars == <<stored, call>>

Init == stored = {} /\ call = <<>>
Insert(k) == stored' = stored \cup {k} /\ call' = <<"insert", k>>
Delete(k) == stored' = stored \ {k} /\ call' = <<"delete", k>>
Forget == stored' = stored /\ call' = <<>>
Next == Forget \/ \E k \in Keys : Insert(k) \/ Delete(k)
Spec == Init /\ [][Next]_vars
=============================================================================
