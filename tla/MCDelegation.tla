----------------------------- MODULE MCDelegation -----------------------------
(* Delegation on small instances. *)
EXTENDS Delegation, TLC

CONSTANTS admin, reader

MCGroupsOf == [s \in Subjects |-> IF s = admin THEN {"admin"} ELSE {"readonly"}]

MCKeys == [subject : Subjects, actor : Actors, scope : {RequiredScopes(t) : t \in Tools}]

CallSymmetry == Permutations(Calls)
===============================================================================
