------------------------------ MODULE MCOboBroker ------------------------------
(* OboBroker on small instances. *)
EXTENDS OboBroker, TLC

CONSTANTS admin, reader, guest, a1, a2

\* Requests differ only by name.
RequestSymmetry == Permutations(Requests)

MCGroupsOf == [s \in Subjects |-> CASE s = admin -> {"admin"}
                                    [] s = reader -> {"readonly"}
                                    [] OTHER -> {}]

Key(subject, actor, scope) == [subject |-> subject, actor |-> actor, scope |-> scope]

\* One subject asking for one scope and for both: the larger set's token would
\* do for the smaller one, were the entries shared.  And a subject without groups.
ScopeKeys == {Key(admin, a1, {"users.read"}), Key(admin, a1, {"users.read", "users.write"}),
              Key(guest, a1, {"users.read"})}

\* Subjects of different groups, an entitled and a refused scope, a rotated actor.
SubjectKeys == {Key(admin, a1, {"users.write"}), Key(admin, a2, {"users.write"}),
                Key(reader, a1, {"users.read"}), Key(reader, a1, {"users.write"})}
===============================================================================
