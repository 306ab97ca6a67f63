---------------------------- MODULE MCPostgresUsers ----------------------------
(* PostgresUsers on small instances: an address in two spellings and another; *)
(* a token for both scopes, and one for reading only.                         *)
EXTENDS PostgresUsers, TLC

CONSTANTS ava, Ava, bob, n, admin, reader

MCFold == [a \in Address |-> IF a = Ava THEN ava ELSE a]

User(email, first_name) == [email |-> email, first_name |-> first_name]

MCOperations ==
    {[kind |-> "list"], [kind |-> "search", first_name |-> n],
     [kind |-> "create", user |-> User(ava, n)],
     [kind |-> "create", user |-> User(Ava, n)],
     [kind |-> "create", user |-> User(bob, Null)],
     [kind |-> "delete", email |-> Ava],
     [kind |-> "update", email |-> Ava, user |-> User(bob, Null)],
     [kind |-> "update", email |-> bob, user |-> User(Ava, n)]}

MCTokens == {[subject |-> admin, scope |-> {"users.read", "users.write"}],
             [subject |-> reader, scope |-> {"users.read"}]}

CallSymmetry == Permutations(Calls)
===============================================================================
