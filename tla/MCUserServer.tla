----------------------------- MODULE MCUserServer -----------------------------
(* UserServer on a small instance: an address in two spellings and another;   *)
(* bearers with either scope, which expire, and none.                         *)
EXTENDS UserServer, TLC

CONSTANTS ava, Ava, bob, n, alice, agent

MCFold == [a \in Address |-> IF a = Ava THEN ava ELSE a]

User(email, first_name) == [email |-> email, first_name |-> first_name]

MCSeed == <<User(bob, n)>>

MCOperations ==
    {[kind |-> "list"], [kind |-> "search", first_name |-> n],
     [kind |-> "create", user |-> User(ava, n)],
     [kind |-> "create", user |-> User(Ava, Null)],
     [kind |-> "delete", email |-> Ava],
     [kind |-> "update", email |-> ava, user |-> User(Ava, Null)],
     [kind |-> "update", email |-> bob, user |-> User(ava, n)]}

MCGroupsOf == [s \in Subjects |-> {"admin"}]

Bearer(scope, exp) == [subject |-> alice, actor |-> agent, scope |-> scope, exp |-> exp]

MCBearers == {NoToken, Bearer({"users.read"}, 1), Bearer({"users.write"}, 1)}
===============================================================================
