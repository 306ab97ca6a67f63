---------------------------- MODULE MCGuardedAgent ----------------------------
(* GuardedAgent on a small instance. *)
EXTENDS GuardedAgent

MCGovCall == {"evaluate", "mask"} \X Queries

MCText == {"fine", "unsafe", "private", "binary", "long"}

MCFindings == [text \in MCText |-> CASE text = "unsafe" -> {"is_unsafe"}
                                     [] text = "private" -> {"pii"}
                                     [] OTHER -> {}]
===============================================================================
