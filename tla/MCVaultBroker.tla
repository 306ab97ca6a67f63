----------------------------- MODULE MCVaultBroker -----------------------------
(* VaultBroker on a small instance. *)
EXTENDS VaultBroker

CONSTANT v1

\* One Vault token with two roles.
MCKeys == [vault : {v1}, role : {"agent", "tool"}]
===============================================================================
