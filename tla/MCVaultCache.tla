---------------------------- MODULE MCVaultCache ----------------------------
(* Small instances of VaultCache for TLC. *)
EXTENDS VaultCache

CONSTANTS a, b, sync1

\* Passwords are only compared: which of them the first account has does not
\* matter, only whether the other one has the same.
SameOrNot == {f \in [Accounts -> Passwords] : f[a] = 1}
=============================================================================
