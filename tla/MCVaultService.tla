--------------------------- MODULE MCVaultService ---------------------------
(* Small instances of VaultService for TLC. *)
EXTENDS VaultService, TLC

CONSTANTS c1, c2, tty1, tty2, sync1

\* Each client in a terminal session of its own, both in one session, and a
\* client whose process the service cannot identify
TwoScopes == c1 :> tty1 @@ c2 :> tty2
OneScope == c1 :> tty1 @@ c2 :> tty1
UnknownScope == c1 :> tty1 @@ c2 :> Unknown

\* The delays of the backoff after n failures: none after the first
Delays == [n \in 0..MaxFailures |-> IF n < 2 THEN 0 ELSE n - 1]

\* The same with a delay from the first failure on
EarlyDelays == [n \in 0..MaxFailures |-> n]
=============================================================================
