----------------------------- MODULE MCActivity -----------------------------
(* Small instances of Activity for TLC. *)
EXTENDS Activity, MCVaultService
=============================================================================
