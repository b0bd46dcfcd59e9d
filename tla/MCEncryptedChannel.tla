------------------------- MODULE MCEncryptedChannel -------------------------
(* Small instances of EncryptedChannel for TLC: strings are enumerated. *)
EXTENDS EncryptedChannel, TLC

CONSTANTS s1, s2
=============================================================================
