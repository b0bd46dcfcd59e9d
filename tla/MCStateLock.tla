---------------------------- MODULE MCStateLock ----------------------------
(* Small instances of StateLock for TLC: a caller that makes any request,  *)
(* one that wants the write lock over and over, a sync and the worker.     *)
EXTENDS StateLock

CONSTANTS caller, other, sync

AnyAndWrite == [c \in {caller, other} |->
    IF c = caller THEN DOMAIN Handlers ELSE {"set_pin"}]
=============================================================================
