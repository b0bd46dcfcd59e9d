------------------------------ MODULE Activity ------------------------------
(***************************************************************************)
(* What docs/lifecycle.md promises the user about auto-lock: the vault is  *)
(* locked for inactivity only after the whole timeout without a request.   *)
(* The code keeps that with a timestamp that several paths have to reset   *)
(* and two checks of it, between which anything may happen; whether it     *)
(* does is a question about earlier steps.  A history variable with a      *)
(* clock of its own, added to VaultService, remembers the promise.         *)
(***************************************************************************)
EXTENDS VaultService

VARIABLE promised   \* how long the vault must still stay open, in ticks

\* A request for the vault finds it open, or somebody opens it.
Used ==
    \/ vault_state = "Unlocked" /\ \E c \in Clients : Touch(c)
    \/ vault_state # "Unlocked" /\ vault_state' = "Unlocked"

\* A request, the last PIN, a revocation or a restart may close the vault at
\* any time; only the auto-lock worker has to wait.
Closed == vault_state' # "Unlocked" /\ ~AutoLockRelock

Promise ==
    promised' = IF Used THEN AutoLockTicks
                ELSE IF Closed THEN 0
                ELSE IF Tick THEN Less(promised)
                ELSE promised

ActivityInit == Init /\ promised = 0

ActivityNext == Next /\ Promise

activityVars == <<vars, promised>>

ActivitySpec == ActivityInit /\ [][ActivityNext]_activityVars

FairActivitySpec == ActivitySpec /\ Fairness

\* Inactivity locks nobody out early: whatever state the auto-lock worker was
\* in when a request came or the vault was opened, and whoever locked and
\* unlocked it in between, the vault stays open for the whole timeout unless
\* something other than the worker closes it.
InUseStaysOpen == promised > 0 => vault_state = "Unlocked"
=============================================================================
