---------------------------- MODULE VaultMachine ----------------------------
(***************************************************************************)
(* What the grimoire service promises, as one sequential machine without   *)
(* tasks, prompts or locks (docs/lifecycle.md draws its three states):     *)
(*                                                                         *)
(*   - only a login leads out of LoggedOut and only an unlock into         *)
(*     Unlocked, where a secret can be disclosed;                          *)
(*   - a session sees fewer than PinMax wrong PINs in a row: the one that  *)
(*     would be the last locks the vault;                                  *)
(*   - a secret goes only to a subject (a terminal session, or a single    *)
(*     request whose session is not known) that has proved its identity;   *)
(*     proofs can be forgotten at any time, and never appear by themselves.*)
(***************************************************************************)
EXTENDS Integers

CONSTANTS Clients, Subjects, SubjectOf, PinMax

VARIABLES state, wrong_pins, holders, disclosed

machineVars == <<state, wrong_pins, holders, disclosed>>

MachineInit ==
    /\ state \in {"LoggedOut", "Locked"}
    /\ wrong_pins = 0
    /\ holders = {}
    /\ disclosed = {}

\* A subject gives the password, its fingerprint or the PIN.
ProveIdentity(x) ==
    /\ holders' = holders \cup {x}
    /\ wrong_pins' \in {wrong_pins, 0}
    /\ UNCHANGED <<state, disclosed>>

Login ==
    /\ state = "LoggedOut"
    /\ state' = "Locked"
    /\ UNCHANGED <<wrong_pins, holders, disclosed>>

Unlock(x) ==
    /\ state = "Locked"
    /\ state' = "Unlocked"
    /\ wrong_pins' = 0
    /\ holders' = holders \cup {x}
    /\ UNCHANGED disclosed

Leave(s) ==
    /\ state' = s
    /\ wrong_pins' = 0
    /\ holders' \subseteq holders
    /\ disclosed' \subseteq disclosed

Lock == state = "Unlocked" /\ Leave("Locked")

Logout == Leave("LoggedOut")

RestartLocked == state # "LoggedOut" /\ Leave("Locked")

WrongPin ==
    /\ state = "Unlocked"
    /\ wrong_pins + 1 < PinMax
    /\ wrong_pins' = wrong_pins + 1
    /\ UNCHANGED <<state, holders, disclosed>>

Disclose(c) ==
    /\ state = "Unlocked"
    /\ SubjectOf[c] \in holders
    /\ disclosed' = disclosed \cup {c}
    /\ UNCHANGED <<state, wrong_pins, holders>>

Forget ==
    /\ holders' \subseteq holders
    /\ disclosed' \subseteq disclosed
    /\ UNCHANGED <<state, wrong_pins>>

MachineNext ==
    \/ \E x \in Subjects : ProveIdentity(x) \/ Unlock(x)
    \/ Login \/ Lock \/ Logout \/ RestartLocked \/ WrongPin \/ Forget
    \/ \E c \in Clients : Disclose(c)

MachineSpec == MachineInit /\ [][MachineNext]_machineVars
=============================================================================
