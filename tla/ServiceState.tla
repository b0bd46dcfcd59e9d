---------------------------- MODULE ServiceState ----------------------------
(***************************************************************************)
(* The state that every task of the grimoire service shares behind one     *)
(* tokio RwLock (crates/grimoire-service/src/state.rs), and what each      *)
(* method of ServiceState does to it.  A method runs while its caller      *)
(* holds the lock, so it is one action here; VaultService.tla calls these  *)
(* actions from the steps of the handlers and of the workers.              *)
(*                                                                         *)
(* Times are kept as durations, so that the state space is finite without  *)
(* a bound on the clock: a grant is the time it has left, last_activity    *)
(* is the time since the last touch (idle), and last_password_attempt is   *)
(* the time the password backoff still has to run (backoff).               *)
(***************************************************************************)
EXTENDS Integers

CONSTANTS
    Scopes,          \* scope keys of the terminal sessions that connect
    Pins,            \* the PINs a user can type
    NoPin, NoSession,
    PIN_MAX_ATTEMPTS,
    ApprovalTicks,   \* APPROVAL_SECONDS, in ticks of the model's clock
    AutoLockTicks,   \* AUTO_LOCK_SECONDS, in ticks
    BackoffDelay,    \* BackoffDelay[n]: the delay after n failures, in ticks
    MaxFailures      \* bound: the failure counter stops counting here

ASSUME ConstantsAssumption ==
    /\ PIN_MAX_ATTEMPTS \in Nat \ {0}
    /\ ApprovalTicks \in Nat \ {0}
    /\ AutoLockTicks \in Nat \ {0}
    /\ MaxFailures \in Nat
    /\ BackoffDelay \in [0..MaxFailures -> Nat]
    /\ NoPin \notin Pins
    /\ NoSession \notin [pin : Pins \cup {NoPin}, pin_attempts : Nat]

VARIABLES
    vault_state,
    session,          \* PIN state: NoSession or [pin, pin_attempts]
    sdk,              \* "none", a "blank" client, or one with "keys"
    token,            \* the sdk client holds an access token
    last_sync,        \* TRUE when last_sync is Some(_)
    approval_cache,   \* time left of the grant of each scope, 0: no grant
    idle,             \* time since last_activity, up to AutoLockTicks
    password_failures, backoff

keyVars == <<vault_state, session, sdk, token, last_sync>>
backoffVars == <<password_failures, backoff>>
stateVars == <<keyVars, approval_cache, idle, backoffVars>>

Session == [pin : Pins \cup {NoPin}, pin_attempts : 0..PIN_MAX_ATTEMPTS]

StateTypeOK ==
    /\ vault_state \in {"LoggedOut", "Locked", "Unlocked"}
    /\ session \in Session \cup {NoSession}
    /\ sdk \in {"none", "blank", "keys"}
    /\ token \in BOOLEAN
    /\ last_sync \in BOOLEAN
    /\ approval_cache \in [Scopes -> 0..ApprovalTicks]
    /\ idle \in 0..AutoLockTicks
    /\ password_failures \in 0..MaxFailures
    /\ backoff \in Nat

-----------------------------------------------------------------------------
(* The approval cache, the timers and the two failure counters *)

NoGrants == [s \in Scopes |-> 0]

is_approved(s) == approval_cache[s] > 0

\* A mutant of grant: a new grant adds to the time left of the old one.
grant_extends(s) ==
    approval_cache' = [approval_cache EXCEPT ![s] = @ + ApprovalTicks]

grant(s) == approval_cache' = [approval_cache EXCEPT ![s] = ApprovalTicks]

touch == idle' = 0

IdleTimeout == idle = AutoLockTicks

record_password_failure ==
    LET n == IF password_failures < MaxFailures
             THEN password_failures + 1 ELSE password_failures
    IN /\ password_failures' = n
       /\ backoff' = BackoffDelay[n]

reset_password_attempts ==
    /\ password_failures' = 0
    /\ backoff' = 0

NewSession == [pin |-> NoPin, pin_attempts |-> 0]

pin_set == session # NoSession /\ session.pin # NoPin

\* Session::verify_pin: a session without a PIN, or no session, never verifies.
PinMatches(p) == pin_set /\ session.pin = p

\* pin_attempts_exceeded, of a session s
Exhausted(s) == s # NoSession /\ s.pin_attempts >= PIN_MAX_ATTEMPTS

-----------------------------------------------------------------------------
(* What the methods do to the vault.  An operation that returns Err before *)
(* it changes anything is the ELSE of a Try action or a guard of a caller. *)

\* login(): the server accepted the password.  The client that holds the
\* new token has no keys; approval_cache is not touched.
LoginOk ==
    /\ vault_state = "LoggedOut"
    /\ vault_state' = "Locked"
    /\ sdk' = "blank"
    /\ token' = TRUE
    /\ touch
    /\ UNCHANGED <<session, last_sync, approval_cache>>

\* A mutant of UnlockOk: unlock() does not look at vault_state.
UnlockUnguarded ==
    /\ vault_state' = "Unlocked"
    /\ session' = NewSession
    /\ sdk' = "keys"
    /\ token' = TRUE
    /\ touch
    /\ UNCHANGED last_sync

\* unlock(), Ok: online (a token, last_sync kept) or from the cache (its
\* last_sync, which build_cache always wrote as None; a token if the server
\* answered within three seconds).
UnlockOk ==
    /\ vault_state = "Locked"
    /\ vault_state' = "Unlocked"
    /\ session' = NewSession
    /\ sdk' = "keys"
    /\ \/ token' = TRUE /\ last_sync' = last_sync
       \/ token' \in BOOLEAN /\ last_sync' = FALSE
    /\ touch

\* unlock(), Err: a failed cache unlock replaces the client; a server that
\* accepts the password but sends no usable key leaves its token behind.
UnlockErr(right) ==
    /\ token' \in IF vault_state # "Locked" THEN {token}
                  ELSE {token, FALSE} \cup (IF right THEN {TRUE} ELSE {})
    /\ UNCHANGED <<vault_state, session, sdk, last_sync, idle>>

\* Mutants of lock: it forgets to clear the grants, or the session.
lock_keeps_grants ==
    /\ vault_state = "Unlocked"
    /\ vault_state' = "Locked"
    /\ session' = NoSession
    /\ sdk' = "blank"
    /\ token' = FALSE
    /\ UNCHANGED <<last_sync, approval_cache>>

lock_keeps_session ==
    /\ vault_state = "Unlocked"
    /\ vault_state' = "Locked"
    /\ sdk' = "blank"
    /\ token' = FALSE
    /\ approval_cache' = NoGrants
    /\ UNCHANGED <<session, last_sync>>

lock ==
    /\ vault_state = "Unlocked"
    /\ vault_state' = "Locked"
    /\ session' = NoSession
    /\ sdk' = "blank"
    /\ token' = FALSE
    /\ approval_cache' = NoGrants
    /\ UNCHANGED last_sync

\* The callers of lock() ignore or pre-empt its Err.
TryLock ==
    \/ lock
    \/ vault_state # "Unlocked" /\ UNCHANGED <<keyVars, approval_cache>>

logout ==
    /\ vault_state' = "LoggedOut"
    /\ session' = NoSession
    /\ sdk' = "none"
    /\ token' = FALSE
    /\ last_sync' = FALSE
    /\ approval_cache' = NoGrants

\* set_pin() keeps pin_attempts: a new PIN does not buy new attempts.
set_pin(p) ==
    /\ vault_state = "Unlocked"
    /\ session' = IF session = NoSession THEN session
                  ELSE [session EXCEPT !.pin = p]
    /\ UNCHANGED <<vault_state, sdk, token, last_sync>>

\* verify_pin() accepted: the attempts start over.
PinAccepted(p) ==
    /\ PinMatches(p)
    /\ session' = [session EXCEPT !.pin_attempts = 0]
    /\ UNCHANGED <<vault_state, sdk, token, last_sync, approval_cache>>

\* A mutant of PinRefused: exhaustion is left to the next approval to notice.
PinRefusedLate(p) ==
    /\ ~PinMatches(p)
    /\ session' = IF session = NoSession THEN session
                  ELSE [session EXCEPT !.pin_attempts = @ + 1]
    /\ UNCHANGED <<vault_state, sdk, token, last_sync, approval_cache>>

\* verify_pin() refused and, still under the lock, the check that follows it
\* in attempt_approval: the last attempt locks the vault.
PinRefused(p) ==
    /\ ~PinMatches(p)
    /\ IF session = NoSession
       THEN UNCHANGED <<keyVars, approval_cache>>
       ELSE LET s == [session EXCEPT !.pin_attempts = @ + 1]
            IN IF Exhausted(s)
               THEN TryLock
               ELSE /\ session' = s
                    /\ UNCHANGED <<vault_state, sdk, token, last_sync,
                                   approval_cache>>

-----------------------------------------------------------------------------
(* ServiceState::new(), and the clock *)

StateInit ==
    /\ vault_state \in {"LoggedOut", "Locked"}
    /\ session = NoSession
    /\ sdk = IF vault_state = "Locked" THEN "blank" ELSE "none"
    /\ token = FALSE
    /\ last_sync = FALSE
    /\ approval_cache = NoGrants
    /\ idle = 0
    /\ password_failures = 0
    /\ backoff = 0

\* A new process: the login state is restored when it was saved (a failure
\* to save it is only logged), the backoff is restored from its file.
StateRestart ==
    /\ vault_state' \in IF vault_state = "LoggedOut" THEN {"LoggedOut"}
                        ELSE {"LoggedOut", "Locked"}
    /\ session' = NoSession
    /\ sdk' = IF vault_state' = "Locked" THEN "blank" ELSE "none"
    /\ token' = FALSE
    /\ last_sync' = FALSE
    /\ approval_cache' = NoGrants
    /\ idle' = 0
    /\ UNCHANGED backoffVars

Less(n) == IF n > 0 THEN n - 1 ELSE 0

StateTick ==
    /\ approval_cache' = [s \in Scopes |-> Less(approval_cache[s])]
    /\ idle' = IF idle < AutoLockTicks THEN idle + 1 ELSE idle
    /\ backoff' = Less(backoff)
    /\ UNCHANGED <<keyVars, password_failures>>
=============================================================================
