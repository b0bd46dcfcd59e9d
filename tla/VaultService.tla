---------------------------- MODULE VaultService ----------------------------
(***************************************************************************)
(* The grimoire service: the JSON-RPC handlers (session.rs), the approval  *)
(* flow they share with the SSH agent (approval.rs, ssh_agent.rs) and the  *)
(* background workers (sync_worker.rs), interleaved over ServiceState.     *)
(*                                                                         *)
(* A task runs without interference only while it holds the RwLock, so an  *)
(* action is one critical section together with the task's own steps up to *)
(* the next acquisition.  pc[c] names the acquisition, or the open prompt, *)
(* at which the task of client c waits.  What the user types is chosen     *)
(* when it is used; a prompt may also fail or be dismissed, which covers   *)
(* every prompt method.                                                    *)
(***************************************************************************)
EXTENDS ServiceState

CONSTANTS
    Clients,     \* the tasks that serve one connection each
    ScopeOf,     \* the session leader of each client, or Unknown
    Unknown,
    Methods,     \* the requests that clients send
    Mortal,      \* clients whose process may exit before it has its answer
    SyncTasks,   \* the background sync worker and the spawned sync_now
    worker

\* requires_approval.  "read" stands for vault.list, vault.get and vault.totp,
\* "resolve" for vault.resolve_refs and the JSON-RPC ssh.sign and
\* ssh.list_keys; Ssh holds the two operations of the SSH agent's socket.
Gated == {"read", "resolve", "sync"}
Ssh == {"ssh_sign", "ssh_list"}
AllMethods == Gated \cup Ssh \cup
              {"login", "unlock", "authorize", "lock", "logout", "set_pin"}

ASSUME ClientsAssumption ==
    /\ ScopeOf \in [Clients -> Scopes \cup {Unknown}]
    /\ Unknown \notin Scopes
    /\ Clients \cap Scopes = {}
    /\ worker \in SyncTasks
    /\ Methods \subseteq AllMethods
    /\ Mortal \subseteq Clients

VARIABLES
    pc, request,   \* where the task of a client waits, and for which request
    reply,         \* the last answer: "none", "secret" or "done"
    gone,          \* clients whose process has exited
    auto_lock,     \* the auto-lock worker: "sleep" or "relock"
    syncs,         \* the sync tasks
    proved         \* history: who holds a proof of identity, see below

taskVars == <<pc, request, reply, gone, auto_lock, syncs>>
vars == <<stateVars, taskVars, proved>>

Labels == {"idle", "touch", "gate", "check", "approve", "biometric",
           "has_pin", "pin", "password", "grant", "handle", "sync_store",
           "ssh", "backoff", "login", "unlock", "authorize",
           "authorize_state", "authorize_unlock", "verify", "reset",
           "record", "lock", "logout", "set_pin"}

TypeOK ==
    /\ StateTypeOK
    /\ pc \in [Clients -> Labels]
    /\ request \in [Clients -> AllMethods \cup {"none"}]
    /\ reply \in [Clients -> {"none", "secret", "done"}]
    /\ gone \in SUBSET Clients
    /\ auto_lock \in {"sleep", "relock"}
    /\ syncs \in [SyncTasks -> {"none", "start", "ok", "revoked"}]
    /\ proved \in SUBSET (Scopes \cup Clients)

-----------------------------------------------------------------------------
(* proved is a history variable, the identity proofs that still count: the *)
(* owner of a live grant, and the owner of a request that has passed its   *)
(* check and is on its way to the grant or to the answer.  Only an         *)
(* accepted password, PIN or fingerprint adds to it; a lock, a logout and  *)
(* the expiry of a grant leave only the proofs in hand.                    *)

Identified(c) == ScopeOf[c] # Unknown

\* Clients of one terminal session share their proof; a client without a
\* known process has only its own.
Subject(c) == IF Identified(c) THEN ScopeOf[c] ELSE c

InHand == {"grant", "reset", "handle", "sync_store"}

ProofsInHand == {Subject(c) : c \in {d \in Clients : pc[d] \in InHand}}

Prove(c) == proved' = proved \cup {Subject(c)}

ForgetIfLocked ==
    proved' = IF vault_state = "Unlocked" /\ vault_state' # "Unlocked"
              THEN proved \cap ProofsInHand ELSE proved

-----------------------------------------------------------------------------
Goto(c, l) ==
    /\ pc' = [pc EXCEPT ![c] = l]
    /\ UNCHANGED <<request, reply, gone, auto_lock, syncs>>

AnswerTo(c, r) ==
    /\ pc' = [pc EXCEPT ![c] = "idle"]
    /\ request' = [request EXCEPT ![c] = "none"]
    /\ reply' = [reply EXCEPT ![c] = r]
    /\ UNCHANGED <<gone, auto_lock>>

Answer(c, r) == AnswerTo(c, r) /\ UNCHANGED syncs

\* tokio::spawn(sync_now); bounded by the tasks the model has.
SpawnSync ==
    LET free == {t \in SyncTasks \ {worker} : syncs[t] = "none"}
    IN IF free = {} THEN UNCHANGED syncs
       ELSE \E t \in free : syncs' = [syncs EXCEPT ![t] = "start"]

\* resolve_scope_key, at the grant: the session leader while the process
\* lives.  Afterwards the dead process's pid, and without a pid a fresh key:
\* keys that no later check resolves to, as no client here is its session's
\* leader and no pid is used again.
GrantTo(c) ==
    IF Identified(c) /\ c \notin gone THEN grant(ScopeOf[c])
    ELSE UNCHANGED approval_cache

\* Mutants of Approved: any session's grant will do, for everyone or for the
\* clients without a known process.
ApprovedByAny(c) == \E s \in Scopes : is_approved(s)

ApprovedIfUnknown(c) ==
    IF Identified(c) THEN is_approved(ScopeOf[c]) ELSE ApprovedByAny(c)

Approved(c) == Identified(c) /\ c \notin gone /\ is_approved(ScopeOf[c])

Entry(m) == CASE m \in Gated -> "touch"
              [] m \in Ssh -> "ssh"
              [] m \in {"login", "unlock"} -> "backoff"
              [] OTHER -> m

\* A request arrives.  It may come from a new process of the same scope.
Receive(c, m) ==
    /\ pc[c] = "idle"
    /\ pc' = [pc EXCEPT ![c] = Entry(m)]
    /\ request' = [request EXCEPT ![c] = m]
    /\ reply' = [reply EXCEPT ![c] = "none"]
    /\ gone' = gone \ {c}
    /\ proved' = proved \ {c}
    /\ UNCHANGED <<stateVars, auto_lock, syncs>>

\* The process exits; its task goes on until it writes the answer.
Exit(c) ==
    /\ pc[c] # "idle"
    /\ c \notin gone
    /\ gone' = gone \cup {c}
    /\ UNCHANGED <<stateVars, pc, request, reply, auto_lock, syncs, proved>>

-----------------------------------------------------------------------------
(* dispatch: the approval gate of the JSON-RPC methods *)

Touch(c) ==
    /\ pc[c] = "touch"
    /\ touch
    /\ Goto(c, "gate")
    /\ UNCHANGED <<keyVars, approval_cache, backoffVars, proved>>

Gate(c) ==
    /\ pc[c] = "gate"
    /\ IF vault_state = "Unlocked" THEN Goto(c, "check") ELSE Answer(c, "done")
    /\ UNCHANGED <<stateVars, proved>>

\* dispatch and check_approval of the SSH agent
Check(c) ==
    /\ pc[c] = "check"
    /\ Goto(c, IF Approved(c) THEN "handle" ELSE "approve")
    /\ UNCHANGED <<stateVars, proved>>

-----------------------------------------------------------------------------
(* attempt_approval: fingerprint, then PIN, then master password *)

\* The branch for an exhausted session takes the lock again before it locks
\* the vault; NoExhaustedSession says that it is never taken.
BeginApproval(c) ==
    /\ pc[c] = "approve"
    /\ IF Exhausted(session)
       THEN TryLock /\ Answer(c, "done")
       ELSE UNCHANGED <<keyVars, approval_cache>> /\ Goto(c, "biometric")
    /\ ForgetIfLocked
    /\ UNCHANGED <<idle, backoffVars>>

BiometricAccepted(c) ==
    /\ pc[c] = "biometric"
    /\ Goto(c, "grant")
    /\ Prove(c)
    /\ UNCHANGED stateVars

BiometricUnavailable(c) ==
    /\ pc[c] = "biometric"
    /\ Goto(c, "has_pin")
    /\ UNCHANGED <<stateVars, proved>>

ChoosePrompt(c) ==
    /\ pc[c] = "has_pin"
    /\ Goto(c, IF pin_set THEN "pin" ELSE "password")
    /\ UNCHANGED <<stateVars, proved>>

PinAnswered(c, p) ==
    /\ pc[c] = "pin"
    /\ \/ PinAccepted(p) /\ Prove(c) /\ Goto(c, "grant")
       \/ PinRefused(p) /\ ForgetIfLocked /\ Answer(c, "done")
    /\ UNCHANGED <<idle, backoffVars>>

\* verify_password holds only the read lock; a wrong password, a server out
\* of reach and a vault that was locked meanwhile are all just refused, and
\* do not count as password failures.
ApprovalPasswordAccepted(c) ==
    /\ pc[c] = "password"
    /\ vault_state = "Unlocked"
    /\ token' = TRUE
    /\ Prove(c)
    /\ Goto(c, "grant")
    /\ UNCHANGED <<vault_state, session, sdk, last_sync, approval_cache, idle,
                   backoffVars>>

\* Every prompt can be dismissed, and the password of an approval refused.
PromptFailed(c) ==
    /\ pc[c] \in {"pin", "password", "login", "unlock"}
    /\ Answer(c, "done")
    /\ UNCHANGED <<stateVars, proved>>

\* grant_approval, and the end of handle_authorize: nothing is checked again.
Grant(c) ==
    /\ pc[c] = "grant"
    /\ GrantTo(c)
    /\ IF request[c] = "authorize" THEN Answer(c, "done") ELSE Goto(c, "handle")
    /\ UNCHANGED <<keyVars, idle, backoffVars, proved>>

-----------------------------------------------------------------------------
(* The handlers behind the gate.  vault.list, vault.get and vault.totp     *)
(* check the vault's state; resolve_refs and ssh.sign need only a client,  *)
(* which has no secret to give unless it has the keys.                     *)

Handle(c) ==
    /\ pc[c] = "handle"
    /\ \/ /\ request[c] = "read"
          /\ Answer(c, IF vault_state = "Unlocked" /\ sdk = "keys"
                       THEN "secret" ELSE "done")
       \/ /\ request[c] \in {"resolve", "ssh_sign"}
          /\ Answer(c, IF sdk = "keys" THEN "secret" ELSE "done")
       \/ /\ request[c] = "ssh_list"      \* public keys only
          /\ Answer(c, "done")
       \/ /\ request[c] = "sync"
          /\ vault_state = "Unlocked" /\ token
          /\ Goto(c, "sync_store")
       \/ /\ request[c] = "sync"          \* locked, or the sync failed
          /\ Answer(c, "done")
    /\ UNCHANGED <<stateVars, proved>>

SyncStore(c) ==
    /\ pc[c] = "sync_store"
    /\ last_sync' = TRUE
    /\ Answer(c, "done")
    /\ UNCHANGED <<vault_state, session, sdk, token, approval_cache, idle,
                   backoffVars, proved>>

-----------------------------------------------------------------------------
(* The master password: unlock, login, authorize and the SSH agent's       *)
(* attempt_unlock.  right: what the user typed is the master password.     *)

\* request_identities and sign
SshBegin(c) ==
    /\ pc[c] = "ssh"
    /\ CASE vault_state = "Locked" -> Goto(c, "backoff")
         [] vault_state = "LoggedOut" -> Answer(c, "done")
         [] OTHER -> Goto(c, IF request[c] = "ssh_list" THEN "handle"
                             ELSE "check")
    /\ UNCHANGED <<stateVars, proved>>

\* The backoff is checked before the prompt opens, and not again.
CheckBackoff(c) ==
    /\ pc[c] = "backoff"
    /\ IF backoff > 0 THEN Answer(c, "done")
       ELSE Goto(c, IF request[c] = "login" THEN "login" ELSE "unlock")
    /\ UNCHANGED <<stateVars, proved>>

\* A correct password may be refused (the server cannot be reached: counted
\* as AuthFailed; the cache file cannot be read: some other error), a wrong
\* one always is.  attempt_unlock of the SSH agent counts every error.
UnlockRefused(c, right) ==
    /\ UnlockErr(right)
    /\ \/ /\ vault_state = "Locked" \/ request[c] \in Ssh
          /\ record_password_failure
       \/ /\ request[c] \notin Ssh
          /\ UNCHANGED backoffVars
    /\ Answer(c, "done")
    /\ UNCHANGED <<approval_cache, proved>>

UnlockAccepted(c) ==
    /\ pc[c] = "unlock"
    /\ UnlockOk
    /\ reset_password_attempts
    /\ GrantTo(c)
    /\ Prove(c)
    /\ SpawnSync
    /\ \/ /\ request[c] = "unlock"
          /\ AnswerTo(c, "done")
       \/ /\ request[c] \in Ssh
          /\ pc' = [pc EXCEPT ![c] = IF request[c] = "ssh_list" THEN "handle"
                                      ELSE "check"]
          /\ UNCHANGED <<request, reply, gone, auto_lock>>

UnlockFailed(c, right) ==
    /\ pc[c] = "unlock"
    /\ UnlockRefused(c, right)

LoginAccepted(c) ==
    /\ pc[c] = "login"
    /\ LoginOk
    /\ reset_password_attempts
    /\ Answer(c, "done")
    /\ UNCHANGED proved

\* Only AuthFailed counts, and the server is asked only when logged out.
LoginFailed(c) ==
    /\ pc[c] = "login"
    /\ \/ vault_state = "LoggedOut" /\ record_password_failure
       \/ UNCHANGED backoffVars
    /\ Answer(c, "done")
    /\ UNCHANGED <<keyVars, approval_cache, idle, proved>>

Authorize(c) ==
    /\ pc[c] = "authorize"
    /\ IF vault_state = "LoggedOut" \/ backoff > 0 THEN Answer(c, "done")
       ELSE Goto(c, "authorize_state")
    /\ UNCHANGED <<stateVars, proved>>

AuthorizeState(c) ==
    /\ pc[c] = "authorize_state"
    /\ Goto(c, IF vault_state = "Locked" THEN "authorize_unlock" ELSE "verify")
    /\ UNCHANGED <<stateVars, proved>>

\* The write lock is released before the grant takes it again.
AuthorizeUnlocked(c) ==
    /\ pc[c] = "authorize_unlock"
    /\ UnlockOk
    /\ reset_password_attempts
    /\ SpawnSync
    /\ Prove(c)
    /\ pc' = [pc EXCEPT ![c] = "grant"]
    /\ UNCHANGED <<approval_cache, request, reply, gone, auto_lock>>

AuthorizeUnlockFailed(c, right) ==
    /\ pc[c] = "authorize_unlock"
    /\ UnlockRefused(c, right)

\* verify_password, under the read lock
AuthorizeVerified(c) ==
    /\ pc[c] = "verify"
    /\ vault_state = "Unlocked"
    /\ token' = TRUE
    /\ Prove(c)
    /\ Goto(c, "reset")
    /\ UNCHANGED <<vault_state, session, sdk, last_sync, approval_cache, idle,
                   backoffVars>>

\* A mutant of AuthorizeRefused: no answer when the vault was locked.
AuthorizeRefusedSilent(c) ==
    /\ pc[c] = "verify"
    /\ vault_state = "Unlocked" /\ Goto(c, "record")
    /\ UNCHANGED <<stateVars, proved>>

AuthorizeRefused(c) ==
    /\ pc[c] = "verify"
    /\ \/ vault_state = "Unlocked" /\ Goto(c, "record")
       \/ Answer(c, "done")
    /\ UNCHANGED <<stateVars, proved>>

AuthorizeReset(c) ==
    /\ pc[c] = "reset"
    /\ reset_password_attempts
    /\ Goto(c, "grant")
    /\ UNCHANGED <<keyVars, approval_cache, idle, proved>>

AuthorizeRecord(c) ==
    /\ pc[c] = "record"
    /\ record_password_failure
    /\ Answer(c, "done")
    /\ UNCHANGED <<keyVars, approval_cache, idle, proved>>

-----------------------------------------------------------------------------
(* auth.lock, auth.logout and auth.set_pin need no approval *)

HandleLock(c) ==
    /\ pc[c] = "lock"
    /\ TryLock
    /\ ForgetIfLocked
    /\ Answer(c, "done")
    /\ UNCHANGED <<idle, backoffVars>>

HandleLogout(c) ==
    /\ pc[c] = "logout"
    /\ logout
    /\ proved' = proved \cap ProofsInHand
    /\ Answer(c, "done")
    /\ UNCHANGED <<idle, backoffVars>>

\* set_pin refuses when the vault is not unlocked and a PIN that is too short.
HandleSetPin(c, p) ==
    /\ pc[c] = "set_pin"
    /\ set_pin(p) \/ UNCHANGED keyVars
    /\ Answer(c, "done")
    /\ UNCHANGED <<approval_cache, idle, backoffVars, proved>>

-----------------------------------------------------------------------------
(* The workers *)

AutoLockCheck ==
    /\ auto_lock = "sleep"
    /\ vault_state = "Unlocked" /\ IdleTimeout
    /\ auto_lock' = "relock"
    /\ UNCHANGED <<stateVars, pc, request, reply, gone, syncs, proved>>

\* Mutants of AutoLockRelock: no second check, and a worker that ends when
\* the second check fails.
AutoLockUnchecked ==
    /\ auto_lock = "relock"
    /\ auto_lock' = "sleep"
    /\ TryLock
    /\ ForgetIfLocked
    /\ UNCHANGED <<idle, backoffVars, pc, request, reply, gone, syncs>>

AutoLockEnds ==
    /\ auto_lock = "relock"
    /\ IF vault_state = "Unlocked" /\ IdleTimeout
       THEN lock /\ auto_lock' = "sleep"
       ELSE UNCHANGED <<keyVars, approval_cache>> /\ auto_lock' = "ended"
    /\ ForgetIfLocked
    /\ UNCHANGED <<idle, backoffVars, pc, request, reply, gone, syncs>>

\* The condition is checked again under the write lock.
AutoLockRelock ==
    /\ auto_lock = "relock"
    /\ auto_lock' = "sleep"
    /\ IF vault_state = "Unlocked" /\ IdleTimeout THEN lock
       ELSE UNCHANGED <<keyVars, approval_cache>>
    /\ ForgetIfLocked
    /\ UNCHANGED <<idle, backoffVars, pc, request, reply, gone, syncs>>

SyncGoto(t, l) ==
    /\ syncs' = [syncs EXCEPT ![t] = l]
    /\ UNCHANGED <<pc, request, reply, gone, auto_lock>>

\* sync_now asks for a client only, the background worker for an unlocked
\* vault; without a token the request is not sent.
SyncRead(t) ==
    /\ \/ syncs[t] = "start"
       \/ t = worker /\ syncs[t] = "none" /\ vault_state = "Unlocked"
    /\ \E l \in IF token THEN {"none", "ok", "revoked"} ELSE {"none"} :
           SyncGoto(t, l)
    /\ UNCHANGED <<stateVars, proved>>

SyncDone(t) ==
    /\ syncs[t] = "ok"
    /\ last_sync' = TRUE
    /\ SyncGoto(t, "none")
    /\ UNCHANGED <<vault_state, session, sdk, token, approval_cache, idle,
                   backoffVars, proved>>

\* handle_auth_revoked
SyncRevoked(t) ==
    /\ syncs[t] = "revoked"
    /\ TryLock
    /\ ForgetIfLocked
    /\ SyncGoto(t, "none")
    /\ UNCHANGED <<idle, backoffVars>>

-----------------------------------------------------------------------------
Tick ==
    /\ StateTick
    /\ proved' = proved \cap
                 (ProofsInHand \cup {s \in Scopes : approval_cache'[s] > 0})
    /\ UNCHANGED taskVars

Restart ==
    /\ StateRestart
    /\ pc' = [c \in Clients |-> "idle"]
    /\ request' = [c \in Clients |-> "none"]
    /\ reply' = [c \in Clients |-> "none"]
    /\ gone' = {}
    /\ auto_lock' = "sleep"
    /\ syncs' = [t \in SyncTasks |-> "none"]
    /\ proved' = {}

Init ==
    /\ StateInit
    /\ pc = [c \in Clients |-> "idle"]
    /\ request = [c \in Clients |-> "none"]
    /\ reply = [c \in Clients |-> "none"]
    /\ gone = {}
    /\ auto_lock = "sleep"
    /\ syncs = [t \in SyncTasks |-> "none"]
    /\ proved = {}

ApprovalStep(c) ==
    \/ Touch(c) \/ Gate(c) \/ Check(c) \/ BeginApproval(c)
    \/ BiometricAccepted(c) \/ BiometricUnavailable(c) \/ ChoosePrompt(c)
    \/ \E p \in Pins : PinAnswered(c, p)
    \/ ApprovalPasswordAccepted(c) \/ PromptFailed(c)
    \/ Grant(c) \/ Handle(c) \/ SyncStore(c)

PasswordStep(c) ==
    \/ SshBegin(c) \/ CheckBackoff(c)
    \/ UnlockAccepted(c) \/ \E right \in BOOLEAN : UnlockFailed(c, right)
    \/ LoginAccepted(c) \/ LoginFailed(c)
    \/ Authorize(c) \/ AuthorizeState(c) \/ AuthorizeUnlocked(c)
    \/ \E right \in BOOLEAN : AuthorizeUnlockFailed(c, right)
    \/ AuthorizeVerified(c) \/ AuthorizeRefused(c)
    \/ AuthorizeReset(c) \/ AuthorizeRecord(c)

StateStep(c) ==
    HandleLock(c) \/ HandleLogout(c) \/ \E p \in Pins : HandleSetPin(c, p)

\* The steps of a request once it has arrived
Serve(c) == ApprovalStep(c) \/ PasswordStep(c) \/ StateStep(c)

WorkerStep ==
    \/ AutoLockCheck \/ AutoLockRelock
    \/ \E t \in SyncTasks : SyncRead(t) \/ SyncDone(t) \/ SyncRevoked(t)

Next ==
    \/ \E c \in Clients, m \in Methods : Receive(c, m)
    \/ \E c \in Mortal : Exit(c)
    \/ \E c \in Clients : Serve(c)
    \/ WorkerStep
    \/ Tick
    \/ Restart

Spec == Init /\ [][Next]_vars

-----------------------------------------------------------------------------
(* Safety *)

\* A session exists, and a client holds the keys, exactly while the vault is
\* unlocked: whatever path takes the vault out of Unlocked (a request, the
\* last PIN attempt, idleness, a revocation, a restart) scrubs both.
KeysOnlyWhileUnlocked ==
    /\ (vault_state = "Unlocked") <=> (session # NoSession)
    /\ (vault_state = "Unlocked") <=> (sdk = "keys")
    /\ (vault_state = "LoggedOut") <=> (sdk = "none")

\* A session is never seen with its PIN attempts used up: the lock follows
\* the last failure before anyone else gets the write lock.
NoExhaustedSession == ~Exhausted(session)

\* Whoever has a grant has proved its identity since the last lock or was,
\* at the last lock, a request that had passed its check already.
GrantsAreProved ==
    \A s \in Scopes : approval_cache[s] > 0 => s \in proved

\* Every request that has passed its check, on whichever path, still holds
\* its proof when it reaches the grant or the answer.  Only the list of
\* public keys is given without one.
PassedAreProved ==
    \A c \in Clients :
        pc[c] \in InHand /\ ~(pc[c] = "handle" /\ request[c] = "ssh_list")
            => Subject(c) \in proved

\* A secret leaves the service only while the vault is unlocked (although
\* resolve_refs and ssh.sign do not look at vault_state), and only to a
\* client whose own scope has proved its identity since the last lock, or
\* that had passed the gate already.
DisclosedOnlyToProved ==
    [][\A c \in Clients :
          reply'[c] = "secret" /\ reply[c] # "secret" =>
             vault_state = "Unlocked" /\ Subject(c) \in proved]_vars

\* The interleaved service implements the sequential machine: among others,
\* no interleaving of PIN prompts, set_pin and unlock buys a wrong PIN more
\* than the machine allows, and no lock is undone without a password.
Machine == INSTANCE VaultMachine WITH
    Subjects <- Scopes \cup Clients,
    SubjectOf <- [c \in Clients |-> Subject(c)],
    PinMax <- PIN_MAX_ATTEMPTS,
    state <- vault_state,
    wrong_pins <- IF session = NoSession THEN 0 ELSE session.pin_attempts,
    holders <- proved,
    disclosed <- {c \in Clients : reply[c] = "secret"}

ImplementsMachine == Machine!MachineSpec
-----------------------------------------------------------------------------
(* Liveness.  Tokio runs every ready task and its RwLock is fair, so each   *)
(* worker and each request goes on; that a request goes on past a prompt    *)
(* or a request to the server also assumes that the user answers or         *)
(* dismisses the prompt and that the server answers or refuses, for the     *)
(* code sets no timeout on either.  Nothing is assumed of new requests, of  *)
(* restarts or of processes that exit.                                      *)

Fairness ==
    /\ WF_vars(Tick)
    /\ WF_vars(AutoLockCheck)
    /\ WF_vars(AutoLockRelock)
    /\ \A c \in Clients : WF_vars(Serve(c))

\* A vault does not stay unlocked without an RPC that touches the timer.
\* Only a touch, an unlock or a restart makes idle 0.
IdleVaultLocks == []<>(vault_state # "Unlocked" \/ idle = 0)

\* Every request is answered, whatever the other requests, the workers and
\* the clock do between its steps.
RequestsAnswered ==
    \A c \in Clients : pc[c] # "idle" ~> pc[c] = "idle"

-----------------------------------------------------------------------------
(* Statements of the documentation that the service does not keep: each is *)
(* the property of a run that ends in a counterexample.                    *)

\* state.rs:87 "Clear all grants (on lock/logout)" and docs/lifecycle.md:244
\* "Scrubs keys, clears all approvals": a locked vault has no grants.
LockedVaultHasNoGrants == vault_state # "Unlocked" => approval_cache = NoGrants

\* specs/006-prompt-and-session.md:111 "the service rejects attempts made
\* before the backoff period expires".
NoAttemptDuringBackoff ==
    [][(\E c \in Clients : UnlockAccepted(c)) \/
       password_failures' > password_failures => backoff = 0]_vars
=============================================================================
