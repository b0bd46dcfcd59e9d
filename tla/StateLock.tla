----------------------------- MODULE StateLock -----------------------------
(***************************************************************************)
(* Who waits for whom in the service.  All the tasks - a request handler   *)
(* of a session or of the SSH agent per caller, the auto-lock worker, the  *)
(* background sync and the sync_now tasks that an unlock spawns - share    *)
(* one tokio RwLock (state.rs, SharedState), which serves its waiters in   *)
(* the order they came.  A guard may be kept across an await of the        *)
(* server, to which no request has a timeout, or of the 3 second token     *)
(* refresh.  A prompt, which the user may leave unanswered, is awaited     *)
(* with no guard.                                                          *)
(*                                                                         *)
(* A task is the list of awaits it has left; a step is what it does from   *)
(* one await to the next.  Where a branch depends on the state of the      *)
(* vault the vault decides, where it depends on something that is not      *)
(* modelled here (a grant, the PIN, what the user or the server answers)   *)
(* it is a choice.                                                         *)
(***************************************************************************)
EXTENDS Integers, Sequences, SequencesExt

CONSTANTS
    Callers,            \* request handlers, one request at a time each
    Requests,           \* the requests of each caller
    locker,             \* auto_lock_worker
    Syncs               \* bound: the syncs that run at a time, of
                        \* background_sync_worker and of sync_now

Tasks == Callers \cup {locker} \cup Syncs

VARIABLES
    queue,      \* the tasks that wait for the lock, the longest waiting first
    holds,      \* the guard that each task keeps
    todo,       \* the awaits that each task has left; empty: at rest
    vault,      \* vault_state
    idle,       \* last_activity is AUTO_LOCK_SECONDS old
    hung        \* the server has stopped to answer

vars == <<queue, holds, todo, vault, idle, hung>>

-----------------------------------------------------------------------------
(* Awaits of the lock, and those after which the guard is kept. *)
Reads == {"look", "gate", "granted", "ssh_gate", "ssh_granted", "method", "sign_key",
          "backoff", "exhausted", "has_pin", "attempt", "verify", "reverify",
          "login_gate", "needs_unlock", "idle_check", "trigger", "sync", "sync_now"}
Writes == {"change", "touch", "lock", "idle_lock", "logout", "login", "unlock"}
\* Mutants of Kept: a guard is kept while a prompt waits, or while the task
\* asks for the lock again; or a sync only looks and lets go
KeptOverPrompt == {"unlock", "login", "verify", "reverify", "trigger", "sync", "sync_now", "attempt"}
KeptWhileLocking == {"unlock", "login", "verify", "reverify", "trigger", "sync", "sync_now",
                     "exhausted"}
KeptByTheOthers == {"unlock", "login", "verify", "reverify"}
Kept == {"unlock", "login", "verify", "reverify", "trigger", "sync", "sync_now"}

(* Awaits of the server under a guard, and of the user without one. *)
OfServer == {"bootstrap", "authenticate", "refused", "verifying", "reverifying",
             "triggered", "fetching"}
OfUser == {"password", "biometric", "pin", "approval_password"}

Handlers == [
    status     |-> <<"look">>,
    lock       |-> <<"lock">>,
    logout     |-> <<"logout">>,
    set_pin    |-> <<"change">>,
    login      |-> <<"backoff", "login">>,
    unlock     |-> <<"backoff", "unlock">>,
    authorize  |-> <<"login_gate", "needs_unlock", "change">>,
    vault      |-> <<"touch", "gate", "granted", "look">>,
    trigger    |-> <<"touch", "gate", "granted", "trigger">>,
    identities |-> <<"ssh_gate", "look">>,
    sign       |-> <<"ssh_gate", "ssh_granted", "sign_key">>]

ASSUME LockAssumption == Requests \in [Callers -> SUBSET DOMAIN Handlers]

(* What the state of the vault demands of a step. *)
Passes(step) ==
    CASE step \in {"gate", "trigger", "sync"} -> vault = "unlocked"
      [] step = "unlock" -> vault = "locked"
      [] step = "login" -> vault = "out"
      [] step \in {"login_gate", "ssh_gate", "sync_now"} -> vault # "out"
      [] step = "idle_check" -> vault = "unlocked" /\ idle
      [] OTHER -> TRUE

(* What remains of a request that is denied: the session looks at the      *)
(* vault once more to word the refusal.                                    *)
Denied(rest) == IF rest = <<"sign_key">> THEN <<>> ELSE <<"look">>

(* What may remain of a task after a step that passes. *)
Continue(step, rest) ==
    CASE step = "granted" -> {rest, <<"exhausted">> \o rest}
      [] step = "ssh_granted" -> {rest, <<"method", "exhausted">> \o rest}
      [] step = "exhausted" -> {<<"lock">> \o Denied(rest), <<"biometric">> \o rest,
                                <<"has_pin">> \o rest}
      [] step = "biometric" -> {<<"change">> \o rest, <<"has_pin">> \o rest}
      [] step = "has_pin" -> {<<"attempt">> \o rest, <<"approval_password">> \o rest}
      [] step = "attempt" -> {<<"pin">> \o rest}
      [] step = "pin" -> {<<"change", "change">> \o rest, <<"change">> \o Denied(rest),
                          <<"lock">> \o Denied(rest), Denied(rest)}
      [] step = "approval_password" -> {<<"verify">> \o rest, Denied(rest)}
      [] step = "verify" -> {<<"verifying">> \o rest}
      [] step = "verifying" -> {<<"change">> \o rest, Denied(rest)}
      [] step = "ssh_gate" /\ vault = "locked" -> {<<"backoff", "unlock">> \o rest}
      [] step = "backoff" -> {<<>>, rest, <<"method", "password">> \o rest}
      [] step = "password" -> {<<>>, rest}
      [] step = "unlock" -> {<<"bootstrap">> \o rest, <<"refresh">> \o rest, <<"refused">>}
      [] step = "login" -> {<<"authenticate">>, <<"refused">>}
      [] step = "needs_unlock" ->
            {(IF vault = "locked" THEN <<"unlock">> ELSE <<"reverify">>) \o rest}
      [] step = "reverify" -> {<<"reverifying">> \o rest}
      [] step = "reverifying" -> {<<"change">> \o rest, <<"change">>, <<>>}
      [] step = "trigger" -> {<<"triggered">>}
      [] step = "triggered" -> {<<"change">>, <<>>}
      [] step \in {"sync", "sync_now"} -> {<<"fetching">>}
      [] step = "fetching" -> {<<"change">>, <<"lock">>, <<>>}
      [] OTHER -> {rest}

VaultAfter(step) ==
    CASE step = "lock" /\ vault = "unlocked" -> "locked"
      [] step = "idle_lock" /\ vault = "unlocked" /\ idle -> "locked"
      [] step = "logout" -> "out"
      [] step = "authenticate" -> "locked"
      [] step \in {"bootstrap", "refresh"} -> "unlocked"
      [] OTHER -> vault

(* last_activity is now after touch, and after an unlock or a login. *)
IdleAfter(step) == idle /\ step \notin {"touch", "authenticate", "bootstrap", "refresh"}

Remains(t, step) == IF Passes(step) THEN Continue(step, Tail(todo[t])) ELSE {<<>>}

-----------------------------------------------------------------------------
Init ==
    /\ queue = <<>>
    /\ holds = [t \in Tasks |-> "none"]
    /\ todo = [t \in Tasks |-> <<>>]
    /\ vault \in {"locked", "out"}
    /\ idle = FALSE
    /\ hung = FALSE

At(t, steps) == todo[t] # <<>> /\ Head(todo[t]) \in steps

(* A request arrives, or the timer of a worker fires. *)
Begin(t, steps) ==
    /\ todo[t] = <<>>
    /\ todo' = [todo EXCEPT ![t] = steps]
    /\ UNCHANGED <<queue, holds, vault, idle, hung>>
Request(c) == \E r \in Requests[c] : Begin(c, Handlers[r])
AutoLock == Begin(locker, <<"idle_check", "idle_lock">>)
StartSync == \E s \in Syncs : Begin(s, <<"sync">>)

Compatible(step) ==
    \A u \in Tasks : holds[u] \in (IF step \in Reads THEN {"none", "read"} ELSE {"none"})

Guard(step) == IF step \in Reads THEN "read" ELSE "write"

(* The lock is free for task t, which runs to its next await. *)
Take(t) ==
    LET step == Head(todo[t])
    IN  /\ Compatible(step)
        /\ holds' = IF step \in Kept /\ Passes(step)
                    THEN [holds EXCEPT ![t] = Guard(step)] ELSE holds
        /\ todo' \in {[todo EXCEPT ![t] = r] : r \in Remains(t, step)}
        /\ vault' = VaultAfter(step)
        /\ idle' = IdleAfter(step)

\* A mutant of Ask: a request does not queue behind those that wait
AskBarging(t) ==
    /\ At(t, Reads \cup Writes)
    /\ ~Contains(queue, t)
    /\ \/ Take(t) /\ UNCHANGED queue
       \/ /\ ~Compatible(Head(todo[t]))
          /\ queue' = Append(queue, t)
          /\ UNCHANGED <<holds, todo, vault, idle>>
    /\ UNCHANGED hung

(* state.read() or state.write(): at once, or behind those that wait. *)
Ask(t) ==
    /\ At(t, Reads \cup Writes)
    /\ ~Contains(queue, t)
    /\ \/ queue = <<>> /\ Take(t) /\ UNCHANGED queue
       \/ /\ queue # <<>> \/ ~Compatible(Head(todo[t]))
          /\ queue' = Append(queue, t)
          /\ UNCHANGED <<holds, todo, vault, idle>>
    /\ UNCHANGED hung

\* A mutant of Grant: the task stays in the queue
GrantInPlace(t) ==
    /\ queue # <<>> /\ Head(queue) = t
    /\ Take(t)
    /\ UNCHANGED <<queue, hung>>

(* A guard has been dropped: the lock goes to the task at the head. *)
Grant(t) ==
    /\ queue # <<>> /\ Head(queue) = t
    /\ Take(t)
    /\ queue' = Tail(queue)
    /\ UNCHANGED hung

AtRest == {s \in Syncs : todo[s] = <<>>}

(* The end of an await: the task drops the guard it kept over it.  After   *)
(* an unlock it spawns a sync that the handler does not wait for.          *)
Resume(t) ==
    LET step == Head(todo[t])
    IN  /\ holds' = [holds EXCEPT ![t] = "none"]
        /\ \E r \in Remains(t, step) :
              IF step \in {"bootstrap", "refresh"} /\ AtRest # {}
              THEN \E s \in AtRest : todo' = [todo EXCEPT ![t] = r, ![s] = <<"sync_now">>]
              ELSE todo' = [todo EXCEPT ![t] = r]
        /\ vault' = VaultAfter(step)
        /\ idle' = IdleAfter(step)
        /\ UNCHANGED <<queue, hung>>

(* The server answers; the token is refreshed or its 3 seconds are over;   *)
(* the user answers the prompt or closes it.                               *)
ServerAnswers(t) == ~hung /\ At(t, OfServer) /\ Resume(t)
Refreshed(t) == At(t, {"refresh"}) /\ Resume(t)
UserAnswers(t) == At(t, OfUser) /\ Resume(t)

(* Time without a request; only an open vault is watched for it. *)
TimePasses ==
    /\ vault = "unlocked" /\ ~idle
    /\ idle' = TRUE
    /\ UNCHANGED <<queue, holds, todo, vault, hung>>

ServerHangs ==
    /\ ~hung
    /\ hung' = TRUE
    /\ UNCHANGED <<queue, holds, todo, vault, idle>>

Proceed(t) == Ask(t) \/ Grant(t) \/ ServerAnswers(t) \/ Refreshed(t)

Next ==
    \/ \E c \in Callers : Request(c)
    \/ AutoLock \/ StartSync
    \/ \E t \in Tasks : Proceed(t) \/ UserAnswers(t)
    \/ TimePasses \/ ServerHangs

(* The runtime runs every task that can run, a server that answers does so *)
(* in the end, and the timer of the auto-lock worker fires.  No user has   *)
(* to answer, and no request has to come.                                  *)
Fairness == WF_vars(AutoLock) /\ \A t \in Tasks : WF_vars(Proceed(t))

Spec == Init /\ [][Next]_vars /\ Fairness
-----------------------------------------------------------------------------
Steps == Reads \cup Writes \cup OfServer \cup OfUser \cup {"refresh"}

TypeOK ==
    /\ queue \in Seq(Tasks) /\ IsInjective(queue)
    /\ \A i \in DOMAIN queue : At(queue[i], Reads \cup Writes)
    /\ holds \in [Tasks -> {"none", "read", "write"}]
    /\ todo \in [Tasks -> Seq(Steps)]
    /\ vault \in {"out", "locked", "unlocked"}
    /\ idle \in BOOLEAN /\ hung \in BOOLEAN

(* A task that waits for the lock, or for the user, keeps no guard: no     *)
(* task waits for itself, and a prompt stops nobody.                       *)
WaitingHoldsNothing ==
    \A t \in Tasks : At(t, Reads \cup Writes \cup OfUser) => holds[t] = "none"

(* What a step saw of the vault before it waits for the server is still so  *)
(* when the answer comes: an unlock finds the vault locked, a login finds    *)
(* it without one, a sync on request finds it open, and no sync outlives a   *)
(* logout, whatever other tasks ask for meanwhile.  Only the guard that is   *)
(* kept over the request sees to that.  handle_unlock, handle_login,         *)
(* handle_sync_trigger, background_sync_worker.                              *)
CheckedStaysTrue ==
    \A t \in Tasks :
        /\ At(t, {"bootstrap", "refresh"}) => vault = "locked"
        /\ At(t, {"authenticate"}) => vault = "out"
        /\ At(t, {"triggered"}) => vault = "unlocked"
        /\ At(t, {"fetching"}) => vault # "out"

(* A server that has stopped to answer, and a guard that is kept until it does. *)
Stuck == hung /\ \E t \in Tasks : holds[t] # "none"

(* A vault that nobody uses locks, whatever prompts stand open, and however *)
(* silent the server is, unless a guard is kept over a request to it.       *)
IdleVaultLocks ==
    (vault = "unlocked" /\ idle) ~> (~(vault = "unlocked" /\ idle) \/ Stuck)

(* Every request is answered, or waits for its own user to answer a        *)
(* prompt: never for a prompt or a request of another.  Only a guard kept  *)
(* over a request to a silent server stops it.                             *)
EveryRequestAnswered ==
    \A c \in Callers : todo[c] # <<>> ~> (todo[c] = <<>> \/ At(c, OfUser) \/ Stuck)

(* What the README says: the vault locks itself.  auto_lock_worker.        *)
IdleVaultAlwaysLocks == (vault = "unlocked" /\ idle) ~> ~(vault = "unlocked" /\ idle)
=============================================================================
