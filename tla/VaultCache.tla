----------------------------- MODULE VaultCache -----------------------------
(***************************************************************************)
(* What the service keeps across restarts: login.json (persist.rs), the    *)
(* vault cache (cache.rs) and the key that seals it (keystore.rs), and the *)
(* operations of ServiceState and of the sync tasks on them, step by step. *)
(*                                                                         *)
(* login, unlock and logout hold the write lock of the shared state from   *)
(* beginning to end (step # "idle"), so there is one of them at a time.    *)
(* handle_auth_revoked deletes the files without the lock, and the process *)
(* may end between any two steps.                                          *)
(*                                                                         *)
(* build_cache runs only at an unlock that went to the server, before the  *)
(* first sync, so every cache has an empty list of ciphers and no          *)
(* last_sync: what tells two caches apart is the account, the password     *)
(* that keyed the HMAC and the key that sealed the file.                   *)
(***************************************************************************)
CONSTANTS
    Accounts, Passwords,
    Registered,     \* the passwords that the accounts may have at first
    WeakKdf,        \* accounts whose KDF is below the floor of the cache
    Keys, NoKey,    \* cache encryption keys; NoKey: none, or not sealed
    Changing,       \* bound: accounts that the server may change
    Faulty,         \* the stores whose operations may fail
    None, Damaged,
    SyncTasks, worker   \* the background worker, and spawned sync_now tasks

Stores == {"login_file", "cache_file", "key_store"}

ASSUME CacheAssumption ==
    /\ Registered \subseteq [Accounts -> Passwords]
    /\ WeakKdf \subseteq Accounts
    /\ Changing \subseteq Accounts
    /\ Faulty \subseteq Stores
    /\ NoKey \notin Keys
    /\ None \notin Accounts \cup Passwords
    /\ Damaged \notin Accounts
    /\ None # Damaged
    /\ worker \in SyncTasks

VARIABLES
    password,      \* the server's: the password of each account, or None
                   \* for an account that has been closed
    own,           \* history: the passwords that an account has or has had
    login_file, cache_file, key_store,
    vault_state, login_state, keys, token,
    step,          \* what the task that holds the write lock does next
    typed,         \* the password of the unlock that goes on or has opened
                   \* the vault
    held,          \* the cache that the unlock has read or is going to write
    syncs,         \* what each sync task does next
    accepted,      \* history: what the server accepted since it revoked
    unclean        \* history: since the last logout began, a store failed or
                   \* a restart cut a deletion short

server == <<password, own>>
disk == <<login_file, cache_file, key_store>>
memory == <<vault_state, login_state, keys, token>>
call == <<step, typed, held>>
vars == <<server, disk, memory, call, syncs, accepted, unclean>>

Cache == [account : Accounts, password : Passwords, cek : Keys \cup {NoKey}]
IsCache(c) == c \notin {None, Damaged}

LogoutSteps == {"logout_login", "logout_cache", "logout_key"}

TypeOK ==
    /\ password \in [Accounts -> Passwords \cup {None}]
    /\ own \in SUBSET (Accounts \X Passwords)
    /\ login_file \in Accounts \cup {None, Damaged}
    /\ cache_file \in Cache \cup {None, Damaged}
    /\ key_store \in Keys \cup {NoKey}
    /\ vault_state \in {"LoggedOut", "Locked", "Unlocked"}
    /\ login_state \in Accounts \cup {None}
    /\ keys \in Accounts \cup {None}
    /\ token \in {"none", "good", "revoked"}
    /\ step \in {"idle", "save", "read", "cache", "online", "build",
                 "truncate", "write"} \cup LogoutSteps
    /\ typed \in Passwords \cup {None}
    /\ held \in Cache \cup {None}
    /\ syncs \in [SyncTasks -> {"none", "start", "file", "key", "lock"}]
    /\ accepted \in SUBSET (Accounts \X Passwords)
    /\ unclean \in BOOLEAN

Fails(store) == store \in Faulty

Accept(a, p) == accepted' = accepted \cup {<<a, p>>}

\* tokio::spawn(sync_now), by handle_unlock after unlock() has returned
SpawnSync ==
    LET free == {t \in SyncTasks \ {worker} : syncs[t] = "none"}
    IN IF free = {} THEN UNCHANGED syncs
       ELSE \E t \in free : syncs' = [syncs EXCEPT ![t] = "start"]

-----------------------------------------------------------------------------
(* login: the server decides, then the state, then login.json              *)

\* Opening the file truncates it.
Login(a, p) ==
    /\ step = "idle"
    /\ vault_state = "LoggedOut"
    /\ password[a] = p
    /\ vault_state' = "Locked"
    /\ login_state' = a
    /\ keys' = None
    /\ token' = "good"
    /\ Accept(a, p)
    /\ \/ /\ login_file' = Damaged
          /\ step' = "save"
          /\ UNCHANGED unclean
       \/ /\ Fails("login_file")
          /\ unclean' = TRUE
          /\ UNCHANGED <<login_file, step>>
    /\ UNCHANGED <<server, cache_file, key_store, typed, held, syncs>>

SaveLogin ==
    /\ step = "save"
    /\ step' = "idle"
    /\ \/ login_file' = login_state /\ UNCHANGED unclean
       \/ Fails("login_file") /\ unclean' = TRUE /\ UNCHANGED login_file
    /\ UNCHANGED <<server, cache_file, key_store, memory, typed, held,
                   syncs, accepted>>

-----------------------------------------------------------------------------
(* unlock: the cache first, then the server                                *)

Unlock(p) ==
    /\ step = "idle"
    /\ vault_state = "Locked"
    /\ typed' = p
    /\ step' = "read"
    /\ UNCHANGED <<server, disk, memory, held, syncs, accepted, unclean>>

\* read_cache_file: a file that does not parse ends the unlock with an error.
ReadCache ==
    /\ step = "read"
    /\ IF IsCache(cache_file)
       THEN held' = cache_file /\ step' = "cache"
       ELSE /\ step' = IF cache_file = None THEN "online" ELSE "idle"
            /\ UNCHANGED held
    /\ typed' = IF step' = "idle" THEN None ELSE typed
    /\ UNCHANGED <<server, disk, memory, syncs, accepted, unclean>>

\* A mutant of CacheOpens: the HMAC of the password is not compared.
CacheOpensUnverified(c) ==
    /\ c.cek \in {NoKey, key_store}
    /\ c.account \notin WeakKdf

\* open_cache, validate_floor, verify_hmac
CacheOpens(c) ==
    /\ c.cek \in {NoKey, key_store}
    /\ c.account \notin WeakKdf
    /\ c.password = typed

\* The service takes the keys of the cache's account, whatever the login is,
\* and asks the server for a token of the login, for three seconds.
UnlockFromCache ==
    /\ step = "cache"
    /\ CacheOpens(held)
    /\ vault_state' = "Unlocked"
    /\ keys' = held.account
    /\ \/ /\ password[login_state] = typed
          /\ token' = "good"
          /\ Accept(login_state, typed)
       \/ UNCHANGED <<token, accepted>>
    /\ step' = "idle"
    /\ held' = None
    /\ SpawnSync
    /\ UNCHANGED <<server, disk, login_state, typed, unclean>>

\* Every failure to open the cache leads to the server, with a new client.
FallThrough ==
    /\ step = "cache"
    /\ ~CacheOpens(held) \/ Fails("key_store")
    /\ keys' = None
    /\ token' = "none"
    /\ step' = "online"
    /\ held' = None
    /\ UNCHANGED <<server, disk, vault_state, login_state, typed, syncs,
                   accepted, unclean>>

\* The server is out of reach, or refuses the password.
UnlockRefused ==
    /\ step = "online"
    /\ step' = "idle"
    /\ typed' = None
    /\ UNCHANGED <<server, disk, memory, held, syncs, accepted, unclean>>

\* auth_and_init_crypto: the token is stored before the keys are looked at.
UnlockOnline ==
    /\ step = "online"
    /\ password[login_state] = typed
    /\ token' = "good"
    /\ Accept(login_state, typed)
    /\ \/ /\ vault_state' = "Unlocked"
          /\ keys' = login_state
          /\ step' = "build"
          /\ UNCHANGED typed
       \/ /\ step' = "idle"
          /\ typed' = None
          /\ UNCHANGED <<vault_state, keys>>
    /\ UNCHANGED <<server, disk, login_state, held, syncs, unclean>>

\* build_cache and seal_cache: the stored key, or a new one, which differs
\* from all others in use, or none when the key store fails.
BuildCache ==
    /\ step = "build"
    /\ \E k \in Keys \cup {NoKey} :
        /\ held' = [account |-> login_state, password |-> typed, cek |-> k]
        /\ \/ k # NoKey /\ k = key_store /\ UNCHANGED key_store
           \/ /\ key_store = NoKey
              /\ k # NoKey
              /\ ~(IsCache(cache_file) /\ cache_file.cek = k)
              /\ key_store' = k
           \/ k = NoKey /\ Fails("key_store") /\ UNCHANGED key_store
    /\ step' = "truncate"
    /\ UNCHANGED <<server, login_file, cache_file, memory, typed, syncs,
                   accepted, unclean>>

\* write_cache_file opens the file, which truncates it, ...
TruncateCache ==
    /\ step = "truncate"
    /\ cache_file' = Damaged
    /\ step' = "write"
    /\ UNCHANGED <<server, login_file, key_store, memory, typed, held,
                   syncs, accepted, unclean>>

\* ... and then writes it; the bytes are lost when a revocation has removed
\* the file meanwhile.
WriteCache ==
    /\ step \in {"truncate", "write"}
    /\ \/ /\ step = "write"
          /\ cache_file' = IF cache_file = None THEN None ELSE held
       \/ Fails("cache_file") /\ UNCHANGED cache_file
    /\ step' = "idle"
    /\ held' = None
    /\ SpawnSync
    /\ UNCHANGED <<server, login_file, key_store, memory, typed, accepted,
                   unclean>>

-----------------------------------------------------------------------------
(* lock, logout, and the other users of the token                          *)

lock ==
    /\ vault_state' = "Locked"
    /\ keys' = None
    /\ token' = "none"
    /\ typed' = None
    /\ UNCHANGED login_state

Lock ==
    /\ step = "idle"
    /\ vault_state = "Unlocked"
    /\ lock
    /\ UNCHANGED <<server, disk, step, held, syncs, accepted, unclean>>

\* verify_password, for an approval or for grimoire approve
VerifyPassword(p) ==
    /\ step = "idle"
    /\ vault_state = "Unlocked"
    /\ password[login_state] = p
    /\ token' = "good"
    /\ Accept(login_state, p)
    /\ UNCHANGED <<server, disk, vault_state, login_state, keys, call,
                   syncs, unclean>>

Logout ==
    /\ step = "idle"
    /\ vault_state' = "LoggedOut"
    /\ login_state' = None
    /\ keys' = None
    /\ token' = "none"
    /\ step' = "logout_login"
    /\ typed' = None
    /\ unclean' = FALSE
    /\ UNCHANGED <<server, disk, held, syncs, accepted>>

\* A mutant of AfterRemoval: only the login and the key are deleted.
AfterRemovalShort(s) == IF s = "logout_login" THEN "logout_key" ELSE "idle"

\* logout deletes the login, the cache and the key, in this order.
AfterRemoval(s) == CASE s = "logout_login" -> "logout_cache"
                     [] s = "logout_cache" -> "logout_key"
                     [] OTHER -> "idle"

\* A file that cannot be deleted is only logged.
Remove ==
    /\ step \in LogoutSteps
    /\ \/ /\ step = "logout_login"
          /\ login_file' = None
          /\ UNCHANGED <<cache_file, key_store, unclean>>
       \/ /\ step = "logout_cache"
          /\ cache_file' = None
          /\ UNCHANGED <<login_file, key_store, unclean>>
       \/ /\ step = "logout_key"
          /\ key_store' = NoKey
          /\ UNCHANGED <<login_file, cache_file, unclean>>
       \/ /\ \/ step = "logout_login" /\ Fails("login_file")
             \/ step = "logout_cache" /\ Fails("cache_file")
             \/ step = "logout_key" /\ Fails("key_store")
          /\ unclean' = TRUE
          /\ UNCHANGED disk
    /\ step' = AfterRemoval(step)
    /\ UNCHANGED <<server, memory, typed, held, syncs, accepted>>

-----------------------------------------------------------------------------
(* sync and handle_auth_revoked                                            *)

\* A mutant of AfterRevoked: the vault is locked first.
AfterRevokedLock(s) == CASE s = "revoked" -> "lock"
                         [] s = "lock" -> "file"
                         [] s = "file" -> "key"
                         [] OTHER -> "none"

\* The file, then the key, then the lock
AfterRevoked(s) == CASE s = "revoked" -> "file"
                     [] s = "file" -> "key"
                     [] s = "key" -> "lock"
                     [] OTHER -> "none"

Go(t, s) == syncs' = [syncs EXCEPT ![t] = AfterRevoked(s)]

\* Every other outcome of sync_now, "No access token" among them, changes
\* at most last_sync; those of the worker change nothing here.  (Also a
\* mutant of Sync: a sync whose token is refused has just failed.)
SyncEnds(t) ==
    /\ step = "idle"
    /\ syncs[t] = "start"
    /\ syncs' = [syncs EXCEPT ![t] = "none"]
    /\ UNCHANGED <<server, disk, memory, call, accepted, unclean>>

\* The server refuses the token.  The request is made under the read lock.
Sync(t) ==
    /\ step = "idle"
    /\ \/ t = worker /\ vault_state = "Unlocked" /\ syncs[t] = "none"
       \/ syncs[t] = "start"
    /\ token = "revoked"
    /\ Go(t, "revoked")
    /\ accepted' = {}
    /\ UNCHANGED <<server, disk, memory, call, unclean>>

RevokedCache(t) ==
    /\ syncs[t] = "file"
    /\ Go(t, "file")
    /\ \/ cache_file' = None /\ UNCHANGED unclean
       \/ Fails("cache_file") /\ unclean' = TRUE /\ UNCHANGED cache_file
    /\ UNCHANGED <<server, login_file, key_store, memory, call, accepted>>

RevokedKey(t) ==
    /\ syncs[t] = "key"
    /\ Go(t, "key")
    /\ \/ key_store' = NoKey
       \/ Fails("key_store") /\ UNCHANGED key_store
    /\ UNCHANGED <<server, login_file, cache_file, memory, call, accepted,
                   unclean>>

RevokedLock(t) ==
    /\ step = "idle"
    /\ syncs[t] = "lock"
    /\ Go(t, "lock")
    /\ IF vault_state = "Unlocked" THEN lock ELSE UNCHANGED <<memory, typed>>
    /\ UNCHANGED <<server, disk, step, held, accepted, unclean>>

handle_auth_revoked(t) == RevokedCache(t) \/ RevokedKey(t) \/ RevokedLock(t)

-----------------------------------------------------------------------------
(* The server, and the end of the process                                  *)

\* The server stops accepting the token: it has expired, or its session was
\* ended from elsewhere.
TokenRevoked ==
    /\ token = "good"
    /\ token' = "revoked"
    /\ UNCHANGED <<server, disk, vault_state, login_state, keys, call,
                   syncs, accepted, unclean>>

\* The user changes the password elsewhere, or the account is closed; the
\* server ends the sessions of the account.
PasswordChanged(a, p) ==
    /\ password[a] \notin {p, None}
    /\ password' = [password EXCEPT ![a] = p]
    /\ own' = IF p = None THEN own ELSE own \cup {<<a, p>>}
    /\ token' = IF login_state = a /\ token = "good" THEN "revoked" ELSE token
    /\ UNCHANGED <<disk, vault_state, login_state, keys, call, syncs,
                   accepted, unclean>>

\* A mutant of load_login_state: the file is not validated.
load_unchecked == login_file

\* A login file that does not parse counts as none.
load_login_state == IF login_file = Damaged THEN None ELSE login_file

\* ServiceState::new, after a crash or a shutdown
Restart ==
    /\ login_state' = load_login_state
    /\ vault_state' = IF login_state' = None THEN "LoggedOut" ELSE "Locked"
    /\ keys' = None
    /\ token' = "none"
    /\ step' = "idle"
    /\ typed' = None
    /\ held' = None
    /\ syncs' = [t \in SyncTasks |-> "none"]
    /\ unclean' = \/ unclean
                  \/ step \in LogoutSteps
                  \/ \E t \in SyncTasks : syncs[t] = "file"
    /\ UNCHANGED <<server, disk, accepted>>

Init ==
    /\ password \in Registered
    /\ own = {<<a, password[a]>> : a \in Accounts}
    /\ login_file = None
    /\ cache_file = None
    /\ key_store = NoKey
    /\ vault_state = "LoggedOut"
    /\ login_state = None
    /\ keys = None
    /\ token = "none"
    /\ step = "idle"
    /\ typed = None
    /\ held = None
    /\ syncs = [t \in SyncTasks |-> "none"]
    /\ accepted = {}
    /\ unclean = FALSE

Continue ==
    \/ SaveLogin \/ Remove
    \/ ReadCache \/ UnlockFromCache \/ FallThrough
    \/ UnlockOnline \/ UnlockRefused
    \/ BuildCache \/ TruncateCache \/ WriteCache

Next ==
    \/ \E a \in Accounts, p \in Passwords : Login(a, p)
    \/ \E p \in Passwords : Unlock(p) \/ VerifyPassword(p)
    \/ Lock \/ Logout
    \/ Continue
    \/ \E t \in SyncTasks : Sync(t) \/ SyncEnds(t) \/ handle_auth_revoked(t)
    \/ TokenRevoked
    \/ \E a \in Changing, p \in Passwords \cup {None} : PasswordChanged(a, p)
    \/ Restart

Spec == Init /\ [][Next]_vars

-----------------------------------------------------------------------------
(* Safety *)

\* After a revocation has been handled, no password opens the vault, cache
\* or not, that the server has not accepted again: the deletions without the
\* lock, an unlock that has read the cache before and one that is writing a
\* new cache leave nothing behind that would.
RevokedPasswordIsForgotten ==
    /\ vault_state = "Unlocked"
    /\ \A t \in SyncTasks : syncs[t] \in {"none", "start"}
    /\ ~unclean
    => <<keys, typed>> \in accepted

\* The cache, its key and the keys in memory are those of the login and
\* never survive it, across restarts at any point outside a logout, as long
\* as every file could be written and deleted.  A logout that deletes
\* everything makes up for what failed before it.
LoginOwnsTheCache ==
    step \notin LogoutSteps /\ ~unclean =>
        /\ IsCache(cache_file) => cache_file.account = login_state
        /\ keys # None => keys = login_state
        /\ login_state = None => cache_file = None /\ key_store = NoKey

\* The vault opens only with a password that the account whose keys it then
\* has was given by its user, at the server now or when the cache was built:
\* also when a failed or interrupted logout has left the cache of another
\* login behind, and whatever else went wrong (no exception for unclean).
\* unlock, unlock_from_cache, build_cache.
OnlyItsOwnPasswordOpens ==
    vault_state = "Unlocked" => <<keys, typed>> \in own

-----------------------------------------------------------------------------
(* Liveness: the tasks go on when they have the lock, and the worker's      *)
(* sync reaches the server again and again.  Nothing is assumed of users.   *)

FairSpec ==
    /\ Spec
    /\ WF_vars(Continue)
    /\ WF_vars(Sync(worker))
    /\ \A t \in SyncTasks : WF_vars(handle_auth_revoked(t))

\* A vault whose token the server has revoked does not stay unlocked.
RevokedVaultLocks == []<>~(vault_state = "Unlocked" /\ token = "revoked")
=============================================================================
