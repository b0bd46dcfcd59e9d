--------------------------- MODULE VaultCacheProofs ---------------------------
(***************************************************************************)
(* Proofs about VaultCache, for any accounts, passwords, keys and sync     *)
(* tasks, and for any set of stores that fail.  ControlInv ties the step   *)
(* of the running operation to the state of the vault; OwnerInv and        *)
(* AcceptedInv strengthen LoginOwnsTheCache and RevokedPasswordIsForgotten *)
(* by what holds between the steps of the operations.                      *)
(***************************************************************************)
EXTENDS VaultCache, TLAPS

Writing == {"truncate", "write"}
Unlocking == {"read", "cache", "online"}
Revoking == {"file", "key", "lock"}

ControlInv ==
    /\ vault_state = "LoggedOut" <=> login_state = None
    /\ vault_state = "Unlocked" <=> keys # None
    /\ step \in LogoutSteps => vault_state = "LoggedOut"
    /\ step \in Unlocking \cup {"save"} => vault_state = "Locked"
    /\ step \in {"build"} \cup Writing =>
          vault_state = "Unlocked" /\ keys = login_state
    /\ step \in Unlocking \cup {"build"} => typed # None
    /\ vault_state = "Unlocked" => typed # None
    /\ step \in {"cache"} \cup Writing => held \in Cache

\* The cache that is read or written belongs to the login, and so does the
\* file that a restart would restore the login from.
OwnerInv ==
    ~unclean =>
        /\ LoginOwnsTheCache
        /\ step \notin {"save"} \cup LogoutSteps =>
              load_login_state = login_state
        /\ step = "save" =>
              /\ load_login_state = None
              /\ cache_file = None
              /\ key_store = NoKey
        /\ step \in {"cache"} \cup Writing => held.account = login_state
        /\ step \in {"logout_cache", "logout_key"} => login_file = None
        /\ step = "logout_key" => cache_file = None

Opens(c) == <<c.account, c.password>>

\* No cache outlives the deletion of the file with a password that is no
\* longer accepted; one that an unlock has in hand may, until the lock.
AcceptedInv ==
    /\ /\ ~unclean
       /\ step \notin {"logout_login", "logout_cache"}
       /\ \A t \in SyncTasks : syncs[t] # "file"
       => (IsCache(cache_file) => Opens(cache_file) \in accepted)
    /\ step = "build" => <<login_state, typed>> \in accepted
    /\ step \in Writing => Opens(held) \in accepted
    /\ ~unclean /\ (\A t \in SyncTasks : syncs[t] \notin Revoking) =>
          /\ step = "cache" => Opens(held) \in accepted
          /\ vault_state = "Unlocked" => <<keys, typed>> \in accepted

\* Every password that a cache, an unlock or an open vault pairs with an
\* account is one that the account has or has had; only the server's answer
\* brings new pairs, and nobody can make up another.
OwnInv ==
    /\ \A a \in Accounts : password[a] # None => <<a, password[a]>> \in own
    /\ IsCache(cache_file) => Opens(cache_file) \in own
    /\ step \in {"cache"} \cup Writing => Opens(held) \in own
    /\ OnlyItsOwnPasswordOpens

-----------------------------------------------------------------------------
\* What the server accepts is an account with a password.
LEMMA AcceptTyped ==
    ASSUME accepted \in SUBSET (Accounts \X Passwords),
           NEW a \in Accounts, NEW p \in Passwords, Accept(a, p)
    PROVE  accepted' \in SUBSET (Accounts \X Passwords)
BY DEF Accept

\* Spawning a sync starts no revocation.
LEMMA SpawnTyped ==
    ASSUME syncs \in [SyncTasks -> {"none", "start", "file", "key", "lock"}],
           SpawnSync
    PROVE  /\ syncs' \in [SyncTasks ->
                            {"none", "start", "file", "key", "lock"}]
           /\ \A t \in SyncTasks : syncs'[t] # syncs[t] => syncs[t] = "none"
           /\ \A t \in SyncTasks : syncs'[t] \in {syncs[t], "start"}
BY DEF SpawnSync

LEMMA TypeInit == Init => TypeOK
<1>. SUFFICES ASSUME Init PROVE TypeOK
    OBVIOUS
<1>1. password \in [Accounts -> Passwords]
    BY CacheAssumption DEF Init, CacheAssumption
<1>2. own \in SUBSET (Accounts \X Passwords)
    BY <1>1 DEF Init
<1>. QED
    BY <1>1, <1>2, CacheAssumption DEF Init, TypeOK, CacheAssumption

LEMMA TypeStep == TypeOK /\ ControlInv /\ [Next]_vars => TypeOK'
<1>. SUFFICES ASSUME TypeOK, ControlInv, [Next]_vars PROVE TypeOK'
    OBVIOUS
<1>1. ASSUME NEW a \in Accounts, NEW p \in Passwords, Login(a, p) PROVE TypeOK'
    <2>1. accepted' \in SUBSET (Accounts \X Passwords)
        BY <1>1, AcceptTyped DEF Login, TypeOK
    <2>. QED
        BY <2>1, <1>1 DEF Login, TypeOK, server, disk, memory, call
<1>2. ASSUME NEW p \in Passwords, Unlock(p) PROVE TypeOK'
    BY <1>2 DEF Unlock, TypeOK, server, disk, memory, call
<1>3. ASSUME NEW p \in Passwords, VerifyPassword(p) PROVE TypeOK'
    <2>1. accepted' \in SUBSET (Accounts \X Passwords)
        BY <1>3, AcceptTyped DEF VerifyPassword, TypeOK, ControlInv
    <2>. QED
        BY <2>1, <1>3 DEF VerifyPassword, TypeOK, server, disk, memory, call
<1>4. CASE Lock
    BY <1>4 DEF Lock, lock, TypeOK, server, disk, memory, call
<1>5. CASE Logout
    BY <1>5 DEF Logout, TypeOK, LogoutSteps, server, disk, memory, call
<1>6. CASE SaveLogin
    <2>1. unclean' \in BOOLEAN
        BY <1>6 DEF SaveLogin, TypeOK
    <2>. QED
        BY <2>1, <1>6 DEF SaveLogin, TypeOK, server, disk, memory, call
<1>7. CASE Remove
    BY <1>7 DEF Remove, AfterRemoval, TypeOK, LogoutSteps, server, disk,
          memory, call
<1>8. CASE ReadCache
    BY <1>8 DEF ReadCache, IsCache, TypeOK, server, disk, memory, call
<1>9. CASE UnlockFromCache
    <2>1. accepted' \in SUBSET (Accounts \X Passwords)
        BY <1>9, AcceptTyped DEF UnlockFromCache, TypeOK, ControlInv,
              Unlocking
    <2>2. keys' \in Accounts
        BY <1>9 DEF UnlockFromCache, TypeOK, ControlInv, Cache
    <2>3. syncs' \in [SyncTasks -> {"none", "start", "file", "key", "lock"}]
        BY <1>9, SpawnTyped DEF UnlockFromCache, TypeOK
    <2>. QED
        BY <2>1, <2>2, <2>3, <1>9 DEF UnlockFromCache, TypeOK, server, disk,
              memory, call
<1>10. CASE FallThrough
    BY <1>10 DEF FallThrough, TypeOK, server, disk, memory, call
<1>11. CASE UnlockOnline
    <2>1. accepted' \in SUBSET (Accounts \X Passwords)
        BY <1>11, AcceptTyped DEF UnlockOnline, TypeOK, ControlInv, Unlocking
    <2>. QED
        BY <2>1, <1>11 DEF UnlockOnline, TypeOK, server, disk, memory, call
<1>12. CASE UnlockRefused
    BY <1>12 DEF UnlockRefused, TypeOK, server, disk, memory, call
<1>13. CASE BuildCache
    <2>1. held' \in Cache /\ key_store' \in Keys \cup {NoKey}
        <3>1. login_state \in Accounts /\ typed \in Passwords
            BY <1>13 DEF BuildCache, TypeOK, ControlInv
        <3>2. PICK k \in Keys \cup {NoKey} :
                  /\ held' = [account |-> login_state, password |-> typed,
                              cek |-> k]
                  /\ key_store' \in {key_store, k}
            BY <1>13 DEF BuildCache
        <3>. QED
            BY <3>1, <3>2 DEF Cache, TypeOK
    <2>. QED
        BY <2>1, <1>13 DEF BuildCache, TypeOK, server, disk, memory, call
<1>14. CASE TruncateCache
    BY <1>14 DEF TruncateCache, TypeOK, server, disk, memory, call
<1>15. CASE WriteCache
    BY <1>15 DEF WriteCache, SpawnSync, TypeOK, server, disk, memory, call
<1>16. ASSUME NEW t \in SyncTasks, Sync(t) PROVE TypeOK'
    BY <1>16 DEF Sync, Go, AfterRevoked, TypeOK, server, disk, memory, call
<1>17. ASSUME NEW t \in SyncTasks, SyncEnds(t) PROVE TypeOK'
    BY <1>17 DEF SyncEnds, TypeOK, server, disk, memory, call
<1>18. ASSUME NEW t \in SyncTasks, RevokedCache(t) PROVE TypeOK'
    <2>1. unclean' \in BOOLEAN
        BY <1>18 DEF RevokedCache, TypeOK
    <2>. QED
        BY <2>1, <1>18 DEF RevokedCache, Go, AfterRevoked, TypeOK, server,
              disk, memory, call
<1>19. ASSUME NEW t \in SyncTasks, RevokedKey(t) PROVE TypeOK'
    BY <1>19 DEF RevokedKey, Go, AfterRevoked, TypeOK, server, disk, memory,
          call
<1>20. ASSUME NEW t \in SyncTasks, RevokedLock(t) PROVE TypeOK'
    BY <1>20 DEF RevokedLock, lock, Go, AfterRevoked, TypeOK, server, disk,
          memory, call
<1>21. CASE TokenRevoked
    BY <1>21 DEF TokenRevoked, TypeOK, server, disk, memory, call
<1>22. ASSUME NEW a \in Changing, NEW p \in Passwords \cup {None},
              PasswordChanged(a, p)
       PROVE TypeOK'
    <2>1. password' \in [Accounts -> Passwords \cup {None}]
        BY <1>22 DEF PasswordChanged, TypeOK
    <2>. QED
        BY <2>1, <1>22 DEF PasswordChanged, TypeOK, server, disk, memory, call
<1>23. CASE Restart
    BY <1>23 DEF Restart, load_login_state, TypeOK, server, disk, memory, call
<1>24. CASE UNCHANGED vars
    BY <1>24 DEF vars, server, TypeOK, disk, memory, call
<1>25. QED
    BY <1>1, <1>2, <1>3, <1>4, <1>5, <1>6, <1>7, <1>8, <1>9, <1>10, <1>11,
       <1>12, <1>13, <1>14, <1>15, <1>16, <1>17, <1>18, <1>19, <1>20, <1>21,
       <1>22, <1>23, <1>24
       DEF Next, Continue, handle_auth_revoked

-----------------------------------------------------------------------------
LEMMA ControlInit == Init => ControlInv
BY DEF Init, ControlInv, LogoutSteps, Unlocking, Writing

LEMMA ControlStep == TypeOK /\ ControlInv /\ [Next]_vars => ControlInv'
<1>. SUFFICES ASSUME TypeOK, ControlInv, [Next]_vars PROVE ControlInv'
    OBVIOUS
<1>. USE CacheAssumption DEF CacheAssumption, TypeOK
<1>1. ASSUME NEW a \in Accounts, NEW p \in Passwords, Login(a, p)
      PROVE ControlInv'
    BY <1>1 DEF Login, Accept, ControlInv, LogoutSteps, Unlocking, Writing,
          server, disk, memory, call
<1>2. ASSUME NEW p \in Passwords, Unlock(p) PROVE ControlInv'
    BY <1>2 DEF Unlock, ControlInv, LogoutSteps, Writing, server, disk, memory,
          call
<1>3. ASSUME NEW p \in Passwords, VerifyPassword(p) PROVE ControlInv'
    BY <1>3 DEF VerifyPassword, Accept, ControlInv, server, disk, memory, call
<1>4. CASE Lock
    BY <1>4 DEF Lock, lock, ControlInv, Writing, server, disk, memory, call
<1>5. CASE Logout
    BY <1>5 DEF Logout, ControlInv, Unlocking, Writing, server, disk, memory,
          call
<1>6. CASE SaveLogin
    BY <1>6 DEF SaveLogin, ControlInv, LogoutSteps, Unlocking, Writing, server,
          disk, memory, call
<1>7. CASE Remove
    BY <1>7 DEF Remove, AfterRemoval, ControlInv, Unlocking, Writing, server,
          disk, memory, call
<1>8. CASE ReadCache
    BY <1>8 DEF ReadCache, IsCache, ControlInv, LogoutSteps, Unlocking,
          Writing, server, disk, memory, call
<1>9. CASE UnlockFromCache
    BY <1>9 DEF UnlockFromCache, Accept, SpawnSync, ControlInv, LogoutSteps,
          Unlocking, Writing, Cache, server, disk, memory, call
<1>10. CASE FallThrough
    BY <1>10 DEF FallThrough, ControlInv, LogoutSteps, Unlocking, Writing,
          server, disk, memory, call
<1>11. CASE UnlockOnline
    BY <1>11 DEF UnlockOnline, Accept, ControlInv, LogoutSteps, Unlocking,
          Writing, server, disk, memory, call
<1>12. CASE UnlockRefused
    BY <1>12 DEF UnlockRefused, ControlInv, LogoutSteps, Unlocking, Writing,
          server, disk, memory, call
<1>13. CASE BuildCache
    BY <1>13 DEF BuildCache, ControlInv, LogoutSteps, Unlocking, Cache, server,
          disk, memory, call
<1>14. CASE TruncateCache
    BY <1>14 DEF TruncateCache, ControlInv, LogoutSteps, Unlocking, Writing,
          server, disk, memory, call
<1>15. CASE WriteCache
    BY <1>15 DEF WriteCache, SpawnSync, ControlInv, LogoutSteps, Unlocking,
          Writing, server, disk, memory, call
<1>16. ASSUME NEW t \in SyncTasks, Sync(t) PROVE ControlInv'
    BY <1>16 DEF Sync, Go, AfterRevoked, ControlInv, server, disk, memory, call
<1>17. ASSUME NEW t \in SyncTasks, SyncEnds(t) PROVE ControlInv'
    BY <1>17 DEF SyncEnds, ControlInv, server, disk, memory, call
<1>18. ASSUME NEW t \in SyncTasks, RevokedCache(t) PROVE ControlInv'
    BY <1>18 DEF RevokedCache, Go, AfterRevoked, ControlInv, server, disk,
          memory, call
<1>19. ASSUME NEW t \in SyncTasks, RevokedKey(t) PROVE ControlInv'
    BY <1>19 DEF RevokedKey, Go, AfterRevoked, ControlInv, server, disk,
          memory, call
<1>20. ASSUME NEW t \in SyncTasks, RevokedLock(t) PROVE ControlInv'
    BY <1>20 DEF RevokedLock, lock, Go, AfterRevoked, ControlInv, Writing,
          server, disk, memory, call
<1>21. CASE TokenRevoked
    BY <1>21 DEF TokenRevoked, ControlInv, server, disk, memory, call
<1>22. ASSUME NEW a \in Changing, NEW p \in Passwords \cup {None},
              PasswordChanged(a, p)
       PROVE ControlInv'
    BY <1>22 DEF PasswordChanged, ControlInv, server, disk, memory, call
<1>23. CASE Restart
    BY <1>23 DEF Restart, ControlInv, LogoutSteps, Unlocking, Writing, server,
          disk, memory, call
<1>24. CASE UNCHANGED vars
    BY <1>24 DEF vars, server, ControlInv, server, disk, memory, call
<1>25. QED
    BY <1>1, <1>2, <1>3, <1>4, <1>5, <1>6, <1>7, <1>8, <1>9, <1>10, <1>11,
       <1>12, <1>13, <1>14, <1>15, <1>16, <1>17, <1>18, <1>19, <1>20, <1>21,
       <1>22, <1>23, <1>24
       DEF Next, Continue, handle_auth_revoked

\* The state stays within its types, for any constants.
THEOREM CacheTypeCorrect == Spec => []TypeOK
<1>. DEFINE I == TypeOK /\ ControlInv
<1>1. Init => I
    BY TypeInit, ControlInit
<1>2. I /\ [Next]_vars => I'
    BY TypeStep, ControlStep
<1>. QED
    BY <1>1, <1>2, PTL DEF Spec

-----------------------------------------------------------------------------
LEMMA OwnerInit == Init => OwnerInv
BY CacheAssumption DEF Init, OwnerInv, LoginOwnsTheCache, load_login_state,
      Writing, IsCache, CacheAssumption

LEMMA OwnerStep ==
    TypeOK /\ ControlInv /\ OwnerInv /\ [Next]_vars => OwnerInv'
<1>. SUFFICES ASSUME TypeOK, ControlInv, OwnerInv, [Next]_vars
              PROVE OwnerInv'
    OBVIOUS
<1>. USE CacheAssumption DEF CacheAssumption, TypeOK, ControlInv
<1>1. ASSUME NEW a \in Accounts, NEW p \in Passwords, Login(a, p)
      PROVE OwnerInv'
    BY <1>1 DEF Login, Accept, OwnerInv, LoginOwnsTheCache, load_login_state,
          LogoutSteps, Writing, IsCache, server, disk, memory, call
<1>2. ASSUME NEW p \in Passwords, Unlock(p) PROVE OwnerInv'
    BY <1>2 DEF Unlock, OwnerInv, LoginOwnsTheCache, load_login_state,
          Writing, server, disk, memory, call
<1>3. ASSUME NEW p \in Passwords, VerifyPassword(p) PROVE OwnerInv'
    BY <1>3 DEF VerifyPassword, Accept, OwnerInv, LoginOwnsTheCache,
          load_login_state, server, disk, memory, call
<1>4. CASE Lock
    BY <1>4 DEF Lock, lock, OwnerInv, LoginOwnsTheCache, load_login_state,
          server, disk, memory, call
<1>5. CASE Logout
    BY <1>5 DEF Logout, OwnerInv, LoginOwnsTheCache, load_login_state,
          LogoutSteps, Writing, server, disk, memory, call
<1>6. CASE SaveLogin
    BY <1>6 DEF SaveLogin, OwnerInv, LoginOwnsTheCache, load_login_state,
          Writing, server, disk, memory, call
<1>7. CASE Remove
    BY <1>7 DEF Remove, AfterRemoval, OwnerInv, LoginOwnsTheCache,
          load_login_state, LogoutSteps, Writing, IsCache, server, disk,
          memory, call
<1>8. CASE ReadCache
    BY <1>8 DEF ReadCache, OwnerInv, LoginOwnsTheCache, load_login_state,
          LogoutSteps, Writing, server, disk, memory, call
<1>9. CASE UnlockFromCache
    BY <1>9 DEF UnlockFromCache, Accept, SpawnSync, OwnerInv,
          LoginOwnsTheCache, load_login_state, LogoutSteps, Writing, server,
          disk, memory, call
<1>10. CASE FallThrough
    BY <1>10 DEF FallThrough, OwnerInv, LoginOwnsTheCache, load_login_state,
          LogoutSteps, Writing, server, disk, memory, call
<1>11. CASE UnlockOnline
    BY <1>11 DEF UnlockOnline, Accept, OwnerInv, LoginOwnsTheCache,
          load_login_state, LogoutSteps, Writing, server, disk, memory, call
<1>12. CASE UnlockRefused
    BY <1>12 DEF UnlockRefused, OwnerInv, LoginOwnsTheCache,
          load_login_state, LogoutSteps, Writing, server, disk, memory, call
<1>13. CASE BuildCache
    BY <1>13 DEF BuildCache, OwnerInv, LoginOwnsTheCache, load_login_state,
          server, disk, memory, call
<1>14. CASE TruncateCache
    BY <1>14 DEF TruncateCache, OwnerInv, LoginOwnsTheCache,
          load_login_state, Writing, IsCache, server, disk, memory, call
<1>15. CASE WriteCache
    BY <1>15 DEF WriteCache, SpawnSync, OwnerInv, LoginOwnsTheCache,
          load_login_state, Writing, server, disk, memory, call
<1>16. ASSUME NEW t \in SyncTasks, Sync(t) PROVE OwnerInv'
    BY <1>16 DEF Sync, Go, AfterRevoked, OwnerInv, LoginOwnsTheCache,
          load_login_state, server, disk, memory, call
<1>17. ASSUME NEW t \in SyncTasks, SyncEnds(t) PROVE OwnerInv'
    BY <1>17 DEF SyncEnds, OwnerInv, LoginOwnsTheCache, load_login_state,
          server, disk, memory, call
<1>18. ASSUME NEW t \in SyncTasks, RevokedCache(t) PROVE OwnerInv'
    BY <1>18 DEF RevokedCache, Go, AfterRevoked, OwnerInv, LoginOwnsTheCache,
          load_login_state, IsCache, server, disk, memory, call
<1>19. ASSUME NEW t \in SyncTasks, RevokedKey(t) PROVE OwnerInv'
    BY <1>19 DEF RevokedKey, Go, AfterRevoked, OwnerInv, LoginOwnsTheCache,
          load_login_state, server, disk, memory, call
<1>20. ASSUME NEW t \in SyncTasks, RevokedLock(t) PROVE OwnerInv'
    BY <1>20 DEF RevokedLock, lock, Go, AfterRevoked, OwnerInv,
          LoginOwnsTheCache, load_login_state, server, disk, memory, call
<1>21. CASE TokenRevoked
    BY <1>21 DEF TokenRevoked, OwnerInv, LoginOwnsTheCache, load_login_state,
          server, disk, memory, call
<1>22. ASSUME NEW a \in Changing, NEW p \in Passwords \cup {None},
              PasswordChanged(a, p)
       PROVE OwnerInv'
    BY <1>22 DEF PasswordChanged, OwnerInv, LoginOwnsTheCache,
          load_login_state, server, disk, memory, call
<1>23. CASE Restart
    BY <1>23 DEF Restart, load_login_state, OwnerInv, LoginOwnsTheCache,
          LogoutSteps, Writing, IsCache, server, disk, memory, call
<1>24. CASE UNCHANGED vars
    BY <1>24 DEF vars, server, OwnerInv, LoginOwnsTheCache, load_login_state,
          server, disk, memory, call
<1>25. QED
    BY <1>1, <1>2, <1>3, <1>4, <1>5, <1>6, <1>7, <1>8, <1>9, <1>10, <1>11,
       <1>12, <1>13, <1>14, <1>15, <1>16, <1>17, <1>18, <1>19, <1>20, <1>21,
       <1>22, <1>23, <1>24
       DEF Next, Continue, handle_auth_revoked

\* LoginOwnsTheCache, whatever the accounts and wherever the process ends: as
\* long as no deletion has failed or been cut short, the cache, its key and
\* the keys in memory belong to the login.
THEOREM CacheBelongsToTheLogin == Spec => []LoginOwnsTheCache
<1>. DEFINE I == TypeOK /\ ControlInv /\ OwnerInv
<1>1. Init => I
    BY TypeInit, ControlInit, OwnerInit
<1>2. I /\ [Next]_vars => I'
    BY TypeStep, ControlStep, OwnerStep
<1>3. I => LoginOwnsTheCache
    BY DEF OwnerInv, LoginOwnsTheCache
<1>. QED
    BY <1>1, <1>2, <1>3, PTL DEF Spec

-----------------------------------------------------------------------------
LEMMA AcceptedInit == Init => AcceptedInv
BY DEF Init, AcceptedInv, IsCache, Writing

LEMMA AcceptedStep ==
    TypeOK /\ ControlInv /\ AcceptedInv /\ [Next]_vars => AcceptedInv'
<1>. SUFFICES ASSUME TypeOK, ControlInv, AcceptedInv, [Next]_vars
              PROVE AcceptedInv'
    OBVIOUS
<1>. USE CacheAssumption DEF CacheAssumption, TypeOK, ControlInv
<1>1. ASSUME NEW a \in Accounts, NEW p \in Passwords, Login(a, p)
      PROVE AcceptedInv'
    BY <1>1 DEF Login, Accept, AcceptedInv, Writing, server, disk, memory, call
<1>2. ASSUME NEW p \in Passwords, Unlock(p) PROVE AcceptedInv'
    BY <1>2 DEF Unlock, AcceptedInv, Writing, server, disk, memory, call
<1>3. ASSUME NEW p \in Passwords, VerifyPassword(p) PROVE AcceptedInv'
    BY <1>3 DEF VerifyPassword, Accept, AcceptedInv, server, disk, memory, call
<1>4. CASE Lock
    BY <1>4 DEF Lock, lock, AcceptedInv, server, disk, memory, call
<1>5. CASE Logout
    BY <1>5 DEF Logout, AcceptedInv, Writing, server, disk, memory, call
<1>6. CASE SaveLogin
    BY <1>6 DEF SaveLogin, AcceptedInv, Writing, server, disk, memory, call
<1>7. CASE Remove
    BY <1>7 DEF Remove, AfterRemoval, AcceptedInv, Writing, IsCache, server,
          disk, memory, call
<1>8. CASE ReadCache
    BY <1>8 DEF ReadCache, AcceptedInv, Unlocking, Writing, Revoking, server,
          disk, memory, call
<1>9. CASE UnlockFromCache
    <2>1. /\ held.password = typed
          /\ keys' = held.account
          /\ accepted \subseteq accepted'
        BY <1>9 DEF UnlockFromCache, CacheOpens, Accept
    <2>2. \A t \in SyncTasks : syncs'[t] \in {syncs[t], "start"}
        BY <1>9, SpawnTyped DEF UnlockFromCache
    <2>3. \A t \in SyncTasks : syncs'[t] # syncs[t] => syncs[t] = "none"
        BY <1>9, SpawnTyped DEF UnlockFromCache
    <2>. QED
        BY <2>1, <2>2, <2>3, <1>9 DEF UnlockFromCache, AcceptedInv, Opens,
              Writing, Revoking, server, disk, memory, call
<1>10. CASE FallThrough
    BY <1>10 DEF FallThrough, AcceptedInv, Unlocking, Writing, server, disk,
          memory, call
<1>11. CASE UnlockOnline
    BY <1>11 DEF UnlockOnline, Accept, AcceptedInv, Unlocking, Writing, server,
          disk, memory, call
<1>12. CASE UnlockRefused
    BY <1>12 DEF UnlockRefused, AcceptedInv, Unlocking, Writing, server, disk,
          memory, call
<1>13. CASE BuildCache
    BY <1>13 DEF BuildCache, AcceptedInv, Opens, server, disk, memory, call
<1>14. CASE TruncateCache
    BY <1>14 DEF TruncateCache, AcceptedInv, Writing, IsCache, server, disk,
          memory, call
<1>15. CASE WriteCache
    BY <1>15 DEF WriteCache, SpawnSync, AcceptedInv, Writing, Revoking, server,
          disk, memory, call
<1>16. ASSUME NEW t \in SyncTasks, Sync(t) PROVE AcceptedInv'
    BY <1>16 DEF Sync, Go, AfterRevoked, AcceptedInv, Writing, Revoking,
          server, disk, memory, call
<1>17. ASSUME NEW t \in SyncTasks, SyncEnds(t) PROVE AcceptedInv'
    BY <1>17 DEF SyncEnds, AcceptedInv, Revoking, server, disk, memory, call
<1>18. ASSUME NEW t \in SyncTasks, RevokedCache(t) PROVE AcceptedInv'
    BY <1>18 DEF RevokedCache, Go, AfterRevoked, AcceptedInv, Revoking,
          IsCache, server, disk, memory, call
<1>19. ASSUME NEW t \in SyncTasks, RevokedKey(t) PROVE AcceptedInv'
    BY <1>19 DEF RevokedKey, Go, AfterRevoked, AcceptedInv, Revoking, server,
          disk, memory, call
<1>20. ASSUME NEW t \in SyncTasks, RevokedLock(t) PROVE AcceptedInv'
    BY <1>20 DEF RevokedLock, lock, Go, AfterRevoked, AcceptedInv, server,
          disk, memory, call
<1>21. CASE TokenRevoked
    BY <1>21 DEF TokenRevoked, AcceptedInv, server, disk, memory, call
<1>22. ASSUME NEW a \in Changing, NEW p \in Passwords \cup {None},
              PasswordChanged(a, p)
       PROVE AcceptedInv'
    BY <1>22 DEF PasswordChanged, AcceptedInv, server, disk, memory, call
<1>23. CASE Restart
    BY <1>23 DEF Restart, AcceptedInv, Writing, server, disk, memory, call
<1>24. CASE UNCHANGED vars
    BY <1>24 DEF vars, server, AcceptedInv, server, disk, memory, call
<1>25. QED
    BY <1>1, <1>2, <1>3, <1>4, <1>5, <1>6, <1>7, <1>8, <1>9, <1>10, <1>11,
       <1>12, <1>13, <1>14, <1>15, <1>16, <1>17, <1>18, <1>19, <1>20, <1>21,
       <1>22, <1>23, <1>24
       DEF Next, Continue, handle_auth_revoked

\* RevokedPasswordIsForgotten: a revocation that deletes without the lock
\* leaves no password behind that the server has not accepted since.
THEOREM RevocationForgets == Spec => []RevokedPasswordIsForgotten
<1>. DEFINE I == TypeOK /\ ControlInv /\ AcceptedInv
<1>1. Init => I
    BY TypeInit, ControlInit, AcceptedInit
<1>2. I /\ [Next]_vars => I'
    BY TypeStep, ControlStep, AcceptedStep
<1>3. I => RevokedPasswordIsForgotten
    BY DEF AcceptedInv, RevokedPasswordIsForgotten, Revoking
<1>. QED
    BY <1>1, <1>2, <1>3, PTL DEF Spec
-----------------------------------------------------------------------------
LEMMA OwnInit == Init => OwnInv
BY CacheAssumption DEF Init, OwnInv, OnlyItsOwnPasswordOpens, IsCache, Writing

LEMMA OwnStep ==
    TypeOK /\ ControlInv /\ OwnInv /\ [Next]_vars => OwnInv'
<1>. SUFFICES ASSUME TypeOK, ControlInv, OwnInv, [Next]_vars
              PROVE OwnInv'
    OBVIOUS
<1>. USE CacheAssumption
     DEF CacheAssumption, TypeOK, ControlInv, OwnInv, OnlyItsOwnPasswordOpens,
         IsCache, Opens, Writing, server, disk, memory, call
<1>1. ASSUME NEW a \in Accounts, NEW p \in Passwords, Login(a, p) PROVE OwnInv'
    BY <1>1 DEF Login, Accept
<1>2. ASSUME NEW p \in Passwords, Unlock(p) PROVE OwnInv'
    BY <1>2 DEF Unlock
<1>3. ASSUME NEW p \in Passwords, VerifyPassword(p) PROVE OwnInv'
    BY <1>3 DEF VerifyPassword, Accept
<1>4. CASE Lock
    BY <1>4 DEF Lock, lock
<1>5. CASE Logout
    BY <1>5 DEF Logout, LogoutSteps
<1>6. CASE SaveLogin
    BY <1>6 DEF SaveLogin
<1>7. CASE Remove
    BY <1>7 DEF Remove, AfterRemoval, LogoutSteps
<1>8. CASE ReadCache
    BY <1>8 DEF ReadCache, Unlocking
<1>9. CASE UnlockFromCache
    BY <1>9 DEF UnlockFromCache, CacheOpens, Accept, Unlocking
<1>10. CASE FallThrough
    BY <1>10 DEF FallThrough, Unlocking
<1>11. CASE UnlockOnline
    BY <1>11 DEF UnlockOnline, Accept, Unlocking
<1>12. CASE UnlockRefused
    BY <1>12 DEF UnlockRefused, Unlocking
<1>13. CASE BuildCache
    BY <1>13 DEF BuildCache
<1>14. CASE TruncateCache
    BY <1>14 DEF TruncateCache
<1>15. CASE WriteCache
    BY <1>15 DEF WriteCache
<1>16. ASSUME NEW t \in SyncTasks, Sync(t) PROVE OwnInv'
    BY <1>16 DEF Sync
<1>17. ASSUME NEW t \in SyncTasks, SyncEnds(t) PROVE OwnInv'
    BY <1>17 DEF SyncEnds
<1>18. ASSUME NEW t \in SyncTasks, RevokedCache(t) PROVE OwnInv'
    BY <1>18 DEF RevokedCache
<1>19. ASSUME NEW t \in SyncTasks, RevokedKey(t) PROVE OwnInv'
    BY <1>19 DEF RevokedKey
<1>20. ASSUME NEW t \in SyncTasks, RevokedLock(t) PROVE OwnInv'
    BY <1>20 DEF RevokedLock, lock
<1>21. CASE TokenRevoked
    BY <1>21 DEF TokenRevoked
<1>22. ASSUME NEW a \in Changing, NEW p \in Passwords \cup {None},
              PasswordChanged(a, p)
       PROVE OwnInv'
    <2>1. ASSUME NEW b \in Accounts, password'[b] # None
          PROVE <<b, password'[b]>> \in own'
        BY <1>22, <2>1 DEF PasswordChanged
    <2>. QED
        BY <1>22, <2>1 DEF PasswordChanged
<1>23. CASE Restart
    BY <1>23 DEF Restart
<1>24. CASE UNCHANGED vars
    BY <1>24 DEF vars
<1>25. QED
    BY <1>1, <1>2, <1>3, <1>4, <1>5, <1>6, <1>7, <1>8, <1>9, <1>10, <1>11,
       <1>12, <1>13, <1>14, <1>15, <1>16, <1>17, <1>18, <1>19, <1>20, <1>21,
       <1>22, <1>23, <1>24
       DEF Next, Continue, handle_auth_revoked

\* OnlyItsOwnPasswordOpens, whichever stores fail and wherever the process
\* ends: also a cache that a logout has left behind opens with no other
\* password than its own account's.
THEOREM OwnPasswordOpens == Spec => []OnlyItsOwnPasswordOpens
<1>. DEFINE I == TypeOK /\ ControlInv /\ OwnInv
<1>1. Init => I
    BY TypeInit, ControlInit, OwnInit
<1>2. I /\ [Next]_vars => I'
    BY TypeStep, ControlStep, OwnStep
<1>3. I => OnlyItsOwnPasswordOpens
    BY DEF OwnInv
<1>. QED
    BY <1>1, <1>2, <1>3, PTL DEF Spec
=============================================================================
