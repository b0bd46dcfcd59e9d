# Grimoire in TLA+

Models of Grimoire, the Bitwarden daemon of this repository: a background
service that keeps the decrypted vault, a CLI and an SSH agent that ask it for
secrets over Unix sockets, and prompt programs through which the user proves
who is asking. Paths below are relative to `src/`; the service is
`crates/grimoire-service/src`, the SDK `crates/grimoire-sdk/src`, the protocol
`crates/grimoire-protocol/src`, the CLI `crates/grimoire-cli/src`.

## 1. The system

| Component | State | Operations | Correct means |
|---|---|---|---|
| `ServiceState` (`state.rs`) | vault state, session with PIN and attempts, SDK client, approval cache, activity timer, password failures | login, unlock, lock, logout, set_pin, verify_pin, verify_password, touch, the two failure counters | session and keys exist exactly while unlocked; a session never outlives its PIN attempts |
| JSON-RPC handlers (`session.rs`) | one request per task, `await` points between critical sections | the approval gate, one handler per method | a secret goes only to an approved scope of an unlocked vault; every request is answered |
| Approval flow (`approval.rs`, `prompt.rs`) | the open prompt | fingerprint, then PIN, then password, then a grant of five minutes | a grant needs an accepted proof; wrong PINs are counted whoever types them |
| SSH agent (`ssh_agent.rs`) | one operation per task | request_identities, sign, unlock by prompt | the same gate as JSON-RPC |
| Workers (`sync_worker.rs`) | timers, a request in flight | auto-lock, background sync, sync after unlock, revocation | an idle vault is locked, an active one is not |
| Scope keys (`peer.rs`, `resolve_scope_key`) | none; reads `/proc` | pid to session leader | two terminal sessions never share a key |
| Password backoff (`state.rs`, `persist.rs`) | failures, time of the last one, a file | record, reset, reload after a restart | no attempt during the delay; a restart does not shorten it |
| Vault cache (`cache.rs`, `keystore.rs`, `state.rs`) | cache file, key in the credential store | build, open, verify, delete; cache-first unlock | an offline unlock only with the password the cache was built with |
| Encrypted channel (`codec.rs`) | per direction a key and a nonce counter, the last nonce received | handshake, write, read | what is delivered was sent, once, in order |
| Connection server (`server.rs`, `main.rs`) | accepted connections, a semaphore of 64 | accept, reject, time out, shut down | a full server recovers; no permit is lost |
| CLI (`main.rs`) | none | one connection per request; `clip`, `run`, `credential-helper get` with one unlock and one retry | a command ends, with all of what it was asked for or nothing |
| Clipboard auto-clear (`commands/clipboard.rs`) | the clipboard; a detached process per copy | copy, schedule, clear unless something else was copied | a secret on the clipboard always has someone to clear it |
| Credential helper, manifests, references (`commands/`, `main.rs`, `resolve_refs`) | none: pure functions | parse git's request, match URIs, apply manifests, parse and resolve references | how an address is written does not matter; a child gets all of its secrets or does not start |
| Prompt programs (`native/linux`, `crates/grimoire-prompt`) | one native instance per session | ask for a password, a PIN, a fingerprint; print a status and end | a consent comes from the user of that very dialog |

All tasks share one `Arc<tokio::sync::RwLock<ServiceState>>`. It is fair, and a
guard is often held across a request to the Bitwarden server (`unlock` and
`login` hold the write guard, `verify_password` and the syncs a read guard). A
handler takes it several times and drops it before every prompt: what it read
may be stale when it goes on. The client has no lock at all: its processes
share the clipboard, the prompt programs and the service. That is where the
interesting behaviour is.

## 2. Modules

| Module | Models |
|---|---|
| `ServiceState` | the fields and methods of `ServiceState` |
| `VaultService` | handlers, approval flow, SSH agent and workers, interleaved over `ServiceState` |
| `VaultMachine` | the abstract specification: one sequential machine |
| `Activity` | what auto-lock promises its users, as a history variable added to `VaultService` |
| `MCVaultService`, `MCActivity` | instances of both for TLC |
| `VaultServiceProofs` | type correctness, the inductive invariants, the disclosures, the promise of `Activity` |
| `VaultRefinementProofs` | `VaultService` implements `VaultMachine` |
| `Codec` | one end of the encrypted codec: keys, counters, encoding, decoding |
| `EncryptedChannel` | two ends per connection over an arbitrary wire |
| `MessageLink` | the abstract specification of the channel: messages in order, each once, some never |
| `EncryptedChannelProofs` | nonces, order, replay and the refinement of `MessageLink`, for any number of connections |
| `ConnectionServer` | accept loop, connection tasks and clients over Unix streams |
| `ConnectionServerProofs` | the conservation of permits, types, and the first request of every connection |
| `VaultCache` | login file, vault cache and its key, one file operation at a time, with login, unlock, logout, revocation and restarts |
| `VaultCacheProofs` | type correctness, ownership and revocation of the cache |
| `StateLock` | who waits for whom: the RwLock, the guards that are kept over an await, prompts and the server |
| `StateLockProofs` | what a task may hold while it waits, and what stays true while it does, for any callers and requests |
| `Texts` | a text as the client takes it apart: a sequence of tokens |
| `References` | manifests, references, and what one of them resolves to |
| `CredentialMatch` | git's request, URIs, and the choice of the item that answers |
| `CredentialMatchProofs` | what that choice is for all URIs, and that spelling plays no part in it |
| `Clipboard` | the clipboard with everybody who writes or clears it |
| `PromptPrograms` | the programs that prompt and what the service makes of their end |
| `Commands` | `clip`, `run` and `credential-helper get`, composed of the four modules above and the service |
| `CommandsProofs` | the guarded clipboard, the consent of the users, the environment of a child, and types, for any commands and vaults |
| `MCEncryptedChannel`, `MCConnectionServer`, `MCVaultCache`, `MCStateLock`, `MCCommands` | their instances for TLC |

### ServiceState

Each method is an operator on the shared variables. Durations replace instants
(`approval_cache[s]` is what is left of a grant, `idle` the time since
`last_activity`, `backoff` what is left of the delay), so that the clock needs
no bound. The SDK client is `"none"`, `"blank"` (no keys) or `"keys"`, and holds
a token or not. `UnlockOk` covers the online and the cache-first unlock: they
differ in `last_sync` and in the token.

### VaultService

An action is one critical section, together with what its task does alone
before the next acquisition. `pc[c]` names the acquisition or the open prompt
at which client `c` waits:

    touch gate check | approve biometric has_pin pin password | grant | handle sync_store
    ssh backoff unlock login | authorize authorize_state authorize_unlock verify reset record
    lock logout set_pin

What a user types, whether the server answers, and whether a cache unlock works
are choices of the action that uses them. A prompt method that is not available
is a prompt that fails. `Restart` is a crash or a restart at any point. `Exit`
is a client process that exits in the middle of its request, after which
`resolve_scope_key` falls back to the pid. `auth.status` and `sync.status` read
and change nothing, and are left out.

`proved` is a history variable, the identity proofs that still count. Only an
accepted password, PIN or fingerprint adds to it; a lock, a logout or the end of
a grant removes what is not in the hands of a request past its check. The
properties compare the grants and the answers of the code with it.

The branch of `attempt_approval` that locks a session whose attempts were
already used up is in the model and never taken: `NoExhaustedSession` is the
reason, since `verify_pin` and the lock share one write guard.

### Activity

`docs/lifecycle.md:203` locks the vault after 15 minutes of inactivity, and every
request over the RPC socket counts as activity. The code has a timestamp that
`touch`, `login` and `unlock` reset, and a worker that looks at it twice, with
anything in between: a touch, or a lock and an unlock by somebody else.
`promised` is a clock of its own, independent of `idle`: it starts when a request
finds the vault open or somebody opens it, runs down with `Tick`, and ends when
something other than the worker closes the vault. `InUseStaysOpen` says that the
vault is open while it runs. It fails if the worker does not check twice (the mutant
`AutoLockUnchecked`), and also if `touch` or `unlock` left the timer alone. The SSH
agent and `authorize` do not touch the timer, so they start no promise.

### VaultMachine

The promise to a user, without tasks and locks: only a login leaves LoggedOut,
only an unlock enters Unlocked; fewer than `PinMax` wrong PINs in a row per
session; a secret only for a subject that has proved its identity. The
refinement mapping reads the attempts of the session, `proved`, and the clients
whose last answer was a secret.

### Codec, EncryptedChannel

A codec is a record of two keys and two counters. A ciphertext is the key, the
nonce and the message it was made from; it decrypts under that key and nonce
and no other, which is all that is assumed of ChaCha20-Poly1305, and a key is
the secret with its HKDF label. `EncryptedChannel` starts after the key
exchange and lets the wire deliver any frame ever written to any end, again and
again, also with a damaged counter or ciphertext. Counters wrap at
`CounterMod`. An end that meets an error gives the connection up, as
`handle_client` and `send_request` do; `AcceptedInOrder` needs that, because a
damaged counter advances the receive counter before it fails to decrypt, and at
the top of the range brings it back to zero.

`MessageLink` is what is left when keys, nonces and frames are taken away: the
messages of a peer are delivered in the order of sending, each once, though some
may never come, and nothing comes to an end that has given up. The refinement
mapping (`Link`) reads the ends that are `up`, how often each has sent, and what
each has accepted; whatever the wire does to a frame is a stutter there.

### ConnectionServer

Each element of `Conns` is one connection with its client process. The client is
`send_request` with the client half of the handshake, generalised to
`MaxRequests` requests; the service is the loop of `server.rs` and
`handle_client`, with `dispatch` (module `VaultService`) reduced to one answer
some time later. Streams are FIFO; an end that closes is seen by the other as
an end of stream, after what was sent before. `handle_client` leaves its loop,
drops the stream and then drops the permit in three steps (`Leave`,
`DropStream`, `DropPermit`), so a request can arrive that nobody will read.
Time is not measured: the timeouts hit the clients in `Stalled` only, the
others are taken to send in time. The socket buffers are unbounded, and the SSH
agent's listener, code of a library, is not modelled.

### VaultCache

`VaultService` takes a method of `ServiceState` for one step, because the method
holds the write lock. `VaultCache` looks inside `login`, `unlock` and `logout`:
`step` is what the holder of the lock does next, and each file or key-store
operation is an action, because `handle_auth_revoked` deletes the same files
without the lock and because the process may end between any two.

    login    Login -> save                                       -> idle
    unlock   Unlock -> read -> cache -> online -> build -> truncate -> write -> idle
    logout   Logout -> logout_login -> logout_cache -> logout_key -> idle
    sync     Sync -> file -> key -> lock                         -> none

A file that is opened for writing is truncated first (`Damaged`): a damaged
login file counts as no login, a damaged cache makes `unlock` fail. A file
operation or key-store call fails if its store is in `Faulty`; the code logs most
of these failures and goes on. A cache is known by its account, the password
that keys its HMAC, and the key that sealed it. The list of ciphers is left out
because it is always empty: `build_cache` runs before the first sync and the
worker does not update the file. `WeakKdf` are accounts whose KDF
`validate_floor` rejects, so their cache is written and never opens. `Registered`
are the passwords that the accounts may have at first.

The server keeps a password per account, or none for a closed account, and may
stop accepting a token at any time (`TokenRevoked`, `PasswordChanged`; external).
There are three history variables: `own`, the passwords that each account has or
has had; `accepted`, the pairs of account and password that the server has
accepted since it last refused a token; and `unclean`, whether since the last logout began a store failed or a restart cut a deletion short. Left out:
auto-lock (a lock at any time stands for it), power loss that loses written
data, and `sync.trigger`, which ignores a revocation.

### StateLock

`VaultService` interleaves critical sections and leaves the lock itself out;
`StateLock` has the lock and leaves the data out. A task (a request per caller,
the auto-lock worker, a sync) is the list of awaits it has left. `Handlers`
gives the list each method begins with, in the order of the code, and `Continue`
what may remain after a step: where the code branches on the state of the vault,
`Passes` decides; where it branches on a grant, a PIN or an answer, the step
chooses. `Kept` are the acquisitions whose guard lives until the server (or the
3 second token refresh) has answered. A prompt (`OfUser`) is awaited without one.

`Ask` and `Grant` are tokio's RwLock: a free and compatible lock is taken at
once, unless somebody waits; else the task queues, and the queue is served in
order. `TimePasses` makes an unlocked vault idle, `touch` and an unlock undo it.
`ServerHangs` is a server that stops to answer, at any time and for good: no
request of the code has a timeout. A guard that is kept over a request to it is
then kept for ever (`Stuck`), and everybody who needs the lock waits; that is the
one exception `IdleVaultLocks` and `EveryRequestAnswered` make, and the service
may then stop altogether, so the run does not look for deadlocks.
`IdleVaultAlwaysLocks` makes no exception, and the run `hang` refutes it. The
guard is dropped where the await ends (`Resume`); that the code holds it a little
longer, up to the end of the block, is the same to everybody else, since nothing is
awaited in between.

Apart from blocking others, the guard has a purpose: an unlock, a login and a sync
check the state of the vault and then ask the server. `CheckedStaysTrue` says that
what they saw is still so when the answer comes. Without the guard a lock, a
logout or a second login could come in between (mutant `KeptByTheOthers`).

### Texts, References, CredentialMatch

These are functions, translated one by one. A text is cut into tokens: the
separators and fixed words the code searches for (`grimoire:`, `/`, `:`, `?`,
`.git`, `https://`) are tokens of their own, and what lies between them is cut no
finer than a proper prefix needs. Which tokens there are is the constant `Tokens`
(all strings, in the runs); the proofs need no more of them than that no text is
`None`. `lower` is `to_lowercase`, token by token. What
the code does byte by byte and the tokens cannot show: a prefix that ends in the
middle of a segment is written as a token boundary (`"ali", "repo"`).

A vault is a function from ids to items, an id is a text (a reference may give
a prefix of it), and a field that an item does not have is `None`.

### Clipboard, PromptPrograms

`Clipboard` has one copying process and one clearer per clip. Reading, comparing
and clearing are separate, as they are in `run_clear_after`: another clip or the
user may copy in between. `LoseClip` and `LoseClearer` are what the code does not
make up for: a process that is killed, a tool that fails to clear, an
executable whose own path is unknown (`clipboard.rs:130` returns before the
fail-safe that clears at once).

`PromptPrograms` chooses the program once (`Installed`), as the installation
does. The native program is a GApplication: the first instance owns the
application id (`primary`), a second hands its activation over and ends with
code 0 and no output, and the first, activated again, takes its mode a second
time and aborts. The service sees a status and an exit code and no more
(`Credential`, `Verification`). `acted` is a history variable: the user gave
consent in this very dialog. Dialogs are shown for as long as the user likes.

### Commands

One process per element of `Commands`, from the command line to the end. `at`
is where it is, in the client or in the service on its behalf:

    idle asking (biometric (secret)) served    clipping | resolving exec | answered | silent
         locked out  password asking           failed

`asking` is the gate of `dispatch`; whether a grant is in force is a choice, a
prompt goes through `PromptPrograms`. A VAULT_LOCKED makes the first request
"locked out": the client asks for an unlock with a prompt and sends its request
once more (`retry`). The vault locks and syncs at any time, with one exception:
`handle_resolve_refs` keeps a read guard from its listing to its last reference,
which excludes a lock, an unlock and a logout, but not a sync, which needs no
more than a read guard. So `Resolve` reads each item from the vault as it is by then.
`content` is the version of the server's vault that the service has; version 1
is the empty one, which is what it has after an unlock and before a sync.

## 3. Runs

A configuration is `MC<module>_<run>.cfg`. Those of `MCVaultService` and
`MCActivity` have two clients; one tick is the length of a grant, so `ApprovalTicks = 1` means that a
grant may end between any two steps, and `AutoLockTicks` of 1 or 2 places the timeout at, or after, it. Counters are
cut at `PIN_MAX_ATTEMPTS` (1 to 3; the code has 3) and `MaxFailures`: the failure
counter of the code is unbounded, the model keeps the delay of the last value.
Nothing depends on more failures than it takes to start a delay. Methods are
spread over the runs: each has those whose races its properties are about;
the proofs cover all of them together. In `password`, where the vault is unlocked
by `authorize`, the first failure already starts a delay
(`EarlyDelays`), which saves a level of the counter.
In these runs the worker's sync is the only one; syncs spawned next to it are
in `cache` and in the proofs.

| Run | Question |
|---|---|
| `gate` | do grants and secrets go only to the scopes that proved themselves, while reads, references and signatures race with unlock, lock, expiry, auto-lock, restart and the exit of a client? (`TypeOK`, `GrantsAreProved`, `PassedAreProved`, `DisclosedOnlyToProved`) |
| `password` | do login, authorize, logout, set_pin and sync.trigger with its PIN prompts, racing with the worker's sync and its revocations, still look like one sequential machine, leave no keys outside Unlocked, and buy nobody an attempt at the PIN? One client has no pid. (`KeysOnlyWhileUnlocked`, `NoExhaustedSession`, `ImplementsMachine`) |
| `live` | is an idle vault locked in the end, one in use never before its time, and every request answered? (`IdleVaultLocks`, `InUseStaysOpen`, `RequestsAnswered`; module `MCActivity`) |
| `channel` | one connection, three messages each way, every fault of the wire: nonces, order, replay, and does it look like a plain link? (`TypeOK`, `NoncesUnique`, `AcceptedInOrder`, `ImplementsLink`) |
| `connections` | a stalled client, a prompt one and one of another user for one permit, two requests each: do permits come back, do calls return, is nobody left waiting for an answer, is a first request answered and never failed while the service runs? (`TypeOK`, `PermitsConserved`, `FirstRequestStands`, `SlotsComeBack`, `CallsReturn`, `FirstRequestAnswered`) |
| `lock` | a caller that makes any request, one that wants the write lock again and again, a sync and the auto-lock worker on one RwLock, prompts that nobody has to answer and a server that may fall silent: does a task ever keep a guard while it waits for the lock or for a user, is what a step checked still so when the server answers it, does an idle vault lock, and is every request answered or only behind its own prompt, unless a guard is kept over a request to the silent server? (`TypeOK`, `WaitingHoldsNothing`, `CheckedStaysTrue`, `IdleVaultLocks`, `EveryRequestAnswered`) |
| `client` | a clip next to a clip, a run or a credential helper, with either prompt program or none: is every secret on the clipboard somebody's to clear, is consent personal, does a child get all of its secrets, does every command end? And once, over all addresses: does the way an address is written matter? (`TypeOK`, `SecretIsGuarded`, `ConsentIsPersonal`, `ChildGetsItsSecrets`, `MatchesByAddress`, `CommandsEnd`) |
| `cache` | two accounts that may share a password, one with a weak KDF, a key store that may fail: does the cache follow the login, does nothing but an account's own password open its vault even after a logout that was cut short, and is a revocation effective and in the end handled? (`TypeOK`, `RevokedPasswordIsForgotten`, `LoginOwnsTheCache`, `OnlyItsOwnPasswordOpens`, `RevokedVaultLocks`) |

`channel` sends one message more than it takes to accept two of them, and
`CounterMod` is one more than the number of messages, so that a damaged counter
reaches the wrap. One permit and three connections are enough to refuse, to
release and to use a permit again.

`cache` lets the server change one account only (`Changing`), and one store
fail (`Faulty`); the theorems cover any of both. Passwords are only compared, so the
first account begins with a fixed one and the other with the same or not (`SameOrNot`). Two keys are enough to tell a new
key from the one that sealed the file, and two sync tasks let a spawned sync and
the worker handle the same revocation at once.

In `lock`, two callers, one sync and the worker are four tasks in one queue of at
most four: a reader behind a writer behind a reader, which is where barging and
starvation show. One caller asks for one method at a time, and each of the eleven
lists of `Handlers` occurs. A second sync task adds states and no new order of
waiting: a sync that starts while another runs is one more reader.

In `client` there are two commands, since every conflict the code has - two
dialogs, two clips, a clip and a sync - is one of two. The first always clips;
the second does so too, runs a child (nothing to resolve; a manifest that does
not parse; two manifests that name the same variable, with references by id
prefix and by name), or answers git (https, http, a broken request). The server
has two versions of a vault of two items: one item has a new password, the other
is gone. `MatchesByAddress` is a fact about functions; it is guarded by the
initial state so that TLC evaluates it there only, over 3 hosts, 4 paths and 4
styles of writing an address.

Four runs end in a counterexample, each to a sentence of the documentation:

| Run | Sentence | What the code does |
|---|---|---|
| `locked_grants` | a lock clears all approvals (`state.rs:87`, `docs/lifecycle.md:244`) | an approval accepted before the lock is recorded after it |
| `backoff` | attempts before the backoff expires are rejected (`specs/006:111`) | the backoff is checked only before the prompt |
| `hang` | 15 minutes of inactivity and the vault locks itself (`README.md:116`) | a sync keeps its read guard while the server says nothing, without a timeout: the auto-lock worker waits for the write lock for ever |
| `helper` | `vault.list` returns all items with URIs for matching (`specs/014:24`) | the listing has no URIs (`vault.rs:124`), so the credential helper never finds an item |

**Fairness.** In `live`: tokio polls every ready task and its RwLock is FIFO,
so every request and both steps of the auto-lock worker are weakly fair; the
clock ticks. For a request this also assumes that a prompt is answered or
dismissed and that the server answers or refuses: the code puts no timeout on
either, and without the assumption the property is false. New requests,
restarts, exits and the sync workers are not fair.

In `lock` every task that can run does so in the end, with the lock in order of
arrival; the server answers, and the timer of the auto-lock worker fires. No user
answers a prompt and no request has to come. A fair step `Proceed` of a task never
includes the user's: that `EveryRequestAnswered` and `IdleVaultLocks` hold all
the same is the point.

In `client` each command, its prompt program and its clipboard processes go on
when they can. Users answer no dialog, the vault need not sync or unlock, and
no process has to fail; a command may wait for its own dialog for ever, which is
what `CommandsEnd` allows and nothing more.

In `connections` the tasks of the service and the accept loop are weakly
fair, and so are the clients' reads; only clients outside `Stalled` are bound to
send. Again a prompt is assumed to be answered, since `Respond` is fair.
`FirstRequestAnswered` and `FirstRequestStands` speak of first requests only: the second frame on a
connection is refused (see the observations on `codec.rs:177`).

In `cache` the operation that holds the lock goes on
(`Continue`), the worker's sync happens and reaches the server again and again,
and a revocation that has begun is carried out; nothing is assumed of users.

## 4. Proofs

The theorems hold for any clients, scopes, PINs, attempts and durations, under
`ConstantsAssumption` and `ClientsAssumption`, and for the other components under
the assumptions named below. TLC evaluates each assumption in the runs of its module.
Every safety property of a passing run is a theorem.

- `TypeCorrect`. `TypeOK` is inductive. It is cut into parts (keys, grants,
  timers, tasks, syncs, proofs) so that each lemma on a method or a helper says
  which part it keeps.
- `KeysFollowTheVault`, `NoSessionOutlivesItsAttempts`. `NextChangesKeys`
  classifies every step by how it changes vault state, session and client; the
  conjunction of the two invariants is kept by each class.
- `EveryGrantIsProved`, `EveryPassIsProved`. Neither is inductive alone: a grant
  is proved because the request that records it was past its check, and a
  request passes its check because of a grant. Together they are
  (`ProofInv`). `KeepsInHand` is what makes a lock safe: it forgets proofs, but
  not those of the requests that are about to use them.
- `SecretsOnlyForTheProved`: an action property from the same invariant.
- `AutoLockSparesActiveUsers`: `InUseStaysOpen` for `ActivitySpec`. `PromiseInv` ties
  the promise to the timer of the code: while it runs, `idle` has at least as long
  to go. `TimerChange` classifies every step of the service by what it does
  to `idle`: only the clock advances it, and whatever opens the vault resets it.
- `Refinement`: `Spec => ImplementsMachine`, with `ReplyInv` (a request being
  served has no answer yet) as a further invariant.
- `ChannelTypeCorrect`, `NoNonceTwice`, `NothingReplayed`, under
  `ChannelAssumption` (fewer messages than counter values, as the code's
  comment demands). The invariant says that every frame on the wire carries its
  sender's key and its own number (`WireOK`), and that whatever a live end has
  accepted lies below its counter (`WindowOK`). `DecryptedIsGenuine` shows that
  damage never makes a frame that decrypts.
- `ChannelIsALink`: `Spec => ImplementsLink`. `AcceptDelivers` does the work: by
  `WireOK` a frame that decrypts is a message of the peer, and by `WindowOK` it is
  later than all that were accepted. Steps of the wire, and frames that are lost
  to an error, give the connection up or change nothing the link sees.
- `NoSlotLeaks`, under `ServerAssumption`: a connection waits in the backlog
  once and has no task while it waits (`QueueOK`), so that a permit taken for
  the head of the backlog adds exactly one live task.
- `CacheTypeCorrect`, `CacheBelongsToTheLogin`, `RevocationForgets`, under
  `CacheAssumption`, for any set of failing stores. `ControlInv` ties the step of
  the running operation to the state of the vault. `OwnerInv` adds to
  `LoginOwnsTheCache` that the login file agrees with the login and what a
  logout has deleted so far; without it a restart could bring up another login
  than the cache's. `AcceptedInv` says where a password that the server has
  stopped accepting can still be: in the file only until the deletion, in the
  hands of an unlock only until the lock. That is why the lock comes last in
  `handle_auth_revoked` (the mutant `AfterRevokedLock` swaps them).
- `OwnPasswordOpens`, for any set of failing stores and with no exception for what
  they leave behind: `OwnInv` follows the pairs of account and password from the
  server's answer into the cache that an unlock builds and the file, and back
  through the HMAC into an open vault.

- `ServerTypeCorrect`: `WireInv` says that in either direction the public key
  comes before any frame, that a task which reads requests has taken the key
  out, and that a connection in the backlog has been sent nothing. Only then is
  what an end reads a frame with a counter.
- `FirstCallStands`: the first request of a client that sends in time does not
  fail while the service runs. `PhaseInv` lists the states that the two ends and the
  streams between them can be in together, from the connect to the first answer:
  in each of them the next step of either end is the expected one, and no codec
  refuses. `StreamsHeld` adds that the service keeps its end open meanwhile.
- `LockTypeCorrect`, `NobodyWaitsWithAGuard`, under `LockAssumption` (callers make
  the requests of `Handlers`). `GuardsAwait` is the strengthening: a guard is kept
  only by a task whose next await is the server's or the refresh's. `KeptAwaits`
  shows that every step that keeps its guard leads there, `TakeKeeps` that a
  task in the queue has no guard to begin with.
- `GuardsKeepTheVault`: `CheckedInv` adds to `CheckedStaysTrue` that a task comes to
  ask the server only as the next thing it does (`AsksLast`), that it has a guard
  then and a writer's where it is going to change the vault (`AsksWithGuard`), and
  that a writer is alone (`WriterAlone`). `vault` changes in the hands of a writer
  only, so no other task changes what this one has seen.
- `SecretsAreGuarded`, for any number of clips, whatever the commands are. `GuardInv`
  adds that a clearer exists only for a clip that is done and that the text a clip
  left on the clipboard is its secret: a clearer that finds another text, and
  goes, guards nothing.
- `ConsentComesFromTheUser`: `PersonalInv`, with `EndKeeps` and `OtherwiseKeeps` for
  the two kinds of step, an end of a program and everything else.
- `CommandsTypeCorrect`: `TypeInv` in parts, so that each lemma on a step of a
  command says which it keeps (`CommandsShareTheSession`, `ServerStartsEmpty`).
- `ChildIsComplete`, under `JobsAreTyped`. `ChildInv` follows a run from its
  manifests: until it is executed, its environment is what the manifests made of it;
  of its references some are resolved and the others are not, all with the meaning
  they had in one version of the vault (`HalfResolved`). That a name has the
  reference of its first entry (`FirstEntryWins`, more than `ChildGetsItsSecrets`
  asks for) is a fact about a fold over
  all entries, of any number. It needs an induction, and the induction theorems of
  the library, which take a predicate, are out of the prover's reach; `InductionUpTo` has a
  set in the place of the predicate, and rests on the least number that the set
  lacks (`LeastNumber`, from `WFMin`).
- `AddressesDecide`, under `AddressesAreWords` (hosts and paths contain no
  separator, and the styles are what the code has to see through), `NoneIsNoText`
  and `NoneIsNoUri`: for all addresses and styles, not only those of the run.
- `AddedItemsNeverRedirect`: when a vault grows, a reference that meant an item still
  means it, or becomes an error; it never comes to mean another.
- `OnlyTheAskedAddress`, `NoChoiceAmongEquals`: facts about `Matched` for any items,
  without a state.

Only model-checked are the liveness properties (`IdleVaultLocks` in `live` and
`lock`, `RequestsAnswered`, `SlotsComeBack`, `CallsReturn`, `FirstRequestAnswered`,
`RevokedVaultLocks`, `EveryRequestAnswered`, `CommandsEnd`): fairness and `ENABLED` are
out of the prover's reach. The four runs of a counterexample have nothing to prove.
No module declares a RECURSIVE operator.

A CASE whose arms overlap does not say in TLA+ which of them is taken, though TLC
takes the first; where the code's `match` and `else if` chains have overlapping
conditions (`ByAddress`, `ComparePaths`, `Asks`, `Wanted`, `Credential` of
`PromptPrograms`), the definitions are IF chains for that reason.

## 5. Observations

What the code does, seen while modelling, and in the model where it says so; no
property is stated against it, or the properties above hold in spite of it.

- A cache file that a crash or a full disk has cut short makes every unlock fail
  until a logout (`ReadCache` of `VaultCache`; `cache.rs:359` calls the write atomic,
  `state.rs:270` returns the error instead of asking the server).
- A process that exits while its approval is open leaves the grant to its dead
  pid (`session.rs:86`), although `specs/008:165` says its session is approved
  (`Exit` of `VaultService`). A pid that is used again inherits a live grant.
- The SSH agent counts a correct password that meets a vault unlocked meanwhile
  as a failure (`ssh_agent.rs:248`; `Ssh` of `VaultService`). A JSON-RPC command in
  the same place fails with "Already unlocked", although its user answered
  (`AfterPassword` of `Commands`).
- A vault unlocked from the cache after its account was closed has no token, and a
  sync without a token is no revocation: it stays open (`state.rs:281`, against
  `specs/016:163`). `sync.trigger` ignores a revocation as well.
- The codec refuses the successor of the last counter (`codec.rs:177`), not only
  counters up to it as `codec.rs:60` says: a connection carries one request.
- The cache never holds ciphers that a sync brought: it is built before the first.
- Two native prompts at a time: the first dialog aborts under its user, and the
  second never shows (`HandOver`, `SecondActivation`). Neither counts as consent.
- A clearer that has compared and not yet cleared may clear what the user copied
  in between (`ReadBoard`, `ClearLater`).
- `run` reads each reference from the vault as it is when its turn comes: values
  may come from two versions of the vault, while what they mean comes from one
  listing. `ChildGetsItsSecrets` says exactly this much.
- Of several manifest entries for a variable the first one counts (`manifest.rs:104`,
  in the model `ApplyManifests`; proved as `FirstEntryWins`). The repository says
  the opposite in four places: `specs/015:77` ("Later manifest files override earlier
  ones"), `specs/015:111` ("Last wins" on a duplicate in one file), the comment at
  `main.rs:942` ("later override"), and the name of the test
  `parse_manifest_last_wins_on_duplicate` (`manifest.rs:203`), whose own comment says that
  the first wins. `ChildGetsItsSecrets` therefore leaves the precedence open: it
  neither demands nor excludes either reading, and its passing says nothing about
  who is right.
- A sync answered before a lock, a logout or a new login records its time after
  it (`SyncDone`); a revocation of the previous login locks the vault of the new one
  and deletes its cache (`RevokedCache`, `SyncRevoked`). The keys are scrubbed, and the
  next unlock asks the server.
- A cache that a cut-off logout left behind is not compared with the login
  (`state.rs:345`): if both accounts have the same password, the vault of the old one
  opens under the login of the new one (`UnlockFromCache`).
- A request that arrives as the idle timeout fires is not read (`session.rs:51`): its
  client gets an end of stream and no answer (`Timeout`).
- `authorize` and the SSH agent do not reset the inactivity timer (only `dispatch` for
  gated methods, `login` and `unlock` do), so their users may be locked out in the
  middle; of the SSH agent `docs/lifecycle.md:205` says so. `grimoire status`, named as
  activity by `docs/tutorials/02-ssh-agent.md:127`, does not reset it either.
- A half-second wait separates the unlock from the retry; a sync that takes longer
  lets the retry read an empty vault, and the command fails.
- A path "ali" is a prefix of "alice/repo", a URI that ends in "/" counts as a path
  prefix of everything, and the scheme of an item's URI plays no part.

## 6. Not modelled

- Password generator (`generate.rs`): random choices over alphabets, no state.
- Configuration, protocol types: plain data and (de)serialisation.
- Prompt programs of macOS and in a terminal: nothing selects the terminal one, and
  the macOS program has the structure of `grimoire-prompt`. `prompt.method` only
  refuses prompts.
- The management of the service by the CLI (systemd, launchd, install, status):
  files and child processes, no state of the program.
- Decryption of items, `vault.list`'s search filter, keys and signatures of the SSH
  agent, Argon2 and HKDF: functions of libraries. The models keep what the callers
  tell apart (a success, a failure, which field).
- `backoff.json` and clock jumps: `ServiceState` keeps the delay over a restart; how
  the file and the wall clock encode it is not modelled.
- Scope keys on macOS and the layout of `/proc`: `Identified` is a constant.
- In `Commands`, which grant or backoff is in force: a choice there, modelled in
  `VaultService`. A command that only prints (`list`, `get`, `totp`, `status`) takes
  the path of `clip` without the clipboard.
- Memory (zeroizing, page locking) and the socket buffers.
