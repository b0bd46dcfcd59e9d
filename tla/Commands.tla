------------------------------ MODULE Commands ------------------------------
(***************************************************************************)
(* The commands of the client that fetch secrets - `grimoire clip`,        *)
(* `grimoire run` and `grimoire credential-helper get` - each a process of *)
(* its own, from the command line to what becomes of the secret: a request *)
(* that the service denies while the vault is locked, the unlock with a    *)
(* prompt and the one retry, the approval with its prompts, the answer,    *)
(* and then the clipboard, the environment of a child, or the reply to     *)
(* git.  They share the service's vault, the programs that prompt, and the *)
(* clipboard.                                                              *)
(*                                                                         *)
(* Whether a grant or a backoff is in force, a PIN is set, and a PIN or    *)
(* password is right is a choice here (VaultService decides it).           *)
(***************************************************************************)
EXTENDS Clipboard, PromptPrograms, CredentialMatch, References

CONSTANTS
    Commands,
    Names,          \* the valid names of variables
    Jobs,           \* what each command may be asked to do
    Vaults          \* what the server may hold; Vaults[1] is empty

ASSUME CommandsShareTheSession == Clips = Commands /\ Askers = Commands
ASSUME ServerStartsEmpty == 1 \in DOMAIN Vaults
ASSUME JobsAreTyped ==
    \A c \in Commands : \A j \in Jobs[c] : j.kind = "run" =>
        j.env \in [Names -> {None} \cup Text] /\ j.manifests \in Seq(Seq(Entries))

VARIABLES
    job,        \* the command line, the standard input and the environment
    at,         \* where each command is, in the client or in the service
    request,    \* its request: the "first", its "retry", or the "get" of a match
    match,      \* the item that answers a credential request
    left,       \* the references of a run that are not resolved, by variable
    got,        \* what the others resolved to
    env,        \* the environment of the process
    vault,      \* "locked" or "open"
    content     \* what the service holds of the server's vault

dataVars == <<job, request, match, left, got, env>>
vaultVars == <<vault, content>>
vars == <<dataVars, at, vaultVars, clipboardVars, promptVars>>

Go(c, phase) == at' = [at EXCEPT ![c] = phase]
Held == Vaults[content]

Init ==
    /\ job = [c \in Commands |-> None]
    /\ at = [c \in Commands |-> "idle"]
    /\ request = [c \in Commands |-> "first"]
    /\ match = [c \in Commands |-> None]
    /\ left = [c \in Commands |-> <<>>]
    /\ got = [c \in Commands |-> <<>>]
    /\ env = [c \in Commands |-> [v \in Names |-> None]]
    /\ vault = "locked"
    /\ content = 1
    /\ ClipboardInit
    /\ PromptInit

(* Before the first request: handle_clip has nothing to do, handle_run     *)
(* applies the manifests, handle_credential_get reads what git asks.       *)
Parses(j) == \A i \in DOMAIN j.manifests : ManifestParses(j.manifests[i], Names)
Asks(j, applied) ==
    CASE j.kind = "clip" -> "asking"
      [] j.kind = "run" ->
            IF ~Parses(j) THEN "failed" ELSE IF Referring(applied) = {} THEN "exec" ELSE "asking"
      [] OTHER ->
            LET read == ParseRequest(j.lines)
            IN  IF read = None THEN "failed"
                ELSE IF read.protocol = <<"https">> /\ read.host # None THEN "asking" ELSE "silent"

Start(c) ==
    /\ at[c] = "idle"
    /\ \E j \in Jobs[c] :
          LET applied == IF j.kind = "run" /\ Parses(j)
                         THEN ApplyManifests(j.env, j.manifests) ELSE env[c]
          IN  /\ Go(c, Asks(j, applied))
              /\ IF Asks(j, applied) \in {"failed", "silent"} THEN UNCHANGED <<job, env>>
                 ELSE job' = [job EXCEPT ![c] = j] /\ env' = [env EXCEPT ![c] = applied]
    /\ UNCHANGED <<request, match, left, got, vaultVars, clipboardVars, promptVars>>

Asked(c) == ParseRequest(job[c].lines)

(* What an error VAULT_LOCKED makes of a command: the first one asks for   *)
(* an unlock, any other is final.                                          *)
Refused(c) == IF request[c] = "first" THEN "locked out" ELSE "failed"

Moves(c, phase) == Go(c, phase) /\ UNCHANGED <<dataVars, vaultVars>>

(* dispatch: the vault must be open, and a grant is in force, or           *)
(* attempt_approval asks for a fingerprint and then for the PIN or the     *)
(* password.  A refusal says what the vault is by then.                    *)
Gate(c) ==
    /\ at[c] = "asking"
    /\ \/ vault = "locked" /\ Moves(c, Refused(c)) /\ UNCHANGED promptVars
       \/ vault = "open" /\ Moves(c, "served") /\ UNCHANGED promptVars
       \/ vault = "open" /\ Moves(c, "biometric") /\ OpenPrompt(c, "biometric")
    /\ UNCHANGED clipboardVars

AfterBiometric(c) ==
    /\ at[c] = "biometric"
    /\ IF Result(c) = "consent" THEN Moves(c, "served") /\ ClosePrompt(c)
       ELSE Moves(c, "secret") /\ \E kind \in {"pin", "password"} : NextPrompt(c, kind)
    /\ UNCHANGED clipboardVars

AfterSecret(c) ==
    /\ at[c] = "secret"
    /\ ClosePrompt(c)
    /\ \/ Result(c) = "consent" /\ Moves(c, "served")
       \/ Moves(c, IF vault = "locked" THEN Refused(c) ELSE "failed")
    /\ UNCHANGED clipboardVars

(* auth.unlock without a password: handle_unlock prompts for it before it  *)
(* looks at the vault.                                                     *)
AskPassword(c) ==
    /\ at[c] = "locked out"
    /\ \/ OpenPrompt(c, "password") /\ Moves(c, "password")
       \/ Moves(c, "failed") /\ UNCHANGED promptVars
    /\ UNCHANGED clipboardVars

Resolving == {c \in Commands : at[c] = "resolving"}

(* After the unlock the client waits half a second, in which the sync may  *)
(* bring the items, and sends its request once more.                       *)
AfterPassword(c) ==
    /\ at[c] = "password"
    /\ ClosePrompt(c)
    /\ \/ /\ Result(c) = "consent" /\ vault = "locked" /\ Resolving = {}
          /\ vault' = "open"
          /\ content' = 1
          /\ request' = [request EXCEPT ![c] = "retry"]
          /\ Go(c, "asking")
          /\ UNCHANGED <<job, match, left, got, env>>
       \/ Moves(c, "failed")
    /\ UNCHANGED clipboardVars

(* The listing gives the items of type login, with the URI None for every  *)
(* one (sdk vault.rs); those of another user name are left out.            *)
ListedUris(c) ==
    LET wanted == Asked(c).username
    IN  [i \in {i \in DOMAIN Held : wanted \in {None, Held[i].username}} |-> None]

(* The answer to clip: the field, which is not empty, goes to the          *)
(* clipboard.  vault_get and vault_totp look at the vault once more.       *)
ServeClip(c) ==
    /\ at[c] = "served" /\ job[c].kind = "clip"
    /\ LET value == Field(Held, job[c].item, job[c].field)
       IN  IF vault = "locked" \/ value = None
           THEN /\ Go(c, IF vault = "locked" THEN Refused(c) ELSE "failed")
                /\ UNCHANGED clipboardVars
           ELSE BeginClip(c, value) /\ Go(c, "clipping")
    /\ UNCHANGED <<dataVars, vaultVars, promptVars>>

(* The answer to the credential helper: the listing, of which it picks one *)
(* item or says nothing, then that item, unless there is nothing in it.    *)
NoCredential(item) == {item.username, item.password} \subseteq {None, <<>>}

ServeCredential(c) ==
    /\ at[c] = "served" /\ job[c].kind = "credential"
    /\ IF vault = "locked" THEN Go(c, Refused(c)) /\ UNCHANGED <<request, match>>
       ELSE IF request[c] = "get"
       THEN /\ Go(c, IF match[c] \notin DOMAIN Held THEN "failed"
                     ELSE IF NoCredential(Held[match[c]]) THEN "silent" ELSE "answered")
            /\ UNCHANGED <<request, match>>
       ELSE LET chosen == Matched(Asked(c).host, Asked(c).path, ListedUris(c))
            IN  /\ match' = [match EXCEPT ![c] = chosen]
                /\ request' = [request EXCEPT ![c] = "get"]
                /\ Go(c, IF chosen = None THEN "silent" ELSE "asking")
    /\ UNCHANGED <<job, left, got, env, vaultVars, clipboardVars, promptVars>>

(* handle_resolve_refs takes a read guard, which keeps the vault from      *)
(* locking but not a sync from replacing the items, lists the items, and   *)
(* gets the item of each reference in turn.                                *)
BeginResolve(c) ==
    /\ at[c] = "served" /\ job[c].kind = "run"
    /\ left' = [left EXCEPT ![c] = [v \in Referring(env[c]) |-> Meaning(Listing(Held), env[c][v])]]
    /\ Go(c, "resolving")
    /\ UNCHANGED <<job, request, match, got, env, vaultVars, clipboardVars, promptVars>>

Resolve(c) ==
    /\ at[c] = "resolving"
    /\ \E v \in DOMAIN left[c] :
          /\ LET value == Field(Held, left[c][v].item, left[c][v].field)
             IN  got' = [got EXCEPT ![c] = [u \in DOMAIN @ \cup {v} |-> IF u = v THEN value ELSE @[u]]]
          /\ left' = [left EXCEPT ![c] = [u \in DOMAIN @ \ {v} |-> @[u]]]
    /\ UNCHANGED <<job, at, request, match, env, vaultVars, clipboardVars, promptVars>>

(* One reference that did not resolve is the end of the command; else its  *)
(* environment, with the others replaced, is that of the child.            *)
Missing(c) == {v \in DOMAIN got[c] : got[c][v] = None}
Replaced(c) == [v \in Names |-> IF v \in DOMAIN got[c] \ Missing(c) THEN got[c][v] ELSE env[c][v]]

\* A mutant of Reply: the references that failed are left as they are
ReplyInPart(c) ==
    /\ at[c] = "resolving" /\ left[c] = <<>>
    /\ env' = [env EXCEPT ![c] = Replaced(c)]
    /\ Go(c, "exec")
    /\ got' = [got EXCEPT ![c] = <<>>]
    /\ UNCHANGED <<job, request, match, left, vaultVars, clipboardVars, promptVars>>

Reply(c) ==
    /\ at[c] = "resolving" /\ left[c] = <<>>
    /\ IF Missing(c) # {}
       THEN Go(c, "failed") /\ UNCHANGED env
       ELSE Go(c, "exec") /\ env' = [env EXCEPT ![c] = Replaced(c)]
    /\ got' = [got EXCEPT ![c] = <<>>]
    /\ UNCHANGED <<job, request, match, left, vaultVars, clipboardVars, promptVars>>

(* The vault locks by a request or by the timer; a sync brings what the    *)
(* server holds.                                                           *)
Lock ==
    /\ vault = "open" /\ Resolving = {}
    /\ vault' = "locked"
    /\ content' = 1
    /\ UNCHANGED <<dataVars, at, clipboardVars, promptVars>>

Sync ==
    /\ vault = "open"
    /\ content' \in DOMAIN Vaults \ {content}
    /\ UNCHANGED <<vault, dataVars, at, clipboardVars, promptVars>>

-----------------------------------------------------------------------------
Proceed(c) ==
    \/ Gate(c) \/ AfterBiometric(c) \/ AfterSecret(c)
    \/ AskPassword(c) \/ AfterPassword(c)
    \/ ServeClip(c) \/ ServeCredential(c)
    \/ BeginResolve(c) \/ Resolve(c) \/ Reply(c)

InPrompt(c) == PromptStep(c) /\ UNCHANGED <<dataVars, at, vaultVars, clipboardVars>>
OfUser(c) == UserStep(c) /\ UNCHANGED <<dataVars, at, vaultVars, clipboardVars>>
OnClipboard(c) == ClipboardStep(c) /\ UNCHANGED <<dataVars, at, vaultVars, promptVars>>
ClipboardLost(c) == ClipboardFault(c) /\ UNCHANGED <<dataVars, at, vaultVars, promptVars>>
Pasted == UserCopies /\ UNCHANGED <<dataVars, at, vaultVars, promptVars>>

Next ==
    \/ \E c \in Commands : Start(c) \/ Proceed(c) \/ InPrompt(c) \/ OfUser(c)
                             \/ OnClipboard(c) \/ ClipboardLost(c)
    \/ Lock \/ Sync \/ Pasted

(* Processes run, and timers fire.  No user answers, no vault is synced    *)
(* and no command is started of necessity.                                 *)
Fairness == \A c \in Commands : WF_vars(Proceed(c) \/ InPrompt(c) \/ OnClipboard(c))

Spec == Init /\ [][Next]_vars /\ Fairness
-----------------------------------------------------------------------------
Ended(c) ==
    \/ at[c] \in {"failed", "silent", "exec", "answered"}
    \/ at[c] = "clipping" /\ clip[c] \in {"done", "failed", "abandoned"}

Phases == {"idle", "asking", "biometric", "secret", "locked out", "password", "served",
           "resolving", "clipping", "failed", "silent", "exec", "answered"}
Secrets ==
    (UNION {{Vaults[k][i][f] : i \in DOMAIN Vaults[k], f \in FieldNames} : k \in DOMAIN Vaults})
        \ {None}

(* The types, and: a prompt is open exactly while the command waits for    *)
(* it, and a command copies exactly while the clipboard says so.           *)
TypeOK ==
    /\ at \in [Commands -> Phases]
    /\ request \in [Commands -> {"first", "retry", "get"}]
    /\ vault \in {"locked", "open"} /\ content \in DOMAIN Vaults
    /\ \A c \in Commands :
          /\ job[c] \in Jobs[c] \cup {None}
          /\ prompt[c].at # "none" <=> at[c] \in {"biometric", "secret", "password"}
          /\ clip[c] # "none" <=> at[c] = "clipping"
    /\ ClipboardType(Secrets) /\ PromptType

(* The child of `grimoire run` gets all of its secrets or does not start:  *)
(* a variable that is set keeps its value, another has one of the values   *)
(* that the manifests give it, or none, and every reference is replaced by *)
(* a field of the item it means in one and the same version of the vault.  *)
(* Which of several entries for a variable counts is left open here: the   *)
(* code and its specification disagree (README, section 5).                *)
(* handle_run, handle_resolve_refs.                                        *)
Wanted(c, v) ==
    LET entries == FlattenSeq(job[c].manifests)
        named == {i \in DOMAIN entries : entries[i].key = v}
    IN  IF job[c].env[v] # None THEN {job[c].env[v]}
        ELSE IF named # {} THEN {entries[i].reference : i \in named} ELSE {None}

ChildGetsItsSecrets ==
    \A c \in Commands : at[c] = "exec" =>
        \E k \in DOMAIN Vaults : \A v \in Names : \E wanted \in Wanted(c, v) :
            LET ref == IF wanted = None THEN None ELSE ParseRef(wanted)
            IN  IF ref = None THEN env[c][v] = wanted
                ELSE /\ env[c][v] # None
                     /\ \E j \in DOMAIN Vaults :
                            env[c][v] = Field(Vaults[j], TheItem(Listing(Vaults[k]), ref.id), ref.field)

(* A command ends, and the secret that it put on the clipboard is cleared  *)
(* or replaced; or it waits for its own user at its own dialog: never for  *)
(* the dialog of another command, and it does not try for ever.            *)
(* send_request, grimoire-prompt-linux, run_clear_after.                   *)
CommandsEnd ==
    \A c \in Commands : at[c] # "idle" ~> ((Ended(c) /\ Gone(c)) \/ prompt[c].at = "shown")

(* Addresses decide what answers git, not how they are written: a port,   *)
(* the case of the host, the scheme, ".git" and a final "/" change         *)
(* nothing, in the request or in the item; and of two items the one that   *)
(* ranks higher answers the request, and neither does when they rank the   *)
(* same.  This is about match_vault_items alone, for all requests and      *)
(* items: it is evaluated once, before the commands start.                 *)
MatchesByAddress ==
    at = [c \in Commands |-> "idle"] =>
        \A asked \in Addresses, style \in Styles :
            RanksByAddress(asked, style) /\ ChoosesByAddress(asked, style)

(* What specs/014-git-credential-helper.md says git gets: when the helper  *)
(* has nothing to say to a listing, that had no item for the address.      *)
CredentialAnswered ==
    [][\A c \in Commands :
        (at[c] = "served" /\ request[c] # "get" /\ at'[c] = "silent") =>
            Matched(Asked(c).host, Asked(c).path,
                    [i \in DOMAIN Held |-> Held[i].uri]) = None]_vars
=============================================================================
