--------------------------- MODULE CommandsProofs ---------------------------
(* The secrets on the clipboard and the consent of the users, for any number *)
(* of commands, whatever they are asked and whatever the vaults hold.        *)
EXTENDS Commands, CredentialMatchProofs, WellFoundedInduction, SequenceTheorems, TLAPS

-----------------------------------------------------------------------------
(* The clipboard.  A clearer exists only for a clip that is done, and what a *)
(* clip has put on the clipboard is its secret: so a clearer that finds      *)
(* another text there guards nothing.                                        *)
GuardInv ==
    /\ clip \in [Clips -> {"none", "copying", "copied", "unscheduled", "done", "failed",
                           "abandoned"}]
    /\ clearer \in [Clips -> {"none", "asleep", "matched", "done", "blind"}]
    /\ \A c \in Clips : clearer[c] # "none" => clip[c] = "done"
    /\ board.by \in Clips => board.text = secret[board.by]
    /\ secret \in [Clips -> {secret[c] : c \in Clips}]
    /\ SecretIsGuarded

LEMMA ClipboardStarts == ClipboardInit => GuardInv
  BY UserIsNoClip DEF ClipboardInit, GuardInv, SecretIsGuarded

LEMMA BeginClipKeeps ==
    ASSUME GuardInv, NEW c \in Clips, NEW s, BeginClip(c, s)
    PROVE  GuardInv'
  BY DEF GuardInv, SecretIsGuarded, BeginClip

LEMMA CopyKeeps ==
    ASSUME GuardInv, NEW c \in Clips, Copy(c)
    PROVE  GuardInv'
  BY DEF GuardInv, SecretIsGuarded, Copy

LEMMA ScheduleClearKeeps ==
    ASSUME GuardInv, NEW c \in Clips, ScheduleClear(c)
    PROVE  GuardInv'
  BY DEF GuardInv, SecretIsGuarded, ScheduleClear

LEMMA ClearKeeps ==
    ASSUME GuardInv, NEW c \in Clips, ClearNow(c) \/ ClearLater(c)
    PROVE  GuardInv'
  BY UserIsNoClip DEF GuardInv, SecretIsGuarded, ClearNow, ClearLater, Clear

LEMMA ReadBoardKeeps ==
    ASSUME GuardInv, NEW c \in Clips, ReadBoard(c)
    PROVE  GuardInv'
  BY DEF GuardInv, SecretIsGuarded, ReadBoard

LEMMA FaultKeeps ==
    ASSUME GuardInv, NEW c \in Clips, ClipboardFault(c)
    PROVE  GuardInv'
  BY DEF GuardInv, SecretIsGuarded, ClipboardFault, LoseClip, LoseClearer

LEMMA UserCopiesKeeps == GuardInv /\ UserCopies => GuardInv'
  BY UserIsNoClip DEF GuardInv, SecretIsGuarded, UserCopies, Clear

LEMMA BoardUntouched == GuardInv /\ UNCHANGED clipboardVars => GuardInv'
  BY DEF GuardInv, SecretIsGuarded, clipboardVars

LEMMA StartsWithInv == Init => GuardInv
  BY ClipboardStarts DEF Init

LEMMA CommandKeepsGuard ==
    ASSUME GuardInv, NEW c \in Commands, Start(c) \/ Proceed(c)
    PROVE  GuardInv'
  <1>1. c \in Clips
    BY CommandsShareTheSession
  <1>2. CASE Start(c)
    BY <1>2, BoardUntouched DEF Start
  <1>3. CASE Gate(c) \/ AfterBiometric(c) \/ AfterSecret(c) \/ AskPassword(c) \/ AfterPassword(c)
    BY <1>3, BoardUntouched DEF Gate, AfterBiometric, AfterSecret, AskPassword, AfterPassword
  <1>4. CASE ServeClip(c)
    BY <1>1, <1>4, BeginClipKeeps, BoardUntouched DEF ServeClip
  <1>5. CASE ServeCredential(c) \/ BeginResolve(c) \/ Resolve(c) \/ Reply(c)
    BY <1>5, BoardUntouched DEF ServeCredential, BeginResolve, Resolve, Reply
  <1> QED  BY <1>2, <1>3, <1>4, <1>5 DEF Proceed

LEMMA NextKeepsGuard == GuardInv /\ [Next]_vars => GuardInv'
  <1> SUFFICES ASSUME GuardInv, [Next]_vars PROVE GuardInv'
    OBVIOUS
  <1>1. ASSUME NEW c \in Commands, Start(c) \/ Proceed(c) PROVE GuardInv'
    BY <1>1, CommandKeepsGuard
  <1>2. ASSUME NEW c \in Commands, InPrompt(c) \/ OfUser(c) PROVE GuardInv'
    BY <1>2, BoardUntouched DEF InPrompt, OfUser
  <1>3. ASSUME NEW c \in Commands, OnClipboard(c) PROVE GuardInv'
    <2>1. c \in Clips
      BY CommandsShareTheSession
    <2> QED  BY <1>3, <2>1, CopyKeeps, ScheduleClearKeeps, ClearKeeps, ReadBoardKeeps
              DEF OnClipboard, ClipboardStep
  <1>4. ASSUME NEW c \in Commands, ClipboardLost(c) PROVE GuardInv'
    <2>1. c \in Clips
      BY CommandsShareTheSession
    <2> QED  BY <1>4, <2>1, FaultKeeps DEF ClipboardLost
  <1>5. CASE Lock \/ Sync
    BY <1>5, BoardUntouched DEF Lock, Sync
  <1>6. CASE Pasted
    BY <1>6, UserCopiesKeeps DEF Pasted
  <1>7. CASE UNCHANGED vars
    BY <1>7, BoardUntouched DEF vars
  <1> QED  BY <1>1, <1>2, <1>3, <1>4, <1>5, <1>6, <1>7 DEF Next

(* A secret on the clipboard is always somebody's to clear, however many     *)
(* commands copy, whatever the user copies in between, and whichever of the  *)
(* processes are lost.  copy_and_schedule_clear, run_clear_after.            *)
THEOREM SecretsAreGuarded == Spec => []SecretIsGuarded
  <1>1. GuardInv => SecretIsGuarded
    BY DEF GuardInv
  <1> QED  BY <1>1, StartsWithInv, NextKeepsGuard, PTL DEF Spec

-----------------------------------------------------------------------------
(* The prompts.  A program that has ended with something the service takes   *)
(* for consent has shown its dialog to its user.                             *)
PersonalInv ==
    /\ prompt \in [Askers -> [at : {"none", "started", "shown", "ended"},
                              kind : Kinds \cup {"none"},
                              printed : [status : Statuses, code : {0, 1, 2, Aborted}]]]
    /\ acted \in [Askers -> BOOLEAN]
    /\ ConsentIsPersonal

Consents(kind, printed) ==
    (IF kind = "biometric" THEN Verification(printed) ELSE Credential(printed)) = "consent"

LEMMA SilenceIsNoConsent ==
    ASSUME NEW kind, NEW code
    PROVE  ~Consents(kind, Silent(code))
  BY DEF Consents, Verification, Credential, Silent

LEMMA RefusalIsNoConsent ==
    ASSUME NEW kind, NEW status \in {"cancelled", "unavailable", "error"}
    PROVE  ~Consents(kind, Emit(status))
  BY DEF Consents, Verification, Credential, Emit

LEMMA PrintedType ==
    /\ \A status \in Statuses : Emit(status) \in [status : Statuses, code : {0, 1, 2, Aborted}]
    /\ \A code \in {0, 1, 2, Aborted} :
          Silent(code) \in [status : Statuses, code : {0, 1, 2, Aborted}]
  BY DEF Emit, Silent, Statuses

\* A program ends, and its end is no consent unless the user gave it
LEMMA EndKeeps ==
    ASSUME PersonalInv, NEW a \in Askers,
           NEW printed \in [status : Statuses, code : {0, 1, 2, Aborted}],
           prompt' = [prompt EXCEPT ![a] = Over(@.kind, printed)],
           acted' \in {acted, [acted EXCEPT ![a] = TRUE]},
           Consents(prompt[a].kind, printed) => acted'[a]
    PROVE  PersonalInv'
  <1>1. \A b \in Askers : prompt'[b] = IF b = a
            THEN Over(prompt[a].kind, printed) ELSE prompt[b]
    BY DEF PersonalInv
  <1>2. \A b \in Askers : acted[b] => acted'[b]
    BY DEF PersonalInv
  <1>3. prompt' \in [Askers -> [at : {"none", "started", "shown", "ended"},
                              kind : Kinds \cup {"none"},
                              printed : [status : Statuses, code : {0, 1, 2, Aborted}]]]
    BY DEF PersonalInv, Over
  <1>4. acted' \in [Askers -> BOOLEAN]
    BY DEF PersonalInv
  <1>5. ASSUME NEW b \in Askers, prompt'[b].at = "ended", Result(b)' = "consent"
        PROVE  acted'[b]
    <2>1. CASE b = a
      <3>1. prompt'[a].kind = prompt[a].kind /\ prompt'[a].printed = printed
        BY <1>1 DEF Over
      <3>2. Consents(prompt[a].kind, printed)
        BY <1>5, <2>1, <3>1 DEF Result, Consents
      <3> QED  BY <2>1, <3>2
    <2>2. CASE b # a
      <3>1. prompt'[b] = prompt[b]
        BY <1>1, <2>2
      <3>2. prompt[b].at = "ended" /\ Result(b) = "consent"
        BY <1>5, <3>1 DEF Result
      <3> QED  BY <3>2, <1>2 DEF PersonalInv, ConsentIsPersonal
    <2> QED  BY <2>1, <2>2
  <1> QED  BY <1>3, <1>4, <1>5 DEF PersonalInv, ConsentIsPersonal

\* A prompt that is closed, started or shown has not ended in consent
LEMMA OtherwiseKeeps ==
    ASSUME PersonalInv, NEW a \in Askers,
           NEW next \in [at : {"none", "started", "shown", "ended"},
                         kind : Kinds \cup {"none"},
                         printed : [status : Statuses, code : {0, 1, 2, Aborted}]],
           next.at = "ended" => ~Consents(next.kind, next.printed),
           prompt' = [prompt EXCEPT ![a] = next],
           acted' \in {acted, [acted EXCEPT ![a] = FALSE]}
    PROVE  PersonalInv'
  <1>1. \A b \in Askers : prompt'[b] = IF b = a THEN next ELSE prompt[b]
    BY DEF PersonalInv
  <1>2. \A b \in Askers : b # a => acted'[b] = acted[b]
    BY DEF PersonalInv
  <1>3. prompt' \in [Askers -> [at : {"none", "started", "shown", "ended"},
                              kind : Kinds \cup {"none"},
                              printed : [status : Statuses, code : {0, 1, 2, Aborted}]]]
    BY DEF PersonalInv
  <1>4. acted' \in [Askers -> BOOLEAN]
    BY DEF PersonalInv
  <1>5. ASSUME NEW b \in Askers, prompt'[b].at = "ended", Result(b)' = "consent"
        PROVE  acted'[b]
    <2>1. b # a
      BY <1>1, <1>5 DEF Result, Consents
    <2>2. prompt[b].at = "ended" /\ Result(b) = "consent"
      BY <1>1, <1>5, <2>1 DEF Result
    <2> QED  BY <2>1, <2>2, <1>2 DEF PersonalInv, ConsentIsPersonal
  <1> QED  BY <1>3, <1>4, <1>5 DEF PersonalInv, ConsentIsPersonal

LEMMA PromptsUntouched == PersonalInv /\ UNCHANGED promptVars => PersonalInv'
  BY DEF PersonalInv, ConsentIsPersonal, Result, promptVars

LEMMA StartedType ==
    ASSUME NEW kind \in Kinds
    PROVE  /\ Started(kind) \in [at : {"none", "started", "shown", "ended"},
                                 kind : Kinds \cup {"none"},
                                 printed : [status : Statuses, code : {0, 1, 2, Aborted}]]
           /\ Started(kind).at = "ended" => ~Consents(Started(kind).kind, Started(kind).printed)
  <1>1. Started(kind).kind = kind /\ Started(kind).printed = Silent(2)
    BY DEF Started, Over
  <1>2. Silent(2) \in [status : Statuses, code : {0, 1, 2, Aborted}]
    BY PrintedType
  <1>3. Started(kind) \in [at : {"none", "started", "shown", "ended"},
                           kind : Kinds \cup {"none"},
                           printed : [status : Statuses, code : {0, 1, 2, Aborted}]]
    BY <1>2 DEF Started, Over
  <1> QED  BY <1>1, <1>3, SilenceIsNoConsent

LEMMA NoPromptType ==
    /\ NoPrompt \in [at : {"none", "started", "shown", "ended"},
                     kind : Kinds \cup {"none"},
                     printed : [status : Statuses, code : {0, 1, 2, Aborted}]]
    /\ NoPrompt.at = "none"
  BY PrintedType DEF NoPrompt

LEMMA OpenPromptKeeps ==
    ASSUME PersonalInv, NEW a \in Askers, NEW kind \in Kinds, OpenPrompt(a, kind)
    PROVE  PersonalInv'
  BY StartedType, OtherwiseKeeps DEF OpenPrompt

LEMMA ClosePromptKeeps ==
    ASSUME PersonalInv, NEW a \in Askers, ClosePrompt(a)
    PROVE  PersonalInv'
  BY NoPromptType, OtherwiseKeeps DEF ClosePrompt, FinishPrompt

LEMMA NextPromptKeeps ==
    ASSUME PersonalInv, NEW a \in Askers, NEW kind \in Kinds, NextPrompt(a, kind)
    PROVE  PersonalInv'
  BY StartedType, OtherwiseKeeps DEF NextPrompt, FinishPrompt

LEMMA ShowKeeps ==
    ASSUME PersonalInv, NEW a \in Askers,
           prompt' = [prompt EXCEPT ![a].at = "shown"], acted' = acted
    PROVE  PersonalInv'
  <1> DEFINE next == [prompt[a] EXCEPT !.at = "shown"]
  <1>1. next \in [at : {"none", "started", "shown", "ended"}, kind : Kinds \cup {"none"},
                  printed : [status : Statuses, code : {0, 1, 2, Aborted}]]
    BY DEF PersonalInv
  <1>2. next.at = "shown"
    BY DEF PersonalInv
  <1>3. prompt' = [prompt EXCEPT ![a] = next]
    BY DEF PersonalInv
  <1> HIDE DEF next
  <1> QED  BY <1>1, <1>2, <1>3, OtherwiseKeeps

LEMMA PromptStepKeeps ==
    ASSUME PersonalInv, NEW a \in Askers, PromptStep(a)
    PROVE  PersonalInv'
  <1>1. CASE Activate(a)
    BY <1>1, ShowKeeps DEF Activate
  <1>2. CASE HandOver(a)
    BY <1>2, EndKeeps, SilenceIsNoConsent, PrintedType DEF HandOver
  <1>3. CASE SecondActivation(a)
    BY <1>3, EndKeeps, SilenceIsNoConsent, PrintedType DEF SecondActivation, Ends
  <1>4. CASE Detect(a)
    <2>1. Emit("error") \in [status : Statuses, code : {0, 1, 2, Aborted}]
      BY PrintedType DEF Statuses
    <2> QED  BY <1>4, <2>1, ShowKeeps, EndKeeps, RefusalIsNoConsent DEF Detect, Ends
  <1> QED  BY <1>1, <1>2, <1>3, <1>4 DEF PromptStep

LEMMA UserStepKeeps ==
    ASSUME PersonalInv, NEW a \in Askers, UserStep(a)
    PROVE  PersonalInv'
  <1>1. CASE Consent(a)
    <2>1. PICK status \in {"ok", "verified"} :
            prompt' = [prompt EXCEPT ![a] = Over(@.kind, Emit(status))]
      BY <1>1 DEF Consent, Ends
    <2>2. acted' = [acted EXCEPT ![a] = TRUE] /\ acted'[a]
      BY <1>1 DEF Consent, PersonalInv
    <2>3. Emit(status) \in [status : Statuses, code : {0, 1, 2, Aborted}]
      BY PrintedType DEF Statuses
    <2> QED  BY <2>1, <2>2, <2>3, EndKeeps
  <1>2. CASE Dismiss(a)
    <2>1. PICK status \in {"cancelled", "unavailable", "error"} : Ends(a, Emit(status))
      BY <1>2 DEF Dismiss
    <2>2. Emit(status) \in [status : Statuses, code : {0, 1, 2, Aborted}]
      BY PrintedType DEF Statuses
    <2>3. acted' = acted
      BY <1>2 DEF Dismiss
    <2> QED  BY <2>1, <2>2, <2>3, EndKeeps, RefusalIsNoConsent DEF Ends
  <1> QED  BY <1>1, <1>2 DEF UserStep

LEMMA CommandKeepsPersonal ==
    ASSUME PersonalInv, NEW c \in Commands, Start(c) \/ Proceed(c)
    PROVE  PersonalInv'
  <1>0. c \in Askers /\ "biometric" \in Kinds /\ "password" \in Kinds /\ "pin" \in Kinds
    BY CommandsShareTheSession DEF Kinds
  <1>1. CASE Start(c)
    BY <1>1, PromptsUntouched DEF Start
  <1>2. CASE Gate(c)
    BY <1>0, <1>2, OpenPromptKeeps, PromptsUntouched DEF Gate
  <1>3. CASE AfterBiometric(c)
    BY <1>0, <1>3, ClosePromptKeeps, NextPromptKeeps DEF AfterBiometric
  <1>4. CASE AfterSecret(c) \/ AfterPassword(c)
    BY <1>0, <1>4, ClosePromptKeeps DEF AfterSecret, AfterPassword
  <1>5. CASE AskPassword(c)
    BY <1>0, <1>5, OpenPromptKeeps, PromptsUntouched DEF AskPassword
  <1>6. CASE ServeClip(c) \/ ServeCredential(c) \/ BeginResolve(c) \/ Resolve(c) \/ Reply(c)
    BY <1>6, PromptsUntouched DEF ServeClip, ServeCredential, BeginResolve, Resolve, Reply
  <1> QED  BY <1>1, <1>2, <1>3, <1>4, <1>5, <1>6 DEF Proceed

LEMMA StartsPersonal == Init => PersonalInv
  <1> SUFFICES ASSUME Init PROVE PersonalInv
    OBVIOUS
  <1>1. prompt = [a \in Askers |-> NoPrompt] /\ acted = [a \in Askers |-> FALSE]
    BY DEF Init, PromptInit
  <1> QED  BY <1>1, NoPromptType DEF PersonalInv, ConsentIsPersonal

LEMMA NextKeepsPersonal == PersonalInv /\ [Next]_vars => PersonalInv'
  <1> SUFFICES ASSUME PersonalInv, [Next]_vars PROVE PersonalInv'
    OBVIOUS
  <1>1. ASSUME NEW c \in Commands, Start(c) \/ Proceed(c) PROVE PersonalInv'
    BY <1>1, CommandKeepsPersonal
  <1>2. ASSUME NEW c \in Commands, InPrompt(c) PROVE PersonalInv'
    BY <1>2, PromptStepKeeps, CommandsShareTheSession DEF InPrompt
  <1>3. ASSUME NEW c \in Commands, OfUser(c) PROVE PersonalInv'
    BY <1>3, UserStepKeeps, CommandsShareTheSession DEF OfUser
  <1>4. ASSUME NEW c \in Commands, OnClipboard(c) \/ ClipboardLost(c) PROVE PersonalInv'
    BY <1>4, PromptsUntouched DEF OnClipboard, ClipboardLost
  <1>5. CASE Lock \/ Sync \/ Pasted \/ UNCHANGED vars
    BY <1>5, PromptsUntouched DEF Lock, Sync, Pasted, vars
  <1> QED  BY <1>1, <1>2, <1>3, <1>4, <1>5 DEF Next

(* Whatever programs prompt, collide or crash, the service never takes for   *)
(* consent what the user did not do in the dialog of that request.           *)
(* prompt_password, prompt_pin, prompt_biometric, grimoire-prompt-linux.     *)
THEOREM ConsentComesFromTheUser == Spec => []ConsentIsPersonal
  <1>1. PersonalInv => ConsentIsPersonal
    BY DEF PersonalInv
  <1> QED  BY <1>1, StartsPersonal, NextKeepsPersonal, PTL DEF Spec

-----------------------------------------------------------------------------
(* Type correctness.  The types of the prompts are those of PersonalInv; the *)
(* parts below are what a step of a command, of a prompt program or of the   *)
(* clipboard may disturb.                                                    *)
Prompting == {"biometric", "secret", "password"}

ControlType ==
    /\ at \in [Commands -> Phases]
    /\ request \in [Commands -> {"first", "retry", "get"}]
    /\ vault \in {"locked", "open"} /\ content \in DOMAIN Vaults
    /\ \A c \in Commands : job[c] \in Jobs[c] \cup {None}
    /\ job = [c \in Commands |-> job[c]]
ProgramType == program \in Installed /\ primary \subseteq Askers /\ nudged \in BOOLEAN
PromptsInStep == \A c \in Commands : prompt[c].at # "none" <=> at[c] \in Prompting
ClipsInStep == \A c \in Commands : clip[c] # "none" <=> at[c] = "clipping"

TypeInv ==
    /\ ControlType /\ ProgramType /\ PromptsInStep /\ ClipsInStep
    /\ ClipboardType(Secrets)
    /\ PersonalInv

LEMMA TypeInvImplies == TypeInv => TypeOK
  BY DEF TypeInv, TypeOK, ControlType, ProgramType, PromptsInStep, ClipsInStep, Prompting,
         PersonalInv, PromptType

LEMMA StartsTyped == Init => TypeInv
  <1> SUFFICES ASSUME Init PROVE TypeInv
    OBVIOUS
  <1>1. ControlType
    BY ServerStartsEmpty DEF Init, ControlType, Phases
  <1>2. ProgramType /\ PromptsInStep
    BY CommandsShareTheSession DEF Init, PromptInit, ProgramType, PromptsInStep, NoPrompt, Prompting
  <1>3. ClipsInStep /\ ClipboardType(Secrets)
    BY CommandsShareTheSession DEF Init, ClipboardInit, ClipsInStep, ClipboardType, User
  <1> QED  BY <1>1, <1>2, <1>3, StartsPersonal DEF TypeInv

\* What a command does to its prompt: nothing, opens it, or is done with it
LEMMA OpensPrompt ==
    ASSUME TypeInv, NEW c \in Commands, NEW kind, NEW phase \in Prompting,
           OpenPrompt(c, kind) \/ NextPrompt(c, kind), Go(c, phase)
    PROVE  ProgramType' /\ PromptsInStep'
  <1>1. Started(kind).at # "none"
    BY DEF Started, Over
  <1>2. prompt' = [prompt EXCEPT ![c] = Started(kind)] /\ UNCHANGED <<program, primary, nudged>>
    BY DEF OpenPrompt, NextPrompt, FinishPrompt
  <1>3. prompt'[c] = Started(kind) /\ at'[c] = phase
    BY <1>2, CommandsShareTheSession DEF TypeInv, PersonalInv, ControlType, Go
  <1>4. \A b \in Commands \ {c} : prompt'[b] = prompt[b] /\ at'[b] = at[b]
    BY <1>2, CommandsShareTheSession DEF TypeInv, PersonalInv, ControlType, Go
  <1>5. PromptsInStep'
    BY <1>1, <1>3, <1>4 DEF TypeInv, PromptsInStep
  <1> QED  BY <1>2, <1>5 DEF TypeInv, ProgramType

LEMMA ClosesPrompt ==
    ASSUME TypeInv, NEW c \in Commands, NEW phase, phase \notin Prompting,
           ClosePrompt(c), Go(c, phase)
    PROVE  ProgramType' /\ PromptsInStep'
  <1>1. prompt' = [prompt EXCEPT ![c] = NoPrompt] /\ UNCHANGED <<program, primary, nudged>>
    BY DEF ClosePrompt, FinishPrompt
  <1>2. prompt'[c].at = "none" /\ at'[c] = phase
    BY <1>1, NoPromptType, CommandsShareTheSession DEF TypeInv, PersonalInv, ControlType, Go
  <1>3. \A b \in Commands \ {c} : prompt'[b] = prompt[b] /\ at'[b] = at[b]
    BY <1>1, CommandsShareTheSession DEF TypeInv, PersonalInv, ControlType, Go
  <1>4. PromptsInStep'
    BY <1>2, <1>3 DEF TypeInv, PromptsInStep
  <1> QED  BY <1>1, <1>4 DEF TypeInv, ProgramType

LEMMA NoPromptMoves ==
    ASSUME TypeInv, NEW c \in Commands, NEW phase, phase \notin Prompting,
           at[c] \notin Prompting, Go(c, phase), UNCHANGED promptVars
    PROVE  ProgramType' /\ PromptsInStep'
  <1>1. \A b \in Commands : prompt'[b] = prompt[b] /\ at'[b] = IF b = c THEN phase ELSE at[b]
    BY DEF TypeInv, ControlType, Go, promptVars
  <1> QED  BY <1>1 DEF TypeInv, PromptsInStep, ProgramType, promptVars

\* A command that does not copy
LEMMA NoClipMoves ==
    ASSUME TypeInv, NEW c \in Commands, NEW phase, phase # "clipping", at[c] # "clipping",
           Go(c, phase), UNCHANGED clipboardVars
    PROVE  ClipsInStep' /\ ClipboardType(Secrets)'
  <1>1. \A b \in Commands : clip'[b] = clip[b] /\ at'[b] = IF b = c THEN phase ELSE at[b]
    BY DEF TypeInv, ControlType, Go, clipboardVars
  <1> QED  BY <1>1 DEF TypeInv, ClipsInStep, ClipboardType, clipboardVars

LEMMA ControlMoves ==
    ASSUME TypeInv, NEW c \in Commands, NEW phase \in Phases, Go(c, phase),
           UNCHANGED <<job, request, vault, content>>
    PROVE  ControlType'
  BY DEF TypeInv, ControlType, Go

LEMMA SecretType ==
    ASSUME NEW k \in DOMAIN Vaults, NEW item, NEW field, Field(Vaults[k], item, field) # None
    PROVE  Field(Vaults[k], item, field) \in Secrets
  <1>1. /\ item \in DOMAIN Vaults[k] /\ FieldOf(field) # None
        /\ Field(Vaults[k], item, field) = Vaults[k][item][FieldOf(field)]
    BY DEF Field
  <1>2. FieldOf(field) \in FieldNames
    <2>1. Head(<<"name">>) = "name" /\ Head(<<"totp">>) = "totp"
      OBVIOUS
    <2> QED  BY <1>1, <2>1 DEF FieldOf, FieldNames
  <1> QED  BY <1>1, <1>2 DEF Secrets

LEMMA StartTyped ==
    ASSUME TypeInv, NEW c \in Commands, Start(c)
    PROVE  ControlType' /\ ProgramType' /\ PromptsInStep' /\ ClipsInStep' /\ ClipboardType(Secrets)'
  <1>1. PICK j \in Jobs[c], phase \in {"asking", "failed", "exec", "silent"} :
          Go(c, phase) /\ job' \in {job, [job EXCEPT ![c] = j]}
    <2>1. \A j, applied : Asks(j, applied) \in {"asking", "failed", "exec", "silent"}
      BY DEF Asks
    <2> QED  BY <2>1 DEF Start
  <1>2. phase \in Phases /\ phase \notin Prompting /\ phase # "clipping"
    BY <1>1 DEF Phases, Prompting
  <1>3. at[c] \notin Prompting /\ at[c] # "clipping"
    BY DEF Start, Prompting
  <1>4. ControlType'
    BY <1>1, <1>2 DEF Start, TypeInv, ControlType, Go, vaultVars
  <1> QED  BY <1>1, <1>2, <1>3, <1>4, NoPromptMoves, NoClipMoves DEF Start

LEMMA GateTyped ==
    ASSUME TypeInv, NEW c \in Commands,
           Gate(c) \/ AfterBiometric(c) \/ AfterSecret(c) \/ AskPassword(c)
    PROVE  ControlType' /\ ProgramType' /\ PromptsInStep' /\ ClipsInStep' /\ ClipboardType(Secrets)'
  <1>1. Refused(c) \in {"locked out", "failed"}
    BY DEF Refused
  <1>2. \A phase : Moves(c, phase) => /\ Go(c, phase) /\ UNCHANGED <<job, request, vault, content>>
    BY DEF Moves, dataVars, vaultVars
  <1>3. CASE Gate(c)
    <2>1. at[c] \notin Prompting /\ at[c] # "clipping" /\ UNCHANGED clipboardVars
      BY <1>3 DEF Gate, Prompting
    <2>2. \/ \E phase \in {"locked out", "failed", "served"} : Moves(c, phase) /\ UNCHANGED promptVars
          \/ Moves(c, "biometric") /\ OpenPrompt(c, "biometric")
      BY <1>1, <1>3 DEF Gate
    <2> QED  BY <1>2, <2>1, <2>2, NoPromptMoves, OpensPrompt, NoClipMoves, ControlMoves
              DEF Phases, Prompting
  <1>4. CASE AfterBiometric(c)
    <2>1. at[c] # "clipping" /\ UNCHANGED clipboardVars
      BY <1>4 DEF AfterBiometric
    <2>2. \/ Moves(c, "served") /\ ClosePrompt(c)
          \/ Moves(c, "secret") /\ \E kind \in {"pin", "password"} : NextPrompt(c, kind)
      BY <1>4 DEF AfterBiometric
    <2> QED  BY <1>2, <2>1, <2>2, ClosesPrompt, OpensPrompt, NoClipMoves, ControlMoves
              DEF Phases, Prompting
  <1>5. CASE AfterSecret(c)
    <2>1. at[c] # "clipping" /\ UNCHANGED clipboardVars
      BY <1>5 DEF AfterSecret
    <2>2. ClosePrompt(c) /\ \E phase \in {"locked out", "failed", "served"} : Moves(c, phase)
      BY <1>1, <1>5 DEF AfterSecret
    <2> QED  BY <1>2, <2>1, <2>2, ClosesPrompt, NoClipMoves, ControlMoves DEF Phases, Prompting
  <1>6. CASE AskPassword(c)
    <2>1. at[c] \notin Prompting /\ at[c] # "clipping" /\ UNCHANGED clipboardVars
      BY <1>6 DEF AskPassword, Prompting
    <2>2. \/ OpenPrompt(c, "password") /\ Moves(c, "password")
          \/ Moves(c, "failed") /\ UNCHANGED promptVars
      BY <1>6 DEF AskPassword
    <2> QED  BY <1>2, <2>1, <2>2, NoPromptMoves, OpensPrompt, NoClipMoves, ControlMoves
              DEF Phases, Prompting
  <1> QED  BY <1>3, <1>4, <1>5, <1>6

LEMMA UnlockTyped ==
    ASSUME TypeInv, NEW c \in Commands, AfterPassword(c)
    PROVE  ControlType' /\ ProgramType' /\ PromptsInStep' /\ ClipsInStep' /\ ClipboardType(Secrets)'
  <1>1. at[c] # "clipping" /\ UNCHANGED clipboardVars /\ ClosePrompt(c)
    BY DEF AfterPassword
  <1>2. CASE Moves(c, "failed")
    <2>1. Go(c, "failed") /\ UNCHANGED <<job, request, vault, content>>
      BY <1>2 DEF Moves, dataVars, vaultVars
    <2> QED  BY <1>1, <2>1, ClosesPrompt, NoClipMoves, ControlMoves DEF Phases, Prompting
  <1>3. CASE ~Moves(c, "failed")
    <2>1. /\ vault' = "open" /\ content' = 1 /\ UNCHANGED job
          /\ request' = [request EXCEPT ![c] = "retry"] /\ Go(c, "asking")
      BY <1>3 DEF AfterPassword
    <2>2. ControlType'
      BY <2>1, ServerStartsEmpty DEF TypeInv, ControlType, Go, Phases
    <2> QED  BY <1>1, <2>1, <2>2, ClosesPrompt, NoClipMoves DEF Prompting
  <1> QED  BY <1>2, <1>3

LEMMA ServeClipTyped ==
    ASSUME TypeInv, NEW c \in Commands, ServeClip(c)
    PROVE  ControlType' /\ ProgramType' /\ PromptsInStep' /\ ClipsInStep' /\ ClipboardType(Secrets)'
  <1> DEFINE value == Field(Held, job[c].item, job[c].field)
  <1>1. /\ at[c] \notin Prompting /\ at[c] # "clipping" /\ UNCHANGED promptVars
        /\ UNCHANGED <<job, request, vault, content>>
    BY DEF ServeClip, Prompting, dataVars, vaultVars
  <1>2. CASE vault = "locked" \/ value = None
    <2>1. PICK phase \in {"locked out", "failed"} : Go(c, phase) /\ UNCHANGED clipboardVars
      BY <1>2 DEF ServeClip, Refused
    <2> QED  BY <1>1, <2>1, NoPromptMoves, NoClipMoves, ControlMoves DEF Phases, Prompting
  <1>3. CASE ~(vault = "locked" \/ value = None)
    <2>1. BeginClip(c, value) /\ Go(c, "clipping")
      BY <1>3 DEF ServeClip
    <2>2. value \in Secrets
      BY <1>3, SecretType DEF Held, TypeInv, ControlType
    <2> HIDE DEF value
    <2>3. ClipboardType(Secrets)'
      BY <2>1, <2>2, CommandsShareTheSession DEF BeginClip, TypeInv, ClipboardType
    <2>4. ClipsInStep'
      BY <2>1, CommandsShareTheSession DEF BeginClip, Go, TypeInv, ClipboardType, ClipsInStep, ControlType
    <2> QED  BY <1>1, <2>1, <2>3, <2>4, NoPromptMoves, ControlMoves DEF Phases, Prompting
  <1> QED  BY <1>2, <1>3

LEMMA ServeTyped ==
    ASSUME TypeInv, NEW c \in Commands,
           ServeCredential(c) \/ BeginResolve(c) \/ Resolve(c) \/ Reply(c)
    PROVE  ControlType' /\ ProgramType' /\ PromptsInStep' /\ ClipsInStep' /\ ClipboardType(Secrets)'
  <1>1. /\ at[c] \notin Prompting /\ at[c] # "clipping"
        /\ UNCHANGED promptVars /\ UNCHANGED clipboardVars
        /\ UNCHANGED <<job, vault, content>>
        /\ request' \in {request, [request EXCEPT ![c] = "get"]}
    BY DEF ServeCredential, BeginResolve, Resolve, Reply, Prompting, vaultVars
  <1>2. PICK phase : /\ phase \in {"locked out", "failed", "answered", "silent", "asking",
                                    "resolving", "exec"}
                     /\ Go(c, phase)
    <2>1. CASE ServeCredential(c)
      BY <2>1 DEF ServeCredential, Refused
    <2>2. CASE BeginResolve(c)
      BY <2>2 DEF BeginResolve
    <2>3. CASE Resolve(c)
      <3>1. at' = at /\ at[c] = "resolving"
        BY <2>3 DEF Resolve
      <3>2. Go(c, "resolving")
        BY <3>1 DEF Go, TypeInv, ControlType
      <3> QED  BY <3>2
    <2>4. CASE Reply(c)
      BY <2>4 DEF Reply
    <2> QED  BY <2>1, <2>2, <2>3, <2>4
  <1>3. phase \in Phases /\ phase \notin Prompting /\ phase # "clipping"
    BY <1>2 DEF Phases, Prompting
  <1>4. ControlType'
    BY <1>1, <1>2, <1>3 DEF TypeInv, ControlType, Go
  <1> QED  BY <1>1, <1>2, <1>3, <1>4, NoPromptMoves, NoClipMoves

\* The steps of the prompt programs and their users
LEMMA PromptsTyped ==
    ASSUME TypeInv, NEW a \in Commands, PromptStep(a) \/ UserStep(a), UNCHANGED at
    PROVE  ProgramType' /\ PromptsInStep'
  <1>1. /\ prompt[a].at # "none"
        /\ program' = program /\ primary' \subseteq primary \cup {a} /\ nudged' \in BOOLEAN
        /\ \/ prompt' = [prompt EXCEPT ![a].at = "shown"]
           \/ \E printed : prompt' = [prompt EXCEPT ![a] = Over(@.kind, printed)]
    <2>1. CASE Activate(a) \/ HandOver(a)
      BY <2>1 DEF Activate, HandOver, TypeInv, ProgramType
    <2>2. CASE SecondActivation(a) \/ Detect(a)
      BY <2>2 DEF SecondActivation, Detect, Ends, TypeInv, ProgramType
    <2>3. CASE Consent(a)
      BY <2>3 DEF Consent, Ends, TypeInv, ProgramType
    <2>4. CASE Dismiss(a)
      BY <2>4 DEF Dismiss, Ends, TypeInv, ProgramType
    <2> QED  BY <2>1, <2>2, <2>3, <2>4 DEF PromptStep, UserStep
  <1>2. prompt'[a].at # "none" /\ \A b \in Commands \ {a} : prompt'[b] = prompt[b]
    BY <1>1, CommandsShareTheSession DEF TypeInv, PersonalInv, Over
  <1>3. PromptsInStep'
    BY <1>1, <1>2 DEF TypeInv, PromptsInStep
  <1> QED  BY <1>1, <1>3, CommandsShareTheSession DEF TypeInv, ProgramType

\* The steps of the clipboard
LEMMA ClipboardTyped ==
    ASSUME TypeInv, NEW c \in Commands, ClipboardStep(c) \/ ClipboardFault(c), UNCHANGED at
    PROVE  ClipsInStep' /\ ClipboardType(Secrets)'
  <1>1. c \in Clips /\ ClipboardType(Secrets) /\ ClipsInStep
    BY CommandsShareTheSession DEF TypeInv
  <1>2. clip[c] \in {"none", "copying", "copied", "unscheduled", "done", "failed", "abandoned"}
    BY <1>1 DEF ClipboardType
  <1>3. ClipboardType(Secrets)'
    BY <1>1 DEF ClipboardStep, ClipboardFault, Copy, ScheduleClear, ClearNow, ReadBoard, ClearLater,
         LoseClip, LoseClearer, Clear, ClipboardType
  <1>4. \/ UNCHANGED clip
        \/ clip[c] # "none" /\ \E phase : phase # "none" /\ clip' = [clip EXCEPT ![c] = phase]
    BY DEF ClipboardStep, ClipboardFault, Copy, ScheduleClear, ClearNow, ReadBoard, ClearLater,
         LoseClip, LoseClearer
  <1> QED  BY <1>1, <1>3, <1>4, CommandsShareTheSession DEF ClipsInStep, ClipboardType

LEMMA NextKeepsTypes == TypeInv /\ [Next]_vars => TypeInv'
  <1> SUFFICES ASSUME TypeInv, [Next]_vars
               PROVE  ControlType' /\ ProgramType' /\ PromptsInStep' /\ ClipsInStep'
                        /\ ClipboardType(Secrets)'
    BY NextKeepsPersonal DEF TypeInv
  <1> DEFINE Typed == ControlType' /\ ProgramType' /\ PromptsInStep' /\ ClipsInStep'
                        /\ ClipboardType(Secrets)'
  <1>1. ASSUME UNCHANGED <<dataVars, at, vaultVars>> PROVE ControlType'
    BY <1>1 DEF TypeInv, ControlType, dataVars, vaultVars
  <1>2. ASSUME UNCHANGED <<at, promptVars>> PROVE ProgramType' /\ PromptsInStep'
    BY <1>2 DEF TypeInv, ProgramType, PromptsInStep, promptVars
  <1>3. ASSUME UNCHANGED <<at, clipboardVars>> PROVE ClipsInStep' /\ ClipboardType(Secrets)'
    BY <1>3 DEF TypeInv, ClipsInStep, ClipboardType, clipboardVars
  <1>4. ASSUME NEW c \in Commands, Start(c) \/ Proceed(c) PROVE Typed
    BY <1>4, StartTyped, GateTyped, UnlockTyped, ServeClipTyped, ServeTyped DEF Proceed
  <1>5. ASSUME NEW c \in Commands, InPrompt(c) \/ OfUser(c) PROVE Typed
    BY <1>1, <1>3, <1>5, PromptsTyped DEF InPrompt, OfUser
  <1>6. ASSUME NEW c \in Commands, OnClipboard(c) \/ ClipboardLost(c) PROVE Typed
    BY <1>1, <1>2, <1>6, ClipboardTyped DEF OnClipboard, ClipboardLost
  <1>7. CASE Lock \/ Sync
    <2>1. ControlType'
      BY <1>7, ServerStartsEmpty DEF Lock, Sync, TypeInv, ControlType, dataVars
    <2> QED  BY <1>2, <1>3, <1>7, <2>1 DEF Lock, Sync
  <1>8. CASE Pasted
    <2>1. ClipsInStep' /\ ClipboardType(Secrets)'
      BY <1>8 DEF Pasted, UserCopies, Clear, User, TypeInv, ClipsInStep, ClipboardType
    <2> QED  BY <1>1, <1>2, <1>8, <2>1 DEF Pasted
  <1>9. CASE UNCHANGED vars
    BY <1>1, <1>2, <1>3, <1>9 DEF vars
  <1> QED  BY <1>4, <1>5, <1>6, <1>7, <1>8, <1>9 DEF Next

(* Commands, prompts and clipboard stay in step: a prompt is open exactly    *)
(* while its command waits for it, and only a secret of the vault is ever    *)
(* copied.  attempt_approval, handle_unlock, copy_and_schedule_clear.        *)
THEOREM CommandsTypeCorrect == Spec => []TypeOK
  BY StartsTyped, NextKeepsTypes, TypeInvImplies, PTL DEF Spec

-----------------------------------------------------------------------------
(* Induction over the naturals, with a set in the place of the predicate:    *)
(* a set that is not all of them lacks a least one.                          *)
LEMMA LeastNumber ==
    ASSUME NEW T \in SUBSET Nat, T # {}
    PROVE  \E n \in T : \A m \in T : n <= m
  <1> DEFINE R == OpToRel(<, Nat)
  <1>1. PICK n \in T : \A m \in T : ~(<<m, n>> \in R)
    <2>1. IsWellFoundedOn(R, Nat)
      BY NatLessThanWellFounded
    <2> HIDE DEF R
    <2> QED  BY <2>1, WFMin
  <1>2. \A m \in T : ~(m < n)
    BY <1>1 DEF OpToRel
  <1> QED  BY <1>2

LEMMA InductionUpTo ==
    ASSUME NEW G, NEW n \in Nat, 0 \in G, \A m \in 0..n-1 : m \in G => m + 1 \in G
    PROVE  n \in G
  <1> DEFINE T == 0..n \ G
  <1> SUFFICES ASSUME n \notin G PROVE FALSE
    OBVIOUS
  <1>1. PICK m \in T : \A k \in T : m <= k
    <2>1. T \in SUBSET Nat /\ T # {}
      OBVIOUS
    <2> HIDE DEF T
    <2> QED  BY <2>1, LeastNumber
  <1>2. m # 0 /\ m - 1 \in 0..n-1 /\ m - 1 \in G
    BY <1>1
  <1> QED  BY <1>1, <1>2

-----------------------------------------------------------------------------
(* FoldLeft(Apply, start, entries) is the value that the recursive function of *)
(* the fold has for all of the positions.                                    *)
Folds(f, start, entries, n) ==
    f = [s \in SUBSET (1..n) |-> IF s = {} THEN start
                                 ELSE Apply(f[s \ {Max(s)}], entries[Max(s)])]

LEMMA MaxOfPrefix ==
    ASSUME NEW m \in Nat, NEW s \in SUBSET (1..m+1), m + 1 \in s
    PROVE  Max(s) = m + 1
  <1>1. m + 1 \in s /\ \A y \in s : m + 1 >= y
    OBVIOUS
  <1>2. \A x \in s : (\A y \in s : x >= y) => x = m + 1
    BY <1>1
  <1> QED  BY <1>1, <1>2 DEF Max

LEMMA FoldExists ==
    ASSUME NEW start, NEW entries, NEW n \in Nat
    PROVE  \E f : Folds(f, start, entries, n)
  <1> DEFINE G == {m \in Nat : \E f : Folds(f, start, entries, m)}
  <1>1. 0 \in G
    <2> DEFINE f == [s \in SUBSET (1..0) |-> start]
    <2>1. \A s \in SUBSET (1..0) : s = {}
      BY Z3
    <2>2. Folds(f, start, entries, 0)
      BY <2>1 DEF Folds
    <2> HIDE DEF f
    <2> QED  BY <2>2
  <1>2. ASSUME NEW m \in Nat, m \in G PROVE m + 1 \in G
    <2>1. PICK f : Folds(f, start, entries, m)
      BY <1>2
    <2> DEFINE g == [s \in SUBSET (1..m+1) |->
                       IF m + 1 \in s THEN Apply(f[s \ {m+1}], entries[m+1]) ELSE f[s]]
    <2>2. ASSUME NEW s \in SUBSET (1..m+1)
          PROVE  g[s] = IF s = {} THEN start ELSE Apply(g[s \ {Max(s)}], entries[Max(s)])
      <3>1. CASE m + 1 \in s
        <4>1. Max(s) = m + 1
          BY <3>1, MaxOfPrefix
        <4>2. s \ {m+1} \in SUBSET (1..m+1) /\ m + 1 \notin s \ {m+1}
          BY <3>1
        <4>3. g[s \ {m+1}] = f[s \ {m+1}]
          BY <4>2
        <4> QED  BY <4>1, <4>3, <3>1
      <3>2. CASE m + 1 \notin s
        <4>1. s \in SUBSET (1..m)
          BY <3>2
        <4>2. f[s] = IF s = {} THEN start ELSE Apply(f[s \ {Max(s)}], entries[Max(s)])
          BY <4>1, <2>1 DEF Folds
        <4>3. g[s] = f[s] /\ g[s \ {Max(s)}] = f[s \ {Max(s)}]
          BY <3>2
        <4> QED  BY <4>2, <4>3
      <3> QED  BY <3>1, <3>2
    <2>3. Folds(g, start, entries, m+1)
      <3>1. g = [s \in SUBSET (1..m+1) |-> g[s]]
        OBVIOUS
      <3> HIDE DEF g
      <3> QED  BY <2>2, <3>1 DEF Folds
    <2> HIDE DEF g
    <2> QED  BY <2>3
  <1>3. n \in G
    <2> HIDE DEF G
    <2> QED  BY <1>1, <1>2, InductionUpTo
  <1> QED  BY <1>3

LEMMA FoldIsIteration ==
    ASSUME NEW start, NEW entries, NEW n \in Nat, DOMAIN entries = 1..n
    PROVE  \E f : Folds(f, start, entries, n) /\ FoldLeft(Apply, start, entries) = f[1..n]
  <1> DEFINE f == CHOOSE g : Folds(g, start, entries, n)
  <1>1. Folds(f, start, entries, n)
    BY FoldExists
  <1>2. FoldLeft(Apply, start, entries) = f[1..n]
    BY Zenon DEF FoldLeft, MapThenFoldSet, Folds
  <1> HIDE DEF f
  <1> QED  BY <1>1, <1>2

LEMMA FoldStep ==
    ASSUME NEW f, NEW start, NEW entries, NEW n \in Nat, Folds(f, start, entries, n)
    PROVE  /\ f[1..0] = start
           /\ \A m \in 0..n-1 : f[1..m+1] = Apply(f[1..m], entries[m+1])
  <1>1. 1..0 = {}
    OBVIOUS
  <1>2. f[1..0] = start
    BY <1>1 DEF Folds
  <1>3. ASSUME NEW m \in 0..n-1
        PROVE  f[1..m+1] = Apply(f[1..m], entries[m+1])
    <2>1. Max(1..m+1) = m + 1
      BY MaxOfPrefix
    <2>2. (1..m+1) \ {m+1} = 1..m /\ 1..m+1 # {} /\ 1..m+1 \in SUBSET (1..n)
      OBVIOUS
    <2> QED  BY <2>1, <2>2 DEF Folds
  <1> QED  BY <1>2, <1>3

-----------------------------------------------------------------------------
(* What the manifests make of the environment: a variable that is set keeps  *)
(* its value, any other gets the reference of the first entry that names it. *)
Naming(entries, v, m) == {i \in 1..m : entries[i].key = v}

FirstWins(start, entries, v, m, value) ==
    /\ start[v] # None => value = start[v]
    /\ start[v] = None /\ Naming(entries, v, m) = {} => value = None
    /\ start[v] = None /\ Naming(entries, v, m) # {} =>
          \E i \in Naming(entries, v, m) :
              value = entries[i].reference /\ \A j \in Naming(entries, v, m) : i <= j

LEMMA ApplyKeepsFirst ==
    ASSUME NEW N, NEW start, NEW entries \in Seq(Entries), NEW m \in 0..Len(entries)-1,
           NEW now, now = [v \in N |-> now[v]], entries[m+1].key \in N,
           \A v \in N : FirstWins(start, entries, v, m, now[v])
    PROVE  /\ Apply(now, entries[m+1]) = [v \in N |-> Apply(now, entries[m+1])[v]]
           /\ \A v \in N : FirstWins(start, entries, v, m+1, Apply(now, entries[m+1])[v])
  <1> DEFINE entry == entries[m+1]
             next == Apply(now, entry)
  <1>0. \A i \in 1..Len(entries) : entries[i].reference # None
    <2>1. \A i \in 1..Len(entries) : entries[i] \in Entries
      OBVIOUS
    <2>2. \A e \in Entries : e.reference \in Text
      BY DEF Entries
    <2> QED  BY <2>1, <2>2, NoneIsNoText
  <1>1. next = [v \in N |-> next[v]]
    BY DEF Apply
  <1>2. ASSUME NEW v \in N
        PROVE  FirstWins(start, entries, v, m+1, next[v])
    <2>1. Naming(entries, v, m+1) = Naming(entries, v, m) \cup (IF entry.key = v THEN {m+1} ELSE {})
      BY DEF Naming
    <2>2. CASE entry.key # v
      <3>1. next[v] = now[v] /\ Naming(entries, v, m+1) = Naming(entries, v, m)
        BY <2>1, <2>2 DEF Apply
      <3> QED  BY <3>1 DEF FirstWins
    <2>3. CASE entry.key = v /\ now[v] # None
      <3>1. next[v] = now[v]
        BY <2>3 DEF Apply
      <3>2. CASE start[v] # None
        BY <3>1, <3>2 DEF FirstWins
      <3>3. CASE start[v] = None
        <4>1. PICK i \in Naming(entries, v, m) :
                now[v] = entries[i].reference /\ \A j \in Naming(entries, v, m) : i <= j
          BY <2>3, <3>3 DEF FirstWins
        <4>2. i \in Naming(entries, v, m+1) /\ \A j \in Naming(entries, v, m+1) : i <= j
          BY <2>1, <4>1 DEF Naming
        <4> QED  BY <3>1, <3>3, <4>1, <4>2 DEF FirstWins
      <3> QED  BY <3>2, <3>3
    <2>4. CASE entry.key = v /\ now[v] = None
      <3>1. next[v] = entry.reference
        BY <2>4 DEF Apply
      <3>2. \A i \in Naming(entries, v, m) : entries[i].reference # None
        <4>1. \A i \in Naming(entries, v, m) : i \in 1..Len(entries)
          BY DEF Naming
        <4> QED  BY <4>1, <1>0
      <3>3. start[v] = None /\ Naming(entries, v, m) = {}
        BY <2>4, <3>2 DEF FirstWins
      <3>4. Naming(entries, v, m+1) = {m+1}
        BY <2>1, <2>4, <3>3
      <3>5. m + 1 \in Naming(entries, v, m+1) /\ \A j \in Naming(entries, v, m+1) : m + 1 <= j
        BY <3>4
      <3> HIDE DEF next
      <3> QED  BY <3>1, <3>3, <3>5 DEF FirstWins
    <2> QED  BY <2>2, <2>3, <2>4
  <1> QED  BY <1>1, <1>2

LEMMA FirstEntryWins ==
    ASSUME NEW N, NEW start, start = [v \in N |-> start[v]], NEW entries \in Seq(Entries),
           \A i \in DOMAIN entries : entries[i].key \in N
    PROVE  LET result == FoldLeft(Apply, start, entries)
           IN  /\ result = [v \in N |-> result[v]]
               /\ \A v \in N : FirstWins(start, entries, v, Len(entries), result[v])
  <1> DEFINE n == Len(entries)
  <1>0. n \in Nat /\ DOMAIN entries = 1..n
    OBVIOUS
  <1>1. PICK f : Folds(f, start, entries, n) /\ FoldLeft(Apply, start, entries) = f[1..n]
    BY <1>0, FoldIsIteration
  <1> DEFINE Good(m) == /\ f[1..m] = [v \in N |-> f[1..m][v]]
                        /\ \A v \in N : FirstWins(start, entries, v, m, f[1..m][v])
             G == {m \in 0..n : Good(m)}
  <1>2. 0 \in G
    <2>1. f[1..0] = start
      BY <1>0, <1>1, FoldStep
    <2>2. \A v \in N : Naming(entries, v, 0) = {}
      BY DEF Naming
    <2>3. Good(0)
      BY <2>1, <2>2 DEF FirstWins
    <2> QED  BY <1>0, <2>3
  <1>3. ASSUME NEW m \in 0..n-1, m \in G PROVE m + 1 \in G
    <2>1. f[1..m+1] = Apply(f[1..m], entries[m+1])
      BY <1>0, <1>1, FoldStep
    <2>2. entries[m+1].key \in N
      BY <1>0
    <2>3. Good(m)
      BY <1>3
    <2> DEFINE now == f[1..m]
    <2> HIDE DEF now, n
    <2>4. now = [v \in N |-> now[v]] /\ \A v \in N : FirstWins(start, entries, v, m, now[v])
      BY <2>3 DEF now
    <2>5. /\ Apply(now, entries[m+1]) = [v \in N |-> Apply(now, entries[m+1])[v]]
          /\ \A v \in N : FirstWins(start, entries, v, m+1, Apply(now, entries[m+1])[v])
      BY <2>2, <2>4, ApplyKeepsFirst DEF n
    <2>6. Good(m+1)
      BY <2>1, <2>5 DEF now
    <2> QED  BY <1>0, <2>6
  <1>4. n \in G
    <2> HIDE DEF G, n
    <2> QED  BY <1>0, <1>2, <1>3, InductionUpTo
  <1> QED  BY <1>1, <1>4
(* FlattenSeq likewise, for what all of the entries share.                   *)
Flattens(f, seqs, n) ==
    f = [i \in 1..n |-> IF i = 1 THEN seqs[i] ELSE f[i-1] \o seqs[i]]

LEMMA FlatExists ==
    ASSUME NEW seqs, NEW n \in Nat
    PROVE  \E f : Flattens(f, seqs, n)
  <1> DEFINE G == {m \in Nat : \E f : Flattens(f, seqs, m)}
  <1>1. 0 \in G
    <2> DEFINE f == [i \in 1..0 |-> seqs]
    <2>1. Flattens(f, seqs, 0)
      BY DEF Flattens
    <2> HIDE DEF f
    <2> QED  BY <2>1
  <1>2. ASSUME NEW m \in Nat, m \in G PROVE m + 1 \in G
    <2>1. PICK f : Flattens(f, seqs, m)
      BY <1>2
    <2> DEFINE g == [i \in 1..m+1 |-> IF i = 1 THEN seqs[i]
                                      ELSE IF i = m + 1 THEN f[m] \o seqs[m+1] ELSE f[i]]
    <2>2. ASSUME NEW i \in 1..m+1
          PROVE  g[i] = IF i = 1 THEN seqs[i] ELSE g[i-1] \o seqs[i]
      <3>1. CASE i = 1
        BY <3>1
      <3>2. CASE i # 1
        <4>1. i - 1 \in 1..m
          BY <3>2
        <4>2. g[i-1] = f[i-1]
          BY <4>1, <2>1 DEF Flattens
        <4>3. g[i] = f[i-1] \o seqs[i]
          <5>1. CASE i = m + 1
            <6>1. i - 1 = m
              BY <5>1
            <6> QED  BY <3>2, <5>1, <6>1
          <5>2. CASE i # m + 1
            <6>1. i \in 1..m /\ g[i] = f[i]
              BY <3>2, <5>2
            <6> QED  BY <2>1, <3>2, <6>1 DEF Flattens
          <5> QED  BY <5>1, <5>2
        <4> HIDE DEF g
        <4> QED  BY <3>2, <4>2, <4>3
      <3> QED  BY <3>1, <3>2
    <2>3. Flattens(g, seqs, m+1)
      <3>1. g = [i \in 1..m+1 |-> g[i]]
        OBVIOUS
      <3> HIDE DEF g
      <3> QED  BY <2>2, <3>1 DEF Flattens
    <2> HIDE DEF g
    <2> QED  BY <2>3
  <1>3. n \in G
    <2> HIDE DEF G
    <2> QED  BY <1>1, <1>2, InductionUpTo
  <1> QED  BY <1>3

LEMMA FlattenType ==
    ASSUME NEW E, NEW seqs \in Seq(Seq(E))
    PROVE  FlattenSeq(seqs) \in Seq(E)
  <1> DEFINE n == Len(seqs)
             f == CHOOSE g : Flattens(g, seqs, n)
  <1>0. n \in Nat /\ \A i \in 1..n : seqs[i] \in Seq(E)
    OBVIOUS
  <1>1. Flattens(f, seqs, n)
    BY <1>0, FlatExists
  <1>2. n # 0 => FlattenSeq(seqs) = f[n]
    BY Zenon DEF FlattenSeq, Flattens
  <1>3. n = 0 => FlattenSeq(seqs) = <<>>
    <2>1. n = 0 => seqs = <<>>
      OBVIOUS
    <2> QED  BY <2>1 DEF FlattenSeq
  <1> HIDE DEF f, n
  <1> DEFINE G == {m \in 0..n : m = 0 \/ f[m] \in Seq(E)}
  <1>4. ASSUME NEW m \in 0..n-1, m \in G PROVE m + 1 \in G
    <2>1. m + 1 \in 1..n /\ f[m+1] = IF m + 1 = 1 THEN seqs[m+1] ELSE f[m] \o seqs[m+1]
      <3>1. m + 1 \in 1..n /\ m + 1 - 1 = m
        BY <1>0
      <3> DEFINE j == m + 1
      <3>2. j \in 1..n /\ j - 1 = m
        BY <3>1
      <3> HIDE DEF j
      <3>3. f[j] = IF j = 1 THEN seqs[j] ELSE f[j-1] \o seqs[j]
        BY <1>1, <3>2 DEF Flattens
      <3> QED  BY <3>1, <3>2, <3>3 DEF j
    <2>2. CASE m = 0
      BY <1>0, <2>1, <2>2
    <2>3. CASE m # 0
      <3>1. f[m] \in Seq(E) /\ seqs[m+1] \in Seq(E)
        BY <1>0, <1>4, <2>1, <2>3
      <3>2. f[m] \o seqs[m+1] \in Seq(E)
        BY <3>1
      <3>3. m + 1 # 1 /\ m + 1 \in 0..n
        BY <1>0, <2>3
      <3>4. f[m+1] = f[m] \o seqs[m+1]
        BY <2>1, <3>3
      <3> QED  BY <3>2, <3>3, <3>4
    <2> QED  BY <2>2, <2>3
  <1>5. n \in G
    <2>1. 0 \in G
      BY <1>0
    <2> HIDE DEF G
    <2> QED  BY <1>0, <1>4, <2>1, InductionUpTo
  <1>6. CASE n = 0
    BY <1>3, <1>6
  <1>7. CASE n # 0
    BY <1>2, <1>5, <1>7
  <1> QED  BY <1>6, <1>7

LEMMA SeqOfSome ==
    ASSUME NEW S, NEW E, NEW s \in Seq(S), \A j \in 1..Len(s) : s[j] \in E
    PROVE  s \in Seq(E)
  <1>1. Len(s) \in Nat /\ s = [j \in 1..Len(s) |-> s[j]]
    OBVIOUS
  <1>2. [j \in 1..Len(s) |-> s[j]] \in Seq(E)
    BY <1>1
  <1> QED  BY <1>1, <1>2

(* What `grimoire run` makes of its environment: for every name, the value   *)
(* it has, or else the first reference for it.                               *)
LEMMA FirstManifestWins ==
    ASSUME NEW N, NEW e, e = [v \in N |-> e[v]], NEW manifests \in Seq(Seq(Entries)),
           \A i \in DOMAIN manifests : ManifestParses(manifests[i], N)
    PROVE  LET applied == ApplyManifests(e, manifests)
               entries == FlattenSeq(manifests)
           IN  /\ applied = [v \in N |-> applied[v]]
               /\ DOMAIN entries = 1..Len(entries)
               /\ \A v \in N : FirstWins(e, entries, v, Len(entries), applied[v])
  <1> DEFINE Named == {entry \in Entries : entry.key \in N}
  <1>1. manifests \in Seq(Seq(Named))
    <2>1. ASSUME NEW i \in 1..Len(manifests)
          PROVE  manifests[i] \in Seq(Named)
      <3>1. manifests[i] \in Seq(Entries)
        BY ElementOfSeq
      <3>2. \A j \in 1..Len(manifests[i]) : manifests[i][j] \in Named
        BY <3>1, ElementOfSeq DEF ManifestParses
      <3> HIDE DEF Named
      <3> QED  BY <3>1, <3>2, SeqOfSome
    <2> HIDE DEF Named
    <2> QED  BY <2>1, SeqOfSome
  <1>2. FlattenSeq(manifests) \in Seq(Named)
    <2> HIDE DEF Named
    <2> QED  BY <1>1, FlattenType
  <1>3. /\ FlattenSeq(manifests) \in Seq(Entries)
        /\ \A i \in DOMAIN FlattenSeq(manifests) : FlattenSeq(manifests)[i].key \in N
    BY <1>2
  <1>4. DOMAIN FlattenSeq(manifests) = 1..Len(FlattenSeq(manifests))
    BY <1>3
  <1> DEFINE entries == FlattenSeq(manifests)
             applied == FoldLeft(Apply, e, entries)
  <1>5. ApplyManifests(e, manifests) = applied
    BY DEF ApplyManifests
  <1>6. applied = [v \in N |-> applied[v]]
        /\ \A v \in N : FirstWins(e, entries, v, Len(entries), applied[v])
    <2> HIDE DEF entries
    <2> QED  BY <1>3, FirstEntryWins DEF entries
  <1> HIDE DEF applied
  <1> QED  BY <1>4, <1>5, <1>6
-----------------------------------------------------------------------------
(* The child of `grimoire run`.  While its command is in flight its          *)
(* environment is what the manifests made of it; of its references some are  *)
(* resolved and the others are not, all with the meaning they had in one     *)
(* version of the vault.                                                     *)
Applied(c) == ApplyManifests(job[c].env, job[c].manifests)

InFlight(c) == at[c] \notin {"idle", "failed", "silent"}

HalfResolved(c) ==
    /\ DOMAIN left[c] \cap DOMAIN got[c] = {}
    /\ DOMAIN left[c] \cup DOMAIN got[c] = Referring(env[c])
    /\ \E k \in DOMAIN Vaults :
          /\ \A v \in DOMAIN left[c] : left[c][v] = Meaning(Listing(Vaults[k]), env[c][v])
          /\ \A v \in DOMAIN got[c] :
                LET meant == Meaning(Listing(Vaults[k]), env[c][v])
                IN  \E j \in DOMAIN Vaults : got[c][v] = Field(Vaults[j], meant.item, meant.field)

\* The environment e is what the child of a command whose manifests made w
\* should get
Resolved(e, w) ==
    \E k \in DOMAIN Vaults : \A v \in Names :
        LET ref == IF w[v] = None THEN None ELSE ParseRef(w[v])
        IN  IF ref = None THEN e[v] = w[v]
            ELSE /\ e[v] # None
                 /\ \E j \in DOMAIN Vaults :
                        e[v] = Field(Vaults[j], TheItem(Listing(Vaults[k]), ref.id), ref.field)

ChildOf(c) ==
    /\ InFlight(c) => job[c] \in Jobs[c]
    /\ InFlight(c) /\ job[c].kind = "run" => Parses(job[c])
    /\ InFlight(c) /\ job[c].kind = "run" /\ at[c] # "exec" => env[c] = Applied(c)
    /\ at[c] = "resolving" => job[c].kind = "run" /\ HalfResolved(c)
    /\ at[c] # "resolving" => got[c] = <<>>
    /\ at[c] = "exec" => job[c].kind = "run" /\ Resolved(env[c], Applied(c))

ChildInv ==
    /\ left = [c \in Commands |-> left[c]]
    /\ got = [c \in Commands |-> got[c]]
    /\ env = [c \in Commands |-> env[c]]
    /\ \A c \in Commands : ChildOf(c)

LEMMA AppliedType ==
    ASSUME NEW c \in Commands, NEW j \in Jobs[c], j.kind = "run", Parses(j)
    PROVE  DOMAIN ApplyManifests(j.env, j.manifests) = Names
  <1> DEFINE e == j.env
             manifests == j.manifests
  <1>1. e = [v \in Names |-> e[v]] /\ manifests \in Seq(Seq(Entries))
    BY JobsAreTyped
  <1>2. \A i \in DOMAIN manifests : ManifestParses(manifests[i], Names)
    BY DEF Parses
  <1> HIDE DEF e, manifests
  <1>3. ApplyManifests(e, manifests) = [v \in Names |-> ApplyManifests(e, manifests)[v]]
    BY <1>1, <1>2, FirstManifestWins
  <1>4. DOMAIN [v \in Names |-> ApplyManifests(e, manifests)[v]] = Names
    OBVIOUS
  <1>5. DOMAIN ApplyManifests(e, manifests) = Names
    BY <1>3, <1>4
  <1> QED  BY <1>5 DEF e, manifests

LEMMA AppliedIsWanted ==
    ASSUME NEW c \in Commands, job[c] \in Jobs[c], job[c].kind = "run", Parses(job[c])
    PROVE  /\ Applied(c) = [v \in Names |-> Applied(c)[v]]
           /\ \A v \in Names : Applied(c)[v] \in Wanted(c, v)
  <1> DEFINE e == job[c].env
             manifests == job[c].manifests
             entries == FlattenSeq(manifests)
  <1>1. e = [v \in Names |-> e[v]] /\ manifests \in Seq(Seq(Entries))
    BY JobsAreTyped
  <1>2. \A i \in DOMAIN manifests : ManifestParses(manifests[i], Names)
    BY DEF Parses
  <1>3. /\ Applied(c) = [v \in Names |-> Applied(c)[v]]
        /\ DOMAIN entries = 1..Len(entries)
        /\ \A v \in Names : FirstWins(e, entries, v, Len(entries), Applied(c)[v])
    <2> HIDE DEF e, manifests
    <2>1. Applied(c) = ApplyManifests(e, manifests)
      BY DEF Applied, e, manifests
    <2> QED  BY <1>1, <1>2, <2>1, FirstManifestWins
  <1>4. ASSUME NEW v \in Names PROVE Applied(c)[v] \in Wanted(c, v)
    <2> DEFINE named == Naming(entries, v, Len(entries))
               value == Applied(c)[v]
    <2>1. /\ e[v] # None => value = e[v]
          /\ e[v] = None /\ named = {} => value = None
          /\ e[v] = None /\ named # {} =>
                \E i \in named : value = entries[i].reference /\ \A j \in named : i <= j
      BY <1>3 DEF FirstWins
    <2>2. named = {i \in DOMAIN entries : entries[i].key = v}
      BY <1>3 DEF Naming
    <2> DEFINE mentioned == {i \in DOMAIN entries : entries[i].key = v}
    <2>3. Wanted(c, v) = IF e[v] # None THEN {e[v]}
                         ELSE IF mentioned # {} THEN {entries[i].reference : i \in mentioned}
                         ELSE {None}
      BY DEF Wanted
    <2> HIDE DEF named, value, e, entries
    <2> QED  BY <2>1, <2>2, <2>3 DEF value
  <1> QED  BY <1>3, <1>4

LEMMA ChildInvImplies == ChildInv => ChildGetsItsSecrets
  <1> SUFFICES ASSUME ChildInv, NEW c \in Commands, at[c] = "exec"
               PROVE  \E k \in DOMAIN Vaults : \A v \in Names : \E wanted \in Wanted(c, v) :
                        LET ref == IF wanted = None THEN None ELSE ParseRef(wanted)
                        IN  IF ref = None THEN env[c][v] = wanted
                            ELSE /\ env[c][v] # None
                                 /\ \E j \in DOMAIN Vaults :
                                      env[c][v] = Field(Vaults[j], TheItem(Listing(Vaults[k]), ref.id),
                                                        ref.field)
    BY DEF ChildGetsItsSecrets
  <1>1. /\ job[c] \in Jobs[c] /\ job[c].kind = "run" /\ Parses(job[c])
        /\ Resolved(env[c], Applied(c))
    BY DEF ChildInv, ChildOf, InFlight
  <1>2. \A v \in Names : Applied(c)[v] \in Wanted(c, v)
    BY <1>1, AppliedIsWanted
  <1>3. PICK k \in DOMAIN Vaults : \A v \in Names :
          LET w == Applied(c)[v]
              ref == IF w = None THEN None ELSE ParseRef(w)
          IN  IF ref = None THEN env[c][v] = w
              ELSE /\ env[c][v] # None
                   /\ \E j \in DOMAIN Vaults :
                          env[c][v] = Field(Vaults[j], TheItem(Listing(Vaults[k]), ref.id),
                                            ref.field)
    BY <1>1 DEF Resolved
  <1> QED  BY <1>2, <1>3

LEMMA StartsChild == Init => ChildInv
  BY DEF Init, ChildInv, ChildOf, InFlight

\* A command whose job, references and environment a step leaves alone
LEMMA ChildUntouched ==
    ASSUME NEW c \in Commands, ChildOf(c), job'[c] = job[c],
           left'[c] = left[c], got'[c] = got[c], env'[c] = env[c],
           \/ at'[c] = at[c]
           \/ InFlight(c) /\ at[c] \notin {"resolving", "exec"} /\ at'[c] \notin {"resolving", "exec", "idle"}
    PROVE  ChildOf(c)'
  BY DEF ChildOf, InFlight, HalfResolved, Applied

LEMMA OthersUntouched ==
    ASSUME ChildInv, TypeInv, NEW c \in Commands, UNCHANGED <<job, left, got, env>>,
           NEW phase, Go(c, phase), InFlight(c), at[c] \notin {"resolving", "exec"},
           phase \notin {"resolving", "exec", "idle"}
    PROVE  ChildInv'
  <1>1. \A b \in Commands : at'[b] = IF b = c THEN phase ELSE at[b]
    BY DEF TypeInv, ControlType, Go
  <1> QED  BY <1>1, ChildUntouched DEF ChildInv

LEMMA StartKeepsChild ==
    ASSUME ChildInv, TypeInv, NEW c \in Commands, Start(c)
    PROVE  ChildInv'
  <1>1. PICK j \in Jobs[c] :
          LET applied == IF j.kind = "run" /\ Parses(j)
                         THEN ApplyManifests(j.env, j.manifests) ELSE env[c]
          IN  /\ Go(c, Asks(j, applied))
              /\ IF Asks(j, applied) \in {"failed", "silent"} THEN UNCHANGED <<job, env>>
                 ELSE job' = [job EXCEPT ![c] = j] /\ env' = [env EXCEPT ![c] = applied]
    BY DEF Start
  <1> DEFINE applied == IF j.kind = "run" /\ Parses(j)
                        THEN ApplyManifests(j.env, j.manifests) ELSE env[c]
             phase == Asks(j, applied)
  <1>2. at[c] = "idle" /\ UNCHANGED <<left, got>>
    BY DEF Start
  <1>3. \A b \in Commands : at'[b] = IF b = c THEN phase ELSE at[b]
    BY <1>1 DEF TypeInv, ControlType, Go
  <1>4. \A b \in Commands \ {c} : job'[b] = job[b] /\ env'[b] = env[b]
    BY <1>1 DEF TypeInv, ControlType, ChildInv
  <1>5. phase \in {"failed", "silent", "asking", "exec"} /\ got[c] = <<>>
    BY <1>2 DEF Asks, ChildInv, ChildOf
  <1>6. ChildOf(c)'
    <2>1. CASE phase \in {"failed", "silent"}
      BY <1>2, <1>3, <1>5, <2>1 DEF ChildOf, InFlight
    <2>2. CASE phase \in {"asking", "exec"}
      <3>1. job'[c] = j /\ env'[c] = applied
        BY <1>1, <2>2 DEF TypeInv, ControlType, ChildInv
      <3>2. j.kind = "run" => Parses(j) /\ env'[c] = Applied(c)'
        BY <2>2, <3>1 DEF Asks, Applied
      <3>3. CASE phase = "asking"
        BY <1>2, <1>3, <1>5, <3>1, <3>2, <3>3 DEF ChildOf, InFlight
      <3>4. CASE phase = "exec"
        <4>1. j.kind = "run" /\ Referring(applied) = {}
          BY <3>4 DEF Asks
        <4>2. DOMAIN applied = Names
          BY <3>2, <4>1, AppliedType
        <4>3. \A v \in Names : applied[v] = None \/ ParseRef(applied[v]) = None
          BY <4>1, <4>2 DEF Referring
        <4>4. Resolved(env[c], Applied(c))'
          BY <3>1, <3>2, <4>1, <4>3, ServerStartsEmpty DEF Resolved
        <4> QED  BY <1>2, <1>3, <1>5, <3>1, <3>2, <3>4, <4>1, <4>4 DEF ChildOf, InFlight
      <3> QED  BY <2>2, <3>3, <3>4
    <2> QED  BY <1>5, <2>1, <2>2
  <1>7. \A b \in Commands \ {c} : ChildOf(b)'
    BY <1>2, <1>3, <1>4, ChildUntouched DEF ChildInv
  <1> QED  BY <1>1, <1>2, <1>6, <1>7 DEF ChildInv

\* The references of the command that is resolving them
LEMMA ResolvingKeepsChild ==
    ASSUME ChildInv, TypeInv, NEW c \in Commands, BeginResolve(c) \/ Resolve(c) \/ Reply(c)
    PROVE  ChildInv'
  <1>1. /\ UNCHANGED job /\ job[c] \in Jobs[c]
        /\ job[c].kind = "run" /\ Parses(job[c]) /\ env[c] = Applied(c)
    BY DEF BeginResolve, Resolve, Reply, ChildInv, ChildOf, InFlight
  <1>2. /\ left' = [b \in Commands |-> left'[b]] /\ got' = [b \in Commands |-> got'[b]]
        /\ env' = [b \in Commands |-> env'[b]]
    BY DEF BeginResolve, Resolve, Reply, ChildInv
  <1>3. \A b \in Commands \ {c} :
          at'[b] = at[b] /\ left'[b] = left[b] /\ got'[b] = got[b] /\ env'[b] = env[b]
    BY DEF BeginResolve, Resolve, Reply, ChildInv, TypeInv, ControlType, Go
  <1>4. \A b \in Commands \ {c} : ChildOf(b)'
    BY <1>1, <1>3, ChildUntouched DEF ChildInv
  <1>5. /\ at'[c] = "resolving" /\ HalfResolved(c)' /\ env'[c] = env[c] => ChildOf(c)'
        /\ at'[c] = "failed" /\ got'[c] = <<>> => ChildOf(c)'
        /\ at'[c] = "exec" /\ got'[c] = <<>> /\ Resolved(env'[c], Applied(c)) => ChildOf(c)'
    <2>1. Applied(c)' = Applied(c)
      BY <1>1 DEF Applied
    <2>2. Resolved(env'[c], Applied(c)) = Resolved(env[c], Applied(c))'
      BY <2>1 DEF Resolved
    <2> QED  BY <1>1, <2>1, <2>2 DEF ChildOf, InFlight
  <1>6. ASSUME BeginResolve(c) PROVE ChildOf(c)'
    <2>1. at'[c] = "resolving" /\ env'[c] = env[c] /\ got'[c] = <<>>
      BY <1>6 DEF BeginResolve, Go, TypeInv, ControlType, ChildInv, ChildOf
    <2>2. left'[c] = [v \in Referring(env[c]) |-> Meaning(Listing(Held), env[c][v])]
      BY <1>6 DEF BeginResolve, ChildInv
    <2>3. Held = Vaults[content] /\ content \in DOMAIN Vaults
      BY DEF Held, TypeInv, ControlType
    <2>4. DOMAIN got'[c] = {}
      BY <2>1
    <2>5. HalfResolved(c)'
      BY <2>1, <2>2, <2>3, <2>4 DEF HalfResolved
    <2> QED  BY <1>5, <2>1, <2>5
  <1>7. ASSUME Resolve(c) PROVE ChildOf(c)'
    <2>1. PICK v \in DOMAIN left[c] :
            /\ LET value == Field(Held, left[c][v].item, left[c][v].field)
               IN  got' = [got EXCEPT ![c] = [u \in DOMAIN @ \cup {v} |-> IF u = v THEN value ELSE @[u]]]
            /\ left' = [left EXCEPT ![c] = [u \in DOMAIN @ \ {v} |-> @[u]]]
      BY <1>7 DEF Resolve
    <2> DEFINE value == Field(Held, left[c][v].item, left[c][v].field)
    <2>2. at'[c] = "resolving" /\ at[c] = "resolving" /\ env'[c] = env[c]
      BY <1>7 DEF Resolve
    <2>3. HalfResolved(c)
      BY <2>2 DEF ChildInv, ChildOf
    <2>4. left'[c] = [u \in DOMAIN left[c] \ {v} |-> left[c][u]]
      BY <2>1 DEF ChildInv
    <2>5. got'[c] = [u \in DOMAIN got[c] \cup {v} |-> IF u = v THEN value ELSE got[c][u]]
      BY <2>1 DEF ChildInv
    <2>6. Held = Vaults[content] /\ content \in DOMAIN Vaults
      BY DEF Held, TypeInv, ControlType
    <2>7. PICK k \in DOMAIN Vaults :
            /\ \A u \in DOMAIN left[c] : left[c][u] = Meaning(Listing(Vaults[k]), env[c][u])
            /\ \A u \in DOMAIN got[c] :
                  LET meant == Meaning(Listing(Vaults[k]), env[c][u])
                  IN  \E j \in DOMAIN Vaults : got[c][u] = Field(Vaults[j], meant.item, meant.field)
      BY <2>3 DEF HalfResolved
    <2> HIDE DEF value
    <2>8. \A u \in DOMAIN left'[c] : left'[c][u] = Meaning(Listing(Vaults[k]), env'[c][u])
      BY <2>2, <2>4, <2>7
    <2>9. ASSUME NEW u \in DOMAIN got'[c]
          PROVE  LET meant == Meaning(Listing(Vaults[k]), env'[c][u])
                 IN  \E j \in DOMAIN Vaults : got'[c][u] = Field(Vaults[j], meant.item, meant.field)
      <3>1. CASE u # v
        BY <2>2, <2>5, <2>7, <3>1
      <3>2. CASE u = v
        <4>1. u = v /\ got'[c][u] = value
          BY <2>5, <3>2
        <4>2. value = Field(Vaults[content], left[c][v].item, left[c][v].field)
          BY <2>6 DEF value
        <4> QED  BY <2>2, <2>6, <2>7, <4>1, <4>2
      <3> QED  BY <3>1, <3>2
    <2>10. /\ DOMAIN left'[c] \cap DOMAIN got'[c] = {}
           /\ DOMAIN left'[c] \cup DOMAIN got'[c] = Referring(env'[c])
      BY <2>2, <2>3, <2>4, <2>5 DEF HalfResolved
    <2>11. HalfResolved(c)'
      BY <2>8, <2>9, <2>10 DEF HalfResolved
    <2> QED  BY <1>5, <2>2, <2>11
  <1>8. ASSUME Reply(c) PROVE ChildOf(c)'
    <2>1. at[c] = "resolving" /\ left[c] = <<>> /\ got'[c] = <<>>
      BY <1>8 DEF Reply, ChildInv
    <2>2. CASE Missing(c) # {}
      <3>1. at'[c] = "failed"
        BY <1>8, <2>2 DEF Reply, Go, TypeInv, ControlType
      <3> QED  BY <1>5, <2>1, <3>1
    <2>3. CASE Missing(c) = {}
      <3>1. at'[c] = "exec" /\ env'[c] = Replaced(c)
        BY <1>8, <2>3 DEF Reply, Go, TypeInv, ControlType, ChildInv
      <3>2. HalfResolved(c) /\ DOMAIN left[c] = {}
        BY <2>1 DEF ChildInv, ChildOf
      <3>3. DOMAIN got[c] = Referring(env[c]) /\ \A v \in DOMAIN got[c] : got[c][v] # None
        BY <2>3, <3>2 DEF HalfResolved, Missing
      <3>4. PICK k \in DOMAIN Vaults : \A v \in DOMAIN got[c] :
              LET meant == Meaning(Listing(Vaults[k]), env[c][v])
              IN  \E j \in DOMAIN Vaults : got[c][v] = Field(Vaults[j], meant.item, meant.field)
        BY <3>2 DEF HalfResolved
      <3>5. \A v \in Names : Replaced(c)[v] = IF v \in Referring(env[c]) THEN got[c][v] ELSE env[c][v]
        BY <2>3, <3>3 DEF Replaced
      <3>6. DOMAIN env[c] = Names
        BY <1>1, AppliedIsWanted
      <3>7. ASSUME NEW v \in Names
            PROVE  LET w == env[c][v]
                       ref == IF w = None THEN None ELSE ParseRef(w)
                   IN  IF ref = None THEN env'[c][v] = w
                       ELSE /\ env'[c][v] # None
                            /\ \E j \in DOMAIN Vaults :
                                 env'[c][v] = Field(Vaults[j], TheItem(Listing(Vaults[k]), ref.id),
                                                    ref.field)
        <4>1. CASE v \in Referring(env[c])
          <5>1. env[c][v] # None /\ ParseRef(env[c][v]) # None
            BY <4>1 DEF Referring
          <5>2. env'[c][v] = got[c][v] /\ got[c][v] # None
            BY <3>1, <3>3, <3>5, <4>1
          <5> DEFINE meant == Meaning(Listing(Vaults[k]), env[c][v])
          <5>3. PICK j \in DOMAIN Vaults : got[c][v] = Field(Vaults[j], meant.item, meant.field)
            BY <3>3, <3>4, <4>1
          <5>4. /\ meant.item = TheItem(Listing(Vaults[k]), ParseRef(env[c][v]).id)
                /\ meant.field = ParseRef(env[c][v]).field
            BY DEF Meaning
          <5> QED  BY <5>1, <5>2, <5>3, <5>4
        <4>2. CASE v \notin Referring(env[c])
          <5>1. env[c][v] = None \/ ParseRef(env[c][v]) = None
            BY <3>6, <4>2 DEF Referring
          <5> QED  BY <3>1, <3>5, <4>2, <5>1
        <4> QED  BY <4>1, <4>2
      <3>8. Resolved(env'[c], Applied(c))
        BY <1>1, <3>7 DEF Resolved
      <3> QED  BY <1>5, <2>1, <3>1, <3>8
    <2> QED  BY <2>2, <2>3
  <1> QED  BY <1>2, <1>4, <1>6, <1>7, <1>8 DEF ChildInv

LEMMA ServingKeepsChild ==
    ASSUME ChildInv, TypeInv, NEW c \in Commands,
           \/ Gate(c) \/ AfterBiometric(c) \/ AfterSecret(c) \/ AskPassword(c) \/ AfterPassword(c)
           \/ ServeClip(c) \/ ServeCredential(c)
    PROVE  ChildInv'
  <1>1. UNCHANGED <<job, left, got, env>>
    BY DEF Gate, AfterBiometric, AfterSecret, AskPassword, AfterPassword, ServeClip,
           ServeCredential, Moves, dataVars
  <1>2. InFlight(c) /\ at[c] \notin {"resolving", "exec"}
    BY DEF Gate, AfterBiometric, AfterSecret, AskPassword, AfterPassword, ServeClip,
           ServeCredential, InFlight
  <1>3. \E phase : Go(c, phase) /\ phase \notin {"resolving", "exec", "idle"}
    <2>1. Refused(c) \in {"locked out", "failed"}
      BY DEF Refused
    <2>2. CASE Gate(c) \/ AfterBiometric(c)
      <3>1. \E phase \in {"served", "biometric", "secret", Refused(c)} : Moves(c, phase)
        BY <2>2 DEF Gate, AfterBiometric
      <3> QED  BY <2>1, <3>1 DEF Moves
    <2>3. CASE AfterSecret(c)
      <3>1. \E phase \in {"served", "failed", Refused(c)} : Moves(c, phase)
        BY <2>3 DEF AfterSecret
      <3> QED  BY <2>1, <3>1 DEF Moves
    <2>4. CASE AskPassword(c) \/ AfterPassword(c)
      <3>1. \E phase \in {"password", "asking", "failed"} : Go(c, phase)
        BY <2>4 DEF AskPassword, AfterPassword, Moves
      <3> QED  BY <3>1
    <2>5. CASE ServeClip(c)
      <3>1. \E phase \in {"clipping", "failed", Refused(c)} : Go(c, phase)
        BY <2>5 DEF ServeClip
      <3> QED  BY <2>1, <3>1
    <2>6. CASE ServeCredential(c)
      <3>1. \E phase \in {"answered", "failed", "silent", "asking", Refused(c)} : Go(c, phase)
        BY <2>6 DEF ServeCredential
      <3> QED  BY <2>1, <3>1
    <2> QED  BY <2>2, <2>3, <2>4, <2>5, <2>6
  <1> QED  BY <1>1, <1>2, <1>3, OthersUntouched

LEMMA NextKeepsChild == ChildInv /\ TypeInv /\ [Next]_vars => ChildInv'
  <1> SUFFICES ASSUME ChildInv, TypeInv, [Next]_vars PROVE ChildInv'
    OBVIOUS
  <1>1. ASSUME UNCHANGED <<dataVars, at>> PROVE ChildInv'
    BY <1>1, ChildUntouched DEF ChildInv, dataVars
  <1>2. ASSUME NEW c \in Commands, Start(c) \/ Proceed(c) PROVE ChildInv'
    BY <1>2, StartKeepsChild, ServingKeepsChild, ResolvingKeepsChild DEF Proceed
  <1>3. ASSUME NEW c \in Commands,
               InPrompt(c) \/ OfUser(c) \/ OnClipboard(c) \/ ClipboardLost(c)
        PROVE  UNCHANGED <<dataVars, at>>
    BY <1>3 DEF InPrompt, OfUser, OnClipboard, ClipboardLost
  <1>4. CASE Lock \/ Sync \/ Pasted \/ UNCHANGED vars
    BY <1>1, <1>4 DEF Lock, Sync, Pasted, vars
  <1> QED  BY <1>1, <1>2, <1>3, <1>4 DEF Next

(* The child of `grimoire run` gets all of its secrets, whatever manifests,  *)
(* environments and vaults there are, or it does not start.  handle_run,     *)
(* apply_manifest_entries, handle_resolve_refs.                              *)
THEOREM ChildIsComplete == Spec => []ChildGetsItsSecrets
  <1>1. Init => TypeInv /\ ChildInv
    BY StartsTyped, StartsChild
  <1>2. TypeInv /\ ChildInv /\ [Next]_vars => TypeInv' /\ ChildInv'
    BY NextKeepsTypes, NextKeepsChild
  <1> QED  BY <1>1, <1>2, ChildInvImplies, PTL DEF Spec

-----------------------------------------------------------------------------
(* Items that are added to a vault, by a sync say, never make a reference   *)
(* that meant an item mean another: it still means that item, or it has     *)
(* become ambiguous and is an error.  resolve_single_ref, and the two       *)
(* listings of a run that syncs in between.                                 *)
THEOREM AddedItemsNeverRedirect ==
    ASSUME NEW small, NEW big, NEW id,
           DOMAIN small \subseteq DOMAIN big,
           \A i \in DOMAIN small : big[i] = small[i],
           TheItem(small, id) # None
    PROVE  TheItem(big, id) \in {TheItem(small, id), None}
  <1>1. PICK i \in Meant(small, id) : Meant(small, id) = {i}
    BY DEF TheItem
  <1>2. TheItem(small, id) = i
    BY <1>1 DEF TheItem
  <1>3. Meant(small, id) \subseteq Meant(big, id)
    BY DEF Meant
  <1>4. ASSUME TheItem(big, id) # None
        PROVE  TheItem(big, id) = i
    <2>1. PICK j \in Meant(big, id) : Meant(big, id) = {j}
      BY <1>4 DEF TheItem
    <2> QED  BY <1>1, <1>3, <2>1 DEF TheItem
  <1> QED  BY <1>2, <1>4

-----------------------------------------------------------------------------
(* Which item answers git is a matter of addresses and never of how they are *)
(* written, for all hosts, paths and styles that AddressesAreWords admits.   *)
(* parse_uri, normalize_path, match_vault_items.                             *)
THEOREM AddressesDecide == Spec => []MatchesByAddress
  <1>1. MatchesByAddress
    BY AddressesRank, AddressesChoose DEF MatchesByAddress
  <1> QED  BY <1>1, PTL
=============================================================================
