------------------------ MODULE VaultRefinementProofs ------------------------
(* The service implements the sequential machine VaultMachine, for any      *)
(* clients, scopes, PINs and bounds.                                        *)
EXTENDS VaultServiceProofs

wrong == IF session = NoSession THEN 0 ELSE session.pin_attempts
disclosures == {c \in Clients : reply[c] = "secret"}

\* While a request is served its client has no answer yet.
ReplyInv == \A c \in Clients : pc[c] # "idle" => reply[c] # "secret"

LEMMA MachineDefs ==
    /\ Machine!Forget <=>
          /\ proved' \subseteq proved /\ disclosures' \subseteq disclosures
          /\ UNCHANGED <<vault_state, wrong>>
    /\ \A s : Machine!Leave(s) <=>
          /\ vault_state' = s /\ wrong' = 0
          /\ proved' \subseteq proved /\ disclosures' \subseteq disclosures
  BY DEF Machine!Forget, Machine!Leave, wrong, disclosures

-----------------------------------------------------------------------------
(* Answers and disclosures *)

LEMMA ReplyInvariant == Spec => []ReplyInv
<1>1. Init => ReplyInv
  BY DEF Init, ReplyInv
<1>2. Parts /\ ReplyInv /\ [Next]_vars => ReplyInv'
  <2> SUFFICES ASSUME Parts, ReplyInv, [Next]_vars, NEW c \in Clients,
                      pc'[c] # "idle", reply'[c] = "secret"
               PROVE  FALSE
    BY DEF ReplyInv
  <2> USE DEF Parts, TaskTypeOK
  <2>1. CASE reply[c] = "secret"
    <3>1. pc[c] = "idle"
      BY <2>1 DEF ReplyInv
    <3>2. ASSUME NEW d \in Clients, Serve(d)
          PROVE  FALSE
      <4>1. d # c
        BY <3>1, <3>2
        DEF Serve, ApprovalStep, Touch, Gate, Check, BeginApproval,
            BiometricAccepted, BiometricUnavailable, ChoosePrompt,
            PinAnswered, ApprovalPasswordAccepted, PromptFailed, Grant,
            Handle, SyncStore, PasswordStep, SshBegin, CheckBackoff,
            UnlockAccepted, UnlockFailed, AuthorizeUnlockFailed,
            LoginAccepted, LoginFailed, Authorize, AuthorizeState,
            AuthorizeUnlocked, AuthorizeVerified, AuthorizeRefused,
            AuthorizeReset, AuthorizeRecord, StateStep, HandleLock,
            HandleLogout, HandleSetPin
      <4>2. \E l \in Labels : pc' = [pc EXCEPT ![d] = l]
        BY <3>2
        DEF Serve, ApprovalStep, Touch, Gate, Check, BeginApproval,
            BiometricAccepted, BiometricUnavailable, ChoosePrompt,
            PinAnswered, ApprovalPasswordAccepted, PromptFailed, Grant,
            Handle, SyncStore, PasswordStep, SshBegin, CheckBackoff,
            UnlockAccepted, UnlockFailed, UnlockRefused,
            AuthorizeUnlockFailed, LoginAccepted, LoginFailed, Authorize,
            AuthorizeState, AuthorizeUnlocked, AuthorizeVerified,
            AuthorizeRefused, AuthorizeReset, AuthorizeRecord, StateStep,
            HandleLock, HandleLogout, HandleSetPin, Goto, Answer, AnswerTo,
            Labels
      <4> QED
        BY <3>1, <4>1, <4>2
    <3>3. CASE \E d \in Clients, m \in Methods : Receive(d, m)
      BY <3>1, <3>3 DEF Receive
    <3>4. CASE \/ WorkerStep \/ Tick \/ Restart \/ UNCHANGED vars
               \/ \E d \in Mortal : Exit(d)
      BY <3>1, <3>4
      DEF WorkerStep, AutoLockCheck, AutoLockRelock, SyncRead, SyncDone,
          SyncRevoked, SyncGoto, Tick, Restart, vars, taskVars, Exit
    <3> QED
      BY <3>2, <3>3, <3>4 DEF Next
  <2>2. CASE reply[c] # "secret"
    <3>1. Handle(c)
      BY <2>2, OnlyHandleDiscloses
    <3> QED
      BY <2>2, <3>1 DEF Handle, Goto, Answer, AnswerTo
  <2> QED
    BY <2>1, <2>2
<1> QED
  BY <1>1, <1>2, InductiveInvariant, PTL DEF Spec

-----------------------------------------------------------------------------
(* Steps.  Each kind of step is one step of the machine; what an answer     *)
(* does to disclosures follows from ReplyInv.                               *)

LEMMA SameDisclosures ==
    ASSUME TaskTypeOK, ReplyInv, NEW c \in Clients, pc[c] # "idle",
           \/ UNCHANGED reply
           \/ reply' = [reply EXCEPT ![c] = "done"]
    PROVE  disclosures' = disclosures
  BY DEF TaskTypeOK, ReplyInv, disclosures

LEMMA ForgetStep ==
    ASSUME UNCHANGED <<vault_state, session>>, proved' \subseteq proved,
           disclosures' \subseteq disclosures
    PROVE  Machine!MachineNext
  BY MachineDefs DEF Machine!MachineNext, wrong

LEMMA ProofStep ==
    ASSUME NEW c \in Clients, Prove(c), UNCHANGED vault_state,
           wrong' \in {wrong, 0}, disclosures' = disclosures
    PROVE  Machine!MachineNext
  BY SubjectType
  DEF Machine!MachineNext, Machine!ProveIdentity, Prove, wrong, disclosures

LEMMA LockStep ==
    ASSUME TryLock, ForgetIfLocked, disclosures' \subseteq disclosures
    PROVE  Machine!MachineNext
<1>1. proved' \subseteq proved
  BY DEF ForgetIfLocked
<1>2. CASE lock
  <2>1. Machine!Lock
    BY <1>1, <1>2, MachineDefs DEF lock, Machine!Lock, wrong
  <2> QED
    BY <2>1 DEF Machine!MachineNext
<1>3. CASE UNCHANGED keyVars
  BY <1>1, <1>3, ForgetStep DEF keyVars
<1> QED
  BY <1>2, <1>3 DEF TryLock

LEMMA UnlockStep ==
    ASSUME KeyTypeOK, NEW c \in Clients, UnlockOk, Prove(c),
           disclosures' = disclosures
    PROVE  Machine!MachineNext
<1>1. wrong' = 0
  BY DEF UnlockOk, NewSession, wrong
<1>2. Machine!Unlock(Subject(c))
  BY <1>1 DEF Machine!Unlock, UnlockOk, Prove, wrong, disclosures
<1> QED
  BY <1>2, SubjectType DEF Machine!MachineNext

LEMMA PinRefusedStep ==
    ASSUME KeyTypeOK, KeyInv, NEW p \in Pins, PinRefused(p), ForgetIfLocked,
           disclosures' = disclosures
    PROVE  Machine!MachineNext
<1> DEFINE s == [session EXCEPT !.pin_attempts = @ + 1]
<1>1. CASE session = NoSession
  BY <1>1, ForgetStep DEF PinRefused, keyVars, ForgetIfLocked
<1>2. CASE session # NoSession /\ Exhausted(s)
  BY <1>2, LockStep DEF PinRefused
<1>3. CASE session # NoSession /\ ~Exhausted(s)
  <2>1. session \in Session /\ session' = s /\ UNCHANGED vault_state
    BY <1>3 DEF PinRefused, KeyTypeOK
  <2>2. s # NoSession
    BY <2>1, ConstantsAssumption DEF Session
  <2>3. wrong' = wrong + 1 /\ wrong + 1 < PIN_MAX_ATTEMPTS
    BY <1>3, <2>1, <2>2, ConstantsAssumption DEF wrong, Session, Exhausted
  <2>4. vault_state = "Unlocked" /\ proved' = proved
    BY <1>3, <2>1 DEF KeyInv, KeysOnlyWhileUnlocked, ForgetIfLocked
  <2>5. Machine!WrongPin
    BY <2>1, <2>3, <2>4 DEF Machine!WrongPin, wrong, disclosures
  <2> QED
    BY <2>5 DEF Machine!MachineNext
<1> QED
  BY <1>1, <1>2, <1>3

LEMMA ApprovalStepRefines ==
    ASSUME Parts, KeyInv, ProofInv, ReplyInv, NEW c \in Clients,
           ApprovalStep(c)
    PROVE  Machine!MachineNext
<1> USE DEF Parts
<1>1. CASE \/ Touch(c) \/ Gate(c) \/ Check(c) \/ BiometricUnavailable(c)
           \/ ChoosePrompt(c) \/ PromptFailed(c) \/ Grant(c) \/ SyncStore(c)
  <2> USE DEF Touch, Gate, Check, BiometricUnavailable, ChoosePrompt,
              PromptFailed, Grant, SyncStore
  <2>1. disclosures' = disclosures
    BY <1>1, SameDisclosures DEF Goto, Answer, AnswerTo
  <2> QED
    BY <1>1, <2>1, ForgetStep DEF stateVars, keyVars
<1>2. CASE BeginApproval(c)
  <2>1. disclosures' = disclosures
    BY <1>2, SameDisclosures DEF BeginApproval, Goto, Answer, AnswerTo
  <2> QED
    BY <1>2, <2>1, LockStep, ForgetStep
    DEF BeginApproval, keyVars, ForgetIfLocked
<1>3. CASE BiometricAccepted(c) \/ ApprovalPasswordAccepted(c)
  <2>1. disclosures' = disclosures
    BY <1>3, SameDisclosures
    DEF BiometricAccepted, ApprovalPasswordAccepted, Goto
  <2> QED
    BY <1>3, <2>1, ProofStep
    DEF BiometricAccepted, ApprovalPasswordAccepted, stateVars, keyVars, wrong
<1>4. CASE \E p \in Pins : PinAnswered(c, p)
  <2> PICK p \in Pins : PinAnswered(c, p)
    BY <1>4
  <2>1. disclosures' = disclosures
    BY SameDisclosures DEF PinAnswered, Goto, Answer, AnswerTo
  <2>2. CASE PinAccepted(p) /\ Prove(c)
    <3>1. wrong' \in {wrong, 0}
      BY <2>2
      DEF PinAccepted, PinMatches, pin_set, KeyTypeOK, Session, wrong
    <3> QED
      BY <2>1, <2>2, <3>1, ProofStep DEF PinAccepted
  <2>3. CASE PinRefused(p) /\ ForgetIfLocked
    BY <2>1, <2>3, PinRefusedStep
  <2> QED
    BY <2>2, <2>3 DEF PinAnswered
<1>5. CASE Handle(c)
  <2>1. CASE Answer(c, "secret")
    <3>1. vault_state = "Unlocked" /\ Subject(c) \in proved
      BY <1>5, <2>1
      DEF Handle, KeyInv, KeysOnlyWhileUnlocked, ProofInv, PassedAreProved,
          InHand, Answer, AnswerTo, Goto, TaskTypeOK
    <3>2. disclosures' = disclosures \cup {c}
      BY <2>1 DEF Answer, AnswerTo, disclosures, TaskTypeOK
    <3>3. Machine!Disclose(c)
      BY <1>5, <3>1, <3>2
      DEF Machine!Disclose, Handle, stateVars, keyVars, wrong, disclosures
    <3> QED
      BY <3>3 DEF Machine!MachineNext
  <2>2. CASE ~Answer(c, "secret")
    <3>1. disclosures' = disclosures
      BY <1>5, <2>2, SameDisclosures DEF Handle, Goto, Answer, AnswerTo
    <3> QED
      BY <1>5, <3>1, ForgetStep DEF Handle, stateVars, keyVars
  <2> QED
    BY <2>1, <2>2
<1> QED
  BY <1>1, <1>2, <1>3, <1>4, <1>5 DEF ApprovalStep

LEMMA PasswordStepRefines ==
    ASSUME Parts, ReplyInv, NEW c \in Clients, PasswordStep(c)
    PROVE  Machine!MachineNext
<1> USE DEF Parts
<1>1. disclosures' = disclosures
  BY SameDisclosures
  DEF PasswordStep, SshBegin, CheckBackoff, UnlockAccepted, UnlockFailed,
      AuthorizeUnlockFailed, UnlockRefused, LoginAccepted, LoginFailed,
      Authorize, AuthorizeState, AuthorizeUnlocked, AuthorizeVerified,
      AuthorizeRefused, AuthorizeReset, AuthorizeRecord, Goto, Answer, AnswerTo
<1>2. CASE \/ SshBegin(c) \/ CheckBackoff(c) \/ LoginFailed(c) \/ Authorize(c)
           \/ AuthorizeState(c) \/ AuthorizeRefused(c) \/ AuthorizeReset(c)
           \/ AuthorizeRecord(c)
           \/ \E right \in BOOLEAN :
                 UnlockFailed(c, right) \/ AuthorizeUnlockFailed(c, right)
  BY <1>1, <1>2, ForgetStep
  DEF SshBegin, CheckBackoff, LoginFailed, Authorize, AuthorizeState,
      AuthorizeRefused, AuthorizeReset, AuthorizeRecord, UnlockFailed,
      AuthorizeUnlockFailed, UnlockRefused, UnlockErr, stateVars, keyVars
<1>3. CASE UnlockAccepted(c) \/ AuthorizeUnlocked(c)
  BY <1>1, <1>3, UnlockStep DEF UnlockAccepted, AuthorizeUnlocked
<1>4. CASE LoginAccepted(c)
  <2>1. Machine!Login
    BY <1>1, <1>4
    DEF LoginAccepted, LoginOk, Machine!Login, wrong, disclosures
  <2> QED
    BY <2>1 DEF Machine!MachineNext
<1>5. CASE AuthorizeVerified(c)
  BY <1>1, <1>5, ProofStep DEF AuthorizeVerified, wrong
<1> QED
  BY <1>2, <1>3, <1>4, <1>5 DEF PasswordStep

LEMMA StateStepRefines ==
    ASSUME Parts, KeyInv, ReplyInv, NEW c \in Clients, StateStep(c)
    PROVE  Machine!MachineNext
<1> USE DEF Parts
<1>1. disclosures' = disclosures
  BY SameDisclosures
  DEF StateStep, HandleLock, HandleLogout, HandleSetPin, Answer, AnswerTo
<1>2. CASE HandleLock(c)
  BY <1>1, <1>2, LockStep DEF HandleLock
<1>3. CASE HandleLogout(c)
  <2>1. Machine!Logout
    BY <1>1, <1>3, MachineDefs DEF HandleLogout, logout, Machine!Logout, wrong
  <2> QED
    BY <2>1 DEF Machine!MachineNext
<1>4. CASE \E p \in Pins : HandleSetPin(c, p)
  <2> PICK p \in Pins : HandleSetPin(c, p)
    BY <1>4
  <2>1. UNCHANGED vault_state /\ proved' = proved
    BY DEF HandleSetPin, set_pin, keyVars
  <2>2. wrong' = wrong
    <3>1. CASE session = NoSession
      BY <3>1 DEF HandleSetPin, set_pin, keyVars, wrong
    <3>2. CASE session # NoSession
      <4>1. session \in Session
        BY <3>2 DEF KeyTypeOK
      <4>2. [session EXCEPT !.pin = p] # NoSession
        BY <4>1, ConstantsAssumption DEF Session
      <4> QED
        BY <3>2, <4>1, <4>2 DEF HandleSetPin, set_pin, keyVars, wrong, Session
    <3> QED
      BY <3>1, <3>2
  <2> QED
    BY <1>1, <2>1, <2>2, MachineDefs DEF Machine!MachineNext
<1> QED
  BY <1>2, <1>3, <1>4 DEF StateStep

LEMMA StepRefines ==
    Parts /\ KeyInv /\ ProofInv /\ ReplyInv /\ [Next]_vars
        => [Machine!MachineNext]_(Machine!machineVars)
<1> SUFFICES ASSUME Parts, KeyInv, ProofInv, ReplyInv, Next
             PROVE  Machine!MachineNext
  BY DEF vars, taskVars, stateVars, keyVars, Machine!machineVars
<1>1. CASE \E c \in Clients : Serve(c)
  BY <1>1, ApprovalStepRefines, PasswordStepRefines, StateStepRefines DEF Serve
<1>2. CASE \/ \E c \in Clients, m \in Methods : Receive(c, m)
           \/ \E c \in Mortal : Exit(c)
           \/ Tick
  <2>1. disclosures' \subseteq disclosures
    BY <1>2
    DEF Receive, Exit, Tick, taskVars, disclosures, Parts, TaskTypeOK
  <2> QED
    BY <1>2, <2>1, ForgetStep
    DEF Receive, Exit, Tick, StateTick, stateVars, keyVars
<1>3. CASE WorkerStep
  <2>1. disclosures' = disclosures
    BY <1>3 DEF WorkerStep, AutoLockCheck, AutoLockRelock, SyncRead, SyncDone,
                SyncRevoked, SyncGoto, disclosures
  <2>2. \/ TryLock /\ ForgetIfLocked
        \/ UNCHANGED <<vault_state, session, proved>>
    BY <1>3 DEF WorkerStep, AutoLockCheck, AutoLockRelock, TryLock, SyncRead,
                SyncDone, SyncRevoked, stateVars, keyVars, ForgetIfLocked
  <2> QED
    BY <2>1, <2>2, LockStep, ForgetStep
<1>4. CASE Restart
  <2>1. proved' \subseteq proved /\ disclosures' \subseteq disclosures
        /\ wrong' = 0
    BY <1>4 DEF Restart, StateRestart, disclosures, wrong
  <2>2. Machine!Logout \/ Machine!RestartLocked
    BY <1>4, <2>1, MachineDefs
    DEF Restart, StateRestart, Machine!Logout, Machine!RestartLocked
  <2> QED
    BY <2>2 DEF Machine!MachineNext
<1> QED
  BY <1>1, <1>2, <1>3, <1>4 DEF Next

\* The interleaved service implements the sequential machine: every behaviour
\* of prompts, handlers, workers, lock acquisitions and restarts is, seen
\* through the refinement mapping, one of VaultMachine.
THEOREM Refinement == Spec => ImplementsMachine
<1>1. Init => Machine!MachineInit
  BY DEF Init, StateInit, Machine!MachineInit
<1>2. Spec => [][Machine!MachineNext]_(Machine!machineVars)
  BY StepRefines, InductiveInvariant, ReplyInvariant, PTL DEF Spec
<1> QED
  BY <1>1, <1>2, PTL DEF Spec, ImplementsMachine, Machine!MachineSpec
=============================================================================
