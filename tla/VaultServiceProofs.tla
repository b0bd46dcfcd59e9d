------------------------- MODULE VaultServiceProofs -------------------------
(* Theorems about VaultService and about the promise of Activity, for any   *)
(* clients, scopes, PINs and bounds.                                        *)
EXTENDS Activity, TLAPS

-----------------------------------------------------------------------------
(* Type correctness.  TypeOK falls into five parts; a method of the state   *)
(* or a helper of the tasks disturbs one or two of them, and the lemmas say *)
(* that it keeps those.                                                     *)

KeyTypeOK ==
    /\ vault_state \in {"LoggedOut", "Locked", "Unlocked"}
    /\ session \in Session \cup {NoSession}
    /\ sdk \in {"none", "blank", "keys"}
    /\ token \in BOOLEAN
    /\ last_sync \in BOOLEAN

GrantTypeOK == approval_cache \in [Scopes -> 0..ApprovalTicks]

TimerTypeOK ==
    /\ idle \in 0..AutoLockTicks
    /\ password_failures \in 0..MaxFailures
    /\ backoff \in Nat

TaskTypeOK ==
    /\ pc \in [Clients -> Labels]
    /\ request \in [Clients -> AllMethods \cup {"none"}]
    /\ reply \in [Clients -> {"none", "secret", "done"}]
    /\ gone \in SUBSET Clients
    /\ auto_lock \in {"sleep", "relock"}

SyncTypeOK == syncs \in [SyncTasks -> {"none", "start", "ok", "revoked"}]

ProofTypeOK == proved \in SUBSET (Scopes \cup Clients)

Parts == /\ KeyTypeOK /\ GrantTypeOK /\ TimerTypeOK
         /\ TaskTypeOK /\ SyncTypeOK /\ ProofTypeOK

LEMMA TypeParts == TypeOK <=> Parts
  BY DEF TypeOK, StateTypeOK, Parts, KeyTypeOK, GrantTypeOK, TimerTypeOK,
         TaskTypeOK, SyncTypeOK, ProofTypeOK

LEMMA SubjectType ==
    ASSUME NEW c \in Clients
    PROVE  Subject(c) \in Scopes \cup Clients
  BY ClientsAssumption DEF Subject, Identified

LEMMA ProveType ==
    ASSUME ProofTypeOK, NEW c \in Clients, Prove(c)
    PROVE  ProofTypeOK'
  BY SubjectType DEF ProofTypeOK, Prove

LEMMA ForgetType ==
    ASSUME ProofTypeOK, ForgetIfLocked
    PROVE  ProofTypeOK'
  BY DEF ProofTypeOK, ForgetIfLocked

LEMMA GotoType ==
    ASSUME TaskTypeOK, SyncTypeOK,
           NEW c \in Clients, NEW l \in Labels, Goto(c, l)
    PROVE  TaskTypeOK' /\ SyncTypeOK'
  BY DEF TaskTypeOK, SyncTypeOK, Goto

LEMMA AnswerToType ==
    ASSUME TaskTypeOK, NEW c \in Clients,
           NEW r \in {"none", "secret", "done"}, AnswerTo(c, r)
    PROVE  TaskTypeOK'
  BY DEF TaskTypeOK, AnswerTo, Labels

LEMMA AnswerType ==
    ASSUME TaskTypeOK, SyncTypeOK, NEW c \in Clients,
           NEW r \in {"none", "secret", "done"}, Answer(c, r)
    PROVE  TaskTypeOK' /\ SyncTypeOK'
  BY AnswerToType DEF SyncTypeOK, Answer

LEMMA SpawnSyncType ==
    ASSUME SyncTypeOK, SpawnSync
    PROVE  SyncTypeOK'
  BY DEF SyncTypeOK, SpawnSync

LEMMA LockType ==
    ASSUME KeyTypeOK, GrantTypeOK, TryLock
    PROVE  KeyTypeOK' /\ GrantTypeOK'
<1>1. CASE lock
  <2>1. GrantTypeOK'
    <3>1. 0 \in 0..ApprovalTicks
      BY ConstantsAssumption
    <3> QED
      BY <1>1, <3>1 DEF GrantTypeOK, lock, NoGrants
  <2>2. KeyTypeOK'
    BY <1>1 DEF KeyTypeOK, lock
  <2> QED
    BY <2>1, <2>2
<1>2. CASE UNCHANGED <<keyVars, approval_cache>>
  BY <1>2 DEF KeyTypeOK, GrantTypeOK, keyVars
<1> QED
  BY <1>1, <1>2 DEF TryLock

LEMMA GrantType ==
    ASSUME GrantTypeOK, NEW c \in Clients, GrantTo(c)
    PROVE  GrantTypeOK'
  BY ConstantsAssumption, ClientsAssumption
  DEF GrantTypeOK, GrantTo, grant, Identified

LEMMA UnlockType ==
    ASSUME KeyTypeOK, TimerTypeOK, UnlockOk, reset_password_attempts
    PROVE  KeyTypeOK' /\ TimerTypeOK'
<1>1. NewSession \in Session
  BY ConstantsAssumption DEF NewSession, Session
<1>2. KeyTypeOK'
  BY <1>1 DEF KeyTypeOK, UnlockOk
<1>3. TimerTypeOK'
  BY ConstantsAssumption
  DEF TimerTypeOK, UnlockOk, reset_password_attempts, touch
<1> QED
  BY <1>2, <1>3

LEMMA RecordType ==
    ASSUME TimerTypeOK, record_password_failure, UNCHANGED idle
    PROVE  TimerTypeOK'
  BY ConstantsAssumption DEF TimerTypeOK, record_password_failure

LEMMA RefusedType ==
    ASSUME Parts, NEW c \in Clients, NEW right \in BOOLEAN,
           UnlockRefused(c, right)
    PROVE  Parts'
<1>1. KeyTypeOK'
  BY DEF Parts, KeyTypeOK, UnlockRefused, UnlockErr
<1>2. TimerTypeOK'
  BY RecordType
  DEF Parts, TimerTypeOK, UnlockRefused, UnlockErr, backoffVars
<1>3. TaskTypeOK' /\ SyncTypeOK'
  BY AnswerType DEF Parts, UnlockRefused
<1> QED
  BY <1>1, <1>2, <1>3
  DEF Parts, GrantTypeOK, ProofTypeOK, UnlockRefused

LEMMA PinAcceptedType ==
    ASSUME KeyTypeOK, NEW p \in Pins, PinAccepted(p)
    PROVE  KeyTypeOK'
  BY ConstantsAssumption
  DEF KeyTypeOK, PinAccepted, PinMatches, pin_set, Session

LEMMA PinRefusedType ==
    ASSUME KeyTypeOK, GrantTypeOK, NEW p \in Pins, PinRefused(p)
    PROVE  KeyTypeOK' /\ GrantTypeOK'
<1>1. CASE session = NoSession
  BY <1>1 DEF PinRefused, KeyTypeOK, GrantTypeOK, keyVars
<1>2. CASE session # NoSession
  <2> DEFINE s == [session EXCEPT !.pin_attempts = @ + 1]
  <2>1. CASE Exhausted(s)
    BY <1>2, <2>1, LockType DEF PinRefused
  <2>2. CASE ~Exhausted(s)
    <3>1. session \in Session
      BY <1>2 DEF KeyTypeOK
    <3>2. s \in Session
      <4>1. s # NoSession
        BY <3>1, ConstantsAssumption DEF Session
      <4> QED
        BY <3>1, <4>1, <2>2, ConstantsAssumption DEF Session, Exhausted
    <3> QED
      BY <1>2, <2>2, <3>2 DEF PinRefused, KeyTypeOK, GrantTypeOK
  <2> QED
    BY <2>1, <2>2
<1> QED
  BY <1>1, <1>2

LEMMA ApprovalStepType ==
    ASSUME Parts, NEW c \in Clients, ApprovalStep(c)
    PROVE  Parts'
<1> USE DEF Parts
<1> DEFINE Rest == {"gate", "check", "handle", "approve", "biometric",
                    "has_pin", "pin", "password", "grant", "sync_store"}
<1>0. Rest \subseteq Labels
  BY DEF Labels
<1>1. CASE Touch(c)
  <2>1. TimerTypeOK'
    BY <1>1, ConstantsAssumption DEF Touch, touch, TimerTypeOK, backoffVars
  <2>2. TaskTypeOK' /\ SyncTypeOK'
    BY <1>0, <1>1, GotoType DEF Touch
  <2> QED
    BY <1>1, <2>1, <2>2
    DEF Touch, keyVars, KeyTypeOK, GrantTypeOK, ProofTypeOK
<1>2. CASE Gate(c) \/ Check(c) \/ BiometricUnavailable(c) \/ ChoosePrompt(c)
           \/ PromptFailed(c) \/ Handle(c)
  <2>1. TaskTypeOK' /\ SyncTypeOK'
    <3>1. (\E l \in Rest : Goto(c, l)) \/ \E r \in {"secret", "done"} : Answer(c, r)
      BY <1>2 DEF Gate, Check, BiometricUnavailable, ChoosePrompt,
                  PromptFailed, Handle
    <3> QED
      BY <1>0, <3>1, GotoType, AnswerType
  <2>2. UNCHANGED <<stateVars, proved>>
    BY <1>2 DEF Gate, Check, BiometricUnavailable, ChoosePrompt, PromptFailed,
                Handle
  <2> QED
    BY <2>1, <2>2 DEF stateVars, keyVars, backoffVars, KeyTypeOK, GrantTypeOK,
                      TimerTypeOK, ProofTypeOK
<1>3. CASE BeginApproval(c)
  <2>1. KeyTypeOK' /\ GrantTypeOK'
    BY <1>3, LockType DEF BeginApproval, keyVars, KeyTypeOK, GrantTypeOK
  <2>2. TaskTypeOK' /\ SyncTypeOK'
    BY <1>0, <1>3, GotoType, AnswerType DEF BeginApproval
  <2> QED
    BY <1>3, <2>1, <2>2, ForgetType DEF BeginApproval, backoffVars, TimerTypeOK
<1>4. CASE BiometricAccepted(c) \/ ApprovalPasswordAccepted(c)
  <2>1. TaskTypeOK' /\ SyncTypeOK'
    BY <1>0, <1>4, GotoType DEF BiometricAccepted, ApprovalPasswordAccepted
  <2>2. KeyTypeOK'
    BY <1>4 DEF BiometricAccepted, ApprovalPasswordAccepted, KeyTypeOK,
                stateVars, keyVars
  <2>3. GrantTypeOK' /\ TimerTypeOK'
    BY <1>4 DEF BiometricAccepted, ApprovalPasswordAccepted, stateVars,
                backoffVars, GrantTypeOK, TimerTypeOK
  <2> QED
    BY <1>4, <2>1, <2>2, <2>3, ProveType
    DEF BiometricAccepted, ApprovalPasswordAccepted
<1>5. CASE \E p \in Pins : PinAnswered(c, p)
  <2> PICK p \in Pins : PinAnswered(c, p)
    BY <1>5
  <2>1. CASE PinAccepted(p) /\ Prove(c) /\ Goto(c, "grant")
    <3>1. TaskTypeOK' /\ SyncTypeOK'
      BY <1>0, <2>1, GotoType
    <3> QED
      BY <2>1, <3>1, PinAcceptedType, ProveType
      DEF PinAnswered, PinAccepted, GrantTypeOK, TimerTypeOK, backoffVars
  <2>2. CASE PinRefused(p) /\ ForgetIfLocked /\ Answer(c, "done")
    <3>1. TaskTypeOK' /\ SyncTypeOK'
      BY <2>2, AnswerType
    <3> QED
      BY <2>2, <3>1, PinRefusedType, ForgetType
      DEF PinAnswered, TimerTypeOK, backoffVars
  <2> QED
    BY <2>1, <2>2 DEF PinAnswered
<1>6. CASE Grant(c)
  <2>1. TaskTypeOK' /\ SyncTypeOK'
    BY <1>0, <1>6, GotoType, AnswerType DEF Grant
  <2> QED
    BY <1>6, <2>1, GrantType
    DEF Grant, keyVars, backoffVars, KeyTypeOK, TimerTypeOK, ProofTypeOK
<1>7. CASE SyncStore(c)
  <2>1. TaskTypeOK' /\ SyncTypeOK'
    BY <1>7, AnswerType DEF SyncStore
  <2> QED
    BY <1>7, <2>1 DEF SyncStore, backoffVars, KeyTypeOK, GrantTypeOK,
                      TimerTypeOK, ProofTypeOK
<1> QED
  BY <1>1, <1>2, <1>3, <1>4, <1>5, <1>6, <1>7 DEF ApprovalStep

LEMMA PasswordStepType ==
    ASSUME Parts, NEW c \in Clients, PasswordStep(c)
    PROVE  Parts'
<1> USE DEF Parts
<1> DEFINE Rest == {"backoff", "check", "handle", "login", "unlock",
                    "authorize_state", "authorize_unlock", "verify", "reset",
                    "record", "grant"}
<1>0. Rest \subseteq Labels
  BY DEF Labels
<1>1. CASE SshBegin(c) \/ CheckBackoff(c) \/ Authorize(c) \/ AuthorizeState(c)
           \/ AuthorizeRefused(c)
  <2>1. TaskTypeOK' /\ SyncTypeOK'
    <3>1. (\E l \in Rest : Goto(c, l)) \/ Answer(c, "done")
      BY <1>1 DEF SshBegin, CheckBackoff, Authorize, AuthorizeState,
                  AuthorizeRefused
    <3> QED
      BY <1>0, <3>1, GotoType, AnswerType
  <2>2. UNCHANGED <<stateVars, proved>>
    BY <1>1 DEF SshBegin, CheckBackoff, Authorize, AuthorizeState,
                AuthorizeRefused
  <2> QED
    BY <2>1, <2>2 DEF stateVars, keyVars, backoffVars, KeyTypeOK, GrantTypeOK,
                      TimerTypeOK, ProofTypeOK
<1>2. CASE UnlockAccepted(c) \/ AuthorizeUnlocked(c)
  <2>1. KeyTypeOK' /\ TimerTypeOK'
    BY <1>2, UnlockType DEF UnlockAccepted, AuthorizeUnlocked
  <2>2. GrantTypeOK'
    BY <1>2, GrantType DEF UnlockAccepted, AuthorizeUnlocked, GrantTypeOK
  <2>3. TaskTypeOK'
    <3>1. AnswerTo(c, "done") \/
          \E l \in Rest : /\ pc' = [pc EXCEPT ![c] = l]
                          /\ UNCHANGED <<request, reply, gone, auto_lock>>
      BY <1>2 DEF UnlockAccepted, AuthorizeUnlocked
    <3> QED
      BY <1>0, <3>1, AnswerToType DEF TaskTypeOK
  <2> QED
    BY <1>2, <2>1, <2>2, <2>3, SpawnSyncType, ProveType
    DEF UnlockAccepted, AuthorizeUnlocked
<1>3. CASE \E right \in BOOLEAN :
              UnlockFailed(c, right) \/ AuthorizeUnlockFailed(c, right)
  BY <1>3, RefusedType DEF UnlockFailed, AuthorizeUnlockFailed
<1>4. CASE LoginAccepted(c)
  <2>1. TimerTypeOK'
    BY <1>4, ConstantsAssumption
    DEF LoginAccepted, LoginOk, touch, reset_password_attempts, TimerTypeOK
  <2>2. KeyTypeOK' /\ GrantTypeOK'
    BY <1>4 DEF LoginAccepted, LoginOk, KeyTypeOK, GrantTypeOK
  <2> QED
    BY <1>4, <2>1, <2>2, AnswerType DEF LoginAccepted, ProofTypeOK
<1>5. CASE LoginFailed(c) \/ AuthorizeRecord(c) \/ AuthorizeReset(c)
  <2>1. TimerTypeOK'
    BY <1>5, RecordType, ConstantsAssumption
    DEF LoginFailed, AuthorizeRecord, AuthorizeReset, reset_password_attempts,
        TimerTypeOK, backoffVars
  <2>2. TaskTypeOK' /\ SyncTypeOK'
    BY <1>0, <1>5, AnswerType, GotoType
    DEF LoginFailed, AuthorizeRecord, AuthorizeReset
  <2> QED
    BY <1>5, <2>1, <2>2
    DEF LoginFailed, AuthorizeRecord, AuthorizeReset, keyVars, KeyTypeOK,
        GrantTypeOK, ProofTypeOK
<1>6. CASE AuthorizeVerified(c)
  <2>1. TaskTypeOK' /\ SyncTypeOK'
    BY <1>0, <1>6, GotoType DEF AuthorizeVerified
  <2> QED
    BY <1>6, <2>1, ProveType
    DEF AuthorizeVerified, backoffVars, KeyTypeOK, GrantTypeOK, TimerTypeOK
<1> QED
  BY <1>1, <1>2, <1>3, <1>4, <1>5, <1>6 DEF PasswordStep

LEMMA StateStepType ==
    ASSUME Parts, NEW c \in Clients, StateStep(c)
    PROVE  Parts'
<1> USE DEF Parts
<1>1. CASE HandleLock(c)
  BY <1>1, LockType, ForgetType, AnswerType
  DEF HandleLock, backoffVars, TimerTypeOK
<1>2. CASE HandleLogout(c)
  <2>1. KeyTypeOK'
    BY <1>2 DEF HandleLogout, logout, KeyTypeOK
  <2>2. GrantTypeOK'
    BY <1>2, ConstantsAssumption DEF HandleLogout, logout, NoGrants, GrantTypeOK
  <2>3. ProofTypeOK'
    BY <1>2 DEF HandleLogout, ProofTypeOK
  <2> QED
    BY <1>2, <2>1, <2>2, <2>3, AnswerType
    DEF HandleLogout, backoffVars, TimerTypeOK
<1>3. CASE \E p \in Pins : HandleSetPin(c, p)
  <2> PICK p \in Pins : HandleSetPin(c, p)
    BY <1>3
  <2>1. session' \in Session \cup {NoSession}
    BY DEF HandleSetPin, set_pin, keyVars, KeyTypeOK, Session
  <2>2. KeyTypeOK'
    BY <2>1 DEF HandleSetPin, set_pin, keyVars, KeyTypeOK
  <2> QED
    BY <2>2, AnswerType
    DEF HandleSetPin, backoffVars, GrantTypeOK, TimerTypeOK, ProofTypeOK
<1> QED
  BY <1>1, <1>2, <1>3 DEF StateStep

LEMMA WorkerStepType ==
    ASSUME Parts, WorkerStep
    PROVE  Parts'
<1> USE DEF Parts
<1>1. CASE AutoLockCheck
  BY <1>1 DEF AutoLockCheck, stateVars, keyVars, backoffVars, KeyTypeOK,
              GrantTypeOK, TimerTypeOK, TaskTypeOK, SyncTypeOK, ProofTypeOK
<1>2. CASE AutoLockRelock
  <2>1. TryLock \/ UNCHANGED <<keyVars, approval_cache>>
    BY <1>2 DEF AutoLockRelock, TryLock
  <2>2. KeyTypeOK' /\ GrantTypeOK'
    BY <2>1, LockType DEF keyVars, KeyTypeOK, GrantTypeOK
  <2>3. TaskTypeOK' /\ SyncTypeOK' /\ TimerTypeOK'
    BY <1>2 DEF AutoLockRelock, TaskTypeOK, SyncTypeOK, TimerTypeOK, backoffVars
  <2> QED
    BY <1>2, <2>2, <2>3, ForgetType DEF AutoLockRelock
<1>3. ASSUME NEW t \in SyncTasks, SyncRead(t) \/ SyncDone(t) \/ SyncRevoked(t)
      PROVE  Parts'
  <2>1. \E l \in {"none", "ok", "revoked"} : SyncGoto(t, l)
    BY <1>3 DEF SyncRead, SyncDone, SyncRevoked
  <2>2. TaskTypeOK' /\ SyncTypeOK'
    BY <2>1 DEF SyncGoto, TaskTypeOK, SyncTypeOK
  <2>3. CASE SyncRead(t)
    BY <2>2, <2>3 DEF SyncRead, stateVars, keyVars, backoffVars, KeyTypeOK,
                      GrantTypeOK, TimerTypeOK, ProofTypeOK
  <2>4. CASE SyncDone(t)
    BY <2>2, <2>4 DEF SyncDone, backoffVars, KeyTypeOK, GrantTypeOK,
                      TimerTypeOK, ProofTypeOK
  <2>5. CASE SyncRevoked(t)
    BY <2>2, <2>5, LockType, ForgetType
    DEF SyncRevoked, backoffVars, TimerTypeOK
  <2> QED
    BY <1>3, <2>3, <2>4, <2>5
<1> QED
  BY <1>1, <1>2, <1>3 DEF WorkerStep

LEMMA TickType ==
    ASSUME Parts, Tick
    PROVE  Parts'
<1> USE DEF Parts
<1>1. GrantTypeOK'
  <2>1. ASSUME NEW n \in 0..ApprovalTicks
        PROVE  Less(n) \in 0..ApprovalTicks
    BY ConstantsAssumption DEF Less
  <2> QED
    BY <2>1 DEF Tick, StateTick, GrantTypeOK
<1>2. TimerTypeOK'
  BY ConstantsAssumption DEF Tick, StateTick, Less, TimerTypeOK
<1>3. KeyTypeOK' /\ TaskTypeOK' /\ SyncTypeOK'
  BY DEF Tick, StateTick, keyVars, taskVars, KeyTypeOK, TaskTypeOK, SyncTypeOK
<1>4. ProofTypeOK'
  BY DEF Tick, ProofTypeOK
<1> QED
  BY <1>1, <1>2, <1>3, <1>4

LEMMA RestartType ==
    ASSUME Parts, Restart
    PROVE  Parts'
<1> USE DEF Parts
<1>1. KeyTypeOK'
  BY DEF Restart, StateRestart, KeyTypeOK
<1>2. GrantTypeOK'
  BY ConstantsAssumption DEF Restart, StateRestart, NoGrants, GrantTypeOK
<1>3. TimerTypeOK'
  BY ConstantsAssumption DEF Restart, StateRestart, backoffVars, TimerTypeOK
<1>4. TaskTypeOK' /\ SyncTypeOK' /\ ProofTypeOK'
  BY DEF Restart, TaskTypeOK, SyncTypeOK, ProofTypeOK, Labels
<1> QED
  BY <1>1, <1>2, <1>3, <1>4

LEMMA ReceiveType ==
    ASSUME Parts, NEW c \in Clients, NEW m \in Methods, Receive(c, m)
    PROVE  Parts'
<1> USE DEF Parts
<1>1. Entry(m) \in Labels
  BY ClientsAssumption DEF Entry, Labels, AllMethods, Gated, Ssh
<1>2. TaskTypeOK'
  BY <1>1, ClientsAssumption DEF Receive, TaskTypeOK
<1> QED
  BY <1>2 DEF Receive, stateVars, keyVars, backoffVars, KeyTypeOK, GrantTypeOK,
              TimerTypeOK, SyncTypeOK, ProofTypeOK

LEMMA InitType == Init => Parts
<1> SUFFICES ASSUME Init
             PROVE  Parts
  OBVIOUS
<1>1. KeyTypeOK
  BY DEF Init, StateInit, KeyTypeOK
<1>2. GrantTypeOK /\ TimerTypeOK
  BY ConstantsAssumption DEF Init, StateInit, NoGrants, GrantTypeOK, TimerTypeOK
<1>3. TaskTypeOK /\ SyncTypeOK /\ ProofTypeOK
  BY DEF Init, TaskTypeOK, SyncTypeOK, ProofTypeOK, Labels
<1> QED
  BY <1>1, <1>2, <1>3 DEF Parts

LEMMA StepType == Parts /\ [Next]_vars => Parts'
<1> SUFFICES ASSUME Parts, [Next]_vars
             PROVE  Parts'
  OBVIOUS
<1>1. CASE \E c \in Clients, m \in Methods : Receive(c, m)
  BY <1>1, ReceiveType
<1>2. CASE \E c \in Mortal : Exit(c)
  BY <1>2, ClientsAssumption
  DEF Exit, stateVars, keyVars, backoffVars, Parts, KeyTypeOK, GrantTypeOK,
      TimerTypeOK, TaskTypeOK, SyncTypeOK, ProofTypeOK
<1>3. CASE \E c \in Clients : Serve(c)
  BY <1>3, ApprovalStepType, PasswordStepType, StateStepType DEF Serve
<1>4. CASE WorkerStep \/ Tick \/ Restart
  BY <1>4, WorkerStepType, TickType, RestartType
<1>5. CASE UNCHANGED vars
  BY <1>5 DEF vars, taskVars, stateVars, keyVars, backoffVars, Parts,
              KeyTypeOK, GrantTypeOK, TimerTypeOK, TaskTypeOK, SyncTypeOK,
              ProofTypeOK
<1> QED
  BY <1>1, <1>2, <1>3, <1>4, <1>5 DEF Next

\* The service is type correct in every state: in particular no counter
\* leaves its range and no grant lasts longer than APPROVAL_SECONDS.
THEOREM TypeCorrect == Spec => []TypeOK
<1>1. Spec => []Parts
  BY InitType, StepType, PTL DEF Spec
<1> QED
  BY <1>1, TypeParts, PTL

-----------------------------------------------------------------------------
(* The session and the keys.  However many actions there are, they change   *)
(* the key variables in one of the few ways of ServiceState.                *)

KeyChange ==
    \/ UNCHANGED <<vault_state, session, sdk>>
    \/ TryLock \/ logout \/ LoginOk \/ UnlockOk \/ StateRestart
    \/ \E p \in Pins : PinAccepted(p) \/ PinRefused(p) \/ set_pin(p)

KeyInv == KeysOnlyWhileUnlocked /\ NoExhaustedSession

LEMMA NextChangesKeys == [Next]_vars => KeyChange
<1> USE DEF KeyChange, stateVars, keyVars
<1>1. ASSUME NEW c \in Clients, ApprovalStep(c)
      PROVE  KeyChange
  BY <1>1 DEF ApprovalStep, Touch, Gate, Check, BeginApproval,
              BiometricAccepted, BiometricUnavailable, ChoosePrompt,
              PinAnswered, ApprovalPasswordAccepted, PromptFailed, Grant,
              Handle, SyncStore
<1>2. ASSUME NEW c \in Clients, PasswordStep(c)
      PROVE  KeyChange
  BY <1>2 DEF PasswordStep, SshBegin, CheckBackoff, UnlockAccepted,
              UnlockFailed, AuthorizeUnlockFailed, UnlockRefused, UnlockErr,
              LoginAccepted, LoginFailed, Authorize, AuthorizeState,
              AuthorizeUnlocked, AuthorizeVerified, AuthorizeRefused,
              AuthorizeReset, AuthorizeRecord
<1>3. ASSUME NEW c \in Clients, StateStep(c)
      PROVE  KeyChange
  BY <1>3 DEF StateStep, HandleLock, HandleLogout, HandleSetPin
<1>4. ASSUME WorkerStep
      PROVE  KeyChange
  BY <1>4 DEF WorkerStep, AutoLockCheck, AutoLockRelock, TryLock, SyncRead,
              SyncDone, SyncRevoked
<1>5. ASSUME NEW c \in Clients, \/ \E m \in Methods : Receive(c, m)
                                \/ Exit(c)
      PROVE  KeyChange
  BY <1>5 DEF Receive, Exit
<1>6. ASSUME Tick \/ Restart \/ UNCHANGED vars
      PROVE  KeyChange
  BY <1>6 DEF Tick, StateTick, Restart, vars
<1> QED
  BY <1>1, <1>2, <1>3, <1>4, <1>5, <1>6, ClientsAssumption DEF Next, Serve

LEMMA KeyInvKept ==
    ASSUME KeyTypeOK, KeyInv, KeyChange
    PROVE  KeyInv'
<1> USE DEF KeyInv, KeysOnlyWhileUnlocked, NoExhaustedSession
<1>0. ASSUME NEW s \in Session
      PROVE  s # NoSession
  BY <1>0, ConstantsAssumption DEF Session
<1>1. CASE UNCHANGED <<vault_state, session, sdk>>
  BY <1>1 DEF Exhausted
<1>2. CASE TryLock
  BY <1>2 DEF TryLock, lock, keyVars, Exhausted
<1>3. CASE logout \/ LoginOk \/ StateRestart
  BY <1>3 DEF logout, LoginOk, StateRestart, Exhausted
<1>4. CASE UnlockOk
  <2>1. NewSession \in Session
    BY ConstantsAssumption DEF NewSession, Session
  <2>2. ~Exhausted(NewSession)
    BY ConstantsAssumption DEF NewSession, Exhausted
  <2> QED
    BY <1>0, <1>4, <2>1, <2>2 DEF UnlockOk, Exhausted
<1>5. ASSUME NEW p \in Pins, PinAccepted(p)
      PROVE  KeyInv'
  <2>1. session \in Session /\ session' = [session EXCEPT !.pin_attempts = 0]
    BY <1>5 DEF PinAccepted, PinMatches, pin_set, KeyTypeOK
  <2>2. session' \in Session /\ ~Exhausted(session')
    BY <2>1, ConstantsAssumption DEF Session, Exhausted
  <2> QED
    BY <1>0, <1>5, <2>1, <2>2 DEF PinAccepted, Exhausted
<1>6. ASSUME NEW p \in Pins, PinRefused(p)
      PROVE  KeyInv'
  <2> DEFINE s == [session EXCEPT !.pin_attempts = @ + 1]
  <2>1. CASE session = NoSession \/ Exhausted(s)
    BY <1>2, <1>6, <2>1 DEF PinRefused, keyVars, Exhausted
  <2>2. CASE session # NoSession /\ ~Exhausted(s)
    <3>1. session' = s /\ UNCHANGED <<vault_state, sdk>>
      BY <1>6, <2>2 DEF PinRefused
    <3>2. s # NoSession
      BY <2>2, ConstantsAssumption DEF KeyTypeOK, Session
    <3> QED
      BY <2>2, <3>1, <3>2 DEF Exhausted
  <2> QED
    BY <2>1, <2>2
<1>7. ASSUME NEW p \in Pins, set_pin(p)
      PROVE  KeyInv'
  <2>1. session' \in Session \cup {NoSession}
    BY <1>7 DEF set_pin, KeyTypeOK, Session
  <2>2. session # NoSession => session' # NoSession
    BY <1>0, <1>7 DEF set_pin, KeyTypeOK, Session
  <2>3. ~Exhausted(session')
    BY <1>7 DEF set_pin, Exhausted, KeyTypeOK, Session
  <2> QED
    BY <1>7, <2>2, <2>3 DEF set_pin, Exhausted
<1> QED
  BY <1>1, <1>2, <1>3, <1>4, <1>5, <1>6, <1>7 DEF KeyChange

LEMMA KeyInvariant == Spec => [](Parts /\ KeyInv)
<1>1. Init => Parts /\ KeyInv
  BY InitType, ConstantsAssumption
  DEF Init, StateInit, KeyInv, KeysOnlyWhileUnlocked, NoExhaustedSession,
      Exhausted
<1>2. Parts /\ KeyInv /\ [Next]_vars => (Parts /\ KeyInv)'
  BY StepType, NextChangesKeys, KeyInvKept DEF Parts
<1> QED
  BY <1>1, <1>2, PTL DEF Spec

\* The service keeps a session, and the keys in its client, exactly while the
\* vault is unlocked, on every path out of Unlocked.
THEOREM KeysFollowTheVault == Spec => []KeysOnlyWhileUnlocked
  BY KeyInvariant, PTL DEF KeyInv

\* No interleaving of PIN prompts leaves a session that has used up its PIN
\* attempts: the last wrong PIN locks the vault in the same critical section.
THEOREM NoSessionOutlivesItsAttempts == Spec => []NoExhaustedSession
  BY KeyInvariant, PTL DEF KeyInv

-----------------------------------------------------------------------------
(* The proofs of identity.  A task that moves on must carry a proof if it   *)
(* passes its check, and leave those of the other tasks alone; a step that  *)
(* changes the grants must find its scope among the proofs.                 *)

ProofInv == GrantsAreProved /\ PassedAreProved

KeepsInHand == proved \cap ProofsInHand \subseteq proved'

\* The task of c is at l, or idle, with its proof if it has passed its check.
MovesOn(c, l) ==
    /\ \/ pc' = [pc EXCEPT ![c] = l] /\ UNCHANGED request
       \/ /\ pc' = [pc EXCEPT ![c] = "idle"]
          /\ request' = [request EXCEPT ![c] = "none"]
    /\ \/ l \notin InHand
       \/ Subject(c) \in proved'
       \/ l = "handle" /\ request[c] = "ssh_list"

LEMMA PassedKept ==
    ASSUME TaskTypeOK, PassedAreProved, KeepsInHand,
           NEW c \in Clients, NEW l, MovesOn(c, l)
    PROVE  PassedAreProved'
<1> SUFFICES ASSUME NEW d \in Clients, pc'[d] \in InHand,
                    ~(pc'[d] = "handle" /\ request'[d] = "ssh_list")
             PROVE  Subject(d) \in proved'
  BY DEF PassedAreProved, Subject, Identified
<1>1. CASE d = c
  BY <1>1 DEF MovesOn, TaskTypeOK, InHand
<1>2. CASE d # c
  <2>1. pc'[d] = pc[d] /\ request'[d] = request[d]
    BY <1>2 DEF MovesOn, TaskTypeOK
  <2>2. Subject(d) \in proved \cap ProofsInHand
    BY <2>1 DEF PassedAreProved, ProofsInHand
  <2> QED
    BY <2>2 DEF KeepsInHand
<1> QED
  BY <1>1, <1>2

LEMMA GrantKept ==
    ASSUME GrantTypeOK, GrantsAreProved, NEW c \in Clients, GrantTo(c),
           proved \subseteq proved', Subject(c) \in proved'
    PROVE  GrantsAreProved'
  BY DEF GrantTypeOK, GrantsAreProved, GrantTo, grant, Subject

LEMMA LockKept ==
    ASSUME KeyTypeOK, GrantTypeOK, GrantsAreProved, TryLock, ForgetIfLocked
    PROVE  GrantsAreProved' /\ KeepsInHand
<1>1. CASE lock
  BY <1>1 DEF lock, NoGrants, GrantsAreProved, ForgetIfLocked, KeepsInHand
<1>2. CASE UNCHANGED <<keyVars, approval_cache>>
  BY <1>2 DEF keyVars, GrantsAreProved, ForgetIfLocked, KeepsInHand
<1> QED
  BY <1>1, <1>2 DEF TryLock

\* A step that leaves the grants alone and takes no proof away.
LEMMA QuietKept ==
    ASSUME GrantsAreProved, UNCHANGED approval_cache, proved \subseteq proved'
    PROVE  GrantsAreProved' /\ KeepsInHand
  BY DEF GrantsAreProved, KeepsInHand

LEMMA ApprovalStepKept ==
    ASSUME Parts, ProofInv, NEW c \in Clients, ApprovalStep(c)
    PROVE  ProofInv'
<1> USE DEF Parts, ProofInv
<1>1. CASE Touch(c) \/ Gate(c) \/ BiometricUnavailable(c) \/ ChoosePrompt(c)
           \/ PromptFailed(c)
  <2>1. UNCHANGED approval_cache /\ proved \subseteq proved'
    BY <1>1 DEF Touch, Gate, BiometricUnavailable, ChoosePrompt, PromptFailed,
                stateVars
  <2>2. \E l \in {"gate", "check", "has_pin", "pin", "password"} : MovesOn(c, l)
    BY <1>1 DEF Touch, Gate, BiometricUnavailable, ChoosePrompt, PromptFailed,
                Goto, Answer, AnswerTo, MovesOn, InHand
  <2> QED
    BY <2>1, <2>2, QuietKept, PassedKept
<1>2. CASE Check(c)
  <2>1. Approved(c) => Subject(c) \in proved
    BY ClientsAssumption
    DEF Approved, is_approved, Subject, Identified, GrantsAreProved
  <2>2. \E l \in {"handle", "approve"} : MovesOn(c, l)
    BY <1>2, <2>1 DEF Check, Goto, MovesOn, InHand
  <2>3. UNCHANGED approval_cache /\ proved \subseteq proved'
    BY <1>2 DEF Check, stateVars
  <2> QED
    BY <2>2, <2>3, QuietKept, PassedKept
<1>3. CASE BeginApproval(c)
  <2>1. GrantsAreProved' /\ KeepsInHand
    BY <1>3, LockKept
    DEF BeginApproval, keyVars, ForgetIfLocked, GrantsAreProved, KeepsInHand
  <2>2. MovesOn(c, "biometric")
    BY <1>3 DEF BeginApproval, Goto, Answer, AnswerTo, MovesOn, InHand
  <2> QED
    BY <2>1, <2>2, PassedKept
<1>4. CASE BiometricAccepted(c) \/ ApprovalPasswordAccepted(c)
  <2>1. UNCHANGED approval_cache /\ Prove(c)
    BY <1>4 DEF BiometricAccepted, ApprovalPasswordAccepted, stateVars
  <2>2. MovesOn(c, "grant")
    BY <1>4, <2>1
    DEF BiometricAccepted, ApprovalPasswordAccepted, Goto, Prove, MovesOn
  <2> QED
    BY <2>1, <2>2, QuietKept, PassedKept DEF Prove
<1>5. CASE \E p \in Pins : PinAnswered(c, p)
  <2> PICK p \in Pins : PinAnswered(c, p)
    BY <1>5
  <2>1. CASE PinAccepted(p) /\ Prove(c) /\ Goto(c, "grant")
    <3>1. MovesOn(c, "grant")
      BY <2>1 DEF Goto, Prove, MovesOn
    <3> QED
      BY <2>1, <3>1, QuietKept, PassedKept DEF PinAccepted, Prove
  <2>2. CASE PinRefused(p) /\ ForgetIfLocked /\ Answer(c, "done")
    <3>1. GrantsAreProved' /\ KeepsInHand
      <4>1. TryLock \/ UNCHANGED <<vault_state, approval_cache>>
        BY <2>2 DEF PinRefused, keyVars
      <4> QED
        BY <2>2, <4>1, LockKept
        DEF ForgetIfLocked, GrantsAreProved, KeepsInHand
    <3>2. MovesOn(c, "idle")
      BY <2>2 DEF Answer, AnswerTo, MovesOn, InHand
    <3> QED
      BY <3>1, <3>2, PassedKept
  <2> QED
    BY <2>1, <2>2 DEF PinAnswered
<1>6. CASE Grant(c)
  <2>1. Subject(c) \in proved /\ proved' = proved
    BY <1>6 DEF Grant, PassedAreProved, InHand
  <2>2. MovesOn(c, "handle")
    BY <1>6, <2>1 DEF Grant, Goto, Answer, AnswerTo, MovesOn
  <2>3. GrantsAreProved'
    BY <1>6, <2>1, GrantKept DEF Grant
  <2> QED
    BY <2>1, <2>2, <2>3, PassedKept DEF KeepsInHand
<1>7. CASE Handle(c) \/ SyncStore(c)
  <2>1. UNCHANGED approval_cache /\ proved \subseteq proved'
    BY <1>7 DEF Handle, SyncStore, stateVars
  <2>2. \E l \in {"idle", "sync_store"} : MovesOn(c, l)
    BY <1>7
    DEF Handle, SyncStore, Goto, Answer, AnswerTo, MovesOn, InHand,
        PassedAreProved
  <2> QED
    BY <2>1, <2>2, QuietKept, PassedKept
<1> QED
  BY <1>1, <1>2, <1>3, <1>4, <1>5, <1>6, <1>7 DEF ApprovalStep

LEMMA PasswordStepKept ==
    ASSUME Parts, ProofInv, NEW c \in Clients, PasswordStep(c)
    PROVE  ProofInv'
<1> USE DEF Parts, ProofInv
<1>1. CASE SshBegin(c) \/ CheckBackoff(c) \/ Authorize(c) \/ AuthorizeState(c)
           \/ AuthorizeRefused(c) \/ AuthorizeRecord(c) \/ LoginAccepted(c)
           \/ LoginFailed(c)
  <2>1. UNCHANGED approval_cache /\ proved \subseteq proved'
    BY <1>1 DEF SshBegin, CheckBackoff, Authorize, AuthorizeState,
                AuthorizeRefused, AuthorizeRecord, LoginAccepted, LoginOk,
                LoginFailed, stateVars
  <2>2. \E l \in {"backoff", "check", "handle", "login", "unlock",
                  "authorize_state", "authorize_unlock", "verify", "record",
                  "idle"} : MovesOn(c, l)
    BY <1>1 DEF SshBegin, CheckBackoff, Authorize, AuthorizeState,
                AuthorizeRefused, AuthorizeRecord, LoginAccepted, LoginFailed,
                Goto, Answer, AnswerTo, MovesOn, InHand
  <2> QED
    BY <2>1, <2>2, QuietKept, PassedKept
<1>2. CASE UnlockAccepted(c) \/ AuthorizeUnlocked(c)
  <2>1. proved \subseteq proved' /\ Subject(c) \in proved'
    BY <1>2 DEF UnlockAccepted, AuthorizeUnlocked, Prove
  <2>2. GrantsAreProved'
    BY <1>2, <2>1, GrantKept, QuietKept DEF UnlockAccepted, AuthorizeUnlocked
  <2>3. \E l \in {"check", "handle", "grant", "idle"} : MovesOn(c, l)
    BY <1>2, <2>1 DEF UnlockAccepted, AuthorizeUnlocked, AnswerTo, MovesOn
  <2> QED
    BY <2>1, <2>2, <2>3, PassedKept DEF KeepsInHand
<1>3. CASE \E right \in BOOLEAN :
              UnlockFailed(c, right) \/ AuthorizeUnlockFailed(c, right)
  <2>1. UNCHANGED <<approval_cache, proved>> /\ MovesOn(c, "idle")
    BY <1>3 DEF UnlockFailed, AuthorizeUnlockFailed, UnlockRefused, Answer,
                AnswerTo, MovesOn, InHand
  <2> QED
    BY <2>1, QuietKept, PassedKept
<1>4. CASE AuthorizeVerified(c)
  <2>1. UNCHANGED approval_cache /\ Prove(c) /\ MovesOn(c, "reset")
    BY <1>4 DEF AuthorizeVerified, Goto, Prove, MovesOn
  <2> QED
    BY <2>1, QuietKept, PassedKept DEF Prove
<1>5. CASE AuthorizeReset(c)
  <2>1. UNCHANGED <<approval_cache, proved>> /\ MovesOn(c, "grant")
    BY <1>5 DEF AuthorizeReset, Goto, MovesOn, PassedAreProved, InHand
  <2> QED
    BY <2>1, QuietKept, PassedKept
<1> QED
  BY <1>1, <1>2, <1>3, <1>4, <1>5 DEF PasswordStep

LEMMA StateStepKept ==
    ASSUME Parts, ProofInv, NEW c \in Clients, StateStep(c)
    PROVE  ProofInv'
<1> USE DEF Parts, ProofInv
<1>1. MovesOn(c, "idle")
  BY DEF StateStep, HandleLock, HandleLogout, HandleSetPin, Answer, AnswerTo,
         MovesOn, InHand
<1>2. CASE HandleLock(c)
  BY <1>1, <1>2, LockKept, PassedKept DEF HandleLock
<1>3. CASE HandleLogout(c)
  <2>1. GrantsAreProved' /\ KeepsInHand
    BY <1>3 DEF HandleLogout, logout, NoGrants, GrantsAreProved, KeepsInHand
  <2> QED
    BY <1>1, <2>1, PassedKept
<1>4. CASE \E p \in Pins : HandleSetPin(c, p)
  BY <1>1, <1>4, QuietKept, PassedKept DEF HandleSetPin
<1> QED
  BY <1>2, <1>3, <1>4 DEF StateStep

\* A step of nobody's task.
LEMMA ElsewhereKept ==
    ASSUME PassedAreProved, KeepsInHand, UNCHANGED <<pc, request>>
    PROVE  PassedAreProved'
  BY DEF PassedAreProved, KeepsInHand, ProofsInHand, Subject, Identified

LEMMA WorkerStepKept ==
    ASSUME Parts, ProofInv, WorkerStep
    PROVE  ProofInv'
<1> USE DEF Parts, ProofInv
<1>1. UNCHANGED <<pc, request>>
  BY DEF WorkerStep, AutoLockCheck, AutoLockRelock, SyncRead, SyncDone,
         SyncRevoked, SyncGoto
<1>2. \/ TryLock /\ ForgetIfLocked
      \/ UNCHANGED <<approval_cache, proved>>
  BY DEF WorkerStep, AutoLockCheck, AutoLockRelock, TryLock, SyncRead,
         SyncDone, SyncRevoked, stateVars, keyVars, ForgetIfLocked
<1> QED
  BY <1>1, <1>2, LockKept, QuietKept, ElsewhereKept

LEMMA ProofInvKept == Parts /\ ProofInv /\ [Next]_vars => ProofInv'
<1> SUFFICES ASSUME Parts, ProofInv, [Next]_vars
             PROVE  ProofInv'
  OBVIOUS
<1> USE DEF Parts, ProofInv
<1>1. ASSUME NEW c \in Clients, NEW m \in Methods, Receive(c, m)
      PROVE  ProofInv'
  <2>1. Entry(m) \notin InHand
    BY ClientsAssumption DEF Entry, InHand, AllMethods, Gated, Ssh
  <2>2. GrantsAreProved'
    BY <1>1, ClientsAssumption DEF Receive, stateVars, GrantsAreProved
  <2>3. ASSUME NEW d \in Clients, d # c
        PROVE  Subject(d) # c
    BY <2>3, ClientsAssumption DEF Subject, Identified
  <2>4. PassedAreProved'
    BY <1>1, <2>1, <2>3
    DEF Receive, PassedAreProved, TaskTypeOK, Subject, Identified
  <2> QED
    BY <2>2, <2>4
<1>2. CASE \E c \in Mortal : Exit(c)
  BY <1>2, QuietKept, ElsewhereKept DEF Exit, stateVars
<1>3. CASE \E c \in Clients : Serve(c)
  BY <1>3, ApprovalStepKept, PasswordStepKept, StateStepKept DEF Serve
<1>4. CASE WorkerStep
  BY <1>4, WorkerStepKept
<1>5. CASE Tick
  <2>1. ASSUME NEW s \in Scopes, approval_cache'[s] > 0
        PROVE  approval_cache[s] > 0
    BY <1>5, <2>1 DEF Tick, StateTick, Less, GrantTypeOK
  <2>2. GrantsAreProved' /\ KeepsInHand
    BY <1>5, <2>1 DEF Tick, GrantsAreProved, KeepsInHand
  <2> QED
    BY <1>5, <2>2, ElsewhereKept DEF Tick, taskVars
<1>6. CASE Restart
  BY <1>6 DEF Restart, StateRestart, NoGrants, GrantsAreProved,
              PassedAreProved, InHand
<1>7. CASE UNCHANGED vars
  BY <1>7, QuietKept, ElsewhereKept DEF vars, taskVars, stateVars
<1> QED
  BY <1>1, <1>2, <1>3, <1>4, <1>5, <1>6, <1>7 DEF Next

LEMMA InductiveInvariant == Spec => [](Parts /\ KeyInv /\ ProofInv)
<1>1. Init => ProofInv
  BY DEF Init, StateInit, NoGrants, ProofInv, GrantsAreProved, PassedAreProved,
         InHand
<1> QED
  BY <1>1, KeyInvariant, ProofInvKept, PTL DEF Spec

\* Every live grant belongs to a scope that has proved its identity since the
\* last lock, or had passed its check before it, whatever interleaving of
\* requests, prompts, workers and restarts led to it.
THEOREM EveryGrantIsProved == Spec => []GrantsAreProved
  BY InductiveInvariant, PTL DEF ProofInv

\* No request gets past the approval gate on the proof of another scope.
THEOREM EveryPassIsProved == Spec => []PassedAreProved
  BY InductiveInvariant, PTL DEF ProofInv

-----------------------------------------------------------------------------
(* Action properties *)

LEMMA OnlyHandleDiscloses ==
    ASSUME TaskTypeOK, [Next]_vars, NEW c \in Clients,
           reply'[c] = "secret", reply[c] # "secret"
    PROVE  Handle(c) /\ sdk = "keys" /\ request[c] # "ssh_list"
<1> USE DEF TaskTypeOK
<1>1. ASSUME NEW d \in Clients, ApprovalStep(d)
      PROVE  Handle(c) /\ sdk = "keys" /\ request[c] # "ssh_list"
  <2>1. ~UNCHANGED reply
    OBVIOUS
  <2>2. ~\E e \in Clients : Answer(e, "done")
    BY DEF Answer, AnswerTo
  <2>3. Handle(d)
    BY <1>1, <2>1, <2>2
    DEF ApprovalStep, Touch, Gate, Check, BeginApproval, BiometricAccepted,
        BiometricUnavailable, ChoosePrompt, PinAnswered,
        ApprovalPasswordAccepted, PromptFailed, Grant, SyncStore, Goto
  <2>4. /\ Answer(d, "secret")
        /\ sdk = "keys"
        /\ request[d] # "ssh_list"
    BY <2>1, <2>2, <2>3 DEF Handle, Goto
  <2>5. d = c
    BY <2>4 DEF Answer, AnswerTo
  <2> QED
    BY <2>3, <2>4, <2>5
<1>2. ASSUME NEW d \in Clients, PasswordStep(d) \/ StateStep(d)
      PROVE  FALSE
  <2>1. ~UNCHANGED reply
    OBVIOUS
  <2>2. ~AnswerTo(d, "done")
    BY DEF AnswerTo
  <2> QED
    BY <1>2, <2>1, <2>2
    DEF PasswordStep, SshBegin, CheckBackoff, UnlockAccepted, UnlockFailed,
        AuthorizeUnlockFailed, UnlockRefused, LoginAccepted, LoginFailed,
        Authorize, AuthorizeState, AuthorizeUnlocked, AuthorizeVerified,
        AuthorizeRefused, AuthorizeReset, AuthorizeRecord, StateStep,
        HandleLock, HandleLogout, HandleSetPin, Goto, Answer
<1>3. ASSUME WorkerStep \/ Tick \/ Restart \/ UNCHANGED vars
             \/ (\E d \in Mortal : Exit(d))
             \/ (\E d \in Clients, m \in Methods : Receive(d, m))
      PROVE  FALSE
  BY <1>3 DEF WorkerStep, AutoLockCheck, AutoLockRelock, SyncRead, SyncDone,
              SyncRevoked, SyncGoto, Tick, Restart, vars, taskVars, Exit,
              Receive
<1> QED
  BY <1>1, <1>2, <1>3 DEF Next, Serve

\* Secrets leave the service only while the vault is unlocked, and only for a
\* client whose own scope has proved its identity.
THEOREM SecretsOnlyForTheProved == Spec => DisclosedOnlyToProved
<1> DEFINE Disclosure ==
        \A c \in Clients :
            reply'[c] = "secret" /\ reply[c] # "secret" =>
               vault_state = "Unlocked" /\ Subject(c) \in proved
<1>1. Parts /\ KeyInv /\ ProofInv /\ [Next]_vars => Disclosure
  <2> SUFFICES ASSUME Parts, KeyInv, ProofInv, [Next]_vars,
                      NEW c \in Clients,
                      reply'[c] = "secret", reply[c] # "secret"
               PROVE  vault_state = "Unlocked" /\ Subject(c) \in proved
    OBVIOUS
  <2>1. Handle(c) /\ sdk = "keys" /\ request[c] # "ssh_list"
    BY OnlyHandleDiscloses DEF Parts
  <2> QED
    BY <2>1
    DEF Handle, InHand, KeyInv, KeysOnlyWhileUnlocked, ProofInv,
        PassedAreProved
<1>2. Spec => [][Disclosure]_vars
  BY <1>1, InductiveInvariant, PTL DEF Spec
<1> QED
  BY <1>2 DEF DisclosedOnlyToProved

-----------------------------------------------------------------------------
(* The promise of Activity.tla *)

\* What a step that is not the clock's may do to the timer: start it again,
\* or nothing, and then it does not open the vault.
TimerChange ==
    \/ Tick
    \/ idle' = 0
    \/ idle' = idle /\ (vault_state # "Unlocked" => vault_state' # "Unlocked")

LEMMA ApprovalStepTimer ==
    ASSUME NEW c \in Clients, ApprovalStep(c)
    PROVE  TimerChange
  BY DEF TimerChange, ApprovalStep, Touch, Gate, Check, BeginApproval,
         BiometricAccepted, BiometricUnavailable, ChoosePrompt, PinAnswered,
         PinAccepted, PinRefused, ApprovalPasswordAccepted, PromptFailed,
         Grant, Handle, SyncStore, TryLock, lock, touch, stateVars, keyVars

LEMMA PasswordStepTimer ==
    ASSUME NEW c \in Clients, PasswordStep(c)
    PROVE  TimerChange
  BY DEF TimerChange, PasswordStep, SshBegin, CheckBackoff, UnlockAccepted,
         UnlockFailed, LoginAccepted, LoginFailed, Authorize, AuthorizeState,
         AuthorizeUnlocked, AuthorizeUnlockFailed, AuthorizeVerified,
         AuthorizeRefused, AuthorizeReset, AuthorizeRecord, UnlockRefused,
         UnlockOk, UnlockErr, LoginOk, touch, stateVars, keyVars

LEMMA ElsewhereTimer ==
    ASSUME [Next]_vars,
           ~\E c \in Clients : ApprovalStep(c) \/ PasswordStep(c)
    PROVE  TimerChange
<1>1. CASE \E c \in Clients : StateStep(c)
  BY <1>1
  DEF TimerChange, StateStep, HandleLock, HandleLogout, HandleSetPin, TryLock,
      lock, logout, set_pin, keyVars
<1>2. CASE WorkerStep
  BY <1>2
  DEF TimerChange, WorkerStep, AutoLockCheck, AutoLockRelock, SyncRead,
      SyncDone, SyncRevoked, TryLock, lock, stateVars, keyVars
<1>3. CASE Tick
  BY <1>3 DEF TimerChange
<1>4. CASE Restart
  BY <1>4 DEF TimerChange, Restart, StateRestart
<1>5. CASE UNCHANGED vars
  BY <1>5 DEF TimerChange, vars, stateVars, keyVars
<1>6. CASE \E c \in Clients : \/ \E m \in Methods : Receive(c, m)
                              \/ Exit(c)
  BY <1>6 DEF TimerChange, Receive, Exit, stateVars, keyVars
<1> QED
  BY <1>1, <1>2, <1>3, <1>4, <1>5, <1>6, ClientsAssumption DEF Next, Serve

\* While the promise runs, the timer has at least as long to go.
PromiseInv ==
    /\ promised \in 0..AutoLockTicks
    /\ promised > 0 => vault_state = "Unlocked" /\ idle + promised <= AutoLockTicks

LEMMA PromiseKept ==
    ASSUME Parts, PromiseInv, Next, Promise
    PROVE  PromiseInv'
<1> USE ConstantsAssumption
<1>1. idle \in 0..AutoLockTicks
  BY DEF Parts, TimerTypeOK
<1>2. TimerChange
  BY ApprovalStepTimer, PasswordStepTimer, ElsewhereTimer
<1>3. CASE Used
  <2>1. promised' = AutoLockTicks
    BY <1>3 DEF Promise
  <2>2. vault_state' = "Unlocked" /\ idle' = 0
    <3>1. CASE vault_state = "Unlocked" /\ \E c \in Clients : Touch(c)
      BY <3>1 DEF Touch, touch, keyVars
    <3>2. CASE vault_state # "Unlocked" /\ vault_state' = "Unlocked"
      BY <1>2, <3>2 DEF TimerChange, Tick, StateTick, keyVars
    <3> QED
      BY <1>3, <3>1, <3>2 DEF Used
  <2> QED
    BY <2>1, <2>2 DEF PromiseInv
<1>4. CASE ~Used /\ Closed
  BY <1>4 DEF Promise, PromiseInv
<1>5. CASE ~Used /\ ~Closed /\ Tick
  <2>1. /\ promised' = Less(promised)
        /\ vault_state' = vault_state
        /\ idle' = IF idle < AutoLockTicks THEN idle + 1 ELSE idle
    BY <1>5 DEF Promise, Tick, StateTick, keyVars
  <2> QED
    BY <1>1, <2>1 DEF PromiseInv, Less
<1>6. CASE ~Used /\ ~Closed /\ ~Tick
  <2>1. promised' = promised
    BY <1>6 DEF Promise
  <2> SUFFICES ASSUME promised > 0
               PROVE  /\ vault_state' = "Unlocked"
                      /\ idle' = 0 \/ idle' = idle
    BY <1>1, <2>1 DEF PromiseInv
  <2>2. vault_state = "Unlocked" /\ idle # AutoLockTicks
    BY <1>1 DEF PromiseInv
  <2>3. vault_state' = "Unlocked"
    BY <1>6, <2>2 DEF Closed, AutoLockRelock, IdleTimeout, keyVars
  <2> QED
    BY <1>2, <1>6, <2>3 DEF TimerChange
<1> QED
  BY <1>3, <1>4, <1>5, <1>6

LEMMA ActivityIsService == ActivitySpec => Spec
<1>1. ActivityInit => Init
  BY DEF ActivityInit
<1>2. [ActivityNext]_activityVars => [Next]_vars
  BY DEF ActivityNext, activityVars
<1> QED
  BY <1>1, <1>2, PTL DEF ActivitySpec, Spec

\* Whoever opened the vault, or found it open with a request, has it open for
\* the whole timeout unless something other than inactivity closes it.
THEOREM AutoLockSparesActiveUsers == ActivitySpec => []InUseStaysOpen
<1>1. ActivityInit => PromiseInv
  BY ConstantsAssumption DEF ActivityInit, PromiseInv
<1>2. Parts /\ PromiseInv /\ [ActivityNext]_activityVars => PromiseInv'
  <2>1. CASE UNCHANGED activityVars
    BY <2>1 DEF PromiseInv, activityVars, vars, stateVars, keyVars
  <2> QED
    BY PromiseKept, <2>1 DEF ActivityNext
<1>3. PromiseInv => InUseStaysOpen
  BY DEF PromiseInv, InUseStaysOpen
<1>4. Spec => []Parts
  BY InductiveInvariant, PTL
<1> QED
  BY <1>1, <1>2, <1>3, <1>4, ActivityIsService, PTL DEF ActivitySpec
=============================================================================
