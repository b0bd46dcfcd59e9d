-------------------------- MODULE StateLockProofs --------------------------
(* The one RwLock, for any number of callers with any requests: a task that  *)
(* waits, for the lock or for the user, keeps no guard.                      *)
EXTENDS StateLock, SequenceTheorems, TLAPS

Awaited == OfServer \cup {"refresh"}

(* A guard is kept only over an await of the server or of the refresh.       *)
GuardsAwait == \A t \in Tasks : holds[t] # "none" => At(t, Awaited)

LockInv == TypeOK /\ GuardsAwait

-----------------------------------------------------------------------------
(* What the steps of a task leave it to do.                                  *)
LEMMA Prefixed ==
    ASSUME NEW rest \in Seq(Steps), NEW s \in Steps
    PROVE  /\ <<s>> \o rest \in Seq(Steps)
           /\ <<s>> \o rest # <<>>
           /\ Head(<<s>> \o rest) = s
  <1>1. <<s>> \in Seq(Steps) /\ Len(<<s>>) = 1 /\ <<s>>[1] = s
    OBVIOUS
  <1> QED  BY <1>1, ConcatProperties, LenProperties, HeadTailProperties, EmptySeq

LEMMA PrefixedTwice ==
    ASSUME NEW rest \in Seq(Steps), NEW s \in Steps, NEW u \in Steps
    PROVE  <<s, u>> \o rest \in Seq(Steps)
  <1>1. <<s, u>> \in Seq(Steps)
    OBVIOUS
  <1> QED  BY <1>1, ConcatProperties

LEMMA DeniedType ==
    ASSUME NEW rest \in Seq(Steps)
    PROVE  Denied(rest) \in Seq(Steps)
  <1>1. "look" \in Steps
    BY DEF Steps, Reads
  <1> QED  BY <1>1, EmptySeq DEF Denied

\* Awaits that are neither of the server nor of the refresh
Plain == Steps \ Awaited

LEMMA PlainSeq ==
    /\ Seq(Plain) \subseteq Seq(Steps)
    /\ \A r \in Seq(Plain) : r # <<>> => Head(r) \in Plain /\ Tail(r) \in Seq(Plain)
  <1>1. Seq(Plain) \subseteq Seq(Steps)
    BY DEF Plain
  <1> QED  BY <1>1, HeadTailProperties

\* The forms that the rest of a task takes
Heads(step) == IF step \in Kept THEN Awaited ELSE Plain

Form(step, rest, r) ==
    \/ r \in {<<>>, rest, Denied(rest)}
    \/ \E s \in Heads(step) : r \in {<<s>>, <<s>> \o rest, <<s>> \o Denied(rest)}
    \/ \E s \in Heads(step), u \in Plain : r = <<s, u>> \o rest

LEMMA FormType ==
    ASSUME NEW step, NEW rest \in Seq(Steps), NEW r, Form(step, rest, r)
    PROVE  r \in Seq(Steps)
  <1>1. Denied(rest) \in Seq(Steps) /\ <<>> \in Seq(Steps)
    BY DeniedType, EmptySeq
  <1>2. \A s \in Steps : <<s>> \in Seq(Steps)
    OBVIOUS
  <1>3. Heads(step) \subseteq Steps /\ Plain \subseteq Steps
    BY DEF Heads, Plain, Awaited, Steps
  <1> QED  BY <1>1, <1>2, <1>3, Prefixed, PrefixedTwice DEF Form

LEMMA ContinueForm ==
    ASSUME NEW step, NEW rest, NEW r \in Continue(step, rest)
    PROVE  Form(step, rest, r)
  <1>1. /\ "exhausted" \in Plain /\ "method" \in Plain /\ "has_pin" \in Plain
        /\ "attempt" \in Plain /\ "verify" \in Plain /\ "reverify" \in Plain
        /\ "backoff" \in Plain /\ "lock" \in Plain /\ "change" \in Plain
        /\ "unlock" \in Plain /\ "password" \in Plain /\ "biometric" \in Plain
        /\ "pin" \in Plain /\ "approval_password" \in Plain
    BY DEF Plain, Steps, Reads, Writes, OfServer, OfUser, Awaited
  <1>0. /\ "bootstrap" \in Awaited /\ "refused" \in Awaited /\ "refresh" \in Awaited
        /\ "authenticate" \in Awaited /\ "verifying" \in Awaited
        /\ "reverifying" \in Awaited /\ "triggered" \in Awaited /\ "fetching" \in Awaited
    BY DEF Awaited, OfServer
  <1>2. CASE step = "granted"
    BY <1>0, <1>1, <1>2 DEF Continue, Form, Heads, Kept
  <1>3. CASE step = "ssh_granted"
    BY <1>0, <1>1, <1>3 DEF Continue, Form, Heads, Kept
  <1>4. CASE step = "exhausted"
    BY <1>0, <1>1, <1>4 DEF Continue, Form, Heads, Kept
  <1>5. CASE step = "biometric"
    BY <1>0, <1>1, <1>5 DEF Continue, Form, Heads, Kept
  <1>6. CASE step = "has_pin"
    BY <1>0, <1>1, <1>6 DEF Continue, Form, Heads, Kept
  <1>7. CASE step = "attempt"
    BY <1>0, <1>1, <1>7 DEF Continue, Form, Heads, Kept
  <1>8. CASE step = "pin"
    BY <1>0, <1>1, <1>8 DEF Continue, Form, Heads, Kept
  <1>9. CASE step = "approval_password"
    BY <1>0, <1>1, <1>9 DEF Continue, Form, Heads, Kept
  <1>10. CASE step = "verify"
    BY <1>0, <1>1, <1>10 DEF Continue, Form, Heads, Kept
  <1>11. CASE step = "verifying"
    BY <1>0, <1>1, <1>11 DEF Continue, Form, Heads, Kept
  <1>12. CASE step = "ssh_gate"
    BY <1>0, <1>1, <1>12 DEF Continue, Form, Heads, Kept
  <1>13. CASE step = "backoff"
    BY <1>0, <1>1, <1>13 DEF Continue, Form, Heads, Kept
  <1>14. CASE step = "password"
    BY <1>0, <1>1, <1>14 DEF Continue, Form, Heads, Kept
  <1>15. CASE step = "unlock"
    BY <1>0, <1>1, <1>15 DEF Continue, Form, Heads, Kept
  <1>16. CASE step = "login"
    BY <1>0, <1>1, <1>16 DEF Continue, Form, Heads, Kept
  <1>17. CASE step = "needs_unlock"
    BY <1>0, <1>1, <1>17 DEF Continue, Form, Heads, Kept
  <1>18. CASE step = "reverify"
    BY <1>0, <1>1, <1>18 DEF Continue, Form, Heads, Kept
  <1>19. CASE step = "reverifying"
    BY <1>0, <1>1, <1>19 DEF Continue, Form, Heads, Kept
  <1>20. CASE step = "trigger"
    BY <1>0, <1>1, <1>20 DEF Continue, Form, Heads, Kept
  <1>21. CASE step = "triggered"
    BY <1>0, <1>1, <1>21 DEF Continue, Form, Heads, Kept
  <1>22. CASE step = "sync"
    BY <1>0, <1>1, <1>22 DEF Continue, Form, Heads, Kept
  <1>23. CASE step = "sync_now"
    BY <1>0, <1>1, <1>23 DEF Continue, Form, Heads, Kept
  <1>24. CASE step = "fetching"
    BY <1>0, <1>1, <1>24 DEF Continue, Form, Heads, Kept
  <1>25. CASE step \notin {"granted", "ssh_granted", "exhausted", "biometric", "has_pin", "attempt", "pin", "approval_password",
                "verify", "verifying", "ssh_gate", "backoff", "password", "unlock", "login",
                "needs_unlock", "reverify", "reverifying", "trigger", "triggered", "sync", "sync_now", "fetching"}
    BY <1>25 DEF Continue, Form, Heads, Kept
  <1> QED  BY <1>2, <1>3, <1>4, <1>5, <1>6, <1>7, <1>8, <1>9, <1>10, <1>11, <1>12, <1>13,
              <1>14, <1>15, <1>16, <1>17, <1>18, <1>19, <1>20, <1>21, <1>22, <1>23, <1>24,
              <1>25

LEMMA ContinueType ==
    ASSUME NEW step, NEW rest \in Seq(Steps), NEW r \in Continue(step, rest)
    PROVE  r \in Seq(Steps)
  BY ContinueForm, FormType

\* A step that keeps its guard goes on to the server or to the refresh
LEMMA KeptAwaits ==
    ASSUME NEW step \in Kept, NEW rest \in Seq(Steps), NEW r \in Continue(step, rest)
    PROVE  r # <<>> /\ Head(r) \in Awaited
  <1>1. {"bootstrap", "refresh", "verifying", "reverifying"} \subseteq Steps \cap Awaited
    BY DEF Steps, Awaited, OfServer
  <1>2. \A s : <<s>> # <<>> /\ Head(<<s>>) = s
    OBVIOUS
  <1>3. CASE step \in {"unlock", "verify", "reverify"}
    <2>1. \/ \E s \in {"bootstrap", "refresh", "verifying", "reverifying"} : r = <<s>> \o rest
          \/ r = <<"refused">>
      BY <1>3 DEF Continue
    <2>2. "refused" \in Awaited
      BY DEF Awaited, OfServer
    <2> QED  BY <1>1, <1>2, <2>1, <2>2, Prefixed
  <1>4. CASE step \in {"login", "trigger", "sync", "sync_now"}
    <2>1. \E s \in {"authenticate", "refused", "triggered", "fetching"} : r = <<s>>
      BY <1>4 DEF Continue
    <2>2. {"authenticate", "refused", "triggered", "fetching"} \subseteq Awaited
      BY DEF Awaited, OfServer
    <2> QED  BY <1>2, <2>1, <2>2
  <1> QED  BY <1>3, <1>4 DEF Kept

LEMMA HandlersType ==
    ASSUME NEW r \in DOMAIN Handlers
    PROVE  Handlers[r] \in Seq(Plain)
  <1>1. /\ {"look", "backoff", "login_gate", "needs_unlock", "gate", "granted", "trigger",
            "ssh_gate", "ssh_granted", "sign_key"} \subseteq Plain
        /\ {"lock", "logout", "change", "login", "unlock", "touch"} \subseteq Plain
    BY DEF Plain, Steps, Awaited, OfServer, Reads, Writes
  <1>2. \A s \in Plain : <<s>> \in Seq(Plain)
    OBVIOUS
  <1>3. \A s, u \in Plain : <<s, u>> \in Seq(Plain)
    OBVIOUS
  <1>4. \A s, u, v \in Plain : <<s, u, v>> \in Seq(Plain)
    OBVIOUS
  <1>5. \A s, u, v, w \in Plain : <<s, u, v, w>> \in Seq(Plain)
    OBVIOUS
  <1>6. r \in {"status", "lock", "logout", "set_pin", "login", "unlock", "authorize", "vault",
               "trigger", "identities", "sign"}
    BY DEF Handlers
  <1>7. CASE r = "status"
    <2>1. Handlers["status"] = <<"look">>
      BY DEF Handlers
    <2> QED  BY <1>1, <1>2, <1>7, <2>1
  <1>8. CASE r = "lock"
    <2>1. Handlers["lock"] = <<"lock">>
      BY DEF Handlers
    <2> QED  BY <1>1, <1>2, <1>8, <2>1
  <1>9. CASE r = "logout"
    <2>1. Handlers["logout"] = <<"logout">>
      BY DEF Handlers
    <2> QED  BY <1>1, <1>2, <1>9, <2>1
  <1>10. CASE r = "set_pin"
    <2>1. Handlers["set_pin"] = <<"change">>
      BY DEF Handlers
    <2> QED  BY <1>1, <1>2, <1>10, <2>1
  <1>11. CASE r = "login"
    <2>1. Handlers["login"] = <<"backoff", "login">>
      BY DEF Handlers
    <2> QED  BY <1>1, <1>3, <1>11, <2>1
  <1>12. CASE r = "unlock"
    <2>1. Handlers["unlock"] = <<"backoff", "unlock">>
      BY DEF Handlers
    <2> QED  BY <1>1, <1>3, <1>12, <2>1
  <1>13. CASE r = "authorize"
    <2>1. Handlers["authorize"] = <<"login_gate", "needs_unlock", "change">>
      BY DEF Handlers
    <2> QED  BY <1>1, <1>4, <1>13, <2>1
  <1>14. CASE r = "vault"
    <2>1. Handlers["vault"] = <<"touch", "gate", "granted", "look">>
      BY DEF Handlers
    <2> QED  BY <1>1, <1>5, <1>14, <2>1
  <1>15. CASE r = "trigger"
    <2>1. Handlers["trigger"] = <<"touch", "gate", "granted", "trigger">>
      BY DEF Handlers
    <2> QED  BY <1>1, <1>5, <1>15, <2>1
  <1>16. CASE r = "identities"
    <2>1. Handlers["identities"] = <<"ssh_gate", "look">>
      BY DEF Handlers
    <2> QED  BY <1>1, <1>3, <1>16, <2>1
  <1>17. CASE r = "sign"
    <2>1. Handlers["sign"] = <<"ssh_gate", "ssh_granted", "sign_key">>
      BY DEF Handlers
    <2> QED  BY <1>1, <1>4, <1>17, <2>1
  <1> QED  BY <1>6, <1>7, <1>8, <1>9, <1>10, <1>11, <1>12, <1>13, <1>14, <1>15, <1>16, <1>17

LEMMA RemainsType ==
    ASSUME TypeOK, NEW t \in Tasks, todo[t] # <<>>, NEW r \in Remains(t, Head(todo[t]))
    PROVE  r \in Seq(Steps)
  <1>1. Tail(todo[t]) \in Seq(Steps)
    BY HeadTailProperties DEF TypeOK
  <1> QED  BY <1>1, ContinueType, EmptySeq DEF Remains

-----------------------------------------------------------------------------
(* The parts of the type invariant that one step may disturb.                *)
QueueOK == /\ queue \in Seq(Tasks) /\ IsInjective(queue)
           /\ \A i \in DOMAIN queue : At(queue[i], Reads \cup Writes)

LEMMA VaultType ==
    ASSUME vault \in {"out", "locked", "unlocked"}, idle \in BOOLEAN, NEW step
    PROVE  VaultAfter(step) \in {"out", "locked", "unlocked"} /\ IdleAfter(step) \in BOOLEAN
  BY DEF VaultAfter, IdleAfter

\* The tasks of the queue are not the one that steps, which alone changes
LEMMA QueueStays ==
    ASSUME TypeOK, UNCHANGED queue,
           \A i \in DOMAIN queue : todo'[queue[i]] = todo[queue[i]]
    PROVE  QueueOK'
  BY DEF TypeOK, QueueOK, At

LEMMA Elsewhere ==
    ASSUME TypeOK, NEW t \in Tasks, ~Contains(queue, t)
    PROVE  \A i \in DOMAIN queue : queue[i] # t
  BY LenProperties DEF Contains, TypeOK

LEMMA NotQueued ==
    ASSUME TypeOK, NEW t \in Tasks, ~At(t, Reads \cup Writes)
    PROVE  \A i \in DOMAIN queue : queue[i] # t
  BY DEF TypeOK

(* The end of a wait for the lock, at once or from the queue.                *)
LEMMA TakeKeeps ==
    ASSUME LockInv, NEW t \in Tasks, At(t, Reads \cup Writes), Take(t), UNCHANGED hung
    PROVE  /\ todo' \in [Tasks -> Seq(Steps)]
           /\ \A u \in Tasks \ {t} : todo'[u] = todo[u]
           /\ holds' \in [Tasks -> {"none", "read", "write"}]
           /\ vault' \in {"out", "locked", "unlocked"} /\ idle' \in BOOLEAN /\ hung' \in BOOLEAN
           /\ GuardsAwait'
  <1> DEFINE step == Head(todo[t])
  <1>1. holds[t] = "none"
    BY DEF LockInv, GuardsAwait, At, Awaited, Reads, Writes, OfServer
  <1>2. PICK r \in Remains(t, step) : todo' = [todo EXCEPT ![t] = r]
    BY DEF Take
  <1>3. r \in Seq(Steps)
    BY RemainsType DEF LockInv, At
  <1>4. todo' \in [Tasks -> Seq(Steps)] /\ todo'[t] = r /\ \A u \in Tasks \ {t} : todo'[u] = todo[u]
    BY <1>2, <1>3 DEF LockInv, TypeOK
  <1>5. CASE step \in Kept /\ Passes(step)
    <2>1. holds' = [holds EXCEPT ![t] = Guard(step)]
      BY <1>5 DEF Take
    <2>2. r \in Continue(step, Tail(todo[t]))
      BY <1>5 DEF Remains
    <2>3. Tail(todo[t]) \in Seq(Steps)
      BY HeadTailProperties DEF LockInv, TypeOK, At
    <2>4. r # <<>> /\ Head(r) \in Awaited
      BY <1>5, <2>2, <2>3, KeptAwaits
    <2>5. holds' \in [Tasks -> {"none", "read", "write"}]
      BY <2>1 DEF LockInv, TypeOK, Guard
    <2>6. \A u \in Tasks \ {t} : holds'[u] = holds[u]
      BY <2>1 DEF LockInv, TypeOK
    <2>7. GuardsAwait'
      BY <1>4, <2>4, <2>6 DEF LockInv, GuardsAwait, At
    <2> QED  BY <1>4, <2>5, <2>7, VaultType DEF Take, LockInv, TypeOK
  <1>6. CASE ~(step \in Kept /\ Passes(step))
    <2>1. holds' = holds
      BY <1>6 DEF Take
    <2>2. GuardsAwait'
      BY <1>1, <1>4, <2>1 DEF LockInv, GuardsAwait, At
    <2> QED  BY <1>4, <2>1, <2>2, VaultType DEF Take, LockInv, TypeOK
  <1> QED  BY <1>5, <1>6

LEMMA AskKeeps ==
    ASSUME LockInv, NEW t \in Tasks, Ask(t)
    PROVE  LockInv'
  <1>1. CASE queue = <<>> /\ Take(t) /\ UNCHANGED queue
    <2>1. QueueOK'
      <3>1. DOMAIN queue = {}
        BY <1>1
      <3> QED  BY <1>1, <3>1, QueueStays DEF LockInv
    <2> QED  BY <1>1, <2>1, TakeKeeps DEF Ask, LockInv, TypeOK, QueueOK
  <1>2. CASE queue' = Append(queue, t) /\ UNCHANGED <<holds, todo, vault, idle>>
    <2>1. /\ queue' \in Seq(Tasks) /\ DOMAIN queue' = 1..(Len(queue) + 1)
          /\ DOMAIN queue = 1..Len(queue) /\ Len(queue) \in Nat
          /\ queue'[Len(queue) + 1] = t /\ \A i \in 1..Len(queue) : queue'[i] = queue[i]
      BY <1>2, AppendProperties, LenProperties DEF LockInv, TypeOK
    <2>2. \A i \in 1..Len(queue) : queue[i] # t
      BY <2>1, Elsewhere DEF Ask, LockInv
    <2>3. \A i \in DOMAIN queue' : i = Len(queue) + 1 \/ i \in DOMAIN queue
      BY <2>1
    <2>4. IsInjective(queue')
      <3> SUFFICES ASSUME NEW a \in DOMAIN queue', NEW b \in DOMAIN queue', queue'[a] = queue'[b]
                   PROVE  a = b
        BY DEF IsInjective
      <3>1. CASE a \in DOMAIN queue /\ b \in DOMAIN queue
        <4>1. queue[a] = queue[b]
          BY <2>1, <3>1
        <4> QED  BY <3>1, <4>1 DEF LockInv, TypeOK, IsInjective
      <3> QED  BY <2>1, <2>2, <2>3, <3>1
    <2>5. \A i \in DOMAIN queue' : At(queue[i], Reads \cup Writes)'
      <3> SUFFICES ASSUME NEW i \in DOMAIN queue' PROVE At(queue[i], Reads \cup Writes)'
        OBVIOUS
      <3>1. CASE i = Len(queue) + 1
        BY <1>2, <2>1, <3>1 DEF Ask, At
      <3>2. CASE i \in DOMAIN queue
        <4>1. At(queue[i], Reads \cup Writes) /\ queue'[i] = queue[i]
          BY <2>1, <3>2 DEF LockInv, TypeOK
        <4> QED  BY <1>2, <4>1 DEF At
      <3> QED  BY <2>3, <3>1, <3>2
    <2> QED  BY <1>2, <2>1, <2>4, <2>5 DEF Ask, LockInv, TypeOK, GuardsAwait, At
  <1> QED  BY <1>1, <1>2 DEF Ask

LEMMA GrantKeeps ==
    ASSUME LockInv, NEW t \in Tasks, Grant(t)
    PROVE  LockInv'
  <1>1. /\ queue' \in Seq(Tasks) /\ Len(queue') = Len(queue) - 1 /\ Len(queue) \in Nat \ {0}
        /\ DOMAIN queue' = 1..(Len(queue) - 1) /\ DOMAIN queue = 1..Len(queue)
        /\ \A i \in DOMAIN queue' : queue'[i] = queue[i + 1]
        /\ queue[1] = t
    BY HeadTailProperties, LenProperties, EmptySeq DEF Grant, LockInv, TypeOK
  <1>2. At(t, Reads \cup Writes) /\ 1 \in DOMAIN queue
    <2>1. 1 \in DOMAIN queue
      BY <1>1
    <2> QED  BY <1>1, <2>1 DEF LockInv, TypeOK
  <1>3. \A i \in DOMAIN queue' : i + 1 \in DOMAIN queue /\ i + 1 # 1 /\ i \in Int
    BY <1>1
  <1>4. /\ IsInjective(queue')
        /\ \A i \in DOMAIN queue' : queue'[i] \in Tasks \ {t}
    <2>1. ASSUME NEW a \in DOMAIN queue', NEW b \in DOMAIN queue', queue'[a] = queue'[b]
          PROVE  a = b
      <3>1. queue[a + 1] = queue[b + 1]
        BY <1>1, <2>1
      <3>2. a + 1 = b + 1
        BY <1>3, <3>1 DEF LockInv, TypeOK, IsInjective
      <3> QED  BY <1>3, <3>2
    <2>2. ASSUME NEW i \in DOMAIN queue' PROVE queue'[i] \in Tasks \ {t}
      <3>1. queue[i + 1] # queue[1]
        BY <1>2, <1>3 DEF LockInv, TypeOK, IsInjective
      <3>2. queue[i + 1] \in Tasks
        BY <1>3, ElementOfSeq, LenProperties DEF LockInv, TypeOK
      <3> QED  BY <1>1, <3>1, <3>2
    <2> QED  BY <2>1, <2>2 DEF IsInjective
  <1>5. Take(t) /\ UNCHANGED hung
    BY DEF Grant
  <1>6. \A i \in DOMAIN queue' : At(queue[i], Reads \cup Writes)'
    <2>1. ASSUME NEW i \in DOMAIN queue' PROVE At(queue[i], Reads \cup Writes)'
      <3>1. queue'[i] = queue[i + 1] /\ i + 1 \in DOMAIN queue
        BY <1>1, <1>3
      <3>2. todo'[queue'[i]] = todo[queue[i + 1]]
        BY <1>2, <1>4, <1>5, <3>1, TakeKeeps
      <3> QED  BY <3>1, <3>2 DEF LockInv, TypeOK, At
    <2> QED  BY <2>1
  <1> QED  BY <1>1, <1>2, <1>4, <1>5, <1>6, TakeKeeps DEF LockInv, TypeOK

LEMMA ResumeKeeps ==
    ASSUME LockInv, NEW t \in Tasks, At(t, Awaited \cup OfUser), Resume(t)
    PROVE  LockInv'
  <1> DEFINE step == Head(todo[t])
  <1>1. PICK r \in Remains(t, step) :
          \/ \E s \in AtRest : todo' = [todo EXCEPT ![t] = r, ![s] = <<"sync_now">>]
          \/ todo' = [todo EXCEPT ![t] = r]
    BY DEF Resume
  <1>2. r \in Seq(Steps) /\ <<"sync_now">> \in Seq(Steps)
    <2>1. "sync_now" \in Steps
      BY DEF Steps, Reads
    <2> QED  BY <2>1, RemainsType DEF LockInv, At
  <1>3. \A s \in AtRest : s \in Tasks /\ todo[s] = <<>>
    BY DEF AtRest, Tasks
  <1>4. todo' \in [Tasks -> Seq(Steps)]
    BY <1>1, <1>2, <1>3 DEF LockInv, TypeOK
  <1>5. \A u \in Tasks : u # t /\ todo[u] # <<>> => todo'[u] = todo[u]
    BY <1>1, <1>3 DEF LockInv, TypeOK
  <1>6. ~At(t, Reads \cup Writes)
    BY DEF At, Awaited, OfUser, OfServer, Reads, Writes
  <1>7. QueueOK'
    <2>1. \A i \in DOMAIN queue : queue[i] \in Tasks /\ queue[i] # t /\ todo[queue[i]] # <<>>
      BY <1>6 DEF LockInv, TypeOK, At
    <2> QED  BY <1>5, <2>1, QueueStays DEF Resume, LockInv
  <1>8. holds' \in [Tasks -> {"none", "read", "write"}]
    BY DEF Resume, LockInv, TypeOK
  <1>9. GuardsAwait'
    <2>1. ASSUME NEW u \in Tasks, holds'[u] # "none" PROVE At(u, Awaited)'
      <3>1. u # t /\ holds[u] # "none"
        BY <2>1 DEF Resume, LockInv, TypeOK
      <3>2. At(u, Awaited)
        BY <3>1 DEF LockInv, GuardsAwait
      <3> QED  BY <1>5, <3>1, <3>2 DEF At
    <2> QED  BY <2>1 DEF GuardsAwait
  <1> QED  BY <1>4, <1>7, <1>8, <1>9, VaultType DEF Resume, LockInv, TypeOK, QueueOK

LEMMA BeginKeeps ==
    ASSUME LockInv, NEW t \in Tasks, NEW steps \in Seq(Steps), Begin(t, steps)
    PROVE  LockInv'
  <1>1. ~At(t, Reads \cup Writes) /\ ~At(t, Awaited)
    BY DEF Begin, At
  <1>2. todo' \in [Tasks -> Seq(Steps)] /\ \A u \in Tasks \ {t} : todo'[u] = todo[u]
    BY DEF Begin, LockInv, TypeOK
  <1>3. QueueOK'
    <2>1. \A i \in DOMAIN queue : queue[i] \in Tasks \ {t}
      BY <1>1 DEF LockInv, TypeOK
    <2> QED  BY <1>2, <2>1, QueueStays DEF Begin, LockInv
  <1>4. GuardsAwait'
    BY <1>1, <1>2 DEF Begin, LockInv, GuardsAwait, At
  <1> QED  BY <1>2, <1>3, <1>4 DEF Begin, LockInv, TypeOK, QueueOK

-----------------------------------------------------------------------------
LEMMA StartsFree == Init => LockInv
  <1> SUFFICES ASSUME Init PROVE LockInv
    OBVIOUS
  <1>1. queue \in Seq(Tasks) /\ IsInjective(queue) /\ DOMAIN queue = {}
    BY EmptySeq DEF Init, IsInjective
  <1>2. todo \in [Tasks -> Seq(Steps)]
    BY EmptySeq DEF Init
  <1> QED  BY <1>1, <1>2 DEF Init, LockInv, TypeOK, GuardsAwait

LEMMA NextKeepsLock == LockInv /\ [Next]_vars => LockInv'
  <1> SUFFICES ASSUME LockInv, [Next]_vars PROVE LockInv'
    OBVIOUS
  <1>1. ASSUME NEW c \in Callers, Request(c) PROVE LockInv'
    <2>1. PICK r \in Requests[c] : Begin(c, Handlers[r])
      BY <1>1 DEF Request
    <2>2. r \in DOMAIN Handlers /\ c \in Tasks
      BY LockAssumption DEF Tasks
    <2> QED  BY <2>1, <2>2, HandlersType, PlainSeq, BeginKeeps
  <1>2. CASE AutoLock \/ StartSync
    <2>1. {"idle_check", "idle_lock", "sync"} \subseteq Steps
      BY DEF Steps, Reads, Writes
    <2>2. <<"idle_check", "idle_lock">> \in Seq(Steps) /\ <<"sync">> \in Seq(Steps)
      BY <2>1
    <2>3. locker \in Tasks /\ Syncs \subseteq Tasks
      BY DEF Tasks
    <2> QED  BY <1>2, <2>2, <2>3, BeginKeeps DEF AutoLock, StartSync
  <1>3. ASSUME NEW t \in Tasks, Proceed(t) \/ UserAnswers(t) PROVE LockInv'
    <2>1. CASE ServerAnswers(t) \/ Refreshed(t) \/ UserAnswers(t)
      <3>1. At(t, Awaited \cup OfUser) /\ Resume(t)
        BY <2>1 DEF ServerAnswers, Refreshed, UserAnswers, At, Awaited
      <3> QED  BY <3>1, ResumeKeeps
    <2> QED  BY <1>3, <2>1, AskKeeps, GrantKeeps DEF Proceed
  <1>4. CASE TimePasses \/ ServerHangs \/ UNCHANGED vars
    BY <1>4 DEF TimePasses, ServerHangs, vars, LockInv, TypeOK, GuardsAwait, At
  <1> QED  BY <1>1, <1>2, <1>3, <1>4 DEF Next

(* Every queue of waiters, every list of awaits and every guard is of its    *)
(* type, and the lock queues a task once and for a request of its own.       *)
(* SharedState.                                                              *)
THEOREM LockTypeCorrect == Spec => []TypeOK
  BY StartsFree, NextKeepsLock, PTL DEF Spec, LockInv

(* No task that waits for the lock or for the user keeps a guard, whatever   *)
(* is requested: so nobody waits for a task that waits for the lock, and an  *)
(* unanswered prompt stops nobody.  attempt_approval, handle_unlock.         *)
THEOREM NobodyWaitsWithAGuard == Spec => []WaitingHoldsNothing
  <1>1. LockInv => WaitingHoldsNothing
    BY DEF LockInv, TypeOK, GuardsAwait, WaitingHoldsNothing, At, Awaited, OfServer, OfUser, Reads, Writes
  <1> QED  BY <1>1, StartsFree, NextKeepsLock, PTL DEF Spec

-----------------------------------------------------------------------------
(* What a step saw before it asked the server.                               *)

\* A task comes to ask the server only at the head of what it has left
AsksLast == \A t \in Tasks : todo[t] # <<>> => Tail(todo[t]) \in Seq(Plain)

\* and with a guard, that of a writer where it goes on to change the vault
ToWrite == {"bootstrap", "refresh", "authenticate"}
AsksWithGuard ==
    \A t \in Tasks : /\ At(t, Awaited) => holds[t] # "none"
                     /\ At(t, ToWrite) => holds[t] = "write"

WriterAlone ==
    \A t, u \in Tasks : t # u /\ holds[t] = "write" => holds[u] = "none"

CheckedInv == AsksLast /\ AsksWithGuard /\ WriterAlone /\ CheckedStaysTrue

LEMMA FormTail ==
    ASSUME NEW step, NEW rest \in Seq(Plain), NEW r, Form(step, rest, r), r # <<>>
    PROVE  /\ Tail(r) \in Seq(Plain)
           /\ step \notin Kept => Head(r) \in Plain
  <1>1. Denied(rest) \in Seq(Plain) /\ rest \in Seq(Steps)
    <2>1. "look" \in Plain
      BY DEF Plain, Steps, Awaited, OfServer, Reads
    <2> QED  BY <2>1, PlainSeq, EmptySeq DEF Denied
  <1>2. Heads(step) \subseteq Steps /\ Plain \subseteq Steps
    BY DEF Heads, Plain, Awaited, Steps
  <1>3. \A s : Head(<<s>>) = s /\ Tail(<<s>>) = <<>>
    OBVIOUS
  <1>4. \A s \in Steps, q \in Seq(Steps) : Head(<<s>> \o q) = s /\ Tail(<<s>> \o q) = q
    <2> SUFFICES ASSUME NEW s \in Steps, NEW q \in Seq(Steps)
                 PROVE  Head(<<s>> \o q) = s /\ Tail(<<s>> \o q) = q
      OBVIOUS
    <2>1. <<s>> \in Seq(Steps) /\ Len(<<s>>) = 1 /\ <<s>>[1] = s
      OBVIOUS
    <2> QED  BY <2>1
  <1>5. \A s, u \in Steps : Head(<<s, u>> \o rest) = s /\ Tail(<<s, u>> \o rest) = <<u>> \o rest
    <2> SUFFICES ASSUME NEW s \in Steps, NEW u \in Steps
                 PROVE  Head(<<s, u>> \o rest) = s /\ Tail(<<s, u>> \o rest) = <<u>> \o rest
      OBVIOUS
    <2> QED  BY <1>1
  <1>6. CASE r \in {rest, Denied(rest)}
    BY <1>1, <1>6, PlainSeq
  <1>7. ASSUME NEW s \in Heads(step), r \in {<<s>>, <<s>> \o rest, <<s>> \o Denied(rest)}
        PROVE  Head(r) = s /\ Tail(r) \in Seq(Plain)
    <2>1. CASE r = <<s>>
      BY <1>3, <2>1, EmptySeq
    <2>2. CASE r = <<s>> \o rest
      BY <1>1, <1>2, <1>4, <2>2
    <2>3. CASE r = <<s>> \o Denied(rest)
      BY <1>1, <1>2, <1>4, <2>3, PlainSeq
    <2> QED  BY <1>7, <2>1, <2>2, <2>3
  <1>8. ASSUME NEW s \in Heads(step), NEW u \in Plain, r = <<s, u>> \o rest
        PROVE  Head(r) = s /\ Tail(r) \in Seq(Plain)
    <2>1. <<u>> \o rest \in Seq(Plain)
      OBVIOUS
    <2> QED  BY <1>2, <1>5, <1>8, <2>1
  <1> QED  BY <1>6, <1>7, <1>8 DEF Form, Heads

LEMMA RemainsForm ==
    ASSUME AsksLast, NEW t \in Tasks, todo[t] # <<>>,
           NEW r \in Remains(t, Head(todo[t])), r # <<>>
    PROVE  /\ Tail(r) \in Seq(Plain)
           /\ ~(Head(todo[t]) \in Kept /\ Passes(Head(todo[t]))) => Head(r) \in Plain
           /\ r \in Continue(Head(todo[t]), Tail(todo[t])) /\ Passes(Head(todo[t]))
  BY ContinueForm, FormTail DEF Remains, AsksLast

\* Where the steps that keep a guard go on to, and with which guard
LEMMA KeptLeadsTo ==
    ASSUME NEW step \in Kept, NEW rest \in Seq(Steps), NEW r \in Continue(step, rest)
    PROVE  /\ Head(r) \in {"bootstrap", "refresh"} => step = "unlock"
           /\ Head(r) = "authenticate" => step = "login"
           /\ Head(r) = "triggered" => step = "trigger"
           /\ Head(r) = "fetching" => step \in {"sync", "sync_now"}
  <1>1. \A s : Head(<<s>>) = s
    OBVIOUS
  <1>2. \A s \in Steps : Head(<<s>> \o rest) = s
    BY Prefixed
  <1>3. {"bootstrap", "refresh", "verifying", "reverifying"} \subseteq Steps
    BY DEF Steps, OfServer
  <1>4. CASE step = "unlock"
    <2>1. r \in {<<"bootstrap">> \o rest, <<"refresh">> \o rest, <<"refused">>}
      BY <1>4 DEF Continue
    <2> QED  BY <1>1, <1>2, <1>3, <1>4, <2>1
  <1>5. CASE step = "verify"
    <2>1. r = <<"verifying">> \o rest
      BY <1>5 DEF Continue
    <2> QED  BY <1>2, <1>3, <2>1
  <1>6. CASE step = "reverify"
    <2>1. r = <<"reverifying">> \o rest
      BY <1>6 DEF Continue
    <2> QED  BY <1>2, <1>3, <2>1
  <1>7. CASE step = "login"
    <2>1. r \in {<<"authenticate">>, <<"refused">>}
      BY <1>7 DEF Continue
    <2> QED  BY <1>1, <1>7, <2>1
  <1>8. CASE step = "trigger"
    <2>1. r = <<"triggered">>
      BY <1>8 DEF Continue
    <2> QED  BY <1>1, <1>8, <2>1
  <1>9. CASE step \in {"sync", "sync_now"}
    <2>1. r = <<"fetching">>
      BY <1>9 DEF Continue
    <2> QED  BY <1>1, <1>9, <2>1
  <1> QED  BY <1>4, <1>5, <1>6, <1>7, <1>8, <1>9 DEF Kept

LEMMA TakeKeepsChecked ==
    ASSUME LockInv, CheckedInv, NEW t \in Tasks, At(t, Reads \cup Writes), Take(t)
    PROVE  CheckedInv'
  <1> DEFINE step == Head(todo[t])
  <1>1. holds[t] = "none" /\ todo[t] # <<>> /\ step \in Reads \cup Writes
    BY DEF LockInv, GuardsAwait, At, Awaited, Reads, Writes, OfServer
  <1>2. PICK r \in Remains(t, step) : todo' = [todo EXCEPT ![t] = r]
    BY DEF Take
  <1>3. todo'[t] = r /\ \A u \in Tasks \ {t} : todo'[u] = todo[u]
    BY <1>2 DEF LockInv, TypeOK
  <1>4. /\ \A u \in Tasks \ {t} : holds'[u] = holds[u]
        /\ holds'[t] = IF step \in Kept /\ Passes(step) THEN Guard(step) ELSE "none"
    BY <1>1 DEF Take, LockInv, TypeOK
  <1>5. r # <<>> => /\ Tail(r) \in Seq(Plain)
                    /\ ~(step \in Kept /\ Passes(step)) => Head(r) \in Plain
                    /\ r \in Continue(step, Tail(todo[t])) /\ Passes(step)
    BY <1>1, RemainsForm DEF CheckedInv
  <1>6. Tail(todo[t]) \in Seq(Steps)
    BY <1>1, HeadTailProperties DEF LockInv, TypeOK
  <1>7. AsksLast'
    BY <1>3, <1>5 DEF CheckedInv, AsksLast
  \* A writer is alone; a reader changes nothing of the vault
  <1>8. step \in Writes => \A u \in Tasks : holds[u] = "none"
    BY DEF Take, Compatible, Reads, Writes
  <1>9. step \in Reads => vault' = vault /\ \A u \in Tasks : holds[u] \in {"none", "read"}
    BY DEF Take, Compatible, Reads, VaultAfter
  <1>10. WriterAlone'
    BY <1>1, <1>4, <1>8, <1>9 DEF WriterAlone, Guard, Writes, Reads
  <1>11. r # <<>> /\ Head(r) \in Awaited => step \in Kept /\ Passes(step)
    BY <1>5 DEF Plain
  <1>12. r # <<>> /\ step \in Kept =>
            /\ Head(r) \in {"bootstrap", "refresh"} => step = "unlock"
            /\ Head(r) = "authenticate" => step = "login"
            /\ Head(r) = "triggered" => step = "trigger"
            /\ Head(r) = "fetching" => step \in {"sync", "sync_now"}
    BY <1>5, <1>6, KeptLeadsTo
  <1>13. AsksWithGuard'
    <2> SUFFICES ASSUME NEW u \in Tasks
                 PROVE  /\ At(u, Awaited)' => holds'[u] # "none"
                        /\ At(u, ToWrite)' => holds'[u] = "write"
      BY DEF AsksWithGuard
    <2>1. CASE u # t
      BY <2>1, <1>3, <1>4 DEF CheckedInv, AsksWithGuard, At
    <2>2. CASE u = t
      <3>1. ToWrite \subseteq Awaited
        BY DEF ToWrite, Awaited, OfServer
      <3>2. At(t, Awaited)' => holds'[t] = Guard(step)
        BY <1>3, <1>4, <1>11 DEF At
      <3>3. At(t, ToWrite)' => step \in {"unlock", "login"}
        BY <1>3, <1>11, <1>12, <3>1 DEF At, ToWrite
      <3>4. At(t, ToWrite)' => At(t, Awaited)'
        BY <3>1 DEF At
      <3> QED  BY <2>2, <3>2, <3>3, <3>4 DEF Guard, Reads
    <2> QED  BY <2>1, <2>2
  <1>14. CheckedStaysTrue'
    <2>1. ASSUME NEW u \in Tasks \ {t}, At(u, Awaited)'
          PROVE  At(u, Awaited) /\ todo'[u] = todo[u] /\ vault' = vault
      <3>1. At(u, Awaited) /\ todo'[u] = todo[u]
        BY <1>3, <2>1 DEF At
      <3>2. step \in Reads
        BY <1>1, <1>8, <3>1 DEF CheckedInv, AsksWithGuard
      <3> QED  BY <1>9, <3>1, <3>2
    <2>2. ASSUME At(t, Awaited)'
          PROVE  /\ Passes(step) /\ vault' = vault
                 /\ Head(todo'[t]) \in {"bootstrap", "refresh"} => step = "unlock"
                 /\ Head(todo'[t]) = "authenticate" => step = "login"
                 /\ Head(todo'[t]) = "triggered" => step = "trigger"
                 /\ Head(todo'[t]) = "fetching" => step \in {"sync", "sync_now"}
      BY <1>3, <1>11, <1>12, <2>2 DEF At, Take, Kept, VaultAfter
    <2>3. {"bootstrap", "refresh", "authenticate", "triggered", "fetching"} \subseteq Awaited
      BY DEF Awaited, OfServer
    <2>4. ASSUME NEW u \in Tasks \ {t}
          PROVE  /\ At(u, {"bootstrap", "refresh"})' => vault' = "locked"
                 /\ At(u, {"authenticate"})' => vault' = "out"
                 /\ At(u, {"triggered"})' => vault' = "unlocked"
                 /\ At(u, {"fetching"})' => vault' # "out"
      BY <2>1, <2>3 DEF At, CheckedInv, CheckedStaysTrue
    <2>5. /\ At(t, {"bootstrap", "refresh"})' => vault' = "locked"
          /\ At(t, {"authenticate"})' => vault' = "out"
          /\ At(t, {"triggered"})' => vault' = "unlocked"
          /\ At(t, {"fetching"})' => vault' # "out"
      <3>1. /\ At(t, {"bootstrap", "refresh"})' => vault' = vault /\ Passes("unlock")
            /\ At(t, {"authenticate"})' => vault' = vault /\ Passes("login")
            /\ At(t, {"triggered"})' => vault' = vault /\ Passes("trigger")
            /\ At(t, {"fetching"})' => vault' = vault /\ (Passes("sync") \/ Passes("sync_now"))
        BY <2>2, <2>3 DEF At
      <3> QED  BY <3>1 DEF Passes
    <2> QED  BY <2>4, <2>5 DEF CheckedStaysTrue
  <1> QED  BY <1>7, <1>10, <1>13, <1>14 DEF CheckedInv

LEMMA ResumeKeepsChecked ==
    ASSUME LockInv, CheckedInv, NEW t \in Tasks, At(t, Awaited \cup OfUser), Resume(t)
    PROVE  CheckedInv'
  <1> DEFINE step == Head(todo[t])
  <1>1. todo[t] # <<>> /\ step \in Awaited \cup OfUser /\ step \notin Kept
    BY DEF At, Awaited, OfUser, OfServer, Kept
  <1>2. PICK r \in Remains(t, step) :
          \/ \E s \in AtRest : todo' = [todo EXCEPT ![t] = r, ![s] = <<"sync_now">>]
          \/ todo' = [todo EXCEPT ![t] = r]
    BY DEF Resume
  <1>3. r # <<>> => Tail(r) \in Seq(Plain) /\ Head(r) \in Plain
    BY <1>1, RemainsForm DEF CheckedInv
  <1>4. "sync_now" \in Plain /\ Head(<<"sync_now">>) = "sync_now" /\ Tail(<<"sync_now">>) = <<>>
    BY DEF Plain, Steps, Reads, Awaited, OfServer
  <1>5. \A s \in AtRest : s \in Tasks /\ todo[s] = <<>>
    BY DEF AtRest, Tasks
  <1>6. \A u \in Tasks : todo'[u] \in {todo[u], r, <<"sync_now">>}
    BY <1>2, <1>5 DEF LockInv, TypeOK
  <1>7. todo'[t] = r
    BY <1>1, <1>2, <1>5 DEF LockInv, TypeOK
  <1>8. AsksLast'
    BY <1>3, <1>4, <1>6, EmptySeq DEF CheckedInv, AsksLast
  <1>9. holds' = [holds EXCEPT ![t] = "none"] /\ vault' = VaultAfter(step)
    BY DEF Resume
  <1>10. WriterAlone'
    BY <1>9 DEF CheckedInv, WriterAlone, LockInv, TypeOK
  \* Whoever asks the server now did so before
  <1>11. \A u \in Tasks : At(u, Awaited)' => u # t /\ todo'[u] = todo[u] /\ holds'[u] = holds[u]
    <2> SUFFICES ASSUME NEW u \in Tasks, At(u, Awaited)'
                 PROVE  u # t /\ todo'[u] = todo[u] /\ holds'[u] = holds[u]
      OBVIOUS
    <2>1. todo'[u] # <<>> /\ Head(todo'[u]) \notin Plain
      BY DEF At, Plain
    <2>2. u # t /\ todo'[u] = todo[u]
      BY <1>3, <1>4, <1>6, <1>7, <2>1
    <2> QED  BY <1>9, <2>2 DEF LockInv, TypeOK
  <1>12. ToWrite \subseteq Awaited
         /\ {"bootstrap", "refresh", "authenticate", "triggered", "fetching"} \subseteq Awaited
    BY DEF ToWrite, Awaited, OfServer
  <1>13. AsksWithGuard'
    BY <1>11, <1>12 DEF CheckedInv, AsksWithGuard, At
  <1>14. CheckedStaysTrue'
    <2>1. CASE step \in ToWrite
      <3>1. holds[t] = "write"
        BY <1>1, <2>1 DEF CheckedInv, AsksWithGuard, At
      <3>2. \A u \in Tasks : ~At(u, Awaited)'
        BY <1>11, <3>1 DEF CheckedInv, AsksWithGuard, WriterAlone, At
      <3> QED  BY <1>12, <3>2 DEF CheckedStaysTrue, At
    <2>2. CASE step \notin ToWrite
      <3>1. vault' = vault
        BY <1>1, <1>9, <2>2 DEF ToWrite, VaultAfter, Awaited, OfServer, OfUser
      <3> QED  BY <1>11, <1>12, <3>1 DEF CheckedInv, CheckedStaysTrue, At
    <2> QED  BY <2>1, <2>2
  <1> QED  BY <1>8, <1>10, <1>13, <1>14 DEF CheckedInv

LEMMA BeginKeepsChecked ==
    ASSUME LockInv, CheckedInv, NEW t \in Tasks, NEW steps \in Seq(Plain), Begin(t, steps)
    PROVE  CheckedInv'
  <1>1. todo'[t] = steps /\ \A u \in Tasks \ {t} : todo'[u] = todo[u]
    BY DEF Begin, LockInv, TypeOK
  <1>2. UNCHANGED <<holds, vault>>
    BY DEF Begin
  <1>3. ~At(t, Awaited)'
    BY <1>1, PlainSeq DEF At, Plain
  <1>4. AsksLast'
    BY <1>1, PlainSeq DEF CheckedInv, AsksLast
  <1>5. WriterAlone'
    BY <1>2 DEF CheckedInv, WriterAlone
  <1>6. ToWrite \subseteq Awaited
         /\ {"bootstrap", "refresh", "authenticate", "triggered", "fetching"} \subseteq Awaited
    BY DEF ToWrite, Awaited, OfServer
  <1>7. AsksWithGuard' /\ CheckedStaysTrue'
    BY <1>1, <1>2, <1>3, <1>6 DEF CheckedInv, AsksWithGuard, CheckedStaysTrue, At
  <1> QED  BY <1>4, <1>5, <1>7 DEF CheckedInv

LEMMA StartsChecked == Init => CheckedInv
  BY DEF Init, CheckedInv, AsksLast, AsksWithGuard, WriterAlone, CheckedStaysTrue, At

LEMMA SameKeepsChecked ==
    ASSUME CheckedInv, UNCHANGED <<todo, holds, vault>>
    PROVE  CheckedInv'
  BY DEF CheckedInv, AsksLast, AsksWithGuard, WriterAlone, CheckedStaysTrue, At

LEMMA NextKeepsChecked == LockInv /\ CheckedInv /\ [Next]_vars => CheckedInv'
  <1> SUFFICES ASSUME LockInv, CheckedInv, [Next]_vars PROVE CheckedInv'
    OBVIOUS
  <1>1. ASSUME NEW c \in Callers, Request(c) PROVE CheckedInv'
    <2>1. PICK r \in Requests[c] : Begin(c, Handlers[r])
      BY <1>1 DEF Request
    <2>2. r \in DOMAIN Handlers /\ c \in Tasks
      BY LockAssumption DEF Tasks
    <2> QED  BY <2>1, <2>2, HandlersType, BeginKeepsChecked
  <1>2. CASE AutoLock \/ StartSync
    <2>1. {"idle_check", "idle_lock", "sync"} \subseteq Plain
      BY DEF Plain, Steps, Awaited, OfServer, Reads, Writes
    <2>2. <<"idle_check", "idle_lock">> \in Seq(Plain) /\ <<"sync">> \in Seq(Plain)
      BY <2>1
    <2>3. locker \in Tasks /\ Syncs \subseteq Tasks
      BY DEF Tasks
    <2> QED  BY <1>2, <2>2, <2>3, BeginKeepsChecked DEF AutoLock, StartSync
  <1>3. ASSUME NEW t \in Tasks, Proceed(t) \/ UserAnswers(t) PROVE CheckedInv'
    <2>1. CASE ServerAnswers(t) \/ Refreshed(t) \/ UserAnswers(t)
      <3>1. At(t, Awaited \cup OfUser) /\ Resume(t)
        BY <2>1 DEF ServerAnswers, Refreshed, UserAnswers, At, Awaited
      <3> QED  BY <3>1, ResumeKeepsChecked
    <2>2. CASE Ask(t)
      <3>1. CASE Take(t)
        BY <2>2, <3>1, TakeKeepsChecked DEF Ask
      <3>2. CASE ~Take(t)
        BY <2>2, <3>2, SameKeepsChecked DEF Ask
      <3> QED  BY <3>1, <3>2
    <2>3. CASE Grant(t)
      <3>1. At(t, Reads \cup Writes)
        <4>1. 1 \in DOMAIN queue /\ queue[1] = t
          BY <2>3, HeadTailProperties, LenProperties, EmptySeq DEF Grant, LockInv, TypeOK
        <4> QED  BY <4>1 DEF LockInv, TypeOK
      <3> QED  BY <2>3, <3>1, TakeKeepsChecked DEF Grant
    <2> QED  BY <1>3, <2>1, <2>2, <2>3 DEF Proceed
  <1>4. CASE TimePasses \/ ServerHangs \/ UNCHANGED vars
    BY <1>4, SameKeepsChecked DEF TimePasses, ServerHangs, vars
  <1> QED  BY <1>1, <1>2, <1>3, <1>4 DEF Next

(* What a step saw of the vault before it waited for the server is still so  *)
(* when the answer comes, for any number of callers with any requests: a     *)
(* task asks the server only with a guard, one that goes on to change the    *)
(* vault with the guard of a writer, and a writer is alone.                  *)
(* handle_unlock, handle_login, handle_sync_trigger, background_sync_worker. *)
THEOREM GuardsKeepTheVault == Spec => []CheckedStaysTrue
  <1>1. CheckedInv => CheckedStaysTrue
    BY DEF CheckedInv
  <1> QED  BY <1>1, StartsFree, NextKeepsLock, StartsChecked, NextKeepsChecked, PTL DEF Spec
=============================================================================
