----------------------- MODULE ConnectionServerProofs -----------------------
(* The connection limit of ConnectionServer, for any connections, any limit  *)
(* and any number of requests.                                               *)
EXTENDS ConnectionServer, FiniteSetTheorems, SequenceTheorems, TLAPS

Places == {"none", "handshake", "reading", "dispatch", "returning", "returned"}

LoopTypeOK ==
    /\ backlog \in Seq(Conns)
    /\ permits \in Nat
    /\ task \in [Conns -> Places]
    /\ caller \in [Conns -> Calling \cup {"idle", "done", "failed", "gone"}]

\* A connection waits in the backlog once, before it has a task
QueueOK ==
    /\ \A i \in DOMAIN backlog :
          /\ task[backlog[i]] = "none"
          /\ caller[backlog[i]] # "idle"
          /\ \A j \in DOMAIN backlog : backlog[i] = backlog[j] => i = j
    /\ \A c \in Conns : caller[c] = "idle" => task[c] = "none"

IInv == LoopTypeOK /\ QueueOK /\ PermitsConserved

LEMMA LiveFinite ==
    /\ IsFiniteSet(Live)
    /\ Cardinality(Live) \in Nat
  <1>1. Live \subseteq Conns
    BY DEF Live
  <1>2. IsFiniteSet(Live)
    BY <1>1, ServerAssumption, FS_Subset
  <1> QED  BY <1>2, FS_CardinalityType

LEMMA InitIInv == Init => IInv
  <1> SUFFICES ASSUME Init PROVE IInv
    OBVIOUS
  <1>1. Live = {}
    BY DEF Init, Live
  <1>2. PermitsConserved
    BY <1>1, FS_EmptySet, ServerAssumption DEF Init, PermitsConserved
  <1>3. LoopTypeOK /\ QueueOK
    BY ServerAssumption DEF Init, LoopTypeOK, Places, QueueOK
  <1> QED  BY <1>2, <1>3 DEF IInv

\* A step of the client, which does not make it idle again
LEMMA ClientKeeps ==
    ASSUME IInv, NEW c \in Conns,
           NEW s \in Calling \cup {"done", "failed", "gone"},
           caller' = [caller EXCEPT ![c] = s], caller[c] # "idle",
           backlog' = backlog, permits' = permits, task' = task
    PROVE  IInv'
  <1>1. LoopTypeOK'
    BY DEF IInv, LoopTypeOK
  <1>2. \A d \in Conns : caller'[d] = "idle" <=> caller[d] = "idle"
    BY DEF IInv, LoopTypeOK, Calling
  <1>3. \A i \in DOMAIN backlog : backlog[i] \in Conns
    BY DEF IInv, LoopTypeOK
  <1>4. QueueOK'
    BY <1>2, <1>3 DEF IInv, QueueOK
  <1>5. PermitsConserved'
    BY DEF IInv, PermitsConserved, Live
  <1> QED  BY <1>1, <1>4, <1>5 DEF IInv

\* A step of a task that stays alive
LEMMA TaskKeeps ==
    ASSUME IInv, NEW c \in Conns, NEW p \in Places \ {"none"},
           task[c] # "none", task' = [task EXCEPT ![c] = p],
           backlog' = backlog, permits' = permits, caller' = caller
    PROVE  IInv'
  <1>1. LoopTypeOK'
    BY DEF IInv, LoopTypeOK
  <1>2. \A d \in Conns : task'[d] = "none" <=> task[d] = "none"
    BY DEF IInv, LoopTypeOK
  <1>3. \A i \in DOMAIN backlog : backlog[i] \in Conns
    BY DEF IInv, LoopTypeOK
  <1>4. QueueOK'
    BY <1>2, <1>3 DEF IInv, QueueOK
  <1>5. Live' = Live
    BY <1>2 DEF Live
  <1>6. PermitsConserved'
    BY <1>5 DEF IInv, PermitsConserved
  <1> QED  BY <1>1, <1>4, <1>6 DEF IInv

LEMMA ConnectKeeps ==
    ASSUME IInv, NEW c \in Conns, Connect(c)
    PROVE  IInv'
  <1>1. /\ caller[c] = "idle" /\ backlog' = Append(backlog, c)
        /\ caller' = [caller EXCEPT ![c] = "connected"]
        /\ permits' = permits /\ task' = task
    BY DEF Connect
  <1>2. LoopTypeOK'
    BY <1>1 DEF IInv, LoopTypeOK, Calling
  <1>3. /\ \A i \in DOMAIN backlog : backlog[i] \in Conns
        /\ DOMAIN backlog = 1..Len(backlog) /\ Len(backlog) \in Nat
        /\ DOMAIN backlog' = 1..Len(backlog) + 1
        /\ \A i \in DOMAIN backlog : backlog'[i] = backlog[i]
        /\ backlog'[Len(backlog) + 1] = c
    BY <1>1 DEF IInv, LoopTypeOK
  <1>4. caller \in [Conns -> Calling \cup {"idle", "done", "failed", "gone"}]
    BY DEF IInv, LoopTypeOK
  <1>5. \A i \in DOMAIN backlog : backlog[i] # c
    BY <1>1 DEF IInv, QueueOK
  <1>6. QueueOK'
    <2>1. ASSUME NEW i \in DOMAIN backlog'
          PROVE  /\ task'[backlog'[i]] = "none"
                 /\ caller'[backlog'[i]] # "idle"
                 /\ \A j \in DOMAIN backlog' : backlog'[i] = backlog'[j] => i = j
      <3>1. CASE i \in DOMAIN backlog
        <4>1. task[backlog[i]] = "none" /\ caller[backlog[i]] # "idle"
              /\ \A j \in DOMAIN backlog : backlog[i] = backlog[j] => i = j
          BY <3>1 DEF IInv, QueueOK
        <4> QED  BY <3>1, <4>1, <1>1, <1>3, <1>4, <1>5
      <3>2. CASE i = Len(backlog) + 1
        <4>1. task[c] = "none"
          BY <1>1 DEF IInv, QueueOK
        <4> QED  BY <3>2, <4>1, <1>1, <1>3, <1>4, <1>5
      <3> QED  BY <3>1, <3>2, <1>3
    <2>2. \A d \in Conns : caller'[d] = "idle" => task'[d] = "none"
      BY <1>1, <1>4 DEF IInv, QueueOK
    <2> QED  BY <2>1, <2>2 DEF QueueOK
  <1>7. PermitsConserved'
    BY <1>1 DEF IInv, PermitsConserved, Live
  <1> QED  BY <1>2, <1>6, <1>7 DEF IInv

\* What is left of the backlog when its head is taken out
LEMMA TailKeeps ==
    ASSUME IInv, backlog # <<>>, backlog' = Tail(backlog)
    PROVE  /\ Head(backlog) \in Conns
           /\ task[Head(backlog)] = "none"
           /\ caller[Head(backlog)] # "idle"
           /\ backlog' \in Seq(Conns)
           /\ \A i \in DOMAIN backlog' :
                 /\ backlog'[i] \in Conns
                 /\ backlog'[i] # Head(backlog)
                 /\ task[backlog'[i]] = "none"
                 /\ caller[backlog'[i]] # "idle"
                 /\ \A j \in DOMAIN backlog' : backlog'[i] = backlog'[j] => i = j
  <1>1. /\ backlog \in Seq(Conns) /\ Len(backlog) \in Nat /\ 1 \in DOMAIN backlog
        /\ Head(backlog) = backlog[1]
        /\ DOMAIN backlog = 1..Len(backlog)
        /\ Tail(backlog) \in Seq(Conns)
        /\ DOMAIN Tail(backlog) = 1..Len(backlog) - 1
        /\ \A i \in 1..Len(backlog) - 1 : Tail(backlog)[i] = backlog[i + 1]
    BY DEF IInv, LoopTypeOK
  <1>2. \A i \in DOMAIN backlog :
           /\ backlog[i] \in Conns
           /\ task[backlog[i]] = "none" /\ caller[backlog[i]] # "idle"
           /\ \A j \in DOMAIN backlog : backlog[i] = backlog[j] => i = j
    BY <1>1 DEF IInv, QueueOK
  <1>3. \A i \in DOMAIN backlog' : i + 1 \in DOMAIN backlog /\ i + 1 # 1
                                   /\ backlog'[i] = backlog[i + 1] /\ i \in Nat
    BY <1>1
  <1> QED  BY <1>1, <1>2, <1>3

LEMMA RejectKeeps ==
    ASSUME IInv, Reject
    PROVE  IInv'
  <1>1. /\ backlog # <<>> /\ backlog' = Tail(backlog)
        /\ permits' = permits /\ task' = task /\ caller' = caller
    BY DEF Reject
  <1>2. LoopTypeOK'
    BY <1>1, TailKeeps DEF IInv, LoopTypeOK
  <1>3. QueueOK'
    BY <1>1, TailKeeps DEF IInv, QueueOK
  <1>4. PermitsConserved'
    BY <1>1 DEF IInv, PermitsConserved, Live
  <1> QED  BY <1>2, <1>3, <1>4 DEF IInv

LEMMA SpawnKeeps ==
    ASSUME IInv, Spawn
    PROVE  IInv'
  <1> DEFINE c == Head(backlog)
  <1>1. /\ backlog # <<>> /\ backlog' = Tail(backlog)
        /\ permits > 0 /\ permits' = permits - 1
        /\ task' = [task EXCEPT ![c] = "handshake"] /\ caller' = caller
    BY DEF Spawn
  <1>2. c \in Conns /\ task[c] = "none" /\ caller[c] # "idle"
    BY <1>1, TailKeeps
  <1>3. LoopTypeOK'
    BY <1>1, <1>2, TailKeeps DEF IInv, LoopTypeOK, Places
  <1>4. \A d \in Conns : d # c => task'[d] = task[d]
    BY <1>1 DEF IInv, LoopTypeOK
  <1>5. QueueOK'
    <2>1. \A d \in Conns : caller'[d] = "idle" => task'[d] = "none"
      BY <1>1, <1>2, <1>4 DEF IInv, QueueOK
    <2>2. \A i \in DOMAIN backlog' :
             /\ task'[backlog'[i]] = "none"
             /\ caller'[backlog'[i]] # "idle"
             /\ \A j \in DOMAIN backlog' : backlog'[i] = backlog'[j] => i = j
      BY <1>1, <1>4, TailKeeps
    <2> QED  BY <2>1, <2>2 DEF QueueOK
  <1>6. task'[c] = "handshake"
    BY <1>1, <1>2 DEF IInv, LoopTypeOK
  <1>7. Live' = Live \cup {c} /\ c \notin Live
    BY <1>2, <1>4, <1>6 DEF Live
  <1>8. Cardinality(Live') = Cardinality(Live) + 1
    BY <1>7, LiveFinite, FS_AddElement
  <1>9. PermitsConserved'
    BY <1>1, <1>8, LiveFinite DEF IInv, LoopTypeOK, PermitsConserved
  <1> QED  BY <1>3, <1>5, <1>9 DEF IInv

LEMMA DropPermitKeeps ==
    ASSUME IInv, NEW c \in Conns, DropPermit(c)
    PROVE  IInv'
  <1>1. /\ task[c] = "returned" /\ task' = [task EXCEPT ![c] = "none"]
        /\ permits' = permits + 1 /\ backlog' = backlog /\ caller' = caller
    BY DEF DropPermit
  <1>2. LoopTypeOK'
    BY <1>1 DEF IInv, LoopTypeOK, Places
  <1>3. /\ task'[c] = "none"
        /\ \A d \in Conns : d # c => task'[d] = task[d]
        /\ \A i \in DOMAIN backlog : backlog[i] \in Conns
    BY <1>1 DEF IInv, LoopTypeOK
  <1>4. QueueOK'
    BY <1>1, <1>3 DEF IInv, QueueOK
  <1>5. Live' = Live \ {c} /\ c \in Live
    BY <1>1, <1>3 DEF Live
  <1>6. Cardinality(Live') = Cardinality(Live) - 1
    BY <1>5, LiveFinite, FS_RemoveElement
  <1>7. PermitsConserved'
    BY <1>1, <1>6, LiveFinite DEF IInv, LoopTypeOK, PermitsConserved
  <1> QED  BY <1>2, <1>4, <1>7 DEF IInv

LEMMA InterruptedKeeps ==
    ASSUME IInv, Interrupted
    PROVE  IInv'
  <1>1. /\ backlog' = <<>> /\ permits' = MAX_CONNECTIONS
        /\ task' = [c \in Conns |-> "none"] /\ caller' = caller
    BY DEF Interrupted
  <1>2. Live' = {}
    BY <1>1 DEF Live
  <1>3. PermitsConserved'
    BY <1>1, <1>2, FS_EmptySet, ServerAssumption DEF PermitsConserved
  <1>4. LoopTypeOK' /\ QueueOK'
    BY <1>1, ServerAssumption DEF IInv, LoopTypeOK, Places, QueueOK
  <1> QED  BY <1>3, <1>4 DEF IInv

LEMMA CallerSteps ==
    ASSUME IInv, NEW c \in Conns, Send(c) \/ Progress(c) \/ Killed(c)
    PROVE  IInv'
  <1>1. /\ backlog' = backlog /\ permits' = permits /\ task' = task
        /\ caller[c] # "idle"
    BY DEF Send, SendKey, Ask, Return, Progress, KeyReceived, AnswerReceived,
           CallFails, Killed, ClientOpen, Calling, serverVars, loopVars
  <1>2. \E s \in Calling \cup {"done", "failed", "gone"} :
           caller' = [caller EXCEPT ![c] = s]
    <2>1. CASE Send(c)
      BY <2>1 DEF Send, SendKey, Ask, Return, Calling
    <2>2. CASE KeyReceived(c) \/ CallFails(c) \/ Killed(c)
      BY <2>2 DEF KeyReceived, CallFails, Killed, Calling
    <2>3. CASE AnswerReceived(c)
      BY <2>3 DEF AnswerReceived, Calling
    <2> QED  BY <2>1, <2>2, <2>3 DEF Progress
  <1> QED  BY <1>1, <1>2, ClientKeeps

LEMMA ServeSteps ==
    ASSUME IInv, NEW c \in Conns, Serve(c)
    PROVE  IInv'
  <1>1. CASE DropPermit(c)
    BY <1>1, DropPermitKeeps
  <1>2. ASSUME \/ handshake_server(c) \/ Disconnected(c) \/ Timeout(c)
               \/ ReadRequest(c) \/ Respond(c) \/ DropStream(c)
        PROVE  IInv'
    <2>1. /\ task[c] # "none" /\ backlog' = backlog /\ permits' = permits
          /\ caller' = caller
      BY <1>2 DEF handshake_server, Disconnected, Timeout,
                  ReadRequest, Respond, DropStream, loopVars
    <2>2. \E p \in Places \ {"none"} : task' = [task EXCEPT ![c] = p]
      BY <1>2 DEF handshake_server, Disconnected, Timeout,
                  ReadRequest, Respond, DropStream, Leave, Places
    <2> QED  BY <2>1, <2>2, TaskKeeps
  <1> QED  BY <1>1, <1>2 DEF Serve

LEMMA NextKeeps == IInv /\ [Next]_vars => IInv'
  <1> SUFFICES ASSUME IInv, [Next]_vars PROVE IInv'
    OBVIOUS
  <1>1. CASE UNCHANGED vars
    BY <1>1 DEF vars, loopVars, IInv, LoopTypeOK, QueueOK, PermitsConserved, Live
  <1>2. CASE Accept
    BY <1>2, RejectKeeps, SpawnKeeps DEF Accept
  <1>3. CASE Interrupted
    BY <1>3, InterruptedKeeps
  <1>4. ASSUME NEW c \in Conns,
               Connect(c) \/ Send(c) \/ Progress(c) \/ Killed(c) \/ Serve(c)
        PROVE  IInv'
    BY <1>4, ConnectKeeps, CallerSteps, ServeSteps
  <1> QED  BY <1>1, <1>2, <1>3, <1>4 DEF Next

(* Whatever the clients do and however their connections end, no permit of   *)
(* conn_semaphore is lost or given back twice: run (server.rs),              *)
(* handle_client.                                                            *)
THEOREM NoSlotLeaks == Spec => []PermitsConserved
  <1>1. IInv => PermitsConserved
    BY DEF IInv
  <1> QED  BY <1>1, InitIInv, NextKeeps, PTL DEF Spec

-----------------------------------------------------------------------------
(* What is under way on a stream: a public key, if at all, before any frame, *)
(* so that an end that reads a request or an answer finds a frame.           *)
Frames == FrameType(Keys, 0..MaxRequests)
KeyThenFrames(s) == \A i \in DOMAIN s : i # 1 => s[i] \in Frames

StreamTypeOK ==
    /\ serving \in BOOLEAN
    /\ server_open \in [Conns -> BOOLEAN]
    /\ asked \in [Conns -> 0..MaxRequests]
    /\ server_codec \in [Conns -> CodecType(Keys)]
    /\ client_codec \in [Conns -> CodecType(Keys)]
    /\ to_server \in [Conns -> Seq(Bytes)]
    /\ to_client \in [Conns -> Seq(Bytes)]

ToServerOK(c) ==
    /\ KeyThenFrames(to_server[c])
    /\ task[c] \in {"reading", "dispatch"} => to_server[c] \in Seq(Frames)
    /\ caller[c] \in {"idle", "connected"} =>
          to_server[c] = <<>> /\ task[c] \notin {"reading", "dispatch"}

Unanswered(c) == to_client[c] = <<>> /\ caller[c] \notin {"ready", "waiting"}
ToClientOK(c) ==
    /\ KeyThenFrames(to_client[c])
    /\ caller[c] \in {"ready", "waiting"} => to_client[c] \in Seq(Frames)
    /\ caller[c] = "idle" \/ task[c] = "handshake" => Unanswered(c)

WireInv ==
    /\ StreamTypeOK
    /\ \A c \in Conns : ToServerOK(c) /\ ToClientOK(c)
    /\ \A i \in DOMAIN backlog : Unanswered(backlog[i])

LEMMA FramesAreBytes == Seq(Frames) \subseteq Seq(Bytes) /\ Frames \subseteq Bytes
  BY DEF Bytes, Frames

LEMMA AppendFrame ==
    ASSUME NEW s \in Seq(Bytes), NEW f \in Frames
    PROVE  /\ Append(s, f) \in Seq(Bytes)
           /\ KeyThenFrames(s) => KeyThenFrames(Append(s, f))
           /\ s \in Seq(Frames) => Append(s, f) \in Seq(Frames)
  <1>1. f \in Bytes
    BY FramesAreBytes
  <1>2. ASSUME KeyThenFrames(s), NEW i \in DOMAIN Append(s, f), i # 1
        PROVE  Append(s, f)[i] \in Frames
    <2>1. DOMAIN s = 1..Len(s) /\ Len(s) \in Nat /\ i \in 1..Len(s) + 1
      OBVIOUS
    <2>2. CASE i \in DOMAIN s
      <3>1. Append(s, f)[i] = s[i]
        BY <2>1, <2>2
      <3> QED  BY <1>2, <2>2, <3>1 DEF KeyThenFrames
    <2>3. CASE i = Len(s) + 1
      <3>1. Append(s, f)[i] = f
        BY <2>1, <2>3
      <3> QED  BY <3>1
    <2> QED  BY <2>1, <2>2, <2>3
  <1> QED  BY <1>1, <1>2 DEF KeyThenFrames

LEMMA Retyped ==
    ASSUME NEW S, NEW T, NEW s \in Seq(S), \A i \in 1..Len(s) : s[i] \in T
    PROVE  s \in Seq(T)
  <1>1. Len(s) \in Nat /\ s \in [1..Len(s) -> S]
    BY LenProperties
  <1>2. s \in [1..Len(s) -> T]
    BY <1>1
  <1> QED  BY <1>1, <1>2, SeqDef

LEMMA TakeHead ==
    ASSUME NEW s \in Seq(Bytes), s # <<>>, KeyThenFrames(s)
    PROVE  Tail(s) \in Seq(Frames) /\ Tail(s) \in Seq(Bytes) /\ KeyThenFrames(Tail(s))
  <1>1. /\ Len(s) \in Nat \ {0} /\ DOMAIN s = 1..Len(s)
        /\ Tail(s) \in Seq(Bytes) /\ Len(Tail(s)) = Len(s) - 1
        /\ DOMAIN Tail(s) = 1..Len(s) - 1
        /\ \A i \in 1..Len(s) - 1 : Tail(s)[i] = s[i + 1]
    OBVIOUS
  <1>2. ASSUME NEW i \in 1..Len(s) - 1 PROVE Tail(s)[i] \in Frames
    <2>1. i + 1 \in DOMAIN s /\ i + 1 # 1 /\ Tail(s)[i] = s[i + 1]
      BY <1>1
    <2> QED  BY <2>1 DEF KeyThenFrames
  <1>3. Tail(s) \in Seq(Frames)
    BY <1>1, <1>2, Retyped
  <1> QED  BY <1>1, <1>2, <1>3 DEF KeyThenFrames

LEMMA OneKey ==
    /\ Append(<<>>, PublicKey) \in Seq(Bytes)
    /\ KeyThenFrames(Append(<<>>, PublicKey))
    /\ <<>> \in Seq(Frames) /\ <<>> \in Seq(Bytes) /\ KeyThenFrames(<<>>)
  BY DEF KeyThenFrames, Bytes

LEMMA CountersWrap ==
    ASSUME NEW n \in Counters
    PROVE  (n + 1) % CounterMod \in Counters
  BY CounterAssumption DEF Counters

LEMMA CodecSteps ==
    ASSUME NEW codec \in CodecType(Keys)
    PROVE  /\ next_nonce(codec) \in CodecType(Keys)
           /\ \A msg \in 0..MaxRequests : Encode(codec, msg) \in Frames
           /\ \A f \in Frames : AfterCounter(codec, f) \in CodecType(Keys)
  <1>1. codec.send_counter \in Counters /\ codec.send_cipher \in Keys
    BY DEF CodecType
  <1>2. next_nonce(codec) \in CodecType(Keys)
    BY <1>1, CountersWrap DEF next_nonce, CodecType
  <1>3. ASSUME NEW msg \in 0..MaxRequests PROVE Encode(codec, msg) \in Frames
    BY <1>1 DEF Encode, Frames, FrameType
  <1>4. ASSUME NEW f \in Frames PROVE AfterCounter(codec, f) \in CodecType(Keys)
    <2>1. f.counter \in Counters
      BY DEF Frames, FrameType
    <2> QED  BY <2>1, CountersWrap DEF AfterCounter, CodecType
  <1> QED  BY <1>2, <1>3, <1>4

LEMMA NewCodecs ==
    ASSUME NEW c \in Conns
    PROVE  new_server(c) \in CodecType(Keys) /\ new_client(c) \in CodecType(Keys)
  <1>1. 0 \in Counters
    BY CounterAssumption DEF Counters
  <1>2. \A l \in Labels : <<c, l>> \in Keys
    BY DEF Keys
  <1> QED  BY <1>1, <1>2 DEF new_server, new_client, derive_directional_keys, CodecType, Labels

LEMMA InitWire == Init => WireInv
  <1> SUFFICES ASSUME Init PROVE WireInv
    OBVIOUS
  <1>1. StreamTypeOK
    BY NewCodecs, OneKey, ServerAssumption DEF Init, StreamTypeOK
  <1>2. \A c \in Conns : ToServerOK(c) /\ ToClientOK(c)
    BY OneKey DEF Init, ToServerOK, ToClientOK, Unanswered
  <1> QED  BY <1>1, <1>2 DEF Init, WireInv

\* A step that concerns the stream of c alone, and leaves the backlog alone
Elsewhere(c) ==
    /\ UNCHANGED <<serving, backlog>>
    /\ \A d \in Conns \ {c} : /\ task'[d] = task[d] /\ caller'[d] = caller[d]
                              /\ to_server'[d] = to_server[d] /\ to_client'[d] = to_client[d]

LEMMA StreamStep ==
    ASSUME IInv, WireInv, NEW c \in Conns, Elsewhere(c), StreamTypeOK',
           ToServerOK(c)', ToClientOK(c)',
           Unanswered(c)' \/ \A i \in DOMAIN backlog : backlog[i] # c
    PROVE  WireInv'
  <1>1. ASSUME NEW d \in Conns PROVE ToServerOK(d)' /\ ToClientOK(d)'
    <2>1. CASE d = c
      BY <2>1
    <2>2. CASE d # c
      BY <2>2 DEF Elsewhere, WireInv, ToServerOK, ToClientOK, Unanswered
    <2> QED  BY <2>1, <2>2
  <1>2. ASSUME NEW i \in DOMAIN backlog PROVE Unanswered(backlog[i])'
    <2>1. backlog[i] \in Conns
      BY DEF IInv, LoopTypeOK
    <2>2. CASE backlog[i] = c
      BY <2>2 DEF Elsewhere, Unanswered
    <2>3. CASE backlog[i] # c
      BY <2>1, <2>3 DEF Elsewhere, WireInv, Unanswered
    <2> QED  BY <2>2, <2>3
  <1>3. \A i \in DOMAIN backlog' : Unanswered(backlog[i])'
    BY <1>2 DEF Elsewhere
  <1> QED  BY <1>1, <1>3 DEF WireInv

LEMMA BacklogHasNoTask ==
    ASSUME IInv, NEW c \in Conns, task[c] # "none" \/ caller[c] = "idle"
    PROVE  \A i \in DOMAIN backlog : backlog[i] # c
  BY DEF IInv, QueueOK

LEMMA Local ==
    ASSUME IInv, WireInv, NEW c \in Conns, UNCHANGED <<serving, backlog>>,
           \/ UNCHANGED task \/ \E p : task' = [task EXCEPT ![c] = p],
           \/ UNCHANGED caller \/ \E p : caller' = [caller EXCEPT ![c] = p],
           \/ UNCHANGED to_server \/ \E p : to_server' = [to_server EXCEPT ![c] = p],
           \/ UNCHANGED to_client \/ \E p : to_client' = [to_client EXCEPT ![c] = p]
    PROVE  Elsewhere(c)
  BY DEF Elsewhere, IInv, LoopTypeOK, WireInv, StreamTypeOK

LEMMA ClientSteps ==
    ASSUME IInv, WireInv, NEW c \in Conns, Send(c) \/ Progress(c) \/ Killed(c)
    PROVE  WireInv'
  <1>1. /\ StreamTypeOK /\ ToServerOK(c) /\ ToClientOK(c)
        /\ task \in [Conns -> Places]
        /\ caller \in [Conns -> Calling \cup {"idle", "done", "failed", "gone"}]
    BY DEF WireInv, IInv, LoopTypeOK
  <1>2. to_server[c] \in Seq(Bytes) /\ to_client[c] \in Seq(Bytes) /\ asked[c] \in 0..MaxRequests
        /\ client_codec[c] \in CodecType(Keys) /\ MaxRequests \in Nat
    BY <1>1, ServerAssumption DEF StreamTypeOK
  <1>3. CASE SendKey(c)
    <2>1. /\ to_server[c] = <<>> /\ task[c] \notin {"reading", "dispatch"}
          /\ to_server' = [to_server EXCEPT ![c] = Append(@, PublicKey)]
          /\ caller' = [caller EXCEPT ![c] = "keyed"] /\ caller[c] = "connected"
          /\ UNCHANGED <<serverVars, to_client, client_codec, asked>>
      BY <1>1, <1>3 DEF SendKey, Write, ToServerOK
    <2>2. Elsewhere(c)
      BY <2>1, Local DEF serverVars, loopVars
    <2>3. StreamTypeOK'
      BY <1>1, <2>1, OneKey DEF StreamTypeOK, serverVars, loopVars
    <2>4. ToServerOK(c)' /\ ToClientOK(c)'
      BY <1>1, <2>1, OneKey DEF ToServerOK, ToClientOK, Unanswered, StreamTypeOK, serverVars, loopVars
    <2>5. Unanswered(c)' \/ \A i \in DOMAIN backlog : backlog[i] # c
      BY <1>1, <2>1 DEF WireInv, Unanswered
    <2> QED  BY <2>2, <2>3, <2>4, <2>5, StreamStep
  <1>4. CASE KeyReceived(c)
    <2>1. /\ to_client[c] # <<>> /\ to_client' = [to_client EXCEPT ![c] = Tail(@)]
          /\ caller' = [caller EXCEPT ![c] = "ready"] /\ caller[c] = "keyed"
          /\ UNCHANGED <<serverVars, to_server, client_codec, asked>>
      BY <1>4 DEF KeyReceived
    <2>2. Tail(to_client[c]) \in Seq(Frames) /\ Tail(to_client[c]) \in Seq(Bytes)
          /\ KeyThenFrames(Tail(to_client[c]))
      BY <1>1, <1>2, <2>1, TakeHead DEF ToClientOK
    <2>3. Elsewhere(c)
      BY <2>1, Local DEF serverVars, loopVars
    <2>4. StreamTypeOK'
      BY <1>1, <2>1, <2>2 DEF StreamTypeOK, serverVars, loopVars
    <2>5. task[c] # "handshake" /\ \A i \in DOMAIN backlog : backlog[i] # c
      BY <1>1, <2>1 DEF WireInv, Unanswered, ToClientOK
    <2>6. ToServerOK(c)' /\ ToClientOK(c)'
      BY <1>1, <2>1, <2>2, <2>5 DEF ToServerOK, ToClientOK, Unanswered, StreamTypeOK, serverVars, loopVars
    <2> QED  BY <2>3, <2>4, <2>5, <2>6, StreamStep
  <1>5. CASE Ask(c)
    <2> DEFINE f == Encode(client_codec[c], asked[c] + 1)
    <2>1. /\ caller[c] = "ready" /\ asked[c] + 1 \in 0..MaxRequests
          /\ to_server' = [to_server EXCEPT ![c] = Append(@, f)]
          /\ client_codec' = [client_codec EXCEPT ![c] = next_nonce(@)]
          /\ asked' = [asked EXCEPT ![c] = @ + 1]
          /\ caller' = [caller EXCEPT ![c] = "waiting"]
          /\ UNCHANGED <<serverVars, to_client>>
      BY <1>2, <1>5 DEF Ask, Write
    <2>2. f \in Frames /\ next_nonce(client_codec[c]) \in CodecType(Keys)
      BY <1>2, <2>1, CodecSteps
    <2> HIDE DEF f
    <2>3. Elsewhere(c)
      BY <2>1, Local DEF serverVars, loopVars
    <2>4. /\ Append(to_server[c], f) \in Seq(Bytes)
          /\ KeyThenFrames(to_server[c]) => KeyThenFrames(Append(to_server[c], f))
          /\ to_server[c] \in Seq(Frames) => Append(to_server[c], f) \in Seq(Frames)
      BY <1>2, <2>2, AppendFrame
    <2>5. StreamTypeOK'
      BY <1>1, <2>1, <2>2, <2>4 DEF StreamTypeOK, serverVars, loopVars
    <2>6. ToServerOK(c)' /\ ToClientOK(c)'
      BY <1>1, <2>1, <2>4 DEF ToServerOK, ToClientOK, Unanswered, StreamTypeOK, serverVars, loopVars
    <2>7. \A i \in DOMAIN backlog : backlog[i] # c
      BY <2>1 DEF WireInv, Unanswered
    <2> QED  BY <2>3, <2>5, <2>6, <2>7, StreamStep
  <1>6. CASE AnswerReceived(c)
    <2>1. /\ caller[c] = "waiting" /\ to_client[c] # <<>>
          /\ to_client' = [to_client EXCEPT ![c] = Tail(@)]
          /\ \/ UNCHANGED client_codec
             \/ client_codec' = [client_codec EXCEPT
                                   ![c] = AfterCounter(client_codec[c], Head(to_client[c]))]
          /\ \E s \in {"failed", "ready"} : caller' = [caller EXCEPT ![c] = s]
          /\ UNCHANGED <<serverVars, to_server, asked>>
      BY <1>6 DEF AnswerReceived
    <2>2. to_client[c] \in Seq(Frames) /\ Head(to_client[c]) \in Frames
      BY <1>1, <2>1 DEF ToClientOK
    <2>3. AfterCounter(client_codec[c], Head(to_client[c])) \in CodecType(Keys)
      BY <1>2, <2>2, CodecSteps
    <2>4. Tail(to_client[c]) \in Seq(Frames) /\ Tail(to_client[c]) \in Seq(Bytes)
          /\ KeyThenFrames(Tail(to_client[c]))
      BY <1>1, <1>2, <2>1, TakeHead DEF ToClientOK
    <2>5. Elsewhere(c)
      BY <2>1, Local DEF serverVars, loopVars
    <2>6. StreamTypeOK'
      BY <1>1, <2>1, <2>3, <2>4 DEF StreamTypeOK, serverVars, loopVars
    <2>7. task[c] # "handshake" /\ \A i \in DOMAIN backlog : backlog[i] # c
      BY <1>1, <2>1 DEF WireInv, Unanswered, ToClientOK
    <2>8. ToServerOK(c)' /\ ToClientOK(c)'
      BY <1>1, <2>1, <2>4, <2>7 DEF ToServerOK, ToClientOK, Unanswered, StreamTypeOK, serverVars, loopVars
    <2> QED  BY <2>5, <2>6, <2>7, <2>8, StreamStep
  <1>7. CASE Return(c) \/ CallFails(c) \/ Killed(c)
    <2>1. /\ caller[c] # "idle"
          /\ \E s \in {"done", "failed", "gone"} : caller' = [caller EXCEPT ![c] = s]
          /\ UNCHANGED <<serverVars, to_server, to_client, client_codec, asked>>
      BY <1>7 DEF Return, CallFails, Killed, ClientOpen, Calling
    <2>2. Elsewhere(c)
      BY <2>1, Local DEF serverVars, loopVars
    <2>3. StreamTypeOK'
      BY <1>1, <2>1 DEF StreamTypeOK, serverVars, loopVars
    <2>4. ToServerOK(c)' /\ ToClientOK(c)'
      BY <1>1, <2>1 DEF ToServerOK, ToClientOK, Unanswered, serverVars, loopVars
    <2>5. Unanswered(c)' \/ \A i \in DOMAIN backlog : backlog[i] # c
      BY <1>1, <2>1 DEF WireInv, Unanswered
    <2> QED  BY <2>2, <2>3, <2>4, <2>5, StreamStep
  <1> QED  BY <1>3, <1>4, <1>5, <1>6, <1>7 DEF Send, Progress

LEMMA TaskSteps ==
    ASSUME IInv, WireInv, NEW c \in Conns, Serve(c)
    PROVE  WireInv'
  <1>1. /\ StreamTypeOK /\ ToServerOK(c) /\ ToClientOK(c)
        /\ task \in [Conns -> Places]
        /\ caller \in [Conns -> Calling \cup {"idle", "done", "failed", "gone"}]
    BY DEF WireInv, IInv, LoopTypeOK
  <1>2. to_server[c] \in Seq(Bytes) /\ to_client[c] \in Seq(Bytes) /\ asked[c] \in 0..MaxRequests
        /\ server_codec[c] \in CodecType(Keys)
    BY <1>1 DEF StreamTypeOK
  <1>3. \A i \in DOMAIN backlog : backlog[i] # c
    BY BacklogHasNoTask DEF Serve, handshake_server, Disconnected, Timeout, ReadRequest, Respond,
         DropStream, DropPermit
  <1>4. CASE handshake_server(c)
    <2>1. /\ task[c] = "handshake" /\ to_server[c] # <<>>
          /\ to_server' = [to_server EXCEPT ![c] = Tail(@)]
          /\ \/ /\ to_client' = [to_client EXCEPT ![c] = Append(@, PublicKey)]
                /\ task' = [task EXCEPT ![c] = "reading"]
             \/ task' = [task EXCEPT ![c] = "returning"] /\ UNCHANGED to_client
          /\ UNCHANGED <<loopVars, server_open, codecVars, caller, asked>>
      BY <1>4 DEF handshake_server, Leave
    <2>2. /\ caller[c] \notin {"idle", "connected"} /\ Unanswered(c)
          /\ Tail(to_server[c]) \in Seq(Frames) /\ Tail(to_server[c]) \in Seq(Bytes)
          /\ KeyThenFrames(Tail(to_server[c]))
      BY <1>1, <1>2, <2>1, TakeHead DEF ToServerOK, ToClientOK
    <2>3. Elsewhere(c)
      BY <2>1, Local DEF loopVars
    <2>4. StreamTypeOK'
      <3>1. \E t \in {to_client[c], Append(<<>>, PublicKey)} :
              to_client' = [to_client EXCEPT ![c] = t]
        BY <1>1, <2>1, <2>2 DEF Unanswered, StreamTypeOK
      <3>2. to_client' \in [Conns -> Seq(Bytes)]
        BY <1>1, <1>2, <3>1, OneKey DEF StreamTypeOK
      <3> QED  BY <1>1, <2>1, <2>2, <3>2 DEF StreamTypeOK, loopVars, codecVars
    <2>5. ToServerOK(c)' /\ ToClientOK(c)'
      BY <1>1, <2>1, <2>2, OneKey DEF ToServerOK, ToClientOK, Unanswered, StreamTypeOK
    <2> QED  BY <1>3, <2>3, <2>4, <2>5, StreamStep
  <1>5. CASE Disconnected(c) \/ Timeout(c) \/ DropStream(c) \/ DropPermit(c)
    <2>1. /\ \E p \in {"returning", "returned", "none"} : task' = [task EXCEPT ![c] = p]
          /\ server_open' \in {server_open, [server_open EXCEPT ![c] = FALSE]}
          /\ UNCHANGED <<serving, backlog, to_server, to_client, codecVars, caller, asked>>
      BY <1>5 DEF Disconnected, Timeout, DropStream, DropPermit, Leave, loopVars, streamVars
    <2>2. Elsewhere(c)
      BY <2>1, Local
    <2>3. StreamTypeOK'
      BY <1>1, <2>1 DEF StreamTypeOK, codecVars
    <2>4. ToServerOK(c)' /\ ToClientOK(c)'
      BY <1>1, <2>1 DEF ToServerOK, ToClientOK, Unanswered
    <2> QED  BY <1>3, <2>2, <2>3, <2>4, StreamStep
  <1>6. CASE ReadRequest(c)
    <2>1. /\ task[c] = "reading" /\ to_server[c] # <<>>
          /\ to_server' = [to_server EXCEPT ![c] = Tail(@)]
          /\ \/ UNCHANGED server_codec
             \/ server_codec' = [server_codec EXCEPT
                                   ![c] = AfterCounter(server_codec[c], Head(to_server[c]))]
          /\ \E p \in {"returning", "dispatch"} : task' = [task EXCEPT ![c] = p]
          /\ UNCHANGED <<loopVars, server_open, to_client, client_codec, caller, asked>>
      BY <1>6 DEF ReadRequest, Leave
    <2>2. to_server[c] \in Seq(Frames) /\ Head(to_server[c]) \in Frames
          /\ caller[c] \notin {"idle", "connected"}
      BY <1>1, <2>1 DEF ToServerOK
    <2>3. AfterCounter(server_codec[c], Head(to_server[c])) \in CodecType(Keys)
      BY <1>2, <2>2, CodecSteps
    <2>4. Tail(to_server[c]) \in Seq(Frames) /\ Tail(to_server[c]) \in Seq(Bytes)
          /\ KeyThenFrames(Tail(to_server[c]))
      BY <1>1, <1>2, <2>1, TakeHead DEF ToServerOK
    <2>5. Elsewhere(c)
      BY <2>1, Local DEF loopVars
    <2>6. StreamTypeOK'
      BY <1>1, <2>1, <2>3, <2>4 DEF StreamTypeOK, loopVars
    <2>7. ToServerOK(c)' /\ ToClientOK(c)'
      BY <1>1, <2>1, <2>2, <2>4 DEF ToServerOK, ToClientOK, Unanswered, StreamTypeOK
    <2> QED  BY <1>3, <2>5, <2>6, <2>7, StreamStep
  <1>7. CASE Respond(c)
    <2> DEFINE f == Encode(server_codec[c], asked[c])
    <2>1. /\ task[c] = "dispatch"
          /\ server_codec' = [server_codec EXCEPT ![c] = next_nonce(@)]
          /\ \/ /\ to_client' = [to_client EXCEPT ![c] = Append(@, f)]
                /\ task' = [task EXCEPT ![c] = "reading"]
             \/ task' = [task EXCEPT ![c] = "returning"] /\ UNCHANGED to_client
          /\ UNCHANGED <<loopVars, server_open, to_server, client_codec, caller, asked>>
      BY <1>7 DEF Respond, Leave
    <2>2. f \in Frames /\ next_nonce(server_codec[c]) \in CodecType(Keys)
      BY <1>2, CodecSteps
    <2> HIDE DEF f
    <2>3. Elsewhere(c)
      BY <2>1, Local DEF loopVars
    <2>4. /\ Append(to_client[c], f) \in Seq(Bytes)
          /\ KeyThenFrames(to_client[c]) => KeyThenFrames(Append(to_client[c], f))
          /\ to_client[c] \in Seq(Frames) => Append(to_client[c], f) \in Seq(Frames)
      BY <1>2, <2>2, AppendFrame
    <2>5. StreamTypeOK'
      BY <1>1, <2>1, <2>2, <2>4 DEF StreamTypeOK, loopVars
    <2>6. caller[c] # "idle"
      BY <1>1, <2>1 DEF ToServerOK
    <2>7. ToServerOK(c)' /\ ToClientOK(c)'
      BY <1>1, <2>1, <2>4, <2>6 DEF ToServerOK, ToClientOK, Unanswered, StreamTypeOK
    <2> QED  BY <1>3, <2>3, <2>5, <2>7, StreamStep
  <1> QED  BY <1>4, <1>5, <1>6, <1>7 DEF Serve

LEMMA LoopSteps ==
    ASSUME IInv, WireInv, Accept \/ Interrupted \/ \E c \in Conns : Connect(c)
    PROVE  WireInv'
  <1>1. CASE Reject
    <2>1. /\ backlog # <<>> /\ backlog' = Tail(backlog)
          /\ server_open' = [server_open EXCEPT ![Head(backlog)] = FALSE]
          /\ UNCHANGED <<serving, task, to_server, to_client, codecVars, caller, asked>>
      BY <1>1 DEF Reject
    <2>2. \A i \in DOMAIN backlog' : i + 1 \in DOMAIN backlog /\ backlog'[i] = backlog[i + 1]
      BY <2>1 DEF IInv, LoopTypeOK
    <2>3. StreamTypeOK'
      BY <2>1 DEF WireInv, StreamTypeOK, codecVars
    <2> QED  BY <2>1, <2>2, <2>3 DEF WireInv, ToServerOK, ToClientOK, Unanswered
  <1>2. CASE Spawn
    <2>1. /\ backlog # <<>> /\ backlog' = Tail(backlog)
          /\ task' = [task EXCEPT ![Head(backlog)] = "handshake"]
          /\ UNCHANGED <<serving, streamVars, codecVars, caller, asked>>
      BY <1>2 DEF Spawn
    <2>2. /\ \A i \in DOMAIN backlog' : i + 1 \in DOMAIN backlog /\ backlog'[i] = backlog[i + 1]
          /\ 1 \in DOMAIN backlog /\ Head(backlog) = backlog[1]
      BY <2>1 DEF IInv, LoopTypeOK
    <2>3. StreamTypeOK'
      BY <2>1 DEF WireInv, StreamTypeOK, codecVars, streamVars
    <2>4. Unanswered(Head(backlog))
      BY <2>2 DEF WireInv
    <2>5. \A c \in Conns : task'[c] = IF c = Head(backlog) THEN "handshake" ELSE task[c]
      BY <2>1 DEF IInv, LoopTypeOK
    <2>6. \A c \in Conns : ToServerOK(c)' /\ ToClientOK(c)'
      BY <2>1, <2>4, <2>5 DEF WireInv, ToServerOK, ToClientOK, Unanswered, streamVars
    <2>7. \A i \in DOMAIN backlog' : Unanswered(backlog[i])'
      BY <2>1, <2>2 DEF WireInv, Unanswered, streamVars
    <2> QED  BY <2>3, <2>6, <2>7 DEF WireInv
  <1>3. CASE Interrupted
    <2>1. /\ serving' = FALSE /\ backlog' = <<>>
          /\ task' = [c \in Conns |-> "none"] /\ server_open' = [c \in Conns |-> FALSE]
          /\ UNCHANGED <<to_server, to_client, codecVars, caller, asked>>
      BY <1>3 DEF Interrupted
    <2>2. StreamTypeOK'
      BY <2>1 DEF WireInv, StreamTypeOK, codecVars
    <2> QED  BY <2>1, <2>2 DEF WireInv, ToServerOK, ToClientOK, Unanswered
  <1>4. ASSUME NEW c \in Conns, Connect(c) PROVE WireInv'
    <2>1. /\ caller[c] = "idle" /\ backlog' = Append(backlog, c)
          /\ caller' = [caller EXCEPT ![c] = "connected"]
          /\ server_open' = [server_open EXCEPT ![c] = TRUE]
          /\ UNCHANGED <<serving, permits, task, to_server, to_client, codecVars, asked>>
      BY <1>4 DEF Connect
    <2>2. StreamTypeOK'
      BY <2>1 DEF WireInv, StreamTypeOK, codecVars
    <2>3. \A d \in Conns : caller'[d] = IF d = c THEN "connected" ELSE caller[d]
      BY <2>1 DEF IInv, LoopTypeOK
    <2>4. to_client[c] = <<>> /\ to_server[c] = <<>> /\ task[c] = "none"
      BY <2>1 DEF WireInv, ToServerOK, ToClientOK, Unanswered, IInv, QueueOK
    <2>5. ASSUME NEW d \in Conns PROVE ToServerOK(d)' /\ ToClientOK(d)'
      <3>1. ToServerOK(d) /\ ToClientOK(d) /\ UNCHANGED <<task, to_server, to_client>>
        BY <2>1 DEF WireInv
      <3>2. CASE d = c
        BY <2>3, <2>4, <3>1, <3>2, OneKey DEF ToServerOK, ToClientOK
      <3>3. CASE d # c
        BY <2>3, <3>1, <3>3 DEF ToServerOK, ToClientOK, Unanswered
      <3> QED  BY <3>2, <3>3
    <2>6. \A i \in DOMAIN backlog' : backlog'[i] = c \/ (i \in DOMAIN backlog /\ backlog'[i] = backlog[i])
      <3>1. /\ DOMAIN backlog = 1..Len(backlog) /\ Len(backlog) \in Nat
            /\ DOMAIN backlog' = 1..Len(backlog) + 1
            /\ \A i \in DOMAIN backlog : backlog'[i] = backlog[i]
            /\ backlog'[Len(backlog) + 1] = c
        BY <2>1 DEF IInv, LoopTypeOK
      <3>2. \A i \in DOMAIN backlog' : i = Len(backlog) + 1 \/ i \in DOMAIN backlog
        <4>1. \A n \in Nat : \A i \in 1..n + 1 : i = n + 1 \/ i \in 1..n
          OBVIOUS
        <4> QED  BY <3>1, <4>1
      <3>3. ASSUME NEW i \in DOMAIN backlog'
            PROVE  backlog'[i] = c \/ (i \in DOMAIN backlog /\ backlog'[i] = backlog[i])
        <4>1. CASE i = Len(backlog) + 1
          BY <3>1, <4>1
        <4>2. CASE i \in DOMAIN backlog
          BY <3>1, <4>2
        <4> QED  BY <3>2, <4>1, <4>2
      <3> QED  BY <3>3
    <2>7. \A i \in DOMAIN backlog : backlog[i] \in Conns
      BY DEF IInv, LoopTypeOK
    <2>8. ASSUME NEW i \in DOMAIN backlog' PROVE Unanswered(backlog[i])'
      <3>1. CASE backlog'[i] = c
        BY <2>1, <2>3, <2>4, <3>1 DEF Unanswered
      <3>2. CASE i \in DOMAIN backlog /\ backlog'[i] = backlog[i]
        <4>1. Unanswered(backlog[i]) /\ backlog[i] \in Conns
          BY <2>7, <3>2 DEF WireInv
        <4> QED  BY <2>1, <2>3, <3>2, <4>1 DEF Unanswered
      <3> QED  BY <2>6, <3>1, <3>2
    <2> QED  BY <2>2, <2>5, <2>8 DEF WireInv
  <1> QED  BY <1>1, <1>2, <1>3, <1>4 DEF Accept

LEMMA NextKeepsWire == IInv /\ WireInv /\ [Next]_vars => WireInv'
  <1> SUFFICES ASSUME IInv, WireInv, [Next]_vars PROVE WireInv'
    OBVIOUS
  <1>1. CASE UNCHANGED vars
    BY <1>1 DEF vars, loopVars, streamVars, codecVars, WireInv, StreamTypeOK, ToServerOK, ToClientOK,
         Unanswered
  <1>2. CASE Next
    BY <1>2, LoopSteps, ClientSteps, TaskSteps DEF Next
  <1> QED  BY <1>1, <1>2

(* Every end that reads a frame finds one, and the permits stay within the   *)
(* limit: the key exchange comes first in either direction, however the      *)
(* clients and the accept loop interleave.  handshake_server,                *)
(* handshake_client, read_message.                                           *)
THEOREM ServerTypeCorrect == Spec => []TypeOK
  <1>1. IInv /\ WireInv => TypeOK
    BY LiveFinite, ServerAssumption
      DEF IInv, LoopTypeOK, PermitsConserved, WireInv, StreamTypeOK, TypeOK, Places
  <1> QED  BY <1>1, InitIInv, NextKeeps, InitWire, NextKeepsWire, PTL DEF Spec

-----------------------------------------------------------------------------
(* The first call of a connection                                            *)

\* While the service runs, a task that has not returned holds its stream, and
\* so does the backlog
StreamsHeld ==
    serving => /\ \A c \in Conns : task[c] \in {"handshake", "reading", "dispatch", "returning"}
                                     => server_open[c]
               /\ \A i \in DOMAIN backlog : server_open[backlog[i]]

Request(c) == Encode(new_client(c), 1)
Answer(c) == Encode(new_server(c), 1)

Fresh(c) ==
    asked[c] = 0 /\ client_codec[c] = new_client(c) /\ server_codec[c] = new_server(c)

\* The two ends of a connection on the way to its first answer
BeforeKeys(c) ==
    /\ Fresh(c)
    /\ to_server[c] = <<>> /\ to_client[c] = <<>>
    /\ \/ caller[c] = "idle" /\ task[c] = "none"
       \/ caller[c] = "connected" /\ task[c] \in {"none", "handshake"}

KeysUnderWay(c) ==
    /\ Fresh(c)
    /\ caller[c] = "keyed"
    /\ \/ /\ task[c] \in {"none", "handshake"}
          /\ to_server[c] = <<PublicKey>> /\ to_client[c] = <<>>
       \/ /\ task[c] = "reading"
          /\ to_server[c] = <<>> /\ to_client[c] = <<PublicKey>>

Keyed(c) ==
    /\ Fresh(c)
    /\ caller[c] = "ready" /\ task[c] = "reading"
    /\ to_server[c] = <<>> /\ to_client[c] = <<>>

FirstUnderWay(c) ==
    /\ asked[c] = 1 /\ caller[c] = "waiting"
    /\ client_codec[c] = next_nonce(new_client(c))
    /\ \/ /\ task[c] = "reading" /\ server_codec[c] = new_server(c)
          /\ to_server[c] = <<Request(c)>> /\ to_client[c] = <<>>
       \/ /\ task[c] = "dispatch"
          /\ server_codec[c] = AfterCounter(new_server(c), Request(c))
          /\ to_server[c] = <<>> /\ to_client[c] = <<>>
       \/ /\ task[c] = "reading"
          /\ to_server[c] = <<>> /\ to_client[c] = <<Answer(c)>>

PastFirst(c) ==
    \/ asked[c] = 1 /\ caller[c] # "waiting"
    \/ asked[c] > 1
    \/ caller[c] \in {"done", "failed", "gone"}

InPhase(c) ==
    BeforeKeys(c) \/ KeysUnderWay(c) \/ Keyed(c) \/ FirstUnderWay(c) \/ PastFirst(c)

PhaseInv == StreamsHeld /\ (serving => \A c \in Conns \ Stalled : InPhase(c))

\* The first frame in either direction passes the checks of a fresh codec
LEMMA FirstFrames ==
    ASSUME NEW c \in Conns
    PROVE  /\ ~Refused(new_server(c), Request(c)) /\ Decrypts(new_server(c), Request(c))
           /\ ~Refused(next_nonce(new_client(c)), Answer(c))
           /\ Decrypts(next_nonce(new_client(c)), Answer(c))
           /\ Encode(AfterCounter(new_server(c), Request(c)), 1) = Answer(c)
  BY DEF Request, Answer, Refused, Decrypts, Encode, AfterCounter, next_nonce, new_client,
         new_server, derive_directional_keys

Others(c) ==
    \A d \in Conns \ {c} :
        /\ task'[d] = task[d] /\ caller'[d] = caller[d] /\ asked'[d] = asked[d]
        /\ to_server'[d] = to_server[d] /\ to_client'[d] = to_client[d]
        /\ server_codec'[d] = server_codec[d] /\ client_codec'[d] = client_codec[d]

LEMMA PhaseElsewhere ==
    ASSUME NEW c \in Conns, Others(c), NEW d \in Conns \ {c}, InPhase(d)
    PROVE  InPhase(d)'
  BY DEF Others, InPhase, Fresh, BeforeKeys, KeysUnderWay, Keyed, FirstUnderWay, PastFirst

LEMMA PhaseStep ==
    ASSUME PhaseInv, NEW c \in Conns, Others(c), UNCHANGED serving, StreamsHeld',
           serving /\ c \notin Stalled /\ InPhase(c) => InPhase(c)'
    PROVE  PhaseInv'
  <1> SUFFICES ASSUME serving, NEW d \in Conns \ Stalled PROVE InPhase(d)'
    BY DEF PhaseInv
  <1>1. InPhase(d)
    BY DEF PhaseInv
  <1> QED  BY <1>1, PhaseElsewhere

\* Both streams of one connection and the functions of the others
LEMMA OneConnection ==
    ASSUME IInv, WireInv, NEW c \in Conns,
           \/ UNCHANGED task \/ \E p : task' = [task EXCEPT ![c] = p],
           \/ UNCHANGED caller \/ \E p : caller' = [caller EXCEPT ![c] = p],
           \/ UNCHANGED to_server \/ \E p : to_server' = [to_server EXCEPT ![c] = p],
           \/ UNCHANGED to_client \/ \E p : to_client' = [to_client EXCEPT ![c] = p],
           \/ UNCHANGED server_codec \/ \E p : server_codec' = [server_codec EXCEPT ![c] = p],
           \/ UNCHANGED client_codec \/ \E p : client_codec' = [client_codec EXCEPT ![c] = p],
           \/ UNCHANGED asked \/ \E p : asked' = [asked EXCEPT ![c] = p]
    PROVE  Others(c)
  BY DEF Others, IInv, LoopTypeOK, WireInv, StreamTypeOK

LEMMA ClientPhases ==
    ASSUME IInv, WireInv, PhaseInv, NEW c \in Conns, Send(c) \/ Progress(c) \/ Killed(c)
    PROVE  PhaseInv'
  <1>1. /\ task \in [Conns -> Places]
        /\ caller \in [Conns -> Calling \cup {"idle", "done", "failed", "gone"}]
        /\ asked \in [Conns -> 0..MaxRequests] /\ MaxRequests \in Nat
        /\ to_server \in [Conns -> Seq(Bytes)] /\ to_client \in [Conns -> Seq(Bytes)]
        /\ client_codec \in [Conns -> CodecType(Keys)]
    BY ServerAssumption DEF IInv, LoopTypeOK, WireInv, StreamTypeOK
  <1>2. UNCHANGED <<serving, backlog, task, server_open, server_codec>>
    BY DEF Send, Progress, SendKey, Ask, Return, KeyReceived, AnswerReceived, CallFails, Killed,
           serverVars, loopVars
  <1>3. StreamsHeld'
    BY <1>2 DEF PhaseInv, StreamsHeld
  <1>4. CASE SendKey(c)
    <2>1. /\ caller[c] = "connected" /\ caller' = [caller EXCEPT ![c] = "keyed"]
          /\ to_server' = [to_server EXCEPT ![c] = Append(@, PublicKey)]
          /\ UNCHANGED <<to_client, client_codec, asked>>
      BY <1>4 DEF SendKey, Write
    <2>2. caller'[c] = "keyed" /\ to_server'[c] = Append(to_server[c], PublicKey)
      BY <1>1, <2>1
    <2>3. Others(c)
      BY <1>2, <2>1, OneConnection
    <2>4. Append(<<>>, PublicKey) = <<PublicKey>>
      OBVIOUS
    <2>5. InPhase(c) => BeforeKeys(c) \/ PastFirst(c)
      BY <2>1 DEF InPhase, KeysUnderWay, Keyed, FirstUnderWay
    <2>6. BeforeKeys(c) => KeysUnderWay(c)'
      BY <1>2, <2>1, <2>2, <2>4 DEF BeforeKeys, KeysUnderWay, Fresh
    <2>7. PastFirst(c) => PastFirst(c)'
      BY <2>1, <2>2 DEF PastFirst
    <2> QED  BY <1>2, <1>3, <2>3, <2>5, <2>6, <2>7, PhaseStep DEF InPhase
  <1>5. CASE KeyReceived(c)
    <2>1. /\ caller[c] = "keyed" /\ caller' = [caller EXCEPT ![c] = "ready"]
          /\ to_client[c] # <<>> /\ to_client' = [to_client EXCEPT ![c] = Tail(@)]
          /\ UNCHANGED <<to_server, client_codec, asked>>
      BY <1>5 DEF KeyReceived
    <2>2. caller'[c] = "ready" /\ to_client'[c] = Tail(to_client[c])
      BY <1>1, <2>1
    <2>3. Others(c)
      BY <1>2, <2>1, OneConnection
    <2>4. Tail(<<PublicKey>>) = <<>>
      OBVIOUS
    <2>5. InPhase(c) => KeysUnderWay(c) \/ PastFirst(c)
      BY <2>1 DEF InPhase, BeforeKeys, Keyed, FirstUnderWay
    <2>6. KeysUnderWay(c) => Keyed(c)'
      BY <1>2, <2>1, <2>2, <2>4 DEF KeysUnderWay, Keyed, Fresh
    <2>7. PastFirst(c) => PastFirst(c)'
      BY <2>1, <2>2 DEF PastFirst
    <2> QED  BY <1>2, <1>3, <2>3, <2>5, <2>6, <2>7, PhaseStep DEF InPhase
  <1>6. CASE Ask(c)
    <2>1. /\ caller[c] = "ready" /\ caller' = [caller EXCEPT ![c] = "waiting"]
          /\ to_server' = [to_server EXCEPT ![c] = Append(@, Encode(client_codec[c], asked[c] + 1))]
          /\ client_codec' = [client_codec EXCEPT ![c] = next_nonce(@)]
          /\ asked' = [asked EXCEPT ![c] = @ + 1]
          /\ UNCHANGED to_client
      BY <1>6 DEF Ask, Write
    <2>2. /\ caller'[c] = "waiting" /\ asked'[c] = asked[c] + 1 /\ asked[c] \in Nat
          /\ to_server'[c] = Append(to_server[c], Encode(client_codec[c], asked[c] + 1))
          /\ client_codec'[c] = next_nonce(client_codec[c])
      BY <1>1, <2>1
    <2>3. Others(c)
      BY <1>2, <2>1, OneConnection
    <2>4. Append(<<>>, Request(c)) = <<Request(c)>>
      OBVIOUS
    <2>5. InPhase(c) => Keyed(c) \/ PastFirst(c)
      BY <2>1 DEF InPhase, BeforeKeys, KeysUnderWay, FirstUnderWay
    <2>6. Keyed(c) => FirstUnderWay(c)'
      <3> SUFFICES ASSUME Keyed(c) PROVE FirstUnderWay(c)'
        OBVIOUS
      <3>1. asked[c] + 1 = 1 /\ Encode(client_codec[c], asked[c] + 1) = Request(c)
        BY DEF Keyed, Fresh, Request
      <3> QED  BY <1>2, <2>1, <2>2, <2>4, <3>1 DEF Keyed, FirstUnderWay, Fresh, Request
    <2>7. PastFirst(c) => PastFirst(c)'
      BY <2>1, <2>2 DEF PastFirst
    <2> QED  BY <1>2, <1>3, <2>3, <2>5, <2>6, <2>7, PhaseStep DEF InPhase
  <1>7. CASE AnswerReceived(c)
    <2> DEFINE read == ~Refused(client_codec[c], Head(to_client[c]))
                         /\ Decrypts(client_codec[c], Head(to_client[c]))
    <2>1. /\ caller[c] = "waiting" /\ to_client[c] # <<>>
          /\ caller' = [caller EXCEPT ![c] = IF read THEN "ready" ELSE "failed"]
          /\ to_client' = [to_client EXCEPT ![c] = Tail(@)]
          /\ \/ UNCHANGED client_codec
             \/ \E p : client_codec' = [client_codec EXCEPT ![c] = p]
          /\ UNCHANGED <<to_server, asked>>
      BY <1>7 DEF AnswerReceived
    <2>2. caller'[c] \in {"ready", "failed"} /\ asked'[c] = asked[c]
      BY <1>1, <2>1
    <2>3. Others(c)
      BY <1>2, <2>1, OneConnection
    <2>4. InPhase(c) => PastFirst(c)'
      BY <2>1, <2>2 DEF InPhase, BeforeKeys, KeysUnderWay, Keyed, FirstUnderWay, PastFirst
    <2> QED  BY <1>2, <1>3, <2>3, <2>4, PhaseStep DEF InPhase
  <1>8. CASE Return(c) \/ CallFails(c) \/ Killed(c)
    <2>1. /\ \E s \in {"done", "failed", "gone"} : caller' = [caller EXCEPT ![c] = s]
          /\ UNCHANGED <<to_server, to_client, client_codec, asked>>
      BY <1>8 DEF Return, CallFails, Killed
    <2>2. Others(c)
      BY <1>2, <2>1, OneConnection
    <2>3. PastFirst(c)'
      BY <1>1, <2>1 DEF PastFirst
    <2> QED  BY <1>2, <1>3, <2>2, <2>3, PhaseStep DEF InPhase
  <1> QED  BY <1>4, <1>5, <1>6, <1>7, <1>8 DEF Send, Progress

\* A task that does not read the first request, or not as it was sent, serves
\* a connection that is past it
LEMMA TaskPhases ==
    ASSUME IInv, WireInv, PhaseInv, NEW c \in Conns, Serve(c)
    PROVE  PhaseInv'
  <1>1. /\ task \in [Conns -> Places]
        /\ server_open \in [Conns -> BOOLEAN]
        /\ to_server \in [Conns -> Seq(Bytes)] /\ to_client \in [Conns -> Seq(Bytes)]
        /\ server_codec \in [Conns -> CodecType(Keys)]
    BY DEF IInv, LoopTypeOK, WireInv, StreamTypeOK
  <1>2. UNCHANGED <<serving, backlog, caller, asked, client_codec>>
    BY DEF Serve, handshake_server, Disconnected, Timeout, ReadRequest, Respond, DropStream,
           DropPermit, loopVars, codecVars
  <1>3. PastFirst(c) => PastFirst(c)'
    BY <1>2 DEF PastFirst
  <1>4. \A i \in DOMAIN backlog : backlog[i] # c /\ backlog[i] \in Conns
    <2>1. \A i \in DOMAIN backlog : backlog[i] # c
      BY BacklogHasNoTask DEF Serve, handshake_server, Disconnected, Timeout, ReadRequest, Respond,
           DropStream, DropPermit
    <2> QED  BY <2>1 DEF IInv, LoopTypeOK
  <1>5. StreamsHeld'
    <2>1. \/ /\ UNCHANGED server_open
             /\ task[c] \in {"handshake", "reading", "dispatch", "returning"}
          \/ /\ \E p \in {"returned", "none"} : task' = [task EXCEPT ![c] = p]
             /\ server_open' \in {server_open, [server_open EXCEPT ![c] = FALSE]}
      BY DEF Serve, handshake_server, Disconnected, Timeout, ReadRequest, Respond, DropStream,
             DropPermit, streamVars
    <2>2. \A d \in Conns \ {c} : task'[d] = task[d] /\ server_open'[d] = server_open[d]
      BY <1>1, <2>1 DEF Serve, handshake_server, Disconnected, Timeout, ReadRequest, Respond,
             DropStream, DropPermit, Leave
    <2>3. serving /\ task'[c] \in {"handshake", "reading", "dispatch", "returning"} => server_open'[c]
      BY <1>1, <2>1 DEF PhaseInv, StreamsHeld
    <2> QED  BY <1>2, <1>4, <2>2, <2>3 DEF PhaseInv, StreamsHeld
  <1>6. CASE handshake_server(c)
    <2>1. /\ task[c] = "handshake" /\ to_server[c] # <<>>
          /\ to_server' = [to_server EXCEPT ![c] = Tail(@)]
          /\ \/ /\ ClientOpen(c)
                /\ to_client' = [to_client EXCEPT ![c] = Append(@, PublicKey)]
                /\ task' = [task EXCEPT ![c] = "reading"]
             \/ /\ ~ClientOpen(c) /\ UNCHANGED to_client
                /\ task' = [task EXCEPT ![c] = "returning"]
          /\ UNCHANGED server_codec
      BY <1>6 DEF handshake_server, Leave, codecVars
    <2>2. Others(c)
      BY <1>2, <2>1, OneConnection
    <2>3. InPhase(c) => KeysUnderWay(c) \/ PastFirst(c)
      BY <2>1 DEF InPhase, BeforeKeys, Keyed, FirstUnderWay
    <2>4. KeysUnderWay(c) => KeysUnderWay(c)'
      <3> SUFFICES ASSUME KeysUnderWay(c) PROVE KeysUnderWay(c)'
        OBVIOUS
      <3>1. ClientOpen(c) /\ to_server[c] = <<PublicKey>> /\ to_client[c] = <<>> /\ Fresh(c)
        BY <2>1 DEF KeysUnderWay, ClientOpen, Calling
      <3>2. /\ task'[c] = "reading" /\ to_server'[c] = Tail(<<PublicKey>>)
            /\ to_client'[c] = Append(<<>>, PublicKey)
        BY <1>1, <2>1, <3>1
      <3>3. Tail(<<PublicKey>>) = <<>> /\ Append(<<>>, PublicKey) = <<PublicKey>>
        OBVIOUS
      <3> QED  BY <1>2, <2>1, <3>1, <3>2, <3>3 DEF KeysUnderWay, Fresh
    <2> QED  BY <1>2, <1>3, <1>5, <2>2, <2>3, <2>4, PhaseStep DEF InPhase
  <1>7. CASE Disconnected(c)
    <2>1. /\ \E p : task' = [task EXCEPT ![c] = p]
          /\ task[c] \in {"handshake", "reading"} /\ ~ClientOpen(c)
          /\ UNCHANGED <<to_server, to_client, server_codec>>
      BY <1>7 DEF Disconnected, Leave, streamVars, codecVars
    <2>2. Others(c)
      BY <1>2, <2>1, OneConnection
    <2>3. InPhase(c) => PastFirst(c)
      BY <2>1 DEF InPhase, BeforeKeys, KeysUnderWay, Keyed, FirstUnderWay, ClientOpen, Calling
    <2> QED  BY <1>2, <1>3, <1>5, <2>2, <2>3, PhaseStep DEF InPhase
  <1>8. CASE Timeout(c)
    <2>1. /\ \E p : task' = [task EXCEPT ![c] = p]
          /\ c \in Stalled
          /\ UNCHANGED <<to_server, to_client, server_codec>>
      BY <1>8 DEF Timeout, Leave, streamVars, codecVars
    <2>2. Others(c)
      BY <1>2, <2>1, OneConnection
    <2> QED  BY <1>2, <1>5, <2>1, <2>2, PhaseStep
  <1>9. CASE ReadRequest(c)
    <2> DEFINE f == Head(to_server[c])
               read == ~Refused(server_codec[c], f) /\ Decrypts(server_codec[c], f)
    <2>1. /\ task[c] = "reading" /\ to_server[c] # <<>>
          /\ to_server' = [to_server EXCEPT ![c] = Tail(@)]
          /\ server_codec' = IF Refused(server_codec[c], f) THEN server_codec
                             ELSE [server_codec EXCEPT ![c] = AfterCounter(server_codec[c], f)]
          /\ task' = [task EXCEPT ![c] = IF read THEN "dispatch" ELSE "returning"]
          /\ UNCHANGED to_client
      BY <1>9 DEF ReadRequest, Leave
    <2>2. Others(c)
      BY <1>2, <2>1, OneConnection
    <2>3. InPhase(c) => FirstUnderWay(c) \/ PastFirst(c)
      BY <2>1 DEF InPhase, BeforeKeys, KeysUnderWay, Keyed
    <2>4. FirstUnderWay(c) => FirstUnderWay(c)'
      <3> SUFFICES ASSUME FirstUnderWay(c) PROVE FirstUnderWay(c)'
        OBVIOUS
      <3>1. /\ server_codec[c] = new_server(c) /\ to_server[c] = <<Request(c)>>
            /\ to_client[c] = <<>>
        BY <2>1 DEF FirstUnderWay
      <3>2. f = Request(c) /\ Tail(to_server[c]) = <<>>
        BY <3>1
      <3>3. read /\ ~Refused(server_codec[c], f)
        BY <3>1, <3>2, FirstFrames
      <3> HIDE DEF read, f
      <3>4. /\ task'[c] = "dispatch" /\ to_server'[c] = <<>>
            /\ server_codec'[c] = AfterCounter(server_codec[c], f)
        BY <1>1, <2>1, <3>2, <3>3
      <3> QED  BY <1>2, <2>1, <3>1, <3>2, <3>4 DEF FirstUnderWay
    <2> QED  BY <1>2, <1>3, <1>5, <2>2, <2>3, <2>4, PhaseStep DEF InPhase
  <1>10. CASE Respond(c)
    <2>1. /\ task[c] = "dispatch"
          /\ server_codec' = [server_codec EXCEPT ![c] = next_nonce(@)]
          /\ \/ /\ ClientOpen(c)
                /\ to_client' = [to_client EXCEPT ![c] = Append(@, Encode(server_codec[c], asked[c]))]
                /\ task' = [task EXCEPT ![c] = "reading"]
             \/ /\ ~ClientOpen(c) /\ UNCHANGED to_client
                /\ task' = [task EXCEPT ![c] = "returning"]
          /\ UNCHANGED to_server
      BY <1>10 DEF Respond, Leave
    <2>2. Others(c)
      BY <1>2, <2>1, OneConnection
    <2>3. InPhase(c) => FirstUnderWay(c) \/ PastFirst(c)
      BY <2>1 DEF InPhase, BeforeKeys, KeysUnderWay, Keyed
    <2>4. FirstUnderWay(c) => FirstUnderWay(c)'
      <3> SUFFICES ASSUME FirstUnderWay(c) PROVE FirstUnderWay(c)'
        OBVIOUS
      <3>1. /\ ClientOpen(c) /\ asked[c] = 1 /\ to_client[c] = <<>> /\ to_server[c] = <<>>
            /\ server_codec[c] = AfterCounter(new_server(c), Request(c))
        BY <2>1 DEF FirstUnderWay, ClientOpen, Calling
      <3>2. task'[c] = "reading" /\ to_client'[c] = Append(<<>>, Answer(c))
        BY <1>1, <2>1, <3>1, FirstFrames
      <3>3. Append(<<>>, Answer(c)) = <<Answer(c)>>
        OBVIOUS
      <3> QED  BY <1>2, <2>1, <3>1, <3>2, <3>3 DEF FirstUnderWay
    <2> QED  BY <1>2, <1>3, <1>5, <2>2, <2>3, <2>4, PhaseStep DEF InPhase
  <1>11. CASE DropStream(c) \/ DropPermit(c)
    <2>1. /\ \E p : task' = [task EXCEPT ![c] = p]
          /\ task[c] \in {"returning", "returned"}
          /\ UNCHANGED <<to_server, to_client, server_codec>>
      BY <1>11 DEF DropStream, DropPermit, streamVars, codecVars
    <2>2. Others(c)
      BY <1>2, <2>1, OneConnection
    <2>3. InPhase(c) => PastFirst(c)
      BY <2>1 DEF InPhase, BeforeKeys, KeysUnderWay, Keyed, FirstUnderWay
    <2> QED  BY <1>2, <1>3, <1>5, <2>2, <2>3, PhaseStep DEF InPhase
  <1> QED  BY <1>6, <1>7, <1>8, <1>9, <1>10, <1>11 DEF Serve

LEMMA LoopPhases ==
    ASSUME IInv, WireInv, PhaseInv, Accept \/ Interrupted \/ \E c \in Conns : Connect(c)
    PROVE  PhaseInv'
  <1>1. /\ backlog # <<>> => /\ Head(backlog) \in Conns /\ task[Head(backlog)] = "none"
                             /\ caller[Head(backlog)] # "idle"
                             /\ serving => server_open[Head(backlog)]
        /\ backlog # <<>> => \A i \in DOMAIN Tail(backlog) :
                               /\ i + 1 \in DOMAIN backlog /\ Tail(backlog)[i] = backlog[i + 1]
                               /\ Tail(backlog)[i] \in Conns \ {Head(backlog)}
    <2> SUFFICES ASSUME backlog # <<>>
                 PROVE  /\ Head(backlog) \in Conns /\ task[Head(backlog)] = "none"
                        /\ caller[Head(backlog)] # "idle"
                        /\ serving => server_open[Head(backlog)]
                        /\ \A i \in DOMAIN Tail(backlog) :
                               /\ i + 1 \in DOMAIN backlog /\ Tail(backlog)[i] = backlog[i + 1]
                               /\ Tail(backlog)[i] \in Conns \ {Head(backlog)}
      OBVIOUS
    <2>1. 1 \in DOMAIN backlog /\ Head(backlog) = backlog[1] /\ backlog[1] \in Conns
      BY DEF IInv, LoopTypeOK
    <2>2. task[backlog[1]] = "none" /\ caller[backlog[1]] # "idle" /\ (serving => server_open[backlog[1]])
      BY <2>1 DEF IInv, QueueOK, PhaseInv, StreamsHeld
    <2>3. ASSUME NEW i \in DOMAIN Tail(backlog)
          PROVE  /\ i + 1 \in DOMAIN backlog /\ Tail(backlog)[i] = backlog[i + 1]
                 /\ Tail(backlog)[i] \in Conns \ {Head(backlog)}
      <3>1. i + 1 \in DOMAIN backlog /\ Tail(backlog)[i] = backlog[i + 1] /\ i + 1 # 1
            /\ backlog[i + 1] \in Conns
        BY <2>3 DEF IInv, LoopTypeOK
      <3>2. backlog[i + 1] # backlog[1]
        BY <2>1, <3>1 DEF IInv, QueueOK
      <3> QED  BY <2>1, <3>1, <3>2
    <2> QED  BY <2>1, <2>2, <2>3
  <1>2. CASE Reject
    <2>1. /\ backlog # <<>> /\ backlog' = Tail(backlog)
          /\ server_open' = [server_open EXCEPT ![Head(backlog)] = FALSE]
          /\ UNCHANGED <<serving, task, to_server, to_client, server_codec, client_codec, caller, asked>>
      BY <1>2 DEF Reject, codecVars
    <2>2. \A d \in Conns : d # Head(backlog) => server_open'[d] = server_open[d]
      BY <2>1 DEF WireInv, StreamTypeOK
    <2>3. StreamsHeld'
      BY <1>1, <2>1, <2>2 DEF PhaseInv, StreamsHeld
    <2>4. PICK h \in Conns : h = Head(backlog)
      BY <1>1, <2>1
    <2>5. Others(h) /\ (InPhase(h) => InPhase(h)')
      BY <2>1 DEF Others, InPhase, Fresh, BeforeKeys, KeysUnderWay, Keyed, FirstUnderWay, PastFirst
    <2> QED  BY <2>1, <2>3, <2>5, PhaseStep
  <1>3. CASE Spawn
    <2>0. PICK h \in Conns : h = Head(backlog)
      BY <1>1, <1>3 DEF Spawn
    <2>1. /\ backlog # <<>> /\ backlog' = Tail(backlog)
          /\ task' = [task EXCEPT ![h] = "handshake"]
          /\ UNCHANGED <<serving, server_open, to_server, to_client, server_codec, client_codec,
                         caller, asked>>
      BY <1>3, <2>0 DEF Spawn, codecVars, streamVars
    <2>2. h \in Conns /\ task[h] = "none" /\ caller[h] # "idle" /\ (serving => server_open[h])
      BY <1>1, <2>0, <2>1
    <2>3. task'[h] = "handshake" /\ \A d \in Conns \ {h} : task'[d] = task[d]
      BY <2>1, <2>2 DEF IInv, LoopTypeOK
    <2>4. StreamsHeld'
      BY <1>1, <2>0, <2>1, <2>2, <2>3 DEF PhaseInv, StreamsHeld
    <2>5. Others(h)
      BY <2>1, <2>2, OneConnection
    <2>6. InPhase(h) => InPhase(h)'
      BY <2>1, <2>2, <2>3 DEF InPhase, Fresh, BeforeKeys, KeysUnderWay, Keyed, FirstUnderWay, PastFirst
    <2> QED  BY <2>1, <2>2, <2>4, <2>5, <2>6, PhaseStep
  <1>4. CASE Interrupted
    BY <1>4 DEF Interrupted, PhaseInv, StreamsHeld
  <1>5. ASSUME NEW c \in Conns, Connect(c) PROVE PhaseInv'
    <2>1. /\ caller[c] = "idle" /\ caller' = [caller EXCEPT ![c] = "connected"]
          /\ server_open' = [server_open EXCEPT ![c] = TRUE]
          /\ backlog' = Append(backlog, c)
          /\ UNCHANGED <<serving, task, to_server, to_client, server_codec, client_codec, asked>>
      BY <1>5 DEF Connect, codecVars
    <2>2. caller'[c] = "connected" /\ server_open'[c]
          /\ \A d \in Conns : server_open[d] => server_open'[d]
      BY <2>1 DEF IInv, LoopTypeOK, WireInv, StreamTypeOK
    <2>3. \A i \in DOMAIN backlog' : backlog'[i] = c \/ (i \in DOMAIN backlog /\ backlog'[i] = backlog[i])
      <3>1. /\ DOMAIN backlog = 1..Len(backlog) /\ Len(backlog) \in Nat
            /\ DOMAIN backlog' = 1..Len(backlog) + 1
            /\ \A i \in DOMAIN backlog : backlog'[i] = backlog[i]
            /\ backlog'[Len(backlog) + 1] = c
        BY <2>1 DEF IInv, LoopTypeOK
      <3>2. \A n \in Nat : \A i \in 1..n + 1 : i = n + 1 \/ i \in 1..n
        OBVIOUS
      <3>3. \A i \in DOMAIN backlog' : i = Len(backlog) + 1 \/ i \in DOMAIN backlog
        BY <3>1, <3>2
      <3> QED  BY <3>1, <3>3
    <2>4. \A i \in DOMAIN backlog : backlog[i] \in Conns
      BY DEF IInv, LoopTypeOK
    <2>5. StreamsHeld'
      BY <2>1, <2>2, <2>3, <2>4 DEF PhaseInv, StreamsHeld
    <2>6. Others(c)
      BY <2>1, OneConnection
    <2>7. InPhase(c) => InPhase(c)'
      <3>1. task[c] = "none"
        BY <2>1 DEF IInv, QueueOK
      <3> QED  BY <2>1, <2>2, <3>1
               DEF InPhase, Fresh, BeforeKeys, KeysUnderWay, Keyed, FirstUnderWay, PastFirst
    <2> QED  BY <2>1, <2>5, <2>6, <2>7, PhaseStep
  <1> QED  BY <1>2, <1>3, <1>4, <1>5 DEF Accept

LEMMA InitPhases == Init => PhaseInv
  BY DEF Init, PhaseInv, StreamsHeld, InPhase, BeforeKeys, Fresh

LEMMA NextKeepsPhases == IInv /\ WireInv /\ PhaseInv /\ [Next]_vars => PhaseInv'
  <1> SUFFICES ASSUME IInv, WireInv, PhaseInv, [Next]_vars PROVE PhaseInv'
    OBVIOUS
  <1>1. CASE UNCHANGED vars
    BY <1>1 DEF vars, loopVars, streamVars, codecVars, PhaseInv, StreamsHeld, InPhase, Fresh,
         BeforeKeys, KeysUnderWay, Keyed, FirstUnderWay, PastFirst
  <1>2. CASE Next
    BY <1>2, LoopPhases, ClientPhases, TaskPhases DEF Next
  <1> QED  BY <1>1, <1>2

\* In every phase the answer of the first request decodes and the stream is held
LEMMA FirstDoesNotFail ==
    ASSUME IInv, WireInv, PhaseInv, [Next]_vars, NEW c \in Conns \ Stalled,
           serving, caller[c] = "waiting", asked[c] = 1
    PROVE  caller'[c] # "failed"
  <1>1. FirstUnderWay(c)
    BY DEF PhaseInv, InPhase, BeforeKeys, KeysUnderWay, Keyed, PastFirst
  <1>2. server_open[c]
    BY <1>1 DEF FirstUnderWay, PhaseInv, StreamsHeld
  <1>3. caller \in [Conns -> Calling \cup {"idle", "done", "failed", "gone"}]
    BY DEF IInv, LoopTypeOK
  <1>4. CASE UNCHANGED caller
    BY <1>4
  <1>5. ASSUME NEW d \in Conns,
               Connect(d) \/ SendKey(d) \/ Ask(d) \/ Return(d) \/ KeyReceived(d) \/ Killed(d)
        PROVE  caller'[c] # "failed"
    BY <1>3, <1>5 DEF Connect, SendKey, Ask, Return, KeyReceived, Killed
  <1>6. ASSUME NEW d \in Conns, CallFails(d) PROVE caller'[c] # "failed"
    BY <1>2, <1>3, <1>6 DEF CallFails
  <1>7. ASSUME NEW d \in Conns, AnswerReceived(d) PROVE caller'[c] # "failed"
    <2>1. CASE d # c
      BY <1>3, <1>7, <2>1 DEF AnswerReceived
    <2>2. CASE d = c
      <3>1. to_client[c] = <<Answer(c)>> /\ client_codec[c] = next_nonce(new_client(c))
        BY <1>1, <1>7, <2>2 DEF AnswerReceived, FirstUnderWay
      <3>2. Head(to_client[c]) = Answer(c)
        BY <3>1
      <3>3. /\ ~Refused(client_codec[c], Head(to_client[c]))
            /\ Decrypts(client_codec[c], Head(to_client[c]))
        BY <3>1, <3>2, FirstFrames
      <3> QED  BY <1>3, <1>7, <2>2, <3>3 DEF AnswerReceived
    <2> QED  BY <2>1, <2>2
  <1>8. CASE Accept \/ Interrupted \/ \E d \in Conns : Serve(d)
    BY <1>4, <1>8 DEF Accept, Reject, Spawn, Interrupted, Serve, handshake_server, Disconnected,
         Timeout, ReadRequest, Respond, DropStream, DropPermit
  <1> QED  BY <1>4, <1>5, <1>6, <1>7, <1>8 DEF Next, Send, Progress, vars

(* The first request of a connection never fails while the service runs,     *)
(* for any connections, limits and numbers of requests: the two ends go      *)
(* through the key exchange, the request and the answer in step, and the     *)
(* first frame in either direction passes the checks of a fresh codec.       *)
(* handle_client, send_request.                                              *)
THEOREM FirstCallStands == Spec => FirstRequestStands
  <1>1. IInv /\ WireInv /\ PhaseInv /\ [Next]_vars
            => [\A c \in Conns \ Stalled :
                  serving /\ caller[c] = "waiting" /\ asked[c] = 1 => caller'[c] # "failed"]_vars
    BY FirstDoesNotFail
  <1> QED  BY <1>1, InitIInv, NextKeeps, InitWire, NextKeepsWire, InitPhases, NextKeepsPhases, PTL
           DEF Spec, FirstRequestStands
=============================================================================
