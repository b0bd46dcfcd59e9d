-------------------------- MODULE ConnectionServer --------------------------
(* The accept loop of grimoire-service (server.rs), the task that serves one *)
(* connection (session.rs, handle_client) and the client at its other end    *)
(* (grimoire-cli, send_request), over Unix stream sockets: bytes arrive once *)
(* and in order, and either end may close.  What dispatch does with a        *)
(* request is VaultService; here it is one answer, some time later.          *)
EXTENDS Codec, Sequences, FiniteSets

CONSTANTS
    Conns,              \* connections, each with a client process of its own
    Foreign,            \* those whose process runs under another uid
    Stalled,            \* those whose client may stop, or send too late; the
                        \* others send within the timeouts of the service
    MAX_CONNECTIONS,
    MaxRequests,        \* bound: requests that a client sends on a connection
    PublicKey           \* the 32 bytes of a key exchange, in either direction

ASSUME ServerAssumption ==
    /\ IsFiniteSet(Conns)
    /\ Foreign \subseteq Conns
    /\ Stalled \subseteq Conns
    /\ MAX_CONNECTIONS \in Nat \ {0}
    /\ MaxRequests \in Nat \ {0}
    /\ MaxRequests < CounterMod

VARIABLES
    serving,            \* the accept loop runs
    backlog,            \* connections that wait in the listener's queue
    permits,            \* free permits of conn_semaphore
    task,               \* where the task of each connection is
    caller,             \* where the client of each connection is
    server_open,        \* the service, or its listener, holds the stream
    to_server,          \* bytes under way in each direction
    to_client,
    server_codec,       \* the EncryptedCodec of each end
    client_codec,
    asked               \* the requests each client has sent

loopVars == <<serving, backlog, permits>>
streamVars == <<server_open, to_server, to_client>>
codecVars == <<server_codec, client_codec>>
serverVars == <<loopVars, task, server_codec, server_open>>
vars == <<loopVars, task, caller, streamVars, codecVars, asked>>

Keys == Conns \X Labels

\* What goes over a stream: a public key, or the frame of the n-th request or
\* of the answer to it
Bytes == {PublicKey} \cup FrameType(Keys, 0..MaxRequests)

Calling == {"connected", "keyed", "ready", "waiting"}

ClientOpen(c) == caller[c] \in Calling

Live == {c \in Conns : task[c] # "none"}

Init ==
    /\ serving = TRUE
    /\ backlog = <<>>
    /\ permits = MAX_CONNECTIONS
    /\ task = [c \in Conns |-> "none"]
    /\ caller = [c \in Conns |-> "idle"]
    /\ server_open = [c \in Conns |-> FALSE]
    /\ to_server = [c \in Conns |-> <<>>]
    /\ to_client = [c \in Conns |-> <<>>]
    /\ server_codec = [c \in Conns |-> new_server(c)]
    /\ client_codec = [c \in Conns |-> new_client(c)]
    /\ asked = [c \in Conns |-> 0]

-----------------------------------------------------------------------------
(* The client: send_request and handshake_client                             *)

Connect(c) ==
    /\ serving
    /\ caller[c] = "idle"
    /\ caller' = [caller EXCEPT ![c] = "connected"]
    /\ server_open' = [server_open EXCEPT ![c] = TRUE]
    /\ backlog' = Append(backlog, c)
    /\ UNCHANGED <<serving, permits, task, to_server, to_client, codecVars, asked>>

\* A write succeeds while the service holds the stream
Write(c, bytes) ==
    /\ server_open[c]
    /\ to_server' = [to_server EXCEPT ![c] = Append(@, bytes)]

SendKey(c) ==
    /\ caller[c] = "connected"
    /\ Write(c, PublicKey)
    /\ caller' = [caller EXCEPT ![c] = "keyed"]
    /\ UNCHANGED <<serverVars, to_client, client_codec, asked>>

KeyReceived(c) ==
    /\ caller[c] = "keyed"
    /\ to_client[c] # <<>>
    /\ to_client' = [to_client EXCEPT ![c] = Tail(@)]
    /\ caller' = [caller EXCEPT ![c] = "ready"]
    /\ UNCHANGED <<serverVars, to_server, client_codec, asked>>

Ask(c) ==
    /\ caller[c] = "ready"
    /\ asked[c] < MaxRequests
    /\ Write(c, Encode(client_codec[c], asked[c] + 1))
    /\ client_codec' = [client_codec EXCEPT ![c] = next_nonce(@)]
    /\ asked' = [asked EXCEPT ![c] = @ + 1]
    /\ caller' = [caller EXCEPT ![c] = "waiting"]
    /\ UNCHANGED <<serverVars, to_client>>

\* The answer decodes, or the call fails
AnswerReceived(c) ==
    /\ caller[c] = "waiting"
    /\ to_client[c] # <<>>
    /\ LET codec == client_codec[c]
           frame == Head(to_client[c])
       IN  /\ client_codec' = IF Refused(codec, frame) THEN client_codec
                              ELSE [client_codec EXCEPT ![c] = AfterCounter(codec, frame)]
           /\ caller' = [caller EXCEPT ![c] =
                           IF Refused(codec, frame) \/ ~Decrypts(codec, frame)
                           THEN "failed" ELSE "ready"]
    /\ to_client' = [to_client EXCEPT ![c] = Tail(@)]
    /\ UNCHANGED <<serverVars, to_server, asked>>

\* The call has its answers and drops the stream
Return(c) ==
    /\ caller[c] = "ready"
    /\ asked[c] > 0
    /\ caller' = [caller EXCEPT ![c] = "done"]
    /\ UNCHANGED <<serverVars, to_server, to_client, client_codec, asked>>

\* The service has dropped the stream: a write fails, and so does a read once
\* nothing is left to read
CallFails(c) ==
    /\ ClientOpen(c)
    /\ ~server_open[c]
    /\ caller[c] \in {"connected", "ready"} \/ to_client[c] = <<>>
    /\ caller' = [caller EXCEPT ![c] = "failed"]
    /\ UNCHANGED <<serverVars, to_server, to_client, client_codec, asked>>

\* The client process is interrupted
Killed(c) ==
    /\ ClientOpen(c)
    /\ caller' = [caller EXCEPT ![c] = "gone"]
    /\ UNCHANGED <<serverVars, to_server, to_client, client_codec, asked>>

-----------------------------------------------------------------------------
(* The accept loop                                                           *)

\* A mutant of Reject: the stream is kept
RejectQuietly ==
    /\ serving
    /\ backlog # <<>>
    /\ Head(backlog) \in Foreign \/ permits = 0
    /\ backlog' = Tail(backlog)
    /\ UNCHANGED <<serving, permits, task, streamVars, codecVars, caller, asked>>

\* The peer runs under another uid, or no permit is free
Reject ==
    /\ serving
    /\ backlog # <<>>
    /\ Head(backlog) \in Foreign \/ permits = 0
    /\ backlog' = Tail(backlog)
    /\ server_open' = [server_open EXCEPT ![Head(backlog)] = FALSE]
    /\ UNCHANGED <<serving, permits, task, to_server, to_client, codecVars,
                   caller, asked>>

Spawn ==
    /\ serving
    /\ backlog # <<>>
    /\ Head(backlog) \notin Foreign
    /\ permits > 0
    /\ backlog' = Tail(backlog)
    /\ permits' = permits - 1
    /\ task' = [task EXCEPT ![Head(backlog)] = "handshake"]
    /\ UNCHANGED <<serving, streamVars, codecVars, caller, asked>>

\* SIGINT: run returns, and the runtime drops every task and stream
Interrupted ==
    /\ serving
    /\ serving' = FALSE
    /\ backlog' = <<>>
    /\ permits' = MAX_CONNECTIONS
    /\ task' = [c \in Conns |-> "none"]
    /\ server_open' = [c \in Conns |-> FALSE]
    /\ UNCHANGED <<to_server, to_client, codecVars, caller, asked>>

-----------------------------------------------------------------------------
(* The task of a connection: handle_client                                   *)

\* handle_client is about to return
Leave(c) == task' = [task EXCEPT ![c] = "returning"]

handshake_server(c) ==
    /\ task[c] = "handshake"
    /\ to_server[c] # <<>>
    /\ to_server' = [to_server EXCEPT ![c] = Tail(@)]
    /\ IF ClientOpen(c)
       THEN /\ to_client' = [to_client EXCEPT ![c] = Append(@, PublicKey)]
            /\ task' = [task EXCEPT ![c] = "reading"]
       ELSE Leave(c) /\ UNCHANGED to_client
    /\ UNCHANGED <<loopVars, server_open, codecVars, caller, asked>>

\* The end of the stream, during the handshake or instead of a request
Disconnected(c) ==
    /\ task[c] \in {"handshake", "reading"}
    /\ to_server[c] = <<>>
    /\ ~ClientOpen(c)
    /\ Leave(c)
    /\ UNCHANGED <<loopVars, streamVars, codecVars, caller, asked>>

\* Mutants of Timeout: reads have none, or dispatch runs under it as well
TimeoutHandshakeOnly(c) ==
    /\ task[c] = "handshake"
    /\ c \in Stalled
    /\ to_server[c] = <<>>
    /\ Leave(c)
    /\ UNCHANGED <<loopVars, streamVars, codecVars, caller, asked>>

TimeoutDispatch(c) ==
    /\ task[c] \in {"handshake", "reading", "dispatch"}
    /\ c \in Stalled \/ task[c] = "dispatch"
    /\ to_server[c] = <<>>
    /\ Leave(c)
    /\ UNCHANGED <<loopVars, streamVars, codecVars, caller, asked>>

\* HANDSHAKE_TIMEOUT or READ_TIMEOUT: what has not arrived then is not read,
\* even if it arrives before the stream is dropped
Timeout(c) ==
    /\ task[c] \in {"handshake", "reading"}
    /\ c \in Stalled
    /\ to_server[c] = <<>>
    /\ Leave(c)
    /\ UNCHANGED <<loopVars, streamVars, codecVars, caller, asked>>

ReadRequest(c) ==
    /\ task[c] = "reading"
    /\ to_server[c] # <<>>
    /\ LET codec == server_codec[c]
           frame == Head(to_server[c])
       IN  /\ server_codec' = IF Refused(codec, frame) THEN server_codec
                              ELSE [server_codec EXCEPT ![c] = AfterCounter(codec, frame)]
           /\ IF Refused(codec, frame) \/ ~Decrypts(codec, frame)
              THEN Leave(c)
              ELSE task' = [task EXCEPT ![c] = "dispatch"]
    /\ to_server' = [to_server EXCEPT ![c] = Tail(@)]
    /\ UNCHANGED <<loopVars, server_open, to_client, client_codec, caller, asked>>

\* dispatch returns, and the response is written or the client has gone
Respond(c) ==
    /\ task[c] = "dispatch"
    /\ server_codec' = [server_codec EXCEPT ![c] = next_nonce(@)]
    /\ IF ClientOpen(c)
       THEN /\ to_client' = [to_client EXCEPT ![c] =
                               Append(@, Encode(server_codec[c], asked[c]))]
            /\ task' = [task EXCEPT ![c] = "reading"]
       ELSE Leave(c) /\ UNCHANGED to_client
    /\ UNCHANGED <<loopVars, server_open, to_server, client_codec, caller, asked>>

\* The stream goes with handle_client, the permit after it
DropStream(c) ==
    /\ task[c] = "returning"
    /\ task' = [task EXCEPT ![c] = "returned"]
    /\ server_open' = [server_open EXCEPT ![c] = FALSE]
    /\ UNCHANGED <<loopVars, to_server, to_client, codecVars, caller, asked>>

\* Mutants of DropPermit: the permit is lost, or given back twice
PermitLost(c) ==
    /\ task[c] = "returned"
    /\ task' = [task EXCEPT ![c] = "none"]
    /\ UNCHANGED <<loopVars, streamVars, codecVars, caller, asked>>

PermitTwice(c) ==
    /\ task[c] = "returned"
    /\ task' = [task EXCEPT ![c] = "none"]
    /\ permits' = permits + 2
    /\ UNCHANGED <<serving, backlog, streamVars, codecVars, caller, asked>>

DropPermit(c) ==
    /\ task[c] = "returned"
    /\ task' = [task EXCEPT ![c] = "none"]
    /\ permits' = permits + 1
    /\ UNCHANGED <<serving, backlog, streamVars, codecVars, caller, asked>>

-----------------------------------------------------------------------------
Accept == Reject \/ Spawn

Serve(c) ==
    \/ handshake_server(c)
    \/ Disconnected(c)
    \/ Timeout(c)
    \/ ReadRequest(c)
    \/ Respond(c)
    \/ DropStream(c)
    \/ DropPermit(c)

\* What a client does as long as it runs
Progress(c) ==
    \/ KeyReceived(c)
    \/ AnswerReceived(c)
    \/ CallFails(c)

Send(c) == SendKey(c) \/ Ask(c) \/ Return(c)

Next ==
    \/ Accept
    \/ Interrupted
    \/ \E c \in Conns :
          Connect(c) \/ Send(c) \/ Progress(c) \/ Killed(c) \/ Serve(c)

Spec == Init /\ [][Next]_vars

\* The runtime polls its tasks, timers expire, prompts are answered and the
\* operating system runs the clients; a stalled client need not send
Fairness ==
    /\ WF_vars(Accept)
    /\ \A c \in Conns : WF_vars(Serve(c)) /\ WF_vars(Progress(c))
    /\ \A c \in Conns \ Stalled : WF_vars(Send(c))

FairSpec == Spec /\ Fairness

-----------------------------------------------------------------------------
(* Type correctness *)
TypeOK ==
    /\ serving \in BOOLEAN
    /\ backlog \in Seq(Conns)
    /\ permits \in 0..MAX_CONNECTIONS
    /\ task \in [Conns -> {"none", "handshake", "reading", "dispatch",
                          "returning", "returned"}]
    /\ caller \in [Conns -> Calling \cup {"idle", "done", "failed", "gone"}]
    /\ server_open \in [Conns -> BOOLEAN]
    /\ asked \in [Conns -> 0..MaxRequests]
    /\ to_server \in [Conns -> Seq(Bytes)]
    /\ to_client \in [Conns -> Seq(Bytes)]
    /\ server_codec \in [Conns -> CodecType(Keys)]
    /\ client_codec \in [Conns -> CodecType(Keys)]

(* Every permit is free or belongs to exactly one live connection, whichever *)
(* way the connection ends: no slot leaks, and never more than               *)
(* MAX_CONNECTIONS tasks run.  run (server.rs), handle_client.               *)
PermitsConserved == permits + Cardinality(Live) = MAX_CONNECTIONS

(* No client can keep its slot for ever by saying nothing, by stopping in    *)
(* the middle or by going away.  HANDSHAKE_TIMEOUT, READ_TIMEOUT.            *)
SlotsComeBack ==
    \A c \in Conns : task[c] # "none" ~> task[c] = "none"

(* No call hangs, refused, disconnected or cut off by a shutdown as it may   *)
(* be, although send_request has no timeout of its own; and nobody waits for *)
(* an answer for ever, a client whose request came too late and was lost to  *)
(* the idle timeout included.                                                *)
CallsReturn ==
    /\ \A c \in Conns \ Stalled : ClientOpen(c) ~> ~ClientOpen(c)
    /\ \A c \in Stalled : caller[c] = "waiting" ~> caller[c] # "waiting"

(* The first request of a connection is answered once it is written, unless  *)
(* its client goes away or the service shuts down: neither the limit of      *)
(* connections nor the timeout of another client hits it.  For clients that  *)
(* send in time; the CLI sends no second request.  handle_client.            *)
FirstRequestAnswered ==
    \A c \in Conns \ Stalled :
        caller[c] = "waiting" /\ asked[c] = 1
            ~> caller[c] \in {"ready", "done", "gone"} \/ ~serving

(* And it never fails while the service runs: whatever other connections do, *)
(* the two ends are in step when it is sent, it and its answer pass the      *)
(* replay check (the second request of a connection does not), and nothing   *)
(* drops the stream before the answer has come.  handle_client, send_request. *)
FirstRequestStands ==
    [][\A c \in Conns \ Stalled :
          serving /\ caller[c] = "waiting" /\ asked[c] = 1 => caller'[c] # "failed"]_vars
=============================================================================
