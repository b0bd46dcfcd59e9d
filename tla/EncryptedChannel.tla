-------------------------- MODULE EncryptedChannel --------------------------
(* The encrypted channel between a client and the service, after the key     *)
(* exchange, over a wire that may delay, reorder, repeat, misroute and       *)
(* damage frames: what the codec promises whatever the transport does.       *)
(* Connections with different secrets share the wire.                        *)
EXTENDS Codec, Sequences

CONSTANTS
    Secrets,            \* one shared secret per connection
    Damaged,            \* stands for the key of a damaged ciphertext
    MaxMessages         \* bound: messages that one end sends

Keys == Secrets \X Labels

ASSUME ChannelAssumption ==
    /\ MaxMessages \in Nat
    /\ MaxMessages < CounterMod     \* "as long as the counter doesn't wrap"
    /\ Damaged \notin Keys

Ends == Secrets \X Sides


PeerOf(e) == IF e[2] = "client" THEN <<e[1], "server">> ELSE <<e[1], "client">>

VARIABLES
    codec,              \* the EncryptedCodec of each end
    up,                 \* the ends that still hold the connection
    wire,               \* every frame ever written
    sent,               \* the number of messages each end has encoded
    accepted            \* history: the messages each end has decoded

vars == <<codec, up, wire, sent, accepted>>

Messages == [from : Ends, n : Nat]

Frames == FrameType(Keys \cup {Damaged}, Messages)

Init ==
    /\ codec = [e \in Ends |-> NewCodec(e[1], e[2])]
    /\ up = Ends
    /\ wire = {}
    /\ sent = [e \in Ends |-> 0]
    /\ accepted = [e \in Ends |-> <<>>]

write_message(e) ==
    /\ e \in up
    /\ sent[e] < MaxMessages
    /\ wire' = wire \cup {Encode(codec[e], [from |-> e, n |-> sent[e]])}
    /\ codec' = [codec EXCEPT ![e] = next_nonce(@)]
    /\ sent' = [sent EXCEPT ![e] = @ + 1]
    /\ UNCHANGED <<up, accepted>>

\* What may arrive: a frame that was written, one with a damaged counter or one
\* with a damaged ciphertext
Arriving ==
    wire \cup {[f EXCEPT !.counter = c] : f \in wire, c \in Counters}
         \cup {[f EXCEPT !.key = Damaged] : f \in wire}

\* The frame passes the replay check and decrypts
Accept(e, f) ==
    /\ e \in up
    /\ ~Refused(codec[e], f)
    /\ Decrypts(codec[e], f)
    /\ codec' = [codec EXCEPT ![e] = AfterCounter(@, f)]
    /\ accepted' = [accepted EXCEPT ![e] = Append(@, f.msg)]
    /\ UNCHANGED <<up, wire, sent>>

\* Both callers of read_message give the connection up on an error
Replayed(e, f) ==
    /\ e \in up
    /\ Refused(codec[e], f)
    /\ up' = up \ {e}
    /\ UNCHANGED <<codec, wire, sent, accepted>>

\* A mutant of Undecryptable: the end goes on after a frame it cannot decrypt
SkipUndecryptable(e, f) ==
    /\ e \in up
    /\ ~Refused(codec[e], f)
    /\ ~Decrypts(codec[e], f)
    /\ codec' = [codec EXCEPT ![e] = AfterCounter(@, f)]
    /\ UNCHANGED <<up, wire, sent, accepted>>

Undecryptable(e, f) ==
    /\ e \in up
    /\ ~Refused(codec[e], f)
    /\ ~Decrypts(codec[e], f)
    /\ codec' = [codec EXCEPT ![e] = AfterCounter(@, f)]
    /\ up' = up \ {e}
    /\ UNCHANGED <<wire, sent, accepted>>

\* End of stream, a length above MAX_MESSAGE_SIZE, fewer than 24 bytes, or bytes
\* that are no JSON: the counter stays or no longer matters
ReadFailed(e) ==
    /\ e \in up
    /\ up' = up \ {e}
    /\ UNCHANGED <<codec, wire, sent, accepted>>

Next ==
    \E e \in Ends :
       \/ write_message(e)
       \/ ReadFailed(e)
       \/ \E f \in Arriving :
             Accept(e, f) \/ Replayed(e, f) \/ Undecryptable(e, f)

Spec == Init /\ [][Next]_vars

-----------------------------------------------------------------------------
(* Type correctness *)
TypeOK ==
    /\ codec \in [Ends -> CodecType(Keys)]
    /\ up \subseteq Ends
    /\ wire \subseteq Frames
    /\ sent \in [Ends -> 0..MaxMessages]
    /\ accepted \in [Ends -> Seq(Messages)]

(* No two messages are ever encrypted with the same key and nonce, although  *)
(* both ends of a connection count from zero.                                *)
(* derive_directional_keys, next_nonce.                                      *)
NoncesUnique ==
    \A f, g \in wire : f.key = g.key /\ f.nonce = g.nonce => f = g

(* Whatever the wire repeats, reorders, misroutes or damages, an end decodes *)
(* only what its peer has sent, nothing twice, and in the order of sending.  *)
(* EncryptedCodec::decode and the read loops that give up on its errors.     *)
AcceptedInOrder ==
    \A e \in Ends : \A i \in DOMAIN accepted[e] :
        /\ accepted[e][i].from = PeerOf(e)
        /\ accepted[e][i].n < sent[PeerOf(e)]
        /\ \A j \in 1..i-1 : accepted[e][j].n < accepted[e][i].n

(* The channel implements the link: whatever the wire does, and although the *)
(* counter moves before a frame is known to be genuine, an end takes its     *)
(* peer's messages as they were sent, in order and each once, and none after *)
(* it has given up.  EncryptedCodec, read_message and its callers.           *)
Link == INSTANCE MessageLink WITH
    Peer <- [e \in Ends |-> PeerOf(e)],
    open <- up,
    delivered <- accepted

ImplementsLink == Link!LinkSpec
=============================================================================
