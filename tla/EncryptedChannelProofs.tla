----------------------- MODULE EncryptedChannelProofs -----------------------
(* Theorems about EncryptedChannel, for any number of connections and of     *)
(* messages and any width of the counters.                                   *)
EXTENDS EncryptedChannel, TLAPS

-----------------------------------------------------------------------------
(* The parts of a codec and of the invariant                                 *)

\* The key that an end encrypts with
SendKey(e) ==
    IF e[2] = "client" THEN <<e[1], "grimoire-ipc-c2s">>
                       ELSE <<e[1], "grimoire-ipc-s2c">>

CodecOK ==
    \A e \in Ends :
        /\ codec[e].send_cipher = SendKey(e)
        /\ codec[e].recv_cipher = SendKey(PeerOf(e))
        /\ codec[e].send_counter = sent[e]

WireOK ==
    \A f \in wire :
        /\ f.key = SendKey(f.msg.from)
        /\ f.nonce = f.msg.n
        /\ f.counter = f.msg.n
        /\ f.msg.n < sent[f.msg.from]

\* What an end that is still up has decoded lies below its counter
WindowOK ==
    \A e \in up : \A i \in DOMAIN accepted[e] :
        accepted[e][i].n < codec[e].recv_counter

IInv == TypeOK /\ CodecOK /\ WireOK /\ WindowOK /\ AcceptedInOrder

LEMMA EndCases ==
    ASSUME NEW e \in Ends
    PROVE  \E s \in Secrets : e = <<s, "client">> \/ e = <<s, "server">>
  BY DEF Ends, Sides

LEMMA ClientEnd ==
    ASSUME NEW s \in Secrets
    PROVE  /\ <<s, "client">> \in Ends
           /\ PeerOf(<<s, "client">>) = <<s, "server">>
           /\ SendKey(<<s, "client">>) = <<s, "grimoire-ipc-c2s">>
           /\ SendKey(<<s, "client">>) \in Keys
  BY DEF Ends, Sides, PeerOf, SendKey, Keys, Labels

LEMMA ServerEnd ==
    ASSUME NEW s \in Secrets
    PROVE  /\ <<s, "server">> \in Ends
           /\ PeerOf(<<s, "server">>) = <<s, "client">>
           /\ SendKey(<<s, "server">>) = <<s, "grimoire-ipc-s2c">>
           /\ SendKey(<<s, "server">>) \in Keys
  BY DEF Ends, Sides, PeerOf, SendKey, Keys, Labels

LEMMA EndsOf ==
    ASSUME NEW e \in Ends
    PROVE  /\ PeerOf(e) \in Ends
           /\ SendKey(e) \in Keys
           /\ PeerOf(PeerOf(e)) = e
  BY EndCases, ClientEnd, ServerEnd

\* An end is determined by its key
LEMMA KeysDiffer ==
    ASSUME NEW d \in Ends, NEW e \in Ends, SendKey(d) = SendKey(e)
    PROVE  d = e
  <1>1. PICK s \in Secrets : d = <<s, "client">> \/ d = <<s, "server">>
    BY EndCases
  <1>2. PICK t \in Secrets : e = <<t, "client">> \/ e = <<t, "server">>
    BY EndCases
  <1>3. SendKey(d)[1] = s /\ SendKey(e)[1] = t
    BY <1>1, <1>2, ClientEnd, ServerEnd
  <1>4. "grimoire-ipc-c2s" # "grimoire-ipc-s2c"
    OBVIOUS
  <1> QED  BY <1>1, <1>2, <1>3, <1>4, ClientEnd, ServerEnd

LEMMA NewCodecOK ==
    ASSUME NEW e \in Ends
    PROVE  /\ NewCodec(e[1], e[2]) \in CodecType(Keys)
           /\ NewCodec(e[1], e[2]).send_cipher = SendKey(e)
           /\ NewCodec(e[1], e[2]).recv_cipher = SendKey(PeerOf(e))
           /\ NewCodec(e[1], e[2]).send_counter = 0
  <1>1. PICK s \in Secrets : e = <<s, "client">> \/ e = <<s, "server">>
    BY EndCases
  <1>0. 0 \in 0..CounterMod-1
    BY CounterAssumption
  <1>2. CASE e = <<s, "client">>
    <2>1. NewCodec(e[1], e[2]) = new_client(s)
      BY <1>2 DEF NewCodec
    <2> QED  BY <1>0, <1>2, <2>1, ClientEnd, ServerEnd
             DEF new_client, derive_directional_keys, CodecType, Counters
  <1>3. CASE e = <<s, "server">>
    <2>1. NewCodec(e[1], e[2]) = new_server(s)
      BY <1>3 DEF NewCodec
    <2> QED  BY <1>0, <1>3, <2>1, ClientEnd, ServerEnd
             DEF new_server, derive_directional_keys, CodecType, Counters
  <1> QED  BY <1>1, <1>2, <1>3

\* Damage never produces a frame that decrypts: one that does was written
LEMMA DecryptedIsGenuine ==
    ASSUME IInv, NEW e \in Ends, NEW f \in Arriving, Decrypts(codec[e], f)
    PROVE  /\ f.msg \in Messages
           /\ f.msg.from = PeerOf(e)
           /\ f.msg.n = f.counter
           /\ f.msg.n < sent[PeerOf(e)]
  <1>0. codec[e].recv_cipher = SendKey(PeerOf(e)) /\ PeerOf(e) \in Ends
        /\ SendKey(PeerOf(e)) # Damaged
    BY EndsOf, ChannelAssumption DEF IInv, CodecOK
  <1>1. PICK g \in wire : /\ f.msg = g.msg
                          /\ f.nonce = g.nonce
                          /\ f.key = g.key
    <2>1. CASE f \in wire
      BY <2>1
    <2>2. CASE \E g \in wire, c \in Counters : f = [g EXCEPT !.counter = c]
      BY <2>2 DEF IInv, TypeOK, Frames, FrameType, Counters
    <2>3. CASE \E g \in wire : f = [g EXCEPT !.key = Damaged]
      <3>1. f.key = Damaged
        BY <2>3 DEF IInv, TypeOK, Frames, FrameType, Counters
      <3> QED  BY <3>1, <1>0 DEF Decrypts
    <2> QED  BY <2>1, <2>2, <2>3 DEF Arriving
  <1>2. g.msg \in Messages /\ g.msg.from \in Ends
    BY DEF IInv, TypeOK, Frames, FrameType, Counters, Messages
  <1>3. g.key = SendKey(g.msg.from) /\ g.nonce = g.msg.n
        /\ g.msg.n < sent[g.msg.from]
    BY DEF IInv, WireOK
  <1>4. g.msg.from = PeerOf(e)
    BY <1>0, <1>1, <1>2, <1>3, KeysDiffer DEF Decrypts
  <1> QED  BY <1>1, <1>2, <1>3, <1>4 DEF Decrypts

-----------------------------------------------------------------------------
(* The invariant holds initially and is kept by every step                   *)

LEMMA InitIInv == Init => IInv
  <1> SUFFICES ASSUME Init PROVE IInv
    OBVIOUS
  <1>1. codec = [e \in Ends |-> NewCodec(e[1], e[2])] /\ up = Ends /\ wire = {}
        /\ sent = [e \in Ends |-> 0] /\ accepted = [e \in Ends |-> <<>>]
    BY DEF Init
  <1>2. TypeOK
    <2>1. codec \in [Ends -> CodecType(Keys)]
      BY <1>1, NewCodecOK
    <2> QED  BY <1>1, <2>1, ChannelAssumption DEF TypeOK
  <1>3. CodecOK
    BY <1>1, NewCodecOK DEF CodecOK
  <1>4. WireOK /\ WindowOK /\ AcceptedInOrder
    BY <1>1 DEF WireOK, WindowOK, AcceptedInOrder
  <1> QED  BY <1>2, <1>3, <1>4 DEF IInv

LEMMA SendKeeps ==
    ASSUME IInv, NEW e \in Ends, write_message(e)
    PROVE  IInv'
  <1> DEFINE m == [from |-> e, n |-> sent[e]]
             f == Encode(codec[e], m)
  <1>1. /\ codec \in [Ends -> CodecType(Keys)] /\ codec[e] \in CodecType(Keys)
        /\ sent \in [Ends -> 0..MaxMessages] /\ sent[e] \in 0..MaxMessages
        /\ codec[e].send_counter = sent[e] /\ codec[e].send_cipher = SendKey(e)
    BY DEF IInv, TypeOK, CodecOK
  <1>2. sent[e] < MaxMessages /\ sent[e] + 1 \in 0..MaxMessages
        /\ sent[e] \in 0..CounterMod-1 /\ (sent[e] + 1) % CounterMod = sent[e] + 1
        /\ sent[e] + 1 \in 0..CounterMod-1
    BY <1>1, ChannelAssumption, CounterAssumption DEF write_message
  <1>3. m \in Messages /\ m.from = e /\ m.n = sent[e]
    BY <1>1 DEF Messages
  <1>4. /\ f = [counter |-> sent[e], key |-> SendKey(e), nonce |-> sent[e], msg |-> m]
        /\ f \in Frames
    BY <1>1, <1>2, <1>3, EndsOf DEF Encode, Frames, FrameType, Counters
  <1>5. /\ wire' = wire \cup {f}
        /\ sent' = [sent EXCEPT ![e] = @ + 1]
        /\ up' = up /\ accepted' = accepted
    BY DEF write_message
  <1>6. codec' = [codec EXCEPT ![e] = [codec[e] EXCEPT !.send_counter = sent[e] + 1]]
    BY <1>1, <1>2 DEF write_message, next_nonce
  <1>7. [codec[e] EXCEPT !.send_counter = sent[e] + 1] \in CodecType(Keys)
    BY <1>1, <1>2 DEF CodecType, Counters
  <1>8. TypeOK'
    <2>1. codec' \in [Ends -> CodecType(Keys)]
      BY <1>1, <1>6, <1>7
    <2>2. sent' \in [Ends -> 0..MaxMessages]
      BY <1>1, <1>2, <1>5
    <2>3. wire' \subseteq Frames
      BY <1>4, <1>5 DEF IInv, TypeOK
    <2> QED  BY <1>5, <2>1, <2>2, <2>3 DEF IInv, TypeOK
  <1>9. CodecOK'
    <2> SUFFICES ASSUME NEW d \in Ends
                 PROVE  /\ codec'[d].send_cipher = SendKey(d)
                        /\ codec'[d].recv_cipher = SendKey(PeerOf(d))
                        /\ codec'[d].send_counter = sent'[d]
      BY DEF CodecOK
    <2>1. CASE d = e
      BY <2>1, <1>1, <1>5, <1>6 DEF IInv, CodecOK, CodecType, Counters
    <2>2. CASE d # e
      BY <2>2, <1>1, <1>5, <1>6 DEF IInv, CodecOK
    <2> QED  BY <2>1, <2>2
  <1>10. \A d \in Ends : sent[d] <= sent'[d] /\ sent[d] \in Nat /\ sent'[d] \in Nat
    BY <1>1, <1>2, <1>5, ChannelAssumption
  <1>11. WireOK'
    <2> SUFFICES ASSUME NEW g \in wire'
                 PROVE  /\ g.key = SendKey(g.msg.from)
                        /\ g.nonce = g.msg.n /\ g.counter = g.msg.n
                        /\ g.msg.n < sent'[g.msg.from]
      BY DEF WireOK
    <2>1. CASE g \in wire
      <3>1. g.msg.from \in Ends /\ g.msg.n \in Nat
        BY <2>1 DEF IInv, TypeOK, Frames, FrameType, Counters, Messages
      <3> QED  BY <2>1, <3>1, <1>10 DEF IInv, WireOK
    <2>2. CASE g = f
      BY <2>2, <1>1, <1>3, <1>4, <1>5
    <2> QED  BY <1>5, <2>1, <2>2
  <1>12. WindowOK'
    <2> SUFFICES ASSUME NEW d \in up, NEW i \in DOMAIN accepted[d]
                 PROVE  accepted[d][i].n < codec'[d].recv_counter
      BY <1>5 DEF WindowOK
    <2>1. d \in Ends
      BY DEF IInv, TypeOK
    <2>2. codec'[d].recv_counter = codec[d].recv_counter
      BY <2>1, <1>1, <1>6 DEF CodecType, Counters
    <2> QED  BY <2>2 DEF IInv, WindowOK
  <1>13. AcceptedInOrder'
    <2> SUFFICES ASSUME NEW d \in Ends, NEW i \in DOMAIN accepted[d]
                 PROVE  /\ accepted[d][i].from = PeerOf(d)
                        /\ accepted[d][i].n < sent'[PeerOf(d)]
                        /\ \A j \in 1..i-1 : accepted[d][j].n < accepted[d][i].n
      BY <1>5 DEF AcceptedInOrder
    <2>1. accepted[d] \in Seq(Messages)
      BY DEF IInv, TypeOK
    <2>3. accepted[d][i] \in Messages
      BY <2>1
    <2>2. accepted[d][i].n \in Nat
      BY <2>3 DEF Messages
    <2> QED  BY <2>2, <1>10, EndsOf DEF IInv, AcceptedInOrder
  <1> QED  BY <1>8, <1>9, <1>11, <1>12, <1>13 DEF IInv

\* Moving the receive counter forward, at an end that stays up or gives up
LEMMA CounterMoves ==
    ASSUME IInv, NEW e \in Ends, NEW f,
           f.counter \in 0..CounterMod-1,
           codec' = [codec EXCEPT ![e] = AfterCounter(@, f)],
           wire' = wire, sent' = sent
    PROVE  /\ codec' \in [Ends -> CodecType(Keys)]
           /\ CodecOK'
           /\ WireOK'
           /\ \A d \in Ends \ {e} : codec'[d] = codec[d]
           /\ codec'[e].recv_counter = (f.counter + 1) % CounterMod
  <1> DEFINE c == (f.counter + 1) % CounterMod
  <1>1. c \in 0..CounterMod-1
    BY CounterAssumption
  <1>2. codec \in [Ends -> CodecType(Keys)] /\ codec[e] \in CodecType(Keys)
    BY DEF IInv, TypeOK
  <1>3. codec' = [codec EXCEPT ![e] = [codec[e] EXCEPT !.recv_counter = c]]
    BY <1>2 DEF AfterCounter
  <1> HIDE DEF c
  <1>4. [codec[e] EXCEPT !.recv_counter = c] \in CodecType(Keys)
    BY <1>1, <1>2 DEF CodecType, Counters
  <1>5. codec' \in [Ends -> CodecType(Keys)]
    BY <1>2, <1>3, <1>4
  <1>6. /\ \A d \in Ends \ {e} : codec'[d] = codec[d]
        /\ codec'[e].recv_counter = c
        /\ codec'[e].send_cipher = codec[e].send_cipher
        /\ codec'[e].recv_cipher = codec[e].recv_cipher
        /\ codec'[e].send_counter = codec[e].send_counter
    BY <1>2, <1>3 DEF CodecType, Counters
  <1>7. CodecOK'
    BY <1>6 DEF IInv, CodecOK
  <1>8. WireOK'
    BY DEF IInv, WireOK
  <1> QED  BY <1>5, <1>6, <1>7, <1>8 DEF c

LEMMA ArrivingCounter ==
    ASSUME IInv, NEW f \in Arriving
    PROVE  f.counter \in 0..CounterMod-1
  BY DEF IInv, TypeOK, Arriving, Frames, FrameType, Counters

LEMMA AcceptKeeps ==
    ASSUME IInv, NEW e \in Ends, NEW f \in Arriving, Accept(e, f)
    PROVE  IInv'
  <1>1. /\ f.msg \in Messages /\ f.msg.from = PeerOf(e)
        /\ f.msg.n = f.counter /\ f.msg.n < sent[PeerOf(e)]
    BY DecryptedIsGenuine DEF Accept
  <1>2. /\ codec' \in [Ends -> CodecType(Keys)] /\ CodecOK' /\ WireOK'
        /\ \A d \in Ends \ {e} : codec'[d] = codec[d]
        /\ codec'[e].recv_counter = (f.counter + 1) % CounterMod
    BY CounterMoves, ArrivingCounter DEF Accept
  <1>3. accepted' = [accepted EXCEPT ![e] = Append(@, f.msg)]
        /\ up' = up /\ wire' = wire /\ sent' = sent /\ e \in up
    BY DEF Accept
  <1>4. accepted \in [Ends -> Seq(Messages)] /\ accepted[e] \in Seq(Messages)
        /\ sent \in [Ends -> 0..MaxMessages] /\ up \subseteq Ends
    BY DEF IInv, TypeOK
  <1>5. accepted' \in [Ends -> Seq(Messages)]
    BY <1>1, <1>3, <1>4
  <1>6. TypeOK'
    BY <1>2, <1>3, <1>5 DEF IInv, TypeOK
  \* A counter that was really sent is below the wrap
  <1>7. (f.counter + 1) % CounterMod = f.counter + 1 /\ f.counter \in Nat
    <2>1. f.counter < MaxMessages /\ f.counter \in Nat
      BY <1>1, <1>4, EndsOf, ChannelAssumption DEF Messages
    <2> QED  BY <2>1, ChannelAssumption, CounterAssumption
  <1>8. codec[e].recv_counter \in Nat /\ f.counter >= codec[e].recv_counter
    <2>1. codec[e].recv_counter \in Nat
      BY CounterAssumption DEF IInv, TypeOK, CodecType, Counters
    <2> QED  BY <2>1, <1>7 DEF Accept, Refused
  <1>9. \A i \in DOMAIN accepted[e] : /\ accepted[e][i].n \in Nat
                                      /\ accepted[e][i].n < f.counter
    <2> SUFFICES ASSUME NEW i \in DOMAIN accepted[e]
                 PROVE  accepted[e][i].n \in Nat /\ accepted[e][i].n < f.counter
      OBVIOUS
    <2>1. accepted[e][i] \in Messages
      BY <1>4
    <2>2. accepted[e][i].n < codec[e].recv_counter
      BY <1>3 DEF IInv, WindowOK
    <2> QED  BY <1>7, <1>8, <2>1, <2>2 DEF Messages
  <1>10. /\ \A d \in Ends \ {e} : accepted'[d] = accepted[d]
         /\ Len(accepted'[e]) = Len(accepted[e]) + 1
         /\ DOMAIN accepted'[e] = 1..Len(accepted[e]) + 1
         /\ DOMAIN accepted[e] = 1..Len(accepted[e])
         /\ \A i \in DOMAIN accepted[e] : accepted'[e][i] = accepted[e][i]
         /\ accepted'[e][Len(accepted[e]) + 1] = f.msg
         /\ Len(accepted[e]) \in Nat
    <2>1. accepted'[e] = Append(accepted[e], f.msg)
      BY <1>3, <1>4
    <2> QED  BY <1>1, <1>3, <1>4, <2>1
  <1>11. WindowOK'
    <2> SUFFICES ASSUME NEW d \in up, NEW i \in DOMAIN accepted'[d]
                 PROVE  accepted'[d][i].n < codec'[d].recv_counter
      BY <1>3 DEF WindowOK
    <2>1. CASE d # e
      BY <2>1, <1>2, <1>4, <1>10 DEF IInv, WindowOK
    <2>2. CASE d = e /\ i \in DOMAIN accepted[e]
      BY <2>2, <1>2, <1>7, <1>9, <1>10
    <2>3. CASE d = e /\ i = Len(accepted[e]) + 1
      BY <2>3, <1>1, <1>2, <1>7, <1>10
    <2> QED  BY <1>10, <2>1, <2>2, <2>3
  <1>12. AcceptedInOrder'
    <2> SUFFICES ASSUME NEW d \in Ends, NEW i \in DOMAIN accepted'[d]
                 PROVE  /\ accepted'[d][i].from = PeerOf(d)
                        /\ accepted'[d][i].n < sent[PeerOf(d)]
                        /\ \A j \in 1..i-1 : accepted'[d][j].n < accepted'[d][i].n
      BY <1>3 DEF AcceptedInOrder
    <2>1. CASE d # e
      BY <2>1, <1>10 DEF IInv, AcceptedInOrder
    <2>2. CASE d = e /\ i \in DOMAIN accepted[e]
      <3>1. \A j \in 1..i-1 : j \in DOMAIN accepted[e]
        BY <2>2, <1>10
      <3> QED  BY <2>2, <3>1, <1>10 DEF IInv, AcceptedInOrder
    <2>3. CASE d = e /\ i = Len(accepted[e]) + 1
      <3>1. \A j \in 1..i-1 : j \in DOMAIN accepted[e]
        BY <2>3, <1>10
      <3> QED  BY <2>3, <3>1, <1>1, <1>9, <1>10
    <2> QED  BY <1>10, <2>1, <2>2, <2>3
  <1> QED  BY <1>2, <1>6, <1>11, <1>12 DEF IInv

\* An end that gives up decodes nothing more, whatever its counter says
LEMMA GivingUpKeeps ==
    ASSUME IInv, NEW e \in Ends, up' = up \ {e},
           wire' = wire, sent' = sent, accepted' = accepted,
           codec' \in [Ends -> CodecType(Keys)], CodecOK', WireOK',
           \A d \in Ends \ {e} : codec'[d] = codec[d]
    PROVE  IInv'
  <1>1. TypeOK' /\ AcceptedInOrder'
    BY DEF IInv, TypeOK, AcceptedInOrder
  <1>2. WindowOK'
    BY DEF IInv, WindowOK, TypeOK
  <1> QED  BY <1>1, <1>2 DEF IInv

LEMMA NextKeeps == IInv /\ [Next]_vars => IInv'
  <1> SUFFICES ASSUME IInv, [Next]_vars PROVE IInv'
    OBVIOUS
  <1>1. CASE UNCHANGED vars
    BY <1>1 DEF vars, IInv, TypeOK, CodecOK, WireOK, WindowOK, AcceptedInOrder
  <1>2. ASSUME NEW e \in Ends, write_message(e) PROVE IInv'
    BY <1>2, SendKeeps
  <1>3. ASSUME NEW e \in Ends, ReadFailed(e) PROVE IInv'
    <2>1. CodecOK' /\ WireOK' /\ codec' \in [Ends -> CodecType(Keys)]
      BY <1>3 DEF ReadFailed, IInv, TypeOK, CodecOK, WireOK
    <2> QED  BY <1>3, <2>1, GivingUpKeeps DEF ReadFailed
  <1>4. ASSUME NEW e \in Ends, NEW f \in Arriving, Accept(e, f) PROVE IInv'
    BY <1>4, AcceptKeeps
  <1>5. ASSUME NEW e \in Ends, NEW f \in Arriving, Replayed(e, f) PROVE IInv'
    <2>1. CodecOK' /\ WireOK' /\ codec' \in [Ends -> CodecType(Keys)]
      BY <1>5 DEF Replayed, IInv, TypeOK, CodecOK, WireOK
    <2> QED  BY <1>5, <2>1, GivingUpKeeps DEF Replayed
  <1>6. ASSUME NEW e \in Ends, NEW f \in Arriving, Undecryptable(e, f) PROVE IInv'
    <2>1. /\ codec' \in [Ends -> CodecType(Keys)] /\ CodecOK' /\ WireOK'
          /\ \A d \in Ends \ {e} : codec'[d] = codec[d]
      BY <1>6, CounterMoves, ArrivingCounter DEF Undecryptable
    <2> QED  BY <1>6, <2>1, GivingUpKeeps DEF Undecryptable
  <1> QED  BY <1>1, <1>2, <1>3, <1>4, <1>5, <1>6 DEF Next

LEMMA Invariance == Spec => []IInv
  BY InitIInv, NextKeeps, PTL DEF Spec

-----------------------------------------------------------------------------
(* The channel is type correct, for any number of connections and messages.  *)
THEOREM ChannelTypeCorrect == Spec => []TypeOK
  <1>1. IInv => TypeOK
    BY DEF IInv
  <1> QED  BY <1>1, Invariance, PTL

(* No nonce is used twice with a key: derive_directional_keys gives the two  *)
(* ends of a connection different keys, and the counter of each only grows.  *)
THEOREM NoNonceTwice == Spec => []NoncesUnique
  <1>1. IInv => NoncesUnique
    <2> SUFFICES ASSUME IInv, NEW f \in wire, NEW g \in wire,
                        f.key = g.key, f.nonce = g.nonce
                 PROVE  f = g
      BY DEF NoncesUnique
    <2>1. f \in Frames /\ g \in Frames
      BY DEF IInv, TypeOK
    <2>2. f.msg \in Messages /\ g.msg \in Messages
      BY <2>1 DEF Frames, FrameType, Counters
    <2>3. f.msg.from = g.msg.from
      <3>1. SendKey(f.msg.from) = SendKey(g.msg.from)
        BY DEF IInv, WireOK
      <3> QED  BY <3>1, <2>2, KeysDiffer DEF Messages
    <2>4. f.msg.n = g.msg.n /\ f.counter = g.counter
      BY DEF IInv, WireOK
    <2>5. f.msg = g.msg
      BY <2>2, <2>3, <2>4 DEF Messages
    <2> QED  BY <2>1, <2>4, <2>5 DEF Frames, FrameType, Counters
  <1> QED  BY <1>1, Invariance, PTL

(* An end decodes only what its peer sent, nothing twice, in the order of    *)
(* sending, whatever the wire does: the replay check, the binding of the     *)
(* counter by the nonce, and the read loops that give up on an error.        *)
THEOREM NothingReplayed == Spec => []AcceptedInOrder
  <1>1. IInv => AcceptedInOrder
    BY DEF IInv
  <1> QED  BY <1>1, Invariance, PTL

-----------------------------------------------------------------------------
(* The channel implements the link                                           *)

LEMMA LinkDefs ==
    /\ \A e : Link!SendNext(e) <=>
          /\ e \in up
          /\ sent' = [sent EXCEPT ![e] = @ + 1]
          /\ UNCHANGED <<up, accepted>>
    /\ \A e : Link!GiveUp(e) <=>
          /\ e \in up
          /\ up' = up \ {e}
          /\ UNCHANGED <<sent, accepted>>
    /\ \A e \in Ends : \A n : Link!Deliver(e, n) <=>
          /\ e \in up
          /\ \A i \in DOMAIN accepted[e] : accepted[e][i].n < n
          /\ accepted' = [accepted EXCEPT ![e] = Append(@, [from |-> PeerOf(e), n |-> n])]
          /\ UNCHANGED <<up, sent>>
  BY DEF Link!SendNext, Link!GiveUp, Link!Deliver

\* A frame that passes both checks delivers the next message of the peer: its
\* counter is that of a message the peer has sent, and no smaller than any yet
LEMMA AcceptDelivers ==
    ASSUME IInv, NEW e \in Ends, NEW f \in Arriving, Accept(e, f)
    PROVE  \E n \in 0..sent[PeerOf(e)]-1 : Link!Deliver(e, n)
  <1>1. /\ f.msg \in Messages /\ f.msg.from = PeerOf(e)
        /\ f.msg.n = f.counter /\ f.msg.n < sent[PeerOf(e)]
    BY DecryptedIsGenuine DEF Accept
  <1>2. f.msg = [from |-> PeerOf(e), n |-> f.counter] /\ f.counter \in Nat
    BY <1>1 DEF Messages
  <1>3. f.counter \in 0..sent[PeerOf(e)]-1
    <2>1. sent[PeerOf(e)] \in Nat
      BY EndsOf, ChannelAssumption DEF IInv, TypeOK
    <2> QED  BY <1>1, <1>2, <2>1
  <1>4. codec[e].recv_counter \in Nat /\ f.counter >= codec[e].recv_counter
    <2>1. codec[e].recv_counter \in Nat
      BY CounterAssumption DEF IInv, TypeOK, CodecType, Counters
    <2> QED  BY <1>2, <2>1 DEF Accept, Refused
  <1>5. \A i \in DOMAIN accepted[e] : accepted[e][i].n < f.counter
    <2> SUFFICES ASSUME NEW i \in DOMAIN accepted[e]
                 PROVE  accepted[e][i].n < f.counter
      OBVIOUS
    <2>1. accepted[e][i] \in Messages
      BY DEF IInv, TypeOK
    <2>2. accepted[e][i].n < codec[e].recv_counter
      BY DEF IInv, WindowOK, Accept
    <2> QED  BY <1>2, <1>4, <2>1, <2>2 DEF Messages
  <1>6. Link!Deliver(e, f.counter)
    BY <1>2, <1>5, LinkDefs DEF Accept
  <1> QED  BY <1>3, <1>6

LEMMA StepImplements == IInv /\ [Next]_vars => [Link!LinkNext]_(Link!linkVars)
  <1> SUFFICES ASSUME IInv, Next PROVE Link!LinkNext
    BY DEF vars, Link!linkVars
  <1>2. ASSUME NEW e \in Ends, write_message(e) PROVE Link!LinkNext
    <2>1. Link!SendNext(e)
      BY <1>2, LinkDefs DEF write_message
    <2> QED  BY <2>1 DEF Link!LinkNext
  <1>3. ASSUME NEW e \in Ends, up' = up \ {e}, e \in up, UNCHANGED <<sent, accepted>>
        PROVE  Link!LinkNext
    <2>1. Link!GiveUp(e)
      BY <1>3, LinkDefs
    <2> QED  BY <2>1 DEF Link!LinkNext
  <1>4. ASSUME NEW e \in Ends, NEW f \in Arriving, Accept(e, f) PROVE Link!LinkNext
    <2>1. PICK n \in 0..sent[PeerOf(e)]-1 : Link!Deliver(e, n)
      BY <1>4, AcceptDelivers
    <2> QED  BY <2>1 DEF Link!LinkNext
  <1>5. ASSUME NEW e \in Ends,
               ReadFailed(e) \/ \E f \in Arriving : Replayed(e, f) \/ Undecryptable(e, f)
        PROVE  Link!LinkNext
    BY <1>3, <1>5 DEF ReadFailed, Replayed, Undecryptable
  <1> QED  BY <1>2, <1>4, <1>5 DEF Next

(* Seen without frames, keys and counters, every behaviour of the channel is *)
(* one of MessageLink, for any number of connections and messages: messages  *)
(* may be lost, but come as they were sent, in order, once, and never to an  *)
(* end that has given up.  EncryptedCodec, read_message and its callers.     *)
THEOREM ChannelIsALink == Spec => ImplementsLink
  <1>1. Init => Link!LinkInit
    BY DEF Init, Link!LinkInit
  <1>2. Spec => [][Link!LinkNext]_(Link!linkVars)
    BY StepImplements, Invariance, PTL DEF Spec
  <1> QED  BY <1>1, <1>2, PTL DEF Spec, ImplementsLink, Link!LinkSpec
=============================================================================
