-------------------------------- MODULE Codec --------------------------------
(* EncryptedCodec (grimoire-protocol/src/codec.rs): the state of one end of a *)
(* connection and what encoding and decoding a frame do to it.  A key is the *)
(* shared secret with the label it was expanded with, a ciphertext is the    *)
(* key, the nonce and the message it was made from, and the length prefix is *)
(* left out.                                                                 *)
EXTENDS Naturals

CONSTANT CounterMod         \* the counters are u64: 2^64 in the code

ASSUME CounterAssumption == CounterMod \in Nat \ {0}

Sides == {"client", "server"}

Labels == {"grimoire-ipc-c2s", "grimoire-ipc-s2c"}

Counters == 0..CounterMod-1

CodecType(keys) == [send_cipher : keys, recv_cipher : keys,
                    send_counter : Counters, recv_counter : Counters]

FrameType(keys, messages) == [counter : Counters, key : keys,
                              nonce : Counters, msg : messages]

\* A mutant of derive_directional_keys: one key for both directions
one_key(secret) == [c2s |-> <<secret, "grimoire-ipc-c2s">>,
                    s2c |-> <<secret, "grimoire-ipc-c2s">>]

\* The two keys that HKDF makes of one shared secret
derive_directional_keys(secret) == [c2s |-> <<secret, "grimoire-ipc-c2s">>,
                                    s2c |-> <<secret, "grimoire-ipc-s2c">>]

new_client(secret) ==
    LET keys == derive_directional_keys(secret)
    IN  [send_cipher |-> keys.c2s, recv_cipher |-> keys.s2c,
         send_counter |-> 0, recv_counter |-> 0]

new_server(secret) ==
    LET keys == derive_directional_keys(secret)
    IN  [send_cipher |-> keys.s2c, recv_cipher |-> keys.c2s,
         send_counter |-> 0, recv_counter |-> 0]

NewCodec(secret, side) ==
    IF side = "client" THEN new_client(secret) ELSE new_server(secret)

\* Encoding takes a nonce (fetch_add wraps) and sends the counter in the clear
next_nonce(codec) ==
    [codec EXCEPT !.send_counter = (@ + 1) % CounterMod]

Encode(codec, msg) ==
    [counter |-> codec.send_counter, key |-> codec.send_cipher,
     nonce |-> codec.send_counter, msg |-> msg]

\* A mutant of Refused: a fresh codec is no special case
refused_when_fresh(codec, frame) == frame.counter <= codec.recv_counter

\* Decoding refuses a counter it takes for a replay; any other counter is
\* recorded before the ciphertext is looked at.  counter + 1 wraps in a release
\* build; where it panics instead, the task of the connection ends.
Refused(codec, frame) ==
    \/ frame.counter < codec.recv_counter
    \/ frame.counter = codec.recv_counter /\ codec.recv_counter > 0

\* A mutant of AfterCounter: the counter does not wrap
after_counter_wide(codec, frame) ==
    [codec EXCEPT !.recv_counter = frame.counter + 1]

AfterCounter(codec, frame) ==
    [codec EXCEPT !.recv_counter = (frame.counter + 1) % CounterMod]

\* A mutant of Decrypts: the nonce is taken on trust
decrypts_any_nonce(codec, frame) == frame.key = codec.recv_cipher

Decrypts(codec, frame) ==
    /\ frame.key = codec.recv_cipher
    /\ frame.nonce = frame.counter
=============================================================================
