----------------------------- MODULE MessageLink -----------------------------
(* What an end of the encrypted channel may rely on, without keys, nonces,   *)
(* counters or frames: the messages of its peer come in the order of         *)
(* sending, each once and as it was sent, though some may never come; and    *)
(* nothing comes any more to an end that has given the connection up.        *)
EXTENDS Naturals, Sequences

CONSTANTS
    Ends,
    Peer                \* the other end of each end's connection

VARIABLES
    open,               \* the ends that still hold the connection
    sent,               \* the number of messages each end has sent
    delivered           \* what has come to each end, in order

linkVars == <<open, sent, delivered>>

LinkInit ==
    /\ open = Ends
    /\ sent = [e \in Ends |-> 0]
    /\ delivered = [e \in Ends |-> <<>>]

SendNext(e) ==
    /\ e \in open
    /\ sent' = [sent EXCEPT ![e] = @ + 1]
    /\ UNCHANGED <<open, delivered>>

\* The n-th message of the peer comes, after all that have come before it
Deliver(e, n) ==
    /\ e \in open
    /\ \A i \in DOMAIN delivered[e] : delivered[e][i].n < n
    /\ delivered' = [delivered EXCEPT ![e] = Append(@, [from |-> Peer[e], n |-> n])]
    /\ UNCHANGED <<open, sent>>

GiveUp(e) ==
    /\ e \in open
    /\ open' = open \ {e}
    /\ UNCHANGED <<sent, delivered>>

LinkNext ==
    \E e \in Ends :
       \/ SendNext(e) \/ GiveUp(e)
       \/ \E n \in 0..sent[Peer[e]]-1 : Deliver(e, n)

LinkSpec == LinkInit /\ [][LinkNext]_linkVars
=============================================================================
