--------------------------- MODULE Http2RelayOrder ---------------------------
(***************************************************************************)
(* Http2Relay implements StreamRelay: the two sessions, their message      *)
(* queues, the SETTINGS gate, partial frames and stored gzip responses     *)
(* together are one FIFO per direction and stream, while no window closes. *)
(***************************************************************************)
EXTENDS MCHttp2Relay, Sieve

Channels == Streams \cup {0, 1}

\* The frames of stream t that session s has decoded and must relay.
Owed(s, t) ==
    {n \in DOMAIN sent[s] : sent[s][n].stream = t /\ sent[s][n].type # "WINDOW_UPDATE"}
Decoded(s, t) == Only([n \in 1..(parsed[s] \div 2) |-> n], Owed(s, t))

\* The frames that written messages carry on stream t.
Carried(written, t) ==
    FlattenSeq([i \in DOMAIN written |-> IF written[i].stream = t THEN written[i].of ELSE <<>>])

Promise == INSTANCE StreamRelay WITH
    Dirs <- Side,
    Items <- Nat \ {0},
    taken <- [s \in Side |-> [t \in Channels |-> Decoded(s, t)]],
    given <- [s \in Side |-> [t \in Channels |-> Carried(out[Other(s)], t)]]

(***************************************************************************)
(* Every behaviour of the relay is one of the FIFO: the frames of a stream *)
(* reach the far peer in the order they were sent, each once, although     *)
(* DoFlush passes over messages that are held and comes back to them.      *)
(***************************************************************************)
ImplementsStreamRelay == Promise!Spec
=============================================================================
