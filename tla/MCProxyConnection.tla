-------------------------- MODULE MCProxyConnection --------------------------
(***************************************************************************)
(* Between orderly peers ProxyConnection implements StreamRelay: one FIFO  *)
(* per direction for what HTTP/1 sessions and tunnels carry, and one for   *)
(* HTTP/2 frames.                                                          *)
(***************************************************************************)
EXTENDS ProxyConnection, Sieve

Framed == {"settings", "frame"}
CarriedOn(t) == IF t = "frames" THEN Framed ELSE Kind \ (Framed \cup {"preface"})

\* The units of side s that belong to the channel, and those that go further.
On(s, t) == {n \in DOMAIN sent[s] : sent[s][n] \in CarriedOn(t)}
Owed(s, t) == {n \in On(s, t) : ~Kept(s, n)}

\* What the sessions of the side have taken and must relay, and what has been
\* written to the other peer.
Taken(s, t) == IF Orderly THEN Only([n \in 1..read[s] |-> n], Owed(s, t)) ELSE <<>>
Relayed(s, t) ==
    IF Orderly
    THEN Only(FlattenSeq([n \in DOMAIN out[Other(s)] |-> out[Other(s)][n].of]), On(s, t))
    ELSE <<>>

Channels == {"messages", "frames"}
Promise == INSTANCE StreamRelay WITH
    Dirs <- Side,
    Items <- Nat,
    taken <- [s \in Side |-> [t \in Channels |-> Taken(s, t)]],
    given <- [s \in Side |-> [t \in Channels |-> Relayed(s, t)]]

(***************************************************************************)
(* Every behaviour of the connection is one of the FIFOs: nothing a peer   *)
(* sends is lost, repeated or overtaken when the sessions are replaced     *)
(* under it.                                                               *)
(***************************************************************************)
ImplementsStreamRelay == Promise!Spec
=============================================================================
