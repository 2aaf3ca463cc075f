--------------------------- MODULE ProxyConnection ---------------------------
(***************************************************************************)
(* One proxied connection: the ServerConnection accepted from the          *)
(* application ("up") and the ClientConnection it opens to the origin      *)
(* ("down"), the sessions they own, and the ways the sessions change:      *)
(* the client preface, the outcome of the connection (ALPN, CONNECT) and   *)
(* a 101 response.  Sessions that speak HTTP/1 hold one message and feed   *)
(* it from http_parser; plane sessions copy bytes.  HTTP/2 sessions are    *)
(* queues of frames here: what they do in between is Http2Relay's subject. *)
(*                                                                         *)
(* The proxy is a single-threaded libevent loop: `handler' says whose read *)
(* callback runs.  Inside a callback there is one action per unit of input *)
(* that a session decodes, then one for what the callback does at its end. *)
(*                                                                         *)
(* Abstractions.  A peer writes units: the beginning of an HTTP/1 message  *)
(* (its start line) and the rest of it, an interim response, a 101         *)
(* response, the client preface (whole, or in two fragments), a SETTINGS   *)
(* frame, any other frame, and raw bytes of another protocol.  A read      *)
(* takes everything that has arrived.                                      *)
(***************************************************************************)
EXTENDS Integers, SequencesExt

CONSTANTS
    Plans,        \* what the application may want of the connection
    Tls,          \* how the proxy may connect to origins (port 23456 or 12345)
    MaxRequests,  \* bound: HTTP/1 requests
    MaxUnits,     \* bound: units of frames or raw bytes of each peer
    Manners       \* how freely the peers of a connection may use HTTP

ASSUME ConstantsAssumption ==
    /\ Plans \subseteq {"get", "connect", "h2c", "other", "direct"}
    /\ Tls \subseteq BOOLEAN
    /\ MaxRequests \in Nat /\ MaxUnits \in Nat
    /\ Manners \subseteq SUBSET {"pipelining", "interim", "fragments", "eager"}

VARIABLES
    plan,       \* the application: its first request is a plain one, a CONNECT,
                \* one with Upgrade (h2c or another protocol), or a preface
    manners,    \* the peers: "pipelining" (requests before the answer), "interim"
                \* (100 Continue), "fragments" (a preface or a CONNECT in two
                \* pieces), "eager" (tunnel bytes before the answer to CONNECT)
    tls,        \* IsSSL(): the origin is reached over TLS
    sent,       \* sent[s]: the units the peer of side s has written, in order
    read,       \* read[s]: how many of them the session has taken
    signalled,  \* signalled[s]: libevent will call the read callback of s
    eof,        \* eof[s]: the peer of side s has closed the connection
    up,         \* the class of upstream_: "http1", "http2" or "plane"
    upgrade,    \* ServerConnection::upgrade_
    tunnel,     \* ServerConnection::tunnel_
    magic,      \* recvclientmagic_ of the HTTP/2 up session
    client,     \* the ClientConnection: "none", "connecting", "connected",
                \* "refused" (HTTP/2 asked for, not chosen by the origin)
    protocol,   \* ClientConnection::protocol_
    down,       \* the class of downstream_
    recvwait,   \* ClientConnection::recvwait_
    switching,  \* switchingprotocol_, "" when there is nothing to switch to
    slot,       \* slot[s]: request_ and message_, the HTTP/1 message of s
    dead,       \* dead[s]: the http_parser of s is in an error state
    queue,      \* queue[s]: the messages an HTTP/2 session s has yet to relay
    out,        \* out[s]: what has been written to the peer of side s
    readAs,     \* readAs[s]: the class of the session that took each unit
    handler,    \* "idle", the side whose callback runs, "closed" or "crashed"
    stopped     \* the running callback takes no more input

vars == <<plan, manners, tls, sent, read, signalled, eof, up, upgrade, tunnel, magic,
          client, protocol, down, recvwait, switching, slot, dead, queue, out, readAs,
          handler, stopped>>

peerVars == <<plan, manners, tls, sent, eof>>
inputVars == <<read, readAs, dead, magic>>
serverVars == <<up, upgrade, tunnel>>
clientVars == <<client, protocol, down, switching>>

Side == {"up", "down"}
Other(s) == IF s = "up" THEN "down" ELSE "up"
Class == {"http1", "http2", "plane"}
Kind == {"begin", "rest", "100", "101", "preface", "preface1", "preface2",
         "settings", "frame", "raw"}

\* An HTTP/1 message: the units it was made of, upgrade_http2, whether the
\* method is CONNECT, and procstat.  NoMessage is a null pointer.
Message == [units : Seq(Nat), h2 : BOOLEAN, connect : BOOLEAN,
            stat : {"HEADER", "COMPLETE"}]
NoMessage == [units |-> <<>>, h2 |-> FALSE, connect |-> FALSE, stat |-> "HEADER"]

\* What is written to a peer: the units it carries, none for an answer or a
\* GOAWAY of the proxy's own.
Written == [kind : {"http1", "frame", "raw", "101", "200", "goaway"}, of : Seq(Nat)]
Http1(m) == [kind |-> "http1", of |-> m.units]
Frames(q) == [i \in DOMAIN q |-> [kind |-> "frame", of |-> q[i]]]
Own(k) == [kind |-> k, of |-> <<>>]

Init ==
    /\ plan \in Plans /\ manners \in Manners /\ tls \in Tls
    /\ sent = [s \in Side |-> <<>>]
    /\ read = [s \in Side |-> 0]
    /\ signalled = [s \in Side |-> FALSE]
    /\ eof = [s \in Side |-> FALSE]
    /\ up = "http1" /\ upgrade = FALSE /\ tunnel = FALSE /\ magic = FALSE
    /\ client = "none" /\ protocol = "http1" /\ down = "http1"
    /\ recvwait = TRUE /\ switching = ""
    /\ slot = [s \in Side |-> NoMessage]
    /\ dead = [s \in Side |-> FALSE]
    /\ queue = [s \in Side |-> <<>>]
    /\ out = [s \in Side |-> <<>>]
    /\ readAs = [s \in Side |-> <<>>]
    /\ handler = "idle" /\ stopped = FALSE

-----------------------------------------------------------------------------
(***************************************************************************)
(* The peers, which are not part of this program: an application and an    *)
(* origin that change protocol only when the other has agreed.             *)
(***************************************************************************)
Of(s, K) == {n \in DOMAIN sent[s] : sent[s][n] \in K}
Messages(s) == {n \in DOMAIN out[s] : out[s][n].kind = "http1"}
Answered == {n \in Of("down", {"rest"}) : \E w \in Range(out["up"]) : n \in Range(w.of)}

\* The application has been told that the connection changes protocol.
Agreed ==
    \E w \in Range(out["up"]) :
       w.kind \in {"101", "200"} \/ \E n \in Range(w.of) : sent["down"][n] = "101"

Write(s, units) ==
    /\ handler = "idle" /\ ~eof[s]
    /\ sent' = [sent EXCEPT ![s] = @ \o units]
    /\ signalled' = [signalled EXCEPT ![s] = TRUE]
    /\ UNCHANGED <<plan, manners, tls, eof, serverVars, inputVars, clientVars, recvwait, slot,
                   queue, out, handler, stopped>>

\* A request, whole or in two pieces (a CONNECT only with "fragments").
AppRequest ==
    /\ plan # "direct" /\ ~Agreed
    /\ Cardinality(Of("up", {"begin"})) = Cardinality(Of("up", {"rest"}))
    /\ Cardinality(Of("up", {"begin"})) < MaxRequests
    /\ \/ "pipelining" \in manners /\ plan = "get"
       \/ Cardinality(Answered) = Cardinality(Of("up", {"rest"}))
    /\ \/ Write("up", <<"begin", "rest">>)
       \/ (plan # "connect" \/ "fragments" \in manners) /\ Write("up", <<"begin">>)
AppRest ==
    /\ Cardinality(Of("up", {"begin"})) > Cardinality(Of("up", {"rest"}))
    /\ Write("up", <<"rest">>)
AppPreface ==
    /\ plan = "direct" \/ (plan = "h2c" /\ Agreed)
    /\ Of("up", {"preface", "preface2"}) = {}
    /\ \/ Of("up", {"preface1"}) = {} /\ Write("up", <<"preface">>)
       \/ "fragments" \in manners /\ Of("up", {"preface1"}) = {} /\ Write("up", <<"preface1">>)
       \/ Of("up", {"preface1"}) # {} /\ Write("up", <<"preface2">>)
AppSettings ==
    /\ Of("up", {"preface", "preface2"}) # {} /\ Of("up", {"settings"}) = {}
    /\ Write("up", <<"settings">>)
AppFrame ==
    /\ Of("up", {"settings"}) # {} /\ Cardinality(Of("up", {"frame"})) < MaxUnits
    /\ Write("up", <<"frame">>)
AppRaw ==
    /\ plan \in {"connect", "other"}
    /\ Agreed \/ ("eager" \in manners /\ plan = "connect" /\ Of("up", {"rest"}) # {})
    /\ Cardinality(Of("up", {"raw"})) < MaxUnits
    /\ Write("up", <<"raw">>)

\* The origin answers the requests it has been sent; a request with Upgrade
\* may be answered 101.  A tunnelled or TLS origin may speak first.
Unanswered == Cardinality(Messages("down")) > Cardinality(Of("down", {"rest", "101"}))
Responding == Cardinality(Of("down", {"begin"})) > Cardinality(Of("down", {"rest"}))
OriginInterim ==
    /\ "interim" \in manners
    /\ Unanswered /\ ~Responding /\ Of("down", {"100"}) = {}
    /\ Write("down", <<"100">>)
OriginBegin == Unanswered /\ ~Responding /\ Write("down", <<"begin">>)
OriginRest == Responding /\ Write("down", <<"rest">>)
OriginSwitch ==
    /\ plan \in {"h2c", "other"} /\ Unanswered /\ ~Responding
    /\ Of("down", {"rest"}) = {}
    /\ Write("down", <<"101">>)
OriginSettings ==
    /\ \/ client = "connected" /\ down = "http2" /\ (tls \/ out["down"] # <<>>)
       \/ plan = "h2c" /\ Of("down", {"101"}) # {}
    /\ Of("down", {"settings"}) = {}
    /\ Write("down", <<"settings">>)
OriginFrame ==
    /\ Of("down", {"settings"}) # {} /\ Cardinality(Of("down", {"frame"})) < MaxUnits
    /\ Write("down", <<"frame">>)
OriginRaw ==
    /\ \/ plan = "connect" /\ client = "connected"
       \/ plan = "other" /\ Of("down", {"101"}) # {}
    /\ Cardinality(Of("down", {"raw"})) < MaxUnits
    /\ Write("down", <<"raw">>)

PeerClose(s) ==
    /\ handler = "idle" /\ ~eof[s]
    /\ s = "down" => client \in {"connected", "refused"}
    /\ eof' = [eof EXCEPT ![s] = TRUE]
    /\ UNCHANGED <<plan, manners, tls, sent, signalled, serverVars, inputVars, clientVars,
                   recvwait, slot, queue, out, handler, stopped>>

App == AppRequest \/ AppRest \/ AppPreface \/ AppSettings \/ AppFrame \/ AppRaw
Origin == OriginInterim \/ OriginBegin \/ OriginRest \/ OriginSwitch
          \/ OriginSettings \/ OriginFrame \/ OriginRaw
Peers == App \/ Origin \/ \E s \in Side : PeerClose(s)

-----------------------------------------------------------------------------
(***************************************************************************)
(* The read callback of a connection up to the on_read of its session.     *)
(***************************************************************************)
NextUnit(s) == sent[s][read[s] + 1]

\* ServerConnection::readcb compares 24 bytes with the client preface,
\* however many have arrived: after a fragment it reads whatever the buffer
\* held before.
readcb ==
    /\ handler = "idle" /\ signalled["up"]
    /\ \E match \in IF NextUnit("up") = "preface1" /\ Len(sent["up"]) = read["up"] + 1
                    THEN BOOLEAN
                    ELSE {NextUnit("up") \in {"preface", "preface1"}} :
         IF ~upgrade /\ ~tunnel /\ match
         THEN /\ upgrade' = TRUE /\ up' = "http2"
              /\ slot' = [slot EXCEPT !["up"] = IF up = "http2" THEN @ ELSE NoMessage]
         ELSE UNCHANGED <<upgrade, up, slot>>
    /\ signalled' = [signalled EXCEPT !["up"] = FALSE]
    /\ handler' = "up" /\ stopped' = FALSE
    /\ UNCHANGED <<peerVars, inputVars, tunnel, clientVars, recvwait, queue, out>>

\* ClientConnection::on_read; with recvwait_ it leaves the bytes where they
\* are, and libevent calls again only when more of them arrive.
on_read ==
    /\ handler = "idle" /\ signalled["down"]
    /\ IF client = "connected" /\ ~recvwait
       THEN handler' = "down" /\ stopped' = FALSE
       ELSE UNCHANGED <<handler, stopped>>
    /\ signalled' = [signalled EXCEPT !["down"] = FALSE]
    /\ UNCHANGED <<peerVars, inputVars, serverVars, clientVars, recvwait, slot, queue, out>>

-----------------------------------------------------------------------------
(***************************************************************************)
(* on_read of the sessions, one unit at a time.                            *)
(***************************************************************************)
ClassOf(s) == IF s = "up" THEN up ELSE down
Taking(s, class) ==
    /\ handler = s /\ ~stopped /\ read[s] < Len(sent[s])
    /\ ClassOf(s) = class
Take(s) ==
    /\ read' = [read EXCEPT ![s] = @ + 1]
    /\ readAs' = [readAs EXCEPT ![s] = Append(@, ClassOf(s))]

\* The request whose beginning or rest is unit n is the first one.
First(n) == Cardinality({m \in Of("up", {"begin"}) : m <= n}) = 1

msg_beginDone(s) ==      \* a slip: procstat of a new message is not set back
    [NoMessage EXCEPT !.units = Append(slot[s].units, read[s] + 1), !.stat = "COMPLETE"]

\* http_parser begins a message: the slot is reused if it is not empty.
msg_begin(s) ==
    LET n == read[s] + 1
        m == slot[s]
        c == s = "up" /\ plan = "connect" /\ First(n)
    IN  IF m = NoMessage
        THEN [units |-> <<n>>, h2 |-> FALSE, connect |-> c, stat |-> "HEADER"]
        ELSE [m EXCEPT !.units = Append(@, n), !.connect = c]
msg_completeBody(s, m) ==      \* a slip: procstat is left at BODY
    [m EXCEPT !.units = Append(@, read[s] + 1), !.stat = "BODY"]

\* ... and completes it; the Upgrade header is in the rest of a request.
msg_complete(s, m) ==
    [m EXCEPT !.units = IF read[s] + 1 \in Range(@) THEN @ ELSE Append(@, read[s] + 1),
              !.h2 = @ \/ (s = "up" /\ plan = "h2c" /\ First(read[s] + 1)),
              !.stat = "COMPLETE"]

ParseBeginRequest(s) ==      \* a slip: a response has no message until its headers end
    /\ Taking(s, "http1") /\ ~dead[s] /\ NextUnit(s) = "begin"
    /\ slot' = [slot EXCEPT ![s] = IF s = "up" THEN msg_begin(s) ELSE @]
    /\ Take(s)
    /\ UNCHANGED <<peerVars, signalled, serverVars, clientVars, recvwait, queue, out,
                   dead, magic, handler, stopped>>

\* http_parser stops after a message that changes the protocol, for ever
\* when a callback fails (no message to fill) or the input is not HTTP/1.
ParseBegin(s) ==
    /\ Taking(s, "http1") /\ ~dead[s] /\ NextUnit(s) = "begin"
    /\ slot' = [slot EXCEPT ![s] = msg_begin(s)]
    /\ Take(s)
    /\ UNCHANGED <<peerVars, signalled, serverVars, clientVars, recvwait, queue, out,
                   dead, magic, handler, stopped>>
ParseRest(s) ==
    /\ Taking(s, "http1") /\ ~dead[s] /\ NextUnit(s) = "rest"
    /\ slot[s] # NoMessage
    /\ slot' = [slot EXCEPT ![s] = msg_complete(s, @)]
    /\ stopped' = (s = "up" /\ plan \in {"connect", "h2c", "other"} /\ First(read[s] + 1))
    /\ Take(s)
    /\ UNCHANGED <<peerVars, signalled, serverVars, clientVars, recvwait, queue, out,
                   dead, magic, handler>>
ParseShortOn(s) ==      \* a slip: parsing goes on after a 101
    /\ Taking(s, "http1") /\ ~dead[s] /\ NextUnit(s) \in {"100", "101"}
    /\ slot' = [slot EXCEPT ![s] = msg_complete(s, msg_begin(s))]
    /\ switching' = IF NextUnit(s) = "101" THEN plan ELSE switching
    /\ Take(s)
    /\ UNCHANGED <<peerVars, signalled, serverVars, client, protocol, down, recvwait,
                   queue, out, dead, magic, handler, stopped>>
ParseShort(s) ==
    /\ Taking(s, "http1") /\ ~dead[s] /\ NextUnit(s) \in {"100", "101"}
    /\ slot' = [slot EXCEPT ![s] = msg_complete(s, msg_begin(s))]
    /\ IF NextUnit(s) = "101"
       THEN switching' = plan /\ stopped' = TRUE
       ELSE UNCHANGED <<switching, stopped>>
    /\ Take(s)
    /\ UNCHANGED <<peerVars, signalled, serverVars, client, protocol, down, recvwait,
                   queue, out, dead, magic, handler>>
ParseError(s) ==
    /\ Taking(s, "http1")
    /\ IF dead[s] \/ (NextUnit(s) = "rest" /\ slot[s] = NoMessage)
       THEN UNCHANGED <<slot, read, readAs>>
       ELSE /\ NextUnit(s) \notin {"begin", "rest", "100", "101"}
            /\ slot' = [slot EXCEPT ![s] = IF NextUnit(s) = "preface1" THEN msg_begin(s) ELSE @]
            /\ Take(s)
    /\ dead' = [dead EXCEPT ![s] = TRUE]
    /\ stopped' = TRUE
    /\ UNCHANGED <<peerVars, signalled, serverVars, clientVars, recvwait, queue, out,
                   magic, handler>>

\* UpSessionHttp2::on_read waits for the whole preface.
TakePreface ==
    /\ Taking("up", "http2") /\ ~magic
    /\ LET rest == SubSeq(sent["up"], read["up"] + 1, Len(sent["up"]))
           k == IF rest[1] = "preface" THEN 1
                ELSE IF IsPrefix(<<"preface1", "preface2">>, rest) THEN 2 ELSE 0
       IN  /\ magic' = (k > 0) /\ stopped' = (k = 0)
           /\ read' = [read EXCEPT !["up"] = @ + k]
           /\ readAs' = [readAs EXCEPT !["up"] = @ \o [i \in 1..k |-> "http2"]]
    /\ UNCHANGED <<peerVars, signalled, serverVars, clientVars, recvwait, slot, dead, queue,
                   out, handler>>
\* appendHttp1Request kept the first place for the SETTINGS frame.
TakeFrame(s) ==
    /\ Taking(s, "http2")
    /\ s = "up" => magic
    /\ LET f == <<read[s] + 1>>
       IN  queue' = [queue EXCEPT ![s] =
               IF NextUnit(s) = "settings" THEN <<f>> \o @ ELSE Append(@, f)]
    /\ Take(s)
    /\ UNCHANGED <<peerVars, signalled, serverVars, clientVars, recvwait, slot, dead, magic,
                   out, handler, stopped>>

CopyBytesLater(s) ==      \* a slip: bytes are dropped while recvwait_ is set
    /\ Taking(s, "plane")
    /\ out' = IF recvwait THEN out
              ELSE [out EXCEPT ![Other(s)] = Append(@, [kind |-> "raw", of |-> <<read[s] + 1>>])]
    /\ recvwait' = (recvwait /\ s = "down")
    /\ Take(s)
    /\ UNCHANGED <<peerVars, signalled, serverVars, clientVars, slot, dead, magic, queue,
                   handler, stopped>>

\* write of both connections; the first one to the origin ends recvwait_.
write(s, units) ==
    /\ out' = [out EXCEPT ![s] = @ \o units]
    /\ recvwait' = (recvwait /\ s = "up")

\* UpSessionPlane and DownSessionPlane write the bytes to the other peer.
CopyBytes(s) ==
    /\ Taking(s, "plane")
    /\ write(Other(s), <<[kind |-> "raw", of |-> <<read[s] + 1>>]>>)
    /\ Take(s)
    /\ UNCHANGED <<peerVars, signalled, serverVars, clientVars, slot, dead, magic, queue,
                   handler, stopped>>

-----------------------------------------------------------------------------
(***************************************************************************)
(* The end of the callbacks: init_client, DoFlush, switchingProtocol.      *)
(***************************************************************************)
ReadEnds(s) == handler = s /\ (stopped \/ read[s] = Len(sent[s]))

\* DoFlush of the HTTP/2 sessions: nothing before the SETTINGS frame.
Greeted(q, s) == q # <<>> /\ (Len(q[1]) = 1) /\ sent[s][q[1][1]] = "settings"
QueueFlush(q, s) ==
    IF Greeted(q, s) \/ \E w \in Range(out[Other(s)]) :
                          w.kind = "frame" /\ sent[s][w.of[1]] = "settings"
    THEN Frames(q) ELSE <<>>
FlushQueue(s) ==
    LET written == IF s = "down" \/ client' = "connected" THEN QueueFlush(queue[s], s) ELSE <<>>
    IN  IF written = <<>> THEN UNCHANGED <<out, queue, recvwait>>
        ELSE write(Other(s), written) /\ queue' = [queue EXCEPT ![s] = <<>>]

\* DoFlush of UpSessionHttp: a whole request, and over TLS no upgrade.
FlushRequest(m) ==
    IF ~(m.h2 /\ tls) /\ client' = "connected" /\ m.stat = "COMPLETE"
    THEN write("down", <<Http1(m)>>) /\ slot' = [slot EXCEPT !["up"] = NoMessage]
    ELSE UNCHANGED <<out, slot, recvwait>>

InitClientHttp(asked) ==      \* a slip: no session class for a tunnel
    IF client = "none" /\ asked # "none"
    THEN /\ client' = "connecting" /\ protocol' = asked
         /\ down' = IF asked = "http2" THEN "http2" ELSE "http1"
    ELSE UNCHANGED <<client, protocol, down>>

\* init_client, when the session knows a host and there is no client yet.
InitClient(asked) ==
    IF client = "none" /\ asked # "none"
    THEN /\ client' = "connecting"
         /\ protocol' = asked
         /\ down' = CASE asked = "plane" -> "plane" [] asked = "http2" -> "http2"
                      [] OTHER -> "http1"
    ELSE UNCHANGED <<client, protocol, down>>

UpHttpDoneKept ==      \* a slip: the message is not taken out of its slot
    /\ ReadEnds("up") /\ up = "http1"
    /\ LET m == slot["up"]
       IN  /\ InitClient(IF m = NoMessage THEN "none" ELSE "http1")
           /\ IF client = "connected" /\ m.stat = "COMPLETE"
              THEN out' = [out EXCEPT !["down"] = Append(@, Http1(m))] /\ recvwait' = FALSE
              ELSE UNCHANGED <<out, recvwait>>
    /\ handler' = "idle"
    /\ UNCHANGED <<peerVars, inputVars, signalled, serverVars, switching, slot, queue, stopped>>
UpHttpDone ==
    /\ ReadEnds("up") /\ up = "http1"
    /\ LET m == slot["up"]
           asks == m # NoMessage /\ sent["up"][m.units[1]] = "begin"
       IN  /\ InitClient(CASE ~asks -> "none"
                           [] asks /\ m.h2 -> "both"
                           [] asks /\ ~m.h2 /\ m.connect -> "plane"
                           [] asks /\ ~m.h2 /\ ~m.connect -> "http1")
           /\ FlushRequest(m)
    /\ handler' = "idle"
    /\ UNCHANGED <<peerVars, inputVars, signalled, serverVars, switching, queue, stopped>>

UpHttp2Done ==
    /\ ReadEnds("up") /\ up = "http2"
    /\ InitClient(IF \E q \in Range(queue["up"]) : sent["up"][q[1]] = "frame"
                  THEN "http2" ELSE "none")
    /\ FlushQueue("up")
    /\ handler' = "idle"
    /\ UNCHANGED <<peerVars, inputVars, signalled, serverVars, switching, slot, stopped>>

UpPlaneDone ==
    /\ ReadEnds("up") /\ up = "plane"
    /\ handler' = "idle"
    /\ UNCHANGED <<peerVars, inputVars, signalled, serverVars, clientVars, recvwait, slot,
                   queue, out, stopped>>

\* switchingProtocol of both connections: "h2c" or anything else.
SwitchedClass == IF switching = "h2c" THEN "http2" ELSE "plane"
SwitchSessions ==
    /\ down' = SwitchedClass /\ up' = SwitchedClass
    /\ slot' = [s \in Side |-> NoMessage]
    /\ switching' = ""
    /\ recvwait' = TRUE

\* DownSessionHttp: DoFlush dereferences message_ without looking; a 101 then
\* changes both sessions before the callback returns.
DownHttpDone ==
    /\ ReadEnds("down") /\ down = "http1"
    /\ LET m == slot["down"]
       IN  IF m = NoMessage
           THEN handler' = "crashed" /\ UNCHANGED <<out, slot, up, down, switching, recvwait>>
           ELSE /\ handler' = "idle"
                /\ IF m.stat = "COMPLETE"
                   THEN out' = [out EXCEPT !["up"] = Append(@, Http1(m))]
                   ELSE UNCHANGED out
                /\ IF switching # ""
                   THEN SwitchSessions
                   ELSE /\ slot' = [slot EXCEPT !["down"] =
                                      IF m.stat = "COMPLETE" THEN NoMessage ELSE @]
                        /\ UNCHANGED <<down, up, switching, recvwait>>
    /\ UNCHANGED <<peerVars, inputVars, signalled, upgrade, tunnel, client, protocol, queue,
                   stopped>>

DownHttp2Done ==
    /\ ReadEnds("down") /\ down = "http2"
    /\ FlushQueue("down")
    /\ handler' = "idle"
    /\ UNCHANGED <<peerVars, inputVars, signalled, serverVars, clientVars, slot, stopped>>

DownPlaneDone ==
    /\ ReadEnds("down") /\ down = "plane"
    /\ handler' = "idle"
    /\ UNCHANGED <<peerVars, inputVars, signalled, serverVars, clientVars, recvwait, slot,
                   queue, out, stopped>>

-----------------------------------------------------------------------------
(***************************************************************************)
(* ClientConnection::on_event: the connection is established.              *)
(***************************************************************************)
Connecting == handler = "idle" /\ client = "connecting"

\* The origin chooses h2 where it is offered: switchinghttp2 turns a pending
\* request into HTTP/2 and answers 101; a direct HTTP/2 session stays.
ConnectedH2 ==
    /\ Connecting /\ tls /\ protocol \in {"both", "http2"}
    /\ client' = "connected" /\ down' = "http2"
    /\ IF up = "http1" /\ slot["up"].h2
       THEN /\ up' = "http2"
            /\ queue' = [queue EXCEPT !["up"] = <<slot["up"].units>>]
            /\ slot' = [slot EXCEPT !["up"] = NoMessage]
            /\ write("up", <<Own("101")>>)
       ELSE /\ IF up = "http2" THEN FlushQueue("up") ELSE UNCHANGED <<queue, out, recvwait>>
            /\ UNCHANGED <<up, slot>>
    /\ UNCHANGED <<peerVars, inputVars, signalled, upgrade, tunnel, protocol, switching,
                   handler, stopped>>

\* It does not, and HTTP/2 was asked for: send_goaway.
Refused ==
    /\ Connecting /\ tls /\ protocol = "http2"
    /\ client' = "refused"
    /\ write("up", <<Own("goaway")>>)
    /\ UNCHANGED <<peerVars, inputVars, signalled, serverVars, protocol, down, switching, slot, queue, handler, stopped>>

ConnectedOnly ==      \* a slip: what waits for the connection is not flushed
    /\ Connecting /\ ~(tls /\ protocol = "http2")
    /\ client' = "connected"
    /\ UNCHANGED <<peerVars, inputVars, signalled, serverVars, protocol, down, switching,
                   recvwait, slot, queue, out, handler, stopped>>

\* HTTP/1 or a tunnel, or HTTP/2 without TLS: switchTunnel answers a CONNECT,
\* DoFlush relays what waits.
Connected ==
    /\ Connecting /\ ~(tls /\ protocol = "http2")
    /\ client' = "connected"
    /\ LET m == slot["up"]
       IN  CASE up = "http1" /\ m.connect ->
                  /\ up' = "plane" /\ tunnel' = TRUE
                  /\ slot' = [slot EXCEPT !["up"] = NoMessage]
                  /\ write("up", <<Own("200")>>)
                  /\ UNCHANGED queue
             [] up = "http1" /\ ~m.connect -> FlushRequest(m) /\ UNCHANGED <<up, tunnel, queue>>
             [] up = "http2" -> FlushQueue("up") /\ UNCHANGED <<up, tunnel, slot>>
             [] OTHER -> UNCHANGED <<up, tunnel, slot, out, queue, recvwait>>
    /\ UNCHANGED <<peerVars, inputVars, signalled, upgrade, protocol, down, switching,
                   handler, stopped>>

\* ServerAcceptHandler::removeSocket deletes both connections when a peer has
\* closed its own, or when the origin cannot be reached.
removeSocket ==
    /\ handler = "idle"
    /\ handler' = "closed"
    /\ UNCHANGED <<peerVars, inputVars, signalled, serverVars, clientVars, recvwait, slot,
                   queue, out, stopped>>
Closed(s) == eof[s] /\ ~signalled[s] /\ removeSocket
Failed == client = "connecting" /\ removeSocket

-----------------------------------------------------------------------------
Callback(s) ==
    \/ s = "up" /\ (readcb \/ TakePreface \/ UpHttpDone \/ UpHttp2Done \/ UpPlaneDone)
    \/ s = "down" /\ (on_read \/ DownHttpDone \/ DownHttp2Done \/ DownPlaneDone)
    \/ ParseBegin(s) \/ ParseRest(s) \/ ParseShort(s) \/ ParseError(s)
    \/ TakeFrame(s) \/ CopyBytes(s)
Outcome == ConnectedH2 \/ Refused \/ Connected \/ Failed

Next == Peers \/ (\E s \in Side : Callback(s)) \/ Outcome \/ \E s \in Side : Closed(s)

Spec == Init /\ [][Next]_vars

\* The event loop runs the callbacks that are due, an attempt to connect has
\* an outcome, and an application that was promised HTTP/2 opens it.
Fairness ==
    /\ \A s \in Side : WF_vars(Callback(s)) /\ WF_vars(Closed(s))
    /\ WF_vars(Outcome)
    /\ WF_vars(AppPreface) /\ WF_vars(AppSettings)

FairSpec == Spec /\ Fairness

-----------------------------------------------------------------------------
TypeOK ==
    /\ plan \in Plans /\ manners \in Manners /\ tls \in Tls
    /\ sent \in [Side -> Seq(Kind)]
    /\ read \in [Side -> Nat]
    /\ signalled \in [Side -> BOOLEAN] /\ eof \in [Side -> BOOLEAN]
    /\ up \in Class /\ down \in Class
    /\ upgrade \in BOOLEAN /\ tunnel \in BOOLEAN /\ magic \in BOOLEAN
    /\ client \in {"none", "connecting", "connected", "refused"}
    /\ protocol \in {"http1", "both", "http2", "plane"}
    /\ recvwait \in BOOLEAN /\ switching \in {"", "h2c", "other"}
    /\ slot \in [Side -> Message] /\ dead \in [Side -> BOOLEAN]
    /\ queue \in [Side -> Seq(Seq(Nat))]
    /\ out \in [Side -> Seq(Written)]
    /\ readAs \in [Side -> Seq(Class)]
    /\ handler \in Side \cup {"idle", "closed", "crashed"}
    /\ stopped \in BOOLEAN

\* Peers that wait for their answers and write no interim response; the
\* properties that say so are about them (the README says what else breaks).
Orderly == manners = {}

(***************************************************************************)
(* Every unit is read by a session of its own protocol.  The sessions of   *)
(* both sides change class while input is under way: what follows a 101,   *)
(* a CONNECT or the preface in the same read must be left in the buffer    *)
(* for the session that comes after.                                       *)
(***************************************************************************)
ClassFor(kind) == CASE kind \in {"begin", "rest", "100", "101"} -> "http1"
                    [] kind = "raw" -> "plane"
                    [] OTHER -> "http2"
RightSession ==
    Orderly => \A s \in Side : \A n \in DOMAIN readAs[s] : readAs[s][n] = ClassFor(sent[s][n])

(***************************************************************************)
(* The two sessions of a connection always speak the same protocol: of the *)
(* three ways to change it, each changes both sides in one callback.       *)
(***************************************************************************)
SessionsAgree == handler = "idle" /\ client = "connected" => up = down

(***************************************************************************)
(* "A frame whose message is not complete is not sent" (the comment of     *)
(* both DoFlush): what is written as one HTTP/1 message is one whole       *)
(* message of the other peer.                                              *)
(***************************************************************************)
Whole(s, units) ==
    \/ Len(units) = 1 /\ sent[s][units[1]] \in {"100", "101"}
    \/ /\ Len(units) = 2 /\ units[2] = units[1] + 1
       /\ sent[s][units[1]] = "begin" /\ sent[s][units[2]] = "rest"
CompleteOnly ==
    \A s \in Side : \A n \in Messages(s) : Whole(Other(s), out[s][n].of)

(***************************************************************************)
(* Peers that wait for their answers may rely on it.                       *)
(***************************************************************************)
WholeMessages == Orderly => CompleteOnly

(***************************************************************************)
(* Whatever else happens to messages (pipelined requests and interim       *)
(* responses run into each other in the one slot), no part of one is       *)
(* relayed twice, and none overtakes another.                              *)
(***************************************************************************)
Carried(s) == FlattenSeq([n \in DOMAIN out[Other(s)] |->
                 IF out[Other(s)][n].kind = "frame" THEN <<>> ELSE out[Other(s)][n].of])
InOrder ==
    \A s \in Side : \A i, j \in DOMAIN Carried(s) : i < j => Carried(s)[i] < Carried(s)[j]

(***************************************************************************)
(* DownSessionHttp::DoFlush, which dereferences message_ without looking,  *)
(* finds one whenever it is called.                                        *)
(***************************************************************************)
NoNullMessage == Orderly => handler # "crashed"

(***************************************************************************)
(* "A connection that has not switched to HTTP/2 is switched when the      *)
(* client preface is received", says the comment in readcb.                *)
(***************************************************************************)
PrefaceSwitches ==
    handler = "idle" /\ ~signalled["up"] /\ Of("up", {"preface", "preface2"}) # {}
       => up = "http2"

(***************************************************************************)
(* No stall.  What orderly peers send arrives, unless the connection       *)
(* is closed, the origin refused HTTP/2, or the origin of an upgrade over  *)
(* TLS chose http/1.1: DoFlush never sends such a request.  A CONNECT is   *)
(* answered by the proxy itself and goes no further.  What the origin      *)
(* sends is due only when its arrival is noticed: after the proxy has      *)
(* written to it (recvwait_), and not when it comes in one read with a     *)
(* 101, which leaves it in the buffer until more arrives.                  *)
(***************************************************************************)
Kept(s, n) == s = "up" /\ plan = "connect" /\ sent[s][n] \in {"begin", "rest"}
Given(s, n) == \E w \in Range(out[Other(s)]) : n \in Range(w.of)
Withheld == tls /\ plan = "h2c" /\ client = "connected" /\ down = "http1"
Due(s, n) ==
    /\ Orderly /\ n \in DOMAIN sent[s] /\ ~Kept(s, n)
    /\ \/ sent[s][n] = "begin" /\ n < Len(sent[s])
       \/ sent[s][n] \in {"rest", "100", "101"}
       \/ sent[s][n] \in {"settings", "frame", "raw"} /\ client = "connected"
    /\ s = "down" => /\ signalled["down"] /\ ~recvwait
                     /\ \A m \in (read["down"] + 1)..(n - 1) : sent["down"][m] # "101"
MaxSent == 2 * MaxRequests + MaxUnits + 2
NoStall ==
    \A s \in Side : \A n \in 1..MaxSent :
       Due(s, n) ~> (Given(s, n) \/ handler = "closed" \/ client = "refused" \/ Withheld)
=============================================================================
