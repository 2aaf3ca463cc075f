----------------------------- MODULE Http2Relay -----------------------------
(***************************************************************************)
(* The HTTP/2 relay of one proxied connection: UpSessionHttp2, the server  *)
(* session towards the application ("up"), DownSessionHttp2, the client    *)
(* session towards the origin ("down"), and SessionHttp2Handler, which     *)
(* both are built on.  A session decodes the frames of its own peer into   *)
(* messages_; DoFlush hands the finished ones to the opposite session.     *)
(*                                                                         *)
(* The proxy is a single-threaded libevent loop: `handler' is the session  *)
(* whose callback is running, and nothing else of the proxy runs until it  *)
(* returns.  Inside a callback there is one action per nghttp2 callback    *)
(* and per turn of DoFlush's loop.                                         *)
(*                                                                         *)
(* Abstractions.  A frame is its type, stream and END_STREAM flag; it      *)
(* reaches the proxy in two units, its header and the rest, so that a read *)
(* may end inside a frame.  A DATA frame costs one unit of the flow-       *)
(* control window of the connection.  Frames that go the way of PING (the  *)
(* default branch of on_frame_recv_callback) are represented by PING;      *)
(* RST_STREAM and PUSH_PROMISE, which change nghttp2's stream table, and   *)
(* the loss of a connection are not in this module.                        *)
(***************************************************************************)
EXTENDS Integers, SequencesExt

CONSTANTS
    Streams,        \* the request streams the application may open
    MaxFrames,      \* bound: HEADERS, DATA and PING frames of each peer
    MaxSettings,    \* bound: SETTINGS frames per peer
    InitialWindow,  \* DATA frames a peer, or the proxy, accepts before it has
                    \* sent a WINDOW_UPDATE
    Modes,          \* how the connection came to be HTTP/2 (see Init)
    Compressed      \* whether the origin may answer with gzip content

ASSUME ConstantsAssumption ==
    /\ Streams \subseteq Nat \ {0}
    /\ MaxFrames \in [{"up", "down"} -> Nat]
    /\ MaxSettings \in Nat
    /\ InitialWindow \in Nat \ {0}
    /\ Modes \subseteq {"direct", "tlsupgrade", "h2c"}
    /\ Compressed \in BOOLEAN

VARIABLES
    mode,       \* how the connection came to be HTTP/2
    sent,       \* sent[s]: the frames the peer of side s has sent, in order
    parsed,     \* parsed[s]: how many units of them session s has decoded
    signalled,  \* signalled[s]: libevent will call the read callback of s
    messages,   \* messages[s]: messages_ of session s
    client,     \* the ClientConnection: "none", "connecting", "connected" or
                \* "refused" (the origin did not choose h2; it stays so)
    recvwait,   \* ClientConnection::recvwait_
    upgrading,  \* upgrading_ of the down session
    preface,    \* nghttp2's connection preface: "pending", "sent", "dropped"
    settings,   \* settings[s]: sendsettingframe_ of session s
    out,        \* out[s]: what has been written to the peer of side s
    deferred,   \* deferred[s]: the streams whose DATA nghttp2 holds back
    handler,    \* the session whose callback runs, or "idle"
    todo,       \* units the running callback has still to decode
    cursor      \* position of DoFlush's loop, 0 outside it

vars == <<mode, sent, parsed, signalled, messages, client, recvwait, upgrading,
          preface, settings, out, deferred, handler, todo, cursor>>

peerVars == <<mode, sent>>
inputVars == <<parsed, signalled, todo>>
sessionVars == <<recvwait, upgrading, preface, settings, out, deferred>>

Side == {"up", "down"}
Other(s) == IF s = "up" THEN "down" ELSE "up"

FrameType == {"SETTINGS", "ACK", "HEADERS", "DATA", "PING", "WINDOW_UPDATE"}
Frame == [type : FrameType, stream : Nat, end : BOOLEAN, gzip : BOOLEAN]
MessageType == (FrameType \ {"WINDOW_UPDATE"}) \cup {"GOAWAY"}

\* A message: the type and stream of message->frame, storemessage, procstat
\* and the positions in sent[s] of the frames it was made of (none for a
\* message the proxy makes itself).
Message == [type : MessageType, stream : Nat, store : BOOLEAN,
            stat : {"INIT", "HEADER", "BODY", "COMPLETE"}, frames : Seq(Nat)]

\* What is written to a peer: `of' names the frames of the other peer that it
\* carries, Freed the bytes of a message that has already been destroyed.
Freed == 0
Written == [type : MessageType \cup {"MAGIC", "WINDOW_UPDATE"}, stream : Nat, of : Seq(Nat)]
Magic == [type |-> "MAGIC", stream |-> 0, of |-> <<>>]
WindowUpdate == [type |-> "WINDOW_UPDATE", stream |-> 0, of |-> <<>>]

\* Messages of stream 0 that the proxy makes itself.
Own(t, stat) == [type |-> t, stream |-> 0, store |-> FALSE, stat |-> stat, frames |-> <<>>]
Control(t) == [type |-> t, stream |-> 0, end |-> FALSE, gzip |-> FALSE]

\* What appendHttp1Request leaves in messages_: a place for the application's
\* SETTINGS frame, and the request as HEADERS of stream 1.
UpgradedRequest == [type |-> "HEADERS", stream |-> 1, end |-> TRUE, gzip |-> FALSE]
UpgradedMessage == [type |-> "HEADERS", stream |-> 1, store |-> FALSE,
                    stat |-> "COMPLETE", frames |-> <<1>>]

-----------------------------------------------------------------------------
(***************************************************************************)
(* The initial states: where the two HTTP/2 sessions begin to exist.       *)
(*   "direct"      the client preface arrived on a new connection;         *)
(*   "tlsupgrade"  an HTTP/1.1 request with Upgrade: h2c met an origin     *)
(*                 that chose h2: on_event has just called switchinghttp2  *)
(*                 and calls DoFlush on the new up session;                *)
(*   "h2c"         the origin's 101 has just switched both sessions; the   *)
(*                 request it answers went out as HTTP/1.1.                *)
(***************************************************************************)
Init ==
    /\ mode \in Modes
    /\ sent = [s \in Side |-> IF mode = "tlsupgrade" /\ s = "up"
                              THEN <<UpgradedRequest>> ELSE <<>>]
    /\ parsed = [s \in Side |-> 2 * Len(sent[s])]
    /\ signalled = [s \in Side |-> FALSE]
    /\ messages = [s \in Side |->
           IF mode = "tlsupgrade" /\ s = "up"
           THEN <<Own("SETTINGS", "INIT"), UpgradedMessage>> ELSE <<>>]
    /\ client = IF mode = "direct" THEN "none" ELSE "connected"
    /\ recvwait = TRUE
    /\ upgrading = (mode = "h2c")
    /\ preface = "pending"
    /\ settings = [s \in Side |-> FALSE]
    /\ out = [s \in Side |-> <<>>]
    /\ deferred = [s \in Side |-> <<>>]
    /\ handler = IF mode = "tlsupgrade" THEN "up" ELSE "idle"
    /\ todo = 0
    /\ cursor = IF mode = "tlsupgrade" THEN 1 ELSE 0

-----------------------------------------------------------------------------
Of(s, T) == {n \in DOMAIN sent[s] : sent[s][n].type \in T}
WrittenOf(s, T) == {n \in DOMAIN out[s] : out[s][n].type \in T}
DecodedOf(s, T) == {n \in Of(s, T) : 2 * n <= parsed[s]}

(***************************************************************************)
(* The window the proxy gives the peer of s.  nghttp2 returns it of its    *)
(* own accord, which neither create_server nor create_client disables:     *)
(* when the DATA it has decoded comes to half of the initial window, it    *)
(* queues a WINDOW_UPDATE for as much.  No gate of this program holds it   *)
(* back: the next session_send writes it, whatever it was called for.      *)
(* (A stream's own WINDOW_UPDATE goes with the connection's.)              *)
(***************************************************************************)
Half == (InitialWindow + 1) \div 2
Unreturned(s) == Cardinality(DecodedOf(s, {"DATA"}))
                   - Half * Cardinality(WrittenOf(s, {"WINDOW_UPDATE"}))
Updates(s) == [i \in 1..(Unreturned(s) \div Half) |-> WindowUpdate]
ReceiveWindow(s) == InitialWindow + Half * Cardinality(WrittenOf(s, {"WINDOW_UPDATE"}))
                      - Cardinality(Of(s, {"DATA"}))

(***************************************************************************)
(* The peers.  They are not part of this program: what they may send is    *)
(* what HTTP/2 lets them send.  A peer's step commutes with the callback   *)
(* that is running, which decodes only bytes that had arrived before it.   *)
(***************************************************************************)
\* The streams on which the peer of s may send: those it opened itself, or
\* those on which it has been sent a request.
Requested(s) ==
    IF s = "up" THEN Streams
    ELSE {out["down"][n].stream : n \in WrittenOf("down", {"HEADERS"})}
         \cup (IF mode = "h2c" THEN {1} ELSE {})

OnStream(s, t) == {n \in DOMAIN sent[s] : sent[s][n].stream = t}
Opened(s, t) == OnStream(s, t) # {} \/ (mode = "h2c" /\ s = "up" /\ t = 1)
Ended(s, t) == \/ \E n \in OnStream(s, t) : sent[s][n].end
               \/ mode = "h2c" /\ s = "up" /\ t = 1
Zipped(s, t) == \E n \in OnStream(s, t) : sent[s][n].gzip

Send(s, f) ==
    /\ handler = "idle"
    /\ sent' = [sent EXCEPT ![s] = Append(@, f)]
    /\ signalled' = [signalled EXCEPT ![s] = TRUE]
    /\ UNCHANGED <<mode, parsed, messages, client, sessionVars, handler, todo, cursor>>

\* The first frame of a peer is SETTINGS, and a peer acknowledges every
\* SETTINGS frame it receives.
Connected(s) == s = "up" \/ client \in {"connected", "refused"}
Greeted(s) == Connected(s) /\ Of(s, {"SETTINGS"}) # {}
Budget(s) == Cardinality(Of(s, {"HEADERS", "DATA", "PING"})) < MaxFrames[s]

SendSettings(s) ==
    /\ Connected(s)
    /\ Cardinality(Of(s, {"SETTINGS"})) < MaxSettings
    /\ Send(s, Control("SETTINGS"))
SendAck(s) ==
    /\ Greeted(s)
    /\ Cardinality(Of(s, {"ACK"})) < Cardinality(WrittenOf(s, {"SETTINGS"}))
    /\ Send(s, Control("ACK"))
SendWindowUpdate(s) ==
    /\ Greeted(s)
    /\ Cardinality(Of(s, {"WINDOW_UPDATE"})) < Cardinality(WrittenOf(s, {"DATA"}))
    /\ Send(s, Control("WINDOW_UPDATE"))
SendPing(s) == Greeted(s) /\ Budget(s) /\ Send(s, Control("PING"))

\* A request or a response, in ascending order of new streams on "up".
SendHeaders(s) ==
    /\ Greeted(s) /\ Budget(s)
    /\ \E t \in Requested(s), e \in BOOLEAN,
          z \in IF s = "down" /\ Compressed THEN BOOLEAN ELSE {FALSE} :
         /\ ~Opened(s, t)
         /\ s = "up" => \A u \in Streams : u < t => Opened(s, u)
         /\ Send(s, [type |-> "HEADERS", stream |-> t, end |-> e, gzip |-> z])
\* Body, or trailers after it (a gzip response has none here).
SendBody(s) ==
    /\ Greeted(s) /\ Budget(s)
    /\ \E t \in Requested(s), e \in BOOLEAN, y \in {"DATA", "HEADERS"} :
         /\ Opened(s, t) /\ ~Ended(s, t)
         /\ y = "HEADERS" => e /\ ~Zipped(s, t)
         /\ y = "DATA" => ReceiveWindow(s) > 0
         /\ Send(s, [type |-> y, stream |-> t, end |-> e, gzip |-> FALSE])

Peer(s) == \/ SendSettings(s) \/ SendAck(s) \/ SendWindowUpdate(s)
           \/ SendPing(s) \/ SendHeaders(s) \/ SendBody(s)

-----------------------------------------------------------------------------
(***************************************************************************)
(* Receiving: on_read hands the bytes to nghttp2, which calls back.        *)
(***************************************************************************)
Units(s) == 2 * Len(sent[s]) - parsed[s]

\* ServerConnection::readcb, ClientConnection::on_read and on_read of the
\* session; a read brings any number of the units under way.
ReadCb(s) ==
    /\ handler = "idle" /\ signalled[s]
    /\ s = "down" => client = "connected" /\ ~recvwait
    /\ \E k \in 1..Units(s) :
         /\ todo' = k
         /\ signalled' = [signalled EXCEPT ![s] = k < Units(s)]
    /\ handler' = s
    /\ cursor' = 0
    /\ UNCHANGED <<peerVars, parsed, messages, client, sessionVars>>

\* ClientConnection::on_read returns early and leaves the bytes where they
\* are: libevent calls again only when more of them arrive.
ReadIgnored ==
    /\ handler = "idle" /\ signalled["down"]
    /\ client # "connected" \/ recvwait
    /\ signalled' = [signalled EXCEPT !["down"] = FALSE]
    /\ UNCHANGED <<peerVars, parsed, messages, client, sessionVars, handler, todo, cursor>>

\* nghttp2's frame type of a frame: an ACK is a SETTINGS frame with a flag.
HdType(t) == IF t = "ACK" THEN "SETTINGS" ELSE t

MatchesByType(m, f) ==      \* a slip: a stored message does not take its DATA
    HdType(m.type) = HdType(f.type) /\ m.stat # "COMPLETE" /\ m.stream = f.stream

\* getMessage(hd, true): the first unfinished message of this stream and type;
\* a stored message takes the HEADERS and the DATA of its stream.
Matches(m, f) ==
    /\ \/ HdType(m.type) = HdType(f.type)
       \/ m.store /\ {m.type, f.type} = {"HEADERS", "DATA"}
    /\ m.stat # "COMPLETE"
    /\ m.stream = f.stream
getMessage(s, f) ==
    {i \in DOMAIN messages[s] :
       /\ Matches(messages[s][i], f)
       /\ \A j \in 1..(i - 1) : ~Matches(messages[s][j], f)}

PassedOnUnlessUpgrading(s, f) ==      \* a slip: WINDOW_UPDATE is not filtered
    ~(s = "down" /\ upgrading /\ HdType(f.type) = "SETTINGS")

\* The static callbacks pass a frame on to the session unless it is a
\* WINDOW_UPDATE or, while upgrading, a SETTINGS frame.
PassedOn(s, f) ==
    /\ f.type # "WINDOW_UPDATE"
    /\ ~(s = "down" /\ upgrading /\ HdType(f.type) = "SETTINGS")

NewMessage(f) == [type |-> f.type, stream |-> f.stream, store |-> FALSE,
                  stat |-> "HEADER", frames |-> <<>>]

on_begin_frame_callback(s) ==
    /\ handler = s /\ cursor = 0 /\ todo > 0
    /\ parsed[s] % 2 = 0
    /\ LET f == sent[s][parsed[s] \div 2 + 1]
       IN  IF PassedOn(s, f) /\ getMessage(s, f) = {}
           THEN messages' = [messages EXCEPT ![s] = Append(@, NewMessage(f))]
           ELSE UNCHANGED messages
    /\ parsed' = [parsed EXCEPT ![s] = @ + 1]
    /\ todo' = todo - 1
    /\ UNCHANGED <<peerVars, signalled, client, sessionVars, handler, cursor>>

ReceivedLast(m, f, n) ==      \* a slip: a stored message is overwritten, too
    LET store == m.store \/ f.gzip
    IN  [type |-> m.type, stream |-> m.stream, store |-> store,
         stat |-> IF store /\ ~f.end THEN "BODY" ELSE "COMPLETE", frames |-> <<n>>]

\* IsStoreMessage: a gzip response is kept until it ends; the frames of a
\* stored message are collected in it, any other frame replaces the message's.
Received(m, f, n) ==
    LET store == m.store \/ f.gzip
        done == ~store \/ f.end
    IN  [type   |-> IF m.store THEN m.type ELSE f.type,
         stream |-> m.stream,
         store  |-> store,
         stat   |-> IF done THEN "COMPLETE" ELSE "BODY",
         frames |-> IF store THEN Append(m.frames, n) ELSE <<n>>]

AcknowledgeAtOnce(s) ==      \* a slip: nghttp2's own ACKs are not cancelled
    /\ handler = s /\ cursor = 0 /\ todo > 0
    /\ parsed[s] % 2 = 1
    /\ LET f == sent[s][(parsed[s] + 1) \div 2]
       IN  out' = [out EXCEPT ![s] =
               IF f.type = "SETTINGS" THEN Append(@, [type |-> "ACK", stream |-> 0, of |-> <<>>])
               ELSE @]
    /\ parsed' = [parsed EXCEPT ![s] = @ + 1]
    /\ todo' = todo - 1
    /\ UNCHANGED <<peerVars, signalled, messages, client, recvwait, upgrading, preface,
                   settings, deferred, handler, cursor>>

on_frame_recv_callback(s) ==
    /\ handler = s /\ cursor = 0 /\ todo > 0
    /\ parsed[s] % 2 = 1
    /\ LET n == (parsed[s] + 1) \div 2
           f == sent[s][n]
       IN  messages' = [messages EXCEPT ![s] =
               [i \in DOMAIN @ |-> IF PassedOn(s, f) /\ i \in getMessage(s, f)
                                   THEN Received(@[i], f, n) ELSE @[i]]]
    /\ parsed' = [parsed EXCEPT ![s] = @ + 1]
    /\ todo' = todo - 1
    /\ UNCHANGED <<peerVars, signalled, client, sessionVars, handler, cursor>>

\* The end of on_read: the up session starts the connection to the host of
\* the first request it holds, then DoFlush, which gives up without a
\* connected client.
HoldsRequest == \E i \in DOMAIN messages["up"] :
    messages["up"][i].type = "HEADERS" /\ messages["up"][i].stat = "COMPLETE"

ReadDone(s) ==
    /\ handler = s /\ cursor = 0 /\ todo = 0
    /\ client' = IF s = "up" /\ client = "none" /\ HoldsRequest
                 THEN "connecting" ELSE client
    /\ IF s = "up" /\ client # "connected"
       THEN handler' = "idle" /\ cursor' = 0
       ELSE handler' = s /\ cursor' = 1
    /\ UNCHANGED <<peerVars, inputVars, messages, sessionVars>>

-----------------------------------------------------------------------------
(***************************************************************************)
(* The outcome of connecting to the origin: ClientConnection::on_event.    *)
(***************************************************************************)
\* send_goaway: submit_defaultsetting if the application has had no SETTINGS.
GoawayMessages ==
    (IF settings["up"] THEN <<>> ELSE <<Own("SETTINGS", "COMPLETE")>>)
      \o <<Own("GOAWAY", "COMPLETE")>>

ConnectOnly ==      \* a slip: what waits for the connection is not flushed
    /\ handler = "idle" /\ client = "connecting"
    /\ client' = "connected"
    /\ UNCHANGED <<peerVars, inputVars, messages, sessionVars, handler, cursor>>

Connect ==
    /\ handler = "idle" /\ client = "connecting"
    /\ client' = "connected"
    /\ handler' = "up"          \* server_->getUpstream()->DoFlush()
    /\ cursor' = 1
    /\ UNCHANGED <<peerVars, inputVars, messages, sessionVars>>

\* The origin did not choose h2: send_goaway and DoFlush of the down session.
\* on_event returns before connected_ is set.
Refuse ==
    /\ handler = "idle" /\ client = "connecting"
    /\ client' = "refused"
    /\ messages' = [messages EXCEPT !["down"] = @ \o GoawayMessages]
    /\ handler' = "down"
    /\ cursor' = 1
    /\ UNCHANGED <<peerVars, inputVars, sessionVars>>

-----------------------------------------------------------------------------
(***************************************************************************)
(* Relaying: one turn of DoFlush's loop over messages_ per step.           *)
(***************************************************************************)
HeldUntilComplete(s, m) ==      \* a slip: no gate for SETTINGS
    m.stat # "COMPLETE"
HeldUntilSettings(s, m) ==      \* a slip: unfinished messages are relayed
    ~settings[Other(s)] /\ m.type # "SETTINGS"

\* Nothing but the SETTINGS frame goes out before the opposite session has
\* sent one, and no message that is still being received.
Held(s, m) ==
    \/ ~settings[Other(s)] /\ m.type # "SETTINGS"
    \/ m.stat # "COMPLETE"

FlushSkip(s) ==
    /\ handler = s /\ cursor \in DOMAIN messages[s]
    /\ Held(s, messages[s][cursor])
    /\ cursor' = cursor + 1
    /\ UNCHANGED <<peerVars, inputVars, messages, client, sessionVars, handler>>

\* The window nghttp2 has left for DATA to the peer of s.
Window(s) ==
    InitialWindow - Cardinality(WrittenOf(s, {"DATA"}))
      + Cardinality(DecodedOf(s, {"WINDOW_UPDATE"}))

\* nghttp2's first output on a client session is the connection preface.
Opening(s) == IF s = "down" /\ preface = "pending" THEN <<Magic>> ELSE <<>>

HeadOf(m) ==
    IF m.type = "DATA" THEN <<>>
    ELSE <<[type |-> m.type, stream |-> m.stream,
            of |-> IF m.store THEN SubSeq(m.frames, 1, 1) ELSE m.frames]>>
HasBody(m) == m.type = "DATA" \/ m.store
BodyOf(m) == [type |-> "DATA", stream |-> m.stream,
              of |-> IF m.store THEN SubSeq(m.frames, 2, Len(m.frames)) ELSE m.frames]

Blocked(s, t) == t \in Range(deferred[s])

\* submit_message on session s and the session_send that ends it.  An ACK is
\* written past nghttp2 (submit_settings), anything else through it.  DATA
\* waits for the window; nghttp2 refuses more of it on a stream that waits.
\* (nghttp2 sends SETTINGS before, and a WINDOW_UPDATE perhaps before, what
\* else was submitted: nothing depends on that.)
Relayed(s, m) ==
    LET body == IF HasBody(m) /\ ~Blocked(s, m.stream) /\ Window(s) > 0
                THEN <<BodyOf(m)>> ELSE <<>>
    IN  IF m.type = "ACK" THEN HeadOf(m) \o Opening(s)
        ELSE Opening(s) \o HeadOf(m) \o body
Submitted(s, m) == Relayed(s, m) \o Updates(s)

FlushSubmit(s) ==
    /\ handler = s /\ cursor \in DOMAIN messages[s]
    /\ LET m == messages[s][cursor]
           o == Other(s)
       IN  /\ ~Held(s, m)
           /\ out' = [out EXCEPT ![o] = @ \o Submitted(o, m)]
           /\ deferred' = [deferred EXCEPT ![o] =
                  IF HasBody(m) /\ ~Blocked(o, m.stream) /\ Window(o) <= 0
                  THEN Append(@, m.stream) ELSE @]
           /\ settings' = [settings EXCEPT ![o] = @ \/ m.type = "SETTINGS"]
           /\ IF o = "down"
              THEN preface' = "sent" /\ upgrading' = FALSE /\ recvwait' = FALSE
              ELSE UNCHANGED <<preface, upgrading, recvwait>>
    /\ messages' = [messages EXCEPT ![s] = RemoveAt(@, cursor)]
    /\ UNCHANGED <<peerVars, inputVars, client, handler, cursor>>

\* The session_send at the end of DoFlush.  DATA that waited for the window
\* goes out once a WINDOW_UPDATE has come, unless trailers have meanwhile ended
\* the stream; the message it is read from was destroyed when it was submitted.
LocallyEnded(s, t) ==
    \E w \in Range(out[s]) : \E n \in Range(w.of) \ {Freed} :
       w.stream = t /\ sent[Other(s)][n].end

FlushResume(s) ==
    /\ handler = s /\ cursor > Len(messages[s])
    /\ deferred[s] # <<>> /\ Window(s) > 0
    /\ deferred' = [deferred EXCEPT ![s] = Tail(@)]
    /\ out' = [out EXCEPT ![s] =
           IF LocallyEnded(s, Head(deferred[s])) THEN @
           ELSE Append(@, [type |-> "DATA", stream |-> Head(deferred[s]), of |-> <<Freed>>])]
    /\ UNCHANGED <<peerVars, inputVars, messages, client, recvwait, upgrading,
                   preface, settings, handler, cursor>>

\* It writes what nghttp2 has queued itself, also where the loop has held every
\* message back.  While the client is not connected its write drops that.
FlushDone(s) ==
    /\ handler = s /\ cursor > Len(messages[s])
    /\ deferred[s] = <<>> \/ Window(s) <= 0
    /\ IF s = "up" \/ client = "connected"
       THEN out' = [out EXCEPT ![s] = @ \o Opening(s) \o Updates(s)]
       ELSE UNCHANGED out
    /\ IF Opening(s) = <<>> THEN UNCHANGED <<preface, recvwait>>
       ELSE IF client = "connected" THEN preface' = "sent" /\ recvwait' = FALSE
       ELSE preface' = "dropped" /\ UNCHANGED recvwait
    /\ upgrading' = (upgrading /\ s = "up")
    /\ handler' = "idle"
    /\ cursor' = 0
    /\ UNCHANGED <<peerVars, inputVars, messages, client, settings, deferred>>

-----------------------------------------------------------------------------
Callback(s) == \/ ReadCb(s)
               \/ on_begin_frame_callback(s) \/ on_frame_recv_callback(s)
               \/ ReadDone(s)
               \/ FlushSkip(s) \/ FlushSubmit(s) \/ FlushResume(s) \/ FlushDone(s)

Next == \/ \E s \in Side : Peer(s) \/ Callback(s)
        \/ ReadIgnored \/ Connect \/ Refuse

Spec == Init /\ [][Next]_vars

\* The event loop runs the callbacks that are due, the attempt to connect has
\* an outcome, and the peers do what HTTP/2 obliges them to do.
Fairness ==
    /\ \A s \in Side : WF_vars(Callback(s))
    /\ WF_vars(ReadIgnored)
    /\ WF_vars(Connect \/ Refuse)
    /\ \A s \in Side :
         /\ WF_vars(Of(s, {"SETTINGS"}) = {} /\ SendSettings(s))
         /\ WF_vars(SendAck(s))
         /\ WF_vars(SendWindowUpdate(s))

FairSpec == Spec /\ Fairness

-----------------------------------------------------------------------------
TypeOK ==
    /\ mode \in Modes
    /\ sent \in [Side -> Seq(Frame)]
    /\ parsed \in [Side -> Nat]
    /\ signalled \in [Side -> BOOLEAN]
    /\ messages \in [Side -> Seq(Message)]
    /\ client \in {"none", "connecting", "connected", "refused"}
    /\ recvwait \in BOOLEAN
    /\ upgrading \in BOOLEAN
    /\ preface \in {"pending", "sent", "dropped"}
    /\ settings \in [Side -> BOOLEAN]
    /\ out \in [Side -> Seq(Written)]
    /\ deferred \in [Side -> Seq(Nat)]
    /\ handler \in Side \cup {"idle"}
    /\ todo \in Nat
    /\ cursor \in Nat

(***************************************************************************)
(* The connection preface comes first.  Whatever order the frames of the   *)
(* two peers and the outcome of the connection come in, the first thing    *)
(* the origin is sent is the client preface followed by a SETTINGS frame,  *)
(* and of what this program relays or makes itself the first thing the     *)
(* application is sent is a SETTINGS frame: the gate of both DoFlush       *)
(* loops, and the ACK that submit_settings writes past nghttp2.            *)
(* nghttp2's own WINDOW_UPDATE goes past the gate: an application that     *)
(* sent half a window of DATA before the connection was there is sent one  *)
(* by the session_send of the DoFlush in on_event, before any SETTINGS.    *)
(***************************************************************************)
PrefaceFirst ==
    /\ \A n \in DOMAIN out["up"] : out["up"][n].type # "WINDOW_UPDATE" =>
          \E k \in 1..n : out["up"][k].type = "SETTINGS"
    /\ out["down"] # <<>> => /\ out["down"][1].type = "MAGIC"
                             /\ Len(out["down"]) > 1
                             /\ out["down"][2].type = "SETTINGS"

(***************************************************************************)
(* The nghttp2 callbacks of a frame belong together: when a frame that is  *)
(* passed on ends, the message its header created is still there, although *)
(* the two callbacks may lie in different reads with flushes between them. *)
(* DownSessionHttp2::on_frame_recv_callback dereferences it unchecked.     *)
(***************************************************************************)
FrameHasMessage ==
    \A s \in Side :
       LET n == (parsed[s] + 1) \div 2
       IN  parsed[s] % 2 = 1 /\ sent[s][n].type # "WINDOW_UPDATE"
             => \E i \in DOMAIN messages[s] : Matches(messages[s][i], sent[s][n])

(***************************************************************************)
(* Conservation.  Every frame session s has decoded, except a              *)
(* WINDOW_UPDATE, is in exactly one place: in a message that waits, or in  *)
(* what the opposite peer has been sent; none is swallowed (by the filter  *)
(* for SETTINGS while upgrading, by a message that is overwritten, by      *)
(* nghttp2) and none is sent twice.                                        *)
(***************************************************************************)
Places(s, n) ==
    Cardinality({i \in DOMAIN messages[s] : n \in Range(messages[s][i].frames)})
    + Cardinality({i \in DOMAIN out[Other(s)] : n \in Range(out[Other(s)][i].of)})
Conservation ==
    \A s \in Side : \A n \in DOMAIN sent[s] :
       2 * n <= parsed[s] /\ sent[s][n].type # "WINDOW_UPDATE" => Places(s, n) = 1

(***************************************************************************)
(* Acknowledgements are end to end.  before_frame_send_callback cancels    *)
(* nghttp2's own ACKs, so a peer is told that its SETTINGS frame is in     *)
(* force only after the far peer has been sent that frame and has          *)
(* acknowledged it.                                                        *)
(***************************************************************************)
AckEndToEnd ==
    \A s \in Side :
       Cardinality(WrittenOf(s, {"ACK"})) <=
         Cardinality({n \in WrittenOf(Other(s), {"SETTINGS"}) : out[Other(s)][n].of # <<>>})

(***************************************************************************)
(* DATA that flow control holds back goes out as it came in: "flow control *)
(* between the nodes is performed inside nghttp2 when it is needed", says  *)
(* the comment of the WINDOW_UPDATE filter.                                *)
(***************************************************************************)
HeldDataIntact ==
    \A s \in Side : \A n \in WrittenOf(s, {"DATA"}) : Freed \notin Range(out[s][n].of)

(***************************************************************************)
(* Between callbacks no message that may be relayed waits: whatever ends   *)
(* the wait of one (its last frame, the other side's SETTINGS, the         *)
(* connection) is followed by a DoFlush in the same callback.  Messages    *)
(* would be late if it were not, and the process would hang:               *)
(* ~DownSessionHttp2 calls DoFlush when both connections are already       *)
(* marked as closed, write answers 0 to nghttp2_session_send, and that     *)
(* tries again for ever.                                                   *)
(***************************************************************************)
NothingDue ==
    handler = "idle" =>
       \A s \in Side : (s = "up" => client = "connected") =>
          \A m \in Range(messages[s]) : Held(s, m)

(***************************************************************************)
(* No stall.  A frame that either peer has sent is delivered to the other, *)
(* unless the origin refuses HTTP/2 or no request has named an origin yet; *)
(* a frame of a gzip response is delivered when the response has ended.    *)
(* (What the peers send is bounded, and what is due or delivered stays so: *)
(* "again and again nothing is outstanding" says that it all arrives.)     *)
(***************************************************************************)
Delivered(s, n) == \E w \in Range(out[Other(s)]) : n \in Range(w.of)
Due(s, n) ==
    /\ sent[s][n].type # "WINDOW_UPDATE"
    /\ client = "connected"
    /\ Zipped(s, sent[s][n].stream) => Ended(s, sent[s][n].stream)
MaxSent == MaxFrames["up"] + MaxFrames["down"] + 2 * MaxSettings + 1
NoStall == \A s \in Side : []<>(\A n \in DOMAIN sent[s] : Due(s, n) => Delivered(s, n))
=============================================================================
