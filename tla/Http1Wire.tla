------------------------------ MODULE Http1Wire ------------------------------
(***************************************************************************)
(* HTTP/1 messages on the wire: how http_parser finds the end of a         *)
(* message, what UpSessionHttp and DownSessionHttp keep of it in their one *)
(* slot (request_, message_), and what their send() writes to the other    *)
(* peer.  The header is written as it came, the body without the chunks    *)
(* it came in but with a line end behind it, the trailers last.            *)
(*                                                                         *)
(* The peers read what the proxy writes with the same parser: a request    *)
(* or a response is taken to be what http_parser makes of it.  They take   *)
(* turns, as HTTP/1 without pipelining does; what pipelined requests and   *)
(* 100 Continue do to the slots, protocol changes and an origin that       *)
(* cannot be reached are in ProxyConnection.                               *)
(*                                                                         *)
(* Abstractions.  A unit on the wire is a start line, the rest of a header *)
(* with its blank line, one byte of a body, the line of a chunk's size, a  *)
(* trailer field or a line end; a read brings any number of them.          *)
(***************************************************************************)
EXTENDS Integers, Sieve

CONSTANTS
    Requests,       \* the messages the application may send
    Responses,      \* the messages the origin may answer with
    MaxExchanges    \* bound: requests on one connection

\* framing: what the header says of the body: nothing, Content-Length,
\* "Transfer-Encoding: chunked", or both;  chunks: the sizes of the body's
\* chunks (its one piece without chunks);  bare: a HEAD request, or a response
\* whose status admits no body (204, 304);  last: "Connection: close", or
\* HTTP/1.0 without keep-alive.
Message == [framing : {"none", "length", "chunked", "both"}, chunks : Seq(Nat \ {0}),
            trailer : BOOLEAN, bare : BOOLEAN, last : BOOLEAN]

ASSUME WireAssumption ==
    /\ Requests \subseteq Message
    /\ Responses \subseteq Message
    \* nothing follows a request that does not say so
    /\ \A m \in Requests : m.framing = "none" => m.chunks = <<>>
    /\ MaxExchanges \in Nat

VARIABLES
    said,       \* said[s]: the messages the peer of side s has sent
    sent,       \* sent[s]: the units they were written as
    parsed,     \* parsed[s]: how many of them session s has parsed
    parser,     \* parser[s]: the http_parser of session s
    slot,       \* slot["up"] is request_, slot["down"] is message_
    client,     \* the ClientConnection: "none", "connecting" or "connected"
    out,        \* out[s]: what has been written to the bufferevent of side s
    delivered,  \* delivered[s]: how much of it has reached the peer
    heard,      \* heard[s]: what the peer has made of that
    handler,    \* the session whose read callback runs, "idle", "closed" when
                \* the connection is gone, "crashed" after a null pointer
    todo        \* units the running callback has still to parse

vars == <<said, sent, parsed, parser, slot, client, out, delivered, heard, handler, todo>>
peerVars == <<said, sent>>
takenVars == <<delivered, heard>>
outVars == <<out, takenVars>>

Side == {"up", "down"}
Other(s) == IF s = "up" THEN "down" ELSE "up"

\* `of' is the number of the message a unit belongs to; `size' the size of a
\* chunk, or the place of a byte in its body.
UnitKind == {"begin", "fields", "byte", "size", "trailer", "crlf"}
Unit == [kind : UnitKind, of : Nat, size : Nat]
Piece(kind, n, size) == [kind |-> kind, of |-> n, size |-> size]
LineEnd == Piece("crlf", 0, 0)

-----------------------------------------------------------------------------
(***************************************************************************)
(* http_parser, one unit at a time.                                        *)
(***************************************************************************)
BodyState == {"identity", "eof", "chunk_data"}
ParserState == {"start", "fields", "chunk_size", "chunk_end", "trailer", "dead", "error"}
               \cup BodyState
\* length is content_length; last says that the message is not keep-alive.
Parser == [state : ParserState, length : Nat, last : BOOLEAN]
Fresh == [state |-> "start", length |-> 0, last |-> FALSE]

To(p, state) == [p EXCEPT !.state = state]
Expecting(p, state, n) == [p EXCEPT !.state = state, !.length = n]

\* NEW_MESSAGE() in strict mode: nothing may follow a message that was the last.
NewMessage(p) == To(p, IF p.last THEN "dead" ELSE "start")

Total(sizes) ==
    LET sum[n \in 0..Len(sizes)] == IF n = 0 THEN 0 ELSE sum[n - 1] + sizes[n]
    IN  sum[Len(sizes)]
BodyLength(m) == Total(m.chunks)

HeadersDoneUnlessEmpty(p, m, isRequest, skip) ==      \* a slip: Content-Length: 0 is not an end
    CASE m.framing = "chunked" -> To(p, "chunk_size")
      [] m.framing = "length" -> Expecting(p, "identity", BodyLength(m))
      [] OTHER -> IF isRequest \/ skip \/ m.bare THEN NewMessage(p) ELSE To(p, "eof")

\* s_headers_done: what the header says of the body.  skip is the answer 1 of
\* on_headers_complete, which htp_hdrs_completecb never gives; a response that
\* http_message_needs_eof lasts until the connection ends.
HeadersDone(p, m, isRequest, skip) ==
    IF m.framing = "both" THEN To(p, "error")
    ELSE IF skip THEN NewMessage(p)
    ELSE CASE m.framing = "chunked" -> To(p, "chunk_size")
           [] m.framing = "length" ->
                IF BodyLength(m) = 0 THEN NewMessage(p)
                ELSE Expecting(p, "identity", BodyLength(m))
           [] m.framing = "none" ->
                IF isRequest \/ m.bare THEN NewMessage(p) ELSE To(p, "eof")

ChunkDataLate(p) ==      \* a slip: the length is looked at before it is counted down
    Expecting(p, IF p.length = 0 THEN "chunk_end" ELSE "chunk_data", p.length - 1)

\* One byte of a body: s_body_identity and s_chunk_data.
Identity(p) ==
    IF p.length = 1 THEN NewMessage([p EXCEPT !.length = 0]) ELSE [p EXCEPT !.length = @ - 1]
ChunkData(p) ==
    Expecting(p, IF p.length = 1 THEN "chunk_end" ELSE "chunk_data", p.length - 1)

\* http_parser_execute on unit u, which belongs to message m.  A body takes
\* whatever comes.
Execute(p, u, m, isRequest, skip) ==
    CASE p.state = "start" ->
           IF u.kind = "crlf" THEN p
           ELSE IF u.kind = "begin" THEN [state |-> "fields", length |-> 0, last |-> m.last]
           ELSE To(p, "error")
      [] p.state = "dead" -> IF u.kind = "crlf" THEN p ELSE To(p, "error")
      [] p.state = "fields" ->
           IF u.kind = "fields" THEN HeadersDone(p, m, isRequest, skip) ELSE To(p, "error")
      [] p.state = "identity" -> Identity(p)
      [] p.state = "eof" -> p
      [] p.state = "chunk_size" ->
           IF u.kind = "size"
           THEN Expecting(p, IF u.size = 0 THEN "trailer" ELSE "chunk_data", u.size)
           ELSE To(p, "error")
      [] p.state = "chunk_data" -> ChunkData(p)
      [] p.state = "chunk_end" -> To(p, IF u.kind = "crlf" THEN "chunk_size" ELSE "error")
      [] p.state = "trailer" ->
           IF u.kind = "trailer" THEN p
           ELSE IF u.kind = "crlf" THEN NewMessage(p)
           ELSE To(p, "error")
      [] p.state = "error" -> p

Between == {"start", "dead"}
Completes(p, q) == p.state \notin Between /\ q.state \in Between

-----------------------------------------------------------------------------
(***************************************************************************)
(* The callbacks of the sessions, which are the same on both sides.        *)
(***************************************************************************)
Stored == [stat : {"HEADER", "BODY", "COMPLETE"}, head : Seq(Unit), payload : Seq(Unit),
           trailer : Seq(Unit)]
NoMessage == [stat |-> "INIT", head |-> <<>>, payload |-> <<>>, trailer |-> <<>>]
Empty == [NoMessage EXCEPT !.stat = "HEADER"]

\* htp_msg_begin makes a message only when there is none.
Begun(m, p, q) ==
    IF p.state = "start" /\ q.state = "fields" /\ m = NoMessage THEN Empty ELSE m

NotedInHeader(m, p, u, q) ==      \* a slip: trailer fields become header fields
    [stat    |-> IF Completes(p, q) THEN "COMPLETE"
                 ELSE IF p.state = "fields" /\ q.state # "error" THEN "BODY" ELSE m.stat,
     head    |-> IF u.kind \in {"begin", "fields", "trailer"} THEN Append(m.head, u) ELSE m.head,
     payload |-> IF p.state \in BodyState THEN Append(m.payload, u) ELSE m.payload,
     trailer |-> m.trailer]

\* htp_uricb, htp_statuscb, htp_hdr_valcb, htp_hdrs_completecb, htp_bodycb and
\* htp_msg_completecb: where a unit goes depends on procstat.
Noted(m, p, u, q) ==
    LET inHeader == \/ q.state = "fields"
                    \/ p.state = "fields" /\ u.kind = "fields"
                    \/ p.state = "trailer" /\ u.kind = "trailer" /\ m.stat = "HEADER"
        inTrailer == p.state = "trailer" /\ u.kind = "trailer" /\ m.stat # "HEADER"
    IN  [stat    |-> IF Completes(p, q) THEN "COMPLETE"
                     ELSE IF p.state = "fields" /\ q.state # "error" THEN "BODY" ELSE m.stat,
         head    |-> IF inHeader THEN Append(m.head, u) ELSE m.head,
         payload |-> IF p.state \in BodyState THEN Append(m.payload, u) ELSE m.payload,
         trailer |-> IF inTrailer THEN Append(m.trailer, u) ELSE m.trailer]

-----------------------------------------------------------------------------
(***************************************************************************)
(* The peers.                                                              *)
(***************************************************************************)
Bytes(n, from, k) == [i \in 1..k |-> Piece("byte", n, from + i)]

\* The body of m, the n-th message: its bytes, or its chunks one after another.
Chunk(m, n, i) ==
    <<Piece("size", n, m.chunks[i])>>
      \o Bytes(n, Total(SubSeq(m.chunks, 1, i - 1)), m.chunks[i]) \o <<LineEnd>>
BodyUnits(m, n) ==
    IF m.framing \in {"chunked", "both"}
    THEN FlattenSeq([i \in DOMAIN m.chunks |-> Chunk(m, n, i)]) \o <<Piece("size", n, 0)>>
           \o (IF m.trailer THEN <<Piece("trailer", n, 0)>> ELSE <<>>) \o <<LineEnd>>
    ELSE Bytes(n, 0, BodyLength(m))

\* The message a unit belongs to (a line end belongs to none: any will do).
MessageOf(s, u) == said[s][IF u.of = 0 THEN 1 ELSE u.of]

\* Does the n-th message of side s come without the body its header announces?
Silent(s, n) == s = "down" /\ (said["up"][n].bare \/ said["down"][n].bare)

\* What the peer of side s makes of the next unit it is sent: its parser, the
\* message it is receiving, and those it has received.  Unlike the proxy a peer
\* knows which responses have no body.
Deaf == [parser |-> Fresh, slot |-> NoMessage, got |-> <<>>]
Hear(s, h, u) ==
    LET m == MessageOf(Other(s), u)
        skip == s = "up" /\ u.of \in DOMAIN said["down"] /\ Silent("down", u.of)
        q == Execute(h.parser, u, m, s = "down", skip)
        x == Begun(h.slot, h.parser, q)
        y == IF x = NoMessage THEN x ELSE Noted(x, h.parser, u, q)
    IN  IF y.stat = "COMPLETE"
        THEN [parser |-> q, slot |-> NoMessage, got |-> Append(h.got, y)]
        ELSE [parser |-> q, slot |-> y, got |-> h.got]

Say(s, m) ==
    LET n == Len(said[s]) + 1
    IN  /\ handler = "idle"
        /\ said' = [said EXCEPT ![s] = Append(@, m)]
        /\ sent' = [sent EXCEPT ![s] =
               @ \o <<Piece("begin", n, 0), Piece("fields", n, 0)>>
                 \o (IF s = "down" /\ (said["up"][n].bare \/ m.bare) THEN <<>>
                     ELSE BodyUnits(m, n))]
        /\ UNCHANGED <<parsed, parser, slot, client, outVars, handler, todo>>

\* May the connection carry another message after what the peer of s has said?
Open(s) == \A n \in DOMAIN said[s] : ~said[s][n].last

\* The application waits for the answer to its last request.
Request ==
    /\ Len(said["up"]) < MaxExchanges
    /\ Open("up") /\ Open("down")
    /\ heard["up"].parser.state = "start" /\ Len(heard["up"].got) = Len(said["up"])
    /\ \E m \in Requests : Say("up", m)

\* The origin answers what it has received.
Respond ==
    /\ Len(said["down"]) < Len(heard["down"].got)
    /\ Open("down")
    /\ \E m \in Responses : Say("down", m)

\* A response without a length is over when the origin closes; so does an
\* origin that has sent its last one.  The event comes after the reads.
CloseDelimited(n) ==
    said["down"][n].framing = "none" /\ ~said["down"][n].bare
OriginCloses ==
    /\ handler = "idle"
    /\ parsed["down"] = Len(sent["down"]) \/ parser["down"].state = "error"
    /\ \E n \in DOMAIN said["down"] :
         /\ n = Len(said["down"])
         /\ said["down"][n].last \/ (CloseDelimited(n) /\ ~Silent("down", n))
    /\ handler' = "closed"
    /\ UNCHANGED <<peerVars, parsed, parser, slot, client, outVars, todo>>

\* libevent writes what is in the output buffer as the peer takes it; what is
\* left when the connection is torn down is freed with the bufferevent.
Deliver(s) ==
    /\ handler = "idle"
    /\ delivered[s] < Len(out[s])
    /\ delivered' = [delivered EXCEPT ![s] = @ + 1]
    /\ heard' = [heard EXCEPT ![s] = Hear(s, @, out[s][delivered'[s]])]
    /\ UNCHANGED <<peerVars, parsed, parser, slot, client, out, handler, todo>>

-----------------------------------------------------------------------------
(***************************************************************************)
(* The proxy.                                                              *)
(***************************************************************************)
Units(s) == Len(sent[s]) - parsed[s]

\* The read callback.  Once http_parser has failed a read changes nothing.
ReadCb(s) ==
    /\ handler = "idle"
    /\ parser[s].state # "error"
    /\ \E k \in 1..Units(s) : todo' = k
    /\ handler' = s
    /\ UNCHANGED <<peerVars, parsed, parser, slot, client, outVars>>

\* A callback that finds no message answers -1, which ends the parser.
Parse(s) ==
    /\ handler = s /\ todo > 0 /\ parser[s].state # "error"
    /\ LET u == sent[s][parsed[s] + 1]
           m == MessageOf(s, u)
           p == parser[s]
           q == Execute(p, u, m, s = "up", FALSE)
           x == Begun(slot[s], p, q)
       IN  IF x = NoMessage
           THEN /\ parser' = [parser EXCEPT ![s] = IF q.state \in Between /\ p.state \in Between
                                                   THEN q ELSE To(q, "error")]
                /\ UNCHANGED slot
           ELSE /\ parser' = [parser EXCEPT ![s] = q]
                /\ slot' = [slot EXCEPT ![s] = Noted(x, p, u, q)]
    /\ parsed' = [parsed EXCEPT ![s] = @ + 1]
    /\ todo' = todo - 1
    /\ UNCHANGED <<peerVars, client, outVars, handler>>

RenderedApart(m) ==      \* a slip: the line end goes in front of the payload
    m.head \o (IF m.payload = <<>> THEN <<>> ELSE <<LineEnd>> \o m.payload)

\* send(): the header as it is, the payload and a line end, the trailers.
Rendered(m) ==
    m.head \o (IF m.payload = <<>> THEN <<>> ELSE Append(m.payload, LineEnd))
           \o (IF m.trailer = <<>> THEN <<>> ELSE Append(m.trailer, LineEnd))

FlushKept(s, c) ==      \* a slip: the message stays in the slot
    /\ out' = [out EXCEPT ![Other(s)] =
           IF slot[s].stat = "COMPLETE" /\ c = "connected" THEN @ \o Rendered(slot[s]) ELSE @]
    /\ UNCHANGED slot

\* DoFlush of session s while the origin's connection is in state c.
Flush(s, c) ==
    IF slot[s].stat = "COMPLETE" /\ c = "connected"
    THEN /\ out' = [out EXCEPT ![Other(s)] = @ \o Rendered(slot[s])]
         /\ slot' = [slot EXCEPT ![s] = NoMessage]
    ELSE UNCHANGED <<out, slot>>

\* The end of on_read: the first request names the origin; then DoFlush, which
\* on the down side looks at message_ without asking whether there is one.
ReadDone(s) ==
    /\ handler = s
    /\ todo = 0 \/ parser[s].state = "error"
    /\ client' = IF s = "up" /\ client = "none" /\ slot[s] # NoMessage
                 THEN "connecting" ELSE client
    /\ Flush(s, client')
    /\ handler' = IF s = "down" /\ slot[s] = NoMessage THEN "crashed" ELSE "idle"
    /\ todo' = 0
    /\ UNCHANGED <<peerVars, parsed, parser, takenVars>>

\* on_event: connected, and DoFlush of the up session.
Connected ==
    /\ handler = "idle" /\ client = "connecting"
    /\ client' = "connected"
    /\ Flush("up", "connected")
    /\ UNCHANGED <<peerVars, parsed, parser, takenVars, handler, todo>>

-----------------------------------------------------------------------------
Init ==
    /\ said = [s \in Side |-> <<>>]
    /\ sent = [s \in Side |-> <<>>]
    /\ parsed = [s \in Side |-> 0]
    /\ parser = [s \in Side |-> Fresh]
    /\ slot = [s \in Side |-> NoMessage]
    /\ client = "none"
    /\ out = [s \in Side |-> <<>>]
    /\ delivered = [s \in Side |-> 0]
    /\ heard = [s \in Side |-> Deaf]
    /\ handler = "idle"
    /\ todo = 0

Callback(s) == ReadCb(s) \/ Parse(s) \/ ReadDone(s)

Next == \/ Request \/ Respond \/ OriginCloses \/ Connected
        \/ \E s \in Side : Callback(s) \/ Deliver(s)

Spec == Init /\ [][Next]_vars

\* The event loop runs what is due, the attempt to connect has an outcome, and
\* the peers take what is written to them.
Fairness ==
    /\ \A s \in Side : WF_vars(Callback(s)) /\ WF_vars(Deliver(s))
    /\ WF_vars(Connected)
FairSpec == Spec /\ Fairness

-----------------------------------------------------------------------------
TypeOK ==
    /\ said \in [Side -> Seq(Requests \cup Responses)]
    /\ said["up"] \in Seq(Requests) /\ said["down"] \in Seq(Responses)
    /\ sent \in [Side -> Seq(Unit)]
    /\ parsed \in [Side -> Nat]
    /\ \A s \in Side : parsed[s] <= Len(sent[s])
    /\ parser \in [Side -> Parser]
    /\ slot \in [Side -> Stored \cup {NoMessage}]
    /\ client \in {"none", "connecting", "connected"}
    /\ out \in [Side -> Seq(Unit)]
    /\ delivered \in [Side -> Nat]
    /\ heard \in [Side -> [parser : Parser, slot : Stored \cup {NoMessage}, got : Seq(Stored)]]
    /\ handler \in Side \cup {"idle", "closed", "crashed"}
    /\ todo \in Nat

(***************************************************************************)
(* The slot follows the parser.  While http_parser is inside a message     *)
(* there is a message for its callbacks, in the stage that decides where a *)
(* field goes; a completed one is never written into; and DoFlush of the   *)
(* down session finds one after every read.                                *)
(***************************************************************************)
SlotFollowsParser ==
    /\ \A s \in Side :
         /\ parser[s].state = "fields" => slot[s].stat = "HEADER"
         /\ parser[s].state \in BodyState \cup {"chunk_size", "chunk_end", "trailer"}
              => slot[s].stat = "BODY"
         /\ parser[s].state \in Between => slot[s].stat \in {"INIT", "COMPLETE"}
    /\ handler # "crashed"

(***************************************************************************)
(* What a message carries is kept.  Whatever the framing and wherever the  *)
(* reads cut it, the start lines, headers, bytes and trailer fields that   *)
(* have been written to one peer are those the other has sent, in order,   *)
(* each once: only chunk sizes and line ends differ.                       *)
(***************************************************************************)
Content(units) == Only(units, {u \in Unit : u.kind \in {"begin", "fields", "byte", "trailer"}})
ContentKept == \A s \in Side : IsPrefix(Content(out[Other(s)]), Content(sent[s]))

(***************************************************************************)
(* A message that is not chunked is the same message for the far peer.     *)
(* (send() writes the body of a chunked one without its chunks under the   *)
(* header that announces them.)  The line end behind every body is taken   *)
(* for an empty line in front of the next message.                         *)
(***************************************************************************)
Unchunked(s, n) == said[s][n].framing \in {"none", "length"}
SameMessage(s, n, m) ==
    /\ n \in DOMAIN said[s]
    /\ m.head = <<Piece("begin", n, 0), Piece("fields", n, 0)>>
    /\ m.payload = IF Silent(s, n) THEN <<>> ELSE BodyUnits(said[s][n], n)
    /\ m.trailer = <<>>
MessagesSurvive ==
    \A s \in Side :
       LET got == heard[Other(s)].got
       IN  \A n \in DOMAIN got :
             (\A i \in 1..n : i \in DOMAIN said[s] => Unchunked(s, i)) => SameMessage(s, n, got[n])

(***************************************************************************)
(* Every message is answered and its answer arrives, unless it is chunked, *)
(* it has no end that http_parser sees (a response without a length; a     *)
(* Content-Length on the answer to HEAD or on a 304, for which             *)
(* htp_hdrs_completecb would have to answer 1), or the origin closes the   *)
(* connection behind it.                                                   *)
(***************************************************************************)
Ends(s, n) ==
    \/ s = "up"
    \/ Silent(s, n) /\ BodyLength(said[s][n]) = 0 /\ (said[s][n].framing = "length" \/ said[s][n].bare)
    \/ ~Silent(s, n) /\ ~CloseDelimited(n)
Due(s, n) == Unchunked(s, n) /\ Ends(s, n)
Arrives ==
    []<>(\A s \in Side : \A n \in DOMAIN said[s] :
           (\A i \in 1..n : Due(s, i)) /\ handler # "closed" => n <= Len(heard[Other(s)].got))
=============================================================================
