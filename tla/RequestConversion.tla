------------------------- MODULE RequestConversion -------------------------
(***************************************************************************)
(* The header of one HTTP/1.1 request on a connection to a TLS origin:     *)
(* how http_parser's callbacks put it together in request_ from reads that *)
(* end anywhere, and how switchinghttp2 turns a request that asks for      *)
(* "Upgrade: h2c" into HTTP/2 when the origin has chosen h2.               *)
(*                                                                         *)
(* A name is a string, and equal names are equal but for case.  A value is *)
(* a sequence of atoms (names, commas, spaces, other text): a read may end *)
(* between any two of them, and inside any name.                           *)
(***************************************************************************)
EXTENDS Integers, SequencesExt

CONSTANTS
    Fields,       \* the fields the application may write in the header,
    TrailerFields,\* and those in the trailer
    Tails,        \* Tails[n]: what may be left of name n behind a cut
    Targets,      \* the parts of the URIs it may ask for (host and port empty
                  \* unless the URI is absolute)
    MaxFields,    \* bound: fields of the header
    MaxTrailers,  \* bound: fields of the trailer
    MaxCuts       \* bound: reads that end inside a field

ASSUME ConstantsAssumption ==
    /\ TrailerFields \subseteq Fields
    /\ \A f \in Fields : f.name \in STRING /\ f.value \in Seq(STRING) \ {<<>>}
    /\ \A f \in Fields : Tails[f.name] \subseteq STRING
    /\ \A u \in Targets : /\ u.host \in Seq(STRING) /\ u.port \in Seq(STRING)
                          /\ u.path \in Seq(STRING) /\ u.query \in Seq(STRING)
                          /\ u.fragment \in Seq(STRING)
    /\ MaxFields \in Nat /\ MaxTrailers \in Nat /\ MaxCuts \in Nat

VARIABLES
    target,      \* the URI the application asks for, of Targets
    wrote,       \* the fields the application has written, and
    trailers,    \* those behind the body: the last may still be arriving
    cuts,        \* reads that have ended inside a field
    parser,      \* what http_parser expects: "start", "field", "tail" (of a
                 \* name), "value", "body" or "over"
    rest,        \* the part of the value that has not been parsed
    read,        \* readcb of the application: "idle", "running", or "ending"
                 \* when the input is used up
    curheader,   \* curheader_.name
    request,     \* request_, or NoRequest (a null pointer)
    offered,     \* the ClientConnection's protocol_: "HTTP1", "HTTP2Both", or "none"
    down,        \* class of downstream_, "none" while there is no outcome
    up,          \* class of upstream_
    messages,    \* messages_ of the UpSessionHttp2
    plain        \* the request has been written to the origin as HTTP/1.1

vars == <<target, wrote, trailers, cuts, parser, rest, read, curheader, request, offered,
          down, up, messages, plain>>
inputVars == <<target, wrote, trailers, cuts>>
parserVars == <<parser, rest, curheader>>
connectionVars == <<offered, down, up, messages, plain>>

NoRequest == [stat |-> "none"]
NewRequest(uri) ==
    [stat |-> "HEADER", storemessage |-> FALSE, upgrade_http2 |-> FALSE,
     host |-> uri.host, port |-> uri.port, path |-> uri.path,
     headers |-> <<>>, trailer |-> <<>>, payload |-> 0]
Field(n, v) == [name |-> n, value |-> v]

Init ==
    /\ target \in Targets /\ wrote = <<>> /\ trailers = <<>> /\ cuts = 0
    /\ parser = "start" /\ rest = <<>> /\ read = "idle" /\ curheader = ""
    /\ request = NoRequest
    /\ offered = "none" /\ down = "none" /\ up = "http1"
    /\ messages = <<>> /\ plain = FALSE

-----------------------------------------------------------------------------
(***************************************************************************)
(* HttpHeaderBlock and util.                                               *)
(***************************************************************************)
has(block, n) == \E k \in DOMAIN block : block[k].name = n
get(block, n) ==
    block[CHOOSE k \in DOMAIN block :
             block[k].name = n /\ \A j \in 1..k - 1 : block[j].name # n]
remove(block, n) == SelectSeq(block, LAMBDA f : f.name # n)
prepend(block, header) == header \o block

\* What is between separators; nothing behind the last one.
split_string(src) ==
    LET from[o \in 1..Len(src) + 1] ==
            LET found == {p \in o..Len(src) : src[p] = ","}
            IN  IF o > Len(src) THEN <<>>
                ELSE IF found = {} THEN <<SubSeq(src, o, Len(src))>>
                ELSE <<SubSeq(src, o, Min(found) - 1)>> \o from[Min(found) + 1]
    IN  from[1]

trimRight(str) ==         \* a slip: the space behind the separator stays
    LET ink == {k \in DOMAIN str : str[k] # " "}
    IN  IF ink = {} THEN <<>> ELSE SubSeq(str, 1, Max(ink))

trim(str) ==
    LET ink == {k \in DOMAIN str : str[k] # " "}
    IN  IF ink = {} THEN <<>> ELSE SubSeq(str, Min(ink), Max(ink))

-----------------------------------------------------------------------------
(***************************************************************************)
(* The callbacks of http_parser.  What it has not finished when the input  *)
(* ends it hands over as it is, and goes on behind the cut: a name or a    *)
(* value then takes two callbacks, the second perhaps with nothing left.   *)
(***************************************************************************)
ReadCb ==
    /\ up = "http1" /\ read = "idle"
    /\ read' = "running"
    /\ UNCHANGED <<inputVars, parserVars, request, connectionVars>>

\* http_parser's parts of the URI.  Query and fragment do not begin with their
\* mark there, and none is put between them and the path.
parseURI(u) ==
    [host |-> u.host, port |-> u.port,
     path |-> (IF u.path = <<>> THEN <<"/">> ELSE u.path) \o u.query \o u.fragment]

\* htp_msg_begin and htp_uricb.
htp_uricb ==
    /\ read = "running" /\ parser = "start"
    /\ request' = NewRequest(parseURI(target))
    /\ parser' = "field"
    /\ UNCHANGED <<inputVars, rest, read, curheader, connectionVars>>

Whole == UNCHANGED <<cuts, read>>
Cut == cuts < MaxCuts /\ cuts' = cuts + 1 /\ read' = "ending"

InTrailer == request.stat = "BODY"
Writing == IF InTrailer THEN Last(trailers) ELSE Last(wrote)
Write(f) ==
    \/ /\ ~InTrailer /\ Len(wrote) < MaxFields
       /\ wrote' = Append(wrote, f) /\ UNCHANGED trailers
    \/ /\ InTrailer /\ Len(trailers) < MaxTrailers /\ f \in TrailerFields
       /\ trailers' = Append(trailers, f) /\ UNCHANGED wrote

\* A name, or the first part of it; or what is left of it behind the cut.
htp_hdr_keycb ==
    /\ read = "running"
    /\ \/ /\ parser = "field" \/ parser = "body"
          /\ \E f \in Fields :
               /\ Write(f)
               /\ rest' = f.value
               /\ UNCHANGED target
               /\ \/ Whole /\ curheader' = f.name /\ parser' = "value"
                  \/ Cut /\ curheader' = "" /\ parser' = "tail"
       \/ /\ parser = "tail"
          /\ curheader' \in Tails[Writing.name]
          /\ parser' = "value"
          /\ UNCHANGED <<inputVars, rest, read>>
    /\ UNCHANGED <<request, connectionVars>>

\* A slip: a piece takes the place of the one before it.
AddedAgain(block, piece) ==
    IF rest = Writing.value THEN Append(block, Field(curheader, piece))
    ELSE Append(Front(block), Field(curheader, piece))

\* HttpHeaderBlock::append.
Added(block, piece) == Append(block, Field(curheader, piece))

\* What htp_hdr_valcb does with one piece of a value.
Given(piece) ==
    [request EXCEPT
        !.host = IF @ = <<>> /\ curheader = "Host" THEN piece ELSE @,
        !.upgrade_http2 = @ \/ (curheader = "Upgrade" /\ piece = <<"h2c">>),
        !.headers = IF InTrailer THEN @ ELSE Added(@, piece),
        !.trailer = IF InTrailer THEN Added(@, piece) ELSE @]

htp_hdr_valcb ==
    /\ read = "running" /\ parser = "value"
    /\ \/ /\ Whole /\ parser' = "field" /\ rest' = <<>>
          /\ request' = Given(rest)
       \/ \E k \in DOMAIN rest :
             /\ Cut /\ UNCHANGED parser
             /\ rest' = SubSeq(rest, k + 1, Len(rest))
             /\ request' = Given(SubSeq(rest, 1, k))
    /\ UNCHANGED <<target, wrote, trailers, curheader, connectionVars>>

\* Of a request, on every path.
IsStoreMessage == FALSE

htp_hdrs_completecb ==
    /\ read = "running" /\ parser = "field" /\ request.stat = "HEADER"
    /\ parser' = "body"
    /\ request' = [request EXCEPT !.stat = "BODY", !.storemessage = IsStoreMessage]
    /\ UNCHANGED <<inputVars, rest, read, curheader, connectionVars>>

\* One unit stands for the body.
htp_bodycb ==
    /\ read = "running" /\ parser = "body" /\ request.payload = 0
    /\ request' = [request EXCEPT !.payload = 1]
    /\ UNCHANGED <<inputVars, parserVars, read, connectionVars>>

htp_msg_completecb ==
    /\ read = "running" /\ parser \in {"field", "body"} /\ request.stat = "BODY"
    /\ parser' = "over"
    /\ request' = [request EXCEPT !.stat = "COMPLETE"]
    /\ UNCHANGED <<inputVars, rest, read, curheader, connectionVars>>

-----------------------------------------------------------------------------
(***************************************************************************)
(* UpSessionHttp::on_read behind the parser, and the origin's answer.      *)
(***************************************************************************)
FlushesAny(connected) ==          \* a slip: upgrade_http2 is not asked
    connected /\ request.stat = "COMPLETE"
FlushesEarly(connected) ==        \* a slip: the message need not be complete
    connected /\ request # NoRequest /\ ~request.upgrade_http2

\* DoFlush, over TLS: an upgrade is never written as it is.
Flushes(connected) ==
    /\ connected /\ request.stat = "COMPLETE"
    /\ ~request.upgrade_http2

DoFlush(connected) ==
    IF Flushes(connected)
    THEN plain' = TRUE /\ request' = NoRequest
    ELSE UNCHANGED <<plain, request>>

OfferBoth == "HTTP2Both"          \* a slip: h2 is offered for every request

\* The protocol init_client is called with.
Offer == IF request.upgrade_http2 THEN "HTTP2Both" ELSE "HTTP1"

ReadDone ==
    /\ read = "running" \/ read = "ending"
    /\ read' = "idle"
    /\ offered' = IF offered = "none" /\ request # NoRequest /\ request.host # <<>>
                  THEN Offer ELSE offered
    /\ DoFlush(down # "none")
    /\ UNCHANGED <<inputVars, parserVars, down, up, messages>>

\* The fields that belong to this connection: what the Connection field lists,
\* and the five of RFC 7540, 8.1.2.2.
Listed(block) ==
    IF has(block, "Connection") THEN split_string(get(block, "Connection").value) ELSE <<>>
removeListed(block, fields) ==
    FoldLeft(LAMBDA b, t : SelectSeq(b, LAMBDA f : <<f.name>> # trim(t)), block, fields)
ConnectionSpecific ==
    <<"Connection", "Upgrade", "Keep-Alive", "Proxy-Connection", "Transfer-Encoding">>

removeHopByHop(block) ==
    FoldLeft(remove, removeListed(block, Listed(block)), ConnectionSpecific)

Authority(host, port) == IF port = <<>> THEN host ELSE host \o <<":">> \o port
Pseudo(path, authority) ==
    <<Field(":method", <<"method">>), Field(":path", path),
      Field(":scheme", <<"https">>), Field(":authority", authority)>>

\* What appendHttp1Request queues: a place for the application's SETTINGS and
\* the request as HEADERS of stream 1; nothing without HTTP2-Settings.  Body and
\* trailer only decide END_STREAM: no frame is made of them, and no request is
\* stored, so deflate and deflateEnd return at once.
appendHttp1Request(req) ==
    IF ~has(req.headers, "HTTP2-Settings") THEN <<>>
    ELSE <<[type |-> "SETTINGS", stat |-> "INIT", store |-> FALSE, headers |-> <<>>,
            end |-> FALSE],
           [type |-> "HEADERS", stat |-> req.stat, store |-> req.storemessage,
            headers |-> prepend(removeHopByHop(req.headers),
                                Pseudo(req.path, Authority(req.host, req.port))),
            end |-> req.payload = 0 /\ req.trailer = <<>>]>>

\* switchinghttp2: the 101 is sent and the request is gone from the slot,
\* whether it was queued or not.
switchinghttp2 ==
    /\ up' = "http2"
    /\ messages' = appendHttp1Request(request)
    /\ request' = NoRequest
    /\ UNCHANGED plain

\* on_event: the origin chooses h2, which it can where it is offered, or not.
ConnectedH2 ==
    /\ read = "idle" /\ offered = "HTTP2Both" /\ down = "none"
    /\ down' = "http2"
    /\ IF request # NoRequest /\ request.upgrade_http2
       THEN switchinghttp2
       ELSE DoFlush(TRUE) /\ UNCHANGED <<up, messages>>
    /\ UNCHANGED <<inputVars, parserVars, read, offered>>

Connected ==
    /\ read = "idle" /\ offered # "none" /\ down = "none"
    /\ down' = "http1"
    /\ DoFlush(TRUE)
    /\ UNCHANGED <<inputVars, parserVars, read, offered, up, messages>>

Next == \/ ReadCb \/ htp_uricb \/ htp_hdr_keycb \/ htp_hdr_valcb
        \/ htp_hdrs_completecb \/ htp_bodycb \/ htp_msg_completecb
        \/ ReadDone \/ ConnectedH2 \/ Connected

Spec == Init /\ [][Next]_vars

-----------------------------------------------------------------------------
(***************************************************************************)
(* Properties.                                                             *)
(***************************************************************************)
Block == Seq([name : STRING, value : Seq(STRING)])
Request == [stat : {"HEADER", "BODY", "COMPLETE"}, storemessage : {FALSE},
            upgrade_http2 : BOOLEAN, host : Seq(STRING), port : Seq(STRING),
            path : Seq(STRING), headers : Block, trailer : Block, payload : {0, 1}]
ConvertedMessage == [type : {"SETTINGS", "HEADERS"}, store : {FALSE},
                     headers : Block, end : BOOLEAN,
                     stat : {"INIT", "HEADER", "BODY", "COMPLETE"}]

\* The type of every variable; and the parser is inside a field only while
\* there is a request the field can be added to.
TypeOK ==
    /\ target \in Targets /\ cuts \in 0..MaxCuts
    /\ wrote \in Seq(Fields) /\ trailers \in Seq(Fields)
    /\ parser \in {"start", "field", "tail", "value", "body", "over"}
    /\ rest \in Seq(STRING) /\ curheader \in STRING
    /\ read \in {"idle", "running", "ending"}
    /\ request \in Request \cup {NoRequest}
    /\ offered \in {"none", "HTTP1", "HTTP2Both"}
    /\ down \in {"none", "http1", "http2"} /\ up \in {"http1", "http2"}
    /\ messages \in Seq(ConvertedMessage) /\ plain \in BOOLEAN
    /\ up = "http1" /\ parser \in {"field", "tail", "value", "body"} => request # NoRequest

\* However reads cut the header, every atom of every value is in the request
\* once and in order: htp_hdr_valcb makes a field of each piece, so a value may
\* become several fields but nothing of it is lost, doubled or overtaken.
Values(block) == FlattenSeq([k \in DOMAIN block |-> block[k].value])
ValuesKept ==
    request # NoRequest =>
        Values(request.headers) \o Values(request.trailer) \o rest
            = Values(wrote) \o Values(trailers)

\* What a request whose fields arrived uncut, at most one of them Connection,
\* becomes (appendHttp1Request): the four pseudo-header fields, :path as
\* parseURI leaves it, :authority from the URI or the first Host field (a trailer
\* counts while no header has named the host), then exactly the fields that are
\* meant for the origin, in their order and with their values.  A field is
\* listed when a separator or an end is all that stands, but for spaces, on
\* either side of its name.
Between(value, i, j) == {k \in DOMAIN value : (i < k /\ k < j) \/ (j < k /\ k < i)}
Lists(value, n) ==
    \E i \in DOMAIN value :
        /\ value[i] = n
        /\ \A j \in DOMAIN value \ {i} :
             (\A k \in Between(value, i, j) : value[k] # ",") => value[j] \in {",", " "}
ForOrigin(block, f) ==
    /\ f.name \notin ToSet(ConnectionSpecific)
    /\ \A k \in DOMAIN block : block[k].name = "Connection" => ~Lists(block[k].value, f.name)
ConnectionFields(block) == {k \in DOMAIN block : block[k].name = "Connection"}
HostOf(block) ==
    IF target.host # <<>> THEN target.host ELSE get(block, "Host").value

ConvertedExactly ==
    /\ up = "http2" /\ messages # <<>> /\ cuts = 0 /\ parser # "value"
    /\ Cardinality(ConnectionFields(wrote)) <= 1
    =>
        messages[2].headers =
            Pseudo((IF target.path = <<>> THEN <<"/">> ELSE target.path)
                     \o target.query \o target.fragment,
                   Authority(HostOf(wrote \o trailers), target.port))
              \o SelectSeq(wrote, LAMBDA f : ForOrigin(wrote, f))

\* A request that asks for HTTP/2 is not written to the origin as HTTP/1.1 over
\* TLS, also when it asks for it after the connection has been made without
\* offering h2 (UpSessionHttp::DoFlush).
Asks(block) == has(block, "Upgrade") /\ get(block, "Upgrade").value = <<"h2c">>
UpgradeNeverPlain == plain /\ cuts = 0 => ~Asks(wrote)

\* When the origin chooses h2 there is a request to convert: the session of
\* the application never stays HTTP/1 in front of an origin that speaks HTTP/2.
SwitchFindsRequest == down = "http2" => up = "http2"
=============================================================================
