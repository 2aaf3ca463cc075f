# tlsconverterproxy in TLA+

A verification development for tlsconverterproxy, a forward proxy on libevent,
OpenSSL, nghttp2 and http_parser. It accepts connections of applications in the
clear and connects to origins in the clear (port 12345) or over TLS (port 23456),
and relays HTTP/1, HTTP/2 and tunnels between them. All paths below are under
`src/src/`.

## 1. The system

`main` runs one event loop in one thread. A `ServerAcceptHandler` listens on each
port and makes a `ServerConnection` for every application that connects. A
`ServerConnection` owns the `bufferevent` of the application, an `UpSession`, and
at most one `ClientConnection`, which owns the `bufferevent` of the origin and a
`DownSession`. In these modules the application's side is "up", the origin's
"down". Both connections call each other directly; every callback of libevent is
deferred (`BEV_OPT_DEFER_CALLBACKS`), so exactly one runs at a time and a write
never re-enters a read.

| component | state it keeps | operations |
|---|---|---|
| `ServerAcceptHandler`, `EventHandler`, `main` | the list of connections | `accept`, `removeSocket` |
| `ServerConnection` | `upgrade_`, `tunnel_`, `connected_`, `upstream_`, `client_` | `readcb`, `write`, `init_client`, `switchinghttp2`, `switchTunnel`, `switchingProtocol`, `eventcb` |
| `ClientConnection` | `connected_`, `recvwait_`, `protocol_`, `switchingprotocol_`, `downstream_` | `initiate_connection`, `on_read`, `write`, `on_event`, `switchingProtocol`, `send_goaway` |
| `UpSessionHttp`, `DownSessionHttp` (`SessionHttp1Handler`) | an `http_parser`, one message slot (`request_`, `message_`) | `on_read`, the parser callbacks, `DoFlush`, `send` |
| `UpSessionHttp2`, `DownSessionHttp2` (`SessionHttp2Handler`) | an `nghttp2_session`, `messages_`, `sendsettingframe_`, `upgrading_` | `on_read`, the nghttp2 callbacks, `DoFlush`, `send`, `submit_*`, `appendHttp1Request` |
| `UpSessionPlane`, `DownSessionPlane` | none | `on_read` copies bytes |
| `UpSession`, `DownSession`, `GzipInflater`, `GzipDeflater` | an inflated body | what to store, inflate, URI and authority |
| `HttpHeader`, `MemBuff`, `util` | header blocks, byte buffers | get, update, remove, prepend; add, drain; trim, split |
| `http-parser` (vendored) | `state`, `content_length`, flags; `http_parser_url` | `http_parser_execute`, `http_parser_parse_url` |
| `TlsWrapper`, `dummyProxy`, `app_helper`, `base64` | | set-up, unused or vendored |

How a connection changes its protocol, with input under way on both sides:

* the client preface in the first 24 bytes of a read: the up session becomes
  HTTP/2 (`readcb`);
* the outcome of connecting (`on_event`): ALPN chose h2, so a pending request with
  Upgrade is converted (`switchinghttp2`); or a CONNECT becomes a tunnel
  (`switchTunnel`); or h2 was asked for and refused (`send_goaway`);
* a 101 of the origin: both sessions are replaced (`switchingProtocol`).

What makes it correct, component by component: every byte is taken by a session
of its own protocol; the two sessions of a connection always agree; an HTTP/1
message is relayed whole, once and in order, and the far peer takes it for the same
message; a request goes to the origin and the path it names; an HTTP/2 connection opens with its
preface; each stream is a FIFO in which no frame is lost, repeated or overtaken;
acknowledgements are end to end; a message a pointer refers to is there; whatever
has arrived is eventually relayed. What is hard: the order in which the two peers'
input, the connection's outcome and the reads that cut frames and messages
anywhere come together; pointers and states that outlive a callback; bytes that
libevent does not announce twice.

## 2. The modules

| module | what it is |
|---|---|
| `StreamRelay` | abstract: a FIFO for each direction and channel, from what has been taken to what has been given |
| `Http2Relay` | the HTTP/2 relay of one connection: both sessions, both queues, the SETTINGS gate, flow control, gzip storage, connect and refusal |
| `MCHttp2Relay` | bounds for `Http2Relay` |
| `Http2RelayOrder` | `Http2Relay` implements `StreamRelay`, a channel for each stream and one for control frames |
| `Http2Relay_proofs` | theorems about `Http2Relay`: types, the preface, the message of a frame, the queues, acknowledgements, conservation, intact DATA, the refinement of `StreamRelay` |
| `ProxyConnection` | one connection's whole life: both connection objects, the class of both sessions, HTTP/1 slots, tunnels, protocol changes, teardown |
| `MCProxyConnection` | `ProxyConnection` implements `StreamRelay`, a channel for HTTP/1 and tunnel units and one for HTTP/2 frames |
| `ProxyConnection_proofs` | theorems about `ProxyConnection`: types, the agreement of the sessions |
| `ProxyConnectionOrder_proofs` | theorems about what `ProxyConnection` relays: its order, exchanges between peers that take turns, the refinement of `StreamRelay` |
| `Sieve` | what is left of a sequence when only the elements of a set are kept, as a `FlattenSeq` |
| `SequenceLemmas` | least numbers, sums, and what `FlattenSeq` and `Sieve` do to sequences that grow |
| `GzipBody` | the inflater's loops and buffer for the body of one stored response |
| `RequestConversion` | the header of one request: the parser's callbacks, cuts, and its conversion to HTTP/2 |
| `MCRequestConversion`, `RequestConversion_proofs` | bounds for `RequestConversion`; theorems about it |
| `Http1Wire` | HTTP/1 messages on the wire: `http_parser`'s framing, the slots, what `send()` writes, output buffers, both peers |
| `MCHttp1Wire`, `Http1Wire_proofs` | the messages the peers of `Http1Wire` send; theorems about it |
| `RequestTarget` | from a request target and the Host field to scheme, host, port and path, a character at a time |
| `MCRequestTarget`, `RequestTarget_proofs` | bounds for `RequestTarget`; a theorem about it |
| `MCGzipBody`, `GzipBody_proofs` | bounds for `GzipBody`; theorems about it |

The first two detailed modules divide the system: `ProxyConnection` decides which
session reads what and treats an HTTP/2 session as a queue; `Http2Relay` starts
where the two HTTP/2 sessions exist, in each of the three ways they can come about
(`mode`), and models what is inside. `Http1Wire`, `RequestTarget`, `RequestConversion`
and `GzipBody` each open one thing the first two treat as opaque: a message, its
target, its header, its body. Definitions whose comment begins "a slip" are
faulty variants of the definition after them and are used by no action.

### Http2Relay and the code

`sent[s]` is what the peer of side s has sent, `parsed[s]` how far session s has
come (two units to a frame: its header and the rest), `messages[s]` is `messages_`,
`settings[s]` is `sendsettingframe_`, `out[s]` what has been written to the peer.
`handler` says whose callback runs, `todo` how much of its input is left, `cursor`
is the iterator of `DoFlush`. Because the loop has one thread, peers act only in
between callbacks; their steps commute with the steps inside one.

| action | code |
|---|---|
| `ReadCb`, `ReadIgnored` | `ServerConnection::readcb`, `ClientConnection::on_read` with its early returns |
| `on_begin_frame_callback`, `on_frame_recv_callback` | the nghttp2 callbacks of the handler and of both sessions (`getMessage`, `IsStoreMessage`, `procstat`) |
| `ReadDone` | the end of `on_read`: `init_client`, `DoFlush` and its early returns |
| `Connect`, `Refuse` | `ClientConnection::on_event`, `send_goaway` |
| `FlushSkip`, `FlushSubmit`, `FlushResume`, `FlushDone` | one turn of `DoFlush`: a held message, a submitted one; its final `session_send` |

nghttp2 itself is external and modelled by what the code relies on: callbacks in
pairs, one DATA item per stream, the flow-control windows, the client preface before
its first output. What it would send by itself: `before_frame_send_callback` cancels its
SETTINGS while an upgrade is made and its SETTINGS ACKs, and the option
`no_auto_ping_ack`, which `create_server` and `create_client` set, its PING answers, so
the only ones are those relayed. Its WINDOW_UPDATE is neither switched off nor
cancelled: when half of the window it gives a peer has been used (`Half`), it queues one
(`Updates`), and the next `session_send` writes it, whatever the gate of `DoFlush` says.
A stream's own WINDOW_UPDATE is not told from the connection's.

### ProxyConnection and the code

`up`, `down` are the classes of `upstream_` and `downstream_`; `slot[s]` is
`request_` or `message_` (`NoMessage` is a null pointer); `client`, `protocol`,
`recvwait`, `switching`, `upgrade`, `tunnel` are the members of those names. A peer
writes units: the start line of a message, the rest of it, 100, 101, the preface
(whole or in two pieces), SETTINGS, any other frame, raw bytes. `manners` says what the
peers of this connection permit themselves: nothing (`Orderly`), or any of requests
before the answer, 100 Continue, a preface or a CONNECT in two pieces, tunnel bytes
before the answer to CONNECT. A callback takes
the units it was given one action at a time (`ParseBegin`, `ParseRest`,
`ParseShort`, `ParseError`, `TakePreface`, `TakeFrame`, `CopyBytes`) and ends with one that
makes the rest of the callback (`UpHttpDone`, `DownHttpDone`, ...). The outcomes of
connecting are `ConnectedH2`, `Refused`, `Connected` and `Failed`. `readcb` compares
24 bytes whatever has arrived; after a fragment the result depends on what the
buffer held, so both results are allowed.

Three functions (`ClientConnection::on_read`, `on_write`,
`SessionHttp2Handler::submit_headers`) end without the `return` their type asks
for. Both build descriptions compile without optimisation, where the value found
is 0 and the caller goes on; the modules model that build.

### GzipBody and the code

`Http2Relay` says when a stored response is complete and relayed; `GzipBody` says
what its body then is. Bytes are counted. `payload` is the size of the message's
payload, `told` the variable `payloadsize` of the running loop, `availIn` zlib's
`avail_in`, `Len(buff)` the capacity of `buff_`, `size` its size, `used` `usedsize_`.
`DataFrame` is the pair of nghttp2 callbacks of a DATA frame; `Call` and `Return` are
the two halves of `GzipInflater::inflate` around zlib, which is external: it takes a
byte once it has written what the last one stood for (`ZlibTakes`, `ZlibWrites`), and
reads on behind the payload if it was told more than there is (`ZlibReadsBehind`,
after which nothing can be said: `pc` is "undefined"). `InflateReturns` and
`InflateEndReturns` end the loops of `DownSession`. `Grown` is `vector::resize` with
libstdc++'s growth: to twice the size, or to what is asked for.

### RequestConversion and the code

`ProxyConnection` treats a request as a start line and a rest, and its conversion as
one step; `RequestConversion` looks inside, over TLS, where a request is converted. The
application writes fields (`wrote`, `trailers`); `target` is the URI and `parseURI` what
becomes of it (query and fragment are joined to the path without their mark, as in the
code), `request` is `request_` with its header blocks, `curheader` the name in
`curheader_`, `rest` what of the value has not been parsed. A value is a sequence of atoms, so that it can be cut, split and trimmed.
http_parser is external: at the end of a read it hands over what it has of a
name or a value, and the next read calls again with what is left (`Cut`, then the
other half of `htp_hdr_keycb` or `htp_hdr_valcb`). `ReadDone` is the rest of `on_read`:
`init_client`, with the protocol of that moment (`Offer`), and `DoFlush`. `ConnectedH2`
and `Connected` are the outcomes of `on_event`. `removeHopByHop` and `Pseudo` are
the middle of `appendHttp1Request`; `messages` is what it leaves for `Http2Relay`, whose
mode "tlsupgrade" begins with a request that was complete and had HTTP2-Settings.

### Http1Wire and the code

The unit on the wire is a start line, the rest of a header, a byte of a body, a chunk's
size, a trailer field or a line end. `parser[s]` is the `http_parser` of session s:
`Execute` is one unit through `http_parser_execute`, with `HeadersDone` for
`s_headers_done` (which framing the header asks for), `Identity` and `ChunkData` for
the two ways a body is counted, and `NewMessage` for `NEW_MESSAGE()` of the strict build.
`slot[s]` is `request_` or `message_`, with `stat` for `procstat`; `Begun` and `Noted` are
the eight callbacks, the same on both sides. `ReadCb`, `Parse` and `ReadDone` are the
beginning, the units and the end of a read callback; `Rendered` is `send()`, `Flush` is
`DoFlush`. `out[s]` is what was given to `bufferevent_write`, `delivered[s]` how much of
it the peer has taken, one unit after another: teardown (`OriginCloses`) ends that.
`WireAssumption` says of the messages only that a request whose header announces no body has
none, as the protocol demands of it.

The peers hear what they take with the same automaton (`Hear`; `heard[s]` is what the peer
of side s has made of it so far), with one
difference: an application knows which responses have no body, the proxy's parser does
not, because `htp_hdrs_completecb` never answers 1 to a response to HEAD.

### RequestTarget and the code

`parse_url_char` and `http_parse_host_char` are the automata of those names, over one
character of each class. `ReadChar`, `TargetEnds` and `ReadEnds` are
`http_parser_execute` on the target: `htp_uricb` is called at its end, and at the end of
every read in between. `UrlStep` and `HostStep` are one turn of the loops of
`http_parser_parse_url` and `http_parse_host`, `UrlDone` and `HostDone` what follows them;
`u` is the `http_parser_url`. `parseURI` is what `UpSession::parseURI` takes from it,
`ParsedAuthority` is `parseAuthority`, `HostHeader` the Host field or `:authority`, `Port`
what `init_client` connects to. A refusal makes `parseURI` call `errx`: `pc` is "exited".
`Wrap` is one more than `off` and `len` can hold, 65536 in the code.

## 3. The runs

| run | shows | bounds |
|---|---|---|
| `relay_safety` | `TypeOK`, `PrefaceFirst`, `FrameHasMessage`, `AckEndToEnd`, `NothingDue` | one stream, three frames up and one down, one SETTINGS each, a window of one DATA frame, all modes |
| `relay_order` | `Conservation`, `FrameHasMessage`, `ImplementsStreamRelay`, `NoStall` | windows of two DATA frames: no peer sends enough to exhaust the other's, and the proxy returns its own one by one; one stream, one frame up and two down, all modes, gzip |
| `connection_safety` | `TypeOK`, `RightSession`, `SessionsAgree`, `WholeMessages`, `NoNullMessage`, `InOrder`, `ImplementsStreamRelay`, `NoStall` | all plans, with and without TLS, orderly peers and peers with all four liberties, two requests, two frames or raw units each way |
| `wire` | `TypeOK`, `SlotFollowsParser`, `ContentKept`, `MessagesSurvive`, `Arrives` | cuts between units (start line, rest of the header, chunk size, byte, trailer field, line end), not inside one: cuts inside a target or a field are left to `target` and `conversion_header`, one inside a status line is not modelled; two exchanges; seven requests and seven responses that cover each framing, trailers, HEAD, 204, 304 and `Connection: close`; chunks of one or two bytes |
| `target` | `TypeOK`, `FieldsWithin`, `Accepted`, `OriginNamed`, `PathKept` | 432 choices of parts (three hosts, ports, queries; userinfo, four paths, fragments) in four forms, with and without TLS; one cut; `Wrap` = 24, which the longest targets exceed |
| `conversion_header` | `TypeOK`, `ValuesKept`, `ConvertedExactly`, `UpgradeNeverPlain`, `SwitchFindsRequest` | four header fields of six, one trailer field of two, one cut, two URIs: one with a host and a port, one with a path |
| `gzip_steps` | `TypeOK`, `WithinPayload`, `GrowthKeepsBody`, `BodyEnds` | a step of two units, eight compressed bytes in frames of up to three, nine units of output, bytes behind the end |

Why the bounds are enough to be interesting: a stream of three frames has a first,
a middle and a last one and may have trailers; reads cut frames at every point; a
window of one is exhausted by the second DATA frame; two requests are the least that
share a slot, and a second exchange begins behind whatever the first left in the
parsers and slots; a chunk of two bytes can be cut and one of one cannot; nine units are more
than four steps, so the buffer grows in all three ways and the calls run full; four
fields are an upgrade, its settings, a Connection field and one it lists, in any
order. `CHECK_DEADLOCK FALSE` everywhere: peers may fall silent, connections
close, and the bounds end.

Five runs find a disagreement between a comment and the code:

* `connection_preface`: "a connection that has not switched to HTTP/2 is switched
  when the client preface is received" (`ServerConnection.cpp:177`): not when it
  arrives in two reads.
* `connection_pipelining`: "frames whose message is not complete are not sent"
  (`UpSessionHttp.cpp:331`): the one slot is reused with `procstat` still COMPLETE by a
  pipelined request. On the other side (`DownSessionHttp.cpp:53`) the final response
  behind a 100 Continue does the same.
* `relay_window`: flow control "is performed inside nghttp2 when it is needed"
  (`SessionHttp2Handler.cpp:708`): the payload nghttp2 would read later belongs to a
  message that `DoFlush` has erased.
* `target_cut`: `on_url` "will be called arbitrarily many times for each string"
  (`http-parser/http_parser.h:84`): `htp_uricb` takes each piece for a whole target, and one
  that is no URI makes `parseURI` end the process (`UpSession.cpp:48`).
* `gzip_replaced`: inflateEnd "replaces the payload by the decompressed data"
  (`DownSession.cpp:123`): zlib writes up to the vector's capacity, and a `resize` within
  it sets what was written beyond the size to zero. It takes a body of more than three
  steps (48 KiB). The bounds in `WithinPayload` and `BodyEnds` mark two more limits: a
  body of more than one step may be read behind its payload, because `payloadsize` keeps
  what the last call consumed; and beyond three steps the buffer may be full when the
  loop turns, which then never ends.

`Conservation`, `ImplementsStreamRelay` and `NoStall` of `Http2Relay` are therefore checked
with a window that is never exhausted; `RightSession`, `WholeMessages`, `NoNullMessage`,
`ImplementsStreamRelay` and `NoStall` of `ProxyConnection` speak of orderly peers. `SessionsAgree`
and `InOrder` hold for all peers: what still holds when messages are merged or stuck.
`NothingDue` is what `~DownSessionHttp2` relies on: it calls `DoFlush` when `write` already
answers 0, and `nghttp2_session_send` would then try for ever.

What no line of the repository promises and the properties leave out, because it does not
hold: the chunks of a chunked body are not written again under the header that announces
them (`MessagesSurvive` is about the others); a response that ends with the connection,
and the answer to HEAD that has a Content-Length, never complete (`Ends`); what the origin
wrote right before it closed may be freed unwritten (`Arrives`); query and fragment are
joined to the path without their mark (`PathKept`); `parseAuthority` cuts an address in
brackets, and the port in a Host field becomes part of the host (`OriginNamed`); a target
that a read cuts may be refused, or `off` and `len` too short for it (`Whole`).
The comment "until the first SETTINGS frame is sent no other frame is sent"
(`UpSessionHttp2.cpp:108`) is true of the messages the loop goes through, and
`PrefaceFirst` claims no more for the application: when half a window of DATA was
uploaded before the origin was there, the `session_send` behind the loop (`:137`), which
`ClientConnection.cpp:343` runs as soon as it is, sends the application nghttp2's
WINDOW_UPDATE first. The model has these steps.
`ConvertedExactly` assumes that no read cuts a field and that
there is one Connection field: only the first is read, although the comment says that all
that Connection names is removed (`UpSessionHttp2.cpp:424`), and each part of a cut
value is a field of its own. The model also has, and no property excludes: a request
without HTTP2-Settings is destroyed and answered 101; one that is still arriving is
queued incomplete, and its rest meets the HTTP/2 session; a body leaves the stream
without an end; an upgrade asked for in a later read than the host finds h2 not
offered and is never sent.

### Fairness

`RequestConversion` and `RequestTarget` state safety only. `GzipBody`: a callback runs on (weak fairness
of its steps; whether another frame comes is left open). `FairSpec` of the other
modules: weak fairness of each side's callbacks (libevent runs what is due, one
thread, so nothing can starve a callback that stays enabled), of the outcome of a
connection attempt (the kernel answers or times out), and of what a peer owes by
its protocol: `Http2Relay` assumes that a peer sends its first SETTINGS, acknowledges
ours and returns the window; `Http1Wire` that the peers take what is written to them; `ProxyConnection` that an application that was promised
HTTP/2 opens it. Nothing is assumed of requests and responses. `NoStall`
leaves out what the code does not promise: what arrives while `recvwait_` is set,
what follows a 101 in one read, an upgrade over TLS whose origin speaks HTTP/1.1
(never sent: `UpSessionHttp.cpp:314`).

## 4. The proofs

`Http2Relay_proofs` proves, for every set of streams, every bound, window and mode,
from `ConstantsAssumption` alone:

* `TypeCorrect`: `Spec => []TypeOK`. `TypeOK` is not inductive: that a decoded unit belongs
  to a frame that was sent needs `parsed` and `todo` to stay within the input
  (`ReadsWhatIsThere`), and that a stored message splits into HEADERS and a body needs it
  to hold a frame (`StoredHasHeader`). `TypeInv` adds both.
* `PrefaceCorrect`: `Spec => []PrefaceFirst`. `PrefaceInv` ties `settings[s]` to what has
  been written: before the first SETTINGS frame is submitted the origin has been sent
  nothing and the application at most WINDOW_UPDATEs (`OnlyUpdates`), after it
  whatever else the application was sent has a SETTINGS frame in front (`Opens`), and a preface that is pending
  means nothing has been written down. The interesting case is the ACK written past
  nghttp2, which only the gate of `DoFlush` keeps from coming first. What nghttp2 adds
  by itself, the preface and WINDOW_UPDATE (`Unasked`), names no frame of a peer;
  `UnaskedStreamed`, `CarriedUnasked` and `FlushDoneOut` are how the later proofs pass over it.
* `FrameHasMessageCorrect`: `Spec => []FrameHasMessage`. `FrameInv` says that while a
  frame is half decoded an unfinished message of its stream and type is in the
  queue, and that finished ones never match; each action of the flush loop is shown
  to keep it because it removes only finished messages.

`NothingDueCorrect`, in the same module: `Spec => []NothingDue`. The hard case
is what passing on a SETTINGS frame does to messages the loop has already gone past: it
ends their wait, and `DoFlush` does not go back to them. `QueueInv` says why there are
none. A peer's first frame is SETTINGS (`Greets`), so before session s has relayed one the
first message of its queue is the opener (`Gate`, `Opener`): the loop cannot go past it once it
is complete, and while it is not no other SETTINGS frame is in the queue. So all that lies
behind the cursor is held (`Passed`), by being unfinished alone once SETTINGS is out, and
all of the queue is when the callback ends (`Settled`). In mode `tlsupgrade` the proxy puts
the empty place for SETTINGS first, before the request; on the down session
`send_goaway` makes the opener, and `OriginSilent` says that the queue was empty then.

The rest of that module proves where frames are.

* `AckEndToEndCorrect`: `Spec => []AckEndToEnd`. `FramesInv` describes a direction, from what
  has been decoded to what has been written: each message and each written frame names the
  decoded frames it was made of, has the type of the last of them, and no frame is named
  twice (`Once`). So a written ACK names an ACK frame of the far peer, and different ones name
  different frames; that peer sends an ACK only for a SETTINGS frame it has been written.
* `ConservationCorrect`: `Wide /\ Spec => []Conservation`. `WideInv` adds the other half, that each
  decoded frame is somewhere. `Wide` says that the initial window takes all the frames a peer
  may send: what a narrower one makes nghttp2 hold back is in neither place the property
  counts, and its message is deleted meanwhile (`window` in section 3). The proof that nothing
  waits is a count: every DATA frame written is paid for by a frame of its own that the
  peer sent (`Paid`, `WindowOpen`).
* `WideDataIntact`: `Wide /\ Spec => []HeldDataIntact`, from the same invariant.
* `RelayInOrder`: `Wide /\ Spec => ImplementsStreamRelay`, the refinement of the FIFOs. Frames
  change places with frames of other streams: `DoFlush` passes over messages that are held and
  takes later ones. `StreamInv` says that those of one stream do not. `Account`: what has been
  decoded of a stream is, in order, what has been written of it and what its messages hold,
  read along the queue. A frame that is decoded joins the last message of its stream, because
  an unfinished message is always that (`Receiving`, `LastOfStream`); so joining one and
  opening a new one both append to the account. A submission takes a message out of the
  middle, and appends to what is written only if none of its stream stands before it: what
  the loop has passed is unfinished, hence the last of its own stream, or SETTINGS is not out
  yet, and then the loop passes nothing complete (`Passed`, of the proof of `NothingDue`).
  An unfinished message is `Awaited` for one of three reasons: its frame is half decoded, it is
  a gzip response that is stored (then only DATA follows on its stream, `BodyOnly`), or it is
  the place that an upgrade over TLS keeps for SETTINGS. The third needs that only control
  frames are on stream 0 (`Streamed`). `StepMoves` makes a step of the promise of what
  happened to the account.

`ProxyConnection_proofs` proves for every plan, every manner of the peers and every bound:

* `TypeCorrect`: `Spec => []TypeOK`, with the facts that a session takes no unit which has
  not been written and that only a request with Upgrade is answered 101.
* `SessionsAgreeCorrect`: `Spec => []SessionsAgree`. `SessionsOf`, in `AgreeInv`, says what the
  classes of the two sessions may be in each plan, before, during and after the attempt to
  connect: while it is under way the request that asked for it, the CONNECT or the one with
  Upgrade, is still in the slot of the application. The rest is what this needs: nothing that
  waits or was written was made up (`Positions`), a 101 in the slot of the origin has set
  `switchingprotocol_` (`SlotKinds`), and only an application that was told so, or one that
  opens with it, writes a preface (`AppKinds`).

`ProxyConnectionOrder_proofs` proves `InOrderCorrect`: `Spec => []InOrder`, also for peers that
pipeline and interrupt. `OrderInv`: what has been carried from a side is ascending and
lies below what its slot holds, which is ascending and lies below what is read next.
`Carried` is a `FlattenSeq`; `SequenceLemmas` derives from its recursive function, by
the least counterexample, what it is for a sequence that one element is appended to.

The same module proves `RightSessionCorrect`, `WholeMessagesCorrect` and `NoNullMessageCorrect`,
which speak of peers that take turns (`Orderly`). Turn-taking is a fact about the
peers only, and the session has one slot for a message and no queue: that a second message
never meets the first has to come from how far each has got. `TurnInv`, which adds this to
`AgreeInv` and `OrderInv`, counts (`Counts`): a request is begun only when the responses to
all earlier ones have been told, a response only when a relayed request has no answer. So
on each side there is nothing under way (`Quiet`), half a message (`Half`), a whole one
(`Ended`), or a 101 with what the origin wrote after it (`Leaving`), and the counts say which
of them can meet (`UpTurn`, `DownTurn`): while a request waits the origin is silent, and a 101
is relayed only when the application has nothing unread. That is what the change
of sessions needs, which empties both slots (`Over`) and leaves what is unread to a session
of the new protocol (`Unread`). `UpKinds`, `DownKinds` and `Opening` say what such peers write in
each plan; in the plan that opens with a preface the HTTP/1 session is replaced before
it reads anything. `Reading` is why `DoFlush` finds a message: its callback runs only
if something could be read, and for HTTP/1 that becomes a message.

Its last theorem is `RelayCorrect`: `Spec => ImplementsStreamRelay`, the refinement of the
FIFOs. `Line(s)` puts one after the other what has been written of side s, what its slot
holds and what its queue holds; `Account` says that of each channel the line holds what has been
taken, in order. A step may read one more unit and may pass something on, and all it does to the
accounts is what it does to the line (`Moved`, `MovedPasses`): most steps leave the line as
it is or append what was read. Two do not. A SETTINGS frame is put before all
that waits in the queue; `SettingsFirst` says that no frame was sent before it, and the request
an upgrade left there is of the other channel. A CONNECT and the preface are read and go
no further, and were not owed: the one is `Kept`, the other is on no channel.
`Waiting` says that a session of another class left neither slot nor queue behind, so
the change of sessions drops nothing else. `NextForwards` has a lemma for each action; that
the FIFO takes such a step is `StepPromise`.

`GzipBody_proofs` proves for every step, expansion and cut into frames `TypeCorrect`,
`WithinPayloadCorrect` and `GrowthKeepsBodyCorrect`, from one invariant, `IInv`. `Told`:
while at most a step has been decoded a call that is about to run is told the size of
the payload, because a call stops early only when the buffer is full. `BufferGrows`:
up to three steps the vector has one of three shapes and what zlib wrote lies within its
size when it moves. `StreamEnds`: the checksum at the end stands for nothing, so when the
stream is over nothing is pending.

`RequestConversion_proofs` proves for every set of fields and every cut:

* `SwitchFindsRequestCorrect`: when the origin chooses h2 the session of the application
  becomes HTTP/2 too. `OfferOpen`: while an offer of h2 has no outcome, the request it was made
  for is in the slot and asks for the upgrade, because nothing takes `upgrade_http2` back and
  `DoFlush` withholds such a request; `Parsing` and `Shaped` say that each callback finds a
  request to add to.
* `ValuesKeptCorrect`: `Spec => []ValuesKept`. `KeepInv` carries a balance through each
  callback: what the blocks hold, the value being parsed and what is yet to come are
  together what the application wrote (`Balance`, `Moves`); a callback that begins a field
  moves nothing, one that gives a piece of a value moves that piece.
* `UpgradeNeverPlainCorrect`: `Spec => []UpgradeNeverPlain`. `Knows`, in `AskInv`: while no field
  was cut, the request has `upgrade_http2` set whenever a field it was given asks for HTTP/2,
  unless that is the one whose value is yet to be parsed; so `DoFlush`, which looks at the flag
  only, withholds it over TLS.

`RequestTarget_proofs` proves `FieldsWithinCorrect` for targets of any length, cuts anywhere
and every `Wrap`, which is where a run is weakest: `parseURI` assigns from `&uri[off]` as
many characters as `len` says, and nothing checks them. In the first loop every field ends
where the loop stands or before (`at`), since only the field at hand grows. The second
loop sets HOST's length to 0 and counts again while it runs to HOST's old end: HOST ends
at `at` or before there too, and its offset moves only when it is still empty or the
address begins; PORT and USERINFO begin at `at`. Reduction by `Wrap` only makes a number
smaller (`Remainder`), so a wrapped field is short, never outside.

`Http1Wire_proofs` proves for all messages, any number of exchanges and every cut of reads
and writes:

* `TypeCorrect`: `Spec => []TypeOK`. That `content_length` stays a natural number needs that it is
  above 0 while a body is counted (`Live`), and the units of a side need that they belong to
  messages already said (`SideTyped`); `TypeInv` adds both.
* `SlotFollowsParserCorrect` and `ContentKeptCorrect`, from `WireInv`. The parser reads
  whatever stands on the wire, so what it will do next depends on all that has been written:
  `Rest` says for each of its states what may follow in `sent` from `parsed` on, a size
  before that many bytes, a line end behind them, the trailer last (`Sized`, `DataAt`,
  `TrailerAt`). `Shape` says for each state what the slot holds. `Turns` counts: every message
  said is written, in the slot or about to be parsed, so no second one can come while the slot
  is taken, and a read of the origin's session always finds one (`Reading`). `Balance` is
  what `ContentKept` needs to be inductive: what has been written and what the slot holds is
  together what has been parsed.
* `MessagesSurviveCorrect`: `Spec => []MessagesSurvive`. The far peer's parser reads bytes it
  knows nothing of, with one line end more behind every body than the header announces.
  `Laid` says where each unchunked message stands in `out`, its body, the line end, and the
  next message or the end behind it (`EndAt`); `Hears` says where the far parser is in that
  message, and that what it has of it agrees. The cases are what the parser may stand before:
  in the middle of a body as long as its length says (`Comes`), or behind a message, before
  or after the superfluous line end (`Behind`). A chunked message makes the far parser
  lose its place, which is why all of it holds for the messages before the first such (`Clean`).

Only model-checked:

* liveness (`NoStall`, `Arrives`, ...);
* `ConvertedExactly` and `TypeOK` of `RequestConversion`: they use
  `SelectSeq`, about which the provers know nothing, and none of them knows that a string
  literal is in `STRING`;
* `Accepted`, `OriginNamed` and `PathKept` of `RequestTarget`: what the automaton does to a whole
  target is induction over its characters; `TypeOK` there needs the value of a folded sum.

## 5. Not modelled

RST_STREAM, PUSH_PROMISE and the closing of streams (nghttp2's stream table decides what
they do); trailers of gzip responses and gzip interim responses; names and values of the
header fields of responses; requests on one connection that name different origins (the
code looks at the first only); bodies that are not gzip; the look-up of a host and the TLS
handshake but for its outcome. `GzipDeflater` is never reached, `dummyProxy` is empty,
`app_helper` prints, `base64` is a pure function of HTTP2-Settings.

## 6. Plan

1. Proofs: `ConvertedExactly`, which needs `SelectSeq` replaced by an operator that lemmas exist
   for (`Sieve`).
2. `Http2Relay`: stream closure, RST_STREAM and PUSH_PROMISE; gzip trailers.
3. `RequestConversion`: requests that share the slot, the conversion beside the
   application's own HTTP/2 input, and its result as the beginning of `Http2Relay`.
