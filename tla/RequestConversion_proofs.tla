---------------------- MODULE RequestConversion_proofs ----------------------
(***************************************************************************)
(* Proofs about RequestConversion, for every set of fields, every cut and  *)
(* every bound.                                                            *)
(***************************************************************************)
EXTENDS RequestConversion, SequenceLemmas

(***************************************************************************)
(* Whenever the origin chooses h2 there is a request to convert.           *)
(***************************************************************************)

Stat == {"HEADER", "BODY", "COMPLETE"}

\* A request in the slot has a state and knows whether it asks for an upgrade;
\* what the blocks hold does not matter here.
Shaped ==
    request # NoRequest =>
        /\ {"stat", "upgrade_http2"} \subseteq DOMAIN request
        /\ request.stat \in Stat
        /\ request.upgrade_http2 \in BOOLEAN

\* A read runs only while the session is HTTP/1, and the parser is inside a
\* message only while the slot holds it.
Parsing ==
    /\ read # "idle" => up = "http1"
    /\ up = "http1" /\ parser \in {"field", "tail", "value", "body"} =>
           request # NoRequest /\ request.stat # "COMPLETE"

\* While an offer of h2 is open the request it was made for is in the slot, and
\* still asks: upgrade_http2 is never taken back, and DoFlush withholds it.
OfferOpen ==
    offered = "HTTP2Both" /\ down = "none" => request # NoRequest /\ request.upgrade_http2

\* The parser has begun before there is a request or a connection.
Begun == request # NoRequest \/ offered # "none" => parser # "start"

\* Nothing is converted before there is an outcome.
NotYet == up = "http2" => down = "http2"

IInv == Shaped /\ Parsing /\ OfferOpen /\ Begun /\ NotYet /\ SwitchFindsRequest
USE DEF Stat

LEMMA StartsInv == Init => IInv
<1> SUFFICES ASSUME Init PROVE IInv
  OBVIOUS
<1>1. Shaped
  BY DEF Init, Shaped
<1>2. Parsing /\ OfferOpen /\ Begun /\ NotYet /\ SwitchFindsRequest
  BY DEF Init, Parsing, OfferOpen, Begun, NotYet, SwitchFindsRequest
<1> QED
  BY <1>1, <1>2 DEF IInv

\* A callback of the parser that leaves the connection alone, and fills the slot
\* or adds to what is in it, keeps the invariant.
LEMMA CallbackKeepsInv ==
  ASSUME IInv, read = "running", UNCHANGED connectionVars,
         parser' # "start", read' # "idle",
         request' # NoRequest, Shaped',
         request'.stat # "COMPLETE" \/ parser' = "over",
         request # NoRequest => (request.upgrade_http2 => request'.upgrade_http2)
  PROVE  IInv'
<1>1. up = "http1" /\ up' = "http1" /\ down' = down /\ offered' = offered
  BY DEF IInv, Parsing, connectionVars
<1>2. Parsing'
  BY <1>1 DEF Parsing
<1>3. OfferOpen'
  BY <1>1 DEF IInv, OfferOpen
<1>4. Begun' /\ NotYet' /\ SwitchFindsRequest'
  BY <1>1 DEF IInv, Begun, NotYet, SwitchFindsRequest
<1> QED
  BY <1>2, <1>3, <1>4 DEF IInv

\* htp_hdr_valcb leaves the state alone and may only set upgrade_http2.
LEMMA GivenShape ==
  ASSUME NEW piece, Shaped, request # NoRequest
  PROVE  /\ DOMAIN Given(piece) = DOMAIN request
         /\ Given(piece).stat = request.stat
         /\ Given(piece).upgrade_http2 \in BOOLEAN
         /\ request.upgrade_http2 => Given(piece).upgrade_http2
  BY DEF Shaped, Given

LEMMA NextKeepsInv == IInv /\ [Next]_vars => IInv'
<1> SUFFICES ASSUME IInv, [Next]_vars PROVE IInv'
  OBVIOUS
<1>1. CASE ReadCb
  <2>1. UNCHANGED <<parser, request, offered, down, up>> /\ up = "http1"
    BY <1>1 DEF ReadCb, inputVars, parserVars, connectionVars
  <2> QED
    BY <2>1 DEF IInv, Shaped, Parsing, OfferOpen, Begun, NotYet, SwitchFindsRequest
<1>2. CASE htp_uricb
  <2>1. request' = NewRequest(parseURI(target))
    BY <1>2 DEF htp_uricb
  <2>2. Shaped' /\ request'.stat = "HEADER" /\ request' # NoRequest
    BY <2>1 DEF Shaped, NewRequest, NoRequest
  <2>3. up = "http1" /\ up' = "http1" /\ offered = "none" /\ offered' = "none" /\ down' = down
    BY <1>2 DEF htp_uricb, connectionVars, IInv, Begun, Parsing
  <2> QED
    BY <1>2, <2>2, <2>3
    DEF IInv, htp_uricb, Parsing, OfferOpen, Begun, NotYet, SwitchFindsRequest
<1>3. CASE htp_hdr_keycb
  <2>1. request' = request /\ UNCHANGED connectionVars /\ read = "running"
    BY <1>3 DEF htp_hdr_keycb
  <2>2. parser' \in {"value", "tail"} /\ read' # "idle" /\ parser \in {"field", "tail", "body"}
    BY <1>3 DEF htp_hdr_keycb, Whole, Cut
  <2>3. up = "http1" /\ request # NoRequest /\ request.stat # "COMPLETE"
    BY <2>1, <2>2 DEF IInv, Parsing
  <2>4. Shaped'
    BY <2>1 DEF IInv, Shaped
  <2> QED
    BY <2>1, <2>2, <2>3, <2>4, CallbackKeepsInv
<1>4. CASE htp_hdr_valcb
  <2>1. UNCHANGED connectionVars /\ read = "running" /\ parser = "value"
    BY <1>4 DEF htp_hdr_valcb
  <2>2. request # NoRequest /\ request.stat # "COMPLETE" /\ Shaped
    BY <2>1 DEF IInv, Parsing
  <2>3. parser' # "start" /\ read' # "idle" /\ \E piece : request' = Given(piece)
    BY <1>4, <2>1 DEF htp_hdr_valcb, Whole, Cut
  <2>4. PICK piece : request' = Given(piece)
    BY <2>3
  <2>5. request.stat \in Stat
    BY <2>2 DEF Shaped
  <2>6. Shaped' /\ request'.stat = request.stat
        /\ (request.upgrade_http2 => request'.upgrade_http2)
    BY <2>2, <2>4, <2>5, GivenShape DEF Shaped
  <2>7. request' # NoRequest
    BY <2>5, <2>6 DEF NoRequest
  <2> QED
    BY <2>1, <2>2, <2>3, <2>6, <2>7, CallbackKeepsInv
<1>5. CASE htp_hdrs_completecb \/ htp_bodycb \/ htp_msg_completecb
  <2>1. UNCHANGED connectionVars /\ read = "running" /\ read' = "running" /\ parser' # "start"
        /\ parser \in {"field", "body"}
    BY <1>5 DEF htp_hdrs_completecb, htp_bodycb, htp_msg_completecb, parserVars
  <2>2. request # NoRequest /\ request.stat # "COMPLETE" /\ Shaped
    BY <2>1 DEF IInv, Parsing
  <2>3. CASE htp_hdrs_completecb
    <3>1. Shaped' /\ request'.stat = "BODY" /\ request'.upgrade_http2 = request.upgrade_http2
      BY <2>2, <2>3 DEF htp_hdrs_completecb, Shaped
    <3> QED
      BY <2>1, <2>2, <3>1, CallbackKeepsInv DEF NoRequest
  <2>4. CASE htp_bodycb
    <3>1. Shaped' /\ request'.stat = request.stat
          /\ request'.upgrade_http2 = request.upgrade_http2
      BY <2>2, <2>4 DEF htp_bodycb, Shaped
    <3>2. request' # NoRequest
      BY <2>2, <3>1 DEF Shaped, NoRequest
    <3> QED
      BY <2>1, <2>2, <3>1, <3>2, CallbackKeepsInv
  <2>5. CASE htp_msg_completecb
    <3>1. Shaped' /\ request'.stat = "COMPLETE" /\ parser' = "over"
          /\ request'.upgrade_http2 = request.upgrade_http2
      BY <2>2, <2>5 DEF htp_msg_completecb, Shaped
    <3> QED
      BY <2>1, <2>2, <3>1, CallbackKeepsInv DEF NoRequest
  <2> QED
    BY <1>5, <2>3, <2>4, <2>5
<1>6. CASE ReadDone
  <2>1. up = "http1" /\ up' = "http1" /\ down' = down /\ parser' = parser /\ read' = "idle"
    BY <1>6 DEF ReadDone, IInv, Parsing, parserVars
  <2>2. CASE Flushes(down # "none")
    <3>1. request' = NoRequest /\ request.stat = "COMPLETE" /\ down # "none"
      BY <1>6, <2>2 DEF ReadDone, DoFlush, Flushes
    <3>2. parser \notin {"field", "tail", "value", "body"}
      BY <2>1, <3>1 DEF IInv, Parsing
    <3>3. parser # "start"
      BY <3>1 DEF IInv, Begun, NoRequest
    <3> QED
      BY <2>1, <3>1, <3>2, <3>3
      DEF IInv, Shaped, Parsing, OfferOpen, Begun, NotYet, SwitchFindsRequest
  <2>3. CASE ~Flushes(down # "none")
    <3>1. request' = request
      BY <1>6, <2>3 DEF ReadDone, DoFlush
    <3>2. offered' = offered \/ (request # NoRequest /\ offered' = Offer)
      BY <1>6 DEF ReadDone
    <3>3. OfferOpen'
      BY <2>1, <3>1, <3>2 DEF IInv, OfferOpen, Offer
    <3> QED
      BY <2>1, <3>1, <3>2, <3>3
      DEF IInv, Shaped, Parsing, Begun, NotYet, SwitchFindsRequest, Offer
  <2> QED
    BY <2>2, <2>3
<1>7. CASE ConnectedH2
  <2>1. request # NoRequest /\ request.upgrade_http2
    BY <1>7 DEF ConnectedH2, IInv, OfferOpen
  <2>2. up' = "http2" /\ request' = NoRequest /\ down' = "http2" /\ read' = "idle"
        /\ offered' = offered /\ parser' = parser
    BY <1>7, <2>1 DEF ConnectedH2, switchinghttp2, parserVars
  <2> QED
    BY <2>2 DEF IInv, Shaped, Parsing, OfferOpen, Begun, NotYet, SwitchFindsRequest
<1>8. CASE Connected
  <2>1. down = "none" /\ down' = "http1" /\ up' = up /\ offered' = offered
        /\ parser' = parser /\ read' = "idle"
    BY <1>8 DEF Connected, parserVars
  <2>2. request' = request \/ (request' = NoRequest /\ request.stat = "COMPLETE")
    BY <1>8 DEF Connected, DoFlush, Flushes
  <2> QED
    BY <2>1, <2>2 DEF IInv, Shaped, Parsing, OfferOpen, Begun, NotYet, SwitchFindsRequest
<1>9. CASE UNCHANGED vars
  BY <1>9 DEF vars, IInv, Shaped, Parsing, OfferOpen, Begun, NotYet, SwitchFindsRequest
<1> QED
  BY <1>1, <1>2, <1>3, <1>4, <1>5, <1>6, <1>7, <1>8, <1>9 DEF Next

\* When the origin chooses h2 the session of the application becomes HTTP/2 too:
\* switchinghttp2 never returns early for want of a request that asks for it.
THEOREM SwitchFindsRequestCorrect == Spec => []SwitchFindsRequest
<1>1. Init => IInv
  BY StartsInv
<1>2. IInv /\ [Next]_vars => IInv'
  BY NextKeepsInv
<1>3. IInv => SwitchFindsRequest
  BY DEF IInv
<1> QED
  BY <1>1, <1>2, <1>3, PTL DEF Spec

-----------------------------------------------------------------------------
(***************************************************************************)
(* What the request holds, and what of it has arrived.                     *)
(***************************************************************************)
\* The provers do not know that a literal is in STRING: Text says it of the two
\* that get into names and values.
Text == STRING \cup {"", "/"}
HeldBlock == Seq([name : Text, value : Seq(Text)])
Held == [stat : Stat, storemessage : {FALSE}, upgrade_http2 : BOOLEAN, host : Seq(Text),
         port : Seq(Text), path : Seq(Text), headers : HeldBlock, trailer : HeldBlock,
         payload : {0, 1}]

\* The input and the request are of their types.
InputTyped ==
    /\ target \in Targets /\ cuts \in Nat
    /\ wrote \in Seq(Fields) /\ trailers \in Seq(Fields)
    /\ rest \in Seq(Text) /\ curheader \in Text
    /\ parser \in {"start", "field", "tail", "value", "body", "over"}
    /\ request # NoRequest => request \in Held
    /\ up \in {"http1", "http2"}

\* Between two values nothing is left over; a trailer comes behind the body.
Arriving ==
    /\ parser \notin {"tail", "value"} => rest = <<>>
    /\ up = "http1" /\ parser \in {"tail", "value"} => (IF InTrailer THEN trailers ELSE wrote) # <<>>
    /\ parser = "start" => wrote = <<>> /\ trailers = <<>>
    /\ request # NoRequest /\ request.stat = "HEADER" => trailers = <<>> /\ request.trailer = <<>>

KeepInv == InputTyped /\ Arriving /\ ValuesKept

\* With fields that arrive uncut the request knows of every field that asks for
\* HTTP/2, but for the one whose value has yet to be parsed.
Asking(f) == f.name = "Upgrade" /\ f.value = <<"h2c">>
Knows ==
    request # NoRequest =>
        \A k \in DOMAIN wrote : Asking(wrote[k]) =>
            \/ request.upgrade_http2
            \/ parser = "value" /\ request.stat = "HEADER" /\ k = Len(wrote)
AskInv ==
    cuts = 0 =>
        /\ read # "ending" /\ parser # "tail"
        /\ up = "http1" /\ parser = "value" => curheader = Writing.name /\ rest = Writing.value
        /\ Knows
        /\ plain => parser = "over" /\ \A k \in DOMAIN wrote : ~Asking(wrote[k])

\* The values of a block, one after the other.
LEMMA ValuesTyped ==
    ASSUME NEW S, \A f \in S : f.value \in Seq(Text), NEW block \in Seq(S)
    PROVE  /\ [k \in DOMAIN block |-> block[k].value] \in Seq(Seq(Text))
           /\ Values(block) \in Seq(Text)
           /\ block = <<>> => Values(block) = <<>>
<1> DEFINE vs == [k \in DOMAIN block |-> block[k].value]
           e(k) == block[k].value
<1>1. Len(block) \in Nat /\ DOMAIN block = 1..Len(block)
  OBVIOUS
<1>2. \A k \in 1..Len(block) : e(k) \in Seq(Text)
  BY <1>1
<1>3. vs = [k \in 1..Len(block) |-> e(k)]
  BY <1>1
<1> HIDE DEF e
<1>4. vs \in Seq(Seq(Text))
  BY <1>1, <1>2, <1>3, IsASeq
<1>5. Values(block) = FlattenSeq(vs)
  BY DEF Values
<1>6. ASSUME block = <<>> PROVE Values(block) = <<>>
  <2>1. DOMAIN vs = 1..0
    BY <1>1, <1>6
  <2>2. Len(vs) = 0 /\ vs = <<>>
    BY <1>4, <2>1
  <2> QED
    BY <1>5, <2>2 DEF FlattenSeq
<1> HIDE DEF vs
<1>7. Values(block) \in Seq(Text)
  BY <1>4, <1>5, FlattenTyped
<1> QED
  BY <1>4, <1>6, <1>7 DEF vs

LEMMA ValuesAppend ==
    ASSUME NEW S, \A f \in S : f.value \in Seq(Text), NEW block \in Seq(S), NEW f \in S
    PROVE  Values(Append(block, f)) = Values(block) \o f.value
<1> DEFINE vs == [k \in DOMAIN block |-> block[k].value]
           both == Append(block, f)
           ws == [k \in DOMAIN both |-> both[k].value]
<1>1. both \in Seq(S) /\ Len(both) = Len(block) + 1 /\ Len(block) \in Nat
      /\ DOMAIN both = 1..(Len(block) + 1) /\ DOMAIN block = 1..Len(block)
      /\ (\A k \in 1..Len(block) : both[k] = block[k]) /\ both[Len(block) + 1] = f
  BY AppendProperties
<1>2. vs \in Seq(Seq(Text)) /\ f.value \in Seq(Text)
  BY ValuesTyped
<1>3. Values(block) = FlattenSeq(vs)
  BY DEF Values
<1> HIDE DEF both
<1>4. ws \in Seq(Seq(Text))
  BY <1>1, ValuesTyped
<1>5. Values(both) = FlattenSeq(ws)
  BY DEF Values
<1>6. DOMAIN vs = 1..Len(block) /\ DOMAIN ws = 1..(Len(block) + 1)
      /\ (\A k \in 1..Len(block) : ws[k] = vs[k]) /\ ws[Len(block) + 1] = f.value
  BY <1>1
<1> HIDE DEF vs, ws
<1>7. Len(vs) = Len(block) /\ Len(ws) = Len(block) + 1
  <2>1. Len(vs) \in Nat /\ DOMAIN vs = 1..Len(vs) /\ Len(ws) \in Nat /\ DOMAIN ws = 1..Len(ws)
    BY <1>2, <1>4
  <2> QED
    BY <1>1, <1>6, <2>1
<1>8. ws = Append(vs, f.value)
  <2> DEFINE us == Append(vs, f.value)
  <2>1. us \in Seq(Seq(Text)) /\ Len(us) = Len(block) + 1
        /\ (\A k \in 1..Len(block) : us[k] = vs[k]) /\ us[Len(block) + 1] = f.value
    BY <1>2, <1>7, AppendProperties
  <2> HIDE DEF us
  <2>2. ASSUME NEW k \in 1..Len(ws) PROVE ws[k] = us[k]
    <3>1. k \in 1..Len(block) \/ k = Len(block) + 1
      BY <1>1, <1>7, OneMoreIndex
    <3> QED
      BY <1>6, <2>1, <3>1
  <2>3. ws = us
    BY <1>4, <1>7, <2>1, <2>2, SeqEqual
  <2> QED
    BY <2>3 DEF us
<1>9. FlattenSeq(ws) = FlattenSeq(vs) \o f.value
  BY <1>2, <1>8, FlattenAppend
<1> QED
  BY <1>3, <1>5, <1>9 DEF both

LEMMA SeqIn ==
    ASSUME NEW S, NEW T, S \subseteq T, NEW v \in Seq(S)
    PROVE  v \in Seq(T)
<1>1. Len(v) \in Nat /\ v = [i \in 1..Len(v) |-> v[i]] /\ \A i \in 1..Len(v) : v[i] \in T
  OBVIOUS
<1> QED
  BY <1>1, IsASeq

LEMMA FieldTypes ==
    /\ \A f \in Fields : f.name \in Text /\ f.value \in Seq(Text) /\ f.value # <<>>
    /\ TrailerFields \subseteq Fields
    /\ \A f \in Fields : Tails[f.name] \subseteq Text
<1>1. STRING \subseteq Text
  BY DEF Text
<1>2. \A v \in Seq(STRING) : v \in Seq(Text)
  BY <1>1, SeqIn
<1>3. \A f \in Fields : f.name \in STRING /\ f.value \in Seq(STRING) /\ f.value # <<>>
  BY ConstantsAssumption
<1>4. TrailerFields \subseteq Fields /\ \A f \in Fields : Tails[f.name] \subseteq STRING
  BY ConstantsAssumption
<1> QED
  BY <1>1, <1>2, <1>3, <1>4

\* The equation of ValuesKept, and the four ways it is kept: a field begins, in
\* the header or the trailer, or a piece of its value is added to either.
Balance(h, t, r, w, x) == (h \o t) \o r = w \o x

LEMMA Moves ==
    ASSUME NEW h \in Seq(Text), NEW t \in Seq(Text), NEW r \in Seq(Text),
           NEW w \in Seq(Text), NEW x \in Seq(Text), NEW p \in Seq(Text)
    PROVE  Balance(h, t, r, w, x) /\ r = <<>> =>
             /\ Balance(h, t, p, w, x \o p)
             /\ t = <<>> /\ x = <<>> => Balance(h, t, p, w \o p, x)
<1>1. (w \o x) \o p = w \o (x \o p)
  BY ConcatAssociative, SMTT(40)
<1>2. h \o t \in Seq(Text) /\ w \o p \in Seq(Text)
  BY ConcatProperties
<1>3. SUFFICES ASSUME (h \o t) \o r = w \o x, r = <<>>
               PROVE  /\ (h \o t) \o p = w \o (x \o p)
                      /\ t = <<>> /\ x = <<>> => (h \o t) \o p = (w \o p) \o x
  BY DEF Balance
<1>4. h \o t = w \o x
  BY <1>2, <1>3, ConcatEmptySeq
<1>5. x = <<>> => w \o x = w /\ (w \o p) \o x = w \o p
  BY <1>2, ConcatEmptySeq
<1>6. (h \o t) \o p = (w \o x) \o p
  BY <1>4, Zenon
<1> QED
  BY <1>1, <1>5, <1>6, Zenon

LEMMA Pieces ==
    ASSUME NEW h \in Seq(Text), NEW t \in Seq(Text), NEW w, NEW x,
           NEW p \in Seq(Text), NEW q \in Seq(Text)
    PROVE  Balance(h, t, p \o q, w, x) =>
             /\ Balance(h, t \o p, q, w, x)
             /\ t = <<>> => Balance(h \o p, t, q, w, x)
<1>1. /\ (h \o t) \in Seq(Text) /\ (h \o p) \in Seq(Text)
      /\ (h \o t) \o p = h \o (t \o p)
      /\ ((h \o t) \o p) \o q = (h \o t) \o (p \o q)
  <2>1. (h \o t) \in Seq(Text) /\ (h \o p) \in Seq(Text)
    BY ConcatProperties
  <2>2. (h \o t) \o p = h \o (t \o p)
    BY ConcatAssociative, SMTT(40)
  <2>3. ((h \o t) \o p) \o q = (h \o t) \o (p \o q)
    BY <2>1, ConcatAssociative, SMTT(40)
  <2> QED
    BY <2>1, <2>2, <2>3
<1>2. t = <<>> => h \o t = h /\ (h \o p) \o t = h \o p
  BY <1>1, ConcatEmptySeq
<1>3. (h \o (t \o p)) \o q = (h \o t) \o (p \o q)
  BY <1>1
<1>4. t = <<>> => ((h \o p) \o t) \o q = (h \o t) \o (p \o q)
  BY <1>1, <1>2
<1> QED
  BY <1>3, <1>4 DEF Balance

\* Given(piece), field by field.
LEMMA GivenTypes ==
    ASSUME InputTyped, request # NoRequest, NEW piece \in Seq(Text)
    PROVE  /\ Given(piece) \in Held
           /\ Given(piece).stat = request.stat
           /\ Given(piece).headers = IF InTrailer THEN request.headers
                                     ELSE Append(request.headers, Field(curheader, piece))
           /\ Given(piece).trailer = IF InTrailer THEN Append(request.trailer, Field(curheader, piece))
                                     ELSE request.trailer
           /\ Given(piece).upgrade_http2 = (request.upgrade_http2 \/ (curheader = "Upgrade" /\ piece = <<"h2c">>))
<1>1. request \in Held /\ curheader \in Text
  BY DEF InputTyped
<1>2. Field(curheader, piece) \in [name : Text, value : Seq(Text)]
  BY <1>1 DEF Field
<1> DEFINE h == IF request.host = <<>> /\ curheader = "Host" THEN piece ELSE request.host
           u == request.upgrade_http2 \/ (curheader = "Upgrade" /\ piece = <<"h2c">>)
           hs == IF InTrailer THEN request.headers ELSE Append(request.headers, Field(curheader, piece))
           ts == IF InTrailer THEN Append(request.trailer, Field(curheader, piece)) ELSE request.trailer
<1>3. /\ h \in Seq(Text) /\ u \in BOOLEAN /\ hs \in HeldBlock /\ ts \in HeldBlock
      /\ DOMAIN request = {"stat", "storemessage", "upgrade_http2", "host", "port", "path",
                           "headers", "trailer", "payload"}
  <2>1. /\ request.host \in Seq(Text) /\ request.headers \in HeldBlock /\ request.trailer \in HeldBlock
        /\ request.upgrade_http2 \in BOOLEAN
        /\ DOMAIN request = {"stat", "storemessage", "upgrade_http2", "host", "port", "path",
                             "headers", "trailer", "payload"}
    BY <1>1 DEF Held
  <2>2. Append(request.headers, Field(curheader, piece)) \in HeldBlock
        /\ Append(request.trailer, Field(curheader, piece)) \in HeldBlock
    BY <1>2, <2>1 DEF HeldBlock
  <2> QED
    BY <2>1, <2>2
<1>4. Given(piece) = [request EXCEPT !.host = h, !.upgrade_http2 = u, !.headers = hs, !.trailer = ts]
  BY DEF Given, Added
<1> HIDE DEF h, u, hs, ts
<1>5. Given(piece) \in Held
  BY <1>1, <1>3, <1>4 DEF Held
<1>6. /\ Given(piece).stat = request.stat /\ Given(piece).headers = hs
      /\ Given(piece).trailer = ts /\ Given(piece).upgrade_http2 = u
  BY <1>3, <1>4
<1> QED
  BY <1>5, <1>6 DEF u, hs, ts

\* The header is being parsed, or what comes behind it.
LEMMA Inside ==
    ASSUME IInv, InputTyped, up = "http1", parser \in {"field", "tail", "value", "body"}
    PROVE  /\ request # NoRequest /\ request \in Held
           /\ request.stat \in {"HEADER", "BODY"}
           /\ InTrailer <=> request.stat # "HEADER"
           /\ request.headers \in HeldBlock /\ request.trailer \in HeldBlock
           /\ request.upgrade_http2 \in BOOLEAN
<1>1. request # NoRequest /\ request.stat # "COMPLETE" /\ request \in Held
  BY DEF IInv, Parsing, InputTyped
<1> QED
  BY <1>1 DEF Held, InTrailer

LEMMA BlockValues ==
    /\ \A f \in Fields : f.value \in Seq(Text)
    /\ \A f \in [name : Text, value : Seq(Text)] : f.value \in Seq(Text)
BY FieldTypes

\* The values of the four sequences ValuesKept speaks of.
LEMMA Four ==
    ASSUME InputTyped, request # NoRequest
    PROVE  /\ Values(request.headers) \in Seq(Text) /\ Values(request.trailer) \in Seq(Text)
           /\ Values(wrote) \in Seq(Text) /\ Values(trailers) \in Seq(Text)
           /\ request.trailer = <<>> => Values(request.trailer) = <<>>
           /\ trailers = <<>> => Values(trailers) = <<>>
<1>1. request.headers \in HeldBlock /\ request.trailer \in HeldBlock
  BY DEF InputTyped, Held
<1>2. wrote \in Seq(Fields) /\ trailers \in Seq(Fields)
  BY DEF InputTyped
<1> DEFINE R == [name : Text, value : Seq(Text)]
<1>3. request.headers \in Seq(R) /\ request.trailer \in Seq(R) /\ \A f \in R : f.value \in Seq(Text)
  BY <1>1 DEF HeldBlock
<1> HIDE DEF R
<1>4. Values(request.headers) \in Seq(Text) /\ Values(request.trailer) \in Seq(Text)
      /\ (request.trailer = <<>> => Values(request.trailer) = <<>>)
  BY <1>3, ValuesTyped
<1>5. Values(wrote) \in Seq(Text) /\ Values(trailers) \in Seq(Text)
      /\ (trailers = <<>> => Values(trailers) = <<>>)
  BY <1>2, BlockValues, ValuesTyped
<1> QED
  BY <1>4, <1>5

LEMMA TargetTypes ==
    ASSUME target \in Targets
    PROVE  /\ target.host \in Seq(Text) /\ target.port \in Seq(Text)
           /\ target.path \in Seq(Text) /\ target.query \in Seq(Text)
           /\ target.fragment \in Seq(Text)
<1>1. /\ target.host \in Seq(STRING) /\ target.port \in Seq(STRING)
      /\ target.path \in Seq(STRING) /\ target.query \in Seq(STRING)
      /\ target.fragment \in Seq(STRING)
  BY ConstantsAssumption
<1>2. \A v \in Seq(STRING) : v \in Seq(Text)
  <2>1. STRING \subseteq Text
    BY DEF Text
  <2> QED
    BY <2>1, SeqIn
<1> QED
  BY <1>1, <1>2

LEMMA KeepUri ==
    ASSUME IInv, KeepInv, htp_uricb
    PROVE  KeepInv'
<1>1. /\ request' = NewRequest(parseURI(target)) /\ parser' = "field" /\ rest = <<>> /\ rest' = <<>>
      /\ wrote = <<>> /\ trailers = <<>> /\ wrote' = <<>> /\ trailers' = <<>>
      /\ cuts' = cuts /\ curheader' = curheader /\ up' = up /\ target' = target
  BY DEF htp_uricb, inputVars, connectionVars, KeepInv, Arriving
<1> DEFINE uri == parseURI(target)
<1>2. uri.host \in Seq(Text) /\ uri.port \in Seq(Text) /\ uri.path \in Seq(Text)
  <2>1. target \in Targets
    BY DEF KeepInv, InputTyped
  <2>2. /\ target.host \in Seq(Text) /\ target.port \in Seq(Text) /\ target.path \in Seq(Text)
        /\ target.query \in Seq(Text) /\ target.fragment \in Seq(Text)
    BY <2>1, TargetTypes
  <2> DEFINE path == IF target.path = <<>> THEN <<"/">> ELSE target.path
  <2>3. path \in Seq(Text)
    <3>1. "/" \in Text
      BY DEF Text
    <3>2. <<"/">> \in Seq(Text)
      BY <3>1
    <3> QED
      BY <2>2, <3>2
  <2>4. uri.host = target.host /\ uri.port = target.port /\ uri.path = path \o target.query \o target.fragment
    BY DEF parseURI
  <2> HIDE DEF path, uri
  <2>5. path \o target.query \o target.fragment \in Seq(Text)
    BY <2>2, <2>3, ConcatProperties
  <2> QED
    BY <2>2, <2>4, <2>5
<1> HIDE DEF uri
<1>3. request' = NewRequest(uri) /\ <<>> \in HeldBlock
  BY <1>1 DEF uri, HeldBlock
<1>4. /\ request' \in Held /\ request' # NoRequest
      /\ request'.headers = <<>> /\ request'.trailer = <<>> /\ request'.stat = "HEADER"
  <2>1. NewRequest(uri) \in Held
    BY <1>2, <1>3 DEF NewRequest, Held
  <2>2. /\ request'.headers = <<>> /\ request'.trailer = <<>> /\ request'.stat = "HEADER"
    BY <1>3 DEF NewRequest
  <2> QED
    BY <1>3, <2>1, <2>2 DEF NoRequest
<1>5. InputTyped'
  BY <1>1, <1>4 DEF KeepInv, InputTyped
<1>6. Arriving'
  BY <1>1, <1>4 DEF KeepInv, Arriving
<1>7. Values(<<>>) = <<>>
  <2>1. <<>> \in Seq(Fields) /\ \A f \in Fields : f.value \in Seq(Text)
    BY FieldTypes
  <2> QED
    BY <2>1, ValuesTyped
<1>8. ValuesKept'
  BY <1>1, <1>4, <1>7 DEF ValuesKept
<1> QED
  BY <1>5, <1>6, <1>8 DEF KeepInv

\* A field begins.
LEMMA KeepKeyBegins ==
    ASSUME IInv, KeepInv, read = "running", parser \in {"field", "body"}, NEW f \in Fields,
           Write(f), rest' = f.value, target' = target, request' = request, up' = up,
           curheader' \in Text, parser' \in {"value", "tail"}, cuts' \in Nat
    PROVE  KeepInv'
<1>1. InputTyped /\ Arriving /\ ValuesKept /\ rest = <<>> /\ up = "http1"
  BY DEF KeepInv, Arriving, IInv, Parsing
<1>2. /\ request # NoRequest /\ request \in Held
      /\ request.stat \in {"HEADER", "BODY"}
      /\ InTrailer <=> request.stat # "HEADER"
  BY <1>1, Inside
<1>3. f.value \in Seq(Text) /\ wrote \in Seq(Fields) /\ trailers \in Seq(Fields)
      /\ \A g \in Fields : g.value \in Seq(Text)
  BY <1>1, FieldTypes DEF InputTyped
<1>4. InTrailer' <=> InTrailer
  BY DEF InTrailer
<1> DEFINE h == Values(request.headers)
           t == Values(request.trailer)
           w == Values(wrote)
           x == Values(trailers)
<1>5. /\ h \in Seq(Text) /\ t \in Seq(Text) /\ w \in Seq(Text) /\ x \in Seq(Text)
      /\ request.trailer = <<>> => t = <<>>
      /\ trailers = <<>> => x = <<>>
  BY <1>1, <1>2, Four
<1>6. Balance(h, t, rest, w, x)
  BY <1>1, <1>2 DEF ValuesKept, Balance
<1> HIDE DEF h, t, w, x
<1>9. /\ Balance(h, t, f.value, w, x \o f.value)
      /\ t = <<>> /\ x = <<>> => Balance(h, t, f.value, w \o f.value, x)
  <2>1. rest \in Seq(Text)
    BY <1>1 DEF InputTyped
  <2> QED
    BY <1>1, <1>3, <1>5, <1>6, <2>1, Moves
<1> USE DEF h, t, w, x
<1>7. CASE ~InTrailer
  <2>1. wrote' = Append(wrote, f) /\ trailers' = trailers
    BY <1>7 DEF Write
  <2>2. wrote' \in Seq(Fields) /\ wrote' # <<>>
    BY <1>3, <2>1, AppendProperties
  <2>3. trailers = <<>> /\ request.trailer = <<>>
    BY <1>1, <1>2, <1>7 DEF Arriving
  <2>4. Values(wrote') = w \o f.value
    BY <1>3, <2>1, ValuesAppend
  <2>5. Values(request'.headers) = h /\ Values(request'.trailer) = t /\ Values(trailers') = x
    BY <2>1
  <2> HIDE DEF h, t, w, x
  <2>6. Balance(h, t, f.value, w \o f.value, x)
    BY <1>5, <1>9, <2>3
  <2>7. ValuesKept'
    BY <2>4, <2>5, <2>6 DEF ValuesKept, Balance
  <2>8. InputTyped'
    BY <1>1, <1>3, <2>1, <2>2 DEF InputTyped
  <2>9. Arriving'
    BY <1>1, <1>4, <1>7, <2>1, <2>2, <2>3 DEF Arriving
  <2> QED
    BY <2>7, <2>8, <2>9 DEF KeepInv
<1>8. CASE InTrailer
  <2>1. trailers' = Append(trailers, f) /\ wrote' = wrote
    BY <1>8 DEF Write
  <2>2. trailers' \in Seq(Fields) /\ trailers' # <<>>
    BY <1>3, <2>1, AppendProperties
  <2>4. Values(trailers') = x \o f.value
    BY <1>3, <2>1, ValuesAppend
  <2>5. Values(request'.headers) = h /\ Values(request'.trailer) = t /\ Values(wrote') = w
    BY <2>1
  <2> HIDE DEF h, t, w, x
  <2>6. Balance(h, t, f.value, w, x \o f.value)
    BY <1>9
  <2>7. ValuesKept'
    BY <2>4, <2>5, <2>6 DEF ValuesKept, Balance
  <2>8. InputTyped'
    BY <1>1, <1>3, <2>1, <2>2 DEF InputTyped
  <2>9. Arriving'
    BY <1>1, <1>2, <1>4, <1>8, <2>1, <2>2 DEF Arriving
  <2> QED
    BY <2>7, <2>8, <2>9 DEF KeepInv
<1> QED
  BY <1>7, <1>8

LEMMA LastOf ==
    ASSUME NEW S, NEW q \in Seq(S), q # <<>>
    PROVE  Last(q) \in S /\ Last(q) = q[Len(q)] /\ Len(q) \in 1..Len(q) /\ Len(q) \in Nat
<1>1. Len(q) \in Nat /\ Len(q) # 0 /\ \A i \in 1..Len(q) : q[i] \in S
  OBVIOUS
<1>2. Len(q) \in 1..Len(q)
  BY <1>1
<1> QED
  BY <1>1, <1>2 DEF Last

LEMMA KeepKey ==
    ASSUME IInv, KeepInv, htp_hdr_keycb
    PROVE  KeepInv'
<1>1. InputTyped /\ Arriving /\ ValuesKept /\ read = "running" /\ up = "http1"
  BY DEF KeepInv, IInv, Parsing, htp_hdr_keycb
<1>2. request' = request /\ up' = up
  BY DEF htp_hdr_keycb, connectionVars
<1>3. "" \in Text
  BY DEF Text
<1>6. cuts \in Nat
  BY <1>1 DEF InputTyped
<1>4. CASE parser \in {"field", "body"}
  <2>1. PICK f \in Fields :
           /\ Write(f) /\ rest' = f.value /\ UNCHANGED target
           /\ \/ Whole /\ curheader' = f.name /\ parser' = "value"
              \/ Cut /\ curheader' = "" /\ parser' = "tail"
    BY <1>4 DEF htp_hdr_keycb
  <2>2. f.name \in Text
    BY FieldTypes
  <2>4. cuts' = cuts \/ cuts' = cuts + 1
    <3>1. Whole \/ Cut
      BY <2>1
    <3> QED
      BY <3>1 DEF Whole, Cut
  <2>5. cuts' \in Nat
    BY <1>6, <2>4
  <2>3. curheader' \in Text /\ parser' \in {"value", "tail"} /\ cuts' \in Nat
    BY <1>3, <2>1, <2>2, <2>5
  <2> QED
    BY <1>1, <1>2, <1>4, <2>1, <2>3, KeepKeyBegins
<1>5. CASE parser = "tail"
  <2>1. /\ curheader' \in Tails[Writing.name] /\ parser' = "value"
        /\ UNCHANGED <<target, wrote, trailers, cuts, rest>>
    BY <1>5 DEF htp_hdr_keycb, inputVars
  <2>2. Writing \in Fields
    <3>1. (IF InTrailer THEN trailers ELSE wrote) # <<>>
      BY <1>1, <1>5 DEF Arriving
    <3>2. wrote \in Seq(Fields) /\ trailers \in Seq(Fields)
      BY <1>1 DEF InputTyped
    <3> QED
      BY <3>1, <3>2, LastOf DEF Writing
  <2>3. curheader' \in Text
    BY <2>1, <2>2, FieldTypes
  <2>4. InputTyped' /\ ValuesKept'
    BY <1>1, <1>2, <2>1, <2>3 DEF InputTyped, ValuesKept
  <2>5. Arriving'
    BY <1>1, <1>2, <1>5, <2>1 DEF Arriving, InTrailer
  <2> QED
    BY <2>4, <2>5 DEF KeepInv
<1> QED
  BY <1>4, <1>5 DEF htp_hdr_keycb

\* A piece of the value is added: what is left of it is what was cut off.
LEMMA KeepPiece ==
    ASSUME IInv, KeepInv, read = "running", parser = "value", up' = up,
           UNCHANGED <<target, wrote, trailers, curheader>>, cuts' \in Nat,
           NEW p \in Seq(Text), NEW q \in Seq(Text), rest = p \o q, rest' = q,
           request' = Given(p),
           (parser' = "value") \/ (parser' = "field" /\ q = <<>>)
    PROVE  KeepInv'
<1>1. InputTyped /\ Arriving /\ ValuesKept /\ up = "http1"
  BY DEF KeepInv, IInv, Parsing
<1>2. /\ request # NoRequest /\ request \in Held
      /\ request.stat \in {"HEADER", "BODY"}
      /\ InTrailer <=> request.stat # "HEADER"
  BY <1>1, Inside
<1> DEFINE fld == Field(curheader, p)
           h == Values(request.headers)
           t == Values(request.trailer)
           w == Values(wrote)
           x == Values(trailers)
           R == [name : Text, value : Seq(Text)]
<1>3. /\ request' \in Held
      /\ request'.stat = request.stat
      /\ request'.headers = IF InTrailer THEN request.headers ELSE Append(request.headers, fld)
      /\ request'.trailer = IF InTrailer THEN Append(request.trailer, fld) ELSE request.trailer
  BY <1>1, <1>2, GivenTypes
<1>4. request' # NoRequest
  BY <1>2, <1>3 DEF NoRequest
<1>5. fld \in R /\ fld.value = p /\ \A f \in R : f.value \in Seq(Text)
  BY <1>1 DEF InputTyped, Field
<1>6. request.headers \in Seq(R) /\ request.trailer \in Seq(R)
  BY <1>2 DEF Held, HeldBlock
<1>7. /\ h \in Seq(Text) /\ t \in Seq(Text)
      /\ request.trailer = <<>> => t = <<>>
  BY <1>1, <1>2, Four
<1>8. Balance(h, t, p \o q, w, x)
  BY <1>1, <1>2 DEF ValuesKept, Balance
<1> HIDE DEF fld, h, t, w, x, R
<1>9. /\ Balance(h, t \o p, q, w, x)
      /\ t = <<>> => Balance(h \o p, t, q, w, x)
  BY <1>7, <1>8, Pieces
<1>10. Values(wrote') = w /\ Values(trailers') = x
  BY DEF w, x
<1>11. InTrailer' <=> InTrailer
  BY <1>3 DEF InTrailer
<1>12. CASE ~InTrailer
  <2>1. request.headers \in Seq(R) /\ fld \in R
    BY <1>5, <1>6
  <2>2. Values(Append(request.headers, fld)) = h \o p
    BY <1>5, <2>1, ValuesAppend DEF h
  <2>3. Values(request'.headers) = h \o p /\ Values(request'.trailer) = t
    BY <1>3, <1>12, <2>2 DEF t
  <2>4. t = <<>> /\ trailers = <<>> /\ request.trailer = <<>>
    BY <1>1, <1>2, <1>7, <1>12 DEF Arriving
  <2>5. Balance(h \o p, t, q, w, x)
    BY <1>9, <2>4
  <2>6. ValuesKept'
    BY <1>10, <2>3, <2>5 DEF ValuesKept, Balance
  <2>7. Arriving'
    BY <1>1, <1>3, <1>11, <1>12, <2>4 DEF Arriving
  <2>8. InputTyped'
    BY <1>1, <1>3 DEF InputTyped
  <2> QED
    BY <2>6, <2>7, <2>8 DEF KeepInv
<1>13. CASE InTrailer
  <2>1. request.trailer \in Seq(R) /\ fld \in R
    BY <1>5, <1>6
  <2>2. Values(Append(request.trailer, fld)) = t \o p
    BY <1>5, <2>1, ValuesAppend DEF t
  <2>3. Values(request'.headers) = h /\ Values(request'.trailer) = t \o p
    BY <1>3, <1>13, <2>2 DEF h
  <2>6. ValuesKept'
    BY <1>9, <1>10, <2>3 DEF ValuesKept, Balance
  <2>7. Arriving'
    BY <1>1, <1>2, <1>3, <1>11, <1>13 DEF Arriving
  <2>8. InputTyped'
    BY <1>1, <1>3 DEF InputTyped
  <2> QED
    BY <2>6, <2>7, <2>8 DEF KeepInv
<1> QED
  BY <1>12, <1>13

\* A sequence is what stands before a cut and what stands behind it.
LEMMA CutAt ==
    ASSUME NEW S, NEW r \in Seq(S), NEW k \in DOMAIN r
    PROVE  /\ SubSeq(r, 1, k) \in Seq(S) /\ SubSeq(r, k + 1, Len(r)) \in Seq(S)
           /\ r = SubSeq(r, 1, k) \o SubSeq(r, k + 1, Len(r))
<1>1. k \in 1..Len(r) /\ Len(r) \in Nat
  OBVIOUS
<1>2. SubSeq(r, 1, k) \in Seq(S) /\ SubSeq(r, k + 1, Len(r)) \in Seq(S)
  <2>1. /\ 1 \in Int /\ k \in Int /\ k + 1 \in Int /\ Len(r) \in Int
        /\ \A i \in 1..k : i \in 1..Len(r)
        /\ \A i \in (k + 1)..Len(r) : i \in 1..Len(r)
    BY <1>1
  <2>2. \A i \in 1..Len(r) : r[i] \in S
    OBVIOUS
  <2>3. SubSeq(r, 1, k) \in Seq(S)
    BY <2>1, <2>2, SubSeqProperties
  <2>4. SubSeq(r, k + 1, Len(r)) \in Seq(S)
    BY <2>1, <2>2, SubSeqProperties
  <2> QED
    BY <2>3, <2>4
<1>3. SubSeq(r, 1, Len(r)) = r
  BY SubSeqFull
<1>4. SubSeq(r, 1, k) \o SubSeq(r, k + 1, Len(r)) = SubSeq(r, 1, Len(r))
  <2>1. 1 \in 1..Len(r) + 1 /\ k \in (1 - 1)..Len(r) /\ Len(r) \in k..Len(r)
    BY <1>1
  <2> QED
    BY <2>1, ConcatAdjacentSubSeq
<1> QED
  BY <1>2, <1>3, <1>4

LEMMA KeepValue ==
    ASSUME IInv, KeepInv, htp_hdr_valcb
    PROVE  KeepInv'
<1>1. /\ InputTyped /\ read = "running" /\ parser = "value" /\ up' = up
      /\ UNCHANGED <<target, wrote, trailers, curheader>>
  BY DEF KeepInv, htp_hdr_valcb, connectionVars
<1>2. rest \in Seq(Text) /\ cuts \in Nat /\ <<>> \in Seq(Text)
  BY <1>1 DEF InputTyped
<1>3. CASE Whole /\ parser' = "field" /\ rest' = <<>> /\ request' = Given(rest)
  <2>1. rest = rest \o <<>>
    BY <1>2, ConcatEmptySeq
  <2>2. cuts' \in Nat
    BY <1>2, <1>3 DEF Whole
  <2> QED
    BY <1>1, <1>2, <1>3, <2>1, <2>2, KeepPiece
<1>4. CASE \E k \in DOMAIN rest :
             /\ Cut /\ UNCHANGED parser
             /\ rest' = SubSeq(rest, k + 1, Len(rest))
             /\ request' = Given(SubSeq(rest, 1, k))
  <2>1. PICK k \in DOMAIN rest :
             /\ Cut /\ UNCHANGED parser
             /\ rest' = SubSeq(rest, k + 1, Len(rest))
             /\ request' = Given(SubSeq(rest, 1, k))
    BY <1>4
  <2>2. cuts' \in Nat
    <3>1. cuts' = cuts + 1
      BY <2>1 DEF Cut
    <3>2. cuts \in Nat
      BY <1>2
    <3> QED
      BY <3>1, <3>2
  <2> DEFINE p == SubSeq(rest, 1, k)
             q == SubSeq(rest, k + 1, Len(rest))
  <2>3. rest = p \o q /\ p \in Seq(Text) /\ q \in Seq(Text)
    BY <1>2, CutAt
  <2> HIDE DEF p, q
  <2>4. rest' = q /\ request' = Given(p) /\ parser' = "value"
    BY <1>1, <2>1 DEF p, q
  <2> QED
    BY <1>1, <2>2, <2>3, <2>4, KeepPiece
<1> QED
  BY <1>3, <1>4 DEF htp_hdr_valcb

\* The slot is emptied, or its request reaches the next state.
LEMMA KeepOthers ==
    ASSUME IInv, KeepInv,
           \/ ReadCb \/ htp_hdrs_completecb \/ htp_bodycb \/ htp_msg_completecb
           \/ ReadDone \/ ConnectedH2 \/ Connected \/ UNCHANGED vars
    PROVE  KeepInv'
<1>1. InputTyped /\ Arriving /\ ValuesKept
  BY DEF KeepInv
<1>2. UNCHANGED <<target, wrote, trailers, cuts, rest, curheader>>
  BY DEF ReadCb, htp_hdrs_completecb, htp_bodycb, htp_msg_completecb, ReadDone, ConnectedH2,
         Connected, vars, inputVars, parserVars
<1>3. CASE htp_hdrs_completecb \/ htp_bodycb \/ htp_msg_completecb
  <2>1. read = "running" /\ parser \in {"field", "body"} /\ up' = up /\ up = "http1"
    BY <1>3 DEF htp_hdrs_completecb, htp_bodycb, htp_msg_completecb, connectionVars, IInv, Parsing
  <2>2. request # NoRequest /\ request \in Held
    BY <1>1, <2>1, Inside
  <2>3. /\ request' \in Held
        /\ request'.headers = request.headers /\ request'.trailer = request.trailer
        /\ request'.stat \in {request.stat, "BODY", "COMPLETE"}
    BY <1>3, <2>2
    DEF Held, IsStoreMessage, htp_hdrs_completecb, htp_bodycb, htp_msg_completecb
  <2>4. request' # NoRequest
    BY <2>3 DEF Held, NoRequest
  <2>5. parser' \in {"body", "over"}
    BY <1>3, <2>1 DEF htp_hdrs_completecb, htp_bodycb, htp_msg_completecb, parserVars
  <2>6. rest = <<>>
    BY <1>1, <2>1 DEF Arriving
  <2>7. InputTyped'
    BY <1>1, <1>2, <2>1, <2>3, <2>5 DEF InputTyped
  <2>8. ValuesKept'
    BY <1>1, <1>2, <2>2, <2>3 DEF ValuesKept
  <2>9. Arriving'
    BY <1>1, <1>2, <2>2, <2>3, <2>5, <2>6 DEF Arriving
  <2> QED
    BY <2>7, <2>8, <2>9 DEF KeepInv
<1>4. CASE ReadCb \/ ReadDone \/ ConnectedH2 \/ Connected \/ UNCHANGED vars
  <2>1. parser' = parser /\ (up' = up \/ up' = "http2")
        /\ (request' = request \/ request' = NoRequest)
    BY <1>4 DEF ReadCb, ReadDone, ConnectedH2, Connected, vars, parserVars, connectionVars,
                DoFlush, switchinghttp2
  <2>2. InputTyped' /\ ValuesKept'
    BY <1>1, <1>2, <2>1 DEF InputTyped, ValuesKept
  <2>3. CASE request' = request
    BY <1>1, <1>2, <2>1, <2>2, <2>3 DEF Arriving, InTrailer, KeepInv
  <2>4. CASE request' # request
    <3>1. up' = "http1" => request.stat = "COMPLETE" /\ up = "http1"
      <4>1. up' = "http1" => up = "http1"
        BY <2>1
      <4> QED
        BY <1>4, <2>4, <4>1
        DEF ReadCb, ReadDone, ConnectedH2, Connected, vars, DoFlush, Flushes, switchinghttp2
    <3>2. ~(up' = "http1" /\ parser \in {"tail", "value"})
      BY <3>1 DEF IInv, Parsing
    <3>3. Arriving'
      BY <1>1, <1>2, <2>1, <2>4, <3>2 DEF Arriving
    <3> QED
      BY <2>2, <3>3 DEF KeepInv
  <2> QED
    BY <2>3, <2>4
<1> QED
  BY <1>3, <1>4

LEMMA StartsKeep == Init => KeepInv
<1> SUFFICES ASSUME Init PROVE KeepInv
  OBVIOUS
<1>1. InputTyped
  <2>1. target \in Targets /\ cuts \in Nat
    BY DEF Init
  <2>2. wrote = <<>> /\ trailers = <<>> /\ rest = <<>>
    BY DEF Init
  <2>5. wrote \in Seq(Fields) /\ trailers \in Seq(Fields) /\ rest \in Seq(Text)
    BY <2>2
  <2>3. curheader \in Text
    BY DEF Init, Text
  <2>4. /\ parser \in {"start", "field", "tail", "value", "body", "over"}
        /\ up \in {"http1", "http2"} /\ request = NoRequest
    BY DEF Init
  <2> QED
    BY <2>1, <2>3, <2>4, <2>5 DEF InputTyped
<1>2. Arriving /\ ValuesKept
  BY DEF Init, Arriving, ValuesKept, NoRequest
<1> QED
  BY <1>1, <1>2 DEF KeepInv

LEMMA NextKeeps == IInv /\ KeepInv /\ [Next]_vars => KeepInv'
<1> SUFFICES ASSUME IInv, KeepInv, [Next]_vars PROVE KeepInv'
  OBVIOUS
<1>1. CASE htp_uricb
  BY <1>1, KeepUri
<1>2. CASE htp_hdr_keycb
  BY <1>2, KeepKey
<1>3. CASE htp_hdr_valcb
  BY <1>3, KeepValue
<1>4. CASE ~(htp_uricb \/ htp_hdr_keycb \/ htp_hdr_valcb)
  <2>1. \/ ReadCb \/ htp_hdrs_completecb \/ htp_bodycb \/ htp_msg_completecb
        \/ ReadDone \/ ConnectedH2 \/ Connected \/ UNCHANGED vars
    BY <1>4 DEF Next
  <2> QED
    BY <2>1, KeepOthers
<1> QED
  BY <1>1, <1>2, <1>3, <1>4

\* However reads cut the header, and whatever was written, no atom of a value is
\* lost, doubled or overtaken on its way into the request.
THEOREM ValuesKeptCorrect == Spec => []ValuesKept
<1>1. Init => IInv /\ KeepInv
  BY StartsInv, StartsKeep
<1>2. IInv /\ KeepInv /\ [Next]_vars => IInv' /\ KeepInv'
  BY NextKeepsInv, NextKeeps
<1>3. KeepInv => ValuesKept
  BY DEF KeepInv
<1> QED
  BY <1>1, <1>2, <1>3, PTL DEF Spec

-----------------------------------------------------------------------------
(***************************************************************************)
(* A request that asks for HTTP/2 is never written as HTTP/1.1.            *)
(***************************************************************************)
LEMMA StartsAsk == Init => AskInv
BY DEF Init, AskInv, Knows, NoRequest

\* The parts of AskInv, with fields that arrive uncut.
Asked ==
    /\ read # "ending" /\ parser # "tail"
    /\ up = "http1" /\ parser = "value" => curheader = Writing.name /\ rest = Writing.value
    /\ Knows
    /\ plain => parser = "over" /\ \A k \in DOMAIN wrote : ~Asking(wrote[k])

\* The header of a field is there, its value is to come.
LEMMA AskKey ==
    ASSUME IInv, KeepInv, Asked, htp_hdr_keycb, cuts' = 0
    PROVE  Asked'
<1>1. /\ InputTyped /\ Arriving /\ read = "running" /\ up = "http1"
      /\ parser \in {"field", "body"}
      /\ request' = request /\ plain' = plain
  BY DEF KeepInv, IInv, Parsing, htp_hdr_keycb, Asked, connectionVars
<1>2. /\ request # NoRequest /\ request.stat \in {"HEADER", "BODY"}
      /\ InTrailer <=> request.stat # "HEADER"
  BY <1>1, Inside
<1>3. PICK f \in Fields :
           /\ Write(f) /\ rest' = f.value /\ UNCHANGED target
           /\ \/ Whole /\ curheader' = f.name /\ parser' = "value"
              \/ Cut /\ curheader' = "" /\ parser' = "tail"
  BY <1>1 DEF htp_hdr_keycb
<1>4. cuts \in Nat
  BY <1>1 DEF InputTyped
<1>5. ~Cut
  BY <1>4 DEF Cut
<1>6. Whole /\ curheader' = f.name /\ parser' = "value" /\ read' = "running"
  BY <1>1, <1>3, <1>5 DEF Whole
<1>7. wrote \in Seq(Fields) /\ trailers \in Seq(Fields)
  BY <1>1 DEF InputTyped
<1>8. InTrailer' <=> InTrailer
  BY <1>1 DEF InTrailer
<1>9. \A k \in DOMAIN wrote : Asking(wrote[k]) => request.upgrade_http2
  BY <1>1, <1>2 DEF Asked, Knows
<1>10. ~plain
  BY <1>1 DEF Asked
<1>11. CASE ~InTrailer
  <2>1. wrote' = Append(wrote, f)
    BY <1>3, <1>11 DEF Write
  <2>2. /\ wrote' \in Seq(Fields) /\ Len(wrote') = Len(wrote) + 1 /\ Len(wrote) \in Nat
        /\ DOMAIN wrote' = 1..Len(wrote) + 1 /\ DOMAIN wrote = 1..Len(wrote)
        /\ \A k \in 1..Len(wrote) : wrote'[k] = wrote[k]
        /\ wrote'[Len(wrote) + 1] = f
    BY <1>7, <2>1, AppendProperties
  <2>3. Writing' = f
    BY <1>8, <1>11, <2>2 DEF Writing, Last
  <2>4. Knows'
    <3>1. ASSUME NEW k \in DOMAIN wrote', Asking(wrote'[k])
          PROVE  request'.upgrade_http2 \/ k = Len(wrote')
      <4>1. k \in 1..Len(wrote) \/ k = Len(wrote) + 1
        BY <2>2, OneMoreIndex
      <4> QED
        BY <1>1, <1>9, <2>2, <3>1, <4>1
    <3>2. request'.stat = "HEADER"
      BY <1>1, <1>2, <1>11
    <3> QED
      BY <1>6, <3>1, <3>2 DEF Knows, Asking
  <2> QED
    BY <1>1, <1>3, <1>6, <1>10, <2>3, <2>4 DEF Asked
<1>12. CASE InTrailer
  <2>1. trailers' = Append(trailers, f) /\ wrote' = wrote
    BY <1>3, <1>12 DEF Write
  <2>2. /\ Len(trailers') = Len(trailers) + 1 /\ trailers'[Len(trailers) + 1] = f
    BY <1>7, <2>1, AppendProperties
  <2>3. Writing' = f
    BY <1>8, <1>12, <2>2 DEF Writing, Last
  <2>4. Knows'
    BY <1>1, <1>9, <2>1 DEF Knows, Asking
  <2> QED
    BY <1>1, <1>3, <1>6, <1>10, <2>3, <2>4 DEF Asked
<1> QED
  BY <1>11, <1>12

\* The value is there: if the field asks, the request knows now.
LEMMA AskValue ==
    ASSUME IInv, KeepInv, Asked, htp_hdr_valcb, cuts' = 0
    PROVE  Asked'
<1>1. /\ InputTyped /\ Arriving /\ read = "running" /\ up = "http1"
      /\ parser = "value" /\ wrote' = wrote /\ plain' = plain
  BY DEF KeepInv, IInv, Parsing, htp_hdr_valcb, connectionVars
<1>2. /\ request # NoRequest /\ request.stat \in {"HEADER", "BODY"}
      /\ InTrailer <=> request.stat # "HEADER"
      /\ request.upgrade_http2 \in BOOLEAN
  BY <1>1, Inside
<1>3. cuts \in Nat
  BY <1>1 DEF InputTyped
<1>4. ~Cut
  BY <1>3 DEF Cut
<1>5. Whole /\ parser' = "field" /\ request' = Given(rest) /\ read' = "running"
  BY <1>1, <1>4 DEF htp_hdr_valcb, Whole
<1>6. rest \in Seq(Text)
  BY <1>1 DEF InputTyped
<1>7. request'.upgrade_http2 = (request.upgrade_http2 \/ (curheader = "Upgrade" /\ rest = <<"h2c">>))
  BY <1>1, <1>2, <1>5, <1>6, GivenTypes
<1>8. curheader = Writing.name /\ rest = Writing.value
  BY <1>1 DEF Asked
<1>9. ASSUME NEW k \in DOMAIN wrote, Asking(wrote[k])
      PROVE  request'.upgrade_http2
  <2>1. CASE request.upgrade_http2
    BY <1>7, <2>1
  <2>2. CASE request.stat = "HEADER" /\ k = Len(wrote)
    <3>1. Writing = wrote[k]
      BY <1>2, <2>2 DEF Writing, Last
    <3> QED
      BY <1>7, <1>8, <1>9, <3>1 DEF Asking
  <2> QED
    BY <1>1, <1>2, <1>9, <2>1, <2>2 DEF Asked, Knows
<1>10. Knows'
  BY <1>1, <1>9 DEF Knows, Asking
<1>11. ~plain
  BY <1>1 DEF Asked
<1> QED
  BY <1>1, <1>5, <1>10, <1>11 DEF Asked

\* What is written as HTTP/1.1 does not ask.
LEMMA AskFlush ==
    ASSUME IInv, KeepInv, Asked, NEW connected, Flushes(connected), up = "http1"
    PROVE  parser = "over" /\ \A k \in DOMAIN wrote : ~Asking(wrote[k])
<1>1. request # NoRequest /\ request.stat = "COMPLETE" /\ ~request.upgrade_http2
  BY DEF Flushes, NoRequest
<1>2. parser = "over"
  <2>1. parser \notin {"field", "tail", "value", "body"} /\ parser # "start"
    BY <1>1 DEF IInv, Parsing, Begun
  <2> QED
    BY <2>1 DEF KeepInv, InputTyped
<1> QED
  BY <1>1, <1>2 DEF Asked, Knows

LEMMA AskOthers ==
    ASSUME IInv, KeepInv, Asked, cuts' = 0,
           \/ ReadCb \/ htp_uricb \/ htp_hdrs_completecb \/ htp_bodycb \/ htp_msg_completecb
           \/ ReadDone \/ ConnectedH2 \/ Connected \/ UNCHANGED vars
    PROVE  Asked'
<1>1. CASE ReadCb \/ UNCHANGED vars
  BY <1>1 DEF ReadCb, vars, inputVars, parserVars, connectionVars, Asked, Knows, Asking,
              Writing, InTrailer
<1>2. CASE htp_uricb
  <2>1. wrote' = wrote /\ read' = "running" /\ parser = "start" /\ parser' = "field" /\ plain' = plain
    BY <1>2 DEF htp_uricb, inputVars, connectionVars, IInv, Parsing
  <2>2. DOMAIN wrote' = {}
    BY <2>1 DEF KeepInv, Arriving
  <2> QED
    BY <2>1, <2>2 DEF Asked, Knows
<1>3. CASE htp_hdrs_completecb \/ htp_bodycb \/ htp_msg_completecb
  <2>1. /\ read = "running" /\ read' = read /\ parser \in {"field", "body"}
        /\ parser' \in {"body", "over"} /\ up = "http1"
        /\ wrote' = wrote /\ plain' = plain
    BY <1>3 DEF htp_hdrs_completecb, htp_bodycb, htp_msg_completecb, inputVars, parserVars,
                connectionVars, IInv, Parsing
  <2>2. request # NoRequest /\ request \in Held
    BY <2>1, Inside DEF KeepInv
  <2>3. request'.upgrade_http2 = request.upgrade_http2
    BY <1>3, <2>2 DEF Held, htp_hdrs_completecb, htp_bodycb, htp_msg_completecb
  <2>4. ~plain
    BY <2>1 DEF Asked
  <2>5. Knows'
    BY <2>1, <2>2, <2>3 DEF Asked, Knows, Asking
  <2> QED
    BY <2>1, <2>4, <2>5 DEF Asked
<1>4. CASE ReadDone
  <2>1. read' = "idle" /\ up = "http1" /\ UNCHANGED <<wrote, parser, rest, curheader, trailers>>
    BY <1>4 DEF ReadDone, inputVars, parserVars, IInv, Parsing, Asked
  <2>2. CASE Flushes(down # "none")
    <3>1. request' = NoRequest /\ parser = "over" /\ \A k \in DOMAIN wrote : ~Asking(wrote[k])
      BY <1>4, <2>1, <2>2, AskFlush DEF ReadDone, DoFlush
    <3> QED
      BY <2>1, <3>1 DEF Asked, Knows, Asking
  <2>3. CASE ~Flushes(down # "none")
    <3>1. request' = request /\ plain' = plain /\ up' = up
      BY <1>4, <2>3 DEF ReadDone, DoFlush
    <3> QED
      BY <2>1, <3>1 DEF Asked, Knows, Asking, Writing, InTrailer
  <2> QED
    BY <2>2, <2>3
<1>5. CASE ConnectedH2
  <2>1. request # NoRequest /\ request.upgrade_http2
    BY <1>5 DEF ConnectedH2, IInv, OfferOpen
  <2>2. /\ up' = "http2" /\ request' = NoRequest /\ plain' = plain /\ read' = read
        /\ UNCHANGED <<wrote, parser>>
    BY <1>5, <2>1 DEF ConnectedH2, switchinghttp2, inputVars, parserVars
  <2> QED
    BY <2>2 DEF Asked, Knows, Asking
<1>6. CASE Connected
  <2>1. /\ read' = read /\ read = "idle" /\ down = "none"
        /\ UNCHANGED <<up, wrote, parser, rest, curheader, trailers>>
    BY <1>6 DEF Connected, inputVars, parserVars
  <2>2. up = "http1"
    BY <2>1 DEF IInv, NotYet, KeepInv, InputTyped
  <2>3. CASE Flushes(TRUE)
    <3>1. request' = NoRequest /\ parser = "over" /\ \A k \in DOMAIN wrote : ~Asking(wrote[k])
      BY <1>6, <2>2, <2>3, AskFlush DEF Connected, DoFlush
    <3> QED
      BY <2>1, <3>1 DEF Asked, Knows, Asking
  <2>4. CASE ~Flushes(TRUE)
    <3>1. request' = request /\ plain' = plain
      BY <1>6, <2>4 DEF Connected, DoFlush
    <3> QED
      BY <2>1, <3>1 DEF Asked, Knows, Asking, Writing, InTrailer
  <2> QED
    BY <2>3, <2>4
<1> QED
  BY <1>1, <1>2, <1>3, <1>4, <1>5, <1>6

LEMMA NextAsk == IInv /\ KeepInv /\ AskInv /\ [Next]_vars => AskInv'
<1> SUFFICES ASSUME IInv, KeepInv, AskInv, [Next]_vars, cuts' = 0 PROVE Asked'
  BY DEF AskInv, Asked
<1>1. cuts = 0
  <2>1. cuts \in Nat
    BY DEF KeepInv, InputTyped
  <2>2. cuts' = cuts \/ Cut
    BY DEF Next, vars, inputVars, Whole, ReadCb, htp_uricb, htp_hdr_keycb, htp_hdr_valcb,
           htp_hdrs_completecb, htp_bodycb, htp_msg_completecb, ReadDone, ConnectedH2, Connected
  <2>3. ~Cut
    BY <2>1 DEF Cut
  <2> QED
    BY <2>2, <2>3
<1>2. Asked
  BY <1>1 DEF AskInv, Asked
<1>3. CASE htp_hdr_keycb
  BY <1>2, <1>3, AskKey
<1>4. CASE htp_hdr_valcb
  BY <1>2, <1>4, AskValue
<1>5. CASE ~(htp_hdr_keycb \/ htp_hdr_valcb)
  <2>1. \/ ReadCb \/ htp_uricb \/ htp_hdrs_completecb \/ htp_bodycb \/ htp_msg_completecb
        \/ ReadDone \/ ConnectedH2 \/ Connected \/ UNCHANGED vars
    BY <1>5 DEF Next
  <2> QED
    BY <1>2, <2>1, AskOthers
<1> QED
  BY <1>3, <1>4, <1>5

\* get finds the first field of the name.
LEMMA GetFinds ==
    ASSUME NEW S, NEW block \in Seq(S), NEW n, has(block, n)
    PROVE  \E k \in DOMAIN block : get(block, n) = block[k] /\ block[k].name = n
<1> DEFINE K == {k \in DOMAIN block : block[k].name = n}
           First(k) == block[k].name = n /\ \A j \in 1..k - 1 : block[j].name # n
<1>1. DOMAIN block = 1..Len(block) /\ Len(block) \in Nat
  OBVIOUS
<1>2. K \in SUBSET Nat /\ K # {}
  BY <1>1 DEF has
<1>3. PICK k \in K : \A j \in K : ~(j < k)
  BY <1>2, Least
<1>4. ASSUME NEW j \in 1..k - 1 PROVE block[j].name # n
  <2>1. k \in 1..Len(block) /\ j \in 1..Len(block) /\ j < k
    BY <1>1, <1>3
  <2> QED
    BY <1>1, <1>3, <2>1
<1>5. k \in DOMAIN block /\ First(k)
  BY <1>3, <1>4
<1>6. get(block, n) = block[CHOOSE i \in DOMAIN block : First(i)]
  BY DEF get
<1> HIDE DEF First
<1>7. (CHOOSE i \in DOMAIN block : First(i)) \in DOMAIN block /\ First(CHOOSE i \in DOMAIN block : First(i))
  BY <1>5
<1> QED
  BY <1>6, <1>7 DEF First

\* Over TLS a request that asks for HTTP/2 waits for it: whenever it asks and
\* whatever the connection was made with, DoFlush does not write it as HTTP/1.1.
THEOREM UpgradeNeverPlainCorrect == Spec => []UpgradeNeverPlain
<1>1. Init => IInv /\ KeepInv /\ AskInv
  BY StartsInv, StartsKeep, StartsAsk
<1>2. IInv /\ KeepInv /\ AskInv /\ [Next]_vars => IInv' /\ KeepInv' /\ AskInv'
  BY NextKeepsInv, NextKeeps, NextAsk
<1>3. KeepInv /\ AskInv => UpgradeNeverPlain
  <2> SUFFICES ASSUME KeepInv, AskInv, plain, cuts = 0, Asks(wrote) PROVE FALSE
    BY DEF UpgradeNeverPlain
  <2>1. \A k \in DOMAIN wrote : ~Asking(wrote[k])
    BY DEF AskInv
  <2>2. wrote \in Seq(Fields) /\ has(wrote, "Upgrade") /\ get(wrote, "Upgrade").value = <<"h2c">>
    BY DEF KeepInv, InputTyped, Asks
  <2>3. \E k \in DOMAIN wrote : get(wrote, "Upgrade") = wrote[k] /\ wrote[k].name = "Upgrade"
    BY <2>2, GetFinds
  <2> QED
    BY <2>1, <2>2, <2>3 DEF Asking
<1> QED
  BY <1>1, <1>2, <1>3, PTL DEF Spec
=============================================================================
