-------------------------- MODULE Http2Relay_proofs --------------------------
(***************************************************************************)
(* Proofs about Http2Relay, for every set of streams, every bound and      *)
(* every flow-control window: the types of the state, the places where the *)
(* session ends, where each frame is between the peer that sent it and the *)
(* peer it is for, and that the frames of a stream keep their order.       *)
(***************************************************************************)
EXTENDS Http2RelayOrder, SequenceTheorems, FiniteSetTheorems, NaturalsInduction, SequenceLemmas, TLAPS

(***************************************************************************)
(* Type correctness.  It is inductive together with two facts: a read      *)
(* never decodes more than the peer has sent, and a stored message holds   *)
(* at least the HEADERS frame that made it a stored one.                   *)
(***************************************************************************)
Decoding(s) == IF handler = s /\ cursor = 0 THEN todo ELSE 0
ReadsWhatIsThere == \A s \in Side : parsed[s] + Decoding(s) <= 2 * Len(sent[s])
StoredHasHeader ==
    \A s \in Side : \A i \in DOMAIN messages[s] :
       messages[s][i].store => messages[s][i].frames # <<>>
TypeInv == TypeOK /\ ReadsWhatIsThere /\ StoredHasHeader

LEMMA SideOther == \A s \in Side : Other(s) \in Side
BY DEF Side, Other

LEMMA ShortSeqs == ASSUME NEW S, NEW e \in S PROVE <<e>> \in Seq(S) /\ <<>> \in Seq(S)
OBVIOUS

\* The message on_frame_recv_callback leaves is a message again.
LEMMA ReceivedType ==
    ASSUME NEW m \in Message, NEW f \in Frame, NEW n \in Nat, f.type # "WINDOW_UPDATE"
    PROVE  /\ Received(m, f, n) \in Message
           /\ Received(m, f, n).frames # <<>>
<1>1. m.frames \in Seq(Nat) /\ m.type \in MessageType /\ m.stream \in Nat /\ m.store \in BOOLEAN
  BY DEF Message
<1>2. f.type \in MessageType /\ f.gzip \in BOOLEAN
  BY DEF Frame, MessageType
<1>3. Append(m.frames, n) \in Seq(Nat) /\ <<n>> \in Seq(Nat)
  BY <1>1
<1>4. Append(m.frames, n) # <<>> /\ <<n>> # <<>>
  BY <1>1
<1>5. /\ (m.store \/ f.gzip) \in BOOLEAN
      /\ (IF ~(m.store \/ f.gzip) \/ f.end THEN "COMPLETE" ELSE "BODY")
           \in {"INIT", "HEADER", "BODY", "COMPLETE"}
  BY <1>1, <1>2
<1> QED
  BY <1>1, <1>2, <1>3, <1>4, <1>5 DEF Received, Message

\* The parts of what submit_message writes are well formed, and the whole is.
LEMMA SubmittedParts ==
    ASSUME NEW s \in Side, NEW m \in Message, m.store => m.frames # <<>>
    PROVE  /\ Opening(s) \in Seq(Written)
           /\ HeadOf(m) \in Seq(Written)
           /\ BodyOf(m) \in Written
<1>1. m.frames \in Seq(Nat) /\ m.type \in MessageType /\ m.stream \in Nat
  BY DEF Message
<1>2. ASSUME m.store
      PROVE  /\ SubSeq(m.frames, 1, 1) \in Seq(Nat)
             /\ SubSeq(m.frames, 2, Len(m.frames)) \in Seq(Nat)
  <2>1. Len(m.frames) \in Nat /\ Len(m.frames) >= 1
    BY <1>1, <1>2
  <2>2. \A i \in 1..Len(m.frames) : m.frames[i] \in Nat
    BY <1>1
  <2>3. SubSeq(m.frames, 1, 1) \in Seq(Nat)
    BY <2>1, <2>2, SubSeqProperties
  <2>4. SubSeq(m.frames, 2, Len(m.frames)) \in Seq(Nat)
    BY <2>1, <2>2, SubSeqProperties
  <2> QED
    BY <2>3, <2>4
<1>3. BodyOf(m) \in Written
  BY <1>1, <1>2 DEF BodyOf, MessageType, FrameType, Written
<1>4. HeadOf(m) \in Seq(Written)
  <2> DEFINE of == IF m.store THEN SubSeq(m.frames, 1, 1) ELSE m.frames
             w  == [type |-> m.type, stream |-> m.stream, of |-> of]
  <2>1. of \in Seq(Nat)
    BY <1>1, <1>2
  <2>2. w \in Written
    BY <1>1, <2>1 DEF Written
  <2>3. HeadOf(m) = IF m.type = "DATA" THEN <<>> ELSE <<w>>
    BY DEF HeadOf
  <2> HIDE DEF w
  <2> QED
    BY <2>2, <2>3, ShortSeqs
<1>5. Magic \in Written
  <2>1. <<>> \in Seq(Nat)
    OBVIOUS
  <2> QED
    BY <2>1 DEF Magic, Written
<1>6. Opening(s) \in Seq(Written)
  BY <1>5, ShortSeqs DEF Opening
<1> QED
  BY <1>3, <1>4, <1>6

\* What nghttp2 writes of its own accord: no frame of the far peer is in it.
Unasked == {Magic, WindowUpdate}

LEMMA UnaskedType ==
    /\ Unasked \subseteq Written
    /\ \A w \in Unasked : w.of = <<>> /\ w.stream = 0 /\ w.type \in {"MAGIC", "WINDOW_UPDATE"}
<1>1. <<>> \in Seq(Nat)
  OBVIOUS
<1> QED
  BY <1>1 DEF Unasked, Magic, WindowUpdate, Written

LEMMA UnaskedWritten == ASSUME NEW x \in Seq(Unasked) PROVE x \in Seq(Written)
BY UnaskedType, SeqMonotonic

LEMMA OpeningUnasked == \A s : Opening(s) \in Seq(Unasked)
<1>1. Magic \in Unasked
  BY DEF Unasked
<1> HIDE DEF Magic
<1> QED
  BY <1>1, ShortSeqs DEF Opening

LEMMA HalfType == Half \in Nat \ {0}
BY ConstantsAssumption DEF Half

\* A sequence of one thing, as many times as an integer says.
LEMMA Repeated == ASSUME NEW k \in Int, NEW c PROVE [i \in 1..k |-> c] \in Seq({c})
<1>1. CASE k < 0
  <2>1. 1..k = 1..0
    BY <1>1
  <2>2. [i \in 1..0 |-> c] \in Seq({c})
    OBVIOUS
  <2> QED
    BY <2>1, <2>2
<1>2. CASE k >= 0
  <2>1. k \in Nat
    BY <1>2
  <2> QED
    BY <2>1
<1> QED
  BY <1>1, <1>2

\* How much the proxy owes of the window is a number, so Updates is a sequence.
LEMMA UpdatesType ==
    ASSUME TypeOK, NEW s \in Side
    PROVE  Updates(s) \in Seq({WindowUpdate})
<1>1. Len(sent[s]) \in Nat /\ DOMAIN sent[s] = 1..Len(sent[s])
      /\ Len(out[s]) \in Nat /\ DOMAIN out[s] = 1..Len(out[s])
  BY DEF TypeOK
<1>2. /\ DecodedOf(s, {"DATA"}) \subseteq 1..Len(sent[s])
      /\ WrittenOf(s, {"WINDOW_UPDATE"}) \subseteq 1..Len(out[s])
  BY <1>1 DEF DecodedOf, Of, WrittenOf
<1>3. /\ Cardinality(DecodedOf(s, {"DATA"})) \in Nat
      /\ Cardinality(WrittenOf(s, {"WINDOW_UPDATE"})) \in Nat
  <2>1. \A n \in Nat : IsFiniteSet(1..n)
    BY FS_Interval
  <2>2. IsFiniteSet(DecodedOf(s, {"DATA"})) /\ IsFiniteSet(WrittenOf(s, {"WINDOW_UPDATE"}))
    BY <1>1, <1>2, <2>1, FS_Subset
  <2> QED
    BY <2>2, FS_CardinalityType
<1>4. Unreturned(s) \in Int
  BY <1>3, HalfType DEF Unreturned
<1>5. Unreturned(s) \div Half \in Int
  BY <1>4, HalfType
<1> DEFINE k == Unreturned(s) \div Half
<1>6. k \in Int
  BY <1>5
<1> HIDE DEF k
<1>7. [i \in 1..k |-> WindowUpdate] \in Seq({WindowUpdate})
  BY <1>6, Repeated
<1> QED
  BY <1>7 DEF Updates, k

LEMMA UpdatesUnasked ==
    ASSUME TypeOK, NEW s \in Side
    PROVE  Updates(s) \in Seq(Unasked) /\ Updates(s) \in Seq(Written)
<1>1. {WindowUpdate} \subseteq Unasked
  BY DEF Unasked
<1>2. Updates(s) \in Seq(Unasked)
  BY <1>1, UpdatesType, SeqMonotonic
<1> QED
  BY <1>2, UnaskedWritten

LEMMA RelayedType ==
    ASSUME NEW s \in Side, NEW m \in Message, m.store => m.frames # <<>>
    PROVE  Relayed(s, m) \in Seq(Written)
<1> DEFINE body == IF HasBody(m) /\ ~Blocked(s, m.stream) /\ Window(s) > 0
                   THEN <<BodyOf(m)>> ELSE <<>>
<1>1. body \in Seq(Written)
  BY SubmittedParts, ShortSeqs
<1> HIDE DEF body
<1>2. HeadOf(m) \o Opening(s) \in Seq(Written)
      /\ Opening(s) \o HeadOf(m) \o body \in Seq(Written)
  BY <1>1, SubmittedParts, ConcatProperties
<1> QED
  BY <1>2 DEF Relayed, body

LEMMA SubmittedType ==
    ASSUME TypeOK, NEW s \in Side, NEW m \in Message, m.store => m.frames # <<>>
    PROVE  Submitted(s, m) \in Seq(Written)
<1>1. Relayed(s, m) \in Seq(Written) /\ Updates(s) \in Seq(Written)
  BY RelayedType, UpdatesUnasked
<1> QED
  BY <1>1, ConcatProperties DEF Submitted

\* The session_send that ends DoFlush adds only what nghttp2 writes unasked.
LEMMA FlushDoneOut ==
    ASSUME TypeOK, NEW s \in Side, FlushDone(s)
    PROVE  \E x \in Seq(Unasked) :
              /\ out' = [out EXCEPT ![s] = @ \o x]
              /\ x # <<>> => s = "up" \/ client = "connected"
<1>1. Opening(s) \in Seq(Unasked) /\ Updates(s) \in Seq(Unasked)
  BY OpeningUnasked, UpdatesUnasked
<1>2. out[s] \in Seq(Written) /\ Opening(s) \in Seq(Written) /\ Updates(s) \in Seq(Written)
  BY <1>1, UnaskedWritten DEF TypeOK
<1>3. CASE s = "up" \/ client = "connected"
  <2>1. Opening(s) \o Updates(s) \in Seq(Unasked)
    BY <1>1, ConcatProperties
  <2>2. (out[s] \o Opening(s)) \o Updates(s) = out[s] \o (Opening(s) \o Updates(s))
    <3> DEFINE a == out[s]
               b == Opening(s)
               c == Updates(s)
    <3>1. a \in Seq(Written) /\ b \in Seq(Written) /\ c \in Seq(Written)
      BY <1>2
    <3> HIDE DEF a, b, c
    <3>2. (a \o b) \o c = a \o (b \o c)
      BY <3>1, ConcatAssociative
    <3> QED
      BY <3>2 DEF a, b, c
  <2>3. out' = [out EXCEPT ![s] = (out[s] \o Opening(s)) \o Updates(s)]
    BY <1>3 DEF FlushDone
  <2> QED
    BY <1>3, <2>1, <2>2, <2>3
<1>4. CASE ~(s = "up" \/ client = "connected")
  <2>1. out' = out
    BY <1>4 DEF FlushDone
  <2>2. <<>> \in Seq(Unasked) /\ out[s] \o <<>> = out[s]
    BY <1>2
  <2>3. out = [out EXCEPT ![s] = out[s]]
    BY DEF TypeOK
  <2> QED
    BY <2>1, <2>2, <2>3
<1> QED
  BY <1>3, <1>4

LEMMA RemoveAtType ==
    ASSUME NEW S, NEW q \in Seq(S), NEW i \in DOMAIN q
    PROVE  /\ RemoveAt(q, i) \in Seq(S)
           /\ Len(RemoveAt(q, i)) = Len(q) - 1
           /\ \A j \in 1..(Len(q) - 1) :
                RemoveAt(q, i)[j] = IF j < i THEN q[j] ELSE q[j + 1]
<1>1. i \in 1..Len(q) /\ Len(q) \in Nat
  OBVIOUS
<1>2. \A j \in 1..Len(q) : q[j] \in S
  OBVIOUS
<1> DEFINE front == SubSeq(q, 1, i - 1)
           back == SubSeq(q, i + 1, Len(q))
<1>3. front \in Seq(S) /\ Len(front) = i - 1 /\ \A j \in 1..(i - 1) : front[j] = q[j]
  BY <1>1, <1>2, SubSeqProperties
<1>4. back \in Seq(S) /\ Len(back) = Len(q) - i /\ \A j \in 1..(Len(q) - i) : back[j] = q[i + j]
  BY <1>1, <1>2, SubSeqProperties
<1> HIDE DEF front, back
<1>5. /\ front \o back \in Seq(S)
      /\ Len(front \o back) = Len(q) - 1
      /\ \A j \in 1..(Len(q) - 1) :
           (front \o back)[j] = IF j <= i - 1 THEN front[j] ELSE back[j - (i - 1)]
  <2>1. Len(front) + Len(back) = Len(q) - 1
    BY <1>1, <1>3, <1>4
  <2>2. /\ front \o back \in Seq(S)
        /\ Len(front \o back) = Len(front) + Len(back)
        /\ \A j \in 1..(Len(front) + Len(back)) :
             (front \o back)[j] = IF j <= Len(front) THEN front[j] ELSE back[j - Len(front)]
    BY <1>3, <1>4, ConcatProperties
  <2>3. Len(front) = i - 1
    BY <1>3
  <2> QED
    BY <2>1, <2>2, <2>3
<1>6. ASSUME NEW j \in 1..(Len(q) - 1)
      PROVE  (front \o back)[j] = IF j < i THEN q[j] ELSE q[j + 1]
  <2>1. j \in Int /\ i \in Int
    BY <1>1
  <2>2. ASSUME j < i PROVE (front \o back)[j] = q[j]
    <3>1. j <= i - 1 /\ j \in 1..(i - 1)
      BY <1>1, <2>1, <2>2
    <3> QED
      BY <1>3, <1>5, <3>1
  <2>3. ASSUME ~(j < i) PROVE (front \o back)[j] = q[j + 1]
    <3>1. ~(j <= i - 1) /\ j - (i - 1) \in 1..(Len(q) - i) /\ i + (j - (i - 1)) = j + 1
      BY <1>1, <2>1, <2>3
    <3>2. back[j - (i - 1)] = q[j + 1]
      BY <1>4, <3>1
    <3> QED
      BY <1>5, <3>1, <3>2
  <2> QED
    BY <2>2, <2>3
<1> QED
  BY <1>5, <1>6 DEF RemoveAt, front, back

THEOREM InitTypeInv == Init => TypeInv
<1> SUFFICES ASSUME Init PROVE TypeInv
  OBVIOUS
<1>1. /\ UpgradedRequest \in Frame
      /\ Own("SETTINGS", "INIT") \in Message /\ UpgradedMessage \in Message
  BY DEF UpgradedRequest, Frame, FrameType, Own, UpgradedMessage, Message, MessageType
<1>2. sent \in [Side -> Seq(Frame)]
  BY <1>1 DEF Init
<1>3. messages \in [Side -> Seq(Message)]
  <2>1. <<Own("SETTINGS", "INIT"), UpgradedMessage>> \in Seq(Message)
    BY <1>1
  <2> QED
    BY <2>1 DEF Init
<1>4. parsed \in [Side -> Nat] /\ ReadsWhatIsThere
  BY <1>2 DEF Init, ReadsWhatIsThere, Decoding, Side
<1>5. StoredHasHeader
  BY DEF Init, StoredHasHeader, Own, UpgradedMessage
<1>6. /\ mode \in Modes
      /\ out \in [Side -> Seq(Written)] /\ deferred \in [Side -> Seq(Nat)]
      /\ settings \in [Side -> BOOLEAN] /\ signalled \in [Side -> BOOLEAN]
  BY DEF Init
<1>7. /\ client \in {"none", "connecting", "connected", "refused"}
      /\ recvwait \in BOOLEAN /\ upgrading \in BOOLEAN
      /\ preface \in {"pending", "sent", "dropped"}
      /\ handler \in Side \cup {"idle"} /\ todo \in Nat /\ cursor \in Nat
  BY DEF Init, Side
<1> QED
  BY <1>2, <1>3, <1>4, <1>5, <1>6, <1>7 DEF TypeInv, TypeOK

(***************************************************************************)
(* Each action of the specification preserves TypeInv.                     *)
(***************************************************************************)
LEMMA SendTypeInv ==
    ASSUME TypeInv, NEW s \in Side, NEW f \in Frame, Send(s, f)
    PROVE  TypeInv'
<1>1. sent' = [sent EXCEPT ![s] = Append(@, f)] /\ sent' \in [Side -> Seq(Frame)]
  <2>1. sent \in [Side -> Seq(Frame)] /\ sent' = [sent EXCEPT ![s] = Append(@, f)]
    BY DEF TypeInv, TypeOK, Send
  <2> DEFINE longer == Append(sent[s], f)
  <2>2. longer \in Seq(Frame)
    BY <2>1
  <2>3. sent' = [sent EXCEPT ![s] = longer]
    BY <2>1
  <2> HIDE DEF longer
  <2>4. sent' \in [Side -> Seq(Frame)]
    BY <2>1, <2>2, <2>3
  <2> QED
    BY <2>1, <2>4
<1>2. \A r \in Side : Len(sent'[r]) >= Len(sent[r]) /\ Len(sent[r]) \in Nat
  BY <1>1, SMTT(30) DEF TypeInv, TypeOK
<1>3. ReadsWhatIsThere'
  BY <1>1, <1>2 DEF TypeInv, TypeOK, ReadsWhatIsThere, Decoding, Send
<1>4. StoredHasHeader'
  BY DEF TypeInv, StoredHasHeader, Send
<1>5. signalled' \in [Side -> BOOLEAN]
  BY DEF TypeInv, TypeOK, Send
<1> QED
  <2>1. UNCHANGED <<mode, parsed, messages, client, recvwait, upgrading, preface,
                    settings, out, deferred, handler, todo, cursor>>
    BY DEF Send, sessionVars
  <2> QED
    BY <1>1, <1>3, <1>4, <1>5, <2>1 DEF TypeInv, TypeOK

LEMMA PeerTypeInv ==
    ASSUME TypeInv, NEW s \in Side, Peer(s)
    PROVE  TypeInv'
<1>1. \A t \in {"SETTINGS", "ACK", "WINDOW_UPDATE", "PING"} : Control(t) \in Frame
  BY DEF Control, Frame, FrameType
<1>2. Requested(s) \subseteq Nat
  <2>1. \A n \in DOMAIN out["down"] : out["down"][n].stream \in Nat
    <3>1. out["down"] \in Seq(Written)
      BY DEF TypeInv, TypeOK, Side
    <3>2. \A w \in Written : w.stream \in Nat
      BY DEF Written
    <3> QED
      BY <3>1, <3>2
  <2>2. CASE s = "up"
    BY <2>2, ConstantsAssumption DEF Requested
  <2>3. CASE s # "up"
    <3>1. {out["down"][n].stream : n \in WrittenOf("down", {"HEADERS"})} \subseteq Nat
      BY <2>1 DEF WrittenOf
    <3> QED
      BY <2>3, <3>1 DEF Requested
  <2> QED
    BY <2>2, <2>3
<1>3. CASE SendSettings(s)
  BY <1>1, <1>3, SendTypeInv DEF SendSettings
<1>4. CASE SendAck(s)
  BY <1>1, <1>4, SendTypeInv DEF SendAck
<1>5. CASE SendWindowUpdate(s)
  BY <1>1, <1>5, SendTypeInv DEF SendWindowUpdate
<1>6. CASE SendPing(s)
  BY <1>1, <1>6, SendTypeInv DEF SendPing
<1>7. CASE SendHeaders(s)
  <2>1. PICK t \in Requested(s), e \in BOOLEAN, z \in BOOLEAN :
           Send(s, [type |-> "HEADERS", stream |-> t, end |-> e, gzip |-> z])
    BY <1>7 DEF SendHeaders
  <2>2. [type |-> "HEADERS", stream |-> t, end |-> e, gzip |-> z] \in Frame
    BY <1>2 DEF Frame, FrameType
  <2> QED
    BY <2>1, <2>2, SendTypeInv
<1>8. CASE SendBody(s)
  <2>1. PICK t \in Requested(s), e \in BOOLEAN, y \in {"DATA", "HEADERS"} :
           Send(s, [type |-> y, stream |-> t, end |-> e, gzip |-> FALSE])
    BY <1>8 DEF SendBody
  <2>2. [type |-> y, stream |-> t, end |-> e, gzip |-> FALSE] \in Frame
    BY <1>2 DEF Frame, FrameType
  <2> QED
    BY <2>1, <2>2, SendTypeInv
<1> QED
  BY <1>3, <1>4, <1>5, <1>6, <1>7, <1>8 DEF Peer

LEMMA ReadTypeInv ==
    ASSUME TypeInv, NEW s \in Side, ReadCb(s) \/ ReadIgnored \/ ReadDone(s)
    PROVE  TypeInv'
<1> USE DEF TypeInv, TypeOK, StoredHasHeader
<1>1. CASE ReadCb(s)
  <2>1. PICK k \in 1..Units(s) :
           /\ todo' = k
           /\ signalled' = [signalled EXCEPT ![s] = k < Units(s)]
    BY <1>1 DEF ReadCb
  <2>2. Units(s) \in Int /\ todo' \in Nat /\ (k < Units(s)) \in BOOLEAN
    BY <2>1 DEF Units
  <2>3. signalled' \in [Side -> BOOLEAN]
    BY <2>1, <2>2
  <2>4. ReadsWhatIsThere'
    <3>1. UNCHANGED <<sent, parsed>> /\ handler' = s /\ cursor' = 0 /\ handler = "idle"
      BY <1>1 DEF ReadCb, peerVars
    <3>2. todo' + parsed[s] <= 2 * Len(sent[s])
      BY <2>1 DEF Units
    <3>3. ASSUME NEW r \in Side PROVE parsed[r] <= 2 * Len(sent[r])
      BY <3>1 DEF ReadsWhatIsThere, Decoding, Side
    <3>4. ASSUME NEW r \in Side PROVE parsed'[r] + Decoding(r)' <= 2 * Len(sent'[r])
      <4>1. parsed[s] \in Nat /\ parsed[r] \in Nat
        OBVIOUS
      <4>2. CASE r = s
        BY <2>2, <3>1, <3>2, <4>1, <4>2 DEF Decoding
      <4>3. CASE r # s
        BY <3>1, <3>3, <4>1, <4>3 DEF Decoding
      <4> QED
        BY <4>2, <4>3
    <3> QED
      BY <3>4 DEF ReadsWhatIsThere
  <2> QED
    BY <1>1, <2>2, <2>3, <2>4 DEF ReadCb, peerVars, sessionVars
<1>2. CASE ReadIgnored
  BY <1>2 DEF ReadIgnored, peerVars, sessionVars, ReadsWhatIsThere, Decoding
<1>3. CASE ReadDone(s)
  <2>1. ReadsWhatIsThere'
    BY <1>3 DEF ReadDone, ReadsWhatIsThere, Decoding, peerVars, inputVars, Side
  <2> QED
    BY <1>3, <2>1 DEF ReadDone, peerVars, inputVars, sessionVars
<1> QED
  BY <1>1, <1>2, <1>3

\* The frame a callback works on has been sent.
LEMMA DecodedFrame ==
    ASSUME TypeInv, NEW s \in Side, handler = s, cursor = 0, todo > 0
    PROVE  /\ parsed[s] \in Nat
           /\ parsed[s] + 1 <= 2 * Len(sent[s])
           /\ parsed[s] % 2 = 0 =>
                sent[s][parsed[s] \div 2 + 1] \in Frame
           /\ parsed[s] % 2 = 1 =>
                /\ (parsed[s] + 1) \div 2 \in Nat
                /\ sent[s][(parsed[s] + 1) \div 2] \in Frame
<1>1. /\ parsed[s] \in Nat /\ todo \in Nat
      /\ sent[s] \in Seq(Frame) /\ Len(sent[s]) \in Nat
      /\ parsed[s] + todo <= 2 * Len(sent[s])
  BY DEF TypeInv, TypeOK, ReadsWhatIsThere, Decoding
<1>2. ASSUME parsed[s] % 2 = 0 PROVE parsed[s] \div 2 + 1 \in 1..Len(sent[s])
  BY <1>1, <1>2
<1>3. ASSUME parsed[s] % 2 = 1 PROVE (parsed[s] + 1) \div 2 \in 1..Len(sent[s])
  BY <1>1, <1>3
<1>4. \A n \in 1..Len(sent[s]) : n \in Nat /\ sent[s][n] \in Frame
  BY <1>1
<1>5. parsed[s] + 1 <= 2 * Len(sent[s])
  BY <1>1
<1> QED
  BY <1>1, <1>2, <1>3, <1>4, <1>5

LEMMA CallbackTypeInv ==
    ASSUME TypeInv, NEW s \in Side,
           on_begin_frame_callback(s) \/ on_frame_recv_callback(s)
    PROVE  TypeInv'
<1>1. handler = s /\ cursor = 0 /\ todo > 0 /\ todo \in Nat
  BY DEF on_begin_frame_callback, on_frame_recv_callback, TypeInv, TypeOK
<1>2. /\ parsed' = [parsed EXCEPT ![s] = @ + 1] /\ todo' = todo - 1
      /\ UNCHANGED <<peerVars, signalled, client, sessionVars, handler, cursor>>
  BY DEF on_begin_frame_callback, on_frame_recv_callback
<1>3. parsed' \in [Side -> Nat] /\ todo' \in Nat
  BY <1>1, <1>2 DEF TypeInv, TypeOK
<1>4. ReadsWhatIsThere'
  <2>1. UNCHANGED <<sent, handler, cursor>>
    BY <1>2 DEF peerVars
  <2>2. parsed'[s] + todo' = parsed[s] + todo
    BY <1>1, <1>2 DEF TypeInv, TypeOK
  <2>3. \A r \in Side : r # s => parsed'[r] = parsed[r]
    BY <1>2 DEF TypeInv, TypeOK
  <2> QED
    BY <1>1, <2>1, <2>2, <2>3 DEF TypeInv, ReadsWhatIsThere, Decoding
<1>5. messages' \in [Side -> Seq(Message)] /\ StoredHasHeader'
  <2>1. CASE on_begin_frame_callback(s)
    <3> DEFINE f == sent[s][parsed[s] \div 2 + 1]
    <3>1. CASE messages' = messages
      BY <3>1 DEF TypeInv, TypeOK, StoredHasHeader
    <3>2. CASE /\ messages' = [messages EXCEPT ![s] = Append(@, NewMessage(f))]
               /\ PassedOn(s, f)
      <4>1. f \in Frame
        BY <1>1, <2>1, DecodedFrame DEF on_begin_frame_callback
      <4>2. NewMessage(f) \in Message /\ ~NewMessage(f).store
        BY <3>2, <4>1 DEF NewMessage, Message, MessageType, Frame, PassedOn
      <4> HIDE DEF f
      <4>3. Append(messages[s], NewMessage(f)) \in Seq(Message)
        BY <4>2 DEF TypeInv, TypeOK
      <4>4. \A i \in DOMAIN Append(messages[s], NewMessage(f)) :
              \/ i \in DOMAIN messages[s]
                   /\ Append(messages[s], NewMessage(f))[i] = messages[s][i]
              \/ Append(messages[s], NewMessage(f))[i] = NewMessage(f)
        BY <4>2 DEF TypeInv, TypeOK
      <4> QED
        BY <3>2, <4>2, <4>3, <4>4 DEF TypeInv, TypeOK, StoredHasHeader
    <3> QED
      BY <2>1, <3>1, <3>2 DEF on_begin_frame_callback
  <2>2. CASE on_frame_recv_callback(s)
    <3> DEFINE n == (parsed[s] + 1) \div 2
               f == sent[s][n]
               new(i) == IF PassedOn(s, f) /\ i \in getMessage(s, f)
                         THEN Received(messages[s][i], f, n) ELSE messages[s][i]
    <3>1. messages' = [messages EXCEPT ![s] = [i \in DOMAIN messages[s] |-> new(i)]]
      BY <2>2 DEF on_frame_recv_callback
    <3>2. n \in Nat /\ f \in Frame
      BY <1>1, <2>2, DecodedFrame DEF on_frame_recv_callback
    <3>3. ASSUME NEW i \in DOMAIN messages[s]
          PROVE  new(i) \in Message /\ (new(i).store => new(i).frames # <<>>)
      <4>1. messages[s][i] \in Message
            /\ (messages[s][i].store => messages[s][i].frames # <<>>)
        BY DEF TypeInv, TypeOK, StoredHasHeader
      <4> HIDE DEF n, f
      <4> QED
        BY <3>2, <4>1, ReceivedType DEF PassedOn
    <3> HIDE DEF new
    <3>4. /\ DOMAIN messages[s] = 1..Len(messages[s]) /\ Len(messages[s]) \in Nat
      BY DEF TypeInv, TypeOK
    <3>5. [i \in DOMAIN messages[s] |-> new(i)] \in Seq(Message)
      BY <3>3, <3>4, IsASeq
    <3> QED
      BY <3>1, <3>3, <3>4, <3>5 DEF TypeInv, TypeOK, StoredHasHeader
  <2> QED
    BY <2>1, <2>2
<1> QED
  BY <1>2, <1>3, <1>4, <1>5 DEF TypeInv, TypeOK, peerVars, sessionVars

LEMMA ConnectTypeInv ==
    ASSUME TypeInv, Connect \/ Refuse
    PROVE  TypeInv'
<1> USE DEF TypeInv, TypeOK
<1>1. CASE Connect
  <2>1. ReadsWhatIsThere' /\ StoredHasHeader'
    BY <1>1 DEF Connect, ReadsWhatIsThere, Decoding, StoredHasHeader,
                peerVars, inputVars, Side
  <2> QED
    BY <1>1, <2>1 DEF Connect, peerVars, inputVars, sessionVars, Side
<1>2. CASE Refuse
  <2> DEFINE q == messages["down"]
             new == GoawayMessages
  <2>1. \A t \in {"SETTINGS", "GOAWAY"} :
          Own(t, "COMPLETE") \in Message /\ ~Own(t, "COMPLETE").store
    BY DEF Own, Message, MessageType, FrameType
  <2>2. /\ new \in Seq(Message)
        /\ \A i \in DOMAIN new : ~new[i].store
    BY <2>1 DEF GoawayMessages
  <2>3. messages' = [messages EXCEPT !["down"] = q \o new] /\ q \in Seq(Message)
    BY <1>2 DEF Refuse, Side
  <2> HIDE DEF new
  <2>4. /\ q \o new \in Seq(Message)
        /\ Len(q) \in Nat /\ Len(new) \in Nat
        /\ \A i \in DOMAIN (q \o new) : \/ i \in DOMAIN q /\ (q \o new)[i] = q[i]
                                       \/ ~(q \o new)[i].store
    <3>1. q \in Seq(Message) /\ new \in Seq(Message)
      BY <2>2, <2>3
    <3> HIDE DEF q
    <3>2. /\ q \o new \in Seq(Message)
          /\ Len(q) \in Nat /\ Len(new) \in Nat
          /\ Len(q \o new) = Len(q) + Len(new)
          /\ \A i \in 1..(Len(q) + Len(new)) :
                (q \o new)[i] = IF i <= Len(q) THEN q[i] ELSE new[i - Len(q)]
      BY <3>1, ConcatProperties
    <3>3. ASSUME NEW i \in DOMAIN (q \o new), i <= Len(q)
          PROVE  i \in DOMAIN q /\ (q \o new)[i] = q[i]
      BY <3>1, <3>2, <3>3
    <3>4. ASSUME NEW i \in DOMAIN (q \o new), ~(i <= Len(q))
          PROVE  ~(q \o new)[i].store
      <4>1. i - Len(q) \in DOMAIN new
        BY <3>1, <3>2, <3>4
      <4> QED
        BY <4>1, <2>2, <3>2, <3>4
    <3> QED
      BY <3>2, <3>3, <3>4
  <2> HIDE DEF q
  <2>5. StoredHasHeader'
    <3>1. \A i \in DOMAIN q : q[i].store => q[i].frames # <<>>
      BY DEF StoredHasHeader, Side, q
    <3>2. \A i \in DOMAIN (q \o new) :
            (q \o new)[i].store => (q \o new)[i].frames # <<>>
      BY <2>4, <3>1
    <3>3. messages'["down"] = q \o new /\ messages'["up"] = messages["up"]
      BY <2>3 DEF Side
    <3> QED
      BY <3>2, <3>3 DEF StoredHasHeader, Side
  <2>6. ReadsWhatIsThere'
    BY <1>2 DEF Refuse, ReadsWhatIsThere, Decoding, peerVars, inputVars, Side
  <2>7. messages' \in [Side -> Seq(Message)]
    BY <2>3, <2>4
  <2> QED
    BY <1>2, <2>5, <2>6, <2>7 DEF Refuse, peerVars, inputVars, sessionVars, Side
<1> QED
  BY <1>1, <1>2

LEMMA FlushTypeInv ==
    ASSUME TypeInv, NEW s \in Side,
           FlushSkip(s) \/ FlushSubmit(s) \/ FlushResume(s) \/ FlushDone(s)
    PROVE  TypeInv'
<1>1. ReadsWhatIsThere'
  <2>1. UNCHANGED <<sent, parsed, todo>>
    BY DEF FlushSkip, FlushSubmit, FlushResume, FlushDone, peerVars, inputVars
  <2>2. \/ handler' = "idle"
        \/ cursor \in Nat /\ handler' = handler /\ cursor # 0 /\ cursor' # 0
    <3>1. cursor \in Nat /\ Len(messages[s]) \in Nat
          /\ DOMAIN messages[s] = 1..Len(messages[s])
      BY DEF TypeInv, TypeOK
    <3>2. CASE FlushSkip(s)
      BY <3>1, <3>2 DEF FlushSkip
    <3>3. CASE FlushSubmit(s)
      BY <3>1, <3>3 DEF FlushSubmit
    <3>4. CASE FlushResume(s)
      BY <3>1, <3>4 DEF FlushResume
    <3>5. CASE FlushDone(s)
      BY <3>5 DEF FlushDone
    <3> QED
      BY <3>2, <3>3, <3>4, <3>5
  <2>3. \A r \in Side : parsed[r] <= 2 * Len(sent[r])
    <3>1. ASSUME NEW r \in Side PROVE parsed[r] <= 2 * Len(sent[r])
      <4>1. parsed[r] \in Nat /\ Len(sent[r]) \in Nat /\ todo \in Nat
        BY DEF TypeInv, TypeOK
      <4>2. Decoding(r) \in {0, todo}
        BY DEF Decoding
      <4> QED
        BY <4>1, <4>2 DEF TypeInv, ReadsWhatIsThere
    <3> QED
      BY <3>1
  <2>4. \A r \in Side : Decoding(r)' = 0 /\ parsed[r] \in Nat
    BY <2>2 DEF Decoding, Side, TypeInv, TypeOK
  <2> QED
    BY <2>1, <2>3, <2>4 DEF ReadsWhatIsThere
<1>2. CASE FlushSkip(s)
  BY <1>1, <1>2 DEF FlushSkip, TypeInv, TypeOK, StoredHasHeader, peerVars, inputVars, sessionVars
<1>3. CASE FlushSubmit(s)
  <2> DEFINE m == messages[s][cursor]
             o == Other(s)
  <2>1. /\ cursor \in DOMAIN messages[s]
        /\ messages' = [messages EXCEPT ![s] = RemoveAt(@, cursor)]
        /\ out' = [out EXCEPT ![o] = @ \o Submitted(o, m)]
        /\ \/ deferred' = deferred
           \/ deferred' = [deferred EXCEPT ![o] = Append(@, m.stream)]
        /\ settings' = [settings EXCEPT ![o] = @ \/ m.type = "SETTINGS"]
        /\ UNCHANGED <<peerVars, inputVars, client, handler, cursor>>
        /\ preface' \in {preface, "sent"}
        /\ upgrading' \in {upgrading, FALSE}
        /\ recvwait' \in {recvwait, FALSE}
    BY <1>3 DEF FlushSubmit, TypeInv, TypeOK
  <2>2. m \in Message /\ (m.store => m.frames # <<>>) /\ o \in Side
    <3>1. messages[s] \in Seq(Message)
      BY DEF TypeInv, TypeOK
    <3>2. m \in Message
      BY <2>1, <3>1
    <3>3. m.store => m.frames # <<>>
      BY <2>1 DEF TypeInv, StoredHasHeader
    <3> QED
      BY <3>2, <3>3, SideOther
  <2>3. m.stream \in Nat
    BY <2>2 DEF Message
  <2> HIDE DEF m, o
  <2>4. out' \in [Side -> Seq(Written)]
    BY <2>1, <2>2, SubmittedType DEF TypeInv, TypeOK
  <2>5. deferred' \in [Side -> Seq(Nat)]
    <3>1. deferred[o] \in Seq(Nat) /\ Append(deferred[o], m.stream) \in Seq(Nat)
      BY <2>2, <2>3 DEF TypeInv, TypeOK
    <3> QED
      BY <2>1, <2>2, <3>1 DEF TypeInv, TypeOK
  <2>6. messages' \in [Side -> Seq(Message)] /\ StoredHasHeader'
    <3> DEFINE q == messages[s]
    <3>1. q \in Seq(Message)
      BY DEF TypeInv, TypeOK
    <3>2. /\ RemoveAt(q, cursor) \in Seq(Message)
          /\ Len(RemoveAt(q, cursor)) = Len(q) - 1
          /\ \A j \in 1..(Len(q) - 1) :
                RemoveAt(q, cursor)[j] = IF j < cursor THEN q[j] ELSE q[j + 1]
      BY <2>1, <3>1, RemoveAtType
    <3>3. \A i \in 1..Len(q) : q[i].store => q[i].frames # <<>>
      BY <3>1 DEF TypeInv, StoredHasHeader
    <3>4. \A j \in DOMAIN RemoveAt(q, cursor) :
            RemoveAt(q, cursor)[j].store => RemoveAt(q, cursor)[j].frames # <<>>
      BY <3>1, <3>2, <3>3
    <3> QED
      BY <2>1, <3>2, <3>4 DEF TypeInv, TypeOK, StoredHasHeader
  <2>7. settings' \in [Side -> BOOLEAN]
    <3>1. settings[o] \in BOOLEAN /\ (settings[o] \/ m.type = "SETTINGS") \in BOOLEAN
      BY <2>2 DEF TypeInv, TypeOK
    <3> QED
      BY <2>1, <2>2, <3>1 DEF TypeInv, TypeOK
  <2> QED
    BY <1>1, <2>1, <2>4, <2>5, <2>6, <2>7 DEF TypeInv, TypeOK, peerVars, inputVars
<1>4. CASE FlushResume(s)
  <2>1. deferred[s] \in Seq(Nat) /\ deferred[s] # <<>> /\ out[s] \in Seq(Written)
    BY <1>4 DEF FlushResume, TypeInv, TypeOK
  <2>2. Head(deferred[s]) \in Nat /\ Tail(deferred[s]) \in Seq(Nat)
    BY <2>1
  <2> DEFINE w == [type |-> "DATA", stream |-> Head(deferred[s]), of |-> <<Freed>>]
  <2>3. w \in Written
    <3>1. <<Freed>> \in Seq(Nat)
      BY DEF Freed
    <3> QED
      BY <2>2, <3>1 DEF Written, MessageType, FrameType
  <2>4. \/ out' = out
        \/ out' = [out EXCEPT ![s] = Append(@, w)]
    BY <1>4 DEF FlushResume, TypeInv, TypeOK
  <2> HIDE DEF w
  <2>5. out' \in [Side -> Seq(Written)]
    <3>1. Append(out[s], w) \in Seq(Written)
      BY <2>1, <2>3
    <3> QED
      BY <2>4, <3>1 DEF TypeInv, TypeOK
  <2>6. deferred' \in [Side -> Seq(Nat)]
    BY <1>4, <2>2 DEF FlushResume, TypeInv, TypeOK
  <2> QED
    BY <1>1, <1>4, <2>5, <2>6
    DEF FlushResume, TypeInv, TypeOK, StoredHasHeader, peerVars, inputVars
<1>5. CASE FlushDone(s)
  <2>1. PICK x \in Seq(Unasked) : out' = [out EXCEPT ![s] = @ \o x]
    BY <1>5, FlushDoneOut DEF TypeInv
  <2>2. out' \in [Side -> Seq(Written)]
    <3>1. out \in [Side -> Seq(Written)] /\ x \in Seq(Written)
      BY UnaskedWritten DEF TypeInv, TypeOK
    <3>2. out[s] \o x \in Seq(Written)
      BY <3>1, ConcatProperties
    <3> QED
      BY <2>1, <3>1, <3>2
  <2>3. upgrading' \in BOOLEAN /\ recvwait' \in BOOLEAN
        /\ preface' \in {"pending", "sent", "dropped"}
    BY <1>5 DEF FlushDone, TypeInv, TypeOK
  <2> QED
    BY <1>1, <1>5, <2>2, <2>3
    DEF FlushDone, TypeInv, TypeOK, StoredHasHeader, peerVars, inputVars
<1> QED
  BY <1>2, <1>3, <1>4, <1>5

LEMMA NextTypeInv == TypeInv /\ [Next]_vars => TypeInv'
<1> SUFFICES ASSUME TypeInv, [Next]_vars PROVE TypeInv'
  OBVIOUS
<1>1. CASE UNCHANGED vars
  BY <1>1 DEF vars, TypeInv, TypeOK, ReadsWhatIsThere, Decoding, StoredHasHeader
<1>2. ASSUME NEW s \in Side, Peer(s) \/ Callback(s) PROVE TypeInv'
  BY <1>2, PeerTypeInv, ReadTypeInv, CallbackTypeInv, FlushTypeInv DEF Callback
<1>3. CASE ReadIgnored \/ Connect \/ Refuse
  BY <1>3, ReadTypeInv, ConnectTypeInv DEF Side
<1> QED
  BY <1>1, <1>2, <1>3 DEF Next

(***************************************************************************)
(* Every variable keeps its type: in particular no message is ever taken   *)
(* from, or a frame looked up, outside the queue or the input.             *)
(***************************************************************************)
THEOREM TypeCorrect == Spec => []TypeOK
<1>1. TypeInv => TypeOK
  BY DEF TypeInv
<1> QED
  BY InitTypeInv, NextTypeInv, <1>1, PTL DEF Spec

(***************************************************************************)
(* The connection preface.  PrefaceFirst alone is not inductive: that the  *)
(* first output is right depends on who may run before it.  The down       *)
(* session is read only when recvwait_ is FALSE, which takes a write, and  *)
(* the first write is the application's SETTINGS frame; the up session     *)
(* flushes only into a connected client; and nghttp2's preface is lost     *)
(* only on the path where the origin is never spoken to again.             *)
(***************************************************************************)
DownOpened ==
    /\ Len(out["down"]) > 1
    /\ out["down"][1].type = "MAGIC"
    /\ out["down"][2].type = "SETTINGS"

\* What an application has been sent: SETTINGS before all but WINDOW_UPDATEs,
\* or nothing but those.
Opens(q) ==
    \E k \in 1..Len(q) : /\ q[k].type = "SETTINGS"
                         /\ \A n \in 1..(k - 1) : q[n].type = "WINDOW_UPDATE"
OnlyUpdates(q) == \A n \in 1..Len(q) : q[n].type = "WINDOW_UPDATE"

PrefaceInv ==
    /\ settings["down"] => DownOpened /\ preface # "pending"
    /\ ~settings["down"] => /\ out["down"] = <<>>
                           /\ preface # "sent"
                           /\ recvwait
    /\ settings["up"] => Opens(out["up"])
    /\ ~settings["up"] => OnlyUpdates(out["up"])
    /\ \A s \in Side : deferred[s] # <<>> => settings[s]
    /\ handler = "up" /\ cursor # 0 => client = "connected"
    /\ handler = "down" => client = "refused" \/ settings["down"]
    /\ preface = "dropped" => client = "refused"

LEMMA OpensConcat ==
    ASSUME NEW p \in Seq(Written), NEW q \in Seq(Written)
    PROVE  /\ Opens(p) => Opens(p \o q)
           /\ OnlyUpdates(p) /\ q # <<>> /\ q[1].type = "SETTINGS" => Opens(p \o q)
           /\ OnlyUpdates(p) /\ OnlyUpdates(q) => OnlyUpdates(p \o q)
<1>1. /\ Len(p) \in Nat /\ Len(q) \in Nat /\ Len(p \o q) = Len(p) + Len(q)
      /\ \A n \in 1..(Len(p) + Len(q)) :
            (p \o q)[n] = IF n <= Len(p) THEN p[n] ELSE q[n - Len(p)]
  BY ConcatProperties
<1>2. ASSUME Opens(p) PROVE Opens(p \o q)
  <2>1. PICK k \in 1..Len(p) : /\ p[k].type = "SETTINGS"
                               /\ \A n \in 1..(k - 1) : p[n].type = "WINDOW_UPDATE"
    BY <1>2 DEF Opens
  <2>2. k \in 1..Len(p \o q) /\ (p \o q)[k] = p[k] /\ \A n \in 1..(k - 1) : (p \o q)[n] = p[n]
    BY <1>1
  <2> QED
    BY <2>1, <2>2 DEF Opens
<1>3. ASSUME OnlyUpdates(p), q # <<>>, q[1].type = "SETTINGS" PROVE Opens(p \o q)
  <2>1. Len(q) >= 1
    BY <1>1, <1>3, EmptySeq
  <2> DEFINE k == Len(p) + 1
  <2>2. k \in 1..Len(p \o q) /\ (p \o q)[k] = q[1] /\ \A n \in 1..(k - 1) : (p \o q)[n] = p[n]
    BY <1>1, <2>1
  <2>3. \A n \in 1..(k - 1) : p[n].type = "WINDOW_UPDATE"
    BY <1>1, <1>3 DEF OnlyUpdates
  <2> QED
    BY <1>3, <2>2, <2>3 DEF Opens
<1>4. ASSUME OnlyUpdates(p), OnlyUpdates(q) PROVE OnlyUpdates(p \o q)
  BY <1>1, <1>4 DEF OnlyUpdates
<1> QED
  BY <1>2, <1>3, <1>4

LEMMA PrefaceFlushSubmit ==
    ASSUME TypeInv, PrefaceInv, NEW s \in Side, FlushSubmit(s)
    PROVE  PrefaceInv'
<1> DEFINE m == messages[s][cursor]
<1>1. /\ handler = s /\ cursor \in DOMAIN messages[s]
      /\ ~Held(s, m)
      /\ out' = [out EXCEPT ![Other(s)] = @ \o Submitted(Other(s), m)]
      /\ \/ deferred' = deferred
         \/ deferred' = [deferred EXCEPT ![Other(s)] = Append(@, m.stream)]
      /\ settings' = [settings EXCEPT ![Other(s)] = @ \/ m.type = "SETTINGS"]
      /\ UNCHANGED <<client, handler, cursor>>
      /\ IF Other(s) = "down"
         THEN preface' = "sent" /\ upgrading' = FALSE /\ recvwait' = FALSE
         ELSE UNCHANGED <<preface, upgrading, recvwait>>
  BY DEF FlushSubmit, TypeInv, TypeOK
<1>2. m \in Message /\ (m.store => m.frames # <<>>)
  BY <1>1 DEF TypeInv, TypeOK, StoredHasHeader
<1>3. cursor # 0
  BY <1>1 DEF TypeInv, TypeOK
<1>4. /\ out \in [Side -> Seq(Written)] /\ settings \in [Side -> BOOLEAN]
      /\ deferred \in [Side -> Seq(Nat)]
      /\ Submitted("up", m) \in Seq(Written) /\ Submitted("down", m) \in Seq(Written)
  BY <1>2, SubmittedType DEF TypeInv, TypeOK, Side
<1>5. ~settings[Other(s)] => m.type = "SETTINGS"
  BY <1>1 DEF Held
<1>6. settings'[Other(s)] /\ (settings[s] => settings'[s]) /\ (settings'[s] => settings[s])
  BY <1>1, <1>4, <1>5, SideOther DEF Side, Other
<1>7. ASSUME m.type = "SETTINGS", NEW o \in Side
      PROVE  \E w \in Written, t \in Seq(Written) :
               w.type = "SETTINGS" /\ Submitted(o, m) = Opening(o) \o (<<w>> \o t)
  <2> DEFINE w == [type |-> m.type, stream |-> m.stream,
                   of |-> IF m.store THEN SubSeq(m.frames, 1, 1) ELSE m.frames]
             body == IF HasBody(m) /\ ~Blocked(o, m.stream) /\ Window(o) > 0
                     THEN <<BodyOf(m)>> ELSE <<>>
  <2>1. HeadOf(m) = <<w>> /\ w.type = "SETTINGS"
    BY <1>7 DEF HeadOf
  <2>2. Submitted(o, m) = ((Opening(o) \o HeadOf(m)) \o body) \o Updates(o)
    BY <1>7 DEF Submitted, Relayed
  <2>3. /\ Opening(o) \in Seq(Written) /\ HeadOf(m) \in Seq(Written) /\ body \in Seq(Written)
        /\ Updates(o) \in Seq(Written)
    BY <1>2, SubmittedParts, UpdatesUnasked DEF TypeInv
  <2>4. w \in Written
    <3>1. HeadOf(m)[1] = w /\ Len(HeadOf(m)) = 1
      BY <2>1
    <3> QED
      BY <2>3, <3>1
  <2> HIDE DEF w, body
  <2>5. /\ <<w>> \in Seq(Written) /\ body \o Updates(o) \in Seq(Written)
        /\ Submitted(o, m) = ((Opening(o) \o <<w>>) \o body) \o Updates(o)
    BY <2>1, <2>2, <2>3, <2>4, ShortSeqs, ConcatProperties
  <2>6. Submitted(o, m) = Opening(o) \o (<<w>> \o (body \o Updates(o)))
    <3> DEFINE a == Opening(o)
               b == <<w>>
               c == Updates(o)
    <3>1. a \in Seq(Written) /\ b \in Seq(Written) /\ c \in Seq(Written)
      BY <2>3, <2>5
    <3> HIDE DEF a, b, c
    <3>2. a \o b \in Seq(Written) /\ body \o c \in Seq(Written) /\ body \in Seq(Written)
      BY <2>3, <3>1, ConcatProperties
    <3>3. ((a \o b) \o body) \o c = (a \o b) \o (body \o c)
      <4> DEFINE e == a \o b
      <4>1. e \in Seq(Written)
        BY <3>2
      <4> HIDE DEF e
      <4>2. (e \o body) \o c = e \o (body \o c)
        BY <3>1, <3>2, <4>1, ConcatAssociative, SMTT(30)
      <4> QED
        BY <4>2 DEF e
    <3>4. (a \o b) \o (body \o c) = a \o (b \o (body \o c))
      <4> DEFINE e == body \o c
      <4>1. e \in Seq(Written)
        BY <3>2
      <4> HIDE DEF e
      <4>2. (a \o b) \o e = a \o (b \o e)
        BY <3>1, <4>1, ConcatAssociative, SMTT(30)
      <4> QED
        BY <4>2 DEF e
    <3>5. Submitted(o, m) = ((a \o b) \o body) \o c
      BY <2>5 DEF a, b, c
    <3>6. Submitted(o, m) = a \o (b \o (body \o c))
      BY <3>3, <3>4, <3>5
    <3> QED
      BY <3>6 DEF a, b, c
  <2> QED
    BY <2>1, <2>4, <2>5, <2>6
<1> HIDE DEF m
<1>8. CASE s = "up"
  <2>1. Other(s) = "down" /\ client = "connected" /\ preface # "dropped"
    BY <1>1, <1>3, <1>8 DEF Other, PrefaceInv
  <2>2. DownOpened'
    <3>1. CASE settings["down"]
      <4>1. DownOpened /\ out["down"] \in Seq(Written)
        BY <1>4, <3>1 DEF PrefaceInv, Side
      <4>2. out'["down"] = out["down"] \o Submitted("down", m)
        BY <1>1, <1>4, <2>1 DEF Side
      <4> QED
        BY <1>4, <4>1, <4>2 DEF DownOpened
    <3>2. CASE ~settings["down"]
      <4>1. preface = "pending" /\ out["down"] = <<>>
        BY <2>1, <3>2 DEF PrefaceInv, TypeInv, TypeOK
      <4>2. Opening("down") = <<Magic>>
        BY <4>1 DEF Opening
      <4>3. PICK w \in Written, t \in Seq(Written) :
              w.type = "SETTINGS" /\ Submitted("down", m) = <<Magic>> \o (<<w>> \o t)
        BY <1>5, <1>7, <2>1, <3>2, <4>2 DEF Side
      <4>4. out'["down"] = <<Magic>> \o (<<w>> \o t)
        BY <1>1, <1>4, <2>1, <4>1, <4>3 DEF Side
      <4>5. Magic \in Written /\ Magic.type = "MAGIC"
        BY DEF Magic, Written
      <4> HIDE DEF Magic
      <4>6. /\ Len(out'["down"]) > 1
            /\ out'["down"][1] = Magic
            /\ out'["down"][2] = w
        <5>1. <<Magic>> \in Seq(Written) /\ <<w>> \in Seq(Written)
          BY <4>3, <4>5, ShortSeqs
        <5> DEFINE rest == <<w>> \o t
        <5>2. /\ rest \in Seq(Written) /\ Len(rest) = 1 + Len(t)
              /\ rest[1] = w /\ Len(t) \in Nat
          <6>1. Len(<<w>>) = 1 /\ <<w>>[1] = w /\ Len(t) \in Nat
            BY <4>3
          <6> QED
            BY <4>3, <5>1, <6>1, ConcatProperties
        <5> HIDE DEF rest
        <5>3. /\ Len(<<Magic>> \o rest) = 1 + Len(rest)
              /\ (<<Magic>> \o rest)[1] = Magic
              /\ (<<Magic>> \o rest)[2] = rest[1]
          <6>1. Len(<<Magic>>) = 1 /\ <<Magic>>[1] = Magic
            OBVIOUS
          <6> QED
            BY <5>1, <5>2, <6>1, ConcatProperties
        <5> QED
          BY <4>4, <5>2, <5>3 DEF rest
      <4> QED
        BY <4>3, <4>5, <4>6 DEF DownOpened
    <3> QED
      BY <3>1, <3>2
  <2>3. UNCHANGED <<out["up"], deferred["up"], settings["up"], client, handler, cursor>>
        /\ preface' = "sent" /\ settings'["down"]
    BY <1>1, <1>4, <1>6, <2>1 DEF Side
  <2> QED
    BY <2>1, <2>2, <2>3 DEF PrefaceInv, Side
<1>9. CASE s = "down"
  <2>1. Other(s) = "up" /\ Opening("up") = <<>>
    BY <1>9 DEF Other, Opening
  <2>2. Opens(out'["up"])
    <3>1. out'["up"] = out["up"] \o Submitted("up", m) /\ out["up"] \in Seq(Written)
      BY <1>1, <1>4, <2>1 DEF Side
    <3>2. CASE settings["up"]
      BY <1>4, <3>1, <3>2, OpensConcat DEF PrefaceInv
    <3>3. CASE ~settings["up"]
      <4>1. OnlyUpdates(out["up"])
        BY <3>3 DEF PrefaceInv
      <4>2. PICK w \in Written, t \in Seq(Written) :
              w.type = "SETTINGS" /\ Submitted("up", m) = <<>> \o (<<w>> \o t)
        BY <1>5, <1>7, <2>1, <3>3 DEF Side
      <4>3. /\ <<w>> \o t \in Seq(Written) /\ <<w>> \o t # <<>> /\ (<<w>> \o t)[1] = w
        <5>1. <<w>> \in Seq(Written) /\ Len(<<w>>) = 1 /\ <<w>>[1] = w /\ Len(t) \in Nat
          BY <4>2, ShortSeqs
        <5>2. /\ <<w>> \o t \in Seq(Written) /\ Len(<<w>> \o t) = 1 + Len(t)
              /\ (<<w>> \o t)[1] = w
          BY <5>1, ConcatProperties
        <5> QED
          BY <5>1, <5>2
      <4>4. Submitted("up", m) = <<w>> \o t
        BY <4>2, <4>3
      <4> QED
        BY <1>4, <3>1, <4>1, <4>2, <4>3, <4>4, OpensConcat
    <3> QED
      BY <3>2, <3>3
  <2>3. /\ UNCHANGED <<out["down"], deferred["down"], settings["down"], client, handler,
                        cursor, preface, recvwait>>
        /\ settings'["up"]
    BY <1>1, <1>4, <1>6, <2>1 DEF Side
  <2> QED
    BY <2>2, <2>3 DEF PrefaceInv, DownOpened, Side
<1> QED
  BY <1>8, <1>9 DEF Side

LEMMA NextPrefaceInv == TypeInv /\ PrefaceInv /\ [Next]_vars => PrefaceInv'
<1> SUFFICES ASSUME TypeInv, PrefaceInv, [Next]_vars PROVE PrefaceInv'
  OBVIOUS
<1> USE DEF PrefaceInv, DownOpened
<1>1. CASE UNCHANGED vars
  BY <1>1 DEF vars
<1>3. ASSUME NEW s \in Side, Peer(s) PROVE PrefaceInv'
  <2>1. UNCHANGED <<client, sessionVars, handler, cursor>>
    BY <1>3 DEF Peer, SendSettings, SendAck, SendWindowUpdate, SendPing, SendHeaders,
                SendBody, Send
  <2> QED
    BY <2>1 DEF sessionVars
<1>4. ASSUME NEW s \in Side, ReadCb(s) PROVE PrefaceInv'
  <2>1. /\ UNCHANGED <<client, sessionVars>> /\ handler' = s /\ cursor' = 0
        /\ s = "down" => ~recvwait
    BY <1>4 DEF ReadCb
  <2> QED
    BY <2>1 DEF sessionVars
<1>5. CASE ReadIgnored
  BY <1>5 DEF ReadIgnored, sessionVars
<1>6. ASSUME NEW s \in Side, on_begin_frame_callback(s) \/ on_frame_recv_callback(s)
      PROVE  PrefaceInv'
  <2>1. UNCHANGED <<client, sessionVars, handler, cursor>>
    BY <1>6 DEF on_begin_frame_callback, on_frame_recv_callback
  <2> QED
    BY <2>1 DEF sessionVars
<1>7. ASSUME NEW s \in Side, ReadDone(s) PROVE PrefaceInv'
  <2>1. /\ UNCHANGED sessionVars /\ handler = s
        /\ client' = client \/ (client = "none" /\ client' = "connecting")
        /\ \/ handler' = "idle"
           \/ handler' = s /\ (s = "up" => client = "connected")
    BY <1>7 DEF ReadDone
  <2> QED
    BY <2>1 DEF sessionVars
<1>8. CASE Connect
  BY <1>8 DEF Connect, sessionVars
<1>9. CASE Refuse
  BY <1>9 DEF Refuse, sessionVars
<1>10. ASSUME NEW s \in Side, FlushSkip(s) PROVE PrefaceInv'
  <2>1. UNCHANGED <<client, sessionVars, handler>> /\ cursor # 0
    BY <1>10 DEF FlushSkip, TypeInv, TypeOK
  <2> QED
    BY <2>1 DEF sessionVars
<1>11. ASSUME NEW s \in Side, FlushSubmit(s) PROVE PrefaceInv'
  BY <1>11, PrefaceFlushSubmit
<1>12. ASSUME NEW s \in Side, FlushResume(s) PROVE PrefaceInv'
  <2>1. settings[s] /\ deferred[s] \in Seq(Nat) /\ deferred[s] # <<>>
    BY <1>12 DEF FlushResume, TypeInv, TypeOK
  <2> DEFINE w == [type |-> "DATA", stream |-> Head(deferred[s]), of |-> <<Freed>>]
  <2>2. /\ deferred' = [deferred EXCEPT ![s] = Tail(@)]
        /\ out' = out \/ out' = [out EXCEPT ![s] = Append(@, w)]
        /\ UNCHANGED <<client, recvwait, upgrading, preface, settings, handler, cursor>>
    BY <1>12 DEF FlushResume, TypeInv, TypeOK
  <2> HIDE DEF w
  <2>3. ASSUME NEW r \in Side
        PROVE  /\ Len(out'[r]) >= Len(out[r])
               /\ \A i \in 1..Len(out[r]) : out'[r][i] = out[r][i]
    <3>1. out[r] \in Seq(Written) /\ Len(out[r]) \in Nat
      BY DEF TypeInv, TypeOK
    <3>2. out'[r] = out[r] \/ (r = s /\ out'[r] = Append(out[r], w))
      BY <2>2 DEF TypeInv, TypeOK
    <3>3. out[r] \in Seq(Written \cup {w})
      BY <3>1, SeqMonotonic
    <3>4. /\ Len(Append(out[r], w)) = Len(out[r]) + 1
          /\ \A i \in 1..Len(out[r]) : Append(out[r], w)[i] = out[r][i]
      BY <3>3, AppendProperties
    <3> QED
      BY <3>1, <3>2, <3>4
  <2>4. \A r \in Side : Len(out[r]) \in Nat /\ (~settings[r] => out'[r] = out[r])
    BY <2>1, <2>2, SMTT(30) DEF TypeInv, TypeOK
  <2>5. DownOpened => DownOpened'
    <3>1. "down" \in Side
      BY DEF Side
    <3>2. Len(out["down"]) \in Nat /\ Len(out'["down"]) >= Len(out["down"])
          /\ \A i \in 1..Len(out["down"]) : out'["down"][i] = out["down"][i]
      BY <2>3, <2>4, <3>1
    <3> HIDE DEF PrefaceInv
    <3>3. ASSUME DownOpened PROVE DownOpened'
      <4>1. 1 \in 1..Len(out["down"]) /\ 2 \in 1..Len(out["down"])
        BY <3>2, <3>3
      <4> QED
        BY <3>2, <3>3, <4>1
    <3> QED
      BY <3>3
  <2>6. Opens(out["up"]) => Opens(out'["up"])
    <3>1. "up" \in Side
      BY DEF Side
    <3>2. Len(out["up"]) \in Nat /\ Len(out'["up"]) \in Nat
      BY <3>1, <2>3, <2>4, NextTypeInv DEF TypeInv, TypeOK
    <3>3. Len(out'["up"]) >= Len(out["up"])
          /\ \A i \in 1..Len(out["up"]) : out'["up"][i] = out["up"][i]
      BY <2>3, <3>1
    <3>4. ASSUME Opens(out["up"]) PROVE Opens(out'["up"])
      <4>1. PICK k \in 1..Len(out["up"]) : /\ out["up"][k].type = "SETTINGS"
                                           /\ \A n \in 1..(k - 1) : out["up"][n].type = "WINDOW_UPDATE"
        BY <3>4 DEF Opens
      <4>2. k \in 1..Len(out'["up"]) /\ out'["up"][k] = out["up"][k]
            /\ \A n \in 1..(k - 1) : out'["up"][n] = out["up"][n]
        BY <3>2, <3>3
      <4> QED
        BY <4>1, <4>2, SMTT(30) DEF Opens
    <3> QED
      BY <3>4
  <2>7. \A r \in Side : deferred'[r] # <<>> => deferred[r] # <<>>
    BY <2>1, <2>2 DEF TypeInv, TypeOK
  <2> HIDE DEF DownOpened
  <2> QED
    BY <2>2, <2>4, <2>5, <2>6, <2>7 DEF Side
<1>13. ASSUME NEW s \in Side, FlushDone(s) PROVE PrefaceInv'
  <2>1. UNCHANGED <<client, settings, deferred>> /\ handler = s
        /\ handler' = "idle" /\ cursor' = 0
    BY <1>13 DEF FlushDone
  <2>2. PICK x \in Seq(Unasked) : /\ out' = [out EXCEPT ![s] = @ \o x]
                                  /\ x # <<>> => s = "up" \/ client = "connected"
    BY <1>13, FlushDoneOut DEF TypeInv
  <2>3. out \in [Side -> Seq(Written)] /\ x \in Seq(Written)
    BY UnaskedWritten DEF TypeInv, TypeOK
  <2>4. CASE s = "up"
    <3>1. Opening("up") = <<>>
      BY DEF Opening
    <3>2. UNCHANGED <<preface, recvwait>> /\ out' = [out EXCEPT !["up"] = (@ \o <<>>) \o Updates("up")]
      BY <1>13, <2>4, <3>1 DEF FlushDone
    <3>3. out["up"] \in Seq(Written) /\ out["up"] \o <<>> = out["up"]
      BY <2>3 DEF Side
    <3>4. out'["up"] = out["up"] \o Updates("up") /\ out'["down"] = out["down"]
      BY <2>3, <3>2, <3>3 DEF Side
    <3>5. Updates("up") \in Seq(Written) /\ OnlyUpdates(Updates("up"))
      <4>1. Updates("up") \in Seq({WindowUpdate}) /\ Updates("up") \in Seq(Written)
        BY UpdatesType, UpdatesUnasked DEF TypeInv, Side
      <4>2. \A n \in 1..Len(Updates("up")) : Updates("up")[n] = WindowUpdate
        BY <4>1
      <4> QED
        BY <4>1, <4>2 DEF OnlyUpdates, WindowUpdate
    <3>6. (Opens(out["up"]) => Opens(out'["up"])) /\ (OnlyUpdates(out["up"]) => OnlyUpdates(out'["up"]))
      BY <3>3, <3>4, <3>5, OpensConcat
    <3> QED
      BY <2>1, <3>2, <3>4, <3>6
  <2>5. CASE s = "down"
    <3>1. out'["up"] = out["up"] /\ out'["down"] = out["down"] \o x
      BY <2>2, <2>3, <2>5 DEF Side
    <3>2. CASE settings["down"]
      <4>1. DownOpened /\ out["down"] \in Seq(Written) /\ preface # "pending"
        BY <2>3, <3>2 DEF Side
      <4>2. DownOpened'
        BY <2>3, <3>1, <4>1, ConcatProperties
      <4>3. UNCHANGED <<preface, recvwait>>
        BY <1>13, <2>5, <4>1 DEF FlushDone, Opening
      <4> HIDE DEF DownOpened
      <4> QED
        BY <2>1, <3>1, <3>2, <4>2, <4>3
    <3>3. CASE ~settings["down"]
      <4>1. client = "refused" /\ out["down"] = <<>>
        BY <2>1, <2>5, <3>3
      <4>2. UNCHANGED <<out, recvwait>> /\ (preface' = preface \/ preface' = "dropped")
        BY <1>13, <2>5, <4>1 DEF FlushDone
      <4> QED
        BY <2>1, <3>3, <4>1, <4>2
    <3> QED
      BY <3>2, <3>3
  <2> QED
    BY <2>4, <2>5 DEF Side
<1>14. ASSUME NEW s \in Side, Callback(s) PROVE PrefaceInv'
  BY <1>4, <1>6, <1>7, <1>10, <1>11, <1>12, <1>13, <1>14 DEF Callback
<1> QED
  BY <1>1, <1>3, <1>5, <1>8, <1>9, <1>14 DEF Next

(***************************************************************************)
(* Whatever either peer sends, in whatever pieces it arrives and however   *)
(* the connection turns out, the origin is greeted with the client preface *)
(* and a SETTINGS frame, and the application is sent a SETTINGS frame      *)
(* before all that is relayed to it: only the WINDOW_UPDATEs of nghttp2    *)
(* itself, which no gate of the program sees, may be earlier.              *)
(***************************************************************************)
THEOREM PrefaceCorrect == Spec => []PrefaceFirst
<1>1. Init => PrefaceInv
  BY DEF Init, PrefaceInv, DownOpened, OnlyUpdates, Side
<1>2. TypeInv /\ PrefaceInv => PrefaceFirst
  <2> SUFFICES ASSUME TypeInv, PrefaceInv PROVE PrefaceFirst
    OBVIOUS
  <2>1. Len(out["up"]) \in Nat /\ DOMAIN out["up"] = 1..Len(out["up"]) /\ settings["up"] \in BOOLEAN
    BY DEF TypeInv, TypeOK, Side
  <2>2. ASSUME NEW n \in DOMAIN out["up"], out["up"][n].type # "WINDOW_UPDATE"
        PROVE  \E k \in 1..n : out["up"][k].type = "SETTINGS"
    <3>1. Opens(out["up"])
      BY <2>1, <2>2 DEF PrefaceInv, OnlyUpdates
    <3>2. PICK k \in 1..Len(out["up"]) : /\ out["up"][k].type = "SETTINGS"
                                         /\ \A i \in 1..(k - 1) : out["up"][i].type = "WINDOW_UPDATE"
      BY <3>1 DEF Opens
    <3>3. n \notin 1..(k - 1)
      BY <2>2, <3>2
    <3>4. k \in 1..n
      BY <2>1, <3>2, <3>3
    <3> QED
      BY <3>2, <3>4
  <2>3. out["down"] # <<>> => DownOpened
    BY DEF PrefaceInv, TypeInv, TypeOK
  <2> QED
    BY <2>2, <2>3 DEF DownOpened, PrefaceFirst
<1> QED
  BY <1>1, <1>2, InitTypeInv, NextTypeInv, NextPrefaceInv, PTL DEF Spec

(***************************************************************************)
(* The message of a frame outlives the reads its callbacks lie in.  Held   *)
(* protects it from DoFlush, because it is unfinished; recvwait_ protects  *)
(* it from the filter for SETTINGS while upgrading, because the down       *)
(* session reads nothing until the write that clears both.                 *)
(***************************************************************************)
FrameInv ==
    /\ FrameHasMessage
    /\ upgrading => recvwait
    /\ handler = "down" /\ cursor = 0 => ~upgrading

\* The frame session s is in the middle of.
Partial(s) == sent[s][(parsed[s] + 1) \div 2]
Held1(s) == \E i \in DOMAIN messages[s] : Matches(messages[s][i], Partial(s))
Pending(s) == parsed[s] % 2 = 1 /\ Partial(s).type # "WINDOW_UPDATE"

LEMMA FrameHasMessageDef == FrameHasMessage <=> \A s \in Side : Pending(s) => Held1(s)
BY DEF FrameHasMessage, Pending, Held1, Partial

\* A step that leaves the input alone keeps every unfinished message in place.
LEMMA QueueStep ==
    ASSUME TypeInv, FrameInv,
           \A s \in Side : parsed[s] % 2 = 1 =>
              parsed'[s] = parsed[s] /\ Partial(s)' = Partial(s),
           \A s \in Side : parsed[s] % 2 # 1 => parsed'[s] = parsed[s],
           \A s \in Side : \A i \in DOMAIN messages[s] :
              messages[s][i].stat # "COMPLETE" =>
                 \E j \in DOMAIN messages'[s] : messages'[s][j] = messages[s][i]
    PROVE  FrameHasMessage'
<1>1. ASSUME NEW s \in Side, Pending(s)' PROVE Held1(s)'
  <2>1. parsed[s] % 2 = 1 /\ Partial(s)' = Partial(s) /\ Pending(s)
    BY <1>1 DEF Pending
  <2>2. PICK i \in DOMAIN messages[s] : Matches(messages[s][i], Partial(s))
    BY <2>1, FrameHasMessageDef DEF FrameInv, Held1
  <2>3. messages[s][i].stat # "COMPLETE"
    BY <2>2 DEF Matches
  <2>4. PICK j \in DOMAIN messages'[s] : messages'[s][j] = messages[s][i]
    BY <2>3
  <2>5. Matches(messages'[s][j], Partial(s)')
    BY <2>1, <2>2, <2>4 DEF Matches
  <2> QED
    BY <2>5 DEF Held1, Matches
<1>2. \A s \in Side : Pending(s)' => Held1(s)'
  BY <1>1
<1> QED
  BY <1>2 DEF FrameHasMessage, Pending, Held1, Partial

LEMMA InitFrameInv == Init => FrameInv
<1> SUFFICES ASSUME Init PROVE FrameInv
  OBVIOUS
<1>1. sent \in [Side -> Seq(Frame)] /\ \A s \in Side : parsed[s] = 2 * Len(sent[s])
  BY InitTypeInv DEF TypeInv, TypeOK, Init
<1>2. \A s \in Side : parsed[s] % 2 # 1
  BY <1>1
<1>3. FrameHasMessage
  BY <1>2, FrameHasMessageDef DEF Pending
<1> QED
  BY <1>3 DEF Init, FrameInv

LEMMA NextFrameInv == TypeInv /\ FrameInv /\ [Next]_vars => FrameInv'
<1> SUFFICES ASSUME TypeInv, FrameInv, [Next]_vars PROVE FrameInv'
  OBVIOUS
<1>1. (upgrading => recvwait)' /\ (handler = "down" /\ cursor = 0 => ~upgrading)'
  <2> USE DEF FrameInv
  <2>1. CASE UNCHANGED vars
    BY <2>1 DEF vars
  <2>2. ASSUME NEW s \in Side, Peer(s) PROVE UNCHANGED <<sessionVars, handler, cursor>>
    BY <2>2 DEF Peer, SendSettings, SendAck, SendWindowUpdate, SendPing, SendHeaders,
                SendBody, Send
  <2>3. ASSUME NEW s \in Side, ReadCb(s)
        PROVE UNCHANGED sessionVars /\ handler' = s /\ (s = "down" => ~recvwait)
    BY <2>3 DEF ReadCb
  <2>4. ASSUME NEW s \in Side, on_begin_frame_callback(s) \/ on_frame_recv_callback(s)
        PROVE  UNCHANGED <<sessionVars, handler, cursor>>
    BY <2>4 DEF on_begin_frame_callback, on_frame_recv_callback
  <2>5. ASSUME NEW s \in Side, ReadDone(s)
        PROVE  UNCHANGED sessionVars /\ (handler' = "idle" \/ cursor' = 1)
    BY <2>5 DEF ReadDone
  <2>6. CASE ReadIgnored \/ Connect \/ Refuse
    BY <2>6 DEF ReadIgnored, Connect, Refuse, sessionVars
  <2>7. ASSUME NEW s \in Side, FlushSkip(s) \/ FlushResume(s)
        PROVE  UNCHANGED <<upgrading, recvwait, handler>> /\ cursor' # 0
    <3>1. cursor \in Nat /\ Len(messages[s]) \in Nat
          /\ DOMAIN messages[s] = 1..Len(messages[s])
      BY DEF TypeInv, TypeOK
    <3> QED
      BY <2>7, <3>1 DEF FlushSkip, FlushResume, sessionVars
  <2>8. ASSUME NEW s \in Side, FlushSubmit(s)
        PROVE  /\ upgrading' = FALSE \/ UNCHANGED <<upgrading, recvwait>>
               /\ UNCHANGED <<handler, cursor>>
    BY <2>8 DEF FlushSubmit
  <2>9. ASSUME NEW s \in Side, FlushDone(s)
        PROVE  /\ handler' = "idle"
               /\ ~upgrading' \/ UNCHANGED <<upgrading, recvwait>>
    <3>1. s = "up" => Opening(s) = <<>>
      BY DEF Opening
    <3> QED
      BY <2>9, <3>1 DEF FlushDone, TypeInv, TypeOK
  <2>10. ASSUME NEW s \in Side, Callback(s)
         PROVE  (upgrading => recvwait)' /\ (handler = "down" /\ cursor = 0 => ~upgrading)'
    <3>1. CASE ReadCb(s)
      BY <2>3, <3>1 DEF sessionVars, Side
    <3>2. CASE on_begin_frame_callback(s) \/ on_frame_recv_callback(s)
      BY <2>4, <3>2 DEF sessionVars
    <3>3. CASE ReadDone(s)
      BY <2>5, <3>3 DEF sessionVars
    <3>4. CASE FlushSkip(s) \/ FlushResume(s)
      BY <2>7, <3>4
    <3>5. CASE FlushSubmit(s)
      BY <2>8, <3>5
    <3>6. CASE FlushDone(s)
      BY <2>9, <3>6
    <3> QED
      BY <2>10, <3>1, <3>2, <3>3, <3>4, <3>5, <3>6 DEF Callback
  <2>11. ASSUME NEW s \in Side, Peer(s)
         PROVE  (upgrading => recvwait)' /\ (handler = "down" /\ cursor = 0 => ~upgrading)'
    BY <2>2, <2>11 DEF sessionVars
  <2> QED
    BY <2>1, <2>6, <2>10, <2>11 DEF Next
<1>2. FrameHasMessage'
  <2>1. CASE UNCHANGED vars
    BY <2>1, QueueStep DEF vars, Partial
  <2>2. ASSUME NEW s \in Side, Peer(s) PROVE FrameHasMessage'
    <3>1. PICK f : sent' = [sent EXCEPT ![s] = Append(@, f)]
          /\ UNCHANGED <<parsed, messages>>
      BY <2>2 DEF Peer, SendSettings, SendAck, SendWindowUpdate, SendPing, SendHeaders,
                  SendBody, Send
    <3>2. ASSUME NEW r \in Side, parsed[r] % 2 = 1 PROVE Partial(r)' = Partial(r)
      <4>1. parsed[r] \in Nat /\ Len(sent[r]) \in Nat /\ todo \in Nat
            /\ parsed[r] + Decoding(r) <= 2 * Len(sent[r])
        BY DEF TypeInv, TypeOK, ReadsWhatIsThere
      <4>2. (parsed[r] + 1) \div 2 \in 1..Len(sent[r])
        BY <3>2, <4>1 DEF Decoding
      <4>3. \A i \in 1..Len(sent[r]) : sent'[r][i] = sent[r][i]
        BY <3>1 DEF TypeInv, TypeOK
      <4> QED
        BY <3>1, <4>2, <4>3 DEF Partial
    <3> QED
      BY <3>1, <3>2, QueueStep
  <2>3. ASSUME NEW s \in Side, ReadCb(s) \/ ReadDone(s) \/ ReadIgnored \/ Connect \/ FlushSkip(s)
                              \/ FlushResume(s) \/ FlushDone(s)
        PROVE  FrameHasMessage'
    <3>1. UNCHANGED <<sent, parsed, messages>>
      BY <2>3 DEF ReadCb, ReadDone, ReadIgnored, Connect, FlushSkip, FlushResume, FlushDone,
                  peerVars, inputVars
    <3> QED
      BY <3>1, QueueStep DEF Partial
  <2>4. CASE Refuse
    <3>1. UNCHANGED <<sent, parsed>>
          /\ messages' = [messages EXCEPT !["down"] = @ \o GoawayMessages]
      BY <2>4 DEF Refuse, peerVars, inputVars
    <3>2. GoawayMessages \in Seq(Message)
      <4>1. Own("SETTINGS", "COMPLETE") \in Message /\ Own("GOAWAY", "COMPLETE") \in Message
        BY DEF Own, Message, MessageType, FrameType
      <4> QED
        BY <4>1 DEF GoawayMessages
    <3>3. \A r \in Side : \A i \in DOMAIN messages[r] :
            i \in DOMAIN messages'[r] /\ messages'[r][i] = messages[r][i]
      BY <3>1, <3>2, ConcatProperties DEF TypeInv, TypeOK, Side
    <3> QED
      BY <3>1, <3>3, QueueStep DEF Partial
  <2>5. ASSUME NEW s \in Side, FlushSubmit(s) PROVE FrameHasMessage'
    <3>1. /\ UNCHANGED <<sent, parsed>>
          /\ messages' = [messages EXCEPT ![s] = RemoveAt(@, cursor)]
          /\ cursor \in DOMAIN messages[s]
          /\ messages[s][cursor].stat = "COMPLETE"
      BY <2>5 DEF FlushSubmit, Held, peerVars, inputVars
    <3>2. /\ RemoveAt(messages[s], cursor) \in Seq(Message)
          /\ Len(RemoveAt(messages[s], cursor)) = Len(messages[s]) - 1
          /\ \A j \in 1..(Len(messages[s]) - 1) :
               RemoveAt(messages[s], cursor)[j] =
                 IF j < cursor THEN messages[s][j] ELSE messages[s][j + 1]
      <4> DEFINE q == messages[s]
      <4>1. q \in Seq(Message) /\ cursor \in DOMAIN q
        BY <3>1 DEF TypeInv, TypeOK
      <4> HIDE DEF q
      <4>2. /\ RemoveAt(q, cursor) \in Seq(Message)
            /\ Len(RemoveAt(q, cursor)) = Len(q) - 1
            /\ \A j \in 1..(Len(q) - 1) :
                 RemoveAt(q, cursor)[j] = IF j < cursor THEN q[j] ELSE q[j + 1]
        BY <4>1, RemoveAtType
      <4> QED
        BY <4>2 DEF q
    <3>3. ASSUME NEW r \in Side, NEW i \in DOMAIN messages[r],
                 messages[r][i].stat # "COMPLETE"
          PROVE  \E j \in DOMAIN messages'[r] : messages'[r][j] = messages[r][i]
      <4>1. CASE r # s
        BY <3>1, <4>1 DEF TypeInv, TypeOK
      <4>2. CASE r = s
        <5> DEFINE j == IF i < cursor THEN i ELSE i - 1
               len == Len(messages[s])
               rest == RemoveAt(messages[s], cursor)
        <5>1. i # cursor /\ i \in 1..len /\ cursor \in 1..len /\ len \in Nat
          <6>1. messages[s] \in Seq(Message)
            BY DEF TypeInv, TypeOK
          <6>2. i # cursor
            BY <3>1, <3>3, <4>2
          <6> QED
            BY <3>1, <3>3, <4>2, <6>1, <6>2
        <5>2. rest \in Seq(Message) /\ Len(rest) = len - 1
              /\ \A k \in 1..(len - 1) :
                    rest[k] = IF k < cursor THEN messages[s][k] ELSE messages[s][k + 1]
          BY <3>2
        <5>3. messages'[s] = rest
          BY <3>1 DEF TypeInv, TypeOK
        <5> HIDE DEF len, rest
        <5>4. /\ j \in 1..(len - 1)
              /\ i < cursor => j < cursor /\ j = i
              /\ ~(i < cursor) => ~(j < cursor) /\ j + 1 = i
          BY <5>1
        <5> HIDE DEF j
        <5>5. rest[j] = messages[s][i]
          BY <5>2, <5>4
        <5>6. j \in DOMAIN rest
          BY <5>2, <5>4
        <5> QED
          BY <4>2, <5>3, <5>5, <5>6
      <4> QED
        BY <4>1, <4>2
    <3> QED
      BY <3>1, <3>3, QueueStep DEF Partial
  <2>6. ASSUME NEW s \in Side, on_begin_frame_callback(s) PROVE FrameHasMessage'
    <3> DEFINE f == sent[s][parsed[s] \div 2 + 1]
    <3>1. /\ handler = s /\ cursor = 0 /\ todo > 0 /\ parsed[s] % 2 = 0
          /\ UNCHANGED sent /\ parsed' = [parsed EXCEPT ![s] = @ + 1]
          /\ IF PassedOn(s, f) /\ getMessage(s, f) = {}
             THEN messages' = [messages EXCEPT ![s] = Append(@, NewMessage(f))]
             ELSE UNCHANGED messages
      BY <2>6 DEF on_begin_frame_callback, peerVars
    <3>2. parsed[s] \in Nat /\ parsed'[s] = parsed[s] + 1 /\ f \in Frame
      BY <3>1, DecodedFrame DEF TypeInv, TypeOK
    <3>3. Partial(s)' = f
      <4>1. (parsed'[s] + 1) \div 2 = parsed[s] \div 2 + 1
        BY <3>1, <3>2
      <4> QED
        BY <3>1, <4>1 DEF Partial
    <3>4. \A r \in Side : r # s => /\ parsed'[r] = parsed[r] /\ messages'[r] = messages[r]
                                /\ Partial(r)' = Partial(r)
      BY <3>1 DEF TypeInv, TypeOK, Partial
    <3>5. ASSUME NEW r \in Side, r # s, Pending(r)' PROVE Held1(r)'
      <4>1. Pending(r) /\ Held1(r)
        BY <3>4, <3>5, FrameHasMessageDef DEF Pending, FrameInv
      <4> QED
        BY <3>4, <3>5, <4>1 DEF Held1, Matches
    <3>6. ASSUME f.type # "WINDOW_UPDATE"
          PROVE  \E i \in DOMAIN messages'[s] : Matches(messages'[s][i], f)
      <4>1. PassedOn(s, f)
        BY <3>1, <3>6 DEF PassedOn, FrameInv
      <4>2. CASE getMessage(s, f) # {}
        BY <3>1, <4>2 DEF getMessage
      <4>3. CASE getMessage(s, f) = {}
        <5>1. messages'[s] = Append(messages[s], NewMessage(f))
          BY <3>1, <4>1, <4>3 DEF TypeInv, TypeOK
        <5> HIDE DEF f
        <5>2. messages[s] \in Seq(Message) /\ NewMessage(f) \in Message
          <6>1. f.type \in MessageType /\ f.stream \in Nat /\ <<>> \in Seq(Nat)
            BY <3>2, <3>6 DEF Frame, MessageType
          <6>2. NewMessage(f) \in Message
            BY <6>1 DEF NewMessage, Message
          <6> QED
            BY <6>2 DEF TypeInv, TypeOK
        <5>3. Matches(NewMessage(f), f)
          BY DEF Matches, NewMessage
        <5>4. /\ Len(messages[s]) + 1 \in DOMAIN messages'[s]
              /\ messages'[s][Len(messages[s]) + 1] = NewMessage(f)
          BY <5>1, <5>2
        <5> QED
          BY <5>3, <5>4
      <4> QED
        BY <4>2, <4>3
    <3>7. Pending(s)' => Held1(s)'
      BY <3>3, <3>6 DEF Pending, Held1, Matches
    <3>8. \A r \in Side : Pending(r)' => Held1(r)'
      BY <3>5, <3>7
    <3> QED
      BY <3>8 DEF FrameHasMessage, Pending, Held1, Partial
  <2>7. ASSUME NEW s \in Side, on_frame_recv_callback(s) PROVE FrameHasMessage'
    <3>1. /\ parsed[s] % 2 = 1 /\ UNCHANGED sent
          /\ parsed' = [parsed EXCEPT ![s] = @ + 1]
          /\ \A r \in Side : r # s => messages'[r] = messages[r]
      BY <2>7 DEF on_frame_recv_callback, peerVars, TypeInv, TypeOK
    <3>2. parsed[s] \in Nat /\ parsed'[s] = parsed[s] + 1
      BY <3>1 DEF TypeInv, TypeOK
    <3>3. ~Pending(s)'
      BY <3>1, <3>2 DEF Pending
    <3>4. \A r \in Side : r # s => /\ parsed'[r] = parsed[r]
                                /\ Partial(r)' = Partial(r)
      BY <3>1 DEF TypeInv, TypeOK, Partial
    <3>5. ASSUME NEW r \in Side, r # s, Pending(r)' PROVE Held1(r)'
      <4>1. Pending(r) /\ Held1(r)
        BY <3>4, <3>5, FrameHasMessageDef DEF Pending, FrameInv
      <4> QED
        BY <3>1, <3>4, <3>5, <4>1 DEF Held1, Matches
    <3>6. \A r \in Side : Pending(r)' => Held1(r)'
      BY <3>3, <3>5
    <3> QED
      BY <3>6 DEF FrameHasMessage, Pending, Held1, Partial
  <2>8. ASSUME NEW s \in Side, Callback(s) PROVE FrameHasMessage'
    BY <2>3, <2>5, <2>6, <2>7, <2>8 DEF Callback
  <2>9. CASE ReadIgnored \/ Connect
    BY <2>3, <2>9 DEF Side
  <2> QED
    BY <2>1, <2>2, <2>4, <2>8, <2>9 DEF Next
<1> QED
  BY <1>1, <1>2 DEF FrameInv

(***************************************************************************)
(* on_frame_recv_callback always finds the message it dereferences, and no *)
(* SETTINGS frame of the origin is swallowed by the upgrade.               *)
(***************************************************************************)
THEOREM FrameHasMessageCorrect == Spec => []FrameHasMessage
<1>1. FrameInv => FrameHasMessage
  BY DEF FrameInv
<1> QED
  BY <1>1, InitFrameInv, InitTypeInv, NextTypeInv, NextFrameInv, PTL DEF Spec
-----------------------------------------------------------------------------
(***************************************************************************)
(* The queues: between callbacks no message that may be relayed waits in   *)
(* them.                                                                   *)
(***************************************************************************)
(***************************************************************************)
(* A peer greets with SETTINGS: its first frame, or the first after the    *)
(* request that an upgrade over TLS has turned into one.                   *)
(***************************************************************************)
First(s) == IF mode = "tlsupgrade" /\ s = "up" THEN 2 ELSE 1
Greets(s) ==
    /\ Len(sent[s]) >= First(s) - 1
    /\ \A n \in DOMAIN sent[s] : n < First(s) => sent[s][n].type # "SETTINGS"
    /\ Len(sent[s]) >= First(s) => sent[s][First(s)] = Control("SETTINGS")

\* Until there is an outcome of connecting nothing has come from the origin.
OriginSilent ==
    client \in {"none", "connecting"}
      => sent["down"] = <<>> /\ messages["down"] = <<>> /\ handler # "down"

(***************************************************************************)
(* Before session s has relayed SETTINGS, the first message of its queue   *)
(* is the one that will open the gate of DoFlush for all others: no loop   *)
(* goes past it once it is complete, and until then it is the only one of  *)
(* its type.                                                               *)
(***************************************************************************)
Unfinished(s) ==
    /\ messages[s][1].stat # "COMPLETE"
    /\ ~messages[s][1].store
    /\ messages[s][1].stream = 0
    /\ \A i \in DOMAIN messages[s] : i # 1 => messages[s][i].type # "SETTINGS"
    /\ parsed[s] \in {2 * First(s) - 2, 2 * First(s) - 1}
Opener(s) ==
    /\ messages[s] # <<>>
    /\ messages[s][1].type = "SETTINGS"
    /\ \/ messages[s][1].stat = "COMPLETE" /\ (handler = s => cursor <= 1)
       \/ Unfinished(s)
Gate(s) ==
    ~settings[Other(s)]
      => \/ messages[s] = <<>> /\ parsed[s] = 0 /\ First(s) = 1
         \/ Opener(s)

\* What DoFlush has passed is held; and so is all of a queue when no callback
\* of its session runs and the origin is there.
Passed(s) ==
    handler = s => \A i \in DOMAIN messages[s] : i < cursor => Held(s, messages[s][i])
Settled(s) ==
    handler # s /\ (s = "up" => client = "connected")
      => \A i \in DOMAIN messages[s] : Held(s, messages[s][i])

QueueInv ==
    /\ OriginSilent
    /\ \A s \in Side : Greets(s) /\ Gate(s) /\ Passed(s) /\ Settled(s)

\* What a step must leave alone for the queue of s to stay as it was.
LEMMA QueueUntouched ==
    ASSUME NEW s \in Side, Gate(s), Passed(s), Settled(s),
           UNCHANGED <<mode, parsed, settings, client>>, messages'[s] = messages[s],
           handler # s, handler' # s
    PROVE  Gate(s)' /\ Passed(s)' /\ Settled(s)'
<1> USE DEF Gate, Opener, Unfinished, First
<1>1. Gate(s)'
  OBVIOUS
<1>2. Passed(s)' /\ Settled(s)'
  BY DEF Passed, Settled, Held
<1> QED
  BY <1>1, <1>2

\* Where the sessions begin.
LEMMA InitQueueInv == Init => QueueInv
<1> SUFFICES ASSUME Init PROVE QueueInv
  OBVIOUS
<1>1. CASE mode = "tlsupgrade"
  <2>1. /\ sent = [s \in Side |-> IF s = "up" THEN <<UpgradedRequest>> ELSE <<>>]
        /\ messages = [s \in Side |-> IF s = "up"
                         THEN <<Own("SETTINGS", "INIT"), UpgradedMessage>> ELSE <<>>]
        /\ parsed = [s \in Side |-> 2 * Len(sent[s])]
        /\ settings = [s \in Side |-> FALSE]
        /\ client = "connected" /\ handler = "up" /\ cursor = 1
    BY <1>1 DEF Init
  <2>2. Greets("up") /\ Greets("down")
    BY <1>1, <2>1 DEF Greets, First, UpgradedRequest, Side
  <2>3. Gate("down")
    BY <1>1, <2>1 DEF Gate, First, Side
  <2>4. Gate("up")
    <3>1. messages["up"] = <<Own("SETTINGS", "INIT"), UpgradedMessage>>
      BY <2>1 DEF Side
    <3>2. DOMAIN messages["up"] = 1..2 /\ messages["up"] # <<>>
          /\ messages["up"][1] = Own("SETTINGS", "INIT")
          /\ messages["up"][2] = UpgradedMessage
      BY <3>1
    <3>3. parsed["up"] = 2
      BY <2>1 DEF Side
    <3>4. \A i \in DOMAIN messages["up"] : i # 1 => messages["up"][i].type # "SETTINGS"
      BY <3>2 DEF UpgradedMessage
    <3>5. Unfinished("up")
      BY <1>1, <3>2, <3>3, <3>4 DEF Unfinished, Own, First
    <3> QED
      BY <3>2, <3>5 DEF Gate, Opener, Own
  <2>5. Passed("up") /\ Passed("down") /\ Settled("up") /\ Settled("down")
    BY <2>1 DEF Passed, Settled, Side
  <2> QED
    BY <2>1, <2>2, <2>3, <2>4, <2>5 DEF QueueInv, OriginSilent, Side
<1>2. CASE mode # "tlsupgrade"
  BY <1>2 DEF Init, QueueInv, OriginSilent, Greets, First, Gate, Passed, Settled, Side
<1> QED
  BY <1>1, <1>2

(***************************************************************************)
(* The peers send, and what session s has decoded stays what it was.       *)
(***************************************************************************)
LEMMA PeerQueueInv ==
    ASSUME TypeInv, QueueInv, NEW s \in Side, Peer(s)
    PROVE  QueueInv'
<1>1. PICK f \in Frame :
         /\ sent' = [sent EXCEPT ![s] = Append(@, f)]
         /\ Len(sent[s]) >= First(s) \/ f = Control("SETTINGS")
         /\ Connected(s)
  <2>1. ASSUME Greeted(s) PROVE Len(sent[s]) >= First(s)
    BY <2>1 DEF Greeted, Of, QueueInv, Greets, TypeInv, TypeOK, First
  <2>2. Control("SETTINGS") \in Frame /\ Control("ACK") \in Frame
        /\ Control("WINDOW_UPDATE") \in Frame /\ Control("PING") \in Frame
    BY DEF Control, Frame, FrameType
  <2>3. Greeted(s) => Connected(s)
    BY DEF Greeted
  <2>4. \A t \in Requested(s) : t \in Nat
    <3>1. \A n \in DOMAIN out["down"] : out["down"][n].stream \in Nat
      <4>1. out["down"] \in Seq(Written) /\ \A w \in Written : w.stream \in Nat
        BY DEF TypeInv, TypeOK, Side, Written
      <4> QED
        BY <4>1
    <3> QED
      BY <3>1, ConstantsAssumption DEF Requested, WrittenOf
  <2>5. CASE SendSettings(s)
    BY <2>2, <2>5 DEF SendSettings, Send
  <2>6. CASE SendAck(s)
    BY <2>1, <2>2, <2>3, <2>6 DEF SendAck, Send
  <2>7. CASE SendWindowUpdate(s)
    BY <2>1, <2>2, <2>3, <2>7 DEF SendWindowUpdate, Send
  <2>8. CASE SendPing(s)
    BY <2>1, <2>2, <2>3, <2>8 DEF SendPing, Send
  <2>9. CASE SendHeaders(s)
    <3>1. PICK t \in Requested(s), e \in BOOLEAN, z \in BOOLEAN :
             Send(s, [type |-> "HEADERS", stream |-> t, end |-> e, gzip |-> z])
      BY <2>9 DEF SendHeaders
    <3>2. [type |-> "HEADERS", stream |-> t, end |-> e, gzip |-> z] \in Frame
      BY <2>4 DEF Frame, FrameType
    <3> QED
      BY <2>1, <2>3, <2>9, <3>1, <3>2 DEF Send, SendHeaders
  <2>10. CASE SendBody(s)
    <3>1. PICK t \in Requested(s), e \in BOOLEAN, y \in {"DATA", "HEADERS"} :
             Send(s, [type |-> y, stream |-> t, end |-> e, gzip |-> FALSE])
      BY <2>10 DEF SendBody
    <3>2. [type |-> y, stream |-> t, end |-> e, gzip |-> FALSE] \in Frame
      BY <2>4 DEF Frame, FrameType
    <3> QED
      BY <2>1, <2>3, <2>10, <3>1, <3>2 DEF Send, SendBody
  <2> QED
    BY <2>5, <2>6, <2>7, <2>8, <2>9, <2>10 DEF Peer
<1>2. UNCHANGED <<mode, parsed, messages, client, settings, handler, cursor>>
  BY DEF Peer, SendSettings, SendAck, SendWindowUpdate, SendPing, SendHeaders, SendBody, Send,
         sessionVars
<1>3. ASSUME NEW r \in Side PROVE Greets(r)'
  <2>1. CASE r = s
    <3>1. sent[s] \in Seq(Frame) /\ sent'[s] = Append(sent[s], f)
      BY <1>1 DEF TypeInv, TypeOK
    <3>2. /\ Len(sent'[s]) = Len(sent[s]) + 1 /\ Len(sent[s]) \in Nat
          /\ \A n \in 1..Len(sent[s]) : sent'[s][n] = sent[s][n]
          /\ sent'[s][Len(sent[s]) + 1] = f
          /\ DOMAIN sent'[s] = 1..(Len(sent[s]) + 1) /\ DOMAIN sent[s] = 1..Len(sent[s])
      BY <3>1
    <3>3. First(s)' = First(s) /\ First(s) \in 1..2
      BY <1>2 DEF First
    <3>4. Greets(s)
      BY DEF QueueInv
    <3>5. CASE Len(sent[s]) >= First(s)
      BY <2>1, <3>2, <3>3, <3>4, <3>5 DEF Greets
    <3>6. CASE ~(Len(sent[s]) >= First(s))
      <4>1. Len(sent[s]) = First(s) - 1 /\ f = Control("SETTINGS")
        BY <1>1, <3>2, <3>3, <3>4, <3>6 DEF Greets
      <4>2. First(s) = Len(sent[s]) + 1 /\ First(s) - 1 = Len(sent[s])
        BY <3>2, <3>3, <4>1
      <4>3. sent'[s][First(s)] = Control("SETTINGS") /\ Len(sent'[s]) = First(s)
        BY <3>2, <4>1, <4>2
      <4>4. \A n \in 1..Len(sent[s]) : n < First(s)
        BY <3>2, <4>2
      <4>5. \A n \in 1..Len(sent[s]) : sent[s][n].type # "SETTINGS"
        BY <3>2, <3>4, <4>4 DEF Greets
      <4>6. \A n \in 1..(First(s) - 1) : sent'[s][n].type # "SETTINGS"
        BY <3>2, <4>2, <4>5
      <4>7. DOMAIN sent'[s] = 1..First(s)
        BY <3>2, <3>3, <4>1
      <4>8. \A n \in DOMAIN sent'[s] : n < First(s) => n \in 1..(First(s) - 1)
        BY <3>3, <4>7
      <4>9. First(s) - 1 <= First(s) /\ First(s)' - 1 = First(s) - 1
        BY <3>3
      <4> QED
        BY <2>1, <3>3, <4>3, <4>6, <4>8, <4>9 DEF Greets
    <3> QED
      BY <3>5, <3>6
  <2>2. CASE r # s
    <3>1. sent'[r] = sent[r]
      BY <1>1, <2>2 DEF TypeInv, TypeOK
    <3> QED
      BY <1>2, <3>1 DEF QueueInv, Greets, First
  <2> QED
    BY <2>1, <2>2
<1>4. OriginSilent'
  <2>1. s = "down" => client \in {"connected", "refused"}
    BY <1>1 DEF Connected
  <2>2. s # "down" => sent'["down"] = sent["down"]
    BY <1>1 DEF TypeInv, TypeOK, Side
  <2> QED
    BY <1>2, <2>1, <2>2 DEF QueueInv, OriginSilent
<1>5. ASSUME NEW r \in Side PROVE Gate(r)' /\ Passed(r)' /\ Settled(r)'
  <2>1. Gate(r) /\ Passed(r) /\ Settled(r)
    BY DEF QueueInv
  <2>2. Gate(r)'
    BY <1>2, <2>1 DEF Gate, Opener, Unfinished, First
  <2>3. Passed(r)' /\ Settled(r)'
    BY <1>2, <2>1 DEF Passed, Settled, Held
  <2> QED
    BY <2>2, <2>3
<1> QED
  BY <1>3, <1>4, <1>5 DEF QueueInv

\* The input a session has to work with, when it works on any.
LEMMA InputUntouched ==
    ASSUME QueueInv, UNCHANGED <<mode, sent>>
    PROVE  \A s \in Side : Greets(s)'
BY DEF QueueInv, Greets, First

(***************************************************************************)
(* A frame begins: before the gate is open it is the peer's SETTINGS, or   *)
(* the opener is complete.                                                 *)
(***************************************************************************)
LEMMA BeginQueueInv ==
    ASSUME TypeInv, FrameInv, QueueInv, NEW s \in Side, on_begin_frame_callback(s)
    PROVE  QueueInv'
<1> DEFINE f == sent[s][parsed[s] \div 2 + 1]
<1>1. /\ handler = s /\ cursor = 0 /\ todo > 0 /\ parsed[s] % 2 = 0
      /\ UNCHANGED <<mode, sent, client, settings, handler, cursor>>
      /\ parsed' = [parsed EXCEPT ![s] = @ + 1]
      /\ IF PassedOn(s, f) /\ getMessage(s, f) = {}
         THEN messages' = [messages EXCEPT ![s] = Append(@, NewMessage(f))]
         ELSE UNCHANGED messages
  BY DEF on_begin_frame_callback, peerVars, sessionVars
<1>2. /\ parsed[s] \in Nat /\ parsed'[s] = parsed[s] + 1
      /\ parsed[s] + 1 <= 2 * Len(sent[s]) /\ Len(sent[s]) \in Nat
  BY <1>1, DecodedFrame DEF TypeInv, TypeOK
<1>3. messages[s] \in Seq(Message)
  BY DEF TypeInv, TypeOK
<1>4. \A r \in Side : r # s => messages'[r] = messages[r] /\ parsed'[r] = parsed[r]
  BY <1>1 DEF TypeInv, TypeOK
<1>5. First(s) \in 1..2 /\ First(s)' = First(s)
  BY <1>1 DEF First
<1>6. ASSUME parsed[s] = 2 * First(s) - 2
      PROVE  f = Control("SETTINGS") /\ PassedOn(s, f)
  <2>1. parsed[s] \div 2 + 1 = First(s) /\ Len(sent[s]) >= First(s)
    BY <1>2, <1>5, <1>6
  <2>2. f = Control("SETTINGS")
    BY <2>1 DEF QueueInv, Greets
  <2> QED
    BY <1>1, <2>2 DEF PassedOn, Control, FrameInv
<1>7. Gate(s)'
  <2>1. CASE settings[Other(s)]
    BY <1>1, <2>1 DEF Gate
  <2>2. CASE messages[s] = <<>> /\ parsed[s] = 0 /\ First(s) = 1
    <3>1. f = Control("SETTINGS") /\ PassedOn(s, f)
      BY <1>6, <2>2
    <3>2. getMessage(s, f) = {}
      BY <2>2 DEF getMessage
    <3>3. messages'[s] = <<NewMessage(f)>>
      BY <1>1, <2>2, <3>1, <3>2 DEF TypeInv, TypeOK
    <3>4. NewMessage(f).type = "SETTINGS" /\ NewMessage(f).stat = "HEADER"
          /\ NewMessage(f).store = FALSE /\ NewMessage(f).stream = 0
      BY <3>1 DEF NewMessage, Control
    <3> HIDE DEF f
    <3>5. messages'[s] # <<>> /\ messages'[s][1] = NewMessage(f) /\ DOMAIN messages'[s] = {1}
      BY <3>3
    <3>6. parsed'[s] = 2 * First(s) - 1
      BY <1>2, <2>2
    <3> QED
      BY <1>5, <3>4, <3>5, <3>6 DEF Gate, Opener, Unfinished
  <2>3. CASE Opener(s) /\ messages[s][1].stat = "COMPLETE"
    <3>1. messages[s] # <<>> /\ messages'[s] # <<>> /\ messages'[s][1] = messages[s][1]
      <4> DEFINE m == NewMessage(f)
      <4>1. messages'[s] = messages[s] \/ messages'[s] = Append(messages[s], m)
        BY <1>1 DEF TypeInv, TypeOK
      <4> HIDE DEF m
      <4>2. messages[s] # <<>>
        BY <2>3 DEF Opener
      <4> QED
        BY <1>3, <4>1, <4>2
    <3> QED
      BY <1>1, <2>3, <3>1 DEF Gate, Opener
  <2>4. CASE Opener(s) /\ Unfinished(s)
    <3>1. parsed[s] = 2 * First(s) - 2
      <4>1. parsed[s] \in {2 * First(s) - 2, 2 * First(s) - 1}
        BY <2>4 DEF Unfinished
      <4>2. CASE First(s) = 1
        BY <1>1, <4>1, <4>2
      <4>3. CASE First(s) = 2
        BY <1>1, <4>1, <4>3
      <4> QED
        BY <1>5, <4>2, <4>3
    <3>2. Matches(messages[s][1], f)
      BY <1>6, <2>4, <3>1 DEF Matches, HdType, Control, Opener, Unfinished
    <3>3. 1 \in DOMAIN messages[s]
      BY <1>3, <2>4 DEF Opener
    <3>4. getMessage(s, f) # {}
      BY <3>2, <3>3 DEF getMessage
    <3>5. messages'[s] = messages[s]
      BY <1>1, <3>4
    <3>6. parsed'[s] = 2 * First(s) - 1
      BY <1>2, <1>5, <3>1
    <3> QED
      BY <1>5, <2>4, <3>5, <3>6 DEF Gate, Opener, Unfinished
  <2> QED
    BY <2>1, <2>2, <2>3, <2>4 DEF QueueInv, Gate, Opener
<1>8. Passed(s)' /\ Settled(s)'
  <2>1. messages'[s] \in Seq(Message)
    BY CallbackTypeInv DEF TypeInv, TypeOK
  <2> QED
    BY <1>1, <2>1 DEF Passed, Settled
<1>9. ASSUME NEW r \in Side, r # s PROVE Gate(r)' /\ Passed(r)' /\ Settled(r)'
  BY <1>1, <1>4, <1>9 DEF QueueInv, Gate, Opener, Unfinished, First, Passed, Settled, Held
<1>10. OriginSilent'
  BY <1>1, <1>4 DEF QueueInv, OriginSilent, Side
<1> QED
  BY <1>1, <1>7, <1>8, <1>9, <1>10, InputUntouched DEF QueueInv
(***************************************************************************)
(* A frame ends: it completes the opener, or leaves it as it is.           *)
(***************************************************************************)
LEMMA ReceiveQueueInv ==
    ASSUME TypeInv, FrameInv, QueueInv, NEW s \in Side, on_frame_recv_callback(s)
    PROVE  QueueInv'
<1> DEFINE n == (parsed[s] + 1) \div 2
           f == sent[s][n]
<1>1. /\ handler = s /\ cursor = 0 /\ todo > 0 /\ parsed[s] % 2 = 1
      /\ UNCHANGED <<mode, sent, client, settings, handler, cursor>>
      /\ parsed' = [parsed EXCEPT ![s] = @ + 1]
      /\ messages' = [messages EXCEPT ![s] =
            [i \in DOMAIN @ |-> IF PassedOn(s, f) /\ i \in getMessage(s, f)
                                THEN Received(@[i], f, n) ELSE @[i]]]
  BY DEF on_frame_recv_callback, peerVars, sessionVars
<1>2. /\ messages[s] \in Seq(Message) /\ DOMAIN messages'[s] = DOMAIN messages[s]
      /\ \A i \in DOMAIN messages[s] :
            messages'[s][i] = IF PassedOn(s, f) /\ i \in getMessage(s, f)
                              THEN Received(messages[s][i], f, n) ELSE messages[s][i]
  BY <1>1 DEF TypeInv, TypeOK
<1>3. parsed[s] \in Nat /\ parsed[s] + 1 <= 2 * Len(sent[s]) /\ Len(sent[s]) \in Nat
  BY <1>1, DecodedFrame DEF TypeInv, TypeOK
<1>4. \A r \in Side : r # s => messages'[r] = messages[r] /\ parsed'[r] = parsed[r]
  BY <1>1 DEF TypeInv, TypeOK
<1>5. First(s) \in 1..2
  BY DEF First
<1>6. ASSUME Opener(s) PROVE Opener(s)'
  <2>1. 1 \in DOMAIN messages[s] /\ messages'[s] # <<>>
    BY <1>2, <1>6 DEF Opener
  <2>2. CASE messages[s][1].stat = "COMPLETE"
    <3>1. ~Matches(messages[s][1], f)
      BY <2>2 DEF Matches
    <3>2. messages'[s][1] = messages[s][1]
      BY <1>2, <2>1, <3>1 DEF getMessage
    <3>3. messages'[s][1].type = "SETTINGS" /\ messages'[s][1].stat = "COMPLETE"
      BY <1>6, <2>2, <3>2 DEF Opener
    <3>4. cursor' <= 1
      BY <1>1
    <3> QED
      BY <2>1, <3>3, <3>4 DEF Opener
  <2>3. CASE Unfinished(s)
    <3>1. n = First(s) /\ Len(sent[s]) >= First(s)
      <4>1. parsed[s] \in {2 * First(s) - 2, 2 * First(s) - 1}
        BY <2>3 DEF Unfinished
      <4>2. parsed[s] = 2 * First(s) - 1
        <5>1. CASE First(s) = 1
          BY <1>1, <4>1, <5>1
        <5>2. CASE First(s) = 2
          BY <1>1, <4>1, <5>2
        <5> QED
          BY <1>5, <5>1, <5>2
      <4> QED
        BY <1>3, <1>5, <4>2
    <3>2. f = Control("SETTINGS")
      BY <3>1 DEF QueueInv, Greets
    <3>3. PassedOn(s, f)
      BY <1>1, <3>2 DEF PassedOn, Control, FrameInv
    <3>4. Matches(messages[s][1], f)
      BY <1>6, <2>3, <3>2 DEF Matches, HdType, Control, Opener, Unfinished
    <3>5. 1 \in getMessage(s, f)
      BY <2>1, <3>4 DEF getMessage
    <3>6. messages'[s][1] = Received(messages[s][1], f, n)
      BY <1>2, <2>1, <3>3, <3>5
    <3>7. Received(messages[s][1], f, n).type = "SETTINGS"
          /\ Received(messages[s][1], f, n).stat = "COMPLETE"
      BY <2>3, <3>2 DEF Received, Control, Unfinished
    <3>8. messages'[s][1].type = "SETTINGS" /\ messages'[s][1].stat = "COMPLETE"
      BY <3>6, <3>7
    <3>9. cursor' <= 1
      BY <1>1
    <3> QED
      BY <2>1, <3>8, <3>9 DEF Opener
  <2> QED
    BY <1>6, <2>2, <2>3 DEF Opener
<1>7. Gate(s)'
  <2>1. parsed[s] # 0
    BY <1>1
  <2> QED
    BY <1>1, <1>6, <2>1 DEF QueueInv, Gate
<1>8. Passed(s)' /\ Settled(s)'
  BY <1>1, <1>2 DEF Passed, Settled
<1>9. ASSUME NEW r \in Side, r # s PROVE Gate(r)' /\ Passed(r)' /\ Settled(r)'
  BY <1>1, <1>4, <1>9 DEF QueueInv, Gate, Opener, Unfinished, First, Passed, Settled, Held
<1>10. OriginSilent'
  BY <1>1, <1>4 DEF QueueInv, OriginSilent, Side
<1> QED
  BY <1>1, <1>7, <1>8, <1>9, <1>10, InputUntouched DEF QueueInv

(***************************************************************************)
(* A read begins, comes too early or ends; the connection has an outcome.  *)
(***************************************************************************)
LEMMA ReadQueueInv ==
    ASSUME TypeInv, QueueInv, NEW s \in Side,
           ReadCb(s) \/ ReadIgnored \/ ReadDone(s) \/ Connect
    PROVE  QueueInv'
<1>1. UNCHANGED <<mode, sent, parsed, messages, settings>>
  BY DEF ReadCb, ReadIgnored, ReadDone, Connect, peerVars, inputVars, sessionVars
<1>2. \A r \in Side : messages[r] \in Seq(Message) /\ \A i \in DOMAIN messages[r] : i \in Nat /\ i >= 1
  BY SMTT(30) DEF TypeInv, TypeOK
<1>3. /\ \/ UNCHANGED <<client, handler, cursor>>
         \/ handler' \in Side /\ cursor' \in {0, 1}
         \/ handler' = "idle"
      /\ client' \in {"none", "connecting"} => client \in {"none", "connecting"}
      /\ handler' = "down" => handler = "down" \/ client \in {"connected", "refused"}
      /\ \A r \in Side :
            handler' # r => \/ handler # r
                            \/ r = "up" /\ client' # "connected"
      /\ \/ client' = client
         \/ handler' = "up"
         \/ client' # "connected"
  BY DEF ReadCb, ReadIgnored, ReadDone, Connect, Side
<1>4. OriginSilent'
  BY <1>1, <1>3 DEF QueueInv, OriginSilent
<1>5. ASSUME NEW r \in Side PROVE Gate(r)' /\ Passed(r)' /\ Settled(r)'
  <2>1. Gate(r) /\ Passed(r) /\ Settled(r)
    BY DEF QueueInv
  <2>2. \/ UNCHANGED <<client, handler, cursor>>
        \/ handler' = r => cursor' \in {0, 1}
    BY <1>3, <1>5 DEF Side
  <2>3. Gate(r)'
    BY <1>1, <2>1, <2>2 DEF Gate, Opener, Unfinished, First
  <2>4. Passed(r)'
    BY <1>1, <1>2, <2>1, <2>2 DEF Passed, Held
  <2>5. Settled(r)'
    BY <1>1, <1>3, <2>1 DEF Settled, Held, Side
  <2> QED
    BY <2>3, <2>4, <2>5
<1> QED
  BY <1>1, <1>4, <1>5, InputUntouched DEF QueueInv

LEMMA RefuseQueueInv ==
    ASSUME TypeInv, QueueInv, Refuse
    PROVE  QueueInv'
<1>1. /\ handler = "idle" /\ client = "connecting" /\ client' = "refused"
      /\ messages' = [messages EXCEPT !["down"] = @ \o GoawayMessages]
      /\ handler' = "down" /\ cursor' = 1
      /\ UNCHANGED <<mode, sent, parsed, settings>>
  BY DEF Refuse, peerVars, inputVars, sessionVars
<1>2. /\ GoawayMessages \in Seq(Message)
      /\ ~settings["up"] => GoawayMessages # <<>>
                            /\ GoawayMessages[1] = Own("SETTINGS", "COMPLETE")
  <2>1. Own("SETTINGS", "COMPLETE") \in Message /\ Own("GOAWAY", "COMPLETE") \in Message
    BY DEF Own, Message, MessageType, FrameType
  <2> QED
    BY <2>1 DEF GoawayMessages
<1>3. messages'["down"] = GoawayMessages /\ messages'["up"] = messages["up"]
  <2>1. messages["down"] = <<>>
    BY <1>1 DEF QueueInv, OriginSilent
  <2> QED
    BY <1>1, <1>2, <2>1 DEF TypeInv, TypeOK, Side
<1>4. OriginSilent'
  BY <1>1 DEF OriginSilent
<1>5. Gate("up")' /\ Passed("up")' /\ Settled("up")'
  BY <1>1, <1>3 DEF QueueInv, Gate, Opener, Unfinished, First, Passed, Settled, Side
<1>6. Gate("down")'
  BY <1>1, <1>2, <1>3 DEF Gate, Opener, Own, Other
<1>7. Passed("down")' /\ Settled("down")'
  BY <1>1, <1>2, <1>3 DEF Passed, Settled
<1> QED
  BY <1>1, <1>4, <1>5, <1>6, <1>7, InputUntouched DEF QueueInv, Side
(***************************************************************************)
(* DoFlush: nothing goes out before the opener, and the opener goes out as *)
(* soon as the loop reaches it.                                            *)
(***************************************************************************)
LEMMA FlushSubmitQueueInv ==
    ASSUME TypeInv, QueueInv, NEW s \in Side, FlushSubmit(s)
    PROVE  QueueInv'
<1> DEFINE m == messages[s][cursor]
           rest == RemoveAt(messages[s], cursor)
<1>1. /\ handler = s /\ cursor \in DOMAIN messages[s] /\ ~Held(s, m)
      /\ settings' = [settings EXCEPT ![Other(s)] = @ \/ m.type = "SETTINGS"]
      /\ messages' = [messages EXCEPT ![s] = rest]
      /\ UNCHANGED <<mode, sent, parsed, client, handler, cursor>>
  BY DEF FlushSubmit, peerVars, inputVars
<1>2. m.stat = "COMPLETE" /\ (settings[Other(s)] \/ m.type = "SETTINGS")
  BY <1>1 DEF Held
<1>3. Other(s) \in Side /\ Other(s) # s /\ Other(Other(s)) = s
  BY DEF Other, Side
<1>4. settings'[Other(s)] = TRUE /\ settings'[s] = settings[s]
  BY <1>1, <1>2, <1>3 DEF TypeInv, TypeOK
<1>5. messages'[s] = rest /\ messages'[Other(s)] = messages[Other(s)]
  BY <1>1, <1>3 DEF TypeInv, TypeOK
<1>6. messages[s] \in Seq(Message) /\ cursor \in 1..Len(messages[s]) /\ Len(messages[s]) \in Nat
  BY <1>1 DEF TypeInv, TypeOK
<1>7. ASSUME NEW i \in DOMAIN messages[s], i < cursor PROVE messages[s][i].stat # "COMPLETE"
  <2>1. Held(s, messages[s][i])
    BY <1>1, <1>7 DEF QueueInv, Passed
  <2>2. CASE settings[Other(s)]
    BY <2>1, <2>2 DEF Held
  <2>3. CASE ~settings[Other(s)]
    <3>1. m.type = "SETTINGS" /\ messages[s] # <<>> /\ cursor > 1
      BY <1>2, <1>6, <1>7, <2>3
    <3>2. Opener(s)
      BY <2>3, <3>1 DEF QueueInv, Gate
    <3>3. Unfinished(s)
      BY <1>1, <1>6, <3>1, <3>2 DEF Opener
    <3> QED
      BY <1>1, <3>1, <3>3 DEF Unfinished
  <2> QED
    BY <2>2, <2>3
<1> HIDE DEF m
<1>8. /\ rest \in Seq(Message)
      /\ Len(rest) = Len(messages[s]) - 1
      /\ \A j \in 1..(Len(messages[s]) - 1) :
            rest[j] = IF j < cursor THEN messages[s][j] ELSE messages[s][j + 1]
  <2> DEFINE q == messages[s]
  <2>1. q \in Seq(Message) /\ cursor \in DOMAIN q
    BY <1>1, <1>6
  <2> HIDE DEF q
  <2>2. /\ RemoveAt(q, cursor) \in Seq(Message)
        /\ Len(RemoveAt(q, cursor)) = Len(q) - 1
        /\ \A j \in 1..(Len(q) - 1) :
             RemoveAt(q, cursor)[j] = IF j < cursor THEN q[j] ELSE q[j + 1]
    BY <2>1, RemoveAtType
  <2> QED
    BY <2>2 DEF q
<1> HIDE DEF rest
<1>9. ASSUME NEW i \in DOMAIN rest, i < cursor PROVE rest[i].stat # "COMPLETE"
  <2>1. i \in 1..(Len(messages[s]) - 1) /\ i \in DOMAIN messages[s]
    BY <1>6, <1>8, <1>9
  <2>2. rest[i] = messages[s][i]
    BY <1>8, <1>9, <2>1
  <2> QED
    BY <1>7, <1>9, <2>1, <2>2
<1>10. Gate(s)' /\ Passed(s)' /\ Settled(s)'
  BY <1>1, <1>4, <1>5, <1>9 DEF Gate, Passed, Settled, Held
<1>11. Gate(Other(s))' /\ Passed(Other(s))' /\ Settled(Other(s))'
  <2> DEFINE o == Other(s)
  <2>1. /\ o \in Side /\ handler # o /\ handler' # o
        /\ messages'[o] = messages[o] /\ settings'[Other(o)] = settings[Other(o)]
        /\ Gate(o) /\ Passed(o) /\ Settled(o)
    BY <1>1, <1>3, <1>4, <1>5 DEF QueueInv
  <2> HIDE DEF o
  <2>2. Gate(o)'
    BY <1>1, <2>1 DEF Gate, Opener, Unfinished, First
  <2>3. Passed(o)' /\ Settled(o)'
    BY <1>1, <2>1 DEF Passed, Settled, Held
  <2> QED
    BY <2>2, <2>3 DEF o
<1>12. OriginSilent'
  <2>1. s # "down" => messages'["down"] = messages["down"]
    BY <1>5 DEF Other, Side
  <2> QED
    BY <1>1, <2>1 DEF QueueInv, OriginSilent
<1>13. \A r \in Side : r = s \/ r = Other(s)
  BY DEF Other, Side
<1> QED
  BY <1>1, <1>10, <1>11, <1>12, <1>13, InputUntouched DEF QueueInv

LEMMA FlushQueueInv ==
    ASSUME TypeInv, QueueInv, NEW s \in Side,
           FlushSkip(s) \/ FlushResume(s) \/ FlushDone(s)
    PROVE  QueueInv'
<1>1. handler = s /\ UNCHANGED <<mode, sent, parsed, messages, client, settings>>
  BY DEF FlushSkip, FlushResume, FlushDone, peerVars, inputVars, sessionVars
<1>2. messages[s] \in Seq(Message) /\ DOMAIN messages[s] = 1..Len(messages[s])
      /\ Len(messages[s]) \in Nat /\ cursor \in Nat
  BY DEF TypeInv, TypeOK
<1>3. handler' \in {s, "idle"}
  BY <1>1 DEF FlushSkip, FlushResume, FlushDone
<1>4. OriginSilent'
  BY <1>1, <1>3 DEF QueueInv, OriginSilent
<1>5. ASSUME NEW r \in Side, r # s PROVE Gate(r)' /\ Passed(r)' /\ Settled(r)'
  <2>1. handler # r /\ handler' # r /\ Gate(r) /\ Passed(r) /\ Settled(r)
    BY <1>1, <1>3, <1>5 DEF QueueInv, Side
  <2>2. messages'[r] = messages[r]
    BY <1>1
  <2> QED
    BY <1>1, <2>1, <2>2, QueueUntouched
<1>6. Gate(s) /\ Passed(s)
  BY DEF QueueInv
<1>7. CASE FlushSkip(s)
  <2>1. /\ cursor \in DOMAIN messages[s] /\ Held(s, messages[s][cursor])
        /\ cursor' = cursor + 1 /\ handler' = s
    BY <1>1, <1>7 DEF FlushSkip
  <2>2. Passed(s)'
    <3>1. \A i \in DOMAIN messages[s] : i < cursor + 1 => i < cursor \/ i = cursor
      BY <1>2
    <3> QED
      BY <1>1, <1>6, <2>1, <3>1 DEF Passed, Held
  <2>3. Gate(s)'
    <3>1. CASE settings[Other(s)] \/ messages[s] = <<>>
      BY <1>1, <1>2, <2>1, <3>1 DEF Gate
    <3>2. CASE ~settings[Other(s)] /\ Opener(s) /\ messages[s][1].stat = "COMPLETE"
      <4>1. CASE cursor <= 1
        <5>1. cursor = 1
          BY <1>2, <2>1, <4>1
        <5> QED
          BY <2>1, <3>2, <5>1 DEF Held, Opener
      <4>2. CASE ~(cursor <= 1)
        BY <1>1, <3>2, <4>2 DEF Opener, Unfinished
      <4> QED
        BY <4>1, <4>2
    <3>3. CASE ~settings[Other(s)] /\ Opener(s) /\ Unfinished(s)
      BY <1>1, <3>3 DEF Gate, Opener, Unfinished, First
    <3> QED
      BY <1>6, <3>1, <3>2, <3>3 DEF Gate, Opener
  <2> QED
    BY <1>1, <1>4, <1>5, <2>1, <2>2, <2>3, InputUntouched DEF QueueInv, Settled
<1>8. CASE FlushResume(s)
  <2>1. UNCHANGED <<handler, cursor>>
    BY <1>8 DEF FlushResume
  <2>2. Gate(s)' /\ Passed(s)' /\ Settled(s)'
    BY <1>1, <1>6, <2>1 DEF Gate, Opener, Unfinished, First, Passed, Settled, Held
  <2> QED
    BY <1>1, <1>4, <1>5, <2>2, InputUntouched DEF QueueInv
<1>9. CASE FlushDone(s)
  <2>1. handler' = "idle" /\ cursor' = 0 /\ cursor > Len(messages[s]) /\ handler' # s
    BY <1>9 DEF FlushDone, Side
  <2>2. \A i \in DOMAIN messages[s] : Held(s, messages[s][i])
    BY <1>1, <1>2, <1>6, <2>1 DEF Passed
  <2>3. Passed(s)' /\ Settled(s)'
    BY <1>1, <2>1, <2>2 DEF Passed, Settled, Held
  <2>4. Gate(s)'
    BY <1>1, <1>6, <2>1 DEF Gate, Opener, Unfinished, First
  <2> QED
    BY <1>1, <1>4, <1>5, <2>3, <2>4, InputUntouched DEF QueueInv
<1> QED
  BY <1>7, <1>8, <1>9

LEMMA NextQueueInv == TypeInv /\ FrameInv /\ QueueInv /\ [Next]_vars => QueueInv'
<1> SUFFICES ASSUME TypeInv, FrameInv, QueueInv, [Next]_vars PROVE QueueInv'
  OBVIOUS
<1>1. CASE UNCHANGED vars
  BY <1>1 DEF vars, QueueInv, OriginSilent, Greets, Gate, Opener, Unfinished, First,
              Passed, Settled, Held
<1>2. ASSUME NEW s \in Side, Peer(s) PROVE QueueInv'
  BY <1>2, PeerQueueInv
<1>3. ASSUME NEW s \in Side, Callback(s) PROVE QueueInv'
  <2>1. CASE ReadCb(s) \/ ReadDone(s)
    BY <2>1, ReadQueueInv
  <2>2. CASE on_begin_frame_callback(s)
    BY <2>2, BeginQueueInv
  <2>3. CASE on_frame_recv_callback(s)
    BY <2>3, ReceiveQueueInv
  <2>4. CASE FlushSubmit(s)
    BY <2>4, FlushSubmitQueueInv
  <2>5. CASE FlushSkip(s) \/ FlushResume(s) \/ FlushDone(s)
    BY <2>5, FlushQueueInv
  <2> QED
    BY <1>3, <2>1, <2>2, <2>3, <2>4, <2>5 DEF Callback
<1>4. CASE ReadIgnored \/ Connect
  BY <1>4, ReadQueueInv DEF Side
<1>5. CASE Refuse
  BY <1>5, RefuseQueueInv
<1> QED
  BY <1>1, <1>2, <1>3, <1>4, <1>5 DEF Next

(***************************************************************************)
(* Whenever the event loop is idle, every message in messages_ of the two  *)
(* sessions is one that DoFlush has to keep: it is unfinished, or the far  *)
(* side has not been sent SETTINGS; the application's also wait for the    *)
(* connection.                                                             *)
(***************************************************************************)
THEOREM NothingDueCorrect == Spec => []NothingDue
<1>1. TypeInv /\ QueueInv => NothingDue
  BY DEF TypeInv, TypeOK, QueueInv, Settled, NothingDue, Range, Side
<1> QED
  BY <1>1, InitTypeInv, NextTypeInv, InitFrameInv, NextFrameInv, InitQueueInv, NextQueueInv,
     PTL DEF Spec

-----------------------------------------------------------------------------
(***************************************************************************)
(* One direction: the queue q of a session, what has been written, p, to   *)
(* the other peer, the frames fs that the session's own peer has sent, how *)
(* many units d of them are decoded, and whether the proxy may have put    *)
(* messages of its own in the queue (the origin has refused HTTP/2).       *)
(***************************************************************************)
\* A message names the frames it was made of; one that is not stored is made
\* of its last frame, whose type it has; a stored one begins with HEADERS.
MessageOK(m, fs, d, own) ==
    /\ \A k \in DOMAIN m.frames : m.frames[k] > 0 /\ 2 * m.frames[k] <= d
    /\ \A k, l \in DOMAIN m.frames : m.frames[k] = m.frames[l] => k = l
    /\ m.store => m.type = "HEADERS" /\ m.frames # <<>> /\ fs[m.frames[1]].gzip
    /\ ~m.store /\ m.stat # "COMPLETE" => m.frames = <<>>
    /\ ~m.store /\ m.stat = "COMPLETE"
         => \/ m.frames = <<>> /\ m.type \in {"SETTINGS", "GOAWAY"} /\ own
            \/ \E n \in DOMAIN fs : m.frames = <<n>> /\ fs[n].type = m.type

\* So does what is written: an ACK carries an ACK, and a SETTINGS frame that
\* carries nothing is the proxy's own.
WrittenOK(w, fs, d, own) ==
    /\ \A k \in DOMAIN w.of : w.of[k] # Freed => w.of[k] > 0 /\ 2 * w.of[k] <= d
    /\ w.type = "ACK" => \E n \in DOMAIN fs : w.of = <<n>> /\ fs[n].type = "ACK"
    /\ w.type = "SETTINGS" /\ w.of = <<>> => own

\* No frame is in two places.
Once(q, p) ==
    /\ \A i, j \in DOMAIN q : \A k \in DOMAIN q[i].frames, l \in DOMAIN q[j].frames :
          q[i].frames[k] = q[j].frames[l] => i = j
    /\ \A i, j \in DOMAIN p : \A k \in DOMAIN p[i].of, l \in DOMAIN p[j].of :
          p[i].of[k] = p[j].of[l] /\ p[i].of[k] # Freed => i = j
    /\ \A i \in DOMAIN q, j \in DOMAIN p : \A k \in DOMAIN q[i].frames, l \in DOMAIN p[j].of :
          q[i].frames[k] # p[j].of[l]

Direction(q, p, fs, d, own) ==
    /\ \A i \in DOMAIN q : MessageOK(q[i], fs, d, own)
    /\ \A j \in DOMAIN p : WrittenOK(p[j], fs, d, own)
    /\ Once(q, p)

Refusing(s) == s = "down" /\ client = "refused"
AckSent(s) == Cardinality(Of(s, {"ACK"})) <= Cardinality(WrittenOf(s, {"SETTINGS"}))
GzipHeaders(s) == \A n \in DOMAIN sent[s] : sent[s][n].gzip => sent[s][n].type = "HEADERS"

FramesInv ==
    /\ \A s \in Side :
         /\ Direction(messages[s], out[Other(s)], sent[s], parsed[s], Refusing(s))
         /\ AckSent(s)
         /\ GzipHeaders(s)
    /\ client # "connected" => out["down"] = <<>>

(***************************************************************************)
(* When the window is as wide as all that a peer may send, no DATA waits   *)
(* for it: each DATA frame that was written is paid for by a frame of its  *)
(* own, a DATA frame or the HEADERS of the gzip response it ends, and of   *)
(* these the peer sends no more than its bound.                            *)
(***************************************************************************)
Wide == \A s \in Side : MaxFrames[s] <= InitialWindow

BodyFrames(fs) == {n \in DOMAIN fs : fs[n].type = "DATA" \/ fs[n].gzip}
Pays(p, j, n) ==
    \/ \E k \in DOMAIN p[j].of : p[j].of[k] = n
    \/ /\ j > 1 /\ p[j - 1].type = "HEADERS"
       /\ \E k \in DOMAIN p[j - 1].of : p[j - 1].of[k] = n
Paid(p, fs) ==
    \A j \in DOMAIN p : p[j].type = "DATA" => \E n \in BodyFrames(fs) : Pays(p, j, n)
Somewhere(q, p, n) ==
    \/ \E i \in DOMAIN q : \E k \in DOMAIN q[i].frames : q[i].frames[k] = n
    \/ \E j \in DOMAIN p : \E k \in DOMAIN p[j].of : p[j].of[k] = n
Complete(q, p, fs, d) ==
    \A n \in DOMAIN fs : 2 * n <= d /\ fs[n].type # "WINDOW_UPDATE" => Somewhere(q, p, n)

WideInv ==
    /\ Wide
    /\ \A s \in Side :
         /\ deferred[s] = <<>>
         /\ \A j \in DOMAIN out[s] : \A k \in DOMAIN out[s][j].of : out[s][j].of[k] # Freed
         /\ Paid(out[Other(s)], sent[s])
         /\ Complete(messages[s], out[Other(s)], sent[s], parsed[s])
         /\ Cardinality(BodyFrames(sent[s])) <= MaxFrames[s]

-----------------------------------------------------------------------------
(***************************************************************************)
(* What the steps do to one direction.                                     *)
(***************************************************************************)
Grows(old, new) ==
    /\ Len(old) <= Len(new)
    /\ \A n \in 1..Len(old) : new[n] = old[n]

LEMMA MessageParts ==
    ASSUME NEW m \in Message
    PROVE  /\ m.frames \in Seq(Nat) /\ m.store \in BOOLEAN /\ m.stream \in Nat
           /\ m.type \in MessageType
           /\ \A k \in DOMAIN m.frames : m.frames[k] \in Nat
<1>1. m.frames \in Seq(Nat)
  BY DEF Message
<1> QED
  BY <1>1 DEF Message

LEMMA WrittenParts ==
    ASSUME NEW w \in Written
    PROVE  w.of \in Seq(Nat) /\ \A k \in DOMAIN w.of : w.of[k] \in Nat
<1>1. w.of \in Seq(Nat)
  BY DEF Written
<1> QED
  BY <1>1

LEMMA MessageGrows ==
    ASSUME NEW m \in Message, NEW fs \in Seq(Frame), NEW gs \in Seq(Frame),
           NEW d \in Nat, NEW e \in Nat, NEW own, NEW owns,
           Grows(fs, gs), d <= e, d <= 2 * Len(fs), own => owns,
           MessageOK(m, fs, d, own)
    PROVE  MessageOK(m, gs, e, owns)
<1>1. m.frames \in Seq(Nat) /\ m.store \in BOOLEAN
  BY DEF Message
<1>2. \A k \in DOMAIN m.frames : m.frames[k] \in Nat /\ m.frames[k] > 0 /\ 2 * m.frames[k] <= d
  BY <1>1 DEF MessageOK
<1>3. Len(fs) \in Nat /\ Len(gs) \in Nat /\ DOMAIN fs = 1..Len(fs) /\ DOMAIN gs = 1..Len(gs)
  OBVIOUS
<1>4. \A k \in DOMAIN m.frames : /\ m.frames[k] \in DOMAIN fs
                                 /\ m.frames[k] \in DOMAIN gs
                                 /\ gs[m.frames[k]] = fs[m.frames[k]]
  BY <1>2, <1>3 DEF Grows
<1>5. \A k \in DOMAIN m.frames : 2 * m.frames[k] <= e
  BY <1>2
<1>6. m.frames # <<>> => 1 \in DOMAIN m.frames
  BY <1>1
<1>7. ASSUME NEW n \in DOMAIN fs, m.frames = <<n>>
      PROVE  n \in DOMAIN gs /\ gs[n] = fs[n]
  BY <1>3, <1>7 DEF Grows
<1> QED
  BY <1>2, <1>4, <1>5, <1>6, <1>7 DEF MessageOK

LEMMA WrittenGrows ==
    ASSUME NEW w \in Written, NEW fs \in Seq(Frame), NEW gs \in Seq(Frame),
           NEW d \in Nat, NEW e \in Nat, NEW own, NEW owns,
           Grows(fs, gs), d <= e, own => owns,
           WrittenOK(w, fs, d, own)
    PROVE  WrittenOK(w, gs, e, owns)
<1>1. w.of \in Seq(Nat)
  BY DEF Written
<1>2. \A k \in DOMAIN w.of : w.of[k] \in Nat /\ (w.of[k] # Freed => 2 * w.of[k] <= e)
  BY <1>1 DEF WrittenOK
<1>3. Len(fs) \in Nat /\ Len(gs) \in Nat /\ DOMAIN fs = 1..Len(fs) /\ DOMAIN gs = 1..Len(gs)
  OBVIOUS
<1>4. \A n \in DOMAIN fs : n \in DOMAIN gs /\ gs[n] = fs[n]
  BY <1>3 DEF Grows
<1> QED
  BY <1>2, <1>4 DEF WrittenOK

LEMMA DirectionGrows ==
    ASSUME NEW q \in Seq(Message), NEW p \in Seq(Written),
           NEW fs \in Seq(Frame), NEW gs \in Seq(Frame),
           NEW d \in Nat, NEW e \in Nat, NEW own, NEW owns,
           Grows(fs, gs), d <= e, d <= 2 * Len(fs), own => owns,
           Direction(q, p, fs, d, own)
    PROVE  Direction(q, p, gs, e, owns)
<1>1. \A i \in DOMAIN q : q[i] \in Message
  OBVIOUS
<1>2. \A j \in DOMAIN p : p[j] \in Written
  OBVIOUS
<1>3. \A i \in DOMAIN q : MessageOK(q[i], gs, e, owns)
  BY <1>1, MessageGrows DEF Direction
<1>4. \A j \in DOMAIN p : WrittenOK(p[j], gs, e, owns)
  BY <1>2, WrittenGrows DEF Direction
<1> QED
  BY <1>3, <1>4 DEF Direction

\* Messages that carry nothing are put at the end of the queue.
LEMMA DirectionQueued ==
    ASSUME NEW q \in Seq(Message), NEW p \in Seq(Written), NEW new \in Seq(Message),
           NEW fs, NEW d, NEW own,
           Direction(q, p, fs, d, own),
           \A i \in DOMAIN new : new[i].frames = <<>> /\ MessageOK(new[i], fs, d, own)
    PROVE  Direction(q \o new, p, fs, d, own)
<1> DEFINE r == q \o new
<1>1. /\ r \in Seq(Message) /\ Len(r) = Len(q) + Len(new)
      /\ Len(q) \in Nat /\ Len(new) \in Nat
      /\ \A i \in 1..(Len(q) + Len(new)) : r[i] = IF i <= Len(q) THEN q[i] ELSE new[i - Len(q)]
  BY ConcatProperties
<1>2. ASSUME NEW i \in DOMAIN r
      PROVE  \/ i \in DOMAIN q /\ r[i] = q[i]
             \/ r[i].frames = <<>> /\ MessageOK(r[i], fs, d, own)
  <2>1. CASE i <= Len(q)
    BY <1>1, <1>2, <2>1
  <2>2. CASE ~(i <= Len(q))
    <3>1. i - Len(q) \in DOMAIN new /\ r[i] = new[i - Len(q)]
      BY <1>1, <1>2, <2>2
    <3> QED
      BY <3>1
  <2> QED
    BY <2>1, <2>2
<1> HIDE DEF r
<1>3. \A i \in DOMAIN r : MessageOK(r[i], fs, d, own)
  BY <1>2 DEF Direction
<1>4. \A i \in DOMAIN r : r[i].frames = <<>> => DOMAIN r[i].frames = {}
  OBVIOUS
<1>5. \A i \in DOMAIN r : \A k \in DOMAIN r[i].frames : i \in DOMAIN q /\ r[i] = q[i]
  BY <1>2, <1>4
<1>6. Once(r, p)
  BY <1>5 DEF Direction, Once
<1> QED
  BY <1>3, <1>6 DEF Direction, r

\* A frame is received: at most one message, an unfinished one, takes it.
LEMMA DirectionReceived ==
    ASSUME NEW q \in Seq(Message), NEW p \in Seq(Written), NEW r \in Seq(Message),
           NEW fs \in Seq(Frame), NEW d \in Nat, NEW own, NEW c,
           NEW n \in DOMAIN fs, d + 1 = 2 * n,
           fs[n].gzip => fs[n].type = "HEADERS",
           Direction(q, p, fs, d, own),
           DOMAIN r = DOMAIN q,
           \A i \in DOMAIN q : r[i] = IF i = c THEN Received(q[i], fs[n], n) ELSE q[i],
           c \in DOMAIN q => q[c].stat # "COMPLETE"
    PROVE  Direction(r, p, fs, d + 1, own)
<1>1. Direction(q, p, fs, d + 1, own)
  <2>1. Grows(fs, fs) /\ d + 1 \in Nat /\ d <= 2 * Len(fs) /\ d <= d + 1
    BY DEF Grows
  <2> QED
    BY <2>1, DirectionGrows
<1>2. n \in Nat /\ n > 0
  OBVIOUS
<1>3. ASSUME NEW i \in DOMAIN q, NEW k \in DOMAIN q[i].frames
      PROVE  q[i].frames[k] # n
  <2>1. q[i].frames[k] \in Nat
    <3>1. q[i] \in Message
      OBVIOUS
    <3> QED
      BY <1>3, <3>1, MessageParts
  <2>2. 2 * q[i].frames[k] <= d
    BY <1>3 DEF Direction, MessageOK
  <2> QED
    BY <1>2, <2>1, <2>2
<1>4. ASSUME NEW j \in DOMAIN p, NEW k \in DOMAIN p[j].of
      PROVE  p[j].of[k] # n
  <2>1. p[j].of[k] \in Nat
    <3>1. p[j] \in Written
      OBVIOUS
    <3> QED
      BY <1>4, <3>1, WrittenParts
  <2>2. p[j].of[k] # Freed => 2 * p[j].of[k] <= d
    BY <1>4 DEF Direction, WrittenOK
  <2> QED
    BY <1>2, <2>1, <2>2 DEF Freed
<1>5. CASE c \notin DOMAIN q
  <2>1. r = q
    BY <1>5
  <2> QED
    BY <1>1, <2>1
<1>6. CASE c \in DOMAIN q
  <2> DEFINE m == q[c]
             new == Received(m, fs[n], n)
  <2>1. /\ m \in Message /\ m.frames \in Seq(Nat) /\ m.store \in BOOLEAN
        /\ m.stat # "COMPLETE" /\ MessageOK(m, fs, d, own)
    <3>1. m \in Message
      BY <1>6
    <3> QED
      BY <1>6, <3>1, MessageParts DEF Direction
  <2>2. fs[n] \in Frame /\ fs[n].gzip \in BOOLEAN
    <3>1. fs[n] \in Frame
      OBVIOUS
    <3> QED
      BY <3>1 DEF Frame
  <2>3. /\ new.store = (m.store \/ fs[n].gzip)
        /\ new.frames = IF m.store \/ fs[n].gzip THEN Append(m.frames, n) ELSE <<n>>
        /\ new.type = IF m.store THEN m.type ELSE fs[n].type
        /\ ~new.store => new.stat = "COMPLETE"
    BY <2>1, <2>2 DEF Received
  <2>4. ~m.store => m.frames = <<>>
    BY <2>1 DEF MessageOK
  <2> HIDE DEF new, m
  <2>5. new.frames = Append(m.frames, n)
    <3>1. Append(<<>>, n) = <<n>>
      OBVIOUS
    <3> QED
      BY <2>3, <2>4, <3>1
  <2>6. /\ Len(new.frames) = Len(m.frames) + 1 /\ Len(m.frames) \in Nat
        /\ \A k \in 1..Len(m.frames) : new.frames[k] = m.frames[k]
        /\ new.frames[Len(m.frames) + 1] = n
        /\ DOMAIN new.frames = 1..(Len(m.frames) + 1) /\ DOMAIN m.frames = 1..Len(m.frames)
    BY <1>2, <2>1, <2>5, AppendProperties
  <2>7. \A k \in DOMAIN new.frames :
           \/ k \in DOMAIN m.frames /\ new.frames[k] = m.frames[k]
           \/ k = Len(m.frames) + 1 /\ new.frames[k] = n
    <3>1. \A k \in 1..(Len(m.frames) + 1) : k \in 1..Len(m.frames) \/ k = Len(m.frames) + 1
      BY <2>6
    <3> QED
      BY <2>6, <3>1
  <2>8. \A k \in DOMAIN m.frames : m.frames[k] # n
    BY <1>3, <1>6 DEF m
  <2>9. MessageOK(m, fs, d + 1, own)
    BY <1>1, <1>6 DEF Direction, m
  <2>10. MessageOK(new, fs, d + 1, own)
    <3>1. \A k \in DOMAIN new.frames : new.frames[k] > 0 /\ 2 * new.frames[k] <= d + 1
      <4>1. \A k \in DOMAIN m.frames : m.frames[k] > 0 /\ 2 * m.frames[k] <= d + 1
        BY <2>9 DEF MessageOK
      <4>2. n > 0 /\ 2 * n <= d + 1
        BY <1>2
      <4> QED
        BY <2>7, <4>1, <4>2
    <3>2. \A k, l \in DOMAIN new.frames : new.frames[k] = new.frames[l] => k = l
      BY <2>7, <2>8, <2>9 DEF MessageOK
    <3>3. ASSUME new.store
          PROVE  new.type = "HEADERS" /\ new.frames # <<>> /\ fs[new.frames[1]].gzip
      <4>1. CASE m.store
        <5>1. m.frames # <<>> /\ fs[m.frames[1]].gzip /\ m.type = "HEADERS"
          BY <2>9, <4>1 DEF MessageOK
        <5>2. 1 \in 1..Len(m.frames) /\ new.frames[1] = m.frames[1]
          BY <2>1, <2>6, <5>1, SMTT(30)
        <5>3. new.frames # <<>>
          BY <2>6
        <5> QED
          BY <2>3, <4>1, <5>1, <5>2, <5>3
      <4>2. CASE ~m.store
        <5>1. new.frames = <<n>> /\ fs[n].gzip
          <6>1. Append(<<>>, n) = <<n>>
            OBVIOUS
          <6> QED
            BY <2>3, <2>4, <2>5, <3>3, <4>2, <6>1
        <5>2. <<n>>[1] = n /\ <<n>> # <<>>
          OBVIOUS
        <5> QED
          BY <2>3, <4>2, <5>1, <5>2
      <4> QED
        BY <4>1, <4>2
    <3>4. ~new.store => new.stat = "COMPLETE" /\ new.frames = <<n>> /\ fs[n].type = new.type
      BY <2>1, <2>2, <2>3
    <3> QED
      BY <3>1, <3>2, <3>3, <3>4 DEF MessageOK
  <2>11. \A i \in DOMAIN r : MessageOK(r[i], fs, d + 1, own)
    BY <1>1, <2>10 DEF Direction, new, m
  <2>12. r[c] = new /\ \A i \in DOMAIN q : i # c => r[i] = q[i]
    BY <1>6 DEF new, m
  <2>13. \A i \in DOMAIN r : \A k \in DOMAIN r[i].frames :
            \/ k \in DOMAIN q[i].frames /\ r[i].frames[k] = q[i].frames[k]
            \/ i = c /\ r[i].frames[k] = n
    BY <2>7, <2>12 DEF m
  <2>14. Once(r, p)
    <3>1. Once(q, p) /\ DOMAIN r = DOMAIN q
      BY DEF Direction
    <3>2. ASSUME NEW i \in DOMAIN r, NEW j \in DOMAIN r, NEW k \in DOMAIN r[i].frames,
                 NEW l \in DOMAIN r[j].frames, r[i].frames[k] = r[j].frames[l]
          PROVE  i = j
      <4>1. CASE r[i].frames[k] = n
        <5>1. (i = c) /\ (j = c)
          BY <1>3, <2>13, <3>1, <3>2, <4>1
        <5> QED
          BY <5>1
      <4>2. CASE r[i].frames[k] # n
        <5>1. /\ k \in DOMAIN q[i].frames /\ r[i].frames[k] = q[i].frames[k]
              /\ l \in DOMAIN q[j].frames /\ r[j].frames[l] = q[j].frames[l]
          BY <2>13, <3>2, <4>2
        <5>2. \A a, b \in DOMAIN q : \A x \in DOMAIN q[a].frames, y \in DOMAIN q[b].frames :
                 q[a].frames[x] = q[b].frames[y] => a = b
          BY <3>1 DEF Once
        <5>3. i \in DOMAIN q /\ j \in DOMAIN q /\ q[i].frames[k] = q[j].frames[l]
          BY <3>1, <3>2, <5>1
        <5> HIDE DEF m, new
        <5> QED
          BY <5>1, <5>2, <5>3, Zenon
      <4> QED
        BY <4>1, <4>2
    <3>3. ASSUME NEW i \in DOMAIN r, NEW j \in DOMAIN p, NEW k \in DOMAIN r[i].frames,
                 NEW l \in DOMAIN p[j].of
          PROVE  r[i].frames[k] # p[j].of[l]
      <4>1. \/ k \in DOMAIN q[i].frames /\ r[i].frames[k] = q[i].frames[k]
            \/ i = c /\ r[i].frames[k] = n
        BY <2>13, <3>3
      <4> QED
        BY <1>4, <3>1, <3>3, <4>1 DEF Once
    <3> QED
      BY <3>1, <3>2, <3>3 DEF Once
  <2> QED
    BY <1>1, <2>11, <2>14 DEF Direction
<1> QED
  BY <1>5, <1>6

(***************************************************************************)
(* submit_message divides the frames of a complete message among what it   *)
(* writes: a stored response into its HEADERS and the rest, any other      *)
(* message goes out whole; each frame is written at most once.             *)
(***************************************************************************)
Head1(m) == [type |-> m.type, stream |-> m.stream,
             of |-> IF m.store THEN SubSeq(m.frames, 1, 1) ELSE m.frames]
BodyGoes(s, m) == HasBody(m) /\ ~Blocked(s, m.stream) /\ Window(s) > 0

LEMMA ShortConcat ==
    ASSUME NEW a, NEW b, NEW c
    PROVE  /\ <<>> \o <<a>> = <<a>> /\ <<a>> \o <<>> = <<a>>
           /\ <<>> \o <<>> = <<>>
           /\ <<a>> \o <<b>> = <<a, b>>
           /\ <<a, b>> \o <<>> = <<a, b>>
           /\ <<a, b>> \o <<c>> = <<a, b, c>>
<1>1. <<a>> \o <<b>> = <<a, b>>
  <2> DEFINE x == <<a>> \o <<b>>
             S == {a, b}
  <2>1. <<a>> \in Seq(S) /\ <<b>> \in Seq(S) /\ Len(<<a>>) = 1 /\ Len(<<b>>) = 1
    OBVIOUS
  <2>2. x \in Seq(S) /\ Len(x) = 2 /\ x[1] = a /\ x[2] = b
    BY <2>1, ConcatProperties
  <2> HIDE DEF x
  <2>3. x = <<a, b>>
    BY <2>2
  <2> QED
    BY <2>3 DEF x
<1>2. <<a, b>> \o <<c>> = <<a, b, c>>
  <2> DEFINE x == <<a, b>> \o <<c>>
             S == {a, b, c}
  <2>1. <<a, b>> \in Seq(S) /\ <<c>> \in Seq(S) /\ Len(<<a, b>>) = 2 /\ Len(<<c>>) = 1
    OBVIOUS
  <2>2. x \in Seq(S) /\ Len(x) = 3 /\ x[1] = a /\ x[2] = b /\ x[3] = c
    BY <2>1, ConcatProperties
  <2> HIDE DEF x
  <2>3. x = <<a, b, c>>
    BY <2>2
  <2> QED
    BY <2>3 DEF x
<1>3. <<>> \o <<a>> = <<a>> /\ <<a>> \o <<>> = <<a>> /\ <<>> \o <<>> = <<>>
  OBVIOUS
<1>4. <<a, b>> \o <<>> = <<a, b>>
  <2>1. <<a, b>> \in Seq({a, b})
    OBVIOUS
  <2> QED
    BY <2>1, ConcatEmptySeq
<1> QED
  BY <1>1, <1>2, <1>3, <1>4

\* The shape of what is relayed: the preface, the head and the body, if any.
LEMMA RelayedShape ==
    ASSUME NEW s \in Side, NEW m \in Message, m.store => m.type = "HEADERS"
    PROVE  LET x == Relayed(s, m)
           IN  /\ \A a \in DOMAIN x :
                     \/ x[a] = Magic
                     \/ x[a] = Head1(m) /\ m.type # "DATA"
                     \/ x[a] = BodyOf(m) /\ BodyGoes(s, m)
                        /\ (m.store => a > 1 /\ x[a - 1] = Head1(m))
               /\ \A a, b \in DOMAIN x : x[a].type = x[b].type => a = b
               /\ m.type # "DATA" => \E a \in DOMAIN x : x[a] = Head1(m)
               /\ BodyGoes(s, m) => \E a \in DOMAIN x : x[a] = BodyOf(m)
<1> DEFINE h == Head1(m)
           b == BodyOf(m)
           x == Relayed(s, m)
<1>1. h.type = m.type /\ b.type = "DATA" /\ Magic.type = "MAGIC" /\ m.type # "MAGIC"
  BY DEF Head1, BodyOf, Magic, Message, MessageType, FrameType
<1>2. HeadOf(m) = IF m.type = "DATA" THEN <<>> ELSE <<h>>
  BY DEF HeadOf, Head1
<1>3. Opening(s) \in {<<>>, <<Magic>>}
  BY DEF Opening
<1>4. x = IF m.type = "ACK" THEN HeadOf(m) \o Opening(s)
          ELSE Opening(s) \o HeadOf(m) \o (IF BodyGoes(s, m) THEN <<b>> ELSE <<>>)
  BY DEF Relayed, BodyGoes
<1>5. m.type = "DATA" => ~m.store
  OBVIOUS
<1>6. m.type = "ACK" => ~BodyGoes(s, m)
  BY DEF BodyGoes, HasBody
<1>7. BodyGoes(s, m) /\ m.type # "DATA" => m.store
  BY DEF BodyGoes, HasBody
<1> HIDE DEF h, b, x
<1>8. CASE m.type = "ACK"
  <2>1. x \in {<<h>>, <<h, Magic>>}
    BY <1>2, <1>3, <1>4, <1>8, ShortConcat
  <2>2. CASE x = <<h>>
    <3>1. DOMAIN x = {1} /\ x[1] = h
      BY <2>2
    <3> QED
      BY <1>1, <1>6, <1>8, <3>1 DEF h, x
  <2>3. CASE x = <<h, Magic>>
    <3>1. DOMAIN x = {1, 2} /\ x[1] = h /\ x[2] = Magic
      BY <2>3
    <3> QED
      BY <1>1, <1>6, <1>8, <3>1 DEF h, x
  <2> QED
    BY <2>1, <2>2, <2>3
<1>9. CASE m.type = "DATA"
  <2>1. x \in {<<>>, <<Magic>>, <<b>>, <<Magic, b>>}
        /\ (BodyGoes(s, m) => x \in {<<b>>, <<Magic, b>>})
        /\ (~BodyGoes(s, m) => x \in {<<>>, <<Magic>>})
    BY <1>2, <1>3, <1>4, <1>9, ShortConcat
  <2>2. CASE x = <<>>
    BY <1>9, <2>1, <2>2 DEF x
  <2>3. CASE x = <<Magic>>
    <3>1. DOMAIN x = {1} /\ x[1] = Magic
      BY <2>3
    <3> QED
      BY <1>1, <1>9, <2>1, <2>3, <3>1 DEF x
  <2>4. CASE x = <<b>>
    <3>1. DOMAIN x = {1} /\ x[1] = b
      BY <2>4
    <3> QED
      BY <1>1, <1>5, <1>9, <2>1, <2>4, <3>1 DEF b, x
  <2>5. CASE x = <<Magic, b>>
    <3>1. DOMAIN x = {1, 2} /\ x[1] = Magic /\ x[2] = b
      BY <2>5
    <3> QED
      BY <1>1, <1>5, <1>9, <2>1, <2>5, <3>1 DEF b, x
  <2> QED
    BY <2>1, <2>2, <2>3, <2>4, <2>5
<1>10. CASE m.type # "ACK" /\ m.type # "DATA" /\ ~BodyGoes(s, m)
  <2>1. x \in {<<h>>, <<Magic, h>>}
    BY <1>2, <1>3, <1>4, <1>10, ShortConcat
  <2>2. CASE x = <<h>>
    <3>1. DOMAIN x = {1} /\ x[1] = h
      BY <2>2
    <3> QED
      BY <1>1, <1>10, <3>1 DEF h, x
  <2>3. CASE x = <<Magic, h>>
    <3>1. DOMAIN x = {1, 2} /\ x[1] = Magic /\ x[2] = h
      BY <2>3
    <3> QED
      BY <1>1, <1>10, <3>1 DEF h, x
  <2> QED
    BY <2>1, <2>2, <2>3
<1>11. CASE m.type # "ACK" /\ m.type # "DATA" /\ BodyGoes(s, m)
  <2>1. x \in {<<h, b>>, <<Magic, h, b>>}
    <3>1. x = Opening(s) \o <<h>> \o <<b>>
      BY <1>2, <1>4, <1>11
    <3>2. Opening(s) \o <<h>> \in {<<h>>, <<Magic, h>>}
      BY <1>3, ShortConcat
    <3> QED
      BY <3>1, <3>2, ShortConcat
  <2>2. CASE x = <<h, b>>
    <3>1. DOMAIN x = {1, 2} /\ x[1] = h /\ x[2] = b
      BY <2>2
    <3> QED
      BY <1>1, <1>11, <3>1 DEF h, b, x
  <2>3. CASE x = <<Magic, h, b>>
    <3>1. DOMAIN x = {1, 2, 3} /\ x[1] = Magic /\ x[2] = h /\ x[3] = b
      BY <2>3
    <3> QED
      BY <1>1, <1>11, <3>1 DEF h, b, x
  <2> QED
    BY <2>1, <2>2, <2>3
<1> QED
  BY <1>8, <1>9, <1>10, <1>11

LEMMA Joined ==
    ASSUME NEW p \in Seq(Written), NEW x \in Seq(Written)
    PROVE  /\ p \o x \in Seq(Written) /\ Len(p) \in Nat
           /\ \A j \in DOMAIN (p \o x) :
                \/ j \in DOMAIN p /\ (p \o x)[j] = p[j]
                \/ j - Len(p) \in DOMAIN x /\ (p \o x)[j] = x[j - Len(p)] /\ j > Len(p)
           /\ \A j \in DOMAIN p : j \in DOMAIN (p \o x) /\ (p \o x)[j] = p[j]
           /\ \A a \in DOMAIN x : Len(p) + a \in DOMAIN (p \o x) /\ (p \o x)[Len(p) + a] = x[a]
           /\ Grows(p, p \o x)
<1> DEFINE y == p \o x
<1>1. /\ y \in Seq(Written) /\ Len(y) = Len(p) + Len(x)
      /\ \A j \in 1..(Len(p) + Len(x)) : y[j] = IF j <= Len(p) THEN p[j] ELSE x[j - Len(p)]
  BY ConcatProperties
<1>2. /\ Len(p) \in Nat /\ Len(x) \in Nat
      /\ DOMAIN p = 1..Len(p) /\ DOMAIN x = 1..Len(x)
  OBVIOUS
<1> HIDE DEF y
<1>3. DOMAIN y = 1..(Len(p) + Len(x))
  BY <1>1
<1>4. ASSUME NEW j \in DOMAIN y
      PROVE  \/ j \in DOMAIN p /\ y[j] = p[j]
             \/ j - Len(p) \in DOMAIN x /\ y[j] = x[j - Len(p)] /\ j > Len(p)
  BY <1>1, <1>2, <1>3
<1>5. \A j \in DOMAIN p : j \in DOMAIN y /\ y[j] = p[j]
  BY <1>1, <1>2, <1>3
<1>6. ASSUME NEW a \in DOMAIN x
      PROVE  Len(p) + a \in DOMAIN y /\ y[Len(p) + a] = x[a]
  <2>1. a \in Nat /\ Len(p) + a \in 1..(Len(p) + Len(x)) /\ ~(Len(p) + a <= Len(p))
        /\ (Len(p) + a) - Len(p) = a
    BY <1>2
  <2> QED
    BY <1>1, <1>3, <2>1
<1>7. Grows(p, y)
  BY <1>1, <1>2, <1>5 DEF Grows
<1> QED
  BY <1>1, <1>2, <1>4, <1>5, <1>6, <1>7 DEF y

\* What is written is that and what nghttp2 adds to it.
LEMMA SubmittedShape ==
    ASSUME TypeOK, NEW s \in Side, NEW m \in Message, m.store => m.type = "HEADERS",
           m.store => m.frames # <<>>
    PROVE  LET x == Submitted(s, m)
           IN  /\ \A a \in DOMAIN x :
                     \/ x[a] \in Unasked
                     \/ x[a] = Head1(m) /\ m.type # "DATA"
                     \/ x[a] = BodyOf(m) /\ BodyGoes(s, m)
                        /\ (m.store => a > 1 /\ x[a - 1] = Head1(m))
               /\ \A a, b \in DOMAIN x : x[a].type = x[b].type => a = b \/ x[a] \in Unasked
               /\ m.type # "DATA" => \E a \in DOMAIN x : x[a] = Head1(m)
               /\ BodyGoes(s, m) => \E a \in DOMAIN x : x[a] = BodyOf(m)
<1> DEFINE h == Head1(m)
           b == BodyOf(m)
           p == Relayed(s, m)
           u == Updates(s)
           x == p \o u
<1>1. p \in Seq(Written) /\ u \in Seq(Written) /\ u \in Seq(Unasked)
  BY RelayedType, UpdatesUnasked
<1>2. /\ \A a \in DOMAIN p :
            \/ p[a] = Magic
            \/ p[a] = h /\ m.type # "DATA"
            \/ p[a] = b /\ BodyGoes(s, m) /\ (m.store => a > 1 /\ p[a - 1] = h)
      /\ \A a, c \in DOMAIN p : p[a].type = p[c].type => a = c
      /\ m.type # "DATA" => \E a \in DOMAIN p : p[a] = h
      /\ BodyGoes(s, m) => \E a \in DOMAIN p : p[a] = b
  BY RelayedShape
<1>3. Magic \in Unasked /\ \A a \in DOMAIN u : u[a] \in Unasked
  BY <1>1 DEF Unasked
<1>4. /\ \A w \in Unasked : w.type \in {"MAGIC", "WINDOW_UPDATE"}
      /\ h.type \notin {"MAGIC", "WINDOW_UPDATE"} /\ b.type \notin {"MAGIC", "WINDOW_UPDATE"}
  BY UnaskedType DEF Head1, BodyOf, Message, MessageType, FrameType
<1> HIDE DEF h, b, p, u
<1>5. /\ Len(p) \in Nat /\ DOMAIN p = 1..Len(p) /\ DOMAIN x \subseteq Nat
      /\ \A j \in DOMAIN x :
            \/ j \in DOMAIN p /\ x[j] = p[j]
            \/ j - Len(p) \in DOMAIN u /\ x[j] = u[j - Len(p)]
      /\ \A j \in DOMAIN p : j \in DOMAIN x /\ x[j] = p[j]
  BY <1>1, Joined
<1> HIDE DEF x
<1>6. ASSUME NEW a \in DOMAIN x
      PROVE  \/ x[a] \in Unasked
             \/ x[a] = h /\ m.type # "DATA"
             \/ x[a] = b /\ BodyGoes(s, m) /\ (m.store => a > 1 /\ x[a - 1] = h)
  <2>1. CASE a \in DOMAIN p /\ x[a] = p[a]
    <3>1. CASE p[a] = b /\ BodyGoes(s, m) /\ (m.store => a > 1 /\ p[a - 1] = h)
      <4>1. a > 1 => a - 1 \in DOMAIN p
        BY <1>5, <2>1
      <4> QED
        BY <1>5, <2>1, <3>1, <4>1
    <3> QED
      BY <1>2, <1>3, <2>1, <3>1
  <2>2. CASE a - Len(p) \in DOMAIN u /\ x[a] = u[a - Len(p)]
    BY <1>3, <2>2
  <2> QED
    BY <1>5, <2>1, <2>2
<1>7. ASSUME NEW a \in DOMAIN x, NEW c \in DOMAIN x, x[a].type = x[c].type
      PROVE  a = c \/ x[a] \in Unasked
  <2>1. CASE x[c] \in Unasked
    BY <1>4, <1>6, <1>7, <2>1
  <2>2. CASE x[a] \notin Unasked /\ x[c] \notin Unasked
    <3>1. a \in DOMAIN p /\ x[a] = p[a] /\ c \in DOMAIN p /\ x[c] = p[c]
      BY <1>3, <1>5, <2>2
    <3> QED
      BY <1>2, <1>7, <3>1
  <2> QED
    BY <2>1, <2>2
<1>8. m.type # "DATA" => \E a \in DOMAIN x : x[a] = h
  BY <1>2, <1>5
<1>9. BodyGoes(s, m) => \E a \in DOMAIN x : x[a] = b
  BY <1>2, <1>5
<1>10. Submitted(s, m) = x
  BY DEF Submitted, x, p, u
<1> QED
  BY <1>6, <1>7, <1>8, <1>9, <1>10 DEF h, b

LEMMA OneBefore ==
    \A n, i \in Nat : i >= 1 /\ i <= n /\ i # 1 => i - 1 \in 1..(n - 1) /\ (i - 1) + 1 = i
OBVIOUS

\* Where the frames of the message are in what is written.
LEMMA SubmittedSplit ==
    ASSUME TypeOK, NEW s \in Side, NEW m \in Message, NEW fs \in Seq(Frame), NEW d \in Nat, NEW own,
           MessageOK(m, fs, d, own), m.stat = "COMPLETE", d <= 2 * Len(fs)
    PROVE  LET x == Submitted(s, m)
           IN  /\ x \in Seq(Written)
               /\ \A a \in DOMAIN x : WrittenOK(x[a], fs, d, own)
               /\ \A a \in DOMAIN x : \A k \in DOMAIN x[a].of :
                     \E i \in DOMAIN m.frames : m.frames[i] = x[a].of[k]
               /\ \A a, b \in DOMAIN x : \A k \in DOMAIN x[a].of, l \in DOMAIN x[b].of :
                     x[a].of[k] = x[b].of[l] => a = b
               /\ (HasBody(m) => BodyGoes(s, m))
                    => \A i \in DOMAIN m.frames : \E a \in DOMAIN x :
                          \E k \in DOMAIN x[a].of : x[a].of[k] = m.frames[i]
               /\ Paid(x, fs)
<1> DEFINE h == Head1(m)
           b == BodyOf(m)
           x == Submitted(s, m)
           len == Len(m.frames)
<1>1. /\ m.frames \in Seq(Nat) /\ m.store \in BOOLEAN /\ m.type \in MessageType
      /\ len \in Nat /\ DOMAIN m.frames = 1..len
      /\ \A k \in 1..len : m.frames[k] \in Nat
  BY MessageParts
<1>2. m.store => m.type = "HEADERS" /\ m.frames # <<>> /\ 1 \in 1..len
  BY <1>1 DEF MessageOK
<1>3. x \in Seq(Written)
  BY <1>2, SubmittedType
<1>4. /\ h.type = m.type /\ b.type = "DATA" /\ m.type \notin {"MAGIC", "WINDOW_UPDATE"}
      /\ \A w \in Unasked : w.type \in {"MAGIC", "WINDOW_UPDATE"} /\ w.of = <<>>
  BY <1>1, UnaskedType DEF Head1, BodyOf, MessageType, FrameType
<1>5. /\ \A a \in DOMAIN x :
            \/ x[a] \in Unasked
            \/ x[a] = h /\ m.type # "DATA"
            \/ x[a] = b /\ BodyGoes(s, m) /\ (m.store => a > 1 /\ x[a - 1] = h)
      /\ \A a, c \in DOMAIN x : x[a].type = x[c].type => a = c \/ x[a] \in Unasked
      /\ m.type # "DATA" => \E a \in DOMAIN x : x[a] = h
      /\ BodyGoes(s, m) => \E a \in DOMAIN x : x[a] = b
  BY <1>2, SubmittedShape
<1>6. ~m.store => h.of = m.frames /\ b.of = m.frames
  BY DEF Head1, BodyOf
<1>7. m.store => /\ h.of \in Seq(Nat) /\ DOMAIN h.of = {1} /\ h.of[1] = m.frames[1]
                 /\ DOMAIN b.of = 1..(len - 1)
                 /\ \A k \in 1..(len - 1) : b.of[k] = m.frames[k + 1]
  <2> SUFFICES ASSUME m.store
               PROVE  /\ h.of \in Seq(Nat) /\ DOMAIN h.of = {1} /\ h.of[1] = m.frames[1]
                      /\ DOMAIN b.of = 1..(len - 1)
                      /\ \A k \in 1..(len - 1) : b.of[k] = m.frames[k + 1]
    OBVIOUS
  <2> DEFINE first == SubSeq(m.frames, 1, 1)
             rest == SubSeq(m.frames, 2, len)
  <2>1. h.of = first /\ b.of = rest
    BY DEF Head1, BodyOf
  <2>2. first \in Seq(Nat) /\ Len(first) = 1 /\ first[1] = m.frames[1]
    BY <1>1, <1>2, SubSeqProperties
  <2>3. rest \in Seq(Nat) /\ Len(rest) = len - 1
        /\ \A k \in 1..(len - 1) : rest[k] = m.frames[k + 1]
    BY <1>1, <1>2, SubSeqProperties
  <2> HIDE DEF first, rest, h, b, len
  <2> QED
    BY <1>1, <2>1, <2>2, <2>3
<1> HIDE DEF h, b, x
<1>8. \A k \in DOMAIN h.of : \E i \in DOMAIN m.frames : m.frames[i] = h.of[k]
  BY <1>1, <1>2, <1>6, <1>7
<1>9. \A k \in DOMAIN b.of : \E i \in DOMAIN m.frames : m.frames[i] = b.of[k]
  <2>1. CASE ~m.store
    BY <1>6, <2>1
  <2>2. CASE m.store
    <3>1. \A k \in 1..(len - 1) : k + 1 \in 1..len
      BY <1>1
    <3> QED
      BY <1>1, <1>7, <2>2, <3>1
  <2> QED
    BY <2>1, <2>2
<1>10. \A w \in Unasked : DOMAIN w.of = {}
  BY <1>4
<1>11. ASSUME NEW a \in DOMAIN x, NEW k \in DOMAIN x[a].of
       PROVE  \E i \in DOMAIN m.frames : m.frames[i] = x[a].of[k]
  <2>1. x[a] \in Unasked \/ x[a] \in {h, b}
    BY <1>5
  <2>2. x[a] \notin Unasked
    BY <1>10, <1>11
  <2> QED
    BY <1>8, <1>9, <1>11, <2>1, <2>2
\* Head and body share no frame, for the body follows a head only if the
\* message is stored.
<1>12. ASSUME NEW a \in DOMAIN x, NEW c \in DOMAIN x,
              NEW k \in DOMAIN x[a].of, NEW l \in DOMAIN x[c].of,
              x[a].of[k] = x[c].of[l]
       PROVE  a = c
  <2>1. ASSUME NEW i \in DOMAIN h.of, NEW j \in DOMAIN b.of, h.of[i] = b.of[j], m.store
        PROVE  FALSE
    <3>1. i = 1 /\ j \in 1..(len - 1) /\ h.of[1] = m.frames[1] /\ b.of[j] = m.frames[j + 1]
      BY <1>7, <2>1
    <3>2. j + 1 \in 1..len /\ 1 \in 1..len /\ j + 1 # 1
      BY <1>1, <1>2, <2>1, <3>1, SMTT(30)
    <3>3. m.frames[1] = m.frames[j + 1]
      BY <2>1, <3>1
    <3> QED
      BY <1>1, <3>2, <3>3 DEF MessageOK
  <2>2. x[a].type = x[c].type \/ m.store
    BY <1>2, <1>4, <1>5, <1>10, <1>12 DEF BodyGoes, HasBody
  <2>3. x[a] \in {h, b} /\ x[c] \in {h, b}
    BY <1>5, <1>10, <1>12
  <2>4. x[a].type = x[c].type
    BY <1>12, <2>1, <2>2, <2>3
  <2>5. x[a] \notin Unasked
    BY <1>10, <1>12
  <2> QED
    BY <1>5, <2>4, <2>5
<1>13. ASSUME HasBody(m) => BodyGoes(s, m), NEW i \in DOMAIN m.frames
       PROVE  \E a \in DOMAIN x : \E k \in DOMAIN x[a].of : x[a].of[k] = m.frames[i]
  <2>1. CASE ~m.store
    <3>1. \E a \in DOMAIN x : x[a].of = m.frames
      BY <1>5, <1>6, <1>13, <2>1 DEF HasBody
    <3> QED
      BY <3>1
  <2>2. CASE m.store
    <3>1. BodyGoes(s, m) /\ m.type # "DATA"
      BY <1>2, <1>13, <2>2 DEF HasBody
    <3>2. PICK a \in DOMAIN x, c \in DOMAIN x : x[a] = h /\ x[c] = b
      BY <1>5, <3>1
    <3>3. CASE i = 1
      BY <1>7, <2>2, <3>2, <3>3
    <3>4. CASE i # 1
      <4>1. i - 1 \in 1..(len - 1) /\ (i - 1) + 1 = i
        <5>1. i \in Nat /\ len \in Nat /\ i >= 1 /\ i <= len
          BY <1>1
        <5> QED
          BY <3>4, <5>1, OneBefore
      <4>2. i - 1 \in DOMAIN b.of /\ b.of[i - 1] = m.frames[i]
        BY <1>7, <2>2, <4>1
      <4> QED
        BY <3>2, <4>2
    <3> QED
      BY <3>3, <3>4
  <2> QED
    BY <2>1, <2>2
<1>14. ASSUME NEW a \in DOMAIN x PROVE WrittenOK(x[a], fs, d, own)
  <2>1. \A k \in DOMAIN x[a].of : x[a].of[k] > 0 /\ 2 * x[a].of[k] <= d
    BY <1>11 DEF MessageOK
  <2>2. CASE x[a] \in Unasked \/ x[a] = b
    BY <1>4, <2>1, <2>2 DEF WrittenOK
  <2>3. CASE x[a] = h /\ m.type # "DATA"
    <3>1. CASE m.store
      BY <1>2, <1>4, <2>1, <2>3, <3>1 DEF WrittenOK
    <3>2. CASE ~m.store
      <4>1. \/ m.frames = <<>> /\ m.type \in {"SETTINGS", "GOAWAY"} /\ own
            \/ \E n \in DOMAIN fs : m.frames = <<n>> /\ fs[n].type = m.type
        BY <3>2 DEF MessageOK
      <4> QED
        BY <1>4, <1>6, <2>1, <2>3, <3>2, <4>1 DEF WrittenOK
    <3> QED
      BY <3>1, <3>2
  <2> QED
    BY <1>5, <2>2, <2>3
<1>15. Paid(x, fs)
  <2> SUFFICES ASSUME NEW a \in DOMAIN x, x[a].type = "DATA"
               PROVE  \E n \in BodyFrames(fs) : Pays(x, a, n)
    BY DEF Paid
  <2>1. x[a] = b /\ BodyGoes(s, m) /\ (m.store => a > 1 /\ x[a - 1] = h)
    BY <1>4, <1>5
  <2>2. CASE m.store
    <3>1. x[a - 1].type = "HEADERS" /\ a > 1 /\ x[a - 1].of[1] = m.frames[1]
          /\ 1 \in DOMAIN x[a - 1].of
      BY <1>2, <1>4, <1>7, <2>1, <2>2
    <3>2. m.frames[1] > 0 /\ 2 * m.frames[1] <= d /\ fs[m.frames[1]].gzip
          /\ m.frames[1] \in Nat
      BY <1>1, <1>2, <2>2 DEF MessageOK
    <3>3. m.frames[1] \in BodyFrames(fs)
      BY <3>2 DEF BodyFrames
    <3> QED
      BY <3>1, <3>3 DEF Pays
  <2>3. CASE ~m.store
    <3>1. m.type = "DATA"
      BY <2>1, <2>3 DEF BodyGoes, HasBody
    <3>2. PICK n \in DOMAIN fs : m.frames = <<n>> /\ fs[n].type = "DATA"
      BY <2>3, <3>1 DEF MessageOK
    <3>3. x[a].of = <<n>> /\ n \in BodyFrames(fs)
      BY <1>6, <2>1, <2>3, <3>2 DEF BodyFrames
    <3>4. 1 \in DOMAIN x[a].of /\ x[a].of[1] = n
      BY <3>3
    <3> QED
      BY <3>3, <3>4 DEF Pays
  <2> QED
    BY <2>2, <2>3
<1> QED
  BY <1>3, <1>11, <1>12, <1>13, <1>14, <1>15 DEF x

\* A message leaves the queue, and what it is made of is written.
LEMMA Removed ==
    ASSUME NEW q \in Seq(Message), NEW c \in DOMAIN q
    PROVE  /\ RemoveAt(q, c) \in Seq(Message)
           /\ \A i \in DOMAIN RemoveAt(q, c) :
                LET j == IF i < c THEN i ELSE i + 1
                IN  j \in DOMAIN q /\ j # c /\ RemoveAt(q, c)[i] = q[j]
           /\ \A j \in DOMAIN q : j # c =>
                \E i \in DOMAIN RemoveAt(q, c) : RemoveAt(q, c)[i] = q[j]
           /\ DOMAIN RemoveAt(q, c) \subseteq Nat /\ c \in Nat
<1> DEFINE r == RemoveAt(q, c)
<1>1. r \in Seq(Message) /\ Len(r) = Len(q) - 1
      /\ \A j \in 1..(Len(q) - 1) : r[j] = IF j < c THEN q[j] ELSE q[j + 1]
  BY RemoveAtType
<1>2. Len(q) \in Nat /\ DOMAIN q = 1..Len(q) /\ c \in 1..Len(q)
  OBVIOUS
<1> HIDE DEF r
<1>3. DOMAIN r = 1..(Len(q) - 1)
  BY <1>1
<1>4. ASSUME NEW i \in DOMAIN r
      PROVE  LET j == IF i < c THEN i ELSE i + 1
             IN  j \in DOMAIN q /\ j # c /\ r[i] = q[j]
  BY <1>1, <1>2, <1>3, <1>4
<1>5. ASSUME NEW j \in DOMAIN q, j # c
      PROVE  \E i \in DOMAIN r : r[i] = q[j]
  <2>1. CASE j < c
    BY <1>1, <1>2, <1>3, <1>5, <2>1
  <2>2. CASE ~(j < c)
    <3>1. j - 1 \in 1..(Len(q) - 1) /\ ~(j - 1 < c) /\ (j - 1) + 1 = j
      BY <1>2, <1>5, <2>2
    <3>2. r[j - 1] = q[j]
      BY <1>1, <3>1
    <3> QED
      BY <1>3, <3>1, <3>2
  <2> QED
    BY <2>1, <2>2
<1> QED
  BY <1>1, <1>2, <1>3, <1>4, <1>5 DEF r

LEMMA DirectionSubmitted ==
    ASSUME NEW q \in Seq(Message), NEW p \in Seq(Written), NEW x \in Seq(Written),
           NEW fs, NEW d, NEW own, NEW c \in DOMAIN q,
           Direction(q, p, fs, d, own),
           \A a \in DOMAIN x : WrittenOK(x[a], fs, d, own),
           \A a \in DOMAIN x : \A k \in DOMAIN x[a].of :
              \E i \in DOMAIN q[c].frames : q[c].frames[i] = x[a].of[k],
           \A a, b \in DOMAIN x : \A k \in DOMAIN x[a].of, l \in DOMAIN x[b].of :
              x[a].of[k] = x[b].of[l] => a = b
    PROVE  Direction(RemoveAt(q, c), p \o x, fs, d, own)
<1> DEFINE r == RemoveAt(q, c)
           y == p \o x
           back(i) == IF i < c THEN i ELSE i + 1
<1>1. /\ \A i \in DOMAIN r : back(i) \in DOMAIN q /\ back(i) # c /\ r[i] = q[back(i)]
      /\ DOMAIN r \subseteq Nat /\ c \in Nat
  BY Removed
<1>2. \A i, j \in DOMAIN r : back(i) = back(j) => i = j
  BY <1>1
<1>3. /\ Len(p) \in Nat
      /\ \A j \in DOMAIN y :
           \/ j \in DOMAIN p /\ y[j] = p[j]
           \/ j - Len(p) \in DOMAIN x /\ y[j] = x[j - Len(p)]
      /\ \A j \in DOMAIN y : j \in Nat
  BY Joined
<1> HIDE DEF r, y, back
<1>4. \A i \in DOMAIN r : MessageOK(r[i], fs, d, own)
  BY <1>1 DEF Direction
<1>5. \A j \in DOMAIN y : WrittenOK(y[j], fs, d, own)
  BY <1>3 DEF Direction
<1>6. \A i, j \in DOMAIN r : \A k \in DOMAIN r[i].frames, l \in DOMAIN r[j].frames :
         r[i].frames[k] = r[j].frames[l] => i = j
  BY <1>1, <1>2 DEF Direction, Once
<1>7. ASSUME NEW i \in DOMAIN r, NEW j \in DOMAIN y,
             NEW k \in DOMAIN r[i].frames, NEW l \in DOMAIN y[j].of
      PROVE  r[i].frames[k] # y[j].of[l]
  <2>1. CASE j \in DOMAIN p /\ y[j] = p[j]
    BY <1>1, <2>1 DEF Direction, Once
  <2>2. CASE j - Len(p) \in DOMAIN x /\ y[j] = x[j - Len(p)]
    <3>1. PICK h \in DOMAIN q[c].frames : q[c].frames[h] = y[j].of[l]
      BY <2>2, SMTT(30)
    <3> QED
      BY <1>1, <3>1 DEF Direction, Once
  <2> QED
    BY <1>3, <2>1, <2>2
<1>8. ASSUME NEW i \in DOMAIN y, NEW j \in DOMAIN y,
             NEW k \in DOMAIN y[i].of, NEW l \in DOMAIN y[j].of,
             y[i].of[k] = y[j].of[l], y[i].of[k] # Freed
      PROVE  i = j
  <2> DEFINE old(a) == a \in DOMAIN p /\ y[a] = p[a]
             new(a) == a - Len(p) \in DOMAIN x /\ y[a] = x[a - Len(p)]
  <2>1. CASE old(i) /\ old(j)
    BY <1>8, <2>1 DEF Direction, Once
  <2>2. CASE new(i) /\ new(j)
    <3>1. i - Len(p) = j - Len(p)
      BY <1>8, <2>2
    <3> QED
      BY <1>3, <3>1
  <2>3. CASE new(i) /\ old(j)
    <3>1. PICK h \in DOMAIN q[c].frames : q[c].frames[h] = y[i].of[k]
      BY <2>3
    <3> QED
      BY <1>8, <2>3, <3>1 DEF Direction, Once
  <2>4. CASE old(i) /\ new(j)
    <3>1. PICK h \in DOMAIN q[c].frames : q[c].frames[h] = y[j].of[l]
      BY <2>4
    <3> QED
      BY <1>8, <2>4, <3>1 DEF Direction, Once
  <2> QED
    BY <1>3, <2>1, <2>2, <2>3, <2>4
<1>9. Once(r, y)
  BY <1>6, <1>7, <1>8 DEF Once
<1> QED
  BY <1>4, <1>5, <1>9 DEF Direction, r, y

\* What is written carries no frame.
LEMMA DirectionWritten ==
    ASSUME NEW q \in Seq(Message), NEW p \in Seq(Written), NEW x \in Seq(Written),
           NEW fs, NEW d, NEW own,
           Direction(q, p, fs, d, own),
           \A a \in DOMAIN x : WrittenOK(x[a], fs, d, own),
           \A a \in DOMAIN x : \A k \in DOMAIN x[a].of : x[a].of[k] = Freed
    PROVE  Direction(q, p \o x, fs, d, own)
<1> DEFINE y == p \o x
<1>1. \A j \in DOMAIN y :
         \/ j \in DOMAIN p /\ y[j] = p[j]
         \/ j - Len(p) \in DOMAIN x /\ y[j] = x[j - Len(p)]
  BY Joined
<1> HIDE DEF y
<1>2. \A j \in DOMAIN y : WrittenOK(y[j], fs, d, own)
  BY <1>1 DEF Direction
<1>3. \A j \in DOMAIN y : \A l \in DOMAIN y[j].of :
         y[j].of[l] # Freed => j \in DOMAIN p /\ y[j] = p[j]
  BY <1>1
<1>4. ASSUME NEW i \in DOMAIN q, NEW j \in DOMAIN y,
             NEW k \in DOMAIN q[i].frames, NEW l \in DOMAIN y[j].of
      PROVE  q[i].frames[k] # y[j].of[l]
  <2>1. q[i].frames[k] # Freed
    BY <1>4 DEF Direction, MessageOK, Freed
  <2> QED
    BY <1>3, <2>1 DEF Direction, Once
<1>5. Once(q, y)
  BY <1>3, <1>4 DEF Direction, Once
<1> QED
  BY <1>2, <1>5 DEF Direction, y

-----------------------------------------------------------------------------
(***************************************************************************)
(* Counting frames.                                                        *)
(***************************************************************************)
Where(q, A) == {n \in DOMAIN q : q[n] \in A}

LEMMA WhereFinite ==
    ASSUME NEW S, NEW q \in Seq(S), NEW A
    PROVE  IsFiniteSet(Where(q, A)) /\ Cardinality(Where(q, A)) \in Nat
<1>1. Where(q, A) \in SUBSET (1..Len(q)) /\ Len(q) \in Nat
  BY DEF Where
<1>2. IsFiniteSet(1..Len(q))
  BY <1>1, FS_Interval
<1> QED
  BY <1>1, <1>2, FS_Subset, FS_CardinalityType

LEMMA WhereAppend ==
    ASSUME NEW S, NEW q \in Seq(S), NEW e \in S, NEW A
    PROVE  /\ Cardinality(Where(Append(q, e), A)) <= Cardinality(Where(q, A)) + 1
           /\ e \notin A => Cardinality(Where(Append(q, e), A)) = Cardinality(Where(q, A))
<1> DEFINE y == Append(q, e)
           n == Len(q) + 1
<1>1. /\ DOMAIN q = 1..Len(q) /\ Len(q) \in Nat
      /\ DOMAIN y = 1..n /\ y[n] = e /\ \A i \in 1..Len(q) : y[i] = q[i]
  BY AppendProperties
<1>2. 1..n = (1..Len(q)) \cup {n}
  BY <1>1
<1> HIDE DEF y, n
<1>3. Where(y, A) = IF e \in A THEN Where(q, A) \cup {n} ELSE Where(q, A)
  BY <1>1, <1>2 DEF Where
<1>4. Cardinality(Where(q, A) \cup {n}) \in {Cardinality(Where(q, A)), Cardinality(Where(q, A)) + 1}
  BY WhereFinite, FS_AddElement
<1>5. Cardinality(Where(q, A)) \in Nat
  BY WhereFinite
<1> QED
  BY <1>3, <1>4, <1>5 DEF y

LEMMA WhereGrows ==
    ASSUME NEW S, NEW q \in Seq(S), NEW r \in Seq(S), NEW A, Grows(q, r)
    PROVE  Cardinality(Where(q, A)) <= Cardinality(Where(r, A))
<1>1. DOMAIN q = 1..Len(q) /\ DOMAIN r = 1..Len(r) /\ Len(q) \in Nat /\ Len(r) \in Nat
  OBVIOUS
<1>2. Where(q, A) \in SUBSET Where(r, A)
  BY <1>1 DEF Where, Grows
<1> QED
  BY <1>2, WhereFinite, FS_Subset

LEMMA OfWhere ==
    ASSUME TypeInv, NEW s \in Side, NEW T
    PROVE  /\ Of(s, T) = Where(sent[s], {f \in Frame : f.type \in T})
           /\ WrittenOf(s, T) = Where(out[s], {w \in Written : w.type \in T})
           /\ sent[s] \in Seq(Frame) /\ out[s] \in Seq(Written)
<1>1. sent[s] \in Seq(Frame) /\ out[s] \in Seq(Written)
  BY DEF TypeInv, TypeOK
<1>2. (\A n \in DOMAIN sent[s] : sent[s][n] \in Frame)
      /\ (\A n \in DOMAIN out[s] : out[s][n] \in Written)
  BY <1>1
<1>3. Of(s, T) = Where(sent[s], {f \in Frame : f.type \in T})
  BY <1>2 DEF Of, Where
<1>4. WrittenOf(s, T) = Where(out[s], {w \in Written : w.type \in T})
  BY <1>2 DEF WrittenOf, Where
<1> QED
  BY <1>1, <1>3, <1>4

LEMMA BodyFramesWhere ==
    ASSUME NEW fs \in Seq(Frame)
    PROVE  BodyFrames(fs) = Where(fs, {f \in Frame : f.type = "DATA" \/ f.gzip})
<1>1. \A n \in DOMAIN fs : fs[n] \in Frame
  OBVIOUS
<1> QED
  BY <1>1 DEF BodyFrames, Where

-----------------------------------------------------------------------------
(***************************************************************************)
(* The steps.  A peer sends a frame.                                       *)
(***************************************************************************)
LEMMA PeerSends ==
    ASSUME TypeInv, NEW s \in Side, Peer(s)
    PROVE  /\ \E f \in Frame :
                /\ sent' = [sent EXCEPT ![s] = Append(@, f)]
                /\ f.gzip => f.type = "HEADERS"
                /\ f.type = "ACK" =>
                     Cardinality(Of(s, {"ACK"})) < Cardinality(WrittenOf(s, {"SETTINGS"}))
                /\ f.type = "DATA" \/ f.gzip => Budget(s)
           /\ UNCHANGED <<parsed, messages, client, out, deferred, handler, cursor>>
<1>1. UNCHANGED <<parsed, messages, client, out, deferred, handler, cursor>>
  BY DEF Peer, SendSettings, SendAck, SendWindowUpdate, SendPing, SendHeaders, SendBody, Send,
         sessionVars
<1>2. \A t \in {"SETTINGS", "ACK", "WINDOW_UPDATE", "PING"} :
         Control(t) \in Frame /\ Control(t).type = t /\ ~Control(t).gzip
  BY DEF Control, Frame, FrameType
<1>3. \A t \in Requested(s) : t \in Nat
  <2>1. \A n \in DOMAIN out["down"] : out["down"][n].stream \in Nat
    <3>1. out["down"] \in Seq(Written) /\ \A w \in Written : w.stream \in Nat
      BY DEF TypeInv, TypeOK, Side, Written
    <3> QED
      BY <3>1
  <2> QED
    BY <2>1, ConstantsAssumption DEF Requested, WrittenOf
<1>4. CASE SendSettings(s)
  BY <1>1, <1>2, <1>4 DEF SendSettings, Send
<1>5. CASE SendAck(s)
  BY <1>1, <1>2, <1>5 DEF SendAck, Send
<1>6. CASE SendWindowUpdate(s)
  BY <1>1, <1>2, <1>6 DEF SendWindowUpdate, Send
<1>7. CASE SendPing(s)
  BY <1>1, <1>2, <1>7 DEF SendPing, Send
<1>8. CASE SendHeaders(s)
  <2>1. PICK t \in Requested(s), e \in BOOLEAN, z \in BOOLEAN :
           Send(s, [type |-> "HEADERS", stream |-> t, end |-> e, gzip |-> z])
    BY <1>8 DEF SendHeaders
  <2> DEFINE f == [type |-> "HEADERS", stream |-> t, end |-> e, gzip |-> z]
  <2>2. f \in Frame /\ f.type = "HEADERS"
    BY <1>3 DEF Frame, FrameType
  <2>3. sent' = [sent EXCEPT ![s] = Append(@, f)]
    BY <2>1 DEF Send
  <2>4. Budget(s)
    BY <1>8 DEF SendHeaders
  <2> QED
    BY <1>1, <2>2, <2>3, <2>4
<1>9. CASE SendBody(s)
  <2>1. PICK t \in Requested(s), e \in BOOLEAN, y \in {"DATA", "HEADERS"} :
           Send(s, [type |-> y, stream |-> t, end |-> e, gzip |-> FALSE])
    BY <1>9 DEF SendBody
  <2> DEFINE f == [type |-> y, stream |-> t, end |-> e, gzip |-> FALSE]
  <2>2. f \in Frame /\ f.type # "ACK" /\ ~f.gzip
    BY <1>3 DEF Frame, FrameType
  <2>3. sent' = [sent EXCEPT ![s] = Append(@, f)]
    BY <2>1 DEF Send
  <2>4. Budget(s)
    BY <1>9 DEF SendBody
  <2> QED
    BY <1>1, <2>2, <2>3, <2>4
<1> QED
  BY <1>4, <1>5, <1>6, <1>7, <1>8, <1>9 DEF Peer

LEMMA PeerFrames ==
    ASSUME TypeInv, FramesInv, NEW s \in Side, Peer(s)
    PROVE  FramesInv'
<1>1. PICK f \in Frame :
         /\ sent' = [sent EXCEPT ![s] = Append(@, f)]
         /\ f.gzip => f.type = "HEADERS"
         /\ f.type = "ACK" =>
              Cardinality(Of(s, {"ACK"})) < Cardinality(WrittenOf(s, {"SETTINGS"}))
  BY PeerSends
<1>2. UNCHANGED <<parsed, messages, client, out>>
  BY PeerSends
<1>3. TypeInv'
  BY PeerTypeInv
<1>4. sent[s] \in Seq(Frame) /\ sent'[s] = Append(sent[s], f)
  BY <1>1 DEF TypeInv, TypeOK
<1>5. /\ DOMAIN sent'[s] = 1..(Len(sent[s]) + 1) /\ Len(sent[s]) \in Nat
      /\ Len(sent'[s]) = Len(sent[s]) + 1
      /\ \A n \in 1..Len(sent[s]) : sent'[s][n] = sent[s][n]
      /\ sent'[s][Len(sent[s]) + 1] = f
  BY <1>4, AppendProperties
<1>6. \A r \in Side : r # s => sent'[r] = sent[r]
  BY <1>1 DEF TypeInv, TypeOK
<1>7. ASSUME NEW r \in Side
      PROVE  Direction(messages'[r], out'[Other(r)], sent'[r], parsed'[r], Refusing(r)')
  <2>1. Grows(sent[r], sent'[r])
    <3>1. CASE r = s
      BY <1>5, <3>1 DEF Grows
    <3>2. CASE r # s
      <4>1. Len(sent[r]) \in Nat
        BY DEF TypeInv, TypeOK
      <4> QED
        BY <1>6, <3>2, <4>1 DEF Grows
    <3> QED
      BY <3>1, <3>2
  <2>2. /\ messages[r] \in Seq(Message) /\ out[Other(r)] \in Seq(Written)
        /\ sent[r] \in Seq(Frame) /\ sent'[r] \in Seq(Frame) /\ parsed[r] \in Nat
    BY <1>3, SideOther DEF TypeInv, TypeOK
  <2>3. parsed[r] <= 2 * Len(sent[r])
    <3>1. todo \in Nat /\ Len(sent[r]) \in Nat /\ parsed[r] + Decoding(r) <= 2 * Len(sent[r])
      BY <2>2 DEF TypeInv, TypeOK, ReadsWhatIsThere
    <3> QED
      BY <2>2, <3>1 DEF Decoding
  <2>4. Direction(messages[r], out[Other(r)], sent[r], parsed[r], Refusing(r))
    BY DEF FramesInv
  <2>5. Refusing(r)' = Refusing(r)
    BY <1>2 DEF Refusing
  <2>6. Direction(messages[r], out[Other(r)], sent'[r], parsed[r], Refusing(r))
    BY <2>1, <2>2, <2>3, <2>4, DirectionGrows
  <2> QED
    BY <1>2, <2>5, <2>6
<1>8. ASSUME NEW r \in Side PROVE AckSent(r)' /\ GzipHeaders(r)'
  <2>1. AckSent(r) /\ GzipHeaders(r)
    BY DEF FramesInv
  <2>2. WrittenOf(r, {"SETTINGS"})' = WrittenOf(r, {"SETTINGS"})
    BY <1>2 DEF WrittenOf
  <2>3. CASE r # s
    <3>1. sent'[r] = sent[r]
      BY <1>6, <2>3
    <3>2. Of(r, {"ACK"})' = Of(r, {"ACK"})
      BY <3>1 DEF Of
    <3> QED
      BY <2>1, <2>2, <3>1, <3>2 DEF AckSent, GzipHeaders
  <2>4. CASE r = s
    <3>1. GzipHeaders(s)'
      <4>1. \A n \in 1..(Len(sent[s]) + 1) : n \in 1..Len(sent[s]) \/ n = Len(sent[s]) + 1
        BY <1>5
      <4>2. \A n \in 1..Len(sent[s]) : sent[s][n].gzip => sent[s][n].type = "HEADERS"
        BY <1>4, <2>1, <2>4 DEF GzipHeaders
      <4> QED
        BY <1>1, <1>5, <4>1, <4>2 DEF GzipHeaders
    <3> DEFINE A == {g \in Frame : g.type \in {"ACK"}}
    <3>2. Of(s, {"ACK"}) = Where(sent[s], A) /\ Of(s, {"ACK"})' = Where(Append(sent[s], f), A)
      <4>1. \A n \in DOMAIN sent'[s] : sent'[s][n] \in Frame
        <5>1. sent'[s] \in Seq(Frame)
          BY <1>3 DEF TypeInv, TypeOK
        <5> QED
          BY <5>1
      <4>2. Of(s, {"ACK"})' = Where(sent'[s], A)
        BY <4>1 DEF Of, Where
      <4> QED
        BY <1>4, <4>2, OfWhere
    <3>3. Cardinality(Where(sent[s], A)) \in Nat
          /\ Cardinality(Where(Append(sent[s], f), A)) \in Nat
      BY <1>3, <1>4, <3>2, WhereFinite, AppendProperties
    <3>4. Cardinality(WrittenOf(s, {"SETTINGS"})) \in Nat
      BY OfWhere, WhereFinite, ZenonT(60)
    <3>5. /\ Cardinality(Where(Append(sent[s], f), A)) <= Cardinality(Where(sent[s], A)) + 1
          /\ f \notin A => Cardinality(Where(Append(sent[s], f), A)) = Cardinality(Where(sent[s], A))
      BY <1>4, WhereAppend
    <3>6. f.type # "ACK" => f \notin A
      OBVIOUS
    <3> HIDE DEF A
    <3> QED
      BY <1>1, <2>1, <2>2, <2>4, <3>1, <3>2, <3>3, <3>4, <3>5, <3>6 DEF AckSent
  <2> QED
    BY <2>3, <2>4
<1>9. (client # "connected" => out["down"] = <<>>)'
  BY <1>2 DEF FramesInv
<1> QED
  BY <1>7, <1>8, <1>9 DEF FramesInv

(***************************************************************************)
(* The steps of the proxy, which leave what the peers have sent alone.     *)
(***************************************************************************)
LEMMA ProxyFrames ==
    ASSUME TypeInv, TypeInv', FramesInv, UNCHANGED sent,
           \A r \in Side : Grows(out[r], out'[r]),
           \A r \in Side :
              Direction(messages'[r], out'[Other(r)], sent[r], parsed'[r], Refusing(r)'),
           client' # "connected" => out'["down"] = <<>>
    PROVE  FramesInv'
<1>1. ASSUME NEW r \in Side PROVE AckSent(r)' /\ GzipHeaders(r)'
  <2>1. AckSent(r) /\ GzipHeaders(r)
    BY DEF FramesInv
  <2>2. Of(r, {"ACK"})' = Of(r, {"ACK"}) /\ GzipHeaders(r)'
    BY <2>1 DEF Of, GzipHeaders
  <2> DEFINE A == {w \in Written : w.type \in {"SETTINGS"}}
  <2>3. out[r] \in Seq(Written) /\ out'[r] \in Seq(Written) /\ sent[r] \in Seq(Frame)
    BY DEF TypeInv, TypeOK
  <2>4. WrittenOf(r, {"SETTINGS"}) = Where(out[r], A)
    BY OfWhere
  <2>5. WrittenOf(r, {"SETTINGS"})' = Where(out'[r], A)
    <3>1. \A n \in DOMAIN out'[r] : out'[r][n] \in Written
      BY <2>3
    <3> QED
      BY <3>1 DEF WrittenOf, Where
  <2> HIDE DEF A
  <2>6. /\ Cardinality(Where(out[r], A)) <= Cardinality(Where(out'[r], A))
        /\ Cardinality(Where(out[r], A)) \in Nat /\ Cardinality(Where(out'[r], A)) \in Nat
    BY <2>3, WhereGrows, WhereFinite
  <2>7. Cardinality(Of(r, {"ACK"})) \in Nat
    <3> DEFINE B == {f \in Frame : f.type \in {"ACK"}}
    <3>1. Of(r, {"ACK"}) = Where(sent[r], B)
      BY OfWhere
    <3> HIDE DEF B
    <3> QED
      BY <2>3, <3>1, WhereFinite
  <2> QED
    BY <2>1, <2>2, <2>4, <2>5, <2>6, <2>7 DEF AckSent
<1> QED
  BY <1>1 DEF FramesInv

LEMMA GrowsSame == ASSUME NEW S, NEW q \in Seq(S) PROVE Grows(q, q)
BY DEF Grows

\* The types of the pieces, where a step starts.
LEMMA DirectionTypes ==
    ASSUME TypeInv, NEW s \in Side
    PROVE  /\ messages[s] \in Seq(Message) /\ out[s] \in Seq(Written)
           /\ sent[s] \in Seq(Frame) /\ parsed[s] \in Nat
           /\ parsed[s] <= 2 * Len(sent[s])
           /\ Grows(out[s], out[s]) /\ Grows(sent[s], sent[s])
           /\ Other(s) \in Side /\ Other(s) # s /\ Other(Other(s)) = s
<1>1. messages[s] \in Seq(Message) /\ out[s] \in Seq(Written)
      /\ sent[s] \in Seq(Frame) /\ parsed[s] \in Nat /\ todo \in Nat
  BY DEF TypeInv, TypeOK
<1>2. parsed[s] <= 2 * Len(sent[s])
  <2>1. Len(sent[s]) \in Nat /\ parsed[s] + Decoding(s) <= 2 * Len(sent[s])
    BY <1>1 DEF TypeInv, ReadsWhatIsThere
  <2> QED
    BY <1>1, <2>1 DEF Decoding
<1> QED
  BY <1>1, <1>2, GrowsSame DEF Other, Side

LEMMA QuietFrames ==
    ASSUME TypeInv, TypeInv', FramesInv, UNCHANGED <<sent, parsed, messages, out>>,
           client = "connected" => client' = "connected",
           client = "refused" => client' = "refused"
    PROVE  FramesInv'
<1>1. ASSUME NEW r \in Side
      PROVE  Direction(messages'[r], out'[Other(r)], sent[r], parsed'[r], Refusing(r)')
  <2>1. /\ Direction(messages[r], out[Other(r)], sent[r], parsed[r], Refusing(r))
        /\ Refusing(r) => Refusing(r)'
    BY DEF FramesInv, Refusing
  <2>2. Direction(messages[r], out[Other(r)], sent[r], parsed[r], Refusing(r)')
    BY <2>1, DirectionTypes, DirectionGrows
  <2> QED
    BY <2>2
<1>2. client' # "connected" => out'["down"] = <<>>
  BY DEF FramesInv
<1> QED
  BY <1>1, <1>2, ProxyFrames, DirectionTypes

LEMMA BeginFrames ==
    ASSUME TypeInv, TypeInv', FramesInv, NEW s \in Side, on_begin_frame_callback(s)
    PROVE  FramesInv'
<1> DEFINE f == sent[s][parsed[s] \div 2 + 1]
           m == NewMessage(f)
<1>1. /\ handler = s /\ cursor = 0 /\ todo > 0 /\ parsed[s] % 2 = 0
      /\ UNCHANGED <<sent, client, out>>
      /\ parsed' = [parsed EXCEPT ![s] = @ + 1]
      /\ \/ UNCHANGED messages
         \/ messages' = [messages EXCEPT ![s] = Append(@, m)] /\ f.type # "WINDOW_UPDATE"
  BY DEF on_begin_frame_callback, peerVars, sessionVars, PassedOn
<1>2. f \in Frame
  BY <1>1, DecodedFrame
<1>3. parsed'[s] = parsed[s] + 1 /\ \A r \in Side : r # s => parsed'[r] = parsed[r]
                                                     /\ messages'[r] = messages[r]
  BY <1>1 DEF TypeInv, TypeOK
<1>4. \A r \in Side : Direction(messages[r], out[Other(r)], sent[r], parsed[r], Refusing(r))
  BY DEF FramesInv
<1> DEFINE q == messages[s]
           p == out[Other(s)]
           d == parsed[s]
<1>5. Direction(q, p, sent[s], d + 1, Refusing(s))
  <2>1. d \in Nat /\ d + 1 \in Nat /\ d <= d + 1
    BY DirectionTypes
  <2> QED
    BY <1>4, <2>1, DirectionTypes, DirectionGrows
<1>6. Direction(messages'[s], p, sent[s], d + 1, Refusing(s))
  <2>1. CASE UNCHANGED messages
    BY <1>5, <2>1
  <2>2. CASE messages' = [messages EXCEPT ![s] = Append(@, m)] /\ f.type # "WINDOW_UPDATE"
    <3>1. m \in Message /\ m.frames = <<>> /\ ~m.store /\ m.stat = "HEADER"
      <4>1. f.type \in MessageType /\ f.stream \in Nat /\ <<>> \in Seq(Nat)
        BY <1>2, <2>2 DEF Frame, MessageType
      <4> HIDE DEF f
      <4> QED
        BY <4>1 DEF NewMessage, Message
    <3> HIDE DEF m
    <3>2. MessageOK(m, sent[s], d + 1, Refusing(s))
      BY <3>1 DEF MessageOK
    <3>3. messages'[s] = Append(q, m)
      BY <2>2 DEF TypeInv, TypeOK
    <3>4. q \in Seq(Message) /\ p \in Seq(Written)
      BY DirectionTypes
    <3> HIDE DEF q, p, d
    <3>5. <<m>> \in Seq(Message) /\ Append(q, m) = q \o <<m>>
      BY <3>1, <3>4
    <3>6. \A i \in DOMAIN <<m>> :
            <<m>>[i].frames = <<>> /\ MessageOK(<<m>>[i], sent[s], d + 1, Refusing(s))
      BY <3>1, <3>2
    <3>7. Direction(q \o <<m>>, p, sent[s], d + 1, Refusing(s))
      BY <1>5, <3>4, <3>5, <3>6, DirectionQueued
    <3> QED
      BY <3>3, <3>5, <3>7
  <2> QED
    BY <1>1, <2>1, <2>2
<1>7. ASSUME NEW r \in Side
      PROVE  Direction(messages'[r], out'[Other(r)], sent[r], parsed'[r], Refusing(r)')
  <2>1. Refusing(r)' = Refusing(r) /\ out' = out
    BY <1>1 DEF Refusing
  <2>2. CASE r = s
    BY <1>3, <1>6, <2>1, <2>2
  <2>3. CASE r # s
    BY <1>3, <1>4, <2>1, <2>3
  <2> QED
    BY <2>2, <2>3
<1> QED
  BY <1>1, <1>7, ProxyFrames, DirectionTypes DEF FramesInv

LEMMA OneMessage ==
    ASSUME TypeInv, NEW s \in Side, NEW f
    PROVE  \A i, j \in getMessage(s, f) : i = j
<1>1. DOMAIN messages[s] = 1..Len(messages[s]) /\ Len(messages[s]) \in Nat
  BY DEF TypeInv, TypeOK
<1>2. ASSUME NEW i \in getMessage(s, f), NEW j \in getMessage(s, f), i < j
      PROVE  FALSE
  <2>1. i \in 1..(j - 1)
    BY <1>1, <1>2 DEF getMessage
  <2> QED
    BY <2>1 DEF getMessage
<1>3. \A i \in getMessage(s, f) : i \in Nat
  BY <1>1 DEF getMessage
<1> QED
  BY <1>2, <1>3

LEMMA ReceiveFrames ==
    ASSUME TypeInv, TypeInv', FramesInv, NEW s \in Side, on_frame_recv_callback(s)
    PROVE  FramesInv'
<1> DEFINE n == (parsed[s] + 1) \div 2
           f == sent[s][n]
           taken == IF PassedOn(s, f) THEN getMessage(s, f) ELSE {}
           c == IF taken = {} THEN 0 ELSE CHOOSE i \in taken : TRUE
<1>1. /\ handler = s /\ cursor = 0 /\ todo > 0 /\ parsed[s] % 2 = 1
      /\ UNCHANGED <<sent, client, out>>
      /\ parsed' = [parsed EXCEPT ![s] = @ + 1]
      /\ messages' = [messages EXCEPT ![s] =
            [i \in DOMAIN @ |-> IF PassedOn(s, f) /\ i \in getMessage(s, f)
                                THEN Received(@[i], f, n) ELSE @[i]]]
  BY DEF on_frame_recv_callback, peerVars, sessionVars
<1>2. parsed'[s] = parsed[s] + 1 /\ \A r \in Side : r # s => parsed'[r] = parsed[r]
                                                     /\ messages'[r] = messages[r]
  BY <1>1 DEF TypeInv, TypeOK
<1>3. \A r \in Side : Direction(messages[r], out[Other(r)], sent[r], parsed[r], Refusing(r))
  BY DEF FramesInv
<1>4. /\ n \in DOMAIN sent[s] /\ parsed[s] + 1 = 2 * n /\ f \in Frame
  <2>1. parsed[s] \in Nat /\ parsed[s] + 1 <= 2 * Len(sent[s]) /\ f \in Frame
    BY <1>1, DecodedFrame
  <2>2. Len(sent[s]) \in Nat /\ DOMAIN sent[s] = 1..Len(sent[s])
    BY DirectionTypes
  <2> HIDE DEF f
  <2>3. n \in 1..Len(sent[s]) /\ parsed[s] + 1 = 2 * n
    BY <1>1, <2>1, <2>2, SMTT(30)
  <2> QED
    BY <2>1, <2>2, <2>3
<1>5. f.gzip => f.type = "HEADERS"
  BY <1>4 DEF FramesInv, GzipHeaders
<1>6. \A i \in DOMAIN messages[s] : i \in taken <=> i = c
  <2>1. \A i, j \in taken : i = j
    BY OneMessage
  <2>2. 0 \notin DOMAIN messages[s]
    BY DirectionTypes
  <2> HIDE DEF taken
  <2>3. CASE taken = {}
    BY <2>2, <2>3
  <2>4. CASE taken # {}
    <3>1. c \in taken
      BY <2>4
    <3> QED
      BY <2>1, <3>1
  <2> QED
    BY <2>3, <2>4
<1>7. DOMAIN messages'[s] = DOMAIN messages[s]
      /\ \A i \in DOMAIN messages[s] :
            messages'[s][i] = IF i \in taken THEN Received(messages[s][i], f, n) ELSE messages[s][i]
  BY <1>1 DEF TypeInv, TypeOK
<1>8. c \in DOMAIN messages[s] => messages[s][c].stat # "COMPLETE"
  <2>1. ASSUME c \in DOMAIN messages[s] PROVE c \in getMessage(s, f)
    <3> HIDE DEF c
    <3> QED
      BY <1>6, <2>1
  <2> QED
    BY <2>1 DEF getMessage, Matches
<1> HIDE DEF n, taken, c
<1>9. Direction(messages'[s], out[Other(s)], sent[s], parsed[s] + 1, Refusing(s))
  <2>1. /\ messages[s] \in Seq(Message) /\ messages'[s] \in Seq(Message)
        /\ out[Other(s)] \in Seq(Written) /\ sent[s] \in Seq(Frame) /\ parsed[s] \in Nat
    BY DirectionTypes DEF TypeInv, TypeOK
  <2> DEFINE q == messages[s]
             r == messages'[s]
             fs == sent[s]
             d == parsed[s]
             p == out[Other(s)]
  <2>2. Direction(q, p, fs, d, Refusing(s)) /\ n \in DOMAIN fs /\ d + 1 = 2 * n
        /\ (fs[n].gzip => fs[n].type = "HEADERS")
    BY <1>3, <1>4, <1>5
  <2>3. /\ DOMAIN r = DOMAIN q
        /\ \A i \in DOMAIN q : r[i] = IF i = c THEN Received(q[i], fs[n], n) ELSE q[i]
        /\ c \in DOMAIN q => q[c].stat # "COMPLETE"
    BY <1>6, <1>7, <1>8
  <2>4. q \in Seq(Message) /\ r \in Seq(Message) /\ p \in Seq(Written)
        /\ fs \in Seq(Frame) /\ d \in Nat
    BY <2>1
  <2> HIDE DEF q, r, fs, d, p, f
  <2>5. Direction(r, p, fs, d + 1, Refusing(s))
    BY <2>2, <2>3, <2>4, DirectionReceived
  <2> QED
    BY <2>5 DEF q, r, fs, d, p
<1>10. ASSUME NEW r \in Side
       PROVE  Direction(messages'[r], out'[Other(r)], sent[r], parsed'[r], Refusing(r)')
  <2>1. Refusing(r)' = Refusing(r) /\ out' = out
    BY <1>1 DEF Refusing
  <2>2. CASE r = s
    BY <1>2, <1>9, <2>1, <2>2
  <2>3. CASE r # s
    BY <1>2, <1>3, <2>1, <2>3
  <2> QED
    BY <2>2, <2>3
<1> QED
  BY <1>1, <1>10, ProxyFrames, DirectionTypes DEF FramesInv

\* The proxy's own messages: the origin has refused HTTP/2.
LEMMA RefuseFrames ==
    ASSUME TypeInv, TypeInv', FramesInv, Refuse
    PROVE  FramesInv'
<1> DEFINE q == messages["down"]
           p == out["up"]
           new == GoawayMessages
<1>1. /\ client = "connecting" /\ client' = "refused"
      /\ messages' = [messages EXCEPT !["down"] = q \o new]
      /\ UNCHANGED <<sent, parsed, out>>
  BY DEF Refuse, peerVars, inputVars, sessionVars
<1>2. /\ messages'["down"] = q \o new /\ messages'["up"] = messages["up"]
      /\ Refusing("down")' /\ ~Refusing("up")' /\ ~Refusing("up")
      /\ Other("down") = "up" /\ Other("up") = "down"
  BY <1>1 DEF TypeInv, TypeOK, Side, Refusing, Other
<1>3. \A r \in Side : Direction(messages[r], out[Other(r)], sent[r], parsed[r], Refusing(r))
  BY DEF FramesInv
<1>4. \A t \in {"SETTINGS", "GOAWAY"} :
        /\ Own(t, "COMPLETE") \in Message
        /\ Own(t, "COMPLETE").frames = <<>>
        /\ MessageOK(Own(t, "COMPLETE"), sent["down"], parsed["down"], Refusing("down")')
  BY <1>2 DEF Own, Message, MessageType, FrameType, MessageOK
<1>5. /\ new \in Seq(Message)
      /\ \A i \in DOMAIN new : \/ new[i] = Own("SETTINGS", "COMPLETE")
                               \/ new[i] = Own("GOAWAY", "COMPLETE")
  <2> DEFINE a == Own("SETTINGS", "COMPLETE")
             b == Own("GOAWAY", "COMPLETE")
  <2>1. a \in Message /\ b \in Message
    BY <1>4
  <2>2. new = <<b>> \/ new = <<a, b>>
    BY ShortConcat DEF GoawayMessages
  <2> HIDE DEF new, a, b
  <2>3. new \in Seq(Message) /\ \A i \in DOMAIN new : new[i] = a \/ new[i] = b
    <3>1. CASE new = <<b>>
      BY <2>1, <3>1
    <3>2. CASE new = <<a, b>>
      <4>1. DOMAIN new = {1, 2} /\ new[1] = a /\ new[2] = b
        BY <3>2
      <4>2. new \in Seq(Message)
        BY <2>1, <3>2
      <4> QED
        BY <4>1, <4>2
    <3> QED
      BY <2>2, <3>1, <3>2
  <2> QED
    BY <2>3 DEF a, b
<1>6. \A i \in DOMAIN new :
        new[i].frames = <<>> /\ MessageOK(new[i], sent["down"], parsed["down"], Refusing("down")')
  BY <1>4, <1>5
<1> HIDE DEF new
<1>7. Direction(q, p, sent["down"], parsed["down"], Refusing("down")')
  <2>1. "down" \in Side /\ out[Other("down")] = p
    BY <1>2 DEF Side
  <2>2. Direction(q, p, sent["down"], parsed["down"], Refusing("down"))
    BY <1>3, <2>1
  <2>3. /\ q \in Seq(Message) /\ p \in Seq(Written)
        /\ sent["down"] \in Seq(Frame) /\ parsed["down"] \in Nat
        /\ Grows(sent["down"], sent["down"]) /\ parsed["down"] <= 2 * Len(sent["down"])
        /\ parsed["down"] <= parsed["down"]
        /\ Refusing("down") => Refusing("down")'
    BY <1>2, <2>1, DirectionTypes DEF Side
  <2> HIDE DEF q, p
  <2> QED
    BY <2>2, <2>3, DirectionGrows
<1>8. Direction(q \o new, p, sent["down"], parsed["down"], Refusing("down")')
  <2>1. q \in Seq(Message) /\ p \in Seq(Written)
    BY DirectionTypes DEF Side
  <2> HIDE DEF q, p
  <2> QED
    BY <1>5, <1>6, <1>7, <2>1, DirectionQueued
<1>9. ASSUME NEW r \in Side
      PROVE  Direction(messages'[r], out'[Other(r)], sent[r], parsed'[r], Refusing(r)')
  <2>1. CASE r = "down"
    BY <1>1, <1>2, <1>8, <2>1
  <2>2. CASE r = "up"
    <3>1. Refusing("up")' = Refusing("up")
      BY DEF Refusing
    <3> QED
      BY <1>1, <1>2, <1>3, <2>2, <3>1
  <2> QED
    BY <2>1, <2>2 DEF Side
<1>10. out["down"] = <<>>
  BY <1>1 DEF FramesInv
<1> QED
  BY <1>1, <1>9, <1>10, ProxyFrames, DirectionTypes

\* The message that a turn of DoFlush's loop submits.
LEMMA SubmitStep ==
    ASSUME TypeInv, FramesInv, NEW s \in Side, FlushSubmit(s)
    PROVE  LET o == Other(s)
               m == messages[s][cursor]
           IN  /\ handler = s /\ cursor \in DOMAIN messages[s] /\ cursor # 0
               /\ m \in Message /\ m.stat = "COMPLETE"
               /\ MessageOK(m, sent[s], parsed[s], Refusing(s))
               /\ out'[o] = out[o] \o Submitted(o, m) /\ out'[s] = out[s]
               /\ messages'[s] = RemoveAt(messages[s], cursor) /\ messages'[o] = messages[o]
               /\ UNCHANGED <<sent, parsed, client>>
<1>1. /\ handler = s /\ cursor \in DOMAIN messages[s]
      /\ messages[s][cursor].stat = "COMPLETE"
      /\ out' = [out EXCEPT ![Other(s)] = @ \o Submitted(Other(s), messages[s][cursor])]
      /\ messages' = [messages EXCEPT ![s] = RemoveAt(@, cursor)]
      /\ UNCHANGED <<sent, parsed, client>>
  BY DEF FlushSubmit, Held, peerVars, inputVars
<1>2. messages[s] \in Seq(Message) /\ Other(s) \in Side /\ Other(s) # s
  BY DirectionTypes
<1>3. messages[s][cursor] \in Message /\ cursor # 0
  BY <1>1, <1>2
<1>4. MessageOK(messages[s][cursor], sent[s], parsed[s], Refusing(s))
  BY <1>1 DEF FramesInv, Direction
<1>5. out \in [Side -> Seq(Written)] /\ messages \in [Side -> Seq(Message)]
  BY DEF TypeInv, TypeOK
<1> QED
  BY <1>1, <1>2, <1>3, <1>4, <1>5

LEMMA SubmitFrames ==
    ASSUME TypeInv, TypeInv', PrefaceInv, FramesInv, NEW s \in Side, FlushSubmit(s)
    PROVE  FramesInv'
<1> DEFINE o == Other(s)
           m == messages[s][cursor]
           q == messages[s]
           p == out[o]
           fs == sent[s]
           d == parsed[s]
           x == Submitted(o, m)
<1>1. /\ handler = s /\ cursor \in DOMAIN q /\ cursor # 0
      /\ m \in Message /\ m.stat = "COMPLETE" /\ MessageOK(m, fs, d, Refusing(s))
      /\ out'[o] = p \o x /\ out'[s] = out[s]
      /\ messages'[s] = RemoveAt(q, cursor) /\ messages'[o] = messages[o]
      /\ UNCHANGED <<sent, parsed, client>>
  BY SubmitStep
<1>2. o \in Side /\ o # s /\ Other(o) = s /\ q \in Seq(Message) /\ p \in Seq(Written)
      /\ fs \in Seq(Frame) /\ d \in Nat /\ d <= 2 * Len(fs) /\ q[cursor] = m
  BY DirectionTypes
<1>3. /\ x \in Seq(Written)
      /\ \A a \in DOMAIN x : WrittenOK(x[a], fs, d, Refusing(s))
      /\ \A a \in DOMAIN x : \A k \in DOMAIN x[a].of :
            \E i \in DOMAIN m.frames : m.frames[i] = x[a].of[k]
      /\ \A a, b \in DOMAIN x : \A k \in DOMAIN x[a].of, l \in DOMAIN x[b].of :
            x[a].of[k] = x[b].of[l] => a = b
  <2>1. /\ o \in Side /\ m \in Message /\ fs \in Seq(Frame) /\ d \in Nat
        /\ MessageOK(m, fs, d, Refusing(s)) /\ m.stat = "COMPLETE" /\ d <= 2 * Len(fs)
    BY <1>1, <1>2
  <2> HIDE DEF o, m, q, p, fs, d
  <2> QED
    BY <2>1, SubmittedSplit DEF TypeInv
<1>4. Direction(q, p, fs, d, Refusing(s))
  BY DEF FramesInv
<1>5. Direction(RemoveAt(q, cursor), p \o x, fs, d, Refusing(s))
  <2> HIDE DEF o, m, q, p, fs, d, x
  <2> QED
    BY <1>1, <1>2, <1>3, <1>4, DirectionSubmitted
<1>6. ASSUME NEW r \in Side
      PROVE  Direction(messages'[r], out'[Other(r)], sent[r], parsed'[r], Refusing(r)')
  <2>1. Refusing(r)' = Refusing(r) /\ parsed'[r] = parsed[r]
    BY <1>1 DEF Refusing
  <2>2. CASE r = s
    <3> HIDE DEF x
    <3> QED
      BY <1>1, <1>5, <2>1, <2>2
  <2>3. CASE r = o
    <3>1. Direction(messages[o], out[s], sent[o], parsed[o], Refusing(o))
      BY <1>2 DEF FramesInv
    <3> QED
      BY <1>1, <1>2, <2>1, <2>3, <3>1
  <2> QED
    BY <2>2, <2>3 DEF Side, Other
<1>7. ASSUME NEW r \in Side PROVE Grows(out[r], out'[r])
  <2>1. Grows(p, p \o x)
    <3> HIDE DEF x, p
    <3> QED
      BY <1>2, <1>3, Joined
  <2>2. CASE r = s
    BY <1>1, <2>2, DirectionTypes
  <2>3. CASE r = o
    BY <1>1, <2>1, <2>3
  <2> QED
    BY <2>2, <2>3 DEF Side, Other
<1>8. client' # "connected" => out'["down"] = <<>>
  <2>1. CASE s = "up"
    BY <1>1, <2>1 DEF PrefaceInv
  <2>2. CASE s = "down"
    BY <1>1, <2>2 DEF FramesInv
  <2> QED
    BY <2>1, <2>2 DEF Side
<1> QED
  BY <1>1, <1>6, <1>7, <1>8, ProxyFrames

\* At the end of DoFlush what is written carries no frame: DATA whose message
\* is gone, or what nghttp2 writes unasked.
LEMMA FlushEndFrames ==
    ASSUME TypeInv, TypeInv', PrefaceInv, FramesInv, NEW s \in Side,
           FlushResume(s) \/ FlushDone(s)
    PROVE  FramesInv'
<1>1. PICK x \in Seq(Written) :
               /\ UNCHANGED <<sent, parsed, messages, client>>
               /\ \A r \in Side : r # s => out'[r] = out[r]
               /\ out'[s] = out[s] \o x
               /\ \A a \in DOMAIN x : x[a].type \notin {"ACK", "SETTINGS"}
               /\ \A a \in DOMAIN x : \A k \in DOMAIN x[a].of : x[a].of[k] = Freed
               /\ s = "down" /\ client # "connected" => out'[s] = <<>>
  <2>1. UNCHANGED <<sent, parsed, messages, client>>
    BY DEF FlushResume, FlushDone, peerVars, inputVars
  <2>2. CASE FlushResume(s)
    <3> DEFINE t == Head(deferred[s])
               w == [type |-> "DATA", stream |-> t, of |-> <<Freed>>]
    <3>1. deferred[s] \in Seq(Nat) /\ deferred[s] # <<>>
          /\ out' = [out EXCEPT ![s] = IF LocallyEnded(s, t) THEN @ ELSE Append(@, w)]
      BY <2>2 DEF FlushResume, TypeInv, TypeOK
    <3>2. t \in Nat
      BY <3>1
    <3> HIDE DEF t
    <3>3. w \in Written /\ w.type = "DATA" /\ w.of = <<Freed>>
      <4>1. <<Freed>> \in Seq(Nat)
        BY DEF Freed
      <4> QED
        BY <3>2, <4>1 DEF Written, MessageType, FrameType
    <3>4. \A k \in DOMAIN w.of : w.of[k] = Freed
      BY <3>3
    <3>5. s = "down" => client = "connected"
      <4>1. settings[s] /\ (s = "down" => out["down"] # <<>>)
        <5>1. settings[s]
          BY <3>1 DEF PrefaceInv
        <5>2. Len(<<>>) = 0
          OBVIOUS
        <5> QED
          BY <5>1, <5>2 DEF PrefaceInv, DownOpened
      <4> QED
        BY <4>1 DEF FramesInv
    <3>6. out \in [Side -> Seq(Written)]
      BY DEF TypeInv, TypeOK
    <3> HIDE DEF w
    <3> DEFINE x == IF LocallyEnded(s, t) THEN <<>> ELSE <<w>>
    <3>7. /\ x \in Seq(Written) /\ \A a \in DOMAIN x : x[a] = w
      BY <3>3, ShortSeqs
    <3>8. Append(out[s], w) = out[s] \o <<w>> /\ out[s] \o <<>> = out[s]
      BY <3>3, <3>6, AppendIsConcat, ConcatEmptySeq
    <3>9. out'[s] = out[s] \o x /\ \A r \in Side : r # s => out'[r] = out[r]
      BY <3>1, <3>6, <3>8
    <3> HIDE DEF x
    <3> QED
      BY <2>1, <3>3, <3>4, <3>5, <3>7, <3>9
  <2>3. CASE FlushDone(s)
    <3>1. PICK x \in Seq(Unasked) : /\ out' = [out EXCEPT ![s] = @ \o x]
                                    /\ x # <<>> => s = "up" \/ client = "connected"
      BY <2>3, FlushDoneOut DEF TypeInv
    <3>2. x \in Seq(Written) /\ \A a \in DOMAIN x : x[a] \in Unasked
      BY UnaskedWritten
    <3>3. \A w \in Unasked : w.type \notin {"ACK", "SETTINGS"} /\ DOMAIN w.of = {}
      BY UnaskedType
    <3>4. out \in [Side -> Seq(Written)] /\ (client # "connected" => out["down"] = <<>>)
      BY DEF TypeInv, TypeOK, FramesInv
    <3>5. out'[s] = out[s] \o x /\ \A r \in Side : r # s => out'[r] = out[r]
      BY <3>1, <3>4
    <3>6. s = "down" /\ client # "connected" => out'[s] = <<>>
      <4>1. <<>> \o <<>> = <<>>
        OBVIOUS
      <4> QED
        BY <3>1, <3>4, <3>5, <4>1
    <3> QED
      BY <2>1, <3>2, <3>3, <3>5, <3>6
  <2> QED
    BY <2>2, <2>3
<1> DEFINE o == Other(s)
<1>2. o \in Side /\ o # s /\ Other(o) = s
  BY DirectionTypes
<1>3. Direction(messages[o], out[s], sent[o], parsed[o], Refusing(o))
  BY <1>2 DEF FramesInv
<1>4. Direction(messages[o], out'[s], sent[o], parsed[o], Refusing(o))
  <2>1. \A a \in DOMAIN x : WrittenOK(x[a], sent[o], parsed[o], Refusing(o))
    BY <1>1 DEF WrittenOK
  <2>2. messages[o] \in Seq(Message) /\ out[s] \in Seq(Written)
    BY <1>2, DirectionTypes
  <2>3. Direction(messages[o], out[s] \o x, sent[o], parsed[o], Refusing(o))
    BY <1>1, <1>3, <2>1, <2>2, DirectionWritten
  <2> QED
    BY <1>1, <1>3, <2>3
<1>5. ASSUME NEW r \in Side
      PROVE  Direction(messages'[r], out'[Other(r)], sent[r], parsed'[r], Refusing(r)')
  <2>1. Refusing(r)' = Refusing(r) /\ messages' = messages /\ parsed' = parsed
    BY <1>1 DEF Refusing
  <2>2. CASE r = o
    BY <1>2, <1>4, <2>1, <2>2
  <2>3. CASE r = s
    <3>1. Direction(messages[s], out[o], sent[s], parsed[s], Refusing(s))
      BY DEF FramesInv
    <3> QED
      BY <1>1, <1>2, <2>1, <2>3, <3>1
  <2> QED
    BY <2>2, <2>3 DEF Side, Other
<1>6. ASSUME NEW r \in Side PROVE Grows(out[r], out'[r])
  <2>1. out[r] \in Seq(Written) /\ Grows(out[r], out[r])
    BY DirectionTypes
  <2>2. Grows(out[r], out[r] \o x)
    BY <1>1, <2>1, Joined
  <2> QED
    BY <1>1, <2>1, <2>2
<1>7. client' # "connected" => out'["down"] = <<>>
  BY <1>1 DEF FramesInv, Side
<1> QED
  BY <1>1, <1>5, <1>6, <1>7, ProxyFrames

LEMMA InitFramesInv == Init => FramesInv
<1> SUFFICES ASSUME Init PROVE FramesInv
  OBVIOUS
<1>1. /\ out = [s \in Side |-> <<>>]
      /\ \A s \in Side : \/ sent[s] = <<>> /\ messages[s] = <<>> /\ parsed[s] = 0
                         \/ /\ sent[s] = <<UpgradedRequest>> /\ parsed[s] = 2
                            /\ messages[s] = <<Own("SETTINGS", "INIT"), UpgradedMessage>>
  BY DEF Init, Side
<1>2. ASSUME NEW s \in Side
      PROVE  Direction(messages[s], out[Other(s)], sent[s], parsed[s], Refusing(s))
  <2>1. out[Other(s)] = <<>>
    BY <1>1, SideOther
  <2>2. CASE messages[s] = <<>>
    BY <2>1, <2>2 DEF Direction, Once
  <2>3. CASE /\ sent[s] = <<UpgradedRequest>> /\ parsed[s] = 2
             /\ messages[s] = <<Own("SETTINGS", "INIT"), UpgradedMessage>>
    <3> DEFINE q == messages[s]
    <3>1. DOMAIN q = {1, 2} /\ q[1] = Own("SETTINGS", "INIT") /\ q[2] = UpgradedMessage
      BY <2>3
    <3>2. DOMAIN Own("SETTINGS", "INIT").frames = {} /\ UpgradedMessage.frames = <<1>>
      BY DEF Own, UpgradedMessage
    <3>3. MessageOK(q[1], sent[s], 2, Refusing(s))
      BY <3>1, <3>2 DEF MessageOK, Own
    <3>4. DOMAIN sent[s] = {1} /\ sent[s][1] = UpgradedRequest
      BY <2>3
    <3>5. DOMAIN <<1>> = {1} /\ <<1>>[1] = 1
      OBVIOUS
    <3>6. MessageOK(q[2], sent[s], 2, Refusing(s))
      BY <3>1, <3>2, <3>4, <3>5 DEF MessageOK, UpgradedMessage, UpgradedRequest
    <3> HIDE DEF q
    <3>7. Once(q, <<>>)
      BY <3>1, <3>2 DEF Once
    <3>8. Direction(q, <<>>, sent[s], 2, Refusing(s))
      BY <3>1, <3>3, <3>6, <3>7 DEF Direction
    <3> QED
      BY <2>1, <2>3, <3>8 DEF q
  <2> QED
    BY <1>1, <2>2, <2>3
<1>3. ASSUME NEW s \in Side PROVE AckSent(s) /\ GzipHeaders(s)
  <2>1. \A n \in DOMAIN sent[s] : sent[s][n].type = "HEADERS"
    <3>1. UpgradedRequest.type = "HEADERS"
      BY DEF UpgradedRequest
    <3> QED
      BY <1>1, <3>1
  <2>2. Of(s, {"ACK"}) = {}
    BY <2>1 DEF Of
  <2>3. WrittenOf(s, {"SETTINGS"}) = {}
    BY <1>1 DEF WrittenOf
  <2> QED
    BY <2>1, <2>2, <2>3, FS_EmptySet DEF AckSent, GzipHeaders
<1>4. out["down"] = <<>>
  BY <1>1 DEF Side
<1> QED
  BY <1>2, <1>3, <1>4 DEF FramesInv

LEMMA NextFramesInv == TypeInv /\ PrefaceInv /\ FramesInv /\ [Next]_vars => FramesInv'
<1> SUFFICES ASSUME TypeInv, PrefaceInv, FramesInv, [Next]_vars PROVE FramesInv'
  OBVIOUS
<1>1. TypeInv'
  BY NextTypeInv
<1>2. CASE UNCHANGED vars
  BY <1>1, <1>2, QuietFrames DEF vars
<1>3. ASSUME NEW s \in Side, Peer(s) PROVE FramesInv'
  BY <1>3, PeerFrames
<1>4. ASSUME NEW s \in Side, Callback(s) PROVE FramesInv'
  <2>1. CASE ReadCb(s) \/ ReadDone(s) \/ FlushSkip(s)
    <3>1. /\ UNCHANGED <<sent, parsed, messages, out>>
          /\ client \in {"connected", "refused"} => client' = client
      BY <2>1 DEF ReadCb, ReadDone, FlushSkip, peerVars, inputVars, sessionVars
    <3> QED
      BY <1>1, <3>1, QuietFrames
  <2>2. CASE on_begin_frame_callback(s)
    BY <1>1, <2>2, BeginFrames
  <2>3. CASE on_frame_recv_callback(s)
    BY <1>1, <2>3, ReceiveFrames
  <2>4. CASE FlushSubmit(s)
    BY <1>1, <2>4, SubmitFrames
  <2>5. CASE FlushResume(s) \/ FlushDone(s)
    BY <1>1, <2>5, FlushEndFrames
  <2> QED
    BY <1>4, <2>1, <2>2, <2>3, <2>4, <2>5 DEF Callback
<1>5. CASE ReadIgnored \/ Connect
  <2>1. /\ UNCHANGED <<sent, parsed, messages, out>>
        /\ client \in {"connected", "refused"} => client' = client
    BY <1>5 DEF ReadIgnored, Connect, peerVars, inputVars, sessionVars
  <2> QED
    BY <1>1, <2>1, QuietFrames
<1>6. CASE Refuse
  BY <1>1, <1>6, RefuseFrames
<1> QED
  BY <1>2, <1>3, <1>4, <1>5, <1>6 DEF Next

-----------------------------------------------------------------------------
(***************************************************************************)
(* The ACKs a peer was sent are at most those the other one sent, and      *)
(* these at most the SETTINGS frames the other one was sent; of which none *)
(* is the proxy's own, unless no ACK has gone out on this side at all.     *)
(***************************************************************************)
LEMMA AcksCarried == TypeInv /\ FramesInv => AckEndToEnd
<1> SUFFICES ASSUME TypeInv, FramesInv, NEW s \in Side
             PROVE  Cardinality(WrittenOf(s, {"ACK"})) <=
                      Cardinality({n \in WrittenOf(Other(s), {"SETTINGS"}) :
                                     out[Other(s)][n].of # <<>>})
  BY DEF AckEndToEnd
<1> DEFINE o == Other(s)
           acks == WrittenOf(s, {"ACK"})
           from == Of(o, {"ACK"})
           told == WrittenOf(o, {"SETTINGS"})
           real == {n \in told : out[o][n].of # <<>>}
<1>1. o \in Side /\ Other(o) = s
  BY DirectionTypes
<1>2. /\ Direction(messages[o], out[s], sent[o], parsed[o], Refusing(o))
      /\ Direction(messages[s], out[o], sent[s], parsed[s], Refusing(s))
      /\ Cardinality(from) <= Cardinality(told)
  BY <1>1 DEF FramesInv, AckSent
<1>3. /\ IsFiniteSet(acks) /\ Cardinality(acks) \in Nat
      /\ IsFiniteSet(from) /\ Cardinality(from) \in Nat
      /\ IsFiniteSet(told) /\ Cardinality(told) \in Nat
  <2> DEFINE A == {w \in Written : w.type \in {"ACK"}}
             B == {f \in Frame : f.type \in {"ACK"}}
             C == {w \in Written : w.type \in {"SETTINGS"}}
  <2>1. acks = Where(out[s], A) /\ from = Where(sent[o], B) /\ told = Where(out[o], C)
    BY <1>1, OfWhere
  <2>2. out[s] \in Seq(Written) /\ out[o] \in Seq(Written) /\ sent[o] \in Seq(Frame)
    BY <1>1, DirectionTypes
  <2> HIDE DEF A, B, C, acks, from, told
  <2> QED
    BY <2>1, <2>2, WhereFinite
<1>4. ASSUME NEW j \in acks
      PROVE  /\ j \in DOMAIN out[s] /\ 1 \in DOMAIN out[s][j].of
             /\ out[s][j].of[1] \in from /\ out[s][j].of[1] # Freed
  <2>1. j \in DOMAIN out[s] /\ out[s][j].type = "ACK"
    BY DEF WrittenOf
  <2>2. PICK n \in DOMAIN sent[o] : out[s][j].of = <<n>> /\ sent[o][n].type = "ACK"
    BY <1>2, <2>1 DEF Direction, WrittenOK
  <2>3. n # Freed
    <3>1. sent[o] \in Seq(Frame)
      BY <1>1, DirectionTypes
    <3> QED
      BY <3>1 DEF Freed
  <2> QED
    BY <2>1, <2>2, <2>3 DEF Of
<1>5. Cardinality(acks) <= Cardinality(from)
  <2> DEFINE f == [j \in acks |-> out[s][j].of[1]]
  <2>1. \A i, j \in acks : out[s][i].of[1] = out[s][j].of[1] => i = j
    BY <1>2, <1>4 DEF Direction, Once
  <2>2. f \in Injection(acks, from)
    BY <1>4, <2>1 DEF Injection, IsInjective
  <2> HIDE DEF f, acks, from
  <2> QED
    BY <1>3, <2>2, FS_Injection
<1>6. CASE \A n \in told : out[o][n].of # <<>>
  <2>1. real = told
    BY <1>6
  <2> HIDE DEF acks, from, told, real
  <2>2. Cardinality(acks) <= Cardinality(real)
    BY <1>2, <1>3, <1>5, <2>1
  <2> QED
    BY <2>2 DEF acks, real, told
<1>7. CASE \E n \in told : out[o][n].of = <<>>
  <2>1. Refusing(s)
    BY <1>2, <1>7 DEF Direction, WrittenOK, WrittenOf
  <2>2. out[s] = <<>>
    BY <2>1 DEF Refusing, FramesInv
  <2>3. acks = {}
    BY <2>2 DEF WrittenOf
  <2>4. Cardinality(real) \in Nat
    <3>1. real \in SUBSET told
      OBVIOUS
    <3> HIDE DEF real, told
    <3> QED
      BY <1>3, <3>1, FS_Subset, FS_CardinalityType
  <2> HIDE DEF acks, real, told
  <2>5. Cardinality(acks) = 0
    BY <2>3, FS_EmptySet
  <2>6. Cardinality(acks) <= Cardinality(real)
    BY <2>4, <2>5
  <2> QED
    BY <2>6 DEF acks, real, told
<1> QED
  BY <1>6, <1>7

(***************************************************************************)
(* A peer is told that its SETTINGS frame is in force only when the far    *)
(* peer, which had to be sent that frame for it, has said so.              *)
(***************************************************************************)
THEOREM AckEndToEndCorrect == Spec => []AckEndToEnd
<1>1. Init => PrefaceInv
  BY DEF Init, PrefaceInv, DownOpened, OnlyUpdates, Side
<1> QED
  BY <1>1, AcksCarried, InitTypeInv, NextTypeInv, NextPrefaceInv, InitFramesInv, NextFramesInv,
     PTL DEF Spec

-----------------------------------------------------------------------------
(***************************************************************************)
(* Nothing is lost and nothing sent twice, when the flow-control window is *)
(* as wide as all that the peers may send (Wide).  FramesInv says that no  *)
(* frame is in two places; WideInv, proved here, that each is somewhere.   *)
(* First one direction.                                                    *)
(***************************************************************************)
\* What has been paid for stays paid for, when the peer sends more ...
LEMMA PaidGrows ==
    ASSUME NEW p \in Seq(Written), NEW fs \in Seq(Frame), NEW gs \in Seq(Frame),
           Grows(fs, gs), Paid(p, fs)
    PROVE  Paid(p, gs)
<1>1. DOMAIN fs = 1..Len(fs) /\ DOMAIN gs = 1..Len(gs) /\ Len(fs) \in Nat /\ Len(gs) \in Nat
  OBVIOUS
<1>2. BodyFrames(fs) \subseteq BodyFrames(gs)
  BY <1>1 DEF BodyFrames, Grows
<1> QED
  BY <1>2 DEF Paid

\* ... and when more is written, which is paid for itself.
LEMMA PaidJoined ==
    ASSUME NEW p \in Seq(Written), NEW x \in Seq(Written), NEW fs,
           Paid(p, fs), Paid(x, fs)
    PROVE  Paid(p \o x, fs)
<1> DEFINE y == p \o x
<1>1. /\ Len(p) \in Nat
      /\ \A j \in DOMAIN y :
           \/ j \in DOMAIN p /\ y[j] = p[j]
           \/ j - Len(p) \in DOMAIN x /\ y[j] = x[j - Len(p)] /\ j > Len(p)
      /\ \A j \in DOMAIN p : j \in DOMAIN y /\ y[j] = p[j]
      /\ \A a \in DOMAIN x : Len(p) + a \in DOMAIN y /\ y[Len(p) + a] = x[a]
  BY Joined
<1>2. DOMAIN p = 1..Len(p) /\ DOMAIN x = 1..Len(x) /\ Len(x) \in Nat
  OBVIOUS
<1> HIDE DEF y
<1>3. ASSUME NEW j \in DOMAIN p, NEW n, Pays(p, j, n)
      PROVE  Pays(y, j, n)
  <2>1. CASE \E k \in DOMAIN p[j].of : p[j].of[k] = n
    BY <1>1, <2>1 DEF Pays
  <2>2. CASE /\ j > 1 /\ p[j - 1].type = "HEADERS"
             /\ \E k \in DOMAIN p[j - 1].of : p[j - 1].of[k] = n
    <3>1. j - 1 \in DOMAIN p
      BY <1>2, <2>2
    <3>2. y[j - 1] = p[j - 1]
      BY <1>1, <3>1
    <3> QED
      BY <2>2, <3>2 DEF Pays
  <2> QED
    BY <1>3, <2>1, <2>2 DEF Pays
<1>4. ASSUME NEW a \in DOMAIN x, NEW n, Pays(x, a, n)
      PROVE  Pays(y, Len(p) + a, n)
  <2>1. y[Len(p) + a] = x[a]
    BY <1>1
  <2>2. CASE \E k \in DOMAIN x[a].of : x[a].of[k] = n
    BY <2>1, <2>2 DEF Pays
  <2>3. CASE /\ a > 1 /\ x[a - 1].type = "HEADERS"
             /\ \E k \in DOMAIN x[a - 1].of : x[a - 1].of[k] = n
    <3>1. a - 1 \in DOMAIN x /\ Len(p) + (a - 1) = (Len(p) + a) - 1 /\ Len(p) + a > 1
      <4>1. /\ Len(p) \in Nat /\ Len(x) \in Nat /\ DOMAIN x = 1..Len(x)
            /\ a \in 1..Len(x) /\ a > 1
        BY <1>1, <1>2, <2>3
      <4> QED
        BY <4>1
    <3>2. y[(Len(p) + a) - 1] = x[a - 1]
      BY <1>1, <3>1
    <3> QED
      BY <2>3, <3>1, <3>2 DEF Pays
  <2> QED
    BY <1>4, <2>2, <2>3 DEF Pays
<1>5. ASSUME NEW j \in DOMAIN y, y[j].type = "DATA"
      PROVE  \E n \in BodyFrames(fs) : Pays(y, j, n)
  <2>1. CASE j \in DOMAIN p /\ y[j] = p[j]
    BY <1>3, <1>5, <2>1 DEF Paid
  <2>2. CASE j - Len(p) \in DOMAIN x /\ y[j] = x[j - Len(p)]
    <3> DEFINE a == j - Len(p)
    <3>1. a \in DOMAIN x /\ Len(p) + a = j
      <4>1. j \in Int
        BY <1>1, <1>2
      <4> QED
        BY <1>1, <2>2, <4>1
    <3>2. PICK n \in BodyFrames(fs) : Pays(x, a, n)
      BY <1>5, <2>2, <3>1 DEF Paid
    <3> QED
      BY <1>4, <3>1, <3>2
  <2> QED
    BY <1>1, <2>1, <2>2
<1>6. Paid(y, fs)
  BY <1>5 DEF Paid
<1> QED
  BY <1>6 DEF y

\* Frames stay somewhere when the messages are kept and only added to.
LEMMA CompleteKept ==
    ASSUME NEW q, NEW p, NEW r, NEW y, NEW fs, NEW d,
           \A i \in DOMAIN q : \A k \in DOMAIN q[i].frames :
              \E j \in DOMAIN r : \E l \in DOMAIN r[j].frames : r[j].frames[l] = q[i].frames[k],
           \A j \in DOMAIN p : j \in DOMAIN y /\ y[j] = p[j],
           Complete(q, p, fs, d)
    PROVE  Complete(r, y, fs, d)
<1>1. ASSUME NEW n, Somewhere(q, p, n) PROVE Somewhere(r, y, n)
  <2>1. CASE \E i \in DOMAIN q : \E k \in DOMAIN q[i].frames : q[i].frames[k] = n
    BY <2>1 DEF Somewhere
  <2>2. CASE \E j \in DOMAIN p : \E k \in DOMAIN p[j].of : p[j].of[k] = n
    BY <2>2 DEF Somewhere
  <2> QED
    BY <1>1, <2>1, <2>2 DEF Somewhere
<1> QED
  BY <1>1 DEF Complete

\* The message that takes a frame keeps those it had.
LEMMA ReceivedKeeps ==
    ASSUME NEW m \in Message, NEW f \in Frame, NEW n \in Nat, NEW fs, NEW d, NEW own,
           MessageOK(m, fs, d, own), m.stat # "COMPLETE"
    PROVE  LET new == Received(m, f, n)
           IN  /\ \E l \in DOMAIN new.frames : new.frames[l] = n
               /\ \A k \in DOMAIN m.frames :
                    \E l \in DOMAIN new.frames : new.frames[l] = m.frames[k]
<1> DEFINE new == Received(m, f, n)
<1>1. m.frames \in Seq(Nat) /\ m.store \in BOOLEAN
  BY MessageParts
<1>2. ~m.store => m.frames = <<>>
  BY <1>1 DEF MessageOK
<1>3. new.frames = IF m.store \/ f.gzip THEN Append(m.frames, n) ELSE <<n>>
  BY DEF Received
<1> HIDE DEF new
<1>4. new.frames = Append(m.frames, n)
  <2>1. Append(<<>>, n) = <<n>>
    OBVIOUS
  <2> QED
    BY <1>2, <1>3, <2>1
<1>5. /\ DOMAIN m.frames = 1..Len(m.frames) /\ Len(m.frames) \in Nat
      /\ DOMAIN new.frames = 1..(Len(m.frames) + 1)
      /\ new.frames[Len(m.frames) + 1] = n
      /\ \A k \in 1..Len(m.frames) : new.frames[k] = m.frames[k]
  BY <1>1, <1>4, AppendProperties
<1>6. Len(m.frames) + 1 \in DOMAIN new.frames
  BY <1>5
<1>7. \A k \in DOMAIN m.frames : k \in DOMAIN new.frames /\ new.frames[k] = m.frames[k]
  BY <1>5
<1> QED
  BY <1>5, <1>6, <1>7 DEF new

\* A message leaves the queue, and every frame it is made of is written.
LEMMA CompleteSubmitted ==
    ASSUME NEW q \in Seq(Message), NEW p \in Seq(Written), NEW x \in Seq(Written),
           NEW c \in DOMAIN q, NEW fs, NEW d,
           Complete(q, p, fs, d),
           \A k \in DOMAIN q[c].frames :
              \E a \in DOMAIN x : \E l \in DOMAIN x[a].of : x[a].of[l] = q[c].frames[k]
    PROVE  Complete(RemoveAt(q, c), p \o x, fs, d)
<1> DEFINE r == RemoveAt(q, c)
           y == p \o x
<1>1. /\ \A j \in DOMAIN p : j \in DOMAIN y /\ y[j] = p[j]
      /\ \A a \in DOMAIN x : Len(p) + a \in DOMAIN y /\ y[Len(p) + a] = x[a]
  BY Joined
<1>2. \A j \in DOMAIN q : j # c => \E i \in DOMAIN r : r[i] = q[j]
  BY Removed
<1> HIDE DEF r, y
<1>3. ASSUME NEW n, Somewhere(q, p, n) PROVE Somewhere(r, y, n)
  <2>1. CASE \E j \in DOMAIN p : \E k \in DOMAIN p[j].of : p[j].of[k] = n
    BY <1>1, <2>1 DEF Somewhere
  <2>2. CASE \E i \in DOMAIN q : \E k \in DOMAIN q[i].frames : q[i].frames[k] = n
    <3>1. PICK i \in DOMAIN q : \E k \in DOMAIN q[i].frames : q[i].frames[k] = n
      BY <2>2
    <3>2. CASE i # c
      BY <1>2, <3>1, <3>2 DEF Somewhere
    <3>3. CASE i = c
      <4>1. PICK a \in DOMAIN x : \E l \in DOMAIN x[a].of : x[a].of[l] = n
        BY <3>1, <3>3
      <4> QED
        BY <1>1, <4>1 DEF Somewhere
    <3> QED
      BY <3>2, <3>3
  <2> QED
    BY <1>3, <2>1, <2>2 DEF Somewhere
<1>4. Complete(r, y, fs, d)
  BY <1>3 DEF Complete
<1> QED
  BY <1>4 DEF r, y

-----------------------------------------------------------------------------
(***************************************************************************)
(* The window is never used up: the DATA frames written are paid for by    *)
(* different frames, and a message that waits to be submitted holds one    *)
(* that has paid for none of them.                                         *)
(***************************************************************************)
LEMMA BodyCount ==
    ASSUME NEW fs \in Seq(Frame)
    PROVE  IsFiniteSet(BodyFrames(fs)) /\ Cardinality(BodyFrames(fs)) \in Nat
<1> DEFINE A == {f \in Frame : f.type = "DATA" \/ f.gzip}
<1>1. BodyFrames(fs) = Where(fs, A)
  BY BodyFramesWhere
<1> HIDE DEF A
<1> QED
  BY <1>1, WhereFinite

LEMMA HoldsBodyFrame ==
    ASSUME NEW m \in Message, NEW fs \in Seq(Frame), NEW d \in Nat, NEW own,
           MessageOK(m, fs, d, own), d <= 2 * Len(fs), m.stat = "COMPLETE", HasBody(m)
    PROVE  \E n \in BodyFrames(fs) : \E k \in DOMAIN m.frames : m.frames[k] = n
<1>1. /\ m.frames \in Seq(Nat) /\ m.store \in BOOLEAN
      /\ DOMAIN m.frames = 1..Len(m.frames) /\ Len(m.frames) \in Nat
      /\ \A k \in DOMAIN m.frames : m.frames[k] \in Nat
      /\ DOMAIN fs = 1..Len(fs) /\ Len(fs) \in Nat
  BY MessageParts
<1>2. CASE m.store
  <2>1. 1 \in DOMAIN m.frames /\ fs[m.frames[1]].gzip
    BY <1>1, <1>2 DEF MessageOK
  <2>2. m.frames[1] \in Nat /\ m.frames[1] > 0 /\ 2 * m.frames[1] <= d
    BY <1>1, <2>1 DEF MessageOK
  <2>3. m.frames[1] \in DOMAIN fs
    BY <1>1, <2>2
  <2> QED
    BY <2>1, <2>3 DEF BodyFrames
<1>3. CASE ~m.store
  <2>1. m.type = "DATA"
    BY <1>3 DEF HasBody
  <2>2. PICK n \in DOMAIN fs : m.frames = <<n>> /\ fs[n].type = "DATA"
    BY <1>3, <2>1 DEF MessageOK
  <2>3. 1 \in DOMAIN m.frames /\ m.frames[1] = n
    BY <2>2
  <2> QED
    BY <2>2, <2>3 DEF BodyFrames
<1> QED
  BY <1>1, <1>2, <1>3

LEMMA PaysOnce ==
    ASSUME NEW q, NEW p \in Seq(Written), Once(q, p),
           NEW i \in DOMAIN p, NEW j \in DOMAIN p,
           p[i].type = "DATA", p[j].type = "DATA",
           NEW n, n # Freed, Pays(p, i, n), Pays(p, j, n)
    PROVE  i = j
<1>1. DOMAIN p = 1..Len(p) /\ Len(p) \in Nat /\ i \in Nat /\ j \in Nat
  OBVIOUS
<1>2. ASSUME NEW a \in DOMAIN p, NEW b \in DOMAIN p,
             \E k \in DOMAIN p[a].of : p[a].of[k] = n,
             \E k \in DOMAIN p[b].of : p[b].of[k] = n
      PROVE  a = b
  BY <1>2 DEF Once
<1>3. ASSUME NEW a \in DOMAIN p, Pays(p, a, n)
      PROVE  \E b \in DOMAIN p : /\ \E k \in DOMAIN p[b].of : p[b].of[k] = n
                                 /\ b = a \/ (b = a - 1 /\ p[b].type = "HEADERS")
  <2>1. CASE \E k \in DOMAIN p[a].of : p[a].of[k] = n
    BY <2>1
  <2>2. CASE /\ a > 1 /\ p[a - 1].type = "HEADERS"
             /\ \E k \in DOMAIN p[a - 1].of : p[a - 1].of[k] = n
    <3>1. a - 1 \in DOMAIN p
      BY <1>1, <2>2
    <3> QED
      BY <2>2, <3>1
  <2> QED
    BY <1>3, <2>1, <2>2 DEF Pays
<1>4. PICK a \in DOMAIN p : /\ \E k \in DOMAIN p[a].of : p[a].of[k] = n
                            /\ a = i \/ (a = i - 1 /\ p[a].type = "HEADERS")
  BY <1>3
<1>5. PICK b \in DOMAIN p : /\ \E k \in DOMAIN p[b].of : p[b].of[k] = n
                            /\ b = j \/ (b = j - 1 /\ p[b].type = "HEADERS")
  BY <1>3
<1>6. a = b
  BY <1>2, <1>4, <1>5
<1> QED
  BY <1>1, <1>4, <1>5, <1>6

LEMMA WindowOpen ==
    ASSUME TypeInv, FramesInv, WideInv, NEW s \in Side, NEW c \in DOMAIN messages[s],
           messages[s][c].stat = "COMPLETE", HasBody(messages[s][c])
    PROVE  BodyGoes(Other(s), messages[s][c]) /\ ~(Window(Other(s)) <= 0)
<1> DEFINE o == Other(s)
           m == messages[s][c]
           p == out[o]
           data == WrittenOf(o, {"DATA"})
           body == BodyFrames(sent[s])
           updates == {n \in Of(o, {"WINDOW_UPDATE"}) : 2 * n <= parsed[o]}
<1>1. /\ messages[s] \in Seq(Message) /\ m \in Message /\ p \in Seq(Written)
      /\ sent[s] \in Seq(Frame) /\ parsed[s] \in Nat /\ parsed[s] <= 2 * Len(sent[s])
      /\ o \in Side /\ Other(o) = s /\ sent[o] \in Seq(Frame)
  BY DirectionTypes
<1>2. MessageOK(m, sent[s], parsed[s], Refusing(s)) /\ Once(messages[s], p)
  BY DEF FramesInv, Direction
<1>3. PICK x \in body : \E k \in DOMAIN m.frames : m.frames[k] = x
  BY <1>1, <1>2, HoldsBodyFrame
<1>4. IsFiniteSet(body) /\ Cardinality(body) \in Nat
  BY <1>1, BodyCount
<1>5. \A n \in body : n # Freed
  BY <1>1 DEF BodyFrames, Freed
<1>6. ASSUME NEW j \in data
      PROVE  \E n \in body \ {x} : Pays(p, j, n)
  <2>1. j \in DOMAIN p /\ p[j].type = "DATA"
    BY DEF WrittenOf
  <2>2. PICK n \in body : Pays(p, j, n)
    BY <2>1 DEF WideInv, Paid
  <2>3. \E i \in DOMAIN p : \E k \in DOMAIN p[i].of : p[i].of[k] = n
    <3>1. CASE \E k \in DOMAIN p[j].of : p[j].of[k] = n
      BY <2>1, <3>1
    <3>2. CASE j > 1 /\ \E k \in DOMAIN p[j - 1].of : p[j - 1].of[k] = n
      <4>1. j - 1 \in DOMAIN p
        BY <1>1, <2>1, <3>2
      <4> QED
        BY <3>2, <4>1
    <3> QED
      BY <2>2, <3>1, <3>2 DEF Pays
  <2>4. n # x
    BY <1>2, <1>3, <2>3 DEF Once
  <2> QED
    BY <2>2, <2>4
<1>7. Cardinality(data) <= Cardinality(body \ {x})
  <2> DEFINE f == [j \in data |-> CHOOSE n \in body \ {x} : Pays(p, j, n)]
  <2>1. \A j \in data : f[j] \in body \ {x} /\ Pays(p, j, f[j])
    BY <1>6
  <2>2. \A j \in data : j \in DOMAIN p /\ p[j].type = "DATA"
    BY DEF WrittenOf
  <2> HIDE DEF f, p, data, body
  <2>3. ASSUME NEW i \in data, NEW j \in data, f[i] = f[j]
        PROVE  i = j
    <3>1. f[i] # Freed /\ Pays(p, i, f[i]) /\ Pays(p, j, f[i])
      BY <1>5, <2>1, <2>3
    <3> QED
      BY <1>1, <1>2, <2>2, <3>1, PaysOnce
  <2>4. f \in Injection(data, body \ {x})
    <3>1. f \in [data -> body \ {x}]
      BY <2>1 DEF f
    <3> QED
      BY <2>3, <3>1 DEF Injection, IsInjective
  <2>5. IsFiniteSet(body \ {x})
    BY <1>4, FS_RemoveElement
  <2> QED
    BY <2>4, <2>5, FS_Injection
<1>8. Cardinality(body \ {x}) = Cardinality(body) - 1
  <2> HIDE DEF body
  <2> QED
    BY <1>3, <1>4, FS_RemoveElement
<1>9. Cardinality(body) <= InitialWindow /\ InitialWindow \in Nat
  <2>1. Cardinality(body) <= MaxFrames[s] /\ MaxFrames[s] <= InitialWindow
    BY DEF WideInv, Wide
  <2>2. MaxFrames[s] \in Nat /\ InitialWindow \in Nat
    BY ConstantsAssumption DEF Side
  <2> HIDE DEF body
  <2> QED
    BY <1>4, <2>1, <2>2
<1>10. Cardinality(data) \in Nat
  <2> DEFINE A == {w \in Written : w.type \in {"DATA"}}
  <2>1. data = Where(p, A)
    BY <1>1, OfWhere
  <2> HIDE DEF A, p, data
  <2> QED
    BY <1>1, <2>1, WhereFinite
<1>11. Cardinality(updates) \in Nat
  <2>1. updates \in SUBSET (1..Len(sent[o])) /\ Len(sent[o]) \in Nat
    BY <1>1 DEF Of
  <2> HIDE DEF updates
  <2>2. IsFiniteSet(1..Len(sent[o]))
    BY <2>1, FS_Interval
  <2> QED
    BY <2>1, <2>2, FS_Subset, FS_CardinalityType
<1>12. Window(o) = InitialWindow - Cardinality(data) + Cardinality(updates)
  BY DEF Window, DecodedOf
<1>13. Window(o) \in Int /\ Window(o) > 0
  <2> HIDE DEF data, body, updates
  <2> QED
    BY <1>4, <1>7, <1>8, <1>9, <1>10, <1>11, <1>12
<1>14. ~Blocked(o, m.stream)
  <2>1. deferred[o] = <<>>
    BY <1>1 DEF WideInv
  <2> QED
    BY <2>1 DEF Blocked, Range
<1> QED
  BY <1>13, <1>14 DEF BodyGoes

-----------------------------------------------------------------------------
(***************************************************************************)
(* The steps.                                                              *)
(***************************************************************************)
Unfreed(p) == \A j \in DOMAIN p : \A k \in DOMAIN p[j].of : p[j].of[k] # Freed

LEMMA InitWideInv == Wide /\ Init => WideInv
<1> SUFFICES ASSUME Wide, Init PROVE WideInv
  OBVIOUS
<1>1. /\ out = [s \in Side |-> <<>>] /\ deferred = [s \in Side |-> <<>>]
      /\ \A s \in Side : \/ sent[s] = <<>> /\ messages[s] = <<>>
                         \/ /\ sent[s] = <<UpgradedRequest>>
                            /\ messages[s] = <<Own("SETTINGS", "INIT"), UpgradedMessage>>
  BY DEF Init, Side
<1>2. ASSUME NEW s \in Side
      PROVE  /\ Complete(messages[s], out[Other(s)], sent[s], parsed[s])
             /\ Cardinality(BodyFrames(sent[s])) <= MaxFrames[s]
  <2>1. MaxFrames[s] \in Nat
    BY ConstantsAssumption DEF Side
  <2>2. CASE sent[s] = <<>>
    <3>1. DOMAIN sent[s] = {}
      BY <2>2
    <3>2. BodyFrames(sent[s]) = {}
      BY <3>1 DEF BodyFrames
    <3> QED
      BY <2>1, <3>1, <3>2, FS_EmptySet DEF Complete
  <2>3. CASE /\ sent[s] = <<UpgradedRequest>>
             /\ messages[s] = <<Own("SETTINGS", "INIT"), UpgradedMessage>>
    <3>1. DOMAIN sent[s] = {1} /\ sent[s][1].type = "HEADERS" /\ ~sent[s][1].gzip
      <4>1. UpgradedRequest.type = "HEADERS" /\ ~UpgradedRequest.gzip
        BY DEF UpgradedRequest
      <4> QED
        BY <2>3, <4>1
    <3>2. BodyFrames(sent[s]) = {}
      BY <3>1 DEF BodyFrames
    <3>3. 2 \in DOMAIN messages[s] /\ messages[s][2] = UpgradedMessage
      BY <2>3
    <3>4. 1 \in DOMAIN messages[s][2].frames /\ messages[s][2].frames[1] = 1
      <4>1. UpgradedMessage.frames = <<1>>
        BY DEF UpgradedMessage
      <4> QED
        BY <3>3, <4>1
    <3>5. Somewhere(messages[s], out[Other(s)], 1)
      BY <3>3, <3>4 DEF Somewhere
    <3> QED
      BY <2>1, <3>1, <3>2, <3>5, FS_EmptySet DEF Complete
  <2> QED
    BY <1>1, <2>2, <2>3
<1>3. \A s \in Side : out[s] = <<>> /\ deferred[s] = <<>> /\ out[Other(s)] = <<>>
  BY <1>1, SideOther
<1> QED
  BY <1>2, <1>3 DEF WideInv, Paid

LEMMA PeerWide ==
    ASSUME TypeInv, FramesInv, WideInv, NEW s \in Side, Peer(s)
    PROVE  WideInv'
<1>1. PICK f \in Frame : /\ sent' = [sent EXCEPT ![s] = Append(@, f)]
                         /\ f.type = "DATA" \/ f.gzip => Budget(s)
  BY PeerSends
<1>2. UNCHANGED <<parsed, messages, out, deferred>>
  BY PeerSends
<1>3. sent[s] \in Seq(Frame) /\ sent'[s] = Append(sent[s], f)
  BY <1>1 DEF TypeInv, TypeOK
<1>4. /\ DOMAIN sent'[s] = 1..(Len(sent[s]) + 1) /\ Len(sent[s]) \in Nat
      /\ Len(sent'[s]) = Len(sent[s]) + 1 /\ sent'[s] \in Seq(Frame)
      /\ \A n \in 1..Len(sent[s]) : sent'[s][n] = sent[s][n]
  BY <1>3, AppendProperties
<1>5. \A r \in Side : r # s => sent'[r] = sent[r]
  BY <1>1 DEF TypeInv, TypeOK
<1>6. Paid(out[Other(s)], sent'[s])
  <2>1. Grows(sent[s], sent'[s]) /\ Paid(out[Other(s)], sent[s])
    BY <1>4 DEF Grows, WideInv
  <2>2. out[Other(s)] \in Seq(Written)
    BY SideOther, DirectionTypes
  <2> QED
    BY <1>3, <1>4, <2>1, <2>2, PaidGrows
<1>7. Complete(messages[s], out[Other(s)], sent'[s], parsed[s])
  <2>1. ASSUME NEW n \in DOMAIN sent'[s], 2 * n <= parsed[s]
        PROVE  n \in DOMAIN sent[s] /\ sent'[s][n] = sent[s][n]
    <3>1. n \in 1..Len(sent[s])
      <4>1. parsed[s] \in Nat /\ parsed[s] <= 2 * Len(sent[s]) /\ n \in Nat /\ n >= 1
        BY <1>4, DirectionTypes
      <4> QED
        BY <1>4, <2>1, <4>1
    <3> QED
      BY <1>3, <1>4, <3>1
  <2>2. Complete(messages[s], out[Other(s)], sent[s], parsed[s])
    BY DEF WideInv
  <2> QED
    BY <2>1, <2>2 DEF Complete
<1>8. Cardinality(BodyFrames(sent'[s])) <= MaxFrames[s]
  <2> DEFINE A == {g \in Frame : g.type = "DATA" \/ g.gzip}
             B == {g \in Frame : g.type \in {"HEADERS", "DATA", "PING"}}
  <2>1. BodyFrames(sent[s]) = Where(sent[s], A) /\ BodyFrames(sent'[s]) = Where(sent'[s], A)
    BY <1>3, <1>4, BodyFramesWhere
  <2>2. f \in A => Budget(s)
    BY <1>1
  <2>3. Of(s, {"HEADERS", "DATA", "PING"}) = Where(sent[s], B)
    BY OfWhere
  <2>4. Where(sent[s], A) \in SUBSET Where(sent[s], B)
    BY DEF FramesInv, GzipHeaders, Where
  <2>5. Cardinality(BodyFrames(sent[s])) <= MaxFrames[s] /\ MaxFrames[s] \in Nat
    BY ConstantsAssumption DEF WideInv, Side
  <2> HIDE DEF A, B
  <2>6. /\ IsFiniteSet(Where(sent[s], B)) /\ Cardinality(Where(sent[s], B)) \in Nat
        /\ Cardinality(Where(sent[s], A)) \in Nat /\ Cardinality(Where(sent'[s], A)) \in Nat
    BY <1>3, <1>4, WhereFinite
  <2>7. Cardinality(Where(sent[s], A)) <= Cardinality(Where(sent[s], B))
    BY <2>4, <2>6, FS_Subset
  <2>8. /\ Cardinality(Where(sent'[s], A)) <= Cardinality(Where(sent[s], A)) + 1
        /\ f \notin A => Cardinality(Where(sent'[s], A)) = Cardinality(Where(sent[s], A))
    BY <1>3, WhereAppend
  <2>9. f \in A => Cardinality(Where(sent[s], B)) < MaxFrames[s]
    BY <2>2, <2>3 DEF Budget
  <2> QED
    BY <2>1, <2>5, <2>6, <2>7, <2>8, <2>9
<1>9. ASSUME NEW r \in Side
      PROVE  /\ Paid(out'[Other(r)], sent'[r])
             /\ Complete(messages'[r], out'[Other(r)], sent'[r], parsed'[r])
             /\ Cardinality(BodyFrames(sent'[r])) <= MaxFrames[r]
  <2>1. CASE r = s
    BY <1>2, <1>6, <1>7, <1>8, <2>1
  <2>2. CASE r # s
    BY <1>2, <1>5, <2>2 DEF WideInv
  <2> QED
    BY <2>1, <2>2
<1> QED
  BY <1>2, <1>9 DEF WideInv

\* The steps of the proxy, which leave what the peers have sent alone.
LEMMA ProxyWide ==
    ASSUME WideInv, UNCHANGED sent, \A r \in Side : deferred'[r] = deferred[r],
           \A r \in Side : /\ Unfreed(out'[r])
                           /\ Paid(out'[Other(r)], sent[r])
                           /\ Complete(messages'[r], out'[Other(r)], sent[r], parsed'[r])
    PROVE  WideInv'
BY DEF WideInv, Unfreed

\* The new frame of a direction is somewhere, and the others stay where they are.
LEMMA DecodeWide ==
    ASSUME TypeInv, WideInv, NEW s \in Side,
           UNCHANGED <<sent, out, deferred>>,
           parsed' = [parsed EXCEPT ![s] = @ + 1],
           \A r \in Side : r # s => messages'[r] = messages[r],
           \A i \in DOMAIN messages[s] : \A k \in DOMAIN messages[s][i].frames :
              \E j \in DOMAIN messages'[s] : \E l \in DOMAIN messages'[s][j].frames :
                 messages'[s][j].frames[l] = messages[s][i].frames[k],
           \A n \in DOMAIN sent[s] :
              2 * n = parsed[s] + 1 /\ sent[s][n].type # "WINDOW_UPDATE"
                 => Somewhere(messages'[s], out[Other(s)], n)
    PROVE  WideInv'
<1>1. parsed'[s] = parsed[s] + 1 /\ \A r \in Side : r # s => parsed'[r] = parsed[r]
  BY DEF TypeInv, TypeOK
<1>2. \A r \in Side : /\ Unfreed(out[r]) /\ Paid(out[Other(r)], sent[r])
                      /\ Complete(messages[r], out[Other(r)], sent[r], parsed[r])
  BY DEF WideInv, Unfreed
<1>3. Complete(messages'[s], out[Other(s)], sent[s], parsed[s])
  <2>1. \A j \in DOMAIN out[Other(s)] :
           j \in DOMAIN out[Other(s)] /\ out[Other(s)][j] = out[Other(s)][j]
    OBVIOUS
  <2> QED
    BY <1>2, <2>1, CompleteKept
<1>4. Complete(messages'[s], out[Other(s)], sent[s], parsed[s] + 1)
  <2>1. ASSUME NEW n \in DOMAIN sent[s], 2 * n <= parsed[s] + 1
        PROVE  2 * n <= parsed[s] \/ 2 * n = parsed[s] + 1
    <3>1. parsed[s] \in Nat /\ n \in Nat
      BY DirectionTypes
    <3> QED
      BY <2>1, <3>1
  <2> QED
    BY <1>3, <2>1 DEF Complete
<1>5. ASSUME NEW r \in Side
      PROVE  Complete(messages'[r], out'[Other(r)], sent[r], parsed'[r])
  <2>1. CASE r = s
    BY <1>1, <1>4, <2>1
  <2>2. CASE r # s
    BY <1>1, <1>2, <2>2
  <2> QED
    BY <2>1, <2>2
<1> QED
  BY <1>2, <1>5, ProxyWide

LEMMA BeginWide ==
    ASSUME TypeInv, WideInv, NEW s \in Side, on_begin_frame_callback(s)
    PROVE  WideInv'
<1> DEFINE f == sent[s][parsed[s] \div 2 + 1]
           q == messages[s]
           m == NewMessage(f)
<1>1. /\ parsed[s] % 2 = 0
      /\ UNCHANGED <<sent, out, deferred>>
      /\ parsed' = [parsed EXCEPT ![s] = @ + 1]
      /\ UNCHANGED messages \/ messages' = [messages EXCEPT ![s] = Append(@, m)]
  BY DEF on_begin_frame_callback, peerVars, sessionVars
<1>2. /\ \A r \in Side : r # s => messages'[r] = messages[r]
      /\ messages'[s] = q \/ messages'[s] = Append(q, m)
  BY <1>1 DEF TypeInv, TypeOK
<1>3. q \in Seq(Message) /\ parsed[s] \in Nat /\ sent[s] \in Seq(Frame)
  BY DirectionTypes
<1>4. \A i \in DOMAIN q : i \in DOMAIN messages'[s] /\ messages'[s][i] = q[i]
  <2> HIDE DEF q, m
  <2> QED
    BY <1>2, <1>3, SMTT(30)
<1>5. \A n \in DOMAIN sent[s] : 2 * n # parsed[s] + 1
  <2>1. \A n \in DOMAIN sent[s] : n \in Nat
    BY <1>3
  <2> DEFINE d == parsed[s]
  <2>2. d \in Nat /\ d % 2 = 0
    BY <1>1, <1>3
  <2> HIDE DEF d
  <2>3. \A n \in Nat : 2 * n # d + 1
    BY <2>2
  <2> QED
    BY <2>1, <2>3 DEF d
<1> QED
  BY <1>1, <1>2, <1>4, <1>5, DecodeWide

\* A frame that is to be passed on finds its message, which takes it.
LEMMA ReceiveWide ==
    ASSUME TypeInv, FrameInv, FramesInv, WideInv, NEW s \in Side, on_frame_recv_callback(s)
    PROVE  WideInv'
<1> DEFINE n == (parsed[s] + 1) \div 2
           f == sent[s][n]
           q == messages[s]
           r == messages'[s]
<1>1. /\ handler = s /\ cursor = 0 /\ todo > 0 /\ parsed[s] % 2 = 1
      /\ UNCHANGED <<sent, out, deferred>>
      /\ parsed' = [parsed EXCEPT ![s] = @ + 1]
      /\ messages' = [messages EXCEPT ![s] =
            [i \in DOMAIN @ |-> IF PassedOn(s, f) /\ i \in getMessage(s, f)
                                THEN Received(@[i], f, n) ELSE @[i]]]
  BY DEF on_frame_recv_callback, peerVars, sessionVars
<1>2. /\ \A t \in Side : t # s => messages'[t] = messages[t]
      /\ DOMAIN r = DOMAIN q
      /\ \A i \in DOMAIN q : r[i] = IF PassedOn(s, f) /\ i \in getMessage(s, f)
                                    THEN Received(q[i], f, n) ELSE q[i]
  BY <1>1 DEF TypeInv, TypeOK
<1>3. /\ n \in DOMAIN sent[s] /\ n \in Nat /\ parsed[s] + 1 = 2 * n /\ f \in Frame
  <2>1. parsed[s] \in Nat /\ parsed[s] + 1 <= 2 * Len(sent[s]) /\ f \in Frame
    BY <1>1, DecodedFrame
  <2>2. Len(sent[s]) \in Nat /\ DOMAIN sent[s] = 1..Len(sent[s])
    BY DirectionTypes
  <2> HIDE DEF f
  <2>3. n \in 1..Len(sent[s]) /\ parsed[s] + 1 = 2 * n
    BY <1>1, <2>1, <2>2
  <2> QED
    BY <2>1, <2>2, <2>3
<1>4. q \in Seq(Message)
  BY DirectionTypes
<1>5. ASSUME NEW i \in DOMAIN q, i \in getMessage(s, f)
      PROVE  LET new == Received(q[i], f, n)
             IN  /\ \E l \in DOMAIN new.frames : new.frames[l] = n
                 /\ \A k \in DOMAIN q[i].frames :
                      \E l \in DOMAIN new.frames : new.frames[l] = q[i].frames[k]
  <2>1. q[i] \in Message
    BY <1>4
  <2>2. q[i].stat # "COMPLETE"
    BY <1>5 DEF getMessage, Matches
  <2>3. MessageOK(q[i], sent[s], parsed[s], Refusing(s))
    BY DEF FramesInv, Direction
  <2> HIDE DEF q, f, n
  <2> QED
    BY <1>3, <2>1, <2>2, <2>3, ReceivedKeeps
<1>6. \A i \in DOMAIN q : \A k \in DOMAIN q[i].frames :
         \E j \in DOMAIN r : \E l \in DOMAIN r[j].frames : r[j].frames[l] = q[i].frames[k]
  <2> SUFFICES ASSUME NEW i \in DOMAIN q, NEW k \in DOMAIN q[i].frames
               PROVE  \E l \in DOMAIN r[i].frames : r[i].frames[l] = q[i].frames[k]
    BY <1>2
  <2> HIDE DEF q, r, f, n
  <2> QED
    BY <1>2, <1>5
<1>7. ASSUME f.type # "WINDOW_UPDATE"
      PROVE  \E j \in DOMAIN r : \E l \in DOMAIN r[j].frames : r[j].frames[l] = n
  <2> DEFINE T == {i \in DOMAIN q : Matches(q[i], f)}
  <2>1. PassedOn(s, f)
    BY <1>1, <1>7 DEF PassedOn, FrameInv
  <2>2. T # {} /\ T \in SUBSET Nat
    <3>1. T # {}
      BY <1>1, <1>7 DEF FrameInv, FrameHasMessage
    <3>2. DOMAIN q \subseteq Nat
      BY <1>4
    <3> QED
      BY <3>1, <3>2
  <2>3. PICK x \in T : \A y \in T : ~(y < x)
    <3> HIDE DEF T
    <3> QED
      BY <2>2, Least
  <2>4. x \in getMessage(s, f)
    <3>1. ASSUME NEW j \in 1..(x - 1) PROVE ~Matches(q[j], f)
      <4>1. DOMAIN q = 1..Len(q) /\ Len(q) \in Nat /\ x \in DOMAIN q
        BY <1>4
      <4>2. j \in DOMAIN q /\ j < x
        BY <4>1
      <4> QED
        BY <2>3, <4>2
    <3>2. x \in DOMAIN q /\ Matches(q[x], f)
      OBVIOUS
    <3> QED
      BY <3>1, <3>2 DEF getMessage
  <2>5. x \in DOMAIN r /\ r[x] = Received(q[x], f, n)
    BY <1>2, <2>1, <2>4
  <2> QED
    BY <1>5, <2>4, <2>5
<1>8. \A k \in DOMAIN sent[s] :
         2 * k = parsed[s] + 1 /\ sent[s][k].type # "WINDOW_UPDATE"
            => Somewhere(r, out[Other(s)], k)
  <2>1. \A k \in DOMAIN sent[s] : 2 * k = parsed[s] + 1 => k = n
    <3>1. \A k \in DOMAIN sent[s] : k \in Nat
      BY DirectionTypes
    <3> HIDE DEF n
    <3> QED
      BY <1>3, <3>1
  <2>2. f.type # "WINDOW_UPDATE" => Somewhere(r, out[Other(s)], n)
    <3> HIDE DEF r, f, n
    <3> QED
      BY <1>7 DEF Somewhere
  <2> QED
    BY <2>1, <2>2
<1> QED
  BY <1>1, <1>2, <1>6, <1>8, DecodeWide

LEMMA RefuseWide ==
    ASSUME TypeInv, WideInv, Refuse
    PROVE  WideInv'
<1> DEFINE q == messages["down"]
           r == messages'["down"]
<1>1. /\ messages' = [messages EXCEPT !["down"] = @ \o GoawayMessages]
      /\ UNCHANGED <<sent, parsed, out, deferred>>
  BY DEF Refuse, peerVars, inputVars, sessionVars
<1>2. r = q \o GoawayMessages /\ messages'["up"] = messages["up"]
  BY <1>1 DEF TypeInv, TypeOK, Side
<1>3. \E S : GoawayMessages \in Seq(S)
  <2> DEFINE a == Own("SETTINGS", "COMPLETE")
             b == Own("GOAWAY", "COMPLETE")
             S == {a, b}
  <2>1. GoawayMessages = <<b>> \/ GoawayMessages = <<a, b>>
    BY ShortConcat DEF GoawayMessages
  <2>2. <<b>> \in Seq(S) /\ <<a, b>> \in Seq(S)
    OBVIOUS
  <2> QED
    BY <2>1, <2>2
<1>4. \A i \in DOMAIN q : i \in DOMAIN r /\ r[i] = q[i]
  <2>1. q \in Seq(Message)
    BY DirectionTypes DEF Side
  <2> DEFINE g == GoawayMessages
  <2>2. PICK S : g \in Seq(S)
    BY <1>3
  <2>3. r = q \o g
    BY <1>2
  <2> HIDE DEF q, r, g
  <2> QED
    BY <2>1, <2>2, <2>3
<1>5. \A s \in Side : /\ Unfreed(out[s]) /\ Paid(out[Other(s)], sent[s])
                      /\ Complete(messages[s], out[Other(s)], sent[s], parsed[s])
  BY DEF WideInv, Unfreed
<1>6. Complete(r, out["up"], sent["down"], parsed["down"])
  <2>1. Complete(q, out["up"], sent["down"], parsed["down"])
    BY <1>5 DEF Side, Other
  <2>2. \A i \in DOMAIN q : \A k \in DOMAIN q[i].frames :
           \E j \in DOMAIN r : \E l \in DOMAIN r[j].frames : r[j].frames[l] = q[i].frames[k]
    BY <1>4
  <2>3. \A j \in DOMAIN out["up"] : j \in DOMAIN out["up"] /\ out["up"][j] = out["up"][j]
    OBVIOUS
  <2> HIDE DEF q, r
  <2> QED
    BY <2>1, <2>2, <2>3, CompleteKept
<1>7. \A s \in Side : Complete(messages'[s], out'[Other(s)], sent[s], parsed'[s])
  BY <1>1, <1>2, <1>5, <1>6 DEF Side, Other
<1> QED
  BY <1>1, <1>5, <1>7, ProxyWide

\* What is written after p is added to what the other directions keep.
LEMMA WrittenWide ==
    ASSUME WideInv, UNCHANGED <<sent, parsed>>, \A r \in Side : deferred'[r] = deferred[r],
           NEW s \in Side, NEW x \in Seq(Written), out[Other(s)] \in Seq(Written),
           out'[Other(s)] = out[Other(s)] \o x, out'[s] = out[s],
           messages'[Other(s)] = messages[Other(s)],
           Unfreed(x), Paid(x, sent[s]),
           Complete(messages'[s], out[Other(s)] \o x, sent[s], parsed[s])
    PROVE  WideInv'
<1> DEFINE o == Other(s)
           p == out[o]
           y == p \o x
<1>1. o \in Side /\ o # s /\ Other(o) = s /\ \A r \in Side : r = s \/ r = o
  BY DEF Other, Side
<1>2. \A r \in Side : /\ Unfreed(out[r]) /\ Paid(out[Other(r)], sent[r])
                      /\ Complete(messages[r], out[Other(r)], sent[r], parsed[r])
  BY DEF WideInv, Unfreed
<1>3. Unfreed(y)
  <2>1. Unfreed(p)
    BY <1>1, <1>2
  <2>2. \A j \in DOMAIN y : \/ j \in DOMAIN p /\ y[j] = p[j]
                            \/ j - Len(p) \in DOMAIN x /\ y[j] = x[j - Len(p)]
    BY Joined
  <2> HIDE DEF y, p
  <2> QED
    BY <2>1, <2>2 DEF Unfreed
<1>4. Paid(y, sent[s])
  <2>1. Paid(p, sent[s])
    BY <1>2
  <2> QED
    BY <2>1, PaidJoined
<1>5. Paid(out[s], sent[o]) /\ Complete(messages[o], out[s], sent[o], parsed[o])
  BY <1>1, <1>2
<1>6. ASSUME NEW r \in Side
      PROVE  /\ Unfreed(out'[r]) /\ Paid(out'[Other(r)], sent[r])
             /\ Complete(messages'[r], out'[Other(r)], sent[r], parsed'[r])
  <2>1. CASE r = s
    BY <1>2, <1>4, <2>1
  <2>2. CASE r = o
    BY <1>1, <1>3, <1>5, <2>2
  <2> QED
    BY <1>1, <2>1, <2>2
<1> QED
  BY <1>6, ProxyWide

LEMMA SubmitWide ==
    ASSUME TypeInv, FramesInv, WideInv, NEW s \in Side, FlushSubmit(s)
    PROVE  WideInv'
<1> DEFINE o == Other(s)
           c == cursor
           m == messages[s][c]
           q == messages[s]
           p == out[o]
           fs == sent[s]
           d == parsed[s]
           x == Submitted(o, m)
<1>1. /\ c \in DOMAIN q /\ m \in Message /\ m.stat = "COMPLETE"
      /\ MessageOK(m, fs, d, Refusing(s))
      /\ out'[o] = p \o x /\ out'[s] = out[s]
      /\ messages'[s] = RemoveAt(q, c) /\ messages'[o] = messages[o]
      /\ UNCHANGED <<sent, parsed>>
  BY SubmitStep
<1>2. o \in Side /\ q \in Seq(Message) /\ p \in Seq(Written)
      /\ fs \in Seq(Frame) /\ d \in Nat /\ d <= 2 * Len(fs)
  BY DirectionTypes
<1>3. HasBody(m) => BodyGoes(o, m) /\ ~(Window(o) <= 0)
  BY <1>1, WindowOpen
<1>4. /\ x \in Seq(Written) /\ Paid(x, fs)
      /\ \A a \in DOMAIN x : \A k \in DOMAIN x[a].of :
            \E i \in DOMAIN m.frames : m.frames[i] = x[a].of[k]
      /\ (HasBody(m) => BodyGoes(o, m))
           => \A i \in DOMAIN m.frames : \E a \in DOMAIN x :
                 \E k \in DOMAIN x[a].of : x[a].of[k] = m.frames[i]
  <2>1. /\ o \in Side /\ m \in Message /\ fs \in Seq(Frame) /\ d \in Nat
        /\ MessageOK(m, fs, d, Refusing(s)) /\ m.stat = "COMPLETE" /\ d <= 2 * Len(fs)
    BY <1>1, <1>2
  <2> HIDE DEF o, m, fs, d
  <2> QED
    BY <2>1, SubmittedSplit DEF TypeInv
<1>5. \A i \in DOMAIN m.frames : \E a \in DOMAIN x :
         \E k \in DOMAIN x[a].of : x[a].of[k] = m.frames[i]
  BY <1>3, <1>4
<1>6. Unfreed(x)
  <2>1. \A i \in DOMAIN m.frames : m.frames[i] > 0 /\ m.frames[i] \in Nat
    BY <1>1, MessageParts DEF MessageOK
  <2>2. \A i \in DOMAIN m.frames : m.frames[i] # Freed
    BY <2>1 DEF Freed
  <2> HIDE DEF m, x
  <2> QED
    BY <1>4, <2>2 DEF Unfreed
<1>7. Complete(RemoveAt(q, c), p \o x, fs, d)
  <2>1. Complete(q, p, fs, d)
    BY DEF WideInv
  <2>2. q[c] = m
    OBVIOUS
  <2> HIDE DEF q, p, fs, d, m, x, c
  <2> QED
    BY <1>1, <1>2, <1>4, <1>5, <2>1, <2>2, CompleteSubmitted
<1>8. \A r \in Side : deferred'[r] = deferred[r]
  <2>1. deferred' = [deferred EXCEPT ![o] =
                       IF HasBody(m) /\ ~Blocked(o, m.stream) /\ Window(o) <= 0
                       THEN Append(@, m.stream) ELSE @]
    BY DEF FlushSubmit
  <2>2. deferred \in [Side -> Seq(Nat)]
    BY DEF TypeInv, TypeOK
  <2> HIDE DEF m, o
  <2> QED
    BY <1>3, <2>1, <2>2
<1> QED
  <2>1. out[Other(s)] = p /\ sent[s] = fs /\ parsed[s] = d /\ o = Other(s)
    OBVIOUS
  <2> HIDE DEF q, p, fs, d, m, x, c, o
  <2> QED
    BY <1>1, <1>2, <1>4, <1>6, <1>7, <1>8, <2>1, WrittenWide

\* At the end of DoFlush nothing waits for the window; nghttp2 adds its own.
LEMMA FlushEndWide ==
    ASSUME TypeInv, FramesInv, WideInv, NEW s \in Side, FlushResume(s) \/ FlushDone(s)
    PROVE  WideInv'
<1>1. deferred[s] = <<>>
  BY DEF WideInv
<1>2. ~FlushResume(s) /\ FlushDone(s)
  BY <1>1 DEF FlushResume
<1>3. UNCHANGED <<sent, parsed, messages, deferred>>
  BY <1>2 DEF FlushDone, peerVars, inputVars
<1>4. PICK x \in Seq(Unasked) : out' = [out EXCEPT ![s] = @ \o x]
  BY <1>2, FlushDoneOut DEF TypeInv
<1>5. x \in Seq(Written) /\ \A a \in DOMAIN x : x[a] \in Unasked
  BY UnaskedWritten
<1>6. WideInv'
  <2> DEFINE t == Other(s)
  <2>1. t \in Side /\ Other(t) = s /\ t # s /\ out[s] \in Seq(Written) /\ out[t] \in Seq(Written)
    BY DirectionTypes
  <2>2. \A w \in Unasked : w.type # "DATA" /\ DOMAIN w.of = {}
    BY UnaskedType
  <2>3. x \in Seq(Written)
    BY <1>5
  <2>4. out'[s] = out[s] \o x /\ out'[t] = out[t]
    BY <1>4, <2>1 DEF TypeInv, TypeOK
  <2>5. Unfreed(x) /\ Paid(x, sent[t])
    BY <1>5, <2>2 DEF Unfreed, Paid
  <2>6. Complete(messages[t], out[s], sent[t], parsed[t])
    BY <2>1 DEF WideInv
  <2>7. Complete(messages[t], out[s] \o x, sent[t], parsed[t])
    <3>1. \A i \in DOMAIN messages[t] : \A k \in DOMAIN messages[t][i].frames :
             \E j \in DOMAIN messages[t] : \E l \in DOMAIN messages[t][j].frames :
                messages[t][j].frames[l] = messages[t][i].frames[k]
      OBVIOUS
    <3> DEFINE p == out[s]
               y == p \o x
    <3>2. \A j \in DOMAIN p : j \in DOMAIN y /\ y[j] = p[j]
      BY <2>1, <2>3, Joined
    <3> HIDE DEF y, p
    <3>3. Complete(messages[t], y, sent[t], parsed[t])
      BY <2>6, <3>1, <3>2, CompleteKept DEF p
    <3> QED
      BY <3>3 DEF y, p
  <2> HIDE DEF t
  <2> QED
    BY <1>3, <2>1, <2>3, <2>4, <2>5, <2>7, WrittenWide
<1> QED
  BY <1>6

LEMMA NextWideInv ==
    TypeInv /\ FrameInv /\ FramesInv /\ WideInv /\ [Next]_vars => WideInv'
<1> SUFFICES ASSUME TypeInv, FrameInv, FramesInv, WideInv, [Next]_vars PROVE WideInv'
  OBVIOUS
<1>1. ASSUME UNCHANGED <<sent, parsed, messages, out, deferred>> PROVE WideInv'
  BY <1>1 DEF WideInv
<1>2. CASE UNCHANGED vars
  BY <1>1, <1>2 DEF vars
<1>3. ASSUME NEW s \in Side, Peer(s) PROVE WideInv'
  BY <1>3, PeerWide
<1>4. ASSUME NEW s \in Side, Callback(s) PROVE WideInv'
  <2>1. CASE ReadCb(s) \/ ReadDone(s) \/ FlushSkip(s)
    BY <1>1, <2>1 DEF ReadCb, ReadDone, FlushSkip, peerVars, inputVars, sessionVars
  <2>2. CASE on_begin_frame_callback(s)
    BY <2>2, BeginWide
  <2>3. CASE on_frame_recv_callback(s)
    BY <2>3, ReceiveWide
  <2>4. CASE FlushSubmit(s)
    BY <2>4, SubmitWide
  <2>5. CASE FlushResume(s) \/ FlushDone(s)
    BY <2>5, FlushEndWide
  <2> QED
    BY <1>4, <2>1, <2>2, <2>3, <2>4, <2>5 DEF Callback
<1>5. CASE ReadIgnored \/ Connect
  BY <1>1, <1>5 DEF ReadIgnored, Connect, peerVars, inputVars, sessionVars
<1>6. CASE Refuse
  BY <1>6, RefuseWide
<1> QED
  BY <1>2, <1>3, <1>4, <1>5, <1>6 DEF Next

-----------------------------------------------------------------------------
(***************************************************************************)
(* Somewhere, and in no two places.                                        *)
(***************************************************************************)
LEMMA PlacesOne == TypeInv /\ FramesInv /\ WideInv => Conservation
<1> SUFFICES ASSUME TypeInv, FramesInv, WideInv,
                    NEW s \in Side, NEW n \in DOMAIN sent[s],
                    2 * n <= parsed[s], sent[s][n].type # "WINDOW_UPDATE"
             PROVE  Places(s, n) = 1
  BY DEF Conservation
<1> DEFINE q == messages[s]
           p == out[Other(s)]
           A == {i \in DOMAIN q : n \in Range(q[i].frames)}
           B == {i \in DOMAIN p : n \in Range(p[i].of)}
<1>1. Once(q, p) /\ Somewhere(q, p, n)
  BY DEF FramesInv, Direction, WideInv, Complete
<1>2. n # Freed
  <2>1. sent[s] \in Seq(Frame)
    BY DirectionTypes
  <2> QED
    BY <2>1 DEF Freed
<1>3. /\ A = {i \in DOMAIN q : \E k \in DOMAIN q[i].frames : q[i].frames[k] = n}
      /\ B = {i \in DOMAIN p : \E k \in DOMAIN p[i].of : p[i].of[k] = n}
  BY DEF Range
<1> HIDE DEF A, B, q, p
<1>4. CASE \E i \in DOMAIN q : \E k \in DOMAIN q[i].frames : q[i].frames[k] = n
  <2>1. PICK i \in DOMAIN q : \E k \in DOMAIN q[i].frames : q[i].frames[k] = n
    BY <1>4
  <2>2. A = {i}
    BY <1>1, <1>3, <2>1 DEF Once
  <2>3. B = {}
    BY <1>1, <1>3, <2>1 DEF Once
  <2>4. Cardinality(A) = 1 /\ Cardinality(B) = 0
    BY <2>2, <2>3, FS_Singleton, FS_EmptySet
  <2> QED
    BY <2>4 DEF Places, A, B, q, p
<1>5. CASE \E j \in DOMAIN p : \E k \in DOMAIN p[j].of : p[j].of[k] = n
  <2>1. PICK j \in DOMAIN p : \E k \in DOMAIN p[j].of : p[j].of[k] = n
    BY <1>5
  <2>2. B = {j}
    BY <1>1, <1>2, <1>3, <2>1 DEF Once
  <2>3. A = {}
    BY <1>1, <1>3, <2>1 DEF Once
  <2>4. Cardinality(A) = 0 /\ Cardinality(B) = 1
    BY <2>2, <2>3, FS_Singleton, FS_EmptySet
  <2> QED
    BY <2>4 DEF Places, A, B, q, p
<1> QED
  BY <1>1, <1>4, <1>5 DEF Somewhere

\* The initial states satisfy every invariant that the argument uses.
LEMMA InitAll ==
    Wide /\ Init => TypeInv /\ PrefaceInv /\ FrameInv /\ FramesInv /\ WideInv
<1>1. Init => PrefaceInv
  BY DEF Init, PrefaceInv, DownOpened, OnlyUpdates, Side
<1> QED
  BY <1>1, InitTypeInv, InitFrameInv, InitFramesInv, InitWideInv

(***************************************************************************)
(* If the window takes all that the peers may send, every frame a session  *)
(* has decoded is in exactly one place: messages_ and DoFlush neither lose *)
(* a frame nor send one twice, whatever the streams and the bounds, the    *)
(* order of the callbacks and the way the connection became HTTP/2.        *)
(***************************************************************************)
THEOREM ConservationCorrect == Wide /\ Spec => []Conservation
BY InitAll, NextTypeInv, NextPrefaceInv, NextFrameInv, NextFramesInv, NextWideInv, PlacesOne,
   PTL DEF Spec

(***************************************************************************)
(* The same window keeps the bytes of DATA intact: nghttp2 never asks for  *)
(* them after the message they belong to has been destroyed.               *)
(***************************************************************************)
THEOREM WideDataIntact == Wide /\ Spec => []HeldDataIntact
<1>1. WideInv => HeldDataIntact
  BY DEF WideInv, HeldDataIntact, WrittenOf, Range
<1> QED
  BY <1>1, InitAll, NextTypeInv, NextPrefaceInv, NextFrameInv, NextFramesInv, NextWideInv,
     PTL DEF Spec

-----------------------------------------------------------------------------
(***************************************************************************)
(* Where the frames of one stream are: what session s has decoded of them  *)
(* is, in this order, what has been written to the other peer and what     *)
(* waits in its queue.                                                     *)
(***************************************************************************)
WaitingParts(q, t) == [i \in DOMAIN q |-> IF q[i].stream = t THEN q[i].frames ELSE <<>>]
Waiting(q, t) == FlattenSeq(WaitingParts(q, t))
Account(s) ==
    \A t \in Nat : Decoded(s, t) = Chained(Carried(out[Other(s)], t), Waiting(messages[s], t))

\* A message is still received only if it is the last of its stream: it is
\* stored, and what follows on its stream is its body; or its frame is half
\* decoded; or it is the place that an upgrade over TLS keeps for SETTINGS.
Kept(m, fs, d) ==
    \E n \in DOMAIN fs : 2 * n <= d /\ fs[n].gzip /\ fs[n].stream = m.stream
Taking(m, fs, d) ==
    d % 2 = 1 /\ fs[(d + 1) \div 2].type # "WINDOW_UPDATE" /\ Matches(m, fs[(d + 1) \div 2])
Awaited(m, fs, d, first) ==
    IF m.store THEN Kept(m, fs, d)
    ELSE \/ Taking(m, fs, d)
         \/ d = 2 * first - 2 /\ m.type = "SETTINGS" /\ m.stream = 0
LastOfStream(q, c) == \A j \in DOMAIN q : q[j].stream = q[c].stream => j <= c
InOrder(q, fs, d, first) ==
    \A i \in DOMAIN q : q[i].stat # "COMPLETE" =>
       Awaited(q[i], fs, d, first) /\ LastOfStream(q, i)
Receiving(s) == InOrder(messages[s], sent[s], parsed[s], First(s))

\* Stream 0 is that of the control frames; a gzip response has no trailers.
Streamed(x) == x.stream = 0 <=> x.type \notin {"HEADERS", "DATA"}
BodyOnly(fs) ==
    \A k, n \in DOMAIN fs :
       k < n /\ fs[k].gzip /\ fs[n].stream = fs[k].stream => fs[n].type = "DATA"
AllStreamed(q) == \A i \in DOMAIN q : Streamed(q[i])
StreamsOK(s) ==
    /\ AllStreamed(sent[s]) /\ AllStreamed(messages[s]) /\ AllStreamed(out[s])
    /\ BodyOnly(sent[s])
StreamInv == \A s \in Side : StreamsOK(s) /\ Receiving(s) /\ Account(s)

-----------------------------------------------------------------------------
CarriedParts(p, t) == [i \in DOMAIN p |-> IF p[i].stream = t THEN p[i].of ELSE <<>>]

LEMMA PartsOfQueue ==
    ASSUME NEW q \in Seq(Message), NEW t
    PROVE  /\ Nested(WaitingParts(q, t), Nat)
           /\ Len(WaitingParts(q, t)) = Len(q) /\ Len(q) \in Nat
           /\ \A i \in 1..Len(q) :
                WaitingParts(q, t)[i] = IF q[i].stream = t THEN q[i].frames ELSE <<>>
<1>1. DOMAIN q = 1..Len(q) /\ Len(q) \in Nat /\ \A i \in 1..Len(q) : q[i] \in Message
  OBVIOUS
<1>2. \A i \in 1..Len(q) : (IF q[i].stream = t THEN q[i].frames ELSE <<>>) \in Seq(Nat)
  <2>1. \A m \in Message : m.frames \in Seq(Nat)
    BY DEF Message
  <2> QED
    BY <1>1, <2>1
<1> DEFINE F == [i \in 1..Len(q) |-> IF q[i].stream = t THEN q[i].frames ELSE <<>>]
<1>3. F = WaitingParts(q, t)
  BY <1>1 DEF WaitingParts
<1>4. F \in [1..Len(q) -> Seq(Nat)]
  BY <1>2
<1>5. F \in Seq(Seq(Nat)) /\ Len(F) = Len(q)
  <2> HIDE DEF F
  <2> QED
    BY <1>1, <1>4
<1>6. Nested(F, Nat)
  <2> HIDE DEF F
  <2> QED
    BY <1>5 DEF Nested
<1> QED
  BY <1>1, <1>3, <1>5, <1>6

LEMMA PartsOfOutput ==
    ASSUME NEW p \in Seq(Written), NEW t
    PROVE  /\ Nested(CarriedParts(p, t), Nat)
           /\ Len(CarriedParts(p, t)) = Len(p) /\ Len(p) \in Nat
           /\ \A i \in 1..Len(p) :
                CarriedParts(p, t)[i] = IF p[i].stream = t THEN p[i].of ELSE <<>>
           /\ Carried(p, t) = FlattenSeq(CarriedParts(p, t))
<1>1. DOMAIN p = 1..Len(p) /\ Len(p) \in Nat /\ \A i \in 1..Len(p) : p[i] \in Written
  OBVIOUS
<1>2. \A i \in 1..Len(p) : (IF p[i].stream = t THEN p[i].of ELSE <<>>) \in Seq(Nat)
  <2>1. \A w \in Written : w.of \in Seq(Nat)
    BY DEF Written
  <2> QED
    BY <1>1, <2>1
<1> DEFINE F == [i \in 1..Len(p) |-> IF p[i].stream = t THEN p[i].of ELSE <<>>]
<1>3. F = CarriedParts(p, t)
  BY <1>1 DEF CarriedParts
<1>4. F \in [1..Len(p) -> Seq(Nat)]
  BY <1>2
<1>5. F \in Seq(Seq(Nat)) /\ Len(F) = Len(p)
  <2> HIDE DEF F
  <2> QED
    BY <1>1, <1>4
<1>6. Nested(F, Nat)
  <2> HIDE DEF F
  <2> QED
    BY <1>5 DEF Nested
<1>7. Carried(p, t) = FlattenSeq(CarriedParts(p, t))
  BY DEF Carried, CarriedParts
<1> QED
  BY <1>1, <1>3, <1>5, <1>6, <1>7

LEMMA AccountTyped ==
    ASSUME NEW q \in Seq(Message), NEW p \in Seq(Written), NEW t
    PROVE  Waiting(q, t) \in Seq(Nat) /\ Carried(p, t) \in Seq(Nat)
<1>1. Nested(WaitingParts(q, t), Nat) /\ Nested(CarriedParts(p, t), Nat)
  BY PartsOfQueue, PartsOfOutput
<1>2. Carried(p, t) = FlattenSeq(CarriedParts(p, t))
  BY PartsOfOutput
<1> QED
  BY <1>1, <1>2, NestedFlat DEF Waiting

LEMMA CarriedTyped == \A p \in Seq(Written) : \A t : Carried(p, t) \in Seq(Nat)
<1>1. <<>> \in Seq(Message)
  OBVIOUS
<1> QED
  BY <1>1, AccountTyped

\* What is written comes behind what was written.
LEMMA CarriedJoined ==
    ASSUME NEW p \in Seq(Written), NEW x \in Seq(Written), NEW t
    PROVE  Carried(p \o x, t) = Chained(Carried(p, t), Carried(x, t))
<1> DEFINE y == p \o x
<1>1. /\ y \in Seq(Written) /\ Len(y) = Len(p) + Len(x) /\ Len(p) \in Nat /\ Len(x) \in Nat
      /\ \A i \in 1..(Len(p) + Len(x)) : y[i] = IF i <= Len(p) THEN p[i] ELSE x[i - Len(p)]
  BY ConcatProperties
<1> HIDE DEF y
<1> DEFINE F == CarriedParts(p, t)
           G == CarriedParts(x, t)
           H == CarriedParts(y, t)
<1>2. /\ Nested(F, Nat) /\ Len(F) = Len(p)
      /\ \A i \in 1..Len(p) : F[i] = IF p[i].stream = t THEN p[i].of ELSE <<>>
      /\ Carried(p, t) = FlattenSeq(F)
  BY PartsOfOutput
<1>3. /\ Nested(G, Nat) /\ Len(G) = Len(x)
      /\ \A i \in 1..Len(x) : G[i] = IF x[i].stream = t THEN x[i].of ELSE <<>>
      /\ Carried(x, t) = FlattenSeq(G)
  BY PartsOfOutput
<1>4. /\ Nested(H, Nat) /\ Len(H) = Len(y)
      /\ \A i \in 1..Len(y) : H[i] = IF y[i].stream = t THEN y[i].of ELSE <<>>
      /\ Carried(y, t) = FlattenSeq(H)
  BY <1>1, PartsOfOutput
<1> HIDE DEF F, G, H
<1>5. ASSUME NEW i \in 1..Len(p) PROVE H[i] = F[i]
  <2>1. i \in 1..Len(y) /\ i \in 1..(Len(p) + Len(x)) /\ i <= Len(p)
    BY <1>1
  <2>2. y[i] = p[i]
    BY <1>1, <2>1
  <2> QED
    BY <1>2, <1>4, <2>1, <2>2
<1>6. ASSUME NEW j \in 1..Len(x) PROVE H[Len(p) + j] = G[j]
  <2> DEFINE i == Len(p) + j
  <2>1. i \in 1..Len(y) /\ i \in 1..(Len(p) + Len(x)) /\ ~(i <= Len(p)) /\ i - Len(p) = j
    BY <1>1
  <2>2. y[i] = x[j]
    BY <1>1, <2>1
  <2> HIDE DEF i
  <2>3. H[i] = G[j]
    BY <1>3, <1>4, <2>1, <2>2
  <2> QED
    BY <2>3 DEF i
<1>7. MadeOf(H, F, G)
  BY <1>1, <1>2, <1>3, <1>4, <1>5, <1>6 DEF MadeOf
<1>8. FlattenSeq(H) = Chained(FlattenSeq(F), FlattenSeq(G))
  BY <1>2, <1>3, <1>4, <1>7, FlattenMade
<1> QED
  BY <1>2, <1>3, <1>4, <1>8 DEF y

\* A message without frames changes nothing, wherever it comes in.
LEMMA WaitingAppend ==
    ASSUME NEW q \in Seq(Message), NEW m \in Message, m.frames = <<>>, NEW t
    PROVE  Waiting(Append(q, m), t) = Waiting(q, t)
<1> DEFINE r == Append(q, m)
           F == WaitingParts(q, t)
           H == WaitingParts(r, t)
           G == <<<<>>>>
<1>1. /\ r \in Seq(Message) /\ Len(r) = Len(q) + 1 /\ Len(q) \in Nat
      /\ \A i \in 1..Len(q) : r[i] = q[i]
      /\ r[Len(q) + 1] = m
  OBVIOUS
<1> HIDE DEF r
<1>2. /\ Nested(F, Nat) /\ Len(F) = Len(q)
      /\ \A i \in 1..Len(q) : F[i] = IF q[i].stream = t THEN q[i].frames ELSE <<>>
  BY PartsOfQueue
<1>3. /\ Nested(H, Nat) /\ Len(H) = Len(r)
      /\ \A i \in 1..Len(r) : H[i] = IF r[i].stream = t THEN r[i].frames ELSE <<>>
  BY <1>1, PartsOfQueue
<1>4. Nested(G, Nat) /\ FlattenSeq(G) = <<>> /\ Len(G) = 1 /\ G[1] = <<>>
  <2>1. <<>> \in Seq(Nat)
    OBVIOUS
  <2> QED
    BY <2>1, NestedOne
<1> HIDE DEF F, H, G
<1>5. \A i \in 1..Len(q) : H[i] = F[i]
  BY <1>1, <1>2, <1>3
<1>6. H[Len(q) + 1] = <<>>
  BY <1>1, <1>3
<1>7. MadeOf(H, F, G)
  BY <1>1, <1>2, <1>3, <1>4, <1>5, <1>6 DEF MadeOf
<1>8. FlattenSeq(H) = Chained(FlattenSeq(F), <<>>)
  BY <1>2, <1>3, <1>4, <1>7, FlattenMade
<1>9. FlattenSeq(F) \in Seq(Nat)
  BY <1>2, NestedFlat
<1> QED
  BY <1>8, <1>9, ChainedNothing DEF Waiting, F, H, r

\* What leaves the queue and nothing of its stream stands before.
LEMMA WaitingTaken ==
    ASSUME NEW q \in Seq(Message), NEW c \in 1..Len(q), NEW t,
           \A i \in 1..Len(q) : i < c /\ q[i].stream = q[c].stream => q[i].frames = <<>>
    PROVE  Waiting(q, t) =
             Chained(IF q[c].stream = t THEN q[c].frames ELSE <<>>, Waiting(RemoveAt(q, c), t))
<1> DEFINE r == RemoveAt(q, c)
           F == WaitingParts(q, t)
           H == WaitingParts(r, t)
<1>1. /\ r \in Seq(Message) /\ Len(r) = Len(q) - 1
      /\ \A j \in 1..(Len(q) - 1) : r[j] = IF j < c THEN q[j] ELSE q[j + 1]
  <2>1. c \in DOMAIN q
    OBVIOUS
  <2> QED
    BY <2>1, RemoveAtType
<1> HIDE DEF r
<1>2. /\ Nested(F, Nat) /\ Len(F) = Len(q) /\ Len(q) \in Nat
      /\ \A i \in 1..Len(q) : F[i] = IF q[i].stream = t THEN q[i].frames ELSE <<>>
  BY PartsOfQueue
<1>3. /\ Nested(H, Nat) /\ Len(H) = Len(r)
      /\ \A i \in 1..Len(r) : H[i] = IF r[i].stream = t THEN r[i].frames ELSE <<>>
  BY <1>1, PartsOfQueue
<1> HIDE DEF F, H
<1>4. ASSUME NEW i \in 1..Len(H) PROVE H[i] = IF i < c THEN F[i] ELSE F[i + 1]
  <2>1. i \in 1..(Len(q) - 1) /\ i \in 1..Len(q) /\ i + 1 \in 1..Len(q)
    BY <1>1, <1>2, <1>3
  <2>2. H[i] = IF r[i].stream = t THEN r[i].frames ELSE <<>>
    BY <1>3
  <2>3. CASE i < c
    BY <1>1, <1>2, <2>1, <2>2, <2>3
  <2>4. CASE ~(i < c)
    BY <1>1, <1>2, <2>1, <2>2, <2>4
  <2> QED
    BY <2>3, <2>4
<1>5. Without(H, F, c)
  BY <1>1, <1>2, <1>3, <1>4 DEF Without
<1>6. F[c] = <<>> \/ \A i \in 1..Len(F) : i < c => F[i] = <<>>
  BY <1>2
<1>7. c \in 1..Len(F)
  BY <1>2
<1>8. FlattenSeq(F) = Chained(F[c], FlattenSeq(H))
  BY <1>2, <1>3, <1>5, <1>6, <1>7, FlattenWithout
<1> QED
  BY <1>2, <1>8 DEF Waiting, F, H, r

\* What is received comes behind what waits, if it is for the last message of
\* its stream.
Gathers(q, r, c, n) ==
    /\ q \in Seq(Message) /\ r \in Seq(Message) /\ c \in 1..Len(q) /\ n \in Nat
    /\ Len(r) = Len(q) /\ \A i \in 1..Len(q) : i # c => r[i] = q[i]
    /\ r[c].stream = q[c].stream /\ r[c].frames = Append(q[c].frames, n)
    /\ \A i \in 1..Len(q) : q[i].stream = q[c].stream => i <= c

LEMMA WaitingGained ==
    ASSUME NEW q, NEW r, NEW c, NEW n, NEW t, Gathers(q, r, c, n)
    PROVE  Waiting(r, t) = Chained(Waiting(q, t), IF q[c].stream = t THEN <<n>> ELSE <<>>)
<1>1. /\ q \in Seq(Message) /\ r \in Seq(Message) /\ c \in 1..Len(q) /\ n \in Nat
      /\ Len(r) = Len(q) /\ \A i \in 1..Len(q) : i # c => r[i] = q[i]
      /\ r[c].stream = q[c].stream /\ r[c].frames = Append(q[c].frames, n)
      /\ \A i \in 1..Len(q) : q[i].stream = q[c].stream => i <= c
  BY DEF Gathers
<1> DEFINE F == WaitingParts(q, t)
           H == WaitingParts(r, t)
           e == IF q[c].stream = t THEN <<n>> ELSE <<>>
<1>2. /\ Nested(F, Nat) /\ Len(F) = Len(q) /\ Len(q) \in Nat
      /\ \A i \in 1..Len(q) : F[i] = IF q[i].stream = t THEN q[i].frames ELSE <<>>
  BY <1>1, PartsOfQueue
<1>3. /\ Nested(H, Nat) /\ Len(H) = Len(r)
      /\ \A i \in 1..Len(r) : H[i] = IF r[i].stream = t THEN r[i].frames ELSE <<>>
  BY <1>1, PartsOfQueue
<1>4. e \in Seq(Nat)
  BY <1>1
<1> HIDE DEF F, H
<1>5. c \in 1..Len(F) /\ c \in Nat
  BY <1>1, <1>2
<1>6. \A i \in 1..Len(F) : i # c => H[i] = F[i]
  BY <1>1, <1>2, <1>3
<1>7. CASE q[c].stream = t
  <2>1. \A i \in 1..Len(F) : i > c => F[i] = <<>>
    BY <1>1, <1>2, <1>7
  <2>2. q[c].frames \in Seq(Nat)
    BY <1>1, <1>2, <1>7, <1>5, NestedFlat
  <2>3. H[c] = Chained(F[c], e)
    <3>1. H[c] = Append(q[c].frames, n) /\ F[c] = q[c].frames /\ e = <<n>>
      BY <1>1, <1>2, <1>3, <1>7
    <3>2. Append(q[c].frames, n) = q[c].frames \o <<n>>
      BY <2>2, AppendIsConcat, SMTT(30)
    <3> QED
      BY <3>1, <3>2 DEF Chained
  <2> HIDE DEF e
  <2>4. Gains(F, H, c, e)
    BY <1>1, <1>2, <1>3, <1>6, <2>1, <2>3 DEF Gains
  <2>5. FlattenSeq(H) = Chained(FlattenSeq(F), e)
    BY <1>1, <1>2, <1>3, <1>4, <1>5, <2>4, FlattenGained
  <2> QED
    BY <2>5 DEF Waiting, F, H, e
<1>8. CASE q[c].stream # t
  <2>1. H[c] = F[c] /\ e = <<>>
    BY <1>1, <1>2, <1>3, <1>8
  <2>2. \A i \in 1..Len(q) : H[i] = F[i]
    BY <1>1, <1>2, <1>6, <2>1
  <2>3. F \in Seq(Seq(Nat)) /\ H \in Seq(Seq(Nat)) /\ Len(F) = Len(H)
    BY <1>1, <1>2, <1>3 DEF Nested
  <2>4. \A i \in 1..Len(F) : F[i] = H[i]
    BY <1>1, <1>2, <2>2
  <2>5. F = H
    BY <2>3, <2>4, SeqEqual
  <2>6. FlattenSeq(F) \in Seq(Nat)
    BY <1>1, <1>2, NestedFlat
  <2> HIDE DEF e
  <2>7. FlattenSeq(H) = Chained(FlattenSeq(F), e)
    BY <2>1, <2>5, <2>6, ChainedNothing
  <2> QED
    BY <2>7 DEF Waiting, F, H, e
<1> QED
  BY <1>7, <1>8

-----------------------------------------------------------------------------
LEMMA CarriedOne ==
    ASSUME NEW w \in Written, NEW t
    PROVE  /\ Carried(<<w>>, t) = IF w.stream = t THEN w.of ELSE <<>>
           /\ w.of \in Seq(Nat)
<1> DEFINE F == CarriedParts(<<w>>, t)
           e == IF w.stream = t THEN w.of ELSE <<>>
<1>1. <<w>> \in Seq(Written) /\ Len(<<w>>) = 1 /\ <<w>>[1] = w /\ w.of \in Seq(Nat)
  BY DEF Written
<1>2. e \in Seq(Nat)
  BY <1>1
<1>3. F = <<e>>
  BY DEF CarriedParts
<1>4. Carried(<<w>>, t) = FlattenSeq(F)
  BY <1>1, PartsOfOutput
<1> HIDE DEF F, e
<1>5. FlattenSeq(F) = e
  BY <1>2, <1>3, NestedOne
<1> QED
  BY <1>1, <1>4, <1>5 DEF e

LEMMA CarriedNone == \A t : Carried(<<>>, t) = <<>>
<1>1. SUFFICES ASSUME NEW t PROVE Carried(<<>>, t) = <<>>
  OBVIOUS
<1>2. CarriedParts(<<>>, t) = <<>>
  BY DEF CarriedParts
<1>3. FlattenSeq(<<>>) = <<>>
  BY DEF FlattenSeq
<1> QED
  BY <1>2, <1>3 DEF Carried, CarriedParts

\* What nghttp2 writes unasked carries no frame of any stream.
LEMMA CarriedUnasked == \A x \in Seq(Unasked) : \A t : Carried(x, t) = <<>>
<1>1. SUFFICES ASSUME NEW x \in Seq(Unasked), NEW t PROVE Carried(x, t) = <<>>
  OBVIOUS
<1> DEFINE F == CarriedParts(x, t)
<1>2. x \in Seq(Written) /\ \A i \in 1..Len(x) : x[i] \in Unasked
  BY UnaskedWritten
<1>3. \A i \in 1..Len(x) : x[i].of = <<>>
  BY <1>2, UnaskedType
<1>4. /\ Nested(F, Nat) /\ Len(F) = Len(x) /\ Carried(x, t) = FlattenSeq(F)
      /\ \A i \in 1..Len(x) : F[i] = IF x[i].stream = t THEN x[i].of ELSE <<>>
  BY <1>2, PartsOfOutput
<1> HIDE DEF F
<1>5. F \in Seq(Seq(Nat)) /\ <<>> \in Seq(Seq(Nat)) /\ DOMAIN F = 1..Len(F)
  BY <1>4 DEF Nested
<1>6. \A i \in DOMAIN F : F[i] = <<>>
  BY <1>3, <1>4, <1>5
<1>7. FlattenSeq(<<>> \o F) = FlattenSeq(<<>>)
  BY <1>5, <1>6, FlattenNothing
<1>8. <<>> \o F = F /\ FlattenSeq(<<>>) = <<>>
  BY <1>5, ConcatEmptySeq DEF FlattenSeq
<1> QED
  BY <1>4, <1>7, <1>8

\* A message that is submitted while the window is open is relayed as it is.
LEMMA CarriedRelayed ==
    ASSUME NEW s \in Side, NEW m \in Message, NEW t,
           m.store => m.frames # <<>> /\ m.type = "HEADERS",
           HasBody(m) => BodyGoes(s, m)
    PROVE  Carried(Relayed(s, m), t) = IF m.stream = t THEN m.frames ELSE <<>>
<1> DEFINE o == Opening(s)
           h == HeadOf(m)
           b == IF HasBody(m) THEN <<BodyOf(m)>> ELSE <<>>
           e == IF m.stream = t THEN m.frames ELSE <<>>
           front == SubSeq(m.frames, 1, 1)
           rest == SubSeq(m.frames, 2, Len(m.frames))
<1>1. o \in Seq(Written) /\ h \in Seq(Written) /\ BodyOf(m) \in Written /\ b \in Seq(Written)
  BY SubmittedParts, ShortSeqs
<1>2. m.frames \in Seq(Nat) /\ m.stream \in Nat /\ m.type \in MessageType
  BY DEF Message
<1>3. Relayed(s, m) = IF m.type = "ACK" THEN h \o o ELSE (o \o h) \o b
  BY DEF Relayed, BodyGoes
<1>4. Carried(o, t) = <<>>
  <2>1. CASE o = <<>>
    BY <2>1, CarriedNone
  <2>2. CASE o = <<Magic>>
    <3>1. Magic \in Written /\ Magic.of = <<>>
      BY <1>1, <2>2 DEF Magic, Written
    <3> QED
      BY <2>2, <3>1, CarriedOne
  <2> QED
    BY <2>1, <2>2 DEF Opening
<1> HIDE DEF o
<1>5. Carried(h, t) = IF m.type = "DATA" \/ m.stream # t THEN <<>>
                      ELSE IF m.store THEN front ELSE m.frames
  <2>1. CASE m.type = "DATA"
    <3>1. h = <<>>
      BY <2>1 DEF HeadOf
    <3> QED
      BY <2>1, <3>1, CarriedNone
  <2>2. CASE m.type # "DATA"
    <3> DEFINE w == [type |-> m.type, stream |-> m.stream, of |-> IF m.store THEN front ELSE m.frames]
    <3>1. h = <<w>>
      BY <2>2 DEF HeadOf
    <3>2. w \in Written
      <4>1. <<w>>[1] = w /\ 1 \in DOMAIN <<w>> /\ <<w>> \in Seq(Written)
        BY <1>1, <3>1
      <4> HIDE DEF w
      <4> QED
        BY <4>1
    <3>3. w.stream = m.stream /\ w.of = IF m.store THEN front ELSE m.frames
      OBVIOUS
    <3> HIDE DEF w
    <3>4. Carried(h, t) = IF w.stream = t THEN w.of ELSE <<>>
      BY <3>1, <3>2, CarriedOne
    <3> QED
      BY <2>2, <3>3, <3>4
  <2> QED
    BY <2>1, <2>2
<1>6. Carried(b, t) = IF ~HasBody(m) \/ m.stream # t THEN <<>>
                      ELSE IF m.store THEN rest ELSE m.frames
  <2>1. CASE ~HasBody(m)
    BY <2>1, CarriedNone
  <2>2. CASE HasBody(m)
    <3>1. BodyOf(m).stream = m.stream /\ BodyOf(m).of = IF m.store THEN rest ELSE m.frames
      BY DEF BodyOf
    <3>2. Carried(<<BodyOf(m)>>, t) = IF BodyOf(m).stream = t THEN BodyOf(m).of ELSE <<>>
      BY <1>1, CarriedOne
    <3> QED
      BY <2>2, <3>1, <3>2
  <2> QED
    BY <2>1, <2>2
<1>7. m.store => m.frames = front \o rest /\ front \in Seq(Nat) /\ rest \in Seq(Nat)
  <2>1. SUFFICES ASSUME m.store PROVE m.frames = front \o rest /\ front \in Seq(Nat) /\ rest \in Seq(Nat)
    OBVIOUS
  <2>2. Len(m.frames) \in Nat /\ Len(m.frames) >= 1
    BY <1>2, <2>1
  <2>3. /\ 1 \in 1..(Len(m.frames) + 1) /\ 1 \in (1 - 1)..Len(m.frames)
        /\ Len(m.frames) \in 1..Len(m.frames)
    BY <2>2
  <2>4. SubSeq(m.frames, 1, 1) \o SubSeq(m.frames, 1 + 1, Len(m.frames))
          = SubSeq(m.frames, 1, Len(m.frames))
    BY <1>2, <2>3, ConcatAdjacentSubSeq
  <2>5. SubSeq(m.frames, 1, Len(m.frames)) = m.frames
    BY <1>2, SubSeqFull
  <2>6. \A i \in 1..Len(m.frames) : m.frames[i] \in Nat
    BY <1>2
  <2>7. front \in Seq(Nat) /\ rest \in Seq(Nat)
    BY <2>2, <2>6, SubSeqProperties
  <2> QED
    BY <2>4, <2>5, <2>7
<1>8. HasBody(m) <=> m.type = "DATA" \/ m.store
  BY DEF HasBody
<1> HIDE DEF h, b
<1>9. /\ Carried(h \o o, t) = Chained(Carried(h, t), Carried(o, t))
      /\ Carried(o \o h, t) = Chained(Carried(o, t), Carried(h, t))
  BY <1>1, CarriedJoined
<1>10. Carried((o \o h) \o b, t) = Chained(Carried(o \o h, t), Carried(b, t))
  <2>1. o \o h \in Seq(Written)
    BY <1>1, ConcatProperties
  <2> QED
    BY <1>1, <2>1, CarriedJoined
<1> DEFINE H == Carried(h, t)
           B == Carried(b, t)
<1>11. H \in Seq(Nat) /\ B \in Seq(Nat)
  BY <1>1, CarriedTyped
<1>12. Carried(Relayed(s, m), t) = IF m.type = "ACK" THEN H ELSE Chained(H, B)
  <2> HIDE DEF H, B
  <2>1. Chained(H, <<>>) = H /\ Chained(<<>>, H) = H
    BY <1>11, ChainedNothing
  <2> QED
    BY <1>3, <1>4, <1>9, <1>10, <2>1 DEF H, B
<1>13. IF m.type = "ACK" THEN H = e ELSE Chained(H, B) = e
  <2>1. e \in Seq(Nat)
    BY <1>2
  <2> HIDE DEF front, rest
  <2>2. CASE m.stream # t
    <3>1. H = <<>> /\ B = <<>> /\ e = <<>>
      BY <1>5, <1>6, <2>2
    <3> HIDE DEF H, B, e
    <3> QED
      BY <1>11, <3>1, ChainedNothing
  <2>3. CASE m.stream = t /\ m.store
    <3>1. H = front /\ B = rest /\ e = front \o rest /\ m.type # "ACK"
      BY <1>5, <1>6, <1>7, <1>8, <2>3
    <3> HIDE DEF H, B, e
    <3> QED
      BY <3>1 DEF Chained
  <2>4. CASE m.stream = t /\ ~m.store /\ m.type = "DATA"
    <3>1. H = <<>> /\ B = e
      BY <1>5, <1>6, <1>8, <2>4
    <3> HIDE DEF H, B, e
    <3> QED
      BY <2>1, <2>4, <3>1, ChainedNothing
  <2>5. CASE m.stream = t /\ ~m.store /\ m.type # "DATA"
    <3>1. H = e /\ B = <<>>
      BY <1>5, <1>6, <1>8, <2>5
    <3> HIDE DEF H, B, e
    <3> QED
      BY <2>1, <3>1, ChainedNothing
  <2> QED
    BY <2>2, <2>3, <2>4, <2>5
<1> HIDE DEF H, B
<1> QED
  BY <1>12, <1>13

LEMMA CarriedSubmitted ==
    ASSUME TypeOK, NEW s \in Side, NEW m \in Message, NEW t,
           m.store => m.frames # <<>> /\ m.type = "HEADERS",
           HasBody(m) => BodyGoes(s, m)
    PROVE  Carried(Submitted(s, m), t) = IF m.stream = t THEN m.frames ELSE <<>>
<1> DEFINE p == Relayed(s, m)
           u == Updates(s)
           e == IF m.stream = t THEN m.frames ELSE <<>>
<1>1. p \in Seq(Written) /\ u \in Seq(Written) /\ u \in Seq(Unasked)
  BY RelayedType, UpdatesUnasked
<1>2. Carried(p, t) = e
  BY CarriedRelayed
<1>3. e \in Seq(Nat)
  BY DEF Message
<1> HIDE DEF p, u, e
<1>4. Carried(p \o u, t) = Chained(Carried(p, t), Carried(u, t))
  BY <1>1, CarriedJoined
<1>5. Carried(u, t) = <<>>
  BY <1>1, CarriedUnasked
<1>6. Chained(e, <<>>) = e
  BY <1>3, ChainedNothing
<1> QED
  BY <1>2, <1>4, <1>5, <1>6 DEF Submitted, p, u, e

-----------------------------------------------------------------------------
\* The frames of stream t among fs that must be relayed, and those of the
\* first d units that have been decoded.
OwedOf(fs, t) == {n \in DOMAIN fs : fs[n].stream = t /\ fs[n].type # "WINDOW_UPDATE"}
Upto(d) == [n \in 1..(d \div 2) |-> n]

LEMMA DecodedIs == \A s, t : Decoded(s, t) = Only(Upto(parsed[s]), OwedOf(sent[s], t))
  BY DEF Decoded, Owed, OwedOf, Upto

LEMMA UptoTyped ==
    ASSUME NEW d \in Nat
    PROVE  /\ Upto(d) \in Seq(Nat \ {0}) /\ Upto(d) \in Seq(Nat)
           /\ d \div 2 \in Nat /\ DOMAIN Upto(d) = 1..(d \div 2)
           /\ \A n \in 1..(d \div 2) : Upto(d)[n] = n
<1>1. d \div 2 \in Nat
  OBVIOUS
<1> DEFINE k == d \div 2
<1> HIDE DEF k
<1>2. k \in Nat
  BY <1>1 DEF k
<1>3. [n \in 1..k |-> n] \in Seq(Nat \ {0}) /\ [n \in 1..k |-> n] \in Seq(Nat)
  BY <1>2
<1> QED
  BY <1>1, <1>3 DEF Upto, k

LEMMA OnlyUpto ==
    ASSUME NEW d \in Nat, NEW S
    PROVE  Only(Upto(d), S) \in Seq(Nat \ {0}) /\ Only(Upto(d), S) \in Seq(Nat)
BY UptoTyped, OnlyTyped

LEMMA DecodedGrows ==
    ASSUME NEW fs \in Seq(Frame), NEW gs \in Seq(Frame), Grows(fs, gs),
           NEW d \in Nat, d <= 2 * Len(fs), NEW t
    PROVE  Only(Upto(d), OwedOf(fs, t)) = Only(Upto(d), OwedOf(gs, t))
<1>1. Len(fs) \in Nat /\ Len(gs) \in Nat /\ DOMAIN fs = 1..Len(fs) /\ DOMAIN gs = 1..Len(gs)
  OBVIOUS
<1>2. Len(fs) <= Len(gs) /\ \A n \in 1..Len(fs) : gs[n] = fs[n]
  BY DEF Grows
<1>3. ASSUME NEW n \in 1..(d \div 2) PROVE n \in OwedOf(fs, t) <=> n \in OwedOf(gs, t)
  <2>1. n \in 1..Len(fs) /\ n \in 1..Len(gs)
    BY <1>1, <1>2
  <2> QED
    BY <1>1, <1>2, <2>1 DEF OwedOf
<1>4. \A i \in DOMAIN Upto(d) : Upto(d)[i] \in OwedOf(fs, t) <=> Upto(d)[i] \in OwedOf(gs, t)
  BY <1>3, UptoTyped
<1> QED
  BY <1>4, OnlySame

LEMMA DecodedHalf ==
    ASSUME NEW d \in Nat, d % 2 = 0
    PROVE  Upto(d + 1) = Upto(d)
<1>1. (d + 1) \div 2 = d \div 2
  OBVIOUS
<1> QED
  BY <1>1 DEF Upto

LEMMA DecodedNext ==
    ASSUME NEW d \in Nat, NEW n \in Nat, d + 1 = 2 * n, NEW S
    PROVE  Only(Upto(d + 1), S) = Chained(Only(Upto(d), S), IF n \in S THEN <<n>> ELSE <<>>)
<1>1. n >= 1 /\ d \div 2 = n - 1 /\ (d + 1) \div 2 = n
  OBVIOUS
<1>2. /\ Upto(d) \in Seq(Nat) /\ DOMAIN Upto(d) = 1..(n - 1) /\ \A j \in 1..(n - 1) : Upto(d)[j] = j
  BY <1>1, UptoTyped
<1>3. d + 1 \in Nat
  OBVIOUS
<1>4. /\ Upto(d + 1) \in Seq(Nat) /\ DOMAIN Upto(d + 1) = 1..n /\ \A j \in 1..n : Upto(d + 1)[j] = j
  BY <1>1, <1>3, UptoTyped
<1> DEFINE p == Upto(d)
           q == Upto(d + 1)
<1> HIDE DEF p, q
<1>5. Len(p) = n - 1 /\ Len(q) = n
  BY <1>1, <1>2, <1>4, LenProperties DEF p, q
<1>6. <<n>> \in Seq(Nat) /\ Len(<<n>>) = 1 /\ <<n>>[1] = n
  OBVIOUS
<1> DEFINE r == p \o <<n>>
<1>7. /\ r \in Seq(Nat) /\ Len(r) = Len(p) + 1
      /\ \A i \in 1..(Len(p) + 1) : r[i] = IF i <= Len(p) THEN p[i] ELSE <<n>>[i - Len(p)]
  <2>1. p \in Seq(Nat)
    BY <1>2 DEF p
  <2>2. /\ r \in Seq(Nat) /\ Len(r) = Len(p) + Len(<<n>>)
        /\ \A i \in 1..(Len(p) + Len(<<n>>)) : r[i] = IF i <= Len(p) THEN p[i] ELSE <<n>>[i - Len(p)]
    BY <1>6, <2>1, ConcatProperties
  <2> HIDE DEF r
  <2> QED
    BY <1>6, <2>2
<1> HIDE DEF r
<1>8. ASSUME NEW i \in 1..n PROVE q[i] = r[i]
  <2>1. q[i] = i
    BY <1>4 DEF q
  <2>2. i \in 1..(Len(p) + 1)
    BY <1>1, <1>5
  <2>3. CASE i <= n - 1
    <3>1. i \in 1..(n - 1)
      BY <1>1, <2>3
    <3>2. p[i] = i
      BY <1>2, <3>1 DEF p
    <3> QED
      BY <1>5, <1>7, <2>1, <2>2, <2>3, <3>2
  <2>4. CASE ~(i <= n - 1)
    <3>1. i - Len(p) = 1 /\ i = n /\ ~(i <= Len(p))
      BY <1>1, <1>5, <2>4
    <3> QED
      BY <1>6, <1>7, <2>1, <2>2, <3>1
  <2> QED
    BY <2>3, <2>4
<1>9. q = r
  <2>1. Len(q) = Len(r) /\ Len(q) = n /\ q \in Seq(Nat) /\ r \in Seq(Nat)
    BY <1>1, <1>4, <1>5, <1>7 DEF q
  <2> QED
    BY <1>8, <2>1, SeqEqual
<1>10. Only(p \o <<n>>, S) = Only(p, S) \o Only(<<n>>, S)
  <2> DEFINE g == <<n>>
  <2>1. p \in Seq(Nat) /\ g \in Seq(Nat)
    BY <1>2, <1>6 DEF p
  <2> HIDE DEF g
  <2>2. Only(p \o g, S) = Only(p, S) \o Only(g, S)
    BY <2>1, OnlyConcat
  <2> QED
    BY <2>2 DEF g
<1>11. Only(<<n>>, S) = IF n \in S THEN <<n>> ELSE <<>>
  BY OnlyOne
<1> QED
  BY <1>9, <1>10, <1>11 DEF p, q, r, Chained

-----------------------------------------------------------------------------
LEMMA StreamedAppend ==
    \A X : \A q \in Seq(X), e \in X : AllStreamed(q) /\ Streamed(e) => AllStreamed(Append(q, e))
<1>1. SUFFICES ASSUME NEW X, NEW q \in Seq(X), NEW e \in X, AllStreamed(q), Streamed(e)
               PROVE  AllStreamed(Append(q, e))
  OBVIOUS
<1>2. /\ DOMAIN q = 1..Len(q) /\ Len(q) \in Nat /\ DOMAIN Append(q, e) = 1..(Len(q) + 1)
      /\ \A i \in 1..Len(q) : Append(q, e)[i] = q[i]
      /\ Append(q, e)[Len(q) + 1] = e
  BY AppendProperties
<1>3. \A i \in 1..(Len(q) + 1) : i \in 1..Len(q) \/ i = Len(q) + 1
  BY <1>2
<1> QED
  BY <1>1, <1>2, <1>3 DEF AllStreamed

LEMMA StreamedConcat ==
    \A X : \A p, q \in Seq(X) : AllStreamed(p) /\ AllStreamed(q) => AllStreamed(p \o q)
<1>1. SUFFICES ASSUME NEW X, NEW p \in Seq(X), NEW q \in Seq(X), AllStreamed(p), AllStreamed(q)
               PROVE  AllStreamed(p \o q)
  OBVIOUS
<1> DEFINE r == p \o q
<1>2. /\ r \in Seq(X) /\ Len(r) = Len(p) + Len(q) /\ Len(p) \in Nat /\ Len(q) \in Nat
      /\ \A i \in 1..(Len(p) + Len(q)) : r[i] = IF i <= Len(p) THEN p[i] ELSE q[i - Len(p)]
      /\ DOMAIN p = 1..Len(p) /\ DOMAIN q = 1..Len(q)
  BY ConcatProperties
<1> HIDE DEF r
<1>3. DOMAIN r = 1..(Len(p) + Len(q))
  BY <1>2
<1>4. ASSUME NEW i \in 1..(Len(p) + Len(q)) PROVE Streamed(r[i])
  <2>1. CASE i <= Len(p)
    <3>1. i \in DOMAIN p /\ r[i] = p[i]
      BY <1>2, <2>1
    <3> QED
      BY <1>1, <3>1 DEF AllStreamed
  <2>2. CASE ~(i <= Len(p))
    <3> DEFINE j == i - Len(p)
    <3>1. j \in DOMAIN q /\ r[i] = q[j]
      BY <1>2, <2>2
    <3> HIDE DEF j
    <3> QED
      BY <1>1, <3>1 DEF AllStreamed
  <2> QED
    BY <2>1, <2>2
<1> QED
  BY <1>3, <1>4 DEF AllStreamed, r

LEMMA StreamedRemove ==
    \A X : \A q \in Seq(X) : \A c \in DOMAIN q : AllStreamed(q) => AllStreamed(RemoveAt(q, c))
<1>1. SUFFICES ASSUME NEW X, NEW q \in Seq(X), NEW c \in DOMAIN q, AllStreamed(q)
               PROVE  AllStreamed(RemoveAt(q, c))
  OBVIOUS
<1>2. /\ RemoveAt(q, c) \in Seq(X) /\ Len(RemoveAt(q, c)) = Len(q) - 1
      /\ \A j \in 1..(Len(q) - 1) : RemoveAt(q, c)[j] = IF j < c THEN q[j] ELSE q[j + 1]
  BY RemoveAtType
<1> DEFINE r == RemoveAt(q, c)
<1> HIDE DEF r
<1>3. DOMAIN r = 1..(Len(q) - 1) /\ DOMAIN q = 1..Len(q) /\ Len(q) \in Nat
  BY <1>2 DEF r
<1>4. ASSUME NEW j \in 1..(Len(q) - 1) PROVE Streamed(r[j])
  <2>1. j \in DOMAIN q /\ j + 1 \in DOMAIN q
    BY <1>3
  <2>2. r[j] = q[j] \/ r[j] = q[j + 1]
    BY <1>2 DEF r
  <2> QED
    BY <1>1, <2>1, <2>2 DEF AllStreamed
<1> QED
  BY <1>3, <1>4 DEF AllStreamed, r

\* What a step leaves alone keeps its account.
SameQueue(s) ==
    /\ mode' = mode /\ sent'[s] = sent[s] /\ parsed'[s] = parsed[s] /\ messages'[s] = messages[s]
    /\ out'[Other(s)] = out[Other(s)]
SameDirection(s) == SameQueue(s) /\ out'[s] = out[s]

LEMMA UntouchedQueue ==
    ASSUME NEW s \in Side, SameQueue(s)
    PROVE  /\ Receiving(s) => Receiving(s)'
           /\ Account(s) => Account(s)'
<1>1. /\ mode' = mode /\ sent'[s] = sent[s] /\ parsed'[s] = parsed[s] /\ messages'[s] = messages[s]
      /\ out'[Other(s)] = out[Other(s)]
  BY DEF SameQueue
<1>2. Receiving(s) => Receiving(s)'
  <2>1. First(s)' = First(s)
    BY <1>1 DEF First
  <2> QED
    BY <1>1, <2>1 DEF Receiving
<1>3. \A t : Decoded(s, t)' = Decoded(s, t)
  BY <1>1 DEF Decoded, Owed
<1>4. Account(s) => Account(s)'
  BY <1>1, <1>3 DEF Account
<1> QED
  BY <1>2, <1>4

LEMMA Untouched ==
    ASSUME NEW s \in Side, SameDirection(s)
    PROVE  /\ StreamsOK(s) => StreamsOK(s)'
           /\ Receiving(s) => Receiving(s)'
           /\ Account(s) => Account(s)'
<1>1. StreamsOK(s) => StreamsOK(s)'
  BY DEF SameDirection, SameQueue, StreamsOK
<1> QED
  BY <1>1, UntouchedQueue DEF SameDirection

\* A frame begins.
LEMMA BeginDoes ==
    ASSUME TypeInv, NEW s \in Side, on_begin_frame_callback(s)
    PROVE  LET f == sent[s][parsed[s] \div 2 + 1]
               m == NewMessage(f)
           IN  /\ handler = s /\ cursor = 0 /\ parsed[s] % 2 = 0 /\ parsed[s] + 1 <= 2 * Len(sent[s])
               /\ UNCHANGED <<mode, sent, out, settings, handler, cursor>>
               /\ parsed'[s] = parsed[s] + 1 /\ f \in Frame
               /\ parsed[s] \div 2 + 1 \in DOMAIN sent[s]
               /\ 2 * (parsed[s] \div 2 + 1) = parsed[s] + 2
               /\ \A r \in Side : r # s => parsed'[r] = parsed[r] /\ messages'[r] = messages[r]
               /\ \/ messages'[s] = messages[s] /\ ~(PassedOn(s, f) /\ getMessage(s, f) = {})
                  \/ /\ PassedOn(s, f) /\ getMessage(s, f) = {}
                     /\ m \in Message /\ m.frames = <<>> /\ ~m.store /\ m.stat = "HEADER"
                     /\ m.type = f.type /\ m.stream = f.stream
                     /\ messages'[s] = Append(messages[s], m)
<1> DEFINE f == sent[s][parsed[s] \div 2 + 1]
           m == NewMessage(f)
           new == PassedOn(s, f) /\ getMessage(s, f) = {}
<1>1. /\ handler = s /\ cursor = 0 /\ todo > 0 /\ parsed[s] % 2 = 0
      /\ UNCHANGED <<mode, sent, out, settings, handler, cursor>>
      /\ parsed' = [parsed EXCEPT ![s] = @ + 1]
      /\ \/ messages' = messages /\ ~new
         \/ messages' = [messages EXCEPT ![s] = Append(@, m)] /\ new
  BY DEF on_begin_frame_callback, peerVars, sessionVars
<1>2. f \in Frame /\ parsed[s] \in Nat /\ parsed[s] + 1 <= 2 * Len(sent[s])
  BY <1>1, DecodedFrame
<1>3. parsed'[s] = parsed[s] + 1 /\ \A r \in Side : r # s => parsed'[r] = parsed[r]
                                                     /\ messages'[r] = messages[r]
  BY <1>1 DEF TypeInv, TypeOK
<1>4. /\ parsed[s] \div 2 + 1 \in DOMAIN sent[s]
      /\ 2 * (parsed[s] \div 2 + 1) = parsed[s] + 2
  <2>1. Len(sent[s]) \in Nat /\ DOMAIN sent[s] = 1..Len(sent[s])
    BY DirectionTypes
  <2> QED
    BY <1>1, <1>2, <2>1, SMTT(30)
<1>5. CASE messages' = messages /\ ~new
  BY <1>1, <1>2, <1>3, <1>4, <1>5
<1>6. CASE messages' = [messages EXCEPT ![s] = Append(@, m)] /\ new
  <2>1. f.type # "WINDOW_UPDATE"
    BY <1>6 DEF PassedOn
  <2>2. m \in Message /\ m.frames = <<>> /\ ~m.store /\ m.stat = "HEADER"
        /\ m.type = f.type /\ m.stream = f.stream
    <3>1. f.type \in MessageType /\ f.stream \in Nat /\ <<>> \in Seq(Nat)
      BY <1>2, <2>1 DEF Frame, MessageType
    <3> HIDE DEF f
    <3> QED
      BY <3>1 DEF NewMessage, Message
  <2> HIDE DEF m
  <2>3. messages'[s] = Append(messages[s], m)
    BY <1>6 DEF TypeInv, TypeOK
  <2> QED
    BY <1>1, <1>2, <1>3, <1>4, <1>6, <2>2, <2>3 DEF m
<1> QED
  BY <1>1, <1>5, <1>6

\* A frame ends: the message that its beginning made, or found, receives it.
LEMMA Matched ==
    ASSUME TypeInv, NEW s \in Side, NEW f, NEW i \in DOMAIN messages[s], Matches(messages[s][i], f)
    PROVE  getMessage(s, f) # {}
<1> DEFINE T == {j \in DOMAIN messages[s] : Matches(messages[s][j], f)}
<1>1. DOMAIN messages[s] = 1..Len(messages[s]) /\ Len(messages[s]) \in Nat
  BY DEF TypeInv, TypeOK
<1>2. T \in SUBSET Nat /\ T # {}
  BY <1>1
<1>3. PICK x \in T : \A y \in T : ~(y < x)
  BY <1>2, Least
<1>4. \A j \in 1..(x - 1) : ~Matches(messages[s][j], f)
  <2>1. \A j \in 1..(x - 1) : j \in DOMAIN messages[s] /\ j < x
    BY <1>1, <1>3
  <2> QED
    BY <1>3, <2>1
<1>5. x \in getMessage(s, f)
  BY <1>3, <1>4 DEF getMessage
<1> QED
  BY <1>5

LEMMA ReceiveDoes ==
    ASSUME TypeInv, FrameInv, FramesInv, NEW s \in Side, on_frame_recv_callback(s)
    PROVE  LET n == (parsed[s] + 1) \div 2
               f == sent[s][n]
               q == messages[s]
               r == messages'[s]
           IN  /\ handler = s /\ cursor = 0 /\ parsed[s] % 2 = 1
               /\ UNCHANGED <<mode, sent, out, settings, handler, cursor>>
               /\ parsed'[s] = parsed[s] + 1 /\ f \in Frame
               /\ n \in DOMAIN sent[s] /\ n \in Nat /\ parsed[s] + 1 = 2 * n
               /\ \A t \in Side : t # s => parsed'[t] = parsed[t] /\ messages'[t] = messages[t]
               /\ r \in Seq(Message) /\ Len(r) = Len(q)
               /\ \/ f.type = "WINDOW_UPDATE" /\ r = q
                  \/ /\ f.type # "WINDOW_UPDATE" /\ Pending(s) /\ Partial(s) = f
                     /\ \E c \in DOMAIN q :
                          /\ c \in getMessage(s, f) /\ Matches(q[c], f)
                          /\ r[c] = Received(q[c], f, n)
                          /\ \A i \in DOMAIN q : i # c => r[i] = q[i]
<1> DEFINE n == (parsed[s] + 1) \div 2
           f == sent[s][n]
           q == messages[s]
           r == messages'[s]
<1>1. /\ handler = s /\ cursor = 0 /\ todo > 0 /\ parsed[s] % 2 = 1
      /\ UNCHANGED <<mode, sent, out, upgrading, settings, handler, cursor>>
      /\ parsed' = [parsed EXCEPT ![s] = @ + 1]
      /\ messages' = [messages EXCEPT ![s] =
            [i \in DOMAIN @ |-> IF PassedOn(s, f) /\ i \in getMessage(s, f)
                                THEN Received(@[i], f, n) ELSE @[i]]]
  BY DEF on_frame_recv_callback, peerVars, sessionVars
<1>2. /\ \A t \in Side : t # s => messages'[t] = messages[t] /\ parsed'[t] = parsed[t]
      /\ parsed'[s] = parsed[s] + 1
      /\ DOMAIN r = DOMAIN q
      /\ \A i \in DOMAIN q : r[i] = IF PassedOn(s, f) /\ i \in getMessage(s, f)
                                    THEN Received(q[i], f, n) ELSE q[i]
  BY <1>1 DEF TypeInv, TypeOK
<1>3. /\ n \in DOMAIN sent[s] /\ n \in Nat /\ parsed[s] + 1 = 2 * n /\ f \in Frame
  <2>1. parsed[s] \in Nat /\ parsed[s] + 1 <= 2 * Len(sent[s]) /\ f \in Frame
    BY <1>1, DecodedFrame
  <2>2. Len(sent[s]) \in Nat /\ DOMAIN sent[s] = 1..Len(sent[s])
    BY DirectionTypes
  <2> HIDE DEF f
  <2>3. n \in 1..Len(sent[s]) /\ parsed[s] + 1 = 2 * n
    BY <1>1, <2>1, <2>2
  <2> QED
    BY <2>1, <2>2, <2>3
<1>4. r \in Seq(Message) /\ q \in Seq(Message)
  <2>1. TypeInv'
    BY CallbackTypeInv
  <2> QED
    BY <2>1 DEF TypeInv, TypeOK
<1>5. Len(r) = Len(q)
  <2> HIDE DEF q, r
  <2> QED
    BY <1>2, <1>4, LenProperties
<1>6. CASE f.type = "WINDOW_UPDATE"
  <2>1. ~PassedOn(s, f)
    BY <1>6 DEF PassedOn
  <2>2. \A i \in DOMAIN q : r[i] = q[i]
    BY <1>2, <2>1
  <2> HIDE DEF q, r, f, n
  <2>3. \A i \in 1..Len(q) : r[i] = q[i]
    BY <1>4, <2>2
  <2>4. r = q
    BY <1>4, <1>5, <2>3, SeqEqual
  <2> QED
    BY <1>1, <1>2, <1>3, <1>4, <1>5, <1>6, <2>4 DEF q, r, f, n
<1>7. CASE f.type # "WINDOW_UPDATE"
  <2>1. Partial(s) = f /\ Pending(s)
    BY <1>1, <1>7 DEF Partial, Pending
  <2>2. PassedOn(s, f)
    BY <1>1, <1>7 DEF PassedOn, FrameInv
  <2>3. Held1(s)
    BY <2>1, FrameHasMessageDef DEF FrameInv
  <2>4. PICK i \in DOMAIN q : Matches(q[i], f)
    BY <2>1, <2>3 DEF Held1
  <2> HIDE DEF f
  <2>5. getMessage(s, f) # {}
    BY <2>4, Matched
  <2>6. PICK c : c \in getMessage(s, f)
    BY <2>5
  <2>7. c \in DOMAIN q /\ Matches(q[c], f)
    BY <2>6 DEF getMessage
  <2>8. \A j \in getMessage(s, f) : j = c
    BY <2>6, OneMessage
  <2>9. r[c] = Received(q[c], f, n) /\ \A j \in DOMAIN q : j # c => r[j] = q[j]
    BY <1>2, <2>2, <2>6, <2>7, <2>8
  <2> HIDE DEF q, r, n
  <2> QED
    BY <1>1, <1>2, <1>3, <1>4, <1>5, <1>7, <2>1, <2>6, <2>7, <2>9 DEF q, r, f, n
<1> QED
  BY <1>6, <1>7

-----------------------------------------------------------------------------
\* A peer's frame is where HTTP/2 lets it be: it does not put anything but
\* DATA behind the HEADERS of a gzip response.
LEMMA PeerStreams ==
    ASSUME TypeInv, FramesInv, StreamInv, NEW s \in Side, Peer(s)
    PROVE  /\ \E f \in Frame :
                /\ sent' = [sent EXCEPT ![s] = Append(@, f)]
                /\ Streamed(f)
                /\ \A k \in DOMAIN sent[s] :
                     sent[s][k].gzip /\ f.stream = sent[s][k].stream => f.type = "DATA"
           /\ UNCHANGED <<mode, parsed, messages, out>>
<1>1. UNCHANGED <<mode, parsed, messages, out>>
  BY DEF Peer, SendSettings, SendAck, SendWindowUpdate, SendPing, SendHeaders, SendBody, Send,
         sessionVars
<1>2. ASSUME NEW k \in DOMAIN sent[s], sent[s][k].gzip
      PROVE  sent[s][k].stream # 0
  <2>1. sent[s][k].type = "HEADERS"
    BY <1>2 DEF FramesInv, GzipHeaders
  <2>2. Streamed(sent[s][k])
    BY DEF StreamInv, StreamsOK, AllStreamed
  <2> QED
    BY <2>1, <2>2 DEF Streamed
<1>3. \A t \in {"SETTINGS", "ACK", "WINDOW_UPDATE", "PING"} :
         Control(t) \in Frame /\ Streamed(Control(t)) /\ Control(t).stream = 0
  BY DEF Control, Frame, FrameType, Streamed
<1>4. \A t \in Requested(s) : t \in Nat \ {0}
  <2>1. \A n \in DOMAIN out["down"] :
           out["down"][n].stream \in Nat /\ Streamed(out["down"][n])
    <3>1. out["down"] \in Seq(Written) /\ \A w \in Written : w.stream \in Nat
      BY DEF TypeInv, TypeOK, Side, Written
    <3>2. AllStreamed(out["down"])
      BY DEF StreamInv, StreamsOK, Side
    <3> QED
      BY <3>1, <3>2 DEF AllStreamed
  <2>2. \A n \in WrittenOf("down", {"HEADERS"}) :
           n \in DOMAIN out["down"] /\ out["down"][n].type = "HEADERS"
    BY DEF WrittenOf
  <2>3. \A n \in WrittenOf("down", {"HEADERS"}) : out["down"][n].stream \in Nat \ {0}
    BY <2>1, <2>2 DEF Streamed
  <2> QED
    BY <2>3, ConstantsAssumption DEF Requested
<1>5. ASSUME NEW t \in {"SETTINGS", "ACK", "WINDOW_UPDATE", "PING"}, Send(s, Control(t))
      PROVE  \E f \in Frame :
                /\ sent' = [sent EXCEPT ![s] = Append(@, f)]
                /\ Streamed(f)
                /\ \A k \in DOMAIN sent[s] :
                     sent[s][k].gzip /\ f.stream = sent[s][k].stream => f.type = "DATA"
  <2>1. sent' = [sent EXCEPT ![s] = Append(@, Control(t))]
    BY <1>5 DEF Send
  <2> QED
    BY <1>2, <1>3, <2>1
<1>6. CASE SendSettings(s)
  BY <1>1, <1>5, <1>6 DEF SendSettings
<1>7. CASE SendAck(s)
  BY <1>1, <1>5, <1>7 DEF SendAck
<1>8. CASE SendWindowUpdate(s)
  BY <1>1, <1>5, <1>8 DEF SendWindowUpdate
<1>9. CASE SendPing(s)
  BY <1>1, <1>5, <1>9 DEF SendPing
<1>10. CASE SendHeaders(s)
  <2>1. PICK t \in Requested(s), e \in BOOLEAN, z \in BOOLEAN :
           ~Opened(s, t) /\ Send(s, [type |-> "HEADERS", stream |-> t, end |-> e, gzip |-> z])
    BY <1>10 DEF SendHeaders
  <2> DEFINE f == [type |-> "HEADERS", stream |-> t, end |-> e, gzip |-> z]
  <2>2. f \in Frame /\ f.stream = t /\ Streamed(f)
    BY <1>4 DEF Frame, FrameType, Streamed
  <2>3. sent' = [sent EXCEPT ![s] = Append(@, f)]
    BY <2>1 DEF Send
  <2>4. \A k \in DOMAIN sent[s] : sent[s][k].stream # t
    BY <2>1 DEF Opened, OnStream
  <2> HIDE DEF f
  <2> QED
    BY <1>1, <2>2, <2>3, <2>4
<1>11. CASE SendBody(s)
  <2>1. PICK t \in Requested(s), e \in BOOLEAN, y \in {"DATA", "HEADERS"} :
           /\ y = "HEADERS" => ~Zipped(s, t)
           /\ Send(s, [type |-> y, stream |-> t, end |-> e, gzip |-> FALSE])
    BY <1>11 DEF SendBody
  <2> DEFINE f == [type |-> y, stream |-> t, end |-> e, gzip |-> FALSE]
  <2>2. f \in Frame /\ f.stream = t /\ f.type = y /\ Streamed(f)
    BY <1>4 DEF Frame, FrameType, Streamed
  <2>3. sent' = [sent EXCEPT ![s] = Append(@, f)]
    BY <2>1 DEF Send
  <2>4. \A k \in DOMAIN sent[s] : sent[s][k].stream = t /\ sent[s][k].gzip => y = "DATA"
    BY <2>1 DEF Zipped, OnStream
  <2> HIDE DEF f
  <2> QED
    BY <1>1, <2>2, <2>3, <2>4
<1> QED
  BY <1>6, <1>7, <1>8, <1>9, <1>10, <1>11 DEF Peer

LEMMA BodyOnlyAppend ==
    ASSUME NEW fs \in Seq(Frame), NEW f \in Frame, BodyOnly(fs),
           \A k \in DOMAIN fs : fs[k].gzip /\ f.stream = fs[k].stream => f.type = "DATA"
    PROVE  BodyOnly(Append(fs, f))
<1> DEFINE gs == Append(fs, f)
<1>1. /\ DOMAIN fs = 1..Len(fs) /\ Len(fs) \in Nat /\ DOMAIN gs = 1..(Len(fs) + 1)
      /\ \A n \in 1..Len(fs) : gs[n] = fs[n]
      /\ gs[Len(fs) + 1] = f
  BY AppendProperties
<1> HIDE DEF gs
<1>2. ASSUME NEW k \in DOMAIN gs, NEW n \in DOMAIN gs, k < n, gs[k].gzip,
             gs[n].stream = gs[k].stream
      PROVE  gs[n].type = "DATA"
  <2>1. k \in DOMAIN fs /\ gs[k] = fs[k]
    BY <1>1, <1>2
  <2>2. CASE n \in DOMAIN fs
    BY <1>1, <1>2, <2>1, <2>2 DEF BodyOnly
  <2>3. CASE n = Len(fs) + 1
    BY <1>1, <1>2, <2>1, <2>3
  <2> QED
    BY <1>1, <2>2, <2>3
<1> QED
  BY <1>2 DEF BodyOnly, gs

\* The application's or the origin's frame leaves what the session has
\* decoded as it is.
LEMMA PeerStreamInv ==
    ASSUME TypeInv, FramesInv, StreamInv, NEW s \in Side, Peer(s)
    PROVE  StreamInv'
<1>1. PICK f \in Frame :
         /\ sent' = [sent EXCEPT ![s] = Append(@, f)]
         /\ Streamed(f)
         /\ \A k \in DOMAIN sent[s] :
              sent[s][k].gzip /\ f.stream = sent[s][k].stream => f.type = "DATA"
  BY PeerStreams
<1>2. UNCHANGED <<mode, parsed, messages, out>>
  BY PeerStreams
<1>3. /\ sent[s] \in Seq(Frame) /\ sent'[s] = Append(sent[s], f)
      /\ \A r \in Side : r # s => sent'[r] = sent[r]
      /\ parsed[s] \in Nat /\ parsed[s] <= 2 * Len(sent[s])
  BY <1>1, DirectionTypes DEF TypeInv, TypeOK
<1>4. /\ DOMAIN sent[s] = 1..Len(sent[s])
      /\ DOMAIN sent'[s] = 1..(Len(sent[s]) + 1) /\ Len(sent[s]) \in Nat
      /\ Len(sent'[s]) = Len(sent[s]) + 1
      /\ \A n \in 1..Len(sent[s]) : sent'[s][n] = sent[s][n]
      /\ sent'[s] \in Seq(Frame)
  BY <1>3, AppendProperties
<1>5. StreamsOK(s) /\ Receiving(s) /\ Account(s)
  BY DEF StreamInv
<1>6. StreamsOK(s)'
  <2>1. AllStreamed(sent'[s])
    <3>1. AllStreamed(Append(sent[s], f))
      BY <1>1, <1>3, <1>5, StreamedAppend DEF StreamsOK
    <3> QED
      BY <1>3, <3>1
  <2>2. BodyOnly(sent'[s])
    <3>1. BodyOnly(Append(sent[s], f))
      BY <1>1, <1>3, <1>5, BodyOnlyAppend DEF StreamsOK
    <3> QED
      BY <1>3, <3>1
  <2> QED
    BY <1>2, <1>5, <2>1, <2>2 DEF StreamsOK
<1>7. Receiving(s)'
  <2> DEFINE fs == sent[s]
             gs == sent'[s]
             d == parsed[s]
  <2>1. First(s)' = First(s)
    BY <1>2 DEF First
  <2>2. ASSUME NEW m, Awaited(m, fs, d, First(s)) PROVE Awaited(m, gs, d, First(s))
    <3> HIDE DEF fs, gs, d
    <3>1. DOMAIN fs = 1..Len(fs) /\ DOMAIN gs = 1..(Len(fs) + 1) /\ Len(fs) \in Nat
          /\ \A n \in 1..Len(fs) : gs[n] = fs[n]
      BY <1>4 DEF fs, gs
    <3>2. Kept(m, fs, d) => Kept(m, gs, d)
      <4>1. \A n \in DOMAIN fs : n \in DOMAIN gs /\ gs[n] = fs[n]
        BY <3>1
      <4> QED
        BY <4>1 DEF Kept
    <3>3. Taking(m, fs, d) => Taking(m, gs, d)
      <4>1. d \in Nat /\ d <= 2 * Len(fs)
        BY <1>3 DEF d, fs
      <4>2. d % 2 = 1 => (d + 1) \div 2 \in 1..Len(fs)
        BY <3>1, <4>1
      <4> QED
        BY <3>1, <4>2 DEF Taking
    <3> QED
      BY <2>2, <3>2, <3>3 DEF Awaited
  <2>3. InOrder(messages[s], fs, d, First(s))
    BY <1>5 DEF Receiving
  <2>4. InOrder(messages[s], gs, d, First(s))
    BY <2>2, <2>3 DEF InOrder
  <2> QED
    BY <1>2, <2>1, <2>4 DEF Receiving
<1>8. Account(s)'
  <2>1. ASSUME NEW t \in Nat PROVE Decoded(s, t)' = Decoded(s, t)
    <3>1. Grows(sent[s], sent'[s])
      BY <1>4 DEF Grows
    <3>2. Only(Upto(parsed[s]), OwedOf(sent[s], t)) = Only(Upto(parsed[s]), OwedOf(sent'[s], t))
      BY <1>3, <1>4, <3>1, DecodedGrows, ZenonT(60)
    <3>3. Decoded(s, t) = Only(Upto(parsed[s]), OwedOf(sent[s], t))
      BY DecodedIs
    <3>4. Decoded(s, t)' = Only(Upto(parsed'[s]), OwedOf(sent'[s], t))
      BY DEF Decoded, Owed, OwedOf, Upto
    <3> QED
      BY <1>2, <3>2, <3>3, <3>4
  <2> QED
    BY <1>2, <1>5, <2>1 DEF Account
<1>9. ASSUME NEW r \in Side, r # s PROVE StreamsOK(r)' /\ Receiving(r)' /\ Account(r)'
  <2>1. SameDirection(r)
    BY <1>2, <1>3, <1>9 DEF SameDirection, SameQueue
  <2> QED
    BY <2>1, Untouched DEF StreamInv
<1> QED
  BY <1>6, <1>7, <1>8, <1>9 DEF StreamInv

-----------------------------------------------------------------------------
\* A frame begins: it finds the unfinished message of its stream, if there is
\* one, or makes the last message of its stream.
LEMMA BeginReceiving ==
    ASSUME TypeInv, FramesInv, QueueInv, StreamInv, NEW s \in Side, on_begin_frame_callback(s)
    PROVE  Receiving(s)'
<1> DEFINE d == parsed[s]
           e == d + 1
           fs == sent[s]
           f == fs[d \div 2 + 1]
           q == messages[s]
           r == messages'[s]
           m == NewMessage(f)
           first == First(s)
<1>1. /\ d % 2 = 0 /\ e <= 2 * Len(fs) /\ parsed'[s] = e /\ f \in Frame
      /\ UNCHANGED <<mode, sent>>
      /\ d \div 2 + 1 \in DOMAIN fs /\ 2 * (d \div 2 + 1) = d + 2
      /\ \/ r = q
         \/ /\ PassedOn(s, f) /\ getMessage(s, f) = {}
            /\ m \in Message /\ m.frames = <<>> /\ ~m.store /\ m.stat = "HEADER"
            /\ m.type = f.type /\ m.stream = f.stream
            /\ r = Append(q, m)
  BY BeginDoes
<1>2. d \in Nat /\ fs \in Seq(Frame) /\ q \in Seq(Message)
  BY DirectionTypes
<1>3. e % 2 = 1 /\ (e + 1) \div 2 = d \div 2 + 1
  <2>1. d % 2 = 0 /\ d \in Nat
    BY <1>1, <1>2
  <2> HIDE DEF d
  <2> QED
    BY <2>1
<1>4. InOrder(q, fs, d, first) /\ BodyOnly(fs) /\ Greets(s)
  BY DEF StreamInv, StreamsOK, QueueInv, Receiving
<1>5. \A i \in DOMAIN q : MessageOK(q[i], fs, d, Refusing(s))
  BY DEF FramesInv, Direction
<1>6. First(s)' = first /\ first \in {1, 2}
  BY <1>1 DEF First
\* The place for SETTINGS is found by the SETTINGS frame.
<1>7. ASSUME NEW i \in DOMAIN q, q[i].stat # "COMPLETE", ~q[i].store
      PROVE  f.type # "WINDOW_UPDATE" /\ Matches(q[i], f)
  <2>1. Awaited(q[i], fs, d, first)
    BY <1>4, <1>7 DEF InOrder
  <2>2. ~Taking(q[i], fs, d)
    BY <1>1 DEF Taking
  <2>3. d = 2 * first - 2 /\ q[i].type = "SETTINGS" /\ q[i].stream = 0
    BY <1>7, <2>1, <2>2 DEF Awaited
  <2>4. d \div 2 + 1 = first /\ Len(fs) >= first
    <3> HIDE DEF first
    <3>1. Len(fs) \in Nat
      BY <1>2
    <3>2. CASE first = 1
      BY <1>1, <1>2, <2>3, <3>1, <3>2
    <3>3. CASE first = 2
      BY <1>1, <1>2, <2>3, <3>1, <3>3
    <3> QED
      BY <1>6, <3>2, <3>3
  <2>5. f = Control("SETTINGS")
    BY <1>4, <2>4 DEF Greets
  <2>6. f.type = "SETTINGS" /\ f.stream = 0
    BY <2>5 DEF Control
  <2> HIDE DEF f
  <2> QED
    BY <1>7, <2>3, <2>6 DEF Matches
\* What follows the HEADERS of a gzip response finds the message stored for it.
<1>8. ASSUME NEW i \in DOMAIN q, q[i].stat # "COMPLETE", q[i].store, q[i].stream = f.stream
      PROVE  Matches(q[i], f)
  <2>1. Awaited(q[i], fs, d, first) /\ q[i].type = "HEADERS"
    BY <1>4, <1>5, <1>8 DEF InOrder, MessageOK
  <2>2. PICK n \in DOMAIN fs : 2 * n <= d /\ fs[n].gzip /\ fs[n].stream = q[i].stream
    BY <1>8, <2>1 DEF Awaited, Kept
  <2>3. n < d \div 2 + 1
    BY <1>1, <1>2, <2>2
  <2>4. f.type = "DATA"
    BY <1>1, <1>4, <1>8, <2>2, <2>3 DEF BodyOnly
  <2> HIDE DEF f
  <2> QED
    BY <1>8, <2>1, <2>4 DEF Matches
<1> HIDE DEF first
<1>9. ASSUME NEW i \in DOMAIN q, q[i].stat # "COMPLETE"
      PROVE  Awaited(q[i], fs, e, first) /\ LastOfStream(q, i)
  <2>1. Awaited(q[i], fs, d, first) /\ LastOfStream(q, i)
    BY <1>4, <1>9 DEF InOrder
  <2>2. CASE q[i].store
    <3>1. PICK n \in DOMAIN fs : 2 * n <= d /\ fs[n].gzip /\ fs[n].stream = q[i].stream
      BY <2>1, <2>2 DEF Awaited, Kept
    <3>2. 2 * n <= e
      BY <1>2, <3>1
    <3>3. Kept(q[i], fs, e)
      BY <3>1, <3>2 DEF Kept
    <3> QED
      BY <2>1, <2>2, <3>3 DEF Awaited
  <2>3. CASE ~q[i].store
    <3>1. f.type # "WINDOW_UPDATE" /\ Matches(q[i], f)
      BY <1>7, <1>9, <2>3
    <3> HIDE DEF q, e
    <3>2. Taking(q[i], fs, e)
      BY <1>3, <3>1 DEF Taking
    <3> QED
      BY <2>1, <2>3, <3>2 DEF Awaited
  <2> QED
    BY <2>2, <2>3
<1>10. InOrder(q, fs, e, first)
  BY <1>9 DEF InOrder
<1>11. ASSUME PassedOn(s, f), getMessage(s, f) = {},
              m \in Message, ~m.store, m.stat = "HEADER",
              m.type = f.type, m.stream = f.stream, r = Append(q, m)
       PROVE  InOrder(r, fs, e, first)
  <2>1. /\ DOMAIN q = 1..Len(q) /\ Len(q) \in Nat /\ DOMAIN r = 1..(Len(q) + 1)
        /\ \A i \in 1..Len(q) : r[i] = q[i]
        /\ r[Len(q) + 1] = m
    BY <1>2, <1>11, AppendProperties
  <2>2. ASSUME NEW i \in DOMAIN q, q[i].stat # "COMPLETE"
        PROVE  q[i].stream # m.stream
    <3>1. ~Matches(q[i], f)
      <4>1. TypeInv /\ i \in DOMAIN messages[s] /\ getMessage(s, f) = {}
        BY <1>11
      <4> QED
        BY <4>1, Matched
    <3>2. q[i].store
      BY <1>7, <2>2, <3>1
    <3>3. q[i].stream # f.stream
      BY <1>8, <2>2, <3>1, <3>2
    <3> QED
      BY <1>11, <3>3
  <2>3. Awaited(m, fs, e, first)
    <3>1. f.type # "WINDOW_UPDATE"
      BY <1>11 DEF PassedOn
    <3> HIDE DEF m
    <3>2. Matches(m, f)
      BY <1>11 DEF Matches
    <3> HIDE DEF e
    <3>3. Taking(m, fs, e)
      BY <1>3, <3>1, <3>2 DEF Taking
    <3> QED
      BY <1>11, <3>3 DEF Awaited
  <2> HIDE DEF f, m, q, r, fs, e
  <2>4. ASSUME NEW i \in DOMAIN r, r[i].stat # "COMPLETE"
        PROVE  Awaited(r[i], fs, e, first) /\ LastOfStream(r, i)
    <3>1. CASE i = Len(q) + 1
      <4>1. LastOfStream(r, i)
        BY <2>1, <3>1 DEF LastOfStream
      <4> QED
        BY <2>1, <2>3, <3>1, <4>1
    <3>2. CASE i # Len(q) + 1
      <4>1. i \in DOMAIN q /\ r[i] = q[i]
        BY <2>1, <3>2
      <4>2. Awaited(q[i], fs, e, first) /\ LastOfStream(q, i) /\ q[i].stream # m.stream
        BY <1>9, <2>2, <2>4, <4>1
      <4>3. LastOfStream(r, i)
        BY <2>1, <4>1, <4>2 DEF LastOfStream
      <4> QED
        BY <4>1, <4>2, <4>3
    <3> QED
      BY <3>1, <3>2
  <2> QED
    BY <2>4 DEF InOrder
<1>12. InOrder(r, fs, e, first)
  BY <1>1, <1>10, <1>11
<1> QED
  <2>1. sent'[s] = fs /\ parsed'[s] = e
    BY <1>1
  <2> HIDE DEF e, fs
  <2> QED
    BY <1>6, <1>12, <2>1 DEF Receiving

LEMMA BeginStreamInv ==
    ASSUME TypeInv, FramesInv, QueueInv, StreamInv, NEW s \in Side, on_begin_frame_callback(s)
    PROVE  StreamInv'
<1> DEFINE d == parsed[s]
           f == sent[s][d \div 2 + 1]
           q == messages[s]
           r == messages'[s]
           m == NewMessage(f)
<1>1. /\ d % 2 = 0 /\ parsed'[s] = d + 1 /\ f \in Frame
      /\ UNCHANGED <<mode, sent, out>>
      /\ d \div 2 + 1 \in DOMAIN sent[s]
      /\ \A t \in Side : t # s => parsed'[t] = parsed[t] /\ messages'[t] = messages[t]
      /\ \/ r = q
         \/ /\ m \in Message /\ m.frames = <<>>
            /\ m.type = f.type /\ m.stream = f.stream
            /\ r = Append(q, m)
  BY BeginDoes
<1>2. d \in Nat /\ q \in Seq(Message)
  BY DirectionTypes
<1>3. StreamsOK(s) /\ Account(s)
  BY DEF StreamInv
<1>4. Receiving(s)'
  BY BeginReceiving
<1>5. StreamsOK(s)'
  <2>1. AllStreamed(r)
    <3>1. CASE r = q
      BY <1>3, <3>1 DEF StreamsOK
    <3>2. CASE m \in Message /\ m.type = f.type /\ m.stream = f.stream /\ r = Append(q, m)
      <4>1. Streamed(f)
        BY <1>1, <1>3 DEF StreamsOK, AllStreamed
      <4>2. Streamed(m)
        BY <3>2, <4>1 DEF Streamed
      <4>3. AllStreamed(q)
        BY <1>3 DEF StreamsOK
      <4> HIDE DEF m, q
      <4> QED
        BY <1>2, <3>2, <4>2, <4>3, StreamedAppend
    <3> QED
      BY <1>1, <3>1, <3>2
  <2> QED
    BY <1>1, <1>3, <2>1 DEF StreamsOK
<1>6. Account(s)'
  <2>1. ASSUME NEW t \in Nat PROVE Decoded(s, t)' = Decoded(s, t)
    <3>1. Upto(d + 1) = Upto(d)
      BY <1>1, <1>2, DecodedHalf
    <3>2. Decoded(s, t) = Only(Upto(parsed[s]), OwedOf(sent[s], t))
      BY DecodedIs
    <3>3. Decoded(s, t)' = Only(Upto(parsed'[s]), OwedOf(sent'[s], t))
      BY DEF Decoded, Owed, OwedOf, Upto
    <3> QED
      BY <1>1, <3>1, <3>2, <3>3
  <2>2. ASSUME NEW t \in Nat PROVE Waiting(r, t) = Waiting(q, t)
    <3> HIDE DEF m, q, r, f
    <3> QED
      BY <1>1, <1>2, WaitingAppend
  <2> QED
    BY <1>1, <1>3, <2>1, <2>2 DEF Account
<1>7. ASSUME NEW t \in Side, t # s PROVE StreamsOK(t)' /\ Receiving(t)' /\ Account(t)'
  <2>1. SameDirection(t)
    BY <1>1, <1>7 DEF SameDirection, SameQueue
  <2> QED
    BY <2>1, Untouched DEF StreamInv
<1> QED
  BY <1>4, <1>5, <1>6, <1>7 DEF StreamInv

-----------------------------------------------------------------------------
\* What receives a frame takes it behind its others.
LEMMA ReceivedIs ==
    ASSUME NEW m \in Message, NEW f \in Frame, NEW n \in Nat, f.type # "WINDOW_UPDATE",
           Matches(m, f), ~m.store => m.frames = <<>>
    PROVE  /\ Received(m, f, n).stream = m.stream /\ m.stream = f.stream
           /\ Received(m, f, n).frames = Append(m.frames, n)
           /\ Received(m, f, n).stat # "COMPLETE" =>
                Received(m, f, n).store /\ (m.store \/ f.gzip)
           /\ Streamed(m) /\ Streamed(f) => Streamed(Received(m, f, n))
<1>1. m.store \in BOOLEAN /\ f.gzip \in BOOLEAN /\ m.frames \in Seq(Nat)
  BY DEF Message, Frame
<1>2. m.stream = f.stream
  BY DEF Matches
<1>3. Append(<<>>, n) = <<n>>
  OBVIOUS
<1> DEFINE x == Received(m, f, n)
<1>4. /\ x.type = IF m.store THEN m.type ELSE f.type
      /\ x.stream = m.stream
      /\ x.store = (m.store \/ f.gzip)
      /\ x.stat = IF ~(m.store \/ f.gzip) \/ f.end THEN "COMPLETE" ELSE "BODY"
      /\ x.frames = IF m.store \/ f.gzip THEN Append(m.frames, n) ELSE <<n>>
  BY DEF Received
<1> HIDE DEF x
<1>5. x.frames = Append(m.frames, n)
  <2>1. CASE m.store \/ f.gzip
    BY <1>4, <2>1
  <2>2. CASE ~(m.store \/ f.gzip)
    BY <1>3, <1>4, <2>2
  <2> QED
    BY <2>1, <2>2
<1>6. Streamed(m) /\ Streamed(f) => Streamed(x)
  BY <1>2, <1>4 DEF Streamed
<1>7. x.stat # "COMPLETE" => x.store /\ (m.store \/ f.gzip)
  BY <1>4
<1> QED
  BY <1>2, <1>4, <1>5, <1>6, <1>7 DEF x

\* How the frames of the queue, and what has been decoded, go on.
LEMMA AccountGoesOn ==
    ASSUME TypeInv, NEW s \in Side, Account(s), NEW n \in Nat, parsed[s] + 1 = 2 * n,
           n \in DOMAIN sent[s], parsed'[s] = parsed[s] + 1, UNCHANGED <<sent, out>>,
           \A t \in Nat :
              Waiting(messages'[s], t) =
                Chained(Waiting(messages[s], t), IF n \in OwedOf(sent[s], t) THEN <<n>> ELSE <<>>)
    PROVE  Account(s)'
<1>1. messages[s] \in Seq(Message) /\ out[Other(s)] \in Seq(Written) /\ parsed[s] \in Nat
  BY DirectionTypes
<1>2. ASSUME NEW t \in Nat
      PROVE  Only(Upto(parsed'[s]), OwedOf(sent[s], t)) =
               Chained(Carried(out[Other(s)], t), Waiting(messages'[s], t))
  <2> DEFINE D == Only(Upto(parsed[s]), OwedOf(sent[s], t))
             E == Only(Upto(parsed[s] + 1), OwedOf(sent[s], t))
             C == Carried(out[Other(s)], t)
             W == Waiting(messages[s], t)
             e == IF n \in OwedOf(sent[s], t) THEN <<n>> ELSE <<>>
  <2>1. E = Chained(D, e)
    BY <1>1, DecodedNext
  <2>2. D = Chained(C, W)
    BY DecodedIs DEF Account
  <2>3. C \in Seq(Nat) /\ W \in Seq(Nat)
    BY <1>1, AccountTyped
  <2>4. e \in Seq(Nat)
    OBVIOUS
  <2>5. Waiting(messages'[s], t) = Chained(W, e)
    BY <1>2
  <2> HIDE DEF D, E, C, W, e
  <2>6. Chained(Chained(C, W), e) = Chained(C, Chained(W, e))
    BY <2>3, <2>4, ChainedAssociates
  <2>7. E = Chained(C, Waiting(messages'[s], t))
    BY <2>1, <2>2, <2>5, <2>6
  <2> QED
    BY <2>7 DEF E, C
<1>3. \A t \in Nat : Decoded(s, t)' = Only(Upto(parsed'[s]), OwedOf(sent[s], t))
  <2>1. \A t \in Nat : Decoded(s, t)' = Only(Upto(parsed'[s]), OwedOf(sent'[s], t))
    BY DEF Decoded, Owed, OwedOf, Upto
  <2> QED
    BY <2>1
<1> QED
  BY <1>2, <1>3 DEF Account

LEMMA ReceiveStreamInv ==
    ASSUME TypeInv, FrameInv, FramesInv, StreamInv, NEW s \in Side, on_frame_recv_callback(s)
    PROVE  StreamInv'
<1> DEFINE d == parsed[s]
           e == d + 1
           n == e \div 2
           fs == sent[s]
           f == fs[n]
           q == messages[s]
           r == messages'[s]
           first == First(s)
<1>1. /\ d % 2 = 1 /\ UNCHANGED <<mode, sent, out>>
      /\ parsed'[s] = e /\ f \in Frame /\ n \in DOMAIN fs /\ n \in Nat /\ e = 2 * n
      /\ \A t \in Side : t # s => parsed'[t] = parsed[t] /\ messages'[t] = messages[t]
      /\ r \in Seq(Message) /\ Len(r) = Len(q)
      /\ \/ f.type = "WINDOW_UPDATE" /\ r = q
         \/ /\ f.type # "WINDOW_UPDATE"
            /\ \E c \in DOMAIN q :
                 /\ Matches(q[c], f) /\ r[c] = Received(q[c], f, n)
                 /\ \A i \in DOMAIN q : i # c => r[i] = q[i]
  BY ReceiveDoes
<1>2. d \in Nat /\ q \in Seq(Message) /\ DOMAIN q = 1..Len(q) /\ DOMAIN r = 1..Len(q)
      /\ out[Other(s)] \in Seq(Written) /\ fs \in Seq(Frame)
  BY <1>1, DirectionTypes
<1>3. StreamsOK(s) /\ Account(s) /\ InOrder(q, fs, d, first)
  BY DEF StreamInv, Receiving
<1>4. \A i \in DOMAIN q : MessageOK(q[i], fs, d, Refusing(s)) /\ q[i] \in Message
  BY <1>2 DEF FramesInv, Direction
<1>5. First(s)' = first /\ first \in {1, 2}
  BY <1>1 DEF First
<1> HIDE DEF first
<1>6. ASSUME NEW i \in DOMAIN q, q[i].stat # "COMPLETE"
      PROVE  /\ LastOfStream(q, i)
             /\ q[i].store => Kept(q[i], fs, e)
             /\ ~q[i].store => Matches(q[i], f) /\ f.type # "WINDOW_UPDATE"
  <2>1. Awaited(q[i], fs, d, first) /\ LastOfStream(q, i)
    BY <1>3, <1>6 DEF InOrder
  <2>2. d # 2 * first - 2
    <3>1. d % 2 = 1
      BY <1>1
    <3>2. 2 * first - 2 \in {0, 2}
      BY <1>5
    <3> HIDE DEF d
    <3> QED
      BY <3>1, <3>2
  <2>3. q[i].store => Kept(q[i], fs, e)
    <3>1. SUFFICES ASSUME q[i].store PROVE Kept(q[i], fs, e)
      OBVIOUS
    <3>2. PICK k \in DOMAIN fs : 2 * k <= d /\ fs[k].gzip /\ fs[k].stream = q[i].stream
      BY <2>1, <3>1 DEF Awaited, Kept
    <3>3. 2 * k <= e
      BY <1>2, <3>2
    <3> QED
      BY <3>2, <3>3 DEF Kept
  <2>4. ~q[i].store => Matches(q[i], f) /\ f.type # "WINDOW_UPDATE"
    <3>1. ~q[i].store => Taking(q[i], fs, d)
      BY <2>1, <2>2 DEF Awaited
    <3> QED
      BY <3>1 DEF Taking
  <2> QED
    BY <2>1, <2>3, <2>4
<1>7. ASSUME f.type = "WINDOW_UPDATE", r = q
      PROVE  StreamsOK(s)' /\ Receiving(s)' /\ Account(s)'
  <2>1. InOrder(r, fs, e, first)
    BY <1>6, <1>7 DEF InOrder, Awaited
  <2>2. Receiving(s)'
    BY <1>1, <1>5, <2>1 DEF Receiving
  <2>3. StreamsOK(s)'
    BY <1>1, <1>3, <1>7 DEF StreamsOK
  <2>4. Account(s)'
    <3>1. ASSUME NEW t \in Nat
          PROVE  Waiting(r, t) = Chained(Waiting(q, t), IF n \in OwedOf(fs, t) THEN <<n>> ELSE <<>>)
      <4>1. n \notin OwedOf(fs, t)
        BY <1>7 DEF OwedOf
      <4>2. Waiting(q, t) \in Seq(Nat)
        BY <1>2, AccountTyped
      <4> QED
        BY <1>7, <4>1, <4>2, ChainedNothing
    <3>2. /\ n \in Nat /\ parsed[s] + 1 = 2 * n /\ n \in DOMAIN sent[s]
          /\ parsed'[s] = parsed[s] + 1 /\ UNCHANGED <<sent, out>>
      BY <1>1
    <3>3. \A t \in Nat :
             Waiting(messages'[s], t) =
               Chained(Waiting(messages[s], t), IF n \in OwedOf(sent[s], t) THEN <<n>> ELSE <<>>)
      BY <3>1
    <3> HIDE DEF n, q, r, fs, d, e, f
    <3> QED
      BY <1>3, <3>2, <3>3, AccountGoesOn
  <2> QED
    BY <2>2, <2>3, <2>4
<1>8. ASSUME f.type # "WINDOW_UPDATE", NEW c \in DOMAIN q,
             Matches(q[c], f), r[c] = Received(q[c], f, n),
             \A i \in DOMAIN q : i # c => r[i] = q[i]
      PROVE  StreamsOK(s)' /\ Receiving(s)' /\ Account(s)'
  <2> DEFINE m == q[c]
             x == r[c]
  <2>1. /\ m \in Message /\ MessageOK(m, fs, d, Refusing(s)) /\ m.stat # "COMPLETE"
    BY <1>4, <1>8 DEF Matches
  <2>2. ~m.store => m.frames = <<>>
    BY <2>1 DEF MessageOK
  <2>3. /\ x.stream = m.stream /\ m.stream = f.stream
        /\ x.frames = Append(m.frames, n)
        /\ x.stat # "COMPLETE" => x.store /\ (m.store \/ f.gzip)
        /\ Streamed(m) /\ Streamed(f) => Streamed(x)
    <3> HIDE DEF m, f, n
    <3>1. m \in Message /\ f \in Frame /\ n \in Nat /\ f.type # "WINDOW_UPDATE" /\ Matches(m, f)
      BY <1>1, <1>8, <2>1 DEF m
    <3> QED
      BY <1>8, <2>2, <3>1, ReceivedIs DEF m
  <2>4. LastOfStream(q, c)
    BY <1>6, <2>1
  <2>5. \A i \in DOMAIN q : r[i].stream = q[i].stream
    BY <1>8, <2>3
  <2>6. StreamsOK(s)'
    <3>1. AllStreamed(q) /\ Streamed(f)
      BY <1>1, <1>3 DEF StreamsOK, AllStreamed
    <3>2. AllStreamed(r)
      BY <1>2, <1>8, <2>3, <3>1 DEF AllStreamed
    <3> QED
      BY <1>1, <1>3, <3>2 DEF StreamsOK
  <2>7. ASSUME NEW i \in DOMAIN r, r[i].stat # "COMPLETE"
        PROVE  Awaited(r[i], fs, e, first) /\ LastOfStream(r, i)
    <3>1. CASE i = c
      <4>1. LastOfStream(r, c)
        BY <1>2, <2>4, <2>5 DEF LastOfStream
      <4>2. Kept(x, fs, e)
        <5>1. CASE m.store
          <6>1. Kept(m, fs, e)
            BY <1>6, <2>1, <5>1
          <6> QED
            BY <2>3, <6>1 DEF Kept
        <5>2. CASE f.gzip
          <6>1. n \in DOMAIN fs /\ 2 * n <= e /\ fs[n].gzip /\ fs[n].stream = x.stream
            BY <1>1, <1>2, <2>3, <5>2
          <6> HIDE DEF fs, n, e, x
          <6> QED
            BY <6>1 DEF Kept
        <5> QED
          BY <2>3, <2>7, <3>1, <5>1, <5>2
      <4> QED
        BY <2>3, <2>7, <3>1, <4>1, <4>2 DEF Awaited
    <3>2. CASE i # c
      <4>1. i \in DOMAIN q /\ r[i] = q[i]
        BY <1>2, <1>8, <3>2
      <4>2. LastOfStream(q, i) /\ (q[i].store => Kept(q[i], fs, e))
            /\ (~q[i].store => Matches(q[i], f))
        BY <1>6, <2>7, <4>1
      <4>3. q[i].store
        <5>1. SUFFICES ASSUME Matches(q[i], f) PROVE FALSE
          BY <4>2
        <5>2. q[i].stream = q[c].stream
          BY <2>3, <5>1 DEF Matches
        <5>3. i <= c /\ c <= i
          BY <2>4, <4>1, <4>2, <5>2 DEF LastOfStream
        <5> QED
          BY <1>2, <3>2, <4>1, <5>3
      <4>4. LastOfStream(r, i)
        BY <1>2, <2>5, <4>1, <4>2 DEF LastOfStream
      <4> QED
        BY <4>1, <4>2, <4>3, <4>4 DEF Awaited
    <3> QED
      BY <3>1, <3>2
  <2>8. Receiving(s)'
    <3>1. InOrder(r, fs, e, first)
      BY <2>7 DEF InOrder
    <3> QED
      BY <1>1, <1>5, <3>1 DEF Receiving
  <2>9. Account(s)'
    <3>1. ASSUME NEW t \in Nat
          PROVE  Waiting(r, t) = Chained(Waiting(q, t), IF n \in OwedOf(fs, t) THEN <<n>> ELSE <<>>)
      <4>1. n \in OwedOf(fs, t) <=> q[c].stream = t
        BY <1>1, <1>8, <2>3 DEF OwedOf
      <4>2. c \in 1..Len(q) /\ (\A i \in 1..Len(q) : i # c => r[i] = q[i])
            /\ (\A i \in 1..Len(q) : q[i].stream = q[c].stream => i <= c)
        BY <1>2, <1>8, <2>4 DEF LastOfStream
      <4>5. /\ q \in Seq(Message) /\ r \in Seq(Message) /\ n \in Nat /\ Len(r) = Len(q)
            /\ r[c].stream = q[c].stream /\ r[c].frames = Append(q[c].frames, n)
        BY <1>1, <1>2, <2>3
      <4> HIDE DEF q, r, n, fs
      <4>6. Gathers(q, r, c, n)
        BY <4>2, <4>5 DEF Gathers
      <4>3. Waiting(r, t) = Chained(Waiting(q, t), IF q[c].stream = t THEN <<n>> ELSE <<>>)
        BY <4>6, WaitingGained
      <4> QED
        BY <4>1, <4>3
    <3>2. /\ n \in Nat /\ parsed[s] + 1 = 2 * n /\ n \in DOMAIN sent[s]
          /\ parsed'[s] = parsed[s] + 1 /\ UNCHANGED <<sent, out>>
      BY <1>1
    <3>3. \A t \in Nat :
             Waiting(messages'[s], t) =
               Chained(Waiting(messages[s], t), IF n \in OwedOf(sent[s], t) THEN <<n>> ELSE <<>>)
      BY <3>1
    <3> HIDE DEF n, q, r, fs, d, e, f
    <3> QED
      BY <1>3, <3>2, <3>3, AccountGoesOn
  <2> QED
    BY <2>6, <2>8, <2>9
<1>9. StreamsOK(s)' /\ Receiving(s)' /\ Account(s)'
  <2> HIDE DEF f, n, q, r
  <2> QED
    BY <1>1, <1>7, <1>8
<1>10. ASSUME NEW t \in Side, t # s PROVE StreamsOK(t)' /\ Receiving(t)' /\ Account(t)'
  <2>1. SameDirection(t)
    BY <1>1, <1>10 DEF SameDirection, SameQueue
  <2> QED
    BY <2>1, Untouched DEF StreamInv
<1> QED
  BY <1>9, <1>10 DEF StreamInv

-----------------------------------------------------------------------------
\* What is taken from the queue leaves the others in their order.
LEMMA InOrderRemove ==
    ASSUME NEW q \in Seq(Message), NEW c \in DOMAIN q, NEW fs, NEW d, NEW first,
           InOrder(q, fs, d, first)
    PROVE  InOrder(RemoveAt(q, c), fs, d, first)
<1> DEFINE r == RemoveAt(q, c)
           At(j) == IF j < c THEN j ELSE j + 1
<1>1. /\ r \in Seq(Message) /\ Len(r) = Len(q) - 1
      /\ \A j \in 1..(Len(q) - 1) : r[j] = IF j < c THEN q[j] ELSE q[j + 1]
  BY RemoveAtType
<1>2. Len(q) \in Nat /\ DOMAIN q = 1..Len(q) /\ c \in Nat
  OBVIOUS
<1> HIDE DEF r
<1>3. DOMAIN r = 1..(Len(q) - 1)
  BY <1>1, <1>2
<1>4. ASSUME NEW j \in DOMAIN r PROVE At(j) \in DOMAIN q /\ r[j] = q[At(j)]
  BY <1>1, <1>2, <1>3
<1>5. ASSUME NEW j \in DOMAIN r, NEW k \in DOMAIN r, At(k) <= At(j) PROVE k <= j
  BY <1>2, <1>3, <1>5
<1> HIDE DEF At
<1>6. ASSUME NEW j \in DOMAIN r, r[j].stat # "COMPLETE"
      PROVE  Awaited(r[j], fs, d, first) /\ LastOfStream(r, j)
  <2>1. At(j) \in DOMAIN q /\ r[j] = q[At(j)]
    BY <1>4
  <2>2. Awaited(q[At(j)], fs, d, first) /\ LastOfStream(q, At(j))
    BY <1>6, <2>1 DEF InOrder
  <2>3. ASSUME NEW k \in DOMAIN r, r[k].stream = r[j].stream PROVE k <= j
    <3>1. At(k) \in DOMAIN q /\ r[k] = q[At(k)]
      BY <1>4
    <3>2. At(k) <= At(j)
      BY <2>1, <2>2, <2>3, <3>1 DEF LastOfStream
    <3> QED
      BY <1>5, <3>2
  <2> QED
    BY <2>1, <2>2, <2>3 DEF LastOfStream
<1> QED
  BY <1>6 DEF InOrder, r

\* What DoFlush submits is the first of its stream that holds frames: it has
\* passed over messages of other streams only, or the gate was shut.
LEMMA NothingPassed ==
    ASSUME TypeInv, FramesInv, QueueInv, StreamInv, NEW s \in Side, FlushSubmit(s)
    PROVE  \A i \in DOMAIN messages[s] :
              i < cursor => messages[s][i].stream # messages[s][cursor].stream
<1> DEFINE q == messages[s]
           m == q[cursor]
<1>1. /\ handler = s /\ cursor \in DOMAIN q /\ ~Held(s, m)
  BY DEF FlushSubmit
<1>2. q \in Seq(Message)
  BY DirectionTypes
<1>3. DOMAIN q = 1..Len(q) /\ Len(q) \in Nat /\ cursor \in Nat
  BY <1>1, <1>2
<1>4. Passed(s) /\ Gate(s) /\ InOrder(q, sent[s], parsed[s], First(s))
  BY DEF QueueInv, StreamInv, Receiving
<1> HIDE DEF q
<1>5. ASSUME NEW i \in DOMAIN q, i < cursor, q[i].stream = m.stream PROVE FALSE
  <2>1. Held(s, q[i])
    BY <1>1, <1>4, <1>5 DEF Passed, q
  <2>2. CASE q[i].stat # "COMPLETE"
    <3>1. LastOfStream(q, i)
      BY <1>4, <2>2 DEF InOrder
    <3>2. cursor <= i
      BY <1>1, <1>5, <3>1 DEF LastOfStream
    <3> QED
      BY <1>3, <1>5, <3>2
  <2>3. CASE ~settings[Other(s)]
    <3>1. m.type = "SETTINGS"
      BY <1>1, <2>3 DEF Held
    <3>2. Opener(s)
      <4>1. q # <<>>
        BY <1>1, <1>3
      <4> QED
        BY <1>4, <2>3, <4>1 DEF Gate, q
    <3>3. cursor <= 1
      <4>1. CASE handler = s => cursor <= 1
        BY <1>1, <4>1
      <4>2. CASE Unfinished(s)
        BY <1>1, <1>3, <3>1, <4>2 DEF Unfinished, q
      <4> QED
        BY <3>2, <4>1, <4>2 DEF Opener
    <3> QED
      BY <1>3, <1>5, <3>3
  <2> QED
    BY <2>1, <2>2, <2>3 DEF Held
<1> QED
  BY <1>5 DEF q

LEMMA UnaskedStreamed ==
    /\ \A w \in Unasked : Streamed(w)
    /\ \A x \in Seq(Unasked) : AllStreamed(x)
BY UnaskedType DEF Streamed, AllStreamed

LEMMA SubmittedStreamed ==
    ASSUME TypeOK, NEW s \in Side, NEW m \in Message, m.store => m.type = "HEADERS",
           m.store => m.frames # <<>>, Streamed(m)
    PROVE  AllStreamed(Submitted(s, m))
<1> DEFINE x == Submitted(s, m)
<1>1. ASSUME NEW a \in DOMAIN x
      PROVE  x[a] \in Unasked \/ x[a] = Head1(m) \/ (x[a] = BodyOf(m) /\ HasBody(m))
  <2>1. \A k \in DOMAIN x :
           \/ x[k] \in Unasked
           \/ x[k] = Head1(m) /\ m.type # "DATA"
           \/ x[k] = BodyOf(m) /\ BodyGoes(s, m)
              /\ (m.store => k > 1 /\ x[k - 1] = Head1(m))
    BY SubmittedShape
  <2> HIDE DEF x
  <2> QED
    BY <2>1 DEF BodyGoes
<1>2. (\A w \in Unasked : Streamed(w)) /\ Streamed(Head1(m))
  BY UnaskedStreamed DEF Streamed, Head1
<1>3. HasBody(m) => Streamed(BodyOf(m))
  BY DEF HasBody, Streamed, BodyOf
<1> HIDE DEF x
<1> QED
  <2>1. AllStreamed(x)
    BY <1>1, <1>2, <1>3 DEF AllStreamed
  <2> QED
    BY <2>1 DEF x

LEMMA SubmitStreamInv ==
    ASSUME TypeInv, FramesInv, WideInv, QueueInv, StreamInv, NEW s \in Side, FlushSubmit(s)
    PROVE  StreamInv'
<1> DEFINE o == Other(s)
           c == cursor
           q == messages[s]
           m == q[c]
           p == out[o]
           x == Submitted(o, m)
<1>1. /\ c \in DOMAIN q /\ m \in Message /\ m.stat = "COMPLETE"
      /\ MessageOK(m, sent[s], parsed[s], Refusing(s))
      /\ out'[o] = p \o x /\ out'[s] = out[s]
      /\ messages'[s] = RemoveAt(q, c) /\ messages'[o] = messages[o]
      /\ UNCHANGED <<sent, parsed>>
  BY SubmitStep
<1>2. UNCHANGED mode
  BY DEF FlushSubmit, peerVars
<1>3. o \in Side /\ o # s /\ Other(o) = s /\ q \in Seq(Message) /\ p \in Seq(Written)
  BY DirectionTypes
<1>4. HasBody(m) => BodyGoes(o, m)
  BY <1>1, WindowOpen
<1>5. m.store => m.frames # <<>> /\ m.type = "HEADERS"
  BY <1>1 DEF MessageOK
<1>6. x \in Seq(Written)
  BY <1>1, <1>3, <1>5, SubmittedType DEF TypeInv
<1>7. \A i \in 1..Len(q) : i < c /\ q[i].stream = q[c].stream => q[i].frames = <<>>
  BY <1>3, NothingPassed
<1>8. StreamsOK(s) /\ Account(s) /\ StreamsOK(o) /\ Account(o) /\ Receiving(o)
      /\ InOrder(q, sent[s], parsed[s], First(s))
  BY <1>3 DEF StreamInv, Receiving
<1>9. Receiving(s)'
  <2>1. InOrder(RemoveAt(q, c), sent[s], parsed[s], First(s))
    BY <1>1, <1>3, <1>8, InOrderRemove
  <2>2. First(s)' = First(s)
    BY <1>2 DEF First
  <2> QED
    BY <1>1, <2>1, <2>2 DEF Receiving
<1>10. StreamsOK(s)'
  <2>1. AllStreamed(q)
    BY <1>8 DEF StreamsOK
  <2>2. AllStreamed(RemoveAt(q, c))
    BY <1>1, <1>3, <2>1, StreamedRemove
  <2> QED
    BY <1>1, <1>8, <2>2 DEF StreamsOK
<1>11. StreamsOK(o)'
  <2>1. Streamed(m)
    BY <1>1, <1>8 DEF StreamsOK, AllStreamed
  <2>2. AllStreamed(x)
    BY <1>1, <1>3, <1>5, <2>1, SubmittedStreamed DEF TypeInv
  <2>3. AllStreamed(p)
    BY <1>8 DEF StreamsOK
  <2> HIDE DEF x, p
  <2>4. AllStreamed(p \o x)
    BY <1>3, <1>6, <2>2, <2>3, StreamedConcat
  <2> QED
    BY <1>1, <1>8, <2>4 DEF StreamsOK
<1>12. Account(s)'
  <2>1. ASSUME NEW t \in Nat
        PROVE  Decoded(s, t) = Chained(Carried(p \o x, t), Waiting(RemoveAt(q, c), t))
    <3> DEFINE C == Carried(p, t)
               X == IF m.stream = t THEN m.frames ELSE <<>>
               W == Waiting(RemoveAt(q, c), t)
    <3>1. Decoded(s, t) = Chained(C, Waiting(q, t))
      BY <1>8 DEF Account
    <3>2. Waiting(q, t) = Chained(X, W)
      <4>1. c \in 1..Len(q)
        BY <1>1, <1>3
      <4> QED
        BY <1>3, <1>7, <4>1, WaitingTaken
    <3>3. Carried(x, t) = X
      BY <1>1, <1>3, <1>4, <1>5, CarriedSubmitted DEF TypeInv
    <3>4. Carried(p \o x, t) = Chained(C, Carried(x, t))
      <4> HIDE DEF p, x
      <4> QED
        BY <1>3, <1>6, CarriedJoined
    <3>5. C \in Seq(Nat) /\ W \in Seq(Nat) /\ X \in Seq(Nat)
      <4>1. RemoveAt(q, c) \in Seq(Message)
        BY <1>1, <1>3, RemoveAtType
      <4>2. C \in Seq(Nat) /\ W \in Seq(Nat)
        BY <1>3, <4>1, AccountTyped
      <4>3. m.frames \in Seq(Nat)
        BY <1>1, MessageParts
      <4> QED
        BY <4>2, <4>3
    <3> HIDE DEF C, X, W, x, p, m, q
    <3>6. Chained(Chained(C, X), W) = Chained(C, Chained(X, W))
      BY <3>5, ChainedAssociates
    <3>7. Decoded(s, t) = Chained(Carried(p \o x, t), W)
      BY <3>1, <3>2, <3>3, <3>4, <3>6
    <3> QED
      BY <3>7 DEF W
  <2>2. \A t \in Nat : Decoded(s, t)' = Decoded(s, t)
    BY <1>1 DEF Decoded, Owed
  <2> HIDE DEF x
  <2>3. out'[Other(s)] = p \o x /\ messages'[s] = RemoveAt(q, c)
    BY <1>1
  <2> QED
    BY <2>1, <2>2, <2>3 DEF Account
<1>13. Receiving(o)' /\ Account(o)'
  <2>1. SameQueue(o)
    BY <1>1, <1>2, <1>3 DEF SameQueue
  <2> QED
    BY <1>3, <1>8, <2>1, UntouchedQueue
<1>14. \A r \in Side : r = s \/ r = o
  BY DEF Side, Other
<1> QED
  BY <1>9, <1>10, <1>11, <1>12, <1>13, <1>14 DEF StreamInv

-----------------------------------------------------------------------------
LEMMA WaitingNone == \A t : Waiting(<<>>, t) = <<>>
<1>1. SUFFICES ASSUME NEW t PROVE Waiting(<<>>, t) = <<>>
  OBVIOUS
<1>2. WaitingParts(<<>>, t) = <<>>
  BY DEF WaitingParts
<1>3. FlattenSeq(<<>>) = <<>>
  BY DEF FlattenSeq
<1> QED
  BY <1>2, <1>3 DEF Waiting

\* The proxy's own messages carry nothing of the origin.
LEMMA RefuseStreamInv ==
    ASSUME TypeInv, QueueInv, StreamInv, Refuse
    PROVE  StreamInv'
<1> DEFINE a == Own("SETTINGS", "COMPLETE")
           b == Own("GOAWAY", "COMPLETE")
           new == GoawayMessages
<1>1. /\ client = "connecting"
      /\ messages' = [messages EXCEPT !["down"] = @ \o new]
      /\ UNCHANGED <<mode, sent, parsed, out>>
  BY DEF Refuse, peerVars, inputVars, sessionVars
<1>2. /\ a \in Message /\ a.frames = <<>> /\ a.stat = "COMPLETE" /\ Streamed(a)
      /\ b \in Message /\ b.frames = <<>> /\ b.stat = "COMPLETE" /\ Streamed(b)
  BY DEF Own, Message, MessageType, FrameType, Streamed
<1>3. new = <<b>> \/ new = <<a, b>>
  BY ShortConcat DEF GoawayMessages
<1> HIDE DEF a, b, new
<1>4. /\ new \in Seq(Message) /\ AllStreamed(new)
      /\ \A i \in DOMAIN new : new[i].stat = "COMPLETE"
      /\ \A t : Waiting(new, t) = <<>>
  <2>1. <<>> \in Seq(Message) /\ <<a>> \in Seq(Message) /\ <<b>> \in Seq(Message)
        /\ <<a, b>> \in Seq(Message)
    BY <1>2
  <2>2. Append(<<>>, b) = <<b>> /\ Append(<<>>, a) = <<a>> /\ Append(<<a>>, b) = <<a, b>>
    <3>1. Append(<<>>, b) = <<>> \o <<b>> /\ Append(<<>>, a) = <<>> \o <<a>>
      BY <1>2, <2>1, AppendIsConcat
    <3>2. Append(<<a>>, b) = <<a>> \o <<b>>
      BY <1>2, <2>1, AppendIsConcat
    <3> QED
      BY <3>1, <3>2, ShortConcat
  <2>3. ASSUME NEW t PROVE Waiting(<<b>>, t) = <<>> /\ Waiting(<<a, b>>, t) = <<>>
    <3>1. Waiting(Append(<<>>, b), t) = Waiting(<<>>, t)
      BY <1>2, <2>1, WaitingAppend
    <3>2. Waiting(Append(<<>>, a), t) = Waiting(<<>>, t)
      BY <1>2, <2>1, WaitingAppend
    <3>3. Waiting(Append(<<a>>, b), t) = Waiting(<<a>>, t)
      BY <1>2, <2>1, WaitingAppend
    <3> QED
      BY <2>2, <3>1, <3>2, <3>3, WaitingNone
  <2>4. CASE new = <<b>>
    <3>1. DOMAIN <<b>> = {1} /\ <<b>>[1] = b
      OBVIOUS
    <3> QED
      BY <1>2, <2>1, <2>3, <2>4, <3>1 DEF AllStreamed
  <2>5. CASE new = <<a, b>>
    <3>1. DOMAIN <<a, b>> = {1, 2} /\ <<a, b>>[1] = a /\ <<a, b>>[2] = b
      OBVIOUS
    <3> QED
      BY <1>2, <2>1, <2>3, <2>5, <3>1 DEF AllStreamed
  <2> QED
    BY <1>3, <2>4, <2>5
<1>5. messages["down"] = <<>> /\ messages'["down"] = new /\ messages'["up"] = messages["up"]
  <2>1. messages["down"] = <<>>
    BY <1>1 DEF QueueInv, OriginSilent
  <2>2. <<>> \o new = new
    BY <1>4, ConcatEmptySeq
  <2> QED
    BY <1>1, <2>1, <2>2 DEF TypeInv, TypeOK, Side
<1>6. StreamsOK("down")' /\ Receiving("down")' /\ Account("down")'
  <2>1. StreamsOK("down")'
    BY <1>1, <1>4, <1>5 DEF StreamInv, StreamsOK, Side
  <2>2. Receiving("down")'
    BY <1>4, <1>5 DEF Receiving, InOrder
  <2>3. \A t \in Nat : Decoded("down", t)' = Decoded("down", t)
    BY <1>1 DEF Decoded, Owed
  <2>4. \A t : Waiting(messages'["down"], t) = Waiting(messages["down"], t)
    BY <1>4, <1>5, WaitingNone
  <2>5. Account("down")
    BY DEF StreamInv, Side
  <2>6. Account("down")'
    BY <1>1, <2>3, <2>4, <2>5 DEF Account
  <2> QED
    BY <2>1, <2>2, <2>6
<1>7. StreamsOK("up")' /\ Receiving("up")' /\ Account("up")'
  <2>1. SameDirection("up")
    BY <1>1, <1>5 DEF SameDirection, SameQueue
  <2> QED
    BY <2>1, Untouched DEF StreamInv, Side
<1> QED
  BY <1>6, <1>7 DEF StreamInv, Side

\* What nghttp2 writes unasked at the end of DoFlush carries nothing, either.
LEMMA FlushDoneWrites ==
    ASSUME TypeInv, WideInv, NEW s \in Side, FlushResume(s) \/ FlushDone(s)
    PROVE  /\ UNCHANGED <<mode, sent, parsed, messages>>
           /\ \A r \in Side : r # s => out'[r] = out[r]
           /\ \E x \in Seq(Unasked) : out'[s] = out[s] \o x
<1>1. deferred[s] = <<>>
  BY DEF WideInv
<1>2. ~FlushResume(s) /\ FlushDone(s)
  BY <1>1 DEF FlushResume
<1>3. UNCHANGED <<mode, sent, parsed, messages>>
  BY <1>2 DEF FlushDone, peerVars, inputVars
<1>4. PICK x \in Seq(Unasked) : out' = [out EXCEPT ![s] = @ \o x]
  BY <1>2, FlushDoneOut DEF TypeInv
<1>5. out'[s] = out[s] \o x /\ \A r \in Side : r # s => out'[r] = out[r]
  BY <1>4 DEF TypeInv, TypeOK
<1> QED
  BY <1>3, <1>5

LEMMA FlushDoneStreamInv ==
    ASSUME TypeInv, WideInv, StreamInv, NEW s \in Side, FlushResume(s) \/ FlushDone(s)
    PROVE  StreamInv'
<1> DEFINE o == Other(s)
<1>1. PICK x \in Seq(Unasked) :
         /\ UNCHANGED <<mode, sent, parsed, messages>>
         /\ \A r \in Side : r # s => out'[r] = out[r]
         /\ out'[s] = out[s] \o x
  BY FlushDoneWrites
<1>2. /\ o \in Side /\ o # s /\ Other(o) = s /\ out[s] \in Seq(Written)
      /\ \A r \in Side : r = s \/ r = o
  BY DirectionTypes DEF Side, Other
<1>3. x \in Seq(Written) /\ AllStreamed(x)
  BY UnaskedWritten, UnaskedStreamed
<1>4. StreamsOK(s) /\ Receiving(s) /\ Account(s) /\ StreamsOK(o) /\ Receiving(o) /\ Account(o)
  BY <1>2 DEF StreamInv
<1>5. \A t : Carried(x, t) = <<>>
  BY CarriedUnasked
<1>6. StreamsOK(s)'
  <2>1. AllStreamed(out[s])
    BY <1>4 DEF StreamsOK
  <2>2. AllStreamed(out[s] \o x)
    BY <1>2, <1>3, <2>1, StreamedConcat
  <2> QED
    BY <1>1, <1>4, <2>1, <2>2 DEF StreamsOK
<1>7. Receiving(s)' /\ Account(s)'
  <2>1. SameQueue(s)
    BY <1>1, <1>2 DEF SameQueue
  <2> QED
    BY <1>4, <2>1, UntouchedQueue
<1>8. StreamsOK(o)' /\ Receiving(o)'
  <2>1. StreamsOK(o)'
    BY <1>1, <1>2, <1>4 DEF StreamsOK
  <2>2. First(o)' = First(o)
    BY <1>1 DEF First
  <2> QED
    BY <1>1, <1>4, <2>1, <2>2 DEF Receiving
<1>9. Account(o)'
  <2>1. ASSUME NEW t \in Nat PROVE Carried(out'[s], t) = Carried(out[s], t)
    <3>1. Carried(out[s] \o x, t) = Chained(Carried(out[s], t), Carried(x, t))
      BY <1>2, <1>3, CarriedJoined
    <3>2. Carried(out[s], t) \in Seq(Nat)
      BY <1>2, CarriedTyped
    <3>3. Carried(out[s] \o x, t) = Carried(out[s], t)
      BY <1>5, <3>1, <3>2, ChainedNothing
    <3> QED
      BY <1>1, <3>3
  <2>2. \A t \in Nat : Decoded(o, t)' = Decoded(o, t)
    BY <1>1 DEF Decoded, Owed
  <2>3. out'[Other(o)] = out'[s] /\ messages'[o] = messages[o]
    BY <1>1, <1>2
  <2> HIDE DEF o
  <2> QED
    BY <1>2, <1>4, <2>1, <2>2, <2>3 DEF Account
<1> QED
  BY <1>2, <1>6, <1>7, <1>8, <1>9 DEF StreamInv

-----------------------------------------------------------------------------
\* The request that an upgrade over TLS has made is one of those decoded.
LEMMA InitUpgraded ==
    ASSUME NEW t
    PROVE  Only(Upto(2), OwedOf(<<UpgradedRequest>>, t))
             = Waiting(<<Own("SETTINGS", "INIT"), UpgradedMessage>>, t)
<1> DEFINE a == Own("SETTINGS", "INIT")
           u == UpgradedMessage
           q == <<a, u>>
           fs == <<UpgradedRequest>>
           e == IF t = 1 THEN <<1>> ELSE <<>>
<1>1. /\ a \in Message /\ a.frames = <<>> /\ a.stream = 0
      /\ u \in Message /\ u.frames = <<1>> /\ u.stream = 1
  BY DEF Own, UpgradedMessage, Message, MessageType, FrameType
<1>2. DOMAIN fs = {1} /\ fs[1].stream = 1 /\ fs[1].type = "HEADERS"
  BY DEF UpgradedRequest
<1>3. Only(Upto(2), OwedOf(fs, t)) = e
  <2>1. Upto(2) = <<1>>
    <3>1. 2 \div 2 = 1 /\ 1..1 = {1}
      OBVIOUS
    <3> QED
      BY <3>1 DEF Upto
  <2>2. 1 \in OwedOf(fs, t) <=> t = 1
    BY <1>2 DEF OwedOf
  <2> HIDE DEF fs
  <2> QED
    BY <2>1, <2>2, OnlyOne
<1> HIDE DEF a, u, fs
<1>4. Waiting(q, t) = e
  <2>1. /\ q \in Seq(Message) /\ Len(q) = 2 /\ q[1] = a /\ q[2] = u /\ <<a>> \in Seq(Message)
        /\ <<>> \in Seq(Message) /\ Append(<<>>, a) = <<a>>
    BY <1>1
  <2> DEFINE r == RemoveAt(q, 2)
  <2>2. r = <<a>>
    <3>1. 2 \in DOMAIN q
      BY <2>1
    <3> HIDE DEF q
    <3>2. /\ r \in Seq(Message) /\ Len(r) = Len(q) - 1
          /\ \A j \in 1..(Len(q) - 1) : r[j] = IF j < 2 THEN q[j] ELSE q[j + 1]
      BY <2>1, <3>1, RemoveAtType
    <3> HIDE DEF r
    <3>3. Len(r) = 1 /\ r[1] = a
      BY <2>1, <3>2
    <3> QED
      BY <2>1, <3>2, <3>3
  <2>3. Waiting(<<a>>, t) = <<>>
    <3>1. Waiting(Append(<<>>, a), t) = Waiting(<<>>, t)
      BY <1>1, <2>1, WaitingAppend
    <3> QED
      BY <2>1, <3>1, WaitingNone
  <2>4. \A i \in 1..Len(q) : i < 2 /\ q[i].stream = q[2].stream => q[i].frames = <<>>
    BY <1>1, <2>1
  <2>5. Waiting(q, t) = Chained(IF q[2].stream = t THEN q[2].frames ELSE <<>>, Waiting(r, t))
    <3>1. 2 \in 1..Len(q)
      BY <2>1
    <3>2. q \in Seq(Message)
      BY <2>1
    <3> HIDE DEF q
    <3>3. Waiting(q, t) =
            Chained(IF q[2].stream = t THEN q[2].frames ELSE <<>>, Waiting(RemoveAt(q, 2), t))
      BY <2>4, <3>1, <3>2, WaitingTaken
    <3> QED
      BY <3>3
  <2>6. e \in Seq(Nat) /\ e = IF q[2].stream = t THEN q[2].frames ELSE <<>>
    BY <1>1, <2>1
  <2> HIDE DEF e, q, r
  <2> QED
    BY <2>2, <2>3, <2>5, <2>6, ChainedNothing
<1> QED
  BY <1>3, <1>4 DEF a, u, fs

LEMMA InitStreamInv == Init => StreamInv
<1> SUFFICES ASSUME Init, NEW s \in Side PROVE StreamsOK(s) /\ Receiving(s) /\ Account(s)
  BY DEF StreamInv
<1>1. /\ out = [r \in Side |-> <<>>]
      /\ \/ sent[s] = <<>> /\ messages[s] = <<>> /\ parsed[s] = 0
         \/ /\ sent[s] = <<UpgradedRequest>> /\ parsed[s] = 2 /\ First(s) = 2
            /\ messages[s] = <<Own("SETTINGS", "INIT"), UpgradedMessage>>
  BY DEF Init, Side, First
<1>2. out[s] = <<>> /\ out[Other(s)] = <<>>
  BY <1>1, SideOther
<1>3. \A t : Chained(<<>>, Waiting(messages[s], t)) = Waiting(messages[s], t)
  <2>1. messages[s] \in Seq(Message) /\ <<>> \in Seq(Written)
    BY InitTypeInv DEF TypeInv, TypeOK
  <2>2. \A t : Waiting(messages[s], t) \in Seq(Nat)
    BY <2>1, AccountTyped
  <2> QED
    BY <2>2, ChainedNothing
<1>4. CASE sent[s] = <<>> /\ messages[s] = <<>> /\ parsed[s] = 0
  <2>1. StreamsOK(s)
    BY <1>2, <1>4 DEF StreamsOK, AllStreamed, BodyOnly
  <2>2. Receiving(s)
    BY <1>4 DEF Receiving, InOrder
  <2>3. ASSUME NEW t \in Nat
        PROVE  Decoded(s, t) = Chained(Carried(out[Other(s)], t), Waiting(messages[s], t))
    <3>1. Upto(0) = <<>>
      <4>1. 0 \div 2 = 0 /\ 1..0 = {}
        OBVIOUS
      <4> QED
        BY <4>1 DEF Upto
    <3>2. Only(<<>>, OwedOf(sent[s], t)) = <<>>
      <4>1. <<>> \in Seq(Nat) /\ \A i \in DOMAIN <<>> : <<>>[i] \notin OwedOf(sent[s], t)
        OBVIOUS
      <4> QED
        BY <4>1, OnlyNothing
    <3>3. Decoded(s, t) = <<>>
      BY <1>4, <3>1, <3>2, DecodedIs
    <3> QED
      BY <1>2, <1>3, <1>4, <3>3, CarriedNone, WaitingNone
  <2> QED
    BY <2>1, <2>2, <2>3 DEF Account
<1>5. CASE /\ sent[s] = <<UpgradedRequest>> /\ parsed[s] = 2 /\ First(s) = 2
           /\ messages[s] = <<Own("SETTINGS", "INIT"), UpgradedMessage>>
  <2> DEFINE a == Own("SETTINGS", "INIT")
             u == UpgradedMessage
  <2>1. /\ Streamed(a) /\ Streamed(u) /\ Streamed(UpgradedRequest)
        /\ a.stream = 0 /\ a.type = "SETTINGS" /\ ~a.store
        /\ u.stream = 1 /\ u.stat = "COMPLETE"
    BY DEF Own, UpgradedMessage, UpgradedRequest, Streamed
  <2>2. /\ DOMAIN messages[s] = {1, 2} /\ messages[s][1] = a /\ messages[s][2] = u
        /\ DOMAIN sent[s] = {1} /\ sent[s][1] = UpgradedRequest
    BY <1>5
  <2> HIDE DEF a, u
  <2>3. StreamsOK(s)
    BY <1>2, <2>1, <2>2 DEF StreamsOK, AllStreamed, BodyOnly
  <2>4. Receiving(s)
    <3>1. Awaited(a, sent[s], 2, 2)
      BY <2>1 DEF Awaited
    <3>2. LastOfStream(messages[s], 1)
      BY <2>1, <2>2 DEF LastOfStream
    <3> QED
      BY <1>5, <2>1, <2>2, <3>1, <3>2 DEF Receiving, InOrder
  <2>5. ASSUME NEW t \in Nat
        PROVE  Decoded(s, t) = Chained(Carried(out[Other(s)], t), Waiting(messages[s], t))
    <3>1. Decoded(s, t) = Waiting(messages[s], t)
      BY <1>5, InitUpgraded, DecodedIs
    <3> QED
      BY <1>2, <1>3, <3>1, CarriedNone
  <2> QED
    BY <2>3, <2>4, <2>5 DEF Account
<1> QED
  BY <1>1, <1>4, <1>5

LEMMA NextStreamInv ==
    TypeInv /\ FrameInv /\ QueueInv /\ FramesInv /\ WideInv /\ StreamInv /\ [Next]_vars
      => StreamInv'
<1> SUFFICES ASSUME TypeInv, FrameInv, QueueInv, FramesInv, WideInv, StreamInv, [Next]_vars
             PROVE  StreamInv'
  OBVIOUS
<1>1. ASSUME UNCHANGED <<mode, sent, parsed, messages, out>> PROVE StreamInv'
  <2>1. \A s \in Side : SameDirection(s)
    BY <1>1 DEF SameDirection, SameQueue
  <2> QED
    BY <2>1, Untouched DEF StreamInv
<1>2. CASE UNCHANGED vars
  BY <1>1, <1>2 DEF vars
<1>3. ASSUME NEW s \in Side, Peer(s) PROVE StreamInv'
  BY <1>3, PeerStreamInv
<1>4. ASSUME NEW s \in Side, Callback(s) PROVE StreamInv'
  <2>1. CASE ReadCb(s) \/ ReadDone(s) \/ FlushSkip(s)
    BY <1>1, <2>1 DEF ReadCb, ReadDone, FlushSkip, peerVars, inputVars, sessionVars
  <2>2. CASE on_begin_frame_callback(s)
    BY <2>2, BeginStreamInv
  <2>3. CASE on_frame_recv_callback(s)
    BY <2>3, ReceiveStreamInv
  <2>4. CASE FlushSubmit(s)
    BY <2>4, SubmitStreamInv
  <2>5. CASE FlushResume(s) \/ FlushDone(s)
    BY <2>5, FlushDoneStreamInv
  <2> QED
    BY <1>4, <2>1, <2>2, <2>3, <2>4, <2>5 DEF Callback
<1>5. CASE ReadIgnored \/ Connect
  BY <1>1, <1>5 DEF ReadIgnored, Connect, peerVars, inputVars, sessionVars
<1>6. CASE Refuse
  BY <1>6, RefuseStreamInv
<1> QED
  BY <1>2, <1>3, <1>4, <1>5, <1>6 DEF Next

-----------------------------------------------------------------------------
\* A step decodes at most one unit more, and what it writes comes behind what
\* was written.
Advances(s) ==
    /\ \/ parsed'[s] = parsed[s] /\ Grows(sent[s], sent'[s])
       \/ parsed'[s] = parsed[s] + 1 /\ sent'[s] = sent[s] /\ parsed[s] + 1 <= 2 * Len(sent[s])
    /\ out'[s] = out[s] \/ \E x \in Seq(Written) : out'[s] = out[s] \o x

LEMMA StepAdvances ==
    ASSUME TypeInv, FrameInv, FramesInv, WideInv, [Next]_vars
    PROVE  \A r \in Side : Advances(r)
<1>1. ASSUME UNCHANGED <<sent, parsed, out>> PROVE \A r \in Side : Advances(r)
  <2>1. ASSUME NEW r \in Side PROVE Advances(r)
    <3>1. Grows(sent[r], sent[r])
      BY DirectionTypes
    <3> QED
      BY <1>1, <3>1 DEF Advances
  <2> QED
    BY <2>1
<1>2. CASE UNCHANGED vars
  BY <1>1, <1>2 DEF vars
<1>3. ASSUME NEW s \in Side, Peer(s) PROVE \A r \in Side : Advances(r)
  <2>1. PICK f \in Frame : sent' = [sent EXCEPT ![s] = Append(@, f)]
    BY <1>3, PeerSends
  <2>2. UNCHANGED <<parsed, out>>
    BY <1>3, PeerSends
  <2>3. sent[s] \in Seq(Frame) /\ sent'[s] = Append(sent[s], f)
        /\ \A r \in Side : r # s => sent'[r] = sent[r]
    BY <2>1, DirectionTypes DEF TypeInv, TypeOK
  <2>4. Grows(sent[s], sent'[s])
    BY <2>3, AppendProperties DEF Grows
  <2>5. ASSUME NEW r \in Side, r # s PROVE Grows(sent[r], sent'[r])
    BY <2>3, <2>5, DirectionTypes
  <2> QED
    BY <2>2, <2>4, <2>5 DEF Advances
<1>4. ASSUME NEW s \in Side, Callback(s) PROVE \A r \in Side : Advances(r)
  <2>1. CASE ReadCb(s) \/ ReadDone(s) \/ FlushSkip(s)
    BY <1>1, <2>1 DEF ReadCb, ReadDone, FlushSkip, peerVars, inputVars, sessionVars
  <2>2. CASE on_begin_frame_callback(s) \/ on_frame_recv_callback(s)
    <3>1. /\ UNCHANGED <<sent, out>> /\ parsed'[s] = parsed[s] + 1
          /\ \A r \in Side : r # s => parsed'[r] = parsed[r]
      BY <2>2, BeginDoes, ReceiveDoes
    <3>2. parsed[s] + 1 <= 2 * Len(sent[s])
      BY <2>2, DecodedFrame DEF on_begin_frame_callback, on_frame_recv_callback
    <3>3. ASSUME NEW r \in Side PROVE Grows(sent[r], sent[r])
      BY DirectionTypes
    <3> QED
      BY <3>1, <3>2, <3>3 DEF Advances
  <2>3. CASE FlushSubmit(s)
    <3> DEFINE o == Other(s)
               m == messages[s][cursor]
               x == Submitted(o, m)
    <3>1. /\ m \in Message /\ MessageOK(m, sent[s], parsed[s], Refusing(s))
          /\ out'[o] = out[o] \o x /\ out'[s] = out[s]
          /\ UNCHANGED <<sent, parsed>>
      BY <2>3, SubmitStep
    <3>2. o \in Side /\ \A r \in Side : r = s \/ r = o
      BY DEF Side, Other
    <3>3. x \in Seq(Written)
      BY <3>1, <3>2, SubmittedType DEF MessageOK, TypeInv
    <3>4. ASSUME NEW r \in Side PROVE Grows(sent[r], sent[r])
      BY DirectionTypes
    <3> HIDE DEF x, o
    <3>5. ASSUME NEW r \in Side PROVE out'[r] = out[r] \/ \E y \in Seq(Written) : out'[r] = out[r] \o y
      BY <3>1, <3>2, <3>3
    <3> QED
      BY <3>1, <3>4, <3>5 DEF Advances
  <2>4. CASE FlushResume(s) \/ FlushDone(s)
    <3>1. /\ UNCHANGED <<sent, parsed>>
          /\ \A r \in Side : r # s => out'[r] = out[r]
          /\ \E x \in Seq(Written) : out'[s] = out[s] \o x
      <4>1. /\ UNCHANGED <<mode, sent, parsed, messages>>
            /\ \A r \in Side : r # s => out'[r] = out[r]
            /\ \E x \in Seq(Unasked) : out'[s] = out[s] \o x
        BY <2>4, FlushDoneWrites
      <4> QED
        BY <4>1, UnaskedWritten
    <3>2. ASSUME NEW r \in Side PROVE Grows(sent[r], sent[r])
      BY DirectionTypes
    <3> QED
      BY <3>1, <3>2 DEF Advances
  <2> QED
    BY <1>4, <2>1, <2>2, <2>3, <2>4 DEF Callback
<1>5. CASE ReadIgnored \/ Connect \/ Refuse
  BY <1>1, <1>5 DEF ReadIgnored, Connect, Refuse, peerVars, inputVars, sessionVars
<1> QED
  BY <1>2, <1>3, <1>4, <1>5 DEF Next

LEMMA ChainedPrefix == \A X : \A p, q \in Seq(X) : IsPrefix(p, Chained(p, q)) /\ IsPrefix(p, p)
<1>1. SUFFICES ASSUME NEW X, NEW p \in Seq(X), NEW q \in Seq(X)
               PROVE  IsPrefix(p, Chained(p, q)) /\ IsPrefix(p, p)
  OBVIOUS
<1>2. IsPrefix(p, p \o q)
  BY PrefixConcat
<1>3. IsPrefix(p, p)
  <2>1. Len(p) \in Nat
    OBVIOUS
  <2> QED
    BY <2>1 DEF IsPrefix
<1> QED
  BY <1>2, <1>3 DEF Chained

\* On each stream a step of the relay is one of the promise.
LEMMA StepMoves ==
    ASSUME TypeInv, TypeInv', StreamInv', NEW s \in Side, NEW t \in Nat, Advances(s), Advances(Other(s))
    PROVE  /\ IsPrefix(Decoded(s, t), Decoded(s, t)')
           /\ IsPrefix(Carried(out[Other(s)], t), Carried(out'[Other(s)], t))
           /\ IsPrefix(Carried(out'[Other(s)], t), Decoded(s, t)')
<1> DEFINE o == Other(s)
           d == parsed[s]
           fs == sent[s]
           gs == sent'[s]
           D == Only(Upto(d), OwedOf(fs, t))
           E == Only(Upto(parsed'[s]), OwedOf(gs, t))
<1>1. /\ d \in Nat /\ fs \in Seq(Frame) /\ d <= 2 * Len(fs) /\ out[o] \in Seq(Written)
      /\ o \in Side
  BY DirectionTypes
<1>2. gs \in Seq(Frame) /\ messages'[s] \in Seq(Message) /\ out'[o] \in Seq(Written)
  BY <1>1 DEF TypeInv, TypeOK
<1>3. Decoded(s, t) = D /\ Decoded(s, t)' = E
  <2>1. Decoded(s, t)' = E
    BY DEF Decoded, Owed, OwedOf, Upto
  <2> QED
    BY <2>1, DecodedIs
<1>4. D \in Seq(Nat)
  BY <1>1, OnlyUpto
<1>5. E = D \/ \E e \in Seq(Nat) : E = Chained(D, e)
  <2>1. CASE parsed'[s] = d /\ Grows(fs, gs)
    <3>1. Only(Upto(d), OwedOf(fs, t)) = Only(Upto(d), OwedOf(gs, t))
      <4> HIDE DEF fs, gs, d
      <4> QED
        BY <1>1, <1>2, <2>1, DecodedGrows
    <3> QED
      BY <2>1, <3>1
  <2>2. CASE parsed'[s] = d + 1 /\ gs = fs
    <3>1. E = Only(Upto(d + 1), OwedOf(fs, t))
      BY <2>2
    <3> HIDE DEF d, E
    <3>2. CASE d % 2 = 0
      <4>1. Upto(d + 1) = Upto(d)
        BY <1>1, <3>2, DecodedHalf
      <4> QED
        BY <3>1, <4>1
    <3>3. CASE d % 2 = 1
      <4> DEFINE n == (d + 1) \div 2
      <4>1. n \in Nat /\ d + 1 = 2 * n
        BY <1>1, <3>3
      <4> HIDE DEF n
      <4> DEFINE S == OwedOf(fs, t)
                 e == IF n \in S THEN <<n>> ELSE <<>>
      <4> HIDE DEF S
      <4>2. Only(Upto(d + 1), S) = Chained(Only(Upto(d), S), e)
        BY <1>1, <4>1, DecodedNext
      <4>3. e \in Seq(Nat)
        BY <4>1
      <4> HIDE DEF e
      <4> QED
        BY <3>1, <4>2, <4>3 DEF S
    <3> QED
      BY <1>1, <3>2, <3>3
  <2> QED
    BY <2>1, <2>2 DEF Advances
<1>6. IsPrefix(D, E)
  <2> HIDE DEF D, E
  <2> QED
    BY <1>4, <1>5, ChainedPrefix
<1> DEFINE p == out[o]
           r == out'[o]
           C == Carried(p, t)
           K == Carried(r, t)
<1>7. C \in Seq(Nat) /\ K \in Seq(Nat)
  BY <1>1, <1>2, CarriedTyped
<1>8. K = C \/ \E e \in Seq(Nat) : K = Chained(C, e)
  <2>1. r = p \/ \E x \in Seq(Written) : r = p \o x
    BY DEF Advances
  <2>2. CASE r = p
    BY <2>2
  <2>3. CASE \E x \in Seq(Written) : r = p \o x
    <3>1. PICK x \in Seq(Written) : r = p \o x
      BY <2>3
    <3> HIDE DEF p, r
    <3>2. Carried(p \o x, t) = Chained(Carried(p, t), Carried(x, t))
      BY <1>1, CarriedJoined DEF p
    <3>3. Carried(x, t) \in Seq(Nat)
      BY CarriedTyped
    <3> QED
      BY <3>1, <3>2, <3>3
  <2> QED
    BY <2>1, <2>2, <2>3
<1>9. IsPrefix(C, K)
  <2> HIDE DEF C, K
  <2> QED
    BY <1>7, <1>8, ChainedPrefix
<1>10. IsPrefix(K, E)
  <2> DEFINE W == Waiting(messages'[s], t)
  <2>1. Account(s)'
    BY DEF StreamInv
  <2>2. Decoded(s, t)' = Chained(K, W)
    BY <2>1 DEF Account
  <2>3. W \in Seq(Nat)
    BY <1>2, AccountTyped
  <2>4. E = Chained(K, W)
    BY <1>3, <2>2
  <2> HIDE DEF K, W, E
  <2> QED
    BY <1>7, <2>3, <2>4, ChainedPrefix
<1> QED
  BY <1>3, <1>6, <1>9, <1>10

-----------------------------------------------------------------------------
LEMMA FrontTyped ==
    ASSUME NEW X, NEW Y, NEW a \in Seq(Y), NEW b \in Seq(Y), a \o b \in Seq(X)
    PROVE  a \in Seq(X)
<1> DEFINE c == a \o b
<1>1. /\ Len(a) \in Nat /\ Len(b) \in Nat /\ Len(c) = Len(a) + Len(b) /\ DOMAIN a = 1..Len(a)
      /\ \A i \in 1..(Len(a) + Len(b)) : c[i] = IF i <= Len(a) THEN a[i] ELSE b[i - Len(a)]
  BY ConcatProperties
<1>2. c \in Seq(X)
  OBVIOUS
<1> HIDE DEF c
<1>3. ASSUME NEW i \in 1..Len(a) PROVE a[i] \in X
  <2>1. i \in 1..Len(c) /\ i \in 1..(Len(a) + Len(b)) /\ i <= Len(a)
    BY <1>1
  <2>2. c[i] = a[i] /\ c[i] \in X
    BY <1>1, <1>2, <2>1
  <2> QED
    BY <2>2
<1> QED
  BY <1>1, <1>3

\* What the promise speaks of is well formed: the frames are numbered from 1.
Queued == [Side -> [Channels -> Seq(Nat \ {0})]]
DecodedMap == [s \in Side |-> [t \in Channels |-> Decoded(s, t)]]
CarriedMap == [s \in Side |-> [t \in Channels |-> Carried(out[Other(s)], t)]]

LEMMA ChannelsTyped == Channels \subseteq Nat
  BY ConstantsAssumption DEF Channels

LEMMA PromiseTyped == TypeInv /\ StreamInv => DecodedMap \in Queued /\ CarriedMap \in Queued
<1> SUFFICES ASSUME TypeInv, StreamInv PROVE DecodedMap \in Queued /\ CarriedMap \in Queued
  OBVIOUS
<1>1. ASSUME NEW s \in Side, NEW t \in Channels
      PROVE  Decoded(s, t) \in Seq(Nat \ {0}) /\ Carried(out[Other(s)], t) \in Seq(Nat \ {0})
  <2> DEFINE C == Carried(out[Other(s)], t)
             W == Waiting(messages[s], t)
  <2>1. t \in Nat
    BY ChannelsTyped
  <2>2. Decoded(s, t) \in Seq(Nat \ {0})
    <3>1. parsed[s] \in Nat
      BY DirectionTypes
    <3> QED
      BY <3>1, OnlyUpto, DecodedIs
  <2>3. Decoded(s, t) = Chained(C, W)
    BY <2>1 DEF StreamInv, Account
  <2>4. C \in Seq(Nat) /\ W \in Seq(Nat)
    <3>1. messages[s] \in Seq(Message) /\ out[Other(s)] \in Seq(Written)
      BY DirectionTypes
    <3> QED
      BY <3>1, AccountTyped
  <2> HIDE DEF C, W
  <2>5. C \o W \in Seq(Nat \ {0})
    BY <2>2, <2>3 DEF Chained
  <2>6. C \in Seq(Nat \ {0})
    <3> DEFINE X == Nat \ {0}
    <3>1. C \o W \in Seq(X)
      BY <2>5
    <3> HIDE DEF X
    <3>2. C \in Seq(X)
      BY <2>4, <3>1, FrontTyped
    <3> QED
      BY <3>2 DEF X
  <2> QED
    BY <2>2, <2>6 DEF C
<1> QED
  BY <1>1 DEF DecodedMap, CarriedMap, Queued

LEMMA PromiseTypedNext ==
    TypeInv' /\ StreamInv' => (DecodedMap \in Queued /\ CarriedMap \in Queued)'
  BY PromiseTyped, PTL

\* The initial states are those of the promise.
LEMMA InitPromise == TypeInv /\ StreamInv /\ Init => Promise!Init
<1> SUFFICES ASSUME TypeInv, StreamInv, Init PROVE Promise!Init
  OBVIOUS
<1>1. \A s \in Side : out[Other(s)] = <<>>
  BY SideOther DEF Init
<1>2. CarriedMap = [s \in Side |-> [t \in Channels |-> <<>>]]
  BY <1>1, CarriedNone DEF CarriedMap
<1> QED
  BY <1>2, PromiseTyped DEF Promise!Init, Promise!Queues, DecodedMap, CarriedMap, Queued

\* Every step is one of the promise.
LEMMA StepPromise ==
    /\ TypeInv /\ TypeInv' /\ FrameInv /\ FramesInv /\ WideInv /\ StreamInv /\ StreamInv'
    /\ [Next]_vars
    => [Promise!Relay]_(Promise!vars)
<1> SUFFICES ASSUME TypeInv, TypeInv', FrameInv, FramesInv, WideInv, StreamInv, StreamInv',
                    [Next]_vars
             PROVE  Promise!Relay
  OBVIOUS
<1>1. ASSUME NEW s \in Side, NEW t \in Channels
      PROVE  /\ IsPrefix(Decoded(s, t), Decoded(s, t)')
             /\ IsPrefix(Carried(out[Other(s)], t), Carried(out[Other(s)], t)')
             /\ IsPrefix(Carried(out[Other(s)], t)', Decoded(s, t)')
  <2>1. t \in Nat /\ Advances(s) /\ Advances(Other(s))
    BY ChannelsTyped, StepAdvances, SideOther
  <2>2. Carried(out[Other(s)], t)' = Carried(out'[Other(s)], t)
    BY DEF Carried
  <2> QED
    BY <2>1, <2>2, StepMoves
<1>2. (DecodedMap \in Queued)' /\ (CarriedMap \in Queued)'
  BY PromiseTypedNext
<1> QED
  BY <1>1, <1>2
     DEF Promise!Relay, Promise!Queues, Promise!IsPrefix, IsPrefix, DecodedMap, CarriedMap, Queued

(***************************************************************************)
(* The relay is a FIFO.  If the window takes all that the peers may send,  *)
(* the two sessions, their queues, the SETTINGS gate, half-read frames and *)
(* stored gzip responses together give each peer the frames of a stream in *)
(* the order in which the other peer sent them, each once.                 *)
(***************************************************************************)
THEOREM RelayInOrder == Wide /\ Spec => ImplementsStreamRelay
<1>1. TypeInv /\ TypeInv' /\ FrameInv /\ FramesInv /\ WideInv /\ StreamInv /\ StreamInv' /\ [Next]_vars
        => [Promise!Relay]_(Promise!vars)
  BY StepPromise
<1> QED
  BY InitAll, InitQueueInv, InitStreamInv, NextTypeInv, NextPrefaceInv, NextFrameInv, NextQueueInv,
     NextFramesInv, NextWideInv, NextStreamInv, InitPromise, <1>1,
     PTL DEF Spec, ImplementsStreamRelay, Promise!Spec
=============================================================================
