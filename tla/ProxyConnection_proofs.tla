------------------------ MODULE ProxyConnection_proofs ------------------------
(***************************************************************************)
(* Proofs about ProxyConnection, for every plan of the application, every  *)
(* manner of the peers and every bound.                                    *)
(***************************************************************************)
EXTENDS ProxyConnection, SequenceTheorems, FiniteSetTheorems, WellFoundedInduction, TLAPS

(***************************************************************************)
(* Type correctness.  It is inductive together with two facts: a session   *)
(* takes no unit that has not been written, and only a request with        *)
(* Upgrade is answered 101 (what the sessions switch to is the plan).      *)
(***************************************************************************)
TypeInv ==
    /\ TypeOK
    /\ \A s \in Side : read[s] <= Len(sent[s])
    /\ \A s \in Side : \A n \in DOMAIN sent[s] : sent[s][n] = "101" => plan \in {"h2c", "other"}

\* TypeOK component by component.
PeerTypes ==
    /\ plan \in Plans /\ manners \in Manners /\ tls \in Tls
    /\ sent \in [Side -> Seq(Kind)] /\ eof \in [Side -> BOOLEAN]
InputTypes ==
    /\ read \in [Side -> Nat] /\ readAs \in [Side -> Seq(Class)]
    /\ dead \in [Side -> BOOLEAN] /\ magic \in BOOLEAN
ServerTypes == up \in Class /\ upgrade \in BOOLEAN /\ tunnel \in BOOLEAN
ClientTypes ==
    /\ client \in {"none", "connecting", "connected", "refused"}
    /\ protocol \in {"http1", "both", "http2", "plane"}
    /\ down \in Class /\ switching \in {"", "h2c", "other"}
SlotTyped == slot \in [Side -> Message]
OutTypes == out \in [Side -> Seq(Written)] /\ recvwait \in BOOLEAN
QueueTyped == queue \in [Side -> Seq(Seq(Nat))]
LoopTypes ==
    /\ signalled \in [Side -> BOOLEAN]
    /\ handler \in Side \cup {"idle", "closed", "crashed"} /\ stopped \in BOOLEAN

LEMMA TypeParts ==
    TypeOK <=> /\ PeerTypes /\ InputTypes /\ ServerTypes /\ ClientTypes
               /\ SlotTyped /\ OutTypes /\ QueueTyped /\ LoopTypes
BY DEF TypeOK, PeerTypes, InputTypes, ServerTypes, ClientTypes, SlotTyped, OutTypes, QueueTyped,
       LoopTypes

\* What a step does not touch keeps its type.
LEMMA KeptTypes ==
    ASSUME TypeInv
    PROVE  /\ UNCHANGED peerVars => PeerTypes'
           /\ UNCHANGED inputVars => InputTypes'
           /\ UNCHANGED serverVars => ServerTypes'
           /\ UNCHANGED clientVars => ClientTypes'
           /\ UNCHANGED slot => SlotTyped'
           /\ UNCHANGED <<out, recvwait>> => OutTypes'
           /\ UNCHANGED queue => QueueTyped'
           /\ UNCHANGED <<signalled, handler, stopped>> => LoopTypes'
<1>1. /\ PeerTypes /\ InputTypes /\ ServerTypes /\ ClientTypes
      /\ SlotTyped /\ OutTypes /\ QueueTyped /\ LoopTypes
  BY TypeParts DEF TypeInv
<1>2. UNCHANGED peerVars => PeerTypes'
  BY <1>1 DEF PeerTypes, peerVars
<1>3. UNCHANGED inputVars => InputTypes'
  BY <1>1 DEF InputTypes, inputVars
<1>4. UNCHANGED serverVars => ServerTypes'
  BY <1>1 DEF ServerTypes, serverVars
<1>5. UNCHANGED clientVars => ClientTypes'
  BY <1>1 DEF ClientTypes, clientVars
<1>6. /\ UNCHANGED slot => SlotTyped'
      /\ UNCHANGED <<out, recvwait>> => OutTypes'
      /\ UNCHANGED queue => QueueTyped'
  BY <1>1 DEF SlotTyped, OutTypes, QueueTyped
<1>7. UNCHANGED <<signalled, handler, stopped>> => LoopTypes'
  BY <1>1 DEF LoopTypes
<1> QED
  BY <1>2, <1>3, <1>4, <1>5, <1>6, <1>7

LEMMA TypesTogether ==
    ASSUME PeerTypes', InputTypes', ServerTypes', ClientTypes',
           SlotTyped', OutTypes', QueueTyped', LoopTypes'
    PROVE  TypeOK'
BY DEF TypeOK, PeerTypes, InputTypes, ServerTypes, ClientTypes, SlotTyped, OutTypes, QueueTyped,
       LoopTypes

LEMMA ShortSeqs ==
    ASSUME NEW S, NEW e \in S PROVE <<e>> \in Seq(S) /\ <<>> \in Seq(S)
OBVIOUS

\* What TypeInv says of the pieces of one side.
LEMMA SideTypes ==
    ASSUME TypeInv, NEW s \in Side
    PROVE  /\ sent[s] \in Seq(Kind) /\ Len(sent[s]) \in Nat /\ DOMAIN sent[s] = 1..Len(sent[s])
           /\ read[s] \in Nat /\ read[s] <= Len(sent[s])
           /\ slot[s] \in Message /\ slot[s].units \in Seq(Nat)
           /\ queue[s] \in Seq(Seq(Nat)) /\ out[s] \in Seq(Written) /\ readAs[s] \in Seq(Class)
           /\ ClassOf(s) \in Class
           /\ Other(s) \in Side /\ Other(s) # s /\ Other(Other(s)) = s
<1>1. /\ sent[s] \in Seq(Kind) /\ read[s] \in Nat /\ read[s] <= Len(sent[s]) /\ slot[s] \in Message
      /\ queue[s] \in Seq(Seq(Nat)) /\ out[s] \in Seq(Written) /\ readAs[s] \in Seq(Class)
      /\ up \in Class /\ down \in Class
  BY DEF TypeInv, TypeOK
<1> QED
  BY <1>1 DEF Message, ClassOf, Other, Side

\* The unit a session takes.
LEMMA TakenUnit ==
    ASSUME TypeInv, NEW s \in Side, NEW class, Taking(s, class)
    PROVE  /\ read[s] + 1 \in DOMAIN sent[s] /\ NextUnit(s) \in Kind
           /\ NextUnit(s) = "101" => plan \in {"h2c", "other"}
<1>1. read[s] + 1 \in DOMAIN sent[s]
  BY SideTypes DEF Taking
<1>2. NextUnit(s) \in Kind
  BY <1>1, SideTypes DEF NextUnit
<1> QED
  BY <1>1, <1>2 DEF NextUnit, TypeInv

\* http_parser's callbacks leave a message.
LEMMA SlotTypes ==
    ASSUME TypeInv, NEW s \in Side, NEW m \in Message
    PROVE  /\ NoMessage \in Message
           /\ msg_begin(s) \in Message
           /\ msg_complete(s, m) \in Message
<1>1. slot[s] \in Message /\ slot[s].units \in Seq(Nat) /\ read[s] + 1 \in Nat
  BY SideTypes
<1>2. NoMessage \in Message
  BY DEF NoMessage, Message
<1>3. msg_begin(s) \in Message
  <2> DEFINE n == read[s] + 1
             c == s = "up" /\ plan = "connect" /\ First(n)
  <2>1. <<n>> \in Seq(Nat) /\ Append(slot[s].units, n) \in Seq(Nat) /\ c \in BOOLEAN
    BY <1>1
  <2>2. msg_begin(s) = IF slot[s] = NoMessage
                       THEN [units |-> <<n>>, h2 |-> FALSE, connect |-> c, stat |-> "HEADER"]
                       ELSE [slot[s] EXCEPT !.units = Append(@, n), !.connect = c]
    BY DEF msg_begin
  <2> DEFINE a == [slot[s] EXCEPT !.units = Append(@, n)]
             b == [a EXCEPT !.connect = c]
  <2> HIDE DEF n, c
  <2>3. a \in Message
    BY <1>1, <2>1 DEF Message
  <2> HIDE DEF a
  <2>4. b \in Message
    BY <2>1, <2>3 DEF Message
  <2>5. [units |-> <<n>>, h2 |-> FALSE, connect |-> c, stat |-> "HEADER"] \in Message
    BY <2>1 DEF Message
  <2> QED
    BY <2>2, <2>4, <2>5 DEF a
<1>4. msg_complete(s, m) \in Message
  <2> DEFINE n == read[s] + 1
             h == s = "up" /\ plan = "h2c" /\ First(n)
             us == IF n \in Range(m.units) THEN m.units ELSE Append(m.units, n)
  <2>1. m.units \in Seq(Nat) /\ m.h2 \in BOOLEAN
    BY DEF Message
  <2>2. us \in Seq(Nat) /\ (m.h2 \/ h) \in BOOLEAN
    BY <1>1, <2>1
  <2>3. msg_complete(s, m) = [m EXCEPT !.units = us, !.h2 = @ \/ h, !.stat = "COMPLETE"]
    BY DEF msg_complete
  <2> HIDE DEF us, h, n
  <2> QED
    BY <2>2, <2>3 DEF Message
<1> QED
  BY <1>2, <1>3, <1>4

\* What is written, and the queue as it is written.
LEMMA WrittenTypes ==
    ASSUME NEW q \in Seq(Seq(Nat)), NEW m \in Message
    PROVE  /\ Frames(q) \in Seq(Written) /\ Len(Frames(q)) = Len(q)
           /\ \A i \in DOMAIN q : Frames(q)[i] = [kind |-> "frame", of |-> q[i]]
           /\ Http1(m) \in Written
           /\ \A k \in {"101", "200", "goaway"} : Own(k) \in Written
           /\ \A n \in Nat : [kind |-> "raw", of |-> <<n>>] \in Written
<1>1. Frames(q) \in Seq(Written) /\ Len(Frames(q)) = Len(q)
  <2> DEFINE e(i) == [kind |-> "frame", of |-> q[i]]
  <2>1. Len(q) \in Nat /\ DOMAIN q = 1..Len(q)
    OBVIOUS
  <2>2. \A i \in 1..Len(q) : e(i) \in Written
    BY <2>1 DEF Written
  <2>3. Frames(q) = [i \in 1..Len(q) |-> e(i)]
    BY <2>1 DEF Frames
  <2> HIDE DEF e
  <2>4. [i \in 1..Len(q) |-> e(i)] \in Seq(Written)
    BY <2>1, <2>2, IsASeq
  <2>5. DOMAIN Frames(q) = 1..Len(q) /\ Frames(q) \in Seq(Written)
    BY <2>3, <2>4
  <2>6. Len(Frames(q)) \in Nat /\ DOMAIN Frames(q) = 1..Len(Frames(q))
    BY <2>5
  <2>7. Len(Frames(q)) = Len(q)
    BY <2>1, <2>5, <2>6
  <2> QED
    BY <2>5, <2>7
<1>2. \A i \in DOMAIN q : Frames(q)[i] = [kind |-> "frame", of |-> q[i]]
  BY DEF Frames
<1>3. Http1(m) \in Written
  BY DEF Http1, Message, Written
<1>4. \A k \in {"101", "200", "goaway"} : Own(k) \in Written
  <2>1. <<>> \in Seq(Nat)
    OBVIOUS
  <2> QED
    BY <2>1 DEF Own, Written
<1>5. \A n \in Nat : [kind |-> "raw", of |-> <<n>>] \in Written
  <2>1. \A n \in Nat : <<n>> \in Seq(Nat)
    OBVIOUS
  <2> QED
    BY <2>1 DEF Written
<1> QED
  BY <1>1, <1>2, <1>3, <1>4, <1>5

LEMMA InitTypeInv == Init => TypeInv
<1> SUFFICES ASSUME Init PROVE TypeInv
  OBVIOUS
<1>1. /\ \A s \in Side : sent[s] = <<>> /\ read[s] = 0
      /\ sent \in [Side -> Seq(Kind)] /\ read \in [Side -> Nat]
      /\ queue \in [Side -> Seq(Seq(Nat))] /\ out \in [Side -> Seq(Written)]
      /\ readAs \in [Side -> Seq(Class)]
  <2>1. <<>> \in Seq(Kind) /\ <<>> \in Seq(Seq(Nat)) /\ <<>> \in Seq(Written) /\ <<>> \in Seq(Class)
    OBVIOUS
  <2> QED
    BY <2>1 DEF Init
<1>2. NoMessage \in Message
  BY DEF NoMessage, Message
<1>3. TypeOK
  BY <1>1, <1>2, ConstantsAssumption DEF Init, TypeOK, Class, Side
<1> QED
  BY <1>1, <1>3 DEF TypeInv

-----------------------------------------------------------------------------
LEMMA WriteTypeInv ==
    ASSUME TypeInv, NEW s \in Side, NEW units \in Seq(Kind), Write(s, units),
           \A i \in DOMAIN units : units[i] = "101" => plan \in {"h2c", "other"}
    PROVE  TypeInv'
<1>1. /\ sent' = [sent EXCEPT ![s] = @ \o units]
      /\ signalled' = [signalled EXCEPT ![s] = TRUE]
      /\ UNCHANGED <<plan, manners, tls, eof, serverVars, inputVars, clientVars, recvwait, slot,
                     queue, out, handler, stopped>>
  BY DEF Write
<1>2. sent[s] \in Seq(Kind) /\ sent'[s] = sent[s] \o units
      /\ \A t \in Side : t # s => sent'[t] = sent[t]
  BY <1>1 DEF TypeInv, TypeOK
<1>3. /\ sent'[s] \in Seq(Kind) /\ Len(sent'[s]) = Len(sent[s]) + Len(units)
      /\ \A i \in 1..(Len(sent[s]) + Len(units)) :
            sent'[s][i] = IF i <= Len(sent[s]) THEN sent[s][i] ELSE units[i - Len(sent[s])]
  BY <1>2, ConcatProperties
<1>4. sent' \in [Side -> Seq(Kind)]
  BY <1>1, <1>2, <1>3 DEF TypeInv, TypeOK
<1>5. TypeOK'
  <2>1. PeerTypes'
    BY <1>1, <1>4 DEF TypeInv, TypeOK, PeerTypes
  <2>2. LoopTypes'
    BY <1>1 DEF TypeInv, TypeOK, LoopTypes
  <2>3. UNCHANGED <<serverVars, inputVars, clientVars, recvwait, slot, queue, out>>
    BY <1>1
  <2> QED
    BY <2>1, <2>2, <2>3, KeptTypes, TypesTogether
<1>6. ASSUME NEW t \in Side PROVE read'[t] <= Len(sent'[t])
  <2>1. /\ read'[t] = read[t] /\ read[t] \in Nat /\ Len(sent[t]) \in Nat
        /\ read[t] <= Len(sent[t]) /\ Len(units) \in Nat
    BY <1>1, SideTypes DEF inputVars
  <2> QED
    BY <1>2, <1>3, <2>1
<1>7. ASSUME NEW t \in Side, NEW n \in DOMAIN sent'[t], sent'[t][n] = "101"
      PROVE  plan' \in {"h2c", "other"}
  <2>1. CASE t = s
    <3>1. /\ Len(sent[s]) \in Nat /\ Len(units) \in Nat /\ DOMAIN units = 1..Len(units)
          /\ DOMAIN sent[s] = 1..Len(sent[s]) /\ n \in 1..(Len(sent[s]) + Len(units))
      BY <1>2, <1>3, <1>7, <2>1
    <3>2. CASE n <= Len(sent[s])
      BY <1>1, <1>3, <1>7, <2>1, <3>1, <3>2 DEF TypeInv
    <3>3. CASE ~(n <= Len(sent[s]))
      <4>1. n - Len(sent[s]) \in DOMAIN units
        BY <3>1, <3>3
      <4> QED
        BY <1>1, <1>3, <1>7, <2>1, <3>1, <3>3, <4>1
    <3> QED
      BY <3>2, <3>3
  <2>2. CASE t # s
    BY <1>1, <1>2, <1>7, <2>2 DEF TypeInv
  <2> QED
    BY <2>1, <2>2
<1> QED
  BY <1>5, <1>6, <1>7 DEF TypeInv

\* What the peers write, and when.
LEMMA PeerWrites ==
    ASSUME App \/ Origin
    PROVE  \E s \in Side, units \in Seq(Kind) :
             /\ Write(s, units)
             /\ \A i \in DOMAIN units : units[i] = "101" => plan \in {"h2c", "other"}
<1>1. \A k \in Kind : <<k>> \in Seq(Kind) /\ \A i \in DOMAIN <<k>> : <<k>>[i] = k
  OBVIOUS
<1>2. /\ <<"begin", "rest">> \in Seq(Kind)
      /\ \A i \in DOMAIN <<"begin", "rest">> : <<"begin", "rest">>[i] # "101"
  BY DEF Kind
<1>3. "up" \in Side /\ "down" \in Side
  BY DEF Side
<1>4. ASSUME NEW s \in Side, NEW k \in Kind, Write(s, <<k>>),
             k = "101" => plan \in {"h2c", "other"}
      PROVE  \E t \in Side, units \in Seq(Kind) :
               /\ Write(t, units)
               /\ \A i \in DOMAIN units : units[i] = "101" => plan \in {"h2c", "other"}
  BY <1>1, <1>4
<1>5. CASE AppRequest
  <2>1. Write("up", <<"begin", "rest">>) \/ Write("up", <<"begin">>)
    BY <1>5 DEF AppRequest
  <2> QED
    BY <1>2, <1>3, <1>4, <2>1 DEF Kind
<1>6. CASE App /\ ~AppRequest
  <2>1. \E k \in Kind \ {"101"} : Write("up", <<k>>)
    BY <1>6 DEF App, AppRest, AppPreface, AppSettings, AppFrame, AppRaw, Kind
  <2> QED
    BY <1>3, <1>4, <2>1
<1>7. CASE Origin
  <2>1. \E k \in Kind : Write("down", <<k>>) /\ (k = "101" => plan \in {"h2c", "other"})
    BY <1>7 DEF Origin, OriginInterim, OriginBegin, OriginRest, OriginSwitch, OriginSettings,
                OriginFrame, OriginRaw, Kind
  <2> QED
    BY <1>3, <1>4, <2>1
<1> QED
  BY <1>5, <1>6, <1>7

LEMMA PeersTypeInv == ASSUME TypeInv, Peers PROVE TypeInv'
<1>1. CASE App \/ Origin
  BY <1>1, PeerWrites, WriteTypeInv
<1>2. ASSUME NEW s \in Side, PeerClose(s) PROVE TypeInv'
  BY <1>2, ZenonT(60) DEF PeerClose, TypeInv, TypeOK, serverVars, inputVars, clientVars
<1> QED
  BY <1>1, <1>2 DEF Peers

LEMMA TakeTypes ==
    ASSUME TypeInv, NEW s \in Side, NEW class, Taking(s, class), Take(s)
    PROVE  /\ read' \in [Side -> Nat] /\ readAs' \in [Side -> Seq(Class)]
           /\ \A t \in Side : read'[t] <= Len(sent[t])
<1>1. read[s] \in Nat /\ Len(sent[s]) \in Nat /\ read[s] < Len(sent[s]) /\ ClassOf(s) \in Class
  BY SideTypes DEF Taking
<1>2. readAs[s] \in Seq(Class) /\ Append(readAs[s], ClassOf(s)) \in Seq(Class)
  BY <1>1, SideTypes
<1>3. read \in [Side -> Nat] /\ readAs \in [Side -> Seq(Class)]
      /\ \A t \in Side : read[t] <= Len(sent[t])
  BY DEF TypeInv, TypeOK
<1>4. /\ read' = [read EXCEPT ![s] = read[s] + 1]
      /\ readAs' = [readAs EXCEPT ![s] = Append(readAs[s], ClassOf(s))]
  BY DEF Take
<1>5. read' \in [Side -> Nat] /\ readAs' \in [Side -> Seq(Class)]
  BY <1>1, <1>2, <1>3, <1>4
<1>6. \A t \in Side : read'[t] <= Len(sent[t])
  BY <1>1, <1>3, <1>4
<1> QED
  BY <1>5, <1>6

\* A step that leaves what the peers write alone, as every callback does.
LEMMA CallbackTypes ==
    ASSUME TypeInv, UNCHANGED peerVars,
           InputTypes', \A t \in Side : read'[t] <= Len(sent[t]),
           ServerTypes', ClientTypes', SlotTyped', OutTypes', QueueTyped', LoopTypes'
    PROVE  TypeInv'
<1>1. TypeOK'
  BY KeptTypes, TypesTogether
<1> QED
  BY <1>1 DEF TypeInv, peerVars

\* One that takes no input.
LEMMA EndTypes ==
    ASSUME TypeInv, UNCHANGED <<peerVars, inputVars>>,
           ServerTypes', ClientTypes', SlotTyped', OutTypes', QueueTyped', LoopTypes'
    PROVE  TypeInv'
<1>1. InputTypes' /\ \A t \in Side : read'[t] <= Len(sent[t])
  BY KeptTypes DEF TypeInv, inputVars
<1> QED
  BY <1>1, CallbackTypes

\* The unit a session takes, or more than one.
LEMMA TakeInputTypes ==
    ASSUME TypeInv, NEW s \in Side, NEW class, Taking(s, class), Take(s),
           dead' \in [Side -> BOOLEAN], UNCHANGED magic
    PROVE  InputTypes' /\ \A t \in Side : read'[t] <= Len(sent[t])
BY TakeTypes DEF InputTypes, TypeInv, TypeOK

LEMMA SlotStep ==
    ASSUME TypeInv, NEW s \in Side, NEW m \in Message, slot' = [slot EXCEPT ![s] = m]
    PROVE  SlotTyped'
BY DEF TypeInv, TypeOK, SlotTyped

LEMMA LoopStep ==
    ASSUME TypeInv, UNCHANGED signalled, stopped' \in BOOLEAN,
           handler' \in Side \cup {"idle", "closed", "crashed"}
    PROVE  LoopTypes'
BY DEF TypeInv, TypeOK, LoopTypes

LEMMA HandlerTypes ==
    ASSUME TypeInv
    PROVE  /\ handler \in Side \cup {"idle", "closed", "crashed"} /\ stopped \in BOOLEAN
           /\ dead \in [Side -> BOOLEAN] /\ slot \in [Side -> Message] /\ switching \in {"", "h2c", "other"}
BY DEF TypeInv, TypeOK

LEMMA ParseTypeInv ==
    ASSUME TypeInv, NEW s \in Side,
           ParseBegin(s) \/ ParseRest(s) \/ ParseShort(s) \/ ParseError(s)
    PROVE  TypeInv'
<1>1. slot[s] \in Message /\ msg_begin(s) \in Message /\ msg_complete(s, slot[s]) \in Message
  BY SideTypes, SlotTypes
<1>2. msg_complete(s, msg_begin(s)) \in Message
  BY <1>1, SlotTypes
<1>3. CASE ParseBegin(s)
  <2>1. /\ Taking(s, "http1") /\ Take(s) /\ slot' = [slot EXCEPT ![s] = msg_begin(s)]
        /\ UNCHANGED <<peerVars, signalled, serverVars, clientVars, recvwait, queue, out,
                       dead, magic, handler, stopped>>
    BY <1>3 DEF ParseBegin
  <2>2. InputTypes' /\ \A t \in Side : read'[t] <= Len(sent[t])
    BY <2>1, TakeInputTypes, HandlerTypes
  <2>3. SlotTyped'
    BY <1>1, <2>1, SlotStep
  <2> QED
    BY <2>1, <2>2, <2>3, KeptTypes, CallbackTypes
<1>4. CASE ParseRest(s)
  <2>1. /\ Taking(s, "http1") /\ Take(s) /\ slot' = [slot EXCEPT ![s] = msg_complete(s, slot[s])]
        /\ stopped' \in BOOLEAN
        /\ UNCHANGED <<peerVars, signalled, serverVars, clientVars, recvwait, queue, out,
                       dead, magic, handler>>
    BY <1>4 DEF ParseRest
  <2>2. InputTypes' /\ \A t \in Side : read'[t] <= Len(sent[t])
    BY <2>1, TakeInputTypes, HandlerTypes
  <2>3. SlotTyped'
    BY <1>1, <2>1, SlotStep
  <2>4. LoopTypes'
    BY <2>1, LoopStep, HandlerTypes
  <2> QED
    BY <2>1, <2>2, <2>3, <2>4, KeptTypes, CallbackTypes
<1>5. CASE ParseShort(s)
  <2>1. /\ Taking(s, "http1") /\ Take(s)
        /\ slot' = [slot EXCEPT ![s] = msg_complete(s, msg_begin(s))]
        /\ IF NextUnit(s) = "101" THEN switching' = plan /\ stopped' = TRUE
                                  ELSE UNCHANGED <<switching, stopped>>
        /\ UNCHANGED <<peerVars, signalled, serverVars, client, protocol, down, recvwait,
                       queue, out, dead, magic, handler>>
    BY <1>5 DEF ParseShort
  <2>2. InputTypes' /\ \A t \in Side : read'[t] <= Len(sent[t])
    BY <2>1, TakeInputTypes, HandlerTypes
  <2>3. SlotTyped'
    BY <1>2, <2>1, SlotStep
  <2>4. switching' \in {"", "h2c", "other"} /\ stopped' \in BOOLEAN
    BY <2>1, TakenUnit, HandlerTypes
  <2>5. ClientTypes'
    BY <2>1, <2>4 DEF ClientTypes, TypeInv, TypeOK
  <2>6. LoopTypes'
    BY <2>1, <2>4, LoopStep, HandlerTypes
  <2> QED
    BY <2>1, <2>2, <2>3, <2>5, <2>6, KeptTypes, CallbackTypes
<1>6. CASE ParseError(s)
  <2>1. /\ Taking(s, "http1")
        /\ dead' = [dead EXCEPT ![s] = TRUE] /\ stopped' = TRUE
        /\ UNCHANGED <<peerVars, signalled, serverVars, clientVars, recvwait, queue, out,
                       magic, handler>>
        /\ \/ UNCHANGED <<slot, read, readAs>>
           \/ (UNCHANGED slot \/ slot' = [slot EXCEPT ![s] = msg_begin(s)]) /\ Take(s)
    BY <1>6, HandlerTypes DEF ParseError
  <2>2. SlotTyped'
    BY <1>1, <2>1, SlotStep, KeptTypes
  <2>3. dead' \in [Side -> BOOLEAN]
    BY <2>1, HandlerTypes
  <2>4. InputTypes' /\ \A t \in Side : read'[t] <= Len(sent[t])
    <3>1. CASE UNCHANGED <<slot, read, readAs>>
      BY <2>1, <2>3, <3>1 DEF InputTypes, TypeInv, TypeOK
    <3>2. CASE Take(s)
      BY <2>1, <2>3, <3>2, TakeInputTypes
    <3> QED
      BY <2>1, <3>1, <3>2
  <2>5. LoopTypes'
    BY <2>1, LoopStep, HandlerTypes
  <2> QED
    BY <2>1, <2>2, <2>4, <2>5, KeptTypes, CallbackTypes
<1> QED
  BY <1>3, <1>4, <1>5, <1>6

LEMMA OutStep ==
    ASSUME TypeInv, NEW s \in Side, NEW units \in Seq(Written), write(s, units)
    PROVE  OutTypes'
<1>1. out[s] \in Seq(Written) /\ out[s] \o units \in Seq(Written)
  BY SideTypes
<1>2. out' = [out EXCEPT ![s] = out[s] \o units] /\ recvwait' \in BOOLEAN
  BY DEF write
<1> QED
  BY <1>1, <1>2 DEF TypeInv, TypeOK, OutTypes

LEMMA SideNames == "up" \in Side /\ "down" \in Side /\ NoMessage \in Message /\ NoMessage.units = <<>>
BY DEF Side, NoMessage, Message

LEMMA FlushTypes ==
    ASSUME TypeInv
    PROVE  /\ \A s \in Side : FlushQueue(s) => OutTypes' /\ QueueTyped'
           /\ \A m \in Message : FlushRequest(m) => OutTypes' /\ SlotTyped'
<1>1. ASSUME NEW s \in Side, FlushQueue(s) PROVE OutTypes' /\ QueueTyped'
  <2> DEFINE written == IF s = "down" \/ client' = "connected" THEN QueueFlush(queue[s], s) ELSE <<>>
  <2>1. written \in Seq(Written)
    BY SideTypes, WrittenTypes DEF QueueFlush
  <2>2. IF written = <<>> THEN UNCHANGED <<out, queue, recvwait>>
        ELSE write(Other(s), written) /\ queue' = [queue EXCEPT ![s] = <<>>]
    BY <1>1 DEF FlushQueue
  <2> HIDE DEF written
  <2>3. CASE written = <<>>
    BY <2>2, <2>3, KeptTypes
  <2>4. CASE written # <<>>
    <3>1. OutTypes'
      BY <2>1, <2>2, <2>4, OutStep, SideTypes
    <3>2. <<>> \in Seq(Seq(Nat)) /\ queue' = [queue EXCEPT ![s] = <<>>]
      BY <2>2, <2>4
    <3> QED
      BY <3>1, <3>2 DEF TypeInv, TypeOK, QueueTyped
  <2> QED
    BY <2>3, <2>4
<1>2. ASSUME NEW m \in Message, FlushRequest(m) PROVE OutTypes' /\ SlotTyped'
  <2>1. CASE UNCHANGED <<out, slot, recvwait>>
    BY <2>1, KeptTypes
  <2>2. CASE write("down", <<Http1(m)>>) /\ slot' = [slot EXCEPT !["up"] = NoMessage]
    <3>1. Http1(m) \in Written
      BY DEF Http1, Message, Written
    <3>2. <<Http1(m)>> \in Seq(Written)
      BY <3>1
    <3> QED
      BY <2>2, <3>2, SideNames, OutStep, SlotStep
  <2> QED
    BY <1>2, <2>1, <2>2 DEF FlushRequest
<1> QED
  BY <1>1, <1>2

LEMMA ReadcbTypeInv == ASSUME TypeInv, readcb \/ on_read PROVE TypeInv'
<1>1. ASSUME readcb PROVE TypeInv'
  <2>1. /\ UNCHANGED <<peerVars, inputVars, tunnel, clientVars, recvwait, queue, out>>
        /\ signalled' = [signalled EXCEPT !["up"] = FALSE]
        /\ handler' = "up" /\ stopped' = FALSE
        /\ \/ /\ upgrade' = TRUE /\ up' = "http2"
              /\ slot' = [slot EXCEPT !["up"] = IF up = "http2" THEN @ ELSE NoMessage]
           \/ UNCHANGED <<upgrade, up, slot>>
    BY <1>1 DEF readcb
  <2>2. ServerTypes'
    BY <2>1 DEF TypeInv, TypeOK, ServerTypes, Class
  <2>3. SlotTyped'
    <3>1. slot["up"] \in Message
      BY SideTypes, SideNames
    <3> QED
      BY <2>1, <3>1, SideNames, SlotStep, KeptTypes
  <2>4. LoopTypes'
    BY <2>1, SideNames DEF TypeInv, TypeOK, LoopTypes
  <2> QED
    BY <2>1, <2>2, <2>3, <2>4, KeptTypes, EndTypes
<1>2. ASSUME on_read PROVE TypeInv'
  <2>1. /\ UNCHANGED <<peerVars, inputVars, serverVars, clientVars, recvwait, slot, queue, out>>
        /\ signalled' = [signalled EXCEPT !["down"] = FALSE]
        /\ \/ handler' = "down" /\ stopped' = FALSE
           \/ UNCHANGED <<handler, stopped>>
    BY <1>2 DEF on_read
  <2>2. LoopTypes'
    BY <2>1, SideNames DEF TypeInv, TypeOK, LoopTypes
  <2> QED
    BY <2>1, <2>2, KeptTypes, EndTypes
<1> QED
  BY <1>1, <1>2

\* How much of the preface is there: nothing, the whole, or both fragments.
LEMMA PrefaceTaken ==
    ASSUME TypeInv, TakePreface
    PROVE  \E k \in {0, 1, 2} :
             /\ read["up"] + k <= Len(sent["up"])
             /\ k = 1 => sent["up"][read["up"] + 1] = "preface"
             /\ k = 2 => sent["up"][read["up"] + 1] = "preface1" /\ sent["up"][read["up"] + 2] = "preface2"
             /\ magic' = (k > 0) /\ stopped' = (k = 0)
             /\ read' = [read EXCEPT !["up"] = @ + k]
             /\ readAs' = [readAs EXCEPT !["up"] = @ \o [i \in 1..k |-> "http2"]]
<1> DEFINE rest == SubSeq(sent["up"], read["up"] + 1, Len(sent["up"]))
           k == IF rest[1] = "preface" THEN 1
                ELSE IF IsPrefix(<<"preface1", "preface2">>, rest) THEN 2 ELSE 0
<1>1. /\ sent["up"] \in Seq(Kind) /\ read["up"] \in Nat /\ Len(sent["up"]) \in Nat
      /\ read["up"] < Len(sent["up"])
  BY SideTypes, SideNames DEF TakePreface, Taking
<1>2. /\ rest \in Seq(Kind) /\ Len(rest) = Len(sent["up"]) - read["up"]
      /\ \A i \in 1..Len(rest) : rest[i] = sent["up"][read["up"] + i]
  <2> DEFINE r == read["up"]
             u == sent["up"]
  <2>1. u \in Seq(Kind) /\ r \in Nat /\ Len(u) \in Nat /\ r < Len(u)
    BY <1>1
  <2> HIDE DEF r, u
  <2>2. /\ SubSeq(u, r + 1, Len(u)) \in Seq(Kind) /\ Len(SubSeq(u, r + 1, Len(u))) = Len(u) - r
        /\ \A i \in 1..(Len(u) - r) : SubSeq(u, r + 1, Len(u))[i] = u[r + i]
    BY <2>1
  <2> QED
    BY <2>2 DEF r, u
<1>3. k \in {0, 1, 2}
  OBVIOUS
<1>4. k = 1 => rest[1] = "preface"
  <2> HIDE DEF rest
  <2>1. CASE rest[1] = "preface"
    BY <2>1
  <2>2. CASE rest[1] # "preface"
    <3>1. k = 0 \/ k = 2
      BY <2>2
    <3> HIDE DEF k
    <3> QED
      BY <3>1
  <2> QED
    BY <2>1, <2>2
<1>5. k = 2 => Len(rest) >= 2 /\ rest[1] = "preface1" /\ rest[2] = "preface2"
  <2> SUFFICES ASSUME k = 2 PROVE Len(rest) >= 2 /\ rest[1] = "preface1" /\ rest[2] = "preface2"
    OBVIOUS
  <2> HIDE DEF rest
  <2>1. IsPrefix(<<"preface1", "preface2">>, rest)
    OBVIOUS
  <2>2. /\ 2 <= Len(rest) /\ SubSeq(<<"preface1", "preface2">>, 1, 2) = SubSeq(rest, 1, 2)
    BY <2>1 DEF IsPrefix
  <2>3. SubSeq(rest, 1, 2)[1] = rest[1] /\ SubSeq(rest, 1, 2)[2] = rest[2]
    BY <1>2, <2>2
  <2>4. /\ SubSeq(<<"preface1", "preface2">>, 1, 2)[1] = "preface1"
        /\ SubSeq(<<"preface1", "preface2">>, 1, 2)[2] = "preface2"
    OBVIOUS
  <2> QED
    BY <2>2, <2>3, <2>4
<1>6. /\ magic' = (k > 0) /\ stopped' = (k = 0)
      /\ read' = [read EXCEPT !["up"] = @ + k]
      /\ readAs' = [readAs EXCEPT !["up"] = @ \o [i \in 1..k |-> "http2"]]
  BY DEF TakePreface
<1> HIDE DEF k
<1>7. /\ read["up"] + k <= Len(sent["up"])
      /\ k = 1 => sent["up"][read["up"] + 1] = "preface"
      /\ k = 2 => sent["up"][read["up"] + 1] = "preface1" /\ sent["up"][read["up"] + 2] = "preface2"
  <2>1. Len(rest) \in Nat /\ Len(rest) >= 1
    BY <1>1, <1>2
  <2> HIDE DEF rest
  <2> QED
    BY <1>1, <1>2, <1>3, <1>4, <1>5, <2>1
<1> QED
  BY <1>3, <1>6, <1>7

LEMMA TakeHttp2TypeInv == ASSUME TypeInv, NEW s \in Side, TakePreface \/ TakeFrame(s) PROVE TypeInv'
<1>1. ASSUME TakePreface PROVE TypeInv'
  <2>1. PICK k \in {0, 1, 2} :
             /\ read["up"] + k <= Len(sent["up"])
             /\ magic' = (k > 0) /\ stopped' = (k = 0)
             /\ read' = [read EXCEPT !["up"] = @ + k]
             /\ readAs' = [readAs EXCEPT !["up"] = @ \o [i \in 1..k |-> "http2"]]
    BY <1>1, PrefaceTaken
  <2>2. UNCHANGED <<peerVars, signalled, serverVars, clientVars, recvwait, slot, dead, queue,
                    out, handler>>
    BY <1>1 DEF TakePreface
  <2>3. \A t \in Side : read'[t] <= Len(sent[t]) /\ read'[t] \in Nat
    <3>1. \A t \in Side : read[t] \in Nat /\ Len(sent[t]) \in Nat /\ read[t] <= Len(sent[t])
      BY SideTypes
    <3>2. read \in [Side -> Nat]
      BY DEF TypeInv, TypeOK
    <3> QED
      BY <2>1, <3>1, <3>2
  <2>4. readAs' \in [Side -> Seq(Class)]
    <3>1. [i \in 1..k |-> "http2"] \in Seq(Class)
      <4> DEFINE e(i) == "http2"
      <4>1. k \in Nat /\ \A i \in 1..k : e(i) \in Class
        BY <2>1 DEF Class
      <4> HIDE DEF e
      <4>2. [i \in 1..k |-> e(i)] \in Seq(Class)
        BY <4>1, IsASeq
      <4> QED
        BY <4>2 DEF e
    <3> DEFINE w == [i \in 1..k |-> "http2"]
    <3>2. w \in Seq(Class) /\ readAs' = [readAs EXCEPT !["up"] = readAs["up"] \o w]
      BY <2>1, <3>1
    <3> HIDE DEF w
    <3>3. readAs["up"] \o w \in Seq(Class)
      BY <3>2, SideTypes, SideNames
    <3> QED
      BY <3>2, <3>3 DEF TypeInv, TypeOK
  <2>5. InputTypes'
    <3>1. read' \in [Side -> Nat]
      <4>1. read \in [Side -> Nat]
        BY DEF TypeInv, TypeOK
      <4>2. DOMAIN read' = Side /\ read' = [t \in Side |-> read'[t]]
        BY <2>1, <4>1
      <4> QED
        BY <2>3, <4>2
    <3>2. magic' \in BOOLEAN
      BY <2>1
    <3>3. dead' \in [Side -> BOOLEAN]
      BY <2>2, HandlerTypes
    <3> QED
      BY <2>4, <3>1, <3>2, <3>3 DEF InputTypes
  <2>6. LoopTypes'
    BY <2>1, <2>2, LoopStep, HandlerTypes
  <2> QED
    BY <2>2, <2>3, <2>5, <2>6, KeptTypes, CallbackTypes
<1>2. ASSUME TakeFrame(s) PROVE TypeInv'
  <2> DEFINE f == <<read[s] + 1>>
             q == IF NextUnit(s) = "settings" THEN <<f>> \o queue[s] ELSE Append(queue[s], f)
  <2>1. /\ Taking(s, "http2") /\ Take(s)
        /\ queue' = [queue EXCEPT ![s] = q]
        /\ UNCHANGED <<peerVars, signalled, serverVars, clientVars, recvwait, slot, dead, magic,
                       out, handler, stopped>>
    BY <1>2 DEF TakeFrame
  <2>2. q \in Seq(Seq(Nat))
    <3>1. f \in Seq(Nat) /\ queue[s] \in Seq(Seq(Nat))
      BY SideTypes
    <3> HIDE DEF f
    <3>2. <<f>> \in Seq(Seq(Nat))
      BY <3>1
    <3> QED
      BY <3>1, <3>2
  <2> HIDE DEF q
  <2>3. QueueTyped'
    BY <2>1, <2>2 DEF TypeInv, TypeOK, QueueTyped
  <2>4. InputTypes' /\ \A t \in Side : read'[t] <= Len(sent[t])
    BY <2>1, TakeInputTypes, HandlerTypes
  <2> QED
    BY <2>1, <2>3, <2>4, KeptTypes, CallbackTypes
<1> QED
  BY <1>1, <1>2

LEMMA CopyTypeInv == ASSUME TypeInv, NEW s \in Side, CopyBytes(s) PROVE TypeInv'
<1>1. /\ Taking(s, "plane") /\ Take(s)
      /\ write(Other(s), <<[kind |-> "raw", of |-> <<read[s] + 1>>]>>)
      /\ UNCHANGED <<peerVars, signalled, serverVars, clientVars, slot, dead, magic, queue,
                     handler, stopped>>
  BY DEF CopyBytes
<1>2. OutTypes'
  <2>1. [kind |-> "raw", of |-> <<read[s] + 1>>] \in Written /\ Other(s) \in Side
    <3>1. read[s] + 1 \in Nat /\ <<>> \in Seq(Seq(Nat)) /\ Other(s) \in Side
      BY SideTypes
    <3> QED
      BY <3>1, SideNames, WrittenTypes
  <2>2. <<[kind |-> "raw", of |-> <<read[s] + 1>>]>> \in Seq(Written)
    BY <2>1
  <2> QED
    BY <1>1, <2>1, <2>2, OutStep
<1>3. InputTypes' /\ \A t \in Side : read'[t] <= Len(sent[t])
  BY <1>1, TakeInputTypes, HandlerTypes
<1> QED
  BY <1>1, <1>2, <1>3, KeptTypes, CallbackTypes

\* The end of a callback of an up session.
LEMMA UpEndTypes ==
    ASSUME TypeInv, UNCHANGED <<peerVars, inputVars, signalled, serverVars, switching, stopped>>,
           handler' = "idle", NEW asked \in {"none", "http1", "both", "http2", "plane"},
           InitClient(asked), SlotTyped', OutTypes', QueueTyped'
    PROVE  TypeInv'
<1>1. ClientTypes'
  <2>1. ClientTypes
    BY TypeParts DEF TypeInv
  <2> QED
    BY <2>1 DEF ClientTypes, InitClient, Class
<1>2. LoopTypes'
  BY LoopStep, HandlerTypes
<1> QED
  BY <1>1, <1>2, KeptTypes, EndTypes

LEMMA UpDoneTypeInv == ASSUME TypeInv, UpHttpDone \/ UpHttp2Done \/ UpPlaneDone PROVE TypeInv'
<1>1. ASSUME UpHttpDone PROVE TypeInv'
  <2> DEFINE m == slot["up"]
             asks == m # NoMessage /\ sent["up"][m.units[1]] = "begin"
             asked == CASE ~asks -> "none"
                        [] asks /\ m.h2 -> "both"
                        [] asks /\ ~m.h2 /\ m.connect -> "plane"
                        [] asks /\ ~m.h2 /\ ~m.connect -> "http1"
  <2>1. /\ InitClient(asked) /\ FlushRequest(m) /\ handler' = "idle"
        /\ UNCHANGED <<peerVars, inputVars, signalled, serverVars, switching, queue, stopped>>
    BY <1>1 DEF UpHttpDone
  <2>2. m \in Message
    BY SideTypes, SideNames
  <2>3. asked \in {"none", "http1", "both", "http2", "plane"}
    <3> HIDE DEF m, asks
    <3>1. CASE ~asks
      BY <3>1
    <3>2. CASE asks /\ m.h2
      BY <3>2
    <3>3. CASE asks /\ ~m.h2 /\ m.connect
      BY <3>3
    <3>4. CASE asks /\ ~m.h2 /\ ~m.connect
      BY <3>4
    <3> QED
      BY <3>1, <3>2, <3>3, <3>4
  <2> HIDE DEF m, asks, asked
  <2>4. OutTypes' /\ SlotTyped'
    BY <2>1, <2>2, FlushTypes
  <2> QED
    BY <2>1, <2>3, <2>4, KeptTypes, UpEndTypes
<1>2. ASSUME UpHttp2Done PROVE TypeInv'
  <2> DEFINE asked == IF \E q \in Range(queue["up"]) : sent["up"][q[1]] = "frame"
                      THEN "http2" ELSE "none"
  <2>1. /\ InitClient(asked) /\ FlushQueue("up") /\ handler' = "idle"
        /\ UNCHANGED <<peerVars, inputVars, signalled, serverVars, switching, slot, stopped>>
    BY <1>2 DEF UpHttp2Done
  <2>2. asked \in {"none", "http1", "both", "http2", "plane"}
    OBVIOUS
  <2> HIDE DEF asked
  <2>3. OutTypes' /\ QueueTyped'
    BY <2>1, FlushTypes, SideNames
  <2> QED
    BY <2>1, <2>2, <2>3, KeptTypes, UpEndTypes
<1>3. ASSUME UpPlaneDone PROVE TypeInv'
  <2>1. /\ handler' = "idle"
        /\ UNCHANGED <<peerVars, inputVars, signalled, serverVars, clientVars, recvwait, slot,
                       queue, out, stopped>>
    BY <1>3 DEF UpPlaneDone
  <2>2. LoopTypes'
    BY <2>1, LoopStep, HandlerTypes
  <2> QED
    BY <2>1, <2>2, KeptTypes, EndTypes
<1> QED
  BY <1>1, <1>2, <1>3

\* DownHttpDone, case by case.
LEMMA DownHttpSteps ==
    ASSUME TypeInv, DownHttpDone
    PROVE  /\ ReadEnds("down") /\ down = "http1"
           /\ UNCHANGED <<peerVars, inputVars, signalled, upgrade, tunnel, client, protocol, queue,
                          stopped>>
           /\ \/ /\ slot["down"] = NoMessage /\ handler' = "crashed"
                 /\ UNCHANGED <<out, slot, up, down, switching, recvwait>>
              \/ /\ slot["down"] # NoMessage /\ handler' = "idle"
                 /\ \/ slot["down"].stat # "COMPLETE" /\ UNCHANGED out
                    \/ /\ slot["down"].stat = "COMPLETE"
                       /\ out' = [out EXCEPT !["up"] = Append(@, Http1(slot["down"]))]
                 /\ \/ switching # "" /\ SwitchSessions
                    \/ /\ switching = "" /\ UNCHANGED <<down, up, switching, recvwait>>
                       /\ \/ slot["down"].stat # "COMPLETE" /\ UNCHANGED slot
                          \/ /\ slot["down"].stat = "COMPLETE"
                             /\ slot' = [slot EXCEPT !["down"] = NoMessage]
<1> DEFINE m == slot["down"]
<1>1. CASE m = NoMessage
  BY <1>1 DEF DownHttpDone
<1>2. CASE m # NoMessage /\ m.stat = "COMPLETE"
  BY <1>2 DEF DownHttpDone
<1>3. CASE m # NoMessage /\ m.stat # "COMPLETE"
  <2>1. [slot EXCEPT !["down"] = slot["down"]] = slot
    BY DEF TypeInv, TypeOK
  <2> QED
    BY <1>3, <2>1 DEF DownHttpDone
<1> QED
  BY <1>1, <1>2, <1>3

LEMMA DownDoneTypeInv == ASSUME TypeInv, DownHttpDone \/ DownHttp2Done \/ DownPlaneDone PROVE TypeInv'
<1>1. ASSUME DownHttpDone PROVE TypeInv'
  <2>1. /\ UNCHANGED <<peerVars, inputVars, signalled, upgrade, tunnel, client, protocol, queue,
                       stopped>>
        /\ handler' \in {"idle", "crashed"}
        /\ UNCHANGED out \/ out' = [out EXCEPT !["up"] = Append(@, Http1(slot["down"]))]
        /\ \/ SwitchSessions
           \/ /\ UNCHANGED <<down, up, switching, recvwait>>
              /\ UNCHANGED slot \/ slot' = [slot EXCEPT !["down"] = NoMessage]
    BY <1>1, DownHttpSteps
  <2>2. SwitchedClass \in Class
    BY DEF SwitchedClass, Class
  <2>3. LoopTypes'
    BY <2>1, LoopStep, HandlerTypes
  <2>4. OutTypes'
    <3>1. slot["down"] \in Message /\ out["up"] \in Seq(Written)
      BY SideTypes, SideNames
    <3>2. Http1(slot["down"]) \in Written
      BY <3>1 DEF Http1, Message, Written
    <3>3. Append(out["up"], Http1(slot["down"])) \in Seq(Written)
      BY <3>1, <3>2
    <3>4. out \in [Side -> Seq(Written)] /\ recvwait \in BOOLEAN
      BY DEF TypeInv, TypeOK
    <3>5. out' \in [Side -> Seq(Written)]
      BY <2>1, <3>3, <3>4
    <3>6. recvwait' \in BOOLEAN
      BY <2>1, <3>4 DEF SwitchSessions
    <3> QED
      BY <3>5, <3>6 DEF OutTypes
  <2>5. SlotTyped'
    <3>1. CASE SwitchSessions
      BY <3>1, SideNames DEF SwitchSessions, SlotTyped
    <3>2. CASE UNCHANGED slot
      BY <3>2, KeptTypes
    <3>3. CASE slot' = [slot EXCEPT !["down"] = NoMessage]
      BY <3>3, SideNames, SlotStep
    <3> QED
      BY <2>1, <3>1, <3>2, <3>3
  <2>6. ServerTypes' /\ ClientTypes'
    <3>1. ServerTypes /\ ClientTypes
      BY TypeParts DEF TypeInv
    <3>2. CASE SwitchSessions
      BY <2>1, <2>2, <3>1, <3>2 DEF SwitchSessions, ServerTypes, ClientTypes
    <3>3. CASE UNCHANGED <<down, up, switching, recvwait>>
      BY <2>1, <3>1, <3>3 DEF ServerTypes, ClientTypes
    <3> QED
      BY <2>1, <3>2, <3>3
  <2> QED
    BY <2>1, <2>3, <2>4, <2>5, <2>6, KeptTypes, EndTypes
<1>2. ASSUME DownHttp2Done PROVE TypeInv'
  <2>1. /\ FlushQueue("down") /\ handler' = "idle"
        /\ UNCHANGED <<peerVars, inputVars, signalled, serverVars, clientVars, slot, stopped>>
    BY <1>2 DEF DownHttp2Done
  <2>2. OutTypes' /\ QueueTyped'
    BY <2>1, FlushTypes, SideNames
  <2>3. LoopTypes'
    BY <2>1, LoopStep, HandlerTypes
  <2> QED
    BY <2>1, <2>2, <2>3, KeptTypes, EndTypes
<1>3. ASSUME DownPlaneDone PROVE TypeInv'
  <2>1. /\ handler' = "idle"
        /\ UNCHANGED <<peerVars, inputVars, signalled, serverVars, clientVars, recvwait, slot,
                       queue, out, stopped>>
    BY <1>3 DEF DownPlaneDone
  <2>2. LoopTypes'
    BY <2>1, LoopStep, HandlerTypes
  <2> QED
    BY <2>1, <2>2, KeptTypes, EndTypes
<1> QED
  BY <1>1, <1>2, <1>3

\* The ways an attempt to connect ends, case by case.
LEMMA ConnectedH2Steps ==
    ASSUME ConnectedH2
    PROVE  /\ Connecting /\ tls /\ protocol \in {"both", "http2"}
           /\ client' = "connected" /\ down' = "http2"
           /\ UNCHANGED <<peerVars, inputVars, signalled, upgrade, tunnel, protocol, switching,
                          handler, stopped>>
           /\ \/ /\ up = "http1" /\ slot["up"].h2 /\ up' = "http2"
                 /\ queue' = [queue EXCEPT !["up"] = <<slot["up"].units>>]
                 /\ slot' = [slot EXCEPT !["up"] = NoMessage]
                 /\ write("up", <<Own("101")>>)
              \/ up = "http2" /\ FlushQueue("up") /\ UNCHANGED <<up, slot>>
              \/ /\ up # "http2" /\ ~(up = "http1" /\ slot["up"].h2)
                 /\ UNCHANGED <<up, slot, queue, out, recvwait>>
BY DEF ConnectedH2

LEMMA ConnectedSteps ==
    ASSUME TypeInv, Connected
    PROVE  /\ Connecting /\ ~(tls /\ protocol = "http2") /\ client' = "connected"
           /\ UNCHANGED <<peerVars, inputVars, signalled, upgrade, protocol, down, switching,
                          handler, stopped>>
           /\ \/ /\ up = "http1" /\ slot["up"].connect /\ up' = "plane" /\ tunnel' = TRUE
                 /\ slot' = [slot EXCEPT !["up"] = NoMessage]
                 /\ write("up", <<Own("200")>>)
                 /\ UNCHANGED queue
              \/ /\ up = "http1" /\ ~slot["up"].connect
                 /\ FlushRequest(slot["up"]) /\ UNCHANGED <<up, tunnel, queue>>
              \/ up = "http2" /\ FlushQueue("up") /\ UNCHANGED <<up, tunnel, slot>>
              \/ up = "plane" /\ UNCHANGED <<up, tunnel, slot, out, queue, recvwait>>
<1>1. up \in Class
  BY DEF TypeInv, TypeOK
<1>2. CASE up = "http1" /\ slot["up"].connect
  BY <1>2 DEF Connected
<1>3. CASE up = "http1" /\ ~slot["up"].connect
  BY <1>3 DEF Connected
<1>4. CASE up = "http2"
  BY <1>4 DEF Connected
<1>5. CASE up = "plane"
  BY <1>5 DEF Connected
<1> QED
  BY <1>1, <1>2, <1>3, <1>4, <1>5 DEF Class

LEMMA OutcomeTypeInv == ASSUME TypeInv, Outcome \/ removeSocket PROVE TypeInv'
<1>1. ServerTypes /\ ClientTypes
  BY TypeParts DEF TypeInv
<1>2. /\ \A k \in {"101", "200", "goaway"} : <<Own(k)>> \in Seq(Written)
      /\ slot["up"] \in Message /\ queue["up"] \in Seq(Seq(Nat))
  <2>1. slot["up"] \in Message /\ queue["up"] \in Seq(Seq(Nat))
    BY SideTypes, SideNames
  <2>2. \A k \in {"101", "200", "goaway"} : Own(k) \in Written
    BY <2>1, WrittenTypes
  <2> QED
    BY <2>1, <2>2
<1>3. ASSUME ConnectedH2 PROVE TypeInv'
  <2>1. /\ client' = "connected" /\ down' = "http2"
        /\ UNCHANGED <<peerVars, inputVars, signalled, upgrade, tunnel, protocol, switching,
                       handler, stopped>>
        /\ \/ /\ up' = "http2"
              /\ queue' = [queue EXCEPT !["up"] = <<slot["up"].units>>]
              /\ slot' = [slot EXCEPT !["up"] = NoMessage]
              /\ write("up", <<Own("101")>>)
           \/ FlushQueue("up") /\ UNCHANGED <<up, slot>>
           \/ UNCHANGED <<up, slot, queue, out, recvwait>>
    BY <1>3, ConnectedH2Steps
  <2>2. ServerTypes' /\ ClientTypes'
    BY <1>1, <2>1 DEF ServerTypes, ClientTypes, Class
  <2>3. SlotTyped' /\ OutTypes' /\ QueueTyped'
    <3>1. CASE /\ queue' = [queue EXCEPT !["up"] = <<slot["up"].units>>]
               /\ slot' = [slot EXCEPT !["up"] = NoMessage]
               /\ write("up", <<Own("101")>>)
      <4>1. slot["up"].units \in Seq(Nat)
        BY SideTypes, SideNames
      <4>2. <<slot["up"].units>> \in Seq(Seq(Nat))
        BY <4>1
      <4>3. QueueTyped'
        BY <3>1, <4>2 DEF QueueTyped, TypeInv, TypeOK
      <4> QED
        BY <1>2, <3>1, <4>3, OutStep, SlotStep, SideNames
    <3>2. CASE FlushQueue("up") /\ UNCHANGED <<up, slot>>
      BY <3>2, FlushTypes, SideNames, KeptTypes
    <3>3. CASE UNCHANGED <<up, slot, queue, out, recvwait>>
      BY <3>3, KeptTypes
    <3> QED
      BY <2>1, <3>1, <3>2, <3>3
  <2> QED
    BY <2>1, <2>2, <2>3, KeptTypes, EndTypes
<1>4. ASSUME Refused PROVE TypeInv'
  <2>1. /\ client' = "refused" /\ write("up", <<Own("goaway")>>)
        /\ UNCHANGED <<peerVars, inputVars, signalled, serverVars, protocol, down, switching, slot,
                       queue, handler, stopped>>
    BY <1>4 DEF Refused
  <2>2. ClientTypes'
    BY <1>1, <2>1 DEF ClientTypes
  <2>3. OutTypes'
    BY <1>2, <2>1, OutStep, SideNames
  <2> QED
    BY <2>1, <2>2, <2>3, KeptTypes, EndTypes
<1>5. ASSUME Connected PROVE TypeInv'
  <2>1. /\ client' = "connected"
        /\ UNCHANGED <<peerVars, inputVars, signalled, upgrade, protocol, down, switching,
                       handler, stopped>>
        /\ \/ /\ up' = "plane" /\ tunnel' = TRUE
              /\ slot' = [slot EXCEPT !["up"] = NoMessage]
              /\ write("up", <<Own("200")>>)
              /\ UNCHANGED queue
           \/ FlushRequest(slot["up"]) /\ UNCHANGED <<up, tunnel, queue>>
           \/ FlushQueue("up") /\ UNCHANGED <<up, tunnel, slot>>
           \/ UNCHANGED <<up, tunnel, slot, out, queue, recvwait>>
    BY <1>5, ConnectedSteps
  <2>2. ServerTypes' /\ ClientTypes'
    BY <1>1, <2>1 DEF ServerTypes, ClientTypes, Class
  <2>3. SlotTyped' /\ OutTypes' /\ QueueTyped'
    BY <1>2, <2>1, FlushTypes, SlotStep, OutStep, SideNames, KeptTypes
  <2> QED
    BY <2>1, <2>2, <2>3, KeptTypes, EndTypes
<1>6. ASSUME removeSocket PROVE TypeInv'
  <2>1. /\ handler' = "closed"
        /\ UNCHANGED <<peerVars, inputVars, signalled, serverVars, clientVars, recvwait, slot,
                       queue, out, stopped>>
    BY <1>6 DEF removeSocket
  <2>2. LoopTypes'
    BY <2>1, LoopStep, HandlerTypes
  <2> QED
    BY <2>1, <2>2, KeptTypes, EndTypes
<1> QED
  BY <1>3, <1>4, <1>5, <1>6 DEF Outcome, Failed

LEMMA NextTypeInv == TypeInv /\ [Next]_vars => TypeInv'
<1> SUFFICES ASSUME TypeInv, [Next]_vars PROVE TypeInv'
  OBVIOUS
<1>1. ASSUME NEW s \in Side, Callback(s) PROVE TypeInv'
  BY <1>1, ReadcbTypeInv, TakeHttp2TypeInv, UpDoneTypeInv, DownDoneTypeInv, ParseTypeInv,
     CopyTypeInv, SideNames DEF Callback
<1>2. ASSUME NEW s \in Side, Closed(s) PROVE TypeInv'
  BY <1>2, OutcomeTypeInv DEF Closed
<1>3. ASSUME UNCHANGED vars PROVE TypeInv'
  <2>1. UNCHANGED <<peerVars, inputVars, serverVars, clientVars, slot, out, recvwait, queue, signalled,
                    handler, stopped>>
    BY <1>3 DEF vars, peerVars, inputVars, serverVars, clientVars
  <2> QED
    BY <2>1, KeptTypes, EndTypes
<1> QED
  BY <1>1, <1>2, <1>3, PeersTypeInv, OutcomeTypeInv DEF Next

(***************************************************************************)
(* Every variable of the connection keeps its type: in particular the      *)
(* sessions of both sides are always of one of the three classes, and what *)
(* a session would switch to is a protocol the application asked for.      *)
(***************************************************************************)
THEOREM TypeCorrect == Spec => []TypeOK
<1>1. TypeInv => TypeOK
  BY DEF TypeInv
<1> QED
  BY <1>1, InitTypeInv, NextTypeInv, PTL DEF Spec

-----------------------------------------------------------------------------
(***************************************************************************)
(* The sessions agree.  What decides the classes of the two sessions is    *)
(* spread over the connection: the message that waits (its upgrade_http2   *)
(* and CONNECT), the protocol asked of the origin, the outcome of the      *)
(* attempt to connect, a 101 that has been parsed and not yet relayed, and *)
(* what the application may write in each of these states.                 *)
(***************************************************************************)
Within(units, n) == \A i \in DOMAIN units : units[i] \in 1..n

\* No unit is made up: what waits or has been written has been read.
SlotRead ==
    \A s \in Side : /\ Within(slot[s].units, read[s])
                    /\ slot[s] # NoMessage => slot[s].units # <<>>
QueueRead == \A s \in Side : \A n \in DOMAIN queue[s] : Within(queue[s][n], read[s])
OutRead == \A s \in Side : \A n \in DOMAIN out[Other(s)] : Within(out[Other(s)][n].of, read[s])
Positions == SlotRead /\ QueueRead /\ OutRead

\* What the message of a session may be.
SlotKinds ==
    /\ \A s \in Side : /\ slot[s].h2 => s = "up" /\ plan = "h2c"
                       /\ slot[s].connect => s = "up" /\ plan = "connect"
    /\ \A i \in DOMAIN slot["down"].units :
          sent["down"][slot["down"].units[i]] = "101" => switching # ""
    /\ switching \in {"", plan}

\* What the peers say in each plan.
AppKinds ==
    \A n \in DOMAIN sent["up"] :
       /\ sent["up"][n] \notin {"100", "101"}
       /\ sent["up"][n] = "begin" => plan # "direct"
       /\ sent["up"][n] \in {"preface", "preface1", "preface2"} =>
             plan = "direct" \/ (plan = "h2c" /\ up = "http2")
ConnectKinds ==
    plan = "connect" =>
       /\ \A n \in DOMAIN sent["down"] : sent["down"][n] = "raw"
       /\ \A n \in DOMAIN out["down"] : out["down"][n].kind # "http1"
       /\ \A i, j \in DOMAIN sent["up"] : sent["up"][i] = "begin" /\ sent["up"][j] = "begin" => i = j

\* The classes of the sessions in each plan.
SessionsOf ==
    /\ handler = "down" => client = "connected"
    /\ plan \in {"get", "h2c", "other"} => up = down
    /\ plan = "get" => up = "http1" /\ protocol = "http1"
    /\ plan = "other" => up \in {"http1", "plane"} /\ protocol = "http1"
    /\ plan = "h2c" =>
          /\ up \in {"http1", "http2"} /\ protocol \in {"http1", "both"}
          /\ up = "http2" => client = "connected"
          /\ protocol = "both" /\ client = "connecting" => slot["up"].h2
          /\ Agreed => up = "http2"
    /\ plan = "direct" =>
          /\ client = "none" => down = "http1"
          /\ client # "none" => up = "http2" /\ down = "http2" /\ protocol = "http2"
    /\ plan = "connect" =>
          /\ slot["up"] # NoMessage => slot["up"].connect
          /\ client = "none" => up = "http1" /\ down = "http1" /\ protocol = "http1"
          /\ client = "connecting" => up = "http1" /\ down = "plane" /\ slot["up"].connect
          /\ client \notin {"none", "connecting"} => up = "plane" /\ down = "plane"
          /\ client # "none" => protocol = "plane"

\* A read callback is due only when there is something to read.
Signals == \A s \in Side : signalled[s] => handler # s /\ read[s] < Len(sent[s])

AgreeInv == TypeInv /\ Signals /\ Positions /\ SlotKinds /\ AppKinds /\ ConnectKinds /\ SessionsOf

LEMMA WithinGrows ==
    ASSUME NEW us \in Seq(Nat), NEW n \in Nat, NEW m \in Nat, n <= m, Within(us, n)
    PROVE  /\ Within(us, m) /\ Within(<<>>, m)
           /\ n < m => Within(Append(us, n + 1), m) /\ Append(us, n + 1) # <<>>
<1>1. Within(us, m) /\ Within(<<>>, m)
  BY DEF Within
<1>2. ASSUME n < m PROVE Within(Append(us, n + 1), m) /\ Append(us, n + 1) # <<>>
  <2>1. /\ DOMAIN Append(us, n + 1) = 1..(Len(us) + 1) /\ Len(us) \in Nat
        /\ \A i \in 1..Len(us) : Append(us, n + 1)[i] = us[i]
        /\ Append(us, n + 1)[Len(us) + 1] = n + 1
        /\ DOMAIN us = 1..Len(us)
    OBVIOUS
  <2>2. ASSUME NEW i \in 1..(Len(us) + 1) PROVE Append(us, n + 1)[i] \in 1..m
    <3>1. CASE i = Len(us) + 1
      BY <1>2, <2>1, <3>1
    <3>2. CASE i # Len(us) + 1
      <4>1. i \in DOMAIN us
        BY <2>1, <3>2
      <4>2. us[i] \in 1..n /\ Append(us, n + 1)[i] = us[i]
        BY <2>1, <4>1 DEF Within
      <4> QED
        BY <4>2
    <3> QED
      BY <3>1, <3>2
  <2> QED
    BY <2>1, <2>2 DEF Within
<1> QED
  BY <1>1, <1>2

LEMMA InitAgree == Init => AgreeInv
<1> SUFFICES ASSUME Init PROVE AgreeInv
  OBVIOUS
<1>1. /\ \A s \in Side : sent[s] = <<>> /\ slot[s] = NoMessage /\ queue[s] = <<>> /\ out[s] = <<>>
      /\ \A s \in Side : Other(s) \in Side
  BY DEF Init, Side, Other
<1>2. NoMessage.units = <<>> /\ NoMessage.h2 = FALSE /\ NoMessage.connect = FALSE
  BY DEF NoMessage
<1>3. Positions
  BY <1>1, <1>2 DEF Positions, SlotRead, QueueRead, OutRead, Within
<1>4. SlotKinds /\ AppKinds /\ ConnectKinds
  <2>1. "up" \in Side /\ "down" \in Side /\ switching = ""
    BY SideNames DEF Init
  <2>2. DOMAIN <<>> = {}
    OBVIOUS
  <2>3. DOMAIN sent["up"] = {} /\ DOMAIN sent["down"] = {} /\ DOMAIN out["down"] = {}
    BY <1>1, <2>1, <2>2
  <2>4. SlotKinds
    BY <1>1, <1>2, <2>1, <2>2 DEF SlotKinds
  <2>5. AppKinds
    BY <2>3 DEF AppKinds
  <2>6. ConnectKinds
    BY <2>3 DEF ConnectKinds
  <2> QED
    BY <2>4, <2>5, <2>6
<1>5. SessionsOf
  <2>1. Agreed = FALSE
    BY <1>1, SideNames DEF Agreed, Range
  <2> QED
    BY <1>1, <1>2, <2>1, SideNames DEF SessionsOf, Init
<1>6. Signals
  BY DEF Init, Signals
<1> QED
  BY <1>3, <1>4, <1>5, <1>6, InitTypeInv DEF AgreeInv

\* The application is told that the protocol changes by what is written to it.
LEMMA AgreedSame ==
    ASSUME AgreeInv, out'["up"] = out["up"],
           \A n \in 1..read["down"] : sent'["down"][n] = sent["down"][n], Agreed'
    PROVE  Agreed
<1>1. PICK k \in DOMAIN out["up"] :
         \/ out["up"][k].kind \in {"101", "200"}
         \/ \E i \in DOMAIN out["up"][k].of : sent'["down"][out["up"][k].of[i]] = "101"
  BY DEF Agreed, Range
<1>2. Within(out["up"][k].of, read["down"])
  BY SideNames DEF AgreeInv, Positions, OutRead, Other, Side
<1>3. \/ out["up"][k].kind \in {"101", "200"}
      \/ \E i \in DOMAIN out["up"][k].of : sent["down"][out["up"][k].of[i]] = "101"
  BY <1>1, <1>2 DEF Within
<1> QED
  BY <1>3 DEF Agreed, Range

LEMMA AgreedOne ==
    ASSUME AgreeInv, NEW w \in Written, out'["up"] = Append(out["up"], w),
           UNCHANGED sent, w.kind \notin {"101", "200"},
           \A i \in DOMAIN w.of : sent["down"][w.of[i]] # "101", Agreed'
    PROVE  Agreed
<1>1. PICK k \in DOMAIN out'["up"] :
         \/ out'["up"][k].kind \in {"101", "200"}
         \/ \E i \in DOMAIN out'["up"][k].of : sent["down"][out'["up"][k].of[i]] = "101"
  BY DEF Agreed, Range
<1>2. out["up"] \in Seq(Written)
  BY SideTypes, SideNames DEF AgreeInv
<1>3. CASE k \in DOMAIN out["up"]
  <2>1. out'["up"][k] = out["up"][k]
    BY <1>2, <1>3
  <2> QED
    BY <1>1, <1>3, <2>1 DEF Agreed, Range
<1>4. CASE k \notin DOMAIN out["up"]
  <2>1. out'["up"][k] = w
    BY <1>2, <1>4
  <2> QED
    BY <1>1, <2>1
<1> QED
  BY <1>3, <1>4

LEMMA OfFinite ==
    ASSUME TypeInv, NEW s \in Side, NEW K
    PROVE  /\ IsFiniteSet(Of(s, K)) /\ Cardinality(Of(s, K)) \in Nat
           /\ Cardinality(Of(s, K)) = 0 => \A n \in DOMAIN sent[s] : sent[s][n] \notin K
           /\ (\A n \in DOMAIN sent[s] : sent[s][n] \notin K) => Cardinality(Of(s, K)) = 0
<1>1. DOMAIN sent[s] = 1..Len(sent[s]) /\ Len(sent[s]) \in Nat
  BY SideTypes
<1>2. IsFiniteSet(1..Len(sent[s]))
  <2>1. 1 \in Int /\ Len(sent[s]) \in Int
    BY <1>1
  <2> QED
    BY <2>1, FS_Interval
<1>3. Of(s, K) \subseteq 1..Len(sent[s])
  BY <1>1 DEF Of
<1>4. IsFiniteSet(Of(s, K))
  BY <1>2, <1>3, FS_Subset
<1>5. Cardinality(Of(s, K)) \in Nat /\ (Cardinality(Of(s, K)) = 0 <=> Of(s, K) = {})
  BY <1>4, FS_CardinalityType, FS_EmptySet
<1> QED
  BY <1>4, <1>5 DEF Of

\* What the application may write, and what the origin may.
LEMMA AppWrites ==
    ASSUME AgreeInv, App
    PROVE  \E units \in Seq(Kind) :
             /\ Write("up", units) /\ units # <<>>
             /\ \A i \in DOMAIN units :
                  /\ units[i] \notin {"100", "101"}
                  /\ units[i] \in {"preface", "preface1", "preface2"} =>
                        plan = "direct" \/ (plan = "h2c" /\ up = "http2")
                  /\ units[i] = "begin" =>
                        /\ i = 1 /\ plan # "direct"
                        /\ plan = "connect" => \A n \in DOMAIN sent["up"] : sent["up"][n] # "begin"
<1> DEFINE Fits(units) ==
             \A i \in DOMAIN units :
                  /\ units[i] \notin {"100", "101"}
                  /\ units[i] \in {"preface", "preface1", "preface2"} =>
                        plan = "direct" \/ (plan = "h2c" /\ up = "http2")
                  /\ units[i] = "begin" =>
                        /\ i = 1 /\ plan # "direct"
                        /\ plan = "connect" => \A n \in DOMAIN sent["up"] : sent["up"][n] # "begin"
<1>1. \A k : Len(<<k>>) = 1 /\ DOMAIN <<k>> = {1} /\ <<k>>[1] = k
  OBVIOUS
<1>2. /\ DOMAIN <<"begin", "rest">> = {1, 2}
      /\ <<"begin", "rest">>[1] = "begin" /\ <<"begin", "rest">>[2] = "rest"
      /\ <<"begin", "rest">> \in Seq(Kind) /\ \A k \in Kind : <<k>> \in Seq(Kind)
  BY DEF Kind
<1>3. CASE AppRequest
  <2>1. /\ plan # "direct"
        /\ Write("up", <<"begin", "rest">>) \/ Write("up", <<"begin">>)
    BY <1>3 DEF AppRequest
  <2>2. plan = "connect" => \A n \in DOMAIN sent["up"] : sent["up"][n] # "begin"
    <3> SUFFICES ASSUME plan = "connect" PROVE \A n \in DOMAIN sent["up"] : sent["up"][n] \notin {"begin"}
      OBVIOUS
    <3>1. \A n \in DOMAIN sent["down"] : sent["down"][n] = "raw"
      BY DEF AgreeInv, ConnectKinds
    <3>2. Answered = {}
      BY <3>1 DEF Answered, Of
    <3>3. Cardinality(Answered) = 0
      BY <3>2, FS_EmptySet
    <3>4. /\ Cardinality(Answered) = Cardinality(Of("up", {"rest"}))
          /\ Cardinality(Of("up", {"begin"})) = Cardinality(Of("up", {"rest"}))
      BY <1>3 DEF AppRequest
    <3>5. Cardinality(Of("up", {"begin"})) = 0
      BY <3>3, <3>4
    <3> QED
      BY <3>5, OfFinite, SideNames DEF AgreeInv
  <2>3. Fits(<<"begin", "rest">>) /\ Fits(<<"begin">>)
    BY <1>1, <1>2, <2>1, <2>2
  <2>4. "begin" \in Kind
    BY DEF Kind
  <2> HIDE DEF Fits
  <2>5. \E units \in Seq(Kind) : Write("up", units) /\ units # <<>> /\ Fits(units)
    BY <1>2, <2>1, <2>3, <2>4
  <2> QED
    BY <2>5 DEF Fits
<1>4. CASE App /\ ~AppRequest
  <2>1. PICK k \in Kind \ {"begin", "100", "101"} :
             /\ Write("up", <<k>>)
             /\ k \in {"preface", "preface1", "preface2"} =>
                  plan = "direct" \/ (plan = "h2c" /\ Agreed)
    BY <1>4 DEF App, AppRest, AppPreface, AppSettings, AppFrame, AppRaw, Kind
  <2>2. Agreed /\ plan = "h2c" => up = "http2"
    BY DEF AgreeInv, SessionsOf
  <2>3. Fits(<<k>>)
    BY <1>1, <2>1, <2>2
  <2> HIDE DEF Fits
  <2>4. \E units \in Seq(Kind) : Write("up", units) /\ units # <<>> /\ Fits(units)
    BY <1>2, <2>1, <2>3
  <2> QED
    BY <2>4 DEF Fits
<1> QED
  BY <1>3, <1>4

LEMMA OriginWrites ==
    ASSUME AgreeInv, Origin
    PROVE  \E units \in Seq(Kind) :
             /\ Write("down", units) /\ units # <<>>
             /\ plan = "connect" => \A i \in DOMAIN units : units[i] = "raw"
<1>1. PICK k \in Kind : Write("down", <<k>>)
  BY DEF Origin, OriginInterim, OriginBegin, OriginRest, OriginSwitch, OriginSettings, OriginFrame,
         OriginRaw, Kind
<1>2. <<k>> \in Seq(Kind) /\ DOMAIN <<k>> = {1} /\ <<k>>[1] = k
  OBVIOUS
<1>3. CASE plan # "connect"
  BY <1>1, <1>2, <1>3
<1>4. CASE plan = "connect"
  <2>1. /\ \A n \in DOMAIN sent["down"] : sent["down"][n] = "raw"
        /\ \A n \in DOMAIN out["down"] : out["down"][n].kind # "http1"
    BY <1>4 DEF AgreeInv, ConnectKinds
  <2>2. ~Unanswered
    <3>1. Messages("down") = {}
      BY <2>1 DEF Messages
    <3>2. Cardinality(Messages("down")) = 0
      BY <3>1, FS_EmptySet
    <3>3. Cardinality(Of("down", {"rest", "101"})) \in Nat
      BY OfFinite, SideNames DEF AgreeInv
    <3> QED
      BY <3>2, <3>3 DEF Unanswered
  <2>3. ~Responding
    <3>1. Cardinality(Of("down", {"begin"})) = 0 /\ Cardinality(Of("down", {"rest"})) \in Nat
      BY <2>1, OfFinite, SideNames DEF AgreeInv
    <3> QED
      BY <3>1 DEF Responding
  <2>4. ~(client = "connected" /\ down = "http2")
    BY <1>4 DEF AgreeInv, SessionsOf
  <2>5. Of("down", {"settings"}) = {} /\ Of("down", {"101"}) = {}
    BY <2>1 DEF Of
  <2>6. OriginRaw
    BY <1>4, <2>2, <2>3, <2>4, <2>5
       DEF Origin, OriginInterim, OriginBegin, OriginRest, OriginSwitch, OriginSettings, OriginFrame
  <2>7. Write("down", <<"raw">>) /\ <<"raw">> \in Seq(Kind)
        /\ \A i \in DOMAIN <<"raw">> : <<"raw">>[i] = "raw"
    BY <2>6 DEF OriginRaw, Kind
  <2> QED
    BY <2>7
<1> QED
  BY <1>3, <1>4

LEMMA WriteAgree ==
    ASSUME AgreeInv, NEW s \in Side, NEW units \in Seq(Kind), Write(s, units), units # <<>>,
           TypeInv', AppKinds', ConnectKinds'
    PROVE  AgreeInv'
<1>1. UNCHANGED <<plan, up, read, client, protocol, down, switching, slot, queue, out, handler>>
  BY DEF Write, serverVars, inputVars, clientVars
<1>2. ASSUME NEW t \in Side, NEW n \in 1..read[t] PROVE sent'[t][n] = sent[t][n]
  <2>1. /\ sent[t] \in Seq(Kind) /\ read[t] \in Nat /\ Len(sent[t]) \in Nat /\ read[t] <= Len(sent[t])
        /\ n \in 1..Len(sent[t])
    BY <1>2, SideTypes DEF AgreeInv
  <2>2. sent'[t] = IF t = s THEN sent[t] \o units ELSE sent[t]
    BY DEF Write, AgreeInv, TypeInv, TypeOK
  <2> QED
    BY <2>1, <2>2
<1>3. Positions'
  BY <1>1 DEF AgreeInv, Positions, SlotRead, QueueRead, OutRead
<1>4. SlotKinds'
  <2>1. Within(slot["down"].units, read["down"])
    BY SideNames DEF AgreeInv, Positions, SlotRead
  <2>2. \A i \in DOMAIN slot["down"].units :
           sent'["down"][slot["down"].units[i]] = sent["down"][slot["down"].units[i]]
    BY <1>2, <2>1, SideNames DEF Within
  <2> QED
    BY <1>1, <2>2 DEF AgreeInv, SlotKinds
<1>5. SessionsOf'
  <2>1. Agreed' => Agreed
    BY <1>1, <1>2, AgreedSame, SideNames
  <2> QED
    BY <1>1, <2>1 DEF AgreeInv, SessionsOf
<1>6. Signals'
  <2>1. ASSUME NEW t \in Side, signalled'[t] PROVE handler' # t /\ read'[t] < Len(sent'[t])
    <3>1. /\ handler = "idle" /\ sent' = [sent EXCEPT ![s] = sent[s] \o units]
          /\ signalled' = [signalled EXCEPT ![s] = TRUE] /\ units # <<>>
          /\ sent \in [Side -> Seq(Kind)] /\ signalled \in [Side -> BOOLEAN]
      BY DEF Write, AgreeInv, TypeInv, TypeOK
    <3>2. /\ sent[t] \in Seq(Kind) /\ read[t] \in Nat /\ Len(sent[t]) \in Nat /\ read[t] <= Len(sent[t])
      BY SideTypes DEF AgreeInv
    <3>3. Len(units) \in Nat /\ Len(units) > 0
      BY <3>1
    <3>4. CASE t = s
      <4>1. Len(sent'[t]) = Len(sent[t]) + Len(units)
        BY <3>1, <3>2, <3>4
      <4> QED
        BY <1>1, <3>1, <3>2, <3>3, <4>1 DEF Side
    <3>5. CASE t # s
      <4>1. sent'[t] = sent[t] /\ signalled[t]
        BY <2>1, <3>1, <3>5
      <4> QED
        BY <1>1, <3>1, <4>1 DEF AgreeInv, Signals
    <3> QED
      BY <3>4, <3>5
  <2> QED
    BY <2>1 DEF Signals
<1> QED
  BY <1>3, <1>4, <1>5, <1>6 DEF AgreeInv

LEMMA PeersAgree == ASSUME AgreeInv, Peers PROVE AgreeInv'
<1>1. TypeInv'
  BY PeersTypeInv DEF AgreeInv
<1>2. ASSUME App PROVE AgreeInv'
  <2>1. PICK units \in Seq(Kind) :
             /\ Write("up", units) /\ units # <<>>
             /\ \A i \in DOMAIN units :
                  /\ units[i] \notin {"100", "101"}
                  /\ units[i] \in {"preface", "preface1", "preface2"} =>
                        plan = "direct" \/ (plan = "h2c" /\ up = "http2")
                  /\ units[i] = "begin" =>
                        /\ i = 1 /\ plan # "direct"
                        /\ plan = "connect" => \A n \in DOMAIN sent["up"] : sent["up"][n] # "begin"
    BY <1>2, AppWrites
  <2>2. /\ UNCHANGED <<plan, up, out>> /\ sent'["down"] = sent["down"]
        /\ sent'["up"] = sent["up"] \o units /\ sent["up"] \in Seq(Kind)
    BY <2>1, SideNames DEF Write, serverVars, AgreeInv, TypeInv, TypeOK
  <2> DEFINE n0 == Len(sent["up"])
             n1 == Len(units)
  <2>3. /\ n0 \in Nat /\ n1 \in Nat
        /\ DOMAIN sent["up"] = 1..n0 /\ DOMAIN units = 1..n1 /\ DOMAIN sent'["up"] = 1..(n0 + n1)
        /\ \A n \in 1..n0 : sent'["up"][n] = sent["up"][n]
        /\ \A n \in 1..(n0 + n1) : ~(n <= n0) => sent'["up"][n] = units[n - n0]
    BY <2>2
  <2> HIDE DEF n0, n1
  <2>4. ASSUME NEW n \in DOMAIN sent'["up"]
        PROVE  \/ n \in DOMAIN sent["up"] /\ sent'["up"][n] = sent["up"][n]
               \/ n - n0 \in DOMAIN units /\ sent'["up"][n] = units[n - n0]
    BY <2>3, <2>4
  <2>5. AppKinds'
    <3> SUFFICES ASSUME NEW n \in DOMAIN sent'["up"]
                 PROVE  /\ sent'["up"][n] \notin {"100", "101"}
                        /\ sent'["up"][n] = "begin" => plan # "direct"
                        /\ sent'["up"][n] \in {"preface", "preface1", "preface2"} =>
                             plan = "direct" \/ (plan = "h2c" /\ up = "http2")
      BY <2>2 DEF AppKinds
    <3> QED
      BY <2>1, <2>4 DEF AgreeInv, AppKinds
  <2>6. ConnectKinds'
    <3> SUFFICES ASSUME plan = "connect", NEW i \in DOMAIN sent'["up"], NEW j \in DOMAIN sent'["up"],
                        sent'["up"][i] = "begin", sent'["up"][j] = "begin"
                 PROVE  i = j
      BY <2>2 DEF AgreeInv, ConnectKinds
    <3>1. CASE i \in DOMAIN sent["up"] /\ sent'["up"][i] = sent["up"][i]
      <4>1. j \in DOMAIN sent["up"] /\ sent'["up"][j] = sent["up"][j]
        BY <2>1, <2>4, <3>1
      <4> QED
        BY <3>1, <4>1 DEF AgreeInv, ConnectKinds
    <3>2. CASE i - n0 \in DOMAIN units /\ sent'["up"][i] = units[i - n0]
      <4>1. i - n0 = 1 /\ \A n \in DOMAIN sent["up"] : sent["up"][n] # "begin"
        BY <2>1, <3>2
      <4>2. j - n0 = 1
        BY <2>1, <2>4, <4>1
      <4> QED
        BY <2>3, <4>1, <4>2
    <3> QED
      BY <2>4, <3>1, <3>2
  <2> QED
    BY <1>1, <2>1, <2>5, <2>6, WriteAgree, SideNames
<1>3. ASSUME Origin PROVE AgreeInv'
  <2>1. PICK units \in Seq(Kind) :
             /\ Write("down", units) /\ units # <<>>
             /\ plan = "connect" => \A i \in DOMAIN units : units[i] = "raw"
    BY <1>3, OriginWrites
  <2>2. /\ UNCHANGED <<plan, up, out>> /\ sent'["up"] = sent["up"]
        /\ sent'["down"] = sent["down"] \o units /\ sent["down"] \in Seq(Kind)
    BY <2>1, SideNames DEF Write, serverVars, AgreeInv, TypeInv, TypeOK
  <2>3. AppKinds'
    BY <2>2 DEF AgreeInv, AppKinds
  <2>4. ConnectKinds'
    <3>1. ASSUME plan = "connect", NEW n \in DOMAIN sent'["down"] PROVE sent'["down"][n] = "raw"
      <4>1. \A i \in DOMAIN sent["down"] : sent["down"][i] = "raw"
        BY <3>1 DEF AgreeInv, ConnectKinds
      <4>2. CASE n \in DOMAIN sent["down"]
        BY <2>2, <4>1, <4>2
      <4>3. CASE n \notin DOMAIN sent["down"]
        <5>1. n - Len(sent["down"]) \in DOMAIN units /\ sent'["down"][n] = units[n - Len(sent["down"])]
          BY <2>2, <3>1, <4>3
        <5> QED
          BY <2>1, <3>1, <5>1
      <4> QED
        BY <4>2, <4>3
    <3> QED
      BY <2>2, <3>1 DEF AgreeInv, ConnectKinds
  <2> QED
    BY <1>1, <2>1, <2>3, <2>4, WriteAgree, SideNames
<1>4. ASSUME NEW s \in Side, PeerClose(s) PROVE AgreeInv'
  <2>1. UNCHANGED <<plan, sent, up, read, client, protocol, down, switching, slot, queue, out, handler>>
    BY <1>4 DEF PeerClose, serverVars, inputVars, clientVars
  <2>2. Agreed' => Agreed
    BY <2>1, AgreedSame
  <2>3. UNCHANGED signalled
    BY <1>4 DEF PeerClose
  <2> QED
    BY <1>1, <2>1, <2>2, <2>3
       DEF AgreeInv, Signals, Positions, SlotRead, QueueRead, OutRead, SlotKinds, AppKinds, ConnectKinds, SessionsOf
<1> QED
  BY <1>2, <1>3, <1>4 DEF Peers

\* The message of s after the session has taken one more unit into it.
Fed(s, m) ==
    /\ m.units = Append(slot[s].units, read[s] + 1)
    /\ m.h2 => slot[s].h2 \/ (s = "up" /\ plan = "h2c")
    /\ slot[s].h2 => m.h2
    /\ m.connect => slot[s].connect \/ (s = "up" /\ plan = "connect")
    /\ s = "up" /\ plan = "connect" => m.connect

LEMMA FirstConnect ==
    ASSUME AgreeInv, plan = "connect", NEW n \in DOMAIN sent["up"], sent["up"][n] = "begin"
    PROVE  First(n)
<1>1. sent["up"] \in Seq(Kind) /\ n \in Nat
  BY SideTypes, SideNames DEF AgreeInv
<1>2. \A m \in DOMAIN sent["up"] : sent["up"][m] = "begin" => m = n
  BY DEF AgreeInv, ConnectKinds
<1>3. {m \in Of("up", {"begin"}) : m <= n} = {n}
  BY <1>1, <1>2 DEF Of
<1>4. Cardinality({n}) = 1
  BY FS_Singleton
<1> QED
  BY <1>3, <1>4 DEF First

LEMMA FedBegin ==
    ASSUME AgreeInv, NEW s \in Side, Taking(s, "http1"),
           s = "up" /\ plan = "connect" => NextUnit(s) = "begin"
    PROVE  Fed(s, msg_begin(s))
<1> DEFINE n == read[s] + 1
           c == s = "up" /\ plan = "connect" /\ First(n)
           mm == slot[s]
<1>1. n \in DOMAIN sent[s] /\ mm \in Message /\ mm.units \in Seq(Nat) /\ n \in Nat
  BY TakenUnit, SideTypes DEF AgreeInv
<1>2. c \in BOOLEAN /\ (s = "up" /\ plan = "connect" => c) /\ (c => s = "up" /\ plan = "connect")
  BY <1>1, FirstConnect DEF NextUnit
<1>3. msg_begin(s) = IF mm = NoMessage
                     THEN [units |-> <<n>>, h2 |-> FALSE, connect |-> c, stat |-> "HEADER"]
                     ELSE [mm EXCEPT !.units = Append(@, n), !.connect = c]
  BY DEF msg_begin
<1> HIDE DEF c
<1>4. CASE mm = NoMessage
  <2>1. mm.units = <<>> /\ mm.h2 = FALSE /\ Append(<<>>, n) = <<n>>
    BY <1>4, SideNames DEF NoMessage
  <2>2. msg_begin(s) = [units |-> <<n>>, h2 |-> FALSE, connect |-> c, stat |-> "HEADER"]
    BY <1>3, <1>4
  <2>3. /\ msg_begin(s).units = Append(mm.units, n)
        /\ msg_begin(s).h2 = FALSE /\ msg_begin(s).connect = c
    BY <2>1, <2>2
  <2> QED
    BY <1>2, <2>1, <2>3 DEF Fed
<1>5. CASE mm # NoMessage
  <2>1. msg_begin(s) = [[mm EXCEPT !.units = Append(@, n)] EXCEPT !.connect = c]
    BY <1>3, <1>5
  <2>2. /\ msg_begin(s).units = Append(mm.units, n)
        /\ msg_begin(s).h2 = mm.h2 /\ msg_begin(s).connect = c
    BY <1>1, <2>1 DEF Message
  <2> QED
    BY <1>2, <2>2 DEF Fed
<1> QED
  BY <1>4, <1>5

LEMMA CompleteFields ==
    ASSUME NEW s \in Side, NEW m \in Message
    PROVE  /\ msg_complete(s, m).units = IF read[s] + 1 \in Range(m.units) THEN m.units
                                         ELSE Append(m.units, read[s] + 1)
           /\ msg_complete(s, m).h2 = (m.h2 \/ (s = "up" /\ plan = "h2c" /\ First(read[s] + 1)))
           /\ msg_complete(s, m).connect = m.connect
           /\ msg_complete(s, m).stat = "COMPLETE"
<1> DEFINE us == IF read[s] + 1 \in Range(m.units) THEN m.units ELSE Append(m.units, read[s] + 1)
           h == s = "up" /\ plan = "h2c" /\ First(read[s] + 1)
<1>1. msg_complete(s, m) = [m EXCEPT !.units = us, !.h2 = @ \/ h, !.stat = "COMPLETE"]
  BY DEF msg_complete
<1> HIDE DEF us, h
<1>2. msg_complete(s, m) = [[[m EXCEPT !.units = us] EXCEPT !.h2 = @ \/ h] EXCEPT !.stat = "COMPLETE"]
  BY <1>1 DEF Message
<1>3. /\ msg_complete(s, m).units = us /\ msg_complete(s, m).h2 = (m.h2 \/ h)
      /\ msg_complete(s, m).connect = m.connect /\ msg_complete(s, m).stat = "COMPLETE"
  BY <1>2 DEF Message
<1> QED
  BY <1>3 DEF us, h

LEMMA FedComplete ==
    ASSUME AgreeInv, NEW s \in Side, Taking(s, "http1"), slot[s] # NoMessage
    PROVE  Fed(s, msg_complete(s, slot[s]))
<1> DEFINE n == read[s] + 1
           mm == slot[s]
<1>1. mm \in Message /\ mm.units \in Seq(Nat) /\ n \in Nat /\ read[s] \in Nat
  BY TakenUnit, SideTypes DEF AgreeInv
<1>2. n \notin Range(mm.units)
  <2>1. Within(mm.units, read[s])
    BY DEF AgreeInv, Positions, SlotRead
  <2> QED
    BY <1>1, <2>1 DEF Within, Range
<1>3. /\ msg_complete(s, mm).units = Append(mm.units, n)
      /\ msg_complete(s, mm).h2 = (mm.h2 \/ (s = "up" /\ plan = "h2c" /\ First(n)))
      /\ msg_complete(s, mm).connect = mm.connect
  BY <1>1, <1>2, CompleteFields
<1>4. s = "up" /\ plan = "connect" => mm.connect
  BY DEF AgreeInv, SessionsOf
<1> QED
  BY <1>3, <1>4 DEF Fed

LEMMA FedShort ==
    ASSUME AgreeInv, NEW s \in Side, Taking(s, "http1"),
           s = "up" /\ plan = "connect" => NextUnit(s) = "begin"
    PROVE  Fed(s, msg_complete(s, msg_begin(s)))
<1> DEFINE n == read[s] + 1
           b == msg_begin(s)
<1>1. b \in Message /\ slot[s].units \in Seq(Nat) /\ n \in Nat
  <2>1. slot[s] \in Message /\ slot[s].units \in Seq(Nat) /\ n \in Nat
    BY SideTypes DEF AgreeInv
  <2> QED
    BY <2>1, SlotTypes DEF AgreeInv
<1>2. Fed(s, b)
  BY FedBegin
<1> HIDE DEF b
<1>3. n \in Range(b.units)
  <2>1. b.units = Append(slot[s].units, n)
    BY <1>2 DEF Fed
  <2>2. Len(slot[s].units) + 1 \in DOMAIN b.units /\ b.units[Len(slot[s].units) + 1] = n
    BY <1>1, <2>1
  <2> QED
    BY <2>2 DEF Range
<1>4. /\ msg_complete(s, b).units = b.units
      /\ msg_complete(s, b).h2 = (b.h2 \/ (s = "up" /\ plan = "h2c" /\ First(n)))
      /\ msg_complete(s, b).connect = b.connect
  BY <1>1, <1>3, CompleteFields
<1>5. Fed(s, msg_complete(s, b))
  BY <1>2, <1>4 DEF Fed
<1> QED
  BY <1>5 DEF b

\* What the HTTP/1 sessions do with a unit.
LEMMA ParseSteps ==
    ASSUME AgreeInv, NEW s \in Side,
           ParseBegin(s) \/ ParseRest(s) \/ ParseShort(s) \/ ParseError(s)
    PROVE  /\ Taking(s, "http1")
           /\ UNCHANGED <<peerVars, signalled, serverVars, client, protocol, down, recvwait, queue,
                          out, magic, handler>>
           /\ \/ UNCHANGED <<slot, switching>> /\ (Take(s) \/ UNCHANGED <<read, readAs>>)
              \/ /\ Take(s)
                 /\ \E m \in Message : Fed(s, m) /\ slot' = [slot EXCEPT ![s] = m]
                 /\ IF NextUnit(s) = "101" THEN switching' = plan /\ switching' # ""
                                           ELSE UNCHANGED switching
<1>1. /\ slot[s] \in Message /\ msg_begin(s) \in Message /\ msg_complete(s, slot[s]) \in Message
      /\ msg_complete(s, msg_begin(s)) \in Message
  BY SideTypes, SlotTypes DEF AgreeInv
<1>2. CASE ParseBegin(s)
  <2>1. Fed(s, msg_begin(s)) /\ Taking(s, "http1") /\ NextUnit(s) = "begin"
    BY <1>2, FedBegin DEF ParseBegin
  <2> QED
    BY <1>1, <1>2, <2>1 DEF ParseBegin, clientVars
<1>3. CASE ParseRest(s)
  <2>1. Fed(s, msg_complete(s, slot[s])) /\ Taking(s, "http1") /\ NextUnit(s) = "rest"
    BY <1>3, FedComplete DEF ParseRest
  <2> QED
    BY <1>1, <1>3, <2>1 DEF ParseRest, clientVars
<1>4. CASE ParseShort(s)
  <2>1. Taking(s, "http1") /\ NextUnit(s) \in {"100", "101"}
    BY <1>4 DEF ParseShort
  <2>2. /\ read[s] + 1 \in DOMAIN sent[s]
        /\ NextUnit(s) = "101" => plan \in {"h2c", "other"}
    BY <2>1, TakenUnit DEF AgreeInv
  <2>3. s # "up"
    BY <2>1, <2>2 DEF NextUnit, AgreeInv, AppKinds
  <2>4. Fed(s, msg_complete(s, msg_begin(s)))
    BY <2>1, <2>3, FedShort
  <2> QED
    BY <1>1, <1>4, <2>1, <2>2, <2>4 DEF ParseShort
<1>5. CASE ParseError(s)
  <2>1. /\ Taking(s, "http1")
        /\ UNCHANGED <<peerVars, signalled, serverVars, clientVars, recvwait, queue, out, magic,
                       handler>>
        /\ \/ UNCHANGED <<slot, read, readAs>>
           \/ UNCHANGED slot /\ Take(s)
           \/ NextUnit(s) = "preface1" /\ slot' = [slot EXCEPT ![s] = msg_begin(s)] /\ Take(s)
    <3>1. slot \in [Side -> Message]
      BY DEF AgreeInv, TypeInv, TypeOK
    <3> QED
      BY <1>5, <3>1 DEF ParseError
  <2>2. CASE NextUnit(s) = "preface1" /\ slot' = [slot EXCEPT ![s] = msg_begin(s)] /\ Take(s)
    <3>1. read[s] + 1 \in DOMAIN sent[s]
      BY <2>1, TakenUnit DEF AgreeInv
    <3>2. ~(s = "up" /\ plan = "connect")
      BY <2>2, <3>1 DEF NextUnit, AgreeInv, AppKinds
    <3>3. Fed(s, msg_begin(s))
      BY <2>1, <3>2, FedBegin
    <3> QED
      BY <1>1, <2>1, <2>2, <3>3 DEF clientVars
  <2> QED
    BY <2>1, <2>2 DEF clientVars
<1> QED
  BY <1>2, <1>3, <1>4, <1>5

\* Positions after a step, piece by piece.
LEMMA ReadTypes ==
    ASSUME TypeInv, NEW s \in Side
    PROVE  /\ read[s] \in Nat /\ slot[s].units \in Seq(Nat)
           /\ \A n \in DOMAIN queue[s] : queue[s][n] \in Seq(Nat)
           /\ \A n \in DOMAIN out[s] : out[s][n] \in Written /\ out[s][n].of \in Seq(Nat)
<1>1. /\ read[s] \in Nat /\ slot[s].units \in Seq(Nat)
      /\ queue[s] \in Seq(Seq(Nat)) /\ out[s] \in Seq(Written)
  BY SideTypes
<1>2. \A n \in DOMAIN queue[s] : queue[s][n] \in Seq(Nat)
  BY <1>1
<1>3. \A n \in DOMAIN out[s] : out[s][n] \in Written
  BY <1>1
<1>4. \A w \in Written : w.of \in Seq(Nat)
  BY DEF Written
<1> QED
  BY <1>1, <1>2, <1>3, <1>4

LEMMA SlotReadStep ==
    ASSUME AgreeInv,
           \A s \in Side : read'[s] \in Nat /\ read[s] <= read'[s],
           \A s \in Side : \/ slot'[s] = slot[s]
                           \/ slot'[s] = NoMessage
                           \/ /\ read[s] < read'[s]
                              /\ slot'[s].units = Append(slot[s].units, read[s] + 1)
    PROVE  SlotRead'
<1> SUFFICES ASSUME NEW s \in Side
             PROVE  /\ Within(slot'[s].units, read'[s])
                    /\ slot'[s] # NoMessage => slot'[s].units # <<>>
  BY DEF SlotRead
<1>1. /\ slot[s].units \in Seq(Nat) /\ read[s] \in Nat /\ read'[s] \in Nat /\ read[s] <= read'[s]
      /\ Within(slot[s].units, read[s])
      /\ slot[s] # NoMessage => slot[s].units # <<>>
  BY ReadTypes DEF AgreeInv, Positions, SlotRead
<1>2. /\ Within(slot[s].units, read'[s]) /\ Within(<<>>, read'[s])
      /\ read[s] < read'[s] => /\ Within(Append(slot[s].units, read[s] + 1), read'[s])
                               /\ Append(slot[s].units, read[s] + 1) # <<>>
  BY <1>1, WithinGrows
<1>3. CASE slot'[s] = slot[s]
  BY <1>1, <1>2, <1>3
<1>4. CASE slot'[s] = NoMessage
  BY <1>2, <1>4, SideNames
<1>5. CASE read[s] < read'[s] /\ slot'[s].units = Append(slot[s].units, read[s] + 1)
  BY <1>2, <1>5
<1> QED
  BY <1>3, <1>4, <1>5

LEMMA QueueReadStep ==
    ASSUME AgreeInv,
           \A s \in Side : read'[s] \in Nat /\ read[s] <= read'[s],
           \A s \in Side : \/ queue'[s] = queue[s]
                           \/ \A n \in DOMAIN queue'[s] : Within(queue'[s][n], read'[s])
    PROVE  QueueRead'
<1> SUFFICES ASSUME NEW s \in Side, NEW n \in DOMAIN queue'[s] PROVE Within(queue'[s][n], read'[s])
  BY DEF QueueRead
<1>1. CASE queue'[s] = queue[s]
  <2>1. queue[s][n] \in Seq(Nat) /\ Within(queue[s][n], read[s])
    BY <1>1, ReadTypes DEF AgreeInv, Positions, QueueRead
  <2>2. read[s] \in Nat /\ read'[s] \in Nat /\ read[s] <= read'[s]
    BY ReadTypes DEF AgreeInv
  <2> QED
    BY <1>1, <2>1, <2>2, WithinGrows
<1> QED
  BY <1>1

LEMMA OutReadStep ==
    ASSUME AgreeInv,
           \A s \in Side : read'[s] \in Nat /\ read[s] <= read'[s],
           \A s \in Side : \/ out'[Other(s)] = out[Other(s)]
                           \/ \E units \in Seq(Written) :
                                /\ out'[Other(s)] = out[Other(s)] \o units
                                /\ \A i \in DOMAIN units : Within(units[i].of, read'[s])
    PROVE  OutRead'
<1> SUFFICES ASSUME NEW s \in Side, NEW n \in DOMAIN out'[Other(s)]
             PROVE  Within(out'[Other(s)][n].of, read'[s])
  BY DEF OutRead
<1> DEFINE o == Other(s)
<1>1. o \in Side /\ out[o] \in Seq(Written)
  BY SideTypes DEF AgreeInv
<1>2. ASSUME NEW k \in DOMAIN out[o] PROVE Within(out[o][k].of, read'[s])
  <2>1. out[o][k].of \in Seq(Nat) /\ Within(out[o][k].of, read[s])
    BY <1>1, <1>2, ReadTypes DEF AgreeInv, Positions, OutRead
  <2>2. read[s] \in Nat /\ read'[s] \in Nat /\ read[s] <= read'[s]
    BY ReadTypes DEF AgreeInv
  <2> QED
    BY <2>1, <2>2, WithinGrows
<1>3. CASE out'[o] = out[o]
  BY <1>2, <1>3
<1>4. ASSUME NEW units \in Seq(Written), out'[o] = out[o] \o units,
             \A i \in DOMAIN units : Within(units[i].of, read'[s])
      PROVE  Within(out'[o][n].of, read'[s])
  <2> HIDE DEF o
  <2>1. CASE n \in DOMAIN out[o]
    <3>1. out'[o][n] = out[o][n]
      BY <1>1, <1>4, <2>1
    <3> QED
      BY <1>2, <2>1, <3>1
  <2>2. CASE n \notin DOMAIN out[o]
    <3>1. n \in DOMAIN (out[o] \o units)
      BY <1>4 DEF o
    <3>2. n - Len(out[o]) \in DOMAIN units /\ out'[o][n] = units[n - Len(out[o])]
      BY <1>1, <1>4, <2>2, <3>1
    <3> QED
      BY <1>4, <3>2
  <2> QED
    BY <2>1, <2>2
<1> QED
  BY <1>3, <1>4

\* The parts of AgreeInv that a step which only moves units inside the
\* connection keeps for the most part.
LEMMA AppKindsStep ==
    ASSUME AgreeInv, UNCHANGED <<plan, sent>>, plan = "h2c" /\ up = "http2" => up' = "http2"
    PROVE  AppKinds'
BY DEF AgreeInv, AppKinds

LEMMA ConnectKindsStep ==
    ASSUME AgreeInv, UNCHANGED <<plan, sent>>,
           \/ plan # "connect"
           \/ out'["down"] = out["down"]
           \/ \E units \in Seq(Written) : /\ out'["down"] = out["down"] \o units
                                          /\ \A i \in DOMAIN units : units[i].kind # "http1"
    PROVE  ConnectKinds'
<1> SUFFICES ASSUME plan = "connect", NEW n \in DOMAIN out'["down"]
             PROVE  out'["down"][n].kind # "http1"
  BY DEF AgreeInv, ConnectKinds
<1>1. \A k \in DOMAIN out["down"] : out["down"][k].kind # "http1"
  BY DEF AgreeInv, ConnectKinds
<1>2. out["down"] \in Seq(Written)
  BY SideTypes, SideNames DEF AgreeInv
<1>3. CASE out'["down"] = out["down"]
  BY <1>1, <1>3
<1>4. ASSUME NEW units \in Seq(Written), out'["down"] = out["down"] \o units,
             \A i \in DOMAIN units : units[i].kind # "http1"
      PROVE  out'["down"][n].kind # "http1"
  <2>1. CASE n \in DOMAIN out["down"]
    BY <1>1, <1>2, <1>4, <2>1
  <2>2. CASE n \notin DOMAIN out["down"]
    <3>1. n \in DOMAIN (out["down"] \o units)
      BY <1>4
    <3>2. n - Len(out["down"]) \in DOMAIN units /\ out'["down"][n] = units[n - Len(out["down"])]
      BY <1>2, <1>4, <2>2, <3>1
    <3> QED
      BY <1>4, <3>2
  <2> QED
    BY <2>1, <2>2
<1> QED
  BY <1>3, <1>4

LEMMA NothingIn == \A i : i \notin DOMAIN <<>>
OBVIOUS

LEMMA SlotKindsStep ==
    ASSUME AgreeInv, UNCHANGED <<plan, sent>>,
           \A s \in Side : slot'[s] \in {slot[s], NoMessage},
           UNCHANGED switching \/ (switching' = "" /\ slot'["down"] = NoMessage)
    PROVE  SlotKinds'
<1>1. NoMessage.units = <<>> /\ NoMessage.h2 = FALSE /\ NoMessage.connect = FALSE
  BY DEF NoMessage
<1>2. \A s \in Side : /\ slot'[s].h2 => s = "up" /\ plan = "h2c"
                      /\ slot'[s].connect => s = "up" /\ plan = "connect"
  BY <1>1 DEF AgreeInv, SlotKinds
<1>3. \A i \in DOMAIN slot'["down"].units :
          sent["down"][slot'["down"].units[i]] = "101" => switching' # ""
  <2>1. slot'["down"] \in {slot["down"], NoMessage}
    BY SideNames
  <2>2. CASE slot'["down"] = NoMessage
    BY <1>1, <2>2, NothingIn
  <2>3. CASE slot'["down"] # NoMessage
    BY <2>1, <2>3 DEF AgreeInv, SlotKinds
  <2> QED
    BY <2>2, <2>3
<1>4. switching' \in {"", plan}
  BY DEF AgreeInv, SlotKinds
<1> QED
  BY <1>2, <1>3, <1>4 DEF SlotKinds

LEMMA TakeReads ==
    ASSUME TypeInv, NEW s \in Side, Take(s)
    PROVE  /\ read'[s] = read[s] + 1 /\ \A t \in Side : t # s => read'[t] = read[t]
           /\ \A t \in Side : read'[t] \in Nat /\ read[t] <= read'[t]
<1>1. read \in [Side -> Nat] /\ read' = [read EXCEPT ![s] = read[s] + 1]
  BY DEF TypeInv, TypeOK, Take
<1> QED
  BY <1>1

LEMMA SameReads ==
    ASSUME TypeInv, UNCHANGED inputVars
    PROVE  UNCHANGED read /\ \A t \in Side : read'[t] \in Nat /\ read[t] <= read'[t]
<1>1. read \in [Side -> Nat] /\ read' = read
  BY DEF TypeInv, TypeOK, inputVars
<1> QED
  BY <1>1

\* What a session takes or leaves, its read callback is not due.
LEMMA SignalsKept ==
    ASSUME AgreeInv, UNCHANGED <<sent, signalled>>,
           handler' = handler \/ handler' \notin Side,
           UNCHANGED read \/ \E s \in Side : handler = s /\ \A t \in Side : t # s => read'[t] = read[t]
    PROVE  Signals'
BY DEF AgreeInv, Signals

LEMMA SessionsStep ==
    ASSUME AgreeInv, UNCHANGED <<plan, client, up, down, protocol>>,
           handler' = "down" => client = "connected",
           plan = "h2c" /\ client = "connecting" /\ slot["up"].h2 => slot'["up"].h2,
           plan = "connect" => /\ slot'["up"] # NoMessage => slot'["up"].connect
                               /\ client = "connecting" => slot'["up"].connect,
           plan = "h2c" /\ Agreed' => Agreed \/ up = "http2"
    PROVE  SessionsOf'
BY DEF AgreeInv, SessionsOf

LEMMA ParseAgree ==
    ASSUME AgreeInv, NEW s \in Side, TypeInv',
           ParseBegin(s) \/ ParseRest(s) \/ ParseShort(s) \/ ParseError(s)
    PROVE  AgreeInv'
<1>1. /\ Taking(s, "http1")
      /\ UNCHANGED <<peerVars, signalled, serverVars, client, protocol, down, recvwait, queue, out,
                     magic, handler>>
      /\ \/ UNCHANGED <<slot, switching>> /\ (Take(s) \/ UNCHANGED <<read, readAs>>)
         \/ /\ Take(s)
            /\ \E m \in Message : Fed(s, m) /\ slot' = [slot EXCEPT ![s] = m]
            /\ IF NextUnit(s) = "101" THEN switching' = plan /\ switching' # ""
                                      ELSE UNCHANGED switching
  BY ParseSteps
<1>2. /\ \A t \in Side : read'[t] \in Nat /\ read[t] <= read'[t]
      /\ UNCHANGED read \/ (read'[s] = read[s] + 1 /\ \A t \in Side : t # s => read'[t] = read[t])
      /\ \A t \in Side : read[t] \in Nat
  <2>1. \A t \in Side : read[t] \in Nat
    BY ReadTypes DEF AgreeInv
  <2>2. CASE Take(s)
    BY <2>1, <2>2, TakeReads DEF AgreeInv
  <2>3. CASE UNCHANGED read
    BY <2>1, <2>3
  <2> QED
    BY <1>1, <2>2, <2>3
<1>3. UNCHANGED <<plan, sent, up>> /\ handler = s
  BY <1>1 DEF peerVars, serverVars, Taking
<1>4. Signals'
  BY <1>1, <1>2, <1>3, SignalsKept
<1>5. slot \in [Side -> Message]
  BY DEF AgreeInv, TypeInv, TypeOK
<1>6. ASSUME NEW m \in Message, Fed(s, m), slot' = [slot EXCEPT ![s] = m], Take(s),
             IF NextUnit(s) = "101" THEN switching' = plan /\ switching' # ""
                                    ELSE UNCHANGED switching
      PROVE  AgreeInv'
  <2>1. slot'[s] = m /\ \A t \in Side : t # s => slot'[t] = slot[t]
    BY <1>5, <1>6
  <2>2. SlotRead'
    <3>1. read[s] < read'[s] /\ slot'[s].units = Append(slot[s].units, read[s] + 1)
      <4>1. read[s] \in Nat /\ read'[s] = read[s] + 1
        BY <1>2, <1>6, TakeReads DEF AgreeInv
      <4>2. slot'[s].units = Append(slot[s].units, read[s] + 1)
        BY <1>6, <2>1 DEF Fed
      <4> QED
        BY <4>1, <4>2
    <3> QED
      BY <1>2, <2>1, <3>1, SlotReadStep
  <2>3. QueueRead' /\ OutRead'
    BY <1>1, <1>2, QueueReadStep, OutReadStep
  <2>4. SlotKinds'
    <3>1. \A t \in Side : /\ slot'[t].h2 => t = "up" /\ plan = "h2c"
                          /\ slot'[t].connect => t = "up" /\ plan = "connect"
      BY <1>6, <2>1 DEF AgreeInv, SlotKinds, Fed
    <3>2. switching' \in {"", plan}
      BY <1>6 DEF AgreeInv, SlotKinds
    <3>3. ASSUME NEW i \in DOMAIN slot'["down"].units,
                 sent["down"][slot'["down"].units[i]] = "101"
          PROVE  switching' # ""
      <4>1. CASE s # "down" \/ i \in DOMAIN slot["down"].units
        <5>1. slot'["down"].units[i] = slot["down"].units[i] /\ i \in DOMAIN slot["down"].units
          <6>1. CASE s # "down"
            BY <2>1, <3>3, <6>1, SideNames
          <6>2. CASE s = "down" /\ i \in DOMAIN slot["down"].units
            <7>1. slot["down"].units \in Seq(Nat) /\ slot'["down"].units = Append(slot["down"].units, read[s] + 1)
              BY <1>6, <2>1, <6>2, ReadTypes, SideNames DEF Fed, AgreeInv
            <7> QED
              BY <6>2, <7>1
          <6> QED
            BY <4>1, <6>1, <6>2
        <5>2. switching # ""
          BY <3>3, <5>1 DEF AgreeInv, SlotKinds
        <5> QED
          BY <1>6, <5>2
      <4>2. CASE s = "down" /\ i \notin DOMAIN slot["down"].units
        <5>1. slot["down"].units \in Seq(Nat) /\ slot'["down"].units = Append(slot["down"].units, read[s] + 1)
          BY <1>6, <2>1, <4>2, ReadTypes, SideNames DEF Fed, AgreeInv
        <5>2. slot'["down"].units[i] = read[s] + 1
          BY <3>3, <4>2, <5>1
        <5>3. NextUnit(s) = "101"
          BY <3>3, <4>2, <5>2 DEF NextUnit
        <5> QED
          BY <1>6, <5>3
      <4> QED
        BY <4>1, <4>2
    <3> QED
      BY <1>3, <3>1, <3>2, <3>3 DEF SlotKinds
  <2>5. AppKinds' /\ ConnectKinds'
    BY <1>1, <1>3, AppKindsStep, ConnectKindsStep
  <2>6. SessionsOf'
    <3>1. Agreed' => Agreed
      BY <1>1, <1>3, AgreedSame
    <3>2. /\ slot["up"].h2 => slot'["up"].h2
          /\ plan = "connect" => /\ slot'["up"] # NoMessage => slot'["up"].connect
                                 /\ client = "connecting" => slot'["up"].connect
      <4>1. CASE s = "up"
        BY <1>6, <2>1, <4>1 DEF Fed
      <4>2. CASE s # "up"
        BY <2>1, <4>2, SideNames DEF AgreeInv, SessionsOf
      <4> QED
        BY <4>1, <4>2
    <3>3. UNCHANGED <<plan, client, up, down, protocol>> /\ (handler' = "down" => client = "connected")
      BY <1>1, <1>3 DEF AgreeInv, SessionsOf
    <3> QED
      BY <3>1, <3>2, <3>3, SessionsStep
  <2> QED
    BY <1>4, <2>2, <2>3, <2>4, <2>5, <2>6 DEF AgreeInv, Positions
<1>7. ASSUME UNCHANGED <<slot, switching>> PROVE AgreeInv'
  <2>1. SlotRead' /\ QueueRead' /\ OutRead'
    BY <1>1, <1>2, <1>7, SlotReadStep, QueueReadStep, OutReadStep
  <2>2. SlotKinds'
    BY <1>3, <1>7, SlotKindsStep
  <2>3. AppKinds' /\ ConnectKinds'
    BY <1>1, <1>3, AppKindsStep, ConnectKindsStep
  <2>4. SessionsOf'
    <3>1. Agreed' => Agreed
      BY <1>1, <1>3, AgreedSame
    <3>2. /\ UNCHANGED <<plan, client, up, down, protocol>>
          /\ handler' = "down" => client = "connected"
          /\ plan = "connect" => /\ slot["up"] # NoMessage => slot["up"].connect
                                 /\ client = "connecting" => slot["up"].connect
      BY <1>1, <1>3 DEF AgreeInv, SessionsOf
    <3> QED
      BY <1>7, <3>1, <3>2, SessionsStep
  <2> QED
    BY <1>4, <2>1, <2>2, <2>3, <2>4 DEF AgreeInv, Positions
<1> QED
  BY <1>1, <1>6, <1>7

\* A step that moves nothing but the units: the classes stay as they are.
LEMMA ReadcbAgree == ASSUME AgreeInv, TypeInv', readcb \/ on_read PROVE AgreeInv'
<1>1. ASSUME readcb PROVE AgreeInv'
  <2>1. /\ handler = "idle" /\ signalled["up"]
        /\ UNCHANGED <<peerVars, inputVars, tunnel, clientVars, recvwait, queue, out>>
        /\ signalled' = [signalled EXCEPT !["up"] = FALSE] /\ handler' = "up"
        /\ \/ /\ NextUnit("up") \in {"preface", "preface1"} /\ up' = "http2"
              /\ slot' = [slot EXCEPT !["up"] = IF up = "http2" THEN @ ELSE NoMessage]
           \/ UNCHANGED <<upgrade, up, slot>>
    BY <1>1 DEF readcb
  <2>2. UNCHANGED <<plan, sent, read, client, protocol, down, switching>>
    BY <2>1 DEF peerVars, inputVars, clientVars
  <2>3. /\ \A t \in Side : read'[t] \in Nat /\ read[t] <= read'[t]
        /\ \A t \in Side : t # "up" => signalled'[t] = signalled[t]
        /\ ~signalled'["up"]
    BY <2>1, SameReads, SideNames DEF AgreeInv, TypeInv, TypeOK
  <2>4. Signals'
    BY <2>1, <2>2, <2>3 DEF AgreeInv, Signals
  <2>5. ASSUME NextUnit("up") \in {"preface", "preface1"}
        PROVE  plan = "direct" \/ (plan = "h2c" /\ up = "http2")
    <3>1. read["up"] + 1 \in DOMAIN sent["up"]
      <4>1. read["up"] \in Nat /\ Len(sent["up"]) \in Nat /\ DOMAIN sent["up"] = 1..Len(sent["up"])
        BY SideTypes, SideNames DEF AgreeInv
      <4>2. read["up"] < Len(sent["up"])
        BY <2>1, SideNames DEF AgreeInv, Signals
      <4> QED
        BY <4>1, <4>2
    <3> QED
      BY <2>5, <3>1 DEF NextUnit, AgreeInv, AppKinds
  <2>6. /\ \/ up' = "http2" /\ (plan = "direct" \/ (plan = "h2c" /\ up = "http2"))
           \/ up' = up
        /\ \A t \in Side : slot'[t] \in {slot[t], NoMessage}
        /\ slot'["up"] = slot["up"] \/ (plan = "direct" /\ up' = "http2")
    <3>1. slot \in [Side -> Message]
      BY DEF AgreeInv, TypeInv, TypeOK
    <3>2. CASE UNCHANGED <<upgrade, up, slot>>
      BY <3>2
    <3>3. CASE /\ NextUnit("up") \in {"preface", "preface1"} /\ up' = "http2"
               /\ slot' = [slot EXCEPT !["up"] = IF up = "http2" THEN @ ELSE NoMessage]
      <4>1. plan = "direct" \/ (plan = "h2c" /\ up = "http2")
        BY <2>5, <3>3
      <4>2. /\ slot'["up"] = (IF up = "http2" THEN slot["up"] ELSE NoMessage)
            /\ \A t \in Side : t # "up" => slot'[t] = slot[t]
        BY <3>1, <3>3, SideNames
      <4> QED
        BY <3>3, <4>1, <4>2
    <3> QED
      BY <2>1, <3>2, <3>3
  <2>7. SlotRead' /\ QueueRead' /\ OutRead'
    BY <2>1, <2>3, <2>6, SlotReadStep, QueueReadStep, OutReadStep
  <2>8. SlotKinds' /\ AppKinds' /\ ConnectKinds'
    BY <2>1, <2>2, <2>6, SlotKindsStep, AppKindsStep, ConnectKindsStep
  <2>9. SessionsOf'
    <3>1. Agreed' => Agreed
      BY <2>1, <2>2, AgreedSame
    <3> QED
      BY <2>1, <2>2, <2>6, <3>1 DEF AgreeInv, SessionsOf
  <2> QED
    BY <2>4, <2>7, <2>8, <2>9 DEF AgreeInv, Positions
<1>2. ASSUME on_read PROVE AgreeInv'
  <2>1. /\ handler = "idle"
        /\ UNCHANGED <<peerVars, inputVars, serverVars, clientVars, recvwait, slot, queue, out>>
        /\ signalled' = [signalled EXCEPT !["down"] = FALSE]
        /\ UNCHANGED handler \/ (handler' = "down" /\ client = "connected")
    BY <1>2 DEF on_read
  <2>2. UNCHANGED <<plan, sent, read, up, client, protocol, down, switching>>
    BY <2>1 DEF peerVars, inputVars, serverVars, clientVars
  <2>3. /\ \A t \in Side : read'[t] \in Nat /\ read[t] <= read'[t]
        /\ \A t \in Side : t # "down" => signalled'[t] = signalled[t]
        /\ ~signalled'["down"]
    BY <2>1, SameReads, SideNames DEF AgreeInv, TypeInv, TypeOK
  <2>4. Signals'
    BY <2>1, <2>2, <2>3 DEF AgreeInv, Signals
  <2>5. SlotRead' /\ QueueRead' /\ OutRead'
    BY <2>1, <2>3, SlotReadStep, QueueReadStep, OutReadStep
  <2>6. SlotKinds' /\ AppKinds' /\ ConnectKinds'
    BY <2>1, <2>2, SlotKindsStep, AppKindsStep, ConnectKindsStep
  <2>7. SessionsOf'
    <3>1. Agreed' => Agreed
      BY <2>1, <2>2, AgreedSame
    <3> QED
      BY <2>1, <2>2, <3>1 DEF AgreeInv, SessionsOf
  <2> QED
    BY <2>4, <2>5, <2>6, <2>7 DEF AgreeInv, Positions
<1> QED
  BY <1>1, <1>2

LEMMA TakeHttp2Agree ==
    ASSUME AgreeInv, TypeInv', NEW s \in Side, TakePreface \/ TakeFrame(s)
    PROVE  AgreeInv'
<1>1. ASSUME NEW t \in Side, handler = t,
             UNCHANGED <<peerVars, signalled, serverVars, clientVars, slot, out, handler>>,
             \A r \in Side : read'[r] \in Nat /\ read[r] <= read'[r],
             \A r \in Side : r # t => read'[r] = read[r],
             QueueRead'
      PROVE  AgreeInv'
  <2>1. UNCHANGED <<plan, sent, up, client, protocol, down, switching>>
    BY <1>1 DEF peerVars, serverVars, clientVars
  <2>2. Signals'
    BY <1>1, <2>1, SignalsKept
  <2>3. SlotRead' /\ OutRead'
    BY <1>1, SlotReadStep, OutReadStep
  <2>4. SlotKinds' /\ AppKinds' /\ ConnectKinds'
    BY <1>1, <2>1, SlotKindsStep, AppKindsStep, ConnectKindsStep
  <2>5. SessionsOf'
    <3>1. Agreed' => Agreed
      BY <1>1, <2>1, AgreedSame
    <3> QED
      BY <1>1, <2>1, <3>1 DEF AgreeInv, SessionsOf
  <2> QED
    BY <1>1, <2>2, <2>3, <2>4, <2>5 DEF AgreeInv, Positions
<1>2. ASSUME TakePreface PROVE AgreeInv'
  <2>1. PICK k \in {0, 1, 2} : read' = [read EXCEPT !["up"] = @ + k]
    BY <1>2, PrefaceTaken DEF AgreeInv
  <2>2. /\ handler = "up"
        /\ UNCHANGED <<peerVars, signalled, serverVars, clientVars, slot, out, handler, queue>>
    BY <1>2 DEF TakePreface, Taking
  <2>3. /\ \A r \in Side : read'[r] \in Nat /\ read[r] <= read'[r]
        /\ \A r \in Side : r # "up" => read'[r] = read[r]
    <3>1. read \in [Side -> Nat]
      BY DEF AgreeInv, TypeInv, TypeOK
    <3> QED
      BY <2>1, <3>1
  <2>4. QueueRead'
    BY <2>2, <2>3, QueueReadStep
  <2> QED
    BY <1>1, <2>2, <2>3, <2>4, SideNames
<1>3. ASSUME TakeFrame(s) PROVE AgreeInv'
  <2> DEFINE f == <<read[s] + 1>>
             q == IF NextUnit(s) = "settings" THEN <<f>> \o queue[s] ELSE Append(queue[s], f)
  <2>1. /\ handler = s /\ Take(s)
        /\ queue' = [queue EXCEPT ![s] = q]
        /\ UNCHANGED <<peerVars, signalled, serverVars, clientVars, slot, out, handler>>
    BY <1>3 DEF TakeFrame, Taking
  <2>2. /\ \A r \in Side : read'[r] \in Nat /\ read[r] <= read'[r]
        /\ \A r \in Side : r # s => read'[r] = read[r]
        /\ read'[s] = read[s] + 1 /\ read[s] \in Nat
    BY <2>1, TakeReads, ReadTypes DEF AgreeInv
  <2>3. queue[s] \in Seq(Seq(Nat)) /\ f \in Seq(Nat) /\ Within(f, read'[s])
    <3>1. queue[s] \in Seq(Seq(Nat)) /\ f \in Seq(Nat)
      BY <2>2, SideTypes DEF AgreeInv
    <3>2. DOMAIN f = {1} /\ f[1] = read[s] + 1
      OBVIOUS
    <3> HIDE DEF f
    <3> QED
      BY <2>2, <3>1, <3>2 DEF Within
  <2> HIDE DEF f
  <2>4. \A n \in DOMAIN queue[s] : Within(queue[s][n], read'[s])
    <3>1. \A n \in DOMAIN queue[s] : queue[s][n] \in Seq(Nat) /\ Within(queue[s][n], read[s])
      BY ReadTypes DEF AgreeInv, Positions, QueueRead
    <3>2. read[s] \in Nat /\ read'[s] \in Nat /\ read[s] <= read'[s]
      BY <2>2
    <3> QED
      BY <3>1, <3>2, WithinGrows
  <2>5. \A n \in DOMAIN q : Within(q[n], read'[s])
    <3> DEFINE g == <<f>>
               u == queue[s]
    <3>0. g \in Seq(Seq(Nat)) /\ Len(g) = 1 /\ g[1] = f /\ u \in Seq(Seq(Nat))
      BY <2>3
    <3> HIDE DEF g, u
    <3>1. ASSUME NEW n \in DOMAIN (g \o u)
          PROVE  (g \o u)[n] = f \/ (n - 1 \in DOMAIN u /\ (g \o u)[n] = u[n - 1])
      <4>1. /\ DOMAIN u = 1..Len(u) /\ Len(u) \in Nat /\ DOMAIN (g \o u) = 1..(1 + Len(u))
            /\ (g \o u)[1] = g[1]
            /\ \A i \in 1..(1 + Len(u)) : i # 1 => (g \o u)[i] = u[i - 1]
        <5>1. DOMAIN u = 1..Len(u) /\ Len(u) \in Nat
          BY <3>0
        <5>2. /\ g \o u \in Seq(Seq(Nat)) /\ Len(g \o u) = Len(g) + Len(u)
              /\ \A i \in 1..(Len(g) + Len(u)) :
                    (g \o u)[i] = IF i <= Len(g) THEN g[i] ELSE u[i - Len(g)]
          BY <3>0, ConcatProperties
        <5>3. DOMAIN (g \o u) = 1..Len(g \o u)
          BY <5>2
        <5> DEFINE z == g \o u
        <5>4. /\ Len(z) = 1 + Len(u) /\ DOMAIN z = 1..Len(z)
              /\ \A i \in 1..(1 + Len(u)) : z[i] = IF i <= 1 THEN g[i] ELSE u[i - 1]
          BY <3>0, <5>2, <5>3
        <5> HIDE DEF z
        <5>5. z[1] = g[1] /\ \A i \in 1..(1 + Len(u)) : i # 1 => z[i] = u[i - 1]
          BY <5>1, <5>4
        <5> QED
          BY <5>1, <5>4, <5>5 DEF z
      <4>2. n \in 1..(1 + Len(u))
        BY <3>1, <4>1
      <4>3. CASE n = 1
        BY <3>0, <4>1, <4>3
      <4>4. CASE n # 1
        <5>1. n - 1 \in 1..Len(u)
          BY <4>1, <4>2, <4>4
        <5> QED
          BY <4>1, <4>2, <4>4, <5>1
      <4> QED
        BY <4>3, <4>4
    <3>2. ASSUME NEW n \in DOMAIN Append(u, f)
          PROVE  Append(u, f)[n] = f \/ (n \in DOMAIN u /\ Append(u, f)[n] = u[n])
      <4>1. /\ DOMAIN u = 1..Len(u) /\ Len(u) \in Nat /\ DOMAIN Append(u, f) = 1..(Len(u) + 1)
            /\ Append(u, f)[Len(u) + 1] = f
            /\ \A i \in 1..Len(u) : Append(u, f)[i] = u[i]
        BY <3>0
      <4> QED
        BY <4>1
    <3>3. \A n \in DOMAIN u : Within(u[n], read'[s])
      BY <2>4 DEF u
    <3>4. \A n \in DOMAIN (g \o u) : Within((g \o u)[n], read'[s])
      BY <2>3, <3>1, <3>3
    <3>5. \A n \in DOMAIN Append(u, f) : Within(Append(u, f)[n], read'[s])
      BY <2>3, <3>2, <3>3
    <3> QED
      BY <3>4, <3>5 DEF g, u
  <2> HIDE DEF q
  <2>6. QueueRead'
    <3>1. queue \in [Side -> Seq(Seq(Nat))]
      BY DEF AgreeInv, TypeInv, TypeOK
    <3>2. \A r \in Side : queue'[r] = queue[r] \/ \A n \in DOMAIN queue'[r] : Within(queue'[r][n], read'[r])
      BY <2>1, <2>5, <3>1
    <3> QED
      BY <2>2, <3>2, QueueReadStep
  <2> QED
    BY <1>1, <2>1, <2>2, <2>6
<1> QED
  BY <1>2, <1>3

LEMMA CopyAgree == ASSUME AgreeInv, TypeInv', NEW s \in Side, CopyBytes(s) PROVE AgreeInv'
<1> DEFINE w == [kind |-> "raw", of |-> <<read[s] + 1>>]
           o == Other(s)
<1>1. /\ handler = s /\ ClassOf(s) = "plane" /\ Take(s)
      /\ out' = [out EXCEPT ![o] = @ \o <<w>>]
      /\ UNCHANGED <<peerVars, signalled, serverVars, clientVars, slot, queue, handler>>
  BY DEF CopyBytes, Taking, write
<1>2. UNCHANGED <<plan, sent, up, client, protocol, down, switching>>
  BY <1>1 DEF peerVars, serverVars, clientVars
<1>3. /\ \A r \in Side : read'[r] \in Nat /\ read[r] <= read'[r]
      /\ \A r \in Side : r # s => read'[r] = read[r]
      /\ read'[s] = read[s] + 1 /\ read[s] \in Nat
  BY <1>1, TakeReads, ReadTypes DEF AgreeInv
<1>4. <<w>> \in Seq(Written) /\ Within(w.of, read'[s]) /\ w.kind = "raw"
  <2>1. <<read[s] + 1>> \in Seq(Nat) /\ DOMAIN <<read[s] + 1>> = {1} /\ <<read[s] + 1>>[1] = read[s] + 1
    BY <1>3
  <2>2. w.of = <<read[s] + 1>> /\ w.kind = "raw"
    OBVIOUS
  <2>3. w \in Written
    BY <2>1 DEF Written
  <2> HIDE DEF w
  <2>4. <<w>> \in Seq(Written)
    BY <2>3
  <2>5. Within(w.of, read'[s])
    BY <1>3, <2>1, <2>2 DEF Within
  <2> QED
    BY <2>2, <2>4, <2>5
<1>5. o \in Side /\ out'[o] = out[o] \o <<w>> /\ \A t \in Side : t # o => out'[t] = out[t]
  <2>1. out \in [Side -> Seq(Written)] /\ o \in Side
    BY SideTypes DEF AgreeInv, TypeInv, TypeOK
  <2> HIDE DEF o, w
  <2> QED
    BY <1>1, <2>1
<1>6. Len(<<w>>) = 1 /\ DOMAIN <<w>> = {1} /\ <<w>>[1] = w
  OBVIOUS
<1> HIDE DEF w
<1>7. Signals'
  BY <1>1, <1>2, <1>3, SignalsKept
<1>8. SlotRead' /\ QueueRead'
  BY <1>1, <1>3, SlotReadStep, QueueReadStep
<1>9. OutRead'
  <2>1. ASSUME NEW t \in Side
        PROVE  \/ out'[Other(t)] = out[Other(t)]
               \/ \E units \in Seq(Written) :
                    /\ out'[Other(t)] = out[Other(t)] \o units
                    /\ \A i \in DOMAIN units : Within(units[i].of, read'[t])
    <3>1. CASE t = s
      BY <1>4, <1>5, <1>6, <3>1
    <3>2. CASE t # s
      <4>1. Other(t) \in Side /\ Other(t) # o
        BY <3>2 DEF Other, Side
      <4> QED
        BY <1>5, <4>1
    <3> QED
      BY <3>1, <3>2
  <2> QED
    BY <1>3, <2>1, OutReadStep
<1>10. SlotKinds' /\ AppKinds'
  BY <1>1, <1>2, SlotKindsStep, AppKindsStep
<1>11. ConnectKinds'
  <2>1. out'["down"] = out["down"] \/ out'["down"] = out["down"] \o <<w>>
    BY <1>5, SideNames
  <2> QED
    BY <1>2, <1>4, <1>6, <2>1, ConnectKindsStep
<1>12. SessionsOf'
  <2>1. plan = "h2c" => up = down /\ up # "plane"
    BY DEF AgreeInv, SessionsOf
  <2>2. plan # "h2c"
    BY <1>1, <2>1 DEF ClassOf
  <2>3. handler' = "down" => client = "connected"
    BY <1>1 DEF AgreeInv, SessionsOf
  <2>4. plan = "connect" => /\ slot["up"] # NoMessage => slot["up"].connect
                            /\ client = "connecting" => slot["up"].connect
    BY DEF AgreeInv, SessionsOf
  <2> QED
    BY <1>1, <1>2, <2>2, <2>3, <2>4, SessionsStep
<1> QED
  BY <1>7, <1>8, <1>9, <1>10, <1>11, <1>12 DEF AgreeInv, Positions

\* What the two DoFlush write.
LEMMA FlushQueueSteps ==
    ASSUME AgreeInv, NEW s \in Side, FlushQueue(s)
    PROVE  \/ UNCHANGED <<out, queue, recvwait>>
           \/ /\ queue' = [queue EXCEPT ![s] = <<>>]
              /\ recvwait' = (recvwait /\ Other(s) = "up")
              /\ s = "down" \/ client' = "connected"
              /\ \E units \in Seq(Written) :
                   /\ units = Frames(queue[s])
                   /\ out' = [out EXCEPT ![Other(s)] = @ \o units]
                   /\ \A i \in DOMAIN units : /\ units[i].kind = "frame"
                                              /\ Within(units[i].of, read[s])
<1> DEFINE written == IF s = "down" \/ client' = "connected" THEN QueueFlush(queue[s], s) ELSE <<>>
           fs == Frames(queue[s])
<1>1. IF written = <<>> THEN UNCHANGED <<out, queue, recvwait>>
      ELSE write(Other(s), written) /\ queue' = [queue EXCEPT ![s] = <<>>]
  BY DEF FlushQueue
<1>2. written = <<>> \/ ((s = "down" \/ client' = "connected") /\ written = fs)
  BY DEF QueueFlush
<1>3. fs \in Seq(Written) /\ \A i \in DOMAIN fs : fs[i].kind = "frame" /\ Within(fs[i].of, read[s])
  <2>1. queue[s] \in Seq(Seq(Nat))
    BY SideTypes DEF AgreeInv
  <2>2. fs \in Seq(Written)
    BY <2>1, SideNames, WrittenTypes
  <2>3. DOMAIN fs = DOMAIN queue[s] /\ \A i \in DOMAIN queue[s] : fs[i] = [kind |-> "frame", of |-> queue[s][i]]
    BY DEF Frames
  <2>4. \A i \in DOMAIN queue[s] : Within(queue[s][i], read[s])
    BY DEF AgreeInv, Positions, QueueRead
  <2> HIDE DEF fs
  <2>5. ASSUME NEW i \in DOMAIN fs PROVE fs[i].kind = "frame" /\ Within(fs[i].of, read[s])
    <3>1. fs[i] = [kind |-> "frame", of |-> queue[s][i]] /\ Within(queue[s][i], read[s])
      BY <2>3, <2>4
    <3> QED
      BY <3>1
  <2> QED
    BY <2>2, <2>5
<1> HIDE DEF written, fs
<1>4. CASE written = <<>>
  BY <1>1, <1>4
<1>5. CASE written # <<>>
  <2>1. /\ queue' = [queue EXCEPT ![s] = <<>>] /\ (s = "down" \/ client' = "connected")
        /\ out' = [out EXCEPT ![Other(s)] = @ \o fs]
        /\ recvwait' = (recvwait /\ Other(s) = "up")
    BY <1>1, <1>2, <1>5 DEF write
  <2> QED
    BY <1>3, <2>1 DEF fs
<1> QED
  BY <1>4, <1>5

LEMMA FlushRequestSteps ==
    ASSUME AgreeInv, FlushRequest(slot["up"])
    PROVE  \/ UNCHANGED <<out, slot, recvwait>>
           \/ /\ client' = "connected" /\ slot["up"].stat = "COMPLETE"
              /\ slot' = [slot EXCEPT !["up"] = NoMessage]
              /\ out' = [out EXCEPT !["down"] = @ \o <<Http1(slot["up"])>>]
              /\ recvwait' = FALSE
BY DEF FlushRequest, write

\* Positions after the end of a callback or an outcome: the queue of s, its
\* message or a unit of the proxy's own is written to the other peer.
LEMMA EndPositions ==
    ASSUME AgreeInv, UNCHANGED inputVars,
           \A t \in Side : slot'[t] \in {slot[t], NoMessage},
           \A t \in Side : queue'[t] = queue[t] \/ \A n \in DOMAIN queue'[t] : Within(queue'[t][n], read[t]),
           \A t \in Side : \/ out'[Other(t)] = out[Other(t)]
                           \/ \E units \in Seq(Written) :
                                /\ out'[Other(t)] = out[Other(t)] \o units
                                /\ \A i \in DOMAIN units : Within(units[i].of, read[t])
    PROVE  Positions'
<1>1. read' = read /\ \A t \in Side : read'[t] \in Nat /\ read[t] <= read'[t]
  BY SameReads DEF AgreeInv
<1>2. SlotRead'
  BY <1>1, SlotReadStep
<1>3. QueueRead'
  BY <1>1, QueueReadStep
<1>4. OutRead'
  BY <1>1, OutReadStep
<1> QED
  BY <1>2, <1>3, <1>4 DEF Positions

\* One side's peer gets something more, the other's nothing.
LEMMA OutSides ==
    ASSUME TypeInv, NEW s \in Side, NEW units \in Seq(Written),
           out' = [out EXCEPT ![Other(s)] = @ \o units]
    PROVE  /\ out'[Other(s)] = out[Other(s)] \o units
           /\ out'[s] = out[s]
           /\ \A t \in Side : t # s => out'[Other(t)] = out[Other(t)]
<1>1. out \in [Side -> Seq(Written)] /\ Other(s) \in Side
  BY SideTypes DEF TypeInv, TypeOK
<1>2. \A t \in Side : t # s => Other(t) = s
  BY DEF Side, Other
<1>3. Other(s) # s /\ s \in Side
  BY DEF Side, Other
<1> QED
  BY <1>1, <1>2, <1>3

LEMMA FlushQueueAgree ==
    ASSUME AgreeInv, NEW s \in Side, FlushQueue(s), UNCHANGED <<inputVars, plan, sent, slot>>
    PROVE  Positions' /\ ConnectKinds' /\ out'[s] = out[s]
<1>1. \/ UNCHANGED <<out, queue>>
      \/ /\ queue' = [queue EXCEPT ![s] = <<>>]
         /\ \E units \in Seq(Written) :
              /\ out' = [out EXCEPT ![Other(s)] = @ \o units]
              /\ \A i \in DOMAIN units : /\ units[i].kind = "frame"
                                         /\ Within(units[i].of, read[s])
  BY FlushQueueSteps
<1>2. CASE UNCHANGED <<out, queue>>
  BY <1>2, EndPositions, ConnectKindsStep
<1>3. ASSUME queue' = [queue EXCEPT ![s] = <<>>], NEW units \in Seq(Written),
             out' = [out EXCEPT ![Other(s)] = @ \o units],
             \A i \in DOMAIN units : units[i].kind = "frame" /\ Within(units[i].of, read[s])
      PROVE  Positions' /\ ConnectKinds' /\ out'[s] = out[s]
  <2>1. /\ out'[Other(s)] = out[Other(s)] \o units /\ out'[s] = out[s]
        /\ \A t \in Side : t # s => out'[Other(t)] = out[Other(t)]
    BY <1>3, OutSides DEF AgreeInv
  <2>2. ASSUME NEW t \in Side
        PROVE  queue'[t] = queue[t] \/ \A n \in DOMAIN queue'[t] : Within(queue'[t][n], read[t])
    <3>1. queue \in [Side -> Seq(Seq(Nat))]
      BY DEF AgreeInv, TypeInv, TypeOK
    <3>2. CASE t = s
      BY <1>3, <3>1, <3>2, NothingIn
    <3>3. CASE t # s
      BY <1>3, <3>1, <3>3
    <3> QED
      BY <3>2, <3>3
  <2>3. Positions'
    BY <1>3, <2>1, <2>2, EndPositions
  <2>4. out'["down"] = out["down"] \/ out'["down"] = out["down"] \o units
    BY <2>1 DEF Side, Other
  <2>5. \A i \in DOMAIN units : units[i].kind # "http1"
    BY <1>3
  <2>6. ConnectKinds'
    BY <2>4, <2>5, ConnectKindsStep
  <2> QED
    BY <2>1, <2>3, <2>6
<1> QED
  BY <1>1, <1>2, <1>3

LEMMA FlushRequestAgree ==
    ASSUME AgreeInv, FlushRequest(slot["up"]), UNCHANGED <<inputVars, plan, sent, queue>>,
           client' = "connected" => plan # "connect"
    PROVE  /\ Positions' /\ ConnectKinds' /\ out'["up"] = out["up"]
           /\ \A t \in Side : slot'[t] \in {slot[t], NoMessage}
           /\ client' = "connected" \/ UNCHANGED slot
<1> DEFINE w == Http1(slot["up"])
<1>1. \/ UNCHANGED <<out, slot>>
      \/ /\ client' = "connected"
         /\ slot' = [slot EXCEPT !["up"] = NoMessage]
         /\ out' = [out EXCEPT !["down"] = @ \o <<w>>]
  BY FlushRequestSteps
<1>2. CASE UNCHANGED <<out, slot>>
  BY <1>2, EndPositions, ConnectKindsStep
<1>3. CASE /\ client' = "connected"
           /\ slot' = [slot EXCEPT !["up"] = NoMessage]
           /\ out' = [out EXCEPT !["down"] = @ \o <<w>>]
  <2>1. w \in Written /\ Within(w.of, read["up"])
    <3>1. slot["up"] \in Message /\ Within(slot["up"].units, read["up"])
      BY SideTypes, SideNames DEF AgreeInv, Positions, SlotRead
    <3> QED
      BY <3>1 DEF Http1, Message, Written
  <2> HIDE DEF w
  <2>2. <<w>> \in Seq(Written) /\ \A i \in DOMAIN <<w>> : Within(<<w>>[i].of, read["up"])
    BY <2>1
  <2>3. Other("up") = "down" /\ "up" \in Side
    BY DEF Other, Side
  <2>4. /\ out'["down"] = out["down"] \o <<w>> /\ out'["up"] = out["up"]
        /\ \A t \in Side : t # "up" => out'[Other(t)] = out[Other(t)]
    BY <1>3, <2>2, <2>3, OutSides DEF AgreeInv
  <2>5. \A t \in Side : slot'[t] \in {slot[t], NoMessage}
    <3>1. slot \in [Side -> Message]
      BY DEF AgreeInv, TypeInv, TypeOK
    <3> QED
      BY <1>3, <3>1
  <2>6. ASSUME NEW t \in Side
        PROVE  \/ out'[Other(t)] = out[Other(t)]
               \/ \E units \in Seq(Written) :
                    /\ out'[Other(t)] = out[Other(t)] \o units
                    /\ \A i \in DOMAIN units : Within(units[i].of, read[t])
    BY <2>2, <2>3, <2>4
  <2>7. Positions'
    BY <2>5, <2>6, EndPositions
  <2>8. ConnectKinds'
    BY <1>3, ConnectKindsStep
  <2> QED
    BY <1>3, <2>4, <2>5, <2>7, <2>8
<1> QED
  BY <1>1, <1>2, <1>3

\* A callback that takes no input ends, or the loop is idle: nothing is due anew.
LEMMA EndSignals ==
    ASSUME AgreeInv, UNCHANGED <<peerVars, inputVars, signalled>>, handler' \notin Side \/ UNCHANGED handler
    PROVE  Signals' /\ UNCHANGED <<plan, sent, read>>
BY DEF AgreeInv, Signals, peerVars, inputVars

\* InitClient, when the session knows a host.
LEMMA InitClientSteps ==
    ASSUME NEW asked \in {"none", "http1", "both", "http2", "plane"}, InitClient(asked)
    PROVE  \/ (client # "none" \/ asked = "none") /\ UNCHANGED <<client, protocol, down>>
           \/ /\ client = "none" /\ asked # "none" /\ client' = "connecting" /\ protocol' = asked
              /\ asked = "plane" => down' = "plane"
              /\ asked = "http2" => down' = "http2"
              /\ asked \notin {"plane", "http2"} => down' = "http1"
<1>1. CASE ~(client = "none" /\ asked # "none")
  BY <1>1 DEF InitClient
<1>2. CASE client = "none" /\ asked # "none"
  <2>1. /\ client' = "connecting" /\ protocol' = asked
        /\ down' = CASE asked = "plane" -> "plane" [] asked = "http2" -> "http2" [] OTHER -> "http1"
    BY <1>2 DEF InitClient
  <2>2. CASE asked = "plane"
    BY <1>2, <2>1, <2>2
  <2>3. CASE asked = "http2"
    BY <1>2, <2>1, <2>3
  <2>4. CASE asked \notin {"plane", "http2"}
    BY <1>2, <2>1, <2>4
  <2> QED
    BY <2>2, <2>3, <2>4
<1> QED
  BY <1>1, <1>2

LEMMA UpHttpAgree == ASSUME AgreeInv, TypeInv', UpHttpDone PROVE AgreeInv'
<1> DEFINE m == slot["up"]
           asks == m # NoMessage /\ sent["up"][m.units[1]] = "begin"
           asked == CASE ~asks -> "none"
                      [] asks /\ m.h2 -> "both"
                      [] asks /\ ~m.h2 /\ m.connect -> "plane"
                      [] asks /\ ~m.h2 /\ ~m.connect -> "http1"
<1>1. /\ up = "http1" /\ InitClient(asked) /\ FlushRequest(slot["up"]) /\ handler' = "idle"
      /\ UNCHANGED <<peerVars, inputVars, signalled, serverVars, switching, queue, stopped>>
  BY DEF UpHttpDone
<1>2. /\ asked \in {"none", "http1", "both", "plane"}
      /\ asked = "both" => m.h2
      /\ asked = "plane" => m.connect
      /\ asked = "http1" => ~m.h2 /\ ~m.connect
      /\ asked # "none" => m # NoMessage /\ sent["up"][m.units[1]] = "begin"
  <2>0. asks => m # NoMessage /\ sent["up"][m.units[1]] = "begin"
    OBVIOUS
  <2> HIDE DEF m, asks
  <2>1. CASE ~asks
    <3>1. asked = "none"
      BY <2>1
    <3> HIDE DEF asked
    <3> QED
      BY <2>0, <2>1, <3>1
  <2>2. CASE asks /\ m.h2
    <3>1. asked = "both"
      BY <2>2
    <3> HIDE DEF asked
    <3> QED
      BY <2>0, <2>2, <3>1
  <2>3. CASE asks /\ ~m.h2 /\ m.connect
    <3>1. asked = "plane"
      BY <2>3
    <3> HIDE DEF asked
    <3> QED
      BY <2>0, <2>3, <3>1
  <2>4. CASE asks /\ ~m.h2 /\ ~m.connect
    <3>1. asked = "http1"
      BY <2>4
    <3> HIDE DEF asked
    <3> QED
      BY <2>0, <2>4, <3>1
  <2> QED
    BY <2>1, <2>2, <2>3, <2>4
<1>3. asked # "none" => plan # "direct"
  <2> SUFFICES ASSUME asked # "none" PROVE plan # "direct"
    OBVIOUS
  <2>1. m # NoMessage /\ sent["up"][m.units[1]] = "begin"
    BY <1>2
  <2>2. m.units \in Seq(Nat) /\ m.units # <<>> /\ Within(m.units, read["up"])
    BY <2>1, SideTypes, SideNames DEF AgreeInv, Positions, SlotRead
  <2>3. 1 \in DOMAIN m.units
    BY <2>2
  <2>4. /\ m.units[1] \in 1..read["up"] /\ read["up"] \in Nat /\ read["up"] <= Len(sent["up"])
        /\ Len(sent["up"]) \in Nat /\ DOMAIN sent["up"] = 1..Len(sent["up"])
    BY <2>2, <2>3, SideTypes, SideNames DEF Within, AgreeInv
  <2>5. m.units[1] \in DOMAIN sent["up"]
    BY <2>4
  <2> QED
    BY <2>1, <2>5 DEF AgreeInv, AppKinds
<1> HIDE DEF asked, asks
<1>4. UNCHANGED <<plan, sent, read, up, switching>> /\ Signals'
  <2>1. handler' \notin Side
    BY <1>1 DEF Side
  <2> QED
    BY <1>1, <2>1, EndSignals DEF serverVars
<1>5. \/ (client # "none" \/ asked = "none") /\ UNCHANGED <<client, protocol, down>>
      \/ /\ client = "none" /\ asked # "none" /\ client' = "connecting" /\ protocol' = asked
         /\ asked = "plane" => down' = "plane"
         /\ asked # "plane" => down' = "http1"
  <2>1. asked \in {"none", "http1", "both", "http2", "plane"} /\ asked # "http2"
    BY <1>2
  <2> QED
    BY <1>1, <2>1, InitClientSteps
<1>6. client' = "connected" => plan # "connect" /\ client = "connected"
  BY <1>1, <1>5 DEF AgreeInv, SessionsOf
<1>7. /\ Positions' /\ ConnectKinds' /\ out'["up"] = out["up"]
      /\ \A t \in Side : slot'[t] \in {slot[t], NoMessage}
      /\ client' = "connected" \/ UNCHANGED slot
  BY <1>1, <1>4, <1>6, FlushRequestAgree
<1>8. SlotKinds' /\ AppKinds'
  BY <1>4, <1>7, SlotKindsStep, AppKindsStep
<1>9. SessionsOf'
  <2>1. Agreed' => Agreed
    BY <1>4, <1>7, AgreedSame
  <2>2. /\ m.h2 => plan = "h2c"
        /\ m.connect => plan = "connect"
        /\ plan = "connect" /\ m # NoMessage => m.connect
    BY SideNames DEF AgreeInv, SlotKinds, SessionsOf
  <2>3. slot'["up"] \in {slot["up"], NoMessage}
    BY <1>7, SideNames
  <2>4. CASE (client # "none" \/ asked = "none") /\ UNCHANGED <<client, protocol, down>>
    <3>1. handler' # "down" /\ (client = "connecting" => UNCHANGED slot)
      BY <1>1, <1>7, <2>4
    <3>2. plan = "connect" => /\ slot'["up"] # NoMessage => slot'["up"].connect
                              /\ client = "connecting" => slot'["up"].connect
      BY <2>2, <2>3, <3>1 DEF AgreeInv, SessionsOf
    <3> QED
      BY <1>4, <2>1, <2>4, <3>1, <3>2, SessionsStep
  <2>5. CASE /\ client = "none" /\ asked # "none" /\ client' = "connecting" /\ protocol' = asked
             /\ asked = "plane" => down' = "plane"
             /\ asked # "plane" => down' = "http1"
    <3>1. UNCHANGED slot
      BY <1>7, <2>5
    <3>2. plan \in {"get", "connect", "h2c", "other"} /\ (plan = "connect" <=> asked = "plane")
      <4>1. plan \in {"get", "connect", "h2c", "other", "direct"}
        BY ConstantsAssumption DEF AgreeInv, TypeInv, TypeOK
      <4> QED
        BY <1>2, <1>3, <2>2, <2>5, <4>1
    <3>3. asked = "both" => plan = "h2c"
      BY <1>2, <2>2
    <3> QED
      BY <1>1, <1>2, <1>4, <2>1, <2>5, <3>1, <3>2, <3>3 DEF AgreeInv, SessionsOf
  <2> QED
    BY <1>5, <2>4, <2>5
<1> QED
  BY <1>4, <1>7, <1>8, <1>9 DEF AgreeInv

LEMMA UpHttp2Agree == ASSUME AgreeInv, TypeInv', UpHttp2Done \/ UpPlaneDone PROVE AgreeInv'
<1>1. ASSUME UpHttp2Done PROVE AgreeInv'
  <2> DEFINE asked == IF \E q \in Range(queue["up"]) : sent["up"][q[1]] = "frame"
                      THEN "http2" ELSE "none"
  <2>1. /\ up = "http2" /\ InitClient(asked) /\ FlushQueue("up") /\ handler' = "idle"
        /\ UNCHANGED <<peerVars, inputVars, signalled, serverVars, switching, slot, stopped>>
    BY <1>1 DEF UpHttp2Done
  <2>2. asked \in {"none", "http1", "both", "http2", "plane"} /\ asked \in {"none", "http2"}
    OBVIOUS
  <2> HIDE DEF asked
  <2>3. UNCHANGED <<plan, sent, read, up, switching>> /\ Signals'
    <3>1. handler' \notin Side
      BY <2>1 DEF Side
    <3> QED
      BY <2>1, <3>1, EndSignals DEF serverVars
  <2>4. \/ UNCHANGED <<client, protocol, down>>
        \/ client = "none" /\ client' = "connecting" /\ protocol' = "http2" /\ down' = "http2"
    BY <2>1, <2>2, InitClientSteps
  <2>5. Positions' /\ ConnectKinds' /\ out'["up"] = out["up"]
    BY <2>1, <2>3, FlushQueueAgree, SideNames
  <2>6. SlotKinds' /\ AppKinds'
    BY <2>1, <2>3, SlotKindsStep, AppKindsStep
  <2>7. SessionsOf'
    <3>1. Agreed' => Agreed
      BY <2>3, <2>5, AgreedSame
    <3>2. plan \in {"h2c", "direct"} /\ (client = "none" => plan = "direct")
      <4>1. plan \in {"get", "connect", "h2c", "other", "direct"}
        BY ConstantsAssumption DEF AgreeInv, TypeInv, TypeOK
      <4> QED
        BY <2>1, <4>1 DEF AgreeInv, SessionsOf
    <3> QED
      BY <2>1, <2>3, <2>4, <3>1, <3>2 DEF AgreeInv, SessionsOf
  <2> QED
    BY <2>3, <2>5, <2>6, <2>7 DEF AgreeInv
<1>2. ASSUME UpPlaneDone PROVE AgreeInv'
  <2>1. /\ handler' = "idle"
        /\ UNCHANGED <<peerVars, inputVars, signalled, serverVars, clientVars, recvwait, slot,
                       queue, out, stopped>>
    BY <1>2 DEF UpPlaneDone
  <2>2. UNCHANGED <<plan, sent, read, up, client, protocol, down, switching>> /\ Signals'
    <3>1. handler' \notin Side
      BY <2>1 DEF Side
    <3> QED
      BY <2>1, <3>1, EndSignals DEF serverVars, clientVars
  <2>3. Positions' /\ ConnectKinds' /\ SlotKinds' /\ AppKinds'
    BY <2>1, <2>2, EndPositions, ConnectKindsStep, SlotKindsStep, AppKindsStep
  <2>4. SessionsOf'
    <3>1. Agreed' => Agreed
      BY <2>1, <2>2, AgreedSame
    <3> QED
      BY <2>1, <2>2, <3>1 DEF AgreeInv, SessionsOf
  <2> QED
    BY <2>2, <2>3, <2>4 DEF AgreeInv
<1> QED
  BY <1>1, <1>2

\* The down session hands a response over, or changes both sessions.
LEMMA DownHttpAgree == ASSUME AgreeInv, TypeInv', DownHttpDone PROVE AgreeInv'
<1> DEFINE w == Http1(slot["down"])
<1>1. /\ handler = "down" /\ down = "http1"
      /\ UNCHANGED <<peerVars, inputVars, signalled, upgrade, tunnel, client, protocol, queue, stopped>>
      /\ handler' \in {"idle", "crashed"}
      /\ \/ UNCHANGED out
         \/ out' = [out EXCEPT !["up"] = Append(@, w)]
      /\ \/ switching # "" /\ SwitchSessions
         \/ /\ switching = "" \/ UNCHANGED out
            /\ UNCHANGED <<down, up, switching, recvwait>>
            /\ UNCHANGED slot \/ slot' = [slot EXCEPT !["down"] = NoMessage]
  BY DownHttpSteps DEF AgreeInv, ReadEnds
<1>2. UNCHANGED <<plan, sent, read>> /\ Signals'
  <2>1. handler' \notin Side
    BY <1>1 DEF Side
  <2> QED
    BY <1>1, <2>1, EndSignals
<1>3. /\ client = "connected" /\ up = "http1"
      /\ plan \in {"get", "h2c", "other"}
  <2>1. client = "connected"
    BY <1>1 DEF AgreeInv, SessionsOf
  <2>2. plan \in {"get", "connect", "h2c", "other", "direct"}
    BY ConstantsAssumption DEF AgreeInv, TypeInv, TypeOK
  <2>3. plan \in {"get", "h2c", "other"}
    BY <1>1, <2>1, <2>2 DEF AgreeInv, SessionsOf
  <2> QED
    BY <1>1, <2>1, <2>3 DEF AgreeInv, SessionsOf
<1>4. /\ w \in Written /\ Within(w.of, read["down"])
      /\ w.kind = "http1" /\ w.of = slot["down"].units /\ out["up"] \in Seq(Written)
  <2>1. slot["down"] \in Message /\ Within(slot["down"].units, read["down"]) /\ out["up"] \in Seq(Written)
    BY SideTypes, SideNames DEF AgreeInv, Positions, SlotRead
  <2> QED
    BY <2>1 DEF Http1, Message, Written
<1> HIDE DEF w
<1>5. \A t \in Side : slot'[t] \in {slot[t], NoMessage}
  <2>1. slot \in [Side -> Message]
    BY DEF AgreeInv, TypeInv, TypeOK
  <2> QED
    BY <1>1, <2>1 DEF SwitchSessions
<1>6. /\ out'["down"] = out["down"]
      /\ out'["up"] = out["up"] \/ out'["up"] = Append(out["up"], w)
  <2>1. out \in [Side -> Seq(Written)]
    BY DEF AgreeInv, TypeInv, TypeOK
  <2> QED
    BY <1>1, <2>1, SideNames
<1>7. Positions'
  <2>1. /\ <<w>> \in Seq(Written) /\ Append(out["up"], w) = out["up"] \o <<w>>
        /\ \A i \in DOMAIN <<w>> : Within(<<w>>[i].of, read["down"])
    BY <1>4
  <2>2. ASSUME NEW t \in Side
        PROVE  \/ out'[Other(t)] = out[Other(t)]
               \/ \E units \in Seq(Written) :
                    /\ out'[Other(t)] = out[Other(t)] \o units
                    /\ \A i \in DOMAIN units : Within(units[i].of, read[t])
    <3>1. CASE t = "up"
      BY <1>6, <3>1 DEF Other
    <3>2. CASE t = "down"
      <4>1. Other(t) = "up"
        BY <3>2 DEF Other
      <4> QED
        BY <1>6, <2>1, <3>2, <4>1
    <3> QED
      BY <3>1, <3>2 DEF Side
  <2>3. queue' = queue
    BY <1>1
  <2> QED
    BY <1>1, <1>5, <2>2, <2>3, EndPositions
<1>8. SlotKinds'
  <2>1. UNCHANGED switching \/ (switching' = "" /\ slot'["down"] = NoMessage)
    BY <1>1, SideNames DEF SwitchSessions
  <2> QED
    BY <1>2, <1>5, <2>1, SlotKindsStep
<1>9. AppKinds' /\ ConnectKinds'
  BY <1>2, <1>3, AppKindsStep, ConnectKindsStep
<1>10. SessionsOf'
  <2>1. CASE switching # "" /\ SwitchSessions
    <3>1. switching = plan /\ plan \in {"h2c", "other"}
      BY <1>3, <2>1 DEF AgreeInv, SlotKinds, TypeInv, TypeOK
    <3>2. up' = down' /\ (plan = "h2c" => up' = "http2") /\ (plan = "other" => up' = "plane")
      BY <2>1, <3>1 DEF SwitchSessions, SwitchedClass
    <3>3. UNCHANGED <<client, protocol>> /\ handler' # "down"
      BY <1>1
    <3> QED
      BY <1>2, <1>3, <3>1, <3>2, <3>3 DEF AgreeInv, SessionsOf
  <2>2. CASE /\ switching = "" \/ UNCHANGED out
             /\ UNCHANGED <<down, up, switching, recvwait>>
             /\ UNCHANGED slot \/ slot' = [slot EXCEPT !["down"] = NoMessage]
    <3>1. ASSUME Agreed' PROVE Agreed
      <4>1. CASE out'["up"] = out["up"]
        BY <1>2, <3>1, <4>1, AgreedSame
      <4>2. CASE out'["up"] = Append(out["up"], w) /\ out'["up"] # out["up"]
        <5>1. switching = ""
          BY <2>2, <4>2
        <5>2. \A i \in DOMAIN w.of : sent["down"][w.of[i]] # "101"
          BY <1>4, <5>1 DEF AgreeInv, SlotKinds
        <5> QED
          BY <1>2, <1>4, <3>1, <4>2, <5>2, AgreedOne
      <4> QED
        BY <1>6, <4>1, <4>2
    <3>2. UNCHANGED <<plan, client, up, down, protocol>> /\ handler' # "down"
      BY <1>1, <1>2, <2>2
    <3> QED
      BY <1>3, <3>1, <3>2, SessionsStep
  <2> QED
    BY <1>1, <2>1, <2>2
<1> QED
  BY <1>2, <1>7, <1>8, <1>9, <1>10 DEF AgreeInv

LEMMA DownOthersAgree == ASSUME AgreeInv, TypeInv', DownHttp2Done \/ DownPlaneDone PROVE AgreeInv'
<1>1. ASSUME DownHttp2Done PROVE AgreeInv'
  <2>1. /\ handler = "down" /\ down = "http2" /\ FlushQueue("down") /\ handler' = "idle"
        /\ UNCHANGED <<peerVars, inputVars, signalled, serverVars, clientVars, slot, stopped>>
    BY <1>1 DEF DownHttp2Done, ReadEnds
  <2>2. UNCHANGED <<plan, sent, read, up, client, protocol, down, switching>> /\ Signals'
    <3>1. handler' \notin Side
      BY <2>1 DEF Side
    <3> QED
      BY <2>1, <3>1, EndSignals DEF serverVars, clientVars
  <2>3. Positions' /\ ConnectKinds'
    BY <2>1, <2>2, FlushQueueAgree, SideNames
  <2>4. SlotKinds' /\ AppKinds'
    BY <2>1, <2>2, SlotKindsStep, AppKindsStep
  <2>5. SessionsOf'
    <3>1. plan = "h2c" => up = "http2"
      BY <2>1 DEF AgreeInv, SessionsOf
    <3>2. plan = "connect" => /\ slot["up"] # NoMessage => slot["up"].connect
                              /\ client = "connecting" => slot["up"].connect
      BY DEF AgreeInv, SessionsOf
    <3>3. handler' # "down" /\ UNCHANGED slot
      BY <2>1
    <3> QED
      BY <2>2, <3>1, <3>2, <3>3, SessionsStep
  <2> QED
    BY <2>2, <2>3, <2>4, <2>5 DEF AgreeInv
<1>2. ASSUME DownPlaneDone PROVE AgreeInv'
  <2>1. /\ handler' = "idle"
        /\ UNCHANGED <<peerVars, inputVars, signalled, serverVars, clientVars, recvwait, slot,
                       queue, out, stopped>>
    BY <1>2 DEF DownPlaneDone
  <2>2. UNCHANGED <<plan, sent, read, up, client, protocol, down, switching>> /\ Signals'
    <3>1. handler' \notin Side
      BY <2>1 DEF Side
    <3> QED
      BY <2>1, <3>1, EndSignals DEF serverVars, clientVars
  <2>3. Positions' /\ ConnectKinds' /\ SlotKinds' /\ AppKinds'
    BY <2>1, <2>2, EndPositions, ConnectKindsStep, SlotKindsStep, AppKindsStep
  <2>4. SessionsOf'
    <3>1. Agreed' => Agreed
      BY <2>1, <2>2, AgreedSame
    <3> QED
      BY <2>1, <2>2, <3>1 DEF AgreeInv, SessionsOf
  <2> QED
    BY <2>2, <2>3, <2>4 DEF AgreeInv
<1> QED
  BY <1>1, <1>2

\* The outcome of the attempt to connect.
LEMMA OwnWritten ==
    ASSUME NEW k \in {"101", "200", "goaway"}, NEW n
    PROVE  /\ <<Own(k)>> \in Seq(Written)
           /\ \A i \in DOMAIN <<Own(k)>> : /\ Within(<<Own(k)>>[i].of, n)
                                           /\ <<Own(k)>>[i].kind # "http1"
<1>1. Own(k) \in Written /\ Own(k).of = <<>> /\ Own(k).kind = k
  BY ShortSeqs DEF Own, Written
<1> DEFINE w == Own(k)
<1> HIDE DEF w
<1>2. w \in Written /\ w.of = <<>> /\ w.kind = k
  BY <1>1 DEF w
<1>3. <<w>> \in Seq(Written) /\ \A i \in DOMAIN <<w>> : <<w>>[i] = w
  BY <1>2
<1>4. Within(w.of, n) /\ w.kind # "http1"
  BY <1>2, NothingIn DEF Within
<1> QED
  BY <1>3, <1>4 DEF w

\* An answer of the proxy's own to the application.
LEMMA AnswerAgree ==
    ASSUME AgreeInv, UNCHANGED <<inputVars, plan, sent>>, NEW k \in {"101", "200", "goaway"},
           write("up", <<Own(k)>>),
           \A t \in Side : slot'[t] \in {slot[t], NoMessage},
           \A t \in Side : queue'[t] = queue[t] \/ \A n \in DOMAIN queue'[t] : Within(queue'[t][n], read[t])
    PROVE  Positions' /\ ConnectKinds'
<1> DEFINE units == <<Own(k)>>
<1>1. /\ units \in Seq(Written)
      /\ \A i \in DOMAIN units : Within(units[i].of, read["down"]) /\ units[i].kind # "http1"
  BY OwnWritten
<1>2. out' = [out EXCEPT !["up"] = @ \o units]
  BY DEF write
<1> HIDE DEF units
<1>3. out'["up"] = out["up"] \o units /\ out'["down"] = out["down"]
  BY <1>2, SideNames DEF AgreeInv, TypeInv, TypeOK
<1>4. ASSUME NEW t \in Side
      PROVE  \/ out'[Other(t)] = out[Other(t)]
             \/ \E us \in Seq(Written) :
                  /\ out'[Other(t)] = out[Other(t)] \o us
                  /\ \A i \in DOMAIN us : Within(us[i].of, read[t])
  <2>1. CASE t = "up"
    BY <1>3, <2>1 DEF Other
  <2>2. CASE t = "down"
    <3>1. Other(t) = "up"
      BY <2>2 DEF Other
    <3> QED
      BY <1>1, <1>3, <2>2, <3>1
  <2> QED
    BY <2>1, <2>2 DEF Side
<1>5. Positions'
  BY <1>4, EndPositions
<1>6. ConnectKinds'
  BY <1>3, ConnectKindsStep
<1> QED
  BY <1>5, <1>6

LEMMA ConnectedH2Agree == ASSUME AgreeInv, TypeInv', ConnectedH2 PROVE AgreeInv'
<1>1. /\ handler = "idle" /\ client = "connecting" /\ protocol \in {"both", "http2"}
      /\ client' = "connected" /\ down' = "http2"
      /\ UNCHANGED <<peerVars, inputVars, signalled, upgrade, tunnel, protocol, switching,
                     handler, stopped>>
  BY ConnectedH2Steps DEF Connecting
<1>2. \/ /\ up = "http1" /\ slot["up"].h2 /\ up' = "http2"
         /\ queue' = [queue EXCEPT !["up"] = <<slot["up"].units>>]
         /\ slot' = [slot EXCEPT !["up"] = NoMessage]
         /\ write("up", <<Own("101")>>)
      \/ up = "http2" /\ FlushQueue("up") /\ UNCHANGED <<up, slot>>
      \/ /\ up # "http2" /\ ~(up = "http1" /\ slot["up"].h2)
         /\ UNCHANGED <<up, slot, queue, out, recvwait>>
  BY ConnectedH2Steps
<1>3. UNCHANGED <<plan, sent, read>> /\ Signals'
  BY <1>1, EndSignals
\* protocol_ says who asked: an upgrade over TLS, or a session that has switched.
<1>4. \/ plan = "h2c" /\ up = "http1" /\ slot["up"].h2
      \/ plan = "direct" /\ up = "http2"
  <2>1. plan \in {"get", "connect", "h2c", "other", "direct"}
    BY ConstantsAssumption DEF AgreeInv, TypeInv, TypeOK
  <2>2. plan \in {"h2c", "direct"}
    BY <1>1, <2>1 DEF AgreeInv, SessionsOf
  <2> QED
    BY <1>1, <2>2 DEF AgreeInv, SessionsOf
<1>5. \/ /\ up = "http1" /\ slot["up"].h2 /\ up' = "http2"
         /\ queue' = [queue EXCEPT !["up"] = <<slot["up"].units>>]
         /\ slot' = [slot EXCEPT !["up"] = NoMessage]
         /\ write("up", <<Own("101")>>)
      \/ up = "http2" /\ FlushQueue("up") /\ UNCHANGED <<up, slot>>
  BY <1>2, <1>4
<1>6. \A t \in Side : slot'[t] \in {slot[t], NoMessage}
  <2>1. slot \in [Side -> Message]
    BY DEF AgreeInv, TypeInv, TypeOK
  <2> QED
    BY <1>5, <2>1
<1>7. Positions' /\ ConnectKinds'
  <2>1. CASE FlushQueue("up") /\ UNCHANGED <<up, slot>>
    BY <1>1, <1>3, <2>1, FlushQueueAgree, SideNames
  <2>2. CASE /\ queue' = [queue EXCEPT !["up"] = <<slot["up"].units>>]
             /\ write("up", <<Own("101")>>)
    <3>1. \A t \in Side : queue'[t] = queue[t] \/ \A n \in DOMAIN queue'[t] : Within(queue'[t][n], read[t])
      <4> DEFINE us == slot["up"].units
      <4>1. Within(us, read["up"]) /\ queue \in [Side -> Seq(Seq(Nat))]
        BY SideNames DEF AgreeInv, Positions, SlotRead, TypeInv, TypeOK
      <4> HIDE DEF us
      <4>2. \A n \in DOMAIN <<us>> : <<us>>[n] = us
        OBVIOUS
      <4>3. queue' = [queue EXCEPT !["up"] = <<us>>]
        BY <2>2 DEF us
      <4> QED
        BY <4>1, <4>2, <4>3
    <3> QED
      BY <1>1, <1>3, <1>6, <2>2, <3>1, AnswerAgree
  <2> QED
    BY <1>5, <2>1, <2>2
<1>8. SlotKinds' /\ AppKinds'
  <2>1. plan = "h2c" /\ up = "http2" => up' = "http2"
    BY <1>5
  <2> QED
    BY <1>1, <1>3, <1>6, <2>1, SlotKindsStep, AppKindsStep
<1>9. SessionsOf'
  <2>1. up' = "http2"
    BY <1>5
  <2> QED
    BY <1>1, <1>3, <1>4, <2>1 DEF AgreeInv, SessionsOf
<1> QED
  BY <1>3, <1>7, <1>8, <1>9 DEF AgreeInv

LEMMA RefusedAgree == ASSUME AgreeInv, TypeInv', Refused PROVE AgreeInv'
<1>1. /\ client = "connecting" /\ protocol = "http2" /\ client' = "refused"
      /\ write("up", <<Own("goaway")>>)
      /\ UNCHANGED <<peerVars, inputVars, signalled, serverVars, protocol, down, switching, slot,
                     queue, handler, stopped>>
  BY DEF Refused, Connecting
<1>2. UNCHANGED <<plan, sent, read, up>> /\ Signals'
  BY <1>1, EndSignals DEF serverVars
<1>3. Positions' /\ ConnectKinds'
  BY <1>1, <1>2, AnswerAgree
<1>4. SlotKinds' /\ AppKinds'
  BY <1>1, <1>2, SlotKindsStep, AppKindsStep
<1>5. SessionsOf'
  <2>1. plan \in {"get", "connect", "h2c", "other", "direct"}
    BY ConstantsAssumption DEF AgreeInv, TypeInv, TypeOK
  <2>2. plan = "direct"
    BY <1>1, <2>1 DEF AgreeInv, SessionsOf
  <2>3. handler # "down"
    BY <1>1 DEF AgreeInv, SessionsOf
  <2> QED
    BY <1>1, <1>2, <2>2, <2>3 DEF AgreeInv, SessionsOf
<1> QED
  BY <1>2, <1>3, <1>4, <1>5 DEF AgreeInv

LEMMA ConnectedAgree == ASSUME AgreeInv, TypeInv', Connected PROVE AgreeInv'
<1>1. /\ handler = "idle" /\ client = "connecting" /\ client' = "connected"
      /\ UNCHANGED <<peerVars, inputVars, signalled, upgrade, protocol, down, switching,
                     handler, stopped>>
  BY ConnectedSteps DEF AgreeInv, Connecting
<1>2. \/ /\ up = "http1" /\ slot["up"].connect /\ up' = "plane" /\ tunnel' = TRUE
         /\ slot' = [slot EXCEPT !["up"] = NoMessage]
         /\ write("up", <<Own("200")>>)
         /\ UNCHANGED queue
      \/ /\ up = "http1" /\ ~slot["up"].connect
         /\ FlushRequest(slot["up"]) /\ UNCHANGED <<up, tunnel, queue>>
      \/ up = "http2" /\ FlushQueue("up") /\ UNCHANGED <<up, tunnel, slot>>
      \/ up = "plane" /\ UNCHANGED <<up, tunnel, slot, out, queue, recvwait>>
  BY ConnectedSteps DEF AgreeInv
<1>3. UNCHANGED <<plan, sent, read>> /\ Signals'
  BY <1>1, EndSignals
<1>4. /\ plan \in {"get", "connect", "h2c", "other", "direct"}
      /\ slot["up"].connect => plan = "connect"
      /\ slot \in [Side -> Message]
  BY ConstantsAssumption, SideNames DEF AgreeInv, SlotKinds, TypeInv, TypeOK
<1>5. CASE /\ up = "http1" /\ slot["up"].connect /\ up' = "plane"
           /\ slot' = [slot EXCEPT !["up"] = NoMessage]
           /\ write("up", <<Own("200")>>)
           /\ UNCHANGED queue
  <2>1. plan = "connect" /\ \A t \in Side : slot'[t] \in {slot[t], NoMessage}
    BY <1>4, <1>5
  <2>2. Positions' /\ ConnectKinds'
    BY <1>1, <1>3, <1>5, <2>1, AnswerAgree
  <2>3. SlotKinds' /\ AppKinds'
    BY <1>1, <1>3, <2>1, SlotKindsStep, AppKindsStep
  <2>4. SessionsOf'
    <3>1. slot'["up"] = NoMessage
      BY <1>4, <1>5, SideNames
    <3> QED
      BY <1>1, <1>3, <1>5, <2>1, <3>1 DEF AgreeInv, SessionsOf
  <2> QED
    BY <1>3, <2>2, <2>3, <2>4 DEF AgreeInv
<1>6. CASE /\ up = "http1" /\ ~slot["up"].connect
           /\ FlushRequest(slot["up"]) /\ UNCHANGED <<up, queue>>
  <2>1. plan \in {"get", "h2c", "other"}
    BY <1>1, <1>4, <1>6 DEF AgreeInv, SessionsOf
  <2>2. /\ Positions' /\ ConnectKinds' /\ out'["up"] = out["up"]
        /\ \A t \in Side : slot'[t] \in {slot[t], NoMessage}
    BY <1>1, <1>3, <1>6, <2>1, FlushRequestAgree
  <2>3. SlotKinds' /\ AppKinds'
    BY <1>1, <1>3, <1>6, <2>2, SlotKindsStep, AppKindsStep
  <2>4. SessionsOf'
    <3>1. Agreed' => Agreed
      BY <1>3, <2>2, AgreedSame
    <3> QED
      BY <1>1, <1>3, <1>6, <2>1, <3>1 DEF AgreeInv, SessionsOf
  <2> QED
    BY <1>3, <2>2, <2>3, <2>4 DEF AgreeInv
<1>7. CASE up = "http2" /\ FlushQueue("up") /\ UNCHANGED <<up, slot>>
  <2>1. plan = "direct"
    BY <1>1, <1>4, <1>7 DEF AgreeInv, SessionsOf
  <2>2. Positions' /\ ConnectKinds'
    BY <1>1, <1>3, <1>7, FlushQueueAgree, SideNames
  <2>3. SlotKinds' /\ AppKinds'
    BY <1>1, <1>3, <1>7, SlotKindsStep, AppKindsStep
  <2>4. SessionsOf'
    BY <1>1, <1>3, <1>7, <2>1 DEF AgreeInv, SessionsOf
  <2> QED
    BY <1>3, <2>2, <2>3, <2>4 DEF AgreeInv
<1>8. CASE up = "plane" /\ UNCHANGED <<up, slot, out, queue>>
  <2>1. plan = "other"
    BY <1>1, <1>4, <1>8 DEF AgreeInv, SessionsOf
  <2>2. Positions' /\ ConnectKinds' /\ SlotKinds' /\ AppKinds'
    BY <1>1, <1>3, <1>8, EndPositions, ConnectKindsStep, SlotKindsStep, AppKindsStep
  <2>3. SessionsOf'
    BY <1>1, <1>3, <1>8, <2>1 DEF AgreeInv, SessionsOf
  <2> QED
    BY <1>3, <2>2, <2>3 DEF AgreeInv
<1> QED
  BY <1>2, <1>5, <1>6, <1>7, <1>8

LEMMA RemoveAgree == ASSUME AgreeInv, TypeInv', removeSocket \/ UNCHANGED vars PROVE AgreeInv'
<1>1. /\ UNCHANGED <<peerVars, inputVars, signalled, serverVars, clientVars, recvwait, slot,
                     queue, out, stopped>>
      /\ handler' = "closed" \/ UNCHANGED handler
  BY DEF removeSocket, vars, peerVars, inputVars, serverVars, clientVars
<1>2. UNCHANGED <<plan, sent, read, up, client, protocol, down, switching>> /\ Signals'
  <2>1. "closed" \notin Side
    BY DEF Side
  <2> QED
    BY <1>1, <2>1, EndSignals DEF serverVars, clientVars
<1>3. Positions' /\ ConnectKinds' /\ SlotKinds' /\ AppKinds'
  BY <1>1, <1>2, EndPositions, ConnectKindsStep, SlotKindsStep, AppKindsStep
<1>4. SessionsOf'
  <2>1. Agreed' => Agreed
    BY <1>1, <1>2, AgreedSame
  <2> QED
    BY <1>1, <1>2, <2>1 DEF AgreeInv, SessionsOf
<1> QED
  BY <1>2, <1>3, <1>4 DEF AgreeInv

LEMMA NextAgree == AgreeInv /\ [Next]_vars => AgreeInv'
<1> SUFFICES ASSUME AgreeInv, [Next]_vars PROVE AgreeInv'
  OBVIOUS
<1>1. TypeInv'
  BY NextTypeInv DEF AgreeInv
<1>2. ASSUME NEW s \in Side, Callback(s) PROVE AgreeInv'
  BY <1>1, <1>2, ReadcbAgree, TakeHttp2Agree, UpHttpAgree, UpHttp2Agree, DownHttpAgree,
     DownOthersAgree, ParseAgree, CopyAgree, SideNames DEF Callback
<1>3. ASSUME NEW s \in Side, Closed(s) PROVE AgreeInv'
  BY <1>1, <1>3, RemoveAgree DEF Closed
<1>4. ASSUME Outcome PROVE AgreeInv'
  BY <1>1, <1>4, ConnectedH2Agree, RefusedAgree, ConnectedAgree, RemoveAgree DEF Outcome, Failed
<1> QED
  BY <1>1, <1>2, <1>3, <1>4, PeersAgree, RemoveAgree DEF Next

LEMMA AgreeConnected == AgreeInv => SessionsAgree
<1> SUFFICES ASSUME AgreeInv, client = "connected" PROVE up = down
  BY DEF SessionsAgree
<1>1. plan \in {"get", "connect", "h2c", "other", "direct"}
  BY ConstantsAssumption DEF AgreeInv, TypeInv, TypeOK
<1> QED
  BY <1>1 DEF AgreeInv, SessionsOf

(***************************************************************************)
(* The two sessions of an established connection speak the same protocol,  *)
(* whatever the application asks for and however the peers behave: with    *)
(* pipelined requests, interim responses, a preface in pieces and tunnel   *)
(* bytes before the answer.                                                *)
(***************************************************************************)
THEOREM SessionsAgreeCorrect == Spec => []SessionsAgree
BY InitAgree, NextAgree, AgreeConnected, PTL DEF Spec
=============================================================================
